------------------------------- MODULE Claims -------------------------------
(***************************************************************************)
(* Exclusive claims on resources and the queues of agents that wait for     *)
(* them: the claim handlers, the claim half of the store, the expiry sweep  *)
(* and the GitHub webhook that releases claims.                             *)
(*                                                                          *)
(* Every store call is one SERIALIZABLE transaction (RetryTx), hence one    *)
(* action; a handler that makes several calls is several actions.  A        *)
(* transaction that fails, is rolled back or is retried changes nothing, so *)
(* it is a stuttering step, except where the handler goes on after it.      *)
(*                                                                          *)
(* The tables are functions from row ids to rows.  A row's id is the        *)
(* request for which it was inserted: a request is granted one claim at     *)
(* most, at once or by promotion of its one queue entry.  Types, metadata   *)
(* and session columns are carried along and never looked at.               *)
(***************************************************************************)
EXTENDS TimeText

CONSTANTS
  Req,          \* the POST /api/v1/claims requests; each is made once
  Agent,        \* values of X-Agent-ID
  Anonymous,    \* an absent X-Agent-ID, or the webhook
  Resource,     \* values of claims.resource
  Duration,     \* values of expires_in, in ticks; may be zero or negative
  DefaultTTL,   \* seconds an entry waits when int(dur.Seconds()) <= 0
  MaxLag,       \* age in ticks of a process's time.Now() when it commits
  Horizon,      \* last tick at which a request is served (model bound)
  MaxTime,      \* last tick of the clock (model bound)
  NoReq         \* not a request

ASSUME ClaimsAssumption ==
  /\ Anonymous \notin Agent
  /\ NoReq \notin Req
  /\ Duration \subseteq Int
  /\ DefaultTTL \in Nat \ {0}
  /\ MaxLag \in Nat
  /\ Horizon \in Nat
  /\ MaxTime \in Nat

VARIABLES
  now,      \* the wall clock
  claims,   \* table claims
  queue,    \* table claim_queue
  req,      \* the create requests: what they asked for and how far they are
  hooked    \* claims a webhook delivery has listed and not yet released

vars == <<now, claims, queue, req, hooked>>

Claim ==
  [resource : Resource, agent : Agent,
   status : {"active", "released", "expired"}, expires_at : Int]

Waiter ==
  [resource : Resource, agent : Agent, expires_in_sec : Nat \ {0}, queued_at : Nat]

\* granted: the claim was inserted (201); queued: the queue entry was (202); if
\* the answer to the commit is lost the reply is 500, but the row is there.
\* failed: 500 or no reply, and no row.
Request ==
  [pc : {"idle"}]
    \cup [pc : {"conflict"}, resource : Resource, agent : Agent, dur : Duration]
    \cup [pc : {"granted", "queued", "failed"}, resource : Resource]

TypeOK ==
  /\ now \in 0 .. MaxTime
  /\ DOMAIN claims \subseteq Req /\ claims \in [DOMAIN claims -> Claim]
  /\ DOMAIN queue \subseteq Req /\ queue \in [DOMAIN queue -> Waiter]
  /\ req \in [Req -> Request]
  /\ hooked \subseteq DOMAIN claims
-----------------------------------------------------------------------------
(* Rows and tables. *)

Insert(table, id, row) ==
  [x \in DOMAIN table \cup {id} |-> IF x = id THEN row ELSE table[x]]

Delete(table, ids) == [x \in DOMAIN table \ ids |-> table[x]]

IsActive(c, id) == id \in DOMAIN c /\ c[id].status = "active"

\* The rows of the unique index idx_claims_active_resource for a resource.
Active(c, res) == {id \in DOMAIN c : IsActive(c, id) /\ c[id].resource = res}

Waiting(q, res) == {w \in DOMAIN q : q[w].resource = res}

\* Fault: no ORDER BY.
EarliestAnyOrder(q, res) == Waiting(q, res)

\* ORDER BY queued_at ASC LIMIT 1: the order is that of the texts, and the
\* choice among equal texts is the database's.
Earliest(q, res) ==
  {w \in Waiting(q, res) :
     \A v \in Waiting(q, res) : ~TextLess(q[v].queued_at, q[w].queued_at)}

\* A process reads its clock before its transaction commits; the processes
\* of the two replicas read different clocks.
Stamp == {t \in 0 .. now : now - t <= MaxLag}

\* The claim that the waiter w is promoted to by a transaction at time t.
Promoted(w, t) ==
  [resource |-> queue[w].resource, agent |-> queue[w].agent,
   status |-> "active",
   expires_at |-> t + queue[w].expires_in_sec * TicksPerSecond]

\* Faults: no default for a duration that is not positive; minutes are stored.
WaitSecondsNoDefault(d) == d \div TicksPerSecond

WaitMinutes(d) ==
  IF d < TicksPerSecond THEN DefaultTTL ELSE d \div (60 * TicksPerSecond)

\* expiresInSec := int(dur.Seconds()), then 3600 unless it is positive.
WaitSeconds(d) == IF d < TicksPerSecond THEN DefaultTTL ELSE d \div TicksPerSecond

Reply(r, pc, res) == req' = [req EXCEPT ![r] = [pc |-> pc, resource |-> res]]
-----------------------------------------------------------------------------
(* POST /api/v1/claims: claimCreate. *)

\* CreateClaim inserts the claim: no active claim on the resource exists.
GrantClaim(r, a, res, d) ==
  /\ req[r].pc = "idle" /\ now <= Horizon
  /\ Active(claims, res) = {}
  /\ \E t \in Stamp :
       claims' = Insert(claims, r, [resource |-> res, agent |-> a,
                                    status |-> "active", expires_at |-> t + d])
  /\ Reply(r, "granted", res)
  /\ UNCHANGED <<now, queue, hooked>>

\* The unique index refuses the INSERT (23505): CreateClaim returns
\* ErrConflict, and claimCreate goes on to EnqueueClaim.
RefuseClaim(r, a, res, d) ==
  /\ req[r].pc = "idle" /\ now <= Horizon
  /\ Active(claims, res) # {}
  /\ req' = [req EXCEPT ![r] = [pc |-> "conflict", resource |-> res,
                                agent |-> a, dur |-> d]]
  /\ UNCHANGED <<now, claims, queue, hooked>>

\* A transaction of its own, whatever became of the claim that was in the
\* way.  queued_at is read before RetryTx.
EnqueueClaim(r) ==
  /\ req[r].pc = "conflict" /\ now <= Horizon
  /\ \E t \in Stamp :
       queue' = Insert(queue, r, [resource |-> req[r].resource,
                                  agent |-> req[r].agent,
                                  expires_in_sec |-> WaitSeconds(req[r].dur),
                                  queued_at |-> t])
  /\ Reply(r, "queued", req[r].resource)
  /\ UNCHANGED <<now, claims, hooked>>

\* EnqueueClaim fails for good, the client gives up (its context cancels
\* RetryTx) or the server dies: the request ends without a queue entry.
FailEnqueue(r) ==
  /\ req[r].pc = "conflict"
  /\ Reply(r, "failed", req[r].resource)
  /\ UNCHANGED <<now, claims, queue, hooked>>
-----------------------------------------------------------------------------
(* DELETE /api/v1/claims/{id}: claimRelease. *)

\* The ownership check.  It is made before the transaction, but nothing
\* deletes a claim or changes its agent: the answer is still true in it.
MayAct(caller, id) == caller \in {Anonymous, claims[id].agent}

\* Faults of ReleaseClaim's transaction: it ends the claim and promotes nobody;
ReleaseTxNoPromotion(id) ==
  /\ claims' = [claims EXCEPT ![id].status = "released"]
  /\ UNCHANGED queue

\* the waiter is popped even if the promotion hits the unique index;
ReleaseTxNoRollback(id) ==
  LET res   == claims[id].resource
      freed == [claims EXCEPT ![id].status = "released"]
  IN \E w \in Earliest(queue, res), t \in Stamp :
       /\ claims' = IF Active(freed, res) = {} THEN Insert(freed, w, Promoted(w, t)) ELSE freed
       /\ queue' = Delete(queue, {w})

\* the queue entry of the promoted waiter is not deleted;
ReleaseTxNoDelete(id) ==
  LET freed == [claims EXCEPT ![id].status = "released"]
  IN /\ \E w \in Earliest(queue, claims[id].resource), t \in Stamp :
          claims' = Insert(freed, w, Promoted(w, t))
     /\ UNCHANGED queue

\* the UPDATE is by resource instead of by id.
ReleaseTxByResource(id) ==
  /\ claims' = [c \in DOMAIN claims |->
                  IF claims[c].resource = claims[id].resource
                    THEN [claims[c] EXCEPT !.status = "released"] ELSE claims[c]]
  /\ Waiting(queue, claims[id].resource) = {}
  /\ UNCHANGED queue

\* ReleaseClaim's transaction.  The UPDATE does not look at the status; when
\* the claim was dead and another is active, the INSERT of the promoted
\* waiter hits the unique index and the transaction is rolled back.
ReleaseTx(id) ==
  LET res   == claims[id].resource
      freed == [claims EXCEPT ![id].status = "released"]
  IN \/ /\ Waiting(queue, res) = {}
        /\ claims' = freed
        /\ UNCHANGED queue
     \/ /\ Active(freed, res) = {}
        /\ \E w \in Earliest(queue, res), t \in Stamp :
             /\ claims' = Insert(freed, w, Promoted(w, t))
             /\ queue' = Delete(queue, {w})

ReleaseClaim(id, caller) ==
  /\ id \in DOMAIN claims
  /\ MayAct(caller, id)
  /\ ReleaseTx(id)
  /\ UNCHANGED <<now, req, hooked>>

\* PATCH /api/v1/claims/{id}: claimRenew computes the new expiry, RenewClaim
\* writes it if the claim is still active.
RenewClaim(id, caller, d) ==
  /\ IsActive(claims, id)
  /\ MayAct(caller, id)
  /\ \E t \in Stamp : claims' = [claims EXCEPT ![id].expires_at = t + d]
  /\ UNCHANGED <<now, queue, req, hooked>>
-----------------------------------------------------------------------------
(* GitHub webhook: releaseClaims, for a merged pull request or a deleted    *)
(* branch, lists the active claims on a resource, then releases each.       *)

WebhookList(res) ==
  /\ hooked' = hooked \cup Active(claims, res)
  /\ UNCHANGED <<now, claims, queue, req>>

\* An error of ReleaseClaim is logged, the loop goes on.
WebhookRelease(id) ==
  /\ id \in hooked
  /\ hooked' = hooked \ {id}
  /\ ReleaseTx(id) \/ UNCHANGED <<claims, queue>>
  /\ UNCHANGED <<now, req>>

\* The process that serves a delivery ends: what it has listed is forgotten.
WebhookLost(ids) ==
  /\ hooked' = hooked \ ids
  /\ UNCHANGED <<now, claims, queue, req>>
-----------------------------------------------------------------------------
(* ExpireOldClaims, which runClaimExpiry calls every minute: purge the      *)
(* waiters past their TTL (a comparison of times), expire the claims past   *)
(* their expiry (a comparison of texts) and promote a waiter on each of     *)
(* their resources.  The errors it skips abort the transaction, so that it  *)
(* is all done or not at all.                                               *)

\* Fault: stale entries are never purged.
StaleWaitersKept(t) == {}

StaleWaiters(t) ==
  {w \in DOMAIN queue :
     TimeLess(queue[w].queued_at + queue[w].expires_in_sec * TicksPerSecond, t)}

\* Faults: the comparison is the wrong way round; only claims that somebody
\* waits for are expired.
ExpiredClaimsSwapped(t) ==
  {id \in DOMAIN claims : IsActive(claims, id) /\ TextLess(t, claims[id].expires_at)}

ExpiredClaimsIfAwaited(t) ==
  {id \in DOMAIN claims : /\ IsActive(claims, id)
                          /\ TextLess(claims[id].expires_at, t)
                          /\ Waiting(queue, claims[id].resource) # {}}

ExpiredClaims(t) ==
  {id \in DOMAIN claims : IsActive(claims, id) /\ TextLess(claims[id].expires_at, t)}

\* Fault: SELECT DISTINCT resource without its condition on the status.
FreedResourcesAnyStatus(t) ==
  {claims[id].resource : id \in {c \in DOMAIN claims : TextLess(claims[c].expires_at, t)}}

FreedResources(t) == {claims[id].resource : id \in ExpiredClaims(t)}

LiveQueue(t) == Delete(queue, StaleWaiters(t))

ServedResources(t) == {res \in FreedResources(t) : Waiting(LiveQueue(t), res) # {}}

SweptClaims(t) ==
  [id \in DOMAIN claims |->
     IF id \in ExpiredClaims(t) THEN [claims[id] EXCEPT !.status = "expired"]
                               ELSE claims[id]]

ExpireOldClaims ==
  /\ \E t \in Stamp : \E next \in [ServedResources(t) -> Req] :
       LET promoted == {next[res] : res \in ServedResources(t)}
       IN /\ \A res \in ServedResources(t) : next[res] \in Earliest(LiveQueue(t), res)
          /\ claims' = [id \in DOMAIN claims \cup promoted |->
                          IF id \in promoted THEN Promoted(id, t) ELSE SweptClaims(t)[id]]
          /\ queue' = Delete(LiveQueue(t), promoted)
  /\ UNCHANGED <<now, req, hooked>>

Tick ==
  /\ now < MaxTime
  /\ now' = now + 1
  /\ UNCHANGED <<claims, queue, req, hooked>>
-----------------------------------------------------------------------------
Init ==
  /\ now = 0
  /\ claims = [id \in {} |-> NoReq]
  /\ queue = [id \in {} |-> NoReq]
  /\ req = [r \in Req |-> [pc |-> "idle"]]
  /\ hooked = {}

Create(r) ==
  \E a \in Agent, res \in Resource, d \in Duration :
    GrantClaim(r, a, res, d) \/ RefuseClaim(r, a, res, d)

Next ==
  \/ \E r \in Req : Create(r) \/ EnqueueClaim(r) \/ FailEnqueue(r)
  \/ \E id \in Req, caller \in Agent \cup {Anonymous} :
       ReleaseClaim(id, caller) \/ \E d \in Duration : RenewClaim(id, caller, d)
  \/ \E res \in Resource : WebhookList(res)
  \/ \E id \in Req : WebhookRelease(id)
  \/ \E ids \in SUBSET hooked : WebhookLost(ids)
  \/ ExpireOldClaims
  \/ Tick

Spec == Init /\ [][Next]_vars
-----------------------------------------------------------------------------
(* Properties. *)

\* Exclusive claims: a resource has at most one active claim.  The sweep
\* ignores the error of its INSERT and relies on it.
OneHolder ==
  \A res \in Resource : \A i, j \in Active(claims, res) : i = j

\* No waiter is lost: one leaves the queue only by holding, in the same
\* transaction, an active claim on what it waited for, or when its TTL has
\* passed.  A promotion that is rolled back leaves it queued.
NoWaiterLost ==
  [][\A w \in DOMAIN queue \ DOMAIN queue' :
       \/ /\ IsActive(claims', w)
          /\ claims'[w].resource = queue[w].resource
          /\ claims'[w].agent = queue[w].agent
       \/ queue[w].queued_at + queue[w].expires_in_sec * TicksPerSecond < now]_vars

\* Release and expiry promote atomically: a step after which a held resource
\* is free leaves nobody queued on it.
HandoverAtomic ==
  [][\A res \in Resource :
       Active(claims, res) # {} /\ Active(claims', res) = {}
         => Waiting(queue', res) = {}]_vars

\* FIFO, as far as the order of texts gives it: a waiter is promoted only if
\* nobody left in the queue came a second or more before it.
FirstComeFirstServed ==
  [][\A w \in DOMAIN queue \cap DOMAIN claims', v \in DOMAIN queue \cap DOMAIN queue' :
       queue[v].resource = queue[w].resource
         => queue[w].queued_at < queue[v].queued_at + TicksPerSecond]_vars

\* A claim that ended is never active again, and a call on it (a late or
\* repeated release, a webhook's stale list) does not touch the claim that
\* holds the resource now.
EndedClaimsAreInert ==
  [][\A id \in DOMAIN claims :
       claims[id].status # "active" =>
         /\ claims'[id].status # "active"
         /\ claims'[id] # claims[id] =>
              \A h \in Active(claims, claims[id].resource) : claims'[h] = claims[h]]_vars

\* The sweep takes a claim away at most a second before its expiry: that is
\* all the order of texts can be wrong by.
NoEarlyExpiry ==
  [][\A id \in DOMAIN claims :
       IsActive(claims, id) /\ claims'[id].status = "expired"
         => claims[id].expires_at < now + TicksPerSecond]_vars

\* Whoever waits behind a claim is waiting for somebody: the reply 202 says
\* that "the resource is held and the caller has been queued".
WaitersHaveHolder ==
  \A w \in DOMAIN queue : Active(claims, queue[w].resource) # {}

\* No request waits for ever: the holder may crash, and so may the server, but
\* the sweep ends its claim or the wait (under the fairness of Service).
WaitEnds ==
  \A r \in Req : r \in DOMAIN queue ~> r \notin DOMAIN queue

\* A holder that neither renews nor releases loses its claim.
OverdueClaimEnds ==
  \A id \in Req, e \in (0 - MaxTime) .. (MaxTime - TicksPerSecond) :
    IsActive(claims, id) /\ claims[id].expires_at = e
      ~> ~(IsActive(claims, id) /\ claims[id].expires_at = e)
-----------------------------------------------------------------------------
(* Each resource, seen through its tables, is a ClaimLease. *)

Holder(res) ==
  IF Active(claims, res) = {} THEN NoReq ELSE CHOOSE id \in Active(claims, res) : TRUE

\* The requests for a resource whose claim ended or that were purged.
Over(res) ==
  {r \in Req :
     \/ r \in DOMAIN claims /\ claims[r].resource = res /\ ~IsActive(claims, r)
     \/ /\ req[r].pc = "queued" /\ req[r].resource = res
        /\ r \notin DOMAIN queue \cup DOMAIN claims}

Lease ==
  INSTANCE ClaimLease WITH
    Nobody <- NoReq,
    holder <- [res \in Resource |-> Holder(res)],
    waiting <- [res \in Resource |-> Waiting(queue, res)],
    over <- [res \in Resource |-> Over(res)]

\* The tables implement the lease: no matter how requests, sweeps and
\* webhooks interleave, requests take turns.
LeaseSpec == Lease!Spec
=============================================================================
