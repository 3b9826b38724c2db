---------------------------- MODULE ClaimsProofs ----------------------------
(***************************************************************************)
(* Proofs about Claims, for every set of requests, agents and resources,    *)
(* every lag and every bound.                                               *)
(***************************************************************************)
EXTENDS Claims, TimeTextProofs, TLAPS

\* A request has a row in one table at most, and none before its reply.
RowsFollowReplies ==
  /\ DOMAIN claims \cap DOMAIN queue = {}
  /\ \A r \in DOMAIN claims \cup DOMAIN queue : req[r].pc \notin {"idle", "conflict"}

\* The inductive invariant.
Inv == TypeOK /\ OneHolder /\ RowsFollowReplies

USE ClaimsAssumption, TicksPerSecondAssumption
-----------------------------------------------------------------------------
LEMMA WaitSecondsPositive == 
  ASSUME NEW d \in Duration 
  PROVE  WaitSeconds(d) \in Nat \ {0}
<1>1. CASE d < TicksPerSecond
  BY <1>1 DEF WaitSeconds
<1>2. CASE ~(d < TicksPerSecond)
  <2>1. d \in Int /\ d >= TicksPerSecond /\ TicksPerSecond > 0
    BY <1>2
  <2>2. d \div TicksPerSecond \in Int /\ d \div TicksPerSecond >= 1
    BY <2>1
  <2>3. QED  BY <1>2, <2>2 DEF WaitSeconds
<1>3. QED  BY <1>1, <1>2

LEMMA InitInv == Init => Inv
BY DEF Init, Inv, TypeOK, OneHolder, RowsFollowReplies, Active, IsActive, Request, Claim, Waiter
-----------------------------------------------------------------------------
(* The tables. *)

LEMMA InsertType ==
  ASSUME NEW Row, NEW c, DOMAIN c \subseteq Req, c \in [DOMAIN c -> Row],
         NEW id \in Req, NEW row \in Row
  PROVE  /\ DOMAIN Insert(c, id, row) = DOMAIN c \cup {id}
         /\ Insert(c, id, row) \in [DOMAIN c \cup {id} -> Row]
BY DEF Insert

LEMMA DeleteType ==
  ASSUME NEW Row, NEW c, c \in [DOMAIN c -> Row], NEW ids
  PROVE  /\ DOMAIN Delete(c, ids) = DOMAIN c \ ids
         /\ Delete(c, ids) \in [DOMAIN c \ ids -> Row]
BY DEF Delete

\* A promoted waiter becomes a claim on what it waited for.
LEMMA PromotedType ==
  ASSUME TypeOK, NEW w \in DOMAIN queue, NEW t \in Stamp
  PROVE  /\ Promoted(w, t) \in Claim
         /\ Promoted(w, t).status = "active"
         /\ Promoted(w, t).resource = queue[w].resource
         /\ Promoted(w, t).agent = queue[w].agent
<1>1. t \in Int /\ queue[w] \in Waiter
  BY DEF TypeOK, Stamp
<1>2. t + queue[w].expires_in_sec * TicksPerSecond \in Int
  BY <1>1 DEF Waiter
<1>3. QED  BY <1>1, <1>2 DEF Promoted, Claim, Waiter
-----------------------------------------------------------------------------
(* Each action preserves the invariant. *)

LEMMA ReleaseTxInv ==
  ASSUME Inv, NEW id \in DOMAIN claims, ReleaseTx(id),
         UNCHANGED <<now, req>>, hooked' \subseteq hooked
  PROVE  Inv'
<1> DEFINE res == claims[id].resource
           freed == [claims EXCEPT ![id].status = "released"]
<1>1. freed \in [DOMAIN claims -> Claim] /\ DOMAIN freed = DOMAIN claims
  BY DEF Inv, TypeOK, Claim
<1>2. \A r \in Resource : Active(freed, r) \subseteq Active(claims, r)
  BY DEF Active, IsActive, Inv, TypeOK, Claim
<1>3. CASE claims' = freed /\ UNCHANGED queue
  <2>1. TypeOK'
    BY <1>1, <1>3 DEF Inv, TypeOK
  <2>2. OneHolder'
    BY <1>2, <1>3 DEF Inv, OneHolder
  <2>3. RowsFollowReplies'
    BY <1>1, <1>3 DEF Inv, RowsFollowReplies
  <2>4. QED  BY <2>1, <2>2, <2>3 DEF Inv
<1>4. CASE Active(freed, res) = {} /\ \E w \in Earliest(queue, res), t \in Stamp :
             claims' = Insert(freed, w, Promoted(w, t)) /\ queue' = Delete(queue, {w})
  <2>1. PICK w \in Earliest(queue, res), t \in Stamp :
          claims' = Insert(freed, w, Promoted(w, t)) /\ queue' = Delete(queue, {w})
    BY <1>4
  <2>2. w \in DOMAIN queue /\ w \in Req /\ queue[w].resource = res
    BY DEF Earliest, Waiting, Inv, TypeOK
  <2>3. Promoted(w, t) \in Claim /\ Promoted(w, t).resource = res
    BY <2>2, PromotedType DEF Inv
  <2>4. /\ DOMAIN claims' = DOMAIN claims \cup {w}
        /\ claims' \in [DOMAIN claims \cup {w} -> Claim]
    BY <1>1, <2>1, <2>2, <2>3 DEF Insert, Inv, TypeOK
  <2>5. /\ DOMAIN queue' = DOMAIN queue \ {w}
        /\ queue' \in [DOMAIN queue \ {w} -> Waiter]
    BY <2>1, DeleteType DEF Inv, TypeOK
  <2>6. TypeOK'
    BY <2>2, <2>4, <2>5 DEF Inv, TypeOK
  <2>7. OneHolder'
    <3> SUFFICES ASSUME NEW r \in Resource,
                        NEW i \in Active(claims', r), NEW j \in Active(claims', r)
                 PROVE  i = j
      BY DEF OneHolder
    <3>1. ASSUME NEW x \in Active(claims', r)
          PROVE  IF r = res THEN x = w ELSE x \in Active(claims, r)
      <4>1. x \in DOMAIN claims' /\ claims'[x].status = "active" /\ claims'[x].resource = r
        BY <3>1 DEF Active, IsActive
      <4>2. CASE x = w
        BY <2>1, <2>3, <4>1, <4>2 DEF Insert
      <4>3. CASE x # w
        <5>1. x \in DOMAIN freed /\ claims'[x] = freed[x]
          BY <2>1, <2>4, <4>1, <4>3, <1>1 DEF Insert
        <5>2. x \in Active(freed, r)
          BY <4>1, <5>1 DEF Active, IsActive
        <5>3. QED  BY <1>2, <1>4, <5>2
      <4>4. QED  BY <4>2, <4>3
    <3>2. CASE r = res
      <4>1. i = w
        BY <3>1, <3>2
      <4>2. j = w
        BY <3>1, <3>2
      <4>3. QED  BY <4>1, <4>2
    <3>3. CASE r # res
      <4>1. i \in Active(claims, r)
        BY <3>1, <3>3
      <4>2. j \in Active(claims, r)
        BY <3>1, <3>3
      <4>3. QED  BY <4>1, <4>2 DEF Inv, OneHolder
    <3>4. QED  BY <3>2, <3>3
  <2>8. RowsFollowReplies'
    BY <2>2, <2>4, <2>5 DEF Inv, RowsFollowReplies
  <2>9. QED  BY <2>6, <2>7, <2>8 DEF Inv
<1>5. QED  BY <1>3, <1>4 DEF ReleaseTx

\* What a sweep at time t does when it promotes the waiters P: one for each
\* resource that it frees and that somebody still waits for.
SweepTo(t, P) ==
  /\ P \subseteq DOMAIN queue \ StaleWaiters(t)
  /\ \A w \in P : /\ queue[w].resource \in FreedResources(t)
                  /\ w \in Earliest(LiveQueue(t), queue[w].resource)
                  /\ \A v \in P : queue[v].resource = queue[w].resource => v = w
  /\ \A res \in FreedResources(t) :
       Waiting(LiveQueue(t), res) # {} => \E w \in P : queue[w].resource = res
  /\ claims' = [id \in DOMAIN claims \cup P |->
                  IF id \in P THEN Promoted(id, t) ELSE SweptClaims(t)[id]]
  /\ queue' = Delete(LiveQueue(t), P)

LEMMA SweepStep ==
  ASSUME ExpireOldClaims
  PROVE  \E t \in Stamp, P \in SUBSET DOMAIN queue : SweepTo(t, P)
<1>0. PICK t \in Stamp : \E next \in [ServedResources(t) -> Req] :
        LET promoted == {next[res] : res \in ServedResources(t)}
        IN /\ \A res \in ServedResources(t) : next[res] \in Earliest(LiveQueue(t), res)
           /\ claims' = [id \in DOMAIN claims \cup promoted |->
                           IF id \in promoted THEN Promoted(id, t) ELSE SweptClaims(t)[id]]
           /\ queue' = Delete(LiveQueue(t), promoted)
  BY DEF ExpireOldClaims
<1>1. PICK next \in [ServedResources(t) -> Req] :
        /\ \A res \in ServedResources(t) : next[res] \in Earliest(LiveQueue(t), res)
        /\ claims' = [id \in DOMAIN claims \cup {next[res] : res \in ServedResources(t)} |->
                        IF id \in {next[res] : res \in ServedResources(t)}
                          THEN Promoted(id, t) ELSE SweptClaims(t)[id]]
        /\ queue' = Delete(LiveQueue(t), {next[res] : res \in ServedResources(t)})
  BY <1>0
<1> DEFINE P == {next[res] : res \in ServedResources(t)}
<1>2. \A res \in ServedResources(t) :
        /\ next[res] \in DOMAIN queue \ StaleWaiters(t)
        /\ queue[next[res]].resource = res
  BY <1>1 DEF Earliest, Waiting, LiveQueue, Delete
<1>3. P \in SUBSET DOMAIN queue /\ P \subseteq DOMAIN queue \ StaleWaiters(t)
  BY <1>2
<1>4. \A w \in P : /\ queue[w].resource \in ServedResources(t)
                  /\ w = next[queue[w].resource]
  BY <1>2
<1>5. \A w \in P : /\ queue[w].resource \in FreedResources(t)
                  /\ w \in Earliest(LiveQueue(t), queue[w].resource)
                  /\ \A v \in P : queue[v].resource = queue[w].resource => v = w
  BY <1>1, <1>4 DEF ServedResources
<1>6. \A res \in FreedResources(t) :
        Waiting(LiveQueue(t), res) # {} => \E w \in P : queue[w].resource = res
  BY <1>2 DEF ServedResources
<1>7. SweepTo(t, P)
  BY <1>1, <1>3, <1>5, <1>6 DEF SweepTo
<1>8. QED  BY <1>3, <1>7

LEMMA SweepInv == Inv /\ ExpireOldClaims => Inv'
<1> SUFFICES ASSUME Inv, ExpireOldClaims PROVE Inv'
  OBVIOUS
<1>1. PICK t \in Stamp, P \in SUBSET DOMAIN queue : SweepTo(t, P)
  BY SweepStep
<1>2. P \subseteq Req
  BY DEF Inv, TypeOK
<1>3. /\ DOMAIN LiveQueue(t) \subseteq DOMAIN queue
      /\ LiveQueue(t) \in [DOMAIN LiveQueue(t) -> Waiter]
  BY DEF Inv, TypeOK, LiveQueue, Delete
<1>4. /\ DOMAIN SweptClaims(t) = DOMAIN claims
      /\ SweptClaims(t) \in [DOMAIN claims -> Claim]
  BY DEF Inv, TypeOK, Claim, SweptClaims
<1>5. \A w \in P : /\ Promoted(w, t) \in Claim
                  /\ Promoted(w, t).resource = queue[w].resource
  BY PromotedType DEF Inv
<1>6. /\ DOMAIN claims' = DOMAIN claims \cup P
      /\ claims' \in [DOMAIN claims \cup P -> Claim]
  BY <1>1, <1>4, <1>5 DEF SweepTo
<1>7. /\ DOMAIN queue' = DOMAIN LiveQueue(t) \ P
      /\ queue' \in [DOMAIN LiveQueue(t) \ P -> Waiter]
  BY <1>1, <1>3 DEF SweepTo, Delete
<1>8. TypeOK'
  BY <1>2, <1>3, <1>6, <1>7 DEF Inv, TypeOK, ExpireOldClaims
<1>9. OneHolder'
  <2> SUFFICES ASSUME NEW res \in Resource,
                      NEW i \in Active(claims', res), NEW j \in Active(claims', res)
               PROVE  i = j
    BY DEF OneHolder
  <2>1. \A id \in Active(claims', res) \cap P : queue[id].resource = res
    BY <1>1, <1>5 DEF SweepTo, Active
  <2>2. \A id \in Active(claims', res) \ P :
           id \in Active(claims, res) /\ id \notin ExpiredClaims(t)
    <3> TAKE id \in Active(claims', res) \ P
    <3>1. id \in DOMAIN claims /\ claims'[id] = SweptClaims(t)[id]
      BY <1>1, <1>6 DEF SweepTo, Active
    <3>2. claims'[id].status = "active" /\ claims'[id].resource = res
      BY DEF Active, IsActive
    <3>3. claims[id] \in Claim
      BY <3>1 DEF Inv, TypeOK
    <3>4. CASE id \in ExpiredClaims(t)
      BY <3>1, <3>2, <3>3, <3>4 DEF SweptClaims, Claim
    <3>5. CASE id \notin ExpiredClaims(t)
      BY <3>1, <3>2, <3>5 DEF SweptClaims, Active, IsActive
    <3>6. QED  BY <3>4, <3>5
  \* What is promoted is on a resource whose only active claim expires.
  <2>3. \A id \in Active(claims', res) \cap P : Active(claims, res) \subseteq ExpiredClaims(t)
    <3> TAKE id \in Active(claims', res) \cap P
    <3>1. res \in FreedResources(t)
      <4>1. \A w \in P : queue[w].resource \in FreedResources(t)
        BY <1>1 DEF SweepTo
      <4>2. queue[id].resource = res
        BY <2>1
      <4>3. QED  BY <4>1, <4>2
    <3>2. PICK e \in ExpiredClaims(t) : claims[e].resource = res
      BY <3>1 DEF FreedResources
    <3>3. e \in Active(claims, res)
      BY <3>2 DEF ExpiredClaims, Active
    <3>4. QED  BY <3>3 DEF Inv, OneHolder
  <2>4. CASE i \in P /\ j \in P
    BY <1>1, <2>1, <2>4 DEF SweepTo
  <2>5. CASE i \notin P /\ j \notin P
    BY <2>2, <2>5 DEF Inv, OneHolder
  <2>6. QED  BY <2>2, <2>3, <2>4, <2>5
<1>10. RowsFollowReplies'
  BY <1>3, <1>6, <1>7 DEF Inv, RowsFollowReplies, ExpireOldClaims
<1>11. QED  BY <1>8, <1>9, <1>10 DEF Inv

LEMMA NextInv == Inv /\ [Next]_vars => Inv'
<1> SUFFICES ASSUME Inv, [Next]_vars PROVE Inv'
  OBVIOUS
<1>1. ASSUME NEW r \in Req, NEW a \in Agent, NEW res \in Resource, NEW d \in Duration,
             GrantClaim(r, a, res, d)
      PROVE  Inv'
  <2>1. PICK t \in Stamp :
          claims' = Insert(claims, r, [resource |-> res, agent |-> a,
                                       status |-> "active", expires_at |-> t + d])
    BY <1>1 DEF GrantClaim
  <2>2. t + d \in Int
    BY DEF Stamp
  <2>3. TypeOK'
    BY <1>1, <2>1, <2>2 DEF GrantClaim, Reply, Insert, Inv, TypeOK, Claim, Request
  <2>4. OneHolder'
    BY <1>1, <2>1 DEF GrantClaim, Insert, Inv, OneHolder, Active, IsActive
  <2>5. RowsFollowReplies'
    BY <1>1, <2>1 DEF GrantClaim, Reply, Insert, Inv, TypeOK, RowsFollowReplies
  <2>6. QED  BY <2>3, <2>4, <2>5 DEF Inv
<1>2. ASSUME NEW r \in Req, NEW a \in Agent, NEW res \in Resource, NEW d \in Duration,
             RefuseClaim(r, a, res, d)
      PROVE  Inv'
  <2>1. TypeOK'
    BY <1>2 DEF RefuseClaim, Inv, TypeOK, Request
  <2>2. OneHolder'
    BY <1>2 DEF RefuseClaim, Inv, OneHolder
  <2>3. RowsFollowReplies'
    BY <1>2 DEF RefuseClaim, Inv, TypeOK, RowsFollowReplies
  <2>4. QED  BY <2>1, <2>2, <2>3 DEF Inv
<1>3. ASSUME NEW r \in Req, EnqueueClaim(r) PROVE Inv'
  <2> DEFINE row(t) == [resource |-> req[r].resource, agent |-> req[r].agent,
                        expires_in_sec |-> WaitSeconds(req[r].dur), queued_at |-> t]
  <2>1. PICK t \in Stamp : queue' = Insert(queue, r, row(t))
    BY <1>3 DEF EnqueueClaim
  <2>2. req[r].resource \in Resource /\ req[r].agent \in Agent /\ req[r].dur \in Duration
    BY <1>3 DEF EnqueueClaim, Inv, TypeOK, Request
  <2>3. row(t) \in Waiter
    <3>1. WaitSeconds(req[r].dur) \in Nat \ {0}
      BY <2>2, WaitSecondsPositive
    <3>2. QED  BY <2>2, <3>1 DEF Waiter, Stamp
  <2>4. TypeOK'
    <3>1. /\ DOMAIN queue' = DOMAIN queue \cup {r}
          /\ queue' \in [DOMAIN queue \cup {r} -> Waiter]
      <4> HIDE DEF row
      <4>1. QED  BY <2>1, <2>3 DEF Insert, Inv, TypeOK
    <3>2. req' \in [Req -> Request]
      BY <1>3, <2>2 DEF EnqueueClaim, Reply, Inv, TypeOK, Request
    <3>3. QED  BY <1>3, <3>1, <3>2 DEF EnqueueClaim, Inv, TypeOK
  <2>5. OneHolder'
    BY <1>3 DEF EnqueueClaim, Inv, OneHolder
  <2>6. RowsFollowReplies'
    BY <1>3, <2>1 DEF EnqueueClaim, Reply, Insert, Inv, TypeOK, RowsFollowReplies
  <2>7. QED  BY <2>4, <2>5, <2>6 DEF Inv
<1>4. ASSUME NEW r \in Req, FailEnqueue(r) PROVE Inv'
  <2>1. TypeOK'
    BY <1>4 DEF FailEnqueue, Reply, Inv, TypeOK, Request
  <2>2. OneHolder'
    BY <1>4 DEF FailEnqueue, Inv, OneHolder
  <2>3. RowsFollowReplies'
    BY <1>4 DEF FailEnqueue, Reply, Inv, TypeOK, RowsFollowReplies
  <2>4. QED  BY <2>1, <2>2, <2>3 DEF Inv
<1>5. ASSUME NEW id \in Req, NEW caller, ReleaseClaim(id, caller) PROVE Inv'
  BY <1>5, ReleaseTxInv DEF ReleaseClaim
<1>6. ASSUME NEW id \in Req, NEW caller, NEW d \in Duration, RenewClaim(id, caller, d)
      PROVE  Inv'
  <2>1. PICK t \in Stamp : claims' = [claims EXCEPT ![id].expires_at = t + d]
    BY <1>6 DEF RenewClaim
  <2>2. t + d \in Int
    BY DEF Stamp
  <2>3. TypeOK'
    BY <1>6, <2>1, <2>2 DEF RenewClaim, Inv, TypeOK, Claim
  <2>4. OneHolder'
    BY <1>6, <2>1 DEF RenewClaim, Inv, TypeOK, Claim, OneHolder, Active, IsActive
  <2>5. RowsFollowReplies'
    BY <1>6, <2>1 DEF RenewClaim, Inv, RowsFollowReplies
  <2>6. QED  BY <2>3, <2>4, <2>5 DEF Inv
<1>7. ASSUME NEW res \in Resource, WebhookList(res) PROVE Inv'
  BY <1>7 DEF WebhookList, Inv, TypeOK, OneHolder, RowsFollowReplies, Active
<1>8. ASSUME NEW id \in Req, WebhookRelease(id) PROVE Inv'
  <2>1. id \in DOMAIN claims /\ hooked' \subseteq hooked /\ UNCHANGED <<now, req>>
    BY <1>8 DEF WebhookRelease, Inv, TypeOK
  <2>2. CASE ReleaseTx(id)
    BY <2>1, <2>2, ReleaseTxInv
  <2>3. CASE UNCHANGED <<claims, queue>>
    BY <2>1, <2>3 DEF Inv, TypeOK, OneHolder, RowsFollowReplies
  <2>4. QED  BY <1>8, <2>2, <2>3 DEF WebhookRelease
<1>9. CASE Tick \/ \E ids \in SUBSET hooked : WebhookLost(ids)
  BY <1>9 DEF Tick, WebhookLost, Inv, TypeOK, OneHolder, RowsFollowReplies
<1>10. CASE UNCHANGED vars
  BY <1>10 DEF vars, Inv, TypeOK, OneHolder, RowsFollowReplies
<1>11. QED
  BY <1>1, <1>2, <1>3, <1>4, <1>5, <1>6, <1>7, <1>8, <1>9, <1>10, SweepInv
  DEF Next, Create

LEMMA SpecInv == Spec => []Inv
BY InitInv, NextInv, PTL DEF Spec
-----------------------------------------------------------------------------
(* The theorems. *)

\* The state keeps its type: every row is complete and every wait has a
\* positive TTL, whatever duration was asked for.
THEOREM TypeCorrect == Spec => []TypeOK
<1>1. Inv => TypeOK
  BY DEF Inv
<1>2. QED  BY SpecInv, <1>1, PTL

\* Claims are exclusive: handlers, webhook and sweep, interleaved in any way,
\* never leave two active claims on a resource.
THEOREM ClaimsAreExclusive == Spec => []OneHolder
<1>1. Inv => OneHolder
  BY DEF Inv
<1>2. QED  BY SpecInv, <1>1, PTL

\* No waiter is lost: it leaves the queue as the holder of what it waited for
\* or after its TTL.
THEOREM WaitersAreKept == Spec => NoWaiterLost
<1> DEFINE Kept ==
      \A w \in DOMAIN queue \ DOMAIN queue' :
        \/ /\ IsActive(claims', w)
           /\ claims'[w].resource = queue[w].resource
           /\ claims'[w].agent = queue[w].agent
        \/ queue[w].queued_at + queue[w].expires_in_sec * TicksPerSecond < now
<1>1. ASSUME TypeOK, NEW id \in DOMAIN claims, ReleaseTx(id) PROVE Kept
  <2> SUFFICES ASSUME NEW v \in DOMAIN queue \ DOMAIN queue'
               PROVE  /\ IsActive(claims', v)
                      /\ claims'[v].resource = queue[v].resource
                      /\ claims'[v].agent = queue[v].agent
    OBVIOUS
  <2> DEFINE freed == [claims EXCEPT ![id].status = "released"]
  <2>1. PICK w \in DOMAIN queue, t \in Stamp :
          /\ claims' = Insert(freed, w, Promoted(w, t))
          /\ queue' = Delete(queue, {w})
    BY <1>1 DEF ReleaseTx, Earliest, Waiting
  <2>2. v = w
    BY <2>1 DEF Delete
  <2>3. v \in DOMAIN claims' /\ claims'[v] = Promoted(w, t)
    BY <2>1, <2>2 DEF Insert
  <2>4. QED  BY <1>1, <2>2, <2>3, PromotedType DEF IsActive
<1>2. ASSUME TypeOK, ExpireOldClaims PROVE Kept
  <2> SUFFICES ASSUME NEW v \in DOMAIN queue \ DOMAIN queue'
               PROVE  \/ /\ IsActive(claims', v)
                         /\ claims'[v].resource = queue[v].resource
                         /\ claims'[v].agent = queue[v].agent
                      \/ queue[v].queued_at + queue[v].expires_in_sec * TicksPerSecond < now
    OBVIOUS
  <2>1. PICK t \in Stamp, P \in SUBSET DOMAIN queue : SweepTo(t, P)
    BY <1>2, SweepStep
  <2>2. CASE v \in P
    <3>1. v \in DOMAIN claims' /\ claims'[v] = Promoted(v, t)
      BY <2>1, <2>2 DEF SweepTo
    <3>2. QED  BY <1>2, <3>1, PromotedType DEF IsActive
  <2>3. CASE v \notin P
    <3>1. v \in StaleWaiters(t)
      BY <2>1, <2>3 DEF SweepTo, LiveQueue, Delete
    <3>2. queue[v].queued_at + queue[v].expires_in_sec * TicksPerSecond < t
      BY <3>1 DEF StaleWaiters, TimeLess
    <3>3. t <= now /\ t \in Int /\ now \in Int /\ queue[v] \in Waiter
      BY <1>2 DEF Stamp, TypeOK
    <3>4. queue[v].queued_at + queue[v].expires_in_sec * TicksPerSecond \in Int
      BY <3>3 DEF Waiter
    <3>5. QED  BY <3>2, <3>3, <3>4
  <2>4. QED  BY <2>2, <2>3
<1>3. TypeOK /\ [Next]_vars => [Kept]_vars
  <2> SUFFICES ASSUME TypeOK, Next PROVE Kept
    BY DEF vars
  <2>1. CASE \E r \in Req : Create(r) \/ EnqueueClaim(r) \/ FailEnqueue(r)
    BY <2>1 DEF Create, GrantClaim, RefuseClaim, EnqueueClaim, FailEnqueue, Insert
  <2>2. CASE \E id \in Req, caller \in Agent \cup {Anonymous} : ReleaseClaim(id, caller)
    BY <1>1, <2>2 DEF ReleaseClaim
  <2>3. CASE \E id \in Req, caller \in Agent \cup {Anonymous}, d \in Duration :
               RenewClaim(id, caller, d)
    BY <2>3 DEF RenewClaim
  <2>4. CASE \E id \in Req : WebhookRelease(id)
    BY <1>1, <2>4 DEF WebhookRelease, TypeOK
  <2>5. CASE \/ Tick \/ \E res \in Resource : WebhookList(res)
             \/ \E ids \in SUBSET hooked : WebhookLost(ids)
    BY <2>5 DEF Tick, WebhookList, WebhookLost
  <2>6. QED  BY <1>2, <2>1, <2>2, <2>3, <2>4, <2>5 DEF Next
<1>4. QED  BY <1>3, TypeCorrect, PTL DEF Spec, NoWaiterLost
-----------------------------------------------------------------------------
(* What a step may do to the tables, for the properties of steps. *)

\* A claim is inserted for a request that has no row; a waiter is queued; a
\* claim is released; one is renewed; the sweep runs; or neither table changes.
StepKind ==
  \/ \E r \in Req, row \in Claim :
       /\ r \notin DOMAIN claims \cup DOMAIN queue
       /\ claims' = Insert(claims, r, row) /\ row.status = "active"
       /\ UNCHANGED queue
  \/ \E r \in Req, row \in Waiter :
       /\ r \notin DOMAIN claims \cup DOMAIN queue
       /\ queue' = Insert(queue, r, row)
       /\ UNCHANGED claims
  \/ \E id \in DOMAIN claims : ReleaseTx(id)
  \/ \E id \in DOMAIN claims, e \in Int :
       /\ claims[id].status = "active"
       /\ claims' = [claims EXCEPT ![id].expires_at = e]
       /\ UNCHANGED queue
  \/ \E t \in Stamp, P \in SUBSET DOMAIN queue : SweepTo(t, P)
  \/ UNCHANGED <<claims, queue>>

LEMMA StepKinds == Inv /\ [Next]_vars => StepKind
<1> SUFFICES ASSUME Inv, [Next]_vars PROVE StepKind
  OBVIOUS
<1>1. ASSUME NEW r \in Req, NEW a \in Agent, NEW res \in Resource, NEW d \in Duration,
             GrantClaim(r, a, res, d)
      PROVE  StepKind
  <2>1. PICK t \in Stamp :
          claims' = Insert(claims, r, [resource |-> res, agent |-> a,
                                       status |-> "active", expires_at |-> t + d])
    BY <1>1 DEF GrantClaim
  <2> DEFINE row == [resource |-> res, agent |-> a, status |-> "active", expires_at |-> t + d]
  <2>2. row \in Claim /\ row.status = "active"
    BY DEF Stamp, Claim
  <2>3. r \notin DOMAIN claims \cup DOMAIN queue
    BY <1>1 DEF GrantClaim, Inv, RowsFollowReplies
  <2>4. QED  BY <1>1, <2>1, <2>2, <2>3 DEF GrantClaim, StepKind
<1>2. ASSUME NEW r \in Req, EnqueueClaim(r) PROVE StepKind
  <2> DEFINE row(t) == [resource |-> req[r].resource, agent |-> req[r].agent,
                        expires_in_sec |-> WaitSeconds(req[r].dur), queued_at |-> t]
  <2>1. PICK t \in Stamp : queue' = Insert(queue, r, row(t))
    BY <1>2 DEF EnqueueClaim
  <2>2. req[r].resource \in Resource /\ req[r].agent \in Agent /\ req[r].dur \in Duration
    BY <1>2 DEF EnqueueClaim, Inv, TypeOK, Request
  <2>3. row(t) \in Waiter
    <3>1. WaitSeconds(req[r].dur) \in Nat \ {0}
      BY <2>2, WaitSecondsPositive
    <3>2. QED  BY <2>2, <3>1 DEF Waiter, Stamp
  <2>4. r \notin DOMAIN claims \cup DOMAIN queue
    BY <1>2 DEF EnqueueClaim, Inv, RowsFollowReplies
  <2> HIDE DEF row
  <2>5. QED  BY <1>2, <2>1, <2>3, <2>4 DEF EnqueueClaim, StepKind
<1>3. ASSUME NEW id \in Req, NEW caller, ReleaseClaim(id, caller) PROVE StepKind
  BY <1>3 DEF ReleaseClaim, StepKind
<1>4. ASSUME NEW id \in Req, NEW caller, NEW d \in Duration, RenewClaim(id, caller, d)
      PROVE  StepKind
  <2>1. PICK t \in Stamp : claims' = [claims EXCEPT ![id].expires_at = t + d]
    BY <1>4 DEF RenewClaim
  <2>2. t + d \in Int
    BY DEF Stamp
  <2>3. QED  BY <1>4, <2>1, <2>2 DEF RenewClaim, IsActive, StepKind
<1>5. ASSUME NEW id \in Req, WebhookRelease(id) PROVE StepKind
  BY <1>5 DEF WebhookRelease, Inv, TypeOK, StepKind
<1>6. CASE ExpireOldClaims
  BY <1>6, SweepStep DEF StepKind
<1>7. CASE \/ \E r \in Req : FailEnqueue(r)
           \/ \E r \in Req, a \in Agent, res \in Resource, d \in Duration :
                RefuseClaim(r, a, res, d)
           \/ \E res \in Resource : WebhookList(res)
           \/ \E ids \in SUBSET hooked : WebhookLost(ids)
           \/ Tick \/ UNCHANGED vars
  BY <1>7 DEF FailEnqueue, RefuseClaim, WebhookList, WebhookLost, Tick, vars, StepKind
<1>8. QED  BY <1>1, <1>2, <1>3, <1>4, <1>5, <1>6, <1>7 DEF Next, Create

\* A release: the claim is freed; then nobody waits for its resource, or it is
\* free and an earliest waiter is promoted on it.
LEMMA ReleaseEffect ==
  ASSUME Inv, NEW id \in DOMAIN claims, ReleaseTx(id)
  PROVE  LET res == claims[id].resource
         IN /\ \A x \in DOMAIN claims : x # id => claims'[x] = claims[x]
            /\ claims'[id] = [claims[id] EXCEPT !.status = "released"]
            /\ DOMAIN claims \subseteq DOMAIN claims'
            /\ \/ DOMAIN claims' = DOMAIN claims /\ queue' = queue /\ Waiting(queue, res) = {}
               \/ \E w \in Earliest(queue, res) :
                    /\ DOMAIN claims' = DOMAIN claims \cup {w}
                    /\ claims'[w].status = "active" /\ claims'[w].resource = res
                    /\ queue' = Delete(queue, {w})
                    /\ \A h \in Active(claims, res) : h = id
<1> DEFINE res == claims[id].resource
           freed == [claims EXCEPT ![id].status = "released"]
<1>1. /\ DOMAIN freed = DOMAIN claims
      /\ freed[id] = [claims[id] EXCEPT !.status = "released"]
      /\ \A x \in DOMAIN claims : x # id => freed[x] = claims[x]
  BY DEF Inv, TypeOK
<1>2. CASE Waiting(queue, res) = {} /\ claims' = freed /\ UNCHANGED queue
  BY <1>1, <1>2
<1>3. CASE Active(freed, res) = {} /\ \E w \in Earliest(queue, res), t \in Stamp :
             claims' = Insert(freed, w, Promoted(w, t)) /\ queue' = Delete(queue, {w})
  <2>1. PICK w \in Earliest(queue, res), t \in Stamp :
          claims' = Insert(freed, w, Promoted(w, t)) /\ queue' = Delete(queue, {w})
    BY <1>3
  <2>2. w \in DOMAIN queue /\ queue[w].resource = res /\ w \notin DOMAIN claims
    BY <2>1 DEF Earliest, Waiting, Inv, RowsFollowReplies
  <2>3. /\ DOMAIN claims' = DOMAIN claims \cup {w}
        /\ claims'[w] = Promoted(w, t)
        /\ \A x \in DOMAIN claims : claims'[x] = freed[x]
    BY <1>1, <2>1, <2>2 DEF Insert
  <2>4. claims'[w].status = "active" /\ claims'[w].resource = res
    BY <2>2, <2>3, PromotedType DEF Inv
  <2>5. \A h \in Active(claims, res) : h = id
    BY <1>1, <1>3 DEF Active, IsActive
  <2>6. QED  BY <1>1, <2>1, <2>3, <2>4, <2>5
<1>4. QED  BY <1>2, <1>3 DEF ReleaseTx

\* A sweep: claims that are not expired stay as they are; those that are end;
\* who is promoted was in the queue and holds what it waited for.
LEMMA SweepEffect ==
  ASSUME Inv, NEW t \in Stamp, NEW P \in SUBSET DOMAIN queue, SweepTo(t, P)
  PROVE  /\ DOMAIN claims' = DOMAIN claims \cup P
         /\ \A x \in DOMAIN claims :
              claims'[x] = IF x \in ExpiredClaims(t) THEN [claims[x] EXCEPT !.status = "expired"]
                                                     ELSE claims[x]
         /\ \A w \in P : claims'[w].status = "active" /\ claims'[w].resource = queue[w].resource
<1>1. \A x \in DOMAIN claims : x \notin P
  BY DEF Inv, RowsFollowReplies
<1>2. /\ DOMAIN claims' = DOMAIN claims \cup P
      /\ \A x \in DOMAIN claims : claims'[x] = SweptClaims(t)[x]
      /\ \A w \in P : claims'[w] = Promoted(w, t)
  BY <1>1 DEF SweepTo
<1>3. \A w \in P : Promoted(w, t).status = "active" /\ Promoted(w, t).resource = queue[w].resource
  BY PromotedType DEF Inv
<1>4. QED  BY <1>2, <1>3 DEF SweptClaims

\* Handover is atomic: a release or a sweep that frees a resource for which
\* somebody still waits promotes in the same step (ReleaseClaim,
\* ExpireOldClaims).
THEOREM HandoverIsAtomic == Spec => HandoverAtomic
<1> DEFINE Atomic ==
      \A res \in Resource :
        Active(claims, res) # {} /\ Active(claims', res) = {} => Waiting(queue', res) = {}
<1>1. ASSUME Inv, StepKind PROVE Atomic
  <2> SUFFICES ASSUME NEW res \in Resource, NEW h \in Active(claims, res),
                      Active(claims', res) = {}
               PROVE  Waiting(queue', res) = {}
    OBVIOUS
  <2>1. h \in DOMAIN claims /\ claims[h].status = "active" /\ claims[h].resource = res
        /\ claims[h] \in Claim
    BY <1>1 DEF Active, IsActive, Inv, TypeOK
  <2>2. ~(h \in DOMAIN claims' /\ claims'[h].status = "active" /\ claims'[h].resource = res)
    BY DEF Active, IsActive
  <2>3. ASSUME NEW r \in Req, NEW row, r \notin DOMAIN claims, claims' = Insert(claims, r, row)
        PROVE  FALSE
    BY <2>1, <2>2, <2>3 DEF Insert
  <2>4. ASSUME NEW id \in DOMAIN claims, ReleaseTx(id) PROVE Waiting(queue', res) = {}
    <3>1. id = h
      BY <1>1, <2>1, <2>2, <2>4, ReleaseEffect
    <3>2. ASSUME NEW w, w \in DOMAIN claims', claims'[w].status = "active",
                 claims'[w].resource = res
          PROVE  FALSE
      BY <3>2 DEF Active, IsActive
    <3>3. queue' = queue /\ Waiting(queue, res) = {}
      BY <1>1, <2>1, <2>4, <3>1, <3>2, ReleaseEffect
    <3>4. QED  BY <3>3
  <2>5. ASSUME NEW id \in DOMAIN claims, NEW e, claims' = [claims EXCEPT ![id].expires_at = e]
        PROVE  FALSE
    BY <1>1, <2>1, <2>2, <2>5 DEF Inv, TypeOK, Claim
  <2>6. ASSUME NEW t \in Stamp, NEW P \in SUBSET DOMAIN queue, SweepTo(t, P)
        PROVE  Waiting(queue', res) = {}
    <3>1. h \in ExpiredClaims(t)
      BY <1>1, <2>1, <2>2, <2>6, SweepEffect
    <3>2. res \in FreedResources(t)
      BY <2>1, <3>1 DEF FreedResources
    <3>3. \A w \in P : queue[w].resource # res
      <4> SUFFICES ASSUME NEW w \in P, queue[w].resource = res PROVE FALSE
        OBVIOUS
      <4>1. w \in DOMAIN claims' /\ claims'[w].status = "active" /\ claims'[w].resource = res
        BY <1>1, <2>6, SweepEffect
      <4>2. QED  BY <4>1 DEF Active, IsActive
    <3>4. Waiting(LiveQueue(t), res) = {}
      BY <2>6, <3>2, <3>3 DEF SweepTo
    <3>5. QED  BY <2>6, <3>4 DEF SweepTo, Waiting, Delete
  <2>7. CASE UNCHANGED claims
    BY <2>1, <2>2, <2>7
  <2>8. QED  BY <1>1, <2>3, <2>4, <2>5, <2>6, <2>7 DEF StepKind
<1>2. Inv /\ [Next]_vars => [Atomic]_vars
  BY <1>1, StepKinds
<1>3. QED  BY SpecInv, <1>2, PTL DEF Spec, HandoverAtomic

\* A claim that ended stays ended, and a late call on it (ReleaseClaim does not
\* look at the status) leaves the present holder of the resource alone.
THEOREM EndedIsInert == Spec => EndedClaimsAreInert
<1> DEFINE Inert ==
      \A id \in DOMAIN claims :
        claims[id].status # "active" =>
          /\ claims'[id].status # "active"
          /\ claims'[id] # claims[id] =>
               \A h \in Active(claims, claims[id].resource) : claims'[h] = claims[h]
<1>1. ASSUME Inv, StepKind PROVE Inert
  <2> SUFFICES ASSUME NEW x \in DOMAIN claims, claims[x].status # "active"
               PROVE  /\ claims'[x].status # "active"
                      /\ claims'[x] # claims[x] =>
                           \A h \in Active(claims, claims[x].resource) : claims'[h] = claims[h]
    OBVIOUS
  <2>1. claims[x] \in Claim
    BY <1>1 DEF Inv, TypeOK
  <2>2. ASSUME NEW r \in Req, NEW row, r \notin DOMAIN claims, claims' = Insert(claims, r, row)
        PROVE  claims'[x] = claims[x]
    BY <2>2 DEF Insert
  <2>3. CASE \E id \in DOMAIN claims : ReleaseTx(id)
    <3>1. PICK id \in DOMAIN claims : ReleaseTx(id)
      BY <2>3
    <3>2. CASE id = x
      <4>1. claims'[x] = [claims[x] EXCEPT !.status = "released"]
        BY <1>1, <3>1, <3>2, ReleaseEffect
      <4>2. \A h \in Active(claims, claims[x].resource) : h \in DOMAIN claims /\ h # x
        BY DEF Active, IsActive
      <4>3. \A h \in DOMAIN claims : h # x => claims'[h] = claims[h]
        BY <1>1, <3>1, <3>2, ReleaseEffect
      <4>4. QED  BY <2>1, <4>1, <4>2, <4>3 DEF Claim
    <3>3. CASE id # x
      <4>1. \A y \in DOMAIN claims : y # id => claims'[y] = claims[y]
        BY <1>1, <3>1, ReleaseEffect
      <4>2. QED  BY <3>3, <4>1
    <3>4. QED  BY <3>2, <3>3
  <2>4. ASSUME NEW id \in DOMAIN claims, NEW e, claims[id].status = "active",
               claims' = [claims EXCEPT ![id].expires_at = e]
        PROVE  claims'[x] = claims[x]
    BY <1>1, <2>4 DEF Inv, TypeOK
  <2>5. ASSUME NEW t \in Stamp, NEW P \in SUBSET DOMAIN queue, SweepTo(t, P)
        PROVE  claims'[x] = claims[x]
    <3>1. x \notin ExpiredClaims(t)
      BY DEF ExpiredClaims, IsActive
    <3>2. QED  BY <1>1, <2>5, <3>1, SweepEffect
  <2>6. QED  BY <1>1, <2>2, <2>3, <2>4, <2>5 DEF StepKind
<1>2. Inv /\ [Next]_vars => [Inert]_vars
  BY <1>1, StepKinds
<1>3. QED  BY SpecInv, <1>2, PTL DEF Spec, EndedClaimsAreInert

\* The sweep takes no claim a second or more before its expiry, although it
\* compares texts (ExpireOldClaims).
THEOREM ExpiryIsNotEarly == Spec => NoEarlyExpiry
<1> DEFINE NotEarly ==
      \A id \in DOMAIN claims :
        IsActive(claims, id) /\ claims'[id].status = "expired"
          => claims[id].expires_at < now + TicksPerSecond
<1>1. ASSUME Inv, StepKind PROVE NotEarly
  <2> SUFFICES ASSUME NEW x \in DOMAIN claims, claims[x].status = "active",
                      claims'[x].status = "expired"
               PROVE  claims[x].expires_at < now + TicksPerSecond
    BY DEF IsActive
  <2>1. claims[x] \in Claim
    BY <1>1 DEF Inv, TypeOK
  <2>2. ASSUME NEW r \in Req, NEW row, r \notin DOMAIN claims, claims' = Insert(claims, r, row)
        PROVE  FALSE
    BY <2>2 DEF Insert
  <2>3. ASSUME NEW id \in DOMAIN claims, ReleaseTx(id) PROVE FALSE
    <3>1. claims'[x] = claims[x] \/ claims'[x] = [claims[x] EXCEPT !.status = "released"]
      BY <1>1, <2>3, ReleaseEffect
    <3>2. QED  BY <2>1, <3>1 DEF Claim
  <2>4. ASSUME NEW id \in DOMAIN claims, NEW e, claims' = [claims EXCEPT ![id].expires_at = e]
        PROVE  FALSE
    BY <1>1, <2>1, <2>4 DEF Inv, TypeOK, Claim
  <2>5. ASSUME NEW t \in Stamp, NEW P \in SUBSET DOMAIN queue, SweepTo(t, P)
        PROVE  claims[x].expires_at < now + TicksPerSecond
    <3>1. x \in ExpiredClaims(t)
      BY <1>1, <2>5, SweepEffect
    <3>2. TextLess(claims[x].expires_at, t)
      BY <3>1 DEF ExpiredClaims
    <3>3. t \in Int /\ t <= now /\ now \in Int /\ claims[x].expires_at \in Int
      BY <1>1, <2>1 DEF Stamp, Inv, TypeOK, Claim
    <3>4. claims[x].expires_at < t + TicksPerSecond
      BY <3>2, <3>3, TextLessClose
    <3>5. QED  BY <3>3, <3>4
  <2>6. QED  BY <1>1, <2>2, <2>3, <2>4, <2>5 DEF StepKind
<1>2. Inv /\ [Next]_vars => [NotEarly]_vars
  BY <1>1, StepKinds
<1>3. QED  BY SpecInv, <1>2, PTL DEF Spec, NoEarlyExpiry

\* FIFO up to a second: nobody is promoted past a waiter that came a second or
\* more before (promoteNextWaiter orders by the text of queued_at).
THEOREM PromotionIsFIFO == Spec => FirstComeFirstServed
<1> DEFINE InOrder ==
      \A w \in DOMAIN queue \cap DOMAIN claims', v \in DOMAIN queue \cap DOMAIN queue' :
        queue[v].resource = queue[w].resource
          => queue[w].queued_at < queue[v].queued_at + TicksPerSecond
<1>1. ASSUME Inv, StepKind PROVE InOrder
  <2> SUFFICES ASSUME NEW w \in DOMAIN queue \cap DOMAIN claims',
                      NEW v \in DOMAIN queue \cap DOMAIN queue',
                      queue[v].resource = queue[w].resource
               PROVE  queue[w].queued_at < queue[v].queued_at + TicksPerSecond
    OBVIOUS
  <2>1. w \notin DOMAIN claims /\ queue[w] \in Waiter /\ queue[v] \in Waiter
    BY <1>1 DEF Inv, RowsFollowReplies, TypeOK
  <2>2. queue[w].queued_at \in Int /\ queue[v].queued_at \in Int
    BY <2>1 DEF Waiter
  <2>3. SUFFICES ~TextLess(queue[v].queued_at, queue[w].queued_at)
    BY <2>2, <2>3, TextLessClose
  <2>4. ASSUME NEW id \in DOMAIN claims, ReleaseTx(id)
        PROVE  ~TextLess(queue[v].queued_at, queue[w].queued_at)
    <3>1. DOMAIN claims' # DOMAIN claims
      BY <2>1
    <3>2. PICK u \in Earliest(queue, claims[id].resource) : DOMAIN claims' = DOMAIN claims \cup {u}
      BY <1>1, <2>4, <3>1, ReleaseEffect
    <3>3. w = u
      BY <2>1, <3>2
    <3>4. QED  BY <3>2, <3>3 DEF Earliest, Waiting
  <2>5. ASSUME NEW t \in Stamp, NEW P \in SUBSET DOMAIN queue, SweepTo(t, P)
        PROVE  ~TextLess(queue[v].queued_at, queue[w].queued_at)
    <3>1. w \in P
      BY <1>1, <2>1, <2>5, SweepEffect
    <3>2. w \in Earliest(LiveQueue(t), queue[w].resource)
      BY <2>5, <3>1 DEF SweepTo
    <3>3. v \in DOMAIN LiveQueue(t)
      BY <2>5 DEF SweepTo, Delete
    <3>4. \A u \in DOMAIN LiveQueue(t) : LiveQueue(t)[u] = queue[u]
      BY DEF LiveQueue, Delete
    <3>5. QED  BY <3>2, <3>3, <3>4 DEF Earliest, Waiting
  <2>6. ASSUME NEW r \in Req, NEW row, r \notin DOMAIN claims \cup DOMAIN queue,
               claims' = Insert(claims, r, row)
        PROVE  FALSE
    BY <2>1, <2>6 DEF Insert
  <2>7. ASSUME NEW id \in DOMAIN claims, NEW e, claims' = [claims EXCEPT ![id].expires_at = e]
        PROVE  FALSE
    BY <1>1, <2>1, <2>7
  <2>8. QED  BY <1>1, <2>1, <2>4, <2>5, <2>6, <2>7 DEF StepKind
<1>2. Inv /\ [Next]_vars => [InOrder]_vars
  BY <1>1, StepKinds
<1>3. QED  BY SpecInv, <1>2, PTL DEF Spec, FirstComeFirstServed
-----------------------------------------------------------------------------
(* Errors that the code does not look at, and what the sweep leaves.        *)

\* promoteNextWaiter's ORDER BY ... LIMIT 1 finds a row when somebody waits.
LEMMA SomebodyIsEarliest ==
  ASSUME NEW q, q \in [DOMAIN q -> Waiter], NEW res, Waiting(q, res) # {}
  PROVE  Earliest(q, res) # {}
<1> DEFINE at == [w \in DOMAIN q |-> q[w].queued_at]
<1>1. \A w \in Waiting(q, res) : w \in DOMAIN q /\ at[w] = q[w].queued_at /\ at[w] \in Nat
  BY DEF Waiting, Waiter
<1>2. PICK m \in Waiting(q, res) : \A v \in Waiting(q, res) : ~TextLess(at[v], at[m])
  <2> HIDE DEF at
  <2>1. QED  BY <1>1, FirstText
<1>3. m \in Earliest(q, res)
  BY <1>1, <1>2 DEF Earliest
<1>4. QED  BY <1>3

\* Whoever ends a claim that holds a resource finds it free for the next (the
\* INSERT does not hit the unique index) and finds the next if somebody waits:
\* for a release, and for a sweep at any time t of its clock.
PromotionSucceeds ==
  /\ \A res \in Resource : \A id \in Active(claims, res) :
       /\ Active([claims EXCEPT ![id].status = "released"], res) = {}
       /\ Waiting(queue, res) # {} => Earliest(queue, res) # {}
  /\ \A t \in Stamp : \A res \in FreedResources(t) :
       /\ Active(SweptClaims(t), res) = {}
       /\ Waiting(LiveQueue(t), res) # {} => Earliest(LiveQueue(t), res) # {}

\* The errors of promotion that ExpireOldClaims skips and ReleaseClaim rolls
\* back on are never those of a resource that is taken: a claim which holds a
\* resource can always be ended, and its waiters served.
THEOREM PromotionDoesNotFail == Spec => []PromotionSucceeds
<1>1. Inv => PromotionSucceeds
  <2> SUFFICES ASSUME Inv PROVE PromotionSucceeds
    OBVIOUS
  <2>1. /\ claims \in [DOMAIN claims -> Claim] /\ queue \in [DOMAIN queue -> Waiter]
        /\ \A res \in Resource : \A i, j \in Active(claims, res) : i = j
    BY DEF Inv, TypeOK, OneHolder
  <2>2. ASSUME NEW res \in Resource, NEW id \in Active(claims, res)
        PROVE  /\ Active([claims EXCEPT ![id].status = "released"], res) = {}
               /\ Waiting(queue, res) # {} => Earliest(queue, res) # {}
    <3> DEFINE freed == [claims EXCEPT ![id].status = "released"]
    <3>1. id \in DOMAIN claims /\ DOMAIN freed = DOMAIN claims
          /\ \A x \in DOMAIN claims : x # id => freed[x] = claims[x]
      BY DEF Active, IsActive
    <3>2. freed[id].status = "released"
      BY <2>1, <3>1 DEF Claim
    <3>3. Active(freed, res) \subseteq Active(claims, res) \ {id}
      BY <3>1, <3>2 DEF Active, IsActive
    <3>4. QED  BY <2>1, <3>3, SomebodyIsEarliest
  <2>3. ASSUME NEW t \in Stamp, NEW res \in FreedResources(t)
        PROVE  /\ Active(SweptClaims(t), res) = {}
               /\ Waiting(LiveQueue(t), res) # {} => Earliest(LiveQueue(t), res) # {}
    <3>1. PICK id \in ExpiredClaims(t) : claims[id].resource = res
      BY DEF FreedResources
    <3>2. id \in Active(claims, res) /\ res \in Resource
      BY <2>1, <3>1 DEF ExpiredClaims, Active, IsActive, Claim
    <3>3. DOMAIN SweptClaims(t) = DOMAIN claims
          /\ \A x \in DOMAIN claims : x \notin ExpiredClaims(t) => SweptClaims(t)[x] = claims[x]
      BY DEF SweptClaims
    <3>4. \A x \in ExpiredClaims(t) : SweptClaims(t)[x].status = "expired"
      <4>1. \A x \in ExpiredClaims(t) :
              x \in DOMAIN claims /\ SweptClaims(t)[x] = [claims[x] EXCEPT !.status = "expired"]
        BY DEF SweptClaims, ExpiredClaims, IsActive
      <4>2. QED  BY <2>1, <4>1 DEF Claim
    <3>5. Active(SweptClaims(t), res) \subseteq Active(claims, res) \ {id}
      BY <3>1, <3>3, <3>4 DEF Active, IsActive
    <3>6. Active(SweptClaims(t), res) = {}
      BY <2>1, <3>2, <3>5
    <3>7. LiveQueue(t) \in [DOMAIN LiveQueue(t) -> Waiter]
      BY <2>1 DEF LiveQueue, Delete
    <3>8. QED  BY <3>6, <3>7, SomebodyIsEarliest
  <2>4. QED  BY <2>2, <2>3 DEF PromotionSucceeds
<1>2. QED  BY SpecInv, <1>1, PTL

\* What a sweep leaves behind: no claim that is overdue, and no waiter past its
\* TTL, by more than the lag of its clock (and the second of the texts).
SweepIsComplete ==
  [][ExpireOldClaims =>
       /\ \A id \in DOMAIN claims' :
            IsActive(claims', id) => now - MaxLag < claims'[id].expires_at + TicksPerSecond
       /\ \A w \in DOMAIN queue' :
            now - MaxLag <= queue'[w].queued_at + queue'[w].expires_in_sec * TicksPerSecond]_vars

\* One sweep is enough: ExpireOldClaims leaves nothing for the next that was
\* due when it began, be it among the claims it has just granted.
THEOREM OneSweepIsEnough == Spec => SweepIsComplete
<1> DEFINE Complete ==
      /\ \A id \in DOMAIN claims' :
           IsActive(claims', id) => now - MaxLag < claims'[id].expires_at + TicksPerSecond
      /\ \A w \in DOMAIN queue' :
           now - MaxLag <= queue'[w].queued_at + queue'[w].expires_in_sec * TicksPerSecond
<1>1. ASSUME Inv, NEW t \in Stamp, NEW P \in SUBSET DOMAIN queue, SweepTo(t, P)
      PROVE  Complete
  <2>1. /\ t \in Nat /\ now \in Nat /\ now - MaxLag <= t /\ TicksPerSecond \in Nat \ {0}
        /\ claims \in [DOMAIN claims -> Claim] /\ queue \in [DOMAIN queue -> Waiter]
    BY <1>1 DEF Stamp, Inv, TypeOK
  <2>2. ASSUME NEW id \in DOMAIN claims', IsActive(claims', id)
        PROVE  now - MaxLag < claims'[id].expires_at + TicksPerSecond
    <3>1. CASE id \in P
      <4>1. claims'[id] = Promoted(id, t)
        BY <1>1, <3>1 DEF SweepTo
      <4>2. claims'[id].expires_at = t + queue[id].expires_in_sec * TicksPerSecond
        BY <4>1 DEF Promoted
      <4>3. queue[id].expires_in_sec \in Nat
        BY <1>1, <2>1, <3>1 DEF Waiter
      <4>4. queue[id].expires_in_sec * TicksPerSecond \in Nat
        BY <2>1, <4>3
      <4>5. QED  BY <2>1, <4>2, <4>4
    <3>2. CASE id \notin P
      <4>1. id \in DOMAIN claims
        BY <1>1, <3>2, SweepEffect
      <4>2. id \notin ExpiredClaims(t)
        <5>1. SUFFICES ASSUME id \in ExpiredClaims(t) PROVE claims'[id].status = "expired"
          BY <2>2, <5>1 DEF IsActive
        <5>2. claims'[id] = [claims[id] EXCEPT !.status = "expired"]
          BY <1>1, <4>1, <5>1, SweepEffect
        <5>3. QED  BY <2>1, <4>1, <5>2 DEF Claim
      <4>3. claims'[id] = claims[id]
        BY <1>1, <4>1, <4>2, SweepEffect
      <4>4. ~TextLess(claims[id].expires_at, t) /\ claims[id].expires_at \in Int
        BY <2>1, <2>2, <4>1, <4>2, <4>3 DEF ExpiredClaims, IsActive, Claim
      <4>5. t < claims[id].expires_at + TicksPerSecond
        BY <2>1, <4>4, TextLessClose
      <4>6. QED  BY <2>1, <4>3, <4>4, <4>5
    <3>3. QED  BY <3>1, <3>2
  <2>3. ASSUME NEW w \in DOMAIN queue'
        PROVE  now - MaxLag <= queue'[w].queued_at + queue'[w].expires_in_sec * TicksPerSecond
    <3>1. w \in DOMAIN queue \ StaleWaiters(t) /\ queue'[w] = queue[w]
      BY <1>1 DEF SweepTo, LiveQueue, Delete
    <3>2. ~(queue[w].queued_at + queue[w].expires_in_sec * TicksPerSecond < t)
      BY <3>1 DEF StaleWaiters, TimeLess
    <3>3. queue[w].queued_at \in Nat /\ queue[w].expires_in_sec \in Nat
      BY <2>1, <3>1 DEF Waiter
    <3>4. queue[w].expires_in_sec * TicksPerSecond \in Nat
      BY <2>1, <3>3
    <3>5. QED  BY <2>1, <3>1, <3>2, <3>3, <3>4
  <2>4. QED  BY <2>2, <2>3
<1>2. Inv /\ [Next]_vars => [ExpireOldClaims => Complete]_vars
  <2> HIDE DEF Complete
  <2>1. QED  BY <1>1, SweepStep
<1>3. QED  BY SpecInv, <1>2, PTL DEF Spec, SweepIsComplete
-----------------------------------------------------------------------------
(* How a resource may become free while somebody waits for it.              *)

\* The steps that leave the requests alone only take rows from the queue.
LEMMA QueueShrinks ==
  ASSUME Inv, \/ \E id \in DOMAIN claims : ReleaseTx(id)
              \/ ExpireOldClaims
              \/ UNCHANGED queue
  PROVE  DOMAIN queue' \subseteq DOMAIN queue /\ \A w \in DOMAIN queue' : queue'[w] = queue[w]
<1>1. ASSUME NEW id \in DOMAIN claims, ReleaseTx(id)
      PROVE  queue' = queue \/ \E w : queue' = Delete(queue, {w})
  BY <1>1 DEF ReleaseTx
<1>2. ASSUME NEW t \in Stamp, NEW P \in SUBSET DOMAIN queue, SweepTo(t, P)
      PROVE  DOMAIN queue' \subseteq DOMAIN queue /\ \A w \in DOMAIN queue' : queue'[w] = queue[w]
  BY <1>2 DEF SweepTo, LiveQueue, Delete
<1>3. QED  BY <1>1, <1>2, SweepStep DEF Delete

\* A resource is served while it is held, or nobody waits for it.
ServedIn(c, q, res) == Active(c, res) # {} \/ Waiting(q, res) = {}

\* Only one step leaves a resource free with a waiter: the second transaction
\* of a create request, on a resource that was released after the first.
StrandedByEnqueueOnly ==
  [][\A res \in Resource :
       ServedIn(claims, queue, res) /\ ~ServedIn(claims', queue', res)
         => /\ Active(claims, res) = {}
            /\ \E r \in Req : EnqueueClaim(r) /\ req[r].resource = res]_vars

\* The gap between CreateClaim and EnqueueClaim (claimCreate) is the only one:
\* releases, sweeps, renewals and webhooks never strand a waiter, so that one
\* transaction for both would close it.
THEOREM OnlyTheGapStrands == Spec => StrandedByEnqueueOnly
<1> DEFINE Atomic ==
      \A res \in Resource :
        Active(claims, res) # {} /\ Active(claims', res) = {} => Waiting(queue', res) = {}
           Gap ==
      \A res \in Resource :
        ServedIn(claims, queue, res) /\ ~ServedIn(claims', queue', res)
          => /\ Active(claims, res) = {}
             /\ \E r \in Req : EnqueueClaim(r) /\ req[r].resource = res
<1>1. ASSUME Inv, [Next]_vars
      PROVE  \/ \E r \in Req : EnqueueClaim(r)
             \/ /\ DOMAIN queue' \subseteq DOMAIN queue
                /\ \A w \in DOMAIN queue' : queue'[w] = queue[w]
  <2>1. CASE \E id \in Req, caller \in Agent \cup {Anonymous} : ReleaseClaim(id, caller)
    BY <1>1, <2>1, QueueShrinks DEF ReleaseClaim
  <2>2. CASE \E id \in Req : WebhookRelease(id)
    BY <1>1, <2>2, QueueShrinks DEF WebhookRelease, Inv, TypeOK
  <2>3. CASE ExpireOldClaims
    BY <1>1, <2>3, QueueShrinks
  <2>4. CASE UNCHANGED queue
    BY <2>4
  <2>5. QED
    BY <1>1, <2>1, <2>2, <2>3, <2>4
    DEF Next, Create, GrantClaim, RefuseClaim, FailEnqueue, RenewClaim, WebhookList,
        WebhookLost, Tick, vars
<1>2. Inv /\ [Next]_vars /\ [Atomic]_vars => [Gap]_vars
  <2> SUFFICES ASSUME Inv, [Next]_vars, [Atomic]_vars, NEW res \in Resource,
                      ServedIn(claims, queue, res), ~ServedIn(claims', queue', res)
               PROVE  /\ Active(claims, res) = {}
                      /\ \E r \in Req : EnqueueClaim(r) /\ req[r].resource = res
    OBVIOUS
  <2>1. Active(claims', res) = {} /\ Waiting(queue', res) # {}
    BY DEF ServedIn
  <2>2. Active(claims, res) = {}
    <3>1. CASE Atomic
      BY <2>1, <3>1
    <3>2. CASE UNCHANGED vars
      BY <2>1, <3>2 DEF vars, ServedIn, Active, IsActive, Waiting
    <3>3. QED  BY <3>1, <3>2
  <2>3. Waiting(queue, res) = {}
    BY <2>2 DEF ServedIn
  <2>4. PICK w \in DOMAIN queue' : queue'[w].resource = res
    BY <2>1 DEF Waiting
  <2>5. ~(w \in DOMAIN queue /\ queue'[w] = queue[w])
    BY <2>3, <2>4 DEF Waiting
  <2>6. PICK r \in Req : EnqueueClaim(r)
    BY <1>1, <2>4, <2>5
  <2>7. w = r /\ queue'[w].resource = req[r].resource
    BY <2>4, <2>5, <2>6 DEF EnqueueClaim, Insert
  <2>8. QED  BY <2>2, <2>4, <2>6, <2>7
<1>3. QED
  BY SpecInv, HandoverIsAtomic, <1>2, PTL DEF Spec, HandoverAtomic, StrandedByEnqueueOnly
=============================================================================
