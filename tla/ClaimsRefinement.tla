-------------------------- MODULE ClaimsRefinement --------------------------
(***************************************************************************)
(* The tables of Claims implement ClaimLease, for every set of requests and *)
(* resources: initial states are initial states of the lease, and in every  *)
(* step each resource takes a turn of the lease.  So what the lease         *)
(* promises, one turn for each request, holds of the tables.                *)
(***************************************************************************)
EXTENDS ClaimsProofs

\* A waiter is known to its request, which is what makes a purged one over.
WaitersWereTold ==
  \A w \in DOMAIN queue : req[w].pc = "queued" /\ req[w].resource = queue[w].resource

RInv == Inv /\ WaitersWereTold

USE ClaimsAssumption, TicksPerSecondAssumption
-----------------------------------------------------------------------------
LEMMA InitRInv == Init => RInv
BY InitInv DEF RInv, Init, WaitersWereTold

LEMMA NextRInv == RInv /\ [Next]_vars => RInv'
<1> SUFFICES ASSUME RInv, [Next]_vars PROVE RInv'
  OBVIOUS
<1>1. Inv /\ Inv'
  BY NextInv DEF RInv
<1>2. ASSUME NEW r \in Req, Create(r) \/ FailEnqueue(r) PROVE WaitersWereTold'
  <2>1. r \notin DOMAIN queue /\ queue' = queue
    BY <1>1, <1>2
       DEF Create, GrantClaim, RefuseClaim, FailEnqueue, Inv, RowsFollowReplies
  <2>2. \A x \in Req : x # r => req'[x] = req[x]
    BY <1>1, <1>2
       DEF Create, GrantClaim, RefuseClaim, FailEnqueue, Reply, Inv, TypeOK
  <2>3. QED  BY <1>1, <2>1, <2>2 DEF RInv, WaitersWereTold, Inv, TypeOK
<1>3. ASSUME NEW r \in Req, EnqueueClaim(r) PROVE WaitersWereTold'
  <2>1. /\ DOMAIN queue' = DOMAIN queue \cup {r}
        /\ queue'[r].resource = req[r].resource
        /\ \A x \in DOMAIN queue : x # r => queue'[x] = queue[x]
    BY <1>3 DEF EnqueueClaim, Insert
  <2>2. \A x \in Req : req'[x] = IF x = r THEN [pc |-> "queued", resource |-> req[r].resource]
                                         ELSE req[x]
    BY <1>1, <1>3 DEF EnqueueClaim, Reply, Inv, TypeOK
  <2>3. QED  BY <1>1, <2>1, <2>2 DEF RInv, WaitersWereTold, Inv, TypeOK
<1>4. CASE \E id \in Req, caller \in Agent \cup {Anonymous} : ReleaseClaim(id, caller)
  BY <1>1, <1>4, QueueShrinks DEF ReleaseClaim, RInv, WaitersWereTold
<1>5. CASE \E id \in Req, caller \in Agent \cup {Anonymous}, d \in Duration :
             RenewClaim(id, caller, d)
  BY <1>1, <1>5 DEF RenewClaim, RInv, WaitersWereTold
<1>6. CASE \E id \in Req : WebhookRelease(id)
  BY <1>1, <1>6, QueueShrinks DEF WebhookRelease, Inv, TypeOK, RInv, WaitersWereTold
<1>7. CASE ExpireOldClaims
  BY <1>1, <1>7, QueueShrinks DEF ExpireOldClaims, RInv, WaitersWereTold
<1>8. CASE \/ \E res \in Resource : WebhookList(res)
           \/ \E ids \in SUBSET hooked : WebhookLost(ids)
           \/ Tick \/ UNCHANGED vars
  BY <1>1, <1>8 DEF WebhookList, WebhookLost, Tick, vars, RInv, WaitersWereTold
<1>9. QED
  BY <1>1, <1>2, <1>3, <1>4, <1>5, <1>6, <1>7, <1>8 DEF Next, RInv
-----------------------------------------------------------------------------
(* The turns of the lease, in terms of the tables. *)

LEMMA HolderIs ==
  ASSUME NEW res, NEW h \in Active(claims, res), \A i \in Active(claims, res) : i = h
  PROVE  Holder(res) = h
BY DEF Holder

LEMMA HolderIsNext ==
  ASSUME NEW res, NEW h \in Active(claims', res), \A i \in Active(claims', res) : i = h
  PROVE  Holder(res)' = h
BY DEF Holder

LEMMA Drops ==
  ASSUME NEW res \in Resource,
         Holder(res)' = Holder(res), Waiting(queue', res) \subseteq Waiting(queue, res),
         Over(res)' = Over(res) \cup (Waiting(queue, res) \ Waiting(queue', res))
  PROVE  Lease!Serve(res)
BY DEF Lease!Serve, Lease!Drop

LEMMA Passes ==
  ASSUME NEW res \in Resource,
         Holder(res) # NoReq, Waiting(queue', res) \subseteq Waiting(queue, res),
         \/ Holder(res)' = NoReq /\ Waiting(queue', res) = {}
         \/ Holder(res)' \in Waiting(queue, res) \ Waiting(queue', res),
         Over(res)' = Over(res) \cup {Holder(res)}
                        \cup (Waiting(queue, res) \ (Waiting(queue', res) \cup {Holder(res)'}))
  PROVE  Lease!Serve(res)
BY DEF Lease!Serve, Lease!Pass

LEMMA Adopts ==
  ASSUME NEW res \in Resource, NEW w \in Req,
         Holder(res) = NoReq, w \in Waiting(queue, res), Holder(res)' = w,
         Waiting(queue', res) = Waiting(queue, res) \ {w}, Over(res)' = Over(res)
  PROVE  Lease!Serve(res)
BY DEF Lease!Serve, Lease!Adopt

\* A request without a row that was not told 202 is fresh to the lease.
LEMMA FreshIs ==
  ASSUME NEW r \in Req, r \notin DOMAIN claims \cup DOMAIN queue, req[r].pc # "queued"
  PROVE  Lease!Fresh(r)
<1>1. \A res \in Resource : r \notin Waiting(queue, res) /\ r \notin Over(res)
  BY DEF Waiting, Over
<1>2. \A res \in Resource : r # Holder(res)
  BY DEF Holder, Active, IsActive
<1>3. QED  BY <1>1, <1>2 DEF Lease!Fresh

LEMMA Takes ==
  ASSUME NEW res \in Resource, NEW r \in Req, Lease!Fresh(r),
         Holder(res) = NoReq, Holder(res)' = r,
         Waiting(queue', res) = Waiting(queue, res), Over(res)' = Over(res)
  PROVE  Lease!Arrive(res, r)
BY DEF Lease!Arrive, Lease!Take

LEMMA Joins ==
  ASSUME NEW res \in Resource, NEW r \in Req, Lease!Fresh(r),
         Holder(res)' = Holder(res),
         Waiting(queue', res) = Waiting(queue, res) \cup {r}, Over(res)' = Over(res)
  PROVE  Lease!Arrive(res, r)
BY DEF Lease!Arrive, Lease!Join

\* A resource whose rows stay rests.
LEMMA Untouched ==
  ASSUME NEW res \in Resource,
         Active(claims', res) = Active(claims, res),
         Waiting(queue', res) = Waiting(queue, res),
         Over(res)' = Over(res)
  PROVE  Lease!Rest(res) /\ Lease!Serve(res)
<1>1. Holder(res)' = Holder(res)
  BY DEF Holder
<1>2. QED  BY <1>1, Drops DEF Lease!Rest
-----------------------------------------------------------------------------
(* The steps. *)

LEMMA GrantTurns ==
  ASSUME RInv, NEW r \in Req, NEW a \in Agent, NEW wanted \in Resource, NEW d \in Duration,
         GrantClaim(r, a, wanted, d), NEW res \in Resource
  PROVE  IF res = wanted THEN Lease!Arrive(res, r) ELSE Lease!Rest(res)
<1>1. PICK t \in Stamp :
        claims' = Insert(claims, r, [resource |-> wanted, agent |-> a,
                                     status |-> "active", expires_at |-> t + d])
  BY DEF GrantClaim
<1>2. r \notin DOMAIN claims \cup DOMAIN queue /\ req[r].pc = "idle"
  BY DEF GrantClaim, RInv, Inv, RowsFollowReplies
<1>3. /\ DOMAIN claims' = DOMAIN claims \cup {r}
      /\ claims'[r].resource = wanted /\ claims'[r].status = "active"
      /\ \A x \in DOMAIN claims : claims'[x] = claims[x]
  BY <1>1, <1>2 DEF Insert
<1>4. queue' = queue /\ \A x \in Req : x # r => req'[x] = req[x]
  BY DEF GrantClaim, Reply, RInv, Inv, TypeOK
<1>5. Over(res)' = Over(res)
  <2>1. r \notin Over(res) /\ r \notin Over(res)'
    BY <1>2, <1>3 DEF Over, IsActive
  <2>2. \A x \in Req : x # r => (x \in Over(res)' <=> x \in Over(res))
    BY <1>3, <1>4 DEF Over, IsActive
  <2>3. QED  BY <2>1, <2>2 DEF Over
<1>6. CASE res = wanted
  <2>1. Active(claims, res) = {}
    BY <1>6 DEF GrantClaim
  <2>2. r \in Active(claims', res) /\ \A i \in Active(claims', res) : i = r
    BY <1>2, <1>3, <1>6, <2>1 DEF Active, IsActive
  <2>3. Holder(res) = NoReq /\ Holder(res)' = r
    BY <2>1, <2>2, HolderIsNext DEF Holder
  <2>4. QED  BY <1>2, <1>4, <1>5, <1>6, <2>3, FreshIs, Takes
<1>7. CASE res # wanted
  <2>1. Active(claims', res) = Active(claims, res)
    BY <1>3, <1>7 DEF Active, IsActive
  <2>2. QED  BY <1>4, <1>5, <1>7, <2>1, Untouched
<1>8. QED  BY <1>6, <1>7

LEMMA EnqueueTurns ==
  ASSUME RInv, NEW r \in Req, EnqueueClaim(r), NEW res \in Resource
  PROVE  IF res = req[r].resource THEN Lease!Arrive(res, r) ELSE Lease!Rest(res)
<1>1. r \notin DOMAIN claims \cup DOMAIN queue /\ req[r].pc = "conflict"
  BY DEF EnqueueClaim, RInv, Inv, RowsFollowReplies
<1>2. /\ DOMAIN queue' = DOMAIN queue \cup {r}
      /\ queue'[r].resource = req[r].resource
      /\ \A x \in DOMAIN queue : queue'[x] = queue[x]
  BY <1>1 DEF EnqueueClaim, Insert
<1>3. claims' = claims /\ \A x \in Req : x # r => req'[x] = req[x]
  BY DEF EnqueueClaim, Reply, RInv, Inv, TypeOK
<1>4. Over(res)' = Over(res)
  <2>1. r \notin Over(res) /\ r \notin Over(res)'
    BY <1>1, <1>2, <1>3 DEF Over, IsActive
  <2>2. \A x \in Req : x # r => (x \in Over(res)' <=> x \in Over(res))
    BY <1>2, <1>3 DEF Over, IsActive
  <2>3. QED  BY <2>1, <2>2 DEF Over
<1>5. Holder(res)' = Holder(res) /\ Active(claims', res) = Active(claims, res)
  BY <1>3 DEF Holder, Active, IsActive
<1>6. CASE res = req[r].resource
  <2>1. Waiting(queue', res) = Waiting(queue, res) \cup {r}
    BY <1>1, <1>2, <1>6 DEF Waiting
  <2>2. QED  BY <1>1, <1>4, <1>5, <1>6, <2>1, FreshIs, Joins
<1>7. CASE res # req[r].resource
  <2>1. Waiting(queue', res) = Waiting(queue, res)
    BY <1>2, <1>7 DEF Waiting
  <2>2. QED  BY <1>4, <1>5, <1>7, <2>1, Untouched
<1>8. QED  BY <1>6, <1>7

\* Requests that end without a row, renewals, webhooks' lists, time.
LEMMA QuietTurns ==
  ASSUME RInv, NEW res \in Resource, queue' = queue,
         \/ claims' = claims
         \/ \E id \in DOMAIN claims : \E e : claims' = [claims EXCEPT ![id].expires_at = e],
         \/ req' = req
         \/ \E r \in Req : \E new : /\ req' = [req EXCEPT ![r] = new]
                                    /\ req[r].pc # "queued" /\ new.pc # "queued"
  PROVE  Lease!Serve(res)
<1>1. /\ DOMAIN claims' = DOMAIN claims
      /\ \A x \in DOMAIN claims : /\ claims'[x].status = claims[x].status
                                  /\ claims'[x].resource = claims[x].resource
  BY DEF RInv, Inv, TypeOK, Claim
<1>2. \A x \in Req : \/ req'[x] = req[x]
                     \/ req[x].pc # "queued" /\ req'[x].pc # "queued"
  BY DEF RInv, Inv, TypeOK
<1>3. Active(claims', res) = Active(claims, res)
  BY <1>1 DEF Active, IsActive
<1>4. Over(res)' = Over(res)
  <2>1. \A x \in Req : x \in Over(res)' <=> x \in Over(res)
    BY <1>1, <1>2 DEF Over, IsActive
  <2>2. QED  BY <2>1 DEF Over
<1>5. QED  BY <1>3, <1>4, Untouched

\* A release of the holder passes the resource on; the release of a claim that
\* had ended may grant a free resource to a waiter, and else changes nothing.
LEMMA ReleaseTurns ==
  ASSUME RInv, NEW id \in DOMAIN claims, ReleaseTx(id), req' = req, NEW res \in Resource
  PROVE  Lease!Serve(res)
<1> DEFINE freed == claims[id].resource
<1>1. /\ id \in Req /\ claims[id] \in Claim /\ DOMAIN claims \subseteq Req
      /\ DOMAIN queue \subseteq Req
  BY DEF RInv, Inv, TypeOK
<1>2. /\ claims'[id].status = "released" /\ claims'[id].resource = freed
      /\ \A x \in DOMAIN claims : x # id => claims'[x] = claims[x]
  <2>1. /\ claims'[id] = [claims[id] EXCEPT !.status = "released"]
        /\ \A x \in DOMAIN claims : x # id => claims'[x] = claims[x]
    BY ReleaseEffect DEF RInv
  <2>2. QED  BY <1>1, <2>1 DEF Claim
<1>3. CASE DOMAIN claims' = DOMAIN claims /\ queue' = queue /\ Waiting(queue, freed) = {}
  <2>1. Active(claims', res) = Active(claims, res) \ {id}
    BY <1>2, <1>3 DEF Active, IsActive
  <2>2. \A x \in Req : x # id => (x \in Over(res)' <=> x \in Over(res))
    BY <1>2, <1>3 DEF Over, IsActive
  <2>3. id \in Over(res)' <=> res = freed
    BY <1>1, <1>2, <1>3 DEF Over, IsActive
  <2>4. CASE id \in Active(claims, res)
    <3>1. res = freed /\ id \notin Over(res)
      BY <1>1, <2>4 DEF Active, Over, IsActive
    <3>2. \A i \in Active(claims, res) : i = id
      BY <2>4 DEF RInv, Inv, OneHolder
    <3>3. Holder(res) = id /\ Holder(res)' = NoReq
      BY <2>1, <2>4, <3>2, HolderIs DEF Holder
    <3>4. Over(res)' = Over(res) \cup {id}
      BY <1>1, <2>2, <2>3, <3>1 DEF Over
    <3>5. Waiting(queue, res) = {} /\ Waiting(queue', res) = {}
      BY <1>3, <3>1
    <3>6. QED  BY <1>1, <3>3, <3>4, <3>5, Passes
  <2>5. CASE id \notin Active(claims, res)
    <3>1. id \in Over(res) <=> res = freed
      BY <1>1, <2>5 DEF Active, Over, IsActive
    <3>2. Over(res)' = Over(res)
      BY <2>2, <2>3, <3>1 DEF Over
    <3>3. QED  BY <1>3, <2>1, <2>5, <3>2, Untouched
  <2>6. QED  BY <2>4, <2>5
<1>4. CASE \E w \in Earliest(queue, freed) :
             /\ DOMAIN claims' = DOMAIN claims \cup {w}
             /\ claims'[w].status = "active" /\ claims'[w].resource = freed
             /\ queue' = Delete(queue, {w})
             /\ \A h \in Active(claims, freed) : h = id
  <2>1. PICK w \in Earliest(queue, freed) :
          /\ DOMAIN claims' = DOMAIN claims \cup {w}
          /\ claims'[w].status = "active" /\ claims'[w].resource = freed
          /\ queue' = Delete(queue, {w})
          /\ \A h \in Active(claims, freed) : h = id
    BY <1>4
  <2>2. /\ w \in DOMAIN queue /\ w \in Req /\ queue[w].resource = freed
        /\ w \notin DOMAIN claims /\ w # id
    BY <1>1, <2>1 DEF Earliest, Waiting, RInv, Inv, RowsFollowReplies
  <2>3. Waiting(queue', res) = Waiting(queue, res) \ {w}
    BY <2>1 DEF Waiting, Delete
  <2>4. w \notin Over(res) /\ w \notin Over(res)'
    BY <2>1, <2>2 DEF Over, IsActive
  <2>5. \A x \in Req : x # id /\ x # w => (x \in Over(res)' <=> x \in Over(res))
    BY <1>2, <2>1 DEF Over, IsActive, Delete
  <2>6. id \in Over(res)' <=> res = freed
    BY <1>1, <1>2, <2>1 DEF Over, IsActive
  <2>7. CASE res # freed
    <3>1. Active(claims', res) = Active(claims, res)
      BY <1>2, <2>1, <2>2, <2>7 DEF Active, IsActive
    <3>2. w \notin Waiting(queue, res)
      BY <2>2, <2>7 DEF Waiting
    <3>3. id \notin Over(res)
      BY <1>1, <2>7 DEF Over
    <3>4. Over(res)' = Over(res)
      BY <2>4, <2>5, <2>6, <2>7, <3>3 DEF Over
    <3>5. QED  BY <2>3, <3>1, <3>2, <3>4, Untouched
  <2>8. CASE res = freed
    <3>1. w \in Active(claims', res) /\ \A i \in Active(claims', res) : i = w
      BY <1>2, <2>1, <2>8 DEF Active, IsActive
    <3>2. Holder(res)' = w /\ w \in Waiting(queue, res)
      BY <2>2, <2>8, <3>1, HolderIsNext DEF Waiting
    <3>3. CASE id \in Active(claims, res)
      <4>1. Holder(res) = id
        BY <2>1, <2>8, <3>3, HolderIs
      <4>2. id \notin Over(res)
        BY <3>3 DEF Active, Over, RInv, Inv, RowsFollowReplies
      <4>3. Over(res)' = Over(res) \cup {id}
        BY <1>1, <2>4, <2>5, <2>6, <2>8, <4>2 DEF Over
      <4>4. Waiting(queue, res) \ (Waiting(queue', res) \cup {w}) = {}
        BY <2>3
      <4>5. QED  BY <1>1, <2>3, <3>2, <4>1, <4>3, <4>4, Passes
    <3>4. CASE id \notin Active(claims, res)
      <4>1. Holder(res) = NoReq
        BY <2>1, <2>8, <3>4 DEF Holder
      <4>2. id \in Over(res)
        BY <1>1, <2>8, <3>4 DEF Over, Active, IsActive
      <4>3. Over(res)' = Over(res)
        BY <2>4, <2>5, <2>6, <2>8, <4>2 DEF Over
      <4>4. QED  BY <2>2, <2>3, <3>2, <4>1, <4>3, Adopts
    <3>5. QED  BY <3>3, <3>4
  <2>9. QED  BY <2>7, <2>8
<1>5. QED  BY <1>3, <1>4, ReleaseEffect DEF RInv

\* A sweep drops the stale waiters and passes on what it expires.
LEMMA SweepTurns ==
  ASSUME RInv, NEW t \in Stamp, NEW P \in SUBSET DOMAIN queue, SweepTo(t, P), req' = req,
         NEW res \in Resource
  PROVE  Lease!Serve(res)
<1> DEFINE promoted == {w \in P : queue[w].resource = res}
           expired == {id \in ExpiredClaims(t) : claims[id].resource = res}
<1>1. /\ DOMAIN claims \subseteq Req /\ DOMAIN queue \subseteq Req
      /\ DOMAIN claims \cap DOMAIN queue = {}
      /\ claims \in [DOMAIN claims -> Claim]
  BY DEF RInv, Inv, TypeOK, RowsFollowReplies
<1>2. /\ DOMAIN claims' = DOMAIN claims \cup P
      /\ \A x \in DOMAIN claims : x \notin ExpiredClaims(t) => claims'[x] = claims[x]
      /\ \A w \in P : claims'[w].status = "active" /\ claims'[w].resource = queue[w].resource
  BY SweepEffect DEF RInv
<1>3. \A x \in ExpiredClaims(t) : /\ x \in DOMAIN claims /\ claims[x].status = "active"
                                  /\ claims'[x].status = "expired"
                                  /\ claims'[x].resource = claims[x].resource
  <2>1. ExpiredClaims(t) \subseteq DOMAIN claims
    BY DEF ExpiredClaims
  <2>2. \A x \in ExpiredClaims(t) : claims'[x] = [claims[x] EXCEPT !.status = "expired"]
    BY <2>1, SweepEffect DEF RInv
  <2>3. QED  BY <1>1, <2>1, <2>2 DEF ExpiredClaims, IsActive, Claim
<1>4. Active(claims', res) = (Active(claims, res) \ expired) \cup promoted
  BY <1>1, <1>2, <1>3 DEF Active, IsActive
<1>5. /\ DOMAIN queue' = (DOMAIN queue \ StaleWaiters(t)) \ P
      /\ \A w \in DOMAIN queue' : queue'[w] = queue[w]
  BY DEF SweepTo, LiveQueue, Delete
<1>6. Waiting(queue', res) \subseteq Waiting(queue, res) \ promoted
  BY <1>5 DEF Waiting
<1>7. promoted \subseteq Waiting(queue, res) /\ expired \subseteq Active(claims, res)
  BY <1>3 DEF Waiting, Active, IsActive
<1>8. Over(res)' = Over(res) \cup expired
                     \cup (Waiting(queue, res) \ (Waiting(queue', res) \cup promoted))
  <2>1. \A x \in DOMAIN claims : x \in Over(res)' <=> x \in Over(res) \cup expired
    BY <1>1, <1>2, <1>3 DEF Over, IsActive
  <2>2. \A x \in P : x \notin Over(res)' /\ x \notin Over(res) /\ x \notin expired
    BY <1>1, <1>2, <1>3 DEF Over, IsActive
  <2>3. \A x \in DOMAIN queue \ P :
           x \in Over(res)' <=> x \in Waiting(queue, res) \ Waiting(queue', res)
    BY <1>1, <1>2, <1>5 DEF Over, Waiting, RInv, WaitersWereTold
  <2>4. \A x \in DOMAIN queue : x \notin Over(res) /\ x \notin expired
    BY <1>1, <1>3 DEF Over
  <2>5. \A x \in Req \ (DOMAIN queue \cup DOMAIN claims) :
           /\ x \in Over(res)' <=> x \in Over(res)
           /\ x \notin expired /\ x \notin Waiting(queue, res)
    BY <1>2, <1>3, <1>5 DEF Over, Waiting
  <2>6. \A x \in DOMAIN claims : x \notin Waiting(queue, res) /\ x \notin P
    BY <1>1 DEF Waiting
  <2>7. \A x \in DOMAIN queue : x \in P => x \in promoted \/ x \notin Waiting(queue, res)
    BY DEF Waiting
  <2>8. \A x \in DOMAIN queue \ P : x \notin promoted
    OBVIOUS
  <2>9. Over(res) \subseteq Req /\ Over(res)' \subseteq Req /\ Waiting(queue, res) \subseteq Req
        /\ expired \subseteq Req
    BY <1>1, <1>3 DEF Over, Waiting
  <2>10. ASSUME NEW x \in Req
         PROVE  x \in Over(res)' <=>
                  x \in Over(res) \cup expired
                          \cup (Waiting(queue, res) \ (Waiting(queue', res) \cup promoted))
    <3>1. CASE x \in DOMAIN claims
      BY <2>1, <2>6, <3>1
    <3>2. CASE x \in DOMAIN queue /\ x \in P
      BY <2>2, <2>4, <2>7, <3>2
    <3>3. CASE x \in DOMAIN queue /\ x \notin P
      BY <2>3, <2>4, <2>8, <3>3
    <3>4. CASE x \notin DOMAIN queue \cup DOMAIN claims
      BY <2>5, <3>4
    <3>5. QED  BY <3>1, <3>2, <3>3, <3>4
  <2>11. QED  BY <2>9, <2>10
<1>9. \A i, j \in Active(claims, res) : i = j
  BY DEF RInv, Inv, OneHolder
<1>10. CASE expired = {}
  <2>1. promoted = {}
    BY <1>10 DEF SweepTo, FreedResources
  <2>2. Active(claims', res) = Active(claims, res)
    BY <1>4, <1>10, <2>1
  <2>3. Holder(res)' = Holder(res)
    BY <2>2 DEF Holder
  <2>4. QED  BY <1>6, <1>8, <1>10, <2>1, <2>3, Drops
<1>11. CASE expired # {}
  <2>1. PICK e \in expired : TRUE
    BY <1>11
  <2>2. e \in Active(claims, res) /\ Holder(res) = e /\ e \in Req /\ expired = {e}
    BY <1>1, <1>7, <1>9, <2>1, HolderIs DEF Active, IsActive
  <2>3. Active(claims', res) = promoted
    BY <1>4, <1>9, <2>2
  <2>4. res \in FreedResources(t)
    BY <2>1 DEF FreedResources
  <2>5. CASE promoted = {}
    <3>1. Holder(res)' = NoReq
      BY <2>3, <2>5 DEF Holder
    <3>2. Waiting(LiveQueue(t), res) = {}
      BY <2>4, <2>5 DEF SweepTo
    <3>3. Waiting(queue', res) = {}
      BY <3>2 DEF SweepTo, Waiting, Delete
    <3>4. NoReq \notin Waiting(queue, res)
      BY <1>1 DEF Waiting
    <3>5. Over(res)' = Over(res) \cup {e}
                         \cup (Waiting(queue, res) \ (Waiting(queue', res) \cup {NoReq}))
      BY <1>8, <2>2, <2>5, <3>4
    <3>6. QED  BY <1>6, <2>2, <3>1, <3>3, <3>5, Passes
  <2>6. CASE promoted # {}
    <3>1. PICK w \in promoted : TRUE
      BY <2>6
    <3>2. promoted = {w}
      BY <3>1 DEF SweepTo
    <3>3. Holder(res)' = w
      BY <2>3, <3>2, HolderIsNext
    <3>4. w \in Waiting(queue, res) \ Waiting(queue', res)
      BY <1>6, <1>7, <3>1
    <3>5. Over(res)' = Over(res) \cup {e}
                         \cup (Waiting(queue, res) \ (Waiting(queue', res) \cup {w}))
      BY <1>8, <2>2, <3>2
    <3>6. Waiting(queue', res) \subseteq Waiting(queue, res)
      BY <1>6
    <3>7. QED  BY <2>2, <3>3, <3>4, <3>5, <3>6, Passes
  <2>7. QED  BY <2>5, <2>6
<1>12. QED  BY <1>10, <1>11

LEMMA InitLease == Init => Lease!Init
<1> SUFFICES ASSUME Init PROVE Lease!Init
  OBVIOUS
<1>1. ASSUME NEW res \in Resource
      PROVE  Holder(res) = NoReq /\ Waiting(queue, res) = {} /\ Over(res) = {}
  BY DEF Init, Holder, Active, Waiting, Over
<1>2. QED  BY <1>1 DEF Lease!Init

LEMMA NextLease == RInv /\ [Next]_vars => Lease!Next
<1> SUFFICES ASSUME RInv, [Next]_vars PROVE Lease!Next
  OBVIOUS
<1> DEFINE Served == \A res \in Resource : Lease!Serve(res)
<1>0. Served => Lease!Next
  BY DEF Lease!Next
<1>1. ASSUME NEW r \in Req, NEW a \in Agent, NEW wanted \in Resource, NEW d \in Duration,
             RefuseClaim(r, a, wanted, d)
      PROVE  Served
  <2> DEFINE new == [pc |-> "conflict", resource |-> wanted, agent |-> a, dur |-> d]
  <2>1. req' = [req EXCEPT ![r] = new] /\ req[r].pc # "queued" /\ new.pc # "queued"
    BY <1>1 DEF RefuseClaim
  <2>2. QED  BY <1>1, <2>1, QuietTurns DEF RefuseClaim
<1>2. ASSUME NEW r \in Req, FailEnqueue(r) PROVE Served
  <2> DEFINE new == [pc |-> "failed", resource |-> req[r].resource]
  <2>1. req' = [req EXCEPT ![r] = new] /\ req[r].pc # "queued" /\ new.pc # "queued"
    BY <1>2 DEF FailEnqueue, Reply
  <2>2. QED  BY <1>2, <2>1, QuietTurns DEF FailEnqueue
<1>3. ASSUME NEW id \in Req, NEW caller, NEW d \in Duration, RenewClaim(id, caller, d)
      PROVE  Served
  <2>1. \E e : claims' = [claims EXCEPT ![id].expires_at = e]
    BY <1>3 DEF RenewClaim
  <2>2. QED  BY <1>3, <2>1, QuietTurns DEF RenewClaim, IsActive
<1>4. CASE \/ \E wanted \in Resource : WebhookList(wanted)
           \/ \E ids \in SUBSET hooked : WebhookLost(ids)
           \/ Tick \/ UNCHANGED vars
  BY <1>0, <1>4, QuietTurns DEF WebhookList, WebhookLost, Tick, vars
<1>5. ASSUME NEW id \in Req, WebhookRelease(id) PROVE Served
  <2>1. id \in DOMAIN claims /\ req' = req
    BY <1>5 DEF WebhookRelease, RInv, Inv, TypeOK
  <2>2. QED  BY <1>5, <2>1, ReleaseTurns, QuietTurns DEF WebhookRelease
<1>6. ASSUME NEW id \in Req, NEW caller, ReleaseClaim(id, caller) PROVE Served
  BY <1>6, ReleaseTurns DEF ReleaseClaim
<1>7. CASE ExpireOldClaims
  BY <1>0, <1>7, SweepStep, SweepTurns DEF ExpireOldClaims
<1>8. ASSUME NEW r \in Req, NEW a \in Agent, NEW wanted \in Resource, NEW d \in Duration,
             GrantClaim(r, a, wanted, d)
      PROVE  Lease!Next
  <2>1. Lease!Arrive(wanted, r) /\ \A other \in Resource \ {wanted} : Lease!Rest(other)
    BY <1>8, GrantTurns
  <2>2. QED  BY <2>1 DEF Lease!Next
<1>9. ASSUME NEW r \in Req, EnqueueClaim(r) PROVE Lease!Next
  <2> DEFINE wanted == req[r].resource
  <2>1. wanted \in Resource
    BY <1>9 DEF EnqueueClaim, RInv, Inv, TypeOK, Request
  <2>2. Lease!Arrive(wanted, r) /\ \A other \in Resource \ {wanted} : Lease!Rest(other)
    BY <1>9, <2>1, EnqueueTurns
  <2>3. QED  BY <2>1, <2>2 DEF Lease!Next
<1>10. QED
  BY <1>1, <1>2, <1>3, <1>4, <1>5, <1>6, <1>7, <1>8, <1>9, <1>0 DEF Next, Create
-----------------------------------------------------------------------------
\* The tables implement the lease: whatever handlers, webhook and sweep do, the
\* requests for a resource take turns at it, in every step.
THEOREM TablesImplementLease == Spec => LeaseSpec
<1>1. Spec => []RInv
  BY InitRInv, NextRInv, PTL DEF Spec
<1>2. QED
  BY <1>1, InitLease, NextLease, PTL DEF Spec, LeaseSpec, Lease!Spec
-----------------------------------------------------------------------------
(* What follows from the lease: a request has one turn, at one resource.    *)

\* r waits for res, holds it, or did.
Met(res, r) == r \in Waiting(queue, res) \cup Over(res) \cup {Holder(res)}

Apart(res) ==
  /\ Waiting(queue, res) \cap Over(res) = {}
  /\ Holder(res) \notin Waiting(queue, res) \cup Over(res)

\* A request is in one phase of its turn, and of one resource.
OneTurnEach ==
  /\ \A res \in Resource : Apart(res)
  /\ \A r \in Req : \A res, other \in Resource : Met(res, r) /\ Met(other, r) => res = other

\* A turn that is over does not come back.
TurnsStayOver == [][\A res \in Resource : Over(res) \subseteq Over(res)']_vars

\* Who is served was there before.
LEMMA ServeKeeps ==
  ASSUME Inv, Inv', NEW res \in Resource, Lease!Serve(res)
  PROVE  /\ \A r \in Req : Met(res, r)' => Met(res, r)
         /\ Over(res) \subseteq Over(res)'
         /\ Apart(res) => Apart(res)'
<1> DEFINE h == Holder(res)
           w == Waiting(queue, res)
           o == Over(res)
<1>1. w \subseteq Req /\ o \subseteq Req /\ w' \subseteq Req /\ o' \subseteq Req /\ NoReq \notin Req
  BY DEF Inv, TypeOK, Waiting, Over
<1>2. \/ w' \subseteq w /\ o' = o \cup (w \ w') /\ h' = h
      \/ /\ h # NoReq /\ w' \subseteq w
         /\ (h' = NoReq /\ w' = {}) \/ h' \in w \ w'
         /\ o' = o \cup {h} \cup (w \ (w' \cup {h'}))
      \/ h = NoReq /\ h' \in w /\ w' = w \ {h'} /\ o' = o
  BY DEF Lease!Serve, Lease!Drop, Lease!Pass, Lease!Adopt
<1>3. \A r \in Req : r \in w' \cup o' \cup {h'} => r \in w \cup o \cup {h}
  BY <1>1, <1>2
<1>4. o \subseteq o'
  BY <1>2
<1>5. w \cap o = {} /\ h \notin w \cup o => w' \cap o' = {} /\ h' \notin w' \cup o'
  BY <1>1, <1>2
<1>6. QED  BY <1>3, <1>4, <1>5 DEF Met, Apart

\* Who arrives was not there before, at any resource.
LEMMA ArriveKeeps ==
  ASSUME Inv, NEW res \in Resource, NEW r \in Req, Lease!Arrive(res, r)
  PROVE  /\ \A other \in Resource : ~Met(other, r)
         /\ \A q \in Req : Met(res, q)' => Met(res, q) \/ q = r
         /\ Over(res) \subseteq Over(res)'
         /\ Apart(res) => Apart(res)'
<1>1. \A other \in Resource : ~Met(other, r)
  BY DEF Lease!Arrive, Lease!Take, Lease!Join, Lease!Fresh, Met
<1>2. /\ Over(res)' = Over(res)
      /\ \/ Holder(res)' = r /\ Waiting(queue, res)' = Waiting(queue, res)
         \/ Holder(res)' = Holder(res) /\ Waiting(queue, res)' = Waiting(queue, res) \cup {r}
  BY DEF Lease!Arrive, Lease!Take, Lease!Join
<1>3. r \notin Waiting(queue, res) \cup Over(res) \cup {Holder(res)}
  BY <1>1 DEF Met
<1>4. QED  BY <1>1, <1>2, <1>3 DEF Met, Apart

LEMMA TurnStep ==
  ASSUME Inv, Inv', OneTurnEach, [Lease!Next]_(Lease!lease)
  PROVE  OneTurnEach' /\ \A res \in Resource : Over(res) \subseteq Over(res)'
<1>1. CASE \A res \in Resource : Lease!Serve(res)
  BY <1>1, ServeKeeps DEF OneTurnEach
<1>2. ASSUME NEW r \in Req, NEW at \in Resource, Lease!Arrive(at, r),
             \A other \in Resource \ {at} : Lease!Rest(other)
      PROVE  OneTurnEach' /\ \A res \in Resource : Over(res) \subseteq Over(res)'
  <2>1. ASSUME NEW other \in Resource \ {at}
        PROVE  /\ \A q \in Req : Met(other, q)' => Met(other, q)
               /\ Over(other)' = Over(other) /\ Apart(other) => Apart(other)'
    BY <1>2 DEF Lease!Rest, Met, Apart
  <2>2. \A res \in Resource, q \in Req : Met(res, q)' => Met(res, q) \/ (res = at /\ q = r)
    BY <1>2, <2>1, ArriveKeeps
  <2>3. \A res \in Resource : ~Met(res, r)
    BY <1>2, ArriveKeeps
  <2>4. \A res \in Resource : Apart(res)' /\ Over(res) \subseteq Over(res)'
    <3> SUFFICES ASSUME NEW res \in Resource
                 PROVE  Apart(res)' /\ Over(res) \subseteq Over(res)'
      OBVIOUS
    <3>1. Apart(res)
      BY DEF OneTurnEach
    <3>2. CASE res = at
      BY <1>2, <3>1, <3>2, ArriveKeeps
    <3>3. CASE res # at
      BY <1>2, <3>1, <3>3 DEF Lease!Rest, Apart
    <3>4. QED  BY <3>2, <3>3
  <2>5. QED  BY <2>2, <2>3, <2>4 DEF OneTurnEach
<1>3. CASE UNCHANGED Lease!lease
  <2>1. \A res \in Resource :
          /\ Holder(res)' = Holder(res) /\ Waiting(queue, res)' = Waiting(queue, res)
          /\ Over(res)' = Over(res)
    <3> DEFINE hs == [res \in Resource |-> Holder(res)]
               ws == [res \in Resource |-> Waiting(queue, res)]
               os == [res \in Resource |-> Over(res)]
    <3>1. hs' = hs /\ ws' = ws /\ os' = os
      BY <1>3 DEF Lease!lease
    <3>2. \A res \in Resource : hs'[res] = hs[res] /\ ws'[res] = ws[res] /\ os'[res] = os[res]
      BY <3>1
    <3>3. QED  BY <3>2
  <2>2. QED  BY <2>1 DEF OneTurnEach, Met, Apart
<1>4. QED  BY <1>1, <1>2, <1>3 DEF Lease!Next

\* A create request has one turn: a claim that ended, or a waiter that was
\* purged, never holds or waits again, however late or often it is released,
\* renewed or listed; this follows from the lease alone.
THEOREM OneTurnOnly == Spec => []OneTurnEach /\ TurnsStayOver
<1>1. Init => OneTurnEach
  <2>1. ASSUME Init, NEW res \in Resource
        PROVE  Holder(res) = NoReq /\ Waiting(queue, res) = {} /\ Over(res) = {}
    BY <2>1 DEF Init, Holder, Active, Waiting, Over
  <2>2. QED  BY <2>1 DEF OneTurnEach, Met, Apart
<1> DEFINE Stay == \A res \in Resource : Over(res) \subseteq Over(res)'
<1>2. Inv /\ Inv' /\ OneTurnEach /\ [Lease!Next]_(Lease!lease) => OneTurnEach' /\ [Stay]_vars
  BY TurnStep
<1>3. QED
  BY SpecInv, TablesImplementLease, <1>1, <1>2, PTL
  DEF Spec, LeaseSpec, Lease!Spec, TurnsStayOver
=============================================================================
