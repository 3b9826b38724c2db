----------------------------- MODULE ClaimLease -----------------------------
(***************************************************************************)
(* What the claim API promises, without transactions, clocks or             *)
(* timestamps: the requests for a resource take turns at holding it.        *)
(*                                                                          *)
(*   - at most one request holds a resource;                                *)
(*   - when a turn ends while requests wait, one of them holds the resource *)
(*     in the very next state: the resource is not free in between;         *)
(*   - a request waits or holds at most once: after its turn, or after it   *)
(*     was dropped from the queue, it never comes back.                     *)
(*                                                                          *)
(* A step may serve several resources, each in one of the ways below.       *)
(***************************************************************************)
CONSTANTS Req,       \* the requests for a claim
          Resource,  \* what they ask for
          Nobody     \* the holder of a free resource; not a request

VARIABLES holder,    \* for each resource: the request that holds it, or Nobody
          waiting,   \* the requests in its queue
          over       \* the requests whose turn ended or that were dropped

lease == <<holder, waiting, over>>

Init ==
  /\ holder = [res \in Resource |-> Nobody]
  /\ waiting = [res \in Resource |-> {}]
  /\ over = [res \in Resource |-> {}]

Fresh(r) ==
  \A res \in Resource : r \notin waiting[res] \cup over[res] \cup {holder[res]}

\* A request is granted the free resource.
Take(res, r) ==
  /\ holder[res] = Nobody
  /\ Fresh(r)
  /\ holder'[res] = r
  /\ waiting'[res] = waiting[res]
  /\ over'[res] = over[res]

\* A request joins the queue.
Join(res, r) ==
  /\ Fresh(r)
  /\ waiting'[res] = waiting[res] \cup {r}
  /\ holder'[res] = holder[res]
  /\ over'[res] = over[res]

\* Requests that waited too long are dropped.
Drop(res) ==
  /\ waiting'[res] \subseteq waiting[res]
  /\ over'[res] = over[res] \cup (waiting[res] \ waiting'[res])
  /\ holder'[res] = holder[res]

\* The turn of the holder ends (and, in the same step, requests may be
\* dropped): the resource passes to a waiting request, if one is left.
Pass(res) ==
  /\ holder[res] # Nobody
  /\ waiting'[res] \subseteq waiting[res]
  /\ \/ holder'[res] = Nobody /\ waiting'[res] = {}
     \/ holder'[res] \in waiting[res] \ waiting'[res]
  /\ over'[res] =
       over[res] \cup {holder[res]} \cup (waiting[res] \ (waiting'[res] \cup {holder'[res]}))

\* A request that waits for a free resource is granted it.
Adopt(res, w) ==
  /\ holder[res] = Nobody
  /\ w \in waiting[res]
  /\ holder'[res] = w
  /\ waiting'[res] = waiting[res] \ {w}
  /\ over'[res] = over[res]

\* Drop(res) leaves a resource as it is, too.
Serve(res) == Drop(res) \/ Pass(res) \/ \E w \in Req : Adopt(res, w)

Arrive(res, r) == Take(res, r) \/ Join(res, r)

Rest(res) ==
  /\ holder'[res] = holder[res]
  /\ waiting'[res] = waiting[res]
  /\ over'[res] = over[res]

\* One request arrives at a time, and asks for one resource.
Next ==
  \/ \A res \in Resource : Serve(res)
  \/ \E r \in Req, res \in Resource :
       Arrive(res, r) /\ \A other \in Resource \ {res} : Rest(other)

Spec == Init /\ [][Next]_lease
=============================================================================
