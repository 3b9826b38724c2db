------------------------------- MODULE Todos --------------------------------
(***************************************************************************)
(* The todos of the agents: the handlers that create, change, reorder and   *)
(* prune them, and the sweeper that deletes finished ones after a day.      *)
(*                                                                          *)
(* Every transaction is one action.  PATCH and DELETE are several: they     *)
(* look the todo up to check its owner, then change it in a transaction,    *)
(* and PATCH reads it again for the reply; the sweeper, the owner's other   *)
(* requests and the clock may come in between.  A transaction that fails    *)
(* changes nothing.                                                         *)
(*                                                                          *)
(* Titles, contexts and parent tasks are carried along and never looked at. *)
(***************************************************************************)
EXTENDS TimeText, Sequences

CONSTANTS
  Worker,    \* goroutines that serve a PATCH or a DELETE
  Agent,     \* values of X-Agent-ID
  Id,        \* the todos ever created
  Status,    \* values of todos.status; nothing restricts them
  Unset,     \* a nil field of TodoUpdate
  MaxIds,    \* length of the longest list of ids to reorder (model bound)
  MaxAge,    \* age in ticks at which the sweeper prunes: 24 hours
  MaxLag,    \* age in ticks of a process's time.Now() when it commits
  Horizon,   \* last tick at which requests are served (model bound)
  MaxTime    \* last tick of the clock (model bound)

ASSUME TodosAssumption ==
  /\ "pending" \in Status /\ Unset \notin Status
  /\ MaxIds \in Nat /\ MaxAge \in Nat /\ MaxLag \in Nat
  /\ Horizon \in Nat /\ MaxTime \in Nat

VARIABLES
  now,     \* the wall clock
  todos,   \* table todos
  work,    \* what each worker is doing
  order    \* history: the last list of ids each agent has ordered its todos by

vars == <<now, todos, work, order>>

Row == [agent : Agent, status : Status, sort : Nat, updated : Int]

Unborn == [status |-> "unborn"]
Gone == [status |-> "gone"]

Exists(id) == todos[id] \notin {Unborn, Gone}

\* patch, delete: the owner was checked, the transaction is to come; get: the
\* PATCH reads its reply; absent: the reply was 404.
Activity ==
  [pc : {"idle"}]
    \cup [pc : {"patch"}, id : Id, status : Status \cup {Unset}]
    \cup [pc : {"delete", "get", "absent"}, id : Id]

Idle == [pc |-> "idle"]

IdList == UNION {[1 .. n -> Id] : n \in 0 .. MaxIds}

TypeOK ==
  /\ now \in 0 .. MaxTime
  /\ todos \in [Id -> Row \cup {Unborn, Gone}]
  /\ work \in [Worker -> Activity]
  /\ order \in [Agent -> IdList]
-----------------------------------------------------------------------------
Stamp == {t \in 0 .. now : now - t <= MaxLag}

Become(w, activity) == work' = [work EXCEPT ![w] = activity]

Owns(a, id) == Exists(id) /\ todos[id].agent = a

\* POST /api/v1/todos.  sort_order is 0 unless the caller says otherwise.
CreateTodo(id, a, sort) ==
  /\ now <= Horizon
  /\ todos[id] = Unborn
  /\ \E t \in Stamp :
       todos' = [todos EXCEPT ![id] =
                   [agent |-> a, status |-> "pending", sort |-> sort, updated |-> t]]
  /\ UNCHANGED <<now, work, order>>
-----------------------------------------------------------------------------
(* PATCH and DELETE /api/v1/todos/{id}. *)

\* The ownership check: a todo of somebody else is answered 403, one that is
\* not there 404, and nothing changes.
CheckOwner(w, a, id, activity) ==
  /\ now <= Horizon
  /\ work[w] = Idle
  /\ Owns(a, id)
  /\ Become(w, activity)
  /\ UNCHANGED <<now, todos, order>>

BeginPatch(w, a, id, status) ==
  CheckOwner(w, a, id, [pc |-> "patch", id |-> id, status |-> status])

BeginDelete(w, a, id) == CheckOwner(w, a, id, [pc |-> "delete", id |-> id])

\* Fault: the row is written whole, with the sort order it was created with.
PatchedSortReset(row, status, t) ==
  [row EXCEPT !.status = IF status = Unset THEN @ ELSE status, !.updated = t, !.sort = 0]

\* Every field that is set refreshes updated_at; without a status it may be the
\* title or the context that is set, or nothing (see UpdateTodo).
Patched(row, status, t) ==
  [row EXCEPT !.status = IF status = Unset THEN @ ELSE status, !.updated = t]

\* Fault: an error of the transaction is answered 404.
UpdateTodoAnyErrorNotFound(w) ==
  /\ work[w].pc = "patch" /\ now <= Horizon
  /\ Become(w, [pc |-> "absent", id |-> work[w].id])
  /\ UNCHANGED <<now, todos, order>>

\* UpdateTodo's transaction; the reply is read afterwards.
UpdateTodo(w) ==
  /\ work[w].pc = "patch" /\ now <= Horizon
  /\ LET id == work[w].id
     IN IF Exists(id)
          THEN /\ \/ \E t \in Stamp :
                       todos' = [todos EXCEPT ![id] = Patched(@, work[w].status, t)]
                  \/ work[w].status = Unset /\ UNCHANGED todos
               /\ Become(w, [pc |-> "get", id |-> id])
          ELSE /\ Become(w, [pc |-> "absent", id |-> id])
               /\ UNCHANGED todos
  /\ UNCHANGED <<now, order>>

GetTodo(w) ==
  /\ work[w].pc = "get"
  /\ Become(w, IF Exists(work[w].id) THEN Idle ELSE [pc |-> "absent", id |-> work[w].id])
  /\ UNCHANGED <<now, todos, order>>

DeleteTodo(w) ==
  /\ work[w].pc = "delete"
  /\ LET id == work[w].id
     IN IF Exists(id)
          THEN /\ todos' = [todos EXCEPT ![id] = Gone]
               /\ Become(w, Idle)
          ELSE /\ Become(w, [pc |-> "absent", id |-> id])
               /\ UNCHANGED todos
  /\ UNCHANGED <<now, order>>

\* The transaction fails, its answer is lost, or the client gives up: the
\* reply is 500 or none.  (A reply that was read ends here, too.)
End(w) ==
  /\ work[w] # Idle
  /\ Become(w, Idle)
  /\ UNCHANGED <<now, todos, order>>
-----------------------------------------------------------------------------
(* PruneDoneTodos: DELETE /api/v1/todos/done and the sweeper. *)

\* Faults: the comparison is the wrong way round; the age is forgotten; the
\* status is.
PrunableSwapped(cutoff) ==
  {id \in Id : Exists(id) /\ todos[id].status # "pending" /\ TextLess(cutoff, todos[id].updated)}

PrunableAnyAge(cutoff) == {id \in Id : Exists(id) /\ todos[id].status # "pending"}

PrunableAnyStatus(cutoff) == {id \in Id : Exists(id) /\ TextLess(todos[id].updated, cutoff)}

Prunable(cutoff) ==
  {id \in Id : /\ Exists(id) /\ todos[id].status # "pending"
               /\ TextLess(todos[id].updated, cutoff)}

Prune(ids) == todos' = [id \in Id |-> IF id \in ids THEN Gone ELSE todos[id]]

\* maxAge is 0: the cutoff is the time of the request.
PruneOwn(a) ==
  /\ now <= Horizon
  /\ \E t \in Stamp : Prune({id \in Prunable(t) : todos[id].agent = a})
  /\ UNCHANGED <<now, work, order>>

PruneDoneTodos ==
  /\ \E t \in Stamp : Prune(Prunable(t - MaxAge))
  /\ UNCHANGED <<now, work, order>>
-----------------------------------------------------------------------------
(* POST /api/v1/todos/reorder. *)

Named(ids) == {ids[i] : i \in DOMAIN ids}

\* Fault: the place counts from one too few.
LastIndexFromZero(ids, id) ==
  (CHOOSE i \in DOMAIN ids : ids[i] = id /\ \A j \in DOMAIN ids : ids[j] = id => j <= i) - 1

\* Where the loop sets an id for the last time.
LastIndex(ids, id) ==
  CHOOSE i \in DOMAIN ids : ids[i] = id /\ \A j \in DOMAIN ids : ids[j] = id => j <= i

Reordered(ids, t) ==
  [id \in Id |->
     IF id \in Named(ids)
       THEN [todos[id] EXCEPT !.sort = LastIndex(ids, id) - 1, !.updated = t]
       ELSE todos[id]]

\* The UPDATE is by id and agent; ErrNotFound, for an id that is not the
\* caller's, rolls all of them back.
Reorder(a, ids) ==
  /\ \A id \in Named(ids) : Owns(a, id)
  /\ \E t \in Stamp : todos' = Reordered(ids, t)
  /\ order' = [order EXCEPT ![a] = ids]

ReorderTodos(a, ids) ==
  /\ now <= Horizon
  /\ ids # << >>
  /\ Reorder(a, ids)
  /\ UNCHANGED <<now, work>>

Tick ==
  /\ now < MaxTime
  /\ now' = now + 1
  /\ UNCHANGED <<todos, work, order>>
-----------------------------------------------------------------------------
Init ==
  /\ now = 0
  /\ todos = [id \in Id |-> Unborn]
  /\ work = [w \in Worker |-> Idle]
  /\ order = [a \in Agent |-> << >>]

Begin(w, a, id) ==
  BeginDelete(w, a, id) \/ \E status \in Status \cup {Unset} : BeginPatch(w, a, id, status)

Proceed(w) == UpdateTodo(w) \/ GetTodo(w) \/ DeleteTodo(w) \/ End(w)

Next ==
  \/ \E id \in Id, a \in Agent :
       CreateTodo(id, a, 0) \/ \E w \in Worker : Begin(w, a, id)
  \/ \E w \in Worker : Proceed(w)
  \/ \E a \in Agent : PruneOwn(a) \/ \E ids \in IdList : ReorderTodos(a, ids)
  \/ PruneDoneTodos
  \/ Tick

Spec == Init /\ [][Next]_vars

\* Handlers that have begun end; the sweeper's ticker fires for as long as
\* the server runs; time passes.
Fairness ==
  /\ \A w \in Worker : WF_vars(Proceed(w))
  /\ WF_vars(PruneDoneTodos)
  /\ WF_vars(Tick)

FairSpec == Spec /\ Fairness
-----------------------------------------------------------------------------
(* Properties. *)

\* No pending todo is lost: it goes only by a DELETE that its owner has asked
\* for.  One that is reopened while it is being pruned is gone or stays.
NoTodoLost ==
  [][\A id \in Id : Exists(id) /\ todos'[id] = Gone =>
       \/ todos[id].status # "pending"
       \/ \E w \in Worker : work[w].pc = "delete" /\ work[w].id = id]_vars

\* The sweeper takes a finished todo only after it was left alone for MaxAge.
\* The cutoff is older than the deletion and compared as a text, which is
\* wrong by less than a second.
NoEarlyPrune ==
  [][PruneDoneTodos =>
       \A id \in Id : Exists(id) /\ todos'[id] = Gone =>
         todos[id].updated + MaxAge < now + TicksPerSecond]_vars

\* The order that a reply 204 promised lasts: whatever is changed, pruned,
\* created or refused to be reordered meanwhile, the todos of the list that
\* are left sort as their last places in it.
OrderLasts ==
  \A a \in Agent : \A i, j \in DOMAIN order[a] :
    LET ids == order[a]
    IN LastIndex(ids, ids[i]) < LastIndex(ids, ids[j]) /\ Exists(ids[i]) /\ Exists(ids[j])
         => todos[ids[i]].sort < todos[ids[j]].sort

\* 404 is final: a PATCH or a DELETE is answered so after its owner check
\* only if the todo is gone, and ids do not come back.
NotFoundMeansGone ==
  \A w \in Worker : work[w].pc = "absent" => todos[work[w].id] = Gone

\* Todos do not pile up: a finished one is pruned or reopened, although every
\* change, a reorder by its owner included, makes it young again.
FinishedTodosEnd ==
  \A id \in Id :
    (Exists(id) /\ todos[id].status # "pending")
      ~> ~(Exists(id) /\ todos[id].status # "pending")
=============================================================================
