---------------------------- MODULE TodosProofs -----------------------------
(***************************************************************************)
(* Proofs about Todos: types; a pending todo goes only by a DELETE of its   *)
(* owner; the sweeper takes the finished ones that are old enough, and only *)
(* those; an order that was acknowledged lasts; 404 is final.               *)
(***************************************************************************)
EXTENDS Todos, TimeTextProofs, TLAPS

\* A todo whose owner was checked was created.
CheckedWasBorn ==
  \A w \in Worker : work[w] # Idle => todos[work[w].id] # Unborn

\* The todos of an order were created, by the agent that ordered them.
OrderedWereOwned ==
  \A a \in Agent : \A id \in Named(order[a]) :
    todos[id] # Unborn /\ (Exists(id) => todos[id].agent = a)

\* The sort orders of an agent's list are the last places in it.
SortsArePlaces ==
  \A a \in Agent : \A id \in Named(order[a]) :
    Exists(id) => todos[id].sort = LastIndex(order[a], id) - 1

Inv == TypeOK /\ CheckedWasBorn /\ OrderedWereOwned /\ SortsArePlaces /\ NotFoundMeansGone

USE TodosAssumption
-----------------------------------------------------------------------------
(* The places of a list. *)

LEMMA LastIndexType ==
  ASSUME NEW ids \in IdList, NEW id \in Named(ids)
  PROVE  LastIndex(ids, id) \in DOMAIN ids /\ LastIndex(ids, id) - 1 \in Nat
<1>1. PICK n \in Nat : ids \in [1 .. n -> Id]
  BY DEF IdList
<1> DEFINE T == {n - i : i \in {j \in 1 .. n : ids[j] = id}}
<1>2. T \subseteq Nat /\ T # {}
  BY <1>1 DEF Named
<1>3. PICK m \in T : \A k \in T : m <= k
  BY <1>2, LeastNat
<1>4. PICK i \in 1 .. n : ids[i] = id /\ m = n - i
  BY <1>3
<1>5. \A j \in 1 .. n : ids[j] = id => j <= i
  <2> SUFFICES ASSUME NEW j \in 1 .. n, ids[j] = id PROVE j <= i
    OBVIOUS
  <2>1. n - j \in T
    OBVIOUS
  <2>2. n - i <= n - j
    BY <1>3, <1>4, <2>1
  <2> QED
    BY <2>2
<1>6. LastIndex(ids, id) \in 1 .. n
  BY <1>1, <1>4, <1>5 DEF LastIndex
<1> QED
  BY <1>1, <1>6
-----------------------------------------------------------------------------
(* Types. *)

LEMMA PatchedType ==
  ASSUME NEW row \in Row, NEW status \in Status \cup {Unset}, NEW t \in Int
  PROVE  /\ Patched(row, status, t) \in Row
         /\ Patched(row, status, t).agent = row.agent
         /\ Patched(row, status, t).sort = row.sort
BY DEF Patched, Row

LEMMA RowIsThere == Unborn \notin Row /\ Gone \notin Row /\ Unborn # Gone
BY DEF Unborn, Gone, Row

LEMMA ExistsRow ==
  ASSUME TypeOK, NEW id \in Id, Exists(id)
  PROVE  todos[id] \in Row
BY DEF TypeOK, Exists

LEMMA StampType == \A t \in Stamp : TypeOK => t \in Nat
BY DEF Stamp, TypeOK

LEMMA WorkType ==
  ASSUME TypeOK, NEW w \in Worker, work[w] # Idle
  PROVE  work[w].id \in Id /\ (work[w].pc = "patch" => work[w].status \in Status \cup {Unset})
BY DEF TypeOK, Activity, Idle

LEMMA NamedType ==
  ASSUME TypeOK, NEW a \in Agent
  PROVE  order[a] \in IdList /\ Named(order[a]) \subseteq Id
BY DEF TypeOK, IdList, Named

LEMMA InitInv == Init => Inv
<1> SUFFICES ASSUME Init PROVE Inv
  OBVIOUS
<1>1. << >> \in IdList /\ Named(<< >>) = {}
  BY DEF IdList, Named
<1>2. TypeOK
  BY <1>1 DEF Init, TypeOK, Activity, Idle, Unborn, Gone
<1>3. OrderedWereOwned /\ SortsArePlaces
  BY <1>1 DEF Init, OrderedWereOwned, SortsArePlaces
<1>4. CheckedWasBorn /\ NotFoundMeansGone
  BY DEF Init, CheckedWasBorn, NotFoundMeansGone, Idle
<1> QED
  BY <1>2, <1>3, <1>4 DEF Inv
-----------------------------------------------------------------------------
(* A step that leaves the orders alone. *)

\* Todos keep their agents and sort orders, are created or go; workers turn to
\* todos that were created, and find them gone only when they are.
LEMMA TodosStep ==
  ASSUME Inv, TypeOK', order' = order,
         \A id \in Id :
           \/ todos'[id] = todos[id]
           \/ todos[id] = Unborn
           \/ Exists(id) /\ todos'[id] = Gone
           \/ /\ Exists(id) /\ Exists(id)'
              /\ todos'[id].agent = todos[id].agent
              /\ todos'[id].sort = todos[id].sort,
         \A id \in Id : todos[id] # Unborn => todos'[id] # Unborn,
         \A w \in Worker :
           \/ work'[w] = work[w]
           \/ work'[w] = Idle
           \/ /\ todos'[work'[w].id] # Unborn
              /\ work'[w].pc = "absent" => todos'[work'[w].id] = Gone
  PROVE  Inv'
<1> USE DEF Inv
<1>1. \A id \in Id : todos[id] = Gone => todos'[id] = Gone
  BY RowIsThere DEF Exists
<1>2. \A w \in Worker : work[w] # Idle => work[w].id \in Id
  BY WorkType
<1>3. Idle.pc # "absent"
  BY DEF Idle
<1>4. CheckedWasBorn'
  BY <1>2 DEF CheckedWasBorn
<1>5. NotFoundMeansGone'
  BY <1>1, <1>2, <1>3 DEF NotFoundMeansGone
<1>6. \A a \in Agent : \A id \in Named(order[a]) :
        /\ id \in Id /\ todos[id] # Unborn
        /\ Exists(id)' => /\ Exists(id)
                          /\ todos'[id].agent = todos[id].agent
                          /\ todos'[id].sort = todos[id].sort
  BY NamedType DEF OrderedWereOwned, Exists
<1>7. OrderedWereOwned'
  BY <1>6 DEF OrderedWereOwned
<1>8. SortsArePlaces'
  BY <1>6 DEF SortsArePlaces
<1> QED
  BY <1>4, <1>5, <1>7, <1>8

LEMMA CreateStep ==
  ASSUME Inv, NEW id \in Id, NEW a \in Agent, CreateTodo(id, a, 0)
  PROVE  Inv'
<1> USE DEF Inv, CreateTodo
<1>1. PICK t \in Stamp :
        todos' = [todos EXCEPT ![id] = [agent |-> a, status |-> "pending", sort |-> 0,
                                        updated |-> t]]
  OBVIOUS
<1>2. [agent |-> a, status |-> "pending", sort |-> 0, updated |-> t] \in Row
  BY StampType DEF Row
<1>3. TypeOK'
  BY <1>1, <1>2 DEF TypeOK
<1>4. \A i \in Id : todos'[i] = IF i = id THEN [agent |-> a, status |-> "pending", sort |-> 0,
                                                updated |-> t]
                                          ELSE todos[i]
  BY <1>1 DEF TypeOK
<1>5. \A i \in Id : todos[i] # Unborn => todos'[i] # Unborn
  BY <1>4
<1> QED
  BY <1>3, <1>4, <1>5, TodosStep

LEMMA CheckStep ==
  ASSUME Inv, NEW w \in Worker, NEW a \in Agent, NEW id \in Id, NEW activity \in Activity,
         activity.pc # "absent", activity.id = id, CheckOwner(w, a, id, activity)
  PROVE  Inv'
<1> USE DEF Inv, CheckOwner, Become
<1>1. TypeOK'
  BY DEF TypeOK
<1>2. \A v \in Worker : work'[v] = IF v = w THEN activity ELSE work[v]
  BY DEF TypeOK
<1>3. todos[id] # Unborn
  BY DEF Owns, Exists
<1> QED
  BY <1>1, <1>2, <1>3, TodosStep

LEMMA ProceedStep == ASSUME Inv, NEW w \in Worker, Proceed(w) PROVE Inv'
<1> USE DEF Inv
<1>1. work[w] # Idle /\ order' = order /\ now' = now
  BY DEF Proceed, UpdateTodo, GetTodo, DeleteTodo, End, Idle
<1>2. PICK id \in Id : id = work[w].id /\ todos[id] # Unborn
  BY <1>1, WorkType DEF CheckedWasBorn
<1>3. ~Exists(id) => todos[id] = Gone
  BY <1>2 DEF Exists
<1>4. ASSUME NEW activity \in {Idle, [pc |-> "get", id |-> id], [pc |-> "absent", id |-> id]}
      PROVE  activity \in Activity
  BY <1>2, <1>4 DEF Activity, Idle
<1>5. ASSUME NEW activity \in {Idle, [pc |-> "get", id |-> id], [pc |-> "absent", id |-> id]},
             activity = [pc |-> "absent", id |-> id] => todos[id] = Gone,
             Become(w, activity), UNCHANGED todos
      PROVE  Inv'
  <2>1. \A v \in Worker : work'[v] = IF v = w THEN activity ELSE work[v]
    BY <1>5 DEF Become, TypeOK
  <2>2. TypeOK'
    BY <1>1, <1>4, <1>5 DEF Become, TypeOK
  <2>3. activity = Idle \/ /\ todos[activity.id] # Unborn
                           /\ activity.pc = "absent" => todos[activity.id] = Gone
    BY <1>2, <1>5
  <2> QED
    BY <1>1, <1>5, <2>1, <2>2, <2>3, TodosStep
<1>6. CASE UpdateTodo(w) /\ Exists(id) /\ todos' # todos
  <2>1. PICK t \in Stamp : todos' = [todos EXCEPT ![id] = Patched(@, work[w].status, t)]
    BY <1>2, <1>6 DEF UpdateTodo
  <2>2. work[w].pc = "patch" /\ Become(w, [pc |-> "get", id |-> id])
    BY <1>2, <1>6 DEF UpdateTodo
  <2> DEFINE row == Patched(todos[id], work[w].status, t)
  <2>3. row \in Row /\ row.agent = todos[id].agent /\ row.sort = todos[id].sort
    <3>1. todos[id] \in Row /\ work[w].status \in Status \cup {Unset} /\ t \in Int
      BY <1>1, <1>2, <1>6, <2>2, WorkType, ExistsRow, StampType
    <3> QED
      BY <3>1, PatchedType
  <2>4. TypeOK'
    BY <1>1, <1>4, <2>1, <2>2, <2>3 DEF Become, TypeOK
  <2>5. \A i \in Id : todos'[i] = IF i = id THEN row ELSE todos[i]
    BY <2>1 DEF TypeOK
  <2>6. \A v \in Worker : work'[v] = IF v = w THEN [pc |-> "get", id |-> id] ELSE work[v]
    BY <2>2 DEF Become, TypeOK
  <2>7. Exists(id)'
    BY <1>2, <2>3, <2>5, RowIsThere DEF Exists
  <2>8. \A i \in Id : todos[i] # Unborn => todos'[i] # Unborn
    BY <2>5, <2>7 DEF Exists
  <2> QED
    BY <1>1, <1>2, <1>6, <2>3, <2>4, <2>5, <2>6, <2>7, <2>8, TodosStep
<1>7. CASE DeleteTodo(w) /\ Exists(id)
  <2>1. todos' = [todos EXCEPT ![id] = Gone] /\ Become(w, Idle)
    BY <1>2, <1>7 DEF DeleteTodo
  <2>2. TypeOK'
    BY <1>1, <1>4, <2>1 DEF Become, TypeOK
  <2>3. \A i \in Id : todos'[i] = IF i = id THEN Gone ELSE todos[i]
    BY <2>1 DEF TypeOK
  <2>4. \A v \in Worker : work'[v] = IF v = w THEN Idle ELSE work[v]
    BY <2>1 DEF Become, TypeOK
  <2>5. \A i \in Id : todos[i] # Unborn => todos'[i] # Unborn
    BY <2>3, RowIsThere
  <2> QED
    BY <1>1, <1>7, <2>2, <2>3, <2>4, <2>5, TodosStep
<1>8. CASE (UpdateTodo(w) \/ DeleteTodo(w)) /\ ~Exists(id)
  BY <1>2, <1>3, <1>5, <1>8 DEF UpdateTodo, DeleteTodo
<1>9. CASE GetTodo(w)
  BY <1>2, <1>3, <1>5, <1>9 DEF GetTodo, Idle
<1>10. CASE End(w)
  BY <1>5, <1>10 DEF End, Idle
<1>11. CASE UpdateTodo(w) /\ Exists(id) /\ UNCHANGED todos
  BY <1>2, <1>5, <1>11 DEF UpdateTodo
<1> QED
  BY <1>6, <1>7, <1>8, <1>9, <1>10, <1>11 DEF Proceed

LEMMA PruneStep ==
  ASSUME Inv, NEW ids, Prune(ids), \A id \in ids : Exists(id), UNCHANGED <<now, work, order>>
  PROVE  Inv'
<1> USE DEF Inv
<1>1. \A id \in Id : todos'[id] = IF id \in ids THEN Gone ELSE todos[id]
  BY DEF Prune
<1>2. TypeOK'
  BY DEF Prune, TypeOK
<1>3. \A id \in Id : todos[id] # Unborn => todos'[id] # Unborn
  BY <1>1, RowIsThere
<1> QED
  BY <1>1, <1>2, <1>3, TodosStep

LEMMA TickStep == ASSUME Inv, Tick PROVE Inv'
<1>1. TypeOK'
  BY DEF Inv, Tick, TypeOK
<1> QED
  BY <1>1, TodosStep DEF Tick, Inv

\* The places are written for the todos of the caller, and nobody else's.
LEMMA ReorderStep ==
  ASSUME Inv, NEW a \in Agent, NEW ids \in IdList, ReorderTodos(a, ids)
  PROVE  Inv'
<1> USE DEF Inv
<1>1. PICK t \in Stamp : todos' = Reordered(ids, t)
  BY DEF ReorderTodos, Reorder
<1>2. /\ order' = [order EXCEPT ![a] = ids] /\ UNCHANGED <<now, work>>
      /\ \A id \in Named(ids) : Exists(id) /\ todos[id].agent = a
  BY DEF ReorderTodos, Reorder, Owns
<1>3. Named(ids) \subseteq Id
  BY DEF IdList, Named
<1> DEFINE placed(id) == [todos[id] EXCEPT !.sort = LastIndex(ids, id) - 1, !.updated = t]
<1>4. \A id \in Id : todos'[id] = IF id \in Named(ids) THEN placed(id) ELSE todos[id]
  BY <1>1 DEF Reordered
<1>5. ASSUME NEW id \in Named(ids)
      PROVE  /\ placed(id) \in Row /\ placed(id).agent = a
             /\ placed(id).sort = LastIndex(ids, id) - 1
  <2>1. id \in Id /\ todos[id] \in Row /\ todos[id].agent = a
    BY <1>2, <1>3, ExistsRow
  <2>2. LastIndex(ids, id) - 1 \in Nat /\ t \in Int
    BY LastIndexType, StampType
  <2> QED
    BY <2>1, <2>2 DEF Row
<1>6. TypeOK'
  <2>1. todos' \in [Id -> Row \cup {Unborn, Gone}]
    BY <1>1, <1>5 DEF Reordered, TypeOK
  <2> QED
    BY <1>2, <2>1 DEF TypeOK
<1>7. \A b \in Agent : order'[b] = IF b = a THEN ids ELSE order[b]
  BY <1>2 DEF TypeOK
<1>8. \A id \in Id : /\ todos[id] = Unborn <=> todos'[id] = Unborn
                     /\ todos[id] = Gone <=> todos'[id] = Gone
                     /\ Exists(id) => todos'[id].agent = todos[id].agent
  BY <1>2, <1>4, <1>5, RowIsThere DEF Exists
<1>9. \A w \in Worker : work[w] # Idle => work[w].id \in Id
  BY WorkType
<1>10. CheckedWasBorn'
  BY <1>2, <1>8, <1>9 DEF CheckedWasBorn
<1>11. NotFoundMeansGone'
  BY <1>2, <1>8, <1>9 DEF NotFoundMeansGone, Idle
<1>12. \A id \in Id : Exists(id)' <=> Exists(id)
  BY <1>8 DEF Exists
<1>13. \A b \in Agent : Named(order[b]) \subseteq Id
  BY NamedType
<1>14. OrderedWereOwned'
  <2> SUFFICES ASSUME NEW b \in Agent, NEW id \in Named(order'[b])
               PROVE  todos'[id] # Unborn /\ (Exists(id)' => todos'[id].agent = b)
    BY DEF OrderedWereOwned, Named
  <2>1. CASE b = a
    BY <1>2, <1>3, <1>7, <1>8, <2>1 DEF Exists
  <2>2. CASE b # a
    BY <1>7, <1>8, <1>12, <1>13, <2>2 DEF OrderedWereOwned
  <2> QED
    BY <2>1, <2>2
<1>15. SortsArePlaces'
  <2> SUFFICES ASSUME NEW b \in Agent, NEW id \in Named(order'[b]), Exists(id)'
               PROVE  todos'[id].sort = LastIndex(order'[b], id) - 1
    BY DEF SortsArePlaces, Named, LastIndex
  <2>1. CASE b = a
    BY <1>3, <1>4, <1>5, <1>7, <2>1
  <2>2. CASE b # a
    <3>1. id \in Named(order[b]) /\ id \in Id /\ Exists(id)
      BY <1>7, <1>12, <1>13, <2>2
    <3>2. todos[id].agent = b
      BY <3>1 DEF OrderedWereOwned
    <3>3. id \notin Named(ids)
      BY <1>2, <2>2, <3>2
    <3> QED
      BY <1>4, <1>7, <2>2, <3>1, <3>3 DEF SortsArePlaces
  <2> QED
    BY <2>1, <2>2
<1> QED
  BY <1>6, <1>10, <1>11, <1>14, <1>15

LEMMA NextInv == Inv /\ [Next]_vars => Inv'
<1> SUFFICES ASSUME Inv, [Next]_vars PROVE Inv'
  OBVIOUS
<1>1. ASSUME NEW id \in Id, NEW a \in Agent, CreateTodo(id, a, 0) PROVE Inv'
  BY <1>1, CreateStep
<1>2. ASSUME NEW id \in Id, NEW a \in Agent, NEW w \in Worker, Begin(w, a, id) PROVE Inv'
  <2>1. CASE BeginDelete(w, a, id)
    <3> DEFINE activity == [pc |-> "delete", id |-> id]
    <3>1. activity \in Activity /\ activity.pc # "absent" /\ activity.id = id
      BY DEF Activity
    <3> QED
      BY <2>1, <3>1, CheckStep DEF BeginDelete
  <2>2. ASSUME NEW status \in Status \cup {Unset}, BeginPatch(w, a, id, status) PROVE Inv'
    <3> DEFINE activity == [pc |-> "patch", id |-> id, status |-> status]
    <3>1. activity \in Activity /\ activity.pc # "absent" /\ activity.id = id
      BY DEF Activity
    <3> QED
      BY <2>2, <3>1, CheckStep DEF BeginPatch
  <2> QED
    BY <1>2, <2>1, <2>2 DEF Begin
<1>3. ASSUME NEW w \in Worker, Proceed(w) PROVE Inv'
  BY <1>3, ProceedStep
<1>4. ASSUME NEW a \in Agent, PruneOwn(a) PROVE Inv'
  <2>1. PICK t \in Stamp : Prune({id \in Prunable(t) : todos[id].agent = a})
    BY <1>4 DEF PruneOwn
  <2>2. \A id \in {i \in Prunable(t) : todos[i].agent = a} : Exists(id)
    BY DEF Prunable
  <2> QED
    BY <1>4, <2>1, <2>2, PruneStep DEF PruneOwn
<1>5. ASSUME NEW a \in Agent, NEW ids \in IdList, ReorderTodos(a, ids) PROVE Inv'
  BY <1>5, ReorderStep
<1>6. CASE PruneDoneTodos
  <2>1. PICK t \in Stamp : Prune(Prunable(t - MaxAge))
    BY <1>6 DEF PruneDoneTodos
  <2>2. \A id \in Prunable(t - MaxAge) : Exists(id)
    BY DEF Prunable
  <2> QED
    BY <1>6, <2>1, <2>2, PruneStep DEF PruneDoneTodos
<1>7. CASE Tick
  BY <1>7, TickStep
<1>8. CASE UNCHANGED vars
  BY <1>8, TodosStep DEF vars, Inv, TypeOK
<1> QED
  BY <1>1, <1>2, <1>3, <1>4, <1>5, <1>6, <1>7, <1>8 DEF Next
-----------------------------------------------------------------------------
\* Todos, workers and orders keep their types; a place that ReorderTodos
\* writes as a sort order is a natural number.
THEOREM TypeCorrect == Spec => []TypeOK
<1>1. Inv => TypeOK
  BY DEF Inv
<1> QED
  BY InitInv, NextInv, <1>1, PTL DEF Spec

\* 404 from UpdateTodo, DeleteTodo or the GetTodo that follows is final,
\* whatever the sweeper and the other requests do in between.
THEOREM AbsentIsGone == Spec => []NotFoundMeansGone
<1>1. Inv => NotFoundMeansGone
  BY DEF Inv
<1> QED
  BY InitInv, NextInv, <1>1, PTL DEF Spec

\* An order that ReorderTodos acknowledged is the order of the todos of the
\* list that are left until their agent orders them again, however long the
\* list and however often an id is in it.
THEOREM OrderIsKept == Spec => []OrderLasts
<1>1. Inv => OrderLasts
  <2> SUFFICES ASSUME Inv, NEW a \in Agent,
                      NEW i \in DOMAIN order[a], NEW j \in DOMAIN order[a],
                      Exists(order[a][i]), Exists(order[a][j]),
                      LastIndex(order[a], order[a][i]) < LastIndex(order[a], order[a][j])
               PROVE  todos[order[a][i]].sort < todos[order[a][j]].sort
    BY DEF OrderLasts
  <2>1. order[a] \in IdList /\ order[a][i] \in Named(order[a]) /\ order[a][j] \in Named(order[a])
    BY NamedType DEF Inv, Named
  <2>2. /\ LastIndex(order[a], order[a][i]) \in Int
        /\ LastIndex(order[a], order[a][j]) \in Int
    <3>1. \A n \in Named(order[a]) : LastIndex(order[a], n) \in DOMAIN order[a]
      BY <2>1, LastIndexType
    <3>2. DOMAIN order[a] \subseteq Int
      BY <2>1 DEF IdList
    <3> QED
      BY <2>1, <3>1, <3>2
  <2>3. /\ todos[order[a][i]].sort = LastIndex(order[a], order[a][i]) - 1
        /\ todos[order[a][j]].sort = LastIndex(order[a], order[a][j]) - 1
    BY <2>1 DEF Inv, SortsArePlaces
  <2> QED
    BY <2>2, <2>3
<1> QED
  BY InitInv, NextInv, <1>1, PTL DEF Spec

\* A pending todo goes by a DELETE alone (DeleteTodo): neither the sweeper nor
\* DELETE /todos/done (PruneDoneTodos) takes it, and no PATCH or reorder does.
THEOREM PendingStays == Spec => NoTodoLost
<1> DEFINE Kept ==
      \A id \in Id : Exists(id) /\ todos'[id] = Gone =>
        \/ todos[id].status # "pending"
        \/ \E w \in Worker : work[w].pc = "delete" /\ work[w].id = id
<1>1. ASSUME Inv, Next PROVE Kept
  <2> SUFFICES ASSUME NEW id \in Id, Exists(id), todos'[id] = Gone
               PROVE  \/ todos[id].status # "pending"
                      \/ \E w \in Worker : work[w].pc = "delete" /\ work[w].id = id
    OBVIOUS
  <2>1. todos \in [Id -> Row \cup {Unborn, Gone}] /\ todos[id] \in Row /\ todos'[id] # todos[id]
    BY <1>1, ExistsRow, RowIsThere DEF Inv, TypeOK
  <2>2. ASSUME NEW k \in Id, NEW a \in Agent, CreateTodo(k, a, 0) PROVE FALSE
    <3>1. todos'[id] = todos[id]
      BY <2>1, <2>2 DEF CreateTodo, Exists
    <3> QED
      BY <2>1, <3>1
  <2>3. ASSUME NEW k \in Id, NEW a \in Agent, NEW w \in Worker, Begin(w, a, k) PROVE FALSE
    BY <2>1, <2>3 DEF Begin, BeginDelete, BeginPatch, CheckOwner
  <2>4. ASSUME NEW w \in Worker, UpdateTodo(w) PROVE FALSE
    <3>1. PICK t \in Stamp :
            todos' = [todos EXCEPT ![work[w].id] = Patched(@, work[w].status, t)]
      BY <2>1, <2>4 DEF UpdateTodo
    <3>2. todos'[id] = Patched(todos[id], work[w].status, t)
      BY <2>1, <3>1
    <3>3. Patched(todos[id], work[w].status, t) \in Row
      <4>1. work[w].status \in Status \cup {Unset} /\ t \in Int
        BY <1>1, <2>4, WorkType, StampType DEF UpdateTodo, Idle, Inv
      <4> QED
        BY <2>1, <4>1, PatchedType
    <3> QED
      BY <3>2, <3>3, RowIsThere
  <2>5. ASSUME NEW w \in Worker, DeleteTodo(w) PROVE work[w].pc = "delete" /\ work[w].id = id
    BY <2>1, <2>5 DEF DeleteTodo
  <2>6. ASSUME NEW ids, Prune(ids) PROVE id \in ids
    BY <2>1, <2>6 DEF Prune
  <2>7. ASSUME NEW a \in Agent, PruneOwn(a) PROVE todos[id].status # "pending"
    BY <2>6, <2>7 DEF PruneOwn, Prunable
  <2>8. ASSUME PruneDoneTodos PROVE todos[id].status # "pending"
    BY <2>6, <2>8 DEF PruneDoneTodos, Prunable
  <2>9. ASSUME NEW a \in Agent, NEW ids \in IdList, ReorderTodos(a, ids) PROVE FALSE
    <3>1. PICK t \in Stamp : todos' = Reordered(ids, t)
      BY <2>9 DEF ReorderTodos, Reorder
    <3>2. todos'[id] = [todos[id] EXCEPT !.sort = LastIndex(ids, id) - 1, !.updated = t]
      BY <2>1, <3>1 DEF Reordered
    <3> QED
      BY <2>1, <3>2 DEF Row, Gone
  <2>10. CASE UNCHANGED todos
    BY <2>1, <2>10
  <2> QED
    BY <1>1, <2>2, <2>3, <2>4, <2>5, <2>7, <2>8, <2>9, <2>10
       DEF Next, Proceed, GetTodo, End, Tick
<1>2. ASSUME Inv, [Next]_vars PROVE [Kept]_vars
  BY <1>1, <1>2
<1> QED
  BY InitInv, NextInv, <1>2, PTL DEF Spec, NoTodoLost

\* The sweeper (PruneDoneTodos) takes no todo that was changed within MaxAge,
\* but for the second that the order of texts may be wrong by, although its
\* cutoff is older than its transaction.
THEOREM YoungStay == Spec => NoEarlyPrune
<1> DEFINE Old ==
      PruneDoneTodos =>
        \A id \in Id : Exists(id) /\ todos'[id] = Gone =>
          todos[id].updated + MaxAge < now + TicksPerSecond
<1>1. ASSUME Inv PROVE Old
  <2> SUFFICES ASSUME PruneDoneTodos, NEW id \in Id, Exists(id), todos'[id] = Gone
               PROVE  todos[id].updated + MaxAge < now + TicksPerSecond
    OBVIOUS
  <2>1. now \in Nat /\ todos[id] \in Row
    BY <1>1, ExistsRow DEF Inv, TypeOK
  <2>2. PICK t \in Stamp : Prune(Prunable(t - MaxAge))
    BY DEF PruneDoneTodos
  <2>3. t \in Nat /\ t <= now
    BY <2>1 DEF Stamp
  <2>4. id \in Prunable(t - MaxAge)
    BY <2>1, <2>2, RowIsThere DEF Prune
  <2>5. TextLess(todos[id].updated, t - MaxAge)
    BY <2>4 DEF Prunable
  <2>6. todos[id].updated \in Int /\ t - MaxAge \in Int
    BY <2>1, <2>3 DEF Row
  <2>7. todos[id].updated < (t - MaxAge) + TicksPerSecond
    BY <2>5, <2>6, TextLessClose
  <2> QED
    BY <2>1, <2>3, <2>6, <2>7, TicksPerSecondAssumption
<1>2. Inv /\ [Next]_vars => [Old]_vars
  BY <1>1
<1> QED
  BY InitInv, NextInv, <1>2, PTL DEF Spec, NoEarlyPrune

\* The sweep misses nothing: a finished todo that was left alone for MaxAge,
\* the lag of the sweeper's clock and the second of the texts is gone after it.
SweepTakesOld ==
  [][PruneDoneTodos =>
       \A id \in Id :
         /\ Exists(id) /\ todos[id].status # "pending"
         /\ todos[id].updated + MaxAge + MaxLag + TicksPerSecond <= now
         => todos'[id] = Gone]_vars

\* One sweep (PruneDoneTodos) takes every finished todo that is old enough by
\* any clock, although its cutoff is older than its transaction and compared
\* as a text; with YoungStay this bounds what a sweep takes on both sides.
THEOREM OldGo == Spec => SweepTakesOld
<1> DEFINE Swept ==
      PruneDoneTodos =>
        \A id \in Id :
          /\ Exists(id) /\ todos[id].status # "pending"
          /\ todos[id].updated + MaxAge + MaxLag + TicksPerSecond <= now
          => todos'[id] = Gone
<1>1. ASSUME Inv PROVE Swept
  <2> SUFFICES ASSUME PruneDoneTodos, NEW id \in Id,
                      Exists(id), todos[id].status # "pending",
                      todos[id].updated + MaxAge + MaxLag + TicksPerSecond <= now
               PROVE  todos'[id] = Gone
    OBVIOUS
  <2>1. now \in Nat /\ todos[id] \in Row
    BY <1>1, ExistsRow DEF Inv, TypeOK
  <2>2. PICK t \in Stamp : Prune(Prunable(t - MaxAge))
    BY DEF PruneDoneTodos
  <2>3. t \in Nat /\ now - t <= MaxLag
    BY <2>1 DEF Stamp
  <2>4. todos[id].updated \in Int /\ t - MaxAge \in Int
    BY <2>1, <2>3 DEF Row
  <2>5. TextLess(todos[id].updated, t - MaxAge)
    <3>1. ~(t - MaxAge < todos[id].updated + TicksPerSecond)
      BY <2>1, <2>3, <2>4, TicksPerSecondAssumption
    <3> QED
      BY <2>4, <3>1, TextLessClose
  <2> QED
    BY <2>2, <2>5 DEF Prune, Prunable
<1>2. Inv /\ [Next]_vars => [Swept]_vars
  BY <1>1
<1> QED
  BY InitInv, NextInv, <1>2, PTL DEF Spec, SweepTakesOld
=============================================================================
