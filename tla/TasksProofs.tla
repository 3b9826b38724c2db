---------------------------- MODULE TasksProofs -----------------------------
(***************************************************************************)
(* Proofs about Tasks: types; the webhook's note stands on done tasks only; *)
(* finished tasks stay finished; replies have the notes they should have;   *)
(* repeated deliveries do not repeat their note; acknowledged updates are   *)
(* isolated; tasks live as their state machine says.                        *)
(*                                                                          *)
(* The inductive invariant adds to the types what a transaction has checked *)
(* and holds for the row it has read.  As it commits only while the task is *)
(* still that row, what it checked is true of the task it overwrites.  Two  *)
(* more invariants rest on it: the notes of a task do not fall below what a *)
(* request has seen of them, and the webhook's notes on a task, with the    *)
(* deliveries that may still add one, are no more than the workers.         *)
(***************************************************************************)
EXTENDS Tasks, FiniteSetTheorems, TLAPS

\* A transaction that is to commit has accepted the transition from the row
\* it has read; the webhook's is the one that closes a task.
WritesAccepted ==
  \A w \in Worker : work[w].pc = "write" =>
    /\ Accepts(work[w].row, work[w].upd)
    /\ work[w].hook => work[w].upd = CloseUpdate

Inv == TypeOK /\ ClosedNoteMeansDone /\ WritesAccepted
-----------------------------------------------------------------------------
LEMMA InitInv == Init => Inv
<1>1. SUFFICES ASSUME Init PROVE Inv
  OBVIOUS
<1>2. TypeOK
  BY <1>1 DEF Init, TypeOK, Idle, Activity, Id
<1>3. ClosedNoteMeansDone
  BY <1>1 DEF Init, ClosedNoteMeansDone, Exists, Unborn
<1>4. WritesAccepted
  BY <1>1 DEF Init, WritesAccepted, Idle
<1> QED
  BY <1>2, <1>3, <1>4 DEF Inv

\* What the transaction of UpdateTask makes of a row.
LEMMA UpdatedRow ==
  ASSUME NEW row \in Row, NEW upd \in Update, NEW hook \in BOOLEAN,
         Accepts(row, upd),
         hook => upd = CloseUpdate,
         row.notes.closed > 0 => row.status = "done"
  PROVE  LET new == Updated(row, upd, hook)
         IN /\ new \in Row
            /\ row.status \in Finished => new.status = row.status
            /\ new.notes.closed > 0 => new.status = "done"
<1> DEFINE new == Updated(row, upd, hook)
<1>1. UpdatedNotes(row.notes, upd, hook) \in Notes
  BY DEF UpdatedNotes, Row, Notes, Update
<1>2. /\ new.status = IF upd.status = Unset THEN row.status ELSE upd.status
      /\ new.notes = UpdatedNotes(row.notes, upd, hook)
  BY DEF Updated, Row
<1>3. new \in Row
  BY <1>1 DEF Updated, Row, Update
<1>4. row.status \in Finished => new.status = row.status
  BY <1>2 DEF Accepts, ValidTransition, Finished
<1>5. new.notes.closed > 0 => new.status = "done"
  <2>1. CASE hook
    BY <1>2, <2>1, TasksAssumption DEF CloseUpdate, Status
  <2>2. CASE ~hook
    <3>1. new.notes.closed = row.notes.closed
      BY <1>2, <2>2 DEF UpdatedNotes, Row, Notes
    <3> QED
      BY <1>4, <3>1 DEF Finished
  <2> QED
    BY <2>1, <2>2
<1> QED
  BY <1>3, <1>4, <1>5

LEMMA BecomeType ==
  ASSUME TypeOK, NEW w \in Worker, NEW activity \in Activity, Become(w, activity)
  PROVE  work' \in [Worker -> Activity]
BY DEF TypeOK, Become
-----------------------------------------------------------------------------
(* The steps that leave the tables alone. *)

\* A worker goes on without a transaction of its own to commit.
LEMMA QuietStep ==
  ASSUME Inv, UNCHANGED tasks, NEW w \in Worker,
         NEW activity \in Activity, activity.pc # "write", Become(w, activity)
  PROVE  Inv'
<1>1. TypeOK'
  BY BecomeType DEF Inv, TypeOK
<1>2. ClosedNoteMeansDone'
  BY DEF Inv, ClosedNoteMeansDone, Exists
<1>3. WritesAccepted'
  BY DEF Inv, TypeOK, WritesAccepted, Become
<1> QED
  BY <1>1, <1>2, <1>3 DEF Inv

\* A transaction reads its row.
LEMMA ReadStep ==
  ASSUME Inv, UNCHANGED tasks, NEW w \in Worker, NEW id \in Id, Exists(id),
         NEW upd \in Update, NEW hook \in BOOLEAN, NEW todo \in SUBSET Id,
         Accepts(tasks[id], upd), hook => upd = CloseUpdate,
         Become(w, [pc |-> "write", id |-> id, upd |-> upd, row |-> tasks[id],
                    hook |-> hook, todo |-> todo])
  PROVE  Inv'
<1> DEFINE activity == [pc |-> "write", id |-> id, upd |-> upd, row |-> tasks[id],
                        hook |-> hook, todo |-> todo]
<1>1. tasks[id] \in Row
  BY DEF Inv, TypeOK, Exists
<1>2. activity \in Activity
  BY <1>1 DEF Activity
<1>3. TypeOK'
  BY <1>2, BecomeType DEF Inv, TypeOK
<1>4. ClosedNoteMeansDone'
  BY DEF Inv, ClosedNoteMeansDone, Exists
<1>5. WritesAccepted'
  BY DEF Inv, TypeOK, WritesAccepted, Become
<1> QED
  BY <1>3, <1>4, <1>5 DEF Inv

LEMMA CloseUpdateType == CloseUpdate \in Update
BY DEF CloseUpdate, Update, Status
-----------------------------------------------------------------------------
(* The steps that write. *)

LEMMA CreateInv ==
  ASSUME Inv, NEW id \in Id, NEW issue \in Issue \cup {NoIssue}, CreateTask(id, issue)
  PROVE  Inv'
<1>1. [status |-> "open", assignee |-> Nobody, issue |-> issue,
       notes |-> [closed |-> 0, comments |-> 0]] \in Row
  BY DEF Row, Status, Notes
<1>2. TypeOK'
  BY <1>1 DEF Inv, TypeOK, CreateTask
<1>3. ClosedNoteMeansDone'
  BY DEF Inv, TypeOK, CreateTask, ClosedNoteMeansDone, Exists
<1>4. WritesAccepted'
  BY DEF Inv, CreateTask, WritesAccepted
<1> QED
  BY <1>2, <1>3, <1>4 DEF Inv

LEMMA DeleteInv ==
  ASSUME Inv, NEW id \in Id, DeleteTask(id)
  PROVE  Inv'
<1>1. TypeOK'
  BY DEF Inv, TypeOK, DeleteTask
<1>2. ClosedNoteMeansDone'
  BY DEF Inv, TypeOK, DeleteTask, ClosedNoteMeansDone, Exists
<1>3. WritesAccepted'
  BY DEF Inv, DeleteTask, WritesAccepted
<1> QED
  BY <1>1, <1>2, <1>3 DEF Inv

\* The row that a commit overwrites is the row its transaction has read.
LEMMA CommitRow ==
  ASSUME Inv, NEW w \in Worker, Commit(w)
  PROVE  LET old == tasks[work[w].id]
             new == Updated(old, work[w].upd, work[w].hook)
         IN /\ work[w].id \in Id /\ old \in Row
            /\ new \in Row
            /\ tasks' = [tasks EXCEPT ![work[w].id] = new]
            /\ AfterUpdate(w, new.notes)
            /\ old.status \in Finished => new.status = old.status
            /\ new.notes.closed > 0 => new.status = "done"
<1>1. /\ work[w].pc = "write"
      /\ work[w].id \in Id /\ work[w].row \in Row /\ work[w].upd \in Update
      /\ work[w].hook \in BOOLEAN
      /\ tasks[work[w].id] = work[w].row
  BY DEF Inv, TypeOK, Activity, Commit, Serializable
<1>2. Accepts(work[w].row, work[w].upd) /\ (work[w].hook => work[w].upd = CloseUpdate)
  BY <1>1 DEF Inv, WritesAccepted
<1>3. Exists(work[w].id)
  BY <1>1 DEF Exists, Unborn, Deleted, Row, Status
<1>4. work[w].row.notes.closed > 0 => work[w].row.status = "done"
  BY <1>1, <1>3 DEF Inv, ClosedNoteMeansDone
<1> QED
  BY <1>1, <1>2, <1>4, UpdatedRow DEF Commit

LEMMA CommitInv ==
  ASSUME Inv, NEW w \in Worker, Commit(w)
  PROVE  Inv'
<1> DEFINE old == tasks[work[w].id]
           new == Updated(old, work[w].upd, work[w].hook)
<1>1. /\ work[w].id \in Id /\ new \in Row
      /\ tasks' = [tasks EXCEPT ![work[w].id] = new]
      /\ AfterUpdate(w, new.notes)
      /\ new.notes.closed > 0 => new.status = "done"
  BY CommitRow
<1>2. PICK activity \in Activity : activity.pc # "write" /\ Become(w, activity)
  <2>1. work[w].todo \in SUBSET Id
    BY DEF Inv, TypeOK, Activity, Commit
  <2>2. CASE work[w].hook
    <3>1. [pc |-> "loop", todo |-> work[w].todo] \in Activity
      BY <2>1 DEF Activity
    <3> QED
      BY <1>1, <2>2, <3>1 DEF AfterUpdate
  <2>3. CASE ~work[w].hook
    <3>1. Idle \in Activity /\ Idle.pc # "write"
      BY DEF Idle, Activity
    <3>2. [pc |-> "get", id |-> work[w].id, floor |-> new.notes] \in Activity
      BY <1>1 DEF Activity, Row
    <3>3. AfterUpdate(w, new.notes) =>
            \/ Become(w, [pc |-> "get", id |-> work[w].id, floor |-> new.notes])
            \/ Become(w, Idle)
      BY <2>3 DEF AfterUpdate
    <3> QED
      BY <1>1, <3>1, <3>2, <3>3
  <2> QED
    BY <2>2, <2>3
<1>3. TypeOK'
  <2>1. tasks' \in [Id -> Row \cup {Unborn, Deleted}]
    BY <1>1 DEF Inv, TypeOK
  <2> QED
    BY <1>2, <2>1, BecomeType DEF Inv, TypeOK
<1>4. ClosedNoteMeansDone'
  BY <1>1 DEF Inv, TypeOK, ClosedNoteMeansDone, Exists
<1>5. WritesAccepted'
  BY <1>2 DEF Inv, TypeOK, WritesAccepted, Become
<1> QED
  BY <1>3, <1>4, <1>5 DEF Inv
-----------------------------------------------------------------------------
LEMMA IdleQuiet == Idle \in Activity /\ Idle.pc # "write"
BY DEF Idle, Activity

LEMMA ProceedInv ==
  ASSUME Inv, NEW w \in Worker, Proceed(w)
  PROVE  Inv'
<1>1. CASE Commit(w)
  BY <1>1, CommitInv
<1>2. CASE Abandon(w)
  <2>1. work[w].todo \in SUBSET Id
    BY <1>2 DEF Inv, TypeOK, Activity, Abandon
  <2>2. [pc |-> "loop", todo |-> work[w].todo] \in Activity
    BY <2>1 DEF Activity
  <2> QED
    BY <1>2, <2>2, IdleQuiet, QuietStep DEF Abandon
<1>3. CASE LoadTaskNotes(w)
  <2>1. /\ work[w].id \in Id /\ work[w].floor \in Notes
    BY <1>3 DEF Inv, TypeOK, Activity, LoadTaskNotes
  <2>2. NotesOf(work[w].id) \in Notes
    BY <2>1 DEF Inv, TypeOK, NotesOf, Exists, Row, Notes
  <2>3. [pc |-> "replied", id |-> work[w].id, floor |-> work[w].floor,
         notes |-> NotesOf(work[w].id)] \in Activity
    BY <2>1, <2>2 DEF Activity
  <2> QED
    BY <1>3, <2>3, QuietStep DEF LoadTaskNotes
<1>4. CASE Reply(w)
  BY <1>4, IdleQuiet, QuietStep DEF Reply
<1>5. CASE CloseEnd(w)
  BY <1>5, IdleQuiet, QuietStep DEF CloseEnd
<1>6. ASSUME NEW id \in Id, CloseRead(w, id) PROVE Inv'
  <2>1. work[w].todo \ {id} \in SUBSET Id
    BY <1>6 DEF Inv, TypeOK, Activity, CloseRead, NextInLoop
  <2> QED
    BY <1>6, <2>1, ReadStep, CloseUpdateType DEF CloseRead
<1>7. ASSUME NEW id \in Id, CloseRefused(w, id) PROVE Inv'
  <2>1. work[w].todo \ {id} \in SUBSET Id
    BY <1>7 DEF Inv, TypeOK, Activity, CloseRefused, NextInLoop
  <2>2. [pc |-> "loop", todo |-> work[w].todo \ {id}] \in Activity
    BY <2>1 DEF Activity
  <2> QED
    BY <1>7, <2>2, QuietStep DEF CloseRefused
<1> QED
  BY <1>1, <1>2, <1>3, <1>4, <1>5, <1>6, <1>7 DEF Proceed

LEMMA RequestInv ==
  ASSUME Inv, NEW w \in Worker, Request(w)
  PROVE  Inv'
<1>1. ASSUME NEW id \in Id, NEW upd \in Update, ReadForUpdate(w, id, upd) PROVE Inv'
  <2>1. {} \in SUBSET Id /\ FALSE \in BOOLEAN
    OBVIOUS
  <2>2. /\ UNCHANGED tasks /\ Exists(id) /\ Accepts(tasks[id], upd)
        /\ Become(w, [pc |-> "write", id |-> id, upd |-> upd, row |-> tasks[id],
                      hook |-> FALSE, todo |-> {}])
    BY <1>1 DEF ReadForUpdate
  <2> QED
    BY <2>1, <2>2, ReadStep
<1>2. ASSUME NEW issue \in Issue, ListForIssue(w, issue) PROVE Inv'
  <2>1. [pc |-> "loop", todo |-> TasksOfIssue(issue)] \in Activity
    BY DEF Activity, TasksOfIssue, ListTasks
  <2> QED
    BY <1>2, <2>1, QuietStep DEF ListForIssue
<1> QED
  BY <1>1, <1>2 DEF Request

LEMMA GetInv ==
  ASSUME Inv, NEW w \in Worker, NEW id \in Id, GetTask(w, id)
  PROVE  Inv'
<1>1. CASE Exists(id)
  <2>1. tasks[id].notes \in Notes
    BY <1>1 DEF Inv, TypeOK, Exists, Row
  <2>2. [pc |-> "notes", id |-> id, floor |-> tasks[id].notes] \in Activity
    BY <2>1 DEF Activity
  <2> QED
    BY <1>1, <2>2, QuietStep DEF GetTask
<1>2. CASE ~Exists(id)
  BY <1>2, IdleQuiet, QuietStep DEF GetTask
<1> QED
  BY <1>1, <1>2

LEMMA NextInv == Inv /\ [Next]_vars => Inv'
<1>1. SUFFICES ASSUME Inv, [Next]_vars PROVE Inv'
  OBVIOUS
<1>2. CASE UNCHANGED vars
  BY <1>1, <1>2 DEF Inv, vars, TypeOK, ClosedNoteMeansDone, WritesAccepted, Exists
<1>3. CASE Next
  BY <1>1, <1>3, CreateInv, DeleteInv, RequestInv, ProceedInv, GetInv DEF Next
<1> QED
  BY <1>1, <1>2, <1>3

\* Only creation, deletion and the commit of an update write the tables.
LEMMA TableSteps ==
  ASSUME [Next]_vars
  PROVE  \/ UNCHANGED tasks
         \/ \E i \in Id : DeleteTask(i) \/ \E issue \in Issue \cup {NoIssue} : CreateTask(i, issue)
         \/ \E w \in Worker : Commit(w)
<1>1. ASSUME NEW w \in Worker, Request(w) PROVE UNCHANGED tasks
  BY <1>1 DEF Request, ReadForUpdate, ListForIssue
<1>2. ASSUME NEW w \in Worker, Proceed(w) PROVE Commit(w) \/ UNCHANGED tasks
  BY <1>2 DEF Proceed, Abandon, LoadTaskNotes, Reply, CloseEnd, CloseRead, CloseRefused
<1>3. ASSUME NEW w \in Worker, NEW i \in Id, GetTask(w, i) PROVE UNCHANGED tasks
  BY <1>3 DEF GetTask
<1> QED
  BY <1>1, <1>2, <1>3 DEF Next, vars

LEMMA SpecInv == Spec => []Inv
BY InitInv, NextInv, PTL DEF Spec
-----------------------------------------------------------------------------
\* The columns of tasks and task_notes, and the handlers' variables, keep
\* their types.
THEOREM TypeCorrect == Spec => []TypeOK
<1>1. Inv => TypeOK
  BY DEF Inv
<1> QED
  BY <1>1, SpecInv, PTL

\* The note "Closed via GitHub webhook" stands on done tasks only: UpdateTask
\* writes status and note in one transaction.
THEOREM NoteOnDoneTasks == Spec => []ClosedNoteMeansDone
<1>1. Inv => ClosedNoteMeansDone
  BY DEF Inv
<1> QED
  BY <1>1, SpecInv, PTL

\* No update, not even one that writes back the status it has read, takes a
\* task out of done, failed or cancelled.
THEOREM FinishedIsFinal == Spec => FinishedStaysFinished
<1> DEFINE Kept(id) == Exists(id) /\ tasks[id].status \in Finished
                        => tasks'[id] = Deleted \/ tasks'[id].status = tasks[id].status
<1>1. ASSUME Inv, [Next]_vars, NEW id \in Id PROVE Kept(id)
  <2>1. CASE UNCHANGED tasks
    BY <2>1
  <2>2. ASSUME NEW i \in Id, NEW issue, CreateTask(i, issue) PROVE Kept(id)
    BY <1>1, <2>2 DEF CreateTask, Inv, TypeOK, Exists
  <2>3. ASSUME NEW i \in Id, DeleteTask(i) PROVE Kept(id)
    BY <1>1, <2>3 DEF DeleteTask, Inv, TypeOK
  <2>4. ASSUME NEW w \in Worker, Commit(w) PROVE Kept(id)
    BY <1>1, <2>4, CommitRow DEF Inv, TypeOK
  <2> QED
    BY <1>1, <2>1, <2>2, <2>3, <2>4, TableSteps
<1>2. Inv /\ [Next]_vars => [\A id \in Id : Kept(id)]_vars
  BY <1>1
<1> QED
  BY <1>2, SpecInv, PTL DEF Spec, FinishedStaysFinished
-----------------------------------------------------------------------------
(* Notes are only ever added. *)

AtLeast(m, n) == m.closed >= n.closed /\ m.comments >= n.comments

\* What a step does to a task: it stays deleted, or it stays with its notes
\* and perhaps more, or it is deleted.
LEMMA NotesGrow ==
  ASSUME Inv, [Next]_vars, NEW id \in Id
  PROVE  /\ tasks[id] = Deleted => tasks'[id] = Deleted
         /\ Exists(id) => \/ tasks'[id] = Deleted
                          \/ /\ tasks'[id] \in Row
                             /\ AtLeast(tasks'[id].notes, tasks[id].notes)
<1> DEFINE Grown == /\ tasks[id] = Deleted => tasks'[id] = Deleted
                    /\ Exists(id) => \/ tasks'[id] = Deleted
                                     \/ /\ tasks'[id] \in Row
                                        /\ AtLeast(tasks'[id].notes, tasks[id].notes)
<1>1. Exists(id) => tasks[id] \in Row /\ tasks[id].notes \in Notes
  BY DEF Inv, TypeOK, Exists, Row
<1>2. CASE UNCHANGED tasks
  BY <1>1, <1>2 DEF AtLeast, Notes
<1>3. ASSUME NEW i \in Id, NEW issue, CreateTask(i, issue) PROVE Grown
  <2>1. id # i => tasks'[id] = tasks[id]
    BY <1>3 DEF CreateTask, Inv, TypeOK
  <2>2. tasks[i] = Unborn /\ Unborn # Deleted /\ ~Exists(i)
    BY <1>3 DEF CreateTask, Unborn, Deleted, Exists
  <2> QED
    BY <1>1, <2>1, <2>2 DEF AtLeast, Notes
<1>4. ASSUME NEW i \in Id, DeleteTask(i) PROVE Grown
  <2>1. id # i => tasks'[id] = tasks[id]
    BY <1>4 DEF DeleteTask, Inv, TypeOK
  <2>2. tasks'[i] = Deleted
    BY <1>4 DEF DeleteTask, Inv, TypeOK
  <2> QED
    BY <1>1, <2>1, <2>2 DEF AtLeast, Notes
<1>5. ASSUME NEW w \in Worker, Commit(w) PROVE Grown
  <2> DEFINE old == tasks[work[w].id]
             new == Updated(old, work[w].upd, work[w].hook)
  <2>1. /\ work[w].id \in Id /\ old \in Row /\ new \in Row
        /\ tasks' = [tasks EXCEPT ![work[w].id] = new]
    BY <1>5, CommitRow
  <2>2. AtLeast(new.notes, old.notes)
    <3>1. new.notes = UpdatedNotes(old.notes, work[w].upd, work[w].hook)
      BY <2>1 DEF Updated, Row
    <3> QED
      BY <2>1, <3>1 DEF UpdatedNotes, Row, Notes, AtLeast
  <2>3. tasks'[work[w].id] = new
    BY <2>1 DEF Inv, TypeOK
  <2>4. id # work[w].id => tasks'[id] = tasks[id]
    BY <2>1 DEF Inv, TypeOK
  <2>5. old # Deleted
    BY <2>1 DEF Row, Deleted, Status
  <2> QED
    BY <1>1, <2>1, <2>2, <2>3, <2>4, <2>5 DEF AtLeast, Notes
<1>6. \/ UNCHANGED tasks
      \/ \E i \in Id : DeleteTask(i) \/ \E issue \in Issue \cup {NoIssue} : CreateTask(i, issue)
      \/ \E w \in Worker : Commit(w)
  BY TableSteps
<1> QED
  BY <1>2, <1>3, <1>4, <1>5, <1>6
-----------------------------------------------------------------------------
(* Replies. *)

\* A task whose row UpdateTask wrote, or GetTask read, keeps the notes it had
\* then, or is gone.
FloorHolds ==
  \A w \in Worker : work[w].pc \in {"get", "notes"} =>
    \/ tasks[work[w].id] = Deleted
    \/ tasks[work[w].id] \in Row /\ AtLeast(tasks[work[w].id].notes, work[w].floor)

ReplyInv == FloorHolds /\ ReplyHasNotes

LEMMA AtLeastTransitive ==
  ASSUME NEW l \in Notes, NEW m \in Notes, NEW n \in Notes, AtLeast(l, m), AtLeast(m, n)
  PROVE  AtLeast(l, n)
BY DEF AtLeast, Notes

LEMMA RowExists ==
  ASSUME NEW id \in Id, tasks[id] \in Row
  PROVE  Exists(id) /\ tasks[id].notes \in Notes
BY DEF Exists, Row, Unborn, Deleted, Status

\* The facts a worker relies on hold on while others work.
LEMMA FloorStep ==
  ASSUME Inv, ReplyInv, [Next]_vars, NEW w \in Worker, work'[w] = work[w]
  PROVE  /\ work'[w].pc \in {"get", "notes"} =>
              \/ tasks'[work'[w].id] = Deleted
              \/ tasks'[work'[w].id] \in Row /\ AtLeast(tasks'[work'[w].id].notes, work'[w].floor)
         /\ work'[w].pc = "replied" =>
              \/ tasks'[work'[w].id] = Deleted
              \/ AtLeast(work'[w].notes, work'[w].floor)
<1>1. CASE work[w].pc \in {"get", "notes"}
  <2> DEFINE id == work[w].id
  <2>1. id \in Id /\ work[w].floor \in Notes
    BY <1>1 DEF Inv, TypeOK, Activity
  <2>2. CASE tasks[id] = Deleted
    BY <1>1, <2>1, <2>2, NotesGrow
  <2>3. CASE tasks[id] \in Row /\ AtLeast(tasks[id].notes, work[w].floor)
    <3>1. \/ tasks'[id] = Deleted
          \/ tasks'[id] \in Row /\ AtLeast(tasks'[id].notes, tasks[id].notes)
      BY <2>1, <2>3, RowExists, NotesGrow
    <3>2. tasks'[id] \in Row => tasks'[id].notes \in Notes
      BY DEF Row
    <3>3. tasks'[id] \in Row /\ AtLeast(tasks'[id].notes, tasks[id].notes)
            => AtLeast(tasks'[id].notes, work[w].floor)
      BY <2>1, <2>3, <3>2, RowExists, AtLeastTransitive
    <3> QED
      BY <1>1, <3>1, <3>3
  <2> QED
    BY <1>1, <2>2, <2>3 DEF ReplyInv, FloorHolds
<1>2. CASE work[w].pc = "replied"
  <2>1. work[w].id \in Id
    BY <1>2 DEF Inv, TypeOK, Activity
  <2> QED
    BY <1>2, <2>1, NotesGrow DEF ReplyInv, ReplyHasNotes, AtLeast
<1> QED
  BY <1>1, <1>2

\* A worker that turns to the row of a task has just written or read it; one
\* that replies has the notes.
LEMMA TurnStep ==
  ASSUME Inv, ReplyInv, [Next]_vars, NEW w \in Worker, work'[w] # work[w]
  PROVE  /\ work'[w].pc \in {"get", "notes"} =>
              \/ tasks'[work'[w].id] = Deleted
              \/ tasks'[work'[w].id] \in Row /\ AtLeast(tasks'[work'[w].id].notes, work'[w].floor)
         /\ work'[w].pc = "replied" =>
              \/ tasks'[work'[w].id] = Deleted
              \/ AtLeast(work'[w].notes, work'[w].floor)
<1> DEFINE Goal ==
      /\ work'[w].pc \in {"get", "notes"} =>
           \/ tasks'[work'[w].id] = Deleted
           \/ tasks'[work'[w].id] \in Row /\ AtLeast(tasks'[work'[w].id].notes, work'[w].floor)
      /\ work'[w].pc = "replied" =>
           \/ tasks'[work'[w].id] = Deleted
           \/ AtLeast(work'[w].notes, work'[w].floor)
<1>1. work \in [Worker -> Activity] /\ tasks \in [Id -> Row \cup {Unborn, Deleted}]
  BY DEF Inv, TypeOK
<1>2. ASSUME NEW activity, Become(w, activity), activity.pc \notin {"get", "notes", "replied"}
      PROVE  Goal
  BY <1>1, <1>2 DEF Become
<1>3. Idle.pc = "idle"
  BY DEF Idle
<1>4. CASE Commit(w)
  <2> DEFINE id == work[w].id
             new == Updated(tasks[id], work[w].upd, work[w].hook)
  <2>1. id \in Id /\ new \in Row /\ tasks'[id] = new /\ AfterUpdate(w, new.notes)
    BY <1>1, <1>4, CommitRow
  <2>2. CASE Become(w, [pc |-> "get", id |-> id, floor |-> new.notes])
    <3>1. work'[w] = [pc |-> "get", id |-> id, floor |-> new.notes]
      BY <1>1, <2>2 DEF Become
    <3>2. AtLeast(new.notes, new.notes)
      BY <2>1 DEF AtLeast, Row, Notes
    <3> QED
      BY <2>1, <3>1, <3>2
  <2>3. CASE Become(w, [pc |-> "loop", todo |-> work[w].todo]) \/ Become(w, Idle)
    BY <1>2, <1>3, <2>3
  <2> QED
    BY <2>1, <2>2, <2>3 DEF AfterUpdate
<1>5. CASE LoadTaskNotes(w)
  <2> DEFINE id == work[w].id
  <2>1. /\ id \in Id /\ tasks' = tasks
        /\ work'[w] = [pc |-> "replied", id |-> id, floor |-> work[w].floor, notes |-> NotesOf(id)]
    BY <1>1, <1>5 DEF LoadTaskNotes, Become, Activity
  <2>2. tasks[id] = Deleted \/ AtLeast(NotesOf(id), work[w].floor)
    BY <1>5, <2>1, RowExists DEF LoadTaskNotes, ReplyInv, FloorHolds, NotesOf
  <2> QED
    BY <2>1, <2>2
<1>6. ASSUME NEW id \in Id, GetTask(w, id) PROVE Goal
  <2>1. CASE Exists(id)
    <3>1. tasks[id] \in Row /\ tasks[id].notes \in Notes /\ tasks' = tasks
      BY <1>1, <1>6, <2>1 DEF GetTask, Exists, Row
    <3>2. work'[w] = [pc |-> "notes", id |-> id, floor |-> tasks[id].notes]
      BY <1>1, <1>6, <2>1 DEF GetTask, Become
    <3> QED
      BY <3>1, <3>2 DEF AtLeast, Notes
  <2>2. CASE ~Exists(id)
    BY <1>2, <1>3, <1>6, <2>2 DEF GetTask
  <2> QED
    BY <2>1, <2>2
<1>7. ASSUME Request(w) PROVE Goal
  BY <1>2, <1>7 DEF Request, ReadForUpdate, ListForIssue
<1>8. ASSUME Abandon(w) \/ Reply(w) \/ CloseEnd(w) PROVE Goal
  BY <1>2, <1>3, <1>8 DEF Abandon, Reply, CloseEnd
<1>9. ASSUME NEW id \in Id, CloseRead(w, id) \/ CloseRefused(w, id) PROVE Goal
  BY <1>2, <1>9 DEF CloseRead, CloseRefused
<1>10. ASSUME NEW v \in Worker, v # w, Request(v) \/ Proceed(v) \/ \E id \in Id : GetTask(v, id)
       PROVE  FALSE
  <2>1. \E activity : Become(v, activity)
    BY <1>10 DEF Request, ReadForUpdate, ListForIssue, Proceed, Commit, AfterUpdate, Abandon,
                 LoadTaskNotes, Reply, CloseEnd, CloseRead, CloseRefused, GetTask
  <2> QED
    BY <1>1, <1>10, <2>1 DEF Become
<1>11. UNCHANGED work => FALSE
  OBVIOUS
<1>12. ASSUME NEW id \in Id, NEW issue, CreateTask(id, issue) \/ DeleteTask(id) PROVE FALSE
  BY <1>11, <1>12 DEF CreateTask, DeleteTask
<1> QED
  BY <1>4, <1>5, <1>6, <1>7, <1>8, <1>9, <1>10, <1>11, <1>12 DEF Next, Proceed, vars

\* The answer of a PATCH has the note it appended and a GET has the notes of
\* the row it read, though GetTask makes two queries and others write in
\* between.
THEOREM RepliesHaveNotes == Spec => []ReplyHasNotes
<1>1. Init => ReplyInv
  BY DEF Init, ReplyInv, FloorHolds, ReplyHasNotes, Idle
<1>2. Inv /\ ReplyInv /\ [Next]_vars => ReplyInv'
  <2> SUFFICES ASSUME Inv, ReplyInv, [Next]_vars PROVE ReplyInv'
    OBVIOUS
  <2> QED
    BY FloorStep, TurnStep DEF ReplyInv, FloorHolds, ReplyHasNotes, AtLeast
<1>3. ReplyInv => ReplyHasNotes
  BY DEF ReplyInv
<1> QED
  BY <1>1, <1>2, <1>3, SpecInv, PTL DEF Spec
-----------------------------------------------------------------------------
(* Repeated deliveries. *)

\* The delivery that w serves may still leave a note on the task.
Pending(id) ==
  {w \in Worker :
     \/ work[w].pc = "loop" /\ id \in work[w].todo
     \/ work[w].pc = "write" /\ work[w].hook /\ (work[w].id = id \/ id \in work[w].todo)}

\* The task that is being closed has been taken off the list.
TakenOffList ==
  \A w \in Worker : work[w].pc = "write" => work[w].id \notin work[w].todo

\* Once a task has a note it is done and no new delivery lists it: each
\* pending one turns into a note at most.
NotesAreBounded ==
  \A id \in Id : Exists(id) =>
    tasks[id].notes.closed + Cardinality(Pending(id)) <= Cardinality(Worker)

DeliveryInv == TakenOffList /\ NotesAreBounded

LEMMA PendingCount ==
  ASSUME NEW S \in SUBSET Worker
  PROVE  /\ IsFiniteSet(S) /\ Cardinality(S) \in Nat
         /\ Cardinality(Worker) \in Nat /\ Cardinality(S) <= Cardinality(Worker)
         /\ \A T \in SUBSET S : Cardinality(T) <= Cardinality(S)
         /\ \A w \in S : \A T \in SUBSET (S \ {w}) : Cardinality(T) + 1 <= Cardinality(S)
<1>1. IsFiniteSet(Worker) /\ Cardinality(Worker) \in Nat
  BY TasksAssumption, FS_CardinalityType
<1>2. IsFiniteSet(S) /\ Cardinality(S) <= Cardinality(Worker) /\ Cardinality(S) \in Nat
  BY <1>1, FS_Subset, FS_CardinalityType
<1>3. \A T \in SUBSET S : Cardinality(T) <= Cardinality(S)
  BY <1>2, FS_Subset
<1>4. ASSUME NEW w \in S, NEW T \in SUBSET (S \ {w}) PROVE Cardinality(T) + 1 <= Cardinality(S)
  <2>1. IsFiniteSet(S \ {w}) /\ Cardinality(S \ {w}) = Cardinality(S) - 1
    BY <1>2, FS_RemoveElement
  <2>2. Cardinality(T) <= Cardinality(S \ {w}) /\ Cardinality(T) \in Nat
    BY <2>1, FS_Subset, FS_CardinalityType
  <2> QED
    BY <1>2, <2>1, <2>2
<1> QED
  BY <1>1, <1>2, <1>3, <1>4

\* Which deliveries are pending on a task after a step: those that were, but
\* for one that has written; and, while the task is not done, new ones.
LEMMA PendingSteps ==
  ASSUME Inv, TakenOffList, [Next]_vars, NEW id \in Id, Exists(id)
  PROVE  \/ Pending(id)' \subseteq Pending(id) /\ tasks'[id] = tasks[id]
         \/ tasks[id].status # "done" /\ tasks'[id] = tasks[id]
         \/ tasks'[id] = Deleted
         \/ \E w \in Worker : Commit(w) /\ work[w].id = id
<1> DEFINE Goal == \/ Pending(id)' \subseteq Pending(id) /\ tasks'[id] = tasks[id]
                   \/ tasks[id].status # "done" /\ tasks'[id] = tasks[id]
                   \/ tasks'[id] = Deleted
                   \/ \E w \in Worker : Commit(w) /\ work[w].id = id
<1>1. work \in [Worker -> Activity] /\ tasks \in [Id -> Row \cup {Unborn, Deleted}]
  BY DEF Inv, TypeOK
<1>2. CASE work' = work /\ tasks'[id] = tasks[id]
  BY <1>2 DEF Pending
<1>3. ASSUME NEW w \in Worker, NEW activity, Become(w, activity),
             activity.pc \in {"loop", "write"} => w \in Pending(id) \/ (activity.pc = "write" /\ ~activity.hook)
               \/ (activity.pc = "loop" /\ id \notin activity.todo),
             tasks'[id] = tasks[id]
      PROVE  Goal
  <2>1. work'[w] = activity /\ \A v \in Worker \ {w} : work'[v] = work[v]
    BY <1>1, <1>3 DEF Become
  <2>2. w \in Pending(id)' => w \in Pending(id)
    BY <1>3, <2>1 DEF Pending
  <2>3. \A v \in Worker \ {w} : v \in Pending(id)' => v \in Pending(id)
    BY <2>1 DEF Pending
  <2>4. Pending(id)' \subseteq Worker
    BY DEF Pending
  <2> QED
    BY <1>3, <2>2, <2>3, <2>4
<1>4. ASSUME NEW w \in Worker, Request(w) PROVE Goal
  <2>1. ASSUME NEW i \in Id, NEW upd \in Update, ReadForUpdate(w, i, upd) PROVE Goal
    BY <1>3, <2>1 DEF ReadForUpdate
  <2>2. ASSUME NEW issue \in Issue, ListForIssue(w, issue) PROVE Goal
    <3>1. CASE tasks[id].status = "done"
      <4>1. id \notin TasksOfIssue(issue)
        BY <3>1 DEF TasksOfIssue
      <4> QED
        BY <1>3, <2>2, <4>1 DEF ListForIssue
    <3>2. CASE tasks[id].status # "done"
      BY <2>2, <3>2 DEF ListForIssue
    <3> QED
      BY <3>1, <3>2
  <2> QED
    BY <1>4, <2>1, <2>2 DEF Request
<1>5. ASSUME NEW w \in Worker, Commit(w), work[w].id # id PROVE Goal
  <2> DEFINE new == Updated(tasks[work[w].id], work[w].upd, work[w].hook)
  <2>1. tasks' = [tasks EXCEPT ![work[w].id] = new] /\ AfterUpdate(w, new.notes)
    BY <1>5, CommitRow
  <2>2. tasks'[id] = tasks[id]
    BY <1>1, <1>5, <2>1
  <2>3. CASE work[w].hook
    <3>1. id \in work[w].todo => w \in Pending(id)
      BY <1>5, <2>3 DEF Pending, Commit
    <3> QED
      BY <1>3, <2>1, <2>2, <2>3, <3>1 DEF AfterUpdate
  <2>4. CASE ~work[w].hook
    BY <1>3, <2>1, <2>2, <2>4 DEF AfterUpdate, Idle
  <2> QED
    BY <2>3, <2>4
<1>6. ASSUME NEW w \in Worker, Abandon(w) PROVE Goal
  <2>1. work[w].hook /\ id \in work[w].todo => w \in Pending(id)
    BY <1>6 DEF Pending, Abandon
  <2> QED
    BY <1>3, <1>6, <2>1 DEF Abandon, Idle
<1>7. ASSUME NEW w \in Worker, LoadTaskNotes(w) \/ Reply(w) \/ CloseEnd(w) PROVE Goal
  BY <1>3, <1>7 DEF LoadTaskNotes, Reply, CloseEnd, Idle
<1>8. ASSUME NEW w \in Worker, NEW i \in Id, CloseRead(w, i) PROVE Goal
  <2>1. i = id \/ id \in work[w].todo \ {i} => w \in Pending(id)
    BY <1>8 DEF CloseRead, NextInLoop, Pending
  <2>2. w \notin Pending(id) => Pending(id)' \subseteq Pending(id)
    <3> SUFFICES ASSUME w \notin Pending(id), NEW v \in Pending(id)' PROVE v \in Pending(id)
      OBVIOUS
    <3>1. v \in Worker /\ (v # w => work'[v] = work[v])
      BY <1>1, <1>8 DEF CloseRead, Become, Pending
    <3>2. CASE v = w
      <4>1. work'[w].id = i /\ work'[w].todo = work[w].todo \ {i} /\ work'[w].pc = "write"
        BY <1>1, <1>8 DEF CloseRead, Become
      <4> QED
        BY <2>1, <3>2, <4>1 DEF Pending
    <3> QED
      BY <3>1, <3>2 DEF Pending
  <2> QED
    BY <1>3, <1>8, <2>2 DEF CloseRead
<1>9. ASSUME NEW w \in Worker, NEW i \in Id, CloseRefused(w, i) PROVE Goal
  <2>1. id \in work[w].todo \ {i} => w \in Pending(id)
    BY <1>9 DEF CloseRefused, NextInLoop, Pending
  <2> QED
    BY <1>3, <1>9, <2>1 DEF CloseRefused
<1>10. ASSUME NEW w \in Worker, NEW i \in Id, GetTask(w, i) PROVE Goal
  BY <1>3, <1>10 DEF GetTask, Idle
<1>11. ASSUME NEW i \in Id, NEW issue, CreateTask(i, issue) PROVE Goal
  BY <1>1, <1>2, <1>11 DEF CreateTask, Exists
<1>12. ASSUME NEW i \in Id, DeleteTask(i) PROVE Goal
  BY <1>1, <1>2, <1>12 DEF DeleteTask
<1> QED
  BY <1>2, <1>4, <1>5, <1>6, <1>7, <1>8, <1>9, <1>10, <1>11, <1>12 DEF Next, Proceed, vars

LEMMA TakenOffListStep == Inv /\ TakenOffList /\ [Next]_vars => TakenOffList'
<1> SUFFICES ASSUME Inv, TakenOffList, [Next]_vars, NEW w \in Worker, work'[w].pc = "write"
             PROVE  work'[w].id \notin work'[w].todo
  BY DEF TakenOffList
<1>1. work \in [Worker -> Activity]
  BY DEF Inv, TypeOK
<1>2. CASE work'[w] = work[w]
  BY <1>2 DEF TakenOffList
<1>3. ASSUME NEW v \in Worker, NEW activity, Become(v, activity), work'[w] # work[w]
      PROVE  v = w /\ work'[w] = activity
  BY <1>1, <1>3 DEF Become
<1>4. ASSUME NEW v \in Worker, NEW i \in Id, CloseRead(v, i), work'[w] # work[w]
      PROVE  work'[w].id \notin work'[w].todo
  <2>1. work'[w] = [pc |-> "write", id |-> i, upd |-> CloseUpdate, row |-> tasks[i],
                    hook |-> TRUE, todo |-> work[v].todo \ {i}]
    BY <1>3, <1>4 DEF CloseRead
  <2> QED
    BY <2>1
<1>5. ASSUME NEW v \in Worker, NEW i \in Id, NEW upd \in Update, ReadForUpdate(v, i, upd), work'[w] # work[w]
      PROVE  work'[w].id \notin work'[w].todo
  <2>1. work'[w] = [pc |-> "write", id |-> i, upd |-> upd, row |-> tasks[i], hook |-> FALSE, todo |-> {}]
    BY <1>3, <1>5 DEF ReadForUpdate
  <2> QED
    BY <2>1
<1>6. ASSUME NEW v \in Worker, NEW issue \in Issue, ListForIssue(v, issue), work'[w] # work[w] PROVE FALSE
  BY <1>3, <1>6 DEF ListForIssue
<1>7. ASSUME NEW v \in Worker, Proceed(v), ~\E i \in Id : CloseRead(v, i), work'[w] # work[w] PROVE FALSE
  <2>1. CASE Commit(v)
    <3>1. /\ Idle.pc = "idle"
          /\ \A n : [pc |-> "get", id |-> work[v].id, floor |-> n].pc # "write"
      BY DEF Idle
    <3>2. PICK n : AfterUpdate(v, n)
      BY <2>1 DEF Commit
    <3> QED
      BY <1>3, <1>7, <3>1, <3>2 DEF AfterUpdate
  <2>2. CASE Abandon(v)
    <3>1. Become(v, [pc |-> "loop", todo |-> work[v].todo]) \/ Become(v, [pc |-> "idle"])
      BY <2>2 DEF Abandon, Idle
    <3> QED
      BY <1>3, <1>7, <3>1
  <2>3. CASE LoadTaskNotes(v)
    BY <1>3, <1>7, <2>3 DEF LoadTaskNotes
  <2>4. CASE Reply(v) \/ CloseEnd(v)
    BY <1>3, <1>7, <2>4 DEF Reply, CloseEnd, Idle
  <2>5. ASSUME NEW i \in Id, CloseRefused(v, i) PROVE FALSE
    BY <1>3, <1>7, <2>5 DEF CloseRefused
  <2> QED
    BY <1>7, <2>1, <2>2, <2>3, <2>4, <2>5 DEF Proceed
<1>8. ASSUME NEW v \in Worker, NEW i \in Id, GetTask(v, i), work'[w] # work[w] PROVE FALSE
  BY <1>3, <1>8 DEF GetTask, Idle
<1> QED
  BY <1>2, <1>4, <1>5, <1>6, <1>7, <1>8 DEF Next, Request, CreateTask, DeleteTask, vars

LEMMA NotesAreBoundedStep ==
  Inv /\ DeliveryInv /\ [Next]_vars => NotesAreBounded'
<1> SUFFICES ASSUME Inv, DeliveryInv, [Next]_vars, NEW id \in Id, Exists(id)'
             PROVE  tasks'[id].notes.closed + Cardinality(Pending(id)') <= Cardinality(Worker)
  BY DEF NotesAreBounded
<1>1. work \in [Worker -> Activity] /\ tasks \in [Id -> Row \cup {Unborn, Deleted}]
  BY DEF Inv, TypeOK
<1>2. Inv'
  BY NextInv
<1>3. tasks'[id] \in Row /\ tasks'[id].notes.closed \in Nat
  BY <1>2 DEF Inv, TypeOK, Exists, Row, Notes
<1>4. /\ Pending(id) \in SUBSET Worker /\ Pending(id)' \in SUBSET Worker
  BY DEF Pending
<1>5. /\ Cardinality(Pending(id)) \in Nat /\ Cardinality(Pending(id)') \in Nat
      /\ Cardinality(Worker) \in Nat /\ Cardinality(Pending(id)') <= Cardinality(Worker)
  BY <1>4, PendingCount
<1>6. CASE tasks'[id].notes.closed = 0
  BY <1>5, <1>6
<1>7. CASE tasks'[id].notes.closed # 0
  <2>1. Exists(id)
    <3>1. CASE UNCHANGED tasks
      BY <3>1 DEF Exists
    <3>2. ASSUME NEW i \in Id, NEW issue, CreateTask(i, issue) PROVE Exists(id)
      <4>1. id # i
        BY <1>1, <1>7, <3>2 DEF CreateTask
      <4> QED
        BY <1>1, <3>2, <4>1 DEF CreateTask, Exists
    <3>3. ASSUME NEW i \in Id, DeleteTask(i) PROVE Exists(id)
      BY <1>1, <3>3 DEF DeleteTask, Exists
    <3>4. ASSUME NEW w \in Worker, Commit(w) PROVE Exists(id)
      BY <1>1, <3>4, CommitRow, RowExists DEF Exists
    <3> QED
      BY <3>1, <3>2, <3>3, <3>4, TableSteps
  <2>2. /\ tasks[id].notes.closed \in Nat
        /\ tasks[id].notes.closed + Cardinality(Pending(id)) <= Cardinality(Worker)
    BY <1>1, <2>1 DEF DeliveryInv, NotesAreBounded, Exists, Row, Notes
  <2>3. CASE Pending(id)' \subseteq Pending(id) /\ tasks'[id] = tasks[id]
    <3>1. Cardinality(Pending(id)') <= Cardinality(Pending(id))
      BY <1>4, <2>3, PendingCount
    <3> QED
      BY <1>5, <2>2, <2>3, <3>1
  <2>4. CASE tasks[id].status # "done" /\ tasks'[id] = tasks[id]
    BY <1>2, <1>3, <1>7, <2>4 DEF Inv, ClosedNoteMeansDone
  <2>5. CASE tasks'[id] = Deleted
    BY <2>5 DEF Exists
  <2>6. ASSUME NEW w \in Worker, Commit(w), work[w].id = id
        PROVE  tasks'[id].notes.closed + Cardinality(Pending(id)') <= Cardinality(Worker)
    <3> DEFINE new == Updated(tasks[id], work[w].upd, work[w].hook)
    <3>1. tasks'[id] = new /\ tasks[id] \in Row /\ AfterUpdate(w, new.notes)
      BY <1>1, <2>6, CommitRow
    <3>2. work[w].hook \in BOOLEAN /\ id \notin work[w].todo /\ work[w].pc = "write"
      BY <2>6 DEF Inv, TypeOK, Activity, Commit, DeliveryInv, TakenOffList
    <3>3. new.notes = UpdatedNotes(tasks[id].notes, work[w].upd, work[w].hook) /\ tasks[id].notes \in Notes
      BY <3>1 DEF Updated, Row
    <3>4. PICK activity : /\ Become(w, activity)
                          /\ activity \in {[pc |-> "loop", todo |-> work[w].todo], Idle,
                                           [pc |-> "get", id |-> id, floor |-> new.notes]}
      BY <2>6, <3>1 DEF AfterUpdate
    <3>5. work'[w] = activity /\ \A v \in Worker \ {w} : work'[v] = work[v]
      BY <1>1, <3>4 DEF Become
    <3>6. w \notin Pending(id)'
      BY <3>2, <3>4, <3>5 DEF Pending, Idle
    <3>7. Pending(id)' \subseteq Pending(id) \ {w}
      <4> SUFFICES ASSUME NEW v \in Pending(id)' PROVE v \in Pending(id) /\ v # w
        OBVIOUS
      <4>1. v \in Worker /\ v # w
        BY <3>6 DEF Pending
      <4> QED
        BY <3>5, <4>1 DEF Pending
    <3>8. CASE work[w].hook
      <4>1. w \in Pending(id)
        BY <2>6, <3>2, <3>8 DEF Pending
      <4>2. Cardinality(Pending(id)') + 1 <= Cardinality(Pending(id))
        BY <1>4, <3>7, <4>1, PendingCount
      <4>3. new.notes.closed <= tasks[id].notes.closed + 1
        BY <3>3, <3>8 DEF UpdatedNotes, Notes
      <4> QED
        BY <1>3, <1>5, <2>2, <3>1, <4>2, <4>3
    <3>9. CASE ~work[w].hook
      <4>1. Cardinality(Pending(id)') <= Cardinality(Pending(id))
        BY <1>4, <3>7, PendingCount
      <4>2. new.notes.closed = tasks[id].notes.closed
        BY <3>3, <3>9 DEF UpdatedNotes, Notes
      <4> QED
        BY <1>3, <1>5, <2>2, <3>1, <4>1, <4>2
    <3> QED
      BY <3>2, <3>8, <3>9
  <2> QED
    BY <2>1, <2>3, <2>4, <2>5, <2>6, PendingSteps DEF DeliveryInv
<1> QED
  BY <1>6, <1>7

\* However often and in whatever interleaving GitHub repeats the delivery of a
\* closed issue (completeTaskForIssue), a task gets no more notes than there
\* were deliveries under way together.
THEOREM RepetitionAddsNoNotes == Spec => []NoteOncePerConcurrentDelivery
<1>1. Init => DeliveryInv
  BY DEF Init, DeliveryInv, TakenOffList, NotesAreBounded, Exists, Unborn, Idle
<1>2. Inv /\ DeliveryInv /\ [Next]_vars => DeliveryInv'
  BY TakenOffListStep, NotesAreBoundedStep DEF DeliveryInv
<1>3. Inv /\ DeliveryInv => NoteOncePerConcurrentDelivery
  <2> SUFFICES ASSUME Inv, DeliveryInv, NEW id \in Id, Exists(id)
               PROVE  tasks[id].notes.closed <= Cardinality(Worker)
    BY DEF NoteOncePerConcurrentDelivery
  <2>1. Pending(id) \in SUBSET Worker
    BY DEF Pending
  <2>2. Cardinality(Pending(id)) \in Nat /\ Cardinality(Worker) \in Nat
    BY <2>1, PendingCount
  <2>3. tasks[id].notes.closed \in Nat
    BY DEF Inv, TypeOK, Exists, Row, Notes
  <2> QED
    BY <2>2, <2>3 DEF DeliveryInv, NotesAreBounded
<1> QED
  BY <1>1, <1>2, <1>3, SpecInv, PTL DEF Spec
-----------------------------------------------------------------------------
(* What an update does to the task as it is, not as its transaction read it. *)

\* A PATCH that is to be answered with the task was applied to the task as it
\* was at that moment: the transition was valid from the status it then had,
\* and every field that the update leaves unset kept its value of then.
UpdatesAreIsolated ==
  [][\A w \in Worker : work[w].pc = "write" /\ work'[w].pc = "get" =>
       LET id == work[w].id
       IN /\ Exists(id) /\ Accepts(tasks[id], work[w].upd)
          /\ tasks' = [tasks EXCEPT ![id] = Updated(tasks[id], work[w].upd, FALSE)]]_vars

\* The life of a task: it begins open and without notes; until it is deleted,
\* for good, its status moves along valid transitions, its issue stays, its
\* notes are only added to, and the webhook's note is added with "done".
LivesOfTasks ==
  [][\A id \in Id :
       /\ tasks[id] = Deleted => tasks'[id] = Deleted
       /\ tasks[id] = Unborn /\ tasks'[id] # Unborn =>
            /\ tasks'[id].status = "open"
            /\ tasks'[id].notes = [closed |-> 0, comments |-> 0]
       /\ Exists(id) /\ tasks'[id] # Deleted =>
            /\ ValidTransition(tasks[id].status, tasks'[id].status)
            /\ tasks'[id].issue = tasks[id].issue
            /\ AtLeast(tasks'[id].notes, tasks[id].notes)
            /\ tasks'[id].notes.closed # tasks[id].notes.closed
                 => tasks'[id].status = "done"]_vars

\* What a commit writes over: a task that exists, from which the update's
\* transition is valid.
LEMMA CommitAccepted ==
  ASSUME Inv, NEW w \in Worker, Commit(w)
  PROVE  LET id == work[w].id
         IN /\ id \in Id /\ Exists(id) /\ tasks[id] = work[w].row
            /\ work[w].upd \in Update /\ work[w].hook \in BOOLEAN
            /\ work[w].hook => work[w].upd = CloseUpdate
            /\ Accepts(tasks[id], work[w].upd)
<1>1. /\ work[w].pc = "write"
      /\ work[w].id \in Id /\ work[w].row \in Row /\ work[w].upd \in Update
      /\ work[w].hook \in BOOLEAN
      /\ tasks[work[w].id] = work[w].row
  BY DEF Inv, TypeOK, Activity, Commit, Serializable
<1>2. Exists(work[w].id)
  BY <1>1, RowExists
<1> QED
  BY <1>1, <1>2 DEF Inv, WritesAccepted

\* No PATCH that UpdateTask acknowledges is lost or overwrites what another
\* request wrote between its SELECT and its UPDATE.
THEOREM NoUpdateLost == Spec => UpdatesAreIsolated
<1> DEFINE Applied(w) ==
      work[w].pc = "write" /\ work'[w].pc = "get" =>
        LET id == work[w].id
        IN /\ Exists(id) /\ Accepts(tasks[id], work[w].upd)
           /\ tasks' = [tasks EXCEPT ![id] = Updated(tasks[id], work[w].upd, FALSE)]
<1>1. ASSUME Inv, Next, NEW w \in Worker, work[w].pc = "write", work'[w].pc = "get"
      PROVE  Commit(w)
  <2>1. work'[w] # work[w] /\ work[w] # Idle /\ Idle.pc # "get"
    BY <1>1 DEF Idle
  <2>2. \A v \in Worker : \A activity : v # w => ~Become(v, activity)
    BY <1>1, <2>1 DEF Become, Inv, TypeOK
  <2>3. \A activity : Become(w, activity) => work'[w] = activity
    BY <1>1 DEF Become, Inv, TypeOK
  <2>4. ASSUME NEW v \in Worker, Request(v) PROVE FALSE
    BY <2>1, <2>2, <2>4 DEF Request, ReadForUpdate, ListForIssue
  <2>5. ASSUME NEW v \in Worker, NEW id \in Id, GetTask(v, id) PROVE FALSE
    BY <1>1, <2>1, <2>2, <2>5 DEF GetTask
  <2>6. ASSUME NEW v \in Worker, Proceed(v) PROVE Commit(w)
    <3>1. CASE v = w
      <4>1. ~LoadTaskNotes(w) /\ ~Reply(w)
        BY <1>1 DEF LoadTaskNotes, Reply
      <4>2. ~CloseEnd(w)
        BY <1>1 DEF CloseEnd
      <4>3. \A id \in Id : ~CloseRead(w, id) /\ ~CloseRefused(w, id)
        BY <1>1 DEF CloseRead, CloseRefused, NextInLoop
      <4>4. ~Abandon(w)
        BY <1>1, <2>1, <2>3 DEF Abandon
      <4> QED
        BY <2>6, <3>1, <4>1, <4>2, <4>3, <4>4 DEF Proceed
    <3>2. CASE v # w
      <4>1. \A activity : ~Become(v, activity)
        BY <2>2, <3>2
      <4>2. ~Commit(v)
        BY <4>1 DEF Commit, AfterUpdate
      <4> QED
        BY <2>6, <4>1, <4>2
           DEF Proceed, Abandon, LoadTaskNotes, Reply, CloseEnd, CloseRead, CloseRefused
    <3> QED
      BY <3>1, <3>2
  <2>7. work' # work
    BY <2>1
  <2> QED
    BY <1>1, <2>4, <2>5, <2>6, <2>7 DEF Next, CreateTask, DeleteTask
<1>2. ASSUME Inv, Next, NEW w \in Worker PROVE Applied(w)
  <2> SUFFICES ASSUME work[w].pc = "write", work'[w].pc = "get"
               PROVE  LET id == work[w].id
                      IN /\ Exists(id) /\ Accepts(tasks[id], work[w].upd)
                         /\ tasks' = [tasks EXCEPT ![id] =
                                        Updated(tasks[id], work[w].upd, FALSE)]
    OBVIOUS
  <2>1. Commit(w)
    BY <1>1, <1>2
  <2>2. ~work[w].hook
    BY <1>2, <2>1 DEF Commit, AfterUpdate, Become, Inv, TypeOK
  <2>3. work[w].hook = FALSE
    BY <1>2, <2>1, <2>2, CommitAccepted
  <2> QED
    BY <1>2, <2>1, <2>3, CommitAccepted, CommitRow
<1>3. Inv /\ [Next]_vars => [\A w \in Worker : Applied(w)]_vars
  BY <1>2
<1> QED
  BY <1>3, SpecInv, PTL DEF Spec, UpdatesAreIsolated

\* What the transaction of UpdateTask makes of the row that is there.
LEMMA CommitMoves ==
  ASSUME Inv, NEW w \in Worker, Commit(w)
  PROVE  LET old == tasks[work[w].id]
             new == tasks'[work[w].id]
         IN /\ ValidTransition(old.status, new.status)
            /\ new.issue = old.issue
            /\ new.notes.closed # old.notes.closed => new.status = "done"
<1> DEFINE old == tasks[work[w].id]
           upd == work[w].upd
           hook == work[w].hook
           new == Updated(old, upd, hook)
<1>1. /\ work[w].id \in Id /\ old \in Row /\ tasks'[work[w].id] = new
      /\ Accepts(old, upd) /\ hook \in BOOLEAN /\ (hook => upd = CloseUpdate)
  BY CommitRow, CommitAccepted DEF Inv, TypeOK
<1>2. /\ new.status = IF upd.status = Unset THEN old.status ELSE upd.status
      /\ new.issue = old.issue
      /\ new.notes = UpdatedNotes(old.notes, upd, hook)
  BY <1>1 DEF Updated, Row
<1>3. ValidTransition(old.status, new.status)
  BY <1>1, <1>2 DEF Accepts, ValidTransition
<1>4. ~hook => new.notes.closed = old.notes.closed
  BY <1>1, <1>2 DEF UpdatedNotes, Row, Notes
<1>5. hook => new.status = "done"
  BY <1>1, <1>2, TasksAssumption DEF CloseUpdate, Status
<1> QED
  BY <1>1, <1>2, <1>3, <1>4, <1>5

\* Whatever requests and deliveries come together, a task that CreateTask has
\* made lives as model.IsValidTransition and UpdateTask's one transaction for
\* status and note prescribe.
THEOREM TasksLiveRightly == Spec => LivesOfTasks
<1> DEFINE Life(id) ==
      /\ tasks[id] = Deleted => tasks'[id] = Deleted
      /\ tasks[id] = Unborn /\ tasks'[id] # Unborn =>
           /\ tasks'[id].status = "open"
           /\ tasks'[id].notes = [closed |-> 0, comments |-> 0]
      /\ Exists(id) /\ tasks'[id] # Deleted =>
           /\ ValidTransition(tasks[id].status, tasks'[id].status)
           /\ tasks'[id].issue = tasks[id].issue
           /\ AtLeast(tasks'[id].notes, tasks[id].notes)
           /\ tasks'[id].notes.closed # tasks[id].notes.closed => tasks'[id].status = "done"
<1>1. ASSUME Inv, [Next]_vars, NEW id \in Id PROVE Life(id)
  <2>1. /\ tasks[id] = Deleted => tasks'[id] = Deleted
        /\ Exists(id) /\ tasks'[id] # Deleted => AtLeast(tasks'[id].notes, tasks[id].notes)
    BY <1>1, NotesGrow
  <2>2. CASE tasks'[id] = tasks[id]
    BY <2>1, <2>2 DEF ValidTransition
  <2>3. ASSUME NEW issue, CreateTask(id, issue) PROVE Life(id)
    <3>1. /\ tasks[id] = Unborn /\ ~Exists(id) /\ Unborn # Deleted
          /\ tasks'[id] = [status |-> "open", assignee |-> Nobody, issue |-> issue,
                            notes |-> [closed |-> 0, comments |-> 0]]
      BY <1>1, <2>3 DEF CreateTask, Inv, TypeOK, Exists, Unborn, Deleted
    <3> QED
      BY <3>1
  <2>4. ASSUME DeleteTask(id) PROVE Life(id)
    <3>1. Exists(id) /\ tasks'[id] = Deleted
      BY <1>1, <2>4 DEF DeleteTask, Inv, TypeOK
    <3> QED
      BY <3>1 DEF Exists
  <2>5. ASSUME NEW w \in Worker, Commit(w), work[w].id = id PROVE Life(id)
    <3>1. Exists(id)
      BY <1>1, <2>5, CommitAccepted
    <3>2. tasks[id] # Unborn /\ tasks[id] # Deleted
      BY <3>1 DEF Exists
    <3> QED
      BY <1>1, <2>1, <2>5, <3>2, CommitMoves
  <2>6. \/ tasks'[id] = tasks[id]
        \/ \E issue : CreateTask(id, issue)
        \/ DeleteTask(id)
        \/ \E w \in Worker : Commit(w) /\ work[w].id = id
    <3>1. \A i \in Id : \A issue : CreateTask(i, issue) /\ i # id => tasks'[id] = tasks[id]
      BY <1>1 DEF CreateTask, Inv, TypeOK
    <3>2. \A i \in Id : DeleteTask(i) /\ i # id => tasks'[id] = tasks[id]
      BY <1>1 DEF DeleteTask, Inv, TypeOK
    <3>3. \A w \in Worker : Commit(w) /\ work[w].id # id => tasks'[id] = tasks[id]
      BY <1>1, CommitRow DEF Inv, TypeOK
    <3> QED
      BY <1>1, <3>1, <3>2, <3>3, TableSteps
  <2> QED
    BY <2>2, <2>3, <2>4, <2>5, <2>6
<1>2. Inv /\ [Next]_vars => [\A id \in Id : Life(id)]_vars
  BY <1>1
<1> QED
  BY <1>2, SpecInv, PTL DEF Spec, LivesOfTasks
=============================================================================
