------------------------------- MODULE Tasks --------------------------------
(***************************************************************************)
(* Tasks, their state machine and their notes, with the GitHub webhook that *)
(* completes the tasks of a closed issue.                                   *)
(*                                                                          *)
(* UpdateTask is a read-modify-write in one transaction: a caller that only *)
(* appends a note writes back the status and the assignee it has read.  So  *)
(* an attempt is two steps here: it reads the row, and it commits if the    *)
(* row is still that one.  An attempt that fails and is retried changes     *)
(* nothing and reads afresh: only the last one is modelled.  The reply of   *)
(* UpdateTask and of a GET is read by GetTask, outside any transaction, in  *)
(* two queries.                                                             *)
(*                                                                          *)
(* Titles are reduced to the issue they name; descriptions, priorities,     *)
(* tags and session columns are carried along and never looked at.          *)
(***************************************************************************)
EXTENDS Integers, FiniteSets

CONSTANTS
  Worker,       \* goroutines that serve a request (of any replica)
  Agent,        \* values of tasks.assignee
  Nobody,       \* the empty assignee
  Issue,        \* GitHub issues
  NoIssue,      \* a title that does not begin with "Issue #<n>:"
  MaxTasks,     \* tasks ever created (model bound)
  MaxComments,  \* notes a task gets through the API (model bound)
  ListLimit,    \* the LIMIT of a ListTasks without one: 50
  Unset         \* a nil field of TaskUpdate

Id == 1 .. MaxTasks

Status == {"open", "claimed", "in_progress", "done", "failed", "cancelled"}

ASSUME TasksAssumption ==
  /\ MaxTasks \in Nat
  /\ MaxComments \in Nat
  /\ ListLimit \in Nat
  /\ IsFiniteSet(Worker)
  /\ Nobody \notin Agent
  /\ NoIssue \notin Issue
  /\ Unset \notin Status \cup Agent \cup {Nobody}

VARIABLES
  tasks,  \* tables tasks and task_notes; ids are in the order of created_at
  work    \* what each worker is doing

vars == <<tasks, work>>

\* Notes are counted: those of the webhook ("Closed via ...") and the others.
Notes == [closed : Nat, comments : Nat]

Row ==
  [status : Status, assignee : Agent \cup {Nobody},
   issue : Issue \cup {NoIssue}, notes : Notes]

Unborn == [status |-> "unborn"]
Deleted == [status |-> "deleted"]

Exists(id) == tasks[id] \notin {Unborn, Deleted}

Update ==
  [status : Status \cup {Unset}, assignee : Agent \cup {Nobody, Unset}, note : BOOLEAN]

\* loop: the webhook has tasks left to do; write: a transaction has read row
\* and is to commit (hook tells whose it is); get: UpdateTask is to call
\* GetTask; notes: GetTask has the row, not yet the notes; replied: the
\* answer's notes.  floor is history: the notes there were when the request
\* last touched the task.
Activity ==
  [pc : {"idle"}]
    \cup [pc : {"loop"}, todo : SUBSET Id]
    \cup [pc : {"write"}, id : Id, upd : Update, row : Row, hook : BOOLEAN, todo : SUBSET Id]
    \cup [pc : {"get", "notes"}, id : Id, floor : Notes]
    \cup [pc : {"replied"}, id : Id, floor : Notes, notes : Notes]

Idle == [pc |-> "idle"]

TypeOK ==
  /\ tasks \in [Id -> Row \cup {Unborn, Deleted}]
  /\ work \in [Worker -> Activity]
-----------------------------------------------------------------------------
(* model.IsValidTransition *)

\* Fault: any status may follow any other.
AnyTransition(src, dst) == TRUE

ValidTransition(src, dst) ==
  \/ src = dst
  \/ src = "open"        /\ dst \in {"claimed", "cancelled"}
  \/ src = "claimed"     /\ dst \in {"open", "in_progress", "cancelled"}
  \/ src = "in_progress" /\ dst \in {"done", "failed", "open"}

Finished == {"done", "failed", "cancelled"}

Accepts(row, upd) == upd.status = Unset \/ ValidTransition(row.status, upd.status)
-----------------------------------------------------------------------------
Init ==
  /\ tasks = [id \in Id |-> Unborn]
  /\ work = [w \in Worker |-> Idle]

Become(w, activity) == work' = [work EXCEPT ![w] = activity]

\* CreateTask, for the API or for an opened issue or pull request (a delivery
\* that GitHub repeats makes another task).  created_at is read before the
\* transaction and compared as a text: the new task may take any place in the
\* order of those there are.
CreateTask(id, issue) ==
  /\ tasks[id] = Unborn
  /\ tasks' = [tasks EXCEPT ![id] =
                 [status |-> "open", assignee |-> Nobody, issue |-> issue,
                  notes |-> [closed |-> 0, comments |-> 0]]]
  /\ UNCHANGED work

\* The notes go with the task (ON DELETE CASCADE).
DeleteTask(id) ==
  /\ Exists(id)
  /\ tasks' = [tasks EXCEPT ![id] = Deleted]
  /\ UNCHANGED work
-----------------------------------------------------------------------------
(* UpdateTask *)

\* PATCH /api/v1/tasks/{id}: the transaction reads the task and checks the
\* transition.  (A task that is not there and a transition that is not valid
\* are answered 404 and 422, and nothing changes.)
ReadForUpdate(w, id, upd) ==
  /\ work[w] = Idle
  /\ Exists(id) /\ Accepts(tasks[id], upd)
  /\ upd.note => tasks[id].notes.comments < MaxComments
  /\ Become(w, [pc |-> "write", id |-> id, upd |-> upd, row |-> tasks[id],
                hook |-> FALSE, todo |-> {}])
  /\ UNCHANGED tasks

\* What the transaction writes: status and assignee as read, where the update
\* does not set them, and one more note.
UpdatedNotes(notes, upd, hook) ==
  IF ~upd.note THEN notes
  ELSE IF hook THEN [notes EXCEPT !.closed = @ + 1]
  ELSE [notes EXCEPT !.comments = @ + 1]

\* Fault: the fields of the update are written without a look for nil.
UpdatedBlindly(row, upd, hook) ==
  [row EXCEPT !.status = upd.status, !.assignee = upd.assignee,
              !.notes = UpdatedNotes(@, upd, hook)]

Updated(row, upd, hook) ==
  [row EXCEPT !.status = IF upd.status = Unset THEN @ ELSE upd.status,
              !.assignee = IF upd.assignee = Unset THEN @ ELSE upd.assignee,
              !.notes = UpdatedNotes(@, upd, hook)]

\* Fault: the transaction does not notice that the row has changed (but not
\* that it is gone): a weaker isolation level.
NotSerializable(w) == Exists(work[w].id)

Serializable(w) == tasks[work[w].id] = work[w].row

\* The webhook calls UpdateTask for one task after the other and only logs
\* its errors; the reply to an agent is read afterwards.  A commit whose
\* answer is lost is an error to the caller.
AfterUpdate(w, notes) ==
  IF work[w].hook THEN Become(w, [pc |-> "loop", todo |-> work[w].todo])
  ELSE \/ Become(w, [pc |-> "get", id |-> work[w].id, floor |-> notes])
       \/ Become(w, Idle)

Commit(w) ==
  /\ work[w].pc = "write"
  /\ Serializable(w)
  /\ LET row == Updated(work[w].row, work[w].upd, work[w].hook)
     IN /\ tasks' = [tasks EXCEPT ![work[w].id] = row]
        /\ AfterUpdate(w, row.notes)

\* Fault: an error ends the loop.
AbandonEndsDelivery(w) ==
  /\ work[w].pc = "write"
  /\ Become(w, Idle)
  /\ UNCHANGED tasks

\* RetryTx gives up: maxRetries, another error, or a cancelled context.
Abandon(w) ==
  /\ work[w].pc = "write"
  /\ Become(w, IF work[w].hook THEN [pc |-> "loop", todo |-> work[w].todo] ELSE Idle)
  /\ UNCHANGED tasks
-----------------------------------------------------------------------------
(* GetTask, for GET /api/v1/tasks/{id} and at the end of UpdateTask. *)

\* A task that is gone by now is answered 404, even to the PATCH that has
\* just updated it.
GetTask(w, id) ==
  /\ work[w] = Idle \/ (work[w].pc = "get" /\ work[w].id = id)
  /\ IF Exists(id)
       THEN Become(w, [pc |-> "notes", id |-> id, floor |-> tasks[id].notes])
       ELSE Become(w, Idle)
  /\ UNCHANGED tasks

\* Fault: the notes are not loaded.
NoNotesLoaded(id) == [closed |-> 0, comments |-> 0]

NotesOf(id) == IF Exists(id) THEN tasks[id].notes ELSE [closed |-> 0, comments |-> 0]

LoadTaskNotes(w) ==
  /\ work[w].pc = "notes"
  /\ Become(w, [pc |-> "replied", id |-> work[w].id, floor |-> work[w].floor,
                notes |-> NotesOf(work[w].id)])
  /\ UNCHANGED tasks

Reply(w) ==
  /\ work[w].pc = "replied"
  /\ Become(w, Idle)
  /\ UNCHANGED tasks
-----------------------------------------------------------------------------
(* completeTaskForIssue, for the webhook's event "issues: closed". *)

\* The newest ListLimit tasks.
ListTasks ==
  {id \in Id : Exists(id) /\ Cardinality({j \in Id : Exists(j) /\ j > id}) < ListLimit}

\* Fault: finished tasks are not left out.
TasksOfIssueAnyStatus(issue) == {id \in ListTasks : tasks[id].issue = issue}

TasksOfIssue(issue) ==
  {id \in ListTasks : tasks[id].issue = issue /\ tasks[id].status # "done"}

ListForIssue(w, issue) ==
  /\ work[w] = Idle
  /\ Become(w, [pc |-> "loop", todo |-> TasksOfIssue(issue)])
  /\ UNCHANGED tasks

CloseUpdate == [status |-> "done", assignee |-> Unset, note |-> TRUE]

\* Newest first.
NextInLoop(w, id) ==
  work[w].pc = "loop" /\ id \in work[w].todo /\ \A j \in work[w].todo : j <= id

\* The task as it is now, not as it was listed, decides.
CloseRead(w, id) ==
  /\ NextInLoop(w, id)
  /\ Exists(id) /\ Accepts(tasks[id], CloseUpdate)
  /\ Become(w, [pc |-> "write", id |-> id, upd |-> CloseUpdate, row |-> tasks[id],
                hook |-> TRUE, todo |-> work[w].todo \ {id}])
  /\ UNCHANGED tasks

\* ErrNotFound or ErrInvalidTransition: logged, and the loop goes on.
CloseRefused(w, id) ==
  /\ NextInLoop(w, id)
  /\ ~(Exists(id) /\ Accepts(tasks[id], CloseUpdate))
  /\ Become(w, [pc |-> "loop", todo |-> work[w].todo \ {id}])
  /\ UNCHANGED tasks

\* 200, whatever was logged.
CloseEnd(w) ==
  /\ work[w] = [pc |-> "loop", todo |-> {}]
  /\ Become(w, Idle)
  /\ UNCHANGED tasks
-----------------------------------------------------------------------------
Request(w) ==
  \/ \E id \in Id, upd \in Update : ReadForUpdate(w, id, upd)
  \/ \E issue \in Issue : ListForIssue(w, issue)

Proceed(w) ==
  \/ Commit(w) \/ Abandon(w) \/ LoadTaskNotes(w) \/ Reply(w) \/ CloseEnd(w)
  \/ \E id \in Id : CloseRead(w, id) \/ CloseRefused(w, id)

Next ==
  \/ \E id \in Id, issue \in Issue \cup {NoIssue} : CreateTask(id, issue)
  \/ \E id \in Id : DeleteTask(id)
  \/ \E w \in Worker : Request(w) \/ Proceed(w) \/ \E id \in Id : GetTask(w, id)

Spec == Init /\ [][Next]_vars

\* A handler that has begun runs on; its queries end or fail.
FairSpec == Spec /\ \A w \in Worker : WF_vars(Proceed(w))
-----------------------------------------------------------------------------
(* Properties. *)

\* done, failed and cancelled are final, although every update writes the
\* status back and note-only updates are accepted on finished tasks.
FinishedStaysFinished ==
  [][\A id \in Id : Exists(id) /\ tasks[id].status \in Finished =>
       tasks'[id] = Deleted \/ tasks'[id].status = tasks[id].status]_vars

\* The status and the note of one update are written together or not at all:
\* a task that bears the webhook's note is done.
ClosedNoteMeansDone ==
  \A id \in Id : Exists(id) /\ tasks[id].notes.closed > 0 => tasks[id].status = "done"

\* Repeating a delivery does not repeat its note: only deliveries that were
\* under way together can each leave one.
NoteOncePerConcurrentDelivery ==
  \A id \in Id : Exists(id) => tasks[id].notes.closed <= Cardinality(Worker)

\* The answer of a PATCH has the note it appended, and any answer has all
\* notes of the task version it shows, unless the task was deleted meanwhile.
ReplyHasNotes ==
  \A w \in Worker : work[w].pc = "replied" =>
    \/ tasks[work[w].id] = Deleted
    \/ /\ work[w].notes.closed >= work[w].floor.closed
       /\ work[w].notes.comments >= work[w].floor.comments

\* Each task that a delivery has listed has its turn: one before it that is
\* finished by now, is gone or cannot be updated does not keep the delivery
\* from the others, whatever its goroutine meets.
ListedTasksHaveTheirTurn ==
  \A w \in Worker, id \in Id :
    work[w].pc = "loop" /\ id \in work[w].todo ~> NextInLoop(w, id)

\* TestHandler_IssueClosed_CompletesTask: closing an issue completes its
\* task, which is open in that test.  The loop should pass over a task only
\* if it is finished already or gone.
ClosedIssueCompletesTask ==
  [][\A w \in Worker, id \in Id :
       NextInLoop(w, id) /\ Exists(id)
         /\ work'[w] = [pc |-> "loop", todo |-> work[w].todo \ {id}]
         => tasks[id].status \in Finished]_vars

\* "Orchestrator B ... 422": a PATCH that claims a task for an agent is refused
\* while another agent has claimed it.
ClaimOf(w, agent) ==
  work[w].pc = "write" /\ ~work[w].hook /\ work[w].upd.status = "claimed"
    /\ work[w].upd.assignee = agent

ClaimedTaskIsTaken ==
  [][\A w \in Worker, a, b \in Agent :
       ClaimOf(w, b) /\ tasks[work[w].id].status = "claimed"
         /\ tasks[work[w].id].assignee = a /\ a # b
         => work'[w].pc # "get"]_vars
=============================================================================
