# hive-server in TLA+

hive-server is the coordination service of a group of coding agents: a Go HTTP
API over CockroachDB. Agents claim resources, queue for them, keep a versioned
memory, work on tasks and todos, and report that they are alive; GitHub tells
it of issues and pull requests through a webhook. Several replicas may serve
the same database. This directory holds the TLA+ specifications of it, the TLC
configurations that check them on small instances, and TLAPS proofs of the
theorems that hold for instances of every size.

    tlc -workers 2 -config MCClaims.cfg MCClaims.tla
    tlapm ClaimsProofs.tla

`PROJECT.json` lists the runs, the source lines every definition stands for,
for each property a faulty variant of a definition ("Fault:" in its comment,
used by no specification) that breaks it, the hazards and the findings.

## 1. The system

| Part (src/internal) | State | Operations | Hard about it |
|---|---|---|---|
| Claims and queue: `handlers/claims.go`, `store/claims.go`, `store/claim_queue.go` | tables `claims`, `claim_queue`; a unique index on the active claim of a resource | create (grant, or refuse and enqueue), release (and promote), renew, the sweep every minute | the refusal and the enqueueing are two transactions; release, sweep, renewal and webhook race; errors inside the sweep are skipped; order and expiry compare RFC3339Nano texts |
| Webhook: `webhook/webhook.go` | none; works on tasks and claims | opened issue or PR → task; closed issue → tasks done; merged PR or deleted branch → claims released | works from lists that grow stale; deliveries repeat and overlap; one failure of several |
| Memory: `handlers/memory.go`, `store/memory.go` | table `memory` | upsert with an optional version, delete | optimistic check against concurrent writers; the closure writes to the caller's entry and may run again |
| `store/retry.go` (RetryTx) | the attempt, the backoff | begin, closure, commit, again on 40001 | commits whose answer is lost; the bound of the attempts |
| Tasks: `handlers/tasks.go`, `store/tasks.go`, `model/task.go` | tables `tasks`, `task_notes` | create, update (transition, assignee, note), get, delete | read-modify-write; status and note in two statements; the reply is read after the commit, in two queries |
| Todos: `handlers/todos.go`, `store/todos.go` | table `todos` | create, PATCH, DELETE, reorder, prune (owner, and sweeper) | owner check, change and reply are three transactions; pruning races reopening; reorders are all or nothing |
| Agents: `handlers/agents.go`, `store/agents.go`, `relay/client.go` | table `agents`; a goroutine per heartbeat | heartbeat, onboarding (token), presence, relay to only-claws | three handlers write one row; heartbeats overtake each other; tokens are read back after the commit |
| Discovery: `handlers/discovery.go`, `store/discovery.go` | metadata columns of `agents`; `channels`, `roles` | upserts, deletes, lists | the metadata shares its row with heartbeats and tokens |
| Server: `server/server.go` | the process: context, listener, store, sweepers, requests | start, serve, shut down, close, exit | who waits for whom at the end |
| Sessions: `handlers/sessions.go`, `store/sessions.go` | table `captured_sessions` | insert, list, get | timestamps keep the zone of their sender and are compared as texts |
| Timing, log: `timing/timing.go`, `log/log.go` | an accumulator per request; a stack of writers behind a lock | TrackDB; SetWriter, Reset and the restore functions | nested calls; a lock taken again by its holder |
| The rest: UI, health, version, middleware, authentication, command line, test harness | none | | |

How they interact: the handlers share nothing but the database, which runs
every transaction SERIALIZABLE and answers 40001 when it cannot. The webhook
calls the store as the handlers do. The sweepers are goroutines of the server
that call `ExpireOldClaims` and `PruneDoneTodos`. Of two processes the clocks
differ, and a process reads its clock before its transaction commits. A process
may be told to end or die at any moment, and the deployment starts it again:
the database is all that one life leaves to the next.

What makes each part correct:

* claims: one holder for each resource; nobody who waits is lost, waits for
  ever or is passed over; a claim that ended stays ended; a resource goes from
  its holder to the next without being free in between;
* memory: no update is lost, none is applied twice, versions advance by one;
* tasks: finished tasks are final, status and note go together, a webhook
  delivered twice does its work once, every delivery ends;
* todos: nothing pending is lost, nothing young is swept, everything finished
  goes in the end, an order that was acknowledged lasts;
* agents: presence tells the truth, nobody is locked out, the writers of a row
  do not disturb each other;
* server: what was accepted is answered before the process ends; it ends when
  it is told to; what it leaves behind is right, and the next life goes on;
* sessions: a filter by time selects by time.

## 2. The modules

| Module | Models | State |
|---|---|---|
| `TimeText` | timestamps as texts: `TextLess` is the SQL comparison of two RFC3339Nano texts in UTC, `ZonedTextLess` of two with zones, `TimeLess` what it was written for | none |
| `ClaimLease` | abstract: requests take turns at holding a resource | holder, waiting, over |
| `Claims` | the claim API, the sweep, the webhook's releases; implements `ClaimLease` | `claims`, `queue` (the tables), `req` (handlers), `hooked` (the webhook's lists), `now` |
| `VersionedRegister` | abstract: a register of versioned keys; a request writes at one moment, once or never | cell, reply |
| `Memory` | UpsertMemory with RetryTx's loop written out; implements `VersionedRegister` | `memory` (the table), `req` (the entry and the loop), `commits` (history) |
| `Tasks` | UpdateTask, GetTask, DeleteTask, completeTaskForIssue | `tasks` (with their notes), `work` (the goroutines) |
| `Todos` | the todo API and the sweeper | `todos`, `work`, `order` (history), `now` |
| `Agents` | heartbeat, onboarding, metadata, presence, relay | `agents`, `calls`, `relays`, `claws` (only-claws), `heard` (history), `now` |
| `Server` | Run, shutdown, close, exit | context, run, listener, shutdown, store, requests, sweepers |
| `Service` | `Claims` in the process of `Server` (which it instantiates), with crashes and restarts | those of `Claims` and `Server`, `lives` |
| `Sessions` | captured sessions: POST, and GET with its filters | `sessions`, `reply` |
| `MC*` | the constants of the runs | |
| `*Proofs` | theorems of the module they are named for | |
| `ClaimsRefinement` | the theorem that `Claims` implements `ClaimLease` | |

### Conventions

* A transaction is one action when its result depends only on the state it
  commits in: that is what SERIALIZABLE gives. Where the value it writes was
  read in it (memory, tasks), reading and committing are two actions, and the
  commit is possible only while the row is the one that was read.
* A transaction that fails in the end changes nothing. It appears as an action
  only where it matters to somebody else (`FailEnqueue`, `Abandon`, `Fail`);
  elsewhere the request simply does not happen. A commit whose answer is lost
  is in the models: the change is made and the caller is told 500.
* Requests that are refused before any change (401, 403, 404, 422) have no
  action unless the request had already begun.
* Ids (UUIDs) are the requests that made the rows; titles, values, tokens and
  metadata are model values or the requests that wrote them. Columns nothing
  depends on are left out and named in the header of the module.
* A clock is a number of ticks. `Stamp` is what `time.Now()` may have returned
  to a transaction that commits now: up to `MaxLag` ticks ago, which stands
  for the time between reading the clock and committing, retries included,
  and for the difference between the clocks of the replicas. Where a reply
  judges a row by the clock (`Presence`), it is the clock of the server that
  reads, a `Stamp` as well, and the row may be older than it.
* `TicksPerSecond` is 2 in the runs: whole and half seconds, which is all it
  takes for the order of texts to differ from that of times ("05Z" sorts after
  "05.5Z").

### Claims and ClaimLease

`claimCreate` is `GrantClaim`, or `RefuseClaim` followed by `EnqueueClaim` or
`FailEnqueue`: two transactions with anything in between. `ReleaseTx` is the
transaction of `ReleaseClaim`, for the API (`ReleaseClaim`) and the webhook
(`WebhookList`, `WebhookRelease`): its UPDATE does not look at the status, and
when the claim was dead and another is active, it is the unique index that
makes the transaction fail. `ExpireOldClaims` purges the queue, expires claims
and promotes waiters, all in one transaction: the errors it skips abort the
transaction in the database, so that what follows in it fails as well.

`ClaimLease` knows nothing of transactions, clocks or tables. `Claims` is
mapped to it by `Holder`, `Waiting` and `Over`; the run claims_safety checks
`LeaseSpec`, that every behaviour of the tables is one of the lease, and
`ClaimsRefinement` proves it. In one step either one request arrives at one
resource (`Arrive`), or resources are served (`Serve`), as many as a sweep
frees at once. `Adopt` is there because of the finding claims_stranded.

### Memory and RetryTx

A request is `Begin`, then attempts of two actions: `PrepareInsert` or
`PrepareUpdate` (the closure, which also writes the caller's entry) and
`Commit`. `Retry` runs the closure again on the entry as it was left;
`Refuse` is ErrConflict, which is not retried; `Fail` everything else.

`VersionedRegister` knows nothing of attempts. The table is its `cell`, and
`Told` maps a request to its `reply`: 200 with version and creation, 409, or
nothing (500). A write takes effect at one moment, in which its reply is fixed;
a request that was told nothing has written before or never does. It leaves open
when a request is refused, because of the finding memory_lost.

### Tasks and the webhook

A goroutine (`Worker`) serves a PATCH (`ReadForUpdate`, `Commit` or `Abandon`,
`GetTask`, `LoadTaskNotes`, `Reply`), a GET (the last three) or a delivery of
"issues: closed" (`ListForIssue`, then `CloseRead` and `Commit`, or
`CloseRefused`, for each task, and `CloseEnd`). `ValidTransition` is
`IsValidTransition`, to which UpdateTask adds that a status may stay.

### Todos

PATCH is `BeginPatch` (owner check), `UpdateTodo` (an empty one changes
nothing, not even updated_at), `GetTodo`; DELETE is
`BeginDelete`, `DeleteTodo`. `Prune` is `PruneDoneTodos`, for an owner
(`PruneOwn`, with age 0) and the sweeper. `Reordered` is the loop of UPDATEs,
in which an id that occurs twice keeps its last place.

### Agents

Each handler is a transaction (`Heartbeat`, `GenerateAgentToken`,
`UpsertAgentMeta`), the SELECT for the reply (`GetAgent`), and the reply from
the row that was read (`Finish`), whose presence is computed by the clock of
that server at that moment; `Get` is the SELECT of the endpoints that only
read. `Finish` of a heartbeat starts the relay goroutine (`RelayStatus` or
`RelayLost`). `heard` is history in true time: when the last heartbeat was
recorded, whatever the clock of its server said.

### Server

`Start` is store.New, the goroutines and ListenAndServe; `BeginShutdown` and
`EndShutdown` are the goroutine that waits for the context; `ListenReturns`,
`CloseStore` and `Exit` the end of Run, its deferred call and the end of main.
That Accept fails for good on a listener which nobody has closed, after it has
served, is left out: net/http waits and retries what is temporary.

### Service

`Service` extends `Claims` and instantiates `Server`: its requests are the
create requests of `Claims`, its sweeper is runClaimExpiry. `Arrive` is
`Accept` of the server; `Handle` a transaction of the handler, possible while
the request is open and the store is; `Answer` and `FailAnswer` the replies.
A tick begins a sweep (`SweepBegins`), which commits (`SweepClaims`) or fails
and is logged (`SweepFails`). `Others` are the calls of other endpoints and of
the webhook, whose own requests are not followed.

The fault model: `Signal` is SIGTERM, `StartFails` a store that does not open
or an address that is taken, `Kill` a crash at any moment, `Restart` the
deployment. At the end of a life its requests are cut, its sweep stops and a
webhook delivery forgets what it has listed (`WebhookLost`); the tables stay. A
request that was cut between its refusal and its enqueueing never goes on. A
COMMIT is applied, if at all, before its process is gone.

### Sessions

`CreateCapturedSession` inserts a row; `ListCapturedSessions` answers one of
the `Selections` of a filter: the rows that match, in descending order of the
texts, up to the limit.

## 3. The runs

| Run | Expect | Properties | Instance |
|---|---|---|---|
| claims_safety | pass | TypeOK, OneHolder, NoWaiterLost, HandoverAtomic, FirstComeFirstServed, EndedClaimsAreInert, NoEarlyExpiry, LeaseSpec | 3 requests, 2 resources, durations −1 and 2 ticks, time 0..3 |
| service | pass | ServiceTypeOK, ListenerHasStore, ImplementsClaims, SignalEndsProcess, RequestsEnd, OnlyEndsFailRequests, WaitEnds, OverdueClaimEnds | 2 requests, 1 resource, two lives, time 0..2 in whole seconds, requests until 0 |
| claims_stranded | violation | WaitersHaveHolder | 3 requests, 1 resource |
| memory | pass | TypeOK, AtMostOnce, FirstAttemptChecked, ReplyIsStored, VersionsAdvance, RegisterSpec, RequestsEnd | 3 writers, 1 key, one retry each, versions asked for 0..2 |
| memory_lost | violation | VersionChecked | the same |
| tasks | pass | TypeOK, ClosedNoteMeansDone, ReplyHasNotes, FinishedStaysFinished, NoteOncePerConcurrentDelivery, ListedTasksHaveTheirTurn | 2 goroutines, 2 tasks, no assignee, no note by the API |
| tasks_open | violation | ClosedIssueCompletesTask | 1 goroutine, 1 task |
| tasks_taken | violation | ClaimedTaskIsTaken | 2 goroutines, 2 agents, 1 task |
| agents | pass | TypeOK, PresenceIsTrue, StoredTokenIsKnown, RelayedWasRecorded, WritersKeepApart | 3 requests, 1 agent, threshold 2, lag 1, time 0..4 |
| todos | pass | TypeOK, OrderLasts, NotFoundMeansGone, NoTodoLost, NoEarlyPrune, FinishedTodosEnd | 1 slow request, 2 agents, 2 todos, age 2, lag 1, time 0..7, requests until 2 |
| server_close | violation | ShutdownIsGraceful | 2 requests, 2 sweepers |
| sessions_since | violation | ListedSessionsStartedSince | 2 sessions, 2 instants, 2 zones |

### What they show

* **claims_safety**: whatever the order of requests, releases (also late and
  repeated ones), renewals, sweeps and webhooks, a resource has one holder,
  and it passes from holder to holder without being free in between. A waiter
  leaves the queue with its promotion or after its TTL. FIFO and expiry hold up
  to a second: that is the distance by which texts may misorder, and
  `FirstComeFirstServed` and `NoEarlyExpiry` are stated with it.
* **service**: whenever the process is told to end, fails to start or crashes,
  and although sweeps may fail, its tables are those of `Claims`
  (`ImplementsClaims`), so that everything claims_safety shows holds of it. In
  the next life the sweep finds what was left: no wait is endless and no
  abandoned claim is kept, although nobody else calls. A process that is told to
  end does, also when the drain times out; a request that was let in is
  answered, fails or is cut; none is let in without a store, and none that was
  let in fails or is cut, crashes apart, before the process was told to end and
  has begun its shutdown (`OnlyEndsFailRequests`).
* **memory**: whatever is retried, lost or deleted, a request is written once
  at most and every write makes the next version; to its callers the API is a
  register whose writes take effect at one moment each (`RegisterSpec`). The
  optimistic check is right for requests whose first attempt decides
  (`FirstAttemptChecked`), and wrong for others (memory_lost).
* **tasks**: a finished task stays finished although
  note-only updates write its status back, and a repeated delivery finds
  nothing left to do. Notes can be doubled only by deliveries that overlap.
  The errors of a delivery keep it from none of the tasks it has listed.
* **agents**: an agent is shown offline only after a silence of more than the
  threshold less the lag, and online or idle only if it was heard within the
  threshold and the lag, heartbeats that overtake each other included. Both
  bounds are met in the run: the first by a heartbeat with a slow clock, the
  second by a reader with one. The silence counts from the last heartbeat
  before the row was read to the reply: one that comes between the two is not
  seen.
* **todos**: the sweeper and the slow requests take nothing that is not theirs.

### The bounds, and why they are enough

Each is named in the module, as a constant with the comment "model bound".

* Claims: three requests are a holder, a waiter and one that comes later or
  waits longer; two resources are what a sweep needs to free several at once.
  A third resource or a fourth request adds no new relation between rows:
  releases and promotions look at the requests for one resource, and FIFO at
  pairs. A negative and a two-tick duration cover the default TTL and the
  renewal into the past. `Horizon` ends the requests, `MaxTime` the clock.
* Service: a holder and a waiter, a claim and a wait of one second, and a clock
  that goes on until both are over: the latest claim of time 0 and the
  longest wait end at 1 and a sweep at 2 sees it. Two lives, of which the first
  ends in every way and at every moment; a third would begin in a state in
  which a second can begin. Ticks are whole seconds here: how texts misorder is
  the matter of claims_safety.
* Memory: one key, since keys are independent; a writer, a concurrent writer
  and one that writes or recreates in between; one retry is the first attempt
  that finds an entry written by another.
* Tasks: two goroutines that meet on one task, and for the webhook two tasks,
  so that an error on one precedes the other. The notes of the run are those
  of the webhook: no PATCH of it has one. That a reply has the notes of the API
  as well rests on `RepliesHaveNotes`, which proves it for any number of both.
* Todos: a slow request of one agent while both agents do everything else in
  single steps; two todos have two orders, and lists up to 2 repeat an id.
* Agents: one agent (rows are independent), three requests: two of one kind
  that overtake each other and one of another kind.

* Sessions: two sessions, and a zone other than UTC.

Symmetry is declared for requests, resources, workers and agents in runs of
safety properties only.

### Fairness

* Service: the steps of a request (`Serve`), because each has a goroutine; the
  start, the shutdown and the end of a process (`Start`, `BeginShutdown`,
  `ListenReturns`, `CloseStore`, `Exit`), which are straight-line code;
  `SweepBegins`, as the ticker fires; `SweepFails` weakly and `SweepClaims`
  strongly: a sweep comes to an end and may fail, but not every time.
  `Restart`, which is the deployment's restart policy; `Tick`, because time
  passes. None is assumed of signals, crashes, `EndShutdown` (Run does not wait
  for it) and holders: they may die.
* Memory: the steps of a request together (`Proceed`), which a loop runs in the
  request's goroutine; no fairness among them, so that success is not promised.
* Tasks: the same for a worker's steps.
* Todos: a worker's steps, the sweeper, time. A finished todo can be made young
  again by its owner without end (ReorderTodos, too, writes updated_at):
  `FinishedTodosEnd` holds because the owner's requests end at `Horizon`.

## 4. Findings

1. **claims_stranded** (`handlers/claims.go:124`). The holder may release
   between the refused claim and its enqueueing. The caller is told that it
   waits behind a holder; there is none, and nobody promotes it until somebody
   else has claimed and given up the resource, or its TTL ends. This gap is the
   only one: `OnlyTheGapStrands` proves that no release, sweep, renewal or
   webhook strands a waiter, so that one transaction for both would close it.
2. **memory_lost** (`store/memory.go:74`). The closure writes `entry.Version`,
   and RetryTx runs it again with the value the failed attempt has written: the
   retry compares the row with a version the caller never sent, and overwrites
   an update of another writer.
3. **tasks_open** (`webhook/webhook.go:243`). Closing an issue asks for
   open → done, which the state machine refuses: a task that nobody took stays
   open. The test that says otherwise uses a mock store without transitions.
4. **tasks_taken** (`store/tasks.go:167`). A second PATCH to "claimed" is not a
   transition, is accepted and replaces the assignee.
5. **server_close** (`server/server.go:172`). ListenAndServe returns when the
   shutdown begins, not when it ends: Run returns, the store is closed and the
   process exits while requests are being drained.
6. **sessions_since** (`store/sessions.go:131`). `started_at` is stored in the
   zone of its sender, `since` is in the zone of the caller, and the texts are
   compared: sessions are listed that started hours before, and others are
   left out. In UTC the comparison is right up to a second (`UTCText`).

Seen while reading and not checked by a run: the restore function that
`log.SetWriter` returns calls `Reset` with the lock held when the stack is
empty, and Reset takes that lock (`log/log.go:107`); `TrackDB` calls nest, so
that X-DB-Ms counts some times twice (`timing/timing.go:50`); of two concurrent
onboardings of one agent both may be told the later token
(`store/agents.go:114`, though the comment at line 88 says that the token is
only set if the call generated it), which `StoredTokenIsKnown` allows, since
somebody still knows the stored token; `README.md:22` of the repository names the
variable `WEBHOOK_SECRET`, which `serve.go` reads as `GITHUB_WEBHOOK_SECRET`;
`store.New` connects and migrates with `context.Background()`, so that a signal
has no effect until it returns; tasks of a closed issue are found by the number
in their title, without the repository (`webhook/webhook.go:232`).

## 5. The proofs

All theorems hold for every value of the constants that the ASSUME of the
module allows: numbers of requests, agents and rows, durations, lags, bounds.
The assumptions are only that numbers are numbers and that "nobody", "unset"
and the like are not among what they stand apart from; `ClaimsAssumption` has
besides that the default TTL is positive, which `claim_queue.go` fixes, and
`TasksAssumption` that there are finitely many goroutines.

| Module | Theorems | Argument |
|---|---|---|
| ClaimsProofs | TypeCorrect, ClaimsAreExclusive (OneHolder), WaitersAreKept (NoWaiterLost) | `Inv` adds to types and OneHolder that a request has a row in one table at most and none before its reply (`RowsFollowReplies`): without it a promotion could meet the id it inserts. The sweep is the hard step: each freed resource is promoted to one waiter of its own, so two promotions never meet on a resource. |
| ClaimsProofs, continued | HandoverIsAtomic, EndedIsInert, ExpiryIsNotEarly, PromotionIsFIFO | From the same `Inv`. `StepKinds` sorts the steps by what they do to the two tables; `ReleaseEffect` and `SweepEffect` say what a release and a sweep leave of a claim and of the queue. FIFO and expiry need besides that texts and times disagree by less than a second (`TextClose`, `TextLessClose` of TimeTextProofs). |
| ClaimsProofs, promotions and sweeps | PromotionDoesNotFail, OneSweepIsEnough, OnlyTheGapStrands | The errors that ExpireOldClaims skips are never those of a resource that is taken: who ends a claim finds the resource free, and of those who wait somebody is the next, because a set of texts has a first (`FirstText`, `SomebodyIsEarliest`). A sweep leaves no claim or wait that is overdue by more than the lag and a second, the claims it has granted included. A waiter without a holder is always the work of `EnqueueClaim`. |
| ClaimsRefinement | TablesImplementLease (LeaseSpec), OneTurnOnly | `RInv` adds to `Inv` that every row of the queue belongs to a request that was told it waits (`WaitersWereTold`), so that a waiter who is purged counts as over. One lemma for each action maps its step to `Arrive` or `Serve` of the lease, or to a stutter; the sweep, which frees several resources, is a step of the lease for all of them at once. What the lease promises is then proved from the lease alone: a request waits, holds or is over, for one resource only, and what is over stays over. |
| ServiceProofs | ServiceIsClaims (ImplementsClaims), CrashesAreHarmless (OneHolder, NoWaiterLost, LeaseSpec), RestartsAreHarmless (the other safety properties of claims_safety, and those of ClaimsProofs on promotions and sweeps), ServiceTypeCorrect, StoreBehindListener (ListenerHasStore), RequestsFailAtTheEnd (OnlyEndsFailRequests) | Each step of the service is one of Claims or leaves the tables alone; the end of a process is `WebhookLost` for all that was listed. So the theorems of Claims hold of the service. `ProcessInv` follows the order of Run: the listener is open only while it serves and nobody has begun the shutdown, and the store from then on until Run returns. `ServedInv` adds that requests are there only in a process that serves or has begun its shutdown: none fails before. |
| TimeTextProofs | ZonedTextClose, UTCText | Texts are ordered by the second of their wall clocks first: with zones the order is as wrong as the zones are apart, and a second; without, it is that of `TextLess`. `FirstText`: of any set of times one has the first text (naturals are well-founded, for the seconds and then for the ranks in a second). |
| MemoryProofs | TypeCorrect, WritesAtMostOnce (AtMostOnce), NoVersionIsSkipped (VersionsAdvance), FirstAttemptsAreChecked, RepliesAreStored (ReplyIsStored), MemoryIsRegister (RegisterSpec) | `Inv` adds how often a request's write was committed in each phase (`CommitsFollowReplies`: never before its end, at most once after a lost answer), and that an entry about to be inserted has a created_at (`EntryPrepared`). `EntryInv` adds what the closure has made of the entry: it is the row to be written (`EntryIsWritten`), and still the caller's before the first run (`FirstEntry`), which is just what a retry loses. With it a commit is `Write` of the register and its reply tells what it wrote; refusals and failures are `Decline`, the closure and the retries stutter (`Unseen`). |
| TasksProofs | TypeCorrect, NoteOnDoneTasks (ClosedNoteMeansDone), FinishedIsFinal (FinishedStaysFinished), RepliesHaveNotes (ReplyHasNotes), RepetitionAddsNoNotes (NoteOncePerConcurrentDelivery) | `Inv` adds what a transaction has checked of the row it has read (`WritesAccepted`): as it commits only while the task is still that row, the check is true of the task it overwrites. `ReplyInv` adds that a task has the notes which a reply under way must show, until it is deleted (`FloorHolds`); `DeliveryInv` counts: a task's closing notes and the deliveries that may still write one are no more than the goroutines (`NotesAreBounded`). |
| TasksProofs, continued | NoUpdateLost, TasksLiveRightly | From the same `Inv`: the read and the write of UpdateTask are one update of the task as it is at the commit (`CommitAccepted`), so that a PATCH which is answered with its task overwrote nobody's change; and the whole life of a task, from "open" to its deletion, moves along `ValidTransition`. |
| AgentsProofs | TypeCorrect, PresenceTells, TokenIsKnown, RelayIsTrue, WritersApart | `Inv` adds that the stored time is at most MaxLag behind the moment the agent was last heard (`HeardLately`), and so is that of every row which a reply under way has read (`ScannedLately`), from which both bounds of the presence follow; that rows are there for calls that have committed; and that the stored token was made by an onboarding of its agent, which reads it if it reads it now (`TokenMade`). |
| TodosProofs | TypeCorrect, AbsentIsGone (NotFoundMeansGone), OrderIsKept (OrderLasts), PendingStays (NoTodoLost), YoungStay (NoEarlyPrune), OldGo | `Inv` adds that sort orders are the last places in the agent's last list (`SortsArePlaces`), that the todos of a list belong to who ordered them, and that a checked todo was created. That a list has a last place for each of its ids uses that naturals are well-founded. `YoungStay` and `OldGo` bound what a sweep takes on both sides: nothing younger than the age, everything older than the age, the lag and a second. |

Only model-checked: liveness under fairness (WaitEnds, OverdueClaimEnds,
SignalEndsProcess, both RequestsEnd, ListedTasksHaveTheirTurn, FinishedTodosEnd), which is
beyond the prover. Every invariant and every action property of the passing
runs is proved. The theorems whose properties no run lists (PromotionDoesNotFail,
OneSweepIsEnough, OnlyTheGapStrands, OneTurnOnly, NoUpdateLost, TasksLiveRightly, OldGo) state them in the module of the proof.
No module has a RECURSIVE operator.

What the proofs say of the findings: the gap of claims_stranded is the only one
(`OnlyTheGapStrands`); the retries behind memory_lost show to callers in nothing
but who is refused (`MemoryIsRegister`); the second PATCH of tasks_taken loses
no update, it is one that should have been refused (`NoUpdateLost`); and
server_close, crashes apart, cuts only requests of a process that was told to
end (`RequestsFailAtTheEnd`).

## 6. Not modelled, and why

* Channels, roles, the lists and the UI: single statements on independent rows,
  or reads.
* The other handlers in the process of `Service`: memory, tasks, todos and agents
  keep nothing in it but the requests of their own modules, whose transactions
  fail or commit as a whole.
* `timing` and `log`: each is one value behind one lock that nothing else depends
  on; what is odd about them (section 4) is seen by reading.
* Authentication looks a token up; the tokens' life is in `Agents`.
* HTTP routing, JSON, HMAC, migrations, connection pools, the command line and
  the test harness: I/O without a protocol of its own.
* Backoff times of RetryTx: only that attempts are bounded matters.
* Session columns, tags, titles and priorities: carried along.
* What the sweeper does when the database is down for ever: nothing is
  promised then.

## 7. The plan

The order was: claims (the most concurrent part) with their abstract
specification; memory with the retry loop; tasks with the webhook; agents;
todos; the server; the server and the claims together, with crashes; captured
sessions. What is left:

1. `Service` with a second process that is not the same: replicas at different
   stages of a deployment, over the same tables.
2. `Agents`: the token of an onboarding compared with the one the call made;
   channels and roles.
3. `Server`: the shutdown as it would be if Run waited, as the abstract
   specification of Run.
4. Proofs about `Sessions`: what a list by `since` in UTC holds and what it
   leaves out, from `UTCText`, for every number of sessions.
