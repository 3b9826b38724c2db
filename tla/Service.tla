------------------------------ MODULE Service ------------------------------
(***************************************************************************)
(* The claim service over the life of its process: the requests and the     *)
(* sweep of Claims run in the process of Server, which is told to end, or   *)
(* dies at any moment, and is started again.  The tables survive; the       *)
(* requests under way, the sweep and what a webhook delivery has listed do  *)
(* not.                                                                     *)
(*                                                                          *)
(* Of two replicas (examples/k8s) each is such a process; one is enough     *)
(* here, as the other could only help.  A request that was cut between its  *)
(* two transactions stays "conflict" in req and never goes on.              *)
(***************************************************************************)
EXTENDS Claims

CONSTANT MaxLives  \* times the process is started again (model bound)

ASSUME ServiceAssumption == MaxLives \in Nat

VARIABLES
  cancelled, run, listening, shutdown, store,  \* as in Server
  conn,      \* the requests, as the server sees them
  sweeper,   \* runClaimExpiry
  lives      \* times the process was started again

process == <<cancelled, run, listening, shutdown, store, conn, sweeper>>

serviceVars == <<vars, process, lives>>

Sweeper == {"claims"}

S == INSTANCE Server WITH Request <- Req, req <- conn

ServiceTypeOK == TypeOK /\ S!TypeOK /\ lives \in 0 .. MaxLives
-----------------------------------------------------------------------------
(* Requests. *)

Arrive(r) ==
  /\ now <= Horizon
  /\ S!Accept(r)
  /\ UNCHANGED <<vars, lives>>

\* A transaction of the request's handler.
Handle(r) ==
  /\ conn[r] = "running" /\ store = "open"
  /\ Create(r) \/ EnqueueClaim(r) \/ FailEnqueue(r)
  /\ UNCHANGED <<process, lives>>

\* Fault: there is no reply for an error (a transaction is tried for ever).
AnswerSuccess(r) ==
  /\ req[r].pc \in {"granted", "queued"}
  /\ S!Answer(r)
  /\ UNCHANGED <<vars, lives>>

\* The reply: 201, 202 or 500; or an error before the first transaction, or of
\* it, that leaves no row.
Answer(r) ==
  /\ req[r].pc # "conflict"
  /\ S!Answer(r)
  /\ UNCHANGED <<vars, lives>>

FailAnswer(r) ==
  /\ S!FailAnswer(r)
  /\ FailEnqueue(r) \/ (req[r].pc # "conflict" /\ UNCHANGED vars)
  /\ UNCHANGED lives

\* The other endpoints and the webhook; who asks is not followed.
Others ==
  /\ store = "open"
  /\ \/ \E id \in Req, caller \in Agent \cup {Anonymous} :
          ReleaseClaim(id, caller) \/ \E d \in Duration : RenewClaim(id, caller, d)
     \/ \E res \in Resource : WebhookList(res)
     \/ \E id \in Req : WebhookRelease(id)
  /\ UNCHANGED <<process, lives>>
-----------------------------------------------------------------------------
(* runClaimExpiry. *)

SweepBegins ==
  /\ sweeper["claims"] = "waiting"
  /\ S!Sweep("claims")
  /\ UNCHANGED <<vars, lives>>

\* The transaction's context is Run's: once that is cancelled it fails, unless
\* its COMMIT was sent before.
SweepClaims ==
  /\ sweeper["claims"] = "sweeping" /\ store = "open"
  /\ S!Sweep("claims")
  /\ ExpireOldClaims
  /\ UNCHANGED lives

\* Fault: an error of the sweep ends the loop.
SweepFailsForGood ==
  /\ sweeper["claims"] = "sweeping" /\ run # "exited"
  /\ sweeper' = [sweeper EXCEPT !["claims"] = "stopped"]
  /\ UNCHANGED <<vars, lives, cancelled, run, listening, shutdown, store, conn>>

\* An error of ExpireOldClaims is logged, and the loop goes on.
SweepFails ==
  /\ sweeper["claims"] = "sweeping"
  /\ S!Sweep("claims")
  /\ UNCHANGED <<vars, lives>>

SweepStops == S!StopSweeping("claims") /\ UNCHANGED <<vars, lives>>
-----------------------------------------------------------------------------
(* The process. *)

\* Its last life is not ended: the bound on lives is one on the ends.
MayEnd == lives < MaxLives

Signal == MayEnd /\ S!Signal /\ UNCHANGED <<vars, lives>>

Start == S!Start /\ UNCHANGED <<vars, lives>>

StartFails == MayEnd /\ S!StartFails /\ UNCHANGED <<vars, lives>>

\* Fault: the listener stays open while requests are drained.
BeginShutdownListening ==
  /\ S!Alive /\ cancelled /\ run # "starting"
  /\ shutdown = "waiting"
  /\ shutdown' = "draining"
  /\ UNCHANGED <<vars, lives, cancelled, run, listening, store, conn, sweeper>>

BeginShutdown == S!BeginShutdown /\ UNCHANGED <<vars, lives>>

EndShutdown == S!EndShutdown /\ UNCHANGED <<vars, lives>>

\* Fault: Run waits for a drain that succeeds.
ListenReturnsWhenDrained ==
  shutdown = "drained" /\ S!ListenReturns /\ UNCHANGED <<vars, lives>>

\* Fault: Run returns on the signal, and leaves the shutdown to its goroutine.
ListenReturnsOnSignal ==
  /\ run = "serving" /\ cancelled
  /\ run' = "returning"
  /\ UNCHANGED <<vars, lives, cancelled, listening, shutdown, store, conn, sweeper>>

ListenReturns == S!ListenReturns /\ UNCHANGED <<vars, lives>>

CloseStore == S!CloseStore /\ UNCHANGED <<vars, lives>>

Exit ==
  /\ S!Exit
  /\ WebhookLost(hooked)
  /\ UNCHANGED lives

\* A crash: the process is killed, or a goroutine panics.
Kill ==
  /\ MayEnd /\ S!Alive
  /\ run' = "exited"
  /\ listening' = FALSE
  /\ store' = "closed"
  /\ conn' = [r \in Req |-> IF r \in S!Running THEN "cut" ELSE conn[r]]
  /\ sweeper' = [s \in Sweeper |-> "stopped"]
  /\ WebhookLost(hooked)
  /\ UNCHANGED <<cancelled, shutdown, lives>>

\* Fault: the queue is in memory.
RestartForgetsQueue ==
  /\ run = "exited"
  /\ lives' = lives + 1
  /\ cancelled' = FALSE
  /\ run' = "starting"
  /\ shutdown' = "waiting"
  /\ store' = "none"
  /\ sweeper' = [s \in Sweeper |-> "none"]
  /\ queue' = Delete(queue, DOMAIN queue)
  /\ UNCHANGED <<now, claims, req, hooked, listening, conn>>

\* The deployment starts the process again, over the same tables.
Restart ==
  /\ run = "exited"
  /\ lives' = lives + 1
  /\ cancelled' = FALSE
  /\ run' = "starting"
  /\ shutdown' = "waiting"
  /\ store' = "none"
  /\ sweeper' = [s \in Sweeper |-> "none"]
  /\ UNCHANGED <<vars, listening, conn>>
-----------------------------------------------------------------------------
ServiceInit == Init /\ S!Init /\ lives = 0

Serve(r) == Handle(r) \/ Answer(r) \/ FailAnswer(r)

ServiceNext ==
  \/ \E r \in Req : Arrive(r) \/ Serve(r)
  \/ Others
  \/ SweepBegins \/ SweepClaims \/ SweepFails \/ SweepStops
  \/ Signal \/ Start \/ StartFails
  \/ BeginShutdown \/ EndShutdown \/ ListenReturns \/ CloseStore \/ Exit
  \/ Kill \/ Restart
  \/ Tick /\ UNCHANGED <<process, lives>>

ServiceSpec == ServiceInit /\ [][ServiceNext]_serviceVars

\* Goroutines run; the process is started again; time passes.  A sweep may
\* fail, but not every time.
ServiceFairness ==
  /\ \A r \in Req : WF_serviceVars(Serve(r))
  /\ WF_serviceVars(SweepBegins)
  /\ WF_serviceVars(SweepFails)
  /\ SF_serviceVars(SweepClaims)
  /\ WF_serviceVars(Start)
  /\ WF_serviceVars(BeginShutdown)
  /\ WF_serviceVars(ListenReturns)
  /\ WF_serviceVars(CloseStore)
  /\ WF_serviceVars(Exit)
  /\ WF_serviceVars(Restart)
  /\ WF_serviceVars(Tick /\ UNCHANGED <<process, lives>>)

ServiceFairSpec == ServiceSpec /\ ServiceFairness
-----------------------------------------------------------------------------
(* Properties. *)

\* No request is let in that would find no store.
ListenerHasStore == S!ListenerHasStore

\* A request that was let in goes without an answer from the tables only if the
\* process is killed, or was told to end and has begun its shutdown: neither the
\* start, the sweeps nor the order in which Run returns takes its store away.
OnlyEndsFailRequests ==
  [][\A r \in Req :
       conn[r] = "running" /\ conn'[r] \in {"failed", "cut"}
         => Kill \/ (cancelled /\ shutdown # "waiting")]_serviceVars

\* Through crashes and restarts the tables are those of Claims: what is proved
\* of Claims holds of the service.
ImplementsClaims == Spec

\* A process that was told to end does, however long its requests and sweeps
\* take and whether the drain succeeds or times out.
SignalEndsProcess == cancelled ~> run = "exited"

\* A request that was let in is answered, fails or is cut.
RequestsEnd == \A r \in Req : conn[r] = "running" ~> conn[r] # "running"
=============================================================================
