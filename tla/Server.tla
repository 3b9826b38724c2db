------------------------------- MODULE Server -------------------------------
(***************************************************************************)
(* The life of the process: Server.Run with its background goroutines (the  *)
(* two sweepers and the one that shuts the HTTP server down), the requests  *)
(* under way, the deferred store.Close and the return of main, which ends   *)
(* every goroutine that is left.                                            *)
(*                                                                          *)
(* What a request or a sweep does to the tables is left to the other        *)
(* modules: here it runs, and its queries fail once the store is closed.    *)
(***************************************************************************)
CONSTANTS
  Request,  \* the HTTP requests that arrive
  Sweeper   \* runClaimExpiry and runTodoPrune

VARIABLES
  cancelled,  \* ctx: SIGINT or SIGTERM has come
  run,        \* where Server.Run and main are
  listening,  \* the listener accepts requests
  shutdown,   \* the goroutine that calls srv.Shutdown
  store,      \* the database handle
  req,        \* the requests
  sweeper     \* the sweepers' goroutines

vars == <<cancelled, run, listening, shutdown, store, req, sweeper>>

\* cut: the process ended before the reply; failed: 500, for lack of a store.
TypeOK ==
  /\ cancelled \in BOOLEAN
  /\ run \in {"starting", "serving", "returning", "closed", "exited"}
  /\ listening \in BOOLEAN
  /\ shutdown \in {"waiting", "draining", "drained", "timed out"}
  /\ store \in {"none", "open", "closed"}
  /\ req \in [Request -> {"idle", "running", "answered", "failed", "cut"}]
  /\ sweeper \in [Sweeper -> {"none", "waiting", "sweeping", "stopped"}]
-----------------------------------------------------------------------------
Init ==
  /\ cancelled = FALSE
  /\ run = "starting"
  /\ listening = FALSE
  /\ shutdown = "waiting"
  /\ store = "none"
  /\ req = [r \in Request |-> "idle"]
  /\ sweeper = [s \in Sweeper |-> "none"]

Alive == run # "exited"

Running == {r \in Request : req[r] = "running"}

Signal ==
  /\ ~cancelled
  /\ cancelled' = TRUE
  /\ UNCHANGED <<run, listening, shutdown, store, req, sweeper>>

\* store.New, the goroutines, ListenAndServe.
Start ==
  /\ run = "starting"
  /\ run' = "serving"
  /\ store' = "open"
  /\ sweeper' = [s \in Sweeper |-> "waiting"]
  /\ listening' = TRUE
  /\ UNCHANGED <<cancelled, shutdown, req>>

\* store.New fails, or ListenAndServe cannot bind its address.
StartFails ==
  /\ run = "starting"
  /\ \/ run' = "closed" /\ UNCHANGED <<store, sweeper>>
     \/ /\ run' = "returning"
        /\ store' = "open"
        /\ sweeper' = [s \in Sweeper |-> "waiting"]
  /\ UNCHANGED <<cancelled, listening, shutdown, req>>

Accept(r) ==
  /\ Alive /\ listening
  /\ req[r] = "idle"
  /\ req' = [req EXCEPT ![r] = "running"]
  /\ UNCHANGED <<cancelled, run, listening, shutdown, store, sweeper>>

\* Its queries were made, if need be before the store was closed.
Answer(r) ==
  /\ Alive
  /\ req[r] = "running"
  /\ req' = [req EXCEPT ![r] = "answered"]
  /\ UNCHANGED <<cancelled, run, listening, shutdown, store, sweeper>>

\* A query finds the store closed.
FailAnswer(r) ==
  /\ Alive /\ store # "open"
  /\ req[r] = "running"
  /\ req' = [req EXCEPT ![r] = "failed"]
  /\ UNCHANGED <<cancelled, run, listening, shutdown, store, sweeper>>

\* A tick and a cancelled context may both be ready: the select takes either.
Sweep(s) ==
  /\ Alive
  /\ \/ sweeper[s] = "waiting" /\ sweeper' = [sweeper EXCEPT ![s] = "sweeping"]
     \/ sweeper[s] = "sweeping" /\ sweeper' = [sweeper EXCEPT ![s] = "waiting"]
  /\ UNCHANGED <<cancelled, run, listening, shutdown, store, req>>

StopSweeping(s) ==
  /\ Alive /\ cancelled
  /\ sweeper[s] = "waiting"
  /\ sweeper' = [sweeper EXCEPT ![s] = "stopped"]
  /\ UNCHANGED <<cancelled, run, listening, shutdown, store, req>>
-----------------------------------------------------------------------------
(* The shutdown. *)

\* srv.Shutdown closes the listener first, then waits for the requests.
BeginShutdown ==
  /\ Alive /\ cancelled /\ run # "starting"
  /\ shutdown = "waiting"
  /\ shutdown' = "draining"
  /\ listening' = FALSE
  /\ UNCHANGED <<cancelled, run, store, req, sweeper>>

\* All requests are answered, or ten seconds have passed.
EndShutdown ==
  /\ Alive
  /\ shutdown = "draining"
  /\ \/ Running = {} /\ shutdown' = "drained"
     \/ shutdown' = "timed out"
  /\ UNCHANGED <<cancelled, run, listening, store, req, sweeper>>

\* ListenAndServe returns ErrServerClosed as soon as Shutdown has been called,
\* and Run returns.  An error of a listener that nobody has closed is left out.
ListenReturns ==
  /\ run = "serving"
  /\ shutdown # "waiting"
  /\ run' = "returning"
  /\ UNCHANGED <<cancelled, listening, shutdown, store, req, sweeper>>

\* The deferred store.Close.
CloseStore ==
  /\ run = "returning"
  /\ run' = "closed"
  /\ store' = "closed"
  /\ UNCHANGED <<cancelled, listening, shutdown, req, sweeper>>

Exit ==
  /\ run = "closed"
  /\ run' = "exited"
  /\ req' = [r \in Request |-> IF r \in Running THEN "cut" ELSE req[r]]
  /\ sweeper' = [s \in Sweeper |-> "stopped"]
  /\ listening' = FALSE
  /\ UNCHANGED <<cancelled, shutdown, store>>

Next ==
  \/ Signal \/ Start \/ StartFails
  \/ \E r \in Request : Accept(r) \/ Answer(r) \/ FailAnswer(r)
  \/ \E s \in Sweeper : Sweep(s) \/ StopSweeping(s)
  \/ BeginShutdown \/ EndShutdown \/ ListenReturns \/ CloseStore \/ Exit

Spec == Init /\ [][Next]_vars
-----------------------------------------------------------------------------
(* Properties. *)

\* No request is let in that would find no store: the listener is opened after
\* the store and, on every path, closed before it.
ListenerHasStore == listening => store = "open"

\* "It handles ... graceful shutdown": a request that was accepted is answered
\* from the tables, unless the drain has timed out before.
ShutdownIsGraceful ==
  \A r \in Request : req[r] \in {"failed", "cut"} => shutdown = "timed out"
=============================================================================
