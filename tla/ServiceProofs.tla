---------------------------- MODULE ServiceProofs ----------------------------
(***************************************************************************)
(* The claim service through signals, crashes and restarts, for every       *)
(* number of requests and lives: its tables are those of Claims, so that    *)
(* what is proved of Claims holds of it; no request is let in by a process  *)
(* that has no store, and none fails before that process is to end.         *)
(***************************************************************************)
EXTENDS Service, ClaimsRefinement

\* What a process does follows the order of Run: the listener is open only
\* while it serves and nobody has begun to shut it down, and the store from then
\* on until Run returns.  Whatever makes a process end was allowed by the bound
\* on lives.
ProcessInv ==
  /\ S!TypeOK
  /\ lives \in 0 .. MaxLives
  /\ listening => run = "serving" /\ shutdown = "waiting"
  /\ run \in {"serving", "returning"} => store = "open"
  /\ shutdown # "waiting" => cancelled /\ run # "starting"
  /\ cancelled \/ run \notin {"starting", "serving"} => lives < MaxLives

USE ServiceAssumption
-----------------------------------------------------------------------------
LEMMA InitProcess == ServiceInit => ProcessInv
<1> SUFFICES ASSUME ServiceInit PROVE ProcessInv
  OBVIOUS
<1>1. S!TypeOK
  BY DEF ServiceInit, S!Init, S!TypeOK
<1>2. lives \in 0 .. MaxLives
  BY DEF ServiceInit
<1>3. QED  BY <1>1, <1>2 DEF ServiceInit, ProcessInv, S!Init

\* The requests, seen by the server.
LEMMA RequestSteps ==
  ASSUME ProcessInv, NEW r \in Req, S!Accept(r) \/ S!Answer(r) \/ S!FailAnswer(r),
         UNCHANGED lives
  PROVE  ProcessInv'
<1>1. S!TypeOK'
  BY DEF ProcessInv, S!TypeOK, S!Accept, S!Answer, S!FailAnswer
<1>2. UNCHANGED <<cancelled, run, listening, shutdown, store, sweeper>>
  BY DEF S!Accept, S!Answer, S!FailAnswer
<1>3. QED  BY <1>1, <1>2 DEF ProcessInv

\* The sweep.
LEMMA SweepSteps ==
  ASSUME ProcessInv, S!Sweep("claims") \/ S!StopSweeping("claims"), UNCHANGED lives
  PROVE  ProcessInv'
<1>1. S!TypeOK'
  BY DEF ProcessInv, Sweeper, S!TypeOK, S!Sweep, S!StopSweeping
<1>2. UNCHANGED <<cancelled, run, listening, shutdown, store, conn>>
  BY DEF S!Sweep, S!StopSweeping
<1>3. QED  BY <1>1, <1>2 DEF ProcessInv

LEMMA NextProcess == ProcessInv /\ [ServiceNext]_serviceVars => ProcessInv'
<1> SUFFICES ASSUME ProcessInv, [ServiceNext]_serviceVars PROVE ProcessInv'
  OBVIOUS
<1>1. CASE UNCHANGED <<process, lives>>
  BY <1>1 DEF process, ProcessInv, S!TypeOK
<1>2. ASSUME NEW r \in Req, Arrive(r) \/ Answer(r) \/ FailAnswer(r) PROVE ProcessInv'
  BY <1>2, RequestSteps DEF Arrive, Answer, FailAnswer
<1>3. CASE SweepBegins \/ SweepClaims \/ SweepFails \/ SweepStops
  BY <1>3, SweepSteps DEF SweepBegins, SweepClaims, SweepFails, SweepStops
<1>4. CASE Signal \/ Start \/ StartFails
  <2>1. S!TypeOK'
    BY <1>4 DEF Signal, Start, StartFails, S!Signal, S!Start, S!StartFails,
                ProcessInv, S!TypeOK
  <2>2. CASE Signal
    BY <2>1, <2>2 DEF Signal, MayEnd, S!Signal, ProcessInv
  <2>3. CASE Start
    BY <2>1, <2>3 DEF Start, S!Start, ProcessInv
  <2>4. CASE StartFails
    BY <2>1, <2>4 DEF StartFails, MayEnd, S!StartFails, ProcessInv
  <2>5. QED  BY <1>4, <2>2, <2>3, <2>4
<1>5. CASE BeginShutdown \/ EndShutdown \/ ListenReturns \/ CloseStore
  <2>1. S!TypeOK'
    BY <1>5 DEF BeginShutdown, EndShutdown, ListenReturns, CloseStore,
                S!BeginShutdown, S!EndShutdown, S!ListenReturns, S!CloseStore,
                ProcessInv, S!TypeOK
  <2>2. lives' = lives
    BY <1>5 DEF BeginShutdown, EndShutdown, ListenReturns, CloseStore
  <2>3. CASE BeginShutdown
    BY <2>1, <2>2, <2>3 DEF BeginShutdown, S!BeginShutdown, ProcessInv
  <2>4. CASE EndShutdown
    BY <2>1, <2>2, <2>4 DEF EndShutdown, S!EndShutdown, ProcessInv
  <2>5. CASE ListenReturns
    BY <2>1, <2>2, <2>5 DEF ListenReturns, S!ListenReturns, ProcessInv
  <2>6. CASE CloseStore
    BY <2>1, <2>2, <2>6 DEF CloseStore, S!CloseStore, ProcessInv
  <2>7. QED  BY <1>5, <2>3, <2>4, <2>5, <2>6
<1>6. CASE Exit
  <2>1. S!TypeOK'
    BY <1>6 DEF Exit, ProcessInv, S!Exit, S!TypeOK
  <2>2. QED  BY <1>6, <2>1 DEF Exit, ProcessInv, S!Exit
<1>7. CASE Kill
  <2>1. S!TypeOK'
    BY <1>7 DEF Kill, ProcessInv, S!TypeOK
  <2>2. QED  BY <1>7, <2>1 DEF Kill, MayEnd, ProcessInv
<1>8. CASE Restart
  <2>1. S!TypeOK'
    BY <1>8 DEF Restart, ProcessInv, S!TypeOK
  <2>2. lives < MaxLives /\ lives' \in 0 .. MaxLives
    BY <1>8 DEF Restart, ProcessInv
  <2>3. QED  BY <1>8, <2>1, <2>2 DEF Restart, ProcessInv
<1>9. CASE UNCHANGED serviceVars
  BY <1>1, <1>9 DEF serviceVars
<1>10. QED
  BY <1>1, <1>2, <1>3, <1>4, <1>5, <1>6, <1>7, <1>8, <1>9
  DEF ServiceNext, Serve, Handle, Others

LEMMA SpecProcess == ServiceSpec => []ProcessInv
BY InitProcess, NextProcess, PTL DEF ServiceSpec
-----------------------------------------------------------------------------
\* Each step of the service is a transaction of Claims, a webhook delivery that
\* is lost with its process, or nothing to the tables.
LEMMA ServiceSteps == [ServiceNext]_serviceVars => [Next]_vars
<1> SUFFICES ASSUME [ServiceNext]_serviceVars PROVE [Next]_vars
  OBVIOUS
<1>1. ASSUME NEW r \in Req, Handle(r) PROVE Next
  BY <1>1 DEF Handle, Next
<1>2. ASSUME NEW r \in Req, Arrive(r) \/ Answer(r) \/ FailAnswer(r) PROVE [Next]_vars
  BY <1>2 DEF Arrive, Answer, FailAnswer, Next
<1>3. CASE Others
  BY <1>3 DEF Others, Next
<1>4. CASE SweepBegins \/ SweepClaims \/ SweepFails \/ SweepStops
  BY <1>4 DEF SweepBegins, SweepClaims, SweepFails, SweepStops, Next
<1>5. CASE Signal \/ Start \/ StartFails \/ Restart
  BY <1>5 DEF Signal, Start, StartFails, Restart
<1>6. CASE BeginShutdown \/ EndShutdown \/ ListenReturns \/ CloseStore
  BY <1>6 DEF BeginShutdown, EndShutdown, ListenReturns, CloseStore
<1>7. CASE Exit \/ Kill
  <2>1. WebhookLost(hooked)
    BY <1>7 DEF Exit, Kill
  <2>2. QED  BY <2>1 DEF Next
<1>8. CASE Tick
  BY <1>8 DEF Next
<1>9. CASE UNCHANGED serviceVars
  BY <1>9 DEF serviceVars
<1>10. QED
  BY <1>1, <1>2, <1>3, <1>4, <1>5, <1>6, <1>7, <1>8, <1>9 DEF ServiceNext, Serve
-----------------------------------------------------------------------------
(* The theorems. *)

\* Through crashes, restarts and shutdowns the tables behave as in Claims.
THEOREM ServiceIsClaims == ServiceSpec => ImplementsClaims
<1>1. ServiceInit => Init
  BY DEF ServiceInit
<1>2. QED
  BY <1>1, ServiceSteps, PTL DEF ServiceSpec, ImplementsClaims, Spec

\* So no crash between two transactions, in the middle of a sweep or before a
\* reply leaves two holders of a resource, loses one who waits for it, or
\* breaks the turns.
THEOREM CrashesAreHarmless == ServiceSpec => []OneHolder /\ NoWaiterLost /\ LeaseSpec
<1>1. ServiceSpec => Spec
  BY ServiceIsClaims DEF ImplementsClaims
<1>2. QED
  BY <1>1, ClaimsAreExclusive, WaitersAreKept, TablesImplementLease

\* Nor do the lives of the process disturb the handover, its order and the
\* expiry; the first sweep of a new life clears what the last one has left.
THEOREM RestartsAreHarmless ==
  ServiceSpec => /\ HandoverAtomic /\ FirstComeFirstServed
                 /\ EndedClaimsAreInert /\ NoEarlyExpiry
                 /\ []PromotionSucceeds /\ SweepIsComplete
<1>1. ServiceSpec => Spec
  BY ServiceIsClaims DEF ImplementsClaims
<1>2. QED
  BY <1>1, HandoverIsAtomic, PromotionIsFIFO, EndedIsInert, ExpiryIsNotEarly,
     PromotionDoesNotFail, OneSweepIsEnough

\* The process, its requests and its tables keep their types in every life.
THEOREM ServiceTypeCorrect == ServiceSpec => []ServiceTypeOK
<1>1. ServiceSpec => []TypeOK
  BY ServiceIsClaims, TypeCorrect DEF ImplementsClaims
<1>2. TypeOK /\ ProcessInv => ServiceTypeOK
  BY DEF ProcessInv, ServiceTypeOK
<1>3. QED  BY <1>1, <1>2, SpecProcess, PTL

\* In every life, and however it begins and ends, requests are let in only
\* while the store is open.
THEOREM StoreBehindListener == ServiceSpec => []ListenerHasStore
<1>1. ProcessInv => ListenerHasStore
  BY DEF ProcessInv, ListenerHasStore, S!ListenerHasStore
<1>2. QED  BY <1>1, SpecProcess, PTL

-----------------------------------------------------------------------------
(* Whose fault it is when a request is not answered.                        *)

\* There are requests only in a process that serves, or did and shuts down.
RequestsAreServed ==
  run = "exited" \/ (run # "serving" /\ shutdown = "waiting") => S!Running = {}

ServedInv == ProcessInv /\ RequestsAreServed

LEMMA NextServed == ServedInv /\ [ServiceNext]_serviceVars => RequestsAreServed'
<1> SUFFICES ASSUME ServedInv, [ServiceNext]_serviceVars PROVE RequestsAreServed'
  OBVIOUS
<1>1. CASE UNCHANGED process
  BY <1>1 DEF process, ServedInv, RequestsAreServed, S!Running
<1>2. ASSUME NEW r \in Req, Arrive(r) PROVE RequestsAreServed'
  <2>1. run = "serving" /\ run' = "serving"
    BY <1>2 DEF Arrive, S!Accept, ServedInv, ProcessInv
  <2>2. QED  BY <2>1 DEF RequestsAreServed
<1>3. ASSUME NEW r \in Req, S!Answer(r) \/ S!FailAnswer(r) PROVE RequestsAreServed'
  <2>1. S!Running' \subseteq S!Running /\ UNCHANGED <<run, shutdown>>
    BY <1>3 DEF S!Answer, S!FailAnswer, S!Running, ServedInv, ProcessInv, S!TypeOK
  <2>2. QED  BY <2>1 DEF ServedInv, RequestsAreServed
<1>4. CASE S!Sweep("claims") \/ S!StopSweeping("claims") \/ S!Signal
  BY <1>4 DEF S!Sweep, S!StopSweeping, S!Signal, ServedInv, RequestsAreServed, S!Running
<1>5. CASE S!Start \/ S!StartFails
  <2>1. S!Running' = S!Running /\ shutdown' = shutdown /\ run = "starting"
    BY <1>5 DEF S!Start, S!StartFails, S!Running
  <2>2. shutdown = "waiting"
    BY <2>1 DEF ServedInv, ProcessInv, S!TypeOK
  <2>3. QED  BY <2>1, <2>2 DEF ServedInv, RequestsAreServed
<1>6. CASE S!BeginShutdown \/ S!EndShutdown \/ S!ListenReturns \/ S!CloseStore
  <2>1. S!Running' = S!Running /\ run' # "exited"
    BY <1>6 DEF S!BeginShutdown, S!EndShutdown, S!ListenReturns, S!CloseStore,
                S!Alive, S!Running
  <2>2. \/ shutdown' # "waiting"
        \/ shutdown' = shutdown /\ run = "returning"
    BY <1>6 DEF S!BeginShutdown, S!EndShutdown, S!ListenReturns, S!CloseStore
  <2>3. QED  BY <2>1, <2>2 DEF ServedInv, RequestsAreServed
<1>7. CASE S!Exit \/ Kill
  BY <1>7 DEF S!Exit, Kill, RequestsAreServed, S!Running, ServedInv, ProcessInv, S!TypeOK
<1>8. CASE Restart
  BY <1>8 DEF Restart, RequestsAreServed, S!Running, ServedInv
<1>9. QED
  BY <1>1, <1>2, <1>3, <1>4, <1>5, <1>6, <1>7, <1>8
  DEF ServiceNext, Serve, Handle, Others, Answer, FailAnswer, SweepBegins, SweepClaims,
      SweepFails, SweepStops, Signal, Start, StartFails, BeginShutdown, EndShutdown,
      ListenReturns, CloseStore, Exit, serviceVars

\* Run returns only through the shutdown once it serves, so that no store is
\* closed under a request for any other reason (server.Run).
THEOREM RequestsFailAtTheEnd == ServiceSpec => OnlyEndsFailRequests
<1> DEFINE AtTheEnd ==
      \A r \in Req :
        conn[r] = "running" /\ conn'[r] \in {"failed", "cut"}
          => Kill \/ (cancelled /\ shutdown # "waiting")
<1>1. ServiceInit => RequestsAreServed
  BY DEF ServiceInit, S!Init, RequestsAreServed, S!Running
<1>2. ServedInv /\ [ServiceNext]_serviceVars => [AtTheEnd]_serviceVars
  <2> SUFFICES ASSUME ServedInv, [ServiceNext]_serviceVars, NEW r \in Req,
                      conn[r] = "running", conn'[r] \in {"failed", "cut"}, ~Kill
               PROVE  cancelled /\ shutdown # "waiting"
    OBVIOUS
  <2>1. r \in S!Running
    BY DEF S!Running
  <2>2. ASSUME NEW q \in Req, FailAnswer(q) PROVE run \notin {"starting", "serving"} /\ store # "open"
    <3>1. store # "open"
      BY <2>2 DEF FailAnswer, S!FailAnswer
    <3>2. run # "starting"
      BY <2>1 DEF ServedInv, ProcessInv, RequestsAreServed, S!TypeOK
    <3>3. QED  BY <3>1, <3>2 DEF ServedInv, ProcessInv
  <2>3. \/ \E q \in Req : FailAnswer(q)
        \/ Exit
    <3>1. conn' # conn
      OBVIOUS
    <3>2. ASSUME NEW q \in Req, Arrive(q) \/ Answer(q) PROVE FALSE
      BY <3>2 DEF Arrive, Answer, S!Accept, S!Answer, ServedInv, ProcessInv, S!TypeOK
    <3>3. QED
      BY <3>1, <3>2
      DEF ServiceNext, Serve, Handle, Others, process, serviceVars,
          SweepBegins, SweepClaims, SweepFails, SweepStops, S!Sweep, S!StopSweeping,
          Signal, Start, StartFails, S!Signal, S!Start, S!StartFails,
          BeginShutdown, EndShutdown, ListenReturns, CloseStore,
          S!BeginShutdown, S!EndShutdown, S!ListenReturns, S!CloseStore, Restart
  <2>4. run # "serving"
    BY <2>2, <2>3 DEF Exit, S!Exit
  <2>5. shutdown # "waiting"
    BY <2>1, <2>4 DEF ServedInv, RequestsAreServed
  <2>6. QED  BY <2>5 DEF ServedInv, ProcessInv
<1>3. QED
  BY <1>1, <1>2, NextServed, SpecProcess, PTL DEF ServiceSpec, ServedInv, OnlyEndsFailRequests
=============================================================================
