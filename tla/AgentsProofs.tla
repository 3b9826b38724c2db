---------------------------- MODULE AgentsProofs ----------------------------
(***************************************************************************)
(* Proofs about Agents: types; presence is true up to the lag of the        *)
(* clocks; the stored token is known; what the relay shows was recorded;    *)
(* the writers of a row keep apart.                                         *)
(***************************************************************************)
EXTENDS Agents, TLAPS

\* The stored time is that of the last heartbeat, by a clock at most MaxLag slow.
HeardLately ==
  \A a \in Agent : Exists(a) =>
    /\ heard[a] <= now
    /\ agents[a].last_heartbeat <= heard[a]
    /\ heard[a] - MaxLag <= agents[a].last_heartbeat

\* The same of a row that was read: it has grown older, but no less true.
ScannedLately ==
  \A c \in Call : calls[c].pc = "scan" =>
    /\ calls[c].heard <= now
    /\ calls[c].row.last_heartbeat <= calls[c].heard
    /\ calls[c].heard - MaxLag <= calls[c].row.last_heartbeat

\* A call that has committed or read is about an agent that is there.
AnsweredExist ==
  \A c \in Call : calls[c].pc \in {"read", "scan", "replied"} => Exists(calls[c].agent)

\* A relay runs for a heartbeat that was answered.
RelaysReplied ==
  \A c \in relays : calls[c].pc = "replied" /\ calls[c].kind = "heartbeat"

\* The stored token was made by an onboarding of its agent, which, once it has
\* read the row, is about to tell it.
TokenMade ==
  \A a \in Agent : Exists(a) /\ agents[a].token # None =>
    LET k == agents[a].token
    IN /\ calls[k].pc # "idle" /\ calls[k].kind = "onboard" /\ calls[k].agent = a
       /\ calls[k].pc = "scan" => calls[k].row.token = k

Inv ==
  /\ TypeOK /\ HeardLately /\ ScannedLately /\ AnsweredExist /\ RelaysReplied /\ TokenMade
  /\ PresenceIsTrue /\ StoredTokenIsKnown /\ RelayedWasRecorded
-----------------------------------------------------------------------------
LEMMA InitInv == Init => Inv
<1>1. SUFFICES ASSUME Init PROVE Inv
  OBVIOUS
<1>2. TypeOK
  BY <1>1, AgentsAssumption DEF Init, TypeOK, Request
<1>3. HeardLately /\ StoredTokenIsKnown /\ TokenMade
  BY <1>1 DEF Init, HeardLately, StoredTokenIsKnown, TokenMade, Exists
<1>4. ScannedLately /\ AnsweredExist /\ RelaysReplied /\ PresenceIsTrue /\ RelayedWasRecorded
  BY <1>1 DEF Init, ScannedLately, AnsweredExist, RelaysReplied, PresenceIsTrue,
              RelayedWasRecorded
<1> QED
  BY <1>2, <1>3, <1>4 DEF Inv

LEMMA ExistsRow ==
  ASSUME TypeOK, NEW a \in Agent, Exists(a)
  PROVE  agents[a] \in Row
BY DEF TypeOK, Exists

LEMMA NewbornType ==
  ASSUME NEW s \in Status, NEW t \in Nat
  PROVE  Newborn(s, t) \in Row
BY DEF Newborn, Row

LEMMA RecordedType == ASSUME NEW s PROVE Recorded(s) \in Status
BY DEF Recorded, Status
-----------------------------------------------------------------------------
(* The steps of the calls. *)

\* The transaction of a handler writes a row.
LEMMA WriteStep ==
  ASSUME Inv, NEW c \in Call, NEW a \in Agent, NEW kind \in Writing, NEW row \in Row,
         calls[c].pc = "idle",
         Write(a, row),
         Committed(c, kind, a),
         UNCHANGED <<now, relays, claws>>,
         heard' \in [Agent -> Nat],
         \A b \in Agent : b # a => heard'[b] = heard[b],
         heard'[a] <= now /\ row.last_heartbeat <= heard'[a]
           /\ heard'[a] - MaxLag <= row.last_heartbeat,
         \/ kind = "onboard" /\ row.token = c
         \/ Exists(a) /\ row.token = agents[a].token
         \/ row.token = None
  PROVE  Inv'
<1> USE DEF Inv
<1>1. PICK pc \in {"read", "failed"} :
        calls' = [calls EXCEPT ![c] = [pc |-> pc, kind |-> kind, agent |-> a]]
  BY DEF Committed
<1>2. [pc |-> pc, kind |-> kind, agent |-> a] \in Request
  BY DEF Request
<1>3. TypeOK'
  BY <1>1, <1>2 DEF TypeOK, Write
<1>4. \A b \in Agent : agents'[b] = IF b = a THEN row ELSE agents[b]
  BY DEF TypeOK, Write
<1>5. \A d \in Call : calls'[d] = IF d = c THEN [pc |-> pc, kind |-> kind, agent |-> a]
                                           ELSE calls[d]
  BY <1>1 DEF TypeOK
<1>6. row # Absent
  BY DEF Row, Absent, Status
<1>7. \A b \in Agent : Exists(b) => Exists(b)'
  BY <1>4, <1>6 DEF Exists
<1>8. HeardLately' /\ ScannedLately'
  BY <1>4, <1>5 DEF HeardLately, ScannedLately, Exists
<1>9. AnsweredExist'
  <2>1. Exists(a)'
    BY <1>4, <1>6 DEF Exists
  <2>2. \A d \in Call : calls[d].pc \in {"read", "scan", "replied"} => calls[d].agent \in Agent
    BY DEF TypeOK, Request
  <2> QED
    BY <1>5, <1>7, <2>1, <2>2 DEF AnsweredExist
<1>10. RelaysReplied'
  BY <1>5 DEF RelaysReplied, TypeOK
<1>11. TokenMade'
  BY <1>4, <1>5, <1>6, AgentsAssumption DEF TokenMade, Exists, Row, TypeOK
<1>12. PresenceIsTrue'
  BY <1>5 DEF PresenceIsTrue
<1>13. StoredTokenIsKnown'
  <2> SUFFICES ASSUME NEW b \in Agent, Exists(b)', agents'[b].token # None
               PROVE  \/ calls'[agents'[b].token].pc \in {"read", "scan", "failed"}
                      \/ \E d \in Call : /\ calls'[d].pc = "replied"
                                         /\ calls'[d].kind = "onboard"
                                         /\ calls'[d].token = agents'[b].token
    BY DEF StoredTokenIsKnown
  <2>1. CASE agents'[b].token = c
    BY <1>5, <2>1
  <2>2. CASE agents'[b].token # c
    <3>1. Exists(b) /\ agents'[b].token = agents[b].token
      BY <1>4, <2>2 DEF Exists
    <3>2. agents[b].token \in Call
      BY <3>1, ExistsRow DEF Row
    <3> QED
      BY <1>5, <2>2, <3>1, <3>2 DEF StoredTokenIsKnown
  <2> QED
    BY <2>1, <2>2
<1>14. RelayedWasRecorded'
  <2>1. \A b \in Agent : claws[b] # None => claws[b] \in Call
    BY DEF TypeOK
  <2> QED
    BY <1>5, <1>7, <2>1 DEF RelayedWasRecorded
<1> QED
  BY <1>3, <1>8, <1>9, <1>10, <1>11, <1>12, <1>13, <1>14

\* The row is read.
LEMMA SelectStep ==
  ASSUME Inv, NEW c \in Call, NEW a \in Agent, NEW kind \in Writing \cup {"get"},
         Exists(a),
         \/ calls[c].pc = "idle" /\ kind = "get"
         \/ calls[c].pc = "read" /\ kind = calls[c].kind /\ a = calls[c].agent,
         Select(c, kind, a)
  PROVE  Inv'
<1> USE DEF Inv
<1> DEFINE scan == [pc |-> "scan", kind |-> kind, agent |-> a,
                    row |-> agents[a], heard |-> heard[a]]
<1>1. UNCHANGED <<now, agents, relays, claws, heard>>
  BY DEF Select
<1>2. \A d \in Call : calls'[d] = IF d = c THEN scan ELSE calls[d]
  BY DEF Select, TypeOK
<1>3. scan \in Request
  BY ExistsRow DEF Request, TypeOK
<1>4. TypeOK'
  BY <1>1, <1>3 DEF TypeOK, Select
<1>5. HeardLately'
  BY <1>1 DEF HeardLately, Exists
<1>6. ScannedLately'
  BY <1>1, <1>2 DEF ScannedLately, HeardLately
<1>7. AnsweredExist'
  BY <1>1, <1>2 DEF AnsweredExist, Exists
<1>8. RelaysReplied'
  BY <1>1, <1>2 DEF RelaysReplied, TypeOK
<1>9. TokenMade'
  BY <1>1, <1>2, ExistsRow DEF TokenMade, Exists, Row
<1>10. PresenceIsTrue'
  BY <1>2 DEF PresenceIsTrue
<1>11. StoredTokenIsKnown'
  BY <1>1, <1>2, ExistsRow DEF StoredTokenIsKnown, Exists, Row
<1>12. RelayedWasRecorded'
  BY <1>1, <1>2 DEF RelayedWasRecorded, TypeOK, Exists
<1> QED
  BY <1>4, <1>5, <1>6, <1>7, <1>8, <1>9, <1>10, <1>11, <1>12

\* It is judged by the reader's clock and answered.
LEMMA FinishStep == ASSUME Inv, NEW c \in Call, Finish(c) PROVE Inv'
<1> USE DEF Inv
<1>1. /\ calls[c].pc = "scan" /\ calls[c].row \in Row /\ calls[c].heard \in Nat
      /\ calls[c].kind \in Writing \cup {"get"} /\ calls[c].agent \in Agent
  BY DEF Finish, TypeOK, Request
<1>2. PICK t \in Stamp : Reply(c, t)
  BY DEF Finish
<1>3. t \in Nat /\ t <= now /\ now - MaxLag <= t /\ now \in Nat
  BY AgentsAssumption DEF Stamp, TypeOK
<1> DEFINE row == calls[c].row
           reply == [pc |-> "replied", kind |-> calls[c].kind, agent |-> calls[c].agent,
                     presence |-> Presence(row, t), token |-> row.token,
                     silence |-> now - calls[c].heard]
<1>4. UNCHANGED <<now, agents, claws, heard>>
      /\ relays' = IF calls[c].kind = "heartbeat" THEN relays \cup {c} ELSE relays
  BY DEF Finish
<1>5. \A d \in Call : calls'[d] = IF d = c THEN reply ELSE calls[d]
  BY <1>2 DEF Reply, TypeOK
<1>6. now - calls[c].heard \in Int
  BY <1>1, <1>3
<1>7. reply \in Request
  BY <1>1, <1>6 DEF Request, Row, Presence
<1>8. TypeOK'
  BY <1>2, <1>4, <1>7 DEF TypeOK, Reply
<1>9. HeardLately' /\ ScannedLately'
  BY <1>4, <1>5 DEF HeardLately, ScannedLately, Exists
<1>10. AnsweredExist'
  BY <1>1, <1>4, <1>5 DEF AnsweredExist, Exists
<1>11. RelaysReplied'
  BY <1>4, <1>5 DEF RelaysReplied, TypeOK
<1>12. TokenMade'
  BY <1>4, <1>5, ExistsRow DEF TokenMade, Exists, Row
<1>13. PresenceIsTrue'
  <2>1. row.last_heartbeat \in Nat /\ row.status # "offline"
    BY <1>1 DEF Row, Status
  <2>2. /\ row.last_heartbeat <= calls[c].heard
        /\ calls[c].heard - MaxLag <= row.last_heartbeat
    BY <1>1 DEF ScannedLately
  <2>3. IF Presence(row, t) = "offline" THEN now - calls[c].heard > Threshold - MaxLag
                                        ELSE now - calls[c].heard <= Threshold + MaxLag
    BY <1>1, <1>3, <2>1, <2>2, AgentsAssumption DEF Presence
  <2> QED
    BY <1>5, <2>3 DEF PresenceIsTrue
<1>14. StoredTokenIsKnown'
  <2> SUFFICES ASSUME NEW b \in Agent, Exists(b), agents[b].token # None
               PROVE  \/ calls'[agents[b].token].pc \in {"read", "scan", "failed"}
                      \/ \E d \in Call : /\ calls'[d].pc = "replied"
                                         /\ calls'[d].kind = "onboard"
                                         /\ calls'[d].token = agents[b].token
    BY <1>4 DEF StoredTokenIsKnown, Exists
  <2>1. agents[b].token \in Call
    BY ExistsRow DEF Row
  <2>2. CASE agents[b].token = c
    BY <1>1, <1>5, <2>1, <2>2 DEF TokenMade
  <2>3. CASE agents[b].token # c
    BY <1>1, <1>5, <2>1, <2>3 DEF StoredTokenIsKnown
  <2> QED
    BY <2>2, <2>3
<1>15. RelayedWasRecorded'
  BY <1>1, <1>4, <1>5 DEF RelayedWasRecorded, TypeOK, Exists
<1> QED
  BY <1>8, <1>9, <1>10, <1>11, <1>12, <1>13, <1>14, <1>15

\* Reading the row fails.
LEMMA FailStep == ASSUME Inv, NEW c \in Call, Fail(c) PROVE Inv'
<1> USE DEF Inv
<1> DEFINE failed == [pc |-> "failed", kind |-> calls[c].kind, agent |-> calls[c].agent]
<1>1. failed \in Request
  BY DEF Fail, TypeOK, Request
<1>2. \A d \in Call : calls'[d] = IF d = c THEN failed ELSE calls[d]
  BY DEF Fail, TypeOK
<1>3. TypeOK'
  BY <1>1 DEF Fail, TypeOK
<1>4. HeardLately' /\ ScannedLately'
  BY <1>2 DEF Fail, HeardLately, ScannedLately, Exists
<1>5. AnsweredExist'
  BY <1>2 DEF Fail, AnsweredExist, Exists
<1>6. RelaysReplied'
  BY <1>2 DEF Fail, RelaysReplied, TypeOK
<1>7. TokenMade'
  BY <1>2, ExistsRow DEF Fail, TokenMade, Exists, Row
<1>8. PresenceIsTrue'
  BY <1>2 DEF PresenceIsTrue
<1>9. StoredTokenIsKnown'
  BY <1>2, ExistsRow DEF Fail, StoredTokenIsKnown, Exists, Row
<1>10. RelayedWasRecorded'
  BY <1>2 DEF Fail, RelayedWasRecorded, TypeOK, Exists
<1> QED
  BY <1>3, <1>4, <1>5, <1>6, <1>7, <1>8, <1>9, <1>10

\* The relay and the clock.
LEMMA RelayStep ==
  ASSUME Inv, NEW c \in Call, RelayStatus(c) \/ RelayLost(c)
  PROVE  Inv'
<1> USE DEF Inv, RelayStatus, RelayLost
<1>1. UNCHANGED <<now, agents, calls, heard>>
  OBVIOUS
<1>2. calls[c].agent \in Agent
  BY DEF RelaysReplied, TypeOK, Request
<1>3. TypeOK'
  BY <1>2 DEF TypeOK
<1>4. /\ HeardLately' /\ ScannedLately' /\ AnsweredExist'
      /\ TokenMade' /\ PresenceIsTrue' /\ StoredTokenIsKnown'
  BY <1>1 DEF HeardLately, ScannedLately, AnsweredExist, TokenMade, PresenceIsTrue,
              StoredTokenIsKnown, Exists
<1>5. RelaysReplied'
  BY DEF RelaysReplied
<1>6. RelayedWasRecorded'
  BY <1>2 DEF RelayedWasRecorded, RelaysReplied, AnsweredExist, Exists, TypeOK
<1> QED
  BY <1>3, <1>4, <1>5, <1>6

LEMMA TickStep == ASSUME Inv, Tick PROVE Inv'
<1> USE DEF Inv, Tick
<1>1. TypeOK' /\ HeardLately'
  BY AgentsAssumption DEF TypeOK, HeardLately, Exists
<1>t. \A c \in Call : calls[c].pc = "scan" => calls[c].heard \in Nat
  BY DEF TypeOK, Request
<1>s. ScannedLately'
  BY <1>t DEF TypeOK, ScannedLately
<1>2. /\ AnsweredExist' /\ RelaysReplied' /\ TokenMade'
      /\ PresenceIsTrue' /\ StoredTokenIsKnown' /\ RelayedWasRecorded'
  BY DEF AnsweredExist, RelaysReplied, TokenMade, PresenceIsTrue, StoredTokenIsKnown,
         RelayedWasRecorded, Exists
<1> QED
  BY <1>1, <1>s, <1>2

LEMMA ServeStep ==
  ASSUME Inv, NEW c \in Call, NEW a \in Agent, Serve(c, a)
  PROVE  Inv'
<1> USE DEF Inv
<1>t. \A t \in Stamp : t \in Nat /\ t <= now /\ now - MaxLag <= t
  BY AgentsAssumption DEF Stamp, TypeOK
<1>1. ASSUME NEW s \in Status \cup {"offline"}, Heartbeat(c, a, s) PROVE Inv'
  <2>1. PICK t \in Stamp : Write(a, IF Exists(a) THEN Beat(agents[a], Recorded(s), t)
                                                 ELSE Newborn(Recorded(s), t))
    BY <1>1 DEF Heartbeat
  <2> DEFINE row == IF Exists(a) THEN Beat(agents[a], Recorded(s), t)
                                 ELSE Newborn(Recorded(s), t)
  <2>2. row \in Row /\ row.last_heartbeat = t
        /\ row.token = IF Exists(a) THEN agents[a].token ELSE None
    <3>1. Recorded(s) \in Status /\ t \in Nat
      BY <1>t, RecordedType
    <3>2. CASE Exists(a)
      <4>1. agents[a] \in Row /\ row = [agents[a] EXCEPT !.status = Recorded(s),
                                                       !.last_heartbeat = t]
        BY <3>2, ExistsRow DEF Beat
      <4> QED
        BY <3>1, <3>2, <4>1 DEF Row
    <3>3. CASE ~Exists(a)
      <4>1. row = Newborn(Recorded(s), t)
        BY <3>3
      <4> QED
        BY <3>1, <3>3, <4>1, NewbornType DEF Newborn
    <3> QED
      BY <3>2, <3>3
  <2>3. /\ heard' \in [Agent -> Nat] /\ \A b \in Agent : b # a => heard'[b] = heard[b]
        /\ heard'[a] = now
    BY <1>1 DEF Heartbeat, Hear, TypeOK
  <2>4. heard'[a] <= now /\ t <= heard'[a] /\ heard'[a] - MaxLag <= t
    BY <1>t, <2>3, AgentsAssumption DEF TypeOK
  <2> QED
    BY <1>1, <2>1, <2>2, <2>3, <2>4, WriteStep DEF Heartbeat, Writing
<1>2. ASSUME GenerateAgentToken(c, a) PROVE Inv'
  <2>1. PICK t \in Stamp :
          Write(a, [(IF Exists(a) THEN agents[a] ELSE Newborn("online", t))
                      EXCEPT !.token = c])
    BY <1>2 DEF GenerateAgentToken
  <2> DEFINE old == IF Exists(a) THEN agents[a] ELSE Newborn("online", t)
  <2> DEFINE row == [old EXCEPT !.token = c]
  <2>2. old \in Row
    BY <1>t, NewbornType, ExistsRow DEF Status
  <2>3. row \in Row /\ row.token = c /\ row.last_heartbeat = old.last_heartbeat
    BY <2>2 DEF Row
  <2>4. /\ heard' \in [Agent -> Nat] /\ \A b \in Agent : b # a => heard'[b] = heard[b]
        /\ heard'[a] = IF Exists(a) THEN heard[a] ELSE now
    BY <1>2 DEF GenerateAgentToken, Hear, TypeOK
  <2>5. heard'[a] <= now /\ old.last_heartbeat <= heard'[a]
        /\ heard'[a] - MaxLag <= old.last_heartbeat
    BY <1>t, <2>4, AgentsAssumption DEF HeardLately, TypeOK, Newborn
  <2> QED
    BY <1>2, <2>1, <2>3, <2>4, <2>5, WriteStep DEF GenerateAgentToken, Writing
<1>3. ASSUME UpsertAgentMeta(c, a) PROVE Inv'
  <2> DEFINE row == [agents[a] EXCEPT !.meta = c]
  <2>1. Exists(a) /\ Write(a, row) /\ heard' = heard
    BY <1>3 DEF UpsertAgentMeta
  <2>2. row \in Row /\ row.token = agents[a].token
        /\ row.last_heartbeat = agents[a].last_heartbeat
    BY <2>1, ExistsRow DEF Row
  <2>3. heard' \in [Agent -> Nat] /\ \A b \in Agent : b # a => heard'[b] = heard[b]
    BY <2>1 DEF TypeOK
  <2>4. heard'[a] <= now /\ row.last_heartbeat <= heard'[a]
        /\ heard'[a] - MaxLag <= row.last_heartbeat
    BY <2>1, <2>2 DEF HeardLately
  <2> QED
    BY <1>3, <2>1, <2>2, <2>3, <2>4, WriteStep DEF UpsertAgentMeta, Writing
<1>4. ASSUME Get(c, a) PROVE Inv'
  BY <1>4, SelectStep DEF Get
<1> QED
  BY <1>1, <1>2, <1>3, <1>4 DEF Serve

LEMMA GetAgentStep == ASSUME Inv, NEW c \in Call, GetAgent(c) PROVE Inv'
<1>1. calls[c].kind \in Writing /\ calls[c].agent \in Agent /\ Exists(calls[c].agent)
  BY DEF GetAgent, Inv, TypeOK, Request, AnsweredExist
<1> QED
  BY <1>1, SelectStep DEF GetAgent

LEMMA NextInv == Inv /\ [Next]_vars => Inv'
<1> SUFFICES ASSUME Inv, [Next]_vars PROVE Inv'
  OBVIOUS
<1>1. CASE \E c \in Call, a \in Agent : Serve(c, a)
  BY <1>1, ServeStep
<1>2. CASE \E c \in Call : \/ GetAgent(c) \/ Finish(c) \/ Fail(c)
                          \/ RelayStatus(c) \/ RelayLost(c)
  BY <1>2, GetAgentStep, FinishStep, FailStep, RelayStep
<1>3. CASE Tick
  BY <1>3, TickStep
<1>4. CASE UNCHANGED vars
  BY <1>4 DEF vars, Inv, TypeOK, HeardLately, ScannedLately, AnsweredExist, RelaysReplied, TokenMade,
              PresenceIsTrue, StoredTokenIsKnown, RelayedWasRecorded, Exists
<1> QED
  BY <1>1, <1>2, <1>3, <1>4 DEF Next
-----------------------------------------------------------------------------
\* Agents, calls and relays keep their types, whatever the numbers of agents
\* and calls, the threshold and the lag (Heartbeat, GenerateAgentToken, ...).
THEOREM TypeCorrect == Spec => []TypeOK
<1>1. Inv => TypeOK
  BY DEF Inv
<1> QED
  BY InitInv, NextInv, <1>1, PTL DEF Spec

\* Who is shown offline (finishAgentScan) was silent for the threshold less the
\* lag, although heartbeats may overtake each other; who is shown otherwise was
\* heard within the threshold and the lag, although the reader's clock and the
\* writer's differ and the row is older than the judgement.
THEOREM PresenceTells == Spec => []PresenceIsTrue
<1>1. Inv => PresenceIsTrue
  BY DEF Inv
<1> QED
  BY InitInv, NextInv, <1>1, PTL DEF Spec

\* Concurrent onboardings (GenerateAgentToken) do not lock an agent out.
THEOREM TokenIsKnown == Spec => []StoredTokenIsKnown
<1>1. Inv => StoredTokenIsKnown
  BY DEF Inv
<1> QED
  BY InitInv, NextInv, <1>1, PTL DEF Spec

\* The relay (agentHeartbeat's goroutine) shows recorded heartbeats only.
THEOREM RelayIsTrue == Spec => []RelayedWasRecorded
<1>1. Inv => RelayedWasRecorded
  BY DEF Inv
<1> QED
  BY InitInv, NextInv, <1>1, PTL DEF Spec

\* The heartbeat, the onboarding and the metadata PUT write columns of their
\* own (ON CONFLICT DO UPDATE, UPDATE agents SET): none disturbs another's.
THEOREM WritersApart == Spec => WritersKeepApart
<1> DEFINE Apart ==
      \A a \in Agent : Exists(a) =>
        LET old == agents[a]
            new == agents'[a]
            presence == old.status # new.status \/ old.last_heartbeat # new.last_heartbeat
        IN /\ new # Absent /\ new.registered_at = old.registered_at
           /\ presence => new.token = old.token /\ new.meta = old.meta
           /\ new.token # old.token => new.meta = old.meta
<1>1. ASSUME Inv, Next PROVE Apart
  <2> SUFFICES ASSUME NEW a \in Agent, Exists(a)
               PROVE  LET old == agents[a]
                          new == agents'[a]
                          presence == \/ old.status # new.status
                                      \/ old.last_heartbeat # new.last_heartbeat
                      IN /\ new # Absent /\ new.registered_at = old.registered_at
                         /\ presence => new.token = old.token /\ new.meta = old.meta
                         /\ new.token # old.token => new.meta = old.meta
    OBVIOUS
  <2>1. agents[a] \in Row /\ agents[a] # Absent
    BY <1>1, ExistsRow DEF Inv, Exists
  <2>2. agents \in [Agent -> Row \cup {Absent}]
    BY <1>1 DEF Inv, TypeOK
  <2>3. CASE agents'[a] = agents[a]
    BY <2>1, <2>3
  <2>4. ASSUME NEW c \in Call, NEW s \in Status \cup {"offline"}, Heartbeat(c, a, s)
        PROVE  \E t \in Stamp : agents'[a] = [agents[a] EXCEPT !.status = Recorded(s),
                                                             !.last_heartbeat = t]
    BY <2>2, <2>4 DEF Heartbeat, Write, Beat
  <2>5. ASSUME NEW c \in Call, GenerateAgentToken(c, a)
        PROVE  agents'[a] = [agents[a] EXCEPT !.token = c]
    BY <2>2, <2>5 DEF GenerateAgentToken, Write
  <2>6. ASSUME NEW c \in Call, UpsertAgentMeta(c, a)
        PROVE  agents'[a] = [agents[a] EXCEPT !.meta = c]
    BY <2>2, <2>6 DEF UpsertAgentMeta, Write
  <2>7. CASE \E c \in Call : Serve(c, a)
    <3>1. PICK c \in Call : Serve(c, a)
      BY <2>7
    <3>2. CASE \E s \in Status \cup {"offline"} : Heartbeat(c, a, s)
      <4>1. PICK s \in Status, t \in Stamp :
              agents'[a] = [agents[a] EXCEPT !.status = s, !.last_heartbeat = t]
        BY <2>4, <3>2, RecordedType
      <4> QED
        BY <2>1, <4>1 DEF Row, Absent, Status
    <3>3. CASE GenerateAgentToken(c, a)
      BY <2>1, <2>5, <3>3 DEF Row, Absent
    <3>4. CASE UpsertAgentMeta(c, a)
      BY <2>1, <2>6, <3>4 DEF Row, Absent
    <3>5. CASE Get(c, a)
      BY <2>3, <3>5 DEF Get, Select
    <3> QED
      BY <3>1, <3>2, <3>3, <3>4, <3>5 DEF Serve
  <2>8. ASSUME NEW c \in Call, NEW b \in Agent, b # a, Serve(c, b)
        PROVE  agents'[a] = agents[a]
    BY <2>2, <2>8 DEF Serve, Heartbeat, GenerateAgentToken, UpsertAgentMeta, Get, Select, Write
  <2>9. CASE UNCHANGED agents
    BY <2>3, <2>9
  <2> QED
    BY <1>1, <2>3, <2>7, <2>8, <2>9
       DEF Next, GetAgent, Select, Finish, Fail, RelayStatus, RelayLost, Tick
<1>2. ASSUME Inv, [Next]_vars PROVE [Apart]_vars
  BY <1>1, <1>2
<1> QED
  BY InitInv, NextInv, <1>2, PTL DEF Spec, WritersKeepApart
=============================================================================
