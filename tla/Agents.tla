------------------------------- MODULE Agents -------------------------------
(***************************************************************************)
(* The agents table, which three handlers write: the heartbeat (presence),  *)
(* the onboarding (token) and the discovery PUT (metadata), and the relay   *)
(* of heartbeats to only-claws.                                             *)
(*                                                                          *)
(* Each handler is three steps: its transaction commits; the row is read    *)
(* again for the reply, whoever wrote it by then; and what was read is      *)
(* judged by the clock of the server that read it.  A transaction that      *)
(* fails changes nothing.  Agents are never deleted.                        *)
(*                                                                          *)
(* Tokens and metadata are the calls that made them; names, activities,     *)
(* capabilities and versions are carried along and never looked at.  Times  *)
(* are stored as texts and parsed again, never compared as texts.           *)
(***************************************************************************)
EXTENDS Integers

CONSTANTS
  Call,       \* the requests; each is made once
  Agent,      \* agent ids
  Threshold,  \* offlineThreshold, in ticks
  MaxLag,     \* age in ticks of a process's time.Now() when it is used
  MaxTime,    \* last tick of the clock (model bound)
  None        \* no token, no metadata; not a call

ASSUME AgentsAssumption ==
  /\ Threshold \in Nat /\ MaxLag \in Nat /\ MaxTime \in Nat
  /\ None \notin Call

VARIABLES
  now,     \* the wall clock
  agents,  \* table agents
  calls,   \* the requests
  relays,  \* the heartbeats whose relay goroutine runs
  claws,   \* only-claws: the heartbeat whose status it shows for each agent
  heard    \* history: when the agent's last heartbeat (or its birth) was recorded

vars == <<now, agents, calls, relays, claws, heard>>

\* The statuses of a heartbeat: AgentStatusOffline is shown but never stored.
Status == {"online", "idle"}

Row ==
  [status : Status, last_heartbeat : Nat, registered_at : Nat,
   token : Call \cup {None}, meta : Call \cup {None}]

Absent == [status |-> "absent"]

Writing == {"heartbeat", "onboard", "meta"}

\* read: committed, the row is to be read; scan: it was read, and heard is
\* history: the last heartbeat by then; failed: 500 or no reply, though the
\* commit may have been made; silence is history: the time since that heartbeat.
Request ==
  [pc : {"idle"}]
    \cup [pc : {"read"}, kind : Writing, agent : Agent]
    \cup [pc : {"scan"}, kind : Writing \cup {"get"}, agent : Agent, row : Row, heard : Nat]
    \cup [pc : {"failed"}, kind : Writing \cup {"get"}, agent : Agent]
    \cup [pc : {"replied"}, kind : Writing \cup {"get"}, agent : Agent,
          presence : Status \cup {"offline"}, token : Call \cup {None}, silence : Int]

TypeOK ==
  /\ now \in 0 .. MaxTime
  /\ agents \in [Agent -> Row \cup {Absent}]
  /\ calls \in [Call -> Request]
  /\ relays \subseteq Call
  /\ claws \in [Agent -> Call \cup {None}]
  /\ heard \in [Agent -> Nat]
-----------------------------------------------------------------------------
Exists(a) == agents[a] # Absent

\* What time.Now() or time.Since may say: the servers' clocks differ.
Stamp == {t \in 0 .. now : now - t <= MaxLag}

Newborn(s, t) ==
  [status |-> s, last_heartbeat |-> t, registered_at |-> t, token |-> None, meta |-> None]

\* The answer of the commit may be lost: the reply is then 500.
Committed(c, kind, a) ==
  \E pc \in {"read", "failed"} :
    calls' = [calls EXCEPT ![c] = [pc |-> pc, kind |-> kind, agent |-> a]]

Write(a, row) == agents' = [agents EXCEPT ![a] = row]

Hear(a) == heard' = [heard EXCEPT ![a] = now]

\* Fault: the status is taken as the agent sends it.
RecordedAsAsked(s) == s

\* agentHeartbeat: any other status is an agent that is online.
Recorded(s) == IF s \in Status THEN s ELSE "online"

\* Faults: the row is replaced; the heartbeat's time is not written.
BeatReplacing(row, s, t) ==
  [Newborn(s, t) EXCEPT !.registered_at = row.registered_at]

BeatTimeKept(row, s, t) == [row EXCEPT !.status = s]

\* ON CONFLICT (id) DO UPDATE.
Beat(row, s, t) == [row EXCEPT !.status = s, !.last_heartbeat = t]

\* The clock is read before the transaction: of two heartbeats that overtake
\* each other, the older time stays.
Heartbeat(c, a, s) ==
  /\ calls[c].pc = "idle"
  /\ \E t \in Stamp :
       Write(a, IF Exists(a) THEN Beat(agents[a], Recorded(s), t)
                             ELSE Newborn(Recorded(s), t))
  /\ Hear(a)
  /\ Committed(c, "heartbeat", a)
  /\ UNCHANGED <<now, relays, claws>>

GenerateAgentToken(c, a) ==
  /\ calls[c].pc = "idle"
  /\ \E t \in Stamp :
       Write(a, [(IF Exists(a) THEN agents[a] ELSE Newborn("online", t))
                   EXCEPT !.token = c])
  /\ IF Exists(a) THEN UNCHANGED heard ELSE Hear(a)
  /\ Committed(c, "onboard", a)
  /\ UNCHANGED <<now, relays, claws>>

\* An UPDATE: an agent that is not there is answered 404, and not made.
UpsertAgentMeta(c, a) ==
  /\ calls[c].pc = "idle"
  /\ Exists(a)
  /\ Write(a, [agents[a] EXCEPT !.meta = c])
  /\ Committed(c, "meta", a)
  /\ UNCHANGED <<now, relays, claws, heard>>
-----------------------------------------------------------------------------
(* GetAgent, GetDiscoveryAgent and the replies. *)

\* The SELECT.
Select(c, kind, a) ==
  /\ calls' = [calls EXCEPT ![c] = [pc |-> "scan", kind |-> kind, agent |-> a,
                                   row |-> agents[a], heard |-> heard[a]]]
  /\ UNCHANGED <<now, agents, relays, claws, heard>>

\* GET /api/v1/agents/{id}, the lists, and the same under discovery.
Get(c, a) ==
  /\ calls[c].pc = "idle"
  /\ Exists(a)
  /\ Select(c, "get", a)

\* The same after a transaction of the handler's own.
GetAgent(c) ==
  /\ calls[c].pc = "read"
  /\ Select(c, calls[c].kind, calls[c].agent)

\* At the time t of the reader: the row may be older than that.
Presence(row, t) ==
  IF t - row.last_heartbeat > Threshold THEN "offline" ELSE row.status

\* Fault: the SELECT leaves the token out.
ReplyNoToken(c, t) ==
  calls' = [calls EXCEPT ![c] =
              [pc |-> "replied", kind |-> @.kind, agent |-> @.agent,
               presence |-> Presence(@.row, t), token |-> None, silence |-> now - @.heard]]

Reply(c, t) ==
  calls' = [calls EXCEPT ![c] =
              [pc |-> "replied", kind |-> @.kind, agent |-> @.agent,
               presence |-> Presence(@.row, t), token |-> @.row.token,
               silence |-> now - @.heard]]

\* finishAgentScan and the end of a handler.  A heartbeat goes on in a
\* goroutine of its own.
Finish(c) ==
  /\ calls[c].pc = "scan"
  /\ \E t \in Stamp : Reply(c, t)
  /\ relays' = IF calls[c].kind = "heartbeat" THEN relays \cup {c} ELSE relays
  /\ UNCHANGED <<now, agents, claws, heard>>

\* Fault: the goroutine is started before the error is looked at.
FailRelayed(c) ==
  /\ calls[c].pc \in {"idle", "read", "scan"}
  /\ \E a \in Agent :
       calls' = [calls EXCEPT ![c] = [pc |-> "failed", kind |-> "heartbeat", agent |-> a]]
  /\ relays' = relays \cup {c}
  /\ UNCHANGED <<now, agents, claws, heard>>

\* Reading the row fails, or the server dies: 500, or no reply.
Fail(c) ==
  /\ calls[c].pc \in {"read", "scan"}
  /\ calls' = [calls EXCEPT ![c] =
                 [pc |-> "failed", kind |-> calls[c].kind, agent |-> calls[c].agent]]
  /\ UNCHANGED <<now, agents, relays, claws, heard>>
-----------------------------------------------------------------------------
(* relay.Client.UpdateStatus: goroutines without an order between them; an  *)
(* error or a timeout is logged and the status is lost.                     *)

RelayStatus(c) ==
  /\ c \in relays
  /\ relays' = relays \ {c}
  /\ claws' = [claws EXCEPT ![calls[c].agent] = c]
  /\ UNCHANGED <<now, agents, calls, heard>>

RelayLost(c) ==
  /\ c \in relays
  /\ relays' = relays \ {c}
  /\ UNCHANGED <<now, agents, calls, claws, heard>>

Tick ==
  /\ now < MaxTime
  /\ now' = now + 1
  /\ UNCHANGED <<agents, calls, relays, claws, heard>>
-----------------------------------------------------------------------------
Init ==
  /\ now = 0
  /\ agents = [a \in Agent |-> Absent]
  /\ calls = [c \in Call |-> [pc |-> "idle"]]
  /\ relays = {}
  /\ claws = [a \in Agent |-> None]
  /\ heard = [a \in Agent |-> 0]

Serve(c, a) ==
  \/ \E s \in Status \cup {"offline"} : Heartbeat(c, a, s)
  \/ GenerateAgentToken(c, a) \/ UpsertAgentMeta(c, a) \/ Get(c, a)

Next ==
  \/ \E c \in Call, a \in Agent : Serve(c, a)
  \/ \E c \in Call : GetAgent(c) \/ Finish(c) \/ Fail(c) \/ RelayStatus(c) \/ RelayLost(c)
  \/ Tick

Spec == Init /\ [][Next]_vars
-----------------------------------------------------------------------------
(* Properties. *)

\* Presence is true up to what the clocks of the servers differ, the writer's
\* and the reader's, however long the reader held the row and however the
\* heartbeats overtook each other: who is shown offline had been silent for
\* nearly the threshold, and who is shown online or idle was heard not much
\* longer ago than it.  Heard means recorded before the row was read.
PresenceIsTrue ==
  \A c \in Call : calls[c].pc = "replied" =>
    IF calls[c].presence = "offline" THEN calls[c].silence > Threshold - MaxLag
                                     ELSE calls[c].silence <= Threshold + MaxLag

\* No agent is locked out: the stored token was told to somebody, or is about
\* to be, or the reply to the onboarding that made it was an error.
StoredTokenIsKnown ==
  \A a \in Agent : Exists(a) /\ agents[a].token # None =>
    \/ calls[agents[a].token].pc \in {"read", "scan", "failed"}
    \/ \E c \in Call : /\ calls[c].pc = "replied" /\ calls[c].kind = "onboard"
                       /\ calls[c].token = agents[a].token

\* The writers of the row do not disturb each other: a step changes the
\* presence, the token or the metadata of an agent that was there, never two
\* of them, and never its registration.
WritersKeepApart ==
  [][\A a \in Agent : Exists(a) =>
       LET old == agents[a]
           new == agents'[a]
           presence == old.status # new.status \/ old.last_heartbeat # new.last_heartbeat
       IN /\ new # Absent /\ new.registered_at = old.registered_at
          /\ presence => new.token = old.token /\ new.meta = old.meta
          /\ new.token # old.token => new.meta = old.meta]_vars

\* What only-claws shows of an agent was recorded here and acknowledged.
RelayedWasRecorded ==
  \A a \in Agent : claws[a] # None =>
    /\ Exists(a)
    /\ calls[claws[a]].pc = "replied"
    /\ calls[claws[a]].kind = "heartbeat" /\ calls[claws[a]].agent = a
=============================================================================
