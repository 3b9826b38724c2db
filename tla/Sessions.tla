------------------------------ MODULE Sessions ------------------------------
(***************************************************************************)
(* Captured sessions: records of agents' sessions that are inserted once    *)
(* and listed by filters.  Their own timestamps are kept as the sender      *)
(* wrote them, zone included, and compared as texts.                        *)
(*                                                                          *)
(* Transcripts, usage, paths, models and the other columns are carried      *)
(* along and never looked at; the filters by repository and by path are     *)
(* tests of one row like the one by agent.                                  *)
(***************************************************************************)
EXTENDS TimeText, FiniteSets

CONSTANTS
  Id,         \* captured_sessions.id, a UUID of each POST
  Agent,      \* values of captured_sessions.agent_id
  Any,        \* a filter that is not given
  Time,       \* the RFC 3339 timestamps that requests carry, a set of Zoned
  Unknown,    \* an absent started_at: its text is ""
  Limit,      \* values of the query parameter limit; 0 when it is absent
  Default,    \* sessions that are listed when the limit is not valid: 50
  MostListed  \* the largest valid limit: 100

VARIABLES
  sessions,  \* table captured_sessions
  reply      \* the last answer to a GET, with its filter (or none yet)

vars == <<sessions, reply>>

Session == [agent : Agent, started_at : Time \cup {Unknown}]

Filter == [agent : Agent \cup {Any}, since : Time \cup {Any}, limit : Limit]

Absent == [agent |-> "none"]

TypeOK ==
  /\ sessions \in [Id -> Session \cup {Absent}]
  /\ reply \subseteq [filter : Filter, listed : SUBSET Id]

Stored == {id \in Id : sessions[id] # Absent}

Init ==
  /\ sessions = [id \in Id |-> Absent]
  /\ reply = {}

\* POST /api/v1/sessions.  The id is chosen before RetryTx: however often the
\* INSERT is tried it makes one row at most.  The row may be there when the
\* reply is 500 (a commit whose answer is lost); a client that tries again
\* makes another.
CreateCapturedSession(id, session) ==
  /\ sessions[id] = Absent
  /\ sessions' = [sessions EXCEPT ![id] = session]
  /\ UNCHANGED reply
-----------------------------------------------------------------------------
(* GET /api/v1/sessions. *)

\* started_at >= since, on the texts; "" is less than any timestamp.
StartedSince(id, since) ==
  /\ sessions[id].started_at # Unknown
  /\ ~ZonedTextLess(sessions[id].started_at, since)

Matches(id, f) ==
  /\ f.agent \in {Any, sessions[id].agent}
  /\ f.since = Any \/ StartedSince(id, f.since)

MaxListed(limit) == IF limit \in 1 .. MostListed THEN limit ELSE Default

\* ORDER BY started_at DESC.
Later(i, j) ==
  /\ sessions[i].started_at # Unknown
  /\ \/ sessions[j].started_at = Unknown
     \/ ZonedTextLess(sessions[j].started_at, sessions[i].started_at)

\* LIMIT: the first rows of that order; which ones of rows with equal texts
\* is the database's choice.
Selections(f) ==
  LET found == {id \in Stored : Matches(id, f)}
      count == IF Cardinality(found) < MaxListed(f.limit) THEN Cardinality(found)
                                                         ELSE MaxListed(f.limit)
  IN {ids \in SUBSET found :
        /\ Cardinality(ids) = count
        /\ \A i \in found \ ids, j \in ids : ~Later(i, j)}

ListCapturedSessions(f) ==
  /\ \E ids \in Selections(f) : reply' = {[filter |-> f, listed |-> ids]}
  /\ UNCHANGED sessions

Next ==
  \/ \E id \in Id, session \in Session : CreateCapturedSession(id, session)
  \/ \E f \in Filter : ListCapturedSessions(f)

Spec == Init /\ [][Next]_vars
-----------------------------------------------------------------------------
(* Properties. *)

\* "Filter sessions started after this RFC3339 timestamp": a session that is
\* listed did not start before it.
ListedSessionsStartedSince ==
  \A r \in reply : r.filter.since # Any =>
    \A id \in r.listed : sessions[id].started_at.at >= r.filter.since.at
=============================================================================
