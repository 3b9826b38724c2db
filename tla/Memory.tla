------------------------------- MODULE Memory -------------------------------
(***************************************************************************)
(* The versioned key-value memory, with the retry loop of RetryTx written   *)
(* out: UpsertMemory's closure writes the caller's entry (its Version and   *)
(* CreatedAt), and RetryTx may run the closure again.                       *)
(*                                                                          *)
(* One attempt is two actions: the closure reads the row and prepares its   *)
(* write, the commit makes it if the row is still the one that was read.    *)
(* That is what SERIALIZABLE gives; otherwise the database answers 40001.   *)
(* Values are the requests that wrote them; tags, agents, session columns   *)
(* and updated_at are carried along.                                        *)
(***************************************************************************)
EXTENDS Integers

CONSTANTS
  Req,         \* the POST /api/v1/memory requests; each is made once
  Key,
  MaxRetries,  \* maxRetries of RetryTx
  MaxAsked,    \* largest version a caller sends (model bound)
  NoReq        \* not a request: no value, or the zero CreatedAt

ASSUME MemoryAssumption ==
  /\ NoReq \notin Req
  /\ MaxRetries \in Nat
  /\ MaxAsked \in Nat

VARIABLES
  memory,      \* table memory: the row of each key, or Absent
  req,         \* the requests: the entry they carry, and RetryTx's loop
  commits      \* history: how often each request's write was committed

vars == <<memory, req, commits>>

Absent == [version |-> 0, value |-> NoReq, created |-> NoReq]

Row == [version : Nat \ {0}, value : Req, created : Req] \cup {Absent}

\* asked is the version the caller sent; version and created are the fields
\* of the entry in memory; row is what the attempt has read.  "ok" is the
\* reply 200, "conflict" 409 and "failed" 500 (or no reply).
Request ==
  [pc : {"idle"}]
    \cup [pc : {"run", "commit", "ok", "conflict", "failed"}, key : Key,
          asked : 0 .. MaxAsked, version : Nat, created : Req \cup {NoReq},
          attempt : 0 .. MaxRetries, row : Row]

TypeOK ==
  /\ memory \in [Key -> Row]
  /\ req \in [Req -> Request]
  /\ commits \in [Req -> Nat]
-----------------------------------------------------------------------------
Init ==
  /\ memory = [k \in Key |-> Absent]
  /\ req = [r \in Req |-> [pc |-> "idle"]]
  /\ commits = [r \in Req |-> 0]

\* memoryUpsert builds the entry and calls UpsertMemory.
Begin(r, k, v) ==
  /\ req[r].pc = "idle"
  /\ req' = [req EXCEPT ![r] =
               [pc |-> "run", key |-> k, asked |-> v, version |-> v,
                created |-> NoReq, attempt |-> 0, row |-> Absent]]
  /\ UNCHANGED <<memory, commits>>

\* Fault: the closure does not write the new version to the entry.
PrepareVersionKept(r, version, created) ==
  req' = [req EXCEPT ![r].pc = "commit", ![r].row = memory[req[r].key],
                     ![r].created = created]

\* The closure's SELECT, and the entry's fields after its write.
Prepare(r, version, created) ==
  req' = [req EXCEPT ![r].pc = "commit", ![r].row = memory[req[r].key],
                     ![r].version = version, ![r].created = created]

\* No row: INSERT with version 1, whatever version was asked for.
PrepareInsert(r) ==
  /\ req[r].pc = "run"
  /\ memory[req[r].key] = Absent
  /\ Prepare(r, 1, IF req[r].created = NoReq THEN r ELSE req[r].created)
  /\ UNCHANGED <<memory, commits>>

\* Fault: no check.
VersionUnchecked(r) == TRUE

\* The optimistic check compares the row with entry.Version, which an earlier
\* attempt may have overwritten.
VersionMatches(r) == req[r].version \in {0, memory[req[r].key].version}

PrepareUpdate(r) ==
  /\ req[r].pc = "run"
  /\ memory[req[r].key] # Absent
  /\ VersionMatches(r)
  /\ Prepare(r, memory[req[r].key].version + 1, memory[req[r].key].created)
  /\ UNCHANGED <<memory, commits>>

\* ErrConflict is not retried.
Refuse(r) ==
  /\ req[r].pc = "run"
  /\ memory[req[r].key] # Absent
  /\ ~VersionMatches(r)
  /\ req' = [req EXCEPT ![r].pc = "conflict"]
  /\ UNCHANGED <<memory, commits>>
-----------------------------------------------------------------------------
(* RetryTx. *)

\* Fault: an isolation level that lets the row change under the transaction.
NotSerializable(r) == TRUE

\* The row the write depends on has not changed since it was read.
Serializable(r) == memory[req[r].key] = req[r].row

\* Fault: the UPDATE writes created_at, too.
WrittenAnew(r) == [version |-> req[r].row.version + 1, value |-> r, created |-> r]

\* INSERT with version 1 and the entry's created_at, or UPDATE with
\* version = version + 1.
Written(r) ==
  [version |-> req[r].row.version + 1, value |-> r,
   created |-> IF req[r].row = Absent THEN req[r].created ELSE req[r].row.created]

\* Fault: a commit whose answer is lost is taken for one that failed.
CommitRetriedWhenLost(r) ==
  /\ req[r].pc = "commit"
  /\ Serializable(r)
  /\ memory' = [memory EXCEPT ![req[r].key] = Written(r)]
  /\ commits' = [commits EXCEPT ![r] = @ + 1]
  /\ \E reply \in {"ok", "run"} : req' = [req EXCEPT ![r].pc = reply]

\* The commit is applied.  Its answer may be lost: RetryTx then returns
\* "commit: ..." though the write is there.
Commit(r) ==
  /\ req[r].pc = "commit"
  /\ Serializable(r)
  /\ memory' = [memory EXCEPT ![req[r].key] = Written(r)]
  /\ commits' = [commits EXCEPT ![r] = @ + 1]
  /\ \E reply \in {"ok", "failed"} : req' = [req EXCEPT ![r].pc = reply]

\* Faults: attempts are not limited; they are not counted.
RetryUnlimited(r) ==
  /\ req[r].pc \in {"run", "commit"}
  /\ req' = [req EXCEPT ![r].pc = "run", ![r].attempt = @ + 1]
  /\ UNCHANGED <<memory, commits>>

RetryUncounted(r) ==
  /\ req[r].pc = "commit"
  /\ req' = [req EXCEPT ![r].pc = "run"]
  /\ UNCHANGED <<memory, commits>>

\* 40001, from a statement or from the commit: back off and run the closure
\* again, with the entry as the failed attempt left it.
Retry(r) ==
  /\ req[r].pc \in {"run", "commit"}
  /\ req[r].attempt < MaxRetries
  /\ req' = [req EXCEPT ![r].pc = "run", ![r].attempt = @ + 1]
  /\ UNCHANGED <<memory, commits>>

\* The last 40001, another error, a context cancelled in the backoff, or the
\* death of the server.
Fail(r) ==
  /\ req[r].pc \in {"run", "commit"}
  /\ req' = [req EXCEPT ![r].pc = "failed"]
  /\ UNCHANGED <<memory, commits>>

DeleteMemory(k) ==
  /\ memory[k] # Absent
  /\ memory' = [memory EXCEPT ![k] = Absent]
  /\ UNCHANGED <<req, commits>>
-----------------------------------------------------------------------------
Proceed(r) ==
  PrepareInsert(r) \/ PrepareUpdate(r) \/ Refuse(r) \/ Commit(r) \/ Retry(r) \/ Fail(r)

Next ==
  \/ \E r \in Req, k \in Key, v \in 0 .. MaxAsked : Begin(r, k, v)
  \/ \E r \in Req : Proceed(r)
  \/ \E k \in Key : DeleteMemory(k)

Spec == Init /\ [][Next]_vars

\* RetryTx is a loop in the request's own goroutine.
FairSpec == Spec /\ \A r \in Req : WF_vars(Proceed(r))
-----------------------------------------------------------------------------
(* Properties. *)

\* Retrying does not repeat a write: a request is committed once if it is
\* told 200, never if it is told 409, and once at most in any case.
AtMostOnce ==
  \A r \in Req :
    /\ commits[r] <= 1
    /\ req[r].pc = "ok" => commits[r] = 1
    /\ req[r].pc = "conflict" => commits[r] = 0

\* No update is lost between two writers: a committed write makes exactly the
\* next version of the row it replaces (1 where there was none).
VersionsAdvance ==
  [][\A k \in Key : memory'[k] # memory[k] =>
       memory'[k] = Absent \/ memory'[k].version = memory[k].version + 1]_vars

\* The check of UpsertMemory, for a request whose first attempt decided: a
\* version asked for is the version replaced (or the row was gone), and only
\* a request that asked for one is refused.
FirstAttemptChecked ==
  \A r \in Req :
    req[r].pc # "idle" /\ req[r].attempt = 0 =>
      /\ req[r].pc = "ok" /\ req[r].asked > 0 => req[r].version \in {1, req[r].asked + 1}
      /\ req[r].pc = "conflict" => req[r].asked > 0

\* The reply of a successful request is a state the key was in: whoever still
\* finds the request's value finds it with the version that was replied.
ReplyIsStored ==
  \A r \in Req, k \in Key :
    memory[k].value = r /\ req[r].pc = "ok" =>
      memory[k].version = req[r].version /\ memory[k].created = req[r].created

\* "If version > 0 in entry, it performs an optimistic concurrency check":
\* the same, for every request.
VersionChecked ==
  \A r \in Req :
    req[r].pc = "ok" /\ req[r].asked > 0 => req[r].version \in {1, req[r].asked + 1}

\* What a request knows of its write.
Told(r) ==
  CASE req[r].pc = "ok" -> [told |-> "written", version |-> req[r].version,
                            created |-> req[r].created]
    [] req[r].pc = "conflict" -> [told |-> "refused"]
    [] req[r].pc = "failed" -> [told |-> "unknown"]
    [] OTHER -> [told |-> "open"]

Register ==
  INSTANCE VersionedRegister WITH
    Nobody <- NoReq, cell <- memory, reply <- [r \in Req |-> Told(r)]

\* Attempts, retries and lost answers do not show: each write takes effect at
\* one moment, its commit, and its reply tells what it made there.
RegisterSpec == Register!Spec

\* The retry loop ends.
RequestsEnd ==
  \A r \in Req :
    req[r].pc = "run" ~> req[r].pc \in {"ok", "conflict", "failed"}
=============================================================================
