---------------------------- MODULE MemoryProofs ----------------------------
(***************************************************************************)
(* Proofs about Memory, for any number of requests, keys and retries; at    *)
(* the end, that it implements VersionedRegister.                           *)
(***************************************************************************)
EXTENDS Memory, TLAPS

\* What a request's history says of its commits, phase by phase.
CommitsFollowReplies ==
  \A r \in Req :
    /\ req[r].pc \in {"idle", "run", "commit", "conflict"} => commits[r] = 0
    /\ req[r].pc = "ok" => commits[r] = 1
    /\ req[r].pc = "failed" => commits[r] \in {0, 1}

\* The entry of a request that is about to commit has a created_at.
EntryPrepared ==
  \A r \in Req : req[r].pc = "commit" /\ req[r].row = Absent => req[r].created \in Req

Inv == TypeOK /\ CommitsFollowReplies /\ EntryPrepared

USE MemoryAssumption
-----------------------------------------------------------------------------
LEMMA AbsentIsRow == Absent \in Row /\ Absent.version = 0
BY DEF Absent, Row

LEMMA InitInv == Init => Inv
BY AbsentIsRow DEF Init, Inv, TypeOK, CommitsFollowReplies, EntryPrepared, Request

LEMMA NextInv == Inv /\ [Next]_vars => Inv'
<1> SUFFICES ASSUME Inv, [Next]_vars PROVE Inv'
  OBVIOUS
<1> USE DEF Inv
<1>1. ASSUME NEW r \in Req, NEW k \in Key, NEW v \in 0 .. MaxAsked, Begin(r, k, v)
      PROVE  Inv'
  <2>1. TypeOK'
    BY <1>1, AbsentIsRow DEF Begin, TypeOK, Request
  <2>2. CommitsFollowReplies'
    BY <1>1 DEF Begin, TypeOK, CommitsFollowReplies
  <2>3. EntryPrepared'
    BY <1>1 DEF Begin, TypeOK, EntryPrepared
  <2>4. QED  BY <2>1, <2>2, <2>3
<1>2. ASSUME NEW r \in Req, req[r].pc = "run", UNCHANGED <<memory, commits>>,
             NEW version \in Nat, NEW created \in Req, Prepare(r, version, created)
      PROVE  Inv'
  <2>1. req[r].key \in Key /\ memory[req[r].key] \in Row
    BY <1>2 DEF TypeOK, Request
  <2>2. TypeOK'
    <3> DEFINE new == [req[r] EXCEPT !.pc = "commit", !.row = memory[req[r].key],
                                     !.version = version, !.created = created]
    <3>1. req[r] \in [pc : {"run", "commit", "ok", "conflict", "failed"}, key : Key,
                      asked : 0 .. MaxAsked, version : Nat, created : Req \cup {NoReq},
                      attempt : 0 .. MaxRetries, row : Row]
      BY <1>2 DEF TypeOK, Request
    <3>2. new \in Request
      BY <2>1, <3>1 DEF Request
    <3>3. req' = [req EXCEPT ![r] = new]
      BY <1>2 DEF Prepare, TypeOK
    <3>4. QED  BY <1>2, <3>2, <3>3 DEF TypeOK
  <2>3. CommitsFollowReplies'
    BY <1>2 DEF Prepare, TypeOK, CommitsFollowReplies
  <2>4. EntryPrepared'
    BY <1>2 DEF Prepare, TypeOK, EntryPrepared, Request
  <2>5. QED  BY <2>2, <2>3, <2>4
<1>3. ASSUME NEW r \in Req, PrepareInsert(r) PROVE Inv'
  <2>1. req[r].created \in Req \cup {NoReq}
    BY <1>3 DEF PrepareInsert, TypeOK, Request
  <2>2. QED  BY <1>2, <1>3, <2>1 DEF PrepareInsert
<1>4. ASSUME NEW r \in Req, PrepareUpdate(r) PROVE Inv'
  <2>1. memory[req[r].key] \in Row \ {Absent}
    BY <1>4 DEF PrepareUpdate, TypeOK, Request
  <2>2. memory[req[r].key].version + 1 \in Nat /\ memory[req[r].key].created \in Req
    BY <2>1 DEF Row
  <2>3. QED  BY <1>2, <1>4, <2>2 DEF PrepareUpdate
<1>5. ASSUME NEW r \in Req, Refuse(r) PROVE Inv'
  <2>1. TypeOK'
    BY <1>5 DEF Refuse, TypeOK, Request
  <2>2. CommitsFollowReplies' /\ EntryPrepared'
    BY <1>5 DEF Refuse, TypeOK, CommitsFollowReplies, EntryPrepared
  <2>3. QED  BY <2>1, <2>2
<1>6. ASSUME NEW r \in Req, Commit(r) PROVE Inv'
  <2>1. PICK reply \in {"ok", "failed"} : req' = [req EXCEPT ![r].pc = reply]
    BY <1>6 DEF Commit
  <2>2. req[r].row \in Row /\ req[r].key \in Key /\ req[r].created \in Req \cup {NoReq}
    BY <1>6 DEF Commit, TypeOK, Request
  <2>3. Written(r) \in Row
    <3>1. CASE req[r].row = Absent
      BY <1>6, <3>1, AbsentIsRow DEF Written, Row, Commit, EntryPrepared
    <3>2. CASE req[r].row # Absent
      BY <2>2, <3>2 DEF Written, Row
    <3>3. QED  BY <3>1, <3>2
  <2>4. TypeOK'
    <3>1. memory' \in [Key -> Row]
      BY <1>6, <2>3 DEF Commit, TypeOK
    <3>2. commits' \in [Req -> Nat]
      BY <1>6 DEF Commit, TypeOK
    <3>3. req' \in [Req -> Request]
      BY <1>6, <2>1 DEF Commit, TypeOK, Request
    <3>4. QED  BY <3>1, <3>2, <3>3 DEF TypeOK
  <2>5. CommitsFollowReplies'
    BY <1>6, <2>1 DEF Commit, TypeOK, CommitsFollowReplies
  <2>6. EntryPrepared'
    BY <1>6, <2>1 DEF Commit, TypeOK, EntryPrepared
  <2>7. QED  BY <2>4, <2>5, <2>6
<1>7. ASSUME NEW r \in Req, Retry(r) PROVE Inv'
  <2>1. TypeOK'
    BY <1>7 DEF Retry, TypeOK, Request
  <2>2. CommitsFollowReplies' /\ EntryPrepared'
    BY <1>7 DEF Retry, TypeOK, CommitsFollowReplies, EntryPrepared
  <2>3. QED  BY <2>1, <2>2
<1>8. ASSUME NEW r \in Req, Fail(r) PROVE Inv'
  <2>1. TypeOK'
    BY <1>8 DEF Fail, TypeOK, Request
  <2>2. CommitsFollowReplies' /\ EntryPrepared'
    BY <1>8 DEF Fail, TypeOK, CommitsFollowReplies, EntryPrepared
  <2>3. QED  BY <2>1, <2>2
<1>9. ASSUME NEW k \in Key, DeleteMemory(k) PROVE Inv'
  BY <1>9, AbsentIsRow DEF DeleteMemory, TypeOK, CommitsFollowReplies, EntryPrepared
<1>10. CASE UNCHANGED vars
  BY <1>10 DEF vars, TypeOK, CommitsFollowReplies, EntryPrepared
<1>11. QED
  BY <1>1, <1>3, <1>4, <1>5, <1>6, <1>7, <1>8, <1>9, <1>10 DEF Next, Proceed

LEMMA SpecInv == Spec => []Inv
BY InitInv, NextInv, PTL DEF Spec
-----------------------------------------------------------------------------
\* Rows and requests keep their types; RetryTx counts no attempt beyond its
\* bound.
THEOREM TypeCorrect == Spec => []TypeOK
<1>1. Inv => TypeOK
  BY DEF Inv
<1>2. QED  BY SpecInv, <1>1, PTL

\* RetryTx never repeats a write that it reported, or one it did not.
THEOREM WritesAtMostOnce == Spec => []AtMostOnce
<1>1. Inv => AtMostOnce
  <2> SUFFICES ASSUME Inv, NEW r \in Req
               PROVE  /\ commits[r] <= 1
                      /\ req[r].pc = "ok" => commits[r] = 1
                      /\ req[r].pc = "conflict" => commits[r] = 0
    BY DEF AtMostOnce
  <2>1. req[r].pc \in {"idle", "run", "commit", "ok", "conflict", "failed"}
    BY DEF Inv, TypeOK, Request
  <2>2. QED  BY <2>1 DEF Inv, CommitsFollowReplies
<1>2. QED  BY SpecInv, <1>1, PTL

\* No committed write is lost: each makes the next version of what it replaces.
THEOREM NoVersionIsSkipped == Spec => VersionsAdvance
<1> DEFINE Advance ==
      \A k \in Key : memory'[k] # memory[k] =>
        memory'[k] = Absent \/ memory'[k].version = memory[k].version + 1
<1>1. Inv /\ [Next]_vars => [Advance]_vars
  <2> SUFFICES ASSUME Inv, Next PROVE Advance
    OBVIOUS
  <2>1. ASSUME NEW r \in Req, Commit(r) PROVE Advance
    BY <2>1 DEF Commit, Serializable, Written, Inv, TypeOK
  <2>2. ASSUME NEW k \in Key, DeleteMemory(k) PROVE Advance
    BY <2>2 DEF DeleteMemory, Inv, TypeOK
  <2>3. CASE UNCHANGED memory
    BY <2>3
  <2>4. QED
    BY <2>1, <2>2, <2>3
    DEF Next, Proceed, Begin, PrepareInsert, PrepareUpdate, Refuse, Retry, Fail
<1>2. QED  BY <1>1, SpecInv, PTL DEF Spec, VersionsAdvance
-----------------------------------------------------------------------------
(* What the entry in memory says of the row, and what it says of the caller. *)

\* The entry of a request about to commit is the row that it will write.
EntryIsWritten ==
  \A r \in Req :
    req[r].pc = "commit" =>
      /\ req[r].version = req[r].row.version + 1
      /\ req[r].row # Absent => req[r].created = req[r].row.created

\* A value is in the table only after the commit of its request.
ValuesAreCommitted == \A r \in Req, k \in Key : memory[k].value = r => commits[r] = 1

\* Until the closure has run once, the entry has the version of the caller.
FirstEntry ==
  \A r \in Req :
    req[r].pc # "idle" /\ req[r].attempt = 0 =>
      /\ req[r].pc = "run" => req[r].version = req[r].asked
      /\ req[r].pc = "commit" /\ req[r].asked > 0 =>
           req[r].version \in {1, req[r].asked + 1}

EntryInv ==
  /\ EntryIsWritten
  /\ ValuesAreCommitted
  /\ FirstEntry
  /\ FirstAttemptChecked
  /\ ReplyIsStored

LEMMA InitEntryInv == Init => EntryInv
BY DEF Init, EntryInv, EntryIsWritten, ValuesAreCommitted, FirstEntry,
       FirstAttemptChecked, ReplyIsStored, Absent

LEMMA NextEntryInv == Inv /\ EntryInv /\ [Next]_vars => EntryInv'
<1> SUFFICES ASSUME Inv, EntryInv, [Next]_vars PROVE EntryInv'
  OBVIOUS
<1> USE DEF Inv, EntryInv
<1>1. ASSUME NEW r \in Req, NEW k \in Key, NEW v \in 0 .. MaxAsked, Begin(r, k, v)
      PROVE  EntryInv'
  <2>1. EntryIsWritten' /\ ValuesAreCommitted'
    BY <1>1 DEF Begin, TypeOK, EntryIsWritten, ValuesAreCommitted
  <2>2. FirstEntry' /\ FirstAttemptChecked'
    BY <1>1 DEF Begin, TypeOK, FirstEntry, FirstAttemptChecked
  <2>3. ReplyIsStored'
    BY <1>1 DEF Begin, TypeOK, ReplyIsStored
  <2>4. QED  BY <2>1, <2>2, <2>3
<1>2. ASSUME NEW r \in Req, req[r].pc = "run", UNCHANGED <<memory, commits>>,
             NEW version, NEW created, Prepare(r, version, created),
             version = memory[req[r].key].version + 1,
             memory[req[r].key] # Absent => created = memory[req[r].key].created,
             req[r].attempt = 0 /\ req[r].asked > 0 => version \in {1, req[r].asked + 1}
      PROVE  EntryInv'
  <2>1. req[r].key \in Key
    BY <1>2 DEF TypeOK, Request
  <2>2. /\ req'[r].pc = "commit" /\ req'[r].version = version /\ req'[r].created = created
        /\ req'[r].row = memory[req[r].key] /\ req'[r].attempt = req[r].attempt
        /\ req'[r].asked = req[r].asked
        /\ \A q \in Req \ {r} : req'[q] = req[q]
    <3>1. req[r] \in [pc : {"run", "commit", "ok", "conflict", "failed"}, key : Key,
                      asked : 0 .. MaxAsked, version : Nat, created : Req \cup {NoReq},
                      attempt : 0 .. MaxRetries, row : Row]
      BY <1>2 DEF TypeOK, Request
    <3>2. QED  BY <1>2, <3>1 DEF Prepare, TypeOK
  <2>3. EntryIsWritten'
    BY <1>2, <2>2 DEF EntryIsWritten
  <2>4. ValuesAreCommitted'
    BY <1>2 DEF ValuesAreCommitted
  <2>5. FirstEntry'
    BY <1>2, <2>2 DEF FirstEntry
  <2>6. FirstAttemptChecked'
    BY <2>2 DEF FirstAttemptChecked
  <2>7. ReplyIsStored'
    BY <1>2, <2>2 DEF ReplyIsStored
  <2>8. QED  BY <2>3, <2>4, <2>5, <2>6, <2>7
<1>3. ASSUME NEW r \in Req, PrepareInsert(r) PROVE EntryInv'
  BY <1>2, <1>3, AbsentIsRow DEF PrepareInsert
<1>4. ASSUME NEW r \in Req, PrepareUpdate(r) PROVE EntryInv'
  <2>1. req[r].attempt = 0 /\ req[r].asked > 0 => memory[req[r].key].version = req[r].asked
    BY <1>4 DEF PrepareUpdate, VersionMatches, FirstEntry, TypeOK, Request
  <2>2. QED  BY <1>2, <1>4, <2>1 DEF PrepareUpdate
<1>5. ASSUME NEW r \in Req, Refuse(r) PROVE EntryInv'
  <2>1. EntryIsWritten' /\ ValuesAreCommitted' /\ FirstEntry' /\ ReplyIsStored'
    BY <1>5 DEF Refuse, TypeOK, EntryIsWritten, ValuesAreCommitted, FirstEntry, ReplyIsStored
  <2>2. req[r].attempt = 0 => req[r].asked > 0
    BY <1>5 DEF Refuse, VersionMatches, FirstEntry, TypeOK, Request
  <2>3. FirstAttemptChecked'
    BY <1>5, <2>2 DEF Refuse, TypeOK, FirstAttemptChecked, Request
  <2>4. QED  BY <2>1, <2>3
<1>6. ASSUME NEW r \in Req, Commit(r) PROVE EntryInv'
  <2>1. PICK reply \in {"ok", "failed"} : req' = [req EXCEPT ![r].pc = reply]
    BY <1>6 DEF Commit
  <2>2. commits[r] = 0 /\ commits' = [commits EXCEPT ![r] = 1]
    <3>1. commits[r] = 0
      BY <1>6 DEF Commit, CommitsFollowReplies
    <3>2. commits' = [commits EXCEPT ![r] = commits[r] + 1]
      BY <1>6 DEF Commit
    <3>3. QED  BY <3>1, <3>2
  <2>3. memory' = [memory EXCEPT ![req[r].key] = Written(r)] /\ req[r].key \in Key
    BY <1>6 DEF Commit, TypeOK, Request
  <2>4. Written(r).value = r /\ Written(r).version = req[r].version
                             /\ Written(r).created = req[r].created
    BY <1>6 DEF Commit, Written, EntryIsWritten
  <2>5. EntryIsWritten'
    BY <1>6, <2>1 DEF TypeOK, EntryIsWritten, Commit
  <2>6. ValuesAreCommitted'
    BY <2>2, <2>3, <2>4 DEF TypeOK, ValuesAreCommitted
  <2>7. FirstEntry' /\ FirstAttemptChecked'
    BY <1>6, <2>1 DEF TypeOK, Commit, FirstEntry, FirstAttemptChecked
  <2>8. ReplyIsStored'
    <3> SUFFICES ASSUME NEW q \in Req, NEW k \in Key, memory'[k].value = q, req'[q].pc = "ok"
                 PROVE  memory'[k].version = req'[q].version
                        /\ memory'[k].created = req'[q].created
      BY DEF ReplyIsStored
    <3>1. CASE k = req[r].key
      <4>1. q = r
        BY <2>3, <2>4, <3>1 DEF TypeOK
      <4>2. QED  BY <2>1, <2>3, <2>4, <3>1, <4>1 DEF TypeOK
    <3>2. CASE k # req[r].key
      <4>1. memory[k].value = q /\ memory'[k] = memory[k]
        BY <2>3, <3>2 DEF TypeOK
      <4>2. q # r
        BY <2>2, <4>1 DEF ValuesAreCommitted
      <4>3. QED  BY <2>1, <4>1, <4>2 DEF ReplyIsStored, TypeOK
    <3>3. QED  BY <3>1, <3>2
  <2>9. QED  BY <2>5, <2>6, <2>7, <2>8
<1>7. ASSUME NEW r \in Req, Retry(r) PROVE EntryInv'
  <2>1. /\ req'[r].pc = "run" /\ req'[r].attempt # 0
        /\ \A q \in Req \ {r} : req'[q] = req[q]
    BY <1>7 DEF Retry, TypeOK, Request
  <2>2. EntryIsWritten' /\ ValuesAreCommitted' /\ ReplyIsStored'
    <3>1. UNCHANGED <<memory, commits>>
      BY <1>7 DEF Retry
    <3>2. EntryIsWritten'
      BY <2>1 DEF EntryIsWritten
    <3>3. ValuesAreCommitted'
      BY <3>1 DEF ValuesAreCommitted
    <3>4. ReplyIsStored'
      BY <2>1, <3>1 DEF ReplyIsStored
    <3>5. QED  BY <3>2, <3>3, <3>4
  <2>3. FirstEntry' /\ FirstAttemptChecked'
    BY <2>1 DEF FirstEntry, FirstAttemptChecked
  <2>4. QED  BY <2>2, <2>3
<1>8. ASSUME NEW r \in Req, Fail(r) PROVE EntryInv'
  <2>1. EntryIsWritten' /\ ValuesAreCommitted' /\ ReplyIsStored'
    BY <1>8 DEF Fail, TypeOK, EntryIsWritten, ValuesAreCommitted, ReplyIsStored
  <2>2. FirstEntry' /\ FirstAttemptChecked'
    BY <1>8 DEF Fail, TypeOK, FirstEntry, FirstAttemptChecked
  <2>3. QED  BY <2>1, <2>2
<1>9. ASSUME NEW k \in Key, DeleteMemory(k) PROVE EntryInv'
  <2>1. \A q \in Req, l \in Key : memory'[l].value = q => memory'[l] = memory[l]
    BY <1>9 DEF DeleteMemory, TypeOK, Absent
  <2>2. EntryIsWritten' /\ FirstEntry' /\ FirstAttemptChecked'
    BY <1>9 DEF DeleteMemory, EntryIsWritten, FirstEntry, FirstAttemptChecked
  <2>3. ValuesAreCommitted' /\ ReplyIsStored'
    BY <1>9, <2>1 DEF DeleteMemory, ValuesAreCommitted, ReplyIsStored
  <2>4. QED  BY <2>2, <2>3
<1>10. CASE UNCHANGED vars
  BY <1>10 DEF vars, EntryIsWritten, ValuesAreCommitted, FirstEntry, FirstAttemptChecked,
               ReplyIsStored
<1>11. QED
  BY <1>1, <1>3, <1>4, <1>5, <1>6, <1>7, <1>8, <1>9, <1>10 DEF Next, Proceed

LEMMA SpecEntryInv == Spec => []EntryInv
BY SpecInv, InitEntryInv, NextEntryInv, PTL DEF Spec

\* The optimistic check holds of every request that is not retried.
THEOREM FirstAttemptsAreChecked == Spec => []FirstAttemptChecked
<1>1. EntryInv => FirstAttemptChecked
  BY DEF EntryInv
<1>2. QED  BY SpecEntryInv, <1>1, PTL

\* A 200 tells the version and created_at of the row, retries or not.
THEOREM RepliesAreStored == Spec => []ReplyIsStored
<1>1. EntryInv => ReplyIsStored
  BY DEF EntryInv
<1>2. QED  BY SpecEntryInv, <1>1, PTL
-----------------------------------------------------------------------------
(* Memory implements VersionedRegister.                                     *)

\* Only the phase of a request, and at its end the entry, are seen.
LEMMA ToldSteps ==
  ASSUME NEW r \in Req, \A q \in Req \ {r} : req'[q] = req[q], NEW told, told = Told(r)'
  PROVE  [q \in Req |-> Told(q)]' = [[q \in Req |-> Told(q)] EXCEPT ![r] = told]
BY DEF Told

\* A step of a request that does not end it.
LEMMA Unseen ==
  ASSUME NEW r \in Req, UNCHANGED memory, \A q \in Req \ {r} : req'[q] = req[q],
         req[r].pc \in {"idle", "run", "commit"}, req'[r].pc \in {"idle", "run", "commit"}
  PROVE  UNCHANGED Register!register
<1>1. Told(r)' = Told(r)
  BY DEF Told
<1>2. UNCHANGED [q \in Req |-> Told(q)]
  BY <1>1 DEF Told
<1>3. QED  BY <1>2 DEF Register!register

\* A commit is the write of the register, on the row that the attempt has read.
LEMMA CommitWrites ==
  ASSUME Inv, EntryInv, NEW r \in Req, Commit(r)
  PROVE  Register!Write(r, req[r].key)
<1>1. PICK answer \in {"ok", "failed"} : req' = [req EXCEPT ![r].pc = answer]
  BY DEF Commit
<1>2. /\ req'[r].pc = answer /\ req'[r].version = req[r].version
      /\ req'[r].created = req[r].created
      /\ \A q \in Req \ {r} : req'[q] = req[q]
  <2>1. req[r] \in [pc : {"run", "commit", "ok", "conflict", "failed"}, key : Key,
                    asked : 0 .. MaxAsked, version : Nat, created : Req \cup {NoReq},
                    attempt : 0 .. MaxRetries, row : Row]
    BY DEF Commit, Inv, TypeOK, Request
  <2>2. QED  BY <1>1, <2>1 DEF Inv, TypeOK
<1>3. req[r].key \in Key /\ memory[req[r].key] = req[r].row
  BY DEF Commit, Serializable, Inv, TypeOK, Request
<1>4. Written(r) \in Register!Successors(r, req[r].key)
  <2>1. CASE req[r].row = Absent
    BY <1>3, <2>1
    DEF Commit, Inv, EntryPrepared, Written, Absent, Register!Successors, Register!Empty
  <2>2. CASE req[r].row # Absent
    BY <1>3, <2>2 DEF Written, Absent, Register!Successors, Register!Empty
  <2>3. QED  BY <2>1, <2>2
<1>5. Told(r) = Register!Open
  BY DEF Commit, Told, Register!Open
<1>6. Told(r)' \in {Register!Written(Written(r)), Register!Unknown}
  <2>1. Written(r).version = req[r].version /\ Written(r).created = req[r].created
    BY DEF Commit, Written, EntryInv, EntryIsWritten
  <2>2. QED  BY <1>1, <1>2, <2>1 DEF Told, Register!Written, Register!Unknown
<1>7. memory' = [memory EXCEPT ![req[r].key] = Written(r)]
  BY DEF Commit
<1>8. QED  BY <1>2, <1>4, <1>5, <1>6, <1>7, ToldSteps DEF Register!Write

\* The memory API is a register with versions: whatever is retried, refused or
\* lost, each request is a write that happens once, at its commit, or never,
\* and every 200 tells the row that the write has made.
THEOREM MemoryIsRegister == Spec => RegisterSpec
<1>1. Init => Register!Init
  BY DEF Init, Told, Absent, Register!Init, Register!Empty, Register!Open
<1>2. Inv /\ EntryInv /\ [Next]_vars => [Register!Next]_(Register!register)
  <2> SUFFICES ASSUME Inv, EntryInv, [Next]_vars
               PROVE  [Register!Next]_(Register!register)
    OBVIOUS
  <2>1. ASSUME NEW r \in Req, NEW k \in Key, NEW v \in 0 .. MaxAsked, Begin(r, k, v)
        PROVE  UNCHANGED Register!register
    BY <2>1, Unseen DEF Begin, Inv, TypeOK
  <2>2. ASSUME NEW r \in Req, PrepareInsert(r) \/ PrepareUpdate(r) \/ Retry(r)
        PROVE  UNCHANGED Register!register
    <3>1. UNCHANGED memory /\ req[r].pc \in {"run", "commit"}
      BY <2>2 DEF PrepareInsert, PrepareUpdate, Retry
    <3>2. req'[r].pc \in {"run", "commit"} /\ \A q \in Req \ {r} : req'[q] = req[q]
      <4>1. "pc" \in DOMAIN req[r] /\ req \in [Req -> Request]
        BY <3>1 DEF Inv, TypeOK, Request
      <4>2. CASE PrepareInsert(r) \/ PrepareUpdate(r)
        BY <4>1, <4>2 DEF PrepareInsert, PrepareUpdate, Prepare
      <4>3. CASE Retry(r)
        BY <4>1, <4>3 DEF Retry
      <4>4. QED  BY <2>2, <4>2, <4>3
    <3>3. QED  BY <3>1, <3>2, Unseen
  <2>3. ASSUME NEW r \in Req, Refuse(r) \/ Fail(r)
        PROVE  Register!Decline(r)
    <3>1. UNCHANGED memory /\ Told(r) = Register!Open
      BY <2>3 DEF Refuse, Fail, Told, Register!Open
    <3>2. /\ req'[r].pc \in {"conflict", "failed"}
          /\ \A q \in Req \ {r} : req'[q] = req[q]
      <4>1. "pc" \in DOMAIN req[r] /\ req \in [Req -> Request]
        BY <2>3 DEF Refuse, Fail, Inv, TypeOK, Request
      <4>2. QED  BY <2>3, <4>1 DEF Refuse, Fail
    <3>3. Told(r)' \in {Register!Refused, Register!Unknown}
      BY <3>2 DEF Told, Register!Refused, Register!Unknown
    <3>4. QED  BY <3>1, <3>2, <3>3, ToldSteps DEF Register!Decline
  <2>4. ASSUME NEW k \in Key, DeleteMemory(k) PROVE Register!Remove(k)
    BY <2>4 DEF DeleteMemory, Told, Absent, Register!Remove, Register!Empty
  <2>5. CASE UNCHANGED vars
    BY <2>5 DEF vars, Told, Register!register
  <2>6. ASSUME NEW r \in Req, Commit(r) PROVE Register!Next
    BY <2>6, CommitWrites DEF Commit, Inv, TypeOK, Request, Register!Next
  <2>7. QED
    BY <2>1, <2>2, <2>3, <2>4, <2>5, <2>6 DEF Next, Proceed, Register!Next
<1>3. QED
  BY <1>1, <1>2, SpecInv, SpecEntryInv, PTL DEF Spec, RegisterSpec, Register!Spec
=============================================================================
