-------------------------- MODULE VersionedRegister --------------------------
(***************************************************************************)
(* What the memory API promises, without transactions and retries: each     *)
(* request is a write that takes effect at one moment and once, or never.   *)
(*                                                                          *)
(*   - a write makes the next version of the key, whatever it replaces, and *)
(*     keeps the creation of a key that exists;                             *)
(*   - who is told that it was made is told just the version it made;       *)
(*   - who is refused has changed nothing;                                  *)
(*   - who gets no answer knows nothing: the write was made or not, but it  *)
(*     is not made later.                                                   *)
(***************************************************************************)
EXTENDS Integers

CONSTANTS Req,      \* the requests
          Key,      \* what they write
          Nobody    \* not a request

VARIABLES cell,     \* for each key: version, writer and creation of its value
          reply     \* what each request was told

register == <<cell, reply>>

Empty == [version |-> 0, value |-> Nobody, created |-> Nobody]

Open == [told |-> "open"]
Refused == [told |-> "refused"]
Unknown == [told |-> "unknown"]
Written(row) == [told |-> "written", version |-> row.version, created |-> row.created]

Init ==
  /\ cell = [k \in Key |-> Empty]
  /\ reply = [r \in Req |-> Open]

\* The value of r, in place of what is there; a new key may have been created
\* by anybody.
Successors(r, k) ==
  {[version |-> cell[k].version + 1, value |-> r, created |-> c] :
     c \in IF cell[k] = Empty THEN Req ELSE {cell[k].created}}

Write(r, k) ==
  /\ reply[r] = Open
  /\ \E row \in Successors(r, k) :
       /\ cell' = [cell EXCEPT ![k] = row]
       /\ \E answer \in {Written(row), Unknown} : reply' = [reply EXCEPT ![r] = answer]

Decline(r) ==
  /\ reply[r] = Open
  /\ \E answer \in {Refused, Unknown} : reply' = [reply EXCEPT ![r] = answer]
  /\ UNCHANGED cell

Remove(k) ==
  /\ cell' = [cell EXCEPT ![k] = Empty]
  /\ UNCHANGED reply

Next ==
  \/ \E r \in Req : Decline(r) \/ \E k \in Key : Write(r, k)
  \/ \E k \in Key : Remove(k)

Spec == Init /\ [][Next]_register
=============================================================================
