SPECIFICATION FairSpec
CONSTANTS
  Req = {q1, q2, q3}
  Key = {k1}
  MaxRetries = 1
  MaxAsked = 2
  NoReq = NoReq
INVARIANTS TypeOK AtMostOnce FirstAttemptChecked ReplyIsStored
PROPERTIES VersionsAdvance RegisterSpec RequestsEnd
CHECK_DEADLOCK FALSE
