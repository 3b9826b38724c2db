SPECIFICATION Spec
CONSTANTS
  Req = {q1, q2, q3}
  Key = {k1}
  MaxRetries = 1
  MaxAsked = 2
  NoReq = NoReq
INVARIANT VersionChecked
CHECK_DEADLOCK FALSE
SYMMETRY Symmetric
