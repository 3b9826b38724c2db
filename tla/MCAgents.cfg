SPECIFICATION Spec
CONSTANTS
  Call = {c1, c2, c3}
  Agent = {a1}
  Threshold = 2
  MaxLag = 1
  MaxTime = 4
  None = None
INVARIANTS TypeOK PresenceIsTrue StoredTokenIsKnown RelayedWasRecorded
PROPERTY WritersKeepApart
SYMMETRY Symmetric
CHECK_DEADLOCK FALSE
