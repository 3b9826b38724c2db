SPECIFICATION Spec
CONSTANTS
  TicksPerSecond = 1
  Id = {s1, s2}
  Agent = {a1}
  Any = Any
  Time <- Times
  Unknown = Unknown
  Limit <- Limits
  Default = 2
  MostListed = 2
INVARIANT ListedSessionsStartedSince
