SPECIFICATION ServiceFairSpec
CONSTANTS
  TicksPerSecond = 1
  Req = {q1, q2}
  Agent = {a1}
  Anonymous = anon
  Resource = {r1}
  Duration <- Durations
  DefaultTTL = 1
  MaxLag = 0
  Horizon = 0
  MaxTime = 2
  NoReq = NoReq
  MaxLives = 1
INVARIANTS ServiceTypeOK ListenerHasStore
PROPERTIES ImplementsClaims SignalEndsProcess RequestsEnd OnlyEndsFailRequests WaitEnds OverdueClaimEnds
