SPECIFICATION Spec
CONSTANTS
  TicksPerSecond = 2
  Req = {q1, q2, q3}
  Agent = {a1}
  Anonymous = anon
  Resource = {r1}
  Duration <- Durations
  DefaultTTL = 2
  MaxLag = 1
  Horizon = 1
  MaxTime = 3
  NoReq = NoReq
INVARIANT WaitersHaveHolder
