SPECIFICATION Spec
CONSTANTS
  TicksPerSecond = 2
  Req = {q1, q2, q3}
  Agent = {a1}
  Anonymous = anon
  Resource = {r1, r2}
  Duration <- Durations
  DefaultTTL = 2
  MaxLag = 1
  Horizon = 2
  MaxTime = 3
  NoReq = NoReq
INVARIANTS TypeOK OneHolder
PROPERTIES NoWaiterLost HandoverAtomic FirstComeFirstServed EndedClaimsAreInert NoEarlyExpiry LeaseSpec
SYMMETRY Symmetric
