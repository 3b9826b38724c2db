SPECIFICATION Spec
CONSTANTS
  Request = {r1, r2}
  Sweeper = {claims, todos}
INVARIANT ShutdownIsGraceful
CHECK_DEADLOCK FALSE
