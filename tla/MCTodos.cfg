SPECIFICATION FairSpec
CONSTANTS
  TicksPerSecond = 2
  Worker = {w1}
  Agent = {a1, a2}
  Id = {t1, t2}
  Status = {"pending", "done"}
  Unset = Unset
  MaxIds = 2
  MaxAge = 2
  MaxLag = 1
  Horizon = 2
  MaxTime = 7
INVARIANTS TypeOK OrderLasts NotFoundMeansGone
PROPERTIES NoTodoLost NoEarlyPrune FinishedTodosEnd
