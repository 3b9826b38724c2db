SPECIFICATION FairSpec
CONSTANTS
  Worker = {w1, w2}
  Agent = {}
  Nobody = Nobody
  Issue = {i1}
  NoIssue = NoIssue
  MaxTasks = 2
  MaxComments = 0
  ListLimit = 2
  Unset = Unset
INVARIANTS TypeOK ClosedNoteMeansDone ReplyHasNotes NoteOncePerConcurrentDelivery
PROPERTIES FinishedStaysFinished ListedTasksHaveTheirTurn
