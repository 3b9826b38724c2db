SPECIFICATION Spec
CONSTANTS
  Worker = {w1}
  Agent = {}
  Nobody = Nobody
  Issue = {i1}
  NoIssue = NoIssue
  MaxTasks = 1
  MaxComments = 0
  ListLimit = 1
  Unset = Unset
PROPERTY ClosedIssueCompletesTask
