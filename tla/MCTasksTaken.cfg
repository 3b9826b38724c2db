SPECIFICATION Spec
CONSTANTS
  Worker = {w1, w2}
  Agent = {a1, a2}
  Nobody = Nobody
  Issue = {i1}
  NoIssue = NoIssue
  MaxTasks = 1
  MaxComments = 0
  ListLimit = 1
  Unset = Unset
PROPERTY ClaimedTaskIsTaken
SYMMETRY Symmetric
