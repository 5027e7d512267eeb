SPECIFICATION Spec
CONSTANTS
  Question = {q1}
  Text = {t1, t2}
  CommandId = {c1, c2}
  SendWorker = {s1}
  EditWorker = {e1}
  PausedQuestion = {}
  MaxVersions = 4
  MaxPosts = 2
CHECK_DEADLOCK FALSE
INVARIANT ConfirmedEditRecorded
