SPECIFICATION Spec
CONSTANTS
  Question = {q1}
  Text = {t1, t2}
  CommandId = {c1, c2, c3}
  SendWorker = {s1, s2}
  EditWorker = {e1, e2}
  PausedQuestion = {}
  MaxVersions = 4
  MaxPosts = 2
SYMMETRY Interchangeable
CHECK_DEADLOCK FALSE
INVARIANTS
  IInv
  QuestionMatchesSend
  PublishedWasPreviewed
  OneCommandPerPreview
  
  EditTargetValid
  RetriesBounded
  AccessLossRequestsCheck
PROPERTIES
  SendOutcomeFinal
  PromiseKept
  LifecycleKept
  DuplicateOnlyByAbort
  OvertakenByDraftOnly
