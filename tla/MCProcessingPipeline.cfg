SPECIFICATION Spec
CONSTANTS
  Message = {m1, m2}
  Chat = {c1}
  ChatOf <- OneChat
  Stage1Worker = {s1}
  ChainWorker = {h1, h2}
  ClassifyWorker = {d1}
SYMMETRY Interchangeable
CHECK_DEADLOCK FALSE
INVARIANTS
  IInv
  RouteMatchesRuns
  NothingLost
  
  UsageMatchesRuns
  RemovedChatIsGone
PROPERTIES
  MovesForward
  EffortRunsOut
  PromiseKept
