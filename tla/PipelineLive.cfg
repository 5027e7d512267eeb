SPECIFICATION FairSpec
CONSTANTS
  Message = {m1}
  Chat = {c1}
  ChatOf <- OneChat
  Stage1Worker = {s1}
  ChainWorker = {h1, h2}
  ClassifyWorker = {d1}
CHECK_DEADLOCK FALSE
PROPERTY JobsSettle
