SPECIFICATION FairSpec
CONSTANTS
  Routers = {1, 2, 3}
  Links = {1, 2}
  Ends <- LineEnds
  Cost <- LineCost
  InboxLimit = 8
  RestartLimit = 1
INVARIANTS
  KnowledgeTrue
  NoKeyError
  ReplyFirst
  CompleteAtRest
  FloodInv
PROPERTIES
  Converges
CHECK_DEADLOCK FALSE
