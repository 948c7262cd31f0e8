SPECIFICATION TablesSpec
VIEW EffectiveState
CONSTRAINT OneLoopAtATime
CONSTANTS
  Routers = {1, 2, 3}
  Links = {1, 2, 3}
  Ends <- TriangleEnds
  Cost <- TriangleCost
  InboxLimit = 40
  RestartLimit = 0
INVARIANTS
  RoutesReal
  TablesShortest
PROPERTIES
  RoutesOnlyImprove
CHECK_DEADLOCK FALSE
