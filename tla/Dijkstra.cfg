SPECIFICATION Spec
CONSTANTS
  Vertices = {1, 2, 3, 4}
  Costs = {0, 1, 3}
INVARIANTS
  VisitedAreFinal
  DijkstraInvariant
  ReturnsShortestPath
PROPERTIES
  Ends
CHECK_DEADLOCK FALSE
