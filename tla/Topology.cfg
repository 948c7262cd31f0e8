SPECIFICATION Spec
CONSTANTS
  a = a
  b = b
  c = c
  d = d
  RouterIds = {a, b, c, d}
  Keys = {"1", "01", "2", "3"}
  IntOf <- KeysAsNumbers
  Costs = {1}
  MaxLinks = 4
SYMMETRY AnyRouters
INVARIANTS
  TopologyInv
  AcceptsExactlySound
  LinksLeadBack
CHECK_DEADLOCK FALSE
