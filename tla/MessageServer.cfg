SPECIFICATION FairSpec
CONSTANTS
  poster = poster
  stopper = stopper
  stranger = stranger
  Clients = {poster, stopper, stranger}
  RightCode = {poster, stopper}
  Text <- TextOf
  Backlog = 1
  UdpShutdown = {"ok", "raises"}
INVARIANTS
  NoStaleEvent
  DiesOnlyAfterRefusal
  AcknowledgedIsStored
  WholeList
  ServerInv
PROPERTIES
  EveryClientEnds
CHECK_DEADLOCK FALSE
