SPECIFICATION Spec
CONSTANTS
  poster = poster
  stopper = stopper
  stranger = stranger
  Clients = {poster, stopper, stranger}
  RightCode = {poster, stopper}
  Text <- TextOf
  Backlog = 1
  UdpShutdown = {"ok"}
INVARIANTS
  ServerSurvives
CHECK_DEADLOCK FALSE
