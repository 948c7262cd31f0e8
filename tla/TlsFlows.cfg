SPECIFICATION FlowsSpec
CONSTANTS
  client = client
  server = server
  Endpoints = {client, server}
  Streams <- FewStreams
  MaxPackets = 4
INVARIANTS
  FlowsExact
  ZeroOnlyIfPartial
CHECK_DEADLOCK FALSE
