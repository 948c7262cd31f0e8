SPECIFICATION FairSpec
CONSTANTS
  d1 = d1
  d2 = d2
  d3 = d3
  host = host
  Drivers = {d1, d2, d3}
  Hosts = {host}
  Limit = 2
  InitUrls = 2
  PageLinks = 2
INVARIANTS
  CrawlInv
  NotCutShort
  WorstCase
PROPERTIES
  ComesToRest
CHECK_DEADLOCK FALSE
