\* Two workers probe two hosts and up to two ports; the sockets and the
\* inserts may fail.
SPECIFICATION FairSpec
CONSTANTS
  Hosts <- MCHosts
  Delays <- MCDelays
  Fastest <- MCFastest
  Slowest <- MCSlowest
  PortLimit = 4
  Arguments <- MCArguments
  Open <- MCOpen
  Workers = {w1, w2}
  Live = TRUE
  LiveCap = 1
  SocketsFail = TRUE
INVARIANTS
  Accounted
  FoundAll
  NothingDropped
PROPERTIES
  ScanEnds
