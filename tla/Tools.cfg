\* A host of 2 ms and one of 7 or 136 ms; two users of a pool of one
\* connection; two connections of a proxy; three workers of a scanner of
\* certificates; one relay.
SPECIFICATION ToolsSpec
CONSTANTS
  Hosts <- MCHosts
  Delays <- MCDelays
  Fastest <- MCFastest
  Slowest <- MCSlowest
  Users = {u1, u2}
  MaxIdle = 1
  HasReadTimeout = TRUE
  MaxMade = 2
  MaxQueue = 2
  Conns = {c1, c2}
  Sites = {s1}
  MaxBuffer = 2
  MaxMints = 3
  Workers = {w1, w2, w3}
  NHosts = 2
  Relays = {r1}
  MaxPieces = 3
INVARIANTS
  AveragesInRange KnownHostsAwaited HeldOnce DoGetsItsReply LogReads
PROPERTIES
  MovesAsRounded CertificateStays ScanIsComplete
\* Users, connections and workers may all have gone.
CHECK_DEADLOCK FALSE
