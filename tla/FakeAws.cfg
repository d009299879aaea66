SPECIFICATION FakeSpec
CONSTANTS
  Names = {n1, n2}
  Default = n1
  Ranges = {r1}
  Ips = {ip}
  MaxGroups = 2
  MaxReservations = 2
  MaxCount = 1
  Started = {"pending", "running"}
  MaxRefs = 1
  MaxPerms = 2
  Clients = {c1, c2}
  Buckets = {b1}
  Keys <- MCKeys
  ListPrefixes <- MCListPrefixes
  Data = {d1}
  Types = {t1}
  NoBucket = NoBucket
  NoObject = NoObject
  NoType = NoType
  Listers = {c2}
  Free = Free
  Valid = {b1}
  ListMaxima = {1}
  MaxMade = 2
INVARIANTS SourcesExist PendingKeepGroups RefusalIsVisible PagesComplete
PROPERTIES IsAStore LockIsReleased
