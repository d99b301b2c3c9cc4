SPECIFICATION FairSpec
CONSTANTS
  Targets = {t1, t2}
  Listeners = {any, https}
  NoListener = any
  Requests = {p1}
  Backends = {"memory", "postgres"}
  Durations = {1}
  PageSize = 1
  MaxTime = 1
  MaxEvents = 2
  MaxClears = 2
  MaxFaults <- FaultsOfDatabase
  None = None
INVARIANTS
  TypeOK
  ClearsAreDelivered
  ClearedBansAreInTheFeed
PROPERTIES
  BanRevisionsGrow
  ImplementsClearFeed
  ClearsAreRead
CHECK_DEADLOCK FALSE
