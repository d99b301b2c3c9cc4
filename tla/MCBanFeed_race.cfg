SPECIFICATION Spec
CONSTANTS
  Targets = {t1, t2}
  Listeners = {any, https}
  NoListener = any
  Requests = {p1, p2}
  Backends = {"postgres"}
  Durations = {1}
  PageSize = 1
  MaxTime = 0
  MaxEvents = 0
  MaxClears = 2
  MaxFaults <- NoFaults
  None = None
INVARIANTS ClearsAreDelivered
CHECK_DEADLOCK FALSE
