SPECIFICATION Spec
CONSTANTS
  Handlers = {h1}
  Backends = {"postgres"}
  NoApps = noApps
  noApps = noApps
  httpsApps = httpsApps
  clashingApps = clashingApps
  AppConfigs <- MCAppConfigs
  Uses <- MCUses
  Conflicting = {clashingApps}
  Certs = {c1}
  c1 = c1
  Pems = {pem1, pem2}
  pem1 = pem1
  pem2 = pem2
  Contents = {hooked, bare, snip}
  Hooked = {hooked}
  hooked = hooked
  bare = bare
  snip = snip
  Drafts <- PlainAndHooked
  ValidationCommand = TRUE
  ReloadCommand = TRUE
  InitialHistories <- NoHistory
  MaxRequests = 3
  MaxEdits = 2
  MaxFaults = 0
  Absent = Absent
INVARIANTS RollbackRestoresNginx
CHECK_DEADLOCK FALSE
