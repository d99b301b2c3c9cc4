SPECIFICATION Spec
CONSTANTS
  Handlers = {h1}
  Backends = {"memory", "postgres"}
  NoApps = noApps
  noApps = noApps
  httpsApps = httpsApps
  clashingApps = clashingApps
  AppConfigs <- MCAppConfigs
  Uses <- MCUses
  Conflicting = {clashingApps}
  Certs = {c1}
  c1 = c1
  Pems = {pem1, pem2}
  pem1 = pem1
  pem2 = pem2
  Contents = {hooked, bare, snip}
  Hooked = {hooked}
  hooked = hooked
  bare = bare
  snip = snip
  Drafts <- MCDrafts
  ValidationCommand = TRUE
  ReloadCommand = TRUE
  InitialHistories <- OldHistories
  MaxRequests = 2
  MaxEdits = 2
  MaxFaults = 1
  Absent = Absent
INVARIANTS
  TypeOK
  RecordedSnapshotsAreSelfContained
  ReloadSeesThePublication
PROPERTIES
  ImplementsPublication
CHECK_DEADLOCK FALSE
