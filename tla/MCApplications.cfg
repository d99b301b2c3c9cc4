SPECIFICATION Spec
CONSTANTS
  Width = 3
  Text <- SomeTexts
  Backends = {"memory", "postgres"}
  InitialStores <- SomeStores
  ApplicationBodies <- SomeApplications
  SiteBodies <- SomeSites
  EntryBodies <- SomeEntries
  ApplicationIds = {1, 2}
  SiteIds = {1, 2}
  EntryIds = {1, 2}
  CertificateIds = {1, 2}
  ListenerMode = "bridge-range"
  PortRange <- SomeRanges
  None = None
  MaxEdits = 2
  MaxReleases = 1
INVARIANTS StoredApplicationsValidate ReleasedRoutesReachUpstreams
  QuietReleasesServeEveryHost RollbackRendersTheSame AccessIndexAgreesWithList
  QuietApplicationsPassLaterChecks
CHECK_DEADLOCK FALSE
