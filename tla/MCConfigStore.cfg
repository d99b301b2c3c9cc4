SPECIFICATION Spec
CONSTANTS
  Requests = {p1, p2}
  Backends = {"memory", "postgres"}
  OldSites = {1}
  MaxApplications = 2
  MaxCertificates = 1
  MaxRules = 2
  MaxPolicies = 2
  MaxRequests = 5
  MaxFaults = 1
INVARIANTS TypeOK OnlyOverlapsLoseCertificates BindingsExist BindingsAreTheLastSave
           DeadlocksAreOverDeletedRules
CHECK_DEADLOCK FALSE
