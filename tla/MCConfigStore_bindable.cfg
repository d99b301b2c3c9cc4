SPECIFICATION Spec
CONSTANTS
  Requests = {p1}
  Backends = {"postgres"}
  OldSites = {}
  MaxApplications = 1
  MaxCertificates = 0
  MaxRules = 1
  MaxPolicies = 1
  MaxRequests = 3
  MaxFaults = 0
INVARIANTS ApplicationsAreBindable
CHECK_DEADLOCK FALSE
