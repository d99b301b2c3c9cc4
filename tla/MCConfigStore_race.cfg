SPECIFICATION Spec
CONSTANTS
  Requests = {p1, p2}
  Backends = {"postgres"}
  OldSites = {}
  MaxApplications = 1
  MaxCertificates = 1
  MaxRules = 0
  MaxPolicies = 0
  MaxRequests = 3
  MaxFaults = 0
INVARIANTS CertificatesOfListenersExist
CHECK_DEADLOCK FALSE
