SPECIFICATION Spec
CONSTANTS
  Environments <- MCEnvironments
  MaxForeign = 1
  MaxFaults = 1
  MaxRuns = 2
  MaxResets = 1
  Requests <- MCRequests
  MaxReports = 1
INVARIANTS TypeOK ConfigIsUsable VerifyPasses
PROPERTIES PreBuildConfigures VerifyCatches
CHECK_DEADLOCK FALSE
