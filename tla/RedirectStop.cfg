SPECIFICATION Spec
CONSTANTS
  Guards = {"guard"}
  Repairs = {}
  Supported = {"v4"}
  MaxFailures = 0
  MaxKills = 0
INVARIANTS StopTearsDown
