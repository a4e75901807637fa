SPECIFICATION Spec
CONSTANTS
  Systems = {"linux", "darwin"}
  Lines = {"l1"}
  MaxPairings = 2
  MaxVersions = 2
  MaxFaults = 2
INVARIANTS TypeOK WiredIsServable LinesKept CleanUninstall InitUnhindered InitTakesEffect RepairRestores
