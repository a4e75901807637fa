SPECIFICATION Spec
CONSTANTS
  Systems = {"linux"}
  Lines = {"l1"}
  MaxPairings = 1
  MaxVersions = 2
  MaxFaults = 0
INVARIANTS UpdateTakesEffect
