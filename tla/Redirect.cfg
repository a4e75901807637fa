SPECIFICATION FairSpec
CONSTANTS
  Guards = {"guard"}
  Repairs = {"repair"}
  Supported = {"v4", "v6"}
  MaxFailures = 2
  MaxKills = 2
INVARIANTS TypeOK NeverStacked ServingGoverned CleanStop
PROPERTIES SelfHeals
