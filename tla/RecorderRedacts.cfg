SPECIFICATION Spec
CONSTANTS
  Sigs = {"s1", "s2"}
  Outcomes <- MCRedacted
  MaxDecisions = 2
  MaxStarts = 1
  MaxErrors = 1
PROPERTIES RedactsQueued
CHECK_DEADLOCK FALSE
