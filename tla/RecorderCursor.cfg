SPECIFICATION Spec
CONSTANTS
  Sigs = {"s1"}
  Outcomes <- MCOutcomes
  MaxDecisions = 2
  MaxStarts = 1
  MaxErrors = 1
INVARIANTS CursorReceived
CHECK_DEADLOCK FALSE
