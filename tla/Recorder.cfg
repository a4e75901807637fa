SPECIFICATION FairSpec
CONSTANTS
  Sigs = {"s1"}
  Outcomes <- MCOutcomes
  MaxDecisions = 3
  MaxStarts = 2
  MaxErrors = 1
INVARIANTS TypeOK QueueLinked CollapsedIsQueued ChainVerifies
PROPERTIES ImplementsAuditChain NothingDropped CursorAdvances QueuedRowSettles
CHECK_DEADLOCK FALSE
