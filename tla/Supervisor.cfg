SPECIFICATION FairSpec
CONSTANTS
  Service = service
  t1 = t1
  Terminals = {t1}
  NoEngine = NoEngine
  MaxBackoff = 3
  LongRun = 3
  Patience = 3
  MaxPairings = 2
  MaxFaults = 3
INVARIANTS TypeOK OwnPolicy OutageBounded
PROPERTY Governed
