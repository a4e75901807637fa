SPECIFICATION FairSpec
CONSTANTS
  p1 = p1
  p2 = p2
  Users = {p1, p2}
  Services = {p2}
  f1 = f1
  f2 = f2
  f3 = f3
  f4 = f4
  f5 = f5
  Files = {f1, f2, f3, f4, f5}
  NoFile = NoFile
  Chunks = 2
  MaxFaults = 2
INVARIANTS TypeOK EngineWhole CacheWhole
PROPERTY GetsGoing
