SPECIFICATION Spec
CONSTANTS
  Conns = {c1, c2}
  Names <- MCNames3
  Lower <- MCLower
  Essential = {"llm"}
  Passthrough = {"app"}
  Pinned = {"llm", "app"}
  Methods = {"read"}
  OpaStates <- MCOpaStates
  c1 = c1
  c2 = c2
SYMMETRY MCSymmetry
INVARIANTS TypeOK UninspectedByRule VerdictInForce RecordedFirst
PROPERTY ImplementsGate
