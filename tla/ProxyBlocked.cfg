SPECIFICATION Spec
CONSTANTS
  Conns = {c1, c2}
  Names <- MCNames4
  Lower <- MCLower
  Essential = {"llm"}
  Passthrough = {"app"}
  Pinned = {"llm", "LLM", "app"}
  Methods = {"read"}
  OpaStates <- MCOpaStates
  c1 = c1
  c2 = c2
INVARIANTS OnlyRejectingBlocked
