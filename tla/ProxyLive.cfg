SPECIFICATION FairSpec
CONSTANTS
  Conns = {c1, c2}
  Names <- MCNames2
  Lower <- MCLower
  Essential = {"llm"}
  Passthrough = {}
  Pinned = {"llm", "LLM"}
  Methods = {"read"}
  OpaStates <- MCOpaStates
  c1 = c1
  c2 = c2
PROPERTIES LearnedIsServed
