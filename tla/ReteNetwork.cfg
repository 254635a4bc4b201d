SPECIFICATION FairSpec
CONSTANTS
  a1 = a1
  a2 = a2
  b1 = b1
  b2 = b2
  c1 = c1
  NoFact = NoFact
  Facts = {a1, b1, b2, c1}
  Networks <- MCNetworks
  Passes <- MCPasses
INVARIANTS
  MatchExact
  ActivationsExact
  TablesSettled
PROPERTY
  Terminates
