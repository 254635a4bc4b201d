SPECIFICATION Spec
CONSTANTS
  Parts = {"calls", "queries", "values"}
  Calls = {call1, run1, run2}
  Runs = {run1, run2}
  Signalled = {run1, run2}
  Endless = {run1}
  Unsendable = {init, call1, run2}
  InitReq = init
  Threads = 2
  a1 = a1
  a2 = a2
  a3 = a3
  main = main
  sub = sub
  Unlimited = Unlimited
  Activations = {a1, a2, a3}
  Modules = {main, sub}
  Main = main
  ModuleOf <- MCModuleOf
  Rank <- MCRank
  Limits = {0, 1, 2, 3, Unlimited}
  MaxDepth = 2
  RunBatchSize = 2
  Nobody = Nobody
  CapiThreads = {t1, t2}
  Channels = {"stdout"}
  Texts = {"a", "nul"}
  NulTexts = {"nul"}
  MaxAlloc = 1
  MaxNest = 2
  Names = {"x"}
  Kinds = {"template", "slot", "focus"}
  MaxLen = 2
  MaxFacts = 2
  FactShapes <- MCFactShapes
  Opaque = {"void"}
  MaxCap = 2
  Cells = {1, 2, 3}
  Heaps <- MCHeaps
  Values <- MCValues
  MaxCopyDepth = 2
  MaxHostDepth = 2
  MaxItems = 3
SYMMETRY Symmetry
INVARIANTS
  CallsContained
  MemoryKept
CHECK_DEADLOCK FALSE
