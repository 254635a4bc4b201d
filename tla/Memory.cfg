SPECIFICATION Spec
CONSTANTS
  Parts = {"agenda", "handles", "addresses", "query", "registries", "file"}
  Matches <- MCMatches
  MaxLive = 3
  MaxSeq = 4
  Facts <- MCFacts
  InitialFact <- MCInitial
  Hash <- MCHash
  Seeds <- MCSeeds
  MaxTs = 3
  PruneSlack = 0
  MaxEpoch = 1
  MaxHandles = 1
  MaxAddresses = 1
  Members <- TwoMembers
  QueryMaxEpoch = 1
  Budget = 7
  Rels = {"p", "q"}
  Keys = {"a", "b"}
  Multi = "m"
  Defs <- MCDefs
  MaxFacts = 3
  MaxInstalls = 2
  Threshold = 2
  RankMax = 2
  MaxPath = 4
  Parents = {"p1", "p2"}
  BlockFacts = {"f1", "f2"}
  Results = {"r1", "r2", "r3"}
  OwnerOf <- MCOwnerOf
  RankOf <- MCRankOf
  OrderMax = 7
  BlockStart = 5
  MaxTaken = 4
  SequenceValues = {0, 1}
  SlotKinds <- MCSlots
  MaxLength = 3
  MaxFields = 3
  MaxTests = 2
  TestKinds = {"key", "same", "any", "join"}
  Names = {"p", "q"}
  MaxModules = 2
  MaxSlots = 3
  MaxChanges = 4
  Payloads <- MCPayloads
  Forged <- MCForged
  MaxBytes = 6
  MaxSteps = 4
  MaxDepth = 2
PROPERTIES AgendaOrdered FactsDesignated SnapshotsFaithful
CHECK_DEADLOCK FALSE
