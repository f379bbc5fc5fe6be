\* Every tree of three nodes under a root, split under every limit that can bite; four
\* plans scanned by two workers.
SPECIFICATION Spec
CONSTANTS
  MaxNode = 4
  FileLimits = {1, 2, 3}
  ByteLimits = {2, 4}
  StreamCap = 2
  Nodes <- MCNodes
  Verdicts <- MCVerdicts
  Invocations <- MCInvocations
INVARIANTS
  PlanAccounts
  PoolComplete
  PassedMeansNoWorse
