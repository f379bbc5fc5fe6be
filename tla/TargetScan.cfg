\* Every tree of three nodes under the target, every budget that can bite.
SPECIFICATION Spec
CONSTANTS
  MaxNode = 3
  MCKinds = {"dir", "file", "inert", "other"}
  MaxFiles = {1, 9}
  MaxDepths = {0, 1, 9}
  MaxBytes = {0, 2}
  MaxEntries = {2, 9}
  Sizes = {1, 3}
  StreamCap = 2
  Root = 0
  Nodes <- MCNodes
  Trees <- MCTrees
  Budgets <- MCBudgets
INVARIANTS
  CleanMeansChecked
PROPERTIES
  ScanAdvances
