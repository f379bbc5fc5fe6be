\* Every zip of the families, every limit, the three rules in every order.
SPECIFICATION Spec
CONSTANTS
  Units <- MCUnits
  Limits <- MCLimits
  Files <- MCFiles
  Kinds <- MCKinds
  EntryCost = 1
  SearchLen = 4
INVARIANTS
  CleanHidesNothing
  PromiseKept
PROPERTIES
  MeteredSpec
