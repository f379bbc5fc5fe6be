\* The path comes to name another file and back, the file is written to, or both.
SPECIFICATION Spec
CONSTANTS
  NoFile = NoFile
  Files = {f1, f2}
  Ruleset <- MCRuleset
  ContentRules <- MCContentRules
  AnchorRules <- MCContentRules
  MaxChanges = 2
SYMMETRY FileSymmetry
INVARIANTS
  OneObject
  OneProvenance
  HighMeansAnswered
