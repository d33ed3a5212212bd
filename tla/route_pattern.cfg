SPECIFICATION Spec
CONSTANTS
  MaxLength = 6
  Paths <- AllPaths
INVARIANTS
  TypeOK
  VerdictRight
  SplitRight
