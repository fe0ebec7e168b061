SPECIFICATION Spec
CONSTANTS
  Documents <- MCDocuments
  Char <- MCChar
INVARIANTS
  TypeOK
  WholeIsRead
  CutIsPrefix
PROPERTIES
  EveryTurnAdvances
