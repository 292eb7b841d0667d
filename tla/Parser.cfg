SPECIFICATION Spec
CONSTANTS
  Pages <- MCPages
  Values <- MCValues
  Names <- MCNames
  Open <- MCOpen
  Close <- MCClose
  GoExprs <- MCGoExprs
INVARIANTS
  TypeOK
  InOrder
  WordsKept
  SymbolsAct
  Balanced
PROPERTIES
  Ends
