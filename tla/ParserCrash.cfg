SPECIFICATION Spec
CONSTANTS
  Pages <- MCPages
  Values <- MCValues
  Names <- MCNames
  Open <- MCOpen
  Close <- MCClose
  GoExprs <- MCGoExprs
INVARIANT
  ErrorsAreSyntaxErrors
