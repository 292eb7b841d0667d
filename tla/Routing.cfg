SPECIFICATION Spec
CONSTANTS
  Names <- MCNames
  Index = "index"
  Slash = ""
  Dynamic <- MCDynamic
  Digits = {"4"}
  Reserved = {"static"}
  Segments <- MCSegments
  Regex <- MCRegex
  Pieces <- MCPieces
  Words <- MCWords
  Walk <- MCWalk
  Sorted <- MCSorted
  Ignored <- MCIgnored
  Partials <- MCPartials
  Paths <- MCPaths
  MaxEdits = 2
  MaxPages = 2
CHECK_DEADLOCK FALSE
INVARIANTS
  TypeOK
  PagesRouted
  StaticFirst
PROPERTY AnswersCome
