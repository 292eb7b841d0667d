SPECIFICATION Spec
CONSTANTS
  s1 = s1
  s2 = s2
  contents = contents
  NoPanic = NoPanic
  Contents = contents
  SectionNames <- MCSections
  Layouts <- MCLayouts
CHECK_DEADLOCK FALSE
INVARIANTS
  TypeOK
  ReturnsLast
  NothingLost
  HangNeedsCause
PROPERTIES
  FittingPageReturns
  ImplementsPageReply
