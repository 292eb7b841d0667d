SPECIFICATION Spec
CONSTANTS
  Tags <- MCTags
  Letters <- MCLetters
  Refs <- MCRefs
  Null = "Null"
  Eof = "Eof"
INVARIANTS
  TypeOK
  AttrAtHand
  InPlace
  EveryCharacterRead
  KeptIfPlain
PROPERTY
  Ends
