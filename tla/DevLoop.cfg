SPECIFICATION Spec
CONSTANTS
  app = app
  sub = sub
  index = index
  about = about
  Files <- MCFiles
  Dirs <- MCDirs
  Root = app
  Parent <- MCParent
  Initial <- MCInitial
  MaxEdits = 2
  MaxSignals = 1
CHECK_DEADLOCK FALSE
INVARIANTS
  TypeOK
  OneApp
  RestartsHaveReasons
  CrashNeedsReload
PROPERTIES
  NoticedIsCompiled
  InterruptEnds
