SPECIFICATION Spec
CONSTANTS
  left = left
  right = right
  Tabs <- MCTabs
  MaxOpens = 1
  MaxBuilds = 3
CHECK_DEADLOCK FALSE
INVARIANTS
  TypeOK
  NoReloadLoop
PROPERTIES
  WokenPagesReload
  AbandonedWaitersEnd
