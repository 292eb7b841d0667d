SPECIFICATION Spec
CONSTANTS
  Requests <- MCRequests
  Limited <- MCLimited
  MaxStarts = 2
  MaxSignals = 3
CHECK_DEADLOCK FALSE
INVARIANTS
  TypeOK
  RestartsBind
PROPERTIES
  SharedSocketKeepsClients
  ClientsGetAnswers
