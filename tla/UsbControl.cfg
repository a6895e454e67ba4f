SPECIFICATION Spec
CONSTANTS
  Requests = {"SetAddress", "SetConfiguration", "Unconfigure"}
  DataEndpoints = {"in", "out"}
  SetUps <- MCSetUps
  MaxAbandoned = 1
  MaxNest = 2
CHECK_DEADLOCK FALSE
INVARIANTS
  TypeOK
  HandlerOnControl
  ConfiguredReady
PROPERTIES
  ImplementsSession
