SPECIFICATION FairSpec
CONSTANTS
  Requests = {"SetAddress", "SetConfiguration", "SetLineEncoding", "GetDescriptor", "GetLineEncoding", "GetStatus", "Unknown"}
  DataEndpoints = {"data"}
  SetUps <- MCSetUpsShort
  MaxAbandoned = 0
  MaxNest = 2
CHECK_DEADLOCK FALSE
PROPERTIES
  InterruptsEnd
  NoMutualWait
