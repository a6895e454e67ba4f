SPECIFICATION FairSpec
CONSTANTS
  DataEndpoints = {"in", "out"}
  BankSize = 2
  USB_STREAM_TIMEOUT_MS = 1
  MaxReport = 3
  MaxCommand = 2
INVARIANTS
  TypeOK
  AccessesRight
  ReportsAccounted
  CommandsAccounted
PROPERTIES
  LoopRuns
