SPECIFICATION Spec
CONSTANTS
  ByteValues = 4
  DOOR_CLOSE_TIME_MS = 7
  DOOR_OPEN_TIME_MS = 6
  DOOR_RELAY_PULSE_MS = 2
  MaxLag = 2
  RxSize = 2
INVARIANTS
  TypeOK
  RelayDiscipline
  ReaderFollowsState
  TimerNeverWraps
  RelockDeadline
  EdgeLocks
PROPERTIES
  ImplementsLock
