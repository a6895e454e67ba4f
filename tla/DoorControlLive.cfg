SPECIFICATION FairSpec
CONSTANTS
  ByteValues = 4
  DOOR_CLOSE_TIME_MS = 10
  DOOR_OPEN_TIME_MS = 9
  DOOR_RELAY_PULSE_MS = 2
  MaxLag = 1
  RxSize = 1
PROPERTIES
  KeepsClosing
  NoEarlyTimeout
