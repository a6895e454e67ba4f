SPECIFICATION Spec
CONSTANTS
  Tag = {a, b}
  NoFile = NoFile
  Window = 2
  MinTags = 1
  QueueDepth = 1
PROPERTY ListedNotDenied
