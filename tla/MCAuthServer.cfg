SPECIFICATION Spec
CONSTANTS
  Tag = {a, b}
  NoFile = NoFile
  Window = 2
  MinTags = 1
  QueueDepth = 2
SYMMETRY Symmetry
INVARIANT TypeOK
PROPERTIES
  GrantListed
  NoRepeat
  QueuedIgnored
  ForceAnswered
  ForceOnce
