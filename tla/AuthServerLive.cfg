SPECIFICATION FairSpec
CONSTANTS
  Tag = {a, b}
  NoFile = NoFile
  Window = 1
  MinTags = 1
  QueueDepth = 1
PROPERTIES
  ForceServed
  ImplementsPolicy
