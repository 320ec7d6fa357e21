SPECIFICATION Spec
CONSTANTS
  MetaInts = {0, 1, 2}
  Default = 2
  Unit = 2
  Segment = 3
  MaxHeader = 2
  MaxAudio = 4
INVARIANTS
  TypeOK
  TasksOwned
  InSync
  AudioInChunks
  TitleCurrent
