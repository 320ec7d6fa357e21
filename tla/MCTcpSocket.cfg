SPECIFICATION Spec
CONSTANTS
  MaxOut = 3
  MaxIn = 3
  MaxAddr = 2
  Chunk = 2
  Calls = {"reset", "shutdown", "early send", "late send"}
  Resets = TRUE
INVARIANTS
  TypeOK
  DiesOnlyOf
  PollerKnows
PROPERTIES
  IsStream
  ConnectResolves
  Flushed
  EndNoticed
