SPECIFICATION PartsSpec
CONSTANTS
  MaxOut = 4
  MaxIn = 4
  Faults = {"early send", "taken", "dropped", "unreachable", "full"}
  Text <- MCText
  Argument <- MCArgument
  Payload <- MCPayload
  MaxItem = 4
  Signal = {"s1", "s2"}
  Slot = {"a", "b", "c"}
  MaxLinks = 3
  None = "none"
INVARIANTS
  PollerKnows
  LinesAsMeant
  CutAtCrlf
  LinksMutual
PROPERTIES
  IsStream
