SPECIFICATION Spec
CONSTANTS
  MaxOut = 2
  MaxIn = 3
  MaxAddr = 2
  Chunk = 2
  Calls = {}
  Resets = FALSE
PROPERTIES
  OrderlyCloseKeepsData
