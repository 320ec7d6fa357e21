SPECIFICATION Spec
CONSTANTS
  Listener = {"L"}
  Client = {"C"}
  Session = {"S1", "S2"}
  MaxFd = 4
  MaxEvents = 2
  MaxAddr = 2
  Aborts = TRUE
  NoSocket = "none"
INVARIANTS
  TypeOK
  Registered
  ReachesItsFile
  NothingDangles
PROPERTIES
  EveryoneServed
