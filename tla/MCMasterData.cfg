SPECIFICATION Spec
CONSTANTS
  MaxTime = 3
  MaxTask = 2
  MaxSession = 2
  MaxPlayer = 2
  Wait = 2
  Network = {"late"}
  Users = {}
INVARIANTS
  RobustToData
