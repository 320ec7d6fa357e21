SPECIFICATION Spec
CONSTANTS
  MaxTime = 4
  MaxTask = 3
INVARIANTS
  TypeOK
  MapsAgree
  NoRearmInSameRefresh
PROPERTY ImplementsTimers
