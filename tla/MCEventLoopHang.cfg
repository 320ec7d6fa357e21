SPECIFICATION Spec
CONSTANTS
  MaxTime = 5
  MaxTask = 2
  Socket = {s1, s2}
  TicksPerMs = 2
  MaxSleep = 4
PROPERTIES
  AlarmsRun
