SPECIFICATION Spec
CONSTANTS
  MaxTime = 5
  MaxTask = 2
  Wait = 2
  MaxCommand = 2
PROPERTIES
  EndsWithStream
