SPECIFICATION Spec
CONSTANTS
  MaxTime = 3
  MaxTask = 2
  MaxSession = 2
  MaxPlayer = 2
  Wait = 2
  Network = {"lose", "reorder", "late", "stranger", "unreachable", "gone"}
  Users = {"hang up", "reset", "pipeline", "huge id", "abort"}
INVARIANTS
  TypeOK
  TitlesMatchAlarms
  NeverPopsEmpty
  DroppedInTime
  AnswersShift
  UnexpectedIsStray
PROPERTIES
  NotTooSoon
