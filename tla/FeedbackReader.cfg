SPECIFICATION Spec
CONSTANTS
  MaxAge = 2
  Attempts = 2
  Numbers = 4
  Width = 11
  Phases = {0, 8}
  Horizon = 5
INVARIANTS FrozenFeedbackExpires AgeIsRight
CHECK_DEADLOCK FALSE
