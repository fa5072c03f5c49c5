SPECIFICATION MCSpec
CONSTANTS
  Slots = 1
  MoreSlots = 3
  Speeds = {1, 2}
  Spacing = 1
  Retry = 1
  Heartbeat = 2
  Ring = 2
  Timeout = 6
  Check = 7
  Confirm = 3
  Over = 2
  Settle = 0
  DataTimeout = 2
  SpeedTimeout = 1
  Period = 2
  Repeat <- RepeatTicks
  Length <- MelodyTicks
INVARIANTS SpeedIsRecent TurnsAreKept FailureShows NoLongSilence
PROPERTIES LossIsTolerated ClusterSettles
