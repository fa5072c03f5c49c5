SPECIFICATION FramesSpec
CONSTANTS
  Slots = 2
  Speeds = {1, 2}
  Spacing = 2
  Retry = 10
  Heartbeat = 100
  Pause = 1
  EdgeGap = 1
PROPERTY StatusGoesOut
