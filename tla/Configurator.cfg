SPECIFICATION MCSpec
CONSTANTS
  StartRange = {2, 3}
  StopRange = {1, 2}
  Defaults <- DefaultPair
  Stored0 <- StoredPairs
  Absent = Absent
  MaxSeq = 12
  MaxDrawn = 6
  HelloAttempts = 3
  Attempts = 2
  MaxClicks = 3
  MaxEdits = 1
  MaxFaults = 2
  Modules = {"ecu", "clocks"}
  Builds = {20, 21}
  PerVersion = 10
  Installed = {10}
  Broken = Broken
  MaxRebuilds = 1
  MaxHands = 1
INVARIANTS  ReportedIsDone UndisturbedIsExact
PROPERTY UpdateEnds

CHECK_DEADLOCK FALSE
