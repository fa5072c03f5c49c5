SPECIFICATION MCSpec
CONSTANTS
  N = 1
  L = 1
  Times = {0, 1}
  Details = {0}
  MaxClears = 1
  MaxResets = 1
  MaxFaults = 2
  StoreOutcomes = {TRUE}
  TornTimes = {"utc"}
INVARIANTS SettledIsDurable AcknowledgedHolds MarkerMeansUtc
PROPERTIES QueuedWorkDrains FaultGoesAway TimeSettles
