SPECIFICATION MCSpec
CONSTANTS
  Hz = {1, 3, 4, 8}
  Band = {1, 3}
  Track = 2
  Tolerance = 0
  LockWindows = 2
  MinTime = 1
  MaxTime = 2
  VerifyTime = 2
  VerifyDrift = 3
  ZeroEnter = 1
  ZeroExit = 2
  ReleaseWindows = 2
  Loss = 1
  Windows = 2
INVARIANTS EstimateNearCandidate WindowIsCurrent SampleIsOneWindow
PROPERTIES VerifiedInOnePiece SpikesHeld BaselineComes
