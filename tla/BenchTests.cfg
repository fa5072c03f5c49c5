SPECIFICATION MCSpec
CONSTANTS
  Attempts = 2
  Setpoints <- TwoSteps
  Named = {"top"}
  Driver = {1}
  MaxCommands = 2
INVARIANT FixtureRunsOnce
PROPERTIES UnsupervisedStops ResultsAreOwn MoveIsAnnounced
