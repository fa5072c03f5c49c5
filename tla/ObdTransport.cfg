SPECIFICATION Spec
CONSTANTS
  Frames = 3
  Wrap = 2
  Buffers = 2
  Blocks = {0, 1, 2}
  MaxRequests = 3
  MaxWaits = 1
PROPERTIES AnswersAreWhole WithinGrant TransferEnds
