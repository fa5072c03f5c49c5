SPECIFICATION MCSpec
CONSTANTS
  Width = 6
  Attempts = 2
  Overlap = 1
  Publications = 4
  Top = 3
  Slew = 1
  Commands = {1, 2}
  Period = 2
  Late = 3
  ReadTime = 1
  Cutoff = 3
  Polls = 4
  MinPolls = 2
  Samples = 2
INVARIANTS WholeCopies OutcomesAreTrue PowerNeedsFeedback ChannelFollowsMemory
PROPERTIES StopIsPublished DemandsAreCurbed RestReleases
