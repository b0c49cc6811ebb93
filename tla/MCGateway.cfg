\* Inputs, links, crashes, failing saves and stalls of the loop: what
\* survives, what reaches the disk, and does the loss of every link release?
SPECIFICATION MCFairSpec
CONSTANTS
  c1 = c1
  c2 = c2
  Centres <- MCCentres
  OnLinkLoss = "release"
  ReleaseAfter = 2
  PersistEvery = 2
  StepLengths <- MCSteps
  FeedInLimits <- MCFeedInLimits
  Full = 100
  Configured <- MCBothInputs
  InputLimits <- MCNoInputLimits
  None = None
INVARIANTS ObeyedSurvivesPowerCut InputsLeaveNoTrace
PROPERTIES CommandsReachTheDisk LossLiftsAllButEmergencies
