SPECIFICATION Spec
CONSTANTS
  Run = {r1, r2}
  Content = {"a", "a name"}
  Clean = {"a"}
  Seeds <- MCSeeds
  Endings <- MCEndings
  Limit = 2
  MaxTries = 2
  MaxDeaths = 1
SYMMETRY Symmetry
PROPERTY RetiredStaysRetired
INVARIANT ActiveIsAboveThreshold
INVARIANT FeedbackFollowsVerdict
CHECK_DEADLOCK FALSE
