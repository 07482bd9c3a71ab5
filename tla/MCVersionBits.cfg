SPECIFICATION Spec
CONSTANTS
  Blocks <- MCBlocks
  Period = 2
  Threshold = 2
  Deployments <- MCDeployments
  Histories <- MCHistories
  ALWAYS_ACTIVE = ALWAYS_ACTIVE
  NEVER_ACTIVE = NEVER_ACTIVE
INVARIANTS ReplySound SinceSound PossibleHonest
