SPECIFICATION FairSpec
CONSTANTS
  Hosts <- MCHosts3
  ShareholderHosts <- MCList3
  UseHosts <- MCOrder3
  NParties = 3
  Threshold = 2
  K = 2
  MaxEpoch = 1
  DealerTries = 1
  MaxCrash = 1
  NTrials = 2
  Beside = {}
  MaxLag = 0
  Leftover <- MCNothing
  FileTries = 2
  CoordTries = 1
  MaxCoordRuns = 1
INVARIANT TypeOK
INVARIANT SingleDealingRecovers
INVARIANT FailedTrialExplained
INVARIANT CoalitionBelowThreshold
INVARIANT CombinesDistinctPoints
PROPERTY ImplementsService
PROPERTY DealerExits
PROPERTY CoordExits
CHECK_DEADLOCK FALSE
