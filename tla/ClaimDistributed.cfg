SPECIFICATION Spec
CONSTANTS
  Hosts <- MCHosts3
  ShareholderHosts <- MCList3
  UseHosts <- MCOrder3
  NParties = 3
  Threshold = 2
  K = 2
  MaxEpoch = 1
  DealerTries = 1
  MaxCrash = 0
  NTrials = 1
  Beside = {}
  MaxLag = 0
  Leftover <- MCNothing
  FileTries = 1
  CoordTries = 1
  MaxCoordRuns = 1
INVARIANT AllSharesDistributed
CHECK_DEADLOCK FALSE
