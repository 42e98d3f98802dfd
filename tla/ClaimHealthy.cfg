SPECIFICATION Spec
CONSTANTS
  Hosts <- MCHosts2
  ShareholderHosts <- MCList2
  UseHosts <- MCList2
  NParties = 2
  Threshold = 2
  K = 2
  MaxEpoch = 1
  DealerTries = 1
  MaxCrash = 0
  NTrials = 1
  Beside = {}
  MaxLag = 0
  Leftover <- MCNothing
  FileTries = 1
  CoordTries = 1
  MaxCoordRuns = 1
PROPERTY WarnsOnlyAboutDown
CHECK_DEADLOCK FALSE
