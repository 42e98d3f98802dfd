SPECIFICATION Spec
CONSTANTS
  Hosts <- MCHosts2
  ShareholderHosts <- MCList2
  UseHosts <- MCList2
  NParties = 2
  Threshold = 2
  K = 2
  MaxEpoch = 1
  DealerTries = 1
  MaxCrash = 0
  NTrials = 2
  Beside = {"beside"}
  MaxLag = 2
  Leftover <- MCOldRows
  FileTries = 1
  CoordTries = 1
  MaxCoordRuns = 2
INVARIANT ResultsAsWritten
CHECK_DEADLOCK FALSE
