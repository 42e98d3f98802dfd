SPECIFICATION Spec
CONSTANTS
  Hosts <- MCHosts2
  ShareholderHosts <- MCList2
  UseHosts <- MCList2
  NParties = 2
  Threshold = 2
  K = 2
  MaxEpoch = 2
  DealerTries = 1
  MaxCrash = 0
  NTrials = 1
  Beside = {}
  MaxLag = 0
  Leftover <- MCNothing
  FileTries = 1
  CoordTries = 1
  MaxCoordRuns = 2
INVARIANT AckedShareHeld
INVARIANT WholePartial
INVARIANT KeyFilesMatch
INVARIANT FailedTrialExplained
PROPERTY ImplementsService
CHECK_DEADLOCK FALSE
