SPECIFICATION MCSpec
CONSTANTS
  Q = 5
  VectorDim = 2
  NParties = 3
  Threshold = 2
  NoiseBound = 1
  Secrets <- MCSecrets
  Coeffs <- MCCoeffs
  Us <- MCUs
  ExperimentTrials = 2
  HostList <- MCHostList
  UseLists <- MCOneList
  Ks = {2}
  NTrials = 1
  LateHosts = {}
  MaxDealings = 1
  MaxRuns = 1
  MaxDeaths = 0
INVARIANT MirrorsOriginal
CHECK_DEADLOCK FALSE
