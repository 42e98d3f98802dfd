SPECIFICATION MCSpec
CONSTANTS
  Q = 5
  VectorDim = 2
  NParties = 3
  Threshold = 2
  NoiseBound = 1
  Secrets <- MCSecrets
  Coeffs <- MCCoeffs
  Us <- MCUs
  ExperimentTrials = 2
  HostList <- MCHostList
  UseLists <- MCUseLists
  Ks = {2, 3}
  NTrials = 2
  LateHosts = {"sh1"}
  MaxDealings = 2
  MaxRuns = 1
  MaxDeaths = 1
INVARIANT ExperimentRecovers
INVARIANT RowHoldsProduct
INVARIANT TrialsAccounted
CHECK_DEADLOCK FALSE
