SPECIFICATION Spec
CONSTANTS
  Q = 7
  N = 4
  Threshold = 3
  Ks = {3, 4}
  Secrets <- SmallSecrets
  Coeffs <- SmallCoeffs
  Factors = {1, 5}
INVARIANT CombineRecovers
INVARIANT BelowThresholdHides
CHECK_DEADLOCK FALSE
