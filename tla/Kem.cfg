SPECIFICATION Spec
CONSTANTS
  Q = 3329
  N = 3
  Threshold = 2
  Uniform = {17, 1664, 3328}
  Noise <- MCNoise
  Coeffs = {1, 2500}
  Flips <- MCFlips
INVARIANT RoundTrip
INVARIANT ChangedIsRejected
INVARIANT ThresholdAgrees
CHECK_DEADLOCK FALSE
