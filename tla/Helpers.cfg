SPECIFICATION HelpersSpec
CONSTANTS
  Q = 3329
  Inputs <- AllResidues
  MatrixN = 2
  MatrixK = 2
  Rate = 6
  FirstBlocks = 1
  MaxBlocks = 2
  Blocks <- MCBlocks
  LowBytes <- MCLowBytes
  Words <- MCWords
INVARIANT Bezout
INVARIANT InverseFound
PROPERTY Shrinks
INVARIANT SamplingBounds
INVARIANT MatrixFromSeed
INVARIANT StarvedOnlyShort
PROPERTY SamplingEnds
INVARIANT UniformDraw
INVARIANT NoiseIsBinomial
CHECK_DEADLOCK FALSE
