SPECIFICATION RingSpec
CONSTANTS
  Operands <- MCOperands
  InBound = 3328
  Groups <- MCGroups
  Messages <- MCMessages
  Noises <- MCNoises
INVARIANT ProductInRing
INVARIANT CoefficientsFit
INVARIANT ExactOnWire
INVARIANT CompressionError
INVARIANT MessageSurvives
CHECK_DEADLOCK FALSE
