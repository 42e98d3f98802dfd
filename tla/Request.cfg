SPECIFICATION Spec
CONSTANTS
  Conns = {"c1", "c2"}
  Requests <- MCRequests
  MaxBody = 9
  Missing = Missing
  ShareBytes = 2
  CtBytes = 1
  MaxSent = 3
INVARIANT TypeOK
INVARIANT HoldsOneRequest
INVARIANT AnsweredAsSent
PROPERTY ImplementsServer
CHECK_DEADLOCK FALSE
