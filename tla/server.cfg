SPECIFICATION Spec
CHECK_DEADLOCK FALSE
CONSTRAINT ClientsOrViewers
CONSTANTS
  Clients = {c1, c2}
  Viewers = {v1, v2}
  SocketFrames = 1
INVARIANT NothingCutOff
PROPERTIES
  StopReturns
  RequestServed
  ViewerServed
