CONSTANTS
  Endpoints = {e1}
  Ports = {p1, p2}
  NoPort = NoPort
  Callers = {c1, c2}
  Listeners = {l1}
  Cap = 1
SPECIFICATION FairSpec
INVARIANTS
  OneOwner
  InClosedWithOut
PROPERTIES
  ImplementsListening
  DisconnectReturns
CHECK_DEADLOCK FALSE
