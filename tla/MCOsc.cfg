CONSTANTS
  Endpoints = {e1}
  Sockets = {k1, k2}
  NoSocket = NoSocket
  Callers = {c1, c2}
  Listeners = {l1}
  Cap = 1
  Packets <- MCPackets
  MaxBatch = 2
  Sayings <- MCSayings
  Company <- MCCompany
  MaxSent = 3
  Strays = {0, 4, 73, 255}
SPECIFICATION MCFairSpec
INVARIANTS
  TypeOK
  OneOwner
  RoundTrip
  CutOnlyLoses
  NeverBeyond
PROPERTIES
  ImplementsListening
  DisconnectStopsListen
  NoGoroutineLeft
CHECK_DEADLOCK FALSE
