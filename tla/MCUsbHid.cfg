CONSTANTS
  Endpoints = {e1, e2}
  Fds = {f1, f2}
  NoEndpoint = NoEndpoint
  NoFd = NoFd
  NoFile = NoFile
  Foreign = Foreign
  Callers = {c1, c2}
  Listeners = {l1}
  Cap = 1
SPECIFICATION FairSpec
INVARIANTS
  TypeOK
  OneOwner
PROPERTIES
  ImplementsListening
  NodeLossEndsListen
CHECK_DEADLOCK FALSE
