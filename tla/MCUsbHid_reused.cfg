CONSTANTS
  Endpoints = {e1, e2}
  Fds = {f1}
  NoEndpoint = NoEndpoint
  NoFd = NoFd
  NoFile = NoFile
  Foreign = Foreign
  Callers = {c1, c2}
  Listeners = {}
  Cap = 1
SPECIFICATION Spec
INVARIANTS
  NeverAnothersNode
CHECK_DEADLOCK FALSE
