CONSTANTS
  Endpoints = {e1}
  NoEndpoint = NoEndpoint
  Planes = {k1, k2}
  NoPlane = NoPlane
  Buses = {b1}
  NoBus = NoBus
  Callers = {c1}
  Scanners = {}
  Listeners = {l1}
  Cap = 1
  MaxBatch = 1
SPECIFICATION MCFairSpec
PROPERTIES
  ConnectNotifies
CHECK_DEADLOCK FALSE
