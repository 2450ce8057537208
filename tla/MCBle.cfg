CONSTANTS
  Endpoints = {e1}
  NoEndpoint = NoEndpoint
  Planes = {k1, k2}
  NoPlane = NoPlane
  Buses = {b1, b2}
  NoBus = NoBus
  Callers = {c1, c2}
  Scanners = {s1, s2}
  Listeners = {l1}
  Cap = 1
  MaxBatch = 2
SPECIFICATION MCFairSpec
INVARIANTS
  OneOwner
  NoTornWrite
  NotifiedForSomebody
  ScansForSomebody
PROPERTIES
  ListenIsSafe
  ListenCloses
CHECK_DEADLOCK FALSE
