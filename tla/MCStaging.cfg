CONSTANTS
  Probes = {p1, p2}
  Reports = {r1}
  Ids = {i1}
  Stamps = {t1}
  NoPath = NoPath
  NoFile = NoFile
  Half = Half
  MaxCrashes = 1
SPECIFICATION FairSpec
INVARIANTS
  TypeOK
  NeverHalfWritten
  TempCleanedUp
PROPERTIES
  ImplementsShelf
  ServeWindsUp
CHECK_DEADLOCK FALSE
