CONSTANTS
  Conns = {c1, c2}
  NoConn = NoConn
  Senders = {s1, s2}
  NoSender = NoSender
  Deadline = {s1}
  MaxSends = 1
  Rendered <- MCRendered
SPECIFICATION MCFairSpec
INVARIANTS
  TypeOK
  HubHoldsLatest
  WritesToHolder
  NoGhostBrain
  EmitsAsPlayed
PROPERTIES
  ImplementsSlot
  ForgetsGoneBrain
  HandlersFinish
CHECK_DEADLOCK FALSE
