CONSTANTS
  Conns = {c1, c2}
  NoConn = NoConn
  Senders = {s1}
  NoSender = NoSender
  Deadline = {s1}
  MaxSends = 1
  Rendered = {}
SPECIFICATION MCFairSpec
PROPERTIES
  ReplacedIsClosed
CHECK_DEADLOCK FALSE
