CONSTANTS
  Endpoints = {e1}
  Sockets = {k1}
  NoSocket = NoSocket
  Callers = {c1}
  Listeners = {l1}
  Cap = 1
  Packets <- MCAnswers
  MaxBatch = 1
  Sayings = {}
  Company = {}
  MaxSent = 0
  Strays = {}
SPECIFICATION MCSpec
INVARIANTS
  RenewedWhileOpen
CHECK_DEADLOCK FALSE
