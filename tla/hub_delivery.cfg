CONSTANTS
  a = a
  b = b
  s1 = s1
  s2 = s2
  s3 = s3
  h1 = h1
  h2 = h2
  t1 = t1
  Clients = {a, b}
  Sockets = {s1, s3}
  UIClients = {a, b}
  Owner <- MCOwner
  Channels = {h1}
  Tools = {t1}
  None = None
  DetachGrace = 0
  RemoveDelay = 1
  ReconnectGrace = 2
  History = 1
  MaxJournal = 3
SPECIFICATION Spec
SYMMETRY MCSameClients
INVARIANTS
  StreamIsComplete
  OneClientIsAsked
CHECK_DEADLOCK FALSE
