CONSTANTS
  a = a
  b = b
  s1 = s1
  s2 = s2
  s3 = s3
  h1 = h1
  h2 = h2
  t1 = t1
  Clients = {a}
  Sockets = {s1, s2}
  UIClients = {}
  Owner <- MCOwner
  Channels = {h1}
  Tools = {}
  None = None
  DetachGrace = 0
  RemoveDelay = 1
  ReconnectGrace = 2
  History = 0
  MaxJournal = 0
SPECIFICATION Spec
PROPERTY
  HubOutlivesConnections
CHECK_DEADLOCK FALSE
