CONSTANTS
  c1 = c1
  c2 = c2
  p1 = p1
  p2 = p2
  b1 = b1
  b2 = b2
  Calls = {c1, c2}
  Tasks = {p1}
  Containers = {b1, b2}
  Reaper = Reaper
  None = None
SPECIFICATION Spec
SYMMETRY MCAlike
INVARIANTS
  TypeOK
  RowNamesSandbox
  IdleClientCameLate
  
PROPERTIES
  OnlyLateWritersUnarchive
CHECK_DEADLOCK FALSE
