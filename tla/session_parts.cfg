CONSTANTS
  MaxDials = 2
  MaxContents = 1
  MaxEvents = 7
  MaxWatched = 5
  Texts = {101}
  Terminals = {t1}
  PiModels = {m1, m2}
  BadModels = {m3}
  Switches = {1, 2}
  MaxChoices = 3
  Calls = {1, 2}
  Handles = {1, 2}
  VMs = {1, 2}
  Lines = {1, 2}
  Callers = {1}
  Prompts = {"p1", "p2"}
  Shells = {"b"}
  Requests = {1, 2}
  MaxWork = 2
  DeviceTools = {"a"}
  MaxRequests = 3
SPECIFICATION PartsSpec
INVARIANTS
  PartsTypeOK
  
  
  
  
  SaidOnce
  OnlyLateShellsLeak
  OnlyDoubtfulSwitchesMislead
  BridgeIsTruthful
  

  
  
CHECK_DEADLOCK FALSE
