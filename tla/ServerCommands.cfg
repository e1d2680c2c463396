SPECIFICATION Spec
CONSTANTS
  r101 = r101
  h1 = h1
  h2 = h2
  Handler = {h1}
  Room = {r101}
  RequestId = {1, 2, 3}
  StayMode = {"temporary"}
  Offered = {"check_in", "extend_stay", "start_cleaning", "finish_cleaning", "open_room"}
  Modes = {"temporary", ""}
  Minutes = {2}
  Amount = {0}
  AuditCap = 2
  Time = {1}
  Faults = {"crash", "bootstrap"}
INVARIANTS
  
  AuditLogComplete
  
VIEW
  Untold
