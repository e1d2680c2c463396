SPECIFICATION Spec
CONSTANTS
  r101 = r101
  h1 = h1
  h2 = h2
  Handler = {h1, h2}
  Room = {r101}
  RequestId = {1, 2}
  StayMode = {"temporary"}
  Offered = {"check_in", "check_out", "extend_stay", "receive_payment"}
  Modes = {"temporary"}
  Minutes = {2}
  Amount = {1}
  AuditCap = 1
  Time = {1}
  Faults = {"transport", "loss", "database", "crash"}
INVARIANTS
  TypeOK
  
  AuditLogComplete
  
PROPERTIES
  ImplementsDesk
SYMMETRY
  HandlerSymmetry
