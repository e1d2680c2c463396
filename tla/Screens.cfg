SPECIFICATION FairSpec
CONSTANTS
  r101 = r101
  s1 = s1
  Screen = {s1}
  Room = {r101}
  Request = {1, 2}
  Command = {"check_in", "check_out"}
  Scenario = {"backend", "normal", "delayed-room-update", "delayed-room-update-recover", "sse-drop-after-full-state"}
  Kind = {"desk", "dashboard"}
  Capacity = 2
INVARIANTS
  TypeOK
  
  PendingIsOwed
  AuditListFollows
PROPERTIES
  PendingSettles
CHECK_DEADLOCK FALSE
