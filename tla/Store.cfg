SPECIFICATION Spec
CONSTANTS
  r101 = r101
  r102 = r102
  Room = {r101, r102}
  UnknownRoom = UnknownRoom
  RequestId = {1, 2, 3, 4}
  StayMode = {}
  Time = {3, 4}
  Minutes = {3}
  Amount = {2}
  Commands = {"finish_cleaning", "open_room"}
  MaxBooked = 4
  DayLength = 2
  MonthDays = 2
INVARIANTS
  TypeOK
  BusinessRowsAudited
  RequestsBookedOnce
  PaymentsNameOwnStay
  StayAmountIsBooked
  NothingUnreported
  MonthIsItsDays
  SummaryTallies
  SheetsReconcile
PROPERTIES
  EndedStaysFinal
  LaterWorkbooksKeep
SYMMETRY
  RoomSymmetry
