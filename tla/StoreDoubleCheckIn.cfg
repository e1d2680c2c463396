SPECIFICATION Spec
CONSTANTS
  r101 = r101
  r102 = r102
  Room = {r101, r102}
  UnknownRoom = UnknownRoom
  RequestId = {1, 2, 3, 4}
  StayMode = {}
  Time = {1}
  Minutes = {3}
  Amount = {0, 2}
  Commands = {"start_cleaning", "finish_cleaning", "open_room"}
  MaxBooked = 3
  DayLength = 2
  MonthDays = 2
INVARIANTS
  OneGuestPerRoom
