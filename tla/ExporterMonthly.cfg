SPECIFICATION FairSpec
CONSTANTS
  Day = {1, 2}
  End = 3
  MonthOf <- MCMonthOf
  MaxRows = 2
  Credentials = TRUE
  Faults = {}
PROPERTIES
  MonthsUploaded
