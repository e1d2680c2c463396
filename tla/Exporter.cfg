SPECIFICATION FairSpec
CONSTANTS
  Day = {1, 2}
  End = 3
  MonthOf <- MCMonthOf
  MaxRows = 2
  Credentials = TRUE
  Faults = {"disk", "upload", "answer", "database", "config", "crash"}
INVARIANTS
  TypeOK
  UploadedIsComplete
  UploadedOnce
  ExportRunsFollow
PROPERTIES
  DaysUploaded
