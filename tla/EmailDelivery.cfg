SPECIFICATION FairSpec
CONSTANTS
  Tasks = {invitation, report}
  ReportTasks = {report}
  MaxRetries = 1
  MaxCrashes = 1
  MaxOutages = 1
INVARIANTS SendsBounded RowsTell FinishedIsLogged
PROPERTIES TasksFinish
CHECK_DEADLOCK FALSE
