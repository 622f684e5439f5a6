SPECIFICATION Spec
CONSTANTS
  NULL = NULL
  ReconnectWindow = 1
  MaxDisconnects = 3
  WindowEnd = 2
  Duration = 1
  TokenSlack = 1
  Elapsed = {0, 1}
  MaxTime = 3
  MaxGenerations = 4
  MaxInFlight = 2
  EngineOrderly = TRUE
INVARIANTS GraceCoherent ChargedOnce PauseBounded DropLedger OneCredential
INVARIANTS LastDropTerminates RowsAgree
PROPERTIES LifecycleSpec RowsLive
