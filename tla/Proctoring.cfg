SPECIFICATION ProctoringSpec
CONSTANTS
  NULL = NULL
  ReconnectWindow = 1
  MaxDisconnects = 2
  WindowEnd = 2
  Duration = 1
  TokenSlack = 1
  Elapsed = {0}
  MaxTime = 1
  MaxGenerations = 2
  MaxInFlight = 1
  EngineOrderly = TRUE
  MaxTabSwitches = 3
  TabEvents = {e1, e2, e3}
  LegacyTabs = {e1}
  FaceTypes = {absent}
  MinimumDuration = 1
  TerminationDuration = 3
  Durations = {1, 2, 3}
  Starts = {s1, s2}
  FaceEvents = {f1, f2}
  Turns = {t1, t2}
  Findings = {v1}
  MaxTurnItems = 2
INVARIANTS TabsCountedOnce LimitsEnforced EpisodesSummarisePackets TurnsStoredOnce
 
SYMMETRY Symmetry
