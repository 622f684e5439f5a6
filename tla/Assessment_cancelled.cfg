SPECIFICATION FairSpec
CONSTANTS
  Candidates = {c1}
  Requests = {r1, r2}
  WindowEnd = 1
  MaxTime = 2
  MaxCrashes = 1
PROPERTIES CancelledLinkIsDead
