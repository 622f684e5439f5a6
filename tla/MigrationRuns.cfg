\* Two containers that are redeployed and one console, over rows of every age.
SPECIFICATION FairSpec
CONSTANTS
    Containers = {c1, c2}
    Operators = {op}
    Releases = {3, 10}
    OlderRows <- MCOlderRows
    MaxCrashes = 1
INVARIANTS SchemaFollowsRevision  BlockedOnlyByOldRows
PROPERTIES RevisionMoves AllServe
