SPECIFICATION Spec
CONSTANTS
    Durations <- MCDurations
    Priorities <- MCPriorities
    Overrides <- MCOverrides
    Replies <- MCReplies
INVARIANTS SumsExactly SharesFair BestSelected
CHECK_DEADLOCK FALSE
