SPECIFICATION DecisionSpec
CONSTANTS
    Requests = {r1, r2}
    MaxRequests = 3
    MaxFailures = 2
 
PROPERTIES LettersEnd
CHECK_DEADLOCK FALSE
