SPECIFICATION Spec
CONSTANTS
    a1 = a1
    a2 = a2
    a3 = a3
    alice = alice
    bob = bob
    Emails = {p}
    Assessments = {a1, a2, a3}
    Owner <- MCOwner
    Window <- MCWindow
    Requests = {r1, r2}
    MaxRows = 1
    MaxRequests = 3
    MaxCrashes = 0
SYMMETRY Perms
INVARIANTS NoOverlap
CHECK_DEADLOCK FALSE
