\* Two requests at a time, uploads of up to two rows, overlapping windows.
SPECIFICATION Spec
CONSTANTS
    a1 = a1
    a2 = a2
    a3 = a3
    alice = alice
    bob = bob
    Emails = {p, q}
    Assessments = {a1, a2}
    Owner <- MCOwner
    Window <- MCWindow
    Requests = {r1, r2}
    MaxRows = 2
    MaxRequests = 2
    MaxCrashes = 1
SYMMETRY Perms
INVARIANTS OverlapNeedsRace NothingPremature WorkAccounted
CHECK_DEADLOCK FALSE
