SPECIFICATION Spec
CONSTANTS
    Requests = {r1, r2, r3}
    Tokens = {t1, t2, t3}
    Passwords = {p1, p2}
    Otps = {c1, c2}
    NoAccount = NoAccount
    NoToken = NoToken
    NoCode = NoCode
    MaxRequests = 5
    MaxFailures = 1
SYMMETRY Perms
PROPERTIES SessionsSuperseded PasswordConfirmed
CHECK_DEADLOCK FALSE
