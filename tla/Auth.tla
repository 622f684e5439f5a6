-------------------------------- MODULE Auth --------------------------------
(* The account of one recruiter (core/services/auth_service.py,             *)
(* data/repositories/auth_repository.py): registration, the refresh tokens   *)
(* of its sessions, and the reset of its password by a code in Redis.        *)
(*                                                                          *)
(* A request is one transaction at READ COMMITTED. It reads what is          *)
(* committed, an UPDATE takes its rows from a snapshot, waits for the rows   *)
(* another transaction has written and looks at them again, and what it      *)
(* writes is seen when it commits. Redis knows no transaction. Nothing in    *)
(* the code deactivates an account, so is_active is left out.                *)
EXTENDS Naturals, TLC

CONSTANTS
  Requests,      \* how many requests may be under way at once
  Tokens,        \* refresh tokens
  Passwords,     \* passwords, as their hashes
  Otps,          \* codes; two resets may draw the same
  NoAccount, NoToken, NoCode,
  MaxRequests,   \* bound: requests ever received
  MaxFailures    \* bound: requests the database or the mail server refuses

ASSUME AuthAssumption ==
  /\ MaxRequests \in Nat /\ MaxFailures \in Nat
  /\ NoAccount \notin Passwords /\ NoCode \notin [otp : Otps, password : Passwords]

VARIABLES
  password,      \* recruiters.hashed_password, or NoAccount
  live,          \* recruiter_tokens that are stored and not revoked
  used,          \* tokens ever stored
  code,          \* the Redis record otp:<email>: [otp, password], or NoCode
  stored,        \* ghost: every record ever stored under that key
  req,           \* the requests under way
  received,      \* requests received
  failures       \* requests refused

vars == <<password, live, used, code, stored, req, received, failures>>

Codes == [otp : Otps, password : Passwords]

Idle == [op |-> "none", at |-> "idle", token |-> NoToken, code |-> NoCode,
         rows |-> {}, written |-> {}, password |-> NoAccount, seen |-> {}]

Request == [op : {"none", "register", "login", "refresh", "logout", "forgot", "resend", "verify"},
            at : {"idle", "insert", "revoke", "wait", "store", "mail", "update", "delete", "commit"},
            token : Tokens \cup {NoToken}, code : Codes \cup {NoCode},
            rows : SUBSET Tokens, written : SUBSET Tokens,
            password : Passwords \cup {NoAccount}, seen : SUBSET Tokens]

Perms == Permutations(Requests) \cup Permutations(Tokens)

Init ==
  /\ password = NoAccount /\ live = {} /\ used = {}
  /\ code = NoCode /\ stored = {}
  /\ req = [r \in Requests |-> Idle]
  /\ received = 0 /\ failures = 0

-----------------------------------------------------------------------------
(* Transactions.                                                            *)

At(r, op, at) == req[r].op = op /\ req[r].at = at

\* A request of the given operation arrives and finds the database as it is.
Begin(r, op, at) ==
  /\ At(r, "none", "idle") /\ received < MaxRequests
  /\ received' = received + 1
  /\ req' = [req EXCEPT ![r] = [Idle EXCEPT !.op = op, !.at = at, !.seen = live]]

Goto(r, at) == req' = [req EXCEPT ![r].at = at]

Finish(r) == req' = [req EXCEPT ![r] = Idle]

\* Rows that another transaction has written and not committed.
Held(r) == UNION {req[q].written : q \in Requests \ {r}}

AccountHeld(r) == \E q \in Requests \ {r} : req[q].password # NoAccount

\* The exception handler rolls back; Redis keeps what it was told.
Fail(r) ==
  /\ req[r].op # "none" /\ failures < MaxFailures
  /\ failures' = failures + 1
  /\ Finish(r)
  /\ UNCHANGED <<password, live, used, code, stored, received>>

\* The commit of a request that ends sessions and may open one.
Commit(r, opened) ==
  /\ live' = (live \ req[r].written) \cup opened
  /\ used' = used \cup opened
  /\ password' = IF req[r].password = NoAccount THEN password ELSE req[r].password
  /\ Finish(r)
  /\ UNCHANGED <<code, stored, received, failures>>

NewToken == Tokens \ used

-----------------------------------------------------------------------------
(* revoke_all_recruiter_tokens and revoke_refresh_token.                    *)

\* The snapshot of the UPDATE.
RevokeAllBegins(r, next) ==
  /\ req' = [req EXCEPT ![r].rows = live, ![r].at = next]
  /\ UNCHANGED <<password, live, used, code, stored, received, failures>>

\* Mutant: rows that another transaction has written are skipped.
RevokeAllSkips(r, next) ==
  /\ req' = [req EXCEPT ![r].rows = {}, ![r].at = next,
                        ![r].written = (req[r].rows \cap live) \ Held(r)]
  /\ UNCHANGED <<password, live, used, code, stored, received, failures>>

\* The rows of the snapshot that are still not revoked when they are free.
RevokeAllEnds(r, next) ==
  /\ req[r].rows \cap Held(r) = {}
  /\ req' = [req EXCEPT ![r].rows = {}, ![r].at = next,
                        ![r].written = req[r].rows \cap live]
  /\ UNCHANGED <<password, live, used, code, stored, received, failures>>

RevokeOne(r, next) ==
  /\ req[r].token \notin Held(r)
  /\ req' = [req EXCEPT ![r].at = next, ![r].written = {req[r].token}]
  /\ UNCHANGED <<password, live, used, code, stored, received, failures>>

-----------------------------------------------------------------------------
(* Registration, login, refresh and logout.                                 *)

\* The e-mail address is looked up; a second account is refused.
RegisterReads(r) ==
  /\ password = NoAccount
  /\ Begin(r, "register", "insert")
  /\ UNCHANGED <<password, live, used, code, stored, failures>>

\* The unique e-mail address makes the INSERT wait for another one.
RegisterInserts(r) ==
  /\ At(r, "register", "insert") /\ ~AccountHeld(r) /\ password = NoAccount
  /\ \E p \in Passwords : req' = [req EXCEPT ![r].at = "commit", ![r].password = p]
  /\ UNCHANGED <<password, live, used, code, stored, received, failures>>

\* Another registration was committed after the lookup.
RegisterConflicts(r) ==
  /\ At(r, "register", "insert") /\ password # NoAccount
  /\ Finish(r)
  /\ UNCHANGED <<password, live, used, code, stored, received, failures>>

RegisterCommits(r) == At(r, "register", "commit") /\ Commit(r, {})

\* The password is right; a wrong one changes nothing.
LoginReads(r) ==
  /\ password # NoAccount
  /\ Begin(r, "login", "revoke")
  /\ UNCHANGED <<password, live, used, code, stored, failures>>

LoginRevokes(r) ==
  \/ At(r, "login", "revoke") /\ RevokeAllBegins(r, "wait")
  \/ At(r, "login", "wait") /\ RevokeAllEnds(r, "commit")

LoginCommits(r) ==
  /\ At(r, "login", "commit")
  /\ \E t \in NewToken : Commit(r, {t})

\* The token is known and not revoked; another one is refused, as is one
\* that has expired.
RefreshReads(r, t) ==
  /\ t \in live
  /\ At(r, "none", "idle") /\ received < MaxRequests
  /\ received' = received + 1
  /\ req' = [req EXCEPT ![r] = [Idle EXCEPT !.op = "refresh", !.at = "revoke",
                                            !.seen = live, !.token = t]]
  /\ UNCHANGED <<password, live, used, code, stored, failures>>

RefreshRevokes(r) == At(r, "refresh", "revoke") /\ RevokeOne(r, "commit")

RefreshCommits(r) ==
  /\ At(r, "refresh", "commit")
  /\ \E t \in NewToken : Commit(r, {t})

\* A logout names its token and does not look at it first.
LogoutBegins(r, t) ==
  /\ At(r, "none", "idle") /\ received < MaxRequests /\ t \in used
  /\ received' = received + 1
  /\ req' = [req EXCEPT ![r] = [Idle EXCEPT !.op = "logout", !.at = "revoke",
                                            !.seen = live, !.token = t]]
  /\ UNCHANGED <<password, live, used, code, stored, failures>>

LogoutRevokes(r) == At(r, "logout", "revoke") /\ RevokeOne(r, "commit")

LogoutCommits(r) == At(r, "logout", "commit") /\ Commit(r, {})

-----------------------------------------------------------------------------
(* The reset of the password.                                               *)

\* The record is written over whatever is there; then the code is mailed, or
\* the mail fails and the record stays.
StoreCode(r) ==
  /\ \E c \in Codes : code' = c /\ stored' = stored \cup {c}
  /\ Goto(r, "mail")
  /\ UNCHANGED <<password, live, used, received, failures>>

ForgotReads(r) ==
  /\ password # NoAccount
  /\ Begin(r, "forgot", "store")
  /\ UNCHANGED <<password, live, used, code, stored, failures>>

ForgotStores(r) == At(r, "forgot", "store") /\ StoreCode(r)

\* A code that is still active refuses the request.
ResendReads(r) ==
  /\ password # NoAccount /\ code = NoCode
  /\ Begin(r, "resend", "store")
  /\ UNCHANGED <<password, live, used, code, stored, failures>>

ResendStores(r) == At(r, "resend", "store") /\ StoreCode(r)

CodeMailed(r) ==
  /\ At(r, "forgot", "mail") \/ At(r, "resend", "mail")
  /\ Finish(r)
  /\ UNCHANGED <<password, live, used, code, stored, received, failures>>

\* Redis drops the record after OTP_TTL_SECONDS.
CodeExpires ==
  /\ code # NoCode /\ code' = NoCode
  /\ UNCHANGED <<password, live, used, stored, req, received, failures>>

\* The code that was typed is the one in Redis.
VerifyReads(r, otp) ==
  /\ code # NoCode /\ code.otp = otp
  /\ At(r, "none", "idle") /\ received < MaxRequests
  /\ received' = received + 1
  /\ req' = [req EXCEPT ![r] = [Idle EXCEPT !.op = "verify", !.at = "update",
                                            !.seen = live, !.code = code]]
  /\ UNCHANGED <<password, live, used, code, stored, failures>>

\* Mutant: the password is taken from the record that is there by now.
VerifyUpdatesAgain(r) ==
  /\ At(r, "verify", "update") /\ ~AccountHeld(r)
  /\ req' = [req EXCEPT ![r].at = "delete",
               ![r].password = IF code = NoCode THEN req[r].code.password
                               ELSE code.password]
  /\ UNCHANGED <<password, live, used, code, stored, received, failures>>

VerifyUpdates(r) ==
  /\ At(r, "verify", "update") /\ ~AccountHeld(r)
  /\ req' = [req EXCEPT ![r].at = "delete", ![r].password = req[r].code.password]
  /\ UNCHANGED <<password, live, used, code, stored, received, failures>>

\* The key is deleted, whatever it holds.
VerifyDeletes(r) ==
  /\ At(r, "verify", "delete")
  /\ code' = NoCode
  /\ Goto(r, "revoke")
  /\ UNCHANGED <<password, live, used, stored, received, failures>>

VerifyRevokes(r) ==
  \/ At(r, "verify", "revoke") /\ RevokeAllBegins(r, "wait")
  \/ At(r, "verify", "wait") /\ RevokeAllEnds(r, "commit")

VerifyCommits(r) == At(r, "verify", "commit") /\ Commit(r, {})

-----------------------------------------------------------------------------

Register(r) == RegisterReads(r) \/ RegisterInserts(r) \/ RegisterConflicts(r) \/ RegisterCommits(r)

Login(r) == LoginReads(r) \/ LoginRevokes(r) \/ LoginCommits(r)

Refresh(r) == (\E t \in Tokens : RefreshReads(r, t)) \/ RefreshRevokes(r) \/ RefreshCommits(r)

Logout(r) == (\E t \in Tokens : LogoutBegins(r, t)) \/ LogoutRevokes(r) \/ LogoutCommits(r)

Reset(r) ==
  \/ ForgotReads(r) \/ ForgotStores(r) \/ ResendReads(r) \/ ResendStores(r) \/ CodeMailed(r)
  \/ \E otp \in Otps : VerifyReads(r, otp)
  \/ VerifyUpdates(r) \/ VerifyDeletes(r) \/ VerifyRevokes(r) \/ VerifyCommits(r)

Next ==
  \/ \E r \in Requests : Register(r) \/ Login(r) \/ Refresh(r) \/ Logout(r) \/ Reset(r) \/ Fail(r)
  \/ CodeExpires

Spec == Init /\ [][Next]_vars

-----------------------------------------------------------------------------
(* Properties.                                                              *)

\* The account, its tokens and the code keep their types; a transaction
\* writes committed tokens only, and two never hold the same row.
TypeOK ==
  /\ password \in Passwords \cup {NoAccount}
  /\ live \subseteq used /\ used \subseteq Tokens
  /\ code \in stored \cup {NoCode} /\ stored \subseteq Codes
  /\ received \in 0..MaxRequests /\ failures \in 0..MaxFailures
  /\ req \in [Requests -> Request]
  /\ \A r \in Requests :
       /\ req[r].written \cup req[r].rows \cup req[r].seen \subseteq used
       /\ req[r].code \in stored \cup {NoCode}
  /\ \A r, q \in Requests : r # q => req[r].written \cap req[q].written = {}

\* "Invalidate existing tokens" (auth_service.py:85), "revoke all existing
\* sessions" (auth_service.py:264): when a login or a reset commits, every
\* session that was open when it began is over, whatever ran meanwhile and
\* whichever of it was rolled back.
SessionsSuperseded ==
  [][\A r \in Requests :
       LoginCommits(r) \/ VerifyCommits(r) => req[r].seen \cap live' = {}]_vars

\* The password of an account changes only to one that was asked for together
\* with the code that was typed, and to no other, however resets overlap.
PasswordConfirmed ==
  [][password \notin {NoAccount, password'} =>
       \E r \in Requests :
         /\ At(r, "verify", "commit")
         /\ req[r].code \in stored /\ req[r].code.password = password']_vars

\* While requests do not overlap a recruiter has one session at most: a login
\* ends the earlier one and a refresh hands it on.
OneSession == \A s, t \in live : s = t

\* "Resend the OTP if the previous one has expired" (auth_service.py:283): a
\* resent code takes the place of no active one.
ActiveCodeIsKept ==
  [][\A r \in Requests : ResendStores(r) => code = NoCode]_vars

\* "Clean up OTP from Redis" (auth_service.py:261): the code that a reset
\* removes is the one it has checked, so that a later reset keeps its own.
OwnCodeDeleted ==
  [][\A r \in Requests : VerifyDeletes(r) => code \in {NoCode, req[r].code}]_vars
=============================================================================
