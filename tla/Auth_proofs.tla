---------------------------- MODULE Auth_proofs ----------------------------
(***************************************************************************)
(* Proofs about Auth for every value of its constants.                     *)
(***************************************************************************)
EXTENDS Auth, TLAPS

USE AuthAssumption

\* What a request under way has to do with the database. While a login or a
\* reset waits for its rows they hold every session it began with that is
\* still open, and once it has them it has written those sessions.
Fit(x) ==
    /\ x.written \cup x.rows \cup x.seen \subseteq used
    /\ x.code \in stored \cup {NoCode}
    /\ x.op \in {"refresh", "logout"} => x.token \in used
    /\ x.op \in {"login", "verify"} /\ x.at = "wait" => x.seen \cap live \subseteq x.rows
    /\ x.op \in {"login", "verify"} /\ x.at = "commit" => x.seen \cap live \subseteq x.written
    /\ x.op \in {"verify", "forgot", "resend"} => password # NoAccount
    /\ x.op = "verify" => x.code # NoCode
    /\ x.password # NoAccount =>
         \/ x.op = "register" /\ password = NoAccount
         \/ x.op = "verify" /\ x.password = x.code.password

Types ==
    /\ password \in Passwords \cup {NoAccount}
    /\ live \subseteq used /\ used \subseteq Tokens
    /\ code \in stored \cup {NoCode} /\ stored \subseteq Codes
    /\ received \in 0..MaxRequests /\ failures \in 0..MaxFailures
    /\ req \in [Requests -> Request]

\* Two requests hold no row together, and one at most writes the account.
Apart ==
    \A r, q \in Requests : r # q =>
      /\ req[r].written \cap req[q].written = {}
      /\ req[r].password = NoAccount \/ req[q].password = NoAccount

CodeNeedsAccount == code # NoCode => password # NoAccount

IndInv == Types /\ (\A r \in Requests : Fit(req[r])) /\ Apart /\ CodeNeedsAccount

-----------------------------------------------------------------------------
(* A request moves on, and nothing is committed.                           *)

LEMMA IdleFits == Idle \in Request /\ Fit(Idle)
BY DEF Idle, Request, Fit

\* The new state of one request keeps the invariant if it fits the database,
\* waits for the rows of the others, and Redis holds a record or none.
LEMMA Moves ==
    ASSUME IndInv, NEW r \in Requests, NEW x \in Request,
           req' = [req EXCEPT ![r] = x],
           UNCHANGED <<password, live, used>>,
           stored \subseteq stored', stored' \subseteq Codes,
           code' \in stored' \cup {NoCode}, code' # NoCode => password # NoAccount,
           received' \in 0..MaxRequests, failures' \in 0..MaxFailures,
           Fit(x), x.written \cap Held(r) = {},
           x.password # NoAccount => ~AccountHeld(r)
    PROVE  IndInv'
<1>1. Types'
  BY DEF IndInv, Types
<1>2. ASSUME NEW q \in Requests PROVE Fit(req[q])'
  <2>1. CASE q = r
    BY <2>1 DEF IndInv, Types, Fit
  <2>2. CASE q # r
    <3>1. req'[q] = req[q] /\ Fit(req[q])
      BY <2>2 DEF IndInv, Types
    <3> QED
      BY <3>1 DEF Fit
  <2> QED
    BY <2>1, <2>2
<1>3. Apart'
  <2> SUFFICES ASSUME NEW p \in Requests, NEW q \in Requests, p # q
               PROVE  /\ req'[p].written \cap req'[q].written = {}
                      /\ req'[p].password = NoAccount \/ req'[q].password = NoAccount
    BY DEF Apart
  <2>1. \A s \in Requests \ {r} : /\ req'[s] = req[s]
                                  /\ x.written \cap req[s].written = {}
                                  /\ x.password = NoAccount \/ req[s].password = NoAccount
    BY DEF Held, AccountHeld, IndInv, Types
  <2>2. req'[r] = x
    BY DEF IndInv, Types
  <2> QED
    BY <2>1, <2>2 DEF IndInv, Apart
<1>4. CodeNeedsAccount'
  BY DEF CodeNeedsAccount
<1> QED
  BY <1>1, <1>2, <1>3, <1>4 DEF IndInv

\* A request keeps what it had written and stored.
LEMMA Keeps ==
    ASSUME IndInv, NEW r \in Requests
    PROVE  /\ req[r] \in Request /\ Fit(req[r])
           /\ req[r].written \cap Held(r) = {}
           /\ req[r].password # NoAccount => ~AccountHeld(r)
BY DEF IndInv, Types, Apart, Held, AccountHeld

\* A request commits: the sessions it has written end, at most one new one
\* opens, and the account has its password.
LEMMA Commits ==
    ASSUME IndInv, NEW r \in Requests, NEW opened \in SUBSET NewToken, Commit(r, opened)
    PROVE  IndInv'
<1>1. req[r] \in Request /\ Idle \in Request /\ Fit(Idle) /\ Fit(req[r])
  BY Keeps, IdleFits
<1>2. req' = [req EXCEPT ![r] = Idle] /\ UNCHANGED <<code, stored, received, failures>>
  BY DEF Commit, Finish
<1>3. /\ live' = (live \ req[r].written) \cup opened /\ used' = used \cup opened
      /\ password' = IF req[r].password = NoAccount THEN password ELSE req[r].password
  BY DEF Commit
<1>4. Types'
  BY <1>1, <1>2, <1>3 DEF IndInv, Types, NewToken, Request
<1>5. password # NoAccount => password' # NoAccount
  BY <1>1, <1>3 DEF Request
<1>6. ASSUME NEW q \in Requests PROVE Fit(req[q])'
  <2>1. CASE q = r
    <3>1. req'[q] = Idle
      BY <1>2, <2>1 DEF IndInv, Types
    <3> QED
      BY <3>1 DEF Fit, Idle
  <2>2. CASE q # r
    <3>1. req'[q] = req[q] /\ Fit(req[q]) /\ req[q] \in Request
      BY <1>2, <2>2 DEF IndInv, Types
    <3>2. opened \cap used = {}
      BY DEF NewToken
    <3>3. req[q].seen \cap live' \subseteq live
      BY <1>3, <3>1, <3>2 DEF Fit
    <3>4. req[q].password # NoAccount => password' = password
      BY <1>3, <2>2 DEF IndInv, Apart
    <3>5. /\ req[q].written \cup req[q].rows \cup req[q].seen \subseteq used'
          /\ req[q].code \in stored' \cup {NoCode}
          /\ req[q].op \in {"refresh", "logout"} => req[q].token \in used'
      BY <1>2, <1>3, <3>1 DEF Fit
    <3>6. /\ req[q].op \in {"login", "verify"} /\ req[q].at = "wait" =>
               req[q].seen \cap live' \subseteq req[q].rows
          /\ req[q].op \in {"login", "verify"} /\ req[q].at = "commit" =>
               req[q].seen \cap live' \subseteq req[q].written
      BY <3>1, <3>3 DEF Fit
    <3>7. /\ req[q].op \in {"verify", "forgot", "resend"} => password' # NoAccount
          /\ req[q].op = "verify" => req[q].code # NoCode
          /\ req[q].password # NoAccount =>
               \/ req[q].op = "register" /\ password' = NoAccount
               \/ req[q].op = "verify" /\ req[q].password = req[q].code.password
      BY <1>5, <3>1, <3>4 DEF Fit
    <3> QED
      BY <3>1, <3>5, <3>6, <3>7 DEF Fit
  <2> QED
    BY <2>1, <2>2
<1>7. Apart'
  BY <1>2 DEF IndInv, Types, Apart, Idle
<1>8. CodeNeedsAccount'
  BY <1>2, <1>5 DEF IndInv, CodeNeedsAccount
<1> QED
  BY <1>4, <1>6, <1>7, <1>8 DEF IndInv

-----------------------------------------------------------------------------
(* The steps.                                                              *)

LEMMA InitIndInv == Init => IndInv
<1> SUFFICES ASSUME Init PROVE IndInv
  OBVIOUS
<1>1. req \in [Requests -> Request] /\ \A r \in Requests : req[r] = Idle /\ Fit(Idle)
  BY IdleFits DEF Init
<1>2. Types
  BY <1>1 DEF Init, Types
<1>3. Apart /\ CodeNeedsAccount
  BY <1>1 DEF Init, Apart, CodeNeedsAccount, Idle
<1> QED
  BY <1>1, <1>2, <1>3 DEF IndInv

LEMMA RevokeSteps ==
    ASSUME IndInv, NEW r \in Requests, NEW next \in {"wait", "commit"}
    PROVE  /\ RevokeAllBegins(r, next) /\ next = "wait" => IndInv'
           /\ RevokeAllEnds(r, next) /\ next = "commit" /\ req[r].at = "wait"
                /\ req[r].op \in {"login", "verify"} => IndInv'
           /\ RevokeOne(r, next) /\ req[r].op \in {"refresh", "logout"} => IndInv'
<1>0. /\ req[r] \in Request /\ Fit(req[r])
      /\ req[r].password # NoAccount => ~AccountHeld(r)
      /\ req[r].written \cap Held(r) = {}
      /\ live \subseteq used /\ used \subseteq Tokens
      /\ stored \subseteq Codes /\ received \in 0..MaxRequests /\ failures \in 0..MaxFailures
      /\ code \in stored \cup {NoCode} /\ (code # NoCode => password # NoAccount)
  BY Keeps DEF IndInv, Types, CodeNeedsAccount
<1>1. ASSUME RevokeAllBegins(r, next), next = "wait" PROVE IndInv'
  <2> DEFINE x == [req[r] EXCEPT !.rows = live, !.at = next]
  <2>1. x \in Request
    BY <1>0, <1>1 DEF Request
  <2>2. Fit(x) /\ x.written = req[r].written /\ x.password = req[r].password
    BY <1>0, <1>1 DEF Fit, Request
  <2>3. req' = [req EXCEPT ![r] = x]
    BY <1>1 DEF RevokeAllBegins, IndInv, Types, Request
  <2> HIDE DEF x
  <2> QED
    BY <1>0, <1>1, <2>1, <2>2, <2>3, Moves DEF RevokeAllBegins
<1>2. ASSUME RevokeAllEnds(r, next), next = "commit", req[r].at = "wait",
             req[r].op \in {"login", "verify"}
      PROVE IndInv'
  <2> DEFINE x == [req[r] EXCEPT !.rows = {}, !.at = next, !.written = req[r].rows \cap live]
  <2>1. x \in Request
    BY <1>0, <1>2 DEF Request
  <2>2. Fit(x) /\ x.written \cap Held(r) = {} /\ x.password = req[r].password
    BY <1>0, <1>2 DEF Fit, Request, RevokeAllEnds
  <2>3. req' = [req EXCEPT ![r] = x]
    BY <1>2 DEF RevokeAllEnds, IndInv, Types, Request
  <2> HIDE DEF x
  <2> QED
    BY <1>0, <1>2, <2>1, <2>2, <2>3, Moves DEF RevokeAllEnds
<1>3. ASSUME RevokeOne(r, next), req[r].op \in {"refresh", "logout"} PROVE IndInv'
  <2> DEFINE x == [req[r] EXCEPT !.at = next, !.written = {req[r].token}]
  <2>1. x \in Request
    BY <1>0, <1>3 DEF Request, Fit
  <2>2. Fit(x) /\ x.written \cap Held(r) = {} /\ x.password = req[r].password
    BY <1>0, <1>3 DEF Fit, Request, RevokeOne
  <2>3. req' = [req EXCEPT ![r] = x]
    BY <1>3 DEF RevokeOne, IndInv, Types, Request
  <2> HIDE DEF x
  <2> QED
    BY <1>0, <1>3, <2>1, <2>2, <2>3, Moves DEF RevokeOne
<1> QED
  BY <1>1, <1>2, <1>3

\* A request arrives: it has written nothing yet.
LEMMA Arrivals ==
    ASSUME IndInv, NEW r \in Requests, NEW x \in Request,
           req' = [req EXCEPT ![r] = x], received < MaxRequests, received' = received + 1,
           UNCHANGED <<password, live, used, code, stored, failures>>,
           Fit(x), x.written = {}, x.password = NoAccount
    PROVE  IndInv'
<1>1. /\ stored \subseteq Codes /\ received' \in 0..MaxRequests /\ failures \in 0..MaxFailures
      /\ code \in stored \cup {NoCode} /\ (code # NoCode => password # NoAccount)
  BY DEF IndInv, Types, CodeNeedsAccount
<1> QED
  BY <1>1, Moves

LEMMA Begins ==
    ASSUME IndInv, NEW r \in Requests,
           NEW op \in {"register", "login", "forgot", "resend"},
           NEW at \in {"insert", "revoke", "store"},
           op = "register" \/ password # NoAccount, Begin(r, op, at),
           UNCHANGED <<password, live, used, code, stored, failures>>
    PROVE  IndInv'
<1> DEFINE x == [Idle EXCEPT !.op = op, !.at = at, !.seen = live]
<1>1. x \in Request /\ Fit(x) /\ x.written = {} /\ x.password = NoAccount
  BY DEF Idle, Request, Fit, IndInv, Types
<1>2. req' = [req EXCEPT ![r] = x] /\ received < MaxRequests /\ received' = received + 1
  BY DEF Begin
<1> HIDE DEF x
<1> QED
  BY <1>1, <1>2, Arrivals

\* A request ends without a commit.
LEMMA Ends ==
    ASSUME IndInv, NEW r \in Requests, Finish(r), failures' \in 0..MaxFailures,
           UNCHANGED <<password, live, used, code, stored, received>>
    PROVE  IndInv'
<1>1. /\ stored \subseteq Codes /\ received \in 0..MaxRequests
      /\ code \in stored \cup {NoCode} /\ (code # NoCode => password # NoAccount)
  BY DEF IndInv, Types, CodeNeedsAccount
<1>2. Idle.written \cap Held(r) = {} /\ Idle.password = NoAccount
  BY DEF Idle
<1> QED
  BY <1>1, <1>2, IdleFits, Moves DEF Finish

LEMMA RegisterStep == ASSUME IndInv, NEW r \in Requests, Register(r) PROVE IndInv'
<1>1. CASE RegisterReads(r)
  BY <1>1, Begins DEF RegisterReads
<1>2. CASE RegisterInserts(r)
  <2>1. PICK p \in Passwords : req' = [req EXCEPT ![r].at = "commit", ![r].password = p]
    BY <1>2 DEF RegisterInserts
  <2> DEFINE x == [req[r] EXCEPT !.at = "commit", !.password = p]
  <2>2. /\ req[r] \in Request /\ Fit(req[r]) /\ req[r].written \cap Held(r) = {}
        /\ req[r].op = "register" /\ password = NoAccount /\ ~AccountHeld(r)
    BY <1>2, Keeps DEF RegisterInserts, At
  <2>3. x \in Request /\ Fit(x) /\ x.written \cap Held(r) = {}
    BY <2>2 DEF Request, Fit
  <2>4. req' = [req EXCEPT ![r] = x]
    BY <2>1 DEF IndInv, Types, Request
  <2>5. /\ stored \subseteq Codes /\ received \in 0..MaxRequests /\ failures \in 0..MaxFailures
        /\ code \in stored \cup {NoCode} /\ (code # NoCode => password # NoAccount)
    BY DEF IndInv, Types, CodeNeedsAccount
  <2> HIDE DEF x
  <2> QED
    BY <1>2, <2>2, <2>3, <2>4, <2>5, Moves DEF RegisterInserts
<1>3. CASE RegisterConflicts(r)
  BY <1>3, Ends DEF RegisterConflicts, IndInv, Types
<1>4. CASE RegisterCommits(r)
  BY <1>4, Commits DEF RegisterCommits
<1> QED
  BY <1>1, <1>2, <1>3, <1>4 DEF Register

LEMMA LoginStep == ASSUME IndInv, NEW r \in Requests, Login(r) PROVE IndInv'
<1>1. CASE LoginReads(r)
  BY <1>1, Begins DEF LoginReads
<1>2. CASE LoginRevokes(r)
  BY <1>2, RevokeSteps DEF LoginRevokes, At
<1>3. CASE LoginCommits(r)
  <2>1. PICK t \in NewToken : Commit(r, {t})
    BY <1>3 DEF LoginCommits
  <2> QED
    BY <2>1, Commits
<1> QED
  BY <1>1, <1>2, <1>3 DEF Login

LEMMA RefreshStep == ASSUME IndInv, NEW r \in Requests, Refresh(r) PROVE IndInv'
<1>1. ASSUME NEW t \in Tokens, RefreshReads(r, t) PROVE IndInv'
  <2> DEFINE x == [Idle EXCEPT !.op = "refresh", !.at = "revoke", !.seen = live, !.token = t]
  <2>2. x \in Request /\ Fit(x) /\ x.written = {} /\ x.password = NoAccount
    BY <1>1 DEF RefreshReads, Idle, Request, Fit, IndInv, Types
  <2>3. req' = [req EXCEPT ![r] = x]
    BY <1>1 DEF RefreshReads
  <2> HIDE DEF x
  <2> QED
    BY <1>1, <2>2, <2>3, Arrivals DEF RefreshReads
<1>2. CASE RefreshRevokes(r)
  BY <1>2, RevokeSteps DEF RefreshRevokes, At
<1>3. CASE RefreshCommits(r)
  <2>1. PICK t \in NewToken : Commit(r, {t})
    BY <1>3 DEF RefreshCommits
  <2> QED
    BY <2>1, Commits
<1> QED
  BY <1>1, <1>2, <1>3 DEF Refresh

LEMMA LogoutStep == ASSUME IndInv, NEW r \in Requests, Logout(r) PROVE IndInv'
<1>1. ASSUME NEW t \in Tokens, LogoutBegins(r, t) PROVE IndInv'
  <2> DEFINE x == [Idle EXCEPT !.op = "logout", !.at = "revoke", !.seen = live, !.token = t]
  <2>2. x \in Request /\ Fit(x) /\ x.written = {} /\ x.password = NoAccount
    BY <1>1 DEF LogoutBegins, Idle, Request, Fit, IndInv, Types
  <2>3. req' = [req EXCEPT ![r] = x]
    BY <1>1 DEF LogoutBegins
  <2> HIDE DEF x
  <2> QED
    BY <1>1, <2>2, <2>3, Arrivals DEF LogoutBegins
<1>2. CASE LogoutRevokes(r)
  BY <1>2, RevokeSteps DEF LogoutRevokes, At
<1>3. CASE LogoutCommits(r)
  BY <1>3, Commits DEF LogoutCommits
<1> QED
  BY <1>1, <1>2, <1>3 DEF Logout

\* A code is written over whatever is in Redis.
LEMMA StoreStep ==
    ASSUME IndInv, NEW r \in Requests, req[r].op \in {"forgot", "resend"}, StoreCode(r)
    PROVE  IndInv'
<1> DEFINE x == [req[r] EXCEPT !.at = "mail"]
<1>1. /\ req[r] \in Request /\ Fit(req[r]) /\ req[r].written \cap Held(r) = {}
      /\ req[r].password # NoAccount => ~AccountHeld(r)
  BY Keeps
<1>2. x \in Request /\ Fit(x) /\ x.written = req[r].written /\ x.password = req[r].password
  BY <1>1 DEF Request, Fit
<1>3. req' = [req EXCEPT ![r] = x]
  BY DEF StoreCode, Goto, IndInv, Types, Request
<1>4. /\ stored \subseteq stored' /\ stored' \subseteq Codes
      /\ code' \in stored' \cup {NoCode} /\ password # NoAccount
      /\ received' \in 0..MaxRequests /\ failures' \in 0..MaxFailures
  BY <1>1 DEF StoreCode, IndInv, Types, Fit
<1> HIDE DEF x
<1> QED
  BY <1>1, <1>2, <1>3, <1>4, Moves DEF StoreCode

LEMMA VerifyStep ==
    ASSUME IndInv, NEW r \in Requests,
           \/ \E otp \in Otps : VerifyReads(r, otp)
           \/ VerifyUpdates(r) \/ VerifyDeletes(r) \/ VerifyRevokes(r) \/ VerifyCommits(r)
    PROVE  IndInv'
<1>0. /\ req[r] \in Request /\ Fit(req[r]) /\ req[r].written \cap Held(r) = {}
      /\ req[r].password # NoAccount => ~AccountHeld(r)
      /\ stored \subseteq Codes /\ received \in 0..MaxRequests /\ failures \in 0..MaxFailures
      /\ code \in stored \cup {NoCode} /\ (code # NoCode => password # NoAccount)
  BY Keeps DEF IndInv, Types, CodeNeedsAccount
<1>1. ASSUME NEW otp \in Otps, VerifyReads(r, otp) PROVE IndInv'
  <2> DEFINE x == [Idle EXCEPT !.op = "verify", !.at = "update", !.seen = live, !.code = code]
  <2>1. x \in Request /\ Fit(x) /\ x.written = {} /\ x.password = NoAccount
    BY ZenonT(40), <1>0, <1>1 DEF VerifyReads, Idle, Request, Fit, IndInv, Types
  <2>2. req' = [req EXCEPT ![r] = x]
    BY <1>1 DEF VerifyReads
  <2> HIDE DEF x
  <2> QED
    BY <1>1, <2>1, <2>2, Arrivals DEF VerifyReads
<1>2. CASE VerifyUpdates(r)
  <2> DEFINE x == [req[r] EXCEPT !.at = "delete", !.password = req[r].code.password]
  <2>1. req[r].op = "verify" /\ ~AccountHeld(r)
    BY <1>2 DEF VerifyUpdates, At
  <2>2. req[r].code \in Codes /\ req[r].code.password \in Passwords
    BY <1>0, <2>1 DEF Fit, Codes
  <2>3. x \in Request /\ Fit(x) /\ x.written = req[r].written
    BY <1>0, <2>1, <2>2 DEF Request, Fit
  <2>4. req' = [req EXCEPT ![r] = x]
    BY <1>2 DEF VerifyUpdates, IndInv, Types, Request
  <2> HIDE DEF x
  <2> QED
    BY <1>0, <1>2, <2>1, <2>3, <2>4, Moves DEF VerifyUpdates
<1>3. CASE VerifyDeletes(r)
  <2> DEFINE x == [req[r] EXCEPT !.at = "revoke"]
  <2>1. x \in Request /\ Fit(x) /\ x.written = req[r].written /\ x.password = req[r].password
    BY <1>0 DEF Request, Fit
  <2>2. req' = [req EXCEPT ![r] = x]
    BY <1>3 DEF VerifyDeletes, Goto, IndInv, Types, Request
  <2> HIDE DEF x
  <2> QED
    BY <1>0, <1>3, <2>1, <2>2, Moves DEF VerifyDeletes
<1>4. CASE VerifyRevokes(r)
  BY <1>4, RevokeSteps DEF VerifyRevokes, At
<1>5. CASE VerifyCommits(r)
  BY <1>5, Commits DEF VerifyCommits
<1> QED
  BY <1>1, <1>2, <1>3, <1>4, <1>5

LEMMA ResetStep == ASSUME IndInv, NEW r \in Requests, Reset(r) PROVE IndInv'
<1>1. CASE ForgotReads(r)
  BY <1>1, Begins DEF ForgotReads
<1>2. CASE ResendReads(r)
  BY <1>2, Begins DEF ResendReads
<1>3. CASE ForgotStores(r) \/ ResendStores(r)
  BY <1>3, StoreStep DEF ForgotStores, ResendStores, At
<1>4. CASE CodeMailed(r)
  BY <1>4, Ends DEF CodeMailed, IndInv, Types
<1> QED
  BY <1>1, <1>2, <1>3, <1>4, VerifyStep DEF Reset

LEMMA FailStep == ASSUME IndInv, NEW r \in Requests, Fail(r) PROVE IndInv'
<1>1. failures' \in 0..MaxFailures
  BY DEF Fail, IndInv, Types
<1> QED
  BY <1>1, Ends DEF Fail

LEMMA ExpiryStep == IndInv /\ CodeExpires => IndInv'
BY DEF IndInv, Types, Fit, Apart, CodeNeedsAccount, CodeExpires

LEMMA NextIndInv == IndInv /\ [Next]_vars => IndInv'
<1> SUFFICES ASSUME IndInv, [Next]_vars PROVE IndInv'
  OBVIOUS
<1>1. CASE \E r \in Requests :
             Register(r) \/ Login(r) \/ Refresh(r) \/ Logout(r) \/ Reset(r) \/ Fail(r)
  BY <1>1, RegisterStep, LoginStep, RefreshStep, LogoutStep, ResetStep, FailStep
<1>2. CASE CodeExpires
  BY <1>2, ExpiryStep
<1>3. CASE UNCHANGED vars
  BY <1>3 DEF vars, IndInv, Types, Fit, Apart, CodeNeedsAccount
<1> QED
  BY <1>1, <1>2, <1>3 DEF Next

THEOREM Invariance == Spec => []IndInv
<1> QED
  BY InitIndInv, NextIndInv, PTL DEF Spec

-----------------------------------------------------------------------------
(* The theorems.                                                           *)

\* The account, its tokens and the code keep their types, and no two
\* transactions hold the same row, for any requests, tokens and bounds.
THEOREM Typing == Spec => []TypeOK
<1>1. IndInv => TypeOK
  BY DEF IndInv, Types, Fit, Apart, TypeOK
<1> QED
  BY <1>1, Invariance, PTL

\* When a login or a reset commits, every session that was open when it began
\* is over: what its UPDATE waited for it holds, and what was rolled back
\* meanwhile it has revoked itself.
THEOREM Superseding == Spec => SessionsSuperseded
<1>1. IndInv /\ [Next]_vars =>
        [\A r \in Requests :
           LoginCommits(r) \/ VerifyCommits(r) => req[r].seen \cap live' = {}]_vars
  <2> SUFFICES ASSUME IndInv, NEW r \in Requests, LoginCommits(r) \/ VerifyCommits(r)
               PROVE  req[r].seen \cap live' = {}
    OBVIOUS
  <2>1. PICK opened \in SUBSET NewToken : Commit(r, opened)
    BY DEF LoginCommits, VerifyCommits
  <2>2. req[r].op \in {"login", "verify"} /\ req[r].at = "commit"
    BY DEF LoginCommits, VerifyCommits, At
  <2>3. req[r].seen \cap live \subseteq req[r].written /\ req[r].seen \subseteq used
    BY <2>2 DEF IndInv, Fit
  <2> QED
    BY <2>1, <2>3 DEF Commit, NewToken
<1> QED
  BY <1>1, Invariance, PTL DEF Spec, SessionsSuperseded

\* The password changes only to the one that came with the code that was
\* typed, however many resets and registrations overlap.
THEOREM Confirmation == Spec => PasswordConfirmed
<1>1. IndInv /\ [Next]_vars =>
        [password \notin {NoAccount, password'} =>
           \E r \in Requests :
             /\ At(r, "verify", "commit")
             /\ req[r].code \in stored /\ req[r].code.password = password']_vars
  <2> SUFFICES ASSUME IndInv, Next, password \notin {NoAccount, password'}
               PROVE  \E r \in Requests :
                        /\ At(r, "verify", "commit")
                        /\ req[r].code \in stored /\ req[r].code.password = password'
    OBVIOUS
  <2>1. PICK r \in Requests :
          Register(r) \/ Login(r) \/ Refresh(r) \/ Logout(r) \/ Reset(r) \/ Fail(r)
    BY DEF Next, CodeExpires
  <2>2. RegisterCommits(r) \/ LoginCommits(r) \/ RefreshCommits(r) \/ LogoutCommits(r) \/ VerifyCommits(r)
    <3>1. ~Fail(r)
      BY DEF Fail
    <3>2. ~(RegisterReads(r) \/ RegisterInserts(r) \/ RegisterConflicts(r))
      BY DEF RegisterReads, RegisterInserts, RegisterConflicts
    <3>3. ~(LoginReads(r) \/ LoginRevokes(r))
      BY DEF LoginReads, LoginRevokes, RevokeAllBegins, RevokeAllEnds
    <3>4. ~((\E t \in Tokens : RefreshReads(r, t)) \/ RefreshRevokes(r))
      BY DEF RefreshReads, RefreshRevokes, RevokeOne
    <3>5. ~((\E t \in Tokens : LogoutBegins(r, t)) \/ LogoutRevokes(r))
      BY DEF LogoutBegins, LogoutRevokes, RevokeOne
    <3>6. ~(ForgotReads(r) \/ ForgotStores(r) \/ ResendReads(r) \/ ResendStores(r) \/ CodeMailed(r))
      BY DEF ForgotReads, ForgotStores, ResendReads, ResendStores, StoreCode, CodeMailed
    <3>7. ~(VerifyUpdates(r) \/ VerifyDeletes(r) \/ VerifyRevokes(r))
      BY DEF VerifyUpdates, VerifyDeletes, VerifyRevokes, RevokeAllBegins, RevokeAllEnds
    <3>8. ~(\E otp \in Otps : VerifyReads(r, otp))
      BY DEF VerifyReads
    <3> QED
      BY <2>1, <3>1, <3>2, <3>3, <3>4, <3>5, <3>6, <3>7, <3>8
         DEF Register, Login, Refresh, Logout, Reset
  <2>3. PICK opened : Commit(r, opened)
    BY <2>2 DEF RegisterCommits, LoginCommits, RefreshCommits, LogoutCommits, VerifyCommits
  <2>4. req[r].password # NoAccount /\ password' = req[r].password /\ req[r].at = "commit"
    BY <2>2, <2>3 DEF Commit, RegisterCommits, LoginCommits, RefreshCommits, LogoutCommits,
                      VerifyCommits, At
  <2>5. req[r].op = "verify" /\ req[r].password = req[r].code.password
    BY <2>4 DEF IndInv, Fit
  <2>6. req[r].code \in stored
    BY <2>5 DEF IndInv, Fit
  <2> QED
    BY <2>4, <2>5, <2>6 DEF At
<1> QED
  BY <1>1, Invariance, PTL DEF Spec, PasswordConfirmed

-----------------------------------------------------------------------------
(* Requests that do not overlap.                                           *)

\* While a request is under way nothing but its commit changes the sessions.
Steady(x) ==
    /\ x.op # "none" => x.seen = live
    /\ x.op = "refresh" => x.token \in live
    /\ x.op = "refresh" /\ x.at = "commit" => x.written = {x.token}

Serial == OneSession /\ \A r \in Requests : Steady(req[r])

OneRequest == \A q, r \in Requests : q = r

LEMMA SteadyMoves ==
    ASSUME OneRequest, IndInv, Serial, NEW r \in Requests, NEW x,
           req' = [req EXCEPT ![r] = x], live' = live, Steady(x)
    PROVE  Serial'
BY DEF OneRequest, IndInv, Types, Serial, Steady, OneSession

LEMMA SteadyCommits ==
    ASSUME OneRequest, IndInv, Serial, NEW r \in Requests, NEW opened, Commit(r, opened),
           \A s, t \in live' : s = t
    PROVE  Serial'
BY DEF OneRequest, IndInv, Types, Serial, Steady, OneSession, Commit, Finish, Idle

LEMMA SerialSession ==
    ASSUME OneRequest, IndInv, Serial, NEW r \in Requests, Login(r) \/ Refresh(r) \/ Logout(r)
    PROVE  Serial'
<1>0. /\ req \in [Requests -> Request] /\ req[r] \in Request
      /\ Steady(req[r]) /\ Fit(req[r]) /\ \A s, t \in live : s = t
  BY DEF IndInv, Types, Serial, OneSession
<1>1. CASE LoginReads(r)
  <2> DEFINE x == [Idle EXCEPT !.op = "login", !.at = "revoke", !.seen = live]
  <2>1. req' = [req EXCEPT ![r] = x] /\ live' = live /\ Steady(x)
    BY <1>1 DEF LoginReads, Begin, Idle, Steady
  <2> QED
    BY <2>1, SteadyMoves
<1>2. CASE LoginRevokes(r)
  <2>1. PICK x : req' = [req EXCEPT ![r] = x] /\ live' = live /\ Steady(x)
    <3>1. CASE RevokeAllBegins(r, "wait") /\ req[r].op = "login"
      <4> WITNESS [req[r] EXCEPT !.rows = live, !.at = "wait"]
      <4> QED
        BY <1>0, <3>1 DEF RevokeAllBegins, Steady, Request
    <3>2. CASE RevokeAllEnds(r, "commit") /\ req[r].op = "login"
      <4> WITNESS [req[r] EXCEPT !.rows = {}, !.at = "commit", !.written = req[r].rows \cap live]
      <4> QED
        BY <1>0, <3>2 DEF RevokeAllEnds, Steady, Request
    <3> QED
      BY <1>2, <3>1, <3>2 DEF LoginRevokes, At
  <2> QED
    BY <2>1, SteadyMoves
<1>3. CASE LoginCommits(r)
  <2>1. PICK t \in NewToken : Commit(r, {t})
    BY <1>3 DEF LoginCommits
  <2>2. live \subseteq req[r].written
    BY <1>0, <1>3 DEF LoginCommits, At, Fit, Steady
  <2>3. live' = {t}
    BY <2>1, <2>2 DEF Commit
  <2> QED
    BY <2>1, <2>3, SteadyCommits
<1>4. ASSUME NEW t \in Tokens, RefreshReads(r, t) PROVE Serial'
  <2> DEFINE x == [Idle EXCEPT !.op = "refresh", !.at = "revoke", !.seen = live, !.token = t]
  <2>1. req' = [req EXCEPT ![r] = x] /\ live' = live /\ Steady(x)
    BY <1>4 DEF RefreshReads, Idle, Steady
  <2> QED
    BY <2>1, SteadyMoves
<1>5. CASE RefreshRevokes(r)
  <2> DEFINE x == [req[r] EXCEPT !.at = "commit", !.written = {req[r].token}]
  <2>1. req' = [req EXCEPT ![r] = x] /\ live' = live /\ Steady(x)
    BY <1>0, <1>5 DEF RefreshRevokes, RevokeOne, At, Steady, Request
  <2> QED
    BY <2>1, SteadyMoves
<1>6. CASE RefreshCommits(r)
  <2>1. PICK t \in NewToken : Commit(r, {t})
    BY <1>6 DEF RefreshCommits
  <2>2. live \subseteq req[r].written
    BY <1>0, <1>6 DEF RefreshCommits, At, Steady
  <2>3. live' = {t}
    BY <2>1, <2>2 DEF Commit
  <2> QED
    BY <2>1, <2>3, SteadyCommits
<1>7. ASSUME NEW t \in Tokens, LogoutBegins(r, t) PROVE Serial'
  <2> DEFINE x == [Idle EXCEPT !.op = "logout", !.at = "revoke", !.seen = live, !.token = t]
  <2>1. req' = [req EXCEPT ![r] = x] /\ live' = live /\ Steady(x)
    BY <1>7 DEF LogoutBegins, Idle, Steady
  <2> QED
    BY <2>1, SteadyMoves
<1>8. CASE LogoutRevokes(r)
  <2> DEFINE x == [req[r] EXCEPT !.at = "commit", !.written = {req[r].token}]
  <2>1. req' = [req EXCEPT ![r] = x] /\ live' = live /\ Steady(x)
    BY <1>0, <1>8 DEF LogoutRevokes, RevokeOne, At, Steady, Request
  <2> QED
    BY <2>1, SteadyMoves
<1>9. CASE LogoutCommits(r)
  BY <1>0, <1>9, SteadyCommits DEF LogoutCommits, Commit
<1> QED
  BY <1>1, <1>2, <1>3, <1>4, <1>5, <1>6, <1>7, <1>8, <1>9 DEF Login, Refresh, Logout

LEMMA SerialAccount ==
    ASSUME OneRequest, IndInv, Serial, NEW r \in Requests, Register(r) \/ Reset(r) \/ Fail(r)
    PROVE  Serial'
<1>0. /\ req \in [Requests -> Request] /\ req[r] \in Request
      /\ Steady(req[r]) /\ \A s, t \in live : s = t
  BY DEF IndInv, Types, Serial, OneSession
<1>1. CASE RegisterCommits(r) \/ VerifyCommits(r)
  BY <1>0, <1>1, SteadyCommits DEF RegisterCommits, VerifyCommits, Commit
<1>2. CASE RegisterReads(r) \/ ForgotReads(r) \/ ResendReads(r)
  <2>1. PICK op \in {"register", "forgot", "resend"}, at \in {"insert", "store"} :
          Begin(r, op, at) /\ live' = live
    BY <1>2 DEF RegisterReads, ForgotReads, ResendReads
  <2> DEFINE x == [Idle EXCEPT !.op = op, !.at = at, !.seen = live]
  <2>2. req' = [req EXCEPT ![r] = x] /\ Steady(x)
    BY <2>1 DEF Begin, Idle, Steady
  <2> QED
    BY <2>1, <2>2, SteadyMoves
<1>3. CASE RegisterConflicts(r) \/ CodeMailed(r) \/ Fail(r)
  <2>1. req' = [req EXCEPT ![r] = Idle] /\ live' = live /\ Steady(Idle)
    BY <1>3 DEF RegisterConflicts, CodeMailed, Fail, Finish, Idle, Steady
  <2> QED
    BY <2>1, SteadyMoves
<1>4. CASE RegisterInserts(r)
  <2>1. PICK p \in Passwords : req' = [req EXCEPT ![r].at = "commit", ![r].password = p]
    BY <1>4 DEF RegisterInserts
  <2> DEFINE x == [req[r] EXCEPT !.at = "commit", !.password = p]
  <2>2. req' = [req EXCEPT ![r] = x] /\ live' = live /\ Steady(x)
    BY <1>0, <1>4, <2>1 DEF RegisterInserts, At, Steady, Request
  <2> QED
    BY <2>2, SteadyMoves
<1>5. CASE ForgotStores(r) \/ ResendStores(r)
  <2> DEFINE x == [req[r] EXCEPT !.at = "mail"]
  <2>1. req' = [req EXCEPT ![r] = x] /\ live' = live /\ Steady(x)
    BY <1>0, <1>5 DEF ForgotStores, ResendStores, StoreCode, Goto, At, Steady, Request
  <2> QED
    BY <2>1, SteadyMoves
<1>6. ASSUME NEW otp \in Otps, VerifyReads(r, otp) PROVE Serial'
  <2> DEFINE x == [Idle EXCEPT !.op = "verify", !.at = "update", !.seen = live, !.code = code]
  <2>1. req' = [req EXCEPT ![r] = x] /\ live' = live /\ Steady(x)
    BY <1>6 DEF VerifyReads, Idle, Steady
  <2> QED
    BY <2>1, SteadyMoves
<1>7. CASE VerifyUpdates(r)
  <2> DEFINE x == [req[r] EXCEPT !.at = "delete", !.password = req[r].code.password]
  <2>1. req' = [req EXCEPT ![r] = x] /\ live' = live /\ Steady(x)
    BY <1>0, <1>7 DEF VerifyUpdates, At, Steady, Request
  <2> QED
    BY <2>1, SteadyMoves
<1>8. CASE VerifyDeletes(r)
  <2> DEFINE x == [req[r] EXCEPT !.at = "revoke"]
  <2>1. req' = [req EXCEPT ![r] = x] /\ live' = live /\ Steady(x)
    BY <1>0, <1>8 DEF VerifyDeletes, Goto, At, Steady, Request
  <2> QED
    BY <2>1, SteadyMoves
<1>9. CASE VerifyRevokes(r)
  <2>1. CASE RevokeAllBegins(r, "wait") /\ req[r].op = "verify"
    <3> DEFINE x == [req[r] EXCEPT !.rows = live, !.at = "wait"]
    <3>1. req' = [req EXCEPT ![r] = x] /\ live' = live /\ Steady(x)
      BY <1>0, <2>1 DEF RevokeAllBegins, Steady, Request
    <3> QED
      BY <3>1, SteadyMoves
  <2>2. CASE RevokeAllEnds(r, "commit") /\ req[r].op = "verify"
    <3> DEFINE x == [req[r] EXCEPT !.rows = {}, !.at = "commit", !.written = req[r].rows \cap live]
    <3>1. req' = [req EXCEPT ![r] = x] /\ live' = live /\ Steady(x)
      BY <1>0, <2>2 DEF RevokeAllEnds, Steady, Request
    <3> QED
      BY <3>1, SteadyMoves
  <2> QED
    BY <1>9, <2>1, <2>2 DEF VerifyRevokes, At
<1> QED
  BY <1>1, <1>2, <1>3, <1>4, <1>5, <1>6, <1>7, <1>8, <1>9 DEF Register, Reset

LEMMA SerialNext == OneRequest /\ IndInv /\ Serial /\ [Next]_vars => Serial'
<1> SUFFICES ASSUME OneRequest, IndInv, Serial, [Next]_vars PROVE Serial'
  OBVIOUS
<1>1. CASE \E r \in Requests :
             Register(r) \/ Login(r) \/ Refresh(r) \/ Logout(r) \/ Reset(r) \/ Fail(r)
  BY <1>1, SerialSession, SerialAccount
<1>2. CASE CodeExpires \/ UNCHANGED vars
  BY <1>2 DEF CodeExpires, vars, Serial, Steady, OneSession
<1> QED
  BY <1>1, <1>2 DEF Next

\* While requests come one after the other a recruiter never has two
\* sessions, whichever of them are refused and however many come.
THEOREM SingleSession == ASSUME OneRequest PROVE Spec => []OneSession
<1>1. Init => Serial
  BY DEF Init, Serial, OneSession, Steady, Idle
<1>2. IndInv /\ Serial /\ [Next]_vars => Serial'
  BY SerialNext
<1>3. Serial => OneSession
  BY DEF Serial
<1> QED
  BY <1>1, <1>2, <1>3, Invariance, PTL DEF Spec
=============================================================================
