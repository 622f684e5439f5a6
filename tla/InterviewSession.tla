-------------------------- MODULE InterviewSession --------------------------
(***************************************************************************)
(* Candidate entry and the bounded reconnection lifecycle of one interview *)
(* (core/services/interview_session_service.py, the repositories it uses   *)
(* and the internal routes the interview engine calls).                    *)
(*                                                                         *)
(* One enrolment is modelled: its candidate_assessments row (`ca'), its    *)
(* interview_sessions row (`session') and its rows of event_logs           *)
(* (`events').  Every request is one database transaction that takes the   *)
(* row locks it needs, so a request is one action; the exception is        *)
(* record_disconnect, which computes the reconnect deadline before its     *)
(* transaction opens, and is two actions.  The callers are outside this    *)
(* repository: a candidate's browser, the LiveKit close callback and the   *)
(* interview engine.  Their calls may be lost, late, repeated and          *)
(* reordered, because no handler below checks that they are not; with      *)
(* EngineOrderly the engine is assumed to call only for the job of the     *)
(* connection that is bound, and to evaluate only interviews that ended.   *)
(*                                                                         *)
(* Requests that are refused and change nothing, and the read-only         *)
(* requests (get_session_context, authorize_demo), are stuttering steps.   *)
(***************************************************************************)
EXTENDS Integers, FiniteSets

CONSTANTS
    NULL,              \* SQL NULL
    ReconnectWindow,   \* RECONNECT_WINDOW, the grace period after a drop
    MaxDisconnects,    \* the drop that terminates (3 in record_disconnect)
    WindowEnd,         \* assessments.window_end
    Duration,          \* interview_duration_mins
    TokenSlack,        \* the 60 minutes a session token outlives its interview
    Elapsed,           \* elapsed_secs values the engine may report
    MaxTime,           \* bound: the clock stops here
    MaxGenerations,    \* bound: connection ids ever issued
    MaxInFlight,       \* bound: disconnect callbacks being served at once
    EngineOrderly      \* whether the engine keeps to its protocol

\* The constants are naturals, NULL is no natural, and the third drop (or any
\* later or earlier one, but not the "zeroth") terminates.
ASSUME ConstantsAssumption ==
    /\ NULL \notin Nat
    /\ ReconnectWindow \in Nat \ {0}
    /\ MaxDisconnects \in Nat \ {0}
    /\ {WindowEnd, Duration, TokenSlack} \subseteq Nat
    /\ Elapsed \subseteq Nat
    /\ {MaxTime, MaxGenerations, MaxInFlight} \subseteq Nat
    /\ EngineOrderly \in BOOLEAN

VARIABLES
    session,      \* the interview_sessions row, status "ABSENT" before INSERT
    ca,           \* the candidate_assessments row
    events,       \* rows of event_logs, counted per event name
    now,          \* the clock
    generations,  \* connection ids issued so far are 1..generations
    tokens,       \* session tokens issued so far are 1..tokens
    drops,        \* disconnect callbacks being served: id and deadline
    charged       \* history: the connection ids whose drop was counted

vars == <<session, ca, events, now, generations, tokens, drops, charged>>

-----------------------------------------------------------------------------
(* The values of the status columns, and the rows.                         *)

ActiveStatuses == {"INITIALIZING", "IN_PROGRESS"}

TerminalSessionStatuses ==
    {"COMPLETED", "EVALUATED", "EVALUATION_FAILED", "DEACTIVATED", "TERMINATED"}

TerminalCandidateStatuses == {"COMPLETED", "EVALUATED", "TERMINATED"}

SessionStatuses ==
    {"ABSENT", "DISCONNECTED"} \cup ActiveStatuses \cup TerminalSessionStatuses

CandidateStatuses == {"INVITED", "IN_PROGRESS"} \cup TerminalCandidateStatuses

Time == Nat \cup {NULL}

SessionRow ==
    [status: SessionStatuses, token: Nat \cup {NULL}, expires: Time,
     disconnects: Nat, timeouts: Nat, lastDisconnect: Time, deadline: Time,
     conn: Nat \cup {NULL}, elapsed: Nat, pause: Nat]

CandidateRow ==
    [status: CandidateStatuses, consumed: BOOLEAN, started: Time, ended: Time]

EventNames == {"INVITE_LINK_CONSUMED", "SESSION_DISCONNECTED",
               "SESSION_TERMINATED_MAX_DISCONNECTS", "SESSION_RECONNECTED",
               "SESSION_DISCONNECT_TIMEOUT_RECORDED"}

Record(name) == [events EXCEPT ![name] = @ + 1]

Coalesce(value, default) == IF value = NULL THEN default ELSE value

Greatest(a, b) == IF a >= b THEN a ELSE b

-----------------------------------------------------------------------------
(* CandidateSessionRepository: updates of the two rows.                    *)

Absent ==
    [status |-> "ABSENT", token |-> NULL, expires |-> NULL, disconnects |-> 0,
     timeouts |-> 0, lastDisconnect |-> NULL, deadline |-> NULL, conn |-> NULL,
     elapsed |-> 0, pause |-> 0]

\* INSERT ... ON CONFLICT DO NOTHING, then SELECT ... FOR UPDATE.
GetOrCreateSession(s) ==
    IF s.status = "ABSENT" THEN [s EXCEPT !.status = "INITIALIZING"] ELSE s

SetSessionCredentials(s, token, expires) ==
    [s EXCEPT !.token = token, !.expires = expires]

\* Mutant: the UPDATE is forgotten.
InvitationNeverConsumed(c) == c

ConsumeInvitation(c) == [c EXCEPT !.consumed = TRUE]

\* The row a session token selects: none before a token was issued.
TokenSelectsRow == session.token # NULL

BindActiveConnection(s, id) ==
    IF s.status \in ActiveStatuses THEN [s EXCEPT !.conn = id] ELSE s

\* Mutant: the reconnect deadline is left behind.
RestoreKeepsDeadline(s) ==
    [s EXCEPT !.status = "IN_PROGRESS",
              !.pause = @ + Greatest(0, now - s.lastDisconnect), !.conn = NULL]

\* Mutant: a recovery is counted as a timeout.
RestoreCountsTimeout(s) ==
    [s EXCEPT !.status = "IN_PROGRESS",
              !.pause = @ + Greatest(0, now - s.lastDisconnect),
              !.timeouts = @ + 1, !.deadline = NULL, !.conn = NULL]

RestoreDisconnectedSession(s) ==
    [s EXCEPT !.status = "IN_PROGRESS",
              !.pause = @ + Greatest(0, now - s.lastDisconnect),
              !.deadline = NULL,
              !.conn = NULL]

TerminateReconnectTimeout(s) ==
    [s EXCEPT !.status = "TERMINATED", !.timeouts = @ + 1,
              !.deadline = NULL, !.conn = NULL]

\* Mutant: the generation is not compared.
DisconnectMatchesAny(s, id) == s.conn # NULL /\ s.status \in ActiveStatuses

DisconnectMatches(s, id) == s.conn = id /\ s.status \in ActiveStatuses

\* Mutant: one drop too many.
TerminatesOneLate(s) == s.disconnects + 1 > MaxDisconnects

ShouldTerminate(s) == s.disconnects + 1 >= MaxDisconnects

RecordDisconnect(s, deadline, elapsed) ==
    [s EXCEPT !.disconnects = @ + 1,
              !.status = IF ShouldTerminate(s) THEN "TERMINATED" ELSE "DISCONNECTED",
              !.elapsed = Greatest(@, elapsed),
              !.lastDisconnect = now,
              !.deadline = IF ShouldTerminate(s) THEN NULL ELSE deadline,
              !.conn = NULL]

\* Mutant: only the end stamp is written.
CandidateEndedOnly(c) == [c EXCEPT !.ended = Coalesce(@, now)]

MarkCandidateTerminated(c) ==
    [c EXCEPT !.status = "TERMINATED", !.ended = Coalesce(@, now)]

(* InterviewSessionRepository and AssessmentContextRepository: none of     *)
(* these looks at the status it overwrites.                                *)

MarkSessionInProgress(s) == [s EXCEPT !.status = "IN_PROGRESS", !.deadline = NULL]

CompleteSessionRow(s, elapsed) ==
    [s EXCEPT !.status = "COMPLETED", !.elapsed = elapsed,
              !.deadline = NULL, !.conn = NULL]

UpdateElapsedTime(s, elapsed) == [s EXCEPT !.elapsed = Greatest(@, elapsed)]

TerminateSession(s) ==
    [s EXCEPT !.status = "TERMINATED", !.deadline = NULL, !.conn = NULL]

MarkStarted(c) == [c EXCEPT !.status = "IN_PROGRESS"]

MarkTimerStarted(c) ==
    [c EXCEPT !.status = "IN_PROGRESS", !.started = Coalesce(@, now)]

MarkCompleted(c) == [c EXCEPT !.status = "COMPLETED", !.ended = Coalesce(@, now)]

(* EvaluationRepository, as far as it writes the two rows.                 *)

MarkFailed(s) ==
    IF s.status # "EVALUATED" THEN [s EXCEPT !.status = "EVALUATION_FAILED"] ELSE s

SaveEvaluated(s) == [s EXCEPT !.status = "EVALUATED"]

MarkCandidateEvaluated(c) ==
    [c EXCEPT !.status = "EVALUATED", !.ended = Coalesce(@, now)]

-----------------------------------------------------------------------------
(* enter_with_invitation.                                                  *)

WindowClosed == WindowEnd <= now /\ ca.started = NULL

Closed(s) ==
    \/ s.status \in TerminalSessionStatuses
    \/ ca.status \in TerminalCandidateStatuses

EntryRejected(s) ==
    \/ WindowClosed
    \/ Closed(s)
    \/ ca.consumed /\ s.expires # NULL /\ s.expires <= now

\* A token lives until its interview, or the window, is over, and then some.
TokenExpiry ==
    Greatest(now + Greatest(1, Duration) + TokenSlack, WindowEnd + TokenSlack)

WithCredentials(s) ==
    IF s.token = NULL THEN SetSessionCredentials(s, tokens + 1, TokenExpiry) ELSE s

\* Refused, but the session row the request inserted is committed.
EnterRefused ==
    LET s == GetOrCreateSession(session) IN
    /\ EntryRejected(s)
    /\ session' = s
    /\ UNCHANGED <<ca, events, now, generations, tokens, drops, charged>>

EnterWithInvitation ==
    LET s == GetOrCreateSession(session) IN
    /\ ~EntryRejected(s)
    /\ session' = WithCredentials(s)
    /\ tokens' = IF s.token = NULL THEN tokens + 1 ELSE tokens
    /\ IF ca.consumed
       THEN UNCHANGED <<ca, events>>
       ELSE /\ ca' = ConsumeInvitation(ca)
            /\ events' = Record("INVITE_LINK_CONSUMED")
    /\ UNCHANGED <<now, generations, drops, charged>>

-----------------------------------------------------------------------------
(* authorize_interview_connection: it alone enforces the reconnect timeout *)
(* (lazily, when the browser asks for a connection again).                 *)

ValidateActiveToken ==
    /\ TokenSelectsRow
    /\ session.expires # NULL /\ session.expires > now
    /\ ~WindowClosed
    /\ ~Closed(session)

\* Mutant: the deadline is never compared with the clock.
GraceNeverExpires == session.deadline = NULL

GraceExpired == session.deadline = NULL \/ session.deadline < now

AuthorizeTimeout ==
    /\ ValidateActiveToken
    /\ session.status = "DISCONNECTED" /\ GraceExpired
    /\ session' = TerminateReconnectTimeout(session)
    /\ ca' = MarkCandidateTerminated(ca)
    /\ events' = Record("SESSION_DISCONNECT_TIMEOUT_RECORDED")
    /\ UNCHANGED <<now, generations, tokens, drops, charged>>

\* Restored, then bound to a fresh connection id: the id the request read
\* is NULL for a DISCONNECTED session.
AuthorizeReconnect ==
    /\ ValidateActiveToken
    /\ session.status = "DISCONNECTED" /\ ~GraceExpired
    /\ generations < MaxGenerations
    /\ LET id == IF session.conn = NULL THEN generations + 1 ELSE session.conn IN
       /\ session' = BindActiveConnection(RestoreDisconnectedSession(session), id)
       /\ generations' = Greatest(generations, id)
    /\ ca' = MarkStarted(ca)
    /\ events' = Record("SESSION_RECONNECTED")
    /\ UNCHANGED <<now, tokens, drops, charged>>

\* A running interview's connection is replaced by a fresh generation; one
\* that has not begun keeps the connection id it has.
ConnectionId ==
    IF session.status = "IN_PROGRESS" \/ session.conn = NULL
    THEN generations + 1
    ELSE session.conn

AuthorizeConnection ==
    /\ ValidateActiveToken
    /\ session.status # "DISCONNECTED"
    /\ ConnectionId <= MaxGenerations
    /\ session' = BindActiveConnection(session, ConnectionId)
    /\ generations' = Greatest(generations, ConnectionId)
    /\ UNCHANGED <<ca, events, now, tokens, drops, charged>>

-----------------------------------------------------------------------------
(* record_disconnect: the deadline is computed when the call arrives, the  *)
(* row is matched and updated when the transaction gets its lock.          *)

DisconnectArrives(id) ==
    /\ Cardinality(drops) < MaxInFlight
    /\ drops' = drops \cup {[id |-> id, deadline |-> now + ReconnectWindow]}
    /\ UNCHANGED <<session, ca, events, now, generations, tokens, charged>>

DisconnectIgnored(d) ==
    /\ ~DisconnectMatches(session, d.id)
    /\ drops' = drops \ {d}
    /\ UNCHANGED <<session, ca, events, now, generations, tokens, charged>>

DisconnectRecorded(d, elapsed) ==
    /\ DisconnectMatches(session, d.id)
    /\ session' = RecordDisconnect(session, d.deadline, elapsed)
    /\ ca' = IF ShouldTerminate(session) THEN MarkCandidateTerminated(ca) ELSE ca
    /\ events' = Record(IF ShouldTerminate(session)
                        THEN "SESSION_TERMINATED_MAX_DISCONNECTS"
                        ELSE "SESSION_DISCONNECTED")
    /\ drops' = drops \ {d}
    /\ charged' = charged \cup {d.id}
    /\ UNCHANGED <<now, generations, tokens>>

-----------------------------------------------------------------------------
(* Calls of the interview engine (api/rest/routes/internal_interview.py).  *)
(* An orderly engine calls for the job of the bound connection only.       *)

SessionExists == session.status # "ABSENT"

JobIsCurrent == EngineOrderly => session.conn # NULL

OnlyRows == UNCHANGED <<events, now, generations, tokens, drops, charged>>

InitializeInterviewContext ==
    /\ JobIsCurrent
    /\ session' = MarkSessionInProgress(GetOrCreateSession(session))
    /\ ca' = MarkStarted(ca)
    /\ OnlyRows

SessionInProgress ==
    /\ SessionExists /\ JobIsCurrent
    /\ session' = MarkSessionInProgress(session)
    /\ UNCHANGED ca /\ OnlyRows

CandidateStarted ==
    /\ JobIsCurrent
    /\ ca' = MarkStarted(ca)
    /\ UNCHANGED session /\ OnlyRows

CandidateTimerStarted ==
    /\ JobIsCurrent
    /\ ca' = MarkTimerStarted(ca)
    /\ UNCHANGED session /\ OnlyRows

\* The part of persist_turn that writes a column modelled here.
PersistTurn(elapsed) ==
    /\ SessionExists
    /\ session' = UpdateElapsedTime(session, elapsed)
    /\ UNCHANGED ca /\ OnlyRows

\* What record_tab_switch and record_proctoring_event do when they terminate.
ProctoringTermination ==
    /\ session.conn # NULL /\ session.status \in ActiveStatuses
    /\ session' = TerminateSession(session)
    /\ ca' = MarkCandidateTerminated(ca)
    /\ OnlyRows

\* Ending an interview is two requests: the session's, then the candidate's.
CompleteSession(elapsed) ==
    /\ SessionExists
    /\ EngineOrderly => session.conn # NULL \/ session.status = "COMPLETED"
    /\ session' = CompleteSessionRow(session, elapsed)
    /\ UNCHANGED ca /\ OnlyRows

CandidateCompleted ==
    /\ EngineOrderly => session.status = "COMPLETED"
    /\ ca' = MarkCompleted(ca)
    /\ UNCHANGED session /\ OnlyRows

InterviewEnded == EngineOrderly => ca.status \in TerminalCandidateStatuses

MarkEvaluationFailed ==
    /\ SessionExists /\ InterviewEnded
    /\ session' = MarkFailed(session)
    /\ UNCHANGED ca /\ OnlyRows

SaveFinalEvaluation ==
    /\ SessionExists /\ InterviewEnded
    /\ session' = SaveEvaluated(session)
    /\ ca' = MarkCandidateEvaluated(ca)
    /\ OnlyRows

-----------------------------------------------------------------------------

Tick ==
    /\ now < MaxTime
    /\ now' = now + 1
    /\ UNCHANGED <<session, ca, events, generations, tokens, drops, charged>>

Init ==
    /\ session = Absent
    /\ ca = [status |-> "INVITED", consumed |-> FALSE, started |-> NULL, ended |-> NULL]
    /\ events = [name \in EventNames |-> 0]
    /\ now = 0
    /\ generations = 0
    /\ tokens = 0
    /\ drops = {}
    /\ charged = {}

Authorize == AuthorizeTimeout \/ AuthorizeReconnect \/ AuthorizeConnection

Candidate == EnterRefused \/ EnterWithInvitation \/ Authorize

LiveKit ==
    \/ \E id \in 1..generations : DisconnectArrives(id)
    \/ \E d \in drops : DisconnectIgnored(d)
    \/ \E d \in drops, elapsed \in Elapsed : DisconnectRecorded(d, elapsed)

\* What the engine reports about the interview's progress and its end.
Progress ==
    \/ InitializeInterviewContext
    \/ SessionInProgress
    \/ CandidateStarted
    \/ CandidateTimerStarted
    \/ \E elapsed \in Elapsed : CompleteSession(elapsed)
    \/ CandidateCompleted
    \/ MarkEvaluationFailed
    \/ SaveFinalEvaluation

Engine ==
    \/ Progress
    \/ \E elapsed \in Elapsed : PersistTurn(elapsed)
    \/ ProctoringTermination

Next == Tick \/ Candidate \/ LiveKit \/ Engine

Spec == Init /\ [][Next]_vars

-----------------------------------------------------------------------------
(* Properties.                                                             *)

\* The rows, the clock and the bookkeeping keep their types: the columns of
\* interview_sessions and candidate_assessments.
TypeOK ==
    /\ session \in SessionRow
    /\ ca \in CandidateRow
    /\ events \in [EventNames -> Nat]
    /\ now \in Nat /\ generations \in Nat /\ tokens \in Nat
    /\ drops \in SUBSET [id: 1..generations, deadline: Nat]
    /\ charged \in SUBSET (1..generations)

\* The columns that record_disconnect, restore_disconnected_session and
\* terminate_reconnect_timeout write stay consistent whatever the engine
\* overwrites in between: a DISCONNECTED session has a reconnect deadline
\* (so the `deadline is None' branch of authorize_interview_connection is
\* dead), no bound connection and a drop count below the limit; its
\* deadline is at most one window after its last drop; a deadline or a
\* connection outlives the states that own it only in an evaluated session;
\* and no callback being served promises more than one window from now.
GraceCoherent ==
    LET evaluated == {"EVALUATED", "EVALUATION_FAILED"} IN
    /\ session.status = "DISCONNECTED" =>
          /\ session.deadline # NULL /\ session.lastDisconnect # NULL
          /\ session.deadline <= session.lastDisconnect + ReconnectWindow
          /\ session.conn = NULL
          /\ session.disconnects \in 1..(MaxDisconnects - 1)
    /\ session.deadline # NULL => session.status \in {"DISCONNECTED"} \cup evaluated
    /\ session.conn # NULL => session.status \in ActiveStatuses \cup evaluated
    /\ \A d \in drops : d.deadline <= now + ReconnectWindow

\* disconnect_count counts connection generations, each at most once: a
\* close callback delivered twice, or for a connection that was replaced
\* or already dropped, is never charged, because a charged id is never
\* bound again ("Prevents a stale replaced LiveKit job ...").
ChargedOnce ==
    /\ session.disconnects = Cardinality(charged)
    /\ session.conn \notin charged

\* Reconnecting never pays more than one window of pause per recovery, and
\* fewer than MaxDisconnects drops can be recovered from, so
\* total_pause_secs is bounded for good although nothing in the code
\* compares it with a limit.
PauseBounded ==
    /\ session.pause <= ReconnectWindow * events["SESSION_RECONNECTED"]
    /\ events["SESSION_RECONNECTED"] <= events["SESSION_DISCONNECTED"]
    /\ events["SESSION_DISCONNECTED"] < MaxDisconnects

\* "Reconnect windows that actually expired; successful recovery never
\* increments it": every recovery and every expiry in the audit log belongs
\* to a drop of its own, and a pending drop has neither.
DropLedger ==
    /\ session.disconnects =
          events["SESSION_DISCONNECTED"] + events["SESSION_TERMINATED_MAX_DISCONNECTS"]
    /\ session.timeouts = events["SESSION_DISCONNECT_TIMEOUT_RECORDED"]
    /\ events["SESSION_RECONNECTED"] + session.timeouts
          + (IF session.status = "DISCONNECTED" THEN 1 ELSE 0)
             <= events["SESSION_DISCONNECTED"]

\* An invitation is consumed in the transaction that issues the one session
\* token, and never without it, so an entry that finds it consumed always
\* has a token to hand back.
OneCredential ==
    /\ tokens = events["INVITE_LINK_CONSUMED"]
    /\ IF ca.consumed
       THEN tokens = 1 /\ session.token = 1 /\ session.expires # NULL
       ELSE tokens = 0 /\ session.token = NULL /\ session.expires = NULL

\* A connection id is bound only by a candidate who holds a token, while
\* the window is open or the interview has started, and never reappears: a
\* step that binds an id that was not bound binds a fresh one.
FreshConnection ==
    [][session'.conn \notin {session.conn, NULL} =>
          session'.conn > generations /\ session.token # NULL]_vars

\* Together they are inductive.
IndInv ==
    /\ TypeOK
    /\ GraceCoherent
    /\ ChargedOnce
    /\ PauseBounded
    /\ DropLedger
    /\ OneCredential

\* "All real LiveKit drops; the third one terminates the session."
\* Holds of an orderly engine.
LastDropTerminates ==
    session.disconnects >= MaxDisconnects => session.status \in TerminalSessionStatuses

\* The two lifecycle rows agree on a termination and on an evaluation, and
\* no candidate is closed while the session runs.  Holds of an orderly
\* engine.
RowsAgree ==
    /\ session.status = "TERMINATED" => ca.status = "TERMINATED"
    /\ session.status = "EVALUATED" <=> ca.status = "EVALUATED"
    /\ ca.status \in TerminalCandidateStatuses =>
          session.status \in TerminalSessionStatuses /\ ca.ended # NULL

\* A closed interview is never reopened: no request takes a session out of
\* its terminal states.  Holds of an orderly engine.
ClosedStaysClosed ==
    [][session.status \in TerminalSessionStatuses =>
          session'.status \in TerminalSessionStatuses]_vars

\* What the service promises, read off the session row.
Phase ==
    CASE session.status = "ABSENT" -> "new"
      [] session.status \in ActiveStatuses -> "open"
      [] session.status = "DISCONNECTED" -> "grace"
      [] OTHER -> "closed"

Lifecycle == INSTANCE SessionLifecycle
    WITH Window <- ReconnectWindow, MaxStrikes <- MaxDisconnects,
         phase <- Phase, strikes <- session.disconnects, paused <- session.pause

\* The requests over the two rows implement the bounded reconnection
\* lifecycle.  Holds of an orderly engine.
LifecycleSpec == Lifecycle!Spec

\* The two rows as MigrationRuns stores them.
StoredSession ==
    [status |-> session.status, deadline |-> session.deadline # NULL]
StoredEnrolment == [status |-> ca.status, consumed |-> ca.consumed]

Rows == INSTANCE InterviewRows

\* The two rows change together in the few ways of InterviewRows: no request
\* moves one of them past what the other allows, or leaves a deadline that
\* the check constraint of interview_sessions refuses.  Holds of an orderly
\* engine.
RowsLive ==
    [][Rows!Lives(StoredSession, StoredEnrolment, StoredSession', StoredEnrolment')]_
        <<StoredSession, StoredEnrolment>>

=============================================================================
