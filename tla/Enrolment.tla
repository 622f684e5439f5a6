------------------------------ MODULE Enrolment ------------------------------
(***************************************************************************)
(* Candidates and their enrolments: core/services/candidate_service.py     *)
(* over candidate_repository.py and candidate_assessment_repository.py.    *)
(*                                                                         *)
(* A request is one transaction at READ COMMITTED: each SELECT sees what   *)
(* is committed by then and what the request itself has flushed, and a     *)
(* flush waits for a transaction that holds the row or the key it needs.   *)
(* So a request is a sequence of steps, one per SELECT or flush whose      *)
(* place among other requests' steps matters.  The work for after the      *)
(* commit (the invitation, the analysis of the resume) is a list of        *)
(* callbacks kept with the session, and the analysis is a task of the API  *)
(* process, which may die.                                                 *)
(*                                                                         *)
(* Left out: names, the content of resumes, malformed files and rows (a    *)
(* refusal that changes nothing), and the rows a deleted enrolment takes   *)
(* with it.  A recruiter who does not own the assessment is refused at     *)
(* once, so the recruiter of a request is the owner of its assessment.     *)
(***************************************************************************)
EXTENDS Naturals, Sequences, FiniteSets, SequencesExt

CONSTANTS
    Emails,        \* addresses that candidates are known by
    Assessments,
    Owner,         \* the recruiter of an assessment
    Window,        \* window_start and window_end of an assessment
    Requests,      \* requests that may be in progress at once
    MaxRows,       \* bound: rows of an uploaded CSV
    MaxRequests,   \* bound: requests begun
    MaxCrashes     \* bound: restarts of the API process

ASSUME EnrolmentAssumption ==
    /\ \A a \in Assessments : Window[a] \in [from : Nat, to : Nat]
    /\ Assessments \subseteq DOMAIN Owner
    /\ {MaxRows, MaxRequests, MaxCrashes} \subseteq Nat

VARIABLES
    candidates,    \* rows of candidates
    enrolments,    \* rows of candidate_assessments
    txn,           \* what each request has done and will do
    lastId,        \* the identifier given last
    analyses,      \* enrolments whose resume a task of the process analyses
    files,         \* enrolments whose uploaded resume is a temporary file
    begun,         \* requests begun
    crashes,       \* restarts so far
    enrolled,      \* history: enrolments ever committed
    invited,       \* history: enrolments whose invitation was queued
    forsaken,      \* history: enrolments whose callbacks or analysis got lost
    confirmed      \* history: enrolments a successful answer spoke of

database == <<candidates, enrolments>>
outside == <<analyses, files>>
history == <<enrolled, invited, forsaken, confirmed>>
bounds == <<begun, crashes>>
vars == <<candidates, enrolments, txn, lastId, analyses, files, begun, crashes,
          enrolled, invited, forsaken, confirmed>>

Ids(rows) == {row.id : row \in rows}

Idle == [step |-> "idle", kind |-> "none", assessment |-> "none", todo |-> <<>>,
         target |-> 0, file |-> FALSE, resume |-> "PENDING", saw |-> {},
         created |-> {}, inserted |-> {}, dropped |-> {}, doomed |-> FALSE,
         callbacks |-> <<>>, answer |-> {}]

-----------------------------------------------------------------------------
(* What a statement of a request sees, and what it waits for.              *)

SeenCandidates(r) ==
    {c \in candidates \cup txn[r].created : c.id \notin txn[r].dropped}

SeenEnrolments(r) ==
    {e \in enrolments \cup txn[r].inserted : e.id \notin txn[r].dropped}

EnrolmentsOf(c, rows) == {e \in rows : e.candidate = c}

\* _assert_no_window_overlap
Overlap(a, b) == Window[a].from < Window[b].to /\ Window[b].from < Window[a].to

Conflicting(a, rows) == {e \in rows : e.active /\ Overlap(a, e.assessment)}

\* What the other requests did: a flush waits for rows and keys they hold.
Others(r) == {txn[o] : o \in Requests \ {r}}

Go(r, step) == txn' = [txn EXCEPT ![r].step = step]

\* An exception leaves the handler: rollback, and the request is over.
Refuse(r) ==
    /\ txn' = [txn EXCEPT ![r] = Idle]
    /\ UNCHANGED <<database, lastId, outside, history, bounds>>

-----------------------------------------------------------------------------
(* The requests begin.                                                     *)

Begin(r, request) ==
    /\ txn[r].step = "idle"
    /\ begun < MaxRequests
    /\ begun' = begun + 1
    /\ txn' = [txn EXCEPT ![r] = request]
    /\ UNCHANGED <<database, lastId, outside, history, crashes>>

BeginUpload(r) ==
    \E a \in Assessments, n \in 1..MaxRows : \E rows \in [1..n -> Emails] :
        Begin(r, [Idle EXCEPT !.step = "find", !.kind = "upload", !.assessment = a, !.todo = rows])

BeginCreate(r) ==
    \E a \in Assessments, email \in Emails :
        Begin(r, [Idle EXCEPT !.step = "find", !.kind = "create", !.assessment = a,
                              !.todo = <<email>>, !.file = TRUE])

BeginEnroll(r) ==
    \E a \in Assessments, c \in candidates, file \in BOOLEAN :
        Begin(r, [Idle EXCEPT !.step = "find", !.kind = "enroll", !.assessment = a,
                              !.todo = <<c.email>>, !.target = c.id, !.file = file])

BeginDelete(r) ==
    \E e \in enrolments :
        Begin(r, [Idle EXCEPT !.step = "erase", !.kind = "delete", !.target = e.id])

-----------------------------------------------------------------------------
(* Finding out what to insert.                                             *)

\* The row of the CSV is reported as failed, and the loop goes on.
SkipRow(r, doomed) ==
    txn' = [txn EXCEPT ![r].step = "find", ![r].todo = Tail(@), ![r].doomed = doomed]

Plan(r, c, rows, resume) ==
    txn' = [txn EXCEPT ![r].step = "insert", ![r].target = c, ![r].resume = resume,
                       ![r].saw = Ids(rows)]

UploadFind(r) ==
    LET t == txn[r]
        known == {c \in SeenCandidates(r) : c.email = Head(t.todo)}
        rows(c) == EnrolmentsOf(c.id, SeenEnrolments(r))
    IN  /\ t.kind = "upload" /\ t.step = "find" /\ t.todo # <<>> /\ ~t.doomed
        /\ \/ known = {} /\ Plan(r, 0, {}, "PENDING")
           \/ \E c \in known :
                IF \/ \E e \in rows(c) : e.assessment = t.assessment
                   \/ Conflicting(t.assessment, rows(c)) # {}
                THEN SkipRow(r, FALSE)
                ELSE Plan(r, c.id, rows(c), "PENDING")
        /\ UNCHANGED <<database, lastId, outside, history, bounds>>

\* The session's transaction is broken: every statement of a row raises.
DoomedRow(r) ==
    /\ txn[r].step = "find" /\ txn[r].todo # <<>> /\ txn[r].doomed
    /\ SkipRow(r, TRUE)
    /\ UNCHANGED <<database, lastId, outside, history, bounds>>

\* All rows are done: the failures are logged, unless the transaction is broken.
UploadDone(r) ==
    /\ txn[r].kind = "upload" /\ txn[r].step = "find" /\ txn[r].todo = <<>>
    /\ ~txn[r].doomed
    /\ Go(r, "commit")
    /\ UNCHANGED <<database, lastId, outside, history, bounds>>

UploadFails(r) ==
    /\ txn[r].kind = "upload" /\ txn[r].step = "find" /\ txn[r].todo = <<>>
    /\ txn[r].doomed
    /\ Refuse(r)

\* A candidate without enrolments is in the way: it is deleted first.
CreateFind(r) ==
    LET t == txn[r]
        known == {c \in SeenCandidates(r) : c.email = Head(t.todo)}
    IN  /\ t.kind = "create" /\ t.step = "find"
        /\ \/ /\ known = {}
              /\ Plan(r, 0, {}, "PENDING")
              /\ UNCHANGED <<database, lastId, outside, history, bounds>>
           \/ \E c \in known :
                /\ EnrolmentsOf(c.id, SeenEnrolments(r)) = {}
                /\ txn' = [txn EXCEPT ![r].step = "cascade", ![r].target = c.id]
                /\ UNCHANGED <<database, lastId, outside, history, bounds>>
           \/ /\ \E c \in known : EnrolmentsOf(c.id, SeenEnrolments(r)) # {}
              /\ Refuse(r)

Allowed(c, a, rows) ==
    \/ c.createdBy = Owner[a]
    \/ \E e \in rows : Owner[e.assessment] = Owner[a]

\* Mutant: windows are not compared.
EnrollableAnyWindow(c, a, rows) ==
    /\ \A e \in rows : e.assessment # a
    /\ Allowed(c, a, rows)

Enrollable(c, a, rows) ==
    /\ \A e \in rows : e.assessment # a
    /\ Allowed(c, a, rows)
    /\ Conflicting(a, rows) = {}

\* Without a new file a parsed resume of an earlier enrolment is reused.
EnrollFind(r) ==
    LET t == txn[r]
        rows == EnrolmentsOf(t.target, SeenEnrolments(r))
        parsed == \E e \in rows : e.resume = "COMPLETED"
        fits == \E c \in SeenCandidates(r) :
                    c.id = t.target /\ Enrollable(c, t.assessment, rows)
    IN  /\ t.kind = "enroll" /\ t.step = "find"
        /\ \/ /\ fits
              /\ Plan(r, t.target, rows, IF parsed /\ ~t.file THEN "COMPLETED" ELSE "PENDING")
              /\ UNCHANGED <<database, lastId, outside, history, bounds>>
           \/ ~fits /\ Refuse(r)

-----------------------------------------------------------------------------
(* Inserting.                                                              *)

\* The unique keys and the foreign key make the flush wait for another request.
InsertWaits(r) ==
    LET t == txn[r] email == Head(t.todo) IN
    \E o \in Others(r) :
        \/ t.target = 0 /\ \E c \in o.created : c.email = email
        \/ t.target = 0 /\ \E c \in candidates : c.email = email /\ c.id \in o.dropped
        \/ t.target \in o.dropped
        \/ t.target # 0 /\ \E e \in o.inserted :
                               e.candidate = t.target /\ e.assessment = t.assessment

InsertClashes(r) ==
    LET t == txn[r] IN
    IF t.target = 0
    THEN \E c \in SeenCandidates(r) : c.email = Head(t.todo)
    ELSE \/ t.target \notin Ids(SeenCandidates(r))
         \/ \E e \in EnrolmentsOf(t.target, SeenEnrolments(r)) : e.assessment = t.assessment

\* The analysis is started if the request brought a resume (a file or a link).
Callbacks(t, id) ==
    <<[do |-> "invite", for |-> id]>>
        \o (IF t.kind = "enroll" /\ ~t.file THEN <<>> ELSE <<[do |-> "analyse", for |-> id]>>)

\* create_candidate, CandidateAssessmentRepository.create, write_temporary_resume
Insert(r) ==
    LET t == txn[r]
        new == t.target = 0
        c == IF new THEN lastId + 1 ELSE t.target
        id == IF new THEN lastId + 2 ELSE lastId + 1
        row == [id |-> id, candidate |-> c, assessment |-> t.assessment, active |-> TRUE,
                resume |-> t.resume, asked |-> t.kind # "enroll" \/ t.file, saw |-> t.saw]
        person == [id |-> c, email |-> Head(t.todo), createdBy |-> Owner[t.assessment]]
    IN  /\ t.step = "insert" /\ ~InsertWaits(r) /\ ~InsertClashes(r)
        /\ txn' = [txn EXCEPT
                ![r].step = IF t.kind = "upload" THEN "find" ELSE "commit",
                ![r].todo = Tail(@),
                ![r].created = @ \cup (IF new THEN {person} ELSE {}),
                ![r].inserted = @ \cup {row},
                ![r].callbacks = @ \o Callbacks(t, id),
                ![r].answer = @ \cup {id}]
        /\ lastId' = id
        /\ files' = files \cup (IF t.file THEN {id} ELSE {})
        /\ UNCHANGED <<database, analyses, history, bounds>>

\* Mutant: the session is rolled back, and the loop goes on as if nothing was lost.
BrokenForgets(r) ==
    IF txn[r].kind = "upload"
    THEN /\ txn' = [txn EXCEPT ![r].step = "find", ![r].todo = Tail(@),
                               ![r].created = {}, ![r].inserted = {}]
         /\ UNCHANGED <<database, lastId, outside, history, bounds>>
    ELSE Refuse(r)

\* A statement raises: an upload reports the row and goes on with a session
\* whose transaction is broken, any other request is over.
Broken(r) ==
    IF txn[r].kind = "upload"
    THEN /\ SkipRow(r, TRUE)
         /\ UNCHANGED <<database, lastId, outside, history, bounds>>
    ELSE Refuse(r)

InsertRefused(r) ==
    /\ txn[r].step = "insert" /\ ~InsertWaits(r) /\ InsertClashes(r)
    /\ Broken(r)

\* A deadlock, a timeout, a lost connection, a full disk.
StatementFails(r) ==
    /\ txn[r].step \in {"find", "insert", "erase", "remain", "cascade", "drop"}
    /\ txn[r].kind = "upload" => txn[r].todo # <<>> /\ ~txn[r].doomed
    /\ Broken(r)

-----------------------------------------------------------------------------
(* Deleting.                                                               *)

\* CandidateAssessmentRepository.delete; a row that is gone is no error.
Erase(r) ==
    LET row == {e \in enrolments : e.id = txn[r].target} IN
    /\ txn[r].step = "erase"
    /\ \A o \in Others(r) : txn[r].target \notin o.dropped
    /\ \/ row = {} /\ Refuse(r)
       \/ \E e \in row :
            /\ txn' = [txn EXCEPT ![r].step = "remain", ![r].target = e.candidate,
                                  ![r].dropped = {e.id}]
            /\ UNCHANGED <<database, lastId, outside, history, bounds>>

Remain(r) ==
    /\ txn[r].step = "remain"
    /\ Go(r, IF EnrolmentsOf(txn[r].target, SeenEnrolments(r)) = {} THEN "cascade" ELSE "commit")
    /\ UNCHANGED <<database, lastId, outside, history, bounds>>

\* session.delete(candidate) loads candidate_assessments and marks them too.
Cascade(r) ==
    /\ txn[r].step = "cascade"
    /\ txn' = [txn EXCEPT ![r].step = "drop",
                          ![r].saw = Ids(EnrolmentsOf(txn[r].target, SeenEnrolments(r)))]
    /\ UNCHANGED <<database, lastId, outside, history, bounds>>

DropWaits(r) ==
    LET t == txn[r] IN
    \E o \in Others(r) :
        \/ t.target \in o.dropped \/ t.saw \cap o.dropped # {}
        \/ EnrolmentsOf(t.target, o.inserted) # {}

\* The foreign key protects only what the cascade did not load.
Drop(r) ==
    LET t == txn[r] IN
    /\ t.step = "drop" /\ ~DropWaits(r)
    /\ IF Ids(EnrolmentsOf(t.target, SeenEnrolments(r))) \subseteq t.saw
       THEN /\ txn' = [txn EXCEPT ![r].step = IF t.kind = "create" THEN "insert" ELSE "commit",
                                  ![r].dropped = @ \cup t.saw \cup {t.target},
                                  ![r].target = 0, ![r].saw = {}]
            /\ UNCHANGED <<database, lastId, outside, history, bounds>>
       ELSE Refuse(r)

-----------------------------------------------------------------------------
(* The end of a request.                                                   *)

Commit(r) ==
    /\ txn[r].step = "commit"
    /\ candidates' = SeenCandidates(r)
    /\ enrolments' = SeenEnrolments(r)
    /\ enrolled' = enrolled \cup Ids(txn[r].inserted)
    /\ txn' = [txn EXCEPT ![r] = [Idle EXCEPT !.step = "callbacks", !.callbacks = txn[r].callbacks,
                                              !.answer = txn[r].answer]]
    /\ UNCHANGED <<lastId, outside, invited, forsaken, confirmed, bounds>>

CommitFails(r) == txn[r].step = "commit" /\ Refuse(r)

\* Mutant: only the first callback runs.
RunFirstCallback(r) ==
    /\ txn[r].step = "callbacks" /\ txn[r].callbacks # <<>>
    /\ invited' = invited \cup {Head(txn[r].callbacks).for}
    /\ txn' = [txn EXCEPT ![r].callbacks = <<>>]
    /\ UNCHANGED <<database, lastId, outside, enrolled, forsaken, confirmed, bounds>>

RunCallback(r) ==
    /\ txn[r].step = "callbacks" /\ txn[r].callbacks # <<>>
    /\ LET c == Head(txn[r].callbacks) IN
       /\ invited' = invited \cup (IF c.do = "invite" THEN {c.for} ELSE {})
       /\ analyses' = analyses \cup (IF c.do = "analyse" THEN {c.for} ELSE {})
    /\ txn' = [txn EXCEPT ![r].callbacks = Tail(@)]
    /\ UNCHANGED <<database, lastId, files, enrolled, forsaken, confirmed, bounds>>

CallbackTargets(r) == {c.for : c \in ToSet(txn[r].callbacks)}

\* The broker refuses an invitation: the callbacks after it never run.
CallbackRaises(r) ==
    /\ txn[r].step = "callbacks" /\ txn[r].callbacks # <<>>
    /\ Head(txn[r].callbacks).do = "invite"
    /\ txn' = [txn EXCEPT ![r] = Idle]
    /\ forsaken' = forsaken \cup CallbackTargets(r)
    /\ UNCHANGED <<database, lastId, outside, enrolled, invited, confirmed, bounds>>

Answer(r) ==
    /\ txn[r].step = "callbacks" /\ txn[r].callbacks = <<>>
    /\ confirmed' = confirmed \cup txn[r].answer
    /\ txn' = [txn EXCEPT ![r] = Idle]
    /\ UNCHANGED <<database, lastId, outside, enrolled, invited, forsaken, bounds>>

-----------------------------------------------------------------------------
(* The analysis of a resume, and what goes on around the requests.         *)

\* process_candidate_resume_in_background: a row that is gone is left alone,
\* and the file is removed in any case.
Analysed(id, status) ==
    /\ id \in analyses
    /\ enrolments' = {IF e.id = id THEN [e EXCEPT !.resume = status] ELSE e : e \in enrolments}
    /\ analyses' = analyses \ {id}
    /\ files' = files \ {id}
    /\ UNCHANGED <<candidates, txn, lastId, history, bounds>>

\* Neither the result nor the failure can be saved: the status stays PENDING.
ResultLost(id) ==
    /\ id \in analyses
    /\ analyses' = analyses \ {id}
    /\ files' = files \ {id}
    /\ forsaken' = forsaken \cup {id}
    /\ UNCHANGED <<database, txn, lastId, enrolled, invited, confirmed, bounds>>

\* The session lifecycle marks the enrolment COMPLETED or EVALUATED.
InterviewEnds(e) ==
    /\ e.active
    /\ enrolments' = (enrolments \ {e}) \cup {[e EXCEPT !.active = FALSE]}
    /\ UNCHANGED <<candidates, txn, lastId, outside, history, bounds>>

\* The process restarts: transactions, callbacks, tasks and temporary files are gone.
Restart ==
    /\ crashes < MaxCrashes
    /\ crashes' = crashes + 1
    /\ txn' = [r \in Requests |-> Idle]
    /\ analyses' = {} /\ files' = {}
    /\ forsaken' = forsaken \cup analyses \cup UNION {CallbackTargets(r) : r \in Requests}
    /\ UNCHANGED <<database, lastId, begun, enrolled, invited, confirmed>>

\* Nobody is enrolled yet, or one candidate was, long ago.
Init ==
    /\ \/ candidates = {} /\ enrolments = {} /\ lastId = 0
       \/ \E email \in Emails, a \in Assessments, parsed \in {"COMPLETED", "FAILED"} :
            /\ candidates = {[id |-> 1, email |-> email, createdBy |-> Owner[a]]}
            /\ enrolments = {[id |-> 2, candidate |-> 1, assessment |-> a, active |-> TRUE,
                              resume |-> parsed, asked |-> TRUE, saw |-> {}]}
            /\ lastId = 2
    /\ txn = [r \in Requests |-> Idle]
    /\ begun = 0 /\ crashes = 0
    /\ analyses = {} /\ files = {}
    /\ enrolled = Ids(enrolments) /\ invited = enrolled /\ confirmed = enrolled
    /\ forsaken = {}

BulkUpload(r) ==
    BeginUpload(r) \/ UploadFind(r) \/ DoomedRow(r) \/ UploadDone(r) \/ UploadFails(r)

Register(r) ==
    \/ BulkUpload(r) \/ BeginCreate(r) \/ CreateFind(r) \/ BeginEnroll(r) \/ EnrollFind(r)
    \/ Insert(r) \/ InsertRefused(r)

Withdraw(r) == BeginDelete(r) \/ Erase(r) \/ Remain(r) \/ Cascade(r) \/ Drop(r)

End(r) ==
    \/ StatementFails(r) \/ Commit(r) \/ CommitFails(r)
    \/ RunCallback(r) \/ CallbackRaises(r) \/ Answer(r)

Analyse(id) == Analysed(id, "COMPLETED") \/ Analysed(id, "FAILED") \/ ResultLost(id)

Next ==
    \/ \E r \in Requests : Register(r) \/ Withdraw(r) \/ End(r)
    \/ \E id \in analyses : Analyse(id)
    \/ \E e \in enrolments : InterviewEnds(e)
    \/ Restart

\* Callbacks run in the commit's own call, and the event loop runs every task.
Fairness ==
    /\ \A r \in Requests : WF_vars(End(r))
    /\ WF_vars(\E id \in analyses : Analyse(id))

Spec == Init /\ [][Next]_vars /\ Fairness

-----------------------------------------------------------------------------
(* Properties.                                                             *)

Steps == {"idle", "find", "insert", "erase", "remain", "cascade", "drop", "commit", "callbacks"}

\* Rows have their types, keys are unique and references hold.
TypeOK ==
    /\ candidates \subseteq [id : 1..lastId, email : Emails, createdBy : {Owner[a] : a \in Assessments}]
    /\ \A e \in enrolments :
          /\ e.id \in 1..lastId /\ e.candidate \in Ids(candidates) /\ e.assessment \in Assessments
          /\ e.active \in BOOLEAN /\ e.asked \in BOOLEAN
          /\ e.resume \in {"PENDING", "COMPLETED", "FAILED"}
    /\ \A c, d \in candidates : c.email = d.email \/ c.id = d.id => c = d
    /\ \A e, f \in enrolments : e.candidate = f.candidate /\ e.assessment = f.assessment => e = f
    /\ \A r \in Requests : txn[r].step \in Steps
    /\ begun \in 0..MaxRequests /\ crashes \in 0..MaxCrashes

\* Work is queued for durable rows only, however a request ends.
WorkIsDurable == invited \cup analyses \subseteq enrolled

\* A successful answer speaks of committed enrolments whose invitations are queued.
AnswersAreTrue == confirmed \subseteq enrolled \cap invited

\* Every enrolment was invited, is about to be, or its callbacks were lost with
\* a refused invitation or a restart.
InvitationsAccounted ==
    enrolled \subseteq invited \cup forsaken \cup UNION {CallbackTargets(r) : r \in Requests}

\* A resume that was handed in is analysed: PENDING means its task runs, or it was lost.
ResumesAccounted ==
    \A e \in enrolments : e.asked /\ e.resume = "PENDING" =>
        e.id \in analyses \cup forsaken \cup UNION {CallbackTargets(r) : r \in Requests}

\* The temporary file of a committed enrolment is only kept for an analysis to come.
FilesAreRemoved ==
    files \cap enrolled \subseteq
        analyses \cup forsaken \cup UNION {CallbackTargets(r) : r \in Requests}

\* Nothing is promised too early: no e-mail, analysis or successful answer
\* speaks of a row that was rolled back.
NothingPremature == WorkIsDurable /\ AnswersAreTrue

\* Nothing is forgotten: in a database whose keys and references hold, every
\* enrolment has its invitation, its analysis and no stray file, or they were
\* lost with a refused invitation or a restart.
WorkAccounted == TypeOK /\ InvitationsAccounted /\ ResumesAccounted /\ FilesAreRemoved

Clash(e, f) ==
    e # f /\ e.candidate = f.candidate /\ e.active /\ f.active /\ Overlap(e.assessment, f.assessment)

\* Two active enrolments overlap only if neither request could see the other's row.
OverlapNeedsRace ==
    \A e, f \in enrolments : Clash(e, f) => e.id \notin f.saw /\ f.id \notin e.saw

\* "Block enrollment when an active assessment window overlaps the new one."
NoOverlap == \A e, f \in enrolments : ~Clash(e, f)

\* "remove the candidate if no enrollments remain"
NoOrphans == \A c \in candidates : EnrolmentsOf(c.id, enrolments) # {}

\* "Delete a candidate record when they have no remaining enrollments."
\* A commit takes away the enrolment it was asked to delete, and no other.
DeletesAsked ==
    [][\A r \in Requests : Commit(r) =>
          Cardinality(enrolments \ enrolments') <= (IF txn[r].kind = "delete" THEN 1 ELSE 0)]_vars

\* In the end every resume that was handed in is settled, unless its task got lost.
ResumesSettle ==
    <>[](\A e \in enrolments : e.asked /\ e.resume = "PENDING" => e.id \in forsaken)
=============================================================================
