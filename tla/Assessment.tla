----------------------------- MODULE Assessment -----------------------------
(***************************************************************************)
(* One assessment from creation to closing: the recruiter's requests       *)
(* (core/services/assessment_service.py), the Celery task that analyses    *)
(* its job description, the periodic task that closes elapsed windows and  *)
(* the task that tells the candidates of a cancellation                    *)
(* (handlers/celery_tasks/assessment_tasks.py).                            *)
(*                                                                         *)
(* Tasks are acknowledged late, so a worker that dies leaves its message   *)
(* to be delivered again.  A status update reads the row at the start of   *)
(* its request and writes it at the end, without a lock in between; it     *)
(* queues the cancellations before it commits.                             *)
(***************************************************************************)
EXTENDS Naturals, FiniteSets

CONSTANTS
    Candidates,   \* candidates who may be enrolled in the assessment
    Requests,     \* bound: status updates ever made, one per element
    WindowEnd,    \* assessments.window_end
    MaxTime,      \* bound: the clock stops here, after the window
    MaxCrashes    \* bound: worker crashes

ASSUME AssessmentAssumption ==
    /\ IsFiniteSet(Candidates) /\ IsFiniteSet(Requests)
    /\ {WindowEnd, MaxTime, MaxCrashes} \subseteq Nat
    /\ WindowEnd <= MaxTime

VARIABLES
    assessment,   \* the assessments row: status and whether interview_plan is set
    now,          \* the clock
    job,          \* the message of core.process_assessment
    updates,      \* per request: what it read, what it writes, its progress
    dispatches,   \* per request: its core.dispatch_assessment_cancellations
    enrolled,     \* candidates with a candidate_assessments row
    entered,      \* enrolled candidates whose invitation was accepted
    told,         \* cancellation e-mails queued per candidate
    crashes       \* worker crashes so far

vars == <<assessment, now, job, updates, dispatches, enrolled, entered, told, crashes>>

Statuses == {"ABSENT", "PROCESSING", "ACTIVE", "CLOSED"}

Idle == [read |-> "ABSENT", new |-> "ABSENT", state |-> "idle"]

\* A task delivered once more after its worker died.
Crash == crashes < MaxCrashes /\ crashes' = crashes + 1

WindowOver == WindowEnd <= now

-----------------------------------------------------------------------------
(* create_assessment, and the callback that runs after its commit.         *)

CreateAssessment ==
    /\ assessment.status = "ABSENT"
    /\ assessment' = [status |-> "PROCESSING", plan |-> FALSE]
    /\ job' = "callback"
    /\ UNCHANGED <<now, updates, dispatches, enrolled, entered, told, crashes>>

\* The API process dies, or the broker refuses, between commit and enqueue.
EnqueueProcessing ==
    /\ job = "callback"
    /\ job' \in {"queued", "lost"}
    /\ UNCHANGED <<assessment, now, updates, dispatches, enrolled, entered, told, crashes>>

-----------------------------------------------------------------------------
(* core.process_assessment.                                                *)

StartProcessing ==
    /\ job = "queued" /\ job' = "running"
    /\ UNCHANGED <<assessment, now, updates, dispatches, enrolled, entered, told, crashes>>

\* Mutant: a closed assessment is activated.
ReopeningStatus == IF WindowOver THEN "CLOSED" ELSE "ACTIVE"

FinalStatus ==
    IF assessment.status = "CLOSED" \/ WindowOver THEN "CLOSED" ELSE "ACTIVE"

ActivateAssessment ==
    /\ job = "running" /\ job' = "finished"
    /\ assessment' = [status |-> FinalStatus, plan |-> TRUE]
    /\ UNCHANGED <<now, updates, dispatches, enrolled, entered, told, crashes>>

\* Analysis failed; the failure handler closes, unless it fails as well.
ProcessingFails ==
    /\ job = "running" /\ job' = "finished"
    /\ assessment' \in {assessment, [assessment EXCEPT !.status = "CLOSED"]}
    /\ UNCHANGED <<now, updates, dispatches, enrolled, entered, told, crashes>>

AcknowledgeProcessing ==
    /\ job = "finished" /\ job' = "done"
    /\ UNCHANGED <<assessment, now, updates, dispatches, enrolled, entered, told, crashes>>

\* All exceptions are swallowed, so only a crash runs the task again.
ProcessingCrashes ==
    /\ job \in {"running", "finished"} /\ job' = "queued"
    /\ Crash
    /\ UNCHANGED <<assessment, now, updates, dispatches, enrolled, entered, told>>

-----------------------------------------------------------------------------
(* core.close_expired_assessments, every minute.                           *)

\* Mutant: only active assessments are closed.
ExpiredIfActive == assessment.status = "ACTIVE" /\ WindowOver

\* Mutant: the window is not compared.
ExpiredAtOnce == assessment.status \notin {"ABSENT", "CLOSED"}

Expired == assessment.status \notin {"ABSENT", "CLOSED"} /\ WindowOver

\* An UPDATE that may match no row.
CloseExpiredAssessments ==
    /\ assessment' = IF Expired THEN [assessment EXCEPT !.status = "CLOSED"] ELSE assessment
    /\ UNCHANGED <<now, job, updates, dispatches, enrolled, entered, told, crashes>>

-----------------------------------------------------------------------------
(* update_status: read and enqueue first, write and commit later.          *)

\* Mutant: closing a closed assessment tells the candidates again.
CancelsAlways(read, new) == new = "CLOSED"

Cancels(read, new) == read # "CLOSED" /\ new = "CLOSED"

UpdateStatusBegins(r, new) ==
    /\ updates[r] = Idle
    /\ assessment.status # "ABSENT"
    /\ updates' = [updates EXCEPT ![r] =
                     [read |-> assessment.status, new |-> new, state |-> "open"]]
    /\ dispatches' = IF Cancels(assessment.status, new)
                     THEN [dispatches EXCEPT ![r].state = "queued"]
                     ELSE dispatches
    /\ UNCHANGED <<assessment, now, job, enrolled, entered, told, crashes>>

\* The ORM writes only a status that differs from the one it read.
UpdateStatusCommits(r) ==
    /\ updates[r].state = "open"
    /\ updates' = [updates EXCEPT ![r].state = "committed"]
    /\ assessment' = IF updates[r].new = updates[r].read
                     THEN assessment
                     ELSE [assessment EXCEPT !.status = updates[r].new]
    /\ UNCHANGED <<now, job, dispatches, enrolled, entered, told, crashes>>

\* A timeout, a failed commit or a crash: the row is as before.
UpdateStatusAborts(r) ==
    /\ updates[r].state = "open"
    /\ updates' = [updates EXCEPT ![r].state = "aborted"]
    /\ UNCHANGED <<assessment, now, job, dispatches, enrolled, entered, told, crashes>>

-----------------------------------------------------------------------------
(* core.dispatch_assessment_cancellations: one e-mail task per candidate   *)
(* enrolled when it runs.                                                  *)

DispatchStarts(r) ==
    /\ dispatches[r].state = "queued"
    /\ dispatches' = [dispatches EXCEPT ![r] = [state |-> "running", todo |-> enrolled]]
    /\ UNCHANGED <<assessment, now, job, updates, enrolled, entered, told, crashes>>

EnqueueCancellationEmail(r, c) ==
    /\ dispatches[r].state = "running" /\ c \in dispatches[r].todo
    /\ dispatches' = [dispatches EXCEPT ![r].todo = @ \ {c}]
    /\ told' = [told EXCEPT ![c] = @ + 1]
    /\ UNCHANGED <<assessment, now, job, updates, enrolled, entered, crashes>>

\* At the end of the list, or at an exception, which is swallowed.
DispatchEnds(r) ==
    /\ dispatches[r].state = "running"
    /\ dispatches' = [dispatches EXCEPT ![r] = [state |-> "done", todo |-> {}]]
    /\ UNCHANGED <<assessment, now, job, updates, enrolled, entered, told, crashes>>

DispatchCrashes(r) ==
    /\ dispatches[r].state = "running"
    /\ Crash
    /\ dispatches' = [dispatches EXCEPT ![r] = [state |-> "queued", todo |-> {}]]
    /\ UNCHANGED <<assessment, now, job, updates, enrolled, entered, told>>

-----------------------------------------------------------------------------
(* Candidates.  Neither enrolment nor entry looks at the status.           *)

Enrol(c) ==
    /\ assessment.status # "ABSENT" /\ c \notin enrolled
    /\ enrolled' = enrolled \cup {c}
    /\ UNCHANGED <<assessment, now, job, updates, dispatches, entered, told, crashes>>

\* The first enter_with_invitation: the window alone is compared.
Enter(c) ==
    /\ c \in enrolled \ entered
    /\ ~WindowOver
    /\ entered' = entered \cup {c}
    /\ UNCHANGED <<assessment, now, job, updates, dispatches, enrolled, told, crashes>>

-----------------------------------------------------------------------------

Tick ==
    /\ now < MaxTime /\ now' = now + 1
    /\ UNCHANGED <<assessment, job, updates, dispatches, enrolled, entered, told, crashes>>

Init ==
    /\ assessment = [status |-> "ABSENT", plan |-> FALSE]
    /\ now = 0
    /\ job = "none"
    /\ updates = [r \in Requests |-> Idle]
    /\ dispatches = [r \in Requests |-> [state |-> "none", todo |-> {}]]
    /\ enrolled = {} /\ entered = {}
    /\ told = [c \in Candidates |-> 0]
    /\ crashes = 0

Processing ==
    \/ CreateAssessment \/ EnqueueProcessing
    \/ StartProcessing \/ ActivateAssessment \/ ProcessingFails
    \/ AcknowledgeProcessing \/ ProcessingCrashes

Recruiter ==
    \E r \in Requests :
      \/ \E new \in {"ACTIVE", "CLOSED"} : UpdateStatusBegins(r, new)
      \/ UpdateStatusCommits(r)
      \/ UpdateStatusAborts(r)

Dispatch ==
    \E r \in Requests :
      \/ DispatchStarts(r)
      \/ \E c \in Candidates : EnqueueCancellationEmail(r, c)
      \/ DispatchEnds(r)
      \/ DispatchCrashes(r)

Next ==
    \/ Processing \/ CloseExpiredAssessments \/ Recruiter \/ Dispatch \/ Tick
    \/ \E c \in Candidates : Enrol(c) \/ Enter(c)

\* Time passes and the periodic task runs; nothing else is promised.
Fairness == WF_vars(Tick) /\ WF_vars(CloseExpiredAssessments)

Spec == Init /\ [][Next]_vars

FairSpec == Spec /\ Fairness

-----------------------------------------------------------------------------
(* Properties.                                                             *)

TypeOK ==
    /\ assessment \in [status: Statuses, plan: BOOLEAN]
    /\ now \in 0..MaxTime
    /\ job \in {"none", "callback", "lost", "queued", "running", "finished", "done"}
    /\ updates \in [Requests -> [read: Statuses, new: {"ABSENT", "ACTIVE", "CLOSED"},
                                 state: {"idle", "open", "committed", "aborted"}]]
    /\ dispatches \in [Requests -> [state: {"none", "queued", "running", "done"},
                                    todo: SUBSET Candidates]]
    /\ entered \subseteq enrolled /\ enrolled \subseteq Candidates
    /\ told \in [Candidates -> Nat]
    /\ crashes \in 0..MaxCrashes

\* "Persist generated analysis without reopening closed or expired work": a
\* closed assessment is opened only by the commit of a recruiter's request
\* that asked for it, although analyses are repeated after crashes, finish
\* late, and race the periodic task.
OnlyRecruiterReopens ==
    [][assessment.status = "CLOSED" /\ assessment'.status # "CLOSED" =>
          \E r \in Requests : updates[r].state = "open" /\ updates[r].new = "ACTIVE"
                                /\ updates'[r].state = "committed"]_vars

\* An analysed assessment that is running is closed by its recruiter, by the
\* end of its window, or by an analysis delivered again after a crash: a
\* single delivery never closes what it activated.
RunningIsNotClosedEarly ==
    [][assessment.status = "ACTIVE" /\ assessment.plan /\ assessment'.status = "CLOSED" =>
          \/ WindowOver
          \/ crashes > 0
          \/ \E r \in Requests : updates[r].new = "CLOSED" /\ updates'[r] # updates[r]]_vars

\* Requests that found the assessment open and asked to close it.
Cancelling == {r \in Requests : updates[r].read \in {"PROCESSING", "ACTIVE"} /\ updates[r].new = "CLOSED"}

\* Candidates are told of a cancellation only by requests that found the
\* assessment open and asked to close it, once per request and once more per
\* crash; expiry and failed analyses tell nobody.
NoticesAreAccounted ==
    \A c \in Candidates : told[c] <= crashes + Cardinality(Cancelling)

\* Whatever the recruiter, the analysis and the crashes did, an assessment
\* whose window is over ends up closed (again and again, if reopened), and
\* so none stays PROCESSING for good, even if its task was never queued.
WindowCloses == WindowOver /\ assessment.status # "ABSENT" ~> assessment.status = "CLOSED"

\* "If you haven't started yet, please note that your invitation link is no
\* longer active", says the cancellation e-mail: nobody who was told of a
\* closed assessment's cancellation starts its interview.
CancelledLinkIsDead ==
    [][\A c \in entered' \ entered : told[c] = 0 \/ assessment.status # "CLOSED"]_vars

=============================================================================
