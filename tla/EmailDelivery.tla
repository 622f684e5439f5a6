---------------------------- MODULE EmailDelivery ----------------------------
(***************************************************************************)
(* The e-mail tasks of handlers/celery_tasks/notification_tasks.py:        *)
(* core.send_invitation_email, core.send_cancellation_email and            *)
(* core.send_report_ready_email share one shape.  A delivery of the task's *)
(* message sends the e-mail, then writes notification_logs in a            *)
(* transaction of its own; an exception republishes the message with the   *)
(* next retry number; the last retry writes a FAILED row instead.          *)
(*                                                                         *)
(* Messages are acknowledged when the task returns (task_acks_late), so a  *)
(* worker that dies has its message delivered again.  The tasks of one     *)
(* enrolment are modelled; a recruiter may delete the enrolment meanwhile, *)
(* and notification_logs refers to it by a foreign key.                    *)
(***************************************************************************)
EXTENDS Naturals, FiniteSets, BagsExt, Bags

CONSTANTS
    Tasks,         \* tasks enqueued for the enrolment
    ReportTasks,   \* those that load the report's context first
    MaxRetries,    \* max_retries
    MaxCrashes,    \* bound: deliveries whose worker dies
    MaxOutages     \* bound: requests the database or the broker refuses

ASSUME DeliveryAssumption ==
    /\ IsFiniteSet(Tasks) /\ ReportTasks \subseteq Tasks
    /\ {MaxRetries, MaxCrashes, MaxOutages} \subseteq Nat

VARIABLES
    deliveries,    \* bag of messages not yet acknowledged, and how far each got
    enrolled,      \* whether the candidate_assessments row exists
    emails,        \* per task: e-mails the provider accepted
    logs,          \* per task and status: rows of notification_logs
    crashes,       \* workers that died so far
    outages,       \* requests refused so far, per task
    enqueued       \* tasks whose first message was published

vars == <<deliveries, enrolled, emails, logs, crashes, outages, enqueued>>

Attempt(task, retry) == [task |-> task, retry |-> retry, stage |-> "queued"]

Replace(d, e) == BagAdd(BagRemove(deliveries, d), e)

Advance(d, stage) == deliveries' = Replace(d, [d EXCEPT !.stage = stage])

AtStage(stage) == {d \in BagToSet(deliveries) : d.stage = stage}

Row(task, status) == logs' = [logs EXCEPT ![task][status] = @ + 1]

\* The database or the broker is unreachable for one request.
Outage(task) ==
    /\ outages[task] < MaxOutages
    /\ outages' = [outages EXCEPT ![task] = @ + 1]

-----------------------------------------------------------------------------

\* .delay(), .apply_async(): at most once per task.
Enqueue(task) ==
    /\ task \notin enqueued
    /\ deliveries' = BagAdd(deliveries, Attempt(task, 0))
    /\ enqueued' = enqueued \cup {task}
    /\ UNCHANGED <<enrolled, emails, logs, crashes, outages>>

Start(d) ==
    /\ d \in AtStage("queued")
    /\ Advance(d, "started")
    /\ UNCHANGED <<enrolled, emails, logs, crashes, outages, enqueued>>

\* The report's context is gone: ReportContextNotFoundException.
LoadContextFails(d) ==
    /\ d \in AtStage("started") /\ d.task \in ReportTasks /\ ~enrolled
    /\ Advance(d, "failing")
    /\ UNCHANGED <<enrolled, emails, logs, crashes, outages, enqueued>>

SendEmail(d) ==
    /\ d \in AtStage("started")
    /\ d.task \in ReportTasks => enrolled
    /\ emails' = [emails EXCEPT ![d.task] = @ + 1]
    /\ Advance(d, "sent")
    /\ UNCHANGED <<enrolled, logs, crashes, outages, enqueued>>

\* The provider refuses, or accepts but its answer is lost.
SendFails(d) ==
    /\ d \in AtStage("started")
    /\ d.task \in ReportTasks => enrolled
    /\ \E accepted \in {0, 1} : emails' = [emails EXCEPT ![d.task] = @ + accepted]
    /\ Advance(d, "failing")
    /\ UNCHANGED <<enrolled, logs, crashes, outages, enqueued>>

\* Mutant: an exception after the commit of the row is retried.
LogSentThenRaises(d) ==
    /\ d \in AtStage("sent") /\ enrolled
    /\ Row(d.task, "SENT")
    /\ \E stage \in {"returned", "failing"} : Advance(d, stage)
    /\ UNCHANGED <<enrolled, emails, crashes, outages, enqueued>>

LogSent(d) ==
    /\ d \in AtStage("sent") /\ enrolled
    /\ Row(d.task, "SENT")
    /\ Advance(d, "returned")
    /\ UNCHANGED <<enrolled, emails, crashes, outages, enqueued>>

\* The INSERT is refused: no such enrolment, or no database.
LogSentFails(d) ==
    /\ d \in AtStage("sent")
    /\ \/ ~enrolled /\ UNCHANGED outages
       \/ Outage(d.task)
    /\ Advance(d, "failing")
    /\ UNCHANGED <<enrolled, emails, logs, crashes, enqueued>>

\* Mutant: an attempt too many.
RetriesOnceMore(d) == d.retry <= MaxRetries

RetriesLeft(d) == d.retry < MaxRetries

\* self.retry: the next attempt is published before this one is acknowledged.
Retry(d) ==
    /\ d \in AtStage("failing") /\ RetriesLeft(d)
    /\ deliveries' = BagAdd(Replace(d, [d EXCEPT !.stage = "returned"]),
                            Attempt(d.task, d.retry + 1))
    /\ UNCHANGED <<enrolled, emails, logs, crashes, outages, enqueued>>

\* self.retry cannot publish: Celery rejects the message without requeueing.
RetryIsLost(d) ==
    /\ d \in AtStage("failing") /\ RetriesLeft(d)
    /\ Outage(d.task)
    /\ Advance(d, "returned")
    /\ UNCHANGED <<enrolled, emails, logs, crashes, enqueued>>

LogFailed(d) ==
    /\ d \in AtStage("failing") /\ ~RetriesLeft(d) /\ enrolled
    /\ Row(d.task, "FAILED")
    /\ Advance(d, "returned")
    /\ UNCHANGED <<enrolled, emails, crashes, outages, enqueued>>

\* The failure row is refused too; that exception is swallowed.
LogFailedFails(d) ==
    /\ d \in AtStage("failing") /\ ~RetriesLeft(d)
    /\ \/ ~enrolled /\ UNCHANGED outages
       \/ Outage(d.task)
    /\ Advance(d, "returned")
    /\ UNCHANGED <<enrolled, emails, logs, crashes, enqueued>>

\* Mutant: only successful tasks are acknowledged.
AcknowledgeSent(d) ==
    /\ d \in AtStage("returned") /\ logs[d.task].SENT > 0
    /\ deliveries' = BagRemove(deliveries, d)
    /\ UNCHANGED <<enrolled, emails, logs, crashes, outages, enqueued>>

Acknowledge(d) ==
    /\ d \in AtStage("returned")
    /\ deliveries' = BagRemove(deliveries, d)
    /\ UNCHANGED <<enrolled, emails, logs, crashes, outages, enqueued>>

\* Mutant: the message is acknowledged when it is received.
CrashLosesMessage(d) == deliveries' = BagRemove(deliveries, d)

\* Unacknowledged, it is visible again after visibility_timeout.
Redeliver(d) == Advance(d, "queued")

WorkerDies(d) ==
    /\ d \in BagToSet(deliveries) \ AtStage("queued")
    /\ crashes < MaxCrashes /\ crashes' = crashes + 1
    /\ Redeliver(d)
    /\ UNCHANGED <<enrolled, emails, logs, outages, enqueued>>

\* delete_candidate_from_assessment.
DeleteEnrolment ==
    /\ enrolled /\ enrolled' = FALSE
    /\ logs' = [task \in Tasks |-> [SENT |-> 0, FAILED |-> 0]]
    /\ UNCHANGED <<deliveries, emails, crashes, outages, enqueued>>

-----------------------------------------------------------------------------

Init ==
    /\ deliveries = EmptyBag
    /\ enrolled = TRUE
    /\ emails = [task \in Tasks |-> 0]
    /\ logs = [task \in Tasks |-> [SENT |-> 0, FAILED |-> 0]]
    /\ crashes = 0
    /\ outages = [task \in Tasks |-> 0]
    /\ enqueued = {}

Execute(d) ==
    \/ Start(d) \/ LoadContextFails(d) \/ SendEmail(d) \/ SendFails(d)
    \/ LogSent(d) \/ LogSentFails(d) \/ Retry(d) \/ RetryIsLost(d)
    \/ LogFailed(d) \/ LogFailedFails(d) \/ Acknowledge(d)

Work == \E d \in BagToSet(deliveries) : Execute(d)

Next ==
    \/ \E task \in Tasks : Enqueue(task)
    \/ Work
    \/ \E d \in BagToSet(deliveries) : WorkerDies(d)
    \/ DeleteEnrolment

Spec == Init /\ [][Next]_vars

\* cloudrun_worker_main restarts a worker that died.
FairSpec == Spec /\ WF_vars(Work)

-----------------------------------------------------------------------------
(* Properties.                                                             *)

TypeOK ==
    /\ IsABag(deliveries)
    /\ BagToSet(deliveries) \subseteq
          [task: Tasks, retry: 0..MaxRetries,
           stage: {"queued", "started", "sent", "failing", "returned"}]
    /\ enrolled \in BOOLEAN
    /\ emails \in [Tasks -> Nat]
    /\ logs \in [Tasks -> [SENT: Nat, FAILED: Nat]]
    /\ crashes \in 0..MaxCrashes
    /\ outages \in [Tasks -> 0..MaxOutages]
    /\ enqueued \subseteq Tasks

Finished(task) == task \in enqueued /\ \A d \in BagToSet(deliveries) : d.task # task

\* However deliveries, retries and crashes interleave, a task sends at most
\* one e-mail per attempt, and only a crash repeats its remaining attempts.
SendsBounded == \A task \in Tasks : emails[task] <= (MaxRetries + 1) * (1 + crashes)

\* A SENT row stands for an e-mail that was sent.
SentRowsAreTrue == \A task \in Tasks : logs[task].SENT <= emails[task]

\* A task ends with one verdict: only a crash makes it write a second row,
\* be it a repetition or a contradiction of the first.
OneVerdict == \A task \in Tasks : logs[task].SENT + logs[task].FAILED <= 1 + crashes

\* The log tells what happened, without repeating or contradicting itself.
RowsTell == TypeOK /\ SentRowsAreTrue /\ OneVerdict

\* No task vanishes: one that is over has left a row, unless the database or
\* the broker refused a request or the enrolment was deleted.
FinishedIsLogged ==
    \A task \in Tasks : Finished(task) /\ enrolled /\ outages[task] = 0 =>
      logs[task].SENT + logs[task].FAILED > 0

\* Every task is over eventually, however often its worker died.
TasksFinish == \A task \in Tasks : task \in enqueued ~> Finished(task)

\* notification_logs is "Used to prevent duplicate sends": nothing is sent
\* again once a SENT row tells that it was.
SentRowsPreventSending ==
    [][\A task \in Tasks : emails'[task] > emails[task] => logs[task].SENT = 0]_vars

=============================================================================
