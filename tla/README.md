# The core API in TLA+

These modules specify the part of the interview platform that `src/src` implements: the *core
API*, a FastAPI service over PostgreSQL with Celery tasks on Redis. It owns recruiters,
assessments, enrolments, interview sessions and evaluations. Three external parties drive it:
candidates' and recruiters' browsers, the *interview engine* (a LiveKit agent that calls the
internal routes), and the Celery broker.

## 1. The system

| Part | State | Operations | Where |
|---|---|---|---|
| Interview session lifecycle | `interview_sessions` (status, token, connection, drops, deadline, pause), `candidate_assessments` (status, invitation, times) | enter by invitation, authorize a connection, record a drop, initialize, start, complete, evaluate | `core/services/interview_session_service.py`, `data/repositories/candidate_session_repository.py`, `interview_session_repository.py`, `assessment_context_repository.py`, `api/rest/routes/internal_interview.py` |
| Proctoring and transcript | `violations`, `transcript` (JSON columns of the session) | tab switch, face packet, persist turn | `interview_session_repository.py` |
| Evaluation and ranking | `interview_evaluations` | save (upsert, lifecycle, ranks), mark failed | `evaluation_repository.py` |
| Assessment lifecycle | `assessments.status`, `interview_plan`, after-commit callbacks | create, analyse (task), update status, close expired (every minute), dispatch cancellations (task) | `assessment_service.py`, `assessment_repository.py`, `assessment_tasks.py`, `postgres_client.py` |
| E-mail tasks | Celery messages, `notification_logs` | send invitation, cancellation, report; retry; log | `notification_tasks.py`, `notification_log_repository.py`, `celery_client.py`, `cloudrun_worker_main.py` |
| Enrolment | `candidates`, `candidate_assessments`, after-commit callbacks, background tasks, temporary files | add one, enrol a known candidate, upload a CSV, delete, analyse the resume | `candidate_service.py`, `candidate_repository.py`, `candidate_assessment_repository.py`, `postgres_client.py` |
| Hiring decisions | `candidate_assessments.recruiter_decision`, letters as tasks of the process, `notification_logs` | decide, send the letter, log it | `candidate_service.py` |
| Auth | `recruiters`, `recruiter_tokens`, one-time codes in Redis | register, log in, refresh, log out, reset the password | `auth_service.py`, `auth_repository.py` |
| Interview plan | none (pure), a conversation with the language model | ask, repair, shorten, choose sections, divide the minutes | `utils/assessment_utils.py`, `schemas/assessment.py` |
| Schema and migrations | the tables, `alembic_version` | upgrade at container start, downgrade from a console | `data/migrations`, `data/models/postgres`, `docker-entrypoint.sh` |
| Realtime events, reads, schemas, configuration | none that lasts | publish, query, validate | see `PROJECT.json` |

The parts interact through the database above all. A request is one transaction: it locks rows
(`SELECT ... FOR UPDATE` or `UPDATE`), writes and commits when the handler returns
(`async_session_scope`). Callbacks registered for after the commit queue Celery tasks; some
handlers queue theirs before the commit. Tasks are acknowledged late: a worker that dies has its
message delivered again.

What is hard here:

* **Requests of three parties over two rows.** A drop, a reconnection, a termination by the
  proctoring and the engine's own status writes meet in any order, repeated or late. Several
  handlers overwrite the status without looking at it.
* **Lazy time.** The grace period of a drop is only checked when the candidate returns.
* **At-least-once everything.** Engine calls are retried, browser packets are repeated and
  reordered, Celery redelivers.
* **Queue and database are not one transaction.** A task may be queued for a transaction that
  aborts, or be lost after one that committed.
* **Several rows, several lock orders.** Entry locks the enrolment first, the rest the session
  first; ranking locks all evaluated rows of an assessment.
* **Checks that are not locked.** Overlapping windows, remaining enrolments, the previous decision
  and the code of a reset are read, and used after other transactions have committed.
* **One session for many rows.** An upload goes on after a row has failed in the database, in a
  transaction that can then only be rolled back.
* **Work of the process.** Resumes are analysed and decision letters sent by tasks that a restart
  forgets; letters are started before the decision commits.
* **Whole tenths.** Minutes are divided by weight without losing or inventing a tenth.
* **Two containers, one schema.** Each migrates at its start; a console may take a revision back
  while rows of any age are there.

`PROJECT.json` lists every such hazard at its line with the properties that cover it.

## 2. The modules

| Module | Models | Runs |
|---|---|---|
| `InterviewRows` | how requests may move the two rows of an interview, as far as the migrations read them | (used by `InterviewSession` as a property, by `MigrationRuns` as the application) |
| `SessionLifecycle` | what the session service promises: bounded drops, bounded pause, a closed session stays closed | (as a property) |
| `InterviewSession` | all requests over the session row and the candidate row of one interview | `session` |
| `InterviewSession_proofs` | of `InterviewSession`: type correctness, the safety properties, with and without an orderly engine, that it implements `SessionLifecycle` and moves the rows as `InterviewRows` says; of `Proctoring`: counts, episodes, limits, turns, and that it implements `InterviewSession` | proved |
| `Proctoring` | packets, turns and findings stored in the session row; extends `InterviewSession` | `proctoring` |
| `RowLocks` | lock orders of all transactions and the ranking of evaluations | `locks` |
| `RowLocks_proofs` | committed ranks are right; which requests a deadlock has in it | proved |
| `Assessment` | one assessment, its analysis, closing, and cancellation notices | `assessment`, `assessment_cancelled_link` |
| `Assessment_proofs` | typing, the account of notices, no reopening, no early close | proved |
| `EmailDelivery` | the e-mail tasks of one enrolment | `email` |
| `Enrolment` | candidates and enrolments of all assessments, their invitations, resumes and files | `enrolment`, `enrol_overlap` |
| `Enrolment_proofs` | keys and references, work neither premature nor forgotten, when windows may overlap | proved |
| `HiringDecision` | the decision on one enrolment and its letters | `decision` |
| `NotificationLog_proofs` | of `EmailDelivery`: sends are bounded, rows tell what happened, a finished task is logged; of `HiringDecision`: stored decisions were announced, letters log the truth | proved |
| `Auth` | one recruiter's account, sessions and reset codes | `auth` |
| `Auth_proofs` | sessions superseded, passwords confirmed | proved |
| `InterviewPlan` | the analysis of a job description and the time of the plan | `interview_plan` |
| `InterviewPlan_proofs` | the minutes add up, the best sections are kept, shares are fair | proved |
| `Migrations` | each schema revision as a function on a database | (used by the next) |
| `OrmModels` | the tables as the service expects them | (used by the next) |
| `MigrationRuns` | containers and a console that run revisions over live rows | `migrations` |
| `MigrationRuns_proofs` | schemas follow revisions, rows fit the release, what blocks an upgrade, how the revision moves | proved |

The `MC...` modules add symmetry or the instance's data to the module they extend. Definitions
marked *Mutant* are the forms a plausible mistake would give the definition below them; no
behaviour uses them.

### InterviewSession

`session` and `ca` are the two rows as records, `token` facts are kept as generations: a
credential or connection id is a number that grows with each one issued, `NULL` is SQL's null.
Every internal route and every candidate request is an action; its SQL updates are operators
from row to row (`RecordDisconnect`, `MarkCandidateTerminated`, ...) so that an action reads like
the handler. Each request holds its row locks for its whole transaction, so it is one step. The
one exception is modelled apart: `record_disconnect` computes the deadline *before* its
transaction waits for the row, so a LiveKit callback arrives (`DisconnectArrives`) and is served
(`DisconnectRecorded`, `DisconnectIgnored`) in two steps with anything in between. `event log`
counts are kept per event name.

The engine is external. `EngineOrderly = FALSE` lets its calls arrive for any generation at any
time, late and repeated. `EngineOrderly = TRUE` says what the engine's own protocol gives: calls
are made for the job of the connection that is bound, and evaluation follows the end of the
interview. The run takes an orderly engine; the properties that need none are proved without the
assumption, and `InterviewSession_late.cfg` shows that the others do need it.

### Proctoring

Extends `InterviewSession` with the JSON columns. A tab switch is a record with event ids and a
declared count (old code wrote one record per switch, which the canonical record replaces); a face
episode is the longest duration per start of a condition. A packet that terminates takes
`InterviewSession`'s `ProctoringTermination`; a persisted turn takes its `PersistTurn`. The
property `SessionSpec` is that refinement. Histories `counted` and `packets` exist for the
properties only.

### RowLocks

A transaction is the list of locks its statements take, in order. A lock is granted when it is
free; the transaction keeps all of them until it ends. `SelectForUpdate` is the ranking's
statement: it reads what is committed plus the transaction's own row, then locks those rows,
best first. A request whose enrolment is gone takes no lock: it finds no row, or its insert is
refused, and it fails. Transactions are numbered as they begin, so a number is its `func.now()`. Shared key
locks of foreign keys are left out: the only foreign keys between these tables are
evaluation-to-session and notification-to-enrolment, both of rows the transaction goes on to lock
or locks alone.

### Assessment

`update_status` reads at its beginning and writes at its end without a lock (`UpdateStatusBegins`,
`UpdateStatusCommits`, `UpdateStatusAborts`); the ORM writes only a changed value. The analysis is
a message that is lost, queued, running, finished, acknowledged or redelivered. The activating
UPDATE and the periodic UPDATE are single statements and single steps. Enrolment and entry appear
as far as they touch the assessment. A commit whose answer is lost is not modelled.

### EmailDelivery

`deliveries` is the bag of unacknowledged messages, each with its retry number and the stage its
handler reached. Sending, writing the row, publishing the retry and acknowledging are separate
steps, with a crash possible between any two. The three tasks have one shape; the report task also
loads its context. Waiting times between retries are left out, as is the event log.

### Enrolment

A request is a record in `txn`: its step, the e-mail addresses it still has to treat, and what it
has flushed (`created`, `inserted`, `dropped`). `SeenCandidates` and `SeenEnrolments` are what a
SELECT of it returns under READ COMMITTED: committed rows and its own. A flush waits while another
transaction holds the key or the row it needs; this guard, and the order of the steps (find the
candidate and check the overlap, insert, delete, look for what remains, cascade), are the code's.
`StatementFails` shows the difference between one request and one row of an upload: the upload
catches the exception and goes on, but its transaction is `doomed`, so the commit fails and the
callbacks are dropped. `Commit`, `RunCallback`, `CallbackRaises` and `Answer` are the steps of
`async_session_scope` and its callbacks: the invitation is queued first, then the analysis task is
started, and an exception of a callback leaves the rest undone although the rows are committed.
`Restart` forgets requests, callbacks and tasks. The sets `enrolled`, `invited`, `forsaken` and
`confirmed` are histories for the properties.

### HiringDecision

`Read`, `Write` and `Commit` are the SELECT, the flush and the commit of
`update_recruiter_decision`; `Write` also starts the letter, because the code creates its task
before the transaction commits. Another decision's flush waits for the row (`Holds`). A letter is
sent, logged as SENT, or logged as FAILED by the `except` branch, which also runs when the SENT
row was refused; a failure of the second log is swallowed.

### Auth

A request moves through the statements of its handler. An UPDATE that revokes takes its rows from
a snapshot and waits for each row another transaction has written (`rows`, `written`), then looks
at it again: PostgreSQL's behaviour at READ COMMITTED. Redis writes take effect at once and are
not rolled back. `seen` and `stored` are histories. Access tokens, hashing and `is_active`, which
nothing clears, are left out.

### InterviewPlan

Minutes are tenths, as the code rounds to one decimal. A section is known by how well its name
matches each skill and each focus area; `Scored`, `Selected` and `Allocation` follow
`_normalize_interview_plan_timing` and `_allocate_minutes_by_weight` (largest remainder over
squared weights above a minimum). Where the code sorts, the model counts: the place of a section
is the number of sections before it (`Ahead`, `Bonus`), in an order that leaves no ties. The code compares remainders as floats and the model exactly.
Around it, the three attempts of the conversation: a rejected answer is repaired, a prompt that is
too large is shortened.

### Migrations, OrmModels, MigrationRuns

A database is its tables (columns an INSERT may omit, columns it must supply, unique keys,
references), its checks, which tables hold rows, and the session and enrolment of one candidate.
Each `upgrade` and `downgrade` is an operator on it, statement by statement; a statement PostgreSQL
refuses clears `ok`. Every statement that changes tables is a `Change`: under its condition some
tables are put in place of those of their names. `OrmModels` gives the same description of the
SQLAlchemy models, and an assumption (`LatestServesModels`, evaluated by `MCMigrationRuns`) states
that the head revision fits them. `MigrationRuns` runs the revisions in one transaction each (`env.py`), from containers started together, redeployed or killed, and from a console, while
the application writes. A run remembers the revision it has read (`seen`); when its turn with the
locks comes and another was committed since, it fails and starts again. `InterviewRows` relates the
two rows before and after each request of this release; `MigrationRuns` lets the application move
its rows in these ways, and `InterviewSession` is shown to move them in no other (`RowsLive`), so
the two models agree about the code they share. What releases before revision 9 stored is known only by its schema, so
their rows are arbitrary within it.

## 3. The runs

| Run | Question | Bounds | States |
|---|---|---|---|
| `session` | with an orderly engine: are counters, credentials, log and rows coherent; refinement; do the rows move as the migrations expect | three drops allowed, a reconnect window of one tick, a clock up to three, four connection generations, two callbacks in flight, reported elapsed seconds of zero or one | 1.1 M |
| `proctoring` | are repeated, late, reordered packets stored once; do limits end the interview? | three tab switches (one legacy) with a limit of three, two packet ids, durations 1 to 3 with termination at 3, two turns, one finding, batches of two | 0.30 M |
| `assessment` | who reopens, who is told, does an elapsed assessment close? | one candidate, two status requests, one crash | 0.26 M |
| `assessment_cancelled_link` | *violated*: "your invitation link is no longer active" | the same | - |
| `auth` | which sessions survive a login or a reset; which password is stored? | three requests at once, five in all, one refused, three tokens, two passwords, two codes | 0.14 M |
| `decision` | was each stored decision announced; what do letters log? | two requests at once, three in all, two failures | 0.16 M |
| `email` | are sends and rows bounded and true, does every task end? | two tasks, one retry, one crash, one outage per task | 0.18 M |
| `enrolment` | are keys kept, is work neither premature nor forgotten, when do windows overlap? | two requests, uploads of up to two rows, two addresses, two overlapping assessments, one restart | 0.90 M |
| `enrol_overlap` | *violated*: "Block enrollment when an active assessment window overlaps" | two requests at once, three in all, one address, three assessments | - |
| `interview_plan` | does a plan add up, keep the best sections and share fairly? | eleven durations from 2 to 180 minutes, all answers of up to three sections of nine kinds, five of eight or nine, two skills, overrides of zero and nine | 0.27 M |
| `locks` | which waits can be cyclic, does every transaction end, are ranks right? | two enrolments, three transactions of five kinds, two scores | 0.16 M |
| `migrations` | does the schema follow the revision; what blocks an upgrade; do containers serve? | two containers that start at revision 3 or 10, one console, one crash, old rows of every kind | 0.22 M |

Why the bounds are enough. *Drops*: `session` uses the code's own limit of three; `proctoring` uses
two, the least with one drop that does not terminate and one that does. *Generations*: stale calls
need one replaced connection and a current one. *Callbacks in flight*: a late duplicate of one drop
beside the callback of the next. *Locks*: a cycle of exclusive waits has two members, a third
transaction may interfere. *Assessment*: a lost update needs two requests or a request and the
periodic task. *E-mail*: with one retry both branches of the retry guard occur, and one crash
repeats every remaining attempt. *Enrolment*: every race is one of two requests, and two rows are
the least of which the second follows a failure of the first. *Decision*: a request that reads, is
overtaken and writes needs one other; the third meets what they left. *Auth*: a login that waits
for a refresh that is rolled back, beside a reset. *Plan*: both sides of every threshold of the
duration, more sections than any duration admits, ties of every order. *Migrations*: a race has two
containers, and revision 3 and 10 lie on both sides of every data migration. In runs with symmetry
the permuted values are compared with one another only, and no liveness is checked.

Deadlock is checked where the system always has a next step (`session`, `proctoring`,
`assessment`, `migrations`); in the others all requests, tasks or transactions of the bound may be
over.

### What the properties say

* `session` - `GraceCoherent`: deadline, connection, drop count and status fit together,
  whatever the engine overwrites; `ChargedOnce`: a connection generation is charged for one drop at
  most; `PauseBounded`: the clock stops for a bounded time in all; `DropLedger`: every recovery and
  every expiry has a drop of its own; `OneCredential`: an invitation is consumed exactly with the one
  token; `LastDropTerminates`, `RowsAgree`: the last drop is final and both rows agree on the end, `RowsLive`:
  each request moves the two rows in one of the ways `MigrationRuns` counts on (all three of an orderly
  engine); `LifecycleSpec`: the refinement. `TypeOK` and `FreshConnection` (no connection id comes back)
  are proved and checked by `InterviewSession_any.cfg`.
* `proctoring` - `TabsCountedOnce`, `LimitsEnforced`, `EpisodesSummarisePackets`, `TurnsStoredOnce`:
  counts, limits, episodes and turns do not depend on the repetition and order of packets;
  `SessionSpec`: none of it disturbs the lifecycle.
* `assessment` - `NoticesAreAccounted`: a cancellation is told once per request that closed, and once
  more per crash; `OnlyRecruiterReopens`; `RunningIsNotClosedEarly`; `WindowCloses` (liveness).
* `auth` - `SessionsSuperseded`: a login or a reset ends every session that was open when
  it began; `PasswordConfirmed`: only the password asked for with the typed code is stored.
* `decision` - `LettersTell`: what is stored, told and logged agree; `LettersEnd` (liveness).
* `email` - `SendsBounded`, `RowsTell`, `FinishedIsLogged`, `TasksFinish` (liveness).
* `enrolment` - `WorkAccounted`: keys hold, and invitations, analyses and files are done, due or
  lost; `NothingPremature`: none speaks of a row that was rolled back; `OverlapNeedsRace`.
* `interview_plan` - `SumsExactly`: rounding loses no tenth of a minute; `SharesFair`;
  `BestSelected`: what is dropped weighs no more than what is kept.
* `locks` - `DeadlocksExplained`: which kinds of transaction a cycle of waits needs;
  `RanksAreCurrent`; `EveryTransactionEnds` (liveness).
* `migrations` - `SchemaFollowsRevision`: the tables are those of the recorded revision, however runs
  race, fail and go back; `RowsFitRelease`: from revision 9 on rows obey its life cycle, whatever they
  were before; `BlockedOnlyByOldRows`: which rows an upgrade stumbles over; `RevisionMoves`: a commit goes
  back by one or forward to the head of an image, whatever was committed since its run looked;
  `AllServe` (liveness).

### Supplementary configurations

These are beside the runs above, for a question the bounds of a run do not reach, or to show what
an assumption is for.

| Configuration | Shows |
|---|---|
| `InterviewSession_any.cfg` | the properties that need no orderly engine hold without one (2.8 M states; proved too) |
| `InterviewSession_late.cfg` | *violated* `LastDropTerminates`: a late engine call reopens a terminated session |
| `RowLocks_ranking.cfg` | ranks stay right with a fourth transaction, which repairs them after a deletion; four saves and deletions deadlock only as explained |
| `EmailDelivery_duplicate.cfg` | *violated* `SentRowsPreventSending` |
| `Auth_serial.cfg` | requests one at a time: `OneSession` |
| `Auth_resend.cfg`, `Auth_cleanup.cfg` | *violated* `ActiveCodeIsKept`, `OwnCodeDeleted` |
| `HiringDecision_serial.cfg` | requests one at a time, nothing fails: letters alternate and the last one tells the decision |
| `Enrolment_serial.cfg` | requests one at a time: `NoOverlap`, `NoOrphans`, `DeletesAsked` |
| `Enrolment_concurrent.cfg` | the overlap's cause and the keys with three requests and three assessments |
| `Enrolment_settle.cfg` | every resume handed in is settled in the end, or its task got lost |
| `Enrolment_orphan.cfg`, `Enrolment_cascade.cfg` | *violated* `NoOrphans`, `DeletesAsked` |

### Disagreements found

* Entry compares the window but not the assessment's status, so the link of a cancelled
  assessment still opens its interview, against the text of the cancellation e-mail
  (`assessment_cancelled_link`).
* The overlap check takes no lock, so two requests enrol a candidate in overlapping windows,
  against its docstring (`enrol_overlap`). `OverlapNeedsRace` says that nothing else does.
* `mark_session_in_progress` writes `IN_PROGRESS` whatever the status is: when the engine's own
  initialization is served after the third drop, the terminated session runs again, against the
  comment of `disconnect_count` (`InterviewSession_late.cfg`).
* Nothing reads `notification_logs` before sending, so a redelivered message is sent again,
  against the model's docstring (`EmailDelivery_duplicate.cfg`).
* A resend looks for an active code and stores its own later, so it may replace one that another
  request stored in between; a reset that finishes deletes whatever code is there, so a later
  reset may lose its own (`Auth_resend.cfg`, `Auth_cleanup.cfg`). The stored password is never the
  wrong one (`PasswordConfirmed`).
* Two deletions of a candidate's last enrolments may each see the other's row and leave the
  candidate; a deletion may see none while another request enrols, and take the new enrolment with
  the candidate (`Enrolment_orphan.cfg`, `Enrolment_cascade.cfg`).
* The downgrade of `a26110517ed8` always fails: it drops a constraint by the name `None`. A console
  at that revision stays there, as `MigrationRuns` shows by never leaving it downwards.

### Fairness

`InterviewSession`, `Proctoring` and `Auth` state none: nothing in them acts by itself. A
disconnected session whose candidate never returns stays so, which is why no liveness property
is stated for it. `InterviewPlan` needs none either: at most three answers are awaited.
`Assessment` assumes that time passes and that the periodic task runs (the beat schedule, every 60
seconds); not that the analysis is ever delivered. `EmailDelivery` assumes that the worker keeps
working: `cloudrun_worker_main` starts it again and the broker redelivers. `RowLocks` assumes that
the database runs a statement whose locks are free and aborts one transaction of a cycle of waits.
`Enrolment` and `HiringDecision` assume that the event loop runs the tasks and callbacks it was
given, until a restart. `MigrationRuns` assumes that the platform runs and restarts its containers:
weak fairness of a container's steps, with `ENABLED` written out as `CanStep` because TLC cannot
evaluate it through the revisions.

## 4. The proofs

For every value of the constants:

* **`InterviewSession_proofs`** - `Typing`, `Grace`, `NoDoubleCharge`, `BoundedPause`, `Ledger`,
  `SingleCredential`, `FreshIds`. None of the properties is inductive alone: a drop is charged once only
  because a charged generation is never bound again, and the pause is bounded only because a
  disconnected session's deadline lies within one window of its last drop. `IndInv` is the
  conjunction of the typing, the properties and these connections; every action is shown to
  preserve each part, with the row operators typed once in a lemma.
  With an orderly engine: `LastDrop`, `Agreement`, `NeverReopened`, and `Refinement`, that every step is a step of `SessionLifecycle` or leaves its
  variables alone. `OrderlyInv` adds to `IndInv` that a closed session has no connection, which
  keeps the engine's late writes out. `RowsAreLive` needs besides that whoever is connected has
  consumed the invitation (`Invited`): the engine is only called for a connection.
  Of `Proctoring`: `Conservative`, every step is a step of
  `InterviewSession` or leaves the session alone, so what was proved there holds here. `TabCount`
  rests on `TabsInv`: either the legacy records alone, or one canonical record whose ids and
  declared count are those of everything counted. `Episodes` needs that a duration never
  shrinks, so the maximum of a set with one member more is the larger of the two. `Limits`, with an
  orderly engine, adds that no request reopens what a limit closed, from `OrderlyInv`. `TurnsOnce`
  is about the fold that adds a batch item by item (`AppendItemsType`).
* **`RowLocks_proofs`** - `Ranks` and `Deadlocks`. A save ranks what it read and commits later. `Serialised` says
  that it has not locked the advisory lock yet, or owns it and read every row that is committed, and
  so nothing was added since. The rest is counting: evaluations differ in time (`Apart`, from the
  transactions being over), and the number of better ones then orders them without gaps or doubles.
  For `Deadlocks`, `Places` says what each transaction still has to lock and what it may hold by
  then, so that a transaction of a cycle waits for a later lock than the one it is waited for:
  evaluation, session, candidate, advisory lock. The cycle therefore reaches the save that has
  ranked, which waits for a row it read (`Climb`). If no request of the cycle is an entry, a
  deletion or a repeated evaluation, the row's owner is inserting that evaluation; `Readings` says
  that this evaluation is committed nowhere and that no ranking has read it.
* **`Assessment_proofs`** - `Typing`, `NeverReopened`, `ClosedInTime`, and `Notices`. The account of the notices is
  not inductive: an e-mail queued is paid for by a request that began earlier. `Outstanding` adds
  the e-mails still to be queued by a dispatch to those queued; then a request pays for itself
  when it begins, queueing moves an e-mail from one side to the other, and a crash pays for the
  dispatch it repeats. `ClosedInTime` needs that an assessment with a plan was analysed to the end
  unless a process crashed (`AnalysedOnce`), so the failure of an analysis closes no other.
* **`NotificationLog_proofs`** - of the e-mail tasks `Typing`, `Sends`, `Rows`, `Finishing`. A task may have several
  deliveries in the bag, each at another stage. Each copy is counted as a number of tokens, the
  e-mails it may still send or the rows it may still write (`Tokens`, `Weighs`): adding and
  removing a delivery adds and removes its tokens, a retry is worth one less than the delivery
  it replaces, and a crash or an outage pays for what it repeats. What was done plus the tokens
  left stays within the bound.
  Of the decision letters (`HiringDecision`, whose definitions have names of their own so that one
  module can extend both) `Announcement`. A request
  that has still to commit a changed decision has started its letter (`Promised`), a letter's rows
  follow from its stage (`Staged`), and the letters are as many as requests allow (`Counted`).
* **`Enrolment_proofs`** - `Premature`, `Accounted`, `Overlaps`. That keys and references hold in the database is
  not inductive, because a commit adds what was checked long ago. `IndInv` speaks of every row that
  is stored or flushed, as each request sees them: no two requests hold rows of one key, none holds
  a row whose candidate another deletes, and what a request sees keeps keys and references. The
  flushes that wait make it hold; a commit then replaces the database by what its request sees.
  The other half follows the work from the callbacks of a request to the queue, the task and the
  file. For `Overlaps` a row remembers which enrolments its request saw when it compared windows
  (`saw`). `Compared` says that no active row overlaps an active row it saw, and that a request
  about to insert may still join the rows it saw: afterwards rows only disappear or become
  inactive, and a row that is new has an identifier nobody saw.
* **`Auth_proofs`** - `Superseding`, `Confirmation`, `Typing`, and `SingleSession` for requests that do
  not overlap. While a login or a reset waits it holds, of the sessions it began with, all that
  are still open; once it has its rows it has written them (`Fit`). No row is written by two
  (`Apart`), and a code needs an account, so a password is set by a registration or by the reset
  whose code it came with.
* **`MigrationRuns_proofs`** - `SchemaCorrect`, `RowsCorrect`, `BlockedCorrect`, `RevisionCorrect`,
  `HeadServes`, `TypeCorrect`. A prover cannot evaluate ten revisions, so the eleven schemas are written out
  (`S0` to `S10`) and each revision is shown to lead from one to the next (`Up1` to `Up10`) and, but
  for the one that always fails, back (`Back1` to `Back10`), statement by statement from lemmas on
  what a statement does to a database with known tables, what it asks of the rows and what it
  leaves alone. The LangGraph tables are set aside by `Own`, since a downgrade may leave them
  behind. `Sound` says what a database at a revision is: its schema and its checks, no rows but in
  tables that exist, and from revision 9 on rows that fit. `UpgradeSound` and `DowngradeSound` carry it along, and by the chain of upgrades
  `FreshAt` has the schemas. The invariant `Inv` then says that the committed database is sound at the
  committed revision (`DbOK`), that the holder's own is sound at the revision it has reached, between
  the one it has read, which is still the committed one, and its goal (`WorkOK`), and that consoles
  go back by one and containers forward (`PlansOK`); the last two are what `RevisionCorrect` needs. `BlockedCorrect` goes through the revisions from the committed one to the last: unless one of
  the three kinds of rows is there, each upgrade goes through and the next finds none either. `HeadServes`
  compares the last schema with `OrmModels`, table by table (`LastServes`): at the head revision, however
  it was reached, the models find their columns, keys and references.

* **`InterviewPlan_proofs`** - `Adding`, `Choosing`, `Sharing`, for every duration from 2 to 180
  minutes and answers of any length. The invariant (`IInv`) says only that a plan is `PlanOf` one
  answer; the rest is arithmetic. A sum is the number of its tokens, one for each unit
  of each element, so sums can be compared and split by counting (`SumCounts`). The place of
  an element in a strict order is the number of those before it, so every place is taken once
  (`PositionOnto`) and exactly as many sections get a bonus as rounding left units (`FirstOnes`);
  these are fewer than the sections that rounding took from (`LeftOver`), so a bonus never lifts a
  share beyond the exact one by a whole unit. That the minimum fits into the budget (`Budget`) is
  shown along the ranges of durations of `MinUnits` and `SoftCap`.

They rest on the named assumptions on the constants in the modules, which TLC evaluates too.

Every invariant and every action property of a passing run is proved. Only model-checked are the
liveness properties (`AllServe`, `WindowCloses`, `LettersEnd`, `TasksFinish`, `EveryTransactionEnds`).
`LatestServesModels`, which TLC evaluates as an assumption, is `HeadServes` for a fresh database.
Liveness under fairness and `ENABLED` are out of the prover's reach, and so are induction theorems
that take a predicate. The two modules that count and fold state induction over a set instead: of
the subsets of a finite set for which a fact holds (`SetInduction`), and of the numbers up to a
bound (`NatInductionSet`).

## 5. Not modelled

* Realtime events (best effort by design), the read sides of evaluations and notifications, queries,
  request schemas, error translation, configuration, logging.
* Text extraction, the content of resumes, prompts, e-mail bodies, formatting.
* The event rows written by background tasks, which are best-effort.
* In the migrations: column types, plain indexes, the offline mode, and the LangGraph checkpoint
  tables except that revisions drop and recreate them. Data of older releases is known by its
  schema only.
* In `RowLocks`: shared key locks of foreign keys. In `InterviewPlan`: the floats by which
  remainders are compared. In `Assessment`: a commit whose answer is lost.

## 6. What is left

1. Compose `RowLocks` and `EmailDelivery` for the report e-mail that is queued before its evaluation
   commits. The task does not require an evaluation, so today each module alone shows nothing wrong.
2. The event rows of background tasks, if they are ever relied upon.
