--------------------------- MODULE HiringDecision ---------------------------
(***************************************************************************)
(* The recruiter's decision on one enrolment, and the letters that tell    *)
(* the candidate: update_recruiter_decision and                            *)
(* dispatch_decision_with_logging of candidate_service.py.                 *)
(*                                                                         *)
(* A request reads the row without a lock, writes it, starts the letter as *)
(* a task of the process, and only then commits.  The ORM writes the       *)
(* column only if the value differs from the one the request read.  The    *)
(* feedback that goes with a decision is left out.                         *)
(*                                                                         *)
(* Names say "Decision" or "Letter" where EmailDelivery has the same: the  *)
(* proofs about the notification log extend both modules.                  *)
(***************************************************************************)
EXTENDS Naturals, Sequences, FiniteSets, SequencesExt

CONSTANTS
    Requests,      \* requests that may be in progress at once
    MaxRequests,   \* bound: requests begun
    MaxFailures    \* bound: transactions and logs the database refuses, restarts

ASSUME DecisionAssumption ==
    IsFiniteSet(Requests) /\ {MaxRequests, MaxFailures} \subseteq Nat

VARIABLES
    exists,        \* whether the candidate_assessments row exists
    decision,      \* recruiter_decision
    requests,      \* what each request read and wants
    letters,       \* the letters in the order they were started
    rows,          \* notification_logs: per letter, the statuses of its rows
    begun, failures

decisionVars == <<exists, decision, requests, letters, rows, begun, failures>>

Decisions == {"APPROVED", "REJECTED"}

Idle == [step |-> "idle", wanted |-> "PENDING", previous |-> "PENDING"]

Failure == failures < MaxFailures /\ failures' = failures + 1

Changes(q) == q.wanted # q.previous

\* An uncommitted UPDATE holds the row.
Holds(r) == requests[r].step = "commit" /\ Changes(requests[r])

Letter(d) == [tells |-> d, stage |-> "started", accepted |-> FALSE]

-----------------------------------------------------------------------------

Read(r, d) ==
    /\ requests[r].step = "idle" /\ exists /\ begun < MaxRequests
    /\ requests' = [requests EXCEPT ![r] = [step |-> "write", wanted |-> d, previous |-> decision]]
    /\ begun' = begun + 1
    /\ UNCHANGED <<exists, decision, letters, rows, failures>>

\* Mutant: a letter goes out for the first decision only.
AnnouncesFirst(q) == q.previous = "PENDING"

Announces(q) == q.previous # q.wanted

\* The flush waits for another UPDATE; then the letter is started.
Write(r) ==
    LET q == requests[r] IN
    /\ q.step = "write" /\ exists
    /\ Changes(q) => \A o \in Requests \ {r} : ~Holds(o)
    /\ requests' = [requests EXCEPT ![r].step = "commit"]
    /\ letters' = IF Announces(q) THEN Append(letters, Letter(q.wanted)) ELSE letters
    /\ UNCHANGED <<exists, decision, rows, begun, failures>>

Commit(r) ==
    /\ requests[r].step = "commit"
    /\ decision' = IF Changes(requests[r]) THEN requests[r].wanted ELSE decision
    /\ requests' = [requests EXCEPT ![r] = Idle]
    /\ UNCHANGED <<exists, letters, rows, begun, failures>>

\* A statement or the commit raises: rollback; a letter that was started stays.
Abort(r) ==
    /\ requests[r].step # "idle"
    /\ Failure
    /\ requests' = [requests EXCEPT ![r] = Idle]
    /\ UNCHANGED <<exists, decision, letters, rows, begun>>

\* The row was deleted after the request read it.
WriteMisses(r) ==
    /\ requests[r].step = "write" /\ ~exists
    /\ requests' = [requests EXCEPT ![r] = Idle]
    /\ UNCHANGED <<exists, decision, letters, rows, begun, failures>>

-----------------------------------------------------------------------------
(* The letters.                                                            *)

Move(i, stage) == letters' = [letters EXCEPT ![i].stage = stage]

Log(i, status) == rows' = [rows EXCEPT ![i] = @ \cup {status}]

\* send_hiring_decision_email
Send(i) ==
    /\ letters[i].stage = "started"
    /\ letters' = [letters EXCEPT ![i].stage = "sent", ![i].accepted = TRUE]
    /\ UNCHANGED <<exists, decision, requests, rows, begun, failures>>

\* The provider refuses, or its answer is lost.
LetterFails(i) ==
    /\ letters[i].stage = "started"
    /\ \E accepted \in BOOLEAN :
        letters' = [letters EXCEPT ![i].stage = "failed", ![i].accepted = accepted]
    /\ UNCHANGED <<exists, decision, requests, rows, begun, failures>>

LogLetterSent(i) ==
    /\ letters[i].stage = "sent" /\ exists
    /\ Log(i, "SENT") /\ Move(i, "done")
    /\ UNCHANGED <<exists, decision, requests, begun, failures>>

\* notification_logs refers to the enrolment, or the database refuses.
LogLetterSentFails(i) ==
    /\ letters[i].stage = "sent"
    /\ \/ ~exists /\ UNCHANGED failures
       \/ Failure
    /\ Move(i, "failed")
    /\ UNCHANGED <<exists, decision, requests, rows, begun>>

\* Mutant: a failed letter is sent once more.
LogLetterFailedRetries(i) ==
    /\ letters[i].stage = "failed" /\ exists
    /\ Move(i, "started")
    /\ UNCHANGED <<exists, decision, requests, rows, begun, failures>>

LogLetterFailed(i) ==
    /\ letters[i].stage = "failed" /\ exists
    /\ Log(i, "FAILED") /\ Move(i, "done")
    /\ UNCHANGED <<exists, decision, requests, begun, failures>>

\* except Exception: pass
LogLetterFailedFails(i) ==
    /\ letters[i].stage = "failed"
    /\ \/ ~exists /\ UNCHANGED failures
       \/ Failure
    /\ Move(i, "lost")
    /\ UNCHANGED <<exists, decision, requests, rows, begun>>

\* The enrolment is deleted, and its notification_logs with it.
DeleteCandidate ==
    /\ exists /\ \A r \in Requests : ~Holds(r)
    /\ exists' = FALSE
    /\ rows' = [i \in DOMAIN rows |-> {}]
    /\ UNCHANGED <<decision, requests, letters, begun, failures>>

Restart ==
    /\ Failure
    /\ requests' = [r \in Requests |-> Idle]
    /\ letters' = [i \in DOMAIN letters |->
                     [letters[i] EXCEPT !.stage = IF @ = "done" THEN @ ELSE "lost"]]
    /\ UNCHANGED <<exists, decision, rows, begun>>

DecisionInit ==
    /\ exists = TRUE /\ decision = "PENDING"
    /\ requests = [r \in Requests |-> Idle]
    /\ letters = <<>> /\ rows = [i \in 1..MaxRequests |-> {}]
    /\ begun = 0 /\ failures = 0

Decide(r) ==
    \/ \E d \in Decisions : Read(r, d)
    \/ Write(r) \/ WriteMisses(r) \/ Commit(r) \/ Abort(r)

Dispatch(i) ==
    \/ Send(i) \/ LetterFails(i) \/ LogLetterSent(i) \/ LogLetterSentFails(i)
    \/ LogLetterFailed(i) \/ LogLetterFailedFails(i)

DecisionNext ==
    \/ \E r \in Requests : Decide(r)
    \/ \E i \in DOMAIN letters : Dispatch(i)
    \/ DeleteCandidate
    \/ Restart

\* The event loop runs the tasks it was given.
DecisionSpec ==
    /\ DecisionInit /\ [][DecisionNext]_decisionVars
    /\ \A i \in 1..MaxRequests : WF_decisionVars(i \in DOMAIN letters /\ Dispatch(i))

-----------------------------------------------------------------------------

Quiet == \A r \in Requests : requests[r].step = "idle"

DecisionTypeOK ==
    /\ exists \in BOOLEAN /\ decision \in Decisions \cup {"PENDING"}
    /\ requests \in [Requests -> [step : {"idle", "write", "commit"},
                                  wanted : Decisions \cup {"PENDING"},
                                  previous : Decisions \cup {"PENDING"}]]
    /\ letters \in Seq([tells : Decisions, accepted : BOOLEAN,
                        stage : {"started", "sent", "failed", "done", "lost"}])
    /\ rows \in [1..MaxRequests -> SUBSET {"SENT", "FAILED"}]
    /\ begun \in 0..MaxRequests /\ failures \in 0..MaxFailures /\ Len(letters) <= begun

\* A decision that was stored was announced, whatever was requested at the same
\* time, refused or restarted.
DecisionAnnounced ==
    decision # "PENDING" => \E i \in DOMAIN letters : letters[i].tells = decision

\* A letter leaves one row, a row SENT only if the e-mail went out, and none only
\* if the enrolment is gone or the log got lost.
LettersLogged ==
    \A i \in DOMAIN letters :
        /\ Cardinality(rows[i]) <= 1
        /\ "SENT" \in rows[i] => letters[i].accepted
        /\ letters[i].stage = "done" /\ exists => rows[i] # {}

\* What is stored, told and logged agree.
LettersTell == DecisionTypeOK /\ DecisionAnnounced /\ LettersLogged

\* Every letter that was started is logged in the end, or lost.
LettersEnd ==
    \A i \in 1..MaxRequests :
        i \in DOMAIN letters ~>
            i \in DOMAIN letters /\ letters[i].stage \in {"done", "lost"}

\* For requests one after the other: the letter started last tells the decision
\* that is stored, and no letter repeats the one before it.
LastLetterTells ==
    Quiet /\ decision # "PENDING" => Last(letters).tells = decision

LettersAlternate ==
    \A i \in DOMAIN letters : i > 1 => letters[i].tells # letters[i - 1].tells
=============================================================================
