----------------------------- MODULE InterviewRows -----------------------------
(***************************************************************************)
(* The life of one interview as its two rows show it: of interview_sessions *)
(* the status and whether a reconnect deadline is stored, of               *)
(* candidate_assessments the status and whether the invitation was         *)
(* consumed.  Each operator relates the rows s and e before a request of   *)
(* the session service, or of an interview engine that keeps to its        *)
(* protocol, to the rows s2 and e2 after it; times, tokens, connections    *)
(* and counters are left out.                                              *)
(***************************************************************************)

Active == {"INITIALIZING", "IN_PROGRESS"}
ClosedSession == {"COMPLETED", "TERMINATED", "EVALUATED", "EVALUATION_FAILED"}
ClosedEnrolment == {"COMPLETED", "TERMINATED", "EVALUATED"}

Row(status, deadline) == [status |-> status, deadline |-> deadline]

(* The first request inserts the session row, even when it is refused. *)
Inserted(s) == IF s.status = "ABSENT" THEN Row("INITIALIZING", FALSE) ELSE s

Enters(s, e, s2, e2) ==
    /\ s.status \notin ClosedSession /\ e.status \notin ClosedEnrolment
    /\ s2 = Inserted(s) /\ e2 = [e EXCEPT !.consumed = TRUE]

EntryRefused(s, e, s2, e2) == s2 = Inserted(s) /\ e2 = e

(* The engine reports the beginning to the session, the enrolment or both. *)
Begins(s, e, s2, e2) ==
    /\ e.consumed /\ s.status \in Active /\ e.status \notin ClosedEnrolment
    /\ s2 \in {s, Row("IN_PROGRESS", FALSE)}
    /\ e2 \in {e, [e EXCEPT !.status = "IN_PROGRESS"]}

(* A drop waits for a reconnection. *)
Drops(s, e, s2, e2) ==
    /\ e.consumed /\ s.status \in Active
    /\ s2 = Row("DISCONNECTED", TRUE) /\ e2 = e

Reconnects(s, e, s2, e2) ==
    /\ e.consumed /\ s.status = "DISCONNECTED" /\ e.status \notin ClosedEnrolment
    /\ s2 = Row("IN_PROGRESS", FALSE) /\ e2 = [e EXCEPT !.status = "IN_PROGRESS"]

(* The last drop, a reconnection after the deadline, a limit of proctoring. *)
Terminates(s, e, s2, e2) ==
    /\ e.consumed /\ s.status \in Active \cup {"DISCONNECTED"}
    /\ s2 = Row("TERMINATED", FALSE) /\ e2 = [e EXCEPT !.status = "TERMINATED"]

(* Ending an interview is two requests: the session's, then the enrolment's. *)
Completes(s, e, s2, e2) ==
    /\ e.consumed
    /\ \/ /\ s.status \in Active \cup {"COMPLETED"}
          /\ s2 = Row("COMPLETED", FALSE) /\ e2 = e
       \/ /\ s.status = "COMPLETED"
          /\ s2 = s /\ e2 = [e EXCEPT !.status = "COMPLETED"]

(* An interview that was terminated may be evaluated as well. *)
Evaluates(s, e, s2, e2) ==
    /\ s.status # "ABSENT" /\ e.status \in ClosedEnrolment
    /\ s2 = [s EXCEPT !.status = "EVALUATED"] /\ e2 = [e EXCEPT !.status = "EVALUATED"]

EvaluationFails(s, e, s2, e2) ==
    /\ s.status \notin {"ABSENT", "EVALUATED"} /\ e.status \in ClosedEnrolment
    /\ s2 = [s EXCEPT !.status = "EVALUATION_FAILED"] /\ e2 = e

Lives(s, e, s2, e2) ==
    \/ Enters(s, e, s2, e2) \/ EntryRefused(s, e, s2, e2)
    \/ Begins(s, e, s2, e2)
    \/ Drops(s, e, s2, e2) \/ Reconnects(s, e, s2, e2)
    \/ Terminates(s, e, s2, e2) \/ Completes(s, e, s2, e2)
    \/ Evaluates(s, e, s2, e2) \/ EvaluationFails(s, e, s2, e2)

=============================================================================
