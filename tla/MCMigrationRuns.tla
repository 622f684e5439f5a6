--------------------------- MODULE MCMigrationRuns ---------------------------
EXTENDS MigrationRuns

Stored(s, deadline, e, filled) ==
    [session |-> [status |-> s, deadline |-> deadline],
     enrolment |-> [status |-> e, consumed |-> FALSE], filled |-> filled]

Sessions == {"interview_sessions"}
MCOlderRows ==
    {Stored("ABSENT", FALSE, "INVITED", {}),
     Stored("IN_PROGRESS", TRUE, "IN_PROGRESS", Sessions),
     Stored("PAUSED", TRUE, "IN_PROGRESS", Sessions),
     Stored("COMPLETED", FALSE, "COMPLETED", Sessions),
     Stored("TERMINATED", FALSE, "TERMINATED", Sessions \cup {"interview_evaluations"}),
     Stored("IN_PROGRESS", FALSE, "IN_PROGRESS",
         Sessions \cup {"transcript_turns", "answer_evaluations"})}

(* A container that serves after its migration finds the tables its models   *)
(* declare: every column, no required column the models do not know, the     *)
(* same unique keys and foreign keys.  (The schema depends on the revision   *)
(* alone, so this is about constants.)                                       *)
ASSUME LatestServesModels == Serves(FreshAt[Latest].tables)
=============================================================================
