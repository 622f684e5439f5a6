---------------------------- MODULE MigrationRuns ----------------------------
(***************************************************************************)
(* The runs of Alembic over the life of a database: containers that apply  *)
(* `alembic upgrade head` before they serve (docker-entrypoint.sh), an     *)
(* operator who takes the last revision back, and the application that     *)
(* writes rows in between.  A run reads the revision, applies what is      *)
(* missing in ONE transaction (env.py) and commits; a container that fails *)
(* exits (set -e) and is started again.  DDL and the version row serialise *)
(* the runs: "holder" is the one whose transaction has changed something.  *)
(***************************************************************************)
EXTENDS OrmModels, InterviewRows

CONSTANTS
    Containers,   \* containers of the service
    Operators,    \* consoles on which `alembic downgrade -1` is typed
    Releases,     \* the last revision each container's image may contain
    OlderRows,    \* what releases before revision 9 may have stored
    MaxCrashes    \* BOUND: containers or consoles killed in the middle

Runs == Containers \cup Operators
Nobody == "nobody"

ASSUME MigrationAssumption ==
    /\ Containers \cap Operators = {}
    /\ Nobody \notin Runs
    /\ Releases \subseteq 1..Latest
    /\ OlderRows \subseteq [session : [status : SessionStates, deadline : BOOLEAN],
                            enrolment : [status : EnrolmentStates, consumed : {FALSE}],
                            filled : SUBSET {"transcript_turns", "answer_evaluations",
                                             "interview_evaluations", "interview_sessions"}]
    /\ MaxCrashes \in Nat

VARIABLES
    rev,      \* the row of alembic_version, 0 when there is none
    db,       \* the committed database
    holder,   \* the run that holds the locks
    run,      \* what each container or console does
    work,     \* the database as the holder sees it, and the revision it is at
    crashes

vars == <<rev, db, holder, run, work, crashes>>

NoWork == [at |-> 0, db |-> EmptyDb]
Idle == [phase |-> "off", goal |-> 0, seen |-> 0]

Init ==
    /\ rev = 0 /\ db = EmptyDb /\ holder = Nobody /\ work = NoWork /\ crashes = 0
    /\ run \in [Runs -> {[Idle EXCEPT !.goal = g] : g \in Releases}]
    /\ \A o \in Operators : run[o].goal = Latest

(* What was read of the revision matters while the run lasts. *)
Phase(i, p) ==
    run' = [run EXCEPT ![i] = [phase |-> p, goal |-> @.goal,
                               seen |-> IF p = "applying" THEN @.seen ELSE 0]]
Released == holder' = Nobody /\ work' = NoWork

-----------------------------------------------------------------------------
(* Mutant: nothing left to do counts as a failure. *)
ReadStrictly(i) ==
    /\ run[i].phase = "off"
    /\ LET behind == IF i \in Operators THEN rev > 0 ELSE rev < run[i].goal
       IN  run' = [run EXCEPT ![i].phase = IF behind THEN "planned" ELSE "failed",
                              ![i].seen = IF behind THEN rev ELSE 0]
    /\ UNCHANGED <<rev, db, holder, work, crashes>>

(* The revision is read inside the transaction.  An image that does not know *)
(* it cannot run; one that is up to date goes on to serve.                   *)
ReadRevision(i) ==
    /\ run[i].phase = "off"
    /\ LET phase == IF i \in Operators THEN IF rev = 0 THEN "failed" ELSE "planned"
                    ELSE CASE rev > run[i].goal -> "failed"
                           [] rev = run[i].goal -> "serving"
                           [] OTHER -> "planned"
       IN  run' = [run EXCEPT ![i] = [phase |-> phase, goal |-> @.goal,
                                      seen |-> IF phase = "planned" THEN rev ELSE 0]]
    /\ UNCHANGED <<rev, db, holder, work, crashes>>

(* Mutant: whatever has been committed since, the run goes on. *)
TakeLocksUnread(i) ==
    /\ run[i].phase = "planned" /\ holder = Nobody
    /\ Phase(i, "applying") /\ holder' = i /\ work' = [at |-> rev, db |-> db]
    /\ UNCHANGED <<rev, db, crashes>>

(* The first change waits for the locks.  If another run has committed in    *)
(* the meantime, its objects or its version row refuse this one.             *)
TakeLocks(i) ==
    /\ run[i].phase = "planned" /\ holder = Nobody
    /\ IF run[i].seen = rev
       THEN Phase(i, "applying") /\ holder' = i /\ work' = [at |-> rev, db |-> db]
       ELSE Phase(i, "failed") /\ UNCHANGED <<holder, work>>
    /\ UNCHANGED <<rev, db, crashes>>

Target(i) == IF i \in Operators THEN run[i].seen - 1 ELSE run[i].goal

Applied(i) ==
    IF work.at > Target(i)
    THEN [at |-> work.at - 1, db |-> Downgrade(work.at, work.db)]
    ELSE [at |-> work.at + 1, db |-> Upgrade(work.at + 1, work.db)]

(* One revision; a refused statement aborts the whole transaction. *)
ApplyRevision(i) ==
    /\ run[i].phase = "applying" /\ work.at # Target(i)
    /\ IF Applied(i).db.ok
       THEN work' = Applied(i) /\ UNCHANGED <<holder, run>>
       ELSE Phase(i, "failed") /\ Released
    /\ UNCHANGED <<rev, db, crashes>>

CommitRun(i) ==
    /\ run[i].phase = "applying" /\ work.at = Target(i)
    /\ rev' = work.at /\ db' = work.db
    /\ Phase(i, IF i \in Operators THEN "off" ELSE "serving")
    /\ Released
    /\ UNCHANGED crashes

(* The container exits; the platform starts it again. *)
Restart(i) ==
    /\ run[i].phase = "failed"
    /\ Phase(i, "off")
    /\ UNCHANGED <<rev, db, holder, work, crashes>>

Crash(i) ==
    /\ crashes < MaxCrashes /\ crashes' = crashes + 1
    /\ run[i].phase \in {"planned", "applying", "serving"}
    /\ Phase(i, "off")
    /\ IF holder = i THEN Released ELSE UNCHANGED <<holder, work>>
    /\ UNCHANGED <<rev, db>>

(* A newer image takes the place of a container that is not migrating. *)
Deploy(i) ==
    /\ run[i].phase # "applying"
    /\ \E g \in Releases :
         g > run[i].goal /\ run' = [run EXCEPT ![i] = [Idle EXCEPT !.goal = g]]
    /\ UNCHANGED <<rev, db, holder, work, crashes>>

-----------------------------------------------------------------------------
(* Rows.  Of a release before revision 9 only its schema is known: it may    *)
(* have stored whatever that schema holds.                                   *)
OlderReleaseWrites ==
    /\ holder = Nobody /\ rev \in 1..8
    /\ \E row \in OlderRows :
         /\ row.filled \subseteq DOMAIN db.tables
         /\ row.session.status # "ABSENT" => "interview_sessions" \in row.filled
         /\ db' = [db EXCEPT !.session = row.session, !.enrolment = row.enrolment,
                             !.filled = row.filled]
    /\ UNCHANGED <<rev, holder, run, work, crashes>>

(* From revision 9 on rows change as this release changes them. *)
Becomes(session, enrolment) ==
    /\ holder = Nobody /\ rev >= 9
    /\ LET written == (IF session.status = "ABSENT" THEN {} ELSE {"interview_sessions"})
                        \cup (IF Evaluates(db.session, db.enrolment, session, enrolment)
                              THEN {"interview_evaluations"} ELSE {})
       IN  db' = [db EXCEPT !.session = session, !.enrolment = enrolment,
                            !.filled = @ \cup written]
    /\ UNCHANGED <<rev, holder, run, work, crashes>>

Invite ==
    /\ db.enrolment.status = "NONE"
    /\ Becomes(db.session, [status |-> "INVITED", consumed |-> FALSE])

InterviewLives ==
    /\ db.enrolment.status # "NONE"
    /\ \E s \in [status : SessionStates, deadline : BOOLEAN],
          e \in [status : EnrolmentStates, consumed : BOOLEAN] :
         Lives(db.session, db.enrolment, s, e) /\ Becomes(s, e)

ApplicationWrites == OlderReleaseWrites \/ Invite \/ InterviewLives

RunStep(i) == ReadRevision(i) \/ TakeLocks(i) \/ ApplyRevision(i) \/ CommitRun(i) \/ Restart(i)

Next ==
    \/ ApplicationWrites
    \/ \E i \in Runs : RunStep(i) \/ Crash(i)
    \/ \E i \in Containers : Deploy(i)

Spec == Init /\ [][Next]_vars

(* The platform runs and restarts its containers: WF_vars(RunStep(i)), with  *)
(* ENABLED written out, which TLC cannot evaluate through the revisions.     *)
CanStep(i) ==
    \/ run[i].phase \in {"off", "failed", "applying"}
    \/ run[i].phase = "planned" /\ holder = Nobody
FairSpec ==
    Spec /\ \A i \in Containers : []<>(~CanStep(i)) \/ []<><<RunStep(i)>>_vars

-----------------------------------------------------------------------------

TypeOK ==
    /\ rev \in 0..Latest /\ db.ok
    /\ db.filled \subseteq DOMAIN db.tables
    /\ db.session.status \in SessionStates /\ db.enrolment.status \in EnrolmentStates
    /\ holder \in Runs \cup {Nobody} /\ crashes \in 0..MaxCrashes
    /\ \A i \in Runs :
         /\ run[i].phase \in {"off", "planned", "applying", "failed", "serving"}
         /\ run[i].goal \in 0..Latest /\ run[i].seen \in 0..Latest
         /\ run[i].phase = "applying" <=> holder = i

(* A schema depends on its revision alone: a refused or interrupted run      *)
(* leaves no trace, two runs at once never apply a revision twice, and every *)
(* downgrade that goes through restores columns, defaults, keys, references  *)
(* and checks exactly.  The LangGraph tables, which no revision of a fresh   *)
(* database creates on the way up, are set aside.                            *)
Own(tables) == Restrict(tables, DOMAIN tables \ DOMAIN CheckpointTables)
SchemaFollowsRevision ==
    TypeOK /\ Own(db.tables) = FreshAt[rev].tables /\ db.checks = FreshAt[rev].checks

(* Rows of any origin obey the life cycle of revision 9: no session is       *)
(* PAUSED, an active or terminated one has no deadline, and whoever is in    *)
(* an interview or has completed it has used up the invitation (the UPDATEs  *)
(* of e8b7c6d5a4f3, through any downgrade and upgrade).  It says nothing of  *)
(* an evaluated one: an interview terminated before revision 9 keeps its     *)
(* invitation unused and may be evaluated later.                             *)
RowsFitRelease ==
    rev >= 9 =>
        /\ db.session.status # "PAUSED" /\ DeadlineFits(db.session)
        /\ db.enrolment.status \in {"IN_PROGRESS", "COMPLETED"} => db.enrolment.consumed

(* The revision moves to the head of a container's image or back by one:     *)
(* a console never takes back more than what it has read as the last         *)
(* revision, whatever the containers commit after it has looked.             *)
RevisionMoves ==
    [][rev' # rev => \/ rev' = rev - 1
                     \/ \E i \in Containers : rev' = run[i].goal /\ rev < rev']_vars

(* The upgrade a container would run now, up to revision g. *)
Upgraded(g) ==
    LET f[r \in rev..g] == IF r = rev THEN db ELSE Upgrade(r, f[r - 1])
    IN  f[g]

(* What can keep a container from starting: rows that predate a column       *)
(* added as NOT NULL without a default, or a deadline on a session that is   *)
(* not waiting.  From revision 9 on, no rows do.                             *)
BlockedOnlyByOldRows ==
    ~Upgraded(Latest).ok =>
        \/ rev < 6 /\ "interview_evaluations" \in db.filled
        \/ rev < 4 /\ db.filled # {}
        \/ rev < 9 /\ ~DeadlineFits(db.session)

(* Containers of one release started together all serve in the end: the      *)
(* losers of the race fail on the version row, are restarted and find        *)
(* nothing to do.  Except while rows block the upgrade or a console is at    *)
(* work; and a container whose image stays older than another's may never.   *)
Newest(i) == \A j \in Containers : run[j].goal <= run[i].goal
Unsettled ==
    \/ \E o \in Operators : run[o].phase \in {"planned", "applying"}
    \/ \E i \in Containers :
         /\ run[i].phase = "planned" /\ rev < run[i].goal
         /\ ~Upgraded(run[i].goal).ok
AllServe ==
    \/ []<>Unsettled
    \/ <>[](\A i \in Containers : Newest(i) => run[i].phase = "serving")
=============================================================================
