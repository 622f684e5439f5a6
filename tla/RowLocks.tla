------------------------------ MODULE RowLocks ------------------------------
(***************************************************************************)
(* The database transactions of the enrolments of one assessment: which    *)
(* row locks each request takes, in which order, and the ranking that      *)
(* save_final_evaluation computes under an advisory lock                   *)
(* (data/repositories/evaluation_repository.py).                           *)
(*                                                                         *)
(* Rows are locked exclusively until the transaction ends.  A request that *)
(* takes several locks goes through them in the order of its statements;   *)
(* the server aborts one transaction of every cycle of waits.  The values  *)
(* the requests write are the subject of InterviewSession; here only       *)
(* evaluations have a content.                                             *)
(***************************************************************************)
EXTENDS Naturals, FiniteSets, Sequences

CONSTANTS
    NULL,
    Enrolments,      \* candidate_assessments of the assessment
    MaxTransactions, \* bound: transactions ever begun
    Kinds,           \* what they may be, of the five below
    Scores           \* overall_score values

ASSUME LocksAssumption ==
    /\ IsFiniteSet(Enrolments)
    /\ MaxTransactions \in Nat /\ NULL \notin 1..MaxTransactions
    /\ NULL \notin [score : Nat, at : Nat, rank : Nat, total : Nat]
    /\ Kinds \subseteq {"entry", "lifecycle", "write", "save", "deletion"}
    /\ Scores \subseteq Nat

VARIABLES
    evals,    \* committed interview_evaluations rows, NULL: none
    gone,     \* enrolments deleted
    tx,       \* the transactions, numbered as they begin
    locks,    \* owner of each lock, NULL: free
    stale     \* history: an evaluation was deleted after the last save

vars == <<evals, gone, tx, locks, stale>>

\* The number of a transaction is its func.now().
Transactions == 1..MaxTransactions

Evaluation(c) == <<"evaluation", c>>
Session(c)    == <<"session", c>>
Candidate(c)  == <<"candidate", c>>
Advisory      == <<"advisory", NULL>>    \* pg_advisory_xact_lock(assessment)
Ranking       == <<"ranking", NULL>>     \* no lock: the SELECT ... FOR UPDATE

Locks == {Advisory} \cup UNION {{Evaluation(c), Session(c), Candidate(c)} : c \in Enrolments}

-----------------------------------------------------------------------------
(* The locks of each kind of transaction, in order.                        *)

\* Mutant: the ranking is not serialised.
SaveWithoutAdvisory(c) == <<Evaluation(c), Session(c), Candidate(c), Ranking>>

\* Upsert, two updates, the advisory lock, the ranking.
SaveLocks(c) == <<Evaluation(c), Session(c), Candidate(c), Advisory, Ranking>>

\* Mutant: the candidate's row first.
LifecycleCandidateFirst(c) == <<Candidate(c), Session(c)>>

\* authorize, the last drop, a terminating packet, initialize.
LifecycleLocks(c) == <<Session(c), Candidate(c)>>

\* enter_with_invitation locks the invitation's row, then the session.
EntryLocks(c) == <<Candidate(c), Session(c)>>

\* Children first; nothing orders the session and the enrolment.
DeletionLocks(c) ==
    LET rows == {<<Session(c), Candidate(c)>>, <<Candidate(c), Session(c)>>}
    IN IF evals[c] = NULL THEN rows ELSE {<<Evaluation(c)>> \o row : row \in rows}

Scripts(kind, c) ==
    CASE kind = "entry"     -> {EntryLocks(c)}
      [] kind = "lifecycle" -> {LifecycleLocks(c)}
      [] kind = "write"     -> {<<Session(c)>>, <<Candidate(c)>>}
      [] kind = "save"      -> {SaveLocks(c)}
      [] kind = "deletion"  -> DeletionLocks(c)

-----------------------------------------------------------------------------
(* Ranking.                                                                *)

\* overall_score descending, generated_at ascending.
Before(e, f) ==
    \/ e.score > f.score
    \/ e.score = f.score /\ e.at < f.at

\* What t sees: the committed rows, and its own.
Seen(t) == [evals EXCEPT ![tx[t].of] =
              [score |-> tx[t].score, at |-> t, rank |-> 0, total |-> 0]]

Evaluated(rows) == {c \in Enrolments : rows[c] # NULL}

\* Mutant: ranks from zero.
RankFromZero(rows, read, c) == Cardinality({d \in read : Before(rows[d], rows[c])})

RankOf(rows, read, c) == 1 + Cardinality({d \in read : Before(rows[d], rows[c])})

\* Only rows the ranking read, and that still exist, are written.
RefreshRanking(rows, read) ==
    [c \in Enrolments |->
       IF c \notin read THEN rows[c]
       ELSE [rows[c] EXCEPT !.rank = RankOf(rows, read, c), !.total = Cardinality(read)]]

\* Locks of the SELECT: each row's evaluation and enrolment, best row first.
RankingLocks(rows) ==
    LET n == Cardinality(Evaluated(rows))
        orders == {best \in [1..n -> Evaluated(rows)] :
                     \A i, j \in 1..n : i < j => Before(rows[best[i]], rows[best[j]])}
    IN {[i \in 1..(2 * n) |-> IF i % 2 = 1 THEN Evaluation(best[(i + 1) \div 2])
                              ELSE Candidate(best[i \div 2])] : best \in orders}

-----------------------------------------------------------------------------
(* Transactions.                                                           *)

\* rows: the enrolments a save's ranking read.
Idle == [state |-> "idle", kind |-> "none", of |-> NULL, score |-> 0,
         todo |-> <<>>, again |-> FALSE, rows |-> {}]

Active(t) == tx[t].state = "active"

Begin(t, kind, c) ==
    /\ tx[t].state = "idle" /\ \A u \in 1..(t - 1) : tx[u].state # "idle"
    /\ c \notin gone
    /\ \E script \in Scripts(kind, c), score \in IF kind = "save" THEN Scores ELSE {0} :
         tx' = [tx EXCEPT ![t] = [Idle EXCEPT !.state = "active", !.kind = kind, !.of = c,
                                              !.score = score, !.todo = script]]
    /\ UNCHANGED <<evals, gone, locks, stale>>

\* An upsert that finds a row is a repeated evaluation.  Of an enrolment that
\* is gone there is no row to lock or to refer to.
Acquire(t) ==
    /\ Active(t) /\ tx[t].todo # <<>> /\ tx[t].of \notin gone
    /\ LET lock == Head(tx[t].todo)
       IN /\ lock # Ranking
          /\ locks[lock] \in {NULL, t}
          /\ locks' = [locks EXCEPT ![lock] = t]
          /\ tx' = [tx EXCEPT ![t].todo = Tail(@),
                              ![t].again = @ \/ /\ lock = Evaluation(tx[t].of)
                                                /\ locks[lock] = NULL
                                                /\ evals[tx[t].of] # NULL]
    /\ UNCHANGED <<evals, gone, stale>>

SelectForUpdate(t) ==
    /\ Active(t) /\ tx[t].todo # <<>> /\ Head(tx[t].todo) = Ranking
    /\ \E script \in RankingLocks(Seen(t)) :
         tx' = [tx EXCEPT ![t].todo = script, ![t].rows = Evaluated(Seen(t))]
    /\ UNCHANGED <<evals, gone, locks, stale>>

\* Mutant: a session-level advisory lock survives its transaction.
ReleaseRows(t) ==
    [lock \in Locks |-> IF locks[lock] = t /\ lock # Advisory THEN NULL ELSE locks[lock]]

Release(t) == [lock \in Locks |-> IF locks[lock] = t THEN NULL ELSE locks[lock]]

End(t) ==
    /\ tx' = [tx EXCEPT ![t] = [Idle EXCEPT !.state = "ended"]]
    /\ locks' = Release(t)

Finished(t, kinds) == Active(t) /\ tx[t].todo = <<>> /\ tx[t].kind \in kinds

\* The session an evaluation refers to must exist.
CommitSave(t) ==
    /\ Finished(t, {"save"}) /\ tx[t].of \notin gone
    /\ evals' = RefreshRanking(Seen(t), tx[t].rows \cap Evaluated(Seen(t)))
    /\ stale' = FALSE
    /\ End(t)
    /\ UNCHANGED gone

CommitDeletion(t) ==
    /\ Finished(t, {"deletion"})
    /\ gone' = gone \cup {tx[t].of}
    /\ evals' = [evals EXCEPT ![tx[t].of] = NULL]
    /\ stale' = (stale \/ evals[tx[t].of] # NULL)
    /\ End(t)

CommitOther(t) ==
    /\ Finished(t, {"entry", "lifecycle", "write"})
    /\ End(t)
    /\ UNCHANGED <<evals, gone, stale>>

\* A statement timed out, was refused, or its process died.
Fail(t) ==
    /\ Active(t)
    /\ End(t)
    /\ UNCHANGED <<evals, gone, stale>>

Waits(t) ==
    /\ Active(t) /\ tx[t].todo # <<>> /\ Head(tx[t].todo) # Ranking
    /\ locks[Head(tx[t].todo)] \notin {NULL, t}

Blocker(t) == locks[Head(tx[t].todo)]

\* Every lock has one owner, so each transaction waits for at most one.
Stuck(ts) == ts # {} /\ \A t \in ts : Blocker(t) \in ts

Cycles ==
    LET waiting == {t \in Transactions : Waits(t)}
    IN {ts \in SUBSET waiting : Stuck(ts) /\ \A us \in SUBSET ts : Stuck(us) => us = ts}

DeadlockDetected(t) ==
    /\ Waits(t) /\ \E ts \in Cycles : t \in ts
    /\ End(t)
    /\ UNCHANGED <<evals, gone, stale>>

-----------------------------------------------------------------------------

Init ==
    /\ evals = [c \in Enrolments |-> NULL]
    /\ gone = {}
    /\ tx = [t \in Transactions |-> Idle]
    /\ locks = [lock \in Locks |-> NULL]
    /\ stale = FALSE

Proceed(t) ==
    \/ Acquire(t) \/ SelectForUpdate(t)
    \/ CommitSave(t) \/ CommitDeletion(t) \/ CommitOther(t)
    \/ tx[t].of \in gone /\ Fail(t)
    \/ DeadlockDetected(t)

Next ==
    \E t \in Transactions :
      \/ \E kind \in Kinds, c \in Enrolments : Begin(t, kind, c)
      \/ Proceed(t)
      \/ Fail(t)

Spec == Init /\ [][Next]_vars

\* The server does not stop while some statement can run.
FairSpec == Spec /\ WF_vars(\E t \in Transactions : Proceed(t))

-----------------------------------------------------------------------------
(* Properties.                                                             *)

TypeOK ==
    /\ evals \in [Enrolments -> {NULL} \cup [score: Scores, at: Transactions,
                                             rank: 1..Cardinality(Enrolments),
                                             total: 1..Cardinality(Enrolments)]]
    /\ gone \subseteq Enrolments
    /\ \A t \in Transactions :
         /\ tx[t].state \in {"idle", "active", "ended"}
         /\ tx[t].kind \in Kinds \cup {"none"}
         /\ tx[t].todo \in Seq(Locks \cup {Ranking})
         /\ tx[t].again \in BOOLEAN
    /\ locks \in [Locks -> Transactions \cup {NULL}]
    /\ stale \in BOOLEAN

\* Although every save sees only what was committed before it ranks, the
\* committed ranks are those of all committed evaluations, by score and then
\* by time, without gaps or doubles; until an evaluation is deleted, and
\* again from the next save on.
RanksAreCurrent ==
    ~stale =>
      \A c \in Evaluated(evals) :
        /\ evals[c].total = Cardinality(Evaluated(evals))
        /\ \A d \in Evaluated(evals) \ {c} :
             evals[c].rank < evals[d].rank <=> Before(evals[c], evals[d])
        /\ evals[c].rank \in 1..evals[c].total

\* The engine's requests, the candidate's reconnections and first
\* evaluations never deadlock among themselves: every cycle of waits has an
\* entry by invitation, a deletion or a repeated evaluation in it.
DeadlocksExplained ==
    \A ts \in Cycles : \E t \in ts : tx[t].kind \in {"entry", "deletion"} \/ tx[t].again

\* Every transaction ends, whomever it waits for.
EveryTransactionEnds == \A t \in Transactions : Active(t) ~> ~Active(t)

=============================================================================
