--------------------------- MODULE RowLocks_proofs ---------------------------
(***************************************************************************)
(* Proofs about RowLocks, for any number of enrolments and transactions:   *)
(* the ranking that a save computes is that of all committed evaluations,  *)
(* and which requests a deadlock can have in it.                           *)
(*                                                                         *)
(* A save ranks what it read when it selected the rows, and commits later. *)
(* The invariant says that from the selection on nothing was added: the    *)
(* save holds the advisory lock, which a save must hold to commit.  The    *)
(* rest is counting: among evaluations that differ in time, the number of  *)
(* better ones orders them without gaps or doubles.                        *)
(*                                                                         *)
(* A cycle of waits climbs the lock order up to the save that has ranked.  *)
(* It waits for a row it read; the invariant says that nobody inserts an   *)
(* evaluation whose row some ranking has read.                             *)
(***************************************************************************)
EXTENDS RowLocks, FiniteSetTheorems, TLAPS

Scored == [score : Nat, at : Nat, rank : Nat, total : Nat]

Fields == {"state", "kind", "of", "score", "todo", "again", "rows"}

\* What a save still has to lock before it ranks.
Unranked(c) ==
    {SaveLocks(c), <<Session(c), Candidate(c), Advisory, Ranking>>,
     <<Candidate(c), Advisory, Ranking>>, <<Advisory, Ranking>>}

Saving(t) == tx[t].state = "active" /\ tx[t].kind = "save"

\* A save that is about to rank, or has ranked, keeps all other saves out.
Serialised(t) ==
    \/ tx[t].todo \in Unranked(tx[t].of)
    \/ /\ locks[Advisory] = t
       /\ tx[t].todo = <<Ranking>> \/ Evaluated(evals) \cup {tx[t].of} \subseteq tx[t].rows

Requests ==
    /\ DOMAIN tx = Transactions /\ DOMAIN locks = Locks
    /\ \A t \in Transactions :
          /\ DOMAIN tx[t] = Fields
          /\ tx[t].state = "active" => tx[t].of \in Enrolments
          /\ Saving(t) => tx[t].score \in Nat /\ Serialised(t)

\* No two evaluations were saved at the same time.
Apart(rows) == \A c, d \in Evaluated(rows) : rows[c].at = rows[d].at => c = d

Evaluations ==
    /\ evals \in [Enrolments -> {NULL} \cup Scored]
    /\ \A c \in Evaluated(evals) : evals[c].at \in Transactions /\ tx[evals[c].at].state = "ended"
    /\ Apart(evals)

IndInv == Requests /\ Evaluations /\ RanksAreCurrent

-----------------------------------------------------------------------------
(* Ranks.                                                                  *)

LEMMA NullIsNoRow == NULL \notin Scored
BY LocksAssumption DEF Scored

LEMMA Bounds == IsFiniteSet(Enrolments) /\ Scores \subseteq Nat
BY LocksAssumption

LEMMA ScoredRow ==
    ASSUME NEW rows \in [Enrolments -> {NULL} \cup Scored], NEW c \in Evaluated(rows)
    PROVE  /\ c \in Enrolments /\ rows[c] \in Scored
           /\ rows[c].score \in Nat /\ rows[c].at \in Nat
<1>1. c \in Enrolments /\ rows[c] \in Scored
  BY DEF Evaluated
<1> QED
  BY <1>1 DEF Scored

Better(rows, c) == {d \in Evaluated(rows) : Before(rows[d], rows[c])}

LEMMA BetterCounts ==
    ASSUME NEW rows \in [Enrolments -> {NULL} \cup Scored], Apart(rows),
           NEW c \in Evaluated(rows), NEW d \in Evaluated(rows), Before(rows[c], rows[d])
    PROVE  /\ IsFiniteSet(Better(rows, c)) /\ IsFiniteSet(Better(rows, d))
           /\ Cardinality(Better(rows, c)) < Cardinality(Better(rows, d))
<1>1. IsFiniteSet(Evaluated(rows))
  BY Bounds, FS_Subset DEF Evaluated
<1>2. Better(rows, c) \subseteq Evaluated(rows) /\ Better(rows, d) \subseteq Evaluated(rows)
  BY DEF Better
<1>3. IsFiniteSet(Better(rows, c)) /\ IsFiniteSet(Better(rows, d))
  BY <1>1, <1>2, FS_Subset
<1>4. \A e \in Evaluated(rows) : rows[e].score \in Nat /\ rows[e].at \in Nat
  BY ScoredRow
<1>5. c \notin Better(rows, c)
  BY <1>4 DEF Better, Before
<1>6. Better(rows, c) \cup {c} \subseteq Better(rows, d)
  BY <1>4 DEF Better, Before
<1>7. /\ Cardinality(Better(rows, c) \cup {c}) = Cardinality(Better(rows, c)) + 1
      /\ Cardinality(Better(rows, c) \cup {c}) <= Cardinality(Better(rows, d))
  <2>1. Cardinality(Better(rows, c) \cup {c}) = Cardinality(Better(rows, c)) + 1
    BY <1>3, <1>5, FS_AddElement
  <2>2. Cardinality(Better(rows, c) \cup {c}) <= Cardinality(Better(rows, d))
    BY <1>3, <1>6, FS_Subset
  <2> QED
    BY <2>1, <2>2
<1>8. Cardinality(Better(rows, c)) \in Nat /\ Cardinality(Better(rows, d)) \in Nat
  BY <1>3, FS_CardinalityType
<1> QED
  BY <1>3, <1>7, <1>8

LEMMA RankRange ==
    ASSUME NEW rows \in [Enrolments -> {NULL} \cup Scored], NEW c \in Evaluated(rows)
    PROVE  /\ Cardinality(Evaluated(rows)) \in Nat
           /\ RankOf(rows, Evaluated(rows), c) \in 1..Cardinality(Evaluated(rows))
<1>1. IsFiniteSet(Evaluated(rows)) /\ Cardinality(Evaluated(rows)) \in Nat
  BY Bounds, FS_Subset, FS_CardinalityType DEF Evaluated
<1>2. rows[c].score \in Nat /\ rows[c].at \in Nat
  BY ScoredRow
<1>3. Better(rows, c) \subseteq Evaluated(rows) \ {c}
  BY <1>2 DEF Better, Before
<1>4. /\ IsFiniteSet(Evaluated(rows) \ {c})
      /\ Cardinality(Evaluated(rows) \ {c}) = Cardinality(Evaluated(rows)) - 1
  BY <1>1, FS_RemoveElement
<1>5. /\ IsFiniteSet(Better(rows, c))
      /\ Cardinality(Better(rows, c)) <= Cardinality(Evaluated(rows)) - 1
  BY <1>3, <1>4, FS_Subset
<1>6. Cardinality(Better(rows, c)) \in Nat
  BY <1>5, FS_CardinalityType
<1>7. RankOf(rows, Evaluated(rows), c) = 1 + Cardinality(Better(rows, c))
  BY DEF RankOf, Better
<1> QED
  BY <1>1, <1>5, <1>6, <1>7

\* The ranking of all evaluations leaves them ranked.
LEMMA RankingRanks ==
    ASSUME NEW rows \in [Enrolments -> {NULL} \cup Scored], Apart(rows),
           NEW ranked, ranked = RefreshRanking(rows, Evaluated(rows))
    PROVE  /\ ranked \in [Enrolments -> {NULL} \cup Scored]
           /\ Evaluated(ranked) = Evaluated(rows)
           /\ \A c \in Evaluated(ranked) :
                /\ ranked[c].at = rows[c].at
                /\ ranked[c].total = Cardinality(Evaluated(ranked))
                /\ \A d \in Evaluated(ranked) \ {c} :
                     ranked[c].rank < ranked[d].rank <=> Before(ranked[c], ranked[d])
                /\ ranked[c].rank \in 1..ranked[c].total
<1> DEFINE R == Evaluated(rows)
<1>1. R \subseteq Enrolments /\ \A c \in R : rows[c] \in Scored
  BY DEF Evaluated
<1>2. \A c \in Enrolments \ R : rows[c] = NULL /\ ranked[c] = NULL
  BY DEF RefreshRanking, Evaluated
<1>3. \A c \in R : ranked[c] = [rows[c] EXCEPT !.rank = RankOf(rows, R, c), !.total = Cardinality(R)]
  BY <1>1 DEF RefreshRanking
<1>4. \A c \in R : RankOf(rows, R, c) \in 1..Cardinality(R) /\ Cardinality(R) \in Nat
  BY RankRange
<1>5. \A c \in R : /\ ranked[c] \in Scored
                   /\ ranked[c].score = rows[c].score /\ ranked[c].at = rows[c].at
                   /\ ranked[c].rank = RankOf(rows, R, c) /\ ranked[c].total = Cardinality(R)
  <2>1. ASSUME NEW c \in R
        PROVE  /\ ranked[c] \in Scored
               /\ ranked[c].score = rows[c].score /\ ranked[c].at = rows[c].at
               /\ ranked[c].rank = RankOf(rows, R, c) /\ ranked[c].total = Cardinality(R)
    <3> DEFINE k == RankOf(rows, R, c)  n == Cardinality(R)
    <3>1. k \in Nat /\ n \in Nat
      BY <1>4
    <3>2. ranked[c] = [rows[c] EXCEPT !.rank = k, !.total = n]
      BY <1>3
    <3>4. rows[c] \in Scored
      BY <1>1
    <3> HIDE DEF k, n, R
    <3>3. /\ ranked[c] \in Scored
          /\ ranked[c].score = rows[c].score /\ ranked[c].at = rows[c].at
          /\ ranked[c].rank = k /\ ranked[c].total = n
      BY <3>1, <3>2, <3>4 DEF Scored
    <3> QED
      BY <3>3 DEF k, n, R
  <2> HIDE DEF R
  <2> QED
    BY <2>1
<1>6. ranked \in [Enrolments -> {NULL} \cup Scored] /\ Evaluated(ranked) = R
  <2>1. DOMAIN ranked = Enrolments /\ ranked = [c \in Enrolments |-> ranked[c]]
    BY DEF RefreshRanking
  <2>2. ranked \in [Enrolments -> {NULL} \cup Scored]
    BY <1>2, <1>5, <2>1
  <2>3. \A c \in Enrolments : ranked[c] # NULL <=> c \in R
    BY <1>2, <1>5, NullIsNoRow
  <2>4. Evaluated(ranked) = R
    BY <1>1, <2>3 DEF Evaluated
  <2> QED
    BY <2>2, <2>4
<1>7. \A c, d \in R : Before(ranked[c], ranked[d]) <=> Before(rows[c], rows[d])
  BY <1>5 DEF Before
<1>8. ASSUME NEW c \in R, NEW d \in R, Before(rows[c], rows[d])
      PROVE  RankOf(rows, R, c) < RankOf(rows, R, d)
  <2>1. /\ IsFiniteSet(Better(rows, c)) /\ IsFiniteSet(Better(rows, d))
        /\ Cardinality(Better(rows, c)) < Cardinality(Better(rows, d))
    BY <1>8, BetterCounts
  <2>2. Cardinality(Better(rows, c)) \in Nat /\ Cardinality(Better(rows, d)) \in Nat
    BY <2>1, FS_CardinalityType
  <2> QED
    BY <2>1, <2>2 DEF RankOf, Better
<1>9. \A c, d \in R : c # d => Before(rows[c], rows[d]) \/ Before(rows[d], rows[c])
  <2>1. \A c \in R : rows[c].score \in Nat /\ rows[c].at \in Nat
    BY ScoredRow
  <2> QED
    BY <2>1 DEF Apart, Before
<1> HIDE DEF R
<1>10. ASSUME NEW c \in R, NEW d \in R \ {c}
       PROVE  ranked[c].rank < ranked[d].rank <=> Before(ranked[c], ranked[d])
  <2>1. RankOf(rows, R, c) \in Nat /\ RankOf(rows, R, d) \in Nat
    BY <1>4
  <2> QED
    BY <1>5, <1>7, <1>8, <1>9, <2>1
<1> QED
  BY <1>4, <1>5, <1>6, <1>10 DEF R

-----------------------------------------------------------------------------
(* Steps of a transaction.                                                 *)

LEMMA NotNull == NULL \notin Transactions
BY LocksAssumption DEF Transactions

LEMMA AdvisoryIsALock == Advisory \in Locks
BY DEF Locks

LEMMA UnrankedHead ==
    ASSUME NEW c, NEW script \in Unranked(c)
    PROVE  script # <<>> /\ Head(script) # Ranking
<1>1. CASE script = SaveLocks(c)
  BY <1>1 DEF SaveLocks, Evaluation, Ranking
<1>2. CASE script = <<Session(c), Candidate(c), Advisory, Ranking>>
  BY <1>2 DEF Session, Ranking
<1>3. CASE script = <<Candidate(c), Advisory, Ranking>>
  BY <1>3 DEF Candidate, Ranking
<1>4. CASE script = <<Advisory, Ranking>>
  BY <1>4 DEF Advisory, Ranking
<1> QED
  BY <1>1, <1>2, <1>3, <1>4 DEF Unranked

LEMMA UnrankedTail ==
    ASSUME NEW c, NEW script \in Unranked(c), script # <<Advisory, Ranking>>
    PROVE  Tail(script) \in Unranked(c)
<1>1. CASE script = SaveLocks(c)
  <2>1. Tail(script) = <<Session(c), Candidate(c), Advisory, Ranking>>
    BY <1>1 DEF SaveLocks
  <2> QED
    BY <2>1 DEF Unranked
<1>2. CASE script = <<Session(c), Candidate(c), Advisory, Ranking>>
  <2>1. Tail(script) = <<Candidate(c), Advisory, Ranking>>
    BY <1>2
  <2> QED
    BY <2>1 DEF Unranked
<1>3. CASE script = <<Candidate(c), Advisory, Ranking>>
  <2>1. Tail(script) = <<Advisory, Ranking>>
    BY <1>3
  <2> QED
    BY <2>1 DEF Unranked
<1> QED
  BY <1>1, <1>2, <1>3 DEF Unranked

\* What a save sees.
LEMMA SeenRows ==
    ASSUME Requests, Evaluations, NEW t \in Transactions, Saving(t)
    PROVE  /\ Seen(t) \in [Enrolments -> {NULL} \cup Scored]
           /\ Evaluated(Seen(t)) = Evaluated(evals) \cup {tx[t].of}
           /\ Apart(Seen(t))
           /\ \A c \in Evaluated(Seen(t)) :
                \/ Seen(t)[c].at = t
                \/ c \in Evaluated(evals) /\ Seen(t)[c].at = evals[c].at
<1> DEFINE own == [score |-> tx[t].score, at |-> t, rank |-> 0, total |-> 0]
           o == tx[t].of
<1>1. o \in Enrolments /\ tx[t].score \in Nat
  BY DEF Requests, Saving
<1>2. t \in Nat
  BY DEF Transactions
<1>3. own \in Scored /\ own.at = t
  BY <1>1, <1>2 DEF Scored
<1>4. own # NULL
  BY <1>3, NullIsNoRow
<1>5. Seen(t) = [evals EXCEPT ![o] = own]
  BY DEF Seen
<1>6. evals \in [Enrolments -> {NULL} \cup Scored]
  BY DEF Evaluations
<1>7. \A c \in Evaluated(evals) : evals[c].at # t
  BY DEF Evaluations, Saving
<1> HIDE DEF own, o
<1>8. Seen(t) \in [Enrolments -> {NULL} \cup Scored]
  BY <1>3, <1>5, <1>6
<1>9. Seen(t)[o] = own /\ \A c \in Enrolments \ {o} : Seen(t)[c] = evals[c]
  BY <1>1, <1>5, <1>6
<1>10. Evaluated(Seen(t)) = Evaluated(evals) \cup {o}
  BY <1>1, <1>4, <1>9 DEF Evaluated
<1>11. \A c \in Evaluated(Seen(t)) :
         \/ c = o /\ Seen(t)[c].at = t
         \/ c # o /\ c \in Evaluated(evals) /\ Seen(t)[c].at = evals[c].at
  BY <1>3, <1>9, <1>10 DEF Evaluated
<1>12. Apart(Seen(t))
  BY <1>7, <1>11 DEF Apart, Evaluations
<1> QED
  BY <1>8, <1>10, <1>11, <1>12 DEF o

\* What a step must leave alone for the other transactions.
LEMMA OthersKept ==
    ASSUME Requests, NEW t \in Transactions,
           DOMAIN tx' = Transactions, DOMAIN locks' = Locks, DOMAIN tx'[t] = Fields,
           \A u \in Transactions \ {t} :
             tx'[u] = tx[u] /\ (locks[Advisory] = u => locks'[Advisory] = u),
           Evaluated(evals') \subseteq Evaluated(evals),
           tx'[t].state = "active" => tx'[t].of \in Enrolments,
           Saving(t)' => tx'[t].score \in Nat /\ Serialised(t)'
    PROVE  Requests'
<1>1. ASSUME NEW u \in Transactions \ {t}, Saving(u)' PROVE tx'[u].score \in Nat /\ Serialised(u)'
  <2>1. tx'[u] = tx[u] /\ (locks[Advisory] = u => locks'[Advisory] = u)
    OBVIOUS
  <2>2. Saving(u)
    BY <1>1, <2>1 DEF Saving
  <2>3. tx[u].score \in Nat /\ Serialised(u)
    BY <2>2 DEF Requests
  <2>4. Serialised(u)'
    BY <2>1, <2>3 DEF Serialised
  <2> QED
    BY <2>1, <2>3, <2>4
<1>2. \A u \in Transactions \ {t} :
        DOMAIN tx'[u] = Fields /\ (tx'[u].state = "active" => tx'[u].of \in Enrolments)
  BY DEF Requests
<1> QED
  BY <1>1, <1>2 DEF Requests

LEMMA Ended ==
    ASSUME Requests, NEW t \in Transactions, End(t)
    PROVE  /\ DOMAIN tx' = Transactions /\ DOMAIN locks' = Locks /\ DOMAIN tx'[t] = Fields
           /\ tx'[t].state = "ended" /\ ~Saving(t)'
           /\ \A u \in Transactions \ {t} :
                tx'[u] = tx[u] /\ (locks[Advisory] = u => locks'[Advisory] = u)
<1> DEFINE over == [Idle EXCEPT !.state = "ended"]
<1>1. over.state = "ended" /\ DOMAIN over = Fields
  BY DEF Idle, Fields
<1>2. tx' = [tx EXCEPT ![t] = over] /\ DOMAIN tx = Transactions
  BY DEF End, Requests
<1> HIDE DEF over
<1>3. DOMAIN tx' = Transactions /\ tx'[t] = over /\ \A u \in Transactions \ {t} : tx'[u] = tx[u]
  BY <1>2
<1>4. locks' = [lock \in Locks |-> IF locks[lock] = t THEN NULL ELSE locks[lock]]
  BY DEF End, Release
<1>5. DOMAIN locks' = Locks /\ \A u \in Transactions \ {t} : locks[Advisory] = u => locks'[Advisory] = u
  BY <1>4, AdvisoryIsALock
<1> QED
  BY <1>1, <1>3, <1>5 DEF Saving

\* Evaluations that stay as they are.
LEMMA EvaluationsKept ==
    ASSUME Evaluations, RanksAreCurrent, UNCHANGED <<evals, stale>>,
           \A u \in Transactions : tx[u].state = "ended" => tx'[u].state = "ended"
    PROVE  Evaluations' /\ RanksAreCurrent'
<1>1. Evaluations'
  BY DEF Evaluations, Apart, Evaluated
<1>2. RanksAreCurrent'
  BY DEF RanksAreCurrent, Evaluated
<1> QED
  BY <1>1, <1>2

-----------------------------------------------------------------------------
(* Every step keeps the invariant.                                         *)

LEMMA BeginKeeps ==
    ASSUME IndInv, NEW t \in Transactions, NEW kind \in Kinds, NEW c \in Enrolments,
           Begin(t, kind, c)
    PROVE  IndInv'
<1>1. PICK script \in Scripts(kind, c), score \in IF kind = "save" THEN Scores ELSE {0} :
        tx' = [tx EXCEPT ![t] = [Idle EXCEPT !.state = "active", !.kind = kind, !.of = c,
                                             !.score = score, !.todo = script]]
  BY DEF Begin
<1>2. kind = "save" => score \in Nat /\ script = SaveLocks(c)
  BY Bounds DEF Scripts
<1> DEFINE new == [Idle EXCEPT !.state = "active", !.kind = kind, !.of = c,
                               !.score = score, !.todo = script]
<1>3. /\ DOMAIN new = Fields /\ new.kind = kind /\ new.of = c
      /\ new.score = score /\ new.todo = script
  BY DEF Idle, Fields
<1>4. tx' = [tx EXCEPT ![t] = new]
  BY <1>1
<1> HIDE DEF new
<1>5. UNCHANGED <<evals, locks, stale>> /\ tx[t].state = "idle" /\ DOMAIN tx = Transactions
  BY DEF Begin, IndInv, Requests
<1>6. DOMAIN tx' = Transactions /\ tx'[t] = new /\ \A u \in Transactions \ {t} : tx'[u] = tx[u]
  BY <1>4, <1>5
<1>7. Saving(t)' => tx'[t].score \in Nat /\ Serialised(t)'
  BY <1>2, <1>3, <1>6 DEF Saving, Serialised, Unranked
<1>8. Requests'
  BY <1>3, <1>5, <1>6, <1>7, OthersKept DEF IndInv, Requests
<1>9. Evaluations' /\ RanksAreCurrent'
  BY <1>5, <1>6, EvaluationsKept DEF IndInv
<1> QED
  BY <1>8, <1>9 DEF IndInv

LEMMA AcquireKeeps ==
    ASSUME IndInv, NEW t \in Transactions, Acquire(t)
    PROVE  IndInv'
<1> DEFINE lock == Head(tx[t].todo)
           more == /\ lock = Evaluation(tx[t].of)
                   /\ locks[lock] = NULL
                   /\ evals[tx[t].of] # NULL
           new == [tx[t] EXCEPT !.todo = Tail(@), !.again = @ \/ more]
<1>1. /\ tx[t].state = "active" /\ tx[t].todo # <<>> /\ lock # Ranking
      /\ locks[lock] \in {NULL, t} /\ locks' = [locks EXCEPT ![lock] = t]
      /\ UNCHANGED <<evals, stale>>
  BY DEF Acquire, Active
<1>2. tx' = [tx EXCEPT ![t] = new]
  BY DEF Acquire
<1>3. DOMAIN tx[t] = Fields /\ DOMAIN tx = Transactions /\ DOMAIN locks = Locks
  BY DEF IndInv, Requests
<1>4. /\ DOMAIN new = Fields /\ new.state = "active" /\ new.kind = tx[t].kind /\ new.of = tx[t].of
      /\ new.score = tx[t].score /\ new.rows = tx[t].rows /\ new.todo = Tail(tx[t].todo)
  BY <1>1, <1>3 DEF Fields
<1> HIDE DEF new, more
<1>5. DOMAIN tx' = Transactions /\ tx'[t] = new /\ \A u \in Transactions \ {t} : tx'[u] = tx[u]
  BY <1>2, <1>3
<1>6. /\ DOMAIN locks' = Locks
      /\ lock = Advisory => locks'[Advisory] = t
      /\ lock # Advisory => locks'[Advisory] = locks[Advisory]
  BY <1>1, <1>3, AdvisoryIsALock
<1>7. \A u \in Transactions \ {t} : locks[Advisory] = u => locks'[Advisory] = u
  BY <1>1, <1>6, NotNull
<1>8. locks[Advisory] = t => locks'[Advisory] = t
  BY <1>6
<1>9. ASSUME Saving(t)' PROVE tx'[t].score \in Nat /\ Serialised(t)'
  <2>1. Saving(t)
    BY <1>1, <1>4, <1>5, <1>9 DEF Saving
  <2>2. tx[t].score \in Nat /\ Serialised(t)
    BY <2>1 DEF IndInv, Requests
  <2>3. CASE tx[t].todo \in Unranked(tx[t].of)
    <3>1. CASE tx[t].todo = <<Advisory, Ranking>>
      <4>1. lock = Advisory /\ new.todo = <<Ranking>>
        BY <1>4, <3>1
      <4> QED
        BY <1>4, <1>5, <1>6, <2>2, <4>1 DEF Serialised
    <3>2. CASE tx[t].todo # <<Advisory, Ranking>>
      <4>1. Tail(tx[t].todo) \in Unranked(tx[t].of)
        BY <2>3, <3>2, UnrankedTail
      <4> QED
        BY <1>4, <1>5, <2>2, <4>1 DEF Serialised
    <3> QED
      BY <3>1, <3>2
  <2>4. CASE locks[Advisory] = t /\ Evaluated(evals) \cup {tx[t].of} \subseteq tx[t].rows
    <3>1. Evaluated(evals)' = Evaluated(evals)
      BY <1>1 DEF Evaluated
    <3>2. locks'[Advisory] = t
      BY <1>8, <2>4
    <3> QED
      BY <1>4, <1>5, <2>2, <2>4, <3>1, <3>2 DEF Serialised
  <2>5. CASE tx[t].todo = <<Ranking>>
    BY <1>1, <2>5
  <2> QED
    BY <1>4, <1>5, <2>2, <2>3, <2>4, <2>5 DEF Serialised
<1>10. Requests'
  <2>1. Evaluated(evals') \subseteq Evaluated(evals)
    BY <1>1
  <2>2. tx'[t].of \in Enrolments
    BY <1>1, <1>4, <1>5 DEF IndInv, Requests
  <2> QED
    BY <1>3, <1>4, <1>5, <1>6, <1>7, <1>9, <2>1, <2>2, OthersKept DEF IndInv
<1>11. Evaluations' /\ RanksAreCurrent'
  BY <1>1, <1>5, EvaluationsKept DEF IndInv
<1> QED
  BY <1>10, <1>11 DEF IndInv

LEMMA SelectForUpdateKeeps ==
    ASSUME IndInv, NEW t \in Transactions, SelectForUpdate(t)
    PROVE  IndInv'
<1> DEFINE read == Evaluated(Seen(t))
           new(script) == [tx[t] EXCEPT !.todo = script, !.rows = read]
<1>1. /\ tx[t].state = "active" /\ Head(tx[t].todo) = Ranking
      /\ UNCHANGED <<evals, locks, stale>>
  BY DEF SelectForUpdate, Active
<1>2. PICK script \in RankingLocks(Seen(t)) : tx' = [tx EXCEPT ![t] = new(script)]
  BY DEF SelectForUpdate
<1>3. DOMAIN tx[t] = Fields /\ DOMAIN tx = Transactions /\ DOMAIN locks = Locks
  BY DEF IndInv, Requests
<1>4. Saving(t) => read = Evaluated(evals) \cup {tx[t].of}
  BY SeenRows DEF IndInv
<1> HIDE DEF read
<1>5. /\ DOMAIN new(script) = Fields /\ new(script).state = "active"
      /\ new(script).kind = tx[t].kind /\ new(script).of = tx[t].of
      /\ new(script).score = tx[t].score /\ new(script).rows = read
  BY <1>1, <1>3 DEF Fields
<1> HIDE DEF new
<1>6. DOMAIN tx' = Transactions /\ tx'[t] = new(script) /\ \A u \in Transactions \ {t} : tx'[u] = tx[u]
  BY <1>2, <1>3
<1>7. ASSUME Saving(t)' PROVE tx'[t].score \in Nat /\ Serialised(t)'
  <2>1. Saving(t)
    BY <1>1, <1>5, <1>6, <1>7 DEF Saving
  <2>2. tx[t].score \in Nat /\ Serialised(t)
    BY <2>1 DEF IndInv, Requests
  <2>3. tx[t].todo \notin Unranked(tx[t].of)
    BY <1>1, UnrankedHead
  <2>4. locks[Advisory] = t
    BY <2>2, <2>3 DEF Serialised
  <2>5. Evaluated(evals') \cup {tx'[t].of} \subseteq tx'[t].rows
    BY <1>1, <1>4, <1>5, <1>6, <2>1
  <2> QED
    BY <1>1, <1>5, <1>6, <2>2, <2>4, <2>5 DEF Serialised
<1>8. Requests'
  <2>1. tx'[t].of \in Enrolments
    BY <1>1, <1>5, <1>6 DEF IndInv, Requests
  <2> QED
    BY <1>1, <1>3, <1>5, <1>6, <1>7, <2>1, OthersKept DEF IndInv
<1>9. Evaluations' /\ RanksAreCurrent'
  BY <1>1, <1>6, EvaluationsKept DEF IndInv
<1> QED
  BY <1>8, <1>9 DEF IndInv

\* A save ranks all committed evaluations and its own: it read them, and
\* none was added since.
LEMMA Saved ==
    ASSUME IndInv, NEW t \in Transactions, CommitSave(t)
    PROVE  /\ Saving(t) /\ tx[t].todo = <<>> /\ End(t) /\ locks[Advisory] = t
           /\ evals' \in [Enrolments -> {NULL} \cup Scored]
           /\ Evaluated(evals') = Evaluated(evals) \cup {tx[t].of}
           /\ Apart(evals')
           /\ \A c \in Evaluated(evals') :
                /\ \/ evals'[c].at = t
                   \/ c \in Evaluated(evals) /\ evals'[c].at = evals[c].at
                /\ evals'[c].total = Cardinality(Evaluated(evals'))
                /\ \A d \in Evaluated(evals') \ {c} :
                     evals'[c].rank < evals'[d].rank <=> Before(evals'[c], evals'[d])
                /\ evals'[c].rank \in 1..evals'[c].total
<1> DEFINE rows == Seen(t)
<1>1. Saving(t) /\ tx[t].todo = <<>> /\ End(t)
  BY DEF CommitSave, Finished, Active, Saving
<1>2. locks[Advisory] = t /\ Evaluated(evals) \cup {tx[t].of} \subseteq tx[t].rows
  <2>1. Serialised(t)
    BY <1>1 DEF IndInv, Requests
  <2>2. <<>> \notin Unranked(tx[t].of) /\ <<>> # <<Ranking>>
    BY UnrankedHead
  <2> QED
    BY <1>1, <2>1, <2>2 DEF Serialised
<1>3. /\ rows \in [Enrolments -> {NULL} \cup Scored]
      /\ Evaluated(rows) = Evaluated(evals) \cup {tx[t].of}
      /\ Apart(rows)
      /\ \A c \in Evaluated(rows) :
           \/ rows[c].at = t
           \/ c \in Evaluated(evals) /\ rows[c].at = evals[c].at
  BY <1>1, SeenRows DEF IndInv
<1>4. evals' = RefreshRanking(rows, Evaluated(rows))
  <2>1. tx[t].rows \cap Evaluated(rows) = Evaluated(rows)
    BY <1>2, <1>3
  <2> QED
    BY <2>1 DEF CommitSave
<1> HIDE DEF rows
<1>5. /\ evals' \in [Enrolments -> {NULL} \cup Scored]
      /\ Evaluated(evals') = Evaluated(rows)
      /\ \A c \in Evaluated(evals') :
           /\ evals'[c].at = rows[c].at
           /\ evals'[c].total = Cardinality(Evaluated(evals'))
           /\ \A d \in Evaluated(evals') \ {c} :
                evals'[c].rank < evals'[d].rank <=> Before(evals'[c], evals'[d])
           /\ evals'[c].rank \in 1..evals'[c].total
  BY <1>3, <1>4, RankingRanks
<1>6. Apart(evals')
  BY <1>3, <1>5 DEF Apart
<1> QED
  BY <1>1, <1>2, <1>3, <1>5, <1>6

LEMMA CommitSaveKeeps ==
    ASSUME IndInv, NEW t \in Transactions, CommitSave(t)
    PROVE  IndInv'
<1>1. /\ Saving(t) /\ End(t) /\ locks[Advisory] = t
      /\ evals' \in [Enrolments -> {NULL} \cup Scored]
      /\ \A c \in Evaluated(evals') :
           \/ evals'[c].at = t
           \/ c \in Evaluated(evals) /\ evals'[c].at = evals[c].at
  BY Saved
<1>2. Apart(evals')
  BY Saved DEF IndInv, Evaluations
<1>3. RanksAreCurrent'
  <2>1. \A c \in Evaluated(evals') :
           /\ evals'[c].total = Cardinality(Evaluated(evals'))
           /\ \A d \in Evaluated(evals') \ {c} :
                evals'[c].rank < evals'[d].rank <=> Before(evals'[c], evals'[d])
           /\ evals'[c].rank \in 1..evals'[c].total
    BY Saved
  <2> QED
    BY <2>1 DEF RanksAreCurrent, Evaluated
<1>4. /\ DOMAIN tx' = Transactions /\ DOMAIN locks' = Locks /\ DOMAIN tx'[t] = Fields
      /\ tx'[t].state = "ended" /\ ~Saving(t)'
      /\ \A u \in Transactions \ {t} :
           tx'[u] = tx[u] /\ (locks[Advisory] = u => locks'[Advisory] = u)
  BY <1>1, Ended DEF IndInv
<1>5. Evaluations'
  <2>1. Apart(evals)'
    BY <1>2 DEF Apart, Evaluated
  <2>2. ASSUME NEW c \in Evaluated(evals')
        PROVE  evals'[c].at \in Transactions /\ tx'[evals'[c].at].state = "ended"
    BY <1>1, <1>4, <2>2 DEF IndInv, Evaluations
  <2> QED
    BY <1>1, <2>1, <2>2 DEF Evaluations, Evaluated
<1>6. Requests'
  <2>1. ASSUME NEW u \in Transactions \ {t}, Saving(u)' PROVE tx'[u].score \in Nat /\ Serialised(u)'
    <3>1. tx'[u] = tx[u] /\ Saving(u)
      BY <1>4, <2>1 DEF Saving
    <3>2. tx[u].score \in Nat /\ tx[u].todo \in Unranked(tx[u].of)
      BY <1>1, <3>1 DEF IndInv, Requests, Serialised
    <3> QED
      BY <3>1, <3>2 DEF Serialised
  <2>2. \A u \in Transactions \ {t} :
          DOMAIN tx'[u] = Fields /\ (tx'[u].state = "active" => tx'[u].of \in Enrolments)
    BY <1>4 DEF IndInv, Requests
  <2> QED
    BY <1>4, <2>1, <2>2 DEF Requests
<1> QED
  BY <1>3, <1>5, <1>6 DEF IndInv

LEMMA CommitDeletionKeeps ==
    ASSUME IndInv, NEW t \in Transactions, CommitDeletion(t)
    PROVE  IndInv'
<1> DEFINE o == tx[t].of
<1>1. /\ tx[t].state = "active" /\ End(t)
      /\ evals' = [evals EXCEPT ![o] = NULL]
      /\ stale' = (stale \/ evals[o] # NULL)
  BY DEF CommitDeletion, Finished, Active
<1>2. o \in Enrolments /\ evals \in [Enrolments -> {NULL} \cup Scored]
  BY <1>1 DEF IndInv, Requests, Evaluations
<1>3. /\ DOMAIN tx' = Transactions /\ DOMAIN locks' = Locks /\ DOMAIN tx'[t] = Fields
      /\ tx'[t].state = "ended" /\ ~Saving(t)'
      /\ \A u \in Transactions \ {t} :
           tx'[u] = tx[u] /\ (locks[Advisory] = u => locks'[Advisory] = u)
  BY <1>1, Ended DEF IndInv
<1> HIDE DEF o
<1>4. /\ evals' \in [Enrolments -> {NULL} \cup Scored]
      /\ \A c \in Evaluated(evals') : c \in Evaluated(evals) /\ evals'[c] = evals[c]
  BY <1>1, <1>2 DEF Evaluated
<1>5. Requests'
  BY <1>3, <1>4, OthersKept DEF IndInv
<1>6. Evaluations'
  <2>1. Apart(evals)'
    BY <1>4 DEF IndInv, Evaluations, Apart, Evaluated
  <2>2. ASSUME NEW c \in Evaluated(evals')
        PROVE  evals'[c].at \in Transactions /\ tx'[evals'[c].at].state = "ended"
    BY <1>3, <1>4 DEF IndInv, Evaluations
  <2> QED
    BY <1>4, <2>1, <2>2 DEF Evaluations, Evaluated
<1>7. RanksAreCurrent'
  <2>1. ASSUME ~stale' PROVE ~stale /\ evals' = evals
    BY <1>1, <1>2, <2>1
  <2> QED
    BY <2>1 DEF IndInv, RanksAreCurrent, Evaluated
<1> QED
  BY <1>5, <1>6, <1>7 DEF IndInv

\* Everything else ends a transaction and writes no evaluation.
LEMMA EndKeeps ==
    ASSUME IndInv, NEW t \in Transactions, End(t), UNCHANGED <<evals, gone, stale>>
    PROVE  IndInv'
<1>1. /\ DOMAIN tx' = Transactions /\ DOMAIN locks' = Locks /\ DOMAIN tx'[t] = Fields
      /\ tx'[t].state = "ended" /\ ~Saving(t)'
      /\ \A u \in Transactions \ {t} :
           tx'[u] = tx[u] /\ (locks[Advisory] = u => locks'[Advisory] = u)
  BY Ended DEF IndInv
<1>2. Requests'
  BY <1>1, OthersKept DEF IndInv
<1>3. Evaluations' /\ RanksAreCurrent'
  BY <1>1, EvaluationsKept DEF IndInv
<1> QED
  BY <1>2, <1>3 DEF IndInv

LEMMA InitIndInv == Init => IndInv
<1> SUFFICES ASSUME Init PROVE IndInv
  OBVIOUS
<1>1. Evaluated(evals) = {}
  BY DEF Init, Evaluated
<1>2. evals \in [Enrolments -> {NULL} \cup Scored]
  BY DEF Init
<1>3. \A t \in Transactions : tx[t] = Idle
  BY DEF Init
<1>4. DOMAIN Idle = Fields /\ Idle.state = "idle"
  BY DEF Idle, Fields
<1>5. Requests
  BY <1>3, <1>4 DEF Init, Requests, Saving
<1> QED
  BY <1>1, <1>2, <1>5 DEF IndInv, Evaluations, Apart, RanksAreCurrent

LEMMA NextIndInv == IndInv /\ [Next]_vars => IndInv'
<1> SUFFICES ASSUME IndInv, [Next]_vars PROVE IndInv'
  OBVIOUS
<1>1. CASE UNCHANGED vars
  BY <1>1 DEF vars, IndInv, Requests, Saving, Serialised, Evaluations, Apart, RanksAreCurrent, Evaluated
<1>2. ASSUME NEW t \in Transactions, NEW kind \in Kinds, NEW c \in Enrolments, Begin(t, kind, c)
      PROVE  IndInv'
  BY <1>2, BeginKeeps
<1>3. ASSUME NEW t \in Transactions, Proceed(t) PROVE IndInv'
  <2>1. CASE Acquire(t)
    BY <2>1, AcquireKeeps
  <2>2. CASE SelectForUpdate(t)
    BY <2>2, SelectForUpdateKeeps
  <2>3. CASE CommitSave(t)
    BY <2>3, CommitSaveKeeps
  <2>4. CASE CommitDeletion(t)
    BY <2>4, CommitDeletionKeeps
  <2>5. CASE CommitOther(t) \/ Fail(t) \/ DeadlockDetected(t)
    BY <2>5, EndKeeps DEF CommitOther, Fail, DeadlockDetected
  <2> QED
    BY <1>3, <2>1, <2>2, <2>3, <2>4, <2>5 DEF Proceed
<1>4. ASSUME NEW t \in Transactions, Fail(t) PROVE IndInv'
  BY <1>4, EndKeeps DEF Fail
<1> QED
  BY <1>1, <1>2, <1>3, <1>4 DEF Next

\* However saves, deletions and failures interleave, the committed ranks are
\* those of the committed evaluations (save_final_evaluation), until an
\* evaluation is deleted.
THEOREM Ranks == Spec => []RanksAreCurrent
<1>1. IndInv => RanksAreCurrent
  BY DEF IndInv
<1> QED
  BY <1>1, InitIndInv, NextIndInv, PTL DEF Spec

-----------------------------------------------------------------------------
(* Deadlocks.  Who may hold which lock, by what it still has to do; and    *)
(* what the ranking of one save has to do with another that is new.        *)

AfterUpsert(c)  == <<Session(c), Candidate(c), Advisory, Ranking>>
AfterSession(c) == <<Candidate(c), Advisory, Ranking>>

\* The locks of the rows that t's ranking read.
RowsRead(t) == {Evaluation(c) : c \in tx[t].rows} \cup {Candidate(c) : c \in tx[t].rows}

Ranked(t) == Saving(t) /\ tx[t].rows # {}

\* Where a transaction stands.
Shaped(t) ==
    Active(t) =>
      /\ tx[t].of \in Enrolments
      /\ tx[t].kind \in {"entry", "lifecycle", "write", "save", "deletion"}
      /\ tx[t].kind = "lifecycle" =>
           tx[t].todo \in {LifecycleLocks(tx[t].of), <<Candidate(tx[t].of)>>, <<>>}
      /\ tx[t].kind = "write" =>
           tx[t].todo \in {<<Session(tx[t].of)>>, <<Candidate(tx[t].of)>>, <<>>}
      /\ tx[t].kind = "save" =>
           \/ tx[t].rows = {} /\ tx[t].todo \in Unranked(tx[t].of) \cup {<<Ranking>>}
           \/ /\ tx[t].of \in tx[t].rows /\ tx[t].todo \in Seq(RowsRead(t))
              /\ locks[Advisory] = t

\* What it may hold there.
MayHold(t, lock) ==
    /\ Active(t)
    /\ tx[t].kind = "lifecycle" =>
         \/ lock = Session(tx[t].of) /\ tx[t].todo # LifecycleLocks(tx[t].of)
         \/ tx[t].todo = <<>>
    /\ tx[t].kind = "write" => tx[t].todo = <<>>
    /\ tx[t].kind = "save" =>
         \/ lock = Evaluation(tx[t].of)
         \/ /\ lock = Session(tx[t].of)
            /\ tx[t].todo \notin {SaveLocks(tx[t].of), AfterUpsert(tx[t].of)}
         \/ /\ lock = Candidate(tx[t].of)
            /\ tx[t].todo \notin Unranked(tx[t].of) \ {<<Advisory, Ranking>>}
         \/ lock = Advisory /\ tx[t].todo \notin Unranked(tx[t].of)
         \/ lock \in RowsRead(t)

Upserted(t) ==
    Saving(t) => tx[t].todo = SaveLocks(tx[t].of) \/ locks[Evaluation(tx[t].of)] = t

Holds(t) == \A lock \in Locks : locks[lock] = t => MayHold(t, lock)

Placed(t) == Shaped(t) /\ Upserted(t) /\ Holds(t)

Places ==
    /\ DOMAIN tx = Transactions /\ DOMAIN locks = Locks
    /\ \A t \in Transactions : DOMAIN tx[t] = Fields /\ Placed(t)
    /\ \A lock \in Locks : locks[lock] \in Transactions \cup {NULL}

\* A save that inserts its evaluation, instead of repeating it.
First(t) == Saving(t) /\ locks[Evaluation(tx[t].of)] = t /\ ~tx[t].again

\* What a ranking read is there until it is deleted.
Lasting(t) ==
    Saving(t) => /\ tx[t].rows \subseteq Enrolments
                 /\ tx[t].rows \ {tx[t].of} \subseteq Evaluated(evals) \cup gone

\* A first evaluation is committed nowhere and no other ranking read it.
Unread(t) ==
    First(t) =>
      /\ tx[t].of \notin Evaluated(evals)
      /\ \A u \in Transactions \ {t} : Saving(u) => tx[t].of \notin tx[u].rows

Readings == \A t \in Transactions : Lasting(t) /\ Unread(t)

LockInv == IndInv /\ Places /\ Readings

LEMMA LockNames ==
    ASSUME NEW c \in Enrolments
    PROVE  /\ Evaluation(c) \in Locks /\ Session(c) \in Locks /\ Candidate(c) \in Locks
           /\ Advisory \in Locks /\ Ranking \notin Locks
BY DEF Locks, Evaluation, Session, Candidate, Advisory, Ranking

LEMMA LocksDiffer ==
    ASSUME NEW c, NEW d
    PROVE  /\ Evaluation(c) # Session(d) /\ Evaluation(c) # Candidate(d)
           /\ Session(c) # Candidate(d) /\ Advisory # Ranking
           /\ Advisory \notin {Evaluation(c), Session(c), Candidate(c)}
           /\ Ranking \notin {Evaluation(c), Session(c), Candidate(c)}
           /\ Evaluation(c) = Evaluation(d) => c = d
           /\ Session(c) = Session(d) => c = d
           /\ Candidate(c) = Candidate(d) => c = d
BY DEF Evaluation, Session, Candidate, Advisory, Ranking

LEMMA SaveStages ==
    ASSUME NEW c
    PROVE  /\ Unranked(c) = {SaveLocks(c), AfterUpsert(c), AfterSession(c), <<Advisory, Ranking>>}
           /\ Head(SaveLocks(c)) = Evaluation(c) /\ Tail(SaveLocks(c)) = AfterUpsert(c)
           /\ Head(AfterUpsert(c)) = Session(c) /\ Tail(AfterUpsert(c)) = AfterSession(c)
           /\ Head(AfterSession(c)) = Candidate(c) /\ Tail(AfterSession(c)) = <<Advisory, Ranking>>
           /\ Len(SaveLocks(c)) = 5 /\ Len(AfterUpsert(c)) = 4 /\ Len(AfterSession(c)) = 3
<1>1. Unranked(c) = {SaveLocks(c), AfterUpsert(c), AfterSession(c), <<Advisory, Ranking>>}
  BY DEF Unranked, AfterUpsert, AfterSession
<1>2. Head(SaveLocks(c)) = Evaluation(c) /\ Tail(SaveLocks(c)) = AfterUpsert(c) /\ Len(SaveLocks(c)) = 5
  BY DEF SaveLocks, AfterUpsert
<1>3. /\ Head(AfterUpsert(c)) = Session(c) /\ Tail(AfterUpsert(c)) = AfterSession(c)
      /\ Len(AfterUpsert(c)) = 4
  BY DEF AfterUpsert, AfterSession
<1>4. /\ Head(AfterSession(c)) = Candidate(c) /\ Tail(AfterSession(c)) = <<Advisory, Ranking>>
      /\ Len(AfterSession(c)) = 3
  BY DEF AfterSession
<1> QED
  BY <1>1, <1>2, <1>3, <1>4

LEMMA StagesDiffer ==
    ASSUME NEW c
    PROVE  /\ SaveLocks(c) \notin {AfterUpsert(c), AfterSession(c), <<Advisory, Ranking>>, <<Ranking>>}
           /\ AfterUpsert(c) \notin {AfterSession(c), <<Advisory, Ranking>>, <<Ranking>>}
           /\ AfterSession(c) \notin {<<Advisory, Ranking>>, <<Ranking>>}
           /\ <<Advisory, Ranking>> # <<Ranking>>
           /\ Head(<<Advisory, Ranking>>) = Advisory /\ Tail(<<Advisory, Ranking>>) = <<Ranking>>
           /\ Head(<<Ranking>>) = Ranking
<1>1. Len(<<Advisory, Ranking>>) = 2 /\ Len(<<Ranking>>) = 1
  OBVIOUS
<1>2. Len(SaveLocks(c)) = 5 /\ Len(AfterUpsert(c)) = 4 /\ Len(AfterSession(c)) = 3
  BY SaveStages
<1>3. /\ Head(<<Advisory, Ranking>>) = Advisory /\ Tail(<<Advisory, Ranking>>) = <<Ranking>>
      /\ Head(<<Ranking>>) = Ranking
  OBVIOUS
<1> QED
  BY <1>1, <1>2, <1>3

\* The ranking's script names no other locks, so the save is past its own.
LEMMA RankingScript ==
    ASSUME NEW c, NEW rows, NEW script \in Seq({Evaluation(d) : d \in rows} \cup {Candidate(d) : d \in rows})
    PROVE  script \notin Unranked(c) \cup {<<Ranking>>}
<1> DEFINE S == {Evaluation(d) : d \in rows} \cup {Candidate(d) : d \in rows}
<1>1. Ranking \notin S
  BY LocksDiffer
<1>2. \A i \in 1..Len(script) : script[i] \in S
  OBVIOUS
<1> HIDE DEF S
<1>3. \A i \in 1..Len(script) : script[i] # Ranking
  BY <1>1, <1>2
<1>4. CASE script = SaveLocks(c)
  BY <1>3, <1>4 DEF SaveLocks
<1>5. CASE script = AfterUpsert(c)
  BY <1>3, <1>5 DEF AfterUpsert
<1>6. CASE script = AfterSession(c)
  BY <1>3, <1>6 DEF AfterSession
<1>7. CASE script \in {<<Advisory, Ranking>>, <<Ranking>>}
  BY <1>3, <1>7
<1> QED
  BY <1>4, <1>5, <1>6, <1>7, SaveStages

\* Only t moves, and no lock of another transaction does.
Moves(t) ==
    /\ DOMAIN tx' = Transactions /\ DOMAIN locks' = Locks /\ DOMAIN tx'[t] = Fields
    /\ \A lock \in Locks : locks'[lock] \in Transactions \cup {NULL}
    /\ \A u \in Transactions \ {t} :
         tx'[u] = tx[u] /\ \A lock \in Locks : locks'[lock] = u <=> locks[lock] = u

LEMMA OthersPlaced ==
    ASSUME Places, NEW t \in Transactions, Moves(t), Placed(t)'
    PROVE  Places'
<1>1. ASSUME NEW u \in Transactions \ {t} PROVE Placed(u)' /\ DOMAIN tx'[u] = Fields
  <2>1. Placed(u) /\ DOMAIN tx[u] = Fields
    BY DEF Places
  <2>2. tx'[u] = tx[u] /\ \A lock \in Locks : locks'[lock] = u <=> locks[lock] = u
    BY DEF Moves
  <2>3. Active(u)' = Active(u) /\ Saving(u)' = Saving(u) /\ RowsRead(u)' = RowsRead(u)
    BY <2>2 DEF Active, Saving, RowsRead
  <2>4. Active(u) => /\ Evaluation(tx[u].of) \in Locks /\ Advisory \in Locks
    BY <2>1, LockNames DEF Placed, Shaped
  <2>5. Shaped(u)'
    BY <2>1, <2>2, <2>3, <2>4 DEF Placed, Shaped
  <2>6. Upserted(u)'
    BY <2>1, <2>2, <2>3, <2>4 DEF Placed, Upserted, Saving, Active
  <2>7. \A lock : MayHold(u, lock)' = MayHold(u, lock)
    BY <2>2, <2>3 DEF MayHold
  <2>8. Holds(u)'
    BY <2>1, <2>2, <2>7 DEF Placed, Holds
  <2> QED
    BY <2>1, <2>2, <2>5, <2>6, <2>8 DEF Placed
<1> QED
  BY <1>1 DEF Moves, Places

LEMMA EndMoves ==
    ASSUME Places, NEW t \in Transactions, End(t)
    PROVE  /\ Moves(t) /\ ~Active(t)' /\ ~Saving(t)'
           /\ \A lock \in Locks : locks'[lock] # t
<1> DEFINE over == [Idle EXCEPT !.state = "ended"]
<1>1. over.state = "ended" /\ DOMAIN over = Fields
  BY DEF Idle, Fields
<1>2. tx' = [tx EXCEPT ![t] = over] /\ DOMAIN tx = Transactions
  BY DEF End, Places
<1> HIDE DEF over
<1>3. DOMAIN tx' = Transactions /\ tx'[t] = over /\ \A u \in Transactions \ {t} : tx'[u] = tx[u]
  BY <1>2
<1>4. locks' = [lock \in Locks |-> IF locks[lock] = t THEN NULL ELSE locks[lock]]
  BY DEF End, Release
<1>5. /\ DOMAIN locks' = Locks
      /\ \A lock \in Locks : locks'[lock] \in Transactions \cup {NULL} /\ locks'[lock] # t
      /\ \A u \in Transactions \ {t} : \A lock \in Locks : locks'[lock] = u <=> locks[lock] = u
  BY <1>4, NotNull DEF Places
<1> QED
  BY <1>1, <1>3, <1>5 DEF Moves, Active, Saving

LEMMA EndPlaces ==
    ASSUME Places, NEW t \in Transactions, End(t)
    PROVE  Places'
<1>1. /\ Moves(t) /\ ~Active(t)' /\ ~Saving(t)'
      /\ \A lock \in Locks : locks'[lock] # t
  BY EndMoves
<1>2. Placed(t)'
  BY <1>1 DEF Placed, Shaped, Upserted, Holds
<1> QED
  BY <1>1, <1>2, OthersPlaced

LEMMA BeginMoves ==
    ASSUME Places, NEW t \in Transactions, NEW kind \in Kinds, NEW c \in Enrolments,
           Begin(t, kind, c)
    PROVE  /\ Moves(t) /\ ~Active(t) /\ UNCHANGED <<evals, gone, locks>>
           /\ tx'[t].state = "active" /\ tx'[t].kind = kind /\ tx'[t].of = c
           /\ tx'[t].rows = {} /\ ~tx'[t].again /\ tx'[t].todo \in Scripts(kind, c)
           /\ \A lock \in Locks : locks'[lock] # t
<1>1. PICK script \in Scripts(kind, c), score \in IF kind = "save" THEN Scores ELSE {0} :
        tx' = [tx EXCEPT ![t] = [Idle EXCEPT !.state = "active", !.kind = kind, !.of = c,
                                             !.score = score, !.todo = script]]
  BY DEF Begin
<1> DEFINE new == [Idle EXCEPT !.state = "active", !.kind = kind, !.of = c,
                               !.score = score, !.todo = script]
<1>2. /\ DOMAIN new = Fields /\ new.kind = kind /\ new.of = c /\ new.state = "active"
      /\ new.rows = {} /\ ~new.again /\ new.todo = script
  BY DEF Idle, Fields
<1>3. tx' = [tx EXCEPT ![t] = new]
  BY <1>1
<1> HIDE DEF new
<1>4. UNCHANGED <<evals, gone, locks>> /\ ~Active(t) /\ DOMAIN tx = Transactions
  BY DEF Begin, Places, Active
<1>5. DOMAIN tx' = Transactions /\ tx'[t] = new /\ \A u \in Transactions \ {t} : tx'[u] = tx[u]
  BY <1>3, <1>4
<1>6. \A lock \in Locks : locks[lock] # t
  BY <1>4 DEF Places, Placed, Holds, MayHold
<1>7. Moves(t)
  BY <1>2, <1>4, <1>5 DEF Moves, Places
<1> QED
  BY <1>2, <1>4, <1>5, <1>6, <1>7

LEMMA BeginPlaces ==
    ASSUME Places, NEW t \in Transactions, NEW kind \in Kinds, NEW c \in Enrolments,
           Begin(t, kind, c)
    PROVE  Places'
<1>1. /\ Moves(t)
      /\ tx'[t].state = "active" /\ tx'[t].kind = kind /\ tx'[t].of = c
      /\ tx'[t].rows = {} /\ tx'[t].todo \in Scripts(kind, c)
      /\ \A lock \in Locks : locks'[lock] # t
  BY BeginMoves
<1>2. kind \in {"entry", "lifecycle", "write", "save", "deletion"}
  BY LocksAssumption
<1>3. /\ kind = "lifecycle" => tx'[t].todo = LifecycleLocks(c)
      /\ kind = "write" => tx'[t].todo \in {<<Session(c)>>, <<Candidate(c)>>}
      /\ kind = "save" => tx'[t].todo = SaveLocks(c)
  BY <1>1 DEF Scripts
<1>4. Shaped(t)'
  <2>1. kind = "save" => tx'[t].todo \in Unranked(c)
    BY <1>3 DEF Unranked
  <2> QED
    BY <1>1, <1>2, <1>3, <2>1 DEF Shaped
<1>5. Upserted(t)' /\ Holds(t)'
  BY <1>1, <1>3 DEF Upserted, Saving, Holds
<1> QED
  BY <1>1, <1>4, <1>5, OthersPlaced DEF Placed

\* Taking the lock at the head of the script.
LEMMA AcquireMoves ==
    ASSUME Places, NEW t \in Transactions, Acquire(t)
    PROVE  /\ Moves(t) /\ Active(t) /\ tx[t].todo # <<>> /\ Head(tx[t].todo) # Ranking
           /\ Head(tx[t].todo) \in Locks => locks'[Head(tx[t].todo)] = t
           /\ \A lock \in Locks \ {Head(tx[t].todo)} : locks'[lock] = locks[lock]
           /\ locks[Head(tx[t].todo)] \in {NULL, t} /\ tx[t].of \notin gone
           /\ tx'[t].state = "active" /\ tx'[t].kind = tx[t].kind /\ tx'[t].of = tx[t].of
           /\ tx'[t].rows = tx[t].rows /\ tx'[t].todo = Tail(tx[t].todo)
           /\ ~tx'[t].again =>
                /\ ~tx[t].again
                /\ Head(tx[t].todo) = Evaluation(tx[t].of) =>
                     locks[Evaluation(tx[t].of)] # NULL \/ evals[tx[t].of] = NULL
           /\ UNCHANGED <<evals, gone>>
<1> DEFINE lock == Head(tx[t].todo)
           more == /\ lock = Evaluation(tx[t].of)
                   /\ locks[lock] = NULL
                   /\ evals[tx[t].of] # NULL
           new == [tx[t] EXCEPT !.todo = Tail(@), !.again = @ \/ more]
<1>1. /\ Active(t) /\ tx[t].todo # <<>> /\ lock # Ranking /\ tx[t].of \notin gone
      /\ locks[lock] \in {NULL, t} /\ locks' = [locks EXCEPT ![lock] = t]
      /\ UNCHANGED <<evals, gone>>
  BY DEF Acquire
<1>2. tx' = [tx EXCEPT ![t] = new]
  BY DEF Acquire
<1>3. DOMAIN tx[t] = Fields /\ DOMAIN tx = Transactions /\ DOMAIN locks = Locks
  BY DEF Places
<1>4. /\ DOMAIN new = Fields /\ new.state = tx[t].state /\ new.kind = tx[t].kind /\ new.of = tx[t].of
      /\ new.rows = tx[t].rows /\ new.todo = Tail(tx[t].todo)
  BY <1>3 DEF Fields
<1>5. ~new.again => ~tx[t].again /\ ~more
  BY <1>3 DEF Fields
<1>6. ~more => (lock = Evaluation(tx[t].of) =>
                  locks[Evaluation(tx[t].of)] # NULL \/ evals[tx[t].of] = NULL)
  OBVIOUS
<1> HIDE DEF new, more, lock
<1>7. DOMAIN tx' = Transactions /\ tx'[t] = new /\ \A u \in Transactions \ {t} : tx'[u] = tx[u]
  BY <1>2, <1>3
<1>8. /\ DOMAIN locks' = Locks
      /\ lock \in Locks => locks'[lock] = t
      /\ \A other \in Locks \ {lock} : locks'[other] = locks[other]
  BY <1>1, <1>3
<1>9. \A other \in Locks : locks'[other] \in Transactions \cup {NULL}
  BY <1>8 DEF Places
<1>10. \A u \in Transactions \ {t} : \A other \in Locks : locks'[other] = u <=> locks[other] = u
  BY <1>1, <1>8, NotNull
<1>11. Moves(t)
  BY <1>4, <1>7, <1>8, <1>9, <1>10 DEF Moves
<1> QED
  BY <1>1, <1>4, <1>5, <1>6, <1>7, <1>8, <1>11 DEF Active, lock

LEMMA AcquirePlaces ==
    ASSUME Places, NEW t \in Transactions, Acquire(t)
    PROVE  Places'
<1> DEFINE o == tx[t].of  lock == Head(tx[t].todo)
<1>1. /\ Moves(t) /\ Active(t) /\ tx[t].todo # <<>> /\ lock # Ranking
      /\ lock \in Locks => locks'[lock] = t
      /\ \A other \in Locks \ {lock} : locks'[other] = locks[other]
      /\ tx'[t].state = "active" /\ tx'[t].kind = tx[t].kind /\ tx'[t].of = o
      /\ tx'[t].rows = tx[t].rows /\ tx'[t].todo = Tail(tx[t].todo)
  BY AcquireMoves
<1>2. Shaped(t) /\ Upserted(t) /\ Holds(t)
  BY DEF Places, Placed
<1>3. o \in Enrolments /\ Active(t)' /\ RowsRead(t)' = RowsRead(t)
  BY <1>1, <1>2 DEF Shaped, Active, RowsRead
<1>4. \A other \in Locks : locks'[other] = t => other = lock \/ MayHold(t, other)
  BY <1>1, <1>2 DEF Holds
<1>5. locks[Advisory] = t => locks'[Advisory] = t
  BY <1>1, AdvisoryIsALock
<1> HIDE DEF lock, o
<1>6. CASE tx[t].kind = "lifecycle"
  <2>1. CASE tx[t].todo = LifecycleLocks(o)
    <3>1. lock = Session(o) /\ Tail(tx[t].todo) = <<Candidate(o)>>
      BY <2>1 DEF LifecycleLocks, lock
    <3>2. Len(LifecycleLocks(o)) = 2 /\ Len(<<Candidate(o)>>) = 1
      BY DEF LifecycleLocks
    <3>3. <<Candidate(o)>> # LifecycleLocks(o)
      BY <3>2
    <3>4. Shaped(t)'
      BY <1>1, <1>2, <1>3, <1>6, <3>1 DEF Shaped, o
    <3>5. \A other : ~MayHold(t, other)
      BY <1>1, <1>6, <2>1 DEF MayHold, o
    <3>6. \A other \in Locks : locks'[other] = t => other = Session(o)
      BY <1>4, <3>1, <3>5
    <3>7. Holds(t)'
      BY <1>1, <1>3, <1>6, <3>1, <3>3, <3>6 DEF Holds, MayHold
    <3> QED
      BY <1>1, <1>6, <3>4, <3>7, OthersPlaced DEF Placed, Upserted, Saving
  <2>2. CASE tx[t].todo = <<Candidate(o)>>
    <3>1. Tail(tx[t].todo) = <<>>
      BY <2>2
    <3>2. Shaped(t)'
      BY <1>1, <1>2, <1>3, <1>6, <3>1 DEF Shaped, o
    <3>3. Holds(t)'
      BY <1>1, <1>3, <1>6, <3>1 DEF Holds, MayHold
    <3> QED
      BY <1>1, <1>6, <3>2, <3>3, OthersPlaced DEF Placed, Upserted, Saving
  <2> QED
    BY <1>1, <1>2, <1>6, <2>1, <2>2 DEF Shaped, o
<1>7. CASE tx[t].kind = "write"
  <2>1. Tail(tx[t].todo) = <<>>
    <3>1. tx[t].todo \in {<<Session(o)>>, <<Candidate(o)>>}
      BY <1>1, <1>2, <1>7 DEF Shaped, o
    <3>2. CASE tx[t].todo = <<Session(o)>>
      BY <3>2
    <3>3. CASE tx[t].todo = <<Candidate(o)>>
      BY <3>3
    <3> QED
      BY <3>1, <3>2, <3>3
  <2>2. Shaped(t)'
    BY <1>1, <1>2, <1>3, <1>7, <2>1 DEF Shaped, o
  <2>3. Holds(t)'
    BY <1>1, <1>3, <1>7, <2>1 DEF Holds, MayHold
  <2> QED
    BY <1>1, <1>7, <2>2, <2>3, OthersPlaced DEF Placed, Upserted, Saving
<1>8. CASE tx[t].kind = "save"
  <2>1. CASE tx[t].rows = {} /\ tx[t].todo = SaveLocks(o)
    <3>1. lock = Evaluation(o) /\ tx'[t].todo = AfterUpsert(o) /\ RowsRead(t) = {}
      BY <1>1, <2>1, SaveStages DEF lock, RowsRead
    <3>2. Shaped(t)'
      BY <1>1, <1>2, <1>3, <1>8, <2>1, <3>1, SaveStages DEF Shaped, o
    <3>3. locks'[Evaluation(o)] = t
      BY <1>1, <1>3, <3>1, LockNames
    <3>4. \A other : MayHold(t, other) => other = Evaluation(o)
      BY <1>8, <2>1, <3>1, SaveStages, StagesDiffer DEF MayHold, o
    <3>5. Holds(t)'
      BY <1>1, <1>3, <1>4, <1>8, <3>1, <3>4 DEF Holds, MayHold
    <3> QED
      BY <1>1, <3>2, <3>3, <3>5, OthersPlaced DEF Placed, Upserted
  <2>2. CASE tx[t].todo # SaveLocks(o)
    <3>1. locks[Evaluation(o)] = t
      BY <1>1, <1>2, <1>8, <2>2 DEF Upserted, Saving, Active, o
    <3>2. locks'[Evaluation(o)] = t
      BY <1>1, <1>3, <3>1, LockNames
    <3>3. Upserted(t)'
      BY <1>1, <3>2 DEF Upserted
    <3>4. CASE tx[t].rows = {} /\ tx[t].todo = AfterUpsert(o)
      <4>1. lock = Session(o) /\ tx'[t].todo = AfterSession(o) /\ RowsRead(t) = {}
        BY <1>1, <3>4, SaveStages DEF lock, RowsRead
      <4>2. Shaped(t)'
        BY <1>1, <1>2, <1>3, <1>8, <3>4, <4>1, SaveStages DEF Shaped, o
      <4>3. \A other : MayHold(t, other) => other = Evaluation(o)
        BY <1>8, <3>4, <4>1, SaveStages, StagesDiffer DEF MayHold, o
      <4>4. tx'[t].todo \notin {SaveLocks(o), AfterUpsert(o)}
        BY <4>1, StagesDiffer
      <4>5. Holds(t)'
        BY <1>1, <1>3, <1>4, <1>8, <4>1, <4>3, <4>4 DEF Holds, MayHold
      <4> QED
        BY <1>1, <3>3, <4>2, <4>5, OthersPlaced DEF Placed
    <3>5. CASE tx[t].rows = {} /\ tx[t].todo = AfterSession(o)
      <4>1. lock = Candidate(o) /\ tx'[t].todo = <<Advisory, Ranking>> /\ RowsRead(t) = {}
        BY <1>1, <3>5, SaveStages DEF lock, RowsRead
      <4>2. Shaped(t)'
        BY <1>1, <1>2, <1>3, <1>8, <3>5, <4>1, SaveStages DEF Shaped, o
      <4>3. \A other : MayHold(t, other) => other \in {Evaluation(o), Session(o)}
        BY <1>8, <3>5, <4>1, SaveStages, StagesDiffer DEF MayHold, o
      <4>4. tx'[t].todo \notin {SaveLocks(o), AfterUpsert(o), AfterSession(o)}
        BY <4>1, StagesDiffer
      <4>5. tx'[t].todo \notin Unranked(o) \ {<<Advisory, Ranking>>}
        BY <4>1
      <4>6. Holds(t)'
        BY <1>1, <1>3, <1>4, <1>8, <4>1, <4>3, <4>4, <4>5 DEF Holds, MayHold
      <4> QED
        BY <1>1, <3>3, <4>2, <4>6, OthersPlaced DEF Placed
    <3>6. CASE tx[t].rows = {} /\ tx[t].todo = <<Advisory, Ranking>>
      <4>1. lock = Advisory /\ tx'[t].todo = <<Ranking>> /\ RowsRead(t) = {}
        BY <1>1, <3>6, StagesDiffer DEF lock, RowsRead
      <4>2. Shaped(t)'
        BY <1>1, <1>2, <1>3, <1>8, <3>6, <4>1 DEF Shaped, o
      <4>3. \A other : MayHold(t, other) => other \in {Evaluation(o), Session(o), Candidate(o)}
        BY <1>8, <3>6, <4>1, SaveStages, StagesDiffer DEF MayHold, o
      <4>4. tx'[t].todo \notin Unranked(o)
        BY <4>1, SaveStages, StagesDiffer
      <4>5. tx'[t].todo \notin {SaveLocks(o), AfterUpsert(o)}
        BY <4>4, SaveStages
      <4>6. Holds(t)'
        BY <1>1, <1>3, <1>4, <1>8, <4>1, <4>3, <4>4, <4>5 DEF Holds, MayHold
      <4> QED
        BY <1>1, <3>3, <4>2, <4>6, OthersPlaced DEF Placed
    <3>7. CASE o \in tx[t].rows /\ tx[t].todo \in Seq(RowsRead(t)) /\ locks[Advisory] = t
      <4>1. Tail(tx[t].todo) \in Seq(RowsRead(t)) /\ lock \in RowsRead(t)
        BY <1>1, <3>7 DEF lock
      <4>2. Shaped(t)'
        BY <1>1, <1>2, <1>3, <1>5, <1>8, <3>7, <4>1 DEF Shaped, o
      <4>3. tx'[t].todo \notin Unranked(o)
        BY <1>1, <4>1, RankingScript DEF RowsRead
      <4>4. tx'[t].todo \notin {SaveLocks(o), AfterUpsert(o)}
        BY <4>3, SaveStages
      <4>5. \A other : MayHold(t, other) =>
               other \in {Evaluation(o), Session(o), Candidate(o), Advisory} \cup RowsRead(t)
        BY <1>8 DEF MayHold, o
      <4>6. Holds(t)'
        BY <1>1, <1>3, <1>4, <1>8, <4>1, <4>3, <4>4, <4>5 DEF Holds, MayHold
      <4> QED
        BY <1>1, <3>3, <4>2, <4>6, OthersPlaced DEF Placed
    <3> QED
      <4>1. tx[t].todo # <<Ranking>>
        BY <1>1 DEF lock
      <4> QED
        BY <1>1, <1>2, <1>8, <2>2, <3>4, <3>5, <3>6, <3>7, <4>1, SaveStages DEF Shaped, o
  <2>3. CASE tx[t].rows # {} /\ tx[t].todo = SaveLocks(o)
    <3>1. tx[t].todo \in Seq(RowsRead(t))
      BY <1>1, <1>2, <1>8, <2>3 DEF Shaped
    <3> QED
      BY <2>3, <3>1, RankingScript, SaveStages DEF RowsRead
  <2> QED
    BY <2>1, <2>2, <2>3
<1>9. CASE tx[t].kind \in {"entry", "deletion"}
  <2>1. Shaped(t)'
    BY <1>1, <1>2, <1>3, <1>9 DEF Shaped, o
  <2>2. Holds(t)'
    BY <1>1, <1>3, <1>9 DEF Holds, MayHold
  <2> QED
    BY <1>1, <1>9, <2>1, <2>2, OthersPlaced DEF Placed, Upserted, Saving
<1> QED
  BY <1>1, <1>2, <1>6, <1>7, <1>8, <1>9 DEF Shaped

\* The SELECT locks nothing but the rows it reads.
LEMMA RankingLocksRows ==
    ASSUME NEW rows, NEW script \in RankingLocks(rows)
    PROVE  script \in Seq({Evaluation(c) : c \in Evaluated(rows)}
                            \cup {Candidate(c) : c \in Evaluated(rows)})
<1> DEFINE n == Cardinality(Evaluated(rows))
           S == {Evaluation(c) : c \in Evaluated(rows)} \cup {Candidate(c) : c \in Evaluated(rows)}
<1>1. PICK best \in [1..n -> Evaluated(rows)] :
        script = [i \in 1..(2 * n) |-> IF i % 2 = 1 THEN Evaluation(best[(i + 1) \div 2])
                                       ELSE Candidate(best[i \div 2])]
  BY DEF RankingLocks
<1>2. n \in Nat
  BY Bounds, FS_Subset, FS_CardinalityType DEF Evaluated
<1>3. \A c \in Evaluated(rows) : Evaluation(c) \in S /\ Candidate(c) \in S
  OBVIOUS
<1> HIDE DEF n, S
<1>4. ASSUME NEW i \in 1..(2 * n)
      PROVE  (i % 2 = 1 => (i + 1) \div 2 \in 1..n) /\ (i % 2 # 1 => i \div 2 \in 1..n)
  BY <1>2
<1>5. ASSUME NEW i \in 1..(2 * n) PROVE script[i] \in S
  <2>1. CASE i % 2 = 1
    BY <1>1, <1>3, <1>4, <2>1
  <2>2. CASE i % 2 # 1
    BY <1>1, <1>3, <1>4, <2>2
  <2> QED
    BY <2>1, <2>2
<1>6. 2 * n \in Nat /\ DOMAIN script = 1..(2 * n)
  BY <1>1, <1>2
<1>7. script \in [1..(2 * n) -> S]
  <2>1. script = [i \in 1..(2 * n) |-> script[i]]
    BY <1>1
  <2> QED
    BY <1>5, <2>1
<1> QED
  BY <1>6, <1>7 DEF S

LEMMA SelectMoves ==
    ASSUME Places, NEW t \in Transactions, SelectForUpdate(t)
    PROVE  /\ Moves(t) /\ Active(t) /\ Head(tx[t].todo) = Ranking /\ tx[t].todo # <<>>
           /\ UNCHANGED <<evals, gone, locks>>
           /\ tx'[t].state = "active" /\ tx'[t].kind = tx[t].kind /\ tx'[t].of = tx[t].of
           /\ tx'[t].again = tx[t].again
           /\ tx'[t].rows = Evaluated(Seen(t)) /\ tx'[t].todo \in RankingLocks(Seen(t))
<1> DEFINE read == Evaluated(Seen(t))
           new(script) == [tx[t] EXCEPT !.todo = script, !.rows = read]
<1>1. /\ Active(t) /\ Head(tx[t].todo) = Ranking /\ tx[t].todo # <<>>
      /\ UNCHANGED <<evals, gone, locks>>
  BY DEF SelectForUpdate
<1>2. PICK script \in RankingLocks(Seen(t)) : tx' = [tx EXCEPT ![t] = new(script)]
  BY DEF SelectForUpdate
<1>3. DOMAIN tx[t] = Fields /\ DOMAIN tx = Transactions
  BY DEF Places
<1> HIDE DEF read
<1>4. /\ DOMAIN new(script) = Fields /\ new(script).state = tx[t].state
      /\ new(script).kind = tx[t].kind /\ new(script).of = tx[t].of
      /\ new(script).again = tx[t].again
      /\ new(script).rows = read /\ new(script).todo = script
  BY <1>3 DEF Fields
<1> HIDE DEF new
<1>5. /\ DOMAIN tx' = Transactions /\ tx'[t] = new(script)
      /\ \A u \in Transactions \ {t} : tx'[u] = tx[u]
  BY <1>2, <1>3
<1>6. Moves(t)
  BY <1>1, <1>4, <1>5 DEF Moves, Places
<1> QED
  BY <1>1, <1>2, <1>4, <1>5, <1>6 DEF Active, read

\* Only a save that holds the advisory lock, and has read nothing yet.
LEMMA SelectingSave ==
    ASSUME Places, Requests, NEW t \in Transactions, Active(t),
           tx[t].todo # <<>>, Head(tx[t].todo) = Ranking
    PROVE  /\ tx[t].kind \in {"entry", "deletion", "save"}
           /\ Saving(t) => /\ tx[t].todo = <<Ranking>> /\ tx[t].rows = {}
                           /\ locks[Advisory] = t /\ locks[Evaluation(tx[t].of)] = t
<1> DEFINE o == tx[t].of
<1>1. Shaped(t) /\ Upserted(t)
  BY DEF Places, Placed
<1>2. tx[t].kind # "lifecycle"
  <2>1. SUFFICES ASSUME tx[t].todo \in {LifecycleLocks(o), <<Candidate(o)>>} PROVE FALSE
    BY <1>1 DEF Shaped
  <2>2. CASE tx[t].todo = LifecycleLocks(o)
    BY <2>2, LocksDiffer DEF LifecycleLocks
  <2>3. CASE tx[t].todo = <<Candidate(o)>>
    BY <2>3, LocksDiffer
  <2> QED
    BY <2>1, <2>2, <2>3
<1>3. tx[t].kind # "write"
  <2>1. SUFFICES ASSUME tx[t].todo \in {<<Session(o)>>, <<Candidate(o)>>} PROVE FALSE
    BY <1>1 DEF Shaped
  <2>2. CASE tx[t].todo = <<Session(o)>>
    BY <2>2, LocksDiffer
  <2>3. CASE tx[t].todo = <<Candidate(o)>>
    BY <2>3, LocksDiffer
  <2> QED
    BY <2>1, <2>2, <2>3
<1>4. ASSUME Saving(t)
      PROVE  /\ tx[t].todo = <<Ranking>> /\ tx[t].rows = {}
             /\ locks[Advisory] = t /\ locks[Evaluation(o)] = t
  <2>1. tx[t].todo \notin Unranked(o)
    BY UnrankedHead
  <2>2. tx[t].todo \notin Seq(RowsRead(t))
    <3>1. Ranking \notin RowsRead(t)
      BY LocksDiffer DEF RowsRead
    <3>2. ASSUME tx[t].todo \in Seq(RowsRead(t)) PROVE Head(tx[t].todo) \in RowsRead(t)
      BY <3>2
    <3> QED
      BY <3>1, <3>2
  <2>3. tx[t].todo = <<Ranking>> /\ tx[t].rows = {}
    BY <1>1, <1>4, <2>1, <2>2 DEF Shaped, Saving
  <2>4. locks[Advisory] = t
    BY <1>4, <2>1 DEF Requests, Serialised
  <2>5. tx[t].todo # SaveLocks(o)
    BY <2>1 DEF Unranked
  <2> QED
    BY <1>1, <1>4, <2>3, <2>4, <2>5 DEF Upserted
<1> QED
  BY <1>1, <1>2, <1>3, <1>4 DEF Shaped

LEMMA SelectPlaces ==
    ASSUME IndInv, Places, NEW t \in Transactions, SelectForUpdate(t)
    PROVE  Places'
<1> DEFINE o == tx[t].of
<1>1. /\ Moves(t) /\ Active(t) /\ Head(tx[t].todo) = Ranking /\ tx[t].todo # <<>>
      /\ UNCHANGED <<evals, gone, locks>>
      /\ tx'[t].state = "active" /\ tx'[t].kind = tx[t].kind /\ tx'[t].of = o
      /\ tx'[t].rows = Evaluated(Seen(t)) /\ tx'[t].todo \in RankingLocks(Seen(t))
  BY SelectMoves
<1>2. Shaped(t) /\ Upserted(t) /\ Holds(t)
  BY DEF Places, Placed
<1>3. /\ tx[t].kind \in {"entry", "deletion", "save"}
      /\ Saving(t) => /\ tx[t].todo = <<Ranking>> /\ tx[t].rows = {}
                      /\ locks[Advisory] = t /\ locks[Evaluation(o)] = t
  BY <1>1, SelectingSave DEF IndInv
<1>4. CASE tx[t].kind = "save"
  <2>1. Saving(t) /\ Evaluated(Seen(t)) = Evaluated(evals) \cup {o}
    BY <1>1, <1>4, SeenRows DEF IndInv, Saving, Active
  <2>2. tx'[t].todo \in Seq(RowsRead(t)')
    BY <1>1, RankingLocksRows DEF RowsRead
  <2>3. tx'[t].todo \notin Unranked(o)
    BY <2>2, RankingScript DEF RowsRead
  <2>4. tx'[t].todo \notin {SaveLocks(o), AfterUpsert(o)}
    BY <2>3, SaveStages
  <2>5. Shaped(t)'
    BY <1>1, <1>2, <1>3, <1>4, <2>1, <2>2 DEF Shaped
  <2>6. Upserted(t)'
    BY <1>1, <1>3, <2>1 DEF Upserted
  <2>7. \A other : MayHold(t, other) =>
           other \in {Evaluation(o), Session(o), Candidate(o), Advisory}
    BY <1>3, <1>4, <2>1 DEF MayHold, RowsRead
  <2>8. Holds(t)'
    BY <1>1, <1>2, <1>4, <2>3, <2>4, <2>7 DEF Holds, MayHold, Active
  <2> QED
    BY <1>1, <2>5, <2>6, <2>8, OthersPlaced DEF Placed
<1>5. CASE tx[t].kind # "save"
  <2>1. Shaped(t)' /\ Upserted(t)' /\ Holds(t)'
    BY <1>1, <1>2, <1>3, <1>5 DEF Shaped, Upserted, Saving, Holds, MayHold, Active
  <2> QED
    BY <1>1, <2>1, OthersPlaced DEF Placed
<1> QED
  BY <1>4, <1>5

\* What a step of t must show of the rankings and the first evaluations.
LEMMA OthersRead ==
    ASSUME Places, Readings, NEW t \in Transactions, Moves(t), gone \subseteq gone',
           Evaluated(evals) \subseteq Evaluated(evals') \cup gone',
           \A u \in Transactions \ {t} : First(u) =>
             /\ tx[u].of \notin Evaluated(evals')
             /\ Saving(t)' => tx[u].of \notin tx'[t].rows,
           Lasting(t)', Unread(t)'
    PROVE  Readings'
<1>1. ASSUME NEW u \in Transactions \ {t} PROVE Lasting(u)' /\ Unread(u)'
  <2>1. tx'[u] = tx[u] /\ \A lock \in Locks : locks'[lock] = u <=> locks[lock] = u
    BY DEF Moves
  <2>2. Saving(u)' = Saving(u)
    BY <2>1 DEF Saving
  <2>3. Lasting(u) /\ Unread(u)
    BY DEF Readings
  <2>4. Evaluated(evals)' = Evaluated(evals')
    BY DEF Evaluated
  <2>5. Lasting(u)'
    BY <2>1, <2>2, <2>3, <2>4 DEF Lasting
  <2>6. Saving(u) => Evaluation(tx[u].of) \in Locks
    BY LockNames DEF Places, Placed, Shaped, Saving, Active
  <2>7. First(u)' => First(u)
    BY <2>1, <2>2, <2>6 DEF First
  <2>8. ASSUME First(u), NEW v \in Transactions \ {u}, Saving(v)'
        PROVE  tx[u].of \notin tx'[v].rows
    <3>1. CASE v = t
      BY <2>8, <3>1
    <3>2. CASE v # t
      <4>1. tx'[v] = tx[v] /\ Saving(v)
        BY <2>8, <3>2 DEF Moves, Saving
      <4> QED
        BY <2>3, <2>8, <4>1 DEF Unread
    <3> QED
      BY <3>1, <3>2
  <2>9. Unread(u)'
    BY <2>1, <2>4, <2>7, <2>8 DEF Unread
  <2> QED
    BY <2>5, <2>9
<1> QED
  BY <1>1 DEF Readings

LEMMA BeginReadings ==
    ASSUME Places, Readings, NEW t \in Transactions, NEW kind \in Kinds, NEW c \in Enrolments,
           Begin(t, kind, c)
    PROVE  Readings'
<1>1. /\ Moves(t) /\ UNCHANGED <<evals, gone, locks>>
      /\ tx'[t].of = c /\ tx'[t].rows = {}
      /\ \A lock \in Locks : locks'[lock] # t
  BY BeginMoves
<1>2. Lasting(t)' /\ Unread(t)'
  BY <1>1, LockNames DEF Lasting, Unread, First
<1>3. \A u \in Transactions : First(u) => tx[u].of \notin Evaluated(evals')
  BY <1>1 DEF Readings, Unread
<1> QED
  BY <1>1, <1>2, <1>3, OthersRead

\* A row that is free and not evaluated was read by no ranking: it would
\* have been deleted, and then this lock is not taken.
LEMMA AcquireReadings ==
    ASSUME Places, Readings, NEW t \in Transactions, Acquire(t)
    PROVE  Readings'
<1> DEFINE o == tx[t].of  lock == Head(tx[t].todo)
<1>1. /\ Moves(t) /\ Active(t) /\ UNCHANGED <<evals, gone>>
      /\ \A other \in Locks \ {lock} : locks'[other] = locks[other]
      /\ locks[lock] \in {NULL, t} /\ o \notin gone
      /\ tx'[t].state = "active" /\ tx'[t].kind = tx[t].kind /\ tx'[t].of = o
      /\ tx'[t].rows = tx[t].rows
      /\ ~tx'[t].again =>
           /\ ~tx[t].again
           /\ lock = Evaluation(o) => locks[Evaluation(o)] # NULL \/ evals[o] = NULL
  BY AcquireMoves
<1>2. Saving(t)' = Saving(t) /\ o \in Enrolments /\ Evaluation(o) \in Locks
  BY <1>1, LockNames DEF Saving, Active, Places, Placed, Shaped
<1> HIDE DEF o, lock
<1>3. Lasting(t)'
  BY <1>1, <1>2 DEF Readings, Lasting, Evaluated, o
<1>4. ASSUME NEW u \in Transactions \ {t}, First(u)
      PROVE  /\ tx[u].of \notin Evaluated(evals')
             /\ Saving(t)' => tx[u].of \notin tx'[t].rows
  BY <1>1, <1>2, <1>4 DEF Readings, Unread
<1>5. ASSUME First(t)'
      PROVE  /\ o \notin Evaluated(evals)
             /\ \A u \in Transactions \ {t} : Saving(u) => o \notin tx[u].rows
  <2>1. Saving(t) /\ locks'[Evaluation(o)] = t /\ ~tx[t].again
    BY <1>1, <1>2, <1>5 DEF First
  <2>2. CASE locks[Evaluation(o)] = t
    <3>1. First(t)
      BY <2>1, <2>2 DEF First, o
    <3> QED
      BY <3>1 DEF Readings, Unread, o
  <2>3. CASE locks[Evaluation(o)] # t
    <3>1. lock = Evaluation(o) /\ locks[Evaluation(o)] = NULL
      BY <1>1, <1>2, <2>1, <2>3
    <3>2. evals[o] = NULL
      BY <1>1, <1>5, <3>1 DEF First
    <3>3. o \notin Evaluated(evals)
      BY <3>2 DEF Evaluated
    <3>4. ASSUME NEW u \in Transactions \ {t}, Saving(u), o \in tx[u].rows PROVE FALSE
      <4>1. CASE tx[u].of = o
        <5>1. tx[u].todo # SaveLocks(o)
          <6>1. Shaped(u) /\ Active(u) /\ tx[u].kind = "save"
            BY <3>4 DEF Places, Placed, Saving, Active
          <6>2. tx[u].todo \in Seq(RowsRead(u))
            BY <3>4, <6>1 DEF Shaped
          <6> QED
            BY <6>2, RankingScript, SaveStages DEF RowsRead
        <5>2. locks[Evaluation(o)] = u
          BY <3>4, <4>1, <5>1 DEF Places, Placed, Upserted
        <5> QED
          BY <3>1, <5>2, NotNull
      <4>2. CASE tx[u].of # o
        <5>1. o \in Evaluated(evals) \cup gone
          BY <3>4, <4>2 DEF Readings, Lasting
        <5> QED
          BY <1>1, <3>3, <5>1
      <4> QED
        BY <4>1, <4>2
    <3> QED
      BY <3>3, <3>4
  <2> QED
    BY <2>2, <2>3
<1>6. Unread(t)'
  <2>1. \A u \in Transactions \ {t} : tx'[u] = tx[u] /\ Saving(u)' = Saving(u)
    BY <1>1 DEF Moves, Saving
  <2>2. Evaluated(evals)' = Evaluated(evals)
    BY <1>1 DEF Evaluated
  <2> QED
    BY <1>1, <1>5, <2>1, <2>2 DEF Unread
<1>7. Evaluated(evals') = Evaluated(evals)
  BY <1>1
<1> QED
  BY <1>1, <1>3, <1>4, <1>6, <1>7, OthersRead

LEMMA SelectReadings ==
    ASSUME IndInv, Places, Readings, NEW t \in Transactions, SelectForUpdate(t)
    PROVE  Readings'
<1> DEFINE o == tx[t].of
<1>1. /\ Moves(t) /\ Active(t) /\ Head(tx[t].todo) = Ranking /\ tx[t].todo # <<>>
      /\ UNCHANGED <<evals, gone, locks>>
      /\ tx'[t].state = "active" /\ tx'[t].kind = tx[t].kind /\ tx'[t].of = o
      /\ tx'[t].again = tx[t].again /\ tx'[t].rows = Evaluated(Seen(t))
  BY SelectMoves
<1>2. Saving(t)' = Saving(t)
  BY <1>1 DEF Saving, Active
<1>3. Saving(t) => /\ locks[Evaluation(o)] = t
                   /\ Evaluated(Seen(t)) = Evaluated(evals) \cup {o}
  BY <1>1, SelectingSave, SeenRows DEF IndInv
<1> HIDE DEF o
<1>4. Lasting(t)'
  BY <1>1, <1>2, <1>3 DEF Lasting, Evaluated
<1>5. ASSUME NEW u \in Transactions \ {t}, First(u)
      PROVE  /\ tx[u].of \notin Evaluated(evals')
             /\ Saving(t)' => tx[u].of \notin tx'[t].rows
  <2>1. tx[u].of \notin Evaluated(evals)
    BY <1>5 DEF Readings, Unread
  <2>2. Saving(t) => tx[u].of # o
    BY <1>3, <1>5 DEF First
  <2> QED
    BY <1>1, <1>2, <1>3, <2>1, <2>2
<1>6. Unread(t)'
  <2>1. \A u \in Transactions \ {t} : tx'[u] = tx[u] /\ Saving(u)' = Saving(u)
    BY <1>1 DEF Moves, Saving
  <2>2. First(t)' => First(t)
    BY <1>1, <1>2 DEF First, o
  <2>3. Evaluated(evals)' = Evaluated(evals)
    BY <1>1 DEF Evaluated
  <2>4. Unread(t)
    BY DEF Readings
  <2> QED
    BY <1>1, <2>1, <2>2, <2>3, <2>4 DEF Unread, o
<1>7. Evaluated(evals') = Evaluated(evals)
  BY <1>1
<1> QED
  BY <1>1, <1>4, <1>5, <1>6, <1>7, OthersRead

\* The save that commits holds the row it adds.
LEMMA SaveReadings ==
    ASSUME IndInv, Places, Readings, NEW t \in Transactions, CommitSave(t)
    PROVE  Readings'
<1> DEFINE o == tx[t].of
<1>1. /\ Saving(t) /\ tx[t].todo = <<>> /\ End(t)
      /\ Evaluated(evals') = Evaluated(evals) \cup {o}
  BY Saved
<1>2. Moves(t) /\ ~Saving(t)' /\ gone' = gone
  BY <1>1, EndMoves DEF CommitSave
<1>3. locks[Evaluation(o)] = t
  <2>1. tx[t].todo # SaveLocks(o)
    BY <1>1 DEF SaveLocks
  <2> QED
    BY <1>1, <2>1 DEF Places, Placed, Upserted
<1> HIDE DEF o
<1>4. \A u \in Transactions \ {t} : First(u) => tx[u].of \notin Evaluated(evals')
  <2>1. \A u \in Transactions \ {t} : First(u) => tx[u].of \notin Evaluated(evals)
    BY DEF Readings, Unread
  <2>2. \A u \in Transactions \ {t} : First(u) => tx[u].of # o
    BY <1>3 DEF First
  <2> QED
    BY <1>1, <2>1, <2>2
<1>5. Lasting(t)' /\ Unread(t)'
  BY <1>2 DEF Lasting, Unread, First
<1> QED
  BY <1>1, <1>2, <1>4, <1>5, OthersRead

LEMMA DeletionReadings ==
    ASSUME IndInv, Places, Readings, NEW t \in Transactions, CommitDeletion(t)
    PROVE  Readings'
<1> DEFINE o == tx[t].of
<1>1. /\ tx[t].state = "active" /\ End(t)
      /\ evals' = [evals EXCEPT ![o] = NULL] /\ gone' = gone \cup {o}
  BY DEF CommitDeletion, Finished, Active
<1>2. Moves(t) /\ ~Saving(t)'
  BY <1>1, EndMoves
<1>3. /\ Evaluated(evals') \subseteq Evaluated(evals)
      /\ Evaluated(evals) \subseteq Evaluated(evals') \cup gone'
  <2>1. evals \in [Enrolments -> {NULL} \cup Scored]
    BY DEF IndInv, Evaluations
  <2> HIDE DEF o
  <2> QED
    BY <1>1, <2>1 DEF Evaluated
<1>4. \A u \in Transactions \ {t} : First(u) => tx[u].of \notin Evaluated(evals')
  BY <1>3 DEF Readings, Unread
<1>5. Lasting(t)' /\ Unread(t)'
  BY <1>2 DEF Lasting, Unread, First
<1> QED
  BY <1>1, <1>2, <1>3, <1>4, <1>5, OthersRead

LEMMA EndReadings ==
    ASSUME Places, Readings, NEW t \in Transactions, End(t), UNCHANGED <<evals, gone, stale>>
    PROVE  Readings'
<1>1. Moves(t) /\ ~Saving(t)'
  BY EndMoves
<1>2. Evaluated(evals') = Evaluated(evals)
  OBVIOUS
<1>3. \A u \in Transactions \ {t} : First(u) => tx[u].of \notin Evaluated(evals')
  BY <1>2 DEF Readings, Unread
<1>4. Lasting(t)' /\ Unread(t)'
  BY <1>1 DEF Lasting, Unread, First
<1> QED
  BY <1>1, <1>2, <1>3, <1>4, OthersRead

-----------------------------------------------------------------------------
(* Who waits for whom.                                                     *)

\* A transaction of a cycle that is neither an entry, a deletion nor a
\* repeated evaluation.
Plain(t) == tx[t].kind \notin {"entry", "deletion"} /\ ~tx[t].again

LEMMA Waiting ==
    ASSUME LockInv, NEW t \in Transactions, Waits(t), Blocker(t) \in Transactions, Plain(t)
    PROVE  /\ Placed(t) /\ Active(t) /\ tx[t].todo # <<>> /\ tx[t].todo # <<Ranking>>
           /\ tx[t].of \in Enrolments /\ tx[t].kind \in {"lifecycle", "write", "save"}
           /\ Blocker(t) # t
<1>1. Placed(t) /\ Active(t) /\ tx[t].todo # <<>> /\ Blocker(t) # t /\ Head(tx[t].todo) # Ranking
  BY DEF LockInv, Places, Waits, Blocker
<1>2. tx[t].todo # <<Ranking>>
  BY <1>1, StagesDiffer
<1> QED
  BY <1>1, <1>2 DEF Plain, Placed, Shaped

\* The owner of a lock that a transaction of the cycle waits for.
LEMMA Blocking ==
    ASSUME LockInv, NEW t \in Transactions, Waits(t), Blocker(t) \in Transactions,
           Waits(Blocker(t)), Plain(Blocker(t)), Head(tx[t].todo) \in Locks
    PROVE  MayHold(Blocker(t), Head(tx[t].todo))
BY DEF LockInv, Places, Placed, Holds, Blocker

\* A save that waits and is past its candidate's row has the advisory lock
\* or waits for it.
LEMMA Last ==
    ASSUME LockInv, NEW t \in Transactions, Waits(t), Plain(t), tx[t].kind = "save",
           Blocker(t) \in Transactions,
           tx[t].todo \notin Unranked(tx[t].of) \ {<<Advisory, Ranking>>}
    PROVE  Ranked(t) \/ Head(tx[t].todo) = Advisory
<1>1. Placed(t) /\ Active(t) /\ tx[t].todo # <<Ranking>>
  BY Waiting
<1>2. CASE tx[t].todo = <<Advisory, Ranking>>
  BY <1>2
<1>3. CASE tx[t].todo # <<Advisory, Ranking>>
  BY <1>1, <1>3 DEF Placed, Shaped, Ranked, Saving, Active
<1> QED
  BY <1>2, <1>3

\* Who holds a lock and waits, waits for a later one: the evaluation's row,
\* the session's, the candidate's, the advisory lock, which only a save that
\* has ranked holds while it waits.
LEMMA Climb ==
    ASSUME LockInv, NEW ts \in SUBSET Transactions, Stuck(ts),
           \A t \in ts : Waits(t) /\ Plain(t), NEW t \in ts
    PROVE  \E u \in ts : Ranked(u)
<1>1. \A u \in ts : /\ Blocker(u) \in ts /\ Blocker(u) \in Transactions /\ u \in Transactions
                    /\ Waits(u) /\ Plain(u) /\ Waits(Blocker(u)) /\ Plain(Blocker(u))
  BY DEF Stuck
<1>2. \A u \in ts : Placed(u) /\ Active(u) /\ tx[u].todo # <<>> /\ tx[u].todo # <<Ranking>>
                    /\ tx[u].of \in Enrolments /\ tx[u].kind \in {"lifecycle", "write", "save"}
                    /\ Blocker(u) # u
  BY <1>1, Waiting
<1>3. \A u \in ts : Head(tx[u].todo) \in Locks => MayHold(Blocker(u), Head(tx[u].todo))
  BY <1>1, Blocking
<1>4. ASSUME NEW u \in ts, Head(tx[u].todo) = Advisory PROVE \E v \in ts : Ranked(v)
  <2> DEFINE v == Blocker(u)
  <2>1. v \in ts /\ MayHold(v, Advisory)
    BY <1>1, <1>3, <1>4, AdvisoryIsALock
  <2>2. tx[v].kind # "write"
    BY <1>2, <2>1 DEF MayHold
  <2>3. tx[v].kind # "lifecycle"
    BY <1>2, <2>1, LocksDiffer DEF MayHold
  <2> HIDE DEF v
  <2>4. tx[v].kind = "save" /\ tx[v].of \in Enrolments
    BY <1>2, <2>1, <2>2, <2>3
  <2>5. tx[v].todo \notin Unranked(tx[v].of) \/ Advisory \in RowsRead(v)
    BY <2>1, <2>4, LocksDiffer DEF MayHold
  <2>6. Advisory \notin RowsRead(v)
    BY LocksDiffer DEF RowsRead
  <2>7. Ranked(v)
    BY <1>2, <2>1, <2>4, <2>5, <2>6 DEF Placed, Shaped, Ranked, Saving, Active
  <2> QED
    BY <2>1, <2>7
<1>5. ASSUME NEW u \in ts, tx[u].kind = "save",
             tx[u].todo \notin Unranked(tx[u].of) \ {<<Advisory, Ranking>>}
      PROVE  \E v \in ts : Ranked(v)
  BY <1>1, <1>4, <1>5, Last
<1>6. ASSUME NEW u \in ts, NEW c \in Enrolments, Head(tx[u].todo) = Candidate(c)
      PROVE  \E v \in ts : Ranked(v)
  <2> DEFINE v == Blocker(u)
  <2>1. v \in ts /\ MayHold(v, Candidate(c))
    BY <1>1, <1>3, <1>6, LockNames
  <2>2. tx[v].kind # "write"
    BY <1>2, <2>1 DEF MayHold
  <2>3. tx[v].kind # "lifecycle"
    BY <1>2, <2>1, LocksDiffer DEF MayHold
  <2> HIDE DEF v
  <2>4. tx[v].kind = "save"
    BY <1>2, <2>1, <2>2, <2>3
  <2>5. \/ tx[v].todo \notin Unranked(tx[v].of) \ {<<Advisory, Ranking>>}
        \/ Candidate(c) \in RowsRead(v)
    BY <2>1, <2>4, LocksDiffer DEF MayHold
  <2>6. CASE Candidate(c) \in RowsRead(v)
    <3>1. tx[v].rows # {}
      BY <2>6 DEF RowsRead
    <3> QED
      BY <1>2, <2>1, <2>4, <3>1 DEF Ranked, Saving, Active
  <2> QED
    BY <1>5, <2>1, <2>4, <2>5, <2>6
<1>7. ASSUME NEW u \in ts, NEW c \in Enrolments, Head(tx[u].todo) = Session(c)
      PROVE  \E v \in ts : Ranked(v)
  <2> DEFINE v == Blocker(u)
  <2>1. v \in ts /\ MayHold(v, Session(c))
    BY <1>1, <1>3, <1>7, LockNames
  <2>2. tx[v].kind # "write"
    BY <1>2, <2>1 DEF MayHold
  <2> HIDE DEF v
  <2>3. CASE tx[v].kind = "lifecycle"
    <3>1. tx[v].todo = <<Candidate(tx[v].of)>>
      BY <1>2, <2>1, <2>3 DEF MayHold, Placed, Shaped
    <3> QED
      BY <1>2, <1>6, <2>1, <3>1
  <2>4. CASE tx[v].kind = "save"
    <3>1. Session(c) \notin RowsRead(v)
      BY LocksDiffer DEF RowsRead
    <3>2. tx[v].todo \notin {SaveLocks(tx[v].of), AfterUpsert(tx[v].of)}
      BY <2>1, <2>4, <3>1, LocksDiffer DEF MayHold
    <3>3. CASE tx[v].todo = AfterSession(tx[v].of)
      <4>1. Head(tx[v].todo) = Candidate(tx[v].of)
        BY <3>3, SaveStages
      <4> QED
        BY <1>2, <1>6, <2>1, <4>1
    <3>4. CASE tx[v].todo # AfterSession(tx[v].of)
      <4>1. tx[v].todo \notin Unranked(tx[v].of) \ {<<Advisory, Ranking>>}
        BY <3>2, <3>4, SaveStages
      <4> QED
        BY <1>5, <2>1, <2>4, <4>1
    <3> QED
      BY <3>3, <3>4
  <2> QED
    BY <1>2, <2>1, <2>2, <2>3, <2>4
<1>8. ASSUME NEW u \in ts, tx[u].kind = "save", tx[u].todo # SaveLocks(tx[u].of)
      PROVE  \E v \in ts : Ranked(v)
  <2> DEFINE o == tx[u].of
  <2>1. CASE tx[u].todo = AfterUpsert(o)
    BY <1>2, <1>7, <2>1, SaveStages
  <2>2. CASE tx[u].todo = AfterSession(o)
    BY <1>2, <1>6, <2>2, SaveStages
  <2>3. CASE tx[u].todo \notin Unranked(o) \ {<<Advisory, Ranking>>}
    BY <1>5, <1>8, <2>3
  <2> QED
    BY <1>8, <2>1, <2>2, <2>3, SaveStages
<1>9. ASSUME NEW u \in ts, NEW c \in Enrolments, Head(tx[u].todo) = Evaluation(c)
      PROVE  \E v \in ts : Ranked(v)
  <2> DEFINE v == Blocker(u)
  <2>1. v \in ts /\ MayHold(v, Evaluation(c)) /\ v # u
    BY <1>1, <1>2, <1>3, <1>9, LockNames
  <2>2. locks[Evaluation(c)] = v
    BY <1>9 DEF Blocker
  <2>3. tx[v].kind # "write"
    BY <1>2, <2>1 DEF MayHold
  <2>4. tx[v].kind # "lifecycle"
    BY <1>2, <2>1, LocksDiffer DEF MayHold
  <2> HIDE DEF v
  <2>5. tx[v].kind = "save"
    BY <1>2, <2>1, <2>3, <2>4
  <2>6. CASE tx[v].todo = SaveLocks(tx[v].of)
    <3>1. Evaluation(c) \in RowsRead(v) \/ c = tx[v].of
      BY <2>1, <2>5, <2>6, LocksDiffer, SaveStages DEF MayHold
    <3>2. c # tx[v].of
      \* it would be waiting for a lock of its own
      <4>1. Blocker(v) = locks[Evaluation(tx[v].of)]
        BY <2>6, SaveStages DEF Blocker
      <4> QED
        BY <1>2, <2>1, <2>2, <4>1
    <3>3. tx[v].rows # {}
      BY <3>1, <3>2 DEF RowsRead
    <3> QED
      BY <1>2, <2>1, <2>5, <3>3 DEF Ranked, Saving, Active
  <2>7. CASE tx[v].todo # SaveLocks(tx[v].of)
    BY <1>8, <2>1, <2>5, <2>7
  <2> QED
    BY <2>6, <2>7
<1>10. CASE tx[t].kind = "lifecycle"
  <2>1. CASE tx[t].todo = LifecycleLocks(tx[t].of)
    <3>1. Head(tx[t].todo) = Session(tx[t].of)
      BY <2>1 DEF LifecycleLocks
    <3> QED
      BY <1>2, <1>7, <3>1
  <2>2. CASE tx[t].todo = <<Candidate(tx[t].of)>>
    BY <1>2, <1>6, <2>2
  <2> QED
    BY <1>2, <1>10, <2>1, <2>2 DEF Placed, Shaped
<1>11. CASE tx[t].kind = "write"
  <2>1. CASE tx[t].todo = <<Session(tx[t].of)>>
    BY <1>2, <1>7, <2>1
  <2>2. CASE tx[t].todo = <<Candidate(tx[t].of)>>
    BY <1>2, <1>6, <2>2
  <2> QED
    BY <1>2, <1>11, <2>1, <2>2 DEF Placed, Shaped
<1>12. CASE tx[t].kind = "save"
  <2>1. CASE tx[t].todo = SaveLocks(tx[t].of)
    BY <1>2, <1>9, <2>1, SaveStages
  <2>2. CASE tx[t].todo # SaveLocks(tx[t].of)
    BY <1>8, <1>12, <2>2
  <2> QED
    BY <2>1, <2>2
<1> QED
  BY <1>2, <1>10, <1>11, <1>12

\* The save that has ranked waits for a row it read, whose owner can only be
\* a save of that row: one that repeats an evaluation, for no ranking read a
\* first one.
LEMMA Explained == LockInv => DeadlocksExplained
<1> SUFFICES ASSUME LockInv, NEW ts \in Cycles, \A t \in ts : Plain(t) PROVE FALSE
  BY DEF DeadlocksExplained, Plain
<1>1. /\ ts \in SUBSET Transactions /\ Stuck(ts)
      /\ \A t \in ts : t \in Transactions /\ Waits(t) /\ Plain(t)
  BY DEF Cycles
<1>2. PICK u \in ts : Ranked(u)
  BY <1>1, Climb DEF Stuck
<1> DEFINE v == Blocker(u)  lock == Head(tx[u].todo)
<1>3. v \in ts /\ v \in Transactions /\ Waits(v) /\ Plain(v) /\ Blocker(v) \in Transactions
  BY <1>1 DEF Stuck
<1>4. /\ Placed(u) /\ Active(u) /\ tx[u].todo # <<>> /\ v # u
      /\ Placed(v) /\ Active(v) /\ tx[v].todo # <<>> /\ tx[v].of \in Enrolments
      /\ tx[v].kind \in {"lifecycle", "write", "save"}
  BY <1>1, <1>3, Waiting
<1>5. tx[u].kind = "save" /\ locks[Advisory] = u /\ tx[u].todo \in Seq(RowsRead(u))
  BY <1>2, <1>4 DEF Ranked, Saving, Placed, Shaped
<1>6. lock \in RowsRead(u) /\ locks[lock] = v
  BY <1>4, <1>5 DEF Blocker
<1>7. PICK d \in tx[u].rows : lock \in {Evaluation(d), Candidate(d)}
  BY <1>6 DEF RowsRead
<1>8. d \in Enrolments
  BY <1>1, <1>2 DEF LockInv, Readings, Lasting, Ranked
<1>9. MayHold(v, lock)
  BY <1>1, <1>3, <1>7, <1>8, Blocking, LockNames
<1> HIDE DEF v, lock
<1>10. tx[v].kind # "write"
  BY <1>4, <1>9 DEF MayHold
<1>11. tx[v].kind # "lifecycle"
  BY <1>4, <1>7, <1>9, LocksDiffer DEF MayHold
<1>12. tx[v].kind = "save" /\ tx[v].rows = {}
  <2>1. locks[Advisory] # v
    BY <1>4, <1>5
  <2> QED
    BY <1>4, <1>10, <1>11, <2>1 DEF Placed, Shaped
<1>13. Saving(v) /\ RowsRead(v) = {}
  BY <1>4, <1>12 DEF Saving, Active, RowsRead
<1>14. tx[v].of = d /\ locks[Evaluation(d)] = v
  <2>1. CASE lock = Evaluation(d)
    <3>1. tx[v].of = d
      BY <1>9, <1>12, <1>13, <2>1, LocksDiffer DEF MayHold
    <3> QED
      BY <1>6, <2>1, <3>1
  <2>2. CASE lock = Candidate(d)
    <3>1. tx[v].of = d /\ tx[v].todo \notin Unranked(d) \ {<<Advisory, Ranking>>}
      BY <1>9, <1>12, <1>13, <2>2, LocksDiffer DEF MayHold
    <3>2. tx[v].todo # SaveLocks(d)
      BY <3>1, SaveStages, StagesDiffer
    <3> QED
      BY <1>4, <1>13, <3>1, <3>2 DEF Placed, Upserted
  <2> QED
    BY <1>7, <2>1, <2>2
<1>15. First(v)
  BY <1>3, <1>13, <1>14 DEF First, Plain
<1> QED
  BY <1>1, <1>2, <1>3, <1>4, <1>7, <1>14, <1>15 DEF LockInv, Readings, Unread, Ranked

LEMMA InitLockInv == Init => LockInv
<1> SUFFICES ASSUME Init PROVE LockInv
  OBVIOUS
<1>1. \A t \in Transactions : tx[t] = Idle
  BY DEF Init
<1>2. DOMAIN Idle = Fields /\ Idle.state = "idle"
  BY DEF Idle, Fields
<1>3. \A t \in Transactions : ~Active(t) /\ ~Saving(t)
  BY <1>1, <1>2 DEF Active, Saving
<1>4. \A lock \in Locks : locks[lock] = NULL
  BY DEF Init
<1>5. Places
  <2>1. \A t \in Transactions : Placed(t)
    BY <1>3, <1>4, NotNull DEF Placed, Shaped, Upserted, Holds
  <2>2. DOMAIN tx = Transactions /\ DOMAIN locks = Locks
    BY DEF Init
  <2> QED
    BY <1>1, <1>2, <1>4, <2>1, <2>2 DEF Places
<1>6. Readings
  BY <1>3 DEF Readings, Lasting, Unread, First
<1> QED
  BY <1>5, <1>6, InitIndInv DEF LockInv

LEMMA NextLockInv == LockInv /\ [Next]_vars => LockInv'
<1> SUFFICES ASSUME LockInv, [Next]_vars PROVE LockInv'
  OBVIOUS
<1>1. IndInv' /\ IndInv /\ Places /\ Readings
  BY NextIndInv DEF LockInv
<1>2. CASE UNCHANGED vars
  <2>1. Places'
    <3>1. tx' = tx /\ locks' = locks
      BY <1>2 DEF vars
    <3>2. ASSUME NEW t \in Transactions PROVE Placed(t)'
      <4>1. Shaped(t) /\ Upserted(t) /\ Holds(t)
        BY <1>1 DEF Places, Placed
      <4>2. Shaped(t)'
        BY <3>1, <4>1 DEF Shaped, Active, RowsRead
      <4>3. Upserted(t)'
        BY <3>1, <4>1 DEF Upserted, Saving
      <4>4. Holds(t)'
        BY <3>1, <4>1 DEF Holds, MayHold, Active, RowsRead
      <4> QED
        BY <4>2, <4>3, <4>4 DEF Placed
    <3> QED
      BY <1>1, <3>1, <3>2 DEF Places
  <2>2. Readings'
    BY <1>1, <1>2 DEF vars, Readings, Lasting, Unread, First, Saving, Evaluated
  <2> QED
    BY <1>1, <2>1, <2>2 DEF LockInv
<1>3. ASSUME NEW t \in Transactions, End(t), UNCHANGED <<evals, gone, stale>> PROVE LockInv'
  BY <1>1, <1>3, EndPlaces, EndReadings DEF LockInv
<1>4. ASSUME NEW t \in Transactions, NEW kind \in Kinds, NEW c \in Enrolments, Begin(t, kind, c)
      PROVE  LockInv'
  BY <1>1, <1>4, BeginPlaces, BeginReadings DEF LockInv
<1>5. ASSUME NEW t \in Transactions, Proceed(t) PROVE LockInv'
  <2>1. CASE Acquire(t)
    BY <1>1, <2>1, AcquirePlaces, AcquireReadings DEF LockInv
  <2>2. CASE SelectForUpdate(t)
    BY <1>1, <2>2, SelectPlaces, SelectReadings DEF LockInv
  <2>3. CASE CommitSave(t)
    <3>1. End(t)
      BY <2>3 DEF CommitSave
    <3> QED
      BY <1>1, <2>3, <3>1, EndPlaces, SaveReadings DEF LockInv
  <2>4. CASE CommitDeletion(t)
    <3>1. End(t)
      BY <2>4 DEF CommitDeletion
    <3> QED
      BY <1>1, <2>4, <3>1, EndPlaces, DeletionReadings DEF LockInv
  <2>5. CASE CommitOther(t) \/ Fail(t) \/ DeadlockDetected(t)
    BY <1>3, <2>5 DEF CommitOther, Fail, DeadlockDetected
  <2> QED
    BY <1>5, <2>1, <2>2, <2>3, <2>4, <2>5 DEF Proceed
<1>6. ASSUME NEW t \in Transactions, Fail(t) PROVE LockInv'
  BY <1>3, <1>6 DEF Fail
<1> QED
  BY <1>2, <1>4, <1>5, <1>6 DEF Next

\* However many transactions there are and however they interleave, every
\* cycle of waits has an entry by invitation, a deletion or a repeated
\* evaluation in it: the other requests all lock the evaluation, the session,
\* the candidate and the assessment in this order (save_final_evaluation,
\* lock_session_context_by_token, record_disconnect).
THEOREM Deadlocks == Spec => []DeadlocksExplained
<1> QED
  BY Explained, InitLockInv, NextLockInv, PTL DEF Spec

=============================================================================
