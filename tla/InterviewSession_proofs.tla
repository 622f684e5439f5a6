----------------------- MODULE InterviewSession_proofs ----------------------
(***************************************************************************)
(* Proofs about InterviewSession and about Proctoring, which extends it,   *)
(* for every value of their constants.                                     *)
(*                                                                         *)
(* The session: first what holds whatever the engine does, then what needs *)
(* an orderly engine, with which the module implements SessionLifecycle:   *)
(* the two rows agree, the last drop terminates, and nothing reopens.      *)
(*                                                                         *)
(* Proctoring: the transcript, the count of tab switches, the face         *)
(* episodes and the limits that end an interview, for any number of        *)
(* packets and of connections.  A packet moves the session only as         *)
(* InterviewSession allows, so what was proved there of a running interview *)
(* is used here as it is: nothing reopens a closed session, and a limit    *)
(* once reached stays enforced.                                            *)
(***************************************************************************)
EXTENDS Proctoring, FiniteSetTheorems, TLAPS

-----------------------------------------------------------------------------
(* The items of a turn are folded into the list that is stored.            *)

\* What holds of the empty set and of every set with one element more holds of
\* a finite set.
LEMMA SetInduction ==
    ASSUME NEW S, IsFiniteSet(S), NEW Q, Q \subseteq SUBSET S, {} \in Q,
           \A T \in Q, x \in S : T \cup {x} \in Q
    PROVE  S \in Q
<1> DEFINE F == {S \ T : T \in Q}
<1>1. F \subseteq FiniteSubsetsOf(S) /\ F # {}
  BY FS_Subset DEF FiniteSubsetsOf
<1>2. PICK X \in F : \A Y \in F : ~ (<<Y, X>> \in StrictSubsetOrdering(S))
  <2> HIDE DEF F
  <2> QED
    BY <1>1, FS_StrictSubsetOrderingWellFounded, WFMin
<1>3. PICK T \in Q : X = S \ T
  OBVIOUS
<1>4. ASSUME NEW x \in S \ T PROVE FALSE
  <2> DEFINE Y == S \ (T \cup {x})
  <2>1. Y \in F
    BY <1>4
  <2>2. Y \subseteq X /\ Y # X /\ Y \in SUBSET S /\ X \in SUBSET S
    BY <1>3, <1>4
  <2> HIDE DEF Y, F
  <2>3. <<Y, X>> \in StrictSubsetOrdering(S)
    BY <2>2 DEF StrictSubsetOrdering
  <2> QED
    BY <1>2, <2>1, <2>3
<1>5. T = S
  BY <1>4
<1> QED
  BY <1>5

\* Induction over the numbers of a set.
LEMMA NatInductionSet ==
    ASSUME NEW Q, 0 \in Q, \A n \in Nat : n \in Q => n + 1 \in Q, NEW m \in Nat
    PROVE  m \in Q
<1> DEFINE S == 1..m
           R == {T \in SUBSET S : Cardinality(T) \in Q}
<1>1. IsFiniteSet(S) /\ Cardinality(S) = m
  BY FS_Interval
<1>2. {} \in R
  BY FS_EmptySet
<1>3. ASSUME NEW T \in R, NEW x \in S PROVE T \cup {x} \in R
  <2>1. IsFiniteSet(T) /\ Cardinality(T) \in Nat
    BY <1>1, FS_Subset, FS_CardinalityType
  <2>2. x \in T \/ Cardinality(T \cup {x}) = Cardinality(T) + 1
    BY <2>1, FS_AddElement
  <2>3. x \in T => T \cup {x} = T
    OBVIOUS
  <2> QED
    BY <2>1, <2>2, <2>3
<1>4. S \in R
  <2> HIDE DEF S
  <2>1. R \subseteq SUBSET S
    OBVIOUS
  <2> HIDE DEF R
  <2> QED
    BY <1>1, <1>2, <1>3, <2>1, SetInduction
<1> QED
  BY <1>1, <1>4

\* A bounded set of numbers has a greatest one.
LEMMA GreatestExists ==
    ASSUME NEW S \in SUBSET Nat, NEW n \in Nat, \A y \in S : y <= n, S # {}
    PROVE  Max(S) \in S
<1> DEFINE Q == {k \in Nat : (\E y \in S : n <= y + k) => \E x \in S : \A y \in S : y <= x}
<1>1. 0 \in Q
  <2>1. ASSUME NEW y \in S, n <= y + 0 PROVE \A z \in S : z <= y
    BY <2>1
  <2> QED
    BY <2>1
<1>2. ASSUME NEW k \in Nat, k \in Q PROVE k + 1 \in Q
  <2>1. ASSUME NEW y \in S, n <= y + (k + 1) PROVE \E x \in S : \A z \in S : z <= x
    <3>1. CASE \E z \in S : n <= z + k
      BY <1>2, <3>1
    <3>2. CASE ~ \E z \in S : n <= z + k
      <4>1. \A z \in S : z <= y
        BY <2>1, <3>2
      <4> QED
        BY <4>1
    <3> QED
      BY <3>1, <3>2
  <2> QED
    BY <2>1
<1>3. n \in Q
  <2> HIDE DEF Q
  <2> QED
    BY <1>1, <1>2, NatInductionSet
<1>4. \E x \in S : \A y \in S : y <= x
  <2>1. PICK y \in S : TRUE
    OBVIOUS
  <2>2. n <= y + n
    OBVIOUS
  <2> QED
    BY <1>3, <2>2
<1>5. \E x \in S : \A y \in S : x >= y
  BY <1>4
<1> QED
  BY <1>5 DEF Max

\* A list without repetitions.
Lists(X) == {list \in Seq(X) : IsInjective(list)}

\* Appending what is not there repeats nothing.
LEMMA AppendUniqueType ==
    ASSUME NEW X, NEW list \in Lists(X), NEW item \in X
    PROVE  AppendUnique(list, item) \in Lists(X)
<1>1. CASE item \in ToSet(list)
  BY <1>1 DEF AppendUnique
<1>2. CASE item \notin ToSet(list)
  <2> DEFINE long == Append(list, item)
  <2>1. list \in Seq(X) /\ \A i, j \in DOMAIN list : list[i] = list[j] => i = j
    BY DEF Lists, IsInjective
  <2>2. DOMAIN list = 1..Len(list) /\ Len(list) \in Nat
    BY <2>1
  <2>3. \A i \in 1..Len(list) : list[i] # item
    BY <1>2, <2>2 DEF ToSet
  <2>4. long \in Seq(X) /\ DOMAIN long = 1..(Len(list) + 1) /\ long[Len(list) + 1] = item
        /\ \A i \in 1..Len(list) : long[i] = list[i]
    BY <2>1
  <2>5. \A i \in 1..(Len(list) + 1) : i \in 1..Len(list) \/ i = Len(list) + 1
    BY <2>2
  <2> HIDE DEF long
  <2>6. \A i, j \in DOMAIN long : long[i] = long[j] => i = j
    BY <2>1, <2>2, <2>3, <2>4, <2>5
  <2> QED
    BY <1>2, <2>4, <2>6 DEF AppendUnique, Lists, IsInjective, long
<1> QED
  BY <1>1, <1>2

\* Nor does a whole batch, by induction over the items of the fold: there is a
\* function that satisfies its recursion, built up by the size of the sets, so
\* the one that the fold chooses does.
LEMMA AppendItemsType ==
    ASSUME NEW X, NEW stored \in Lists(X), NEW items \in Seq(X)
    PROVE  AppendItems(stored, items) \in Lists(X)
<1> DEFINE n == Len(items)  S == 1..n
           Step(it, s) == AppendUnique(it[s \ {Max(s)}], items[Max(s)])
           Fits(it) == it = [s \in SUBSET S |-> IF s = {} THEN stored ELSE Step(it, s)]
           iter == CHOOSE it : Fits(it)
           Q == {k \in Nat : \E it \in [SUBSET S -> Lists(X)] :
                   \A s \in SUBSET S :
                      Cardinality(s) <= k => it[s] = IF s = {} THEN stored ELSE Step(it, s)}
<1>1. n \in Nat /\ DOMAIN items = S /\ \A i \in S : items[i] \in X
  OBVIOUS
<1>2. AppendItems(stored, items) = iter[S]
  BY <1>1 DEF AppendItems, FoldLeft, MapThenFoldSet
<1> HIDE DEF n
<1>3. IsFiniteSet(S) /\ Cardinality(S) = n
  BY <1>1, FS_Interval
<1>4. ASSUME NEW s \in SUBSET S
      PROVE  IsFiniteSet(s) /\ Cardinality(s) \in 0..n /\ (Cardinality(s) = 0 <=> s = {})
  <2>1. IsFiniteSet(s) /\ Cardinality(s) <= n
    BY <1>3, FS_Subset
  <2>2. Cardinality(s) \in Nat /\ (Cardinality(s) = 0 <=> s = {})
    BY <2>1, FS_CardinalityType, FS_EmptySet
  <2> QED
    BY <1>1, <2>1, <2>2
<1>5. ASSUME NEW s \in SUBSET S, s # {}
      PROVE  /\ Max(s) \in s /\ s \ {Max(s)} \in SUBSET S
             /\ Cardinality(s \ {Max(s)}) = Cardinality(s) - 1
  <2>1. s \in SUBSET Nat /\ \A y \in s : y <= n
    BY <1>1
  <2>2. Max(s) \in s
    BY <1>1, <1>5, <2>1, GreatestExists
  <2> QED
    BY <1>4, <2>2, FS_RemoveElement
<1>6. \A it : \A s \in SUBSET S :
        s # {} /\ it[s \ {Max(s)}] \in Lists(X) => Step(it, s) \in Lists(X)
  <2>1. ASSUME NEW it, NEW s \in SUBSET S, s # {}, it[s \ {Max(s)}] \in Lists(X)
        PROVE  Step(it, s) \in Lists(X)
    <3>1. items[Max(s)] \in X
      BY <1>1, <1>5, <2>1
    <3> QED
      BY <2>1, <3>1, AppendUniqueType
  <2> QED
    BY <2>1
<1>7. 0 \in Q
  <2> DEFINE it == [s \in SUBSET S |-> stored]
  <2>1. it \in [SUBSET S -> Lists(X)]
    OBVIOUS
  <2>2. ASSUME NEW s \in SUBSET S, Cardinality(s) <= 0
        PROVE  it[s] = IF s = {} THEN stored ELSE Step(it, s)
    <3>1. s = {}
      BY <1>1, <1>4, <2>2
    <3> QED
      BY <3>1
  <2> QED
    BY <2>1, <2>2
<1>8. ASSUME NEW k \in Nat, k \in Q PROVE k + 1 \in Q
  <2>1. PICK it \in [SUBSET S -> Lists(X)] :
               \A s \in SUBSET S :
                  Cardinality(s) <= k => it[s] = IF s = {} THEN stored ELSE Step(it, s)
    BY <1>8
  <2> DEFINE more == [s \in SUBSET S |-> IF Cardinality(s) = k + 1 THEN Step(it, s) ELSE it[s]]
  <2>2. ASSUME NEW s \in SUBSET S PROVE more[s] \in Lists(X)
    <3>1. CASE Cardinality(s) = k + 1
      <4>1. s # {}
        <5>1. Cardinality(s) # 0
          BY <3>1
        <5> QED
          BY <1>4, <5>1
      <4>2. s \ {Max(s)} \in SUBSET S
        BY <1>5, <4>1
      <4>3. Step(it, s) \in Lists(X)
        BY <1>6, <4>1, <4>2
      <4> QED
        BY <3>1, <4>3
    <3>2. CASE Cardinality(s) # k + 1
      BY <3>2
    <3> QED
      BY <3>1, <3>2
  <2>3. more \in [SUBSET S -> Lists(X)]
    BY <2>2
  <2>4. ASSUME NEW s \in SUBSET S, Cardinality(s) <= k + 1
        PROVE  more[s] = IF s = {} THEN stored ELSE Step(more, s)
    <3>1. CASE s = {}
      <4>1. Cardinality(s) = 0
        BY <1>4, <3>1
      <4> QED
        BY <2>1, <3>1, <4>1
    <3>2. CASE s # {}
      <4>1. /\ s \ {Max(s)} \in SUBSET S /\ Cardinality(s \ {Max(s)}) = Cardinality(s) - 1
            /\ Cardinality(s) \in Nat
        <5>1. Cardinality(s) \in 0..n
          BY <1>4
        <5>2. Cardinality(s) \in Nat
          BY <5>1
        <5> QED
          BY <1>5, <3>2, <5>2
      <4>2. Cardinality(s \ {Max(s)}) # k + 1
        BY <2>4, <4>1
      <4>3. more[s \ {Max(s)}] = it[s \ {Max(s)}]
        BY <4>1, <4>2
      <4>4. Step(more, s) = Step(it, s)
        BY <4>3
      <4>5. Cardinality(s) = k + 1 => more[s] = Step(it, s)
        OBVIOUS
      <4>6. Cardinality(s) # k + 1 => more[s] = it[s] /\ it[s] = Step(it, s)
        <5>1. Cardinality(s) # k + 1 => Cardinality(s) <= k
          BY <2>4, <4>1
        <5> QED
          BY <2>1, <3>2, <5>1
      <4> HIDE DEF more, Step
      <4> QED
        BY <3>2, <4>4, <4>5, <4>6
    <3> QED
      BY <3>1, <3>2
  <2>5. \A s \in SUBSET S :
          Cardinality(s) <= k + 1 => more[s] = IF s = {} THEN stored ELSE Step(more, s)
    BY <2>4
  <2> HIDE DEF more, Step
  <2>6. k + 1 \in Nat
    OBVIOUS
  <2> QED
    BY <2>3, <2>5, <2>6
<1>9. Fits(iter)
  <2>1. n \in Q
    <3> HIDE DEF Q
    <3> QED
      BY <1>1, <1>7, <1>8, NatInductionSet
  <2>2. PICK it \in [SUBSET S -> Lists(X)] :
               \A s \in SUBSET S :
                  Cardinality(s) <= n => it[s] = IF s = {} THEN stored ELSE Step(it, s)
    BY <2>1
  <2>3. \A s \in SUBSET S : Cardinality(s) <= n
    BY <1>1, <1>4
  <2>4. \A s \in SUBSET S : it[s] = IF s = {} THEN stored ELSE Step(it, s)
    BY <2>2, <2>3
  <2> HIDE DEF Step
  <2>5. Fits(it)
    BY <2>4
  <2> HIDE DEF Fits
  <2> QED
    BY <2>5
<1> DEFINE R == {k \in Nat : \A s \in SUBSET S : Cardinality(s) = k => iter[s] \in Lists(X)}
<1>10. \A s \in SUBSET S : iter[s] = IF s = {} THEN stored ELSE Step(iter, s)
  <2> HIDE DEF iter, Step
  <2> QED
    BY <1>9
<1> HIDE DEF iter, Fits, Step
<1>11. 0 \in R
  BY <1>4, <1>10
<1>12. ASSUME NEW k \in Nat, k \in R PROVE k + 1 \in R
  <2>1. ASSUME NEW s \in SUBSET S, Cardinality(s) = k + 1 PROVE iter[s] \in Lists(X)
    <3>1. s # {}
      BY <1>4, <2>1
    <3>2. s \ {Max(s)} \in SUBSET S /\ Cardinality(s \ {Max(s)}) = k
      <4>1. /\ s \ {Max(s)} \in SUBSET S
            /\ Cardinality(s \ {Max(s)}) = (k + 1) - 1
        BY <1>5, <2>1, <3>1
      <4> QED
        BY <4>1
    <3>3. iter[s \ {Max(s)}] \in Lists(X)
      BY <1>12, <3>2
    <3> QED
      BY <1>6, <1>10, <3>1, <3>3
  <2> QED
    BY <2>1
<1>13. n \in R
  <2> HIDE DEF R
  <2> QED
    BY <1>1, <1>11, <1>12, NatInductionSet
<1> QED
  BY <1>2, <1>3, <1>13

-----------------------------------------------------------------------------

USE ConstantsAssumption

(* Every update of a row keeps the types of its columns.                   *)

LEMMA SessionUpdatesTyped ==
  ASSUME NEW s \in SessionRow, now \in Nat, NEW n \in Nat, NEW t \in Time, NEW e \in Nat
  PROVE  /\ GetOrCreateSession(s) \in SessionRow
         /\ SetSessionCredentials(s, n, t) \in SessionRow
         /\ BindActiveConnection(s, n) \in SessionRow
         /\ s.lastDisconnect # NULL => RestoreDisconnectedSession(s) \in SessionRow
         /\ TerminateReconnectTimeout(s) \in SessionRow
         /\ RecordDisconnect(s, t, e) \in SessionRow
         /\ MarkSessionInProgress(s) \in SessionRow
         /\ CompleteSessionRow(s, e) \in SessionRow
         /\ UpdateElapsedTime(s, e) \in SessionRow
         /\ TerminateSession(s) \in SessionRow
         /\ MarkFailed(s) \in SessionRow
         /\ SaveEvaluated(s) \in SessionRow
<1> USE DEF SessionRow, SessionStatuses, ActiveStatuses, TerminalSessionStatuses, Time
<1>0. s.timeouts + 1 \in Nat /\ s.disconnects + 1 \in Nat /\ Greatest(s.elapsed, e) \in Nat
  BY DEF Greatest
<1>0a. s.lastDisconnect # NULL => s.pause + Greatest(0, now - s.lastDisconnect) \in Nat
  BY DEF Greatest
<1>1. GetOrCreateSession(s) \in SessionRow
  BY DEF GetOrCreateSession
<1>2. SetSessionCredentials(s, n, t) \in SessionRow
  BY DEF SetSessionCredentials
<1>3. BindActiveConnection(s, n) \in SessionRow
  BY DEF BindActiveConnection
<1>4. s.lastDisconnect # NULL => RestoreDisconnectedSession(s) \in SessionRow
  BY <1>0a DEF RestoreDisconnectedSession
<1>5. TerminateReconnectTimeout(s) \in SessionRow
  BY <1>0 DEF TerminateReconnectTimeout
<1>6. RecordDisconnect(s, t, e) \in SessionRow
  <2>1. CASE ShouldTerminate(s)
    BY <1>0, <2>1, ZenonT(60) DEF RecordDisconnect
  <2>2. CASE ~ShouldTerminate(s)
    BY <1>0, <2>2, ZenonT(60) DEF RecordDisconnect
  <2> QED  BY <2>1, <2>2
<1>7. MarkSessionInProgress(s) \in SessionRow
  BY DEF MarkSessionInProgress
<1>8. CompleteSessionRow(s, e) \in SessionRow
  BY DEF CompleteSessionRow
<1>9. UpdateElapsedTime(s, e) \in SessionRow
  BY <1>0 DEF UpdateElapsedTime
<1>10. TerminateSession(s) \in SessionRow
  BY DEF TerminateSession
<1>11. MarkFailed(s) \in SessionRow
  BY DEF MarkFailed
<1>12. SaveEvaluated(s) \in SessionRow
  BY DEF SaveEvaluated
<1> QED
  BY <1>1, <1>2, <1>3, <1>4, <1>5, <1>6, <1>7, <1>8, <1>9, <1>10, <1>11, <1>12

LEMMA CandidateUpdatesTyped ==
  ASSUME NEW c \in CandidateRow, now \in Nat
  PROVE  /\ ConsumeInvitation(c) \in CandidateRow
         /\ MarkCandidateTerminated(c) \in CandidateRow
         /\ MarkStarted(c) \in CandidateRow
         /\ MarkTimerStarted(c) \in CandidateRow
         /\ MarkCompleted(c) \in CandidateRow
         /\ MarkCandidateEvaluated(c) \in CandidateRow
BY DEF CandidateRow, CandidateStatuses, TerminalCandidateStatuses, Time, Coalesce,
   ConsumeInvitation, MarkCandidateTerminated, MarkStarted, MarkTimerStarted,
   MarkCompleted, MarkCandidateEvaluated

(* Most requests touch neither the counters nor the credentials.           *)

Evaluated == {"EVALUATED", "EVALUATION_FAILED"}

QuietRow(s, t) ==
    /\ t.disconnects = s.disconnects /\ t.timeouts = s.timeouts /\ t.pause = s.pause
    /\ t.token = s.token /\ t.expires = s.expires
    /\ t.lastDisconnect = s.lastDisconnect
    /\ t.conn \in {s.conn, NULL}
    /\ t.status = "DISCONNECTED" =>
          s.status = "DISCONNECTED" /\ t.deadline = s.deadline /\ t.conn = s.conn
    /\ t.deadline # NULL => t.status \in {"DISCONNECTED"} \cup Evaluated
    /\ t.conn # NULL => t.status \in ActiveStatuses \cup Evaluated

LEMMA ChargedAreIds ==
  ASSUME TypeOK
  PROVE  charged \subseteq Nat /\ NULL \notin charged /\ IsFiniteSet(charged)
<1>1. charged \subseteq 1..generations /\ generations \in Nat
  BY DEF TypeOK
<1>2. 1..generations \subseteq Nat
  OBVIOUS
<1>3. charged \subseteq Nat
  BY <1>1, <1>2
<1>4. IsFiniteSet(1..generations)
  BY <1>1, 1 \in Int, generations \in Int, FS_Interval
<1>5. IsFiniteSet(charged)
  BY <1>1, <1>4, FS_Subset
<1> QED
  BY <1>3, <1>5

LEMMA QuietStep ==
  ASSUME IndInv, session' \in SessionRow, ca' \in CandidateRow, OnlyRows,
         QuietRow(session, session'), ca'.consumed = ca.consumed
  PROVE  IndInv'
<1> USE DEF IndInv, OnlyRows, QuietRow
<1>1. TypeOK'
  BY DEF TypeOK
<1>2. GraceCoherent'
  BY DEF GraceCoherent, Evaluated
<1>3. ChargedOnce'
  BY ChargedAreIds DEF ChargedOnce
<1>4. PauseBounded'
  BY DEF PauseBounded
<1>5. DropLedger'
  BY DEF DropLedger, TypeOK, EventNames
<1>6. OneCredential'
  BY DEF OneCredential
<1> QED
  BY <1>1, <1>2, <1>3, <1>4, <1>5, <1>6

LEMMA QuietUpdates ==
  ASSUME IndInv, NEW e \in Nat
  PROVE  /\ QuietRow(session, session)
         /\ QuietRow(session, GetOrCreateSession(session))
         /\ QuietRow(session, MarkSessionInProgress(GetOrCreateSession(session)))
         /\ QuietRow(session, MarkSessionInProgress(session))
         /\ QuietRow(session, CompleteSessionRow(session, e))
         /\ QuietRow(session, UpdateElapsedTime(session, e))
         /\ QuietRow(session, TerminateSession(session))
         /\ QuietRow(session, MarkFailed(session))
         /\ QuietRow(session, SaveEvaluated(session))
<1> USE DEF IndInv, TypeOK, SessionRow, GraceCoherent, QuietRow, Evaluated, ActiveStatuses
<1>1. QuietRow(session, session) /\ QuietRow(session, GetOrCreateSession(session))
  BY DEF GetOrCreateSession
<1>2. /\ QuietRow(session, MarkSessionInProgress(GetOrCreateSession(session)))
      /\ QuietRow(session, MarkSessionInProgress(session))
  BY DEF GetOrCreateSession, MarkSessionInProgress
<1>3. QuietRow(session, CompleteSessionRow(session, e))
  BY DEF CompleteSessionRow
<1>4. QuietRow(session, UpdateElapsedTime(session, e))
  BY DEF UpdateElapsedTime
<1>5. QuietRow(session, TerminateSession(session))
  BY DEF TerminateSession
<1>6. QuietRow(session, MarkFailed(session)) /\ QuietRow(session, SaveEvaluated(session))
  BY DEF MarkFailed, SaveEvaluated
<1> QED
  BY <1>1, <1>2, <1>3, <1>4, <1>5, <1>6

LEMMA CandidateUpdatesKeepConsumed ==
  ASSUME NEW c \in CandidateRow
  PROVE  /\ MarkCandidateTerminated(c).consumed = c.consumed
         /\ MarkStarted(c).consumed = c.consumed
         /\ MarkTimerStarted(c).consumed = c.consumed
         /\ MarkCompleted(c).consumed = c.consumed
         /\ MarkCandidateEvaluated(c).consumed = c.consumed
BY DEF CandidateRow, MarkCandidateTerminated, MarkStarted, MarkTimerStarted,
   MarkCompleted, MarkCandidateEvaluated

(* One lemma per request that does touch them.                             *)

LEMMA EnterStep == IndInv /\ EnterWithInvitation => IndInv'
<1> SUFFICES ASSUME IndInv, EnterWithInvitation PROVE IndInv'
  OBVIOUS
<1> DEFINE s == GetOrCreateSession(session)
<1>1. s \in SessionRow /\ QuietRow(session, s)
  BY SessionUpdatesTyped, QuietUpdates, 0 \in Nat, NULL \in Time DEF IndInv, TypeOK, Time
<1>2. TokenExpiry \in Nat
  BY DEF TokenExpiry, Greatest, IndInv, TypeOK
<1>3. CASE ca.consumed
  <2>1. s.token # NULL
    BY <1>1, <1>3 DEF IndInv, OneCredential, QuietRow
  <2>2. session' = s /\ OnlyRows /\ UNCHANGED ca
    BY <1>3, <2>1 DEF EnterWithInvitation, WithCredentials, OnlyRows
  <2> QED
    BY <1>1, <2>2, QuietStep DEF IndInv, TypeOK
<1>4. CASE ~ca.consumed
  <2>1. s.token = NULL /\ tokens = 0 /\ events["INVITE_LINK_CONSUMED"] = 0
    BY <1>1, <1>4 DEF IndInv, OneCredential, QuietRow
  <2>2. /\ session' = SetSessionCredentials(s, 1, TokenExpiry) /\ tokens' = 1
        /\ ca' = ConsumeInvitation(ca) /\ events' = Record("INVITE_LINK_CONSUMED")
        /\ UNCHANGED <<now, generations, drops, charged>>
    BY <1>4, <2>1 DEF EnterWithInvitation, WithCredentials
  <2>3. session' \in SessionRow /\ ca' \in CandidateRow
    BY <1>1, <1>2, <2>2, SessionUpdatesTyped, CandidateUpdatesTyped, 0 \in Nat
       DEF IndInv, TypeOK, Time
  <2>4. /\ session'.token = 1 /\ session'.expires = TokenExpiry
        /\ session'.disconnects = session.disconnects
        /\ session'.timeouts = session.timeouts /\ session'.pause = session.pause
        /\ session'.lastDisconnect = session.lastDisconnect
        /\ session'.status = s.status /\ session'.conn = s.conn
        /\ session'.deadline = s.deadline
    BY <1>1, <2>2 DEF SetSessionCredentials, QuietRow, SessionRow
  <2>5. ca'.consumed
    BY <2>2 DEF ConsumeInvitation, IndInv, TypeOK, CandidateRow
  <2>6. /\ events' \in [EventNames -> Nat]
        /\ events'["INVITE_LINK_CONSUMED"] = 1
        /\ \A n \in EventNames \ {"INVITE_LINK_CONSUMED"} : events'[n] = events[n]
    BY <2>1, <2>2 DEF Record, IndInv, TypeOK, EventNames
  <2>7. TypeOK'
    BY <2>2, <2>3, <2>6 DEF IndInv, TypeOK
  <2>8. GraceCoherent'
    BY <1>1, <2>2, <2>4 DEF IndInv, GraceCoherent, QuietRow, Evaluated
  <2>9. ChargedOnce'
    BY <1>1, <2>2, <2>4, ChargedAreIds DEF IndInv, ChargedOnce, QuietRow
  <2>10. PauseBounded'
    BY <2>4, <2>6 DEF IndInv, PauseBounded, EventNames
  <2>11. DropLedger'
    <3>1. session'.status = "DISCONNECTED" => session.status = "DISCONNECTED"
      BY <1>1, <2>4 DEF QuietRow
    <3> QED
      BY <2>4, <2>6, <3>1 DEF IndInv, TypeOK, DropLedger, EventNames
  <2>12. OneCredential'
    BY <1>2, <2>2, <2>4, <2>5, <2>6 DEF OneCredential
  <2> QED
    BY <2>7, <2>8, <2>9, <2>10, <2>11, <2>12 DEF IndInv
<1> QED
  BY <1>3, <1>4

LEMMA TimeoutStep == IndInv /\ AuthorizeTimeout => IndInv'
<1> SUFFICES ASSUME IndInv, AuthorizeTimeout PROVE IndInv'
  OBVIOUS
<1>1. session \in SessionRow /\ ca \in CandidateRow /\ session.status = "DISCONNECTED"
  BY DEF IndInv, TypeOK, AuthorizeTimeout
<1>2. session' \in SessionRow /\ ca' \in CandidateRow
  BY <1>1, SessionUpdatesTyped, CandidateUpdatesTyped, 0 \in Nat
     DEF IndInv, TypeOK, Time, AuthorizeTimeout
<1>3. /\ session'.status = "TERMINATED" /\ session'.deadline = NULL /\ session'.conn = NULL
      /\ session'.timeouts = session.timeouts + 1
      /\ session'.disconnects = session.disconnects /\ session'.pause = session.pause
      /\ session'.token = session.token /\ session'.expires = session.expires
  BY <1>1 DEF AuthorizeTimeout, TerminateReconnectTimeout, SessionRow
<1>4. ca'.consumed = ca.consumed
  BY <1>1, CandidateUpdatesKeepConsumed DEF AuthorizeTimeout
<1>5. /\ events' \in [EventNames -> Nat]
      /\ events'["SESSION_DISCONNECT_TIMEOUT_RECORDED"]
            = events["SESSION_DISCONNECT_TIMEOUT_RECORDED"] + 1
      /\ \A n \in EventNames \ {"SESSION_DISCONNECT_TIMEOUT_RECORDED"} :
            events'[n] = events[n]
  BY DEF AuthorizeTimeout, Record, IndInv, TypeOK, EventNames
<1>6. UNCHANGED <<now, generations, tokens, drops, charged>>
  BY DEF AuthorizeTimeout
<1>7. TypeOK'
  BY <1>2, <1>5, <1>6 DEF IndInv, TypeOK
<1>8. GraceCoherent'
  BY <1>3, <1>6 DEF IndInv, GraceCoherent
<1>9. ChargedOnce'
  BY <1>3, <1>6, ChargedAreIds DEF IndInv, ChargedOnce
<1>10. PauseBounded'
  BY <1>3, <1>5 DEF IndInv, PauseBounded, EventNames
<1>11. DropLedger'
  BY <1>1, <1>3, <1>5 DEF IndInv, TypeOK, DropLedger, EventNames
<1>12. OneCredential'
  BY <1>3, <1>4, <1>5, <1>6 DEF IndInv, OneCredential, EventNames
<1> QED
  BY <1>7, <1>8, <1>9, <1>10, <1>11, <1>12 DEF IndInv

LEMMA ReconnectStep == IndInv /\ AuthorizeReconnect => IndInv'
<1> SUFFICES ASSUME IndInv, AuthorizeReconnect PROVE IndInv'
  OBVIOUS
<1> DEFINE r == RestoreDisconnectedSession(session)
           gap == Greatest(0, now - session.lastDisconnect)
<1>1. session \in SessionRow /\ ca \in CandidateRow /\ session.status = "DISCONNECTED"
  BY DEF IndInv, TypeOK, AuthorizeReconnect
<1>2. /\ session.deadline \in Nat /\ session.lastDisconnect \in Nat
      /\ session.conn = NULL /\ now \in Nat /\ generations \in Nat
  BY <1>1 DEF IndInv, TypeOK, GraceCoherent, SessionRow, Time
<1>3. gap \in 0..ReconnectWindow
  <2>1. now <= session.deadline
    BY <1>2 DEF AuthorizeReconnect, GraceExpired
  <2>2. session.deadline <= session.lastDisconnect + ReconnectWindow
    BY <1>1 DEF IndInv, GraceCoherent
  <2> QED
    BY <1>2, <2>1, <2>2 DEF Greatest
<1>4. r \in SessionRow
  BY <1>1, <1>2, SessionUpdatesTyped, 0 \in Nat DEF Time
<1>5. /\ r.status = "IN_PROGRESS" /\ r.deadline = NULL /\ r.pause = session.pause + gap
      /\ r.disconnects = session.disconnects /\ r.timeouts = session.timeouts
      /\ r.token = session.token /\ r.expires = session.expires
  BY <1>1 DEF RestoreDisconnectedSession, SessionRow
<1>6. /\ session' = BindActiveConnection(r, generations + 1)
      /\ generations' = generations + 1
  BY <1>2 DEF AuthorizeReconnect, Greatest
<1>7. session' \in SessionRow /\ ca' \in CandidateRow /\ ca'.consumed = ca.consumed
  <2>1. generations + 1 \in Nat
    BY <1>2
  <2>2. session' \in SessionRow
    BY <1>2, <1>4, <1>6, <2>1, SessionUpdatesTyped DEF Time
  <2>3. ca' = MarkStarted(ca)
    BY DEF AuthorizeReconnect
  <2> QED
    BY <1>1, <1>2, <2>2, <2>3, CandidateUpdatesTyped, CandidateUpdatesKeepConsumed
<1>8. /\ session'.status = "IN_PROGRESS" /\ session'.deadline = NULL
      /\ session'.pause = session.pause + gap /\ session'.conn = generations + 1
      /\ session'.disconnects = session.disconnects
      /\ session'.timeouts = session.timeouts
      /\ session'.token = session.token /\ session'.expires = session.expires
  BY <1>4, <1>5, <1>6 DEF BindActiveConnection, ActiveStatuses, SessionRow
<1>9. /\ events' \in [EventNames -> Nat]
      /\ events'["SESSION_RECONNECTED"] = events["SESSION_RECONNECTED"] + 1
      /\ \A n \in EventNames \ {"SESSION_RECONNECTED"} : events'[n] = events[n]
  BY DEF AuthorizeReconnect, Record, IndInv, TypeOK, EventNames
<1>10. UNCHANGED <<now, tokens, drops, charged>>
  BY DEF AuthorizeReconnect
<1>11. TypeOK'
  BY <1>2, <1>6, <1>7, <1>9, <1>10 DEF IndInv, TypeOK
<1>12. GraceCoherent'
  BY <1>8, <1>10 DEF IndInv, GraceCoherent, ActiveStatuses
<1>13. ChargedOnce'
  <2>1. generations + 1 \notin charged
    BY <1>2 DEF IndInv, TypeOK
  <2> QED
    BY <1>8, <1>10, <2>1 DEF IndInv, ChargedOnce
<1>14. DropLedger'
  BY <1>1, <1>8, <1>9 DEF IndInv, TypeOK, DropLedger, EventNames
<1>15. PauseBounded'
  <2> DEFINE n == events["SESSION_RECONNECTED"]
  <2>1. n \in Nat /\ session.pause \in Nat /\ session.pause <= ReconnectWindow * n
    BY <1>1 DEF IndInv, TypeOK, PauseBounded, EventNames, SessionRow
  <2>2. ReconnectWindow * (n + 1) = ReconnectWindow * n + ReconnectWindow
    BY <2>1
  <2>3. session'.pause <= ReconnectWindow * events'["SESSION_RECONNECTED"]
    BY <1>3, <1>8, <1>9, <2>1, <2>2
  <2>4. events'["SESSION_RECONNECTED"] <= events'["SESSION_DISCONNECTED"]
    BY <1>1, <1>9 DEF IndInv, TypeOK, DropLedger, EventNames, SessionRow
  <2> QED
    BY <1>9, <2>3, <2>4 DEF IndInv, PauseBounded, EventNames
<1>16. OneCredential'
  BY <1>7, <1>8, <1>9, <1>10 DEF IndInv, OneCredential, EventNames
<1> QED
  BY <1>11, <1>12, <1>13, <1>14, <1>15, <1>16 DEF IndInv

LEMMA ConnectionStep == IndInv /\ AuthorizeConnection => IndInv'
<1> SUFFICES ASSUME IndInv, AuthorizeConnection PROVE IndInv'
  OBVIOUS
<1>1. /\ session \in SessionRow /\ generations \in Nat
      /\ session.conn \in Nat \cup {NULL} /\ 0 \in Time
  BY DEF IndInv, TypeOK, SessionRow, Time
<1>2. /\ ConnectionId \in Nat /\ ConnectionId \notin charged
      /\ generations' \in Nat /\ generations' >= generations
  BY <1>1 DEF ConnectionId, AuthorizeConnection, Greatest, IndInv, TypeOK, ChargedOnce
<1>3. session' = BindActiveConnection(session, ConnectionId)
  BY DEF AuthorizeConnection
<1>4. UNCHANGED <<ca, events, now, tokens, drops, charged>>
  BY DEF AuthorizeConnection
<1>5. session' \in SessionRow
  BY <1>1, <1>2, <1>3, SessionUpdatesTyped DEF IndInv, TypeOK
<1>6. /\ session'.status = session.status /\ session'.deadline = session.deadline
      /\ session'.lastDisconnect = session.lastDisconnect
      /\ session'.pause = session.pause /\ session'.timeouts = session.timeouts
      /\ session'.disconnects = session.disconnects
      /\ session'.token = session.token /\ session'.expires = session.expires
      /\ \/ session'.conn = session.conn
         \/ session'.conn = ConnectionId /\ session.status \in ActiveStatuses
  BY <1>1, <1>3 DEF BindActiveConnection, SessionRow
<1>7. TypeOK'
  <2>1. 1..generations \subseteq 1..generations'
    BY <1>1, <1>2
  <2> QED
    BY <1>2, <1>4, <1>5, <2>1 DEF IndInv, TypeOK
<1>8. GraceCoherent'
  BY <1>4, <1>6 DEF IndInv, GraceCoherent, AuthorizeConnection
<1>9. ChargedOnce'
  BY <1>2, <1>4, <1>6 DEF IndInv, ChargedOnce
<1>10. PauseBounded'
  BY <1>4, <1>6 DEF IndInv, PauseBounded
<1>11. DropLedger'
  BY <1>4, <1>6 DEF IndInv, DropLedger
<1>12. OneCredential'
  BY <1>4, <1>6 DEF IndInv, OneCredential
<1> QED
  BY <1>7, <1>8, <1>9, <1>10, <1>11, <1>12 DEF IndInv

LEMMA DropStep ==
  ASSUME IndInv, NEW d \in drops, NEW elapsed \in Elapsed, DisconnectRecorded(d, elapsed)
  PROVE  IndInv'
<1> DEFINE last == ShouldTerminate(session)
           name == IF last THEN "SESSION_TERMINATED_MAX_DISCONNECTS"
                   ELSE "SESSION_DISCONNECTED"
<1>1. /\ session \in SessionRow /\ ca \in CandidateRow /\ now \in Nat
      /\ d.id \in 1..generations /\ d.deadline \in Nat /\ elapsed \in Nat
  BY DEF IndInv, TypeOK
<1>2. session.conn = d.id /\ session.status \in ActiveStatuses
  BY DEF DisconnectRecorded, DisconnectMatches
<1>3. d.id \notin charged /\ session.disconnects \in Nat
  BY <1>1, <1>2 DEF IndInv, ChargedOnce, SessionRow
<1>4. session' = RecordDisconnect(session, d.deadline, elapsed)
  BY DEF DisconnectRecorded
<1>5. session' \in SessionRow
  BY <1>1, <1>4, SessionUpdatesTyped DEF Time
<1>6. /\ session'.status = (IF last THEN "TERMINATED" ELSE "DISCONNECTED")
      /\ session'.deadline = (IF last THEN NULL ELSE d.deadline)
      /\ session'.conn = NULL /\ session'.lastDisconnect = now
      /\ session'.disconnects = session.disconnects + 1
      /\ session'.timeouts = session.timeouts /\ session'.pause = session.pause
      /\ session'.token = session.token /\ session'.expires = session.expires
  BY <1>1, <1>4 DEF RecordDisconnect, SessionRow
<1>7. ca' \in CandidateRow /\ ca'.consumed = ca.consumed
  BY <1>1, CandidateUpdatesTyped, CandidateUpdatesKeepConsumed DEF DisconnectRecorded
<1>8. /\ name \in EventNames /\ events' \in [EventNames -> Nat]
      /\ events'[name] = events[name] + 1
      /\ \A n \in EventNames \ {name} : events'[n] = events[n]
  BY DEF DisconnectRecorded, Record, IndInv, TypeOK, EventNames
<1>9. /\ charged' = charged \cup {d.id} /\ drops' = drops \ {d}
      /\ UNCHANGED <<now, generations, tokens>>
  BY DEF DisconnectRecorded
<1>10. TypeOK'
  BY <1>1, <1>5, <1>7, <1>8, <1>9 DEF IndInv, TypeOK
<1>11. GraceCoherent'
  <2>1. d.deadline <= now + ReconnectWindow
    BY DEF IndInv, GraceCoherent
  <2>2. ~last => session.disconnects + 1 \in 1..(MaxDisconnects - 1)
    BY <1>3 DEF ShouldTerminate
  <2>3. \A x \in drops' : x.deadline <= now' + ReconnectWindow
    BY <1>9 DEF IndInv, GraceCoherent
  <2>4. d.deadline # NULL /\ now # NULL
    BY <1>1
  <2>5. CASE last
    BY <1>6, <2>3, <2>5 DEF GraceCoherent
  <2>6. CASE ~last
    BY <1>6, <1>9, <2>1, <2>2, <2>3, <2>4, <2>6 DEF GraceCoherent
  <2> QED
    BY <2>5, <2>6
<1>12. ChargedOnce'
  <2>1. Cardinality(charged') = Cardinality(charged) + 1
    BY <1>3, <1>9, ChargedAreIds, FS_AddElement DEF IndInv
  <2>2. NULL \notin charged'
    BY <1>1, <1>9, ChargedAreIds DEF IndInv, TypeOK
  <2> QED
    BY <1>6, <2>1, <2>2 DEF IndInv, ChargedOnce
<1>13. PauseBounded'
  <2>1. /\ events["SESSION_DISCONNECTED"] \in Nat
        /\ events["SESSION_TERMINATED_MAX_DISCONNECTS"] \in Nat
        /\ events["SESSION_RECONNECTED"] \in Nat
    BY DEF IndInv, TypeOK, EventNames
  <2>2. events'["SESSION_RECONNECTED"] = events["SESSION_RECONNECTED"]
    BY <1>8 DEF EventNames
  <2>3. CASE last
    BY <1>6, <1>8, <2>1, <2>2, <2>3 DEF IndInv, PauseBounded, EventNames
  <2>4. CASE ~last
    <3>1. events["SESSION_DISCONNECTED"] <= session.disconnects
      BY <2>1 DEF IndInv, DropLedger
    <3>2. session.disconnects + 1 < MaxDisconnects
      BY <1>3, <2>4 DEF ShouldTerminate
    <3>3. events'["SESSION_DISCONNECTED"] = events["SESSION_DISCONNECTED"] + 1
      BY <1>8, <2>4
    <3> QED
      BY <1>3, <1>6, <2>1, <2>2, <3>1, <3>2, <3>3 DEF IndInv, PauseBounded
  <2> QED
    BY <2>3, <2>4
<1>14. DropLedger'
  <2>1. session.timeouts \in Nat /\ session.status # "DISCONNECTED"
    BY <1>1, <1>2 DEF SessionRow, ActiveStatuses
  <2>2. CASE last
    BY <1>3, <1>6, <1>8, <2>1, <2>2 DEF IndInv, TypeOK, DropLedger, EventNames
  <2>3. CASE ~last
    BY <1>3, <1>6, <1>8, <2>1, <2>3 DEF IndInv, TypeOK, DropLedger, EventNames
  <2> QED
    BY <2>2, <2>3
<1>15. OneCredential'
  BY <1>6, <1>7, <1>8, <1>9 DEF IndInv, OneCredential, EventNames
<1> QED
  BY <1>10, <1>11, <1>12, <1>13, <1>14, <1>15 DEF IndInv

LEMMA CallbackStep ==
  ASSUME IndInv, drops' \in SUBSET [id: 1..generations, deadline: Nat],
         \A d \in drops' : d.deadline <= now + ReconnectWindow,
         UNCHANGED <<session, ca, events, now, generations, tokens, charged>>
  PROVE  IndInv'
BY DEF IndInv, TypeOK, GraceCoherent, ChargedOnce, PauseBounded, DropLedger, OneCredential

LEMMA TickStep == IndInv /\ Tick => IndInv'
<1> SUFFICES ASSUME IndInv, Tick PROVE IndInv'
  OBVIOUS
<1>1. now' = now + 1 /\ now \in Nat
  BY DEF Tick, IndInv, TypeOK
<1>2. UNCHANGED <<session, ca, events, generations, tokens, drops, charged>>
  BY DEF Tick
<1>3. \A d \in drops' : d.deadline <= now' + ReconnectWindow
  BY <1>1, <1>2 DEF IndInv, TypeOK, GraceCoherent
<1>4. TypeOK'
  BY <1>1, <1>2 DEF IndInv, TypeOK
<1>5. GraceCoherent'
  BY <1>2, <1>3 DEF IndInv, GraceCoherent
<1>6. ChargedOnce' /\ PauseBounded' /\ DropLedger' /\ OneCredential'
  BY <1>2 DEF IndInv, ChargedOnce, PauseBounded, DropLedger, OneCredential
<1> QED
  BY <1>4, <1>5, <1>6 DEF IndInv

LEMMA EngineStep == IndInv /\ Engine => IndInv'
<1> SUFFICES ASSUME IndInv, Engine PROVE IndInv'
  OBVIOUS
<1>0. /\ session \in SessionRow /\ ca \in CandidateRow /\ now \in Nat
      /\ 0 \in Nat /\ 0 \in Time /\ Elapsed \subseteq Nat
  BY DEF IndInv, TypeOK, Time
<1>1. CASE InitializeInterviewContext
  <2>1. GetOrCreateSession(session) \in SessionRow
    BY <1>0, SessionUpdatesTyped
  <2>2. session' \in SessionRow /\ QuietRow(session, session')
    BY <1>0, <1>1, <2>1, SessionUpdatesTyped, QuietUpdates DEF InitializeInterviewContext
  <2> QED
    BY <1>0, <1>1, <2>2, CandidateUpdatesTyped, CandidateUpdatesKeepConsumed, QuietStep
       DEF InitializeInterviewContext
<1>2. CASE SessionInProgress
  BY <1>0, <1>2, SessionUpdatesTyped, QuietUpdates, QuietStep DEF SessionInProgress
<1>3. CASE CandidateStarted
  BY <1>0, <1>3, QuietUpdates, CandidateUpdatesTyped, CandidateUpdatesKeepConsumed,
     QuietStep DEF CandidateStarted
<1>4. CASE CandidateTimerStarted
  BY <1>0, <1>4, QuietUpdates, CandidateUpdatesTyped, CandidateUpdatesKeepConsumed,
     QuietStep DEF CandidateTimerStarted
<1>5. CASE \E elapsed \in Elapsed : PersistTurn(elapsed)
  <2>1. PICK elapsed \in Elapsed : PersistTurn(elapsed)
    BY <1>5
  <2> QED
    BY <1>0, <2>1, SessionUpdatesTyped, QuietUpdates, QuietStep DEF PersistTurn
<1>6. CASE ProctoringTermination
  BY <1>0, <1>6, SessionUpdatesTyped, QuietUpdates, CandidateUpdatesTyped,
     CandidateUpdatesKeepConsumed, QuietStep DEF ProctoringTermination
<1>7. CASE \E elapsed \in Elapsed : CompleteSession(elapsed)
  <2>1. PICK elapsed \in Elapsed : CompleteSession(elapsed)
    BY <1>7
  <2> QED
    BY <1>0, <2>1, SessionUpdatesTyped, QuietUpdates, QuietStep DEF CompleteSession
<1>8. CASE CandidateCompleted
  BY <1>0, <1>8, QuietUpdates, CandidateUpdatesTyped, CandidateUpdatesKeepConsumed,
     QuietStep DEF CandidateCompleted
<1>9. CASE MarkEvaluationFailed
  BY <1>0, <1>9, SessionUpdatesTyped, QuietUpdates, QuietStep DEF MarkEvaluationFailed
<1>10. CASE SaveFinalEvaluation
  BY <1>0, <1>10, SessionUpdatesTyped, QuietUpdates, CandidateUpdatesTyped,
     CandidateUpdatesKeepConsumed, QuietStep DEF SaveFinalEvaluation
<1> QED
  BY <1>1, <1>2, <1>3, <1>4, <1>5, <1>6, <1>7, <1>8, <1>9, <1>10 DEF Engine, Progress

LEMMA RefusedStep == IndInv /\ EnterRefused => IndInv'
<1> SUFFICES ASSUME IndInv, EnterRefused PROVE IndInv'
  OBVIOUS
<1>1. session' = GetOrCreateSession(session) /\ UNCHANGED ca /\ OnlyRows
  BY DEF EnterRefused, OnlyRows
<1>2. /\ session \in SessionRow /\ ca \in CandidateRow /\ now \in Nat
      /\ 0 \in Nat /\ 0 \in Time
  BY DEF IndInv, TypeOK, Time
<1>3. session' \in SessionRow /\ QuietRow(session, session')
  BY <1>1, <1>2, SessionUpdatesTyped, QuietUpdates
<1> QED
  BY <1>1, <1>2, <1>3, QuietStep

LEMMA InitIndInv == Init => IndInv
<1> SUFFICES ASSUME Init PROVE IndInv
  OBVIOUS
<1>1. TypeOK
  BY DEF Init, TypeOK, Absent, SessionRow, SessionStatuses, CandidateRow,
     CandidateStatuses, Time
<1>2. GraceCoherent /\ PauseBounded /\ DropLedger /\ OneCredential
  BY DEF Init, Absent, GraceCoherent, PauseBounded, DropLedger, OneCredential, EventNames
<1>3. ChargedOnce
  BY FS_EmptySet DEF Init, Absent, ChargedOnce
<1> QED
  BY <1>1, <1>2, <1>3 DEF IndInv

LEMMA IndInvStep == IndInv /\ [Next]_vars => IndInv'
<1> SUFFICES ASSUME IndInv, [Next]_vars PROVE IndInv'
  OBVIOUS
<1>1. CASE UNCHANGED vars
  BY <1>1, CallbackStep DEF vars, IndInv, TypeOK, GraceCoherent
<1>2. CASE Tick
  BY <1>2, TickStep
<1>3. CASE Candidate
  BY <1>3, RefusedStep, EnterStep, TimeoutStep, ReconnectStep, ConnectionStep
     DEF Candidate, Authorize
<1>4. CASE \E id \in 1..generations : DisconnectArrives(id)
  <2>1. PICK id \in 1..generations : DisconnectArrives(id)
    BY <1>4
  <2>2. /\ drops' \in SUBSET [id: 1..generations, deadline: Nat]
        /\ \A d \in drops' : d.deadline <= now + ReconnectWindow
    BY <2>1 DEF DisconnectArrives, IndInv, TypeOK, GraceCoherent
  <2> QED
    BY <2>1, <2>2, CallbackStep DEF DisconnectArrives
<1>5. CASE \E d \in drops : DisconnectIgnored(d)
  <2>1. /\ drops' \in SUBSET [id: 1..generations, deadline: Nat]
        /\ \A d \in drops' : d.deadline <= now + ReconnectWindow
    BY <1>5 DEF DisconnectIgnored, IndInv, TypeOK, GraceCoherent
  <2> QED
    BY <1>5, <2>1, CallbackStep DEF DisconnectIgnored
<1>6. CASE \E d \in drops, elapsed \in Elapsed : DisconnectRecorded(d, elapsed)
  BY <1>6, DropStep
<1>7. CASE Engine
  BY <1>7, EngineStep
<1> QED
  BY <1>1, <1>2, <1>3, <1>4, <1>5, <1>6, <1>7 DEF Next, LiveKit

-----------------------------------------------------------------------------
(* Theorems.                                                               *)

\* The named invariants of InterviewSession hold together, whatever the
\* engine does and in whatever order its calls arrive.
THEOREM Inductive == Spec => []IndInv
  BY InitIndInv, IndInvStep, PTL DEF Spec

\* The rows keep the types of their columns.
THEOREM Typing == Spec => []TypeOK
<1>1. IndInv => TypeOK
  BY DEF IndInv
<1> QED
  BY <1>1, Inductive, PTL

\* A DISCONNECTED session always has a deadline, at most one window after
\* its last drop, and no connection: the grace period is never orphaned by
\* an overwrite of the engine.
THEOREM Grace == Spec => []GraceCoherent
<1>1. IndInv => GraceCoherent
  BY DEF IndInv
<1> QED
  BY <1>1, Inductive, PTL

\* No connection generation is ever charged twice, however often and late
\* its close callback is delivered.
THEOREM NoDoubleCharge == Spec => []ChargedOnce
<1>1. IndInv => ChargedOnce
  BY DEF IndInv
<1> QED
  BY <1>1, Inductive, PTL

\* The pause a candidate accumulates by reconnecting is bounded for good.
THEOREM BoundedPause == Spec => []PauseBounded
<1>1. IndInv => PauseBounded
  BY DEF IndInv
<1> QED
  BY <1>1, Inductive, PTL

\* The counters of the row and the audit log tell the same story.
THEOREM Ledger == Spec => []DropLedger
<1>1. IndInv => DropLedger
  BY DEF IndInv
<1> QED
  BY <1>1, Inductive, PTL

\* One invitation yields one session token.
THEOREM SingleCredential == Spec => []OneCredential
<1>1. IndInv => OneCredential
  BY DEF IndInv
<1> QED
  BY <1>1, Inductive, PTL

-----------------------------------------------------------------------------
(* With an orderly engine.                                                 *)

\* What an orderly engine adds to IndInv.
OrderlyInv ==
    /\ IndInv
    /\ RowsAgree
    /\ LastDropTerminates
    /\ session.conn # NULL => session.status \in ActiveStatuses

LEMMA OrderlyInit == Init => OrderlyInv
BY InitIndInv DEF Init, OrderlyInv, RowsAgree, LastDropTerminates, Absent,
   TerminalSessionStatuses, TerminalCandidateStatuses

(* A row the step leaves in its phase, or closes.                          *)

Steady(s, t) ==
    /\ t.disconnects = s.disconnects /\ t.pause = s.pause
    /\ t.conn \in {s.conn, NULL}

LEMMA SteadyUpdates ==
  ASSUME NEW s \in SessionRow, NEW e \in Nat
  PROVE  /\ Steady(s, s) /\ Steady(s, GetOrCreateSession(s))
         /\ Steady(s, MarkSessionInProgress(s)) /\ Steady(s, CompleteSessionRow(s, e))
         /\ Steady(s, UpdateElapsedTime(s, e)) /\ Steady(s, TerminateSession(s))
         /\ Steady(s, MarkFailed(s)) /\ Steady(s, SaveEvaluated(s))
         /\ MarkSessionInProgress(s).status = "IN_PROGRESS"
         /\ CompleteSessionRow(s, e).status = "COMPLETED"
         /\ CompleteSessionRow(s, e).conn = NULL
         /\ UpdateElapsedTime(s, e).status = s.status
         /\ UpdateElapsedTime(s, e).conn = s.conn
         /\ TerminateSession(s).status = "TERMINATED" /\ TerminateSession(s).conn = NULL
         /\ SaveEvaluated(s).status = "EVALUATED"
         /\ MarkFailed(s).status =
              (IF s.status = "EVALUATED" THEN "EVALUATED" ELSE "EVALUATION_FAILED")
         /\ s.status # "ABSENT" => GetOrCreateSession(s) = s
BY DEF SessionRow, Steady, GetOrCreateSession, MarkSessionInProgress, CompleteSessionRow,
   UpdateElapsedTime, TerminateSession, MarkFailed, SaveEvaluated

LEMMA CandidateStatusOf ==
  ASSUME NEW c \in CandidateRow, now \in Nat
  PROVE  /\ MarkStarted(c).status = "IN_PROGRESS"
         /\ MarkTimerStarted(c).status = "IN_PROGRESS"
         /\ MarkCompleted(c).status = "COMPLETED" /\ MarkCompleted(c).ended # NULL
         /\ MarkCandidateTerminated(c).status = "TERMINATED"
         /\ MarkCandidateTerminated(c).ended # NULL
         /\ MarkCandidateEvaluated(c).status = "EVALUATED"
         /\ MarkCandidateEvaluated(c).ended # NULL
         /\ ConsumeInvitation(c).status = c.status
         /\ ConsumeInvitation(c).ended = c.ended
BY DEF CandidateRow, Time, Coalesce, MarkStarted, MarkTimerStarted, MarkCompleted,
   MarkCandidateTerminated, MarkCandidateEvaluated, ConsumeInvitation

(* The abstract phase, in this state and the next.                         *)

LEMMA Phases ==
  /\ session.status = "ABSENT" => Phase = "new"
  /\ session.status \in ActiveStatuses => Phase = "open"
  /\ session.status = "DISCONNECTED" => Phase = "grace"
  /\ session.status \in TerminalSessionStatuses => Phase = "closed"
BY DEF Phase, ActiveStatuses, TerminalSessionStatuses

LEMMA PhasesNext ==
  /\ session'.status = "ABSENT" => Phase' = "new"
  /\ session'.status \in ActiveStatuses => Phase' = "open"
  /\ session'.status = "DISCONNECTED" => Phase' = "grace"
  /\ session'.status \in TerminalSessionStatuses => Phase' = "closed"
BY DEF Phase, ActiveStatuses, TerminalSessionStatuses

LifecycleStep == [Lifecycle!Next]_(Lifecycle!lifecycle)

\* A step that keeps the counters and the status's class is a stutter.
LEMMA StutterStep ==
  ASSUME session'.disconnects = session.disconnects, session'.pause = session.pause,
         \/ session'.status = session.status
         \/ {session.status, session'.status} \subseteq ActiveStatuses
         \/ {session.status, session'.status} \subseteq TerminalSessionStatuses
  PROVE  LifecycleStep
<1>1. Phase' = Phase
  BY Phases, PhasesNext DEF Phase
<1> QED
  BY <1>1 DEF LifecycleStep, Lifecycle!lifecycle

LEMMA OpenStep ==
  ASSUME session'.disconnects = session.disconnects, session'.pause = session.pause,
         session.status = "ABSENT", session'.status \in ActiveStatuses
  PROVE  LifecycleStep
BY Phases, PhasesNext DEF LifecycleStep, Lifecycle!Next, Lifecycle!Open

LEMMA CloseStep ==
  ASSUME session'.disconnects = session.disconnects, session'.pause = session.pause,
         session.status \in ActiveStatuses \cup {"DISCONNECTED"},
         session'.status \in TerminalSessionStatuses
  PROVE  LifecycleStep
BY Phases, PhasesNext DEF LifecycleStep, Lifecycle!Next, Lifecycle!Close

\* Statuses outside the closed ones, for case splits.
LEMMA StatusClasses ==
  ASSUME IndInv
  PROVE  /\ session.status \in {"ABSENT", "DISCONNECTED"} \cup ActiveStatuses
                               \cup TerminalSessionStatuses
         /\ ActiveStatuses \cap TerminalSessionStatuses = {}
         /\ {"ABSENT", "DISCONNECTED"} \cap (ActiveStatuses \cup TerminalSessionStatuses) = {}
BY DEF IndInv, TypeOK, SessionRow, SessionStatuses, ActiveStatuses, TerminalSessionStatuses

(* What every step of an orderly engine's history guarantees.              *)

Orderly ==
    /\ RowsAgree' /\ LastDropTerminates'
    /\ session'.conn # NULL => session'.status \in ActiveStatuses
    /\ session.status \in TerminalSessionStatuses =>
          session'.status \in TerminalSessionStatuses
    /\ LifecycleStep

\* Steps of the two rows that only move within, into or to the closed states.
LEMMA RowStep ==
  ASSUME OrderlyInv, Steady(session, session'),
         \/ session'.status = session.status
         \/ session.status \in ActiveStatuses \cup {"ABSENT"}
              /\ session'.status \in ActiveStatuses
         \/ session.status \in ActiveStatuses \cup {"DISCONNECTED"}
              /\ session'.status \in TerminalSessionStatuses
         \/ {session.status, session'.status} \subseteq TerminalSessionStatuses,
         session'.status \in ActiveStatuses \/ session'.conn = session.conn \/ session'.conn = NULL,
         session'.status \in TerminalSessionStatuses /\ session.conn # NULL => session'.conn = NULL,
         RowsAgree'
  PROVE  Orderly
<1>1. session'.disconnects = session.disconnects /\ session'.pause = session.pause
  BY DEF Steady
<1>2. LifecycleStep
  BY <1>1, StutterStep, OpenStep, CloseStep
<1>3. LastDropTerminates'
  BY <1>1, StatusClasses DEF OrderlyInv, LastDropTerminates
<1>4. session'.conn # NULL => session'.status \in ActiveStatuses
  BY StatusClasses DEF OrderlyInv, Steady
<1>5. session.status \in TerminalSessionStatuses =>
        session'.status \in TerminalSessionStatuses
  BY StatusClasses DEF OrderlyInv
<1> QED
  BY <1>2, <1>3, <1>4, <1>5 DEF Orderly

LEMMA OrderlyEngine ==
  ASSUME OrderlyInv, EngineOrderly, Engine
  PROVE  Orderly
<1>0. /\ session \in SessionRow /\ ca \in CandidateRow /\ now \in Nat
      /\ 0 \in Nat /\ Elapsed \subseteq Nat
  BY DEF OrderlyInv, IndInv, TypeOK
<1>a. /\ session.conn # NULL => session.status \in ActiveStatuses
      /\ session.status \in ActiveStatuses => ca.status \notin TerminalCandidateStatuses
  BY StatusClasses DEF OrderlyInv, RowsAgree
<1>b. /\ {"COMPLETED", "TERMINATED", "EVALUATED", "EVALUATION_FAILED"}
            \subseteq TerminalSessionStatuses
      /\ "IN_PROGRESS" \in ActiveStatuses /\ "IN_PROGRESS" \notin TerminalCandidateStatuses
      /\ "ABSENT" \notin ActiveStatuses
  BY DEF TerminalSessionStatuses, ActiveStatuses, TerminalCandidateStatuses
<1>1. CASE InitializeInterviewContext \/ SessionInProgress
  <2>1. session.status \in ActiveStatuses
    BY <1>1, <1>a DEF InitializeInterviewContext, SessionInProgress, JobIsCurrent
  <2>2. session' = MarkSessionInProgress(session) /\ ca' \in {ca, MarkStarted(ca)}
    BY <1>0, <1>1, <1>b, <2>1, SteadyUpdates
       DEF InitializeInterviewContext, SessionInProgress
  <2>3. session'.status = "IN_PROGRESS" /\ Steady(session, session')
    BY <1>0, <2>2, SteadyUpdates
  <2>4. ca'.status \notin TerminalCandidateStatuses
    BY <1>0, <1>a, <1>b, <2>1, <2>2, CandidateStatusOf
  <2>5. RowsAgree'
    BY <2>3, <2>4 DEF RowsAgree, TerminalCandidateStatuses
  <2> QED
    BY <1>b, <2>1, <2>3, <2>5, StatusClasses, RowStep DEF OrderlyInv, Steady
<1>2. CASE CandidateStarted \/ CandidateTimerStarted
  <2>1. session.status \in ActiveStatuses /\ session' = session
    BY <1>2, <1>a DEF CandidateStarted, CandidateTimerStarted, JobIsCurrent
  <2>2. ca'.status = "IN_PROGRESS"
    BY <1>0, <1>2, CandidateStatusOf DEF CandidateStarted, CandidateTimerStarted
  <2>3. RowsAgree'
    BY <1>b, <2>1, <2>2 DEF RowsAgree, TerminalCandidateStatuses, ActiveStatuses
  <2> QED
    BY <2>1, <2>3, StatusClasses, RowStep DEF OrderlyInv, Steady
<1>3. CASE \E elapsed \in Elapsed : PersistTurn(elapsed)
  <2>1. PICK elapsed \in Elapsed : PersistTurn(elapsed)
    BY <1>3
  <2>2. /\ session'.status = session.status /\ session'.conn = session.conn
        /\ Steady(session, session') /\ ca' = ca
    BY <1>0, <2>1, SteadyUpdates DEF PersistTurn
  <2>3. RowsAgree'
    BY <2>2 DEF OrderlyInv, RowsAgree
  <2> QED
    BY <1>a, <2>2, <2>3, StatusClasses, RowStep DEF OrderlyInv
<1>4. CASE ProctoringTermination
  <2>1. /\ session.status \in ActiveStatuses /\ session'.status = "TERMINATED"
        /\ session'.conn = NULL /\ Steady(session, session')
        /\ ca'.status = "TERMINATED" /\ ca'.ended # NULL
    BY <1>0, <1>4, SteadyUpdates, CandidateStatusOf DEF ProctoringTermination
  <2>2. RowsAgree'
    BY <1>b, <2>1 DEF RowsAgree
  <2> QED
    BY <1>b, <2>1, <2>2, RowStep
<1>5. CASE \E elapsed \in Elapsed : CompleteSession(elapsed)
  <2>1. PICK elapsed \in Elapsed : CompleteSession(elapsed)
    BY <1>5
  <2>2. /\ session'.status = "COMPLETED" /\ session'.conn = NULL
        /\ Steady(session, session') /\ ca' = ca
    BY <1>0, <2>1, SteadyUpdates DEF CompleteSession
  <2>3. session.status \in ActiveStatuses \/ session.status = "COMPLETED"
    BY <1>a, <2>1 DEF CompleteSession
  <2>4. RowsAgree'
    BY <1>a, <1>b, <2>2, <2>3 DEF OrderlyInv, RowsAgree, TerminalCandidateStatuses
  <2> QED
    BY <1>b, <2>2, <2>3, <2>4, RowStep
<1>6. CASE CandidateCompleted
  <2>1. /\ session.status = "COMPLETED" /\ session' = session
        /\ ca'.status = "COMPLETED" /\ ca'.ended # NULL
    BY <1>0, <1>6, CandidateStatusOf DEF CandidateCompleted
  <2>2. RowsAgree'
    BY <1>b, <2>1 DEF RowsAgree
  <2> QED
    BY <1>a, <1>b, <2>1, <2>2, StatusClasses, RowStep DEF OrderlyInv, Steady
<1>7. CASE MarkEvaluationFailed
  <2>1. /\ session.status \in TerminalSessionStatuses
        /\ ca.status \in TerminalCandidateStatuses /\ ca.ended # NULL
    BY <1>7 DEF MarkEvaluationFailed, InterviewEnded, OrderlyInv, RowsAgree
  <2>2. /\ session'.status = (IF session.status = "EVALUATED" THEN "EVALUATED"
                              ELSE "EVALUATION_FAILED")
        /\ Steady(session, session') /\ ca' = ca
    BY <1>0, <1>7, SteadyUpdates DEF MarkEvaluationFailed
  <2>3. RowsAgree'
    BY <1>b, <2>1, <2>2 DEF OrderlyInv, RowsAgree
  <2>4. session.conn = NULL
    BY <1>a, <2>1, StatusClasses DEF OrderlyInv
  <2> QED
    BY <1>b, <2>1, <2>2, <2>3, <2>4, RowStep DEF Steady
<1>8. CASE SaveFinalEvaluation
  <2>1. session.status \in TerminalSessionStatuses
    BY <1>8 DEF SaveFinalEvaluation, InterviewEnded, OrderlyInv, RowsAgree
  <2>2. /\ session'.status = "EVALUATED" /\ Steady(session, session')
        /\ ca'.status = "EVALUATED" /\ ca'.ended # NULL
    BY <1>0, <1>8, SteadyUpdates, CandidateStatusOf DEF SaveFinalEvaluation
  <2>3. RowsAgree'
    BY <1>b, <2>2 DEF RowsAgree
  <2>4. session.conn = NULL
    BY <1>a, <2>1, StatusClasses DEF OrderlyInv
  <2> QED
    BY <1>b, <2>1, <2>2, <2>3, <2>4, RowStep DEF Steady
<1> QED
  BY <1>1, <1>2, <1>3, <1>4, <1>5, <1>6, <1>7, <1>8 DEF Engine, Progress

LEMMA OrderlyEntry ==
  ASSUME OrderlyInv, EnterRefused \/ EnterWithInvitation
  PROVE  Orderly
<1> DEFINE s == GetOrCreateSession(session)
<1>0. session \in SessionRow /\ ca \in CandidateRow /\ now \in Nat /\ 0 \in Nat /\ 0 \in Time
  BY DEF OrderlyInv, IndInv, TypeOK, Time
<1>1. /\ s \in SessionRow
      /\ s.status = (IF session.status = "ABSENT" THEN "INITIALIZING" ELSE session.status)
      /\ s.conn = session.conn
      /\ s.disconnects = session.disconnects /\ s.pause = session.pause
  BY <1>0, SessionUpdatesTyped DEF GetOrCreateSession, SessionRow
<1>2. session' = s \/ \E n, x : session' = SetSessionCredentials(s, n, x)
  BY DEF EnterRefused, EnterWithInvitation, WithCredentials
<1>3. /\ session'.status = s.status /\ session'.conn = s.conn
      /\ session'.disconnects = s.disconnects /\ session'.pause = s.pause
  BY <1>1, <1>2 DEF SetSessionCredentials, SessionRow
<1>4. ca'.status = ca.status /\ ca'.ended = ca.ended
  <2>1. ca' \in {ca, ConsumeInvitation(ca)}
    BY DEF EnterRefused, EnterWithInvitation
  <2> QED
    BY <1>0, <2>1, CandidateStatusOf
<1>5. /\ "INITIALIZING" \in ActiveStatuses /\ "INITIALIZING" \notin TerminalSessionStatuses
      /\ "ABSENT" \notin TerminalSessionStatuses
  BY DEF ActiveStatuses, TerminalSessionStatuses
<1>6. RowsAgree'
  BY <1>1, <1>3, <1>4, <1>5 DEF OrderlyInv, RowsAgree
<1>7. Steady(session, session') /\ session'.conn = session.conn
  BY <1>1, <1>3 DEF Steady
<1>8. session'.status \in TerminalSessionStatuses => session.conn = NULL
  BY <1>1, <1>3, <1>5, StatusClasses DEF OrderlyInv
<1> QED
  BY <1>1, <1>3, <1>5, <1>6, <1>7, <1>8, RowStep

LEMMA OrderlyAuthorize ==
  ASSUME OrderlyInv, Authorize
  PROVE  Orderly
<1>0. /\ session \in SessionRow /\ ca \in CandidateRow /\ now \in Nat
      /\ generations \in Nat /\ 0 \in Nat /\ 0 \in Time
  BY DEF OrderlyInv, IndInv, TypeOK, Time
<1>b. /\ "TERMINATED" \in TerminalSessionStatuses /\ "IN_PROGRESS" \in ActiveStatuses
      /\ "IN_PROGRESS" \notin TerminalCandidateStatuses
      /\ "DISCONNECTED" \notin TerminalSessionStatuses
  BY DEF TerminalSessionStatuses, ActiveStatuses, TerminalCandidateStatuses
<1>1. CASE AuthorizeTimeout
  <2>1. /\ session.status = "DISCONNECTED" /\ session'.status = "TERMINATED"
        /\ session'.conn = NULL /\ Steady(session, session')
    BY <1>0, <1>1 DEF AuthorizeTimeout, TerminateReconnectTimeout, SessionRow, Steady
  <2>2. ca'.status = "TERMINATED" /\ ca'.ended # NULL
    BY <1>0, <1>1, CandidateStatusOf DEF AuthorizeTimeout
  <2>3. RowsAgree'
    BY <1>b, <2>1, <2>2 DEF RowsAgree
  <2> QED
    BY <1>b, <2>1, <2>3, RowStep
<1>2. CASE AuthorizeConnection
  <2>1. /\ session'.status = session.status /\ session'.pause = session.pause
        /\ session'.disconnects = session.disconnects /\ ca' = ca
        /\ session'.conn = session.conn \/ session.status \in ActiveStatuses
    BY <1>0, <1>2 DEF AuthorizeConnection, BindActiveConnection, SessionRow
  <2>2. RowsAgree'
    BY <2>1 DEF OrderlyInv, RowsAgree
  <2>3. LifecycleStep
    BY <2>1, StutterStep
  <2>4. LastDropTerminates'
    BY <2>1 DEF OrderlyInv, LastDropTerminates
  <2> QED
    BY <2>1, <2>2, <2>3, <2>4 DEF Orderly, OrderlyInv
<1>3. CASE AuthorizeReconnect
  <2> DEFINE r == RestoreDisconnectedSession(session)
             gap == Greatest(0, now - session.lastDisconnect)
  <2>1. session.status = "DISCONNECTED"
    BY <1>3 DEF AuthorizeReconnect
  <2>2. /\ session.deadline \in Nat /\ session.lastDisconnect \in Nat
        /\ session.deadline <= session.lastDisconnect + ReconnectWindow
        /\ session.conn = NULL /\ session.disconnects \in 1..(MaxDisconnects - 1)
        /\ session.pause \in Nat
    <3>1. GraceCoherent
      BY DEF OrderlyInv, IndInv
    <3>2. /\ session.pause \in Nat
          /\ {session.deadline, session.lastDisconnect} \subseteq Nat \cup {NULL}
      BY <1>0 DEF SessionRow, Time
    <3> QED
      BY <2>1, <3>1, <3>2 DEF GraceCoherent
  <2>3. gap \in 0..ReconnectWindow
    BY <1>0, <1>3, <2>2 DEF AuthorizeReconnect, GraceExpired, Greatest
  <2>4. /\ r \in SessionRow /\ r.status = "IN_PROGRESS" /\ r.pause = session.pause + gap
        /\ r.disconnects = session.disconnects
    <3>1. session.lastDisconnect # NULL
      BY <2>2
    <3>2. r \in SessionRow
      BY <1>0, <3>1, SessionUpdatesTyped
    <3> QED
      BY <1>0, <3>2 DEF RestoreDisconnectedSession, SessionRow
  <2>5. /\ session'.status = "IN_PROGRESS" /\ session'.pause = session.pause + gap
        /\ session'.disconnects = session.disconnects
    <3>1. session' = BindActiveConnection(r, generations + 1)
      BY <1>3, <2>2 DEF AuthorizeReconnect
    <3> QED
      BY <2>4, <3>1 DEF BindActiveConnection, SessionRow
  <2>6. ca'.status = "IN_PROGRESS"
    BY <1>0, <1>3, CandidateStatusOf DEF AuthorizeReconnect
  <2>7. RowsAgree'
    BY <1>b, <2>5, <2>6 DEF RowsAgree, TerminalCandidateStatuses
  <2>8. LastDropTerminates'
    BY <2>2, <2>5 DEF LastDropTerminates
  <2>9. session'.pause \in session.pause..(session.pause + ReconnectWindow)
    BY <2>2, <2>3, <2>5
  <2>10. Phase = "grace" /\ Phase' = "open"
    BY <1>b, <2>1, <2>5, Phases, PhasesNext
  <2>11. LifecycleStep
    BY <2>5, <2>9, <2>10 DEF LifecycleStep, Lifecycle!Next, Lifecycle!Resume
  <2> QED
    BY <1>b, <2>1, <2>5, <2>7, <2>8, <2>11 DEF Orderly
<1> QED
  BY <1>1, <1>2, <1>3 DEF Authorize

LEMMA OrderlyDrop ==
  ASSUME OrderlyInv, NEW d \in drops, NEW elapsed \in Elapsed,
         DisconnectRecorded(d, elapsed)
  PROVE  Orderly
<1> DEFINE last == ShouldTerminate(session)
<1>0. session \in SessionRow /\ ca \in CandidateRow /\ now \in Nat /\ session.disconnects \in Nat
  BY DEF OrderlyInv, IndInv, TypeOK, SessionRow
<1>1. session.status \in ActiveStatuses
  BY DEF DisconnectRecorded, DisconnectMatches
<1>2. /\ session'.status = (IF last THEN "TERMINATED" ELSE "DISCONNECTED")
      /\ session'.conn = NULL /\ session'.pause = session.pause
      /\ session'.disconnects = session.disconnects + 1
  BY <1>0 DEF DisconnectRecorded, RecordDisconnect, SessionRow
<1>3. ca' = IF last THEN MarkCandidateTerminated(ca) ELSE ca
  BY DEF DisconnectRecorded
<1>4. ca.status \notin TerminalCandidateStatuses
  BY <1>1, StatusClasses DEF OrderlyInv, RowsAgree
<1>5. "TERMINATED" \in TerminalSessionStatuses /\ "EVALUATED" \in TerminalCandidateStatuses
  BY DEF TerminalSessionStatuses, TerminalCandidateStatuses
<1>6. last <=> session.disconnects + 1 >= MaxDisconnects
  BY DEF ShouldTerminate
<1>7. CASE last
  <2>1. ca'.status = "TERMINATED" /\ ca'.ended # NULL
    BY <1>0, <1>3, <1>7, CandidateStatusOf
  <2>2. RowsAgree' /\ LastDropTerminates'
    BY <1>2, <1>5, <1>7, <2>1 DEF RowsAgree, LastDropTerminates
  <2>3. LifecycleStep
    BY <1>1, <1>2, <1>5, <1>6, <1>7, Phases, PhasesNext
       DEF LifecycleStep, Lifecycle!Next, Lifecycle!Drop
  <2> QED
    BY <1>2, <1>5, <1>7, <2>2, <2>3 DEF Orderly
<1>8. CASE ~last
  <2>1. RowsAgree'
    BY <1>2, <1>3, <1>4, <1>5, <1>8 DEF RowsAgree
  <2>2. LastDropTerminates'
    BY <1>0, <1>2, <1>6, <1>8 DEF LastDropTerminates
  <2>3. LifecycleStep
    BY <1>1, <1>2, <1>6, <1>8, Phases, PhasesNext
       DEF LifecycleStep, Lifecycle!Next, Lifecycle!Drop
  <2> QED
    BY <1>1, <1>2, <1>8, <2>1, <2>2, <2>3, StatusClasses DEF Orderly, OrderlyInv
<1> QED
  BY <1>7, <1>8

LEMMA OrderlyStep == OrderlyInv /\ EngineOrderly /\ [Next]_vars => OrderlyInv' /\ Orderly
<1> SUFFICES ASSUME OrderlyInv, EngineOrderly, [Next]_vars PROVE OrderlyInv' /\ Orderly
  OBVIOUS
<1>1. IndInv'
  BY IndInvStep DEF OrderlyInv
<1>2. Orderly
  <2>1. CASE session' = session /\ ca' = ca
    <3>1. LifecycleStep
      BY <2>1, StutterStep
    <3> QED
      BY <2>1, <3>1 DEF OrderlyInv, Orderly, RowsAgree, LastDropTerminates
  <2>2. CASE Candidate
    BY <2>2, OrderlyEntry, OrderlyAuthorize DEF Candidate
  <2>3. CASE \E d \in drops, elapsed \in Elapsed : DisconnectRecorded(d, elapsed)
    BY <2>3, OrderlyDrop
  <2>4. CASE Engine
    BY <2>4, OrderlyEngine
  <2> QED
    BY <2>1, <2>2, <2>3, <2>4
       DEF Next, LiveKit, Tick, DisconnectArrives, DisconnectIgnored, vars
<1> QED
  BY <1>1, <1>2 DEF OrderlyInv, Orderly

LEMMA OrderlyAlways == ASSUME EngineOrderly PROVE Spec => []OrderlyInv
<1>1. OrderlyInv /\ [Next]_vars => OrderlyInv'
  BY OrderlyStep
<1> QED
  BY OrderlyInit, <1>1, PTL DEF Spec

\* "All real LiveKit drops; the third one terminates the session", if the
\* engine is orderly.
THEOREM LastDrop == ASSUME EngineOrderly PROVE Spec => []LastDropTerminates
<1>1. OrderlyInv => LastDropTerminates
  BY DEF OrderlyInv
<1> QED
  BY <1>1, OrderlyAlways, PTL

\* The session and the candidate row agree on how the interview ended, if
\* the engine is orderly.
THEOREM Agreement == ASSUME EngineOrderly PROVE Spec => []RowsAgree
<1>1. OrderlyInv => RowsAgree
  BY DEF OrderlyInv
<1> QED
  BY <1>1, OrderlyAlways, PTL

\* No request reopens a closed interview, if the engine is orderly.
THEOREM NeverReopened == ASSUME EngineOrderly PROVE Spec => ClosedStaysClosed
<1>1. OrderlyInv /\ [Next]_vars =>
        [session.status \in TerminalSessionStatuses =>
            session'.status \in TerminalSessionStatuses]_vars
  BY OrderlyStep DEF Orderly
<1> QED
  BY <1>1, OrderlyAlways, PTL DEF Spec, ClosedStaysClosed

\* The requests over the two rows implement the bounded reconnection
\* lifecycle, if the engine is orderly.
THEOREM Refinement == ASSUME EngineOrderly PROVE Spec => LifecycleSpec
<1>1. Init => Lifecycle!Init
  BY Phases DEF Init, Absent, Lifecycle!Init
<1>2. OrderlyInv /\ [Next]_vars => [Lifecycle!Next]_(Lifecycle!lifecycle)
  BY OrderlyStep DEF Orderly, LifecycleStep
<1> QED
  BY <1>1, <1>2, OrderlyAlways, PTL DEF Spec, Lifecycle!Spec, LifecycleSpec

-----------------------------------------------------------------------------
(* Connection ids: only the two requests that authorize a connection bind  *)
(* one, and the id they bind was never issued before.                      *)

LEMMA EngineBindsNothing ==
  ASSUME IndInv, Engine
  PROVE  session'.conn \in {session.conn, NULL}
<1> DEFINE s == session
           t == GetOrCreateSession(s)
<1>1. s \in SessionRow /\ t \in SessionRow /\ t.conn = s.conn
  BY DEF IndInv, TypeOK, GetOrCreateSession, SessionRow, SessionStatuses, ActiveStatuses
<1> HIDE DEF t
<1>2. /\ MarkSessionInProgress(t).conn = t.conn /\ MarkSessionInProgress(s).conn = s.conn
      /\ TerminateSession(s).conn = NULL /\ MarkFailed(s).conn = s.conn
      /\ SaveEvaluated(s).conn = s.conn
  BY <1>1 DEF MarkSessionInProgress, TerminateSession, MarkFailed, SaveEvaluated, SessionRow
<1>3. \A e : CompleteSessionRow(s, e).conn = NULL /\ UpdateElapsedTime(s, e).conn = s.conn
  BY <1>1 DEF CompleteSessionRow, UpdateElapsedTime, SessionRow
<1> QED
  BY <1>1, <1>2, <1>3
     DEF Engine, Progress, InitializeInterviewContext, SessionInProgress, CandidateStarted,
         CandidateTimerStarted, CompleteSession, CandidateCompleted, MarkEvaluationFailed,
         SaveFinalEvaluation, PersistTurn, ProctoringTermination, t

LEMMA OthersBindNothing ==
  ASSUME IndInv, EnterRefused \/ EnterWithInvitation \/ AuthorizeTimeout \/ LiveKit \/ Tick
  PROVE  session'.conn \in {session.conn, NULL}
<1> DEFINE s == session
           t == GetOrCreateSession(s)
<1>1. s \in SessionRow /\ t \in SessionRow /\ t.conn = s.conn
  BY DEF IndInv, TypeOK, GetOrCreateSession, SessionRow, SessionStatuses, ActiveStatuses
<1> HIDE DEF t
<1>2. WithCredentials(t).conn = t.conn
  BY <1>1 DEF WithCredentials, SetSessionCredentials, SessionRow
<1>3. TerminateReconnectTimeout(s).conn = NULL
  BY <1>1 DEF TerminateReconnectTimeout, SessionRow
<1>4. \A d, e : RecordDisconnect(s, d, e).conn = NULL
  BY <1>1 DEF RecordDisconnect, SessionRow
<1> QED
  BY <1>1, <1>2, <1>3, <1>4
     DEF EnterRefused, EnterWithInvitation, AuthorizeTimeout, LiveKit, DisconnectArrives,
         DisconnectIgnored, DisconnectRecorded, Tick, t

LEMMA AuthorizeBindsFresh ==
  ASSUME IndInv, AuthorizeReconnect \/ AuthorizeConnection
  PROVE  session'.conn \notin {session.conn, NULL} =>
           session'.conn > generations /\ session.token # NULL
<1>1. session \in SessionRow /\ generations \in Nat /\ TokenSelectsRow
  BY DEF IndInv, TypeOK, AuthorizeReconnect, AuthorizeConnection, ValidateActiveToken
<1>2. \A s \in SessionRow : \A id : BindActiveConnection(s, id).conn \in {s.conn, id}
  BY DEF BindActiveConnection, SessionRow
<1>3. CASE AuthorizeReconnect
  <2> DEFINE r == RestoreDisconnectedSession(session)
  <2>1. session.conn = NULL /\ session.lastDisconnect # NULL
    BY <1>3 DEF AuthorizeReconnect, IndInv, GraceCoherent
  <2>2. r \in SessionRow
    BY <1>1, <2>1, SessionUpdatesTyped DEF IndInv, TypeOK, Time
  <2>3. r.conn = NULL
    BY <1>1 DEF RestoreDisconnectedSession, SessionRow
  <2>4. session' = BindActiveConnection(r, generations + 1)
    BY <1>3, <2>1 DEF AuthorizeReconnect
  <2> HIDE DEF r
  <2>5. session'.conn \in {NULL, generations + 1}
    BY <1>2, <2>2, <2>3, <2>4
  <2> QED
    BY <1>1, <2>5 DEF TokenSelectsRow
<1>4. CASE AuthorizeConnection
  <2>1. session'.conn \in {session.conn, ConnectionId}
    BY <1>1, <1>2, <1>4 DEF AuthorizeConnection
  <2>2. ConnectionId \in {session.conn, generations + 1}
    BY DEF ConnectionId
  <2> QED
    BY <1>1, <2>1, <2>2 DEF TokenSelectsRow
<1> QED
  BY <1>3, <1>4

\* However requests, callbacks and the engine's calls interleave, a connection
\* id that is bound was never issued before, and only a candidate who holds a
\* token gets one: a stale job's id cannot come back (bind_active_connection).
THEOREM FreshIds == Spec => FreshConnection
<1>1. IndInv /\ [Next]_vars =>
        [session'.conn \notin {session.conn, NULL} =>
            session'.conn > generations /\ session.token # NULL]_vars
  <2> SUFFICES ASSUME IndInv, Next
               PROVE  session'.conn \notin {session.conn, NULL} =>
                        session'.conn > generations /\ session.token # NULL
    OBVIOUS
  <2> QED
    BY EngineBindsNothing, OthersBindNothing, AuthorizeBindsFresh
       DEF Next, Candidate, Authorize
<1> QED
  BY <1>1, Inductive, PTL DEF Spec, FreshConnection

-----------------------------------------------------------------------------
(* The two rows as InterviewRows sees them.                                *)

SessionSeen(s) == [status |-> s.status, deadline |-> s.deadline # NULL]
EnrolmentSeen(c) == [status |-> c.status, consumed |-> c.consumed]

\* Whoever is connected, or has completed an interview, has used the invitation.
Invited == session.conn # NULL \/ session.status = "COMPLETED" => ca.consumed

SeenLives == Rows!Lives(StoredSession, StoredEnrolment, StoredSession', StoredEnrolment')
SeenStays == UNCHANGED <<StoredSession, StoredEnrolment>>
SeenStep == Invited' /\ (SeenLives \/ SeenStays)

LEMMA Seen ==
  /\ StoredSession = SessionSeen(session) /\ StoredEnrolment = EnrolmentSeen(ca)
  /\ StoredSession' = SessionSeen(session') /\ StoredEnrolment' = EnrolmentSeen(ca')
BY DEF StoredSession, StoredEnrolment, SessionSeen, EnrolmentSeen

\* A row whose status and deadline are known.
LEMMA SessionSeenAs ==
  ASSUME NEW s
  PROVE  /\ s.deadline = NULL => SessionSeen(s) = Rows!Row(s.status, FALSE)
         /\ s.deadline # NULL => SessionSeen(s) = Rows!Row(s.status, TRUE)
<1>1. ASSUME s.deadline = NULL PROVE SessionSeen(s) = Rows!Row(s.status, FALSE)
  <2>1. (s.deadline # NULL) = FALSE
    BY <1>1
  <2> QED
    BY <2>1, Zenon DEF SessionSeen, Rows!Row
<1>2. ASSUME s.deadline # NULL PROVE SessionSeen(s) = Rows!Row(s.status, TRUE)
  <2>1. (s.deadline # NULL) = TRUE
    BY <1>2
  <2> QED
    BY <2>1, Zenon DEF SessionSeen, Rows!Row
<1> QED
  BY <1>1, <1>2

LEMMA SeenFields ==
  ASSUME NEW s, NEW c
  PROVE  /\ SessionSeen(s).status = s.status /\ (SessionSeen(s).deadline <=> s.deadline # NULL)
         /\ EnrolmentSeen(c).status = c.status /\ EnrolmentSeen(c).consumed = c.consumed
BY DEF SessionSeen, EnrolmentSeen

LEMMA StatusReplaced ==
  ASSUME NEW s, NEW c, NEW new
  PROVE  /\ [SessionSeen(s) EXCEPT !.status = new]
              = [status |-> new, deadline |-> SessionSeen(s).deadline]
         /\ [EnrolmentSeen(c) EXCEPT !.status = new] = [status |-> new, consumed |-> c.consumed]
         /\ [EnrolmentSeen(c) EXCEPT !.consumed = new] = [status |-> c.status, consumed |-> new]
<1>1. \A r : r = [status |-> r.status, deadline |-> r.deadline] =>
              [r EXCEPT !.status = new] = [status |-> new, deadline |-> r.deadline]
  OBVIOUS
<1>2. SessionSeen(s) = [status |-> SessionSeen(s).status, deadline |-> SessionSeen(s).deadline]
  BY Zenon DEF SessionSeen
<1>3. [SessionSeen(s) EXCEPT !.status = new]
         = [status |-> new, deadline |-> SessionSeen(s).deadline]
  BY <1>1, <1>2, Zenon
<1> QED
  BY <1>3 DEF EnrolmentSeen

LEMMA SessionUpdatesSeen ==
  ASSUME NEW s \in SessionRow, NEW e \in Nat, NEW n
  PROVE  /\ SessionSeen(MarkSessionInProgress(s)) = Rows!Row("IN_PROGRESS", FALSE)
         /\ SessionSeen(CompleteSessionRow(s, e)) = Rows!Row("COMPLETED", FALSE)
         /\ SessionSeen(TerminateSession(s)) = Rows!Row("TERMINATED", FALSE)
         /\ SessionSeen(TerminateReconnectTimeout(s)) = Rows!Row("TERMINATED", FALSE)
         /\ SessionSeen(UpdateElapsedTime(s, e)) = SessionSeen(s)
         /\ SessionSeen(BindActiveConnection(s, n)) = SessionSeen(s)
         /\ SessionSeen(WithCredentials(s)) = SessionSeen(s)
         /\ SessionSeen(SaveEvaluated(s)) = [SessionSeen(s) EXCEPT !.status = "EVALUATED"]
         /\ s.status # "EVALUATED" =>
              SessionSeen(MarkFailed(s)) = [SessionSeen(s) EXCEPT !.status = "EVALUATION_FAILED"]
         /\ s.status = "EVALUATED" => MarkFailed(s) = s
<1>1. /\ MarkSessionInProgress(s).deadline = NULL /\ MarkSessionInProgress(s).status = "IN_PROGRESS"
      /\ CompleteSessionRow(s, e).deadline = NULL /\ CompleteSessionRow(s, e).status = "COMPLETED"
      /\ TerminateSession(s).deadline = NULL /\ TerminateSession(s).status = "TERMINATED"
  BY DEF SessionRow, MarkSessionInProgress, CompleteSessionRow, TerminateSession
<1>2. /\ TerminateReconnectTimeout(s).deadline = NULL
      /\ TerminateReconnectTimeout(s).status = "TERMINATED"
  BY DEF SessionRow, TerminateReconnectTimeout
<1>3. /\ UpdateElapsedTime(s, e).deadline = s.deadline /\ UpdateElapsedTime(s, e).status = s.status
      /\ BindActiveConnection(s, n).deadline = s.deadline
      /\ BindActiveConnection(s, n).status = s.status
      /\ WithCredentials(s).deadline = s.deadline /\ WithCredentials(s).status = s.status
  BY DEF SessionRow, UpdateElapsedTime, BindActiveConnection, WithCredentials,
         SetSessionCredentials
<1>4. /\ SaveEvaluated(s).deadline = s.deadline /\ SaveEvaluated(s).status = "EVALUATED"
      /\ s.status # "EVALUATED" => /\ MarkFailed(s).deadline = s.deadline
                                   /\ MarkFailed(s).status = "EVALUATION_FAILED"
      /\ s.status = "EVALUATED" => MarkFailed(s) = s
  BY DEF SessionRow, SaveEvaluated, MarkFailed
<1>5. \A new : [SessionSeen(s) EXCEPT !.status = new]
                  = [status |-> new, deadline |-> SessionSeen(s).deadline]
  BY StatusReplaced
<1>6. /\ SessionSeen(UpdateElapsedTime(s, e)) = SessionSeen(s)
      /\ SessionSeen(BindActiveConnection(s, n)) = SessionSeen(s)
      /\ SessionSeen(WithCredentials(s)) = SessionSeen(s)
  BY <1>3, Zenon DEF SessionSeen
<1>7. SessionSeen(SaveEvaluated(s)) = [SessionSeen(s) EXCEPT !.status = "EVALUATED"]
  <2>1. SessionSeen(SaveEvaluated(s))
          = [status |-> "EVALUATED", deadline |-> SessionSeen(s).deadline]
    BY <1>4, Zenon DEF SessionSeen
  <2> QED
    BY <1>5, <2>1, Zenon
<1>8. ASSUME s.status # "EVALUATED"
      PROVE  SessionSeen(MarkFailed(s)) = [SessionSeen(s) EXCEPT !.status = "EVALUATION_FAILED"]
  <2>1. SessionSeen(MarkFailed(s))
          = [status |-> "EVALUATION_FAILED", deadline |-> SessionSeen(s).deadline]
    BY <1>4, <1>8, Zenon DEF SessionSeen
  <2> QED
    BY <1>5, <2>1, Zenon
<1>9. /\ SessionSeen(MarkSessionInProgress(s)) = Rows!Row("IN_PROGRESS", FALSE)
      /\ SessionSeen(CompleteSessionRow(s, e)) = Rows!Row("COMPLETED", FALSE)
      /\ SessionSeen(TerminateSession(s)) = Rows!Row("TERMINATED", FALSE)
      /\ SessionSeen(TerminateReconnectTimeout(s)) = Rows!Row("TERMINATED", FALSE)
  BY <1>1, <1>2, SessionSeenAs, Zenon
<1> QED
  BY <1>4, <1>6, <1>7, <1>8, <1>9, Zenon

LEMMA CandidateUpdatesSeen ==
  ASSUME NEW c \in CandidateRow
  PROVE  /\ EnrolmentSeen(ConsumeInvitation(c)) = [EnrolmentSeen(c) EXCEPT !.consumed = TRUE]
         /\ c.consumed => [EnrolmentSeen(c) EXCEPT !.consumed = TRUE] = EnrolmentSeen(c)
         /\ EnrolmentSeen(MarkStarted(c)) = [EnrolmentSeen(c) EXCEPT !.status = "IN_PROGRESS"]
         /\ EnrolmentSeen(MarkTimerStarted(c))
              = [EnrolmentSeen(c) EXCEPT !.status = "IN_PROGRESS"]
         /\ EnrolmentSeen(MarkCompleted(c)) = [EnrolmentSeen(c) EXCEPT !.status = "COMPLETED"]
         /\ EnrolmentSeen(MarkCandidateTerminated(c))
              = [EnrolmentSeen(c) EXCEPT !.status = "TERMINATED"]
         /\ EnrolmentSeen(MarkCandidateEvaluated(c))
              = [EnrolmentSeen(c) EXCEPT !.status = "EVALUATED"]
<1>1. /\ ConsumeInvitation(c).status = c.status /\ ConsumeInvitation(c).consumed = TRUE
      /\ MarkStarted(c).status = "IN_PROGRESS" /\ MarkTimerStarted(c).status = "IN_PROGRESS"
      /\ MarkCompleted(c).status = "COMPLETED"
      /\ MarkCandidateTerminated(c).status = "TERMINATED"
      /\ MarkCandidateEvaluated(c).status = "EVALUATED"
  BY DEF CandidateRow, ConsumeInvitation, MarkStarted, MarkTimerStarted, MarkCompleted,
         MarkCandidateTerminated, MarkCandidateEvaluated
<1>2. /\ EnrolmentSeen(ConsumeInvitation(c)) = [status |-> c.status, consumed |-> TRUE]
      /\ \A new, d : d.status = new /\ d.consumed = c.consumed =>
           EnrolmentSeen(d) = [status |-> new, consumed |-> c.consumed]
  BY <1>1, Zenon DEF EnrolmentSeen
<1>3. /\ [EnrolmentSeen(c) EXCEPT !.consumed = TRUE] = [status |-> c.status, consumed |-> TRUE]
      /\ \A new : [EnrolmentSeen(c) EXCEPT !.status = new]
                    = [status |-> new, consumed |-> c.consumed]
  BY StatusReplaced
<1>4. c.consumed => EnrolmentSeen(c) = [status |-> c.status, consumed |-> TRUE]
  <2>1. c.consumed => c.consumed = TRUE
    BY DEF CandidateRow
  <2> QED
    BY <2>1, Zenon DEF EnrolmentSeen
<1>5. \A new, d : d.status = new /\ d.consumed = c.consumed =>
         EnrolmentSeen(d) = [EnrolmentSeen(c) EXCEPT !.status = new]
  BY <1>2, <1>3
<1>6. /\ EnrolmentSeen(ConsumeInvitation(c)) = [EnrolmentSeen(c) EXCEPT !.consumed = TRUE]
      /\ c.consumed => [EnrolmentSeen(c) EXCEPT !.consumed = TRUE] = EnrolmentSeen(c)
  BY <1>2, <1>3, <1>4
<1> QED
  BY <1>1, <1>5, <1>6, CandidateUpdatesKeepConsumed

\* What is known of the rows before a step.
LiveInv == OrderlyInv /\ Invited

LEMMA LiveFacts ==
  ASSUME LiveInv
  PROVE  /\ session \in SessionRow /\ ca \in CandidateRow /\ now \in Nat /\ 0 \in Nat
         /\ session.token # NULL => ca.consumed
         /\ session.conn # NULL => ca.consumed /\ session.status \in Rows!Active
         /\ session.status \in Rows!Active \cup {"DISCONNECTED", "ABSENT"} =>
              ca.status \notin Rows!ClosedEnrolment
         /\ Rows!Active = ActiveStatuses /\ Rows!ClosedEnrolment = TerminalCandidateStatuses
         /\ Rows!ClosedSession \subseteq TerminalSessionStatuses
<1>1. /\ Rows!Active = ActiveStatuses /\ Rows!ClosedEnrolment = TerminalCandidateStatuses
      /\ Rows!ClosedSession \subseteq TerminalSessionStatuses
  BY DEF Rows!Active, Rows!ClosedEnrolment, Rows!ClosedSession, ActiveStatuses,
         TerminalCandidateStatuses, TerminalSessionStatuses
<1>2. session \in SessionRow /\ ca \in CandidateRow /\ now \in Nat /\ 0 \in Nat
  BY DEF LiveInv, OrderlyInv, IndInv, TypeOK
<1>3. session.token # NULL => ca.consumed
  BY DEF LiveInv, OrderlyInv, IndInv, OneCredential
<1>4. session.conn # NULL => ca.consumed /\ session.status \in ActiveStatuses
  BY DEF LiveInv, OrderlyInv, Invited
<1>5. session.status \in ActiveStatuses \cup {"DISCONNECTED", "ABSENT"} =>
        ca.status \notin TerminalCandidateStatuses
  BY StatusClasses DEF LiveInv, OrderlyInv, RowsAgree
<1> QED
  BY <1>1, <1>2, <1>3, <1>4, <1>5

\* A step after which only a connected or an invited candidate has a connection.
LEMMA InvitedStep ==
  ASSUME LiveInv, [Next]_vars, ca.consumed => ca'.consumed,
         session'.status = "COMPLETED" /\ session.status # "COMPLETED" => ca.consumed
  PROVE  Invited'
<1>1. session'.conn \notin {session.conn, NULL} => session.token # NULL
  BY EngineBindsNothing, OthersBindNothing, AuthorizeBindsFresh
     DEF Next, Candidate, Authorize, vars, LiveInv, OrderlyInv
<1> QED
  BY <1>1, LiveFacts DEF Invited, LiveInv

LEMMA LiveEntry ==
  ASSUME LiveInv, EnterRefused \/ EnterWithInvitation
  PROVE  SeenStep
<1> DEFINE s == GetOrCreateSession(session)
<1>1. s \in SessionRow /\ (s.status = "COMPLETED" => session.status = "COMPLETED")
  BY LiveFacts DEF GetOrCreateSession, SessionRow, SessionStatuses, ActiveStatuses
<1>2. SessionSeen(s) = Rows!Inserted(SessionSeen(session))
  <2>1. session.status = "ABSENT" => session.deadline = NULL
    BY DEF LiveInv, OrderlyInv, IndInv, GraceCoherent
  <2>2. CASE session.status = "ABSENT"
    <3>1. s.deadline = NULL /\ s.status = "INITIALIZING"
      BY <2>1, <2>2, LiveFacts DEF GetOrCreateSession, SessionRow
    <3> QED
      <4>1. SessionSeen(s) = Rows!Row("INITIALIZING", FALSE)
        BY <3>1, SessionSeenAs
      <4>2. Rows!Inserted(SessionSeen(session)) = Rows!Row("INITIALIZING", FALSE)
        BY <2>2, SeenFields DEF Rows!Inserted
      <4> HIDE DEF s
      <4> QED
        BY <4>1, <4>2
  <2>3. CASE session.status # "ABSENT"
    BY <2>3, SeenFields DEF GetOrCreateSession, Rows!Inserted
  <2> QED
    BY <2>2, <2>3
<1>3. SessionSeen(WithCredentials(s)) = SessionSeen(s)
      /\ WithCredentials(s).status = s.status
  <2> HIDE DEF s
  <2>1. SessionSeen(WithCredentials(s)) = SessionSeen(s)
    BY <1>1, LiveFacts, SessionUpdatesSeen
  <2>2. WithCredentials(s).status = s.status
    BY <1>1 DEF WithCredentials, SetSessionCredentials, SessionRow
  <2> QED
    BY <2>1, <2>2
<1>4. CASE EnterRefused
  <2>1. session' = s /\ ca' = ca
    BY <1>4 DEF EnterRefused
  <2>2. Rows!EntryRefused(StoredSession, StoredEnrolment, StoredSession', StoredEnrolment')
    BY <1>2, <2>1, Seen DEF Rows!EntryRefused
  <2>3. Invited'
    BY <1>1, <1>4, <2>1, InvitedStep DEF Next, Candidate
  <2> QED
    BY <2>2, <2>3 DEF SeenStep, SeenLives, Rows!Lives
<1>5. CASE EnterWithInvitation
  <2>1. session' = WithCredentials(s) /\ ca' = (IF ca.consumed THEN ca ELSE ConsumeInvitation(ca))
    BY <1>5 DEF EnterWithInvitation
  <2>2. SessionSeen(session') = Rows!Inserted(SessionSeen(session)) /\ session'.status = s.status
    BY <1>2, <1>3, <2>1
  <2>3. EnrolmentSeen(ca') = [EnrolmentSeen(ca) EXCEPT !.consumed = TRUE] /\ ca'.consumed
    BY <2>1, LiveFacts, CandidateUpdatesSeen DEF ConsumeInvitation, CandidateRow
  <2>4. ~Closed(s)
    BY <1>5 DEF EnterWithInvitation, EntryRejected
  <2>5. session.status \notin Rows!ClosedSession /\ ca.status \notin Rows!ClosedEnrolment
    <3>1. "ABSENT" \notin Rows!ClosedSession
      BY DEF Rows!ClosedSession
    <3> QED
      BY <2>4, <3>1, LiveFacts DEF Closed, GetOrCreateSession
  <2>6. Rows!Enters(StoredSession, StoredEnrolment, StoredSession', StoredEnrolment')
    BY <2>2, <2>3, <2>5, Seen, SeenFields DEF Rows!Enters
  <2>7. Invited'
    BY <1>1, <1>5, <2>2, <2>3, InvitedStep DEF Next, Candidate
  <2> QED
    BY <2>6, <2>7 DEF SeenStep, SeenLives, Rows!Lives
<1> QED
  BY <1>4, <1>5

LEMMA LiveAuthorize ==
  ASSUME LiveInv, Authorize
  PROVE  SeenStep
<1>0. [Next]_vars
  BY DEF Next, Candidate
<1>1. TokenSelectsRow /\ ~Closed(session)
  BY DEF Authorize, AuthorizeTimeout, AuthorizeReconnect, AuthorizeConnection, ValidateActiveToken
<1>2. ca.consumed /\ ca.status \notin Rows!ClosedEnrolment
  BY <1>1, LiveFacts DEF TokenSelectsRow, Closed
<1>3. CASE AuthorizeTimeout
  <2>1. /\ session.status = "DISCONNECTED" /\ session' = TerminateReconnectTimeout(session)
        /\ ca' = MarkCandidateTerminated(ca)
    BY <1>3 DEF AuthorizeTimeout
  <2>2. /\ SessionSeen(session') = Rows!Row("TERMINATED", FALSE)
        /\ EnrolmentSeen(ca') = [EnrolmentSeen(ca) EXCEPT !.status = "TERMINATED"]
        /\ ca'.consumed = ca.consumed
    BY <2>1, LiveFacts, SessionUpdatesSeen, CandidateUpdatesSeen, CandidateUpdatesKeepConsumed
  <2>3. session'.status = "TERMINATED"
    BY <2>1, LiveFacts DEF TerminateReconnectTimeout, SessionRow
  <2>4. Rows!Terminates(StoredSession, StoredEnrolment, StoredSession', StoredEnrolment')
    BY <1>2, <2>1, <2>2, Seen, SeenFields DEF Rows!Terminates
  <2> QED
    BY <1>0, <2>2, <2>3, <2>4, InvitedStep DEF SeenStep, SeenLives, Rows!Lives
<1>4. CASE AuthorizeReconnect
  <2> DEFINE r == RestoreDisconnectedSession(session)
  <2>1. /\ session.status = "DISCONNECTED" /\ ca' = MarkStarted(ca)
        /\ \E id : session' = BindActiveConnection(r, id)
    BY <1>4 DEF AuthorizeReconnect
  <2>2. r \in SessionRow
    BY <2>1, LiveFacts, SessionUpdatesTyped DEF LiveInv, OrderlyInv, IndInv, GraceCoherent, Time
  <2>3. r.status = "IN_PROGRESS" /\ r.deadline = NULL
    BY LiveFacts DEF RestoreDisconnectedSession, SessionRow
  <2> HIDE DEF r
  <2>4. SessionSeen(session') = Rows!Row("IN_PROGRESS", FALSE)
    <3>1. SessionSeen(r) = Rows!Row("IN_PROGRESS", FALSE)
      BY <2>3, SessionSeenAs
    <3>2. \A id : SessionSeen(BindActiveConnection(r, id)) = SessionSeen(r)
      <4>1. ASSUME NEW id PROVE SessionSeen(BindActiveConnection(r, id)) = SessionSeen(r)
        BY <2>2, LiveFacts, SessionUpdatesSeen
      <4> QED
        BY <4>1
    <3> QED
      BY <2>1, <3>1, <3>2
  <2>5. session'.status = "IN_PROGRESS"
    BY <2>1, <2>2, <2>3 DEF BindActiveConnection, SessionRow
  <2>6. /\ EnrolmentSeen(ca') = [EnrolmentSeen(ca) EXCEPT !.status = "IN_PROGRESS"]
        /\ ca'.consumed = ca.consumed
    BY <2>1, LiveFacts, CandidateUpdatesSeen, CandidateUpdatesKeepConsumed
  <2>7. Rows!Reconnects(StoredSession, StoredEnrolment, StoredSession', StoredEnrolment')
    BY <1>2, <2>1, <2>4, <2>6, Seen, SeenFields DEF Rows!Reconnects
  <2> QED
    BY <1>0, <2>5, <2>6, <2>7, InvitedStep DEF SeenStep, SeenLives, Rows!Lives
<1>5. CASE AuthorizeConnection
  <2>1. ca' = ca /\ session' = BindActiveConnection(session, ConnectionId)
    BY <1>5 DEF AuthorizeConnection
  <2>2. SessionSeen(session') = SessionSeen(session)
    BY <2>1, LiveFacts, SessionUpdatesSeen
  <2>3. session'.status = session.status
    BY <2>2, SeenFields
  <2>4. SeenStays
    BY <2>1, <2>2, Seen DEF SeenStays
  <2> QED
    BY <1>0, <2>1, <2>3, <2>4, InvitedStep DEF SeenStep
<1> QED
  BY <1>3, <1>4, <1>5 DEF Authorize

LEMMA LiveDrop ==
  ASSUME LiveInv, NEW d \in drops, NEW elapsed \in Elapsed, DisconnectRecorded(d, elapsed)
  PROVE  SeenStep
<1> DEFINE last == ShouldTerminate(session)
<1>0. [Next]_vars
  BY DEF Next, LiveKit
<1>1. /\ session.status \in ActiveStatuses /\ session.conn = d.id
      /\ session' = RecordDisconnect(session, d.deadline, elapsed)
      /\ ca' = IF last THEN MarkCandidateTerminated(ca) ELSE ca
  BY DEF DisconnectRecorded, DisconnectMatches
<1>2. d.id # NULL /\ d.deadline # NULL
  BY ConstantsAssumption DEF LiveInv, OrderlyInv, IndInv, TypeOK
<1>3. /\ session'.status = (IF last THEN "TERMINATED" ELSE "DISCONNECTED")
      /\ session'.deadline = (IF last THEN NULL ELSE d.deadline)
  BY <1>1, LiveFacts DEF RecordDisconnect, SessionRow
<1>4. ca.consumed /\ ca'.consumed = ca.consumed
  BY <1>1, <1>2, LiveFacts, CandidateUpdatesKeepConsumed
<1>5. Invited'
  BY <1>0, <1>3, <1>4, InvitedStep
<1> HIDE DEF last
<1>6. CASE last
  <2>1. SessionSeen(session') = Rows!Row("TERMINATED", FALSE)
    BY <1>3, <1>6, SessionSeenAs
  <2>2. EnrolmentSeen(ca') = [EnrolmentSeen(ca) EXCEPT !.status = "TERMINATED"]
    BY <1>1, <1>6, LiveFacts, CandidateUpdatesSeen
  <2>3. Rows!Terminates(StoredSession, StoredEnrolment, StoredSession', StoredEnrolment')
    BY <1>1, <1>4, <2>1, <2>2, Seen, SeenFields, LiveFacts DEF Rows!Terminates
  <2> QED
    BY <1>5, <2>3 DEF SeenStep, SeenLives, Rows!Lives
<1>7. CASE ~last
  <2>1. SessionSeen(session') = Rows!Row("DISCONNECTED", TRUE)
    BY <1>2, <1>3, <1>7, SessionSeenAs
  <2>2. Rows!Drops(StoredSession, StoredEnrolment, StoredSession', StoredEnrolment')
    BY <1>1, <1>4, <1>7, <2>1, Seen, SeenFields, LiveFacts DEF Rows!Drops
  <2> QED
    BY <1>5, <2>2 DEF SeenStep, SeenLives, Rows!Lives
<1> QED
  BY <1>6, <1>7

LEMMA CompletedSeen ==
  ASSUME LiveInv, NEW e \in Nat
  PROVE  SessionSeen(CompleteSessionRow(session, e)) = Rows!Row("COMPLETED", FALSE)
<1>1. session \in SessionRow
  BY LiveFacts
<1> QED
  BY <1>1, SessionUpdatesSeen

LEMMA LiveEngine ==
  ASSUME LiveInv, EngineOrderly, Engine
  PROVE  SeenStep
<1>0. [Next]_vars /\ Elapsed \subseteq Nat
  BY DEF Next, LiveInv, OrderlyInv, IndInv, TypeOK
<1> USE Seen, SeenFields, LiveFacts
<1>a. /\ JobIsCurrent => ca.consumed /\ session.status \in Rows!Active
      /\ JobIsCurrent => ca.status \notin Rows!ClosedEnrolment /\ session.status # "ABSENT"
      /\ InterviewEnded => ca.status \in Rows!ClosedEnrolment
  BY DEF JobIsCurrent, InterviewEnded, ActiveStatuses
<1>1. CASE InitializeInterviewContext \/ SessionInProgress
  <2>1. JobIsCurrent /\ ca' \in {ca, MarkStarted(ca)}
        /\ session' \in {MarkSessionInProgress(session),
                         MarkSessionInProgress(GetOrCreateSession(session))}
    BY <1>1 DEF InitializeInterviewContext, SessionInProgress
  <2>2. session' = MarkSessionInProgress(session)
    BY <1>a, <2>1 DEF GetOrCreateSession
  <2>3. /\ SessionSeen(session') = Rows!Row("IN_PROGRESS", FALSE)
        /\ session'.status = "IN_PROGRESS"
    <3>1. SessionSeen(MarkSessionInProgress(session)) = Rows!Row("IN_PROGRESS", FALSE)
      BY SessionUpdatesSeen
    <3> QED
      BY <2>2, <3>1 DEF MarkSessionInProgress, SessionRow
  <2>4. /\ EnrolmentSeen(ca') \in {EnrolmentSeen(ca),
                                    [EnrolmentSeen(ca) EXCEPT !.status = "IN_PROGRESS"]}
        /\ ca'.consumed = ca.consumed
    BY <2>1, CandidateUpdatesSeen, CandidateUpdatesKeepConsumed
  <2>5. Rows!Begins(StoredSession, StoredEnrolment, StoredSession', StoredEnrolment')
    BY <1>a, <2>1, <2>3, <2>4 DEF Rows!Begins
  <2> QED
    BY <1>0, <2>3, <2>4, <2>5, InvitedStep DEF SeenStep, SeenLives, Rows!Lives
<1>2. CASE CandidateStarted \/ CandidateTimerStarted
  <2>1. JobIsCurrent /\ ca' \in {MarkStarted(ca), MarkTimerStarted(ca)} /\ session' = session
    BY <1>2 DEF CandidateStarted, CandidateTimerStarted
  <2>2. EnrolmentSeen(ca') = [EnrolmentSeen(ca) EXCEPT !.status = "IN_PROGRESS"]
        /\ ca'.consumed = ca.consumed
    BY <2>1, CandidateUpdatesSeen, CandidateUpdatesKeepConsumed
  <2>3. Rows!Begins(StoredSession, StoredEnrolment, StoredSession', StoredEnrolment')
    BY <1>a, <2>1, <2>2 DEF Rows!Begins
  <2> QED
    BY <1>0, <2>1, <2>2, <2>3, InvitedStep DEF SeenStep, SeenLives, Rows!Lives
<1>3. CASE \E elapsed \in Elapsed : PersistTurn(elapsed)
  <2>1. PICK elapsed \in Elapsed : session' = UpdateElapsedTime(session, elapsed) /\ ca' = ca
    BY <1>3 DEF PersistTurn
  <2>2. SessionSeen(session') = SessionSeen(session)
    BY <1>0, <2>1, SessionUpdatesSeen
  <2>3. session'.status = session.status
    BY <2>2
  <2> QED
    BY <1>0, <2>1, <2>2, <2>3, InvitedStep DEF SeenStep, SeenStays
<1>4. CASE ProctoringTermination
  <2>1. /\ ca.consumed /\ session.status \in Rows!Active
        /\ session' = TerminateSession(session) /\ ca' = MarkCandidateTerminated(ca)
    BY <1>4 DEF ProctoringTermination
  <2>2. /\ SessionSeen(session') = Rows!Row("TERMINATED", FALSE)
        /\ session'.status = "TERMINATED"
        /\ EnrolmentSeen(ca') = [EnrolmentSeen(ca) EXCEPT !.status = "TERMINATED"]
        /\ ca'.consumed = ca.consumed
    <3>1. SessionSeen(TerminateSession(session)) = Rows!Row("TERMINATED", FALSE)
      BY SessionUpdatesSeen
    <3>2. TerminateSession(session).status = "TERMINATED"
      BY DEF TerminateSession, SessionRow
    <3> QED
      BY <2>1, <3>1, <3>2, CandidateUpdatesSeen, CandidateUpdatesKeepConsumed
  <2>3. Rows!Terminates(StoredSession, StoredEnrolment, StoredSession', StoredEnrolment')
    BY <2>1, <2>2 DEF Rows!Terminates
  <2> QED
    BY <1>0, <2>2, <2>3, InvitedStep DEF SeenStep, SeenLives, Rows!Lives
<1>5. CASE \E elapsed \in Elapsed : CompleteSession(elapsed)
  <2>1. PICK elapsed \in Elapsed :
           session' = CompleteSessionRow(session, elapsed) /\ ca' = ca
    BY <1>5 DEF CompleteSession
  <2>2. ca.consumed /\ session.status \in Rows!Active \cup {"COMPLETED"}
    BY <1>5 DEF CompleteSession, LiveInv, Invited
  <2>3. SessionSeen(session') = Rows!Row("COMPLETED", FALSE)
    <3>1. SessionSeen(CompleteSessionRow(session, elapsed)) = Rows!Row("COMPLETED", FALSE)
      BY <1>0, CompletedSeen
    <3> QED
      BY <2>1, <3>1
  <2>4. Rows!Completes(StoredSession, StoredEnrolment, StoredSession', StoredEnrolment')
    BY <2>1, <2>2, <2>3 DEF Rows!Completes
  <2> QED
    BY <1>0, <2>1, <2>2, <2>4, InvitedStep DEF SeenStep, SeenLives, Rows!Lives
<1>6. CASE CandidateCompleted
  <2>1. session.status = "COMPLETED" /\ ca' = MarkCompleted(ca) /\ session' = session
    BY <1>6 DEF CandidateCompleted
  <2>2. ca.consumed
    BY <2>1 DEF LiveInv, Invited
  <2>3. EnrolmentSeen(ca') = [EnrolmentSeen(ca) EXCEPT !.status = "COMPLETED"]
        /\ ca'.consumed = ca.consumed
    BY <2>1, CandidateUpdatesSeen, CandidateUpdatesKeepConsumed
  <2>4. Rows!Completes(StoredSession, StoredEnrolment, StoredSession', StoredEnrolment')
    BY <2>1, <2>2, <2>3 DEF Rows!Completes
  <2> QED
    BY <1>0, <2>1, <2>3, <2>4, InvitedStep DEF SeenStep, SeenLives, Rows!Lives
<1>7. CASE MarkEvaluationFailed
  <2>1. /\ session.status # "ABSENT" /\ InterviewEnded
        /\ session' = MarkFailed(session) /\ ca' = ca
    BY <1>7 DEF MarkEvaluationFailed, SessionExists
  <2>2. session'.status = "COMPLETED" => session.status = "COMPLETED"
    BY <2>1 DEF MarkFailed, SessionRow
  <2>3. Invited'
    BY <1>0, <2>1, <2>2, InvitedStep
  <2>4. CASE session.status = "EVALUATED"
    BY <2>1, <2>3, <2>4, SessionUpdatesSeen DEF SeenStep, SeenStays
  <2>5. CASE session.status # "EVALUATED"
    <3>1. SessionSeen(session') = [SessionSeen(session) EXCEPT !.status = "EVALUATION_FAILED"]
      BY <2>1, <2>5, SessionUpdatesSeen
    <3>2. Rows!EvaluationFails(StoredSession, StoredEnrolment, StoredSession', StoredEnrolment')
      BY <1>a, <2>1, <2>5, <3>1 DEF Rows!EvaluationFails
    <3> QED
      BY <2>3, <3>2 DEF SeenStep, SeenLives, Rows!Lives
  <2> QED
    BY <2>4, <2>5
<1>8. CASE SaveFinalEvaluation
  <2>1. /\ session.status # "ABSENT" /\ InterviewEnded
        /\ session' = SaveEvaluated(session) /\ ca' = MarkCandidateEvaluated(ca)
    BY <1>8 DEF SaveFinalEvaluation, SessionExists
  <2>2. /\ SessionSeen(session') = [SessionSeen(session) EXCEPT !.status = "EVALUATED"]
        /\ EnrolmentSeen(ca') = [EnrolmentSeen(ca) EXCEPT !.status = "EVALUATED"]
        /\ ca'.consumed = ca.consumed
    BY <2>1, SessionUpdatesSeen, CandidateUpdatesSeen, CandidateUpdatesKeepConsumed
  <2>3. session'.status = "EVALUATED"
    BY <2>1 DEF SaveEvaluated, SessionRow
  <2>4. Rows!Evaluates(StoredSession, StoredEnrolment, StoredSession', StoredEnrolment')
    BY <1>a, <2>1, <2>2 DEF Rows!Evaluates
  <2> QED
    BY <1>0, <2>2, <2>3, <2>4, InvitedStep DEF SeenStep, SeenLives, Rows!Lives
<1> QED
  BY <1>1, <1>2, <1>3, <1>4, <1>5, <1>6, <1>7, <1>8 DEF Engine, Progress

LEMMA LiveStep == LiveInv /\ EngineOrderly /\ [Next]_vars => LiveInv' /\ (SeenLives \/ SeenStays)
<1> SUFFICES ASSUME LiveInv, EngineOrderly, [Next]_vars
             PROVE  LiveInv' /\ (SeenLives \/ SeenStays)
  OBVIOUS
<1>1. OrderlyInv'
  BY OrderlyStep DEF LiveInv
<1>2. SeenStep
  <2>1. CASE session' = session /\ ca' = ca
    BY <2>1, Seen DEF SeenStep, SeenStays, LiveInv, Invited
  <2>2. CASE Candidate
    BY <2>2, LiveEntry, LiveAuthorize DEF Candidate
  <2>3. CASE \E d \in drops, elapsed \in Elapsed : DisconnectRecorded(d, elapsed)
    BY <2>3, LiveDrop
  <2>4. CASE Engine
    BY <2>4, LiveEngine
  <2> QED
    BY <2>1, <2>2, <2>3, <2>4
       DEF Next, LiveKit, Tick, DisconnectArrives, DisconnectIgnored, vars
<1> QED
  BY <1>1, <1>2 DEF LiveInv, SeenStep

\* The session and the enrolment row change together as InterviewRows allows,
\* whatever is repeated, late or lost, if the engine is orderly: what
\* MigrationRuns assumes of the interviews of a database at revision 9.
THEOREM RowsAreLive == ASSUME EngineOrderly PROVE Spec => RowsLive
<1>1. Init => LiveInv
  BY OrderlyInit DEF Init, LiveInv, Invited, Absent
<1>2. LiveInv /\ [Next]_vars => LiveInv'
  BY LiveStep
<1>3. LiveInv /\ [Next]_vars =>
        [Rows!Lives(StoredSession, StoredEnrolment, StoredSession', StoredEnrolment')]_
            <<StoredSession, StoredEnrolment>>
  BY LiveStep DEF SeenLives, SeenStays
<1> QED
  BY <1>1, <1>2, <1>3, PTL DEF Spec, RowsLive

-----------------------------------------------------------------------------
(* Proctoring: the transcript.                                             *)

TurnsInv == transcript \in Lists(Turns) /\ findings \in Lists(Findings)

\* A retried persist_turn stores no transcript item and no violation twice,
\* neither after another request nor within one.
THEOREM TurnsOnce == ProctoringSpec => []TurnsStoredOnce
<1>1. ProctoringInit => TurnsInv
  <2>1. \A X : <<>> \in Lists(X)
    BY DEF Lists, IsInjective
  <2> QED
    BY <2>1 DEF ProctoringInit, TurnsInv
<1>2. TurnsInv /\ [ProctoringNext]_<<vars, proctoring>> => TurnsInv'
  <2> SUFFICES ASSUME TurnsInv, [ProctoringNext]_<<vars, proctoring>> PROVE TurnsInv'
    OBVIOUS
  <2>1. ASSUME NEW items \in BoundedSeq(Turns, MaxTurnItems),
               NEW reported \in BoundedSeq(Findings, MaxTurnItems), NEW elapsed \in Elapsed,
               PersistTurnItems(items, reported, elapsed)
        PROVE  TurnsInv'
    <3>1. items \in Seq(Turns) /\ reported \in Seq(Findings)
      BY SMTT(30) DEF BoundedSeq, SeqOf
    <3> QED
      BY <2>1, <3>1, AppendItemsType DEF TurnsInv, PersistTurnItems
  <2>2. ASSUME UNCHANGED <<transcript, findings>> PROVE TurnsInv'
    BY <2>2 DEF TurnsInv
  <2> QED
    BY <2>1, <2>2 DEF ProctoringNext, Packet, Turn, Session, RecordTabSwitch,
       RecordProctoringEvent, proctoring
<1>3. TurnsInv => TurnsStoredOnce
  BY DEF TurnsInv, Lists, TurnsStoredOnce
<1> QED
  BY <1>1, <1>2, <1>3, PTL DEF ProctoringSpec

USE ProctoringAssumption

ProctoringVars == <<vars, proctoring>>

-----------------------------------------------------------------------------
(* Every step is a step of the session, or leaves it alone.                *)

LEMMA SessionStep == [ProctoringNext]_ProctoringVars => [Next]_vars
<1>1. ASSUME NEW terminated, TerminateIf(terminated) PROVE [Next]_vars
  BY <1>1 DEF TerminateIf, Next, Engine
<1>2. ASSUME Packet PROVE [Next]_vars
  BY <1>1, <1>2 DEF Packet, RecordTabSwitch, RecordProctoringEvent
<1>3. ASSUME Turn PROVE [Next]_vars
  BY <1>3 DEF Turn, PersistTurnItems, Next, Engine
<1>4. ASSUME Session PROVE [Next]_vars
  BY <1>4 DEF Session, Next, Engine
<1>5. ASSUME UNCHANGED ProctoringVars PROVE [Next]_vars
  BY <1>5 DEF ProctoringVars
<1> QED
  BY <1>2, <1>3, <1>4, <1>5 DEF ProctoringNext

\* Proctoring does to the lifecycle rows only what InterviewSession allows.
THEOREM Conservative == ProctoringSpec => SessionSpec
<1>1. ProctoringInit => Init
  BY DEF ProctoringInit
<1> QED
  BY <1>1, SessionStep, PTL DEF ProctoringSpec, SessionSpec, Spec, ProctoringVars

-----------------------------------------------------------------------------
(* Tab switches: the records of old code until the first new one, then one *)
(* record that speaks of all.                                              *)

LegacyRecords == {[ids |-> {event}, declared |-> 0] : event \in LegacyTabs}

TabsInv ==
    /\ IsFiniteSet(counted) /\ TabEventIds = counted
    /\ \/ tabs = LegacyRecords /\ counted = LegacyTabs
       \/ tabs = {[ids |-> counted, declared |-> Cardinality(counted)]} /\ counted # {}

LEMMA MaxIs ==
    ASSUME NEW S \in SUBSET Nat, NEW m \in S, \A n \in S : n <= m
    PROVE  Max(S) = m
<1>1. m \in S /\ \A n \in S : m >= n
  OBVIOUS
<1>2. \A x \in S : (\A n \in S : x >= n) => x = m
  BY <1>1
<1>3. Max(S) \in S /\ \A n \in S : Max(S) >= n
  BY <1>1 DEF Max
<1> QED
  BY <1>2, <1>3

LEMMA LegacyCount ==
    IsFiniteSet(LegacyRecords) /\ Cardinality(LegacyRecords) = Cardinality(LegacyTabs)
<1> DEFINE f == [event \in LegacyTabs |-> [ids |-> {event}, declared |-> 0]]
<1>1. f \in Surjection(LegacyTabs, LegacyRecords)
  BY DEF Surjection, LegacyRecords
<1>2. f \in Injection(LegacyTabs, LegacyRecords)
  <2>1. \A d, e \in LegacyTabs : f[d] = f[e] => d = e
    <3>1. ASSUME NEW d \in LegacyTabs, NEW e \in LegacyTabs, f[d] = f[e] PROVE d = e
      <4>1. f[d].ids = {d} /\ f[e].ids = {e}
        OBVIOUS
      <4>2. {d} = {e}
        BY <3>1, <4>1
      <4> QED
        BY <4>2
    <3> QED
      BY <3>1
  <2> QED
    BY <2>1 DEF Injection, IsInjective, LegacyRecords
<1> QED
  BY <1>1, <1>2, FS_Surjection

LEMMA CountIs == TabsInv => TabSwitchCount = Cardinality(counted)
<1> SUFFICES ASSUME TabsInv PROVE TabSwitchCount = Cardinality(counted)
  OBVIOUS
<1>1. Cardinality(counted) \in Nat
  BY FS_CardinalityType DEF TabsInv
<1> DEFINE n == Cardinality(counted)
           S == {Cardinality(tabs)} \cup {item.declared : item \in tabs}
<1>2. CASE tabs = LegacyRecords /\ counted = LegacyTabs
  <2>1. Cardinality(tabs) = n
    BY <1>2, LegacyCount
  <2>2. \A item \in tabs : item.declared = 0
    BY <1>2 DEF LegacyRecords
  <2> HIDE DEF n
  <2>3. S \in SUBSET Nat /\ n \in S /\ \A m \in S : m <= n
    BY <1>1, <2>1, <2>2 DEF n
  <2> QED
    BY <2>3, MaxIs DEF TabSwitchCount, n
<1>3. CASE tabs = {[ids |-> counted, declared |-> Cardinality(counted)]} /\ counted # {}
  <2>1. Cardinality(tabs) = 1
    BY <1>3, FS_Singleton
  <2>2. n > 0
    BY <1>1, <1>3, FS_EmptySet DEF TabsInv
  <2>3. {item.declared : item \in tabs} = {n}
    BY <1>3
  <2> HIDE DEF n
  <2>4. S = {1, n}
    BY <2>1, <2>3
  <2>5. S \in SUBSET Nat /\ n \in S /\ \A m \in S : m <= n
    BY <1>1, <2>2, <2>4 DEF n
  <2> QED
    BY <2>5, MaxIs DEF TabSwitchCount, n
<1> QED
  BY <1>2, <1>3 DEF TabsInv

LEMMA TabStep ==
    ASSUME TabsInv, NEW event \in TabEvents, event \notin TabEventIds,
           tabs' = {CanonicalTab(event)}, counted' = counted \cup {event}
    PROVE  TabsInv' /\ TabSwitchCount' = TabSwitchCount + 1
<1>1. IsFiniteSet(counted') /\ Cardinality(counted') = Cardinality(counted) + 1
  BY FS_AddElement DEF TabsInv
<1>2. TabSwitchCount = Cardinality(counted) /\ TabEventIds = counted
  BY CountIs DEF TabsInv
<1>3. CanonicalTab(event) = [ids |-> counted', declared |-> Cardinality(counted')]
  BY <1>1, <1>2 DEF CanonicalTab
<1>4. tabs' = {[ids |-> counted', declared |-> Cardinality(counted')]}
  BY <1>3
<1>5. TabEventIds' = counted'
  BY <1>4 DEF TabEventIds
<1>6. TabsInv'
  BY <1>1, <1>4, <1>5 DEF TabsInv
<1>7. TabSwitchCount' = Cardinality(counted')
  <2>1. (TabsInv => TabSwitchCount = Cardinality(counted))'
    BY CountIs, PTL
  <2> QED
    BY <1>6, <2>1
<1> QED
  BY <1>1, <1>2, <1>6, <1>7

LEMMA TabsKept ==
  TabsInv /\ UNCHANGED <<tabs, counted>> => TabsInv' /\ TabSwitchCount' = TabSwitchCount
BY DEF TabsInv, TabEventIds, TabSwitchCount

LEMMA TabsInit == ProctoringInit => TabsInv
<1> SUFFICES ASSUME ProctoringInit PROVE TabsInv
  OBVIOUS
<1>1. tabs = LegacyRecords /\ counted = LegacyTabs
  BY DEF ProctoringInit, LegacyRecords
<1>2. TabEventIds = LegacyTabs
  <2>1. \A item \in tabs : \E event \in LegacyTabs : item.ids = {event}
    BY <1>1 DEF LegacyRecords
  <2>2. ASSUME NEW event \in LegacyTabs PROVE \E item \in tabs : item.ids = {event}
    <3>1. [ids |-> {event}, declared |-> 0] \in tabs
      BY <1>1 DEF LegacyRecords
    <3> QED
      BY <3>1
  <2> QED
    BY <2>1, <2>2 DEF TabEventIds
<1> QED
  BY <1>1, <1>2 DEF TabsInv

LEMMA TabsNext == TabsInv /\ [ProctoringNext]_ProctoringVars => TabsInv'
<1> SUFFICES ASSUME TabsInv, [ProctoringNext]_ProctoringVars PROVE TabsInv'
  OBVIOUS
<1>1. ASSUME NEW id, NEW event \in TabEvents, RecordTabSwitch(id, event) PROVE TabsInv'
  BY <1>1, TabStep DEF RecordTabSwitch
<1>2. ASSUME UNCHANGED <<tabs, counted>> PROVE TabsInv'
  BY <1>2, TabsKept
<1> QED
  BY <1>1, <1>2 DEF ProctoringNext, Packet, Turn, Session, RecordProctoringEvent,
     PersistTurnItems, proctoring, ProctoringVars

\* Every tab switch that was accepted counts once, those that old code stored
\* one record each included, whatever packets are repeated.
THEOREM TabCount == ProctoringSpec => []TabsCountedOnce
<1>1. TabsInv => TabsCountedOnce
  BY CountIs DEF TabsCountedOnce
<1> QED
  BY <1>1, TabsInit, TabsNext, PTL DEF ProctoringSpec, ProctoringVars

-----------------------------------------------------------------------------
(* Face episodes.                                                          *)

Faces == [FaceTypes -> [episodes : [Starts -> Nat], ids : SUBSET FaceEvents,
                        triggered : BOOLEAN]]

Observed(type, start) ==
    {p.observed : p \in {q \in packets : q.type = type /\ q.start = start}}

FacesInv ==
    /\ faces \in Faces
    /\ packets \subseteq [type : FaceTypes, start : Starts, observed : Nat]
    /\ \A type \in FaceTypes, start \in Starts :
          /\ faces[type].episodes[start] \in {0} \cup Observed(type, start)
          /\ \A n \in Observed(type, start) : n <= faces[type].episodes[start]
    /\ \A type \in FaceTypes :
          faces[type].triggered <=>
            \E start \in Starts : faces[type].episodes[start] >= TerminationDuration

LEMMA FacesInit == ProctoringInit => FacesInv
<1> SUFFICES ASSUME ProctoringInit PROVE FacesInv
  OBVIOUS
<1>1. /\ faces = [type \in FaceTypes |->
                    [episodes |-> [start \in Starts |-> 0], ids |-> {}, triggered |-> FALSE]]
      /\ packets = {}
  BY DEF ProctoringInit
<1>2. faces \in Faces
  BY <1>1 DEF Faces
<1>3. \A type \in FaceTypes, start \in Starts :
         /\ faces[type].episodes[start] = 0 /\ faces[type].triggered = FALSE
         /\ Observed(type, start) = {}
  BY <1>1 DEF Observed
<1>4. \A type \in FaceTypes : faces[type].triggered = FALSE
  BY <1>1
<1> QED
  BY <1>1, <1>2, <1>3, <1>4 DEF FacesInv

\* A packet that is merged, and what stays as it was.
LEMMA FaceStep ==
    ASSUME FacesInv, NEW type \in FaceTypes, NEW event \in FaceEvents, NEW start \in Starts,
           NEW observed \in Durations,
           faces' = [faces EXCEPT ![type] = MergeFaceEpisode(@, event, start, observed)],
           packets' = packets \cup {[type |-> type, start |-> start, observed |-> observed]}
    PROVE  /\ FacesInv'
           /\ \A t \in FaceTypes, s \in Starts :
                 faces'[t].episodes[s] >= TerminationDuration =>
                    \/ faces[t].episodes[s] >= TerminationDuration
                    \/ observed >= TerminationDuration
<1> DEFINE face == faces[type]
           merged == MergeFaceEpisode(face, event, start, observed)
<1>1. observed \in Nat /\ TerminationDuration \in Nat \ {0}
  OBVIOUS
<1>2. face \in [episodes : [Starts -> Nat], ids : SUBSET FaceEvents, triggered : BOOLEAN]
  BY DEF FacesInv, Faces
<1>3. /\ merged.episodes = [face.episodes EXCEPT ![start] = Greatest(@, observed)]
      /\ merged.ids = face.ids \cup {event}
      /\ merged.triggered = (face.triggered \/ observed >= TerminationDuration)
      /\ merged = [episodes |-> merged.episodes, ids |-> merged.ids, triggered |-> merged.triggered]
  BY DEF MergeFaceEpisode, MergedDuration
<1>4. /\ merged.episodes \in [Starts -> Nat]
      /\ merged.episodes[start] = Greatest(face.episodes[start], observed)
      /\ \A s \in Starts \ {start} : merged.episodes[s] = face.episodes[s]
  BY <1>1, <1>2, <1>3 DEF Greatest
<1>5. merged.ids \subseteq FaceEvents /\ merged.triggered \in BOOLEAN
  BY <1>2, <1>3
<1> HIDE DEF merged
<1>6. merged \in [episodes : [Starts -> Nat], ids : SUBSET FaceEvents, triggered : BOOLEAN]
  BY <1>3, <1>4, <1>5
<1>7. faces'[type] = merged /\ \A t \in FaceTypes \ {type} : faces'[t] = faces[t]
  BY DEF FacesInv, Faces, merged
<1>8. faces' \in Faces
  <2>1. faces' = [faces EXCEPT ![type] = merged]
    BY DEF merged
  <2> QED
    BY <1>6, <2>1 DEF FacesInv, Faces
<1>9. packets' \subseteq [type : FaceTypes, start : Starts, observed : Nat]
  BY <1>1 DEF FacesInv
<1>10. ASSUME NEW t \in FaceTypes, NEW s \in Starts
       PROVE  Observed(t, s)' =
                Observed(t, s) \cup (IF t = type /\ s = start THEN {observed} ELSE {})
  <2> DEFINE p == [type |-> type, start |-> start, observed |-> observed]
  <2>1. p.type = type /\ p.start = start /\ p.observed = observed /\ packets' = packets \cup {p}
    OBVIOUS
  <2> HIDE DEF p
  <2> QED
    BY <2>1 DEF Observed
<1>11. face.episodes[start] \in Nat /\ Greatest(face.episodes[start], observed) \in Nat
       /\ Greatest(face.episodes[start], observed) >= face.episodes[start]
       /\ Greatest(face.episodes[start], observed) >= observed
       /\ Greatest(face.episodes[start], observed) \in {face.episodes[start], observed}
  BY <1>1, <1>2 DEF Greatest
<1>12. ASSUME NEW t \in FaceTypes, NEW s \in Starts
       PROVE  /\ faces'[t].episodes[s] \in {0} \cup Observed(t, s)'
              /\ \A n \in Observed(t, s)' : n <= faces'[t].episodes[s]
  <2>1. /\ faces[t].episodes[s] \in {0} \cup Observed(t, s)
        /\ \A n \in Observed(t, s) : n \in Nat /\ n <= faces[t].episodes[s]
        /\ faces[t].episodes[s] \in Nat
    <3>1. \A n \in Observed(t, s) : n \in Nat
      BY DEF Observed, FacesInv
    <3>2. faces[t].episodes[s] \in Nat
      BY DEF FacesInv, Faces
    <3> QED
      BY <3>1, <3>2 DEF FacesInv
  <2>2. CASE t = type /\ s = start
    <3>1. faces'[t].episodes[s] = Greatest(face.episodes[start], observed)
      BY <1>4, <1>7, <2>2
    <3>2. Observed(t, s)' = Observed(t, s) \cup {observed}
      BY <1>10, <2>2
    <3>3. faces[t].episodes[s] = face.episodes[start]
      BY <2>2
    <3> HIDE DEF face
    <3> QED
      BY <1>1, <1>11, <2>1, <3>1, <3>2, <3>3
  <2>3. CASE ~(t = type /\ s = start)
    BY <1>4, <1>7, <1>10, <2>1, <2>3
  <2> QED
    BY <2>2, <2>3
<1>13. ASSUME NEW t \in FaceTypes
       PROVE  faces'[t].triggered <=> \E s \in Starts : faces'[t].episodes[s] >= TerminationDuration
  <2>1. faces[t].triggered <=> \E s \in Starts : faces[t].episodes[s] >= TerminationDuration
    BY DEF FacesInv
  <2>2. CASE t # type
    BY <1>7, <2>1, <2>2
  <2>3. CASE t = type /\ observed >= TerminationDuration
    <3>1. merged.triggered
      BY <1>3, <2>3
    <3>2. merged.episodes[start] >= TerminationDuration
      BY <1>1, <1>4, <1>11, <2>3
    <3> QED
      BY <1>7, <2>3, <3>1, <3>2
  <2>4. CASE t = type /\ ~(observed >= TerminationDuration)
    <3>1. merged.triggered <=> face.triggered
      BY <1>2, <1>3, <2>4
    <3>2. \A s \in Starts : merged.episodes[s] >= TerminationDuration
                              <=> face.episodes[s] >= TerminationDuration
      <4>1. Greatest(face.episodes[start], observed) >= TerminationDuration
              <=> face.episodes[start] >= TerminationDuration
        BY <1>1, <1>11, <2>4 DEF Greatest
      <4> QED
        BY <1>4, <4>1
    <3> QED
      BY <1>7, <2>1, <2>4, <3>1, <3>2
  <2> QED
    BY <2>2, <2>3, <2>4
<1>14. FacesInv'
  BY <1>8, <1>9, <1>12, <1>13 DEF FacesInv
<1>15. ASSUME NEW t \in FaceTypes, NEW s \in Starts, faces'[t].episodes[s] >= TerminationDuration
       PROVE  faces[t].episodes[s] >= TerminationDuration \/ observed >= TerminationDuration
  <2>1. CASE t = type /\ s = start
    BY <1>4, <1>7, <1>11, <1>15, <2>1
  <2>2. CASE ~(t = type /\ s = start)
    BY <1>4, <1>7, <1>15, <2>2
  <2> QED
    BY <2>1, <2>2
<1> QED
  BY <1>14, <1>15

LEMMA FacesKept == FacesInv /\ UNCHANGED <<faces, packets>> => FacesInv'
BY DEF FacesInv, Observed

LEMMA FacesNext == FacesInv /\ [ProctoringNext]_ProctoringVars => FacesInv'
<1> SUFFICES ASSUME FacesInv, [ProctoringNext]_ProctoringVars PROVE FacesInv'
  OBVIOUS
<1>1. ASSUME NEW id, NEW type \in FaceTypes, NEW event \in FaceEvents, NEW start \in Starts,
             NEW observed \in Durations, RecordProctoringEvent(id, type, event, start, observed)
      PROVE  FacesInv'
  BY <1>1, FaceStep DEF RecordProctoringEvent
<1>2. ASSUME UNCHANGED <<faces, packets>> PROVE FacesInv'
  BY <1>2, FacesKept
<1> QED
  BY <1>1, <1>2 DEF ProctoringNext, Packet, Turn, Session, RecordTabSwitch,
     PersistTurnItems, proctoring, ProctoringVars

\* The stored episodes depend on which packets were accepted, not on their
\* order or number, and a termination flag is never lost.
THEOREM Episodes == ProctoringSpec => []EpisodesSummarisePackets
<1>1. ASSUME FacesInv PROVE EpisodesSummarisePackets
  <2>1. ASSUME NEW type \in FaceTypes, NEW start \in Starts
        PROVE  faces[type].episodes[start] = Max({0} \cup Observed(type, start))
    <3> DEFINE S == {0} \cup Observed(type, start)
               d == faces[type].episodes[start]
    <3>1. S \in SUBSET Nat
      BY <1>1 DEF Observed, FacesInv
    <3>2. d \in S /\ d \in Nat /\ \A n \in S : n <= d
      BY <1>1 DEF FacesInv, Faces
    <3> HIDE DEF S, d
    <3>3. Max(S) = d
      BY <3>1, <3>2, MaxIs
    <3> QED
      BY <3>3 DEF S, d
  <2> QED
    BY <1>1, <2>1 DEF EpisodesSummarisePackets, FacesInv, Observed
<1> QED
  BY <1>1, FacesInit, FacesNext, PTL DEF ProctoringSpec, ProctoringVars

-----------------------------------------------------------------------------
(* The limits.                                                             *)

LongEpisode ==
    \E type \in FaceTypes, start \in Starts :
        faces[type].episodes[start] >= TerminationDuration

LimitsInv == OrderlyInv /\ TabsInv /\ FacesInv /\ LimitsEnforced

LEMMA LimitsInit == ProctoringInit => LimitsInv
<1> SUFFICES ASSUME ProctoringInit PROVE LimitsInv
  OBVIOUS
<1>1. OrderlyInv /\ TabsInv /\ FacesInv
  BY OrderlyInit, TabsInit, FacesInit DEF ProctoringInit
<1>2. TabSwitchCount = Cardinality(LegacyTabs) /\ Cardinality(LegacyTabs) \in Nat
  BY <1>1, CountIs, FS_CardinalityType DEF ProctoringInit
<1>3. ~(TabSwitchCount >= MaxTabSwitches)
  BY <1>2
<1>4. ~LongEpisode
  BY DEF ProctoringInit, LongEpisode
<1> QED
  BY <1>1, <1>3, <1>4 DEF LimitsInv, LimitsEnforced, LongEpisode

\* A terminating packet closes the session, and a closed one stays closed.
LEMMA Terminates ==
    ASSUME LimitsInv, NEW terminated, terminated, TerminateIf(terminated)
    PROVE  session'.status \in TerminalSessionStatuses
<1>1. session \in SessionRow
  BY DEF LimitsInv, OrderlyInv, IndInv, TypeOK
<1>2. session' = TerminateSession(session)
  BY DEF TerminateIf, ProctoringTermination
<1> QED
  BY <1>1, <1>2 DEF TerminateSession, SessionRow, TerminalSessionStatuses

LEMMA LimitsNext ==
    ASSUME EngineOrderly
    PROVE  LimitsInv /\ [ProctoringNext]_ProctoringVars => LimitsInv'
<1> SUFFICES ASSUME LimitsInv, [ProctoringNext]_ProctoringVars PROVE LimitsInv'
  OBVIOUS
<1>1. OrderlyInv' /\ Orderly
  BY SessionStep, OrderlyStep DEF LimitsInv
<1>2. TabsInv' /\ FacesInv'
  BY TabsNext, FacesNext DEF LimitsInv
<1>3. session.status \in TerminalSessionStatuses => LimitsEnforced'
  BY <1>1 DEF Orderly, LimitsEnforced
<1>4. session.status \notin TerminalSessionStatuses =>
         ~(TabSwitchCount >= MaxTabSwitches) /\ ~LongEpisode
  BY DEF LimitsInv, LimitsEnforced, LongEpisode
<1>5. TabSwitchCount \in Nat /\ TabSwitchCount = Cardinality(counted)
  BY CountIs, FS_CardinalityType DEF LimitsInv, TabsInv
<1>6. ASSUME NEW id, NEW event \in TabEvents, RecordTabSwitch(id, event),
             session.status \notin TerminalSessionStatuses
      PROVE  LimitsEnforced'
  <2>1. TabSwitchCount' = TabSwitchCount + 1
    BY <1>6, TabStep DEF RecordTabSwitch, LimitsInv
  <2>2. faces' = faces
    BY <1>6 DEF RecordTabSwitch
  <2>3. TerminateIf(TabSwitchCount + 1 >= MaxTabSwitches)
    BY <1>6 DEF RecordTabSwitch, TabLimitReached
  <2>4. ~LongEpisode'
    BY <1>4, <1>6, <2>2 DEF LongEpisode
  <2> QED
    BY <2>1, <2>3, <2>4, Terminates DEF LimitsEnforced, LongEpisode
<1>7. ASSUME NEW id, NEW type \in FaceTypes, NEW event \in FaceEvents, NEW start \in Starts,
             NEW observed \in Durations, RecordProctoringEvent(id, type, event, start, observed),
             session.status \notin TerminalSessionStatuses
      PROVE  LimitsEnforced'
  <2>1. TabSwitchCount' = TabSwitchCount
    BY <1>7, TabsKept DEF RecordProctoringEvent, LimitsInv
  <2>2. TerminateIf(observed >= TerminationDuration)
    BY <1>7 DEF RecordProctoringEvent
  <2>3. LongEpisode' => LongEpisode \/ observed >= TerminationDuration
    BY <1>7, FaceStep DEF RecordProctoringEvent, LimitsInv, LongEpisode
  <2> QED
    BY <1>4, <1>7, <2>1, <2>2, <2>3, Terminates DEF LimitsEnforced, LongEpisode
<1>8. ASSUME UNCHANGED <<tabs, faces, counted>>, session.status \notin TerminalSessionStatuses
      PROVE  LimitsEnforced'
  <2>1. TabSwitchCount' = TabSwitchCount
    BY <1>8 DEF TabSwitchCount
  <2>2. LongEpisode' = LongEpisode
    BY <1>8 DEF LongEpisode
  <2> QED
    BY <1>4, <1>8, <2>1, <2>2 DEF LimitsEnforced, LongEpisode
<1>9. LimitsEnforced'
  BY <1>3, <1>6, <1>7, <1>8 DEF ProctoringNext, Packet, Turn, Session,
     PersistTurnItems, proctoring, ProctoringVars
<1> QED
  BY <1>1, <1>2, <1>9 DEF LimitsInv

\* The last allowed tab switch and a face condition that lasted long enough end
\* the interview, and no request lets it run again, if the engine is orderly.
THEOREM Limits == ASSUME EngineOrderly PROVE ProctoringSpec => []LimitsEnforced
<1>1. LimitsInv => LimitsEnforced
  BY DEF LimitsInv
<1>2. LimitsInv /\ [ProctoringNext]_ProctoringVars => LimitsInv'
  BY LimitsNext
<1> QED
  BY <1>1, <1>2, LimitsInit, PTL DEF ProctoringSpec, ProctoringVars

=============================================================================
