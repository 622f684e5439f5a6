------------------------ MODULE InterviewPlan_proofs ------------------------
(***************************************************************************)
(* Proofs about InterviewPlan: for every duration that a request may have, *)
(* every analysis and every answer of the model, however many sections it  *)
(* lists, the plan adds up to the duration, keeps the sections that weigh  *)
(* most, and gives each its minimum and its share.                         *)
(*                                                                         *)
(* A sum is counted by its tokens, one for every unit of every element; a  *)
(* place in a strict order is the number of those before it. From the two  *)
(* it follows that as many sections get a unit as rounding left units, and *)
(* that those are among the sections that rounding took from.              *)
(***************************************************************************)
EXTENDS InterviewPlan, FiniteSetTheorems, TLAPS

-----------------------------------------------------------------------------
(* Induction and sums.                                                     *)

\* What holds of the empty set and of every set with one element more holds of
\* a finite set.
LEMMA SetInduction ==
    ASSUME NEW S, IsFiniteSet(S), NEW Q, Q \subseteq SUBSET S, {} \in Q,
           \A T \in Q, x \in S : T \cup {x} \in Q
    PROVE  S \in Q
<1> DEFINE F == {S \ T : T \in Q}
<1>1. F \subseteq FiniteSubsetsOf(S) /\ F # {}
  BY FS_Subset DEF FiniteSubsetsOf
<1>2. PICK X \in F : \A Y \in F : ~ (<<Y, X>> \in StrictSubsetOrdering(S))
  <2> HIDE DEF F
  <2> QED
    BY <1>1, FS_StrictSubsetOrderingWellFounded, WFMin
<1>3. PICK T \in Q : X = S \ T
  OBVIOUS
<1>4. ASSUME NEW x \in S \ T PROVE FALSE
  <2> DEFINE Y == S \ (T \cup {x})
  <2>1. Y \in F
    BY <1>4
  <2>2. Y \subseteq X /\ Y # X /\ Y \in SUBSET S /\ X \in SUBSET S
    BY <1>3, <1>4
  <2> HIDE DEF Y, F
  <2>3. <<Y, X>> \in StrictSubsetOrdering(S)
    BY <2>2 DEF StrictSubsetOrdering
  <2> QED
    BY <1>2, <2>1, <2>3
<1>5. T = S
  BY <1>4
<1> QED
  BY <1>5

\* Induction over the numbers of a set.
LEMMA NatInductionSet ==
    ASSUME NEW Q, 0 \in Q, \A n \in Nat : n \in Q => n + 1 \in Q, NEW m \in Nat
    PROVE  m \in Q
<1> DEFINE S == 1..m
           R == {T \in SUBSET S : Cardinality(T) \in Q}
<1>1. IsFiniteSet(S) /\ Cardinality(S) = m
  BY FS_Interval
<1>2. {} \in R
  BY FS_EmptySet
<1>3. ASSUME NEW T \in R, NEW x \in S PROVE T \cup {x} \in R
  <2>1. IsFiniteSet(T) /\ Cardinality(T) \in Nat
    BY <1>1, FS_Subset, FS_CardinalityType
  <2>2. x \in T \/ Cardinality(T \cup {x}) = Cardinality(T) + 1
    BY <2>1, FS_AddElement
  <2>3. x \in T => T \cup {x} = T
    OBVIOUS
  <2> QED
    BY <2>1, <2>2, <2>3
<1>4. S \in R
  <2> HIDE DEF S
  <2>1. R \subseteq SUBSET S
    OBVIOUS
  <2> HIDE DEF R
  <2> QED
    BY <1>1, <1>2, <1>3, <2>1, SetInduction
<1> QED
  BY <1>1, <1>4

\* One token for every unit of every element's value.
Tokens(g, S) == {x \in S \X Nat : x[2] \in 1..g[x[1]]}

LEMMA TokensOf ==
    ASSUME NEW S, IsFiniteSet(S), NEW g, \A i \in S : g[i] \in Nat, NEW x \in S
    PROVE  /\ IsFiniteSet(Tokens(g, S \ {x})) => IsFiniteSet(Tokens(g, S))
           /\ IsFiniteSet(Tokens(g, S \ {x})) =>
                Cardinality(Tokens(g, S)) = g[x] + Cardinality(Tokens(g, S \ {x}))
<1> SUFFICES ASSUME IsFiniteSet(Tokens(g, S \ {x}))
             PROVE  /\ IsFiniteSet(Tokens(g, S))
                    /\ Cardinality(Tokens(g, S)) = g[x] + Cardinality(Tokens(g, S \ {x}))
  OBVIOUS
<1> DEFINE P == {x} \X (1..g[x])
<1>1. IsFiniteSet(1..g[x]) /\ Cardinality(1..g[x]) = g[x] /\ g[x] \in Nat
  <2>1. g[x] \in Nat
    OBVIOUS
  <2> DEFINE n == g[x]
  <2> HIDE DEF n
  <2>2. n \in Nat => IsFiniteSet(1..n) /\ Cardinality(1..n) = n
    BY FS_Interval
  <2> QED
    BY <2>1, <2>2 DEF n
<1>2. IsFiniteSet({x}) /\ Cardinality({x}) = 1
  BY FS_Singleton
<1>3. IsFiniteSet(P) /\ Cardinality(P) = 1 * Cardinality(1..g[x])
  BY <1>1, <1>2, FS_Product
<1>4. Tokens(g, S) = Tokens(g, S \ {x}) \cup P
  BY <1>1 DEF Tokens
<1>5. Tokens(g, S \ {x}) \cap P = {}
  BY DEF Tokens
<1> HIDE DEF P
<1>6. /\ IsFiniteSet(Tokens(g, S \ {x}) \cup P)
      /\ Cardinality(Tokens(g, S \ {x}) \cup P)
           = Cardinality(Tokens(g, S \ {x})) + Cardinality(P) - Cardinality({})
  <2> DEFINE K == Tokens(g, S \ {x})
  <2>1. IsFiniteSet(K) /\ K \cap P = {}
    BY <1>5
  <2> HIDE DEF K
  <2>2. /\ IsFiniteSet(K \cup P)
        /\ Cardinality(K \cup P) = Cardinality(K) + Cardinality(P) - Cardinality({})
    BY <1>3, <2>1, FS_Union
  <2> QED
    BY <2>2 DEF K
<1>8. Cardinality({}) = 0
  BY FS_EmptySet
<1>9. Cardinality(Tokens(g, S \ {x})) \in Nat
  BY FS_CardinalityType
<1> QED
  BY <1>1, <1>3, <1>4, <1>6, <1>8, <1>9

LEMMA TokensFinite ==
    ASSUME NEW S, IsFiniteSet(S), NEW g, \A i \in S : g[i] \in Nat
    PROVE  IsFiniteSet(Tokens(g, S)) /\ Cardinality(Tokens(g, S)) \in Nat
<1> DEFINE Q == {T \in SUBSET S : IsFiniteSet(Tokens(g, T))}
<1>1. {} \in Q
  <2>1. Tokens(g, {}) = {}
    BY DEF Tokens
  <2> QED
    BY <2>1, FS_EmptySet
<1>2. ASSUME NEW T \in Q, NEW x \in S PROVE T \cup {x} \in Q
  <2>1. CASE x \in T
    <3>1. T \cup {x} = T
      BY <2>1
    <3> QED
      BY <3>1
  <2>2. CASE x \notin T
    <3>1. IsFiniteSet(T \cup {x}) /\ (T \cup {x}) \ {x} = T
      BY <2>2, FS_Subset
    <3>2. IsFiniteSet(Tokens(g, T \cup {x}))
      BY <3>1, TokensOf
    <3> QED
      BY <3>2
  <2> QED
    BY <2>1, <2>2
<1>3. S \in Q
  <2>1. Q \subseteq SUBSET S
    OBVIOUS
  <2> HIDE DEF Q
  <2> QED
    BY <1>1, <1>2, <2>1, SetInduction
<1> QED
  BY <1>3, FS_CardinalityType

\* The fold that defines a sum counts the tokens: so does the recursion it
\* chooses a function for, and the size of the sets decides which function.
LEMMA SumCounts ==
    ASSUME NEW S, IsFiniteSet(S), NEW g, \A i \in S : g[i] \in Nat
    PROVE  SumFunctionOnSet(g, S) = Cardinality(Tokens(g, S))
<1> DEFINE choose(s) == CHOOSE x \in s : TRUE
           Fits(iter) == iter = [s \in SUBSET S |-> IF s = {} THEN 0
                                  ELSE g[choose(s)] + iter[s \ {choose(s)}]]
           iter == CHOOSE it : Fits(it)
           count == [s \in SUBSET S |-> Cardinality(Tokens(g, s))]
<1>1. SumFunctionOnSet(g, S) = iter[S]
  BY DEF SumFunctionOnSet, FoldFunctionOnSet, MapThenFoldSet
<1>2. Fits(count)
  <2>1. ASSUME NEW s \in SUBSET S
        PROVE  count[s] = IF s = {} THEN 0 ELSE g[choose(s)] + count[s \ {choose(s)}]
    <3>1. CASE s = {}
      <4>1. Tokens(g, {}) = {}
        BY DEF Tokens
      <4> QED
        BY <3>1, <4>1, FS_EmptySet
    <3>2. CASE s # {}
      <4>1. choose(s) \in s
        BY <3>2
      <4> HIDE DEF choose
      <4>2. IsFiniteSet(s) /\ IsFiniteSet(s \ {choose(s)}) /\ s \ {choose(s)} \in SUBSET S
        BY FS_Subset
      <4>3. IsFiniteSet(Tokens(g, s \ {choose(s)}))
        BY <4>2, TokensFinite
      <4>4. Cardinality(Tokens(g, s)) = g[choose(s)] + Cardinality(Tokens(g, s \ {choose(s)}))
        BY <4>1, <4>2, <4>3, TokensOf
      <4> QED
        BY <3>2, <4>2, <4>4
    <3> QED
      BY <3>1, <3>2
  <2> HIDE DEF choose
  <2>2. count = [s \in SUBSET S |-> count[s]]
    OBVIOUS
  <2> HIDE DEF count
  <2> QED
    BY <2>1, <2>2
<1>3. Fits(iter)
  <2> HIDE DEF Fits, count
  <2> QED
    BY <1>2
<1>4. iter[S] = count[S]
  <2> DEFINE Q == {n \in Nat : \A T \in SUBSET S : Cardinality(T) = n => iter[T] = count[T]}
  <2>1. \A s \in SUBSET S : IsFiniteSet(s) /\ Cardinality(s) \in Nat
    BY FS_Subset, FS_CardinalityType
  <2> HIDE DEF iter, count
  <2>2. 0 \in Q
    <3>1. \A T \in SUBSET S : Cardinality(T) = 0 => T = {}
      BY <2>1, FS_EmptySet
    <3>2. {} \in SUBSET S
      OBVIOUS
    <3>3. iter[{}] = 0 /\ count[{}] = 0
      BY <1>2, <1>3, <3>2
    <3> QED
      BY <3>1, <3>3
  <2>3. ASSUME NEW n \in Nat, n \in Q PROVE n + 1 \in Q
    <3>1. ASSUME NEW T \in SUBSET S, Cardinality(T) = n + 1 PROVE iter[T] = count[T]
      <4>1. T # {}
        BY <3>1, FS_EmptySet
      <4>2. choose(T) \in T
        BY <4>1
      <4> HIDE DEF choose
      <4>3. T \ {choose(T)} \in SUBSET S /\ Cardinality(T \ {choose(T)}) = n
        <5>1. IsFiniteSet(T) /\ Cardinality(T \ {choose(T)}) = Cardinality(T) - 1
          BY <2>1, <4>2, FS_RemoveElement
        <5> QED
          BY <3>1, <5>1
      <4>4. iter[T \ {choose(T)}] = count[T \ {choose(T)}]
        BY <2>3, <4>3
      <4>5. iter[T] = g[choose(T)] + iter[T \ {choose(T)}]
        BY <1>3, <4>1
      <4>6. count[T] = g[choose(T)] + count[T \ {choose(T)}]
        BY <1>2, <4>1
      <4> QED
        BY <4>4, <4>5, <4>6
    <3> QED
      BY <3>1
  <2>4. Cardinality(S) \in Q
    <3> HIDE DEF Q
    <3> QED
      BY <2>1, <2>2, <2>3, NatInductionSet
  <2> QED
    BY <2>4
<1>5. count[S] = Cardinality(Tokens(g, S))
  OBVIOUS
<1> QED
  BY <1>1, <1>4, <1>5

LEMMA SumNat ==
    ASSUME NEW S, IsFiniteSet(S), NEW g, \A i \in S : g[i] \in Nat
    PROVE  SumFunctionOnSet(g, S) \in Nat
BY SumCounts, TokensFinite

LEMMA SumEmpty == ASSUME NEW g PROVE SumFunctionOnSet(g, {}) = 0
<1>1. Tokens(g, {}) = {}
  BY DEF Tokens
<1>2. SumFunctionOnSet(g, {}) = Cardinality(Tokens(g, {}))
  BY SumCounts, FS_EmptySet
<1> QED
  BY <1>1, <1>2, FS_EmptySet

LEMMA SumAdd ==
    ASSUME NEW T, IsFiniteSet(T), NEW x, x \notin T,
           NEW g, \A i \in T \cup {x} : g[i] \in Nat
    PROVE  SumFunctionOnSet(g, T \cup {x}) = g[x] + SumFunctionOnSet(g, T)
<1> DEFINE S == T \cup {x}
<1>1. IsFiniteSet(S) /\ S \ {x} = T /\ x \in S
  BY FS_AddElement
<1>2. SumFunctionOnSet(g, T) = Cardinality(Tokens(g, T)) /\ IsFiniteSet(Tokens(g, T))
  BY SumCounts, TokensFinite
<1>3. \A i \in S : g[i] \in Nat
  OBVIOUS
<1> HIDE DEF S
<1>4. SumFunctionOnSet(g, S) = Cardinality(Tokens(g, S))
  BY <1>1, <1>3, SumCounts
<1>5. Cardinality(Tokens(g, S)) = g[x] + Cardinality(Tokens(g, S \ {x}))
  BY <1>1, <1>2, <1>3, TokensOf
<1> QED
  BY <1>1, <1>2, <1>4, <1>5 DEF S

\* Induction over the set that a sum ranges over.
LEMMA SumInduction ==
    ASSUME NEW S, IsFiniteSet(S), NEW Q, {} \in Q,
           \A T \in SUBSET S, x \in S : T \in Q /\ x \notin T => T \cup {x} \in Q
    PROVE  S \in Q
<1> DEFINE R == {T \in SUBSET S : T \in Q}
<1>1. ASSUME NEW T \in R, NEW x \in S PROVE T \cup {x} \in R
  <2>1. CASE x \in T
    <3>1. T \cup {x} = T
      BY <2>1
    <3> QED
      BY <3>1
  <2>2. CASE x \notin T
    BY <2>2
  <2> QED
    BY <2>1, <2>2
<1>2. {} \in R /\ R \subseteq SUBSET S
  OBVIOUS
<1> HIDE DEF R
<1>3. S \in R
  BY <1>1, <1>2, SetInduction
<1> QED
  BY <1>3 DEF R

LEMMA SumAgree ==
    ASSUME NEW S, IsFiniteSet(S), NEW f, NEW g, \A i \in S : f[i] \in Nat /\ g[i] = f[i]
    PROVE  SumFunctionOnSet(f, S) = SumFunctionOnSet(g, S)
<1>1. Tokens(f, S) = Tokens(g, S)
  BY DEF Tokens
<1> QED
  BY <1>1, SumCounts

LEMMA SumMonotone ==
    ASSUME NEW S, IsFiniteSet(S), NEW f, NEW g,
           \A i \in S : f[i] \in Nat /\ g[i] \in Nat /\ f[i] <= g[i]
    PROVE  SumFunctionOnSet(f, S) <= SumFunctionOnSet(g, S)
<1>1. Tokens(f, S) \subseteq Tokens(g, S)
  BY DEF Tokens
<1>2. IsFiniteSet(Tokens(g, S))
  BY TokensFinite
<1>3. Cardinality(Tokens(f, S)) <= Cardinality(Tokens(g, S))
  BY <1>1, <1>2, FS_Subset
<1> QED
  BY <1>3, SumCounts

LEMMA SumPlus ==
    ASSUME NEW S, IsFiniteSet(S), NEW f, NEW g, NEW h,
           \A i \in S : f[i] \in Nat /\ g[i] \in Nat /\ h[i] = f[i] + g[i]
    PROVE  SumFunctionOnSet(h, S) = SumFunctionOnSet(f, S) + SumFunctionOnSet(g, S)
<1> DEFINE Q == {T \in SUBSET S :
                   SumFunctionOnSet(h, T) = SumFunctionOnSet(f, T) + SumFunctionOnSet(g, T)}
<1>1. {} \in Q
  BY SumEmpty
<1>2. ASSUME NEW T \in SUBSET S, NEW x \in S, T \in Q, x \notin T PROVE T \cup {x} \in Q
  <2>1. IsFiniteSet(T)
    BY FS_Subset
  <2>0. \A i \in T \cup {x} : f[i] \in Nat /\ g[i] \in Nat /\ h[i] \in Nat
    OBVIOUS
  <2>2. /\ SumFunctionOnSet(f, T \cup {x}) = f[x] + SumFunctionOnSet(f, T)
        /\ SumFunctionOnSet(g, T \cup {x}) = g[x] + SumFunctionOnSet(g, T)
        /\ SumFunctionOnSet(h, T \cup {x}) = h[x] + SumFunctionOnSet(h, T)
    <3> HIDE DEF Q
    <3> QED
      BY <1>2, <2>0, <2>1, SumAdd
  <2>3. SumFunctionOnSet(f, T) \in Nat /\ SumFunctionOnSet(g, T) \in Nat
    BY <2>1, SumNat
  <2>4. SumFunctionOnSet(h, T) = SumFunctionOnSet(f, T) + SumFunctionOnSet(g, T)
    BY <1>2
  <2>5. f[x] \in Nat /\ g[x] \in Nat /\ h[x] = f[x] + g[x]
    OBVIOUS
  <2>6. SumFunctionOnSet(h, T \cup {x})
          = SumFunctionOnSet(f, T \cup {x}) + SumFunctionOnSet(g, T \cup {x})
    BY <2>2, <2>3, <2>4, <2>5
  <2> QED
    BY <2>6
<1> HIDE DEF Q
<1>3. S \in Q
  BY <1>1, <1>2, SumInduction
<1> QED
  BY <1>3 DEF Q

LEMMA SumScaled ==
    ASSUME NEW S, IsFiniteSet(S), NEW f, NEW h, NEW c \in Nat,
           \A i \in S : f[i] \in Nat /\ h[i] = c * f[i]
    PROVE  SumFunctionOnSet(h, S) = c * SumFunctionOnSet(f, S)
<1> DEFINE Q == {T \in SUBSET S : SumFunctionOnSet(h, T) = c * SumFunctionOnSet(f, T)}
<1>1. {} \in Q
  BY SumEmpty
<1>2. ASSUME NEW T \in SUBSET S, NEW x \in S, T \in Q, x \notin T PROVE T \cup {x} \in Q
  <2>1. IsFiniteSet(T)
    BY FS_Subset
  <2>0. \A i \in T \cup {x} : f[i] \in Nat /\ h[i] \in Nat
    OBVIOUS
  <2>2. /\ SumFunctionOnSet(f, T \cup {x}) = f[x] + SumFunctionOnSet(f, T)
        /\ SumFunctionOnSet(h, T \cup {x}) = h[x] + SumFunctionOnSet(h, T)
    <3> HIDE DEF Q
    <3> QED
      BY <1>2, <2>0, <2>1, SumAdd
  <2>3. SumFunctionOnSet(f, T) \in Nat
    BY <2>1, SumNat
  <2>4. SumFunctionOnSet(h, T) = c * SumFunctionOnSet(f, T)
    BY <1>2
  <2>5. f[x] \in Nat /\ h[x] = c * f[x]
    OBVIOUS
  <2>6. SumFunctionOnSet(h, T \cup {x}) = c * SumFunctionOnSet(f, T \cup {x})
    BY <2>2, <2>3, <2>4, <2>5
  <2> QED
    BY <2>6
<1> HIDE DEF Q
<1>3. S \in Q
  BY <1>1, <1>2, SumInduction
<1> QED
  BY <1>3 DEF Q

\* Marked elements count one each.
LEMMA SumMarked ==
    ASSUME NEW S, IsFiniteSet(S), NEW B, B \subseteq S,
           NEW h, \A i \in S : h[i] = IF i \in B THEN 1 ELSE 0
    PROVE  SumFunctionOnSet(h, S) = Cardinality(B)
<1> DEFINE Q == {T \in SUBSET S : SumFunctionOnSet(h, T) = Cardinality(B \cap T)}
<1>1. {} \in Q
  BY SumEmpty, FS_EmptySet
<1>2. ASSUME NEW T \in SUBSET S, NEW x \in S, T \in Q, x \notin T PROVE T \cup {x} \in Q
  <2>1. IsFiniteSet(T) /\ IsFiniteSet(B \cap T)
    BY FS_Subset
  <2>2. \A i \in S : h[i] \in Nat
    OBVIOUS
  <2>3. SumFunctionOnSet(h, T \cup {x}) = h[x] + SumFunctionOnSet(h, T)
    BY <1>2, <2>1, <2>2, SumAdd
  <2>4. Cardinality(B \cap T) \in Nat
    BY <2>1, FS_CardinalityType
  <2>5. CASE x \in B
    <3>1. B \cap (T \cup {x}) = (B \cap T) \cup {x} /\ x \notin B \cap T
      BY <1>2, <2>5
    <3>2. Cardinality((B \cap T) \cup {x}) = Cardinality(B \cap T) + 1
      BY <2>1, <3>1, FS_AddElement
    <3>3. SumFunctionOnSet(h, T) = Cardinality(B \cap T) /\ h[x] = 1
      BY <1>2, <2>5
    <3>4. SumFunctionOnSet(h, T \cup {x}) = Cardinality(B \cap (T \cup {x}))
      <4> DEFINE C == Cardinality(B \cap T)  X == SumFunctionOnSet(h, T \cup {x})
                 H == SumFunctionOnSet(h, T)
      <4>1. C \in Nat /\ X = h[x] + H /\ H = C /\ h[x] = 1
        BY <2>3, <2>4, <3>3
      <4>2. Cardinality(B \cap (T \cup {x})) = C + 1
        BY <3>1, <3>2
      <4> HIDE DEF C, X, H, Q
      <4>3. X = C + 1
        BY <4>1
      <4> QED
        BY <4>2, <4>3 DEF X
    <3> QED
      BY <3>4
  <2>6. CASE x \notin B
    <3>1. B \cap (T \cup {x}) = B \cap T
      BY <2>6
    <3>3. SumFunctionOnSet(h, T) = Cardinality(B \cap T) /\ h[x] = 0
      BY <1>2, <2>6
    <3>4. SumFunctionOnSet(h, T \cup {x}) = Cardinality(B \cap (T \cup {x}))
      <4> DEFINE C == Cardinality(B \cap T)  X == SumFunctionOnSet(h, T \cup {x})
                 H == SumFunctionOnSet(h, T)
      <4>1. C \in Nat /\ X = h[x] + H /\ H = C /\ h[x] = 0
        BY <2>3, <2>4, <3>3
      <4>2. Cardinality(B \cap (T \cup {x})) = C
        BY <3>1
      <4> HIDE DEF C, X, H, Q
      <4>3. X = C
        BY <4>1
      <4> QED
        BY <4>2, <4>3 DEF X
    <3> QED
      BY <3>4
  <2> QED
    BY <2>5, <2>6
<1> HIDE DEF Q
<1>3. S \in Q
  BY <1>1, <1>2, SumInduction
<1>4. B \cap S = B
  OBVIOUS
<1> QED
  BY <1>3, <1>4 DEF Q

-----------------------------------------------------------------------------
(* The positions of 1..n in a strict total order.                          *)

StrictOrder(R, n) ==
  /\ \A i \in 1..n : <<i, i>> \notin R
  /\ \A i, j \in 1..n : i # j => <<i, j>> \in R \/ <<j, i>> \in R
  /\ \A i, j, k \in 1..n : <<i, j>> \in R /\ <<j, k>> \in R => <<i, k>> \in R

Predecessors(R, n, i) == {j \in 1..n : <<j, i>> \in R}

Position(R, n, i) == Cardinality(Predecessors(R, n, i))

LEMMA PositionOrder ==
    ASSUME NEW n \in Nat, NEW R, StrictOrder(R, n)
    PROVE  /\ \A i \in 1..n : Position(R, n, i) \in 0..(n - 1)
           /\ \A i, j \in 1..n : <<i, j>> \in R => Position(R, n, i) < Position(R, n, j)
<1>1. IsFiniteSet(1..n) /\ Cardinality(1..n) = n
  BY FS_Interval
<1>2. ASSUME NEW i \in 1..n
      PROVE  IsFiniteSet(Predecessors(R, n, i)) /\ Position(R, n, i) \in 0..(n - 1)
  <2>1. Predecessors(R, n, i) \subseteq (1..n) \ {i}
    BY DEF Predecessors, StrictOrder
  <2>2. IsFiniteSet((1..n) \ {i}) /\ Cardinality((1..n) \ {i}) = n - 1
    BY <1>1, FS_RemoveElement
  <2>3. IsFiniteSet(Predecessors(R, n, i)) /\ Cardinality(Predecessors(R, n, i)) <= n - 1
    BY <2>1, <2>2, FS_Subset
  <2>4. Cardinality(Predecessors(R, n, i)) \in Nat
    BY <2>3, FS_CardinalityType
  <2> QED
    BY <2>3, <2>4 DEF Position
<1>3. ASSUME NEW i \in 1..n, NEW j \in 1..n, <<i, j>> \in R
      PROVE  Position(R, n, i) < Position(R, n, j)
  <2>1. i \notin Predecessors(R, n, i)
    BY DEF Predecessors, StrictOrder
  <2>2. Predecessors(R, n, i) \cup {i} \subseteq Predecessors(R, n, j)
    BY <1>3 DEF Predecessors, StrictOrder
  <2>3. Cardinality(Predecessors(R, n, i) \cup {i}) = Cardinality(Predecessors(R, n, i)) + 1
    BY <1>2, <2>1, FS_AddElement
  <2>4. Cardinality(Predecessors(R, n, i) \cup {i}) <= Cardinality(Predecessors(R, n, j))
    BY <1>2, <2>2, FS_Subset
  <2>5. Position(R, n, i) \in Nat /\ Position(R, n, j) \in Nat
    BY <1>2
  <2> QED
    BY <2>3, <2>4, <2>5 DEF Position
<1> QED
  BY <1>2, <1>3

\* Every position is taken by exactly one.
LEMMA PositionOnto ==
    ASSUME NEW n \in Nat, NEW R, StrictOrder(R, n)
    PROVE  /\ \A i, j \in 1..n : Position(R, n, i) = Position(R, n, j) => i = j
           /\ \A k \in 0..(n - 1) : \E i \in 1..n : Position(R, n, i) = k
<1> DEFINE f == [i \in 1..n |-> Position(R, n, i)]
<1>1. \A i, j \in 1..n : Position(R, n, i) = Position(R, n, j) => i = j
  <2>1. ASSUME NEW i \in 1..n, NEW j \in 1..n, i # j PROVE Position(R, n, i) # Position(R, n, j)
    <3>1. Position(R, n, i) \in Nat /\ Position(R, n, j) \in Nat
      BY PositionOrder
    <3>2. <<i, j>> \in R \/ <<j, i>> \in R
      BY <2>1 DEF StrictOrder
    <3>3. Position(R, n, i) < Position(R, n, j) \/ Position(R, n, j) < Position(R, n, i)
      BY <3>2, PositionOrder
    <3> QED
      BY <3>1, <3>3
  <2> QED
    BY <2>1
<1>2. f \in [1..n -> 0..(n - 1)]
  BY PositionOrder
<1>3. f \in Injection(1..n, 0..(n - 1))
  BY <1>1, <1>2 DEF Injection, IsInjective
<1>4. /\ IsFiniteSet(1..n) /\ Cardinality(1..n) = n
      /\ IsFiniteSet(0..(n - 1)) /\ Cardinality(0..(n - 1)) = n
  <2>1. IsFiniteSet(1..n) /\ Cardinality(1..n) = n
    BY FS_Interval
  <2>2. IsFiniteSet(0..(n - 1)) /\ Cardinality(0..(n - 1)) = n
    BY FS_Interval
  <2> QED
    BY <2>1, <2>2
<1> HIDE DEF f
<1>5. f \in Surjection(1..n, 0..(n - 1))
  BY <1>3, <1>4, FS_Injection
<1>6. \A k \in 0..(n - 1) : \E i \in 1..n : Position(R, n, i) = k
  BY <1>5 DEF Surjection, f
<1> QED
  BY <1>1, <1>6

\* The first ones are as many as their positions say.
LEMMA FirstOnes ==
    ASSUME NEW n \in Nat, NEW R, StrictOrder(R, n), NEW m \in 0..n
    PROVE  Cardinality({i \in 1..n : Position(R, n, i) < m}) = m
<1> DEFINE B == {i \in 1..n : Position(R, n, i) < m}
           f == [i \in B |-> Position(R, n, i)]
<1>1. IsFiniteSet(B)
  <2>1. IsFiniteSet(1..n)
    BY FS_Interval
  <2> QED
    BY <2>1, FS_Subset
<1>2. f \in [B -> 0..(m - 1)]
  BY PositionOrder
<1>3. f \in Injection(B, 0..(m - 1))
  BY <1>2, PositionOnto DEF Injection, IsInjective
<1>4. f \in Surjection(B, 0..(m - 1))
  <2>1. ASSUME NEW k \in 0..(m - 1) PROVE \E i \in B : f[i] = k
    <3>1. PICK i \in 1..n : Position(R, n, i) = k
      BY PositionOnto
    <3>2. i \in B
      BY <3>1
    <3> QED
      BY <3>1, <3>2
  <2> QED
    BY <1>2, <2>1 DEF Surjection
<1> HIDE DEF B, f
<1>5. Cardinality(0..(m - 1)) = Cardinality(B)
  BY <1>1, <1>3, <1>4, FS_Surjection
<1>6. Cardinality(0..(m - 1)) = m
  BY FS_Interval
<1> QED
  BY <1>5, <1>6 DEF B

-----------------------------------------------------------------------------
(* Sums over the sections.                                                 *)

\* A sum does not depend on the names of what it ranges over.
LEMMA SumRenamed ==
    ASSUME NEW S, IsFiniteSet(S), NEW f, NEW h, NEW b,
           \A i \in S : f[i] \in Nat /\ h[b[i]] = f[i],
           \A i, j \in S : b[i] = b[j] => i = j
    PROVE  SumFunctionOnSet(h, {b[i] : i \in S}) = SumFunctionOnSet(f, S)
<1> DEFINE Image(T) == {b[i] : i \in T}
           Q == {T \in SUBSET S :
                   /\ IsFiniteSet(Image(T))
                   /\ SumFunctionOnSet(h, Image(T)) = SumFunctionOnSet(f, T)}
<1>1. {} \in Q
  <2>1. Image({}) = {}
    OBVIOUS
  <2> QED
    BY <2>1, SumEmpty, FS_EmptySet
<1>2. ASSUME NEW T \in SUBSET S, NEW x \in S, T \in Q, x \notin T PROVE T \cup {x} \in Q
  <2>1. IsFiniteSet(T) /\ IsFiniteSet(Image(T))
    BY <1>2, FS_Subset
  <2>2. Image(T \cup {x}) = Image(T) \cup {b[x]}
    OBVIOUS
  <2>3. b[x] \notin Image(T)
    BY <1>2
  <2>4. \A y \in Image(T) \cup {b[x]} : h[y] \in Nat
    OBVIOUS
  <2>5. \A i \in T \cup {x} : f[i] \in Nat
    OBVIOUS
  <2>6. SumFunctionOnSet(h, Image(T)) = SumFunctionOnSet(f, T) /\ h[b[x]] = f[x]
    BY <1>2
  <2> HIDE DEF Q, Image
  <2>7. SumFunctionOnSet(h, Image(T) \cup {b[x]}) = h[b[x]] + SumFunctionOnSet(h, Image(T))
    BY <2>1, <2>3, <2>4, SumAdd
  <2>8. SumFunctionOnSet(f, T \cup {x}) = f[x] + SumFunctionOnSet(f, T)
    BY <1>2, <2>1, <2>5, SumAdd
  <2>9. IsFiniteSet(Image(T) \cup {b[x]})
    BY <2>1, FS_AddElement
  <2> QED
    BY <2>2, <2>6, <2>7, <2>8, <2>9 DEF Q
<1> HIDE DEF Q
<1>3. S \in Q
  BY <1>1, <1>2, SumInduction
<1> QED
  BY <1>3 DEF Q

\* No element is more than the whole.
LEMMA SumAtLeast ==
    ASSUME NEW S, IsFiniteSet(S), NEW g, \A i \in S : g[i] \in Nat, NEW x \in S
    PROVE  g[x] <= SumFunctionOnSet(g, S)
<1> DEFINE T == S \ {x}
<1>1. IsFiniteSet(T) /\ x \notin T /\ T \cup {x} = S
  BY FS_Subset
<1> HIDE DEF T
<1>2. \A i \in T \cup {x} : g[i] \in Nat
  BY <1>1
<1>3. SumFunctionOnSet(g, S) = g[x] + SumFunctionOnSet(g, T)
  BY <1>1, <1>2, SumAdd
<1>4. SumFunctionOnSet(g, T) \in Nat
  BY <1>1, <1>2, SumNat
<1> QED
  BY <1>3, <1>4

\* The same for every element.
LEMMA SumConstant ==
    ASSUME NEW m \in Nat, NEW c \in Nat, NEW h, \A i \in 1..m : h[i] = c
    PROVE  SumFunctionOnSet(h, 1..m) = c * m
<1> DEFINE S == 1..m
           one == [i \in S |-> 1]
<1>1. IsFiniteSet(S) /\ Cardinality(S) = m
  BY FS_Interval
<1>2. \A i \in S : one[i] = IF i \in S THEN 1 ELSE 0
  OBVIOUS
<1>3. \A i \in S : one[i] \in Nat /\ h[i] = c * one[i]
  OBVIOUS
<1>4. S \subseteq S
  OBVIOUS
<1> HIDE DEF S, one
<1>5. SumFunctionOnSet(one, S) = m
  BY <1>1, <1>2, <1>4, SumMarked
<1>6. SumFunctionOnSet(h, S) = c * SumFunctionOnSet(one, S)
  BY <1>1, <1>3, SumScaled
<1> QED
  BY <1>5, <1>6 DEF S

-----------------------------------------------------------------------------
(* What the model's operators return.                                      *)

LEMMA MinOfTwo == ASSUME NEW a \in Int, NEW b \in Int PROVE Min({a, b}) = IF a <= b THEN a ELSE b
BY DEF Min

LEMMA MaxOfTwo == ASSUME NEW a \in Int, NEW b \in Int PROVE Max({a, b}) = IF a <= b THEN b ELSE a
BY DEF Max

LEMMA LeastExists ==
    ASSUME NEW S \in SUBSET Nat, S # {}
    PROVE  Min(S) \in S /\ \A y \in S : Min(S) <= y
<1> DEFINE Q == {n \in Nat : \A k \in S : k <= n => \E x \in S : \A y \in S : x <= y}
<1>1. 0 \in Q
  <2>1. ASSUME NEW k \in S, k <= 0 PROVE \A y \in S : k <= y
    BY <2>1
  <2> QED
    BY <2>1
<1>2. ASSUME NEW n \in Nat, n \in Q PROVE n + 1 \in Q
  <2>1. ASSUME NEW k \in S, k <= n + 1 PROVE \E x \in S : \A y \in S : x <= y
    <3>1. CASE \E j \in S : j <= n
      BY <1>2, <3>1
    <3>2. CASE ~ \E j \in S : j <= n
      <4>1. \A y \in S : k <= y
        BY <2>1, <3>2
      <4> QED
        BY <4>1
    <3> QED
      BY <3>1, <3>2
  <2> QED
    BY <2>1
<1>3. PICK k \in S : TRUE
  OBVIOUS
<1>4. k \in Q
  <2> HIDE DEF Q
  <2> QED
    BY <1>1, <1>2, NatInductionSet
<1>5. \E x \in S : \A y \in S : x <= y
  BY <1>4
<1> QED
  BY <1>5 DEF Min

\* A best match is one of the values.
LEMMA BestMatchType ==
    ASSUME NEW V, NEW values \in Seq(V), NEW scores \in [DOMAIN values -> 0..3], NEW default
    PROVE  BestMatch(scores, values, default) \in V \cup {default}
<1> DEFINE best == {i \in DOMAIN scores : /\ scores[i] > 0
                                          /\ \A j \in DOMAIN scores : scores[j] <= scores[i]}
<1>1. DOMAIN scores = 1..Len(values) /\ Len(values) \in Nat
  OBVIOUS
<1>2. best \in SUBSET Nat /\ best \subseteq 1..Len(values)
  BY <1>1
<1>3. BestMatch(scores, values, default) = IF best = {} THEN default ELSE values[Min(best)]
  BY DEF BestMatch
<1> HIDE DEF best
<1>4. best # {} => Min(best) \in 1..Len(values)
  BY <1>2, LeastExists
<1> QED
  BY <1>3, <1>4

\* The sections with their weights, in the order of the answer.
LEMMA ScoredType ==
    ASSUME NEW s \in Seq(Section)
    PROVE  /\ DOMAIN Scored(s) = 1..Len(s) /\ Len(s) \in Nat
           /\ \A i \in 1..Len(s) : /\ Scored(s)[i].of = i
                                   /\ Scored(s)[i].priority \in 1..10
                                   /\ Scored(s)[i].effective \in 0..10
<1> USE PlanAssumption
<1>1. ASSUME NEW i \in 1..Len(s)
      PROVE  /\ BestMatch(s[i].skills, Priorities, 1) \in 1..10
             /\ BestMatch(s[i].areas, Overrides, NoOverride) \in (0..10) \cup {NoOverride}
  <2>1. s[i] \in Section
    OBVIOUS
  <2>2. s[i].skills \in [DOMAIN Priorities -> 0..3] /\ s[i].areas \in [DOMAIN Overrides -> 0..3]
    BY <2>1 DEF Section
  <2>3. BestMatch(s[i].skills, Priorities, 1) \in (1..10) \cup {1}
    BY ZenonT(40), <2>2, BestMatchType
  <2>4. BestMatch(s[i].areas, Overrides, NoOverride) \in (0..10) \cup {NoOverride}
    BY <2>2, BestMatchType
  <2> QED
    BY <2>3, <2>4
<1>2. DOMAIN s = 1..Len(s) /\ Len(s) \in Nat
  OBVIOUS
<1> QED
  BY <1>1, <1>2 DEF Scored

\* The durations that a request may have.
Minutes == 2..180

\* The minimum of every section that the duration admits is within the budget.
LEMMA Budget ==
    ASSUME NEW mins \in Minutes
    PROVE  /\ IntroUnits(mins) \in 1..1800 /\ BehaviouralUnits(mins) \in 1..1800
           /\ TechnicalUnits(mins) \in Nat /\ MinUnits(mins) \in 15..30
           /\ IntroUnits(mins) + TechnicalUnits(mins) + BehaviouralUnits(mins) = 10 * mins
           /\ TargetSkillCount(mins) \in Nat \ {0}
           /\ TargetSkillCount(mins) * MinUnits(mins) <= TechnicalUnits(mins)
<1> DEFINE T == TechnicalUnits(mins)
           M == MinUnits(mins)
<1>0. mins \in 2..180
  BY DEF Minutes
<1>1. T \in Nat /\ M \in 15..30 /\ M <= T
  BY <1>0 DEF TechnicalUnits, MinUnits, IntroUnits, BehaviouralUnits
<1>2. SoftCap(mins) \in Nat \ {0}
  <2> DEFINE C == {limit \in {3, 8, 15, 20, 30, 45} : mins > limit}
  <2>1. C \subseteq 1..mins
    BY <1>0
  <2>0. IsFiniteSet(1..mins)
    BY <1>0, FS_Interval
  <2>2. IsFiniteSet(C)
    BY <2>0, <2>1, FS_Subset
  <2>3. Cardinality(C) \in Nat
    BY <2>2, FS_CardinalityType
  <2> HIDE DEF C
  <2>4. 1 + Cardinality(C) \in Nat \ {0}
    BY <2>3
  <2> QED
    BY <2>4 DEF SoftCap, C
<1>3. /\ IntroUnits(mins) \in 1..1800 /\ BehaviouralUnits(mins) \in 1..1800
      /\ IntroUnits(mins) + T + BehaviouralUnits(mins) = 10 * mins
  BY <1>0 DEF TechnicalUnits, IntroUnits, BehaviouralUnits
<1> DEFINE q == T \div M
<1> HIDE DEF T, M
<1>4. q \in Nat \ {0} /\ q * M <= T
  BY <1>1
<1> HIDE DEF q
<1>5. TargetSkillCount(mins) = Max({1, Min({q, SoftCap(mins)})})
  BY DEF TargetSkillCount, q, T, M
<1>6. Min({q, SoftCap(mins)}) \in Nat \ {0} /\ Min({q, SoftCap(mins)}) <= q
  BY <1>2, <1>4, MinOfTwo
<1>7. TargetSkillCount(mins) \in Nat \ {0} /\ TargetSkillCount(mins) <= q
  BY <1>5, <1>6, MaxOfTwo
<1>8. TargetSkillCount(mins) * M <= T
  <2> DEFINE c == TargetSkillCount(mins)
  <2>1. c \in Nat /\ c <= q
    BY <1>7
  <2> HIDE DEF c
  <2>2. c * M <= q * M
    BY <1>1, <1>4, <2>1
  <2>3. c * M \in Nat /\ q * M \in Nat
    BY <1>1, <1>4, <2>1
  <2>4. c * M <= T
    BY <1>1, <1>4, <2>2, <2>3
  <2> QED
    BY <2>4 DEF c
<1> QED
  BY <1>1, <1>3, <1>7, <1>8 DEF T, M

-----------------------------------------------------------------------------
(* The division of the extra time.                                         *)

Total(ws) == SumFunction(Boosts(ws))

Whole(extra, ws) == [i \in DOMAIN ws |-> (extra * Boosted(ws[i])) \div Total(ws)]

Rest(extra, ws) == [i \in DOMAIN ws |-> (extra * Boosted(ws[i])) % Total(ws)]

Left(extra, ws) == extra - SumFunction(Whole(extra, ws))

\* Who gets a unit of those left over before whom.
Sooner(extra, ws) ==
  {p \in (DOMAIN ws) \X (DOMAIN ws) :
     LET rest == Rest(extra, ws)
     IN  \/ rest[p[1]] > rest[p[2]]
         \/ rest[p[1]] = rest[p[2]] /\ ws[p[1]] > ws[p[2]]
         \/ rest[p[1]] = rest[p[2]] /\ ws[p[1]] = ws[p[2]] /\ p[1] < p[2]}

Bonus(extra, ws, k) == Position(Sooner(extra, ws), Len(ws), k) < Left(extra, ws)

LEMMA Division ==
    ASSUME NEW a \in Nat, NEW b \in Nat \ {0}
    PROVE  a \div b \in Nat /\ a % b \in 0..(b - 1) /\ b * (a \div b) + (a % b) = a
OBVIOUS

LEMMA TimesDifference ==
    ASSUME NEW t \in Int, NEW a \in Int, NEW b \in Int
    PROVE  t * (a - b) = t * a - t * b
OBVIOUS

LEMMA TimesOrder ==
    ASSUME NEW t \in Nat \ {0}, NEW a \in Int, NEW b \in Int, t * a <= t * b
    PROVE  a <= b
OBVIOUS

LEMMA SequenceDomain ==
    ASSUME NEW ws \in Seq(Nat)
    PROVE  /\ DOMAIN ws = 1..Len(ws) /\ Len(ws) \in Nat /\ IsFiniteSet(1..Len(ws))
           /\ \A i \in 1..Len(ws) : ws[i] \in Nat
<1>1. DOMAIN ws = 1..Len(ws) /\ Len(ws) \in Nat /\ \A i \in 1..Len(ws) : ws[i] \in Nat
  OBVIOUS
<1> QED
  BY <1>1, FS_Interval

LEMMA TotalWeight ==
    ASSUME NEW ws \in Seq(Nat)
    PROVE  /\ Total(ws) = SumFunctionOnSet(Boosts(ws), 1..Len(ws)) /\ Total(ws) \in Nat
           /\ \A i \in 1..Len(ws) : /\ Boosts(ws)[i] = ws[i] * ws[i] /\ Boosts(ws)[i] \in Nat
                                    /\ Boosts(ws)[i] <= Total(ws)
<1> DEFINE m == Len(ws)
<1>1. DOMAIN ws = 1..m /\ m \in Nat /\ IsFiniteSet(1..m) /\ \A i \in 1..m : ws[i] \in Nat
  BY SequenceDomain
<1> HIDE DEF m
<1>2. DOMAIN Boosts(ws) = 1..m /\ \A i \in 1..m : Boosts(ws)[i] = ws[i] * ws[i]
  BY <1>1 DEF Boosts, Boosted
<1>3. \A i \in 1..m : ws[i] * ws[i] \in Nat
  BY <1>1
<1>4. \A i \in 1..m : Boosts(ws)[i] \in Nat
  BY <1>2, <1>3
<1>5. Total(ws) = SumFunctionOnSet(Boosts(ws), 1..m)
  BY <1>2 DEF Total, SumFunction
<1>6. Total(ws) \in Nat /\ \A i \in 1..m : Boosts(ws)[i] <= Total(ws)
  BY <1>1, <1>4, <1>5, SumNat, SumAtLeast
<1> QED
  BY <1>2, <1>4, <1>5, <1>6 DEF m

\* Every share is rounded down, and what rounding takes is left over.
LEMMA Rounding ==
    ASSUME NEW ws \in Seq(Nat), NEW extra \in Nat, Total(ws) # 0
    PROVE  /\ DOMAIN Whole(extra, ws) = 1..Len(ws)
           /\ \A i \in 1..Len(ws) :
                /\ Whole(extra, ws)[i] \in Nat /\ Rest(extra, ws)[i] \in 0..(Total(ws) - 1)
                /\ Total(ws) * Whole(extra, ws)[i] + Rest(extra, ws)[i]
                     = extra * Boosts(ws)[i]
<1> DEFINE m == Len(ws)  total == Total(ws)
<1>1. DOMAIN ws = 1..m /\ m \in Nat
  BY SequenceDomain
<1>2. /\ total \in Nat \ {0}
      /\ \A i \in 1..m : Boosts(ws)[i] \in Nat /\ Boosts(ws)[i] = Boosted(ws[i])
  BY <1>1, TotalWeight DEF Boosts
<1>3. ASSUME NEW i \in 1..m PROVE extra * Boosts(ws)[i] \in Nat
  <2> DEFINE w == Boosts(ws)[i]
  <2>1. w \in Nat
    BY <1>2
  <2> HIDE DEF w
  <2>2. extra * w \in Nat
    BY <2>1
  <2> QED
    BY <2>2 DEF w
<1>4. ASSUME NEW i \in 1..m
      PROVE  /\ Whole(extra, ws)[i] = (extra * Boosts(ws)[i]) \div total
             /\ Rest(extra, ws)[i] = (extra * Boosts(ws)[i]) % total
  BY <1>1, <1>2 DEF Whole, Rest
<1>5. DOMAIN Whole(extra, ws) = 1..m
  BY <1>1 DEF Whole
<1> HIDE DEF m, total
<1>6. ASSUME NEW i \in 1..m
      PROVE  /\ Whole(extra, ws)[i] \in Nat /\ Rest(extra, ws)[i] \in 0..(total - 1)
             /\ total * Whole(extra, ws)[i] + Rest(extra, ws)[i] = extra * Boosts(ws)[i]
  <2> DEFINE a == extra * Boosts(ws)[i]
  <2>1. a \in Nat /\ Whole(extra, ws)[i] = a \div total /\ Rest(extra, ws)[i] = a % total
    BY <1>3, <1>4
  <2> HIDE DEF a
  <2>2. a \div total \in Nat /\ a % total \in 0..(total - 1) /\ total * (a \div total) + (a % total) = a
    BY <1>2, <2>1, Division
  <2> QED
    BY <2>1, <2>2 DEF a
<1> QED
  BY <1>5, <1>6 DEF m, total

\* There is something left only for sections that rounding took from.
LEMMA LeftOver ==
    ASSUME NEW ws \in Seq(Nat), NEW extra \in Nat, Total(ws) # 0
    PROVE  /\ Left(extra, ws) \in 0..Len(ws)
           /\ Left(extra, ws) <= Cardinality({i \in 1..Len(ws) : Rest(extra, ws)[i] > 0})
           /\ SumFunctionOnSet(Whole(extra, ws), 1..Len(ws)) + Left(extra, ws) = extra
<1> DEFINE m == Len(ws)  S == 1..m  total == Total(ws)
           boosts == Boosts(ws)  whole == Whole(extra, ws)  rest == Rest(extra, ws)
           scaled == [i \in S |-> extra * boosts[i]]
           floor == [i \in S |-> total * whole[i]]
           P == {i \in S : rest[i] > 0}
           mark == [i \in S |-> IF i \in P THEN 1 ELSE 0]
           roof == [i \in S |-> total * mark[i]]
           W == SumFunctionOnSet(whole, S)
           R == SumFunctionOnSet(rest, S)
           left == Left(extra, ws)
<1>1. m \in Nat /\ IsFiniteSet(S) /\ Cardinality(S) = m
  <2>1. m \in Nat
    BY SequenceDomain
  <2> HIDE DEF m
  <2>2. IsFiniteSet(1..m) /\ Cardinality(1..m) = m
    BY <2>1, FS_Interval
  <2> QED
    BY <2>1, <2>2
<1>2. total \in Nat \ {0} /\ total = SumFunctionOnSet(boosts, S) /\ \A i \in S : boosts[i] \in Nat
  BY TotalWeight
<1>3. DOMAIN whole = S
  BY Rounding
<1>4. \A i \in S : whole[i] \in Nat /\ rest[i] \in 0..(total - 1)
                   /\ total * whole[i] + rest[i] = extra * boosts[i]
  BY Rounding
<1>5. left = extra - W
  BY <1>3 DEF Left, SumFunction
<1>6. P \subseteq S /\ \A i \in S : mark[i] = IF i \in P THEN 1 ELSE 0
  OBVIOUS
<1>7. \A i \in S : (i \in P <=> rest[i] > 0)
  OBVIOUS
<1>8. \A i \in S : scaled[i] = extra * boosts[i] /\ floor[i] = total * whole[i] /\ roof[i] = total * mark[i]
  OBVIOUS
<1> HIDE DEF m, S, total, boosts, whole, rest, scaled, floor, P, mark, roof, left
<1>9. SumFunctionOnSet(scaled, S) = extra * total
  BY <1>1, <1>2, <1>8, SumScaled
<1>10. SumFunctionOnSet(floor, S) = total * W
  BY <1>1, <1>2, <1>4, <1>8, SumScaled
<1>11. SumFunctionOnSet(scaled, S) = SumFunctionOnSet(floor, S) + R
  <2>1. ASSUME NEW i \in S
        PROVE  floor[i] \in Nat /\ rest[i] \in Nat /\ scaled[i] = floor[i] + rest[i]
    <3>1. total * whole[i] \in Nat
      BY <1>2, <1>4
    <3> QED
      BY <1>4, <1>8, <3>1
  <2> QED
    BY <1>1, <2>1, SumPlus
<1>12. SumFunctionOnSet(mark, S) = Cardinality(P)
  BY <1>1, <1>6, SumMarked
<1>13. SumFunctionOnSet(roof, S) = total * Cardinality(P)
  <2>1. \A i \in S : mark[i] \in Nat /\ roof[i] = total * mark[i]
    BY <1>6, <1>8
  <2> QED
    BY <1>1, <1>2, <1>12, <2>1, SumScaled
<1>14. R <= SumFunctionOnSet(roof, S)
  <2>1. ASSUME NEW i \in S PROVE rest[i] \in Nat /\ roof[i] \in Nat /\ rest[i] <= roof[i]
    <3>1. CASE i \in P
      <4>1. roof[i] = total
        BY <1>2, <1>6, <1>8, <3>1
      <4> QED
        BY <1>2, <1>4, <4>1
    <3>2. CASE i \notin P
      <4>1. roof[i] = 0
        BY <1>2, <1>6, <1>8, <3>2
      <4> QED
        BY <1>2, <1>4, <1>7, <3>2, <4>1
    <3> QED
      BY <3>1, <3>2
  <2> QED
    BY <1>1, <2>1, SumMonotone
<1>15. W \in Nat /\ R \in Nat /\ Cardinality(P) \in 0..m
  <2>1. \A i \in S : whole[i] \in Nat /\ rest[i] \in Nat
    BY <1>2, <1>4
  <2>2. W \in Nat /\ R \in Nat
    BY <1>1, <2>1, SumNat
  <2>3. IsFiniteSet(P) /\ Cardinality(P) <= Cardinality(S)
    BY <1>1, <1>6, FS_Subset
  <2>4. Cardinality(P) \in Nat
    BY <2>3, FS_CardinalityType
  <2> QED
    BY <1>1, <2>2, <2>3, <2>4
<1> DEFINE c == Cardinality(P)
<1>16. /\ extra * total = total * W + R /\ R <= total * c
       /\ c \in 0..m /\ left = extra - W
  BY <1>5, <1>9, <1>10, <1>11, <1>13, <1>14, <1>15
<1> HIDE DEF W, R, c
<1>17. left \in Nat /\ left <= c
  <2>0. left \in Int /\ c \in Nat /\ total \in Nat \ {0}
    BY <1>1, <1>2, <1>15, <1>16
  <2>1. total * left = R
    <3>1. total * (extra - W) = total * extra - total * W
      BY <1>15, <2>0, TimesDifference
    <3>2. total * extra = extra * total /\ total * W \in Int
      BY <1>15, <2>0
    <3> QED
      BY <1>15, <1>16, <3>1, <3>2
  <2>2. 0 <= left
    <3>1. total * 0 <= total * left
      BY <1>15, <2>0, <2>1
    <3> QED
      BY <2>0, <3>1, TimesOrder
  <2>3. left <= c
    <3>1. total * left <= total * c
      BY <1>16, <2>1
    <3> QED
      BY <2>0, <3>1, TimesOrder
  <2> QED
    BY <2>0, <2>2, <2>3
<1>18. W + left = extra /\ left \in 0..m
  BY <1>1, <1>15, <1>16, <1>17
<1> QED
  BY <1>17, <1>18 DEF m, S, rest, whole, P, W, c, left

LEMMA SoonerIsAnOrder ==
    ASSUME NEW ws \in Seq(Nat), NEW extra \in Nat, Total(ws) # 0
    PROVE  StrictOrder(Sooner(extra, ws), Len(ws))
<1> DEFINE m == Len(ws)  rest == Rest(extra, ws)
<1>1. DOMAIN ws = 1..m /\ \A i \in 1..m : ws[i] \in Nat /\ m \in Nat
  BY SequenceDomain
<1>2. \A i \in 1..m : rest[i] \in Nat
  <2>1. Total(ws) \in Nat
    BY TotalWeight
  <2> QED
    BY <2>1, Rounding
<1>3. \A i, j \in 1..m : <<i, j>> \in Sooner(extra, ws) <=>
         \/ rest[i] > rest[j]
         \/ rest[i] = rest[j] /\ ws[i] > ws[j]
         \/ rest[i] = rest[j] /\ ws[i] = ws[j] /\ i < j
  BY <1>1 DEF Sooner
<1> HIDE DEF m, rest
<1>4. ASSUME NEW i \in 1..m PROVE <<i, i>> \notin Sooner(extra, ws)
  <2>1. rest[i] \in Nat /\ ws[i] \in Nat /\ i \in Int
    BY <1>1, <1>2
  <2> QED
    BY <1>3, <2>1
<1>5. ASSUME NEW i \in 1..m, NEW j \in 1..m, i # j
      PROVE  <<i, j>> \in Sooner(extra, ws) \/ <<j, i>> \in Sooner(extra, ws)
  <2>1. /\ rest[i] \in Nat /\ ws[i] \in Nat /\ i \in Int
        /\ rest[j] \in Nat /\ ws[j] \in Nat /\ j \in Int
    BY <1>1, <1>2
  <2>2. \/ \/ rest[i] > rest[j]
           \/ rest[i] = rest[j] /\ ws[i] > ws[j]
           \/ rest[i] = rest[j] /\ ws[i] = ws[j] /\ i < j
        \/ \/ rest[j] > rest[i]
           \/ rest[j] = rest[i] /\ ws[j] > ws[i]
           \/ rest[j] = rest[i] /\ ws[j] = ws[i] /\ j < i
    BY <1>5, <2>1
  <2>3. CASE \/ rest[i] > rest[j]
             \/ rest[i] = rest[j] /\ ws[i] > ws[j]
             \/ rest[i] = rest[j] /\ ws[i] = ws[j] /\ i < j
    BY <1>3, <2>3
  <2>4. CASE \/ rest[j] > rest[i]
             \/ rest[j] = rest[i] /\ ws[j] > ws[i]
             \/ rest[j] = rest[i] /\ ws[j] = ws[i] /\ j < i
    BY <1>3, <2>4
  <2> QED
    BY <2>2, <2>3, <2>4
<1>6. ASSUME NEW i \in 1..m, NEW j \in 1..m, NEW k \in 1..m,
             <<i, j>> \in Sooner(extra, ws), <<j, k>> \in Sooner(extra, ws)
      PROVE  <<i, k>> \in Sooner(extra, ws)
  <2>1. /\ rest[i] \in Nat /\ ws[i] \in Nat /\ i \in Int
        /\ rest[j] \in Nat /\ ws[j] \in Nat /\ j \in Int
        /\ rest[k] \in Nat /\ ws[k] \in Nat /\ k \in Int
    BY <1>1, <1>2
  <2>2. \/ rest[i] > rest[j]
        \/ rest[i] = rest[j] /\ ws[i] > ws[j]
        \/ rest[i] = rest[j] /\ ws[i] = ws[j] /\ i < j
    BY <1>3, <1>6
  <2>3. \/ rest[j] > rest[k]
        \/ rest[j] = rest[k] /\ ws[j] > ws[k]
        \/ rest[j] = rest[k] /\ ws[j] = ws[k] /\ j < k
    BY <1>3, <1>6
  <2>4. \/ rest[i] > rest[k]
        \/ rest[i] = rest[k] /\ ws[i] > ws[k]
        \/ rest[i] = rest[k] /\ ws[i] = ws[k] /\ i < k
    BY <2>1, <2>2, <2>3
  <2> QED
    BY <1>3, <2>4
<1> QED
  BY <1>4, <1>5, <1>6 DEF StrictOrder, m

LEMMA ShareOf ==
    ASSUME NEW ws \in Seq(Nat), NEW extra \in Nat, Total(ws) # 0, NEW k \in 1..Len(ws)
    PROVE  ExtraShare(extra, ws, k)
             = Whole(extra, ws)[k] + (IF Bonus(extra, ws, k) THEN 1 ELSE 0)
<1> DEFINE rest == Rest(extra, ws)
           First(i, j) == \/ rest[i] > rest[j]
                          \/ rest[i] = rest[j] /\ ws[i] > ws[j]
                          \/ rest[i] = rest[j] /\ ws[i] = ws[j] /\ i < j
<1>1. {j \in DOMAIN ws : First(j, k)} = Predecessors(Sooner(extra, ws), Len(ws), k)
  BY SequenceDomain DEF Sooner, Predecessors
<1>2. ExtraShare(extra, ws, k)
        = Whole(extra, ws)[k] + (IF Cardinality({j \in DOMAIN ws : First(j, k)}) < Left(extra, ws)
                                 THEN 1 ELSE 0)
  BY DEF ExtraShare, Total, Whole, Rest, Left
<1> HIDE DEF First
<1> QED
  BY <1>1, <1>2 DEF Bonus, Position

\* As many sections get a unit as there are units left over.
LEMMA BonusCount ==
    ASSUME NEW ws \in Seq(Nat), NEW extra \in Nat, Total(ws) # 0
    PROVE  Cardinality({k \in 1..Len(ws) : Bonus(extra, ws, k)}) = Left(extra, ws)
<1>1. StrictOrder(Sooner(extra, ws), Len(ws)) /\ Len(ws) \in Nat
  BY SoonerIsAnOrder, SequenceDomain
<1>2. Left(extra, ws) \in 0..Len(ws)
  BY LeftOver
<1> QED
  BY <1>1, <1>2, FirstOnes DEF Bonus

\* A section that gets a unit is one that rounding took from.
LEMMA BonusTaken ==
    ASSUME NEW ws \in Seq(Nat), NEW extra \in Nat, Total(ws) # 0,
           NEW k \in 1..Len(ws), Bonus(extra, ws, k)
    PROVE  Rest(extra, ws)[k] > 0
<1> DEFINE m == Len(ws)  rest == Rest(extra, ws)
           P == {i \in 1..m : rest[i] > 0}
           before == Predecessors(Sooner(extra, ws), m, k)
<1>1. \A i \in 1..m : rest[i] \in Nat
  <2>1. Total(ws) \in Nat
    BY TotalWeight
  <2> QED
    BY <2>1, Rounding
<1>2. Left(extra, ws) <= Cardinality(P) /\ Left(extra, ws) \in Int
  BY LeftOver
<1>3. Cardinality(before) < Left(extra, ws)
  BY DEF Bonus, Position
<1> SUFFICES ASSUME ~ (rest[k] > 0) PROVE FALSE
  OBVIOUS
<1>4. P \subseteq before
  <2>1. rest[k] = 0
    BY <1>1
  <2>2. DOMAIN ws = 1..m
    BY SequenceDomain
  <2>3. ASSUME NEW i \in P PROVE <<i, k>> \in Sooner(extra, ws)
    BY <2>1, <2>2 DEF Sooner
  <2> QED
    BY <2>3 DEF Predecessors
<1>5. IsFiniteSet(before)
  <2>1. before \subseteq 1..m /\ IsFiniteSet(1..m)
    BY SequenceDomain DEF Predecessors
  <2> QED
    BY <2>1, FS_Subset
<1> HIDE DEF P, before
<1>6. Cardinality(P) <= Cardinality(before) /\ Cardinality(P) \in Nat /\ Cardinality(before) \in Nat
  BY <1>4, <1>5, FS_Subset, FS_CardinalityType
<1> QED
  BY <1>2, <1>3, <1>6

\* The weighed shares: they add up, each is within a unit of the exact quota,
\* and a lighter section never gets more.
LEMMA WeighedShares ==
    ASSUME NEW ws \in Seq(Nat), NEW extra \in Nat, Total(ws) # 0
    PROVE  /\ \A k \in 1..Len(ws) : ExtraShare(extra, ws, k) \in Nat
           /\ \A h : (\A k \in 1..Len(ws) : h[k] = ExtraShare(extra, ws, k))
                       => SumFunctionOnSet(h, 1..Len(ws)) = extra
           /\ \A k \in 1..Len(ws) :
                LET gap == ExtraShare(extra, ws, k) * Total(ws) - extra * Boosts(ws)[k]
                IN  -Total(ws) < gap /\ gap < Total(ws)
           /\ \A k, l \in 1..Len(ws) :
                ws[k] > ws[l] => ExtraShare(extra, ws, k) >= ExtraShare(extra, ws, l)
<1> DEFINE m == Len(ws)  S == 1..m  total == Total(ws)
           boosts == Boosts(ws)  whole == Whole(extra, ws)  rest == Rest(extra, ws)
           B == {k \in S : Bonus(extra, ws, k)}
           mark == [k \in S |-> IF k \in B THEN 1 ELSE 0]
<1>1. IsFiniteSet(S) /\ \A k \in S : ws[k] \in Nat
  BY SequenceDomain
<1>2. total \in Nat \ {0} /\ \A k \in S : boosts[k] \in Nat /\ boosts[k] = ws[k] * ws[k]
  BY TotalWeight
<1>3. \A k \in S : whole[k] \in Nat /\ rest[k] \in 0..(total - 1)
                   /\ total * whole[k] + rest[k] = extra * boosts[k]
  BY Rounding
<1>4. B \subseteq S /\ \A k \in S : mark[k] = IF k \in B THEN 1 ELSE 0
  OBVIOUS
<1>5. \A k \in S : ExtraShare(extra, ws, k) = whole[k] + mark[k]
  BY ShareOf
<1>6. SumFunctionOnSet(whole, S) + Cardinality(B) = extra
  BY ZenonT(40), LeftOver, BonusCount
<1>7. \A k \in B : rest[k] > 0
  BY BonusTaken
<1>8. \A k, l \in S : <<k, l>> \in Sooner(extra, ws) /\ l \in B => k \in B
  <2>1. ASSUME NEW k \in S, NEW l \in S, <<k, l>> \in Sooner(extra, ws), Bonus(extra, ws, l)
        PROVE  Bonus(extra, ws, k)
    <3>1. StrictOrder(Sooner(extra, ws), m) /\ m \in Nat
      BY SoonerIsAnOrder, SequenceDomain
    <3>2. /\ Position(Sooner(extra, ws), m, k) < Position(Sooner(extra, ws), m, l)
          /\ Position(Sooner(extra, ws), m, k) \in Int /\ Position(Sooner(extra, ws), m, l) \in Int
      BY <2>1, <3>1, PositionOrder
    <3>3. Left(extra, ws) \in Int
      <4>1. Left(extra, ws) \in 0..Len(ws)
        BY LeftOver
      <4> QED
        BY <4>1
    <3> QED
      BY <2>1, <3>2, <3>3 DEF Bonus
  <2> QED
    BY <2>1
<1>9. \A k, l \in S : <<k, l>> \in Sooner(extra, ws) <=>
         \/ rest[k] > rest[l]
         \/ rest[k] = rest[l] /\ ws[k] > ws[l]
         \/ rest[k] = rest[l] /\ ws[k] = ws[l] /\ k < l
  BY SequenceDomain DEF Sooner
<1> HIDE DEF S, total, boosts, whole, rest, B, mark
<1>10. ASSUME NEW k \in S PROVE ExtraShare(extra, ws, k) \in Nat /\ mark[k] \in {0, 1}
  BY <1>3, <1>4, <1>5
<1>11. ASSUME NEW h, \A k \in S : h[k] = ExtraShare(extra, ws, k)
       PROVE  SumFunctionOnSet(h, S) = extra
  <2>1. SumFunctionOnSet(mark, S) = Cardinality(B)
    BY <1>1, <1>4, SumMarked
  <2>2. \A k \in S : whole[k] \in Nat /\ mark[k] \in Nat /\ h[k] = whole[k] + mark[k]
    BY <1>3, <1>5, <1>10, <1>11
  <2>3. SumFunctionOnSet(h, S) = SumFunctionOnSet(whole, S) + SumFunctionOnSet(mark, S)
    BY <1>1, <2>2, SumPlus
  <2> QED
    BY <1>6, <2>1, <2>3
<1>12. ASSUME NEW k \in S
       PROVE  LET gap == ExtraShare(extra, ws, k) * total - extra * boosts[k]
              IN  -total < gap /\ gap < total
  <2> DEFINE w == whole[k]  r == rest[k]  b == mark[k]  e == extra * boosts[k]
  <2>1. /\ w \in Nat /\ r \in 0..(total - 1) /\ b \in {0, 1} /\ total * w + r = e
        /\ b = 1 => r > 0
    BY <1>3, <1>4, <1>7, <1>10
  <2>2. ExtraShare(extra, ws, k) = w + b
    BY <1>5
  <2> HIDE DEF w, r, b, e
  <2>3. (w + b) * total = total * w + b * total
    BY <1>2, <2>1
  <2>4. b * total = IF b = 1 THEN total ELSE 0
    BY <1>2, <2>1
  <2> DEFINE tw == total * w
  <2>5. tw \in Nat
    BY <1>2, <2>1
  <2>6. (w + b) * total - e = (IF b = 1 THEN total ELSE 0) - r
    <3>1. (w + b) * total = tw + (IF b = 1 THEN total ELSE 0) /\ e = tw + r
      BY <2>1, <2>3, <2>4
    <3> HIDE DEF tw
    <3> QED
      BY <1>2, <2>1, <2>5, <3>1
  <2>7. -total < (w + b) * total - e /\ (w + b) * total - e < total
    BY <1>2, <2>1, <2>6
  <2> QED
    BY <2>2, <2>7 DEF e
<1>13. ASSUME NEW k \in S, NEW l \in S, ws[k] > ws[l]
       PROVE  ExtraShare(extra, ws, k) >= ExtraShare(extra, ws, l)
  <2> DEFINE ek == extra * boosts[k]  el == extra * boosts[l]
  <2>1. ek >= el /\ ek \in Nat /\ el \in Nat
    <3>1. boosts[k] >= boosts[l]
      <4> DEFINE a == ws[k]  b == ws[l]
      <4>1. a \in Nat /\ b \in Nat /\ a > b
        BY <1>1, <1>13
      <4>2. boosts[k] = a * a /\ boosts[l] = b * b
        BY <1>2
      <4> HIDE DEF a, b
      <4>3. a * a >= b * b
        BY <4>1
      <4> QED
        BY <4>2, <4>3
    <3> DEFINE a == boosts[k]  b == boosts[l]
    <3>2. a \in Nat /\ b \in Nat /\ a >= b
      BY <1>2, <3>1
    <3> HIDE DEF a, b
    <3>3. extra * a >= extra * b /\ extra * a \in Nat /\ extra * b \in Nat
      BY <3>2
    <3> QED
      BY <3>3 DEF a, b
  <2>2. /\ whole[k] \in Nat /\ whole[l] \in Nat
        /\ rest[k] \in 0..(total - 1) /\ rest[l] \in 0..(total - 1)
        /\ total * whole[k] + rest[k] = ek /\ total * whole[l] + rest[l] = el
    BY <1>3
  <2> HIDE DEF ek, el
  <2>3. whole[k] >= whole[l]
    <3> DEFINE a == whole[k]  b == whole[l]  p == rest[k]  q == rest[l]
    <3>1. /\ a \in Nat /\ b \in Nat /\ p \in 0..(total - 1) /\ q \in 0..(total - 1)
          /\ total * a + p >= total * b + q
      BY <2>1, <2>2
    <3> HIDE DEF a, b, p, q
    <3>2. a + 1 <= b => total * (a + 1) <= total * b
      BY <1>2, <3>1
    <3>3. total * (a + 1) = total * a + total
      BY <1>2, <3>1
    <3> DEFINE ta == total * a  tb == total * b
    <3>4. ta \in Nat /\ tb \in Nat /\ ta + p >= tb + q /\ (a + 1 <= b => ta + total <= tb)
      BY <1>2, <3>1, <3>2, <3>3
    <3> HIDE DEF ta, tb
    <3>5. a >= b
      BY <1>2, <3>1, <3>4
    <3> QED
      BY <3>5 DEF a, b
  <2>4. CASE whole[k] > whole[l]
    BY <1>5, <1>10, <2>2, <2>4
  <2>5. CASE whole[k] = whole[l]
    <3>1. rest[k] >= rest[l]
      BY <1>2, <2>1, <2>2, <2>5
    <3>2. <<k, l>> \in Sooner(extra, ws)
      BY <1>9, <1>13, <2>2, <3>1
    <3>3. l \in B => k \in B
      BY <1>8, <3>2
    <3>4. mark[k] >= mark[l]
      BY <1>4, <3>3
    <3> QED
      BY <1>5, <1>10, <2>2, <2>5, <3>4
  <2> QED
    BY <2>2, <2>3, <2>4, <2>5
<1> QED
  BY <1>10, <1>11, <1>12, <1>13 DEF S, total, boosts

\* Without any weight the time is divided evenly.
LEMMA EvenShares ==
    ASSUME NEW ws \in Seq(Nat), Len(ws) # 0, NEW extra \in Nat, Total(ws) = 0
    PROVE  /\ \A k \in 1..Len(ws) : ExtraShare(extra, ws, k) \in Nat
           /\ \A h : (\A k \in 1..Len(ws) : h[k] = ExtraShare(extra, ws, k))
                       => SumFunctionOnSet(h, 1..Len(ws)) = extra
           /\ \A k \in 1..Len(ws) : ws[k] = 0
<1> DEFINE m == Len(ws)  S == 1..m  q == extra \div m  r == extra % m
           B == 1..r
           even == [k \in S |-> q]
           mark == [k \in S |-> IF k \in B THEN 1 ELSE 0]
<1>1. m \in Nat \ {0} /\ IsFiniteSet(S)
  BY SequenceDomain
<1>2. \A k \in S : ExtraShare(extra, ws, k) = q + (IF k <= r THEN 1 ELSE 0)
  BY DEF ExtraShare, Total
<1>3. q \in Nat /\ r \in 0..(m - 1) /\ m * q + r = extra
  <2> HIDE DEF m
  <2> QED
    BY <1>1, Division
<1>4. ASSUME NEW k \in S PROVE ws[k] = 0
  <2> DEFINE w == ws[k]
  <2>1. w \in Nat
    BY SequenceDomain
  <2>2. w * w \in Nat /\ w * w <= 0
    BY TotalWeight
  <2> HIDE DEF w
  <2>3. w = 0
    BY <2>1, <2>2
  <2> QED
    BY <2>3 DEF w
<1>5. /\ \A k \in S : even[k] = q
      /\ \A k \in S : mark[k] = IF k \in B THEN 1 ELSE 0
  OBVIOUS
<1> HIDE DEF m, q, r, even, mark
<1>6. B \subseteq S /\ Cardinality(B) = r
  <2>1. r \in Nat /\ r < m
    BY <1>1, <1>3
  <2>2. B \subseteq S
    BY <1>1, <2>1
  <2>3. Cardinality(1..r) = r
    BY <2>1, FS_Interval
  <2> QED
    BY <2>2, <2>3
<1>7. \A k \in S : k <= r <=> k \in B
  BY <1>1, <1>3
<1>8. SumFunctionOnSet(even, S) = q * m
  BY <1>1, <1>3, <1>5, SumConstant
<1> HIDE DEF S, B
<1>9. SumFunctionOnSet(mark, S) = r
  BY <1>1, <1>5, <1>6, SumMarked
<1>10. \A k \in S : /\ even[k] \in Nat /\ mark[k] \in Nat
                    /\ ExtraShare(extra, ws, k) = even[k] + mark[k]
  BY <1>2, <1>3, <1>5, <1>7
<1>11. \A k \in S : ExtraShare(extra, ws, k) \in Nat
  BY <1>10
<1>12. ASSUME NEW h, \A k \in S : h[k] = ExtraShare(extra, ws, k)
       PROVE  SumFunctionOnSet(h, S) = extra
  <2>1. \A k \in S : even[k] \in Nat /\ mark[k] \in Nat /\ h[k] = even[k] + mark[k]
    BY <1>10, <1>12
  <2>2. SumFunctionOnSet(h, S) = SumFunctionOnSet(even, S) + SumFunctionOnSet(mark, S)
    BY <1>1, <2>1, SumPlus
  <2>3. q * m = m * q
    BY <1>1, <1>3
  <2> QED
    BY <1>3, <1>8, <1>9, <2>2, <2>3
<1> QED
  BY <1>4, <1>11, <1>12 DEF S, m

\* Shares add up, are never negative and never favour the lighter section.
LEMMA Shares ==
    ASSUME NEW ws \in Seq(Nat), Len(ws) # 0, NEW extra \in Nat
    PROVE  /\ \A k \in 1..Len(ws) : ExtraShare(extra, ws, k) \in Nat
           /\ \A h : (\A k \in 1..Len(ws) : h[k] = ExtraShare(extra, ws, k))
                       => SumFunctionOnSet(h, 1..Len(ws)) = extra
           /\ \A k, l \in 1..Len(ws) :
                ws[k] > ws[l] => ExtraShare(extra, ws, k) >= ExtraShare(extra, ws, l)
<1>1. CASE Total(ws) = 0
  <2>1. \A k \in 1..Len(ws) : ws[k] = 0
    BY <1>1, EvenShares
  <2>2. \A k, l \in 1..Len(ws) : ~ (ws[k] > ws[l])
    BY <2>1
  <2>3. \A k, l \in 1..Len(ws) :
          ws[k] > ws[l] => ExtraShare(extra, ws, k) >= ExtraShare(extra, ws, l)
    BY <2>2
  <2>4. /\ \A k \in 1..Len(ws) : ExtraShare(extra, ws, k) \in Nat
        /\ \A h : (\A k \in 1..Len(ws) : h[k] = ExtraShare(extra, ws, k))
                    => SumFunctionOnSet(h, 1..Len(ws)) = extra
    BY <1>1, EvenShares
  <2> QED
    BY <2>3, <2>4
<1>2. CASE Total(ws) # 0
  BY <1>2, WeighedShares
<1> QED
  BY <1>1, <1>2

-----------------------------------------------------------------------------
(* The sections that are kept.                                             *)

\* How many of the sections of s are kept.
Kept(mins, s) == Min({Len(s), TargetSkillCount(mins)})

\* The order of preference among the sections of s.
Preferred(s) ==
  {p \in (1..Len(s)) \X (1..Len(s)) : Before(Scored(s)[p[1]], Scored(s)[p[2]])}

\* The k-th section of s in that order.
Nth(s, k) == CHOOSE i \in DOMAIN Scored(s) : Ahead(Scored(s), i) = k - 1

\* The weights of the sections that are kept.
Weights(mins, s) == [k \in 1..Kept(mins, s) |-> Scored(s)[Nth(s, k)].effective]

LEMMA PreferenceIsAnOrder ==
    ASSUME NEW s \in Seq(Section)
    PROVE  StrictOrder(Preferred(s), Len(s))
<1> DEFINE m == Len(s)  all == Scored(s)
<1>1. \A i \in 1..m : all[i].of = i /\ all[i].priority \in Int /\ all[i].effective \in Int
  BY ScoredType
<1>2. \A i, j \in 1..m : <<i, j>> \in Preferred(s) <=> Before(all[i], all[j])
  BY DEF Preferred
<1>3. \A i, j \in 1..m : Before(all[i], all[j]) <=>
          \/ all[i].effective > all[j].effective
          \/ all[i].effective = all[j].effective /\ all[i].priority > all[j].priority
          \/ all[i].effective = all[j].effective /\ all[i].priority = all[j].priority /\ i < j
  BY <1>1 DEF Before
<1>4. m \in Nat
  BY ScoredType
<1> HIDE DEF m, all
<1>5. ASSUME NEW i \in 1..m PROVE <<i, i>> \notin Preferred(s)
  BY <1>1, <1>2, <1>3, <1>4
<1>6. ASSUME NEW i \in 1..m, NEW j \in 1..m, i # j
      PROVE  <<i, j>> \in Preferred(s) \/ <<j, i>> \in Preferred(s)
  <2>1. Before(all[i], all[j]) \/ Before(all[j], all[i])
    <3> DEFINE a == all[i].effective  b == all[j].effective
               c == all[i].priority   d == all[j].priority
    <3>1. a \in Int /\ b \in Int /\ c \in Int /\ d \in Int /\ i \in Int /\ j \in Int
      BY <1>1
    <3>2. Before(all[i], all[j]) <=> a > b \/ (a = b /\ c > d) \/ (a = b /\ c = d /\ i < j)
      BY <1>3
    <3>3. Before(all[j], all[i]) <=> b > a \/ (b = a /\ d > c) \/ (b = a /\ d = c /\ j < i)
      BY <1>3
    <3> HIDE DEF a, b, c, d
    <3> QED
      BY <1>6, <3>1, <3>2, <3>3
  <2> QED
    BY <1>2, <2>1
<1>7. ASSUME NEW i \in 1..m, NEW j \in 1..m, NEW k \in 1..m,
             <<i, j>> \in Preferred(s), <<j, k>> \in Preferred(s)
      PROVE  <<i, k>> \in Preferred(s)
  <2>1. Before(all[i], all[j]) /\ Before(all[j], all[k])
    BY <1>2, <1>7
  <2>2. Before(all[i], all[k])
    <3> DEFINE a == all[i].effective  b == all[j].effective  e == all[k].effective
               c == all[i].priority   d == all[j].priority   f == all[k].priority
    <3>1. /\ a \in Int /\ b \in Int /\ c \in Int /\ d \in Int /\ e \in Int /\ f \in Int
          /\ i \in Int /\ j \in Int /\ k \in Int
      BY <1>1
    <3>2. a > b \/ (a = b /\ c > d) \/ (a = b /\ c = d /\ i < j)
      BY <1>3, <2>1
    <3>3. b > e \/ (b = e /\ d > f) \/ (b = e /\ d = f /\ j < k)
      BY <1>3, <2>1
    <3>4. Before(all[i], all[k]) <=> a > e \/ (a = e /\ c > f) \/ (a = e /\ c = f /\ i < k)
      BY <1>3
    <3> HIDE DEF a, b, c, d, e, f
    <3> QED
      BY <3>1, <3>2, <3>3, <3>4
  <2> QED
    BY <1>2, <2>2
<1> QED
  BY <1>5, <1>6, <1>7 DEF StrictOrder, m

\* The k-th section has k - 1 before it, and those kept are the first ones.
LEMMA Selection ==
    ASSUME NEW s \in Seq(Section), NEW mins \in Minutes
    PROVE  /\ Kept(mins, s) \in 0..Len(s) /\ Kept(mins, s) <= TargetSkillCount(mins)
           /\ s # <<>> => Kept(mins, s) # 0
           /\ \A k \in 1..Len(s) : /\ Nth(s, k) \in 1..Len(s)
                                   /\ Position(Preferred(s), Len(s), Nth(s, k)) = k - 1
           /\ Selected(mins, s) = [k \in 1..Kept(mins, s) |-> Scored(s)[Nth(s, k)]]
<1>1. Len(s) \in Nat /\ DOMAIN Scored(s) = 1..Len(s)
  BY ScoredType
<1>2. TargetSkillCount(mins) \in Nat \ {0}
  BY Budget
<1>3. Kept(mins, s) \in 0..Len(s) /\ Kept(mins, s) <= TargetSkillCount(mins)
  BY <1>1, <1>2, MinOfTwo DEF Kept
<1>4. s # <<>> => Kept(mins, s) # 0
  <2>1. s # <<>> => Len(s) # 0
    OBVIOUS
  <2> QED
    BY <1>1, <1>2, <2>1, MinOfTwo DEF Kept
<1>5. ASSUME NEW i \in 1..Len(s)
      PROVE  Ahead(Scored(s), i) = Position(Preferred(s), Len(s), i)
  <2>1. {j \in DOMAIN Scored(s) : Before(Scored(s)[j], Scored(s)[i])}
          = Predecessors(Preferred(s), Len(s), i)
    BY <1>1 DEF Predecessors, Preferred
  <2> QED
    BY <2>1 DEF Ahead, Position
<1>6. ASSUME NEW k \in 1..Len(s)
      PROVE  Nth(s, k) \in 1..Len(s) /\ Position(Preferred(s), Len(s), Nth(s, k)) = k - 1
  <2>1. k - 1 \in 0..(Len(s) - 1)
    BY <1>1
  <2>2. PICK i \in 1..Len(s) : Position(Preferred(s), Len(s), i) = k - 1
    BY <1>1, <2>1, PreferenceIsAnOrder, PositionOnto
  <2>3. i \in DOMAIN Scored(s) /\ Ahead(Scored(s), i) = k - 1
    BY <1>1, <1>5, <2>2
  <2>4. Nth(s, k) \in DOMAIN Scored(s) /\ Ahead(Scored(s), Nth(s, k)) = k - 1
    BY <2>3 DEF Nth
  <2> QED
    BY <1>1, <1>5, <2>4
<1>7. Selected(mins, s) = [k \in 1..Kept(mins, s) |-> Scored(s)[Nth(s, k)]]
  BY DEF Selected, Nth, Kept
<1> QED
  BY <1>3, <1>4, <1>6, <1>7

LEMMA WeightsType ==
    ASSUME NEW s \in Seq(Section), NEW mins \in Minutes
    PROVE  /\ Weights(mins, s) \in Seq(Nat) /\ Len(Weights(mins, s)) = Kept(mins, s)
           /\ \A k \in 1..Kept(mins, s) : /\ Weights(mins, s)[k] = Scored(s)[Nth(s, k)].effective
                                          /\ Weights(mins, s)[k] \in Nat
<1> DEFINE m == Kept(mins, s)
<1>1. m \in 0..Len(s) /\ Len(s) \in Nat
  BY Selection, ScoredType
<1>2. ASSUME NEW k \in 1..m PROVE Scored(s)[Nth(s, k)].effective \in Nat
  <2>1. k \in 1..Len(s)
    BY <1>1
  <2>2. Nth(s, k) \in 1..Len(s)
    BY <2>1, Selection
  <2>3. Scored(s)[Nth(s, k)].effective \in 0..10
    BY <2>2, ScoredType
  <2> QED
    BY <2>3
<1>3. Weights(mins, s) = [k \in 1..m |-> Scored(s)[Nth(s, k)].effective]
  BY DEF Weights
<1> HIDE DEF m
<1>4. Weights(mins, s) \in [1..m -> Nat] /\ m \in Nat
  BY <1>1, <1>2, <1>3
<1>5. Weights(mins, s) \in Seq(Nat) /\ Len(Weights(mins, s)) = m
  BY <1>4
<1> QED
  BY <1>3, <1>4, <1>5 DEF m

\* The sections that are kept leave time beyond their minimum, or just none.
LEMMA WithinBudget ==
    ASSUME NEW s \in Seq(Section), NEW mins \in Minutes
    PROVE  /\ ExtraUnits(mins, Kept(mins, s)) \in Nat
           /\ ExtraUnits(mins, Kept(mins, s)) + Kept(mins, s) * MinUnits(mins)
                = TechnicalUnits(mins)
<1> DEFINE T == TechnicalUnits(mins)  M == MinUnits(mins)  c == TargetSkillCount(mins)
           m == Kept(mins, s)
<1>1. T \in Nat /\ M \in Nat /\ c \in Nat /\ c * M <= T
  <2>1. TechnicalUnits(mins) \in Nat /\ MinUnits(mins) \in 15..30
        /\ TargetSkillCount(mins) \in Nat \ {0}
        /\ TargetSkillCount(mins) * MinUnits(mins) <= TechnicalUnits(mins)
    BY Budget
  <2> QED
    BY <2>1
<1>2. m \in Nat /\ m <= c
  <2>1. Len(s) \in Nat
    BY ScoredType
  <2> QED
    BY <2>1, Selection
<1>3. ExtraUnits(mins, m) = T - m * M
  BY DEF ExtraUnits
<1> HIDE DEF T, M, c, m
<1>4. m * M <= c * M /\ m * M \in Nat /\ c * M \in Nat
  BY <1>1, <1>2
<1> DEFINE mM == m * M  cM == c * M
<1>5. ExtraUnits(mins, m) = T - mM /\ mM \in Nat /\ mM <= cM /\ cM <= T /\ cM \in Nat
  BY <1>1, <1>3, <1>4
<1> HIDE DEF mM, cM
<1>6. ExtraUnits(mins, m) \in Nat /\ ExtraUnits(mins, m) + mM = T
  BY <1>1, <1>5
<1> QED
  BY <1>6 DEF mM, m, M, T

LEMMA AllocationOf ==
    ASSUME NEW s \in Seq(Section), NEW mins \in Minutes, NEW k \in 1..Kept(mins, s)
    PROVE  Allocation(mins, Weights(mins, s), k)
             = MinUnits(mins) + ExtraShare(ExtraUnits(mins, Kept(mins, s)), Weights(mins, s), k)
<1>1. Len(Weights(mins, s)) = Kept(mins, s)
  BY WeightsType
<1>2. ExtraUnits(mins, Kept(mins, s)) \in Nat
  BY WithinBudget
<1>3. ~ (ExtraUnits(mins, Kept(mins, s)) < 0)
  BY <1>2
<1> QED
  BY <1>1, <1>3 DEF Allocation

-----------------------------------------------------------------------------
(* The plan.                                                               *)

\* What a plan is made of.
Shape(mins, s, p) ==
  LET m == Kept(mins, s)
  IN  /\ Len(p) = m + 2 /\ DOMAIN p = 1..(m + 2)
      /\ p[1].kind = "self_intro" /\ p[1].units = IntroUnits(mins)
      /\ p[m + 2].kind = "behavioural_cultural" /\ p[m + 2].units = BehaviouralUnits(mins)
      /\ \A k \in 2..(m + 1) :
           /\ p[k].kind = "technical" /\ p[k].of = Nth(s, k - 1)
           /\ p[k].units = MinUnits(mins)
                 + ExtraShare(ExtraUnits(mins, m), Weights(mins, s), k - 1)

LEMMA PlanShape ==
    ASSUME NEW s \in Seq(Section), NEW mins \in Minutes
    PROVE  Shape(mins, s, PlanOf(mins, s))
<1> DEFINE m == Kept(mins, s)  ws == Weights(mins, s)  chosen == Selected(mins, s)
           first == [kind |-> "self_intro", of |-> 0, units |-> IntroUnits(mins)]
           last == [kind |-> "behavioural_cultural", of |-> 0, units |-> BehaviouralUnits(mins)]
           middle == [k \in 1..m |-> [kind |-> "technical", of |-> Nth(s, k),
                                      units |-> Allocation(mins, ws, k)]]
           p == PlanOf(mins, s)
<1>1. Len(s) \in Nat /\ m \in 0..Len(s)
  BY ScoredType, Selection
<1>2. DOMAIN chosen = 1..m /\ \A k \in 1..m : chosen[k] = Scored(s)[Nth(s, k)]
  BY Selection
<1>3. ASSUME NEW k \in 1..m
      PROVE  /\ Nth(s, k) \in 1..Len(s) /\ chosen[k].of = Nth(s, k)
             /\ chosen[k].effective = ws[k]
  <2>1. k \in 1..Len(s)
    BY <1>1
  <2>2. Nth(s, k) \in 1..Len(s)
    BY <2>1, Selection
  <2>3. Scored(s)[Nth(s, k)].of = Nth(s, k)
    BY <2>2, ScoredType
  <2>4. Scored(s)[Nth(s, k)].effective = ws[k]
    BY WeightsType
  <2> QED
    BY <1>2, <2>2, <2>3, <2>4
<1>4. ws = [k \in DOMAIN chosen |-> chosen[k].effective]
  BY <1>2 DEF Weights
<1>5. middle = [k \in DOMAIN chosen |->
                  [kind |-> "technical", of |-> chosen[k].of, units |-> Allocation(mins, ws, k)]]
  BY <1>2, <1>3
<1>6. p = <<first>> \o middle \o <<last>>
  BY <1>4, <1>5 DEF PlanOf
<1>7. ASSUME NEW k \in 1..m
      PROVE  /\ middle[k].kind = "technical" /\ middle[k].of = Nth(s, k)
             /\ middle[k].units = MinUnits(mins) + ExtraShare(ExtraUnits(mins, m), ws, k)
  BY AllocationOf
<1>8. m \in Nat
  BY <1>1
<1>9. DOMAIN middle = 1..m
  OBVIOUS
<1> DEFINE Any == {first, last} \cup {middle[k] : k \in 1..m}
<1>10. middle \in [1..m -> Any] /\ first \in Any /\ last \in Any
  OBVIOUS
<1>11. /\ first.kind = "self_intro" /\ first.units = IntroUnits(mins)
       /\ last.kind = "behavioural_cultural" /\ last.units = BehaviouralUnits(mins)
  OBVIOUS
<1> HIDE DEF m, ws, first, last, middle, p, Any
<1>12. middle \in Seq(Any) /\ Len(middle) = m
  BY <1>8, <1>10
<1>13. <<first>> \in Seq(Any) /\ <<last>> \in Seq(Any)
  BY <1>10
<1> DEFINE head == <<first>> \o middle
<1>14. /\ head \in Seq(Any) /\ Len(head) = m + 1 /\ head[1] = first
       /\ \A k \in 2..(m + 1) : head[k] = middle[k - 1]
  BY <1>8, <1>12, <1>13
<1>15. p = head \o <<last>>
  BY <1>6
<1> HIDE DEF head
<1>16. /\ p \in Seq(Any) /\ Len(p) = m + 2 /\ p[m + 2] = last
       /\ \A k \in 1..(m + 1) : p[k] = head[k]
  BY <1>8, <1>13, <1>14, <1>15
<1>17. /\ DOMAIN p = 1..(m + 2) /\ p[1] = first
       /\ \A k \in 2..(m + 1) : p[k] = middle[k - 1] /\ k - 1 \in 1..m
  BY <1>8, <1>14, <1>16
<1> QED
  BY <1>7, <1>11, <1>16, <1>17 DEF Shape, m, ws, p

\* The minutes of a plan add up, none is negative, and every technical section
\* has its minimum.
LEMMA PlanAddsUp ==
    ASSUME NEW s \in Seq(Section), s # <<>>, NEW mins \in Minutes,
           NEW p, Shape(mins, s, p)
    PROVE  /\ SumFunction([k \in DOMAIN p |-> p[k].units]) = 10 * mins
           /\ \A k \in DOMAIN p : p[k].units \in 1..1800
           /\ \A k \in 2..(Kept(mins, s) + 1) : p[k].units >= MinUnits(mins)
<1> DEFINE m == Kept(mins, s)  ws == Weights(mins, s)  extra == ExtraUnits(mins, m)
           S == 1..m  M == MinUnits(mins)
           share == [i \in S |-> ExtraShare(extra, ws, i)]
           least == [i \in S |-> M]
           mid == [i \in S |-> least[i] + share[i]]
           b == [i \in S |-> i + 1]
           T == {b[i] : i \in S}
           units == [k \in DOMAIN p |-> p[k].units]
<1>1. m \in Nat /\ m # 0
  <2>1. Len(s) \in Nat
    BY ScoredType
  <2> QED
    BY <2>1, Selection
<1>2. extra \in Nat /\ extra + m * M = TechnicalUnits(mins)
  BY WithinBudget
<1>3. /\ IntroUnits(mins) \in 1..1800 /\ BehaviouralUnits(mins) \in 1..1800
      /\ TechnicalUnits(mins) \in Nat /\ M \in 15..30
      /\ IntroUnits(mins) + TechnicalUnits(mins) + BehaviouralUnits(mins) = 10 * mins
  BY Budget
<1>4. ws \in Seq(Nat) /\ Len(ws) = m
  BY WeightsType
<1>5. /\ \A i \in S : ExtraShare(extra, ws, i) \in Nat
      /\ SumFunctionOnSet(share, S) = extra
  <2>1. \A i \in 1..Len(ws) : share[i] = ExtraShare(extra, ws, i)
    BY <1>4
  <2> HIDE DEF m, ws, extra, share
  <2>2. /\ \A i \in 1..Len(ws) : ExtraShare(extra, ws, i) \in Nat
        /\ SumFunctionOnSet(share, 1..Len(ws)) = extra
    BY <1>1, <1>2, <1>4, <2>1, Shares
  <2> QED
    BY <1>4, <2>2
<1>6. /\ DOMAIN p = 1..(m + 2)
      /\ p[1].units = IntroUnits(mins) /\ p[m + 2].units = BehaviouralUnits(mins)
      /\ \A k \in 2..(m + 1) : p[k].units = M + ExtraShare(extra, ws, k - 1)
  BY DEF Shape
<1>7. /\ \A i \in S : share[i] = ExtraShare(extra, ws, i) /\ b[i] = i + 1
      /\ \A i \in S : least[i] = M
      /\ \A i \in S : mid[i] = least[i] + share[i]
      /\ \A k \in DOMAIN p : units[k] = p[k].units
  OBVIOUS
<1> HIDE DEF m, ws, extra, M, share, least, mid, b, units
<1>8. IsFiniteSet(S)
  BY <1>1, FS_Interval
<1>9. SumFunctionOnSet(least, S) = M * m
  <2>1. M \in Nat
    BY <1>3
  <2>2. \A i \in 1..m : least[i] = M
    BY <1>7
  <2> QED
    BY <1>1, <2>1, <2>2, SumConstant
<1>10. T = 2..(m + 1)
  <2>1. ASSUME NEW k \in 2..(m + 1) PROVE k \in T
    <3>1. k - 1 \in S /\ b[k - 1] = k
      BY <1>1, <1>7
    <3> QED
      BY <3>1
  <2>2. \A i \in S : b[i] \in 2..(m + 1)
    BY <1>1, <1>7
  <2> QED
    BY <2>1, <2>2
<1>11. \A i \in S : /\ least[i] \in Nat /\ share[i] \in Nat /\ mid[i] \in Nat
                    /\ mid[i] >= M /\ units[b[i]] = mid[i]
  <2>1. ASSUME NEW i \in S PROVE units[b[i]] = M + share[i]
    <3>0. b[i] = i + 1 /\ i \in Nat /\ 1 <= i /\ i <= m
      BY <1>1, <1>7
    <3>1. b[i] \in 2..(m + 1) /\ b[i] - 1 = i /\ b[i] \in 1..(m + 2)
      BY <1>1, <3>0
    <3>2. p[b[i]].units = M + ExtraShare(extra, ws, b[i] - 1) /\ b[i] \in DOMAIN p
      BY <1>6, <3>1
    <3> QED
      BY <1>7, <3>1, <3>2
  <2> QED
    BY SMTT(30), <1>3, <1>5, <1>7, <2>1
<1>12. \A i, j \in S : b[i] = b[j] => i = j
  BY <1>1, <1>7
<1>13. /\ units[1] = IntroUnits(mins) /\ units[m + 2] = BehaviouralUnits(mins)
       /\ DOMAIN units = DOMAIN p
  <2>1. 1 \in DOMAIN p /\ m + 2 \in DOMAIN p
    BY <1>1, <1>6
  <2>2. DOMAIN units = DOMAIN p
    BY DEF units
  <2> QED
    BY <1>6, <1>7, <2>1, <2>2
<1> HIDE DEF S
<1>14. SumFunctionOnSet(mid, S) = TechnicalUnits(mins)
  <2>1. SumFunctionOnSet(mid, S) = SumFunctionOnSet(least, S) + SumFunctionOnSet(share, S)
    BY <1>7, <1>8, <1>11, SumPlus
  <2>2. M * m = m * M
    BY <1>1, <1>3
  <2>3. SumFunctionOnSet(mid, S) = m * M + extra /\ m * M \in Nat
    BY <1>1, <1>3, <1>5, <1>9, <2>1, <2>2
  <2> QED
    BY <1>2, <2>3
<1>15. SumFunctionOnSet(units, T) = TechnicalUnits(mins)
  <2>1. SumFunctionOnSet(units, T) = SumFunctionOnSet(mid, S)
    <3>1. \A i \in S : mid[i] \in Nat /\ units[b[i]] = mid[i]
      BY <1>11
    <3> QED
      BY <1>8, <1>12, <3>1, SumRenamed
  <2> QED
    BY <1>14, <2>1
<1>16. \A k \in T : units[k] \in Nat /\ units[k] >= M
  BY <1>11
<1> HIDE DEF T
<1>17. IsFiniteSet(T) /\ 1 \notin T /\ m + 2 \notin T \cup {1} /\ IsFiniteSet(T \cup {1})
       /\ (T \cup {1}) \cup {m + 2} = DOMAIN p
  <2>1. IsFiniteSet(T)
    <3>1. 2 \in Int /\ m + 1 \in Int
      BY <1>1
    <3> QED
      BY <1>10, <3>1, FS_Interval
  <2>2. IsFiniteSet(T \cup {1})
    BY <2>1, FS_AddElement
  <2>3. 1 \notin T /\ m + 2 \notin T \cup {1}
    BY <1>1, <1>10
  <2>4. (T \cup {1}) \cup {m + 2} = DOMAIN p
    BY <1>1, <1>6, <1>10
  <2> QED
    BY <2>1, <2>2, <2>3, <2>4
<1>18. \A k \in DOMAIN p : units[k] \in Nat /\ units[k] >= 1
  <2>1. \A k \in DOMAIN p : k \in T \/ k = 1 \/ k = m + 2
    BY <1>17
  <2>2. M \in Nat /\ M >= 1
    BY <1>3
  <2>3. \A k \in T : units[k] \in Nat /\ units[k] >= 1
    BY <1>16, <2>2
  <2>4. units[1] \in Nat /\ units[1] >= 1 /\ units[m + 2] \in Nat /\ units[m + 2] >= 1
    <3> DEFINE i == IntroUnits(mins)  c == BehaviouralUnits(mins)
    <3>1. i \in 1..1800 /\ c \in 1..1800 /\ units[1] = i /\ units[m + 2] = c
      BY <1>3, <1>13
    <3> HIDE DEF i, c
    <3> QED
      BY <3>1
  <2> QED
    BY <2>1, <2>3, <2>4
<1>19. SumFunctionOnSet(units, DOMAIN p) = 10 * mins
  <2>1. SumFunctionOnSet(units, T \cup {1}) = units[1] + SumFunctionOnSet(units, T)
    <3>1. \A k \in T \cup {1} : units[k] \in Nat
      BY <1>17, <1>18
    <3> QED
      BY <1>17, <3>1, SumAdd
  <2>2. SumFunctionOnSet(units, (T \cup {1}) \cup {m + 2})
          = units[m + 2] + SumFunctionOnSet(units, T \cup {1})
    <3> DEFINE U == T \cup {1}
    <3>1. \A k \in U \cup {m + 2} : units[k] \in Nat
      BY <1>17, <1>18
    <3>2. IsFiniteSet(U) /\ m + 2 \notin U
      BY <1>17
    <3> HIDE DEF U
    <3>3. SumFunctionOnSet(units, U \cup {m + 2}) = units[m + 2] + SumFunctionOnSet(units, U)
      BY <3>1, <3>2, SumAdd
    <3> QED
      BY <3>3 DEF U
  <2> DEFINE a == SumFunctionOnSet(units, T)  c == SumFunctionOnSet(units, T \cup {1})
             d == SumFunctionOnSet(units, DOMAIN p)
  <2>3. d = BehaviouralUnits(mins) + c /\ c = IntroUnits(mins) + a /\ a = TechnicalUnits(mins)
    BY <1>13, <1>15, <1>17, <2>1, <2>2
  <2> DEFINE i == IntroUnits(mins)  e == BehaviouralUnits(mins)  f == TechnicalUnits(mins)
  <2>4. i \in 1..1800 /\ e \in 1..1800 /\ f \in Nat /\ i + f + e = 10 * mins
    BY <1>3
  <2>5. d = e + c /\ c = i + a /\ a = f
    BY <2>3
  <2> HIDE DEF a, c, d, e, f, i
  <2>6. d = 10 * mins
    BY <2>4, <2>5
  <2> QED
    BY <2>6 DEF d
<1>20. \A k \in DOMAIN p : units[k] \in 1..1800
  <2>1. IsFiniteSet(DOMAIN p)
    <3> DEFINE U == T \cup {1}
    <3>1. IsFiniteSet(U) /\ U \cup {m + 2} = DOMAIN p
      BY <1>17
    <3> HIDE DEF U
    <3>2. IsFiniteSet(U \cup {m + 2})
      BY <3>1, FS_AddElement
    <3> QED
      BY <3>1, <3>2
  <2>2. \A k \in DOMAIN p : units[k] <= 10 * mins
    BY <1>18, <1>19, <2>1, SumAtLeast
  <2>3. 10 * mins <= 1800 /\ mins \in Int
    BY DEF Minutes
  <2>4. ASSUME NEW k \in DOMAIN p PROVE units[k] \in 1..1800
    <3> DEFINE u == units[k]
    <3>1. u \in Nat /\ u >= 1 /\ u <= 10 * mins
      BY <1>18, <2>2
    <3> HIDE DEF u
    <3>2. u \in 1..1800
      BY <2>3, <3>1
    <3> QED
      BY <3>2 DEF u
  <2> QED
    BY <2>4
<1>21. \A k \in 2..(m + 1) : p[k].units >= M
  <2>1. \A k \in T : k \in DOMAIN p
    BY <1>17
  <2> QED
    BY <1>7, <1>10, <1>16, <2>1
<1>22. SumFunction(units) = 10 * mins
  BY <1>13, <1>19 DEF SumFunction
<1> QED
  BY SMTT(30), <1>7, <1>20, <1>21, <1>22 DEF units, m, M

-----------------------------------------------------------------------------
(* The properties of a plan that was computed from an accepted answer.     *)

\* The plan of the state is the one of the answer s.
PlanFrom(s) == /\ s # <<>> /\ duration \in Minutes
               /\ reply = Scored(s) /\ plan = PlanOf(duration, s)

\* The technical sections are all but the first and the last, they are the ones
\* that come first in the order of preference, each once.
LEMMA TechnicalSections ==
    ASSUME NEW s \in Seq(Section), PlanFrom(s)
    PROVE  LET m == Kept(duration, s)
           IN  /\ m \in Nat \ {0} /\ Technical = 2..(m + 1) /\ Cardinality(Technical) = m
               /\ \A k \in 2..(m + 1) : /\ k - 1 \in 1..m
                                        /\ plan[k].of = Nth(s, k - 1) /\ plan[k].of \in 1..Len(s)
                                        /\ Weight(k) = Weights(duration, s)[k - 1]
               /\ Chosen = {i \in 1..Len(s) : Position(Preferred(s), Len(s), i) < m}
               /\ Cardinality(Chosen) = m
<1> DEFINE m == Kept(duration, s)  n == Len(s)
<1>1. m \in Nat \ {0} /\ n \in Nat /\ m \in 0..n
  <2>1. duration \in Minutes /\ s # <<>>
    BY DEF PlanFrom
  <2>2. Len(s) \in Nat
    BY ScoredType
  <2>3. Kept(duration, s) \in 0..Len(s) /\ Kept(duration, s) # 0
    BY <2>1, Selection
  <2> QED
    BY <2>2, <2>3
<1>2. Shape(duration, s, plan)
  BY PlanShape DEF PlanFrom
<1>3. /\ Len(plan) = m + 2 /\ DOMAIN plan = 1..(m + 2)
      /\ plan[1].kind = "self_intro" /\ plan[m + 2].kind = "behavioural_cultural"
      /\ \A k \in 2..(m + 1) : plan[k].kind = "technical" /\ plan[k].of = Nth(s, k - 1)
  BY <1>2 DEF Shape
<1>4. \A k \in 1..n : Nth(s, k) \in 1..n /\ Position(Preferred(s), n, Nth(s, k)) = k - 1
  BY Selection DEF PlanFrom
<1>5. \A k \in 1..m : Weights(duration, s)[k] = reply[Nth(s, k)].effective
  BY WeightsType DEF PlanFrom
<1>6. \A i, j \in 1..n : Position(Preferred(s), n, i) = Position(Preferred(s), n, j) => i = j
  BY <1>1, PreferenceIsAnOrder, PositionOnto
<1>7. \A i \in 1..n : Position(Preferred(s), n, i) \in 0..(n - 1)
  BY <1>1, PreferenceIsAnOrder, PositionOrder
<1>8. Cardinality({i \in 1..n : Position(Preferred(s), n, i) < m}) = m
  BY <1>1, PreferenceIsAnOrder, FirstOnes
<1> HIDE DEF m, n
<1>9. Technical = 2..(m + 1)
  <2>1. \A k \in 1..(m + 2) : k = 1 \/ k = m + 2 \/ k \in 2..(m + 1)
    BY <1>1
  <2>2. 2..(m + 1) \subseteq 1..(m + 2)
    BY <1>1
  <2> QED
    BY <1>3, <2>1, <2>2 DEF Technical
<1>10. Cardinality(2..(m + 1)) = m
  <2>1. 2 \in Int /\ m + 1 \in Int /\ ~ (2 > m + 1)
    BY <1>1
  <2>2. Cardinality(2..(m + 1)) = (m + 1) - 2 + 1
    BY <2>1, FS_Interval
  <2> QED
    BY <1>1, <2>2
<1>11. ASSUME NEW k \in 2..(m + 1)
       PROVE  /\ k - 1 \in 1..m /\ k - 1 \in 1..n
              /\ plan[k].of = Nth(s, k - 1) /\ plan[k].of \in 1..n
              /\ Position(Preferred(s), n, plan[k].of) = k - 2
              /\ Weight(k) = Weights(duration, s)[k - 1]
  <2>1. k - 1 \in 1..m /\ k - 1 \in 1..n /\ (k - 1) - 1 = k - 2
    BY <1>1
  <2>2. plan[k].of = Nth(s, k - 1)
    BY <1>3
  <2>3. Nth(s, k - 1) \in 1..n /\ Position(Preferred(s), n, Nth(s, k - 1)) = (k - 1) - 1
    BY <1>4, <2>1
  <2> QED
    BY <1>5, <2>1, <2>2, <2>3 DEF Weight
<1>12. Chosen = {i \in 1..n : Position(Preferred(s), n, i) < m}
  <2>1. ASSUME NEW i \in Chosen
        PROVE  i \in 1..n /\ Position(Preferred(s), n, i) < m
    <3>1. PICK k \in 2..(m + 1) : i = plan[k].of
      BY <1>9 DEF Chosen
    <3>2. i \in 1..n /\ Position(Preferred(s), n, i) = k - 2
      BY <1>11, <3>1
    <3> QED
      BY <1>1, <3>2
  <2>2. ASSUME NEW i \in 1..n, Position(Preferred(s), n, i) < m
        PROVE  i \in Chosen
    <3> DEFINE k == Position(Preferred(s), n, i) + 2
    <3>1. k \in 2..(m + 1) /\ k - 2 = Position(Preferred(s), n, i)
      BY <1>1, <1>7, <2>2
    <3> HIDE DEF k
    <3>2. plan[k].of \in 1..n /\ Position(Preferred(s), n, plan[k].of) = k - 2
      BY <1>11, <3>1
    <3>3. plan[k].of = i
      BY <1>6, <3>1, <3>2
    <3> QED
      BY <1>9, <3>1, <3>3 DEF Chosen
  <2> QED
    BY <2>1, <2>2
<1> QED
  BY <1>1, <1>8, <1>9, <1>10, <1>11, <1>12 DEF m, n

LEMMA PlanFits ==
    ASSUME NEW s \in Seq(Section), PlanFrom(s)
    PROVE  /\ plan # <<>>
           /\ plan[1].kind = "self_intro" /\ plan[Len(plan)].kind = "behavioural_cultural"
           /\ Technical = 2..Len(plan) - 1 /\ Cardinality(Chosen) = Cardinality(Technical)
           /\ \A k \in DOMAIN plan : plan[k].units \in 1..1800
           /\ SumsExactly /\ EnoughDepth
<1> DEFINE m == Kept(duration, s)
<1>1. /\ m \in Nat \ {0} /\ Technical = 2..(m + 1)
      /\ Cardinality(Chosen) = Cardinality(Technical)
  BY TechnicalSections
<1>2. Shape(duration, s, plan)
  BY PlanShape DEF PlanFrom
<1>3. /\ Len(plan) = m + 2 /\ plan[1].kind = "self_intro"
      /\ plan[m + 2].kind = "behavioural_cultural"
  BY <1>2 DEF Shape
<1>4. /\ SumFunction([k \in DOMAIN plan |-> plan[k].units]) = 10 * duration
      /\ \A k \in DOMAIN plan : plan[k].units \in 1..1800
      /\ \A k \in 2..(m + 1) : plan[k].units >= MinUnits(duration)
  <2>1. duration \in Minutes /\ s # <<>>
    BY DEF PlanFrom
  <2> QED
    BY SMTT(30), <1>2, <2>1, PlanAddsUp
<1> HIDE DEF m
<1>5. plan # <<>>
  <2>1. Len(plan) # 0
    BY <1>1, <1>3
  <2> QED
    BY <2>1
<1>6. Technical = 2..Len(plan) - 1
  <2>1. Len(plan) - 1 = m + 1
    BY <1>1, <1>3
  <2> QED
    BY <1>1, <2>1
<1>7. EnoughDepth
  <2>1. 2 \in 2..(m + 1)
    BY <1>1
  <2>2. Technical # {}
    BY <1>1, <2>1
  <2>3. \A k \in Technical : plan[k].units >= MinUnits(duration)
    BY <1>1, <1>4
  <2> QED
    BY <2>2, <2>3 DEF EnoughDepth
<1>8. SumsExactly
  BY <1>4 DEF SumsExactly
<1> QED
  BY SMTT(30), <1>1, <1>3, <1>4, <1>5, <1>6, <1>7, <1>8

LEMMA KeepsTheBest ==
    ASSUME NEW s \in Seq(Section), PlanFrom(s)
    PROVE  BestSelected
<1> DEFINE m == Kept(duration, s)  n == Len(s)
<1>1. n \in Nat /\ DOMAIN reply = 1..n
  BY ScoredType DEF PlanFrom
<1>2. Chosen = {i \in 1..n : Position(Preferred(s), n, i) < m} /\ m \in Nat
  BY TechnicalSections
<1>3. StrictOrder(Preferred(s), n)
  BY PreferenceIsAnOrder
<1>4. \A i \in 1..n : Position(Preferred(s), n, i) \in 0..(n - 1)
  BY <1>1, <1>3, PositionOrder
<1>5. \A i, j \in 1..n :
        <<i, j>> \in Preferred(s) => Position(Preferred(s), n, i) < Position(Preferred(s), n, j)
  BY <1>1, <1>3, PositionOrder
<1>6. \A i \in 1..n : reply[i].effective \in Int /\ reply[i].priority \in Int
  BY ScoredType DEF PlanFrom
<1>7. \A i, j \in 1..n : <<i, j>> \in Preferred(s) => Before(reply[i], reply[j])
  BY DEF Preferred, PlanFrom
<1> HIDE DEF m, n
<1>8. ASSUME NEW i \in Chosen, NEW j \in DOMAIN reply \ Chosen
      PROVE  /\ reply[j].effective <= reply[i].effective
             /\ reply[j].effective = reply[i].effective => reply[j].priority <= reply[i].priority
  <2>1. /\ i \in 1..n /\ j \in 1..n /\ i # j
        /\ Position(Preferred(s), n, i) < m /\ ~ (Position(Preferred(s), n, j) < m)
    BY <1>1, <1>2
  <2>2. <<j, i>> \notin Preferred(s)
    <3> DEFINE a == Position(Preferred(s), n, i)  b == Position(Preferred(s), n, j)
    <3>1. a \in Int /\ b \in Int /\ a < m /\ ~ (b < m)
      BY <1>4, <2>1
    <3>2. <<j, i>> \in Preferred(s) => b < a
      BY <1>5, <2>1
    <3> HIDE DEF a, b
    <3>3. ~ (b < a)
      BY <1>2, <3>1
    <3> QED
      BY <3>2, <3>3
  <2>3. <<i, j>> \in Preferred(s)
    BY <1>3, <2>1, <2>2 DEF StrictOrder
  <2>4. Before(reply[i], reply[j])
    BY <1>7, <2>1, <2>3
  <2> QED
    BY <1>6, <2>1, <2>4 DEF Before
<1> QED
  BY <1>8 DEF BestSelected

\* The heavier sections come first.
LEMMA Descending ==
    ASSUME NEW s \in Seq(Section), PlanFrom(s),
           NEW k \in Technical, NEW l \in Technical, k < l
    PROVE  Weight(k) >= Weight(l)
<1> DEFINE m == Kept(duration, s)  n == Len(s)
<1>1. n \in Nat /\ DOMAIN reply = 1..n
  BY ScoredType DEF PlanFrom
<1>2. m \in Nat /\ Technical = 2..(m + 1)
      /\ \A j \in 2..(m + 1) : plan[j].of = Nth(s, j - 1) /\ plan[j].of \in 1..n
  BY TechnicalSections
<1>3. StrictOrder(Preferred(s), n)
  BY PreferenceIsAnOrder
<1>4. \A i, j \in 1..n :
        <<i, j>> \in Preferred(s) => Position(Preferred(s), n, i) < Position(Preferred(s), n, j)
  BY <1>1, <1>3, PositionOrder
<1>5. \A i \in 1..n : reply[i].effective \in Int /\ reply[i].priority \in Int
  BY ScoredType DEF PlanFrom
<1>6. \A i, j \in 1..n : <<i, j>> \in Preferred(s) => Before(reply[i], reply[j])
  BY DEF Preferred, PlanFrom
<1>7. m \in 0..n
  BY Selection DEF PlanFrom
<1>8. \A j \in 1..n : Position(Preferred(s), n, Nth(s, j)) = j - 1
  BY Selection DEF PlanFrom
<1> HIDE DEF m, n
<1> DEFINE x == plan[k].of  y == plan[l].of
<1>9. x \in 1..n /\ y \in 1..n
  BY <1>2
<1>10. /\ Position(Preferred(s), n, x) = (k - 1) - 1
       /\ Position(Preferred(s), n, y) = (l - 1) - 1 /\ k \in Int /\ l \in Int
  <2>1. k - 1 \in 1..n /\ l - 1 \in 1..n /\ k \in Int /\ l \in Int
    BY <1>1, <1>2, <1>7
  <2>2. x = Nth(s, k - 1) /\ y = Nth(s, l - 1)
    BY <1>2
  <2> QED
    BY <1>8, <2>1, <2>2
<1> HIDE DEF x, y
<1>11. <<y, x>> \notin Preferred(s) /\ x # y
  <2>1. Position(Preferred(s), n, x) < Position(Preferred(s), n, y)
    BY <1>10
  <2>2. ~ (Position(Preferred(s), n, y) < Position(Preferred(s), n, x))
    BY <1>10
  <2>3. <<y, x>> \notin Preferred(s)
    BY <1>4, <1>9, <2>2
  <2>4. x # y
    BY <1>10
  <2> QED
    BY <2>3, <2>4
<1>12. Before(reply[x], reply[y])
  <2>1. <<x, y>> \in Preferred(s)
    BY <1>3, <1>9, <1>11 DEF StrictOrder
  <2> QED
    BY <1>6, <1>9, <2>1
<1>13. reply[x].effective >= reply[y].effective
  BY <1>5, <1>9, <1>12 DEF Before
<1> QED
  BY <1>13 DEF Weight, x, y

\* What a technical section has beyond its minimum is its share.
LEMMA UnitsOf ==
    ASSUME NEW s \in Seq(Section), PlanFrom(s), NEW k \in Technical
    PROVE  LET m     == Kept(duration, s)
               extra == ExtraUnits(duration, m)
               ws    == Weights(duration, s)
           IN  /\ k - 1 \in 1..Len(ws) /\ Len(ws) = m /\ Len(ws) # 0 /\ ws \in Seq(Nat)
               /\ extra \in Nat
               /\ Weight(k) = ws[k - 1] /\ ws[k - 1] \in Nat
               /\ plan[k].units = MinUnits(duration) + ExtraShare(extra, ws, k - 1)
               /\ ExtraShare(extra, ws, k - 1) \in Nat
<1> DEFINE m == Kept(duration, s)  extra == ExtraUnits(duration, m)  ws == Weights(duration, s)
<1>1. m \in Nat \ {0} /\ k \in 2..(m + 1) /\ k - 1 \in 1..m /\ Weight(k) = ws[k - 1]
  BY TechnicalSections
<1>2. duration \in Minutes
  BY DEF PlanFrom
<1>3. ws \in Seq(Nat) /\ Len(ws) = m /\ \A i \in 1..m : ws[i] \in Nat
  BY <1>2, WeightsType
<1>4. extra \in Nat
  BY <1>2, WithinBudget
<1>5. Shape(duration, s, plan)
  BY PlanShape DEF PlanFrom
<1>6. plan[k].units = MinUnits(duration) + ExtraShare(extra, ws, k - 1)
  BY <1>1, <1>5 DEF Shape
<1> HIDE DEF m, extra, ws
<1>7. ExtraShare(extra, ws, k - 1) \in Nat
  BY <1>1, <1>3, <1>4, Shares
<1> QED
  BY <1>1, <1>3, <1>4, <1>6, <1>7 DEF m, extra, ws

LEMMA HeavierHasMore ==
    ASSUME NEW s \in Seq(Section), PlanFrom(s)
    PROVE  HeavierNotShorter
<1>1. ASSUME NEW k \in Technical, NEW l \in Technical, Weight(k) > Weight(l)
      PROVE  plan[k].units >= plan[l].units
  <2> DEFINE m == Kept(duration, s)  extra == ExtraUnits(duration, m)
             ws == Weights(duration, s)
             a == ExtraShare(extra, ws, k - 1)  b == ExtraShare(extra, ws, l - 1)
             M == MinUnits(duration)
  <2>1. /\ k - 1 \in 1..Len(ws) /\ Len(ws) # 0 /\ ws \in Seq(Nat) /\ extra \in Nat
        /\ Weight(k) = ws[k - 1] /\ plan[k].units = M + a /\ a \in Nat
    BY UnitsOf
  <2>2. l - 1 \in 1..Len(ws) /\ Weight(l) = ws[l - 1] /\ plan[l].units = M + b /\ b \in Nat
    BY UnitsOf
  <2>3. M \in 15..30
    BY Budget DEF PlanFrom
  <2>4. a >= b
    <3>1. ws[k - 1] > ws[l - 1]
      BY <1>1, <2>1, <2>2
    <3> HIDE DEF ws, extra
    <3> QED
      BY <2>1, <2>2, <3>1, Shares
  <2> HIDE DEF a, b, M
  <2>5. M + a >= M + b
    BY <2>1, <2>2, <2>3, <2>4
  <2> QED
    BY <2>1, <2>2, <2>5
<1> QED
  BY <1>1, Descending DEF HeavierNotShorter

\* The weights are summed over the plan's sections, the shares were computed
\* from those of the selection.
LEMMA WithinAUnit ==
    ASSUME NEW s \in Seq(Section), PlanFrom(s)
    PROVE  WithinQuota
<1> DEFINE m == Kept(duration, s)  extra == ExtraUnits(duration, m)  ws == Weights(duration, s)
           S == 1..m
           boosts == Boosts(ws)
           b == [i \in S |-> i + 1]
           T == {b[i] : i \in S}
           squares == [k \in Technical |-> Weight(k) * Weight(k)]
<1>1. m \in Nat \ {0} /\ Technical = 2..(m + 1) /\ Cardinality(Technical) = m
  BY TechnicalSections
<1>2. ws \in Seq(Nat) /\ Len(ws) = m /\ extra \in Nat
  <2>1. duration \in Minutes
    BY DEF PlanFrom
  <2> QED
    BY <2>1, WeightsType, WithinBudget
<1>3. \A k \in Technical :
        /\ k - 1 \in S /\ Weight(k) = ws[k - 1] /\ ws[k - 1] \in Nat
        /\ plan[k].units = MinUnits(duration) + ExtraShare(extra, ws, k - 1)
        /\ ExtraShare(extra, ws, k - 1) \in Nat
  BY <1>2, UnitsOf
<1>4. MinUnits(duration) \in 15..30
  BY Budget DEF PlanFrom
<1>5. \A i \in S : b[i] = i + 1
  OBVIOUS
<1>6. \A k \in Technical : squares[k] = Weight(k) * Weight(k)
  OBVIOUS
<1>7. DOMAIN squares = Technical
  OBVIOUS
<1> HIDE DEF m, extra, ws, boosts, b, squares
<1>8. T = Technical
  <2>1. ASSUME NEW k \in 2..(m + 1) PROVE k \in T
    <3>1. k - 1 \in S /\ b[k - 1] = k
      BY <1>1, <1>5
    <3> QED
      BY <3>1
  <2>2. \A i \in S : b[i] \in 2..(m + 1)
    BY <1>1, <1>5
  <2> QED
    BY <1>1, <2>1, <2>2
<1>9. /\ Total(ws) = SumFunctionOnSet(boosts, S) /\ Total(ws) \in Nat
      /\ \A i \in S : boosts[i] = ws[i] * ws[i] /\ boosts[i] \in Nat
  BY <1>2, TotalWeight DEF boosts
<1>10. SumFunction(squares) = Total(ws)
  <2>1. ASSUME NEW i \in S PROVE boosts[i] \in Nat /\ squares[b[i]] = boosts[i]
    <3>1. b[i] \in Technical
      BY <1>8
    <3>2. b[i] - 1 = i
      BY <1>1, <1>5
    <3>3. squares[b[i]] = ws[i] * ws[i]
      BY <1>3, <1>6, <3>1, <3>2
    <3> QED
      BY <1>9, <3>3
  <2>2. \A i, j \in S : b[i] = b[j] => i = j
    BY <1>1, <1>5
  <2>3. IsFiniteSet(S)
    BY <1>1, FS_Interval
  <2> HIDE DEF S
  <2>4. SumFunctionOnSet(squares, {b[i] : i \in S}) = SumFunctionOnSet(boosts, S)
    BY <2>1, <2>2, <2>3, SumRenamed
  <2> QED
    BY <1>7, <1>8, <1>9, <2>4 DEF SumFunction
<1>11. ASSUME NEW k \in Technical, Total(ws) > 0
       PROVE  LET gap == (plan[k].units - MinUnits(duration)) * Total(ws)
                           - extra * Weight(k) * Weight(k)
              IN  -Total(ws) < gap /\ gap < Total(ws)
  <2> DEFINE x == ExtraShare(extra, ws, k - 1)  t == Total(ws)  w == ws[k - 1]
             e == extra * boosts[k - 1]
  <2>1. k - 1 \in 1..Len(ws) /\ Total(ws) # 0
    BY <1>2, <1>3, <1>11
  <2>2. -t < x * t - e /\ x * t - e < t
    BY <1>2, <2>1, WeighedShares DEF boosts
  <2>3. plan[k].units - MinUnits(duration) = x
    <3> DEFINE u == plan[k].units  M == MinUnits(duration)
    <3>1. u = M + x /\ x \in Nat /\ M \in 15..30
      BY <1>3, <1>4
    <3> HIDE DEF u, M, x
    <3>2. u - M = x
      BY <3>1
    <3> QED
      BY <3>2 DEF u, M
  <2>4. extra * Weight(k) * Weight(k) = e
    <3>1. Weight(k) = w /\ w \in Nat /\ boosts[k - 1] = w * w
      BY <1>3, <1>9
    <3> HIDE DEF w
    <3>2. extra * w * w = extra * (w * w)
      BY <1>2, <3>1
    <3> QED
      BY <3>1, <3>2
  <2> HIDE DEF x, t, e
  <2> QED
    BY <2>2, <2>3, <2>4 DEF t
<1>12. ExtraUnits(duration, Cardinality(Technical)) = extra
  BY <1>1 DEF extra
<1> QED
  BY <1>10, <1>11, <1>12 DEF WithinQuota, squares

-----------------------------------------------------------------------------
(* The invariant: whatever plan there is was computed from one accepted    *)
(* answer, for the duration of the request.                                *)

IInv ==
  /\ duration \in Durations /\ long \in BOOLEAN /\ repair \in BOOLEAN
  /\ attempt \in 0..MaxAttempts
  /\ outcome \in {"asking", "planned", "failed", "formatted", "raw"}
  /\ outcome = "asking" => attempt < MaxAttempts
  /\ outcome = "failed" => attempt = MaxAttempts
  /\ outcome \in {"asking", "failed"} => plan = <<>>
  /\ outcome \in {"planned", "formatted", "raw"} =>
       \E s \in Replies \ {<<>>} : reply = Scored(s) /\ plan = PlanOf(duration, s)

\* The conversation computes a plan once and never touches it again.
LEMMA Inductive == Spec => []IInv
<1>1. Init => IInv
  <2> SUFFICES ASSUME Init PROVE IInv
    OBVIOUS
  <2>1. duration \in Durations /\ long \in BOOLEAN /\ repair \in BOOLEAN
    BY DEF Init
  <2>2. /\ attempt = 0 /\ outcome = "asking" /\ plan = <<>>
        /\ attempt \in 0..MaxAttempts /\ attempt < MaxAttempts
    BY DEF Init, MaxAttempts
  <2> QED
    BY <2>1, <2>2 DEF IInv
<1>2. IInv /\ [Next]_vars => IInv'
  <2> SUFFICES ASSUME IInv, [Next]_vars PROVE IInv'
    OBVIOUS
  <2> USE DEF IInv, MaxAttempts
  <2>1. CASE UNCHANGED vars
    BY <2>1 DEF vars
  <2>2. ASSUME NEW s \in Replies, AnswerAccepted(s) PROVE IInv'
    <3>1. /\ outcome = "asking" /\ s # <<>> /\ outcome' = "planned"
          /\ attempt' = attempt + 1 /\ reply' = Scored(s) /\ plan' = PlanOf(duration, s)
          /\ UNCHANGED <<duration, long, repair>>
      BY <2>2 DEF AnswerAccepted
    <3>2. attempt' \in 0..MaxAttempts
      BY <3>1
    <3>3. s \in Replies \ {<<>>} /\ reply' = Scored(s) /\ plan' = PlanOf(duration', s)
      BY <3>1
    <3> QED
      BY <3>1, <3>2, <3>3
  <2>3. CASE AnswerRejected
    BY <2>3 DEF AnswerRejected, AnotherAttempt, LastAttempt
  <2>4. CASE RequestTooLarge
    <3>1. /\ outcome = "asking" /\ attempt' = attempt + 1
          /\ outcome' = IF attempt + 1 = MaxAttempts THEN "failed" ELSE "asking"
          /\ UNCHANGED <<duration, reply, plan>>
      BY <2>4 DEF RequestTooLarge, AnotherAttempt
    <3>2. long' \in BOOLEAN /\ repair' \in BOOLEAN
      BY <2>4 DEF RequestTooLarge
    <3> QED
      BY <3>1, <3>2
  <2>5. CASE RequestFails
    BY <2>5 DEF RequestFails, AnotherAttempt
  <2>6. CASE FormatText
    BY <2>6 DEF FormatText
  <2> QED
    BY <2>1, <2>2, <2>3, <2>4, <2>5, <2>6 DEF Next
<1> QED
  BY <1>1, <1>2, PTL DEF Spec

\* Either there is no plan, or it is the one of an answer of the right type.
LEMMA PlanIsFrom ==
    ASSUME IInv
    PROVE  plan = <<>> \/ \E s \in Seq(Section) : PlanFrom(s)
<1>1. duration \in Minutes
  BY PlanAssumption DEF IInv, Minutes
<1>2. ASSUME NEW s \in Replies \ {<<>>}, reply = Scored(s), plan = PlanOf(duration, s)
      PROVE  s \in Seq(Section) /\ PlanFrom(s)
  BY <1>1, <1>2, PlanAssumption DEF PlanFrom
<1> QED
  BY <1>2 DEF IInv

LEMMA NoPlanYet ==
    ASSUME plan = <<>>
    PROVE  Technical = {} /\ Chosen = {}
<1>1. DOMAIN plan = {}
  OBVIOUS
<1> QED
  BY <1>1 DEF Technical, Chosen

\* The minutes of the plan add up to the duration of the interview exactly.
THEOREM Adding == Spec => []SumsExactly
<1>1. IInv => SumsExactly
  BY PlanIsFrom, PlanFits DEF SumsExactly
<1> QED
  BY <1>1, Inductive, PTL

\* A section that was dropped weighs no more than any that was kept.
THEOREM Choosing == Spec => []BestSelected
<1>1. IInv => BestSelected
  <2>1. plan = <<>> => BestSelected
    BY NoPlanYet DEF BestSelected
  <2> QED
    BY <2>1, PlanIsFrom, KeepsTheBest
<1> QED
  BY <1>1, Inductive, PTL

\* The plan is whole, every technical section has its minimum, none has less
\* than a lighter one, and each is within a tenth of a minute of its share.
THEOREM Sharing == Spec => []SharesFair
<1>1. ASSUME IInv, plan = <<>> PROVE SharesFair
  <2>1. Technical = {}
    BY <1>1, NoPlanYet
  <2>2. EnoughDepth /\ HeavierNotShorter /\ WithinQuota
    BY <1>1, <2>1 DEF EnoughDepth, HeavierNotShorter, WithinQuota
  <2>3. ~ outcome \in {"planned", "formatted", "raw"}
    <3>1. ASSUME NEW s \in Seq(Section), PlanFrom(s) PROVE FALSE
      BY <1>1, <3>1, PlanFits
    <3>2. ASSUME outcome \in {"planned", "formatted", "raw"}
          PROVE  \E s \in Seq(Section) : PlanFrom(s)
      BY <1>1, <3>2, PlanAssumption DEF IInv, PlanFrom, Minutes
    <3> QED
      BY <3>1, <3>2
  <2>4. TypeOK
    BY <1>1, <2>3 DEF IInv, TypeOK
  <2> QED
    BY <2>2, <2>4 DEF SharesFair
<1>2. ASSUME IInv, NEW s \in Seq(Section), PlanFrom(s) PROVE SharesFair
  <2>1. /\ plan # <<>>
        /\ plan[1].kind = "self_intro" /\ plan[Len(plan)].kind = "behavioural_cultural"
        /\ Technical = 2..Len(plan) - 1 /\ Cardinality(Chosen) = Cardinality(Technical)
        /\ \A k \in DOMAIN plan : plan[k].units \in 1..1800
        /\ EnoughDepth
    BY <1>2, PlanFits
  <2>2. outcome \in {"planned", "formatted", "raw"}
    BY <1>2, <2>1 DEF IInv
  <2>3. TypeOK
    BY <1>2, <2>1, <2>2 DEF IInv, TypeOK
  <2>4. HeavierNotShorter /\ WithinQuota
    BY <1>2, HeavierHasMore, WithinAUnit
  <2> QED
    BY <2>1, <2>3, <2>4 DEF SharesFair
<1>3. IInv => SharesFair
  BY <1>1, <1>2, PlanIsFrom
<1> QED
  BY <1>3, Inductive, PTL

=============================================================================
