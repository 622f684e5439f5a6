----------------------- MODULE NotificationLog_proofs -----------------------
(***************************************************************************)
(* Proofs about the two writers of the notification log, for any number of *)
(* tasks, retries, requests, crashes and failures: the Celery e-mail tasks *)
(* (EmailDelivery) and the decision letters (HiringDecision).              *)
(*                                                                         *)
(* What the deliveries of a task may still do is counted over the whole    *)
(* bag: each copy of a delivery stands for a number of tokens (the e-mails *)
(* it may still cause, the verdicts it may still write), and an invariant  *)
(* bounds what was done plus what may be done.  Of the letters, each one   *)
(* that was started belongs to a request, and each row to its letter.      *)
(***************************************************************************)
EXTENDS EmailDelivery, HiringDecision, FiniteSetTheorems, Integers, TLAPS

LEMMA Limits == MaxRetries \in Nat /\ MaxCrashes \in Nat /\ MaxOutages \in Nat
  BY DeliveryAssumption

Stages == {"queued", "started", "sent", "failing", "returned"}

Deliveries == [task: Tasks, retry: 0..MaxRetries, stage: Stages]

(* Bags of weighted elements.                                              *)

\* One token for every copy of an element and unit of its weight.
Tokens(B, weight) ==
    {x \in (BagToSet(B) \X Nat) \X Nat :
        x[1][2] \in 1..B[x[1][1]] /\ x[2] \in 1..weight[x[1][1]]}

Weighs(B, weight, n) ==
    IsFiniteSet(Tokens(B, weight)) /\ Cardinality(Tokens(B, weight)) = n

\* Adding a copy of an element to a bag, and removing one.
LEMMA BagsChange ==
  ASSUME NEW B, IsABag(B), NEW e
  PROVE  /\ IsABag(BagAdd(B, e))
         /\ BagToSet(BagAdd(B, e)) = BagToSet(B) \cup {e}
         /\ IsABag(BagRemove(B, e))
         /\ BagToSet(BagRemove(B, e)) \subseteq BagToSet(B)
         /\ BagToSet(B) \subseteq BagToSet(BagRemove(B, e)) \cup {e}
         /\ e \in BagToSet(B) => BagAdd(BagRemove(B, e), e) = B
<1> USE DEF IsABag, BagToSet, BagAdd, BagRemove
<1>1. IsABag(BagAdd(B, e)) /\ BagToSet(BagAdd(B, e)) = BagToSet(B) \cup {e}
  OBVIOUS
<1>2. /\ IsABag(BagRemove(B, e))
      /\ BagToSet(BagRemove(B, e)) \subseteq BagToSet(B)
      /\ BagToSet(B) \subseteq BagToSet(BagRemove(B, e)) \cup {e}
  OBVIOUS
<1>3. ASSUME e \in BagToSet(B) PROVE BagAdd(BagRemove(B, e), e) = B
  <2>1. CASE B[e] = 1
    <3>1. BagRemove(B, e) = [x \in DOMAIN B \ {e} |-> B[x]]
      BY <1>3, <2>1
    <3> QED
      BY <1>3, <2>1, <3>1
  <2>2. CASE B[e] # 1
    <3>1. BagRemove(B, e) = [x \in DOMAIN B |-> IF x = e THEN B[x] - 1 ELSE B[x]]
      BY <1>3, <2>2
    <3>2. BagAdd(BagRemove(B, e), e) = [x \in DOMAIN B |-> B[x]]
      BY <1>3, <2>2, <3>1
    <3> QED
      BY <3>2
  <2> QED
    BY <2>1, <2>2
<1> QED
  BY <1>1, <1>2, <1>3

\* A copy of an element adds its weight to the tokens of a bag.
LEMMA AddWeighs ==
  ASSUME NEW B, IsABag(B), NEW weight, NEW e, NEW w \in Nat, weight[e] = w,
         NEW n \in Nat, Weighs(B, weight, n)
  PROVE  Weighs(BagAdd(B, e), weight, n + w)
<1> DEFINE copy == IF e \in DOMAIN B THEN B[e] + 1 ELSE 1
           new == {<<e, copy>>} \X (1..w)
<1>1. copy \in Nat
  BY DEF IsABag
<1> DEFINE A == BagAdd(B, e)
<1>2. Tokens(A, weight) = Tokens(B, weight) \cup new
  <2>1. /\ DOMAIN A = DOMAIN B \cup {e} /\ A[e] = copy
        /\ \A x \in DOMAIN B : x # e => A[x] = B[x]
    BY <1>1 DEF BagAdd
  <2>2. ASSUME NEW d, NEW i, NEW k
        PROVE  <<<<d, i>>, k>> \in Tokens(A, weight) <=>
                 \/ <<<<d, i>>, k>> \in Tokens(B, weight)
                 \/ d = e /\ i = copy /\ k \in 1..w
    <3>1. d \in DOMAIN B => B[d] \in Nat
      BY DEF IsABag
    <3>2. \A bag : <<<<d, i>>, k>> \in Tokens(bag, weight) <=>
            d \in DOMAIN bag /\ i \in Nat /\ k \in Nat /\ i \in 1..bag[d] /\ k \in 1..weight[d]
      BY DEF Tokens, BagToSet
    <3> HIDE DEF A
    <3> QED
      BY <1>1, <2>1, <3>1, <3>2
  <2>3. \A x \in Tokens(A, weight) \cup Tokens(B, weight) \cup new :
           \E d, i, k : x = <<<<d, i>>, k>>
    BY DEF Tokens
  <2>4. \A d, i, k : <<<<d, i>>, k>> \in new <=> d = e /\ i = copy /\ k \in 1..w
    OBVIOUS
  <2> HIDE DEF A, new
  <2> QED
    BY <2>2, <2>3, <2>4
<1>3. Tokens(B, weight) \cap new = {}
  <2>1. ASSUME NEW x \in Tokens(B, weight), x \in new PROVE FALSE
    <3>1. x[1] = <<e, copy>>
      BY <2>1
    <3>2. e \in DOMAIN B /\ copy \in 1..B[e]
      BY <3>1 DEF Tokens, BagToSet
    <3>3. copy = B[e] + 1 /\ B[e] \in Nat
      BY <3>2 DEF IsABag
    <3> QED
      BY <3>2, <3>3
  <2> QED
    BY <2>1
<1>4. IsFiniteSet(new) /\ Cardinality(new) = w
  <2>1. IsFiniteSet({<<e, copy>>}) /\ Cardinality({<<e, copy>>}) = 1
    BY FS_Singleton
  <2>2. IsFiniteSet(1..w) /\ Cardinality(1..w) = w
    BY FS_Interval
  <2> QED
    BY <2>1, <2>2, FS_Product
<1> HIDE DEF new, A
<1>5. IsFiniteSet(Tokens(B, weight)) /\ Cardinality(Tokens(B, weight)) = n
  BY DEF Weighs
<1>6. Cardinality(Tokens(B, weight) \cap new) = 0
  BY <1>3, FS_EmptySet
<1>7. /\ IsFiniteSet(Tokens(B, weight) \cup new)
      /\ Cardinality(Tokens(B, weight) \cup new) = n + w - 0
  BY <1>4, <1>5, <1>6, FS_Union
<1> QED
  BY <1>2, <1>7 DEF Weighs, A

\* Taking a copy away takes its weight away.
LEMMA RemoveWeighs ==
  ASSUME NEW B, IsABag(B), NEW weight, NEW e \in BagToSet(B), NEW w \in Nat, weight[e] = w,
         NEW n \in Nat, Weighs(B, weight, n)
  PROVE  n - w \in Nat /\ Weighs(BagRemove(B, e), weight, n - w)
<1> DEFINE R == BagRemove(B, e)
<1>1. IsABag(R) /\ BagAdd(R, e) = B
  BY BagsChange
<1>2. Tokens(R, weight) \subseteq Tokens(B, weight)
  BY DEF Tokens, BagToSet, BagRemove, IsABag
<1>3. PICK m \in Nat : Weighs(R, weight, m)
  BY <1>2, FS_Subset, FS_CardinalityType DEF Weighs
<1>4. Weighs(B, weight, m + w)
  BY <1>1, <1>3, AddWeighs
<1>5. m = n - w
  BY <1>4 DEF Weighs
<1> QED
  BY <1>3, <1>5

-----------------------------------------------------------------------------
(* How a step moves the copies of a delivery.                              *)

LEMMA AdvanceWeighs ==
  ASSUME TypeOK, NEW d \in BagToSet(deliveries), NEW stage \in Stages, Advance(d, stage),
         NEW weight \in [Deliveries -> Nat], NEW n \in Nat, Weighs(deliveries, weight, n)
  PROVE  LET m == n - weight[d] + weight[[d EXCEPT !.stage = stage]]
         IN  m \in Nat /\ Weighs(deliveries', weight, m)
<1> DEFINE e == [d EXCEPT !.stage = stage]
           R == BagRemove(deliveries, d)
<1>1. d \in Deliveries /\ e \in Deliveries /\ IsABag(deliveries)
  BY DEF TypeOK, Deliveries, Stages
<1>2. weight[d] \in Nat /\ weight[e] \in Nat
  BY <1>1
<1> HIDE DEF e
<1>3. n - weight[d] \in Nat /\ Weighs(R, weight, n - weight[d])
  BY <1>1, <1>2, RemoveWeighs
<1>4. IsABag(R)
  BY <1>1, BagsChange
<1> HIDE DEF R
<1>5. Weighs(BagAdd(R, e), weight, n - weight[d] + weight[e])
  BY <1>2, <1>3, <1>4, AddWeighs
<1> QED
  BY <1>2, <1>3, <1>5 DEF Advance, Replace, e, R

LEMMA EnqueueWeighs ==
  ASSUME TypeOK, NEW task \in Tasks, Enqueue(task),
         NEW weight \in [Deliveries -> Nat], NEW n \in Nat, Weighs(deliveries, weight, n)
  PROVE  LET m == n + weight[Attempt(task, 0)]
         IN  m \in Nat /\ Weighs(deliveries', weight, m)
<1>1. Attempt(task, 0) \in Deliveries /\ IsABag(deliveries)
  BY Limits DEF TypeOK, Deliveries, Stages, Attempt
<1>2. weight[Attempt(task, 0)] \in Nat
  BY <1>1
<1> QED
  BY <1>1, <1>2, AddWeighs DEF Enqueue

LEMMA AcknowledgeWeighs ==
  ASSUME TypeOK, NEW d \in BagToSet(deliveries), Acknowledge(d),
         NEW weight \in [Deliveries -> Nat], NEW n \in Nat, Weighs(deliveries, weight, n)
  PROVE  n - weight[d] \in Nat /\ Weighs(deliveries', weight, n - weight[d])
<1>1. d \in Deliveries /\ IsABag(deliveries)
  BY DEF TypeOK, Deliveries, Stages
<1>2. weight[d] \in Nat
  BY <1>1
<1> QED
  BY <1>1, <1>2, RemoveWeighs DEF Acknowledge

LEMMA RetryWeighs ==
  ASSUME TypeOK, NEW d \in BagToSet(deliveries), Retry(d),
         NEW weight \in [Deliveries -> Nat], NEW n \in Nat, Weighs(deliveries, weight, n)
  PROVE  LET m == n - weight[d] + weight[[d EXCEPT !.stage = "returned"]]
                    + weight[Attempt(d.task, d.retry + 1)]
         IN  m \in Nat /\ Weighs(deliveries', weight, m)
<1> DEFINE e == [d EXCEPT !.stage = "returned"]
           next == Attempt(d.task, d.retry + 1)
           R == BagRemove(deliveries, d)
           A == BagAdd(R, e)
<1>1. d \in Deliveries /\ e \in Deliveries /\ IsABag(deliveries)
  BY DEF TypeOK, Deliveries, Stages
<1>2. next \in Deliveries
  BY <1>1, Limits DEF Retry, RetriesLeft, Deliveries, Stages, Attempt
<1>3. weight[d] \in Nat /\ weight[e] \in Nat /\ weight[next] \in Nat
  BY <1>1, <1>2
<1>4. deliveries' = BagAdd(A, next)
  BY DEF Retry, Replace
<1> HIDE DEF e, next
<1>5. IsABag(R) /\ IsABag(A)
  BY <1>1, BagsChange
<1>6. n - weight[d] \in Nat /\ Weighs(R, weight, n - weight[d])
  BY <1>1, <1>3, RemoveWeighs
<1> HIDE DEF R
<1>7. Weighs(A, weight, n - weight[d] + weight[e]) /\ n - weight[d] + weight[e] \in Nat
  BY <1>3, <1>5, <1>6, AddWeighs
<1> HIDE DEF A
<1>8. Weighs(BagAdd(A, next), weight, n - weight[d] + weight[e] + weight[next])
  BY <1>3, <1>5, <1>7, AddWeighs
<1> QED
  BY <1>3, <1>4, <1>7, <1>8 DEF e, next

LEMMA NothingWeighs ==
  ASSUME NEW weight
  PROVE  Weighs(EmptyBag, weight, 0)
<1>1. Tokens(EmptyBag, weight) = {}
  BY DEF Tokens, BagToSet, EmptyBag, SetToBag
<1> QED
  BY <1>1, FS_EmptySet DEF Weighs

-----------------------------------------------------------------------------
(* Types.                                                                  *)

DeliveriesOK == IsABag(deliveries) /\ BagToSet(deliveries) \subseteq Deliveries

LEMMA AdvanceTyped ==
  ASSUME DeliveriesOK, NEW d \in BagToSet(deliveries), NEW stage \in Stages, Advance(d, stage)
  PROVE  DeliveriesOK'
<1> DEFINE e == [d EXCEPT !.stage = stage]
<1>1. d \in Deliveries /\ e \in Deliveries
  BY DEF DeliveriesOK, Deliveries
<1> HIDE DEF e
<1> QED
  BY <1>1, BagsChange DEF DeliveriesOK, Advance, Replace, e

LEMMA EnqueueTyped ==
  ASSUME DeliveriesOK, NEW task \in Tasks, Enqueue(task)
  PROVE  DeliveriesOK'
<1>1. Attempt(task, 0) \in Deliveries
  BY Limits DEF Deliveries, Stages, Attempt
<1> QED
  BY <1>1, BagsChange DEF DeliveriesOK, Enqueue

LEMMA AcknowledgeTyped ==
  ASSUME DeliveriesOK, NEW d, Acknowledge(d)
  PROVE  DeliveriesOK'
  BY BagsChange DEF DeliveriesOK, Acknowledge

LEMMA RetryTyped ==
  ASSUME DeliveriesOK, NEW d \in BagToSet(deliveries), Retry(d)
  PROVE  DeliveriesOK'
<1> DEFINE e == [d EXCEPT !.stage = "returned"]
           next == Attempt(d.task, d.retry + 1)
           A == Replace(d, e)
<1>1. e \in Deliveries
  BY DEF DeliveriesOK, Deliveries, Stages
<1>2. next \in Deliveries
  BY Limits DEF DeliveriesOK, Retry, RetriesLeft, Deliveries, Stages, Attempt
<1> HIDE DEF e, next
<1>3. IsABag(A) /\ BagToSet(A) \subseteq Deliveries
  BY <1>1, BagsChange DEF DeliveriesOK, Replace
<1>4. deliveries' = BagAdd(A, next)
  BY DEF Retry, e, next
<1> HIDE DEF A
<1> QED
  BY <1>2, <1>3, <1>4, BagsChange DEF DeliveriesOK

LEMMA TypeOKSplit ==
  TypeOK <=> /\ DeliveriesOK
             /\ enrolled \in BOOLEAN
             /\ emails \in [Tasks -> Nat]
             /\ logs \in [Tasks -> [SENT: Nat, FAILED: Nat]]
             /\ crashes \in 0..MaxCrashes
             /\ outages \in [Tasks -> 0..MaxOutages]
             /\ enqueued \subseteq Tasks
  BY DEF TypeOK, DeliveriesOK, Deliveries, Stages

LEMMA TypeInit == Init => TypeOK
  BY Limits DEF Init, TypeOK, IsABag, BagToSet, EmptyBag, SetToBag

\* The steps of a delivery that move one copy of it to another stage.
Moves(d) ==
    \/ Start(d) \/ LoadContextFails(d) \/ SendEmail(d) \/ SendFails(d)
    \/ LogSent(d) \/ LogSentFails(d) \/ RetryIsLost(d)
    \/ LogFailed(d) \/ LogFailedFails(d) \/ WorkerDies(d)

LEMMA MovesAdvance ==
  ASSUME NEW d, Moves(d)
  PROVE  \E stage \in Stages : Advance(d, stage)
  BY DEF Moves, Start, LoadContextFails, SendEmail, SendFails, LogSent, LogSentFails,
         RetryIsLost, LogFailed, LogFailedFails, WorkerDies, Redeliver, Stages

LEMMA TypeStep == TypeOK /\ [Next]_vars => TypeOK'
<1> SUFFICES ASSUME TypeOK, [Next]_vars PROVE TypeOK'
  OBVIOUS
<1>1. CASE UNCHANGED vars
  BY <1>1 DEF vars, TypeOK
<1>2. ASSUME NEW task \in Tasks, Enqueue(task) PROVE TypeOK'
  <2>1. DeliveriesOK'
    BY <1>2, EnqueueTyped, TypeOKSplit
  <2> QED
    BY <1>2, <2>1, TypeOKSplit DEF Enqueue, TypeOK, DeliveriesOK, Deliveries, Stages
<1>3. ASSUME NEW d \in BagToSet(deliveries), Moves(d) PROVE TypeOK'
  <2>1. DeliveriesOK'
    BY <1>3, MovesAdvance, AdvanceTyped, TypeOKSplit
  <2>2. d.task \in Tasks /\ crashes \in Nat
    BY Limits DEF TypeOK
  <2>3. /\ enrolled' = enrolled /\ enqueued' = enqueued
        /\ crashes' \in {crashes, crashes + 1} /\ crashes' \in 0..MaxCrashes
    BY <1>3, <2>2, Limits
       DEF TypeOK, Moves, Start, LoadContextFails, SendEmail, SendFails, LogSent,
           LogSentFails, RetryIsLost, LogFailed, LogFailedFails, WorkerDies
  <2>4. emails' \in [Tasks -> Nat]
    BY <1>3, <2>2
       DEF TypeOK, Moves, Start, LoadContextFails, SendEmail, SendFails, LogSent,
           LogSentFails, RetryIsLost, LogFailed, LogFailedFails, WorkerDies
  <2>5. logs' \in [Tasks -> [SENT: Nat, FAILED: Nat]]
    BY <1>3, <2>2
       DEF TypeOK, Moves, Start, LoadContextFails, SendEmail, SendFails, LogSent,
           LogSentFails, RetryIsLost, LogFailed, LogFailedFails, WorkerDies, Row
  <2>6. outages' \in [Tasks -> 0..MaxOutages]
    BY <1>3, <2>2, Limits
       DEF TypeOK, Moves, Start, LoadContextFails, SendEmail, SendFails, LogSent,
           LogSentFails, RetryIsLost, LogFailed, LogFailedFails, WorkerDies, Outage
  <2> QED
    BY <2>1, <2>3, <2>4, <2>5, <2>6 DEF TypeOK, DeliveriesOK, Deliveries, Stages
<1>4. ASSUME NEW d \in BagToSet(deliveries), Retry(d) \/ Acknowledge(d) PROVE TypeOK'
  <2>1. DeliveriesOK'
    BY <1>4, RetryTyped, AcknowledgeTyped, TypeOKSplit
  <2> QED
    BY <1>4, <2>1 DEF Retry, Acknowledge, TypeOK, DeliveriesOK, Deliveries, Stages
<1>5. CASE DeleteEnrolment
  BY <1>5 DEF DeleteEnrolment, TypeOK
<1> QED
  BY <1>1, <1>2, <1>3, <1>4, <1>5 DEF Next, Work, Execute, Moves

\* Whatever fails, the bag of messages, the counters and the rows keep their types.
THEOREM Typing == Spec => []TypeOK
  BY TypeInit, TypeStep, PTL DEF Spec

-----------------------------------------------------------------------------
(* E-mails: every copy of a delivery may still cause one e-mail for its    *)
(* own attempt, unless it was made, and one for each retry it has left.    *)

Chances(task) ==
    [d \in Deliveries |->
        IF d.task # task \/ d.stage = "returned" THEN 0
        ELSE IF d.stage \in {"queued", "started"} THEN MaxRetries + 1 - d.retry
        ELSE MaxRetries - d.retry]

\* The e-mails sent and those that may still be sent fit the budget, to
\* which every crash adds the attempts of one message.
SendsBudgeted ==
    \A task \in Tasks : \E n \in Nat :
        /\ Weighs(deliveries, Chances(task), n)
        /\ emails[task] + n + (IF task \in enqueued THEN 0 ELSE MaxRetries + 1)
             <= (MaxRetries + 1) * (1 + crashes)

LEMMA ChancesTyped ==
  ASSUME NEW task
  PROVE  /\ Chances(task) \in [Deliveries -> Nat]
         /\ \A d \in Deliveries :
              /\ d.task # task => Chances(task)[d] = 0
              /\ d.stage = "returned" => Chances(task)[d] = 0
              /\ Chances(task)[d] <= MaxRetries + 1
              /\ d.task = task /\ d.stage \in {"queued", "started"} =>
                   Chances(task)[d] = MaxRetries + 1 - d.retry
              /\ d.task = task /\ d.stage \in {"sent", "failing"} =>
                   Chances(task)[d] = MaxRetries - d.retry
              /\ d.retry \in Nat /\ d.retry <= MaxRetries
  BY Limits DEF Chances, Deliveries

\* What one step of a delivery does to its chances and to the e-mails.
LEMMA MovesSends ==
  ASSUME TypeOK, NEW d \in BagToSet(deliveries), Moves(d), NEW task \in Tasks
  PROVE  \E stage \in Stages :
           /\ Advance(d, stage)
           /\ \/ /\ crashes' = crashes
                 /\ emails'[task] + Chances(task)[[d EXCEPT !.stage = stage]]
                      <= emails[task] + Chances(task)[d]
              \/ crashes' = crashes + 1 /\ emails'[task] = emails[task]
<1> DEFINE after(stage) == [d EXCEPT !.stage = stage]
           C == Chances(task)
<1>1. /\ d \in Deliveries
      /\ \A stage \in Stages : /\ after(stage) \in Deliveries
                               /\ after(stage).task = d.task /\ after(stage).retry = d.retry
                               /\ after(stage).stage = stage
  BY DEF TypeOK, Deliveries, Stages
<1>2. emails[task] \in Nat /\ emails \in [Tasks -> Nat]
  BY DEF TypeOK
<1>3. /\ \A e \in Deliveries : C[e] \in Nat
      /\ \A e \in Deliveries :
              /\ e.task # task => C[e] = 0
              /\ e.stage = "returned" => C[e] = 0
              /\ e.task = task /\ e.stage \in {"queued", "started"} =>
                   C[e] = MaxRetries + 1 - e.retry
              /\ e.task = task /\ e.stage \in {"sent", "failing"} =>
                   C[e] = MaxRetries - e.retry
              /\ e.retry \in Nat /\ e.retry <= MaxRetries
  BY ChancesTyped
<1> HIDE DEF after, C
<1>4. CASE Start(d)
  <2>1. Advance(d, "started") /\ d.stage = "queued" /\ UNCHANGED <<emails, crashes>>
    BY <1>4 DEF Start, AtStage
  <2>2. C[after("started")] = C[d]
    BY <1>1, <1>3, <2>1 DEF Stages
  <2> QED
    BY <1>1, <1>2, <1>3, <2>1, <2>2 DEF Stages, after, C
<1>5. CASE LoadContextFails(d)
  <2>1. Advance(d, "failing") /\ d.stage = "started" /\ UNCHANGED <<emails, crashes>>
    BY <1>5 DEF LoadContextFails, AtStage
  <2>2. C[after("failing")] <= C[d]
    BY <1>1, <1>3, <2>1, Limits DEF Stages
  <2> QED
    BY <1>1, <1>2, <1>3, <2>1, <2>2 DEF Stages, after, C
<1>6. CASE SendEmail(d) \/ SendFails(d)
  <2>1. PICK stage \in {"sent", "failing"} :
          /\ Advance(d, stage) /\ d.stage = "started" /\ crashes' = crashes
          /\ \E k \in {0, 1} : emails' = [emails EXCEPT ![d.task] = @ + k]
    BY <1>6 DEF SendEmail, SendFails, AtStage
  <2>2. stage \in Stages
    BY DEF Stages
  <2>3. C[after(stage)] \in Nat /\ C[d] \in Nat
    BY <1>1, <1>3, <2>2
  <2>4. CASE d.task = task
    <3>1. C[after(stage)] = C[d] - 1
      BY <1>1, <1>3, <2>1, <2>2, <2>4, Limits
    <3>2. emails'[task] <= emails[task] + 1 /\ emails'[task] \in Nat
      BY <1>2, <2>1, <2>4
    <3>3. emails'[task] + C[after(stage)] <= emails[task] + C[d]
      BY <1>2, <2>3, <3>1, <3>2
    <3> QED
      BY <2>1, <2>2, <3>3 DEF after, C
  <2>5. CASE d.task # task
    <3>1. emails'[task] = emails[task]
      BY <1>2, <2>1, <2>5
    <3>2. C[after(stage)] = 0 /\ C[d] = 0
      BY <1>1, <1>3, <2>2, <2>5
    <3> QED
      BY <1>2, <2>1, <2>2, <3>1, <3>2 DEF after, C
  <2> QED
    BY <2>4, <2>5
<1>7. CASE LogSentFails(d)
  <2>1. Advance(d, "failing") /\ d.stage = "sent" /\ UNCHANGED <<emails, crashes>>
    BY <1>7 DEF LogSentFails, AtStage
  <2>2. C[after("failing")] = C[d]
    BY <1>1, <1>3, <2>1 DEF Stages
  <2> QED
    BY <1>1, <1>2, <1>3, <2>1, <2>2 DEF Stages, after, C
<1>8. CASE LogSent(d) \/ RetryIsLost(d) \/ LogFailed(d) \/ LogFailedFails(d)
  <2>1. Advance(d, "returned") /\ UNCHANGED <<emails, crashes>>
    BY <1>8 DEF LogSent, RetryIsLost, LogFailed, LogFailedFails
  <2>2. C[after("returned")] = 0
    BY <1>1, <1>3 DEF Stages
  <2> QED
    BY <1>1, <1>2, <1>3, <2>1, <2>2 DEF Stages, after, C
<1>9. CASE WorkerDies(d)
  BY <1>9 DEF WorkerDies, Redeliver, Stages
<1> QED
  BY <1>4, <1>5, <1>6, <1>7, <1>8, <1>9 DEF Moves

LEMMA BudgetGrows ==
  crashes \in Nat => /\ (MaxRetries + 1) * (1 + crashes) \in Nat
                     /\ (MaxRetries + 1) * (1 + (crashes + 1))
                          = (MaxRetries + 1) * (1 + crashes) + (MaxRetries + 1)
  BY Limits

LEMMA SendsInit == Init => SendsBudgeted
<1> SUFFICES ASSUME Init, NEW task \in Tasks
             PROVE  \E n \in Nat :
                      /\ Weighs(deliveries, Chances(task), n)
                      /\ emails[task] + n + (IF task \in enqueued THEN 0 ELSE MaxRetries + 1)
                           <= (MaxRetries + 1) * (1 + crashes)
  BY DEF SendsBudgeted
<1>1. Weighs(deliveries, Chances(task), 0)
  BY NothingWeighs DEF Init
<1>2. emails[task] = 0 /\ task \notin enqueued /\ crashes = 0
  BY DEF Init
<1>3. 0 + 0 + (MaxRetries + 1) <= (MaxRetries + 1) * (1 + 0)
  BY Limits
<1> QED
  BY <1>1, <1>2, <1>3

LEMMA SendsStep == TypeOK /\ SendsBudgeted /\ [Next]_vars => SendsBudgeted'
<1> SUFFICES ASSUME TypeOK, SendsBudgeted, [Next]_vars, NEW task \in Tasks
             PROVE  \E n \in Nat :
                      /\ Weighs(deliveries', Chances(task), n)
                      /\ emails'[task] + n + (IF task \in enqueued' THEN 0 ELSE MaxRetries + 1)
                           <= (MaxRetries + 1) * (1 + crashes')
  BY DEF SendsBudgeted
<1> DEFINE due == IF task \in enqueued THEN 0 ELSE MaxRetries + 1
           budget == (MaxRetries + 1) * (1 + crashes)
           C == Chances(task)
<1>1. PICK n \in Nat : Weighs(deliveries, C, n) /\ emails[task] + n + due <= budget
  BY DEF SendsBudgeted
<1>2. /\ C \in [Deliveries -> Nat] /\ due \in Nat /\ budget \in Nat
      /\ emails[task] \in Nat /\ crashes \in Nat
      /\ (MaxRetries + 1) * (1 + (crashes + 1)) = budget + (MaxRetries + 1)
  <2>1. crashes \in Nat /\ emails[task] \in Nat
    BY Limits DEF TypeOK
  <2> QED
    BY <2>1, Limits, BudgetGrows, ChancesTyped
<1>3. \A d \in BagToSet(deliveries) : d \in Deliveries
  BY DEF TypeOK, Deliveries, Stages
<1>4. CASE UNCHANGED <<deliveries, emails, crashes, enqueued>>
  BY <1>1, <1>4
<1>5. ASSUME NEW other \in Tasks, Enqueue(other)
      PROVE  \E m \in Nat :
               /\ Weighs(deliveries', C, m)
               /\ emails'[task] + m + (IF task \in enqueued' THEN 0 ELSE MaxRetries + 1)
                    <= (MaxRetries + 1) * (1 + crashes')
  <2> DEFINE e == Attempt(other, 0)
  <2>1. n + C[e] \in Nat /\ Weighs(deliveries', C, n + C[e])
    BY <1>1, <1>2, <1>5, EnqueueWeighs
  <2>2. /\ emails' = emails /\ crashes' = crashes
        /\ enqueued' = enqueued \cup {other} /\ other \notin enqueued
    BY <1>5 DEF Enqueue
  <2>3. /\ e \in Deliveries /\ e.task = other /\ e.retry = 0
        /\ (other # task => C[e] = 0) /\ C[e] <= MaxRetries + 1 /\ C[e] \in Nat
    <3>1. e \in Deliveries /\ e.task = other /\ e.retry = 0
      BY Limits DEF Attempt, Deliveries, Stages
    <3> QED
      BY <3>1, ChancesTyped
  <2> HIDE DEF e, C
  <2>4. emails[task] + (n + C[e]) + (IF task \in enqueued' THEN 0 ELSE MaxRetries + 1) <= budget
    <3>1. CASE other = task
      <4>1. due = MaxRetries + 1 /\ task \in enqueued'
        BY <2>2, <3>1
      <4> HIDE DEF due, budget
      <4> QED
        BY <1>1, <1>2, <2>3, <4>1, Limits
    <3>2. CASE other # task
      <4>1. (IF task \in enqueued' THEN 0 ELSE MaxRetries + 1) = due
        BY <2>2, <3>2
      <4> HIDE DEF due, budget
      <4> QED
        BY <1>1, <1>2, <2>3, <3>2, <4>1
    <3> QED
      BY <3>1, <3>2
  <2> QED
    BY <2>1, <2>2, <2>4
<1>6. ASSUME NEW d \in BagToSet(deliveries), Moves(d)
      PROVE  \E m \in Nat :
               /\ Weighs(deliveries', C, m)
               /\ emails'[task] + m + (IF task \in enqueued' THEN 0 ELSE MaxRetries + 1)
                    <= (MaxRetries + 1) * (1 + crashes')
  <2>1. PICK stage \in Stages :
           /\ Advance(d, stage)
           /\ \/ /\ crashes' = crashes
                 /\ emails'[task] + C[[d EXCEPT !.stage = stage]] <= emails[task] + C[d]
              \/ crashes' = crashes + 1 /\ emails'[task] = emails[task]
    BY <1>6, MovesSends
  <2> DEFINE e == [d EXCEPT !.stage = stage]
             m == n - C[d] + C[e]
  <2>2. m \in Nat /\ Weighs(deliveries', C, m)
    BY <1>1, <1>2, <2>1, AdvanceWeighs
  <2>3. enqueued' = enqueued /\ emails'[task] \in Nat
    BY <1>6, TypeStep
       DEF TypeOK, Moves, Start, LoadContextFails, SendEmail, SendFails, LogSent, LogSentFails,
           RetryIsLost, LogFailed, LogFailedFails, WorkerDies
  <2>4. C[d] \in Nat /\ C[e] \in Nat /\ C[e] <= MaxRetries + 1
    <3>1. d \in Deliveries /\ e \in Deliveries
      BY <1>3 DEF Deliveries
    <3> QED
      BY <3>1, ChancesTyped
  <2>5. \/ crashes' = crashes /\ emails'[task] + C[e] <= emails[task] + C[d]
        \/ crashes' = crashes + 1 /\ emails'[task] = emails[task]
    BY <2>1
  <2>6. emails'[task] + m + due <= (MaxRetries + 1) * (1 + crashes')
    <3> HIDE DEF e, C, due
    <3>1. CASE crashes' = crashes /\ emails'[task] + C[e] <= emails[task] + C[d]
      <4>1. (MaxRetries + 1) * (1 + crashes') = budget
        BY <3>1
      <4> HIDE DEF budget
      <4> QED
        BY <1>1, <1>2, <2>3, <2>4, <3>1, <4>1
    <3>2. CASE crashes' = crashes + 1 /\ emails'[task] = emails[task]
      <4>1. (MaxRetries + 1) * (1 + crashes') = budget + (MaxRetries + 1)
        BY <1>2, <3>2
      <4> HIDE DEF budget
      <4> QED
        BY <1>1, <1>2, <2>4, <3>2, <4>1, Limits
    <3> QED
      BY <2>5, <3>1, <3>2
  <2> QED
    BY <2>2, <2>3, <2>6
<1>7. ASSUME NEW d \in BagToSet(deliveries), Retry(d)
      PROVE  \E m \in Nat :
               /\ Weighs(deliveries', C, m)
               /\ emails'[task] + m + (IF task \in enqueued' THEN 0 ELSE MaxRetries + 1)
                    <= (MaxRetries + 1) * (1 + crashes')
  <2> DEFINE e == [d EXCEPT !.stage = "returned"]
             next == Attempt(d.task, d.retry + 1)
             m == n - C[d] + C[e] + C[next]
  <2>1. m \in Nat /\ Weighs(deliveries', C, m)
    BY <1>1, <1>2, <1>7, RetryWeighs
  <2>2. UNCHANGED <<emails, crashes, enqueued>>
    BY <1>7 DEF Retry
  <2>3. m = n
    <3>1. d \in Deliveries /\ e \in Deliveries /\ e.stage = "returned"
      BY <1>3 DEF Deliveries, Stages
    <3>2. /\ next \in Deliveries /\ next.task = d.task /\ next.retry = d.retry + 1
          /\ next.stage = "queued" /\ d.stage = "failing"
      BY <1>7, <3>1, Limits DEF Retry, RetriesLeft, AtStage, Attempt, Deliveries, Stages
    <3> HIDE DEF e, next
    <3>3. C[e] = 0
      BY <3>1, ChancesTyped
    <3>4. C[d] = C[next] /\ C[d] \in Nat
      BY <3>1, <3>2, Limits, ChancesTyped
    <3> QED
      BY <3>3, <3>4
  <2> QED
    BY <1>1, <2>1, <2>2, <2>3
<1>8. ASSUME NEW d \in BagToSet(deliveries), Acknowledge(d)
      PROVE  \E m \in Nat :
               /\ Weighs(deliveries', C, m)
               /\ emails'[task] + m + (IF task \in enqueued' THEN 0 ELSE MaxRetries + 1)
                    <= (MaxRetries + 1) * (1 + crashes')
  <2>1. n - C[d] \in Nat /\ Weighs(deliveries', C, n - C[d])
    BY <1>1, <1>2, <1>8, AcknowledgeWeighs
  <2>2. C[d] = 0
    BY <1>3, <1>8, ChancesTyped DEF Acknowledge, AtStage
  <2>3. UNCHANGED <<emails, crashes, enqueued>>
    BY <1>8 DEF Acknowledge
  <2> QED
    BY <1>1, <2>1, <2>2, <2>3
<1> QED
  BY <1>4, <1>5, <1>6, <1>7, <1>8
     DEF Next, Work, Execute, Moves, DeleteEnrolment, vars

\* However deliveries, retries, redeliveries and crashes interleave, a task
\* sends at most one e-mail per attempt, and only a crash buys more attempts.
THEOREM Sends == Spec => []SendsBounded
<1>1. TypeOK /\ SendsBudgeted => SendsBounded
  <2> SUFFICES ASSUME TypeOK, SendsBudgeted, NEW task \in Tasks
               PROVE  emails[task] <= (MaxRetries + 1) * (1 + crashes)
    BY DEF SendsBounded
  <2> DEFINE budget == (MaxRetries + 1) * (1 + crashes)
             due == IF task \in enqueued THEN 0 ELSE MaxRetries + 1
  <2>1. PICK n \in Nat : emails[task] + n + due <= budget
    BY DEF SendsBudgeted
  <2>2. crashes \in Nat /\ emails[task] \in Nat
    BY Limits DEF TypeOK
  <2>3. budget \in Nat /\ due \in Nat
    BY <2>2, BudgetGrows, Limits
  <2> HIDE DEF budget, due
  <2>4. emails[task] <= budget
    BY <2>1, <2>2, <2>3
  <2> QED
    BY <2>4 DEF budget
<1>2. Init => TypeOK /\ SendsBudgeted
  BY TypeInit, SendsInit
<1>3. (TypeOK /\ SendsBudgeted) /\ [Next]_vars => (TypeOK /\ SendsBudgeted)'
  BY TypeStep, SendsStep
<1> QED
  BY <1>1, <1>2, <1>3, PTL DEF Spec

-----------------------------------------------------------------------------
(* Rows: every copy that is not over may still write one verdict, and one  *)
(* that has sent its e-mail may still write that it did.                   *)

Open(task) ==
    [d \in Deliveries |-> IF d.task = task /\ d.stage # "returned" THEN 1 ELSE 0]

Sent(task) ==
    [d \in Deliveries |-> IF d.task = task /\ d.stage = "sent" THEN 1 ELSE 0]

\* The verdicts written and those that may still be written fit the budget.
VerdictsBudgeted ==
    \A task \in Tasks : \E n \in Nat :
        /\ Weighs(deliveries, Open(task), n)
        /\ logs[task].SENT + logs[task].FAILED + n + (IF task \in enqueued THEN 0 ELSE 1)
             <= 1 + crashes

\* The SENT rows written and those about to be stand for different e-mails.
SentAccounted ==
    \A task \in Tasks : \E n \in Nat :
        Weighs(deliveries, Sent(task), n) /\ logs[task].SENT + n <= emails[task]

LEMMA OpenTyped ==
  ASSUME NEW task
  PROVE  /\ Open(task) \in [Deliveries -> Nat]
         /\ Sent(task) \in [Deliveries -> Nat]
         /\ \A d \in Deliveries :
              /\ Open(task)[d] = IF d.task = task /\ d.stage # "returned" THEN 1 ELSE 0
              /\ Sent(task)[d] = IF d.task = task /\ d.stage = "sent" THEN 1 ELSE 0
  BY DEF Open, Sent

\* What one step of a delivery does to its verdict and to the rows.
LEMMA MovesVerdicts ==
  ASSUME TypeOK, NEW d \in BagToSet(deliveries), Moves(d), NEW task \in Tasks
  PROVE  \E stage \in Stages :
           LET e == [d EXCEPT !.stage = stage]
           IN  /\ Advance(d, stage)
               /\ \/ crashes' = crashes + 1 /\ logs'[task] = logs[task]
                  \/ crashes' = crashes /\ Open(task)[e] = Open(task)[d] /\ logs'[task] = logs[task]
                  \/ /\ crashes' = crashes /\ stage = "returned"
                     /\ logs'[task].SENT + logs'[task].FAILED + Open(task)[e]
                          <= logs[task].SENT + logs[task].FAILED + Open(task)[d]
<1> DEFINE after(stage) == [d EXCEPT !.stage = stage]
           V == Open(task)
<1>1. /\ d \in Deliveries
      /\ \A stage \in Stages : /\ after(stage) \in Deliveries
                               /\ after(stage).task = d.task /\ after(stage).stage = stage
  BY DEF TypeOK, Deliveries, Stages
<1>2. \A e \in Deliveries : V[e] = IF e.task = task /\ e.stage # "returned" THEN 1 ELSE 0
  BY OpenTyped
<1>3. logs[task].SENT \in Nat /\ logs[task].FAILED \in Nat
      /\ logs \in [Tasks -> [SENT: Nat, FAILED: Nat]] /\ d.task \in Tasks
  BY DEF TypeOK
<1> HIDE DEF after, V
<1>4. CASE Start(d) \/ LoadContextFails(d) \/ SendEmail(d) \/ SendFails(d) \/ LogSentFails(d)
  <2>1. PICK stage \in Stages \ {"returned"} :
          Advance(d, stage) /\ d.stage # "returned" /\ UNCHANGED <<logs, crashes>>
    BY <1>4 DEF Start, LoadContextFails, SendEmail, SendFails, LogSentFails, AtStage, Stages
  <2>2. V[after(stage)] = V[d]
    BY <1>1, <1>2, <2>1
  <2> QED
    BY <2>1, <2>2 DEF after, V
<1>5. CASE LogSent(d) \/ LogFailed(d)
  <2>1. /\ Advance(d, "returned") /\ d.stage # "returned" /\ crashes' = crashes
        /\ \E status \in {"SENT", "FAILED"} : logs' = [logs EXCEPT ![d.task][status] = @ + 1]
    BY <1>5 DEF LogSent, LogFailed, AtStage, Row
  <2>2. V[after("returned")] = 0 /\ V[d] = IF d.task = task THEN 1 ELSE 0
    BY <1>1, <1>2, <2>1 DEF Stages
  <2>3. d.task # task => logs'[task] = logs[task]
    BY <1>3, <2>1
  <2>4. d.task = task =>
          logs'[task].SENT + logs'[task].FAILED = logs[task].SENT + logs[task].FAILED + 1
    BY <1>3, <2>1
  <2>5. logs'[task].SENT + logs'[task].FAILED + V[after("returned")]
          <= logs[task].SENT + logs[task].FAILED + V[d]
    BY <1>3, <2>2, <2>3, <2>4
  <2> QED
    BY <2>1, <2>5 DEF after, V, Stages
<1>6. CASE RetryIsLost(d) \/ LogFailedFails(d)
  <2>1. Advance(d, "returned") /\ UNCHANGED <<logs, crashes>>
    BY <1>6 DEF RetryIsLost, LogFailedFails
  <2>2. V[after("returned")] = 0 /\ V[d] \in {0, 1}
    BY <1>1, <1>2 DEF Stages
  <2>3. logs'[task].SENT + logs'[task].FAILED + V[after("returned")]
          <= logs[task].SENT + logs[task].FAILED + V[d]
    BY <1>3, <2>1, <2>2
  <2> QED
    BY <2>1, <2>3 DEF after, V, Stages
<1>7. CASE WorkerDies(d)
  BY <1>7 DEF WorkerDies, Redeliver, Stages
<1> QED
  BY <1>4, <1>5, <1>6, <1>7 DEF Moves

LEMMA VerdictsInit == Init => VerdictsBudgeted /\ SentAccounted
<1> SUFFICES ASSUME Init PROVE VerdictsBudgeted /\ SentAccounted
  OBVIOUS
<1>1. \A weight : Weighs(deliveries, weight, 0)
  BY NothingWeighs DEF Init
<1>2. \A task \in Tasks : /\ logs[task].SENT = 0 /\ logs[task].FAILED = 0 /\ emails[task] = 0
                          /\ task \notin enqueued /\ crashes = 0
  BY DEF Init
<1> QED
  BY <1>1, <1>2 DEF VerdictsBudgeted, SentAccounted

LEMMA VerdictsStep == TypeOK /\ VerdictsBudgeted /\ [Next]_vars => VerdictsBudgeted'
<1> SUFFICES ASSUME TypeOK, VerdictsBudgeted, [Next]_vars, NEW task \in Tasks
             PROVE  \E n \in Nat :
                      /\ Weighs(deliveries', Open(task), n)
                      /\ logs'[task].SENT + logs'[task].FAILED + n
                           + (IF task \in enqueued' THEN 0 ELSE 1) <= 1 + crashes'
  BY DEF VerdictsBudgeted
<1> DEFINE due == IF task \in enqueued THEN 0 ELSE 1
           rowsOf == logs[task].SENT + logs[task].FAILED
           V == Open(task)
           Goal == \E m \in Nat : /\ Weighs(deliveries', V, m)
                                  /\ logs'[task].SENT + logs'[task].FAILED + m
                                       + (IF task \in enqueued' THEN 0 ELSE 1) <= 1 + crashes'
<1>1. PICK n \in Nat : Weighs(deliveries, V, n) /\ rowsOf + n + due <= 1 + crashes
  BY DEF VerdictsBudgeted
<1>2. /\ V \in [Deliveries -> Nat] /\ due \in Nat /\ crashes \in Nat /\ rowsOf \in Nat
      /\ logs[task].SENT \in Nat /\ logs[task].FAILED \in Nat
      /\ logs'[task].SENT \in Nat /\ logs'[task].FAILED \in Nat
  <2>1. crashes \in Nat
    BY Limits DEF TypeOK
  <2>2. TypeOK'
    BY TypeStep
  <2>3. logs[task] \in [SENT: Nat, FAILED: Nat] /\ logs'[task] \in [SENT: Nat, FAILED: Nat]
    BY <2>2 DEF TypeOK
  <2> QED
    BY <2>1, <2>3, OpenTyped
<1>3. \A d \in BagToSet(deliveries) : d \in Deliveries
  BY DEF TypeOK, Deliveries, Stages
<1>4. CASE UNCHANGED vars
  BY <1>1, <1>4 DEF vars
<1>5. ASSUME NEW other \in Tasks, Enqueue(other) PROVE Goal
  <2> DEFINE e == Attempt(other, 0)
  <2>1. n + V[e] \in Nat /\ Weighs(deliveries', V, n + V[e])
    BY <1>1, <1>2, <1>5, EnqueueWeighs
  <2>2. /\ logs' = logs /\ crashes' = crashes
        /\ enqueued' = enqueued \cup {other} /\ other \notin enqueued
    BY <1>5 DEF Enqueue
  <2>3. V[e] = IF other = task THEN 1 ELSE 0
    <3>1. e \in Deliveries /\ e.task = other /\ e.stage = "queued"
      BY Limits DEF Attempt, Deliveries, Stages
    <3> QED
      BY <3>1, OpenTyped
  <2> HIDE DEF e, V
  <2>4. rowsOf + (n + V[e]) + (IF task \in enqueued' THEN 0 ELSE 1) <= 1 + crashes
    BY <1>1, <1>2, <2>2, <2>3
  <2> QED
    BY <2>1, <2>2, <2>4
<1>6. ASSUME NEW d \in BagToSet(deliveries), Moves(d) PROVE Goal
  <2>1. PICK stage \in Stages :
           LET e == [d EXCEPT !.stage = stage]
           IN  /\ Advance(d, stage)
               /\ \/ crashes' = crashes + 1 /\ logs'[task] = logs[task]
                  \/ crashes' = crashes /\ V[e] = V[d] /\ logs'[task] = logs[task]
                  \/ /\ crashes' = crashes /\ stage = "returned"
                     /\ logs'[task].SENT + logs'[task].FAILED + V[e]
                          <= logs[task].SENT + logs[task].FAILED + V[d]
    BY <1>6, MovesVerdicts
  <2> DEFINE e == [d EXCEPT !.stage = stage]
             m == n - V[d] + V[e]
  <2>2. m \in Nat /\ Weighs(deliveries', V, m)
    BY <1>1, <1>2, <2>1, AdvanceWeighs
  <2>3. enqueued' = enqueued
    BY <1>6 DEF Moves, Start, LoadContextFails, SendEmail, SendFails, LogSent, LogSentFails,
                RetryIsLost, LogFailed, LogFailedFails, WorkerDies
  <2>4. V[d] \in {0, 1} /\ V[e] \in {0, 1}
    <3>1. d \in Deliveries /\ e \in Deliveries
      BY <1>3 DEF Deliveries
    <3> QED
      BY <3>1, OpenTyped
  <2>5. logs'[task].SENT + logs'[task].FAILED + m + due <= 1 + crashes'
    <3> HIDE DEF V, due
    <3> QED
      BY <1>1, <1>2, <2>1, <2>4
  <2> QED
    BY <2>2, <2>3, <2>5
<1>7. ASSUME NEW d \in BagToSet(deliveries), Retry(d) PROVE Goal
  <2> DEFINE e == [d EXCEPT !.stage = "returned"]
             next == Attempt(d.task, d.retry + 1)
             m == n - V[d] + V[e] + V[next]
  <2>1. m \in Nat /\ Weighs(deliveries', V, m)
    BY <1>1, <1>2, <1>7, RetryWeighs
  <2>2. UNCHANGED <<logs, crashes, enqueued>>
    BY <1>7 DEF Retry
  <2>3. m = n
    <3>1. d \in Deliveries /\ e \in Deliveries /\ e.stage = "returned"
      BY <1>3 DEF Deliveries, Stages
    <3>2. /\ next \in Deliveries /\ next.task = d.task
          /\ next.stage = "queued" /\ d.stage = "failing"
      BY <1>7, <3>1, Limits DEF Retry, RetriesLeft, AtStage, Attempt, Deliveries, Stages
    <3> HIDE DEF e, next
    <3>3. V[e] = 0
      BY <3>1, OpenTyped
    <3>4. V[d] = V[next] /\ V[d] \in Nat
      BY <3>1, <3>2, OpenTyped
    <3> QED
      BY <3>3, <3>4
  <2> QED
    BY <1>1, <2>1, <2>2, <2>3
<1>8. ASSUME NEW d \in BagToSet(deliveries), Acknowledge(d) PROVE Goal
  <2>1. n - V[d] \in Nat /\ Weighs(deliveries', V, n - V[d])
    BY <1>1, <1>2, <1>8, AcknowledgeWeighs
  <2>2. V[d] = 0
    BY <1>3, <1>8, OpenTyped DEF Acknowledge, AtStage
  <2>3. UNCHANGED <<logs, crashes, enqueued>>
    BY <1>8 DEF Acknowledge
  <2> QED
    BY <1>1, <2>1, <2>2, <2>3
<1>9. CASE DeleteEnrolment
  <2>1. /\ logs'[task].SENT = 0 /\ logs'[task].FAILED = 0
        /\ UNCHANGED <<deliveries, crashes, enqueued>>
    BY <1>9 DEF DeleteEnrolment
  <2>2. n + due <= 1 + crashes
    <3> HIDE DEF due
    <3> QED
      BY <1>1, <1>2
  <2> QED
    BY <1>1, <1>2, <2>1, <2>2
<1> QED
  BY <1>4, <1>5, <1>6, <1>7, <1>8, <1>9 DEF Next, Work, Execute, Moves

\* What one step of a delivery does to its SENT row and to the e-mails.
LEMMA MovesSent ==
  ASSUME TypeOK, NEW d \in BagToSet(deliveries), Moves(d), NEW task \in Tasks
  PROVE  \E stage \in Stages :
           LET e == [d EXCEPT !.stage = stage]
           IN  /\ Advance(d, stage)
               /\ emails'[task] >= emails[task]
               /\ logs'[task].SENT + Sent(task)[e] + emails[task]
                    <= logs[task].SENT + Sent(task)[d] + emails'[task]
<1> DEFINE after(stage) == [d EXCEPT !.stage = stage]
           W == Sent(task)
<1>1. /\ d \in Deliveries
      /\ \A stage \in Stages : /\ after(stage) \in Deliveries
                               /\ after(stage).task = d.task /\ after(stage).stage = stage
  BY DEF TypeOK, Deliveries, Stages
<1>2. \A e \in Deliveries : W[e] = IF e.task = task /\ e.stage = "sent" THEN 1 ELSE 0
  BY OpenTyped
<1>3. /\ logs[task].SENT \in Nat /\ logs \in [Tasks -> [SENT: Nat, FAILED: Nat]]
      /\ d.task \in Tasks /\ emails \in [Tasks -> Nat] /\ emails[task] \in Nat
  BY DEF TypeOK
<1> HIDE DEF after, W
<1>4. CASE \/ Start(d) \/ LoadContextFails(d) \/ LogSentFails(d) \/ RetryIsLost(d)
           \/ LogFailedFails(d) \/ WorkerDies(d)
  <2>1. PICK stage \in Stages \ {"sent"} : Advance(d, stage) /\ UNCHANGED <<logs, emails>>
    BY <1>4 DEF Start, LoadContextFails, LogSentFails, RetryIsLost, LogFailedFails, WorkerDies,
                Redeliver, Stages
  <2>2. W[after(stage)] = 0 /\ W[d] \in {0, 1}
    BY <1>1, <1>2, <2>1
  <2> QED
    BY <1>3, <2>1, <2>2 DEF after, W
<1>5. CASE SendEmail(d)
  <2>1. /\ Advance(d, "sent") /\ d.stage = "started" /\ logs' = logs
        /\ emails' = [emails EXCEPT ![d.task] = @ + 1]
    BY <1>5 DEF SendEmail, AtStage
  <2>2. W[after("sent")] = (IF d.task = task THEN 1 ELSE 0) /\ W[d] = 0
    BY <1>1, <1>2, <2>1 DEF Stages
  <2>3. emails'[task] = emails[task] + (IF d.task = task THEN 1 ELSE 0)
    BY <1>3, <2>1
  <2> QED
    BY <1>3, <2>1, <2>2, <2>3 DEF after, W, Stages
<1>6. CASE SendFails(d)
  <2>1. /\ Advance(d, "failing") /\ logs' = logs
        /\ \E k \in {0, 1} : emails' = [emails EXCEPT ![d.task] = @ + k]
    BY <1>6 DEF SendFails
  <2>2. W[after("failing")] = 0 /\ W[d] \in {0, 1}
    BY <1>1, <1>2 DEF Stages
  <2>3. emails'[task] >= emails[task] /\ emails'[task] \in Nat
    BY <1>3, <2>1
  <2> QED
    BY <1>3, <2>1, <2>2, <2>3 DEF after, W, Stages
<1>7. CASE LogSent(d)
  <2>1. /\ Advance(d, "returned") /\ d.stage = "sent" /\ emails' = emails
        /\ logs' = [logs EXCEPT ![d.task].SENT = @ + 1]
    BY <1>7 DEF LogSent, AtStage, Row
  <2>2. W[after("returned")] = 0 /\ W[d] = (IF d.task = task THEN 1 ELSE 0)
    BY <1>1, <1>2, <2>1 DEF Stages
  <2>3. logs'[task].SENT = logs[task].SENT + (IF d.task = task THEN 1 ELSE 0)
    BY <1>3, <2>1
  <2> QED
    BY <1>3, <2>1, <2>2, <2>3 DEF after, W, Stages
<1>8. CASE LogFailed(d)
  <2>1. /\ Advance(d, "returned") /\ emails' = emails
        /\ logs' = [logs EXCEPT ![d.task].FAILED = @ + 1]
    BY <1>8 DEF LogFailed, Row
  <2>2. W[after("returned")] = 0 /\ W[d] \in {0, 1}
    BY <1>1, <1>2 DEF Stages
  <2>3. logs'[task].SENT = logs[task].SENT
    BY <1>3, <2>1
  <2> QED
    BY <1>3, <2>1, <2>2, <2>3 DEF after, W, Stages
<1> QED
  BY <1>4, <1>5, <1>6, <1>7, <1>8 DEF Moves

LEMMA SentStep == TypeOK /\ SentAccounted /\ [Next]_vars => SentAccounted'
<1> SUFFICES ASSUME TypeOK, SentAccounted, [Next]_vars, NEW task \in Tasks
             PROVE  \E n \in Nat : /\ Weighs(deliveries', Sent(task), n)
                                   /\ logs'[task].SENT + n <= emails'[task]
  BY DEF SentAccounted
<1> DEFINE W == Sent(task)
           Goal == \E m \in Nat : Weighs(deliveries', W, m) /\ logs'[task].SENT + m <= emails'[task]
<1>1. PICK n \in Nat : Weighs(deliveries, W, n) /\ logs[task].SENT + n <= emails[task]
  BY DEF SentAccounted
<1>2. /\ W \in [Deliveries -> Nat] /\ emails[task] \in Nat /\ emails'[task] \in Nat
      /\ logs[task].SENT \in Nat /\ logs'[task].SENT \in Nat
  <2>1. TypeOK'
    BY TypeStep
  <2>2. logs[task] \in [SENT: Nat, FAILED: Nat] /\ logs'[task] \in [SENT: Nat, FAILED: Nat]
    BY <2>1 DEF TypeOK
  <2> QED
    BY <2>1, <2>2, OpenTyped DEF TypeOK
<1>3. \A d \in BagToSet(deliveries) : d \in Deliveries
  BY DEF TypeOK, Deliveries, Stages
<1>4. CASE UNCHANGED vars
  BY <1>1, <1>4 DEF vars
<1>5. ASSUME NEW other \in Tasks, Enqueue(other) PROVE Goal
  <2> DEFINE e == Attempt(other, 0)
  <2>1. n + W[e] \in Nat /\ Weighs(deliveries', W, n + W[e])
    BY <1>1, <1>2, <1>5, EnqueueWeighs
  <2>2. UNCHANGED <<logs, emails>>
    BY <1>5 DEF Enqueue
  <2>3. W[e] = 0
    <3>1. e \in Deliveries /\ e.stage = "queued"
      BY Limits DEF Attempt, Deliveries, Stages
    <3> QED
      BY <3>1, OpenTyped
  <2> QED
    BY <1>1, <2>1, <2>2, <2>3
<1>6. ASSUME NEW d \in BagToSet(deliveries), Moves(d) PROVE Goal
  <2>1. PICK stage \in Stages :
           LET e == [d EXCEPT !.stage = stage]
           IN  /\ Advance(d, stage)
               /\ emails'[task] >= emails[task]
               /\ logs'[task].SENT + W[e] + emails[task] <= logs[task].SENT + W[d] + emails'[task]
    BY <1>6, MovesSent
  <2> DEFINE e == [d EXCEPT !.stage = stage]
             m == n - W[d] + W[e]
  <2>2. m \in Nat /\ Weighs(deliveries', W, m)
    BY <1>1, <1>2, <2>1, AdvanceWeighs
  <2>3. W[d] \in {0, 1} /\ W[e] \in {0, 1}
    <3>1. d \in Deliveries /\ e \in Deliveries
      BY <1>3 DEF Deliveries
    <3> QED
      BY <3>1, OpenTyped
  <2>4. logs'[task].SENT + m <= emails'[task]
    <3> HIDE DEF W
    <3> QED
      BY <1>1, <1>2, <2>1, <2>3
  <2> QED
    BY <2>2, <2>4
<1>7. ASSUME NEW d \in BagToSet(deliveries), Retry(d) PROVE Goal
  <2> DEFINE e == [d EXCEPT !.stage = "returned"]
             next == Attempt(d.task, d.retry + 1)
             m == n - W[d] + W[e] + W[next]
  <2>1. m \in Nat /\ Weighs(deliveries', W, m)
    BY <1>1, <1>2, <1>7, RetryWeighs
  <2>2. UNCHANGED <<logs, emails>>
    BY <1>7 DEF Retry
  <2>3. W[d] = 0 /\ W[e] = 0 /\ W[next] = 0
    <3>1. d \in Deliveries /\ e \in Deliveries /\ e.stage = "returned"
      BY <1>3 DEF Deliveries, Stages
    <3>2. next \in Deliveries /\ next.stage = "queued" /\ d.stage = "failing"
      BY <1>7, <3>1, Limits DEF Retry, RetriesLeft, AtStage, Attempt, Deliveries, Stages
    <3> HIDE DEF e, next
    <3> QED
      BY <3>1, <3>2, OpenTyped
  <2> QED
    BY <1>1, <2>1, <2>2, <2>3
<1>8. ASSUME NEW d \in BagToSet(deliveries), Acknowledge(d) PROVE Goal
  <2>1. n - W[d] \in Nat /\ Weighs(deliveries', W, n - W[d])
    BY <1>1, <1>2, <1>8, AcknowledgeWeighs
  <2>2. W[d] = 0
    BY <1>3, <1>8, OpenTyped DEF Acknowledge, AtStage
  <2>3. UNCHANGED <<logs, emails>>
    BY <1>8 DEF Acknowledge
  <2> QED
    BY <1>1, <2>1, <2>2, <2>3
<1>9. CASE DeleteEnrolment
  <2>1. logs'[task].SENT = 0 /\ UNCHANGED <<deliveries, emails>>
    BY <1>9 DEF DeleteEnrolment
  <2> QED
    BY <1>1, <1>2, <2>1
<1> QED
  BY <1>4, <1>5, <1>6, <1>7, <1>8, <1>9 DEF Next, Work, Execute, Moves

\* The log tells what happened: a SENT row stands for an e-mail of its own, and
\* a task has one verdict unless a worker died (_store_email_log, self.retry).
THEOREM Rows == Spec => []RowsTell
<1> DEFINE IInv == TypeOK /\ VerdictsBudgeted /\ SentAccounted
<1>1. Init => IInv
  BY TypeInit, VerdictsInit
<1>2. IInv /\ [Next]_vars => IInv'
  BY TypeStep, VerdictsStep, SentStep
<1>3. IInv => RowsTell
  <2> SUFFICES ASSUME IInv, NEW task \in Tasks
               PROVE  /\ logs[task].SENT <= emails[task]
                      /\ logs[task].SENT + logs[task].FAILED <= 1 + crashes
    BY DEF RowsTell, SentRowsAreTrue, OneVerdict
  <2>1. logs[task] \in [SENT: Nat, FAILED: Nat] /\ emails[task] \in Nat /\ crashes \in Nat
    BY Limits DEF TypeOK
  <2>2. PICK n \in Nat : logs[task].SENT + n <= emails[task]
    BY DEF SentAccounted
  <2> DEFINE due == IF task \in enqueued THEN 0 ELSE 1
  <2>3. PICK m \in Nat : logs[task].SENT + logs[task].FAILED + m + due <= 1 + crashes
    BY DEF VerdictsBudgeted
  <2>4. due \in Nat
    OBVIOUS
  <2> HIDE DEF due
  <2> QED
    BY <2>1, <2>2, <2>3, <2>4
<1> QED
  BY <1>1, <1>2, <1>3, PTL DEF Spec

-----------------------------------------------------------------------------
(* No task vanishes: while it has no row, one of its messages is not over. *)

Pending(task) == \E d \in BagToSet(deliveries) : d.task = task /\ d.stage # "returned"

LoggedOrPending ==
    \A task \in enqueued : enrolled /\ outages[task] = 0 =>
      logs[task].SENT + logs[task].FAILED > 0 \/ Pending(task)

\* Moving, publishing or acknowledging one delivery keeps the others.
LEMMA OthersStay ==
  ASSUME DeliveriesOK, NEW d
  PROVE  /\ \A e : BagToSet(Replace(d, e)) = BagToSet(BagRemove(deliveries, d)) \cup {e}
         /\ \A x \in BagToSet(deliveries) : x # d => x \in BagToSet(BagRemove(deliveries, d))
         /\ \A e, f : /\ f \in BagToSet(BagAdd(Replace(d, e), f))
                      /\ BagToSet(Replace(d, e)) \subseteq BagToSet(BagAdd(Replace(d, e), f))
  BY BagsChange DEF DeliveriesOK, Replace

LEMMA PendingStep == TypeOK /\ LoggedOrPending /\ [Next]_vars => LoggedOrPending'
<1> SUFFICES ASSUME TypeOK, LoggedOrPending, [Next]_vars, NEW task \in enqueued',
                    enrolled', outages'[task] = 0
             PROVE  logs'[task].SENT + logs'[task].FAILED > 0 \/ Pending(task)'
  BY DEF LoggedOrPending
<1> DEFINE Goal == logs'[task].SENT + logs'[task].FAILED > 0 \/ Pending(task)'
<1>1. DeliveriesOK /\ TypeOK' /\ task \in Tasks
  BY TypeStep, TypeOKSplit DEF TypeOK
<1>2. CASE UNCHANGED vars
  BY <1>2 DEF vars, LoggedOrPending, Pending
<1>3. ASSUME NEW other \in Tasks, Enqueue(other) PROVE Goal
  <2> DEFINE e == Attempt(other, 0)
  <2>1. /\ BagToSet(deliveries') = BagToSet(deliveries) \cup {e}
        /\ e.task = other /\ e.stage = "queued"
    BY <1>1, <1>3, BagsChange DEF Enqueue, DeliveriesOK, Attempt
  <2>2. enqueued' = enqueued \cup {other} /\ UNCHANGED <<logs, outages, enrolled>>
    BY <1>3 DEF Enqueue
  <2> HIDE DEF e
  <2> QED
    BY <2>1, <2>2 DEF Pending, LoggedOrPending
<1>4. ASSUME NEW d \in BagToSet(deliveries), Moves(d) PROVE Goal
  <2>0. d.task \in Tasks /\ crashes \in Nat /\ outages[task] \in Nat
        /\ logs \in [Tasks -> [SENT: Nat, FAILED: Nat]] /\ outages \in [Tasks -> 0..MaxOutages]
    BY <1>1, Limits DEF TypeOK
  <2>1. PICK stage \in Stages :
          /\ Advance(d, stage)
          /\ \/ stage # "returned"
             \/ LogSent(d) \/ LogFailed(d) \/ RetryIsLost(d) \/ LogFailedFails(d)
    BY <1>4 DEF Moves, Start, LoadContextFails, SendEmail, SendFails, LogSent, LogSentFails,
                RetryIsLost, LogFailed, LogFailedFails, WorkerDies, Redeliver, Stages
  <2>2. enqueued' = enqueued /\ enrolled' = enrolled
    BY <1>4 DEF Moves, Start, LoadContextFails, SendEmail, SendFails, LogSent, LogSentFails,
                RetryIsLost, LogFailed, LogFailedFails, WorkerDies
  <2>3. outages[task] = 0 /\ (RetryIsLost(d) \/ LogFailedFails(d) => d.task # task)
    <3>1. outages' = outages \/ Outage(d.task)
      BY <1>4 DEF Moves, Start, LoadContextFails, SendEmail, SendFails, LogSent, LogSentFails,
                  RetryIsLost, LogFailed, LogFailedFails, WorkerDies
    <3>2. outages'[task] \in {outages[task], outages[task] + 1}
      <4>1. ASSUME Outage(d.task)
            PROVE  outages'[task] = IF d.task = task THEN outages[task] + 1 ELSE outages[task]
        BY <2>0, <4>1 DEF Outage
      <4> QED
        BY <3>1, <4>1
    <3>3. RetryIsLost(d) \/ LogFailedFails(d) => Outage(d.task)
      BY <2>2 DEF RetryIsLost, LogFailedFails
    <3>4. Outage(d.task) => outages'[d.task] = outages[d.task] + 1
      BY <2>0 DEF Outage
    <3> QED
      BY <2>0, <3>2, <3>3, <3>4
  <2>4. /\ logs[task].SENT + logs[task].FAILED > 0 => logs'[task].SENT + logs'[task].FAILED > 0
        /\ LogSent(d) \/ LogFailed(d) =>
             d.task # task \/ logs'[task].SENT + logs'[task].FAILED > 0
    <3>1. logs' = logs \/ LogSent(d) \/ LogFailed(d)
      BY <1>4 DEF Moves, Start, LoadContextFails, SendEmail, SendFails, LogSentFails,
                  RetryIsLost, LogFailedFails, WorkerDies
    <3>2. LogSent(d) \/ LogFailed(d) =>
            \E status \in {"SENT", "FAILED"} : logs' = [logs EXCEPT ![d.task][status] = @ + 1]
      BY DEF LogSent, LogFailed, Row
    <3>3. logs[task] \in [SENT: Nat, FAILED: Nat] /\ logs[d.task] \in [SENT: Nat, FAILED: Nat]
      BY <1>1, <2>0
    <3>4. ASSUME NEW status \in {"SENT", "FAILED"}, logs' = [logs EXCEPT ![d.task][status] = @ + 1]
          PROVE  /\ d.task # task => logs'[task] = logs[task]
                 /\ d.task = task => logs'[task].SENT + logs'[task].FAILED > 0
      BY <1>1, <2>0, <3>3, <3>4
    <3> QED
      BY <3>1, <3>2, <3>4
  <2>6. SUFFICES ASSUME Pending(task), ~ (logs'[task].SENT + logs'[task].FAILED > 0)
                 PROVE  Pending(task)'
    BY <2>2, <2>3, <2>4 DEF LoggedOrPending
  <2> DEFINE e == [d EXCEPT !.stage = stage]
  <2>7. BagToSet(deliveries') = BagToSet(BagRemove(deliveries, d)) \cup {e}
    BY <1>1, <2>1, OthersStay DEF Advance
  <2>8. PICK x \in BagToSet(deliveries) : x.task = task /\ x.stage # "returned"
    BY <2>6 DEF Pending
  <2>9. CASE x # d
    BY <1>1, <2>7, <2>8, <2>9, OthersStay DEF Pending
  <2>10. CASE x = d
    <3>1. stage # "returned"
      BY <2>1, <2>3, <2>4, <2>6, <2>8, <2>10
    <3>2. e.task = task /\ e.stage = stage
      BY <1>1, <2>8, <2>10 DEF DeliveriesOK, Deliveries
    <3> HIDE DEF e
    <3> QED
      BY <2>7, <3>1, <3>2 DEF Pending
  <2> QED
    BY <2>9, <2>10
<1>5. ASSUME NEW d \in BagToSet(deliveries), Retry(d) PROVE Goal
  <2> DEFINE e == [d EXCEPT !.stage = "returned"]
             next == Attempt(d.task, d.retry + 1)
  <2>1. deliveries' = BagAdd(Replace(d, e), next) /\ UNCHANGED <<logs, outages, enrolled, enqueued>>
    BY <1>5 DEF Retry
  <2>2. next.task = d.task /\ next.stage = "queued"
    BY DEF Attempt
  <2> HIDE DEF e, next
  <2>3. \A x \in BagToSet(deliveries) : x # d => x \in BagToSet(deliveries')
    <3>1. BagToSet(Replace(d, e)) = BagToSet(BagRemove(deliveries, d)) \cup {e}
      BY <1>1, OthersStay
    <3>2. BagToSet(Replace(d, e)) \subseteq BagToSet(deliveries')
      BY <1>1, <2>1, OthersStay
    <3>3. \A x \in BagToSet(deliveries) : x # d => x \in BagToSet(BagRemove(deliveries, d))
      BY <1>1, OthersStay
    <3> QED
      BY <3>1, <3>2, <3>3
  <2>4. next \in BagToSet(deliveries')
    BY <1>1, <2>1, OthersStay
  <2> QED
    BY <2>1, <2>2, <2>3, <2>4 DEF LoggedOrPending, Pending
<1>6. ASSUME NEW d \in BagToSet(deliveries), Acknowledge(d) PROVE Goal
  <2>1. /\ deliveries' = BagRemove(deliveries, d) /\ d.stage = "returned"
        /\ UNCHANGED <<logs, outages, enrolled, enqueued>>
    BY <1>6 DEF Acknowledge, AtStage
  <2> QED
    BY <1>1, <2>1, OthersStay DEF LoggedOrPending, Pending
<1>7. CASE DeleteEnrolment
  BY <1>7 DEF DeleteEnrolment
<1> QED
  BY <1>2, <1>3, <1>4, <1>5, <1>6, <1>7 DEF Next, Work, Execute, Moves

\* A task that is over has left a row, unless a request was refused or the
\* enrolment is gone, however many of its deliveries crashed or were repeated.
THEOREM Finishing == Spec => []FinishedIsLogged
<1>1. Init => LoggedOrPending
  BY DEF Init, LoggedOrPending
<1>2. TypeOK /\ LoggedOrPending => FinishedIsLogged
  BY DEF LoggedOrPending, FinishedIsLogged, Finished, Pending
<1> QED
  BY <1>1, <1>2, TypeInit, TypeStep, PendingStep, PTL DEF Spec

\* What DecisionAssumption says of the constants.
Bounds == IsFiniteSet(Requests) /\ MaxRequests \in Nat /\ MaxFailures \in Nat

LEMMA BoundsHold == Bounds
  BY DecisionAssumption DEF Bounds

USE DEF Bounds

\* Requests that are still to start their letter.
Writing == {r \in Requests : requests[r].step = "write"}

\* Every letter belongs to a request that was begun.
Counted == Cardinality(Writing) + Len(letters) <= begun

\* A request that is about to commit a decision has started its letter.
Promised ==
    \A r \in Requests :
        /\ requests[r].step # "idle" => requests[r].wanted \in Decisions
        /\ Holds(r) => \E i \in DOMAIN letters : letters[i].tells = requests[r].wanted

\* The rows of a letter follow from how far it got.
Staged ==
    /\ \A i \in 1..MaxRequests :
          /\ rows[i] \in {{}, {"SENT"}, {"FAILED"}}
          /\ i \notin DOMAIN letters => rows[i] = {}
    /\ \A i \in DOMAIN letters :
          /\ letters[i].stage \in {"started", "sent", "failed"} => rows[i] = {}
          /\ letters[i].stage = "sent" \/ "SENT" \in rows[i] => letters[i].accepted
          /\ letters[i].stage = "done" /\ exists => rows[i] # {}

LetterRecords ==
    [tells : Decisions, accepted : BOOLEAN,
     stage : {"started", "sent", "failed", "done", "lost"}]

DecisionInv == DecisionTypeOK /\ DecisionAnnounced /\ Counted /\ Promised /\ Staged

-----------------------------------------------------------------------------
(* Sets of requests, and sequences of letters.                             *)

LEMMA WritingIsFinite ==
  ASSUME Bounds
  PROVE 
  /\ IsFiniteSet(Writing) /\ Cardinality(Writing) \in Nat
  /\ IsFiniteSet(Writing') /\ Cardinality(Writing') \in Nat
<1>1. Writing \subseteq Requests /\ Writing' \subseteq Requests
  BY DEF Writing
<1> QED
  BY <1>1, FS_Subset, FS_CardinalityType

LEMMA WritingGrows ==
  ASSUME Bounds, NEW r \in Requests, Writing' = Writing \cup {r}
  PROVE  Cardinality(Writing') <= Cardinality(Writing) + 1
  BY WritingIsFinite, FS_AddElement

LEMMA WritingShrinks ==
  ASSUME Bounds, Writing' \subseteq Writing
  PROVE  Cardinality(Writing') <= Cardinality(Writing)
  BY WritingIsFinite, FS_Subset

LEMMA WritingLoses ==
  ASSUME Bounds, NEW r \in Writing, Writing' = Writing \ {r}
  PROVE  Cardinality(Writing') = Cardinality(Writing) - 1
  BY WritingIsFinite, FS_RemoveElement

LEMMA LettersIndices ==
  ASSUME Bounds
  PROVE 
  DecisionTypeOK => /\ DOMAIN letters = 1..Len(letters) /\ Len(letters) \in Nat
            /\ DOMAIN letters \subseteq 1..MaxRequests
  BY DEF DecisionTypeOK

LEMMA LettersTyped ==
  ASSUME Bounds
  PROVE 
  DecisionTypeOK => /\ letters \in Seq(LetterRecords)
            /\ \A k \in DOMAIN letters : letters[k] \in LetterRecords
<1> SUFFICES ASSUME DecisionTypeOK PROVE letters \in Seq(LetterRecords)
  OBVIOUS
<1> QED
  BY DEF DecisionTypeOK, LetterRecords

\* A step that rewrites letters, and starts none.
LEMMA LettersRewritten ==
  ASSUME Bounds, DecisionTypeOK, letters' = [k \in DOMAIN letters |-> letters'[k]],
         \A k \in DOMAIN letters : letters'[k] \in LetterRecords
  PROVE  /\ letters' \in Seq(LetterRecords) /\ Len(letters') = Len(letters)
         /\ DOMAIN letters' = DOMAIN letters
<1>1. letters' = [k \in 1..Len(letters) |-> letters'[k]] /\ Len(letters) \in Nat
  BY LettersIndices
<1>2. \A k \in 1..Len(letters) : letters'[k] \in LetterRecords
  BY LettersIndices
<1> QED
  BY <1>1, <1>2, LettersIndices


-----------------------------------------------------------------------------
(* The initial states.                                                     *)

LEMMA InitDecisionInv ==
  ASSUME Bounds
  PROVE  DecisionInit => DecisionInv
<1> SUFFICES ASSUME DecisionInit PROVE DecisionInv
  OBVIOUS
<1>1. DecisionTypeOK
  BY DEF DecisionInit, DecisionTypeOK, Idle
<1>2. Writing = {}
  BY DEF DecisionInit, Writing, Idle
<1>3. Counted
  BY <1>2, FS_EmptySet DEF DecisionInit, Counted
<1>4. Promised /\ Staged /\ DecisionAnnounced
  BY DEF DecisionInit, Promised, Staged, DecisionAnnounced, Holds, Idle
<1> QED
  BY <1>1, <1>3, <1>4 DEF DecisionInv


-----------------------------------------------------------------------------
(* The requests.                                                           *)

\* A step of request r, which writes requests[r] alone.
LEMMA OthersWait ==
  ASSUME Bounds, NEW r \in Requests, \A o \in Requests \ {r} : requests'[o] = requests[o]
  PROVE  /\ requests'[r].step = "write" => Writing' = Writing \cup {r}
         /\ requests'[r].step # "write" => Writing' = Writing \ {r}
         /\ \A o \in Requests \ {r} : Holds(o)' = Holds(o)
  BY DEF Writing, Holds, Changes

LEMMA ReadStep ==
  ASSUME Bounds, DecisionInv, NEW r \in Requests, NEW d \in Decisions, Read(r, d)
  PROVE  DecisionInv'
<1> USE DEF DecisionInv
<1> DEFINE q == [step |-> "write", wanted |-> d, previous |-> decision]
<1>1. DecisionTypeOK'
  BY DEF Read, DecisionTypeOK
<1>2. /\ requests'[r] = q
      /\ \A o \in Requests \ {r} : requests'[o] = requests[o]
  BY DEF Read, DecisionTypeOK
<1>3. Writing' = Writing \cup {r}
  BY <1>2, OthersWait
<1>4. Counted'
  <2>1. Cardinality(Writing') <= Cardinality(Writing) + 1
    BY <1>3, WritingGrows
  <2>2. letters' = letters /\ begun' = begun + 1 /\ begun \in Nat
    BY DEF Read, DecisionTypeOK
  <2> QED
    BY <2>1, <2>2, WritingIsFinite, LettersIndices DEF Counted
<1>5. Promised'
  <2>1. requests'[r].wanted \in Decisions /\ ~Holds(r)'
    BY <1>2 DEF Holds
  <2>2. \A o \in Requests \ {r} : Holds(o)' = Holds(o)
    BY <1>2, OthersWait
  <2> QED
    BY <1>2, <2>1, <2>2 DEF Read, Promised
<1>6. Staged' /\ DecisionAnnounced'
  BY DEF Read, Staged, DecisionAnnounced
<1> QED
  BY <1>1, <1>4, <1>5, <1>6

LEMMA WriteStep ==
  ASSUME Bounds, DecisionInv, NEW r \in Requests, Write(r)
  PROVE  DecisionInv'
<1> USE DEF DecisionInv
<1> DEFINE q == requests[r]
           n == Len(letters) + 1
<1>1. /\ r \in Writing /\ q.wanted \in Decisions
      /\ requests' = [requests EXCEPT ![r] = [q EXCEPT !.step = "commit"]]
      /\ requests'[r] = [q EXCEPT !.step = "commit"]
      /\ \A o \in Requests \ {r} : requests'[o] = requests[o]
  BY DEF Write, Writing, Promised, DecisionTypeOK
<1>6. requests'[r].step = "commit" /\ requests'[r].wanted = q.wanted
  BY <1>1 DEF DecisionTypeOK
<1>7. [q EXCEPT !.step = "commit"] \in [step : {"idle", "write", "commit"},
                                       wanted : Decisions \cup {"PENDING"},
                                       previous : Decisions \cup {"PENDING"}]
  BY DEF DecisionTypeOK
<1>2. /\ Writing' = Writing \ {r}
      /\ \A o \in Requests \ {r} : Holds(o)' = Holds(o)
  BY <1>1, <1>6, OthersWait
<1>3. Cardinality(Writing') = Cardinality(Writing) - 1
  BY <1>1, <1>2, WritingLoses
<1>4. CASE Announces(q)
  <2>1. letters' = Append(letters, Letter(q.wanted))
    BY <1>4 DEF Write
  <2>2. Letter(q.wanted) \in [tells : Decisions, accepted : BOOLEAN,
                              stage : {"started", "sent", "failed", "done", "lost"}]
    BY <1>1 DEF Letter
  <2>3. letters \in Seq([tells : Decisions, accepted : BOOLEAN,
                         stage : {"started", "sent", "failed", "done", "lost"}])
    BY DEF DecisionTypeOK
  <2>4. /\ DOMAIN letters' = 1..n /\ Len(letters') = n
        /\ \A i \in DOMAIN letters : letters'[i] = letters[i]
        /\ letters'[n] = Letter(q.wanted)
        /\ letters' \in Seq([tells : Decisions, accepted : BOOLEAN,
                             stage : {"started", "sent", "failed", "done", "lost"}])
    BY <2>1, <2>2, <2>3
  <2>5. Counted'
    BY <1>3, <2>4, WritingIsFinite, LettersIndices DEF Write, Counted, DecisionTypeOK
  <2>6. Len(letters') <= begun
    BY <2>4, <1>3, WritingIsFinite, LettersIndices DEF Counted, DecisionTypeOK
  <2>7. DecisionTypeOK'
    <3>1. requests' \in [Requests -> [step : {"idle", "write", "commit"},
                                      wanted : Decisions \cup {"PENDING"},
                                      previous : Decisions \cup {"PENDING"}]]
      BY <1>1, <1>7 DEF DecisionTypeOK
    <3> QED
      BY <3>1, <2>4, <2>6 DEF Write, DecisionTypeOK
  <2>8. Promised'
    <3>2. \E i \in DOMAIN letters' : letters'[i].tells = q.wanted
      BY <2>4, LettersIndices DEF Letter
    <3>3. \A i \in DOMAIN letters : i \in DOMAIN letters'
      BY <2>4, LettersIndices
    <3> QED
      BY <1>1, <1>2, <1>6, <2>4, <3>2, <3>3 DEF Promised
  <2>9. Staged'
    <3>1. n \in 1..MaxRequests /\ n \notin DOMAIN letters
      BY <2>6, <2>4, LettersIndices DEF DecisionTypeOK
    <3>2. rows[n] = {} /\ rows' = rows /\ exists' = exists
      BY <3>1 DEF Staged, Write
    <3>3. \A i \in DOMAIN letters' : i \in DOMAIN letters \/ i = n
      BY <2>4, LettersIndices
    <3>4. \A i \in DOMAIN letters : i \in DOMAIN letters'
      BY <2>4, LettersIndices
    <3> QED
      BY <2>4, <3>2, <3>3, <3>4 DEF Staged, Letter
  <2>10. DecisionAnnounced'
    BY <2>4, LettersIndices DEF Write, DecisionAnnounced
  <2> QED
    BY <2>5, <2>7, <2>8, <2>9, <2>10
<1>5. CASE ~Announces(q)
  <2>1. letters' = letters
    BY <1>5 DEF Write
  <2>2. Counted'
    BY <1>3, <2>1, WritingIsFinite, LettersIndices DEF Write, Counted, DecisionTypeOK
  <2>6. DecisionTypeOK'
    <3>1. requests' \in [Requests -> [step : {"idle", "write", "commit"},
                                      wanted : Decisions \cup {"PENDING"},
                                      previous : Decisions \cup {"PENDING"}]]
      BY <1>1, <1>7 DEF DecisionTypeOK
    <3> QED
      BY <3>1, <2>1 DEF Write, DecisionTypeOK
  <2>3. ~Holds(r)' /\ requests'[r].wanted = q.wanted
    BY <1>1, <1>5 DEF DecisionTypeOK, Holds, Changes, Announces
  <2>4. Promised'
    BY <1>1, <1>2, <1>6, <2>1, <2>3 DEF Promised
  <2>5. Staged' /\ DecisionAnnounced'
    BY <2>1 DEF Write, Staged, DecisionAnnounced
  <2> QED
    BY <2>2, <2>4, <2>5, <2>6
<1> QED
  BY <1>4, <1>5

\* A request that is over, with or without its decision.
LEMMA EndStep ==
  ASSUME Bounds, DecisionInv, NEW r \in Requests,
         WriteMisses(r) \/ Commit(r) \/ Abort(r)
  PROVE  DecisionInv'
<1> USE DEF DecisionInv
<1>1. /\ requests' = [requests EXCEPT ![r] = Idle]
      /\ UNCHANGED <<exists, letters, rows, begun>>
  BY DEF WriteMisses, Commit, Abort
<1>10. /\ requests'[r] = Idle /\ Idle.step = "idle"
       /\ \A o \in Requests \ {r} : requests'[o] = requests[o]
  BY <1>1 DEF DecisionTypeOK, Idle
<1>2. /\ Writing' = Writing \ {r}
      /\ \A o \in Requests \ {r} : Holds(o)' = Holds(o)
  BY <1>10, OthersWait
<1>3. Counted'
  <2>1. Cardinality(Writing') <= Cardinality(Writing)
    BY <1>2, WritingShrinks
  <2> QED
    BY <1>1, <2>1, WritingIsFinite, LettersIndices DEF Counted, DecisionTypeOK
<1>4. failures' \in 0..MaxFailures
  BY DEF DecisionTypeOK, WriteMisses, Commit, Abort, Failure
<1>5. decision' = decision \/ (Holds(r) /\ decision' = requests[r].wanted)
  BY DEF WriteMisses, Commit, Abort, Holds
<1>6. DecisionTypeOK'
  BY <1>1, <1>4, <1>5 DEF DecisionTypeOK, Idle
<1>7. Promised'
  <2>1. requests'[r].step = "idle" /\ ~Holds(r)'
    BY <1>10 DEF Holds
  <2> QED
    BY <1>1, <1>2, <1>10, <2>1 DEF Promised
<1>8. Staged'
  BY <1>1 DEF Staged
<1>9. DecisionAnnounced'
  BY <1>1, <1>5 DEF DecisionAnnounced, Promised
<1> QED
  BY <1>3, <1>6, <1>7, <1>8, <1>9

-----------------------------------------------------------------------------
(* The letters, the deletion and the restart.                              *)

\* One letter gets a stage, and perhaps another verdict of the provider.
LEMMA LetterMoved ==
  ASSUME Bounds, DecisionTypeOK, NEW i \in DOMAIN letters,
         NEW s \in {"started", "sent", "failed", "done", "lost"}, NEW a \in BOOLEAN,
         letters' = [letters EXCEPT ![i] = [letters[i] EXCEPT !.stage = s, !.accepted = a]]
  PROVE  /\ letters' \in Seq(LetterRecords) /\ Len(letters') = Len(letters)
         /\ DOMAIN letters' = DOMAIN letters
         /\ \A k \in DOMAIN letters : letters'[k].tells = letters[k].tells
         /\ \A k \in DOMAIN letters \ {i} : letters'[k] = letters[k]
         /\ letters'[i].stage = s /\ letters'[i].accepted = a
<1> DEFINE l == letters[i]
           m == [l EXCEPT !.stage = s, !.accepted = a]
<1>1. l \in LetterRecords
  BY LettersTyped
<1>2. m \in LetterRecords /\ m.stage = s /\ m.accepted = a /\ m.tells = l.tells
  BY <1>1 DEF LetterRecords
<1> HIDE DEF m
<1>3. letters' = [letters EXCEPT ![i] = m]
  BY DEF m
<1>4. /\ letters' = [k \in DOMAIN letters |-> letters'[k]]
      /\ letters'[i] = m /\ \A k \in DOMAIN letters \ {i} : letters'[k] = letters[k]
  BY <1>3
<1>5. \A k \in DOMAIN letters : letters'[k] \in LetterRecords
  BY <1>2, <1>4, LettersTyped
<1>6. \A k \in DOMAIN letters : letters'[k].tells = letters[k].tells
  BY <1>2, <1>4
<1> QED
  BY <1>2, <1>4, <1>5, <1>6, LettersRewritten

\* What a letter's own step does to it and to its row.
Outcome(i, s, a, row) ==
    /\ letters' = [letters EXCEPT ![i] = [letters[i] EXCEPT !.stage = s, !.accepted = a]]
    /\ rows' = [rows EXCEPT ![i] = row]
    /\ s \in {"sent", "failed", "done", "lost"} /\ a \in BOOLEAN
    /\ row \in {{}, {"SENT"}, {"FAILED"}}
    /\ s \in {"started", "sent", "failed"} => row = {}
    /\ s = "sent" \/ "SENT" \in row => a
    /\ s = "done" => row # {}

LEMMA DispatchOutcome ==
  ASSUME Bounds, DecisionInv, NEW i \in DOMAIN letters, Dispatch(i)
  PROVE  \E s, a, row : Outcome(i, s, a, row)
<1> DEFINE l == letters[i]
<1>1. /\ l \in LetterRecords /\ l.accepted \in BOOLEAN /\ i \in 1..MaxRequests
      /\ rows \in [1..MaxRequests -> SUBSET {"SENT", "FAILED"}]
  BY LettersTyped, LettersIndices DEF DecisionInv, DecisionTypeOK, LetterRecords
<1>2. rows[i] = {}
  <2>1. l.stage \in {"started", "sent", "failed"}
    BY DEF Dispatch, Send, LetterFails, LogLetterSent,
           LogLetterSentFails, LogLetterFailed, LogLetterFailedFails
  <2> QED
    BY <2>1 DEF DecisionInv, Staged
<1>3. rows = [rows EXCEPT ![i] = {}]
  BY <1>1, <1>2
<1>4. l.stage = "sent" => l.accepted = TRUE
  BY <1>1 DEF DecisionInv, Staged
<1>5. \A s : [letters EXCEPT ![i].stage = s] =
              [letters EXCEPT ![i] = [l EXCEPT !.stage = s, !.accepted = l.accepted]]
  <2> TAKE s
  <2>1. [l EXCEPT !.stage = s] = [l EXCEPT !.stage = s, !.accepted = l.accepted]
    BY <1>1 DEF LetterRecords
  <2>2. [letters EXCEPT ![i].stage = s] = [letters EXCEPT ![i] = [l EXCEPT !.stage = s]]
    OBVIOUS
  <2> QED
    BY <2>1, <2>2
<1>6. \A s, a : [letters EXCEPT ![i].stage = s, ![i].accepted = a] =
                [letters EXCEPT ![i] = [l EXCEPT !.stage = s, !.accepted = a]]
  OBVIOUS
<1>7. CASE Send(i)
  <2>1. Outcome(i, "sent", TRUE, {})
    BY <1>3, <1>6, <1>7 DEF Send, Outcome
  <2> QED
    BY <2>1
<1>8. CASE LetterFails(i)
  <2>1. PICK a \in BOOLEAN : letters' = [letters EXCEPT ![i].stage = "failed", ![i].accepted = a]
    BY <1>8 DEF LetterFails
  <2>2. Outcome(i, "failed", a, {})
    BY <1>3, <1>6, <1>8, <2>1 DEF LetterFails, Outcome
  <2> QED
    BY <2>2
<1>9. CASE LogLetterSent(i)
  <2>1. Outcome(i, "done", l.accepted, {"SENT"})
    BY <1>1, <1>2, <1>4, <1>5, <1>9 DEF LogLetterSent, Log, Move, Outcome
  <2> QED
    BY <2>1
<1>10. CASE LogLetterSentFails(i)
  <2>1. Outcome(i, "failed", l.accepted, {})
    BY <1>1, <1>3, <1>5, <1>10 DEF LogLetterSentFails, Move, Outcome
  <2> QED
    BY <2>1
<1>11. CASE LogLetterFailed(i)
  <2>1. Outcome(i, "done", l.accepted, {"FAILED"})
    BY <1>1, <1>2, <1>5, <1>11 DEF LogLetterFailed, Log, Move, Outcome
  <2> QED
    BY <2>1
<1>12. CASE LogLetterFailedFails(i)
  <2>1. Outcome(i, "lost", l.accepted, {})
    BY <1>1, <1>3, <1>5, <1>12 DEF LogLetterFailedFails, Move, Outcome
  <2> QED
    BY <2>1
<1> QED
  BY <1>7, <1>8, <1>9, <1>10, <1>11, <1>12 DEF Dispatch

LEMMA LetterStep ==
  ASSUME Bounds, DecisionInv, NEW i \in DOMAIN letters, Dispatch(i)
  PROVE  DecisionInv'
<1> USE DEF DecisionInv
<1>1. PICK s, a, row : Outcome(i, s, a, row)
  BY DispatchOutcome
<1>2. UNCHANGED <<exists, decision, requests, begun>> /\ failures' \in 0..MaxFailures
  <2>1. failures \in 0..MaxFailures /\ MaxFailures \in Nat
    BY DEF DecisionTypeOK
  <2>2. failures' = failures \/ Failure
    BY DEF Dispatch, Send, LetterFails, LogLetterSent,
           LogLetterSentFails, LogLetterFailed, LogLetterFailedFails
  <2>3. failures' \in 0..MaxFailures
    BY <2>1, <2>2 DEF Failure
  <2> QED
    BY <2>3
    DEF Dispatch, Send, LetterFails, LogLetterSent,
           LogLetterSentFails, LogLetterFailed, LogLetterFailedFails
<1>3. /\ letters' \in Seq(LetterRecords) /\ Len(letters') = Len(letters)
      /\ DOMAIN letters' = DOMAIN letters
      /\ \A k \in DOMAIN letters : letters'[k].tells = letters[k].tells
      /\ \A k \in DOMAIN letters \ {i} : letters'[k] = letters[k]
      /\ letters'[i].stage = s /\ letters'[i].accepted = a
  <2>1. s \in {"started", "sent", "failed", "done", "lost"} /\ a \in BOOLEAN
    BY <1>1 DEF Outcome
  <2> QED
    BY <1>1, <2>1, LetterMoved DEF Outcome
<1>4. /\ rows' \in [1..MaxRequests -> SUBSET {"SENT", "FAILED"}]
      /\ rows'[i] = row /\ \A k \in 1..MaxRequests \ {i} : rows'[k] = rows[k]
  <2>1. i \in 1..MaxRequests /\ rows \in [1..MaxRequests -> SUBSET {"SENT", "FAILED"}]
    BY LettersIndices DEF DecisionTypeOK
  <2>2. rows' = [rows EXCEPT ![i] = row] /\ row \in SUBSET {"SENT", "FAILED"}
    BY <1>1 DEF Outcome
  <2> QED
    BY <2>1, <2>2
<1>5. DecisionTypeOK'
  <2>1. letters' \in Seq([tells : Decisions, accepted : BOOLEAN,
                          stage : {"started", "sent", "failed", "done", "lost"}])
    BY <1>3 DEF LetterRecords
  <2> QED
    BY <1>2, <1>3, <1>4, <2>1 DEF DecisionTypeOK
<1>6. Counted'
  BY <1>2, <1>3 DEF Counted, Writing
<1>7. Promised' /\ DecisionAnnounced'
  BY <1>2, <1>3 DEF Promised, DecisionAnnounced, Holds, Changes
<1>8. Staged'
  <2>1. \A k \in DOMAIN letters : k \in 1..MaxRequests
    BY LettersIndices
  <2>2. /\ row \in {{}, {"SENT"}, {"FAILED"}}
        /\ s \in {"started", "sent", "failed"} => row = {}
        /\ s = "sent" \/ "SENT" \in row => a
        /\ s = "done" => row # {}
    BY <1>1 DEF Outcome
  <2> QED
    BY <1>2, <1>3, <1>4, <2>1, <2>2 DEF Staged
<1> QED
  BY <1>5, <1>6, <1>7, <1>8

LEMMA DeletionStep ==
  ASSUME Bounds, DecisionInv, DeleteCandidate
  PROVE  DecisionInv'
<1> USE DEF DecisionInv
<1>1. /\ UNCHANGED <<decision, requests, letters, begun, failures>> /\ exists' = FALSE
      /\ rows' = [i \in 1..MaxRequests |-> {}]
  BY DEF DeleteCandidate, DecisionTypeOK
<1>2. DecisionTypeOK'
  BY <1>1 DEF DecisionTypeOK
<1>3. Counted' /\ Promised' /\ DecisionAnnounced'
  BY <1>1
  DEF Counted, Writing, Promised, DecisionAnnounced, Holds, Changes
<1>4. Staged'
  BY <1>1, LettersIndices DEF Staged
<1> QED
  BY <1>2, <1>3, <1>4

LEMMA RestartStep ==
  ASSUME Bounds, DecisionInv, Restart
  PROVE  DecisionInv'
<1> USE DEF DecisionInv
<1>1. /\ UNCHANGED <<exists, decision, rows, begun>> /\ failures' \in 0..MaxFailures
      /\ requests' = [r \in Requests |-> Idle] /\ Idle.step = "idle"
  BY DEF Restart, Failure, DecisionTypeOK, Idle
<1>2. \A k \in DOMAIN letters :
         /\ letters'[k].tells = letters[k].tells
         /\ letters'[k].accepted = letters[k].accepted
         /\ letters'[k].stage = IF letters[k].stage = "done" THEN "done" ELSE "lost"
         /\ letters'[k] \in LetterRecords
  <2> TAKE k \in DOMAIN letters
  <2> DEFINE l == letters[k]
  <2>1. l \in LetterRecords
    BY LettersTyped
  <2>2. letters'[k] = [l EXCEPT !.stage = IF l.stage = "done" THEN l.stage ELSE "lost"]
    BY DEF Restart
  <2> QED
    BY <2>1, <2>2 DEF LetterRecords
<1>3. /\ letters' \in Seq(LetterRecords) /\ Len(letters') = Len(letters)
      /\ DOMAIN letters' = DOMAIN letters
  <2>1. letters' = [k \in DOMAIN letters |-> letters'[k]]
    BY DEF Restart
  <2> QED
    BY <1>2, <2>1, LettersRewritten
<1>4. DecisionTypeOK'
  <2>1. letters' \in Seq([tells : Decisions, accepted : BOOLEAN,
                          stage : {"started", "sent", "failed", "done", "lost"}])
    BY <1>3 DEF LetterRecords
  <2> QED
    BY <1>1, <1>3, <2>1 DEF DecisionTypeOK, Idle
<1>5. Counted'
  <2>1. Writing' \subseteq Writing
    BY <1>1 DEF Writing
  <2>2. Cardinality(Writing') <= Cardinality(Writing)
    BY <2>1, WritingShrinks
  <2> QED
    BY <1>1, <1>3, <2>2, WritingIsFinite, LettersIndices DEF Counted, DecisionTypeOK
<1>6. Promised' /\ DecisionAnnounced'
  BY <1>1, <1>2, <1>3 DEF Promised, DecisionAnnounced, Holds
<1>7. Staged'
  BY <1>1, <1>2, <1>3, LettersIndices DEF Staged
<1> QED
  BY <1>4, <1>5, <1>6, <1>7

-----------------------------------------------------------------------------
(* The theorem.                                                            *)

LEMMA NextDecisionInv ==
  ASSUME Bounds
  PROVE  DecisionInv /\ [DecisionNext]_decisionVars => DecisionInv'
<1> SUFFICES ASSUME DecisionInv, [DecisionNext]_decisionVars PROVE DecisionInv'
  OBVIOUS
<1>1. ASSUME NEW r \in Requests, Decide(r) PROVE DecisionInv'
  BY <1>1, ReadStep, WriteStep, EndStep DEF Decide
<1>2. CASE UNCHANGED decisionVars
  BY <1>2
  DEF decisionVars, DecisionInv, DecisionTypeOK, DecisionAnnounced, Counted,
      Promised, Staged, Writing, Holds, Changes
<1> QED
  BY <1>1, <1>2, LetterStep, DeletionStep, RestartStep DEF DecisionNext

\* One row at most, of those a letter may have.
LEMMA DecisionInvTells ==
  ASSUME Bounds
  PROVE  DecisionInv => LettersTell
<1> SUFFICES ASSUME DecisionInv PROVE LettersLogged
  BY DEF DecisionInv, LettersTell
<1>1. \A i \in DOMAIN letters : i \in 1..MaxRequests
  BY LettersIndices DEF DecisionInv
<1>2. Cardinality({}) <= 1 /\ Cardinality({"SENT"}) <= 1 /\ Cardinality({"FAILED"}) <= 1
  <2>1. Cardinality({"SENT"}) = 1 /\ Cardinality({"FAILED"}) = 1
    BY FS_Singleton
  <2> QED
    BY <2>1, FS_EmptySet
<1>3. \A i \in DOMAIN letters : Cardinality(rows[i]) <= 1
  BY <1>1, <1>2 DEF DecisionInv, Staged
<1> QED
  BY <1>3 DEF DecisionInv, Staged, LettersLogged

\* However many requests overlap, are refused or cut off by a restart: a
\* decision that is stored was announced by a letter, and a letter leaves one
\* row at most, one that tells the truth, and none only if it got lost.
THEOREM Announcement == DecisionSpec => []LettersTell
<1>1. Bounds
  BY BoundsHold
<1>2. DecisionInit => DecisionInv
  BY <1>1, InitDecisionInv
<1>3. DecisionInv /\ [DecisionNext]_decisionVars => DecisionInv'
  BY <1>1, NextDecisionInv
<1>4. DecisionInv => LettersTell
  BY <1>1, DecisionInvTells
<1> QED
  BY <1>2, <1>3, <1>4, PTL DEF DecisionSpec

=============================================================================
