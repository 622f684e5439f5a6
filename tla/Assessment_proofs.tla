------------------------- MODULE Assessment_proofs -------------------------
(***************************************************************************)
(* Proofs about Assessment for every value of its constants.               *)
(***************************************************************************)
EXTENDS Assessment, FiniteSetTheorems, TLAPS

USE AssessmentAssumption

\* What the rows of the requests have to do with one another: a request that
\* has not begun dispatched nothing, one that has asks for a status.
RequestsCoherent ==
    \A r \in Requests :
      /\ updates[r] = Idle => dispatches[r].state = "none"
      /\ updates[r].state = "open" => updates[r].new # "ABSENT"

\* Requests whose dispatch is still to queue an e-mail to candidate c.
Pending(c) ==
    {r \in Requests : \/ dispatches[r].state = "queued"
                      \/ dispatches[r].state = "running" /\ c \in dispatches[r].todo}

\* E-mails queued and e-mails to come, together, are accounted for.
Outstanding ==
    \A c \in Candidates :
      told[c] + Cardinality(Pending(c)) <= crashes + Cardinality(Cancelling)

IndInv == TypeOK /\ RequestsCoherent /\ Outstanding

-----------------------------------------------------------------------------
(* The initial states.                                                     *)

LEMMA InitIndInv == Init => IndInv
<1> SUFFICES ASSUME Init PROVE IndInv
  OBVIOUS
<1>1. TypeOK
  BY DEF Init, TypeOK, Statuses, Idle
<1>2. RequestsCoherent
  BY DEF Init, RequestsCoherent, Idle
<1>3. Outstanding
  <2>1. Cancelling = {}
    BY DEF Init, Cancelling, Idle
  <2>2. \A c \in Candidates : Pending(c) = {}
    BY DEF Init, Pending
  <2> QED
    BY SMTT(30), <2>1, <2>2, FS_EmptySet DEF Init, Outstanding
<1> QED
  BY <1>1, <1>2, <1>3 DEF IndInv

-----------------------------------------------------------------------------
(* Every step keeps the types.                                             *)

LEMMA TypeStep == TypeOK /\ [Next]_vars => TypeOK'
<1> SUFFICES ASSUME TypeOK, [Next]_vars PROVE TypeOK'
  OBVIOUS
<1> USE DEF TypeOK, Statuses
<1>1. CASE Processing
  <2>1. CASE CreateAssessment
    BY <2>1 DEF CreateAssessment
  <2>2. CASE EnqueueProcessing \/ StartProcessing
    <3>1. job' \in {"queued", "lost", "running"}
      BY <2>2 DEF EnqueueProcessing, StartProcessing
    <3> QED
      BY <2>2, <3>1 DEF EnqueueProcessing, StartProcessing
  <2>3. CASE ActivateAssessment
    BY <2>3 DEF ActivateAssessment, FinalStatus
  <2>4. CASE ProcessingFails \/ AcknowledgeProcessing
    BY <2>4 DEF ProcessingFails, AcknowledgeProcessing
  <2>5. CASE ProcessingCrashes
    BY <2>5 DEF ProcessingCrashes, Crash
  <2> QED
    BY <1>1, <2>1, <2>2, <2>3, <2>4, <2>5 DEF Processing
<1>2. CASE CloseExpiredAssessments
  BY <1>2 DEF CloseExpiredAssessments
<1>3. CASE Recruiter
  <2>1. ASSUME NEW r \in Requests, NEW new \in {"ACTIVE", "CLOSED"}, UpdateStatusBegins(r, new)
        PROVE  TypeOK'
    BY <2>1 DEF UpdateStatusBegins
  <2>2. ASSUME NEW r \in Requests, UpdateStatusCommits(r)
        PROVE  TypeOK'
    BY <2>2 DEF UpdateStatusCommits
  <2>3. ASSUME NEW r \in Requests, UpdateStatusAborts(r)
        PROVE  TypeOK'
    BY SMTT(30), <2>3 DEF UpdateStatusAborts
  <2> QED
    BY <1>3, <2>1, <2>2, <2>3 DEF Recruiter
<1>4. CASE Dispatch
  <2>1. ASSUME NEW r \in Requests, DispatchStarts(r)
        PROVE  TypeOK'
    BY <2>1 DEF DispatchStarts
  <2>2. ASSUME NEW r \in Requests, NEW c \in Candidates, EnqueueCancellationEmail(r, c)
        PROVE  TypeOK'
    BY <2>2 DEF EnqueueCancellationEmail
  <2>3. ASSUME NEW r \in Requests, DispatchEnds(r) \/ DispatchCrashes(r)
        PROVE  TypeOK'
    BY <2>3 DEF DispatchEnds, DispatchCrashes, Crash
  <2> QED
    BY <1>4, <2>1, <2>2, <2>3 DEF Dispatch
<1>5. CASE Tick
  BY <1>5 DEF Tick
<1>6. ASSUME NEW c \in Candidates, Enrol(c) \/ Enter(c)
      PROVE  TypeOK'
  BY <1>6 DEF Enrol, Enter
<1>7. CASE UNCHANGED vars
  BY <1>7 DEF vars
<1> QED
  BY <1>1, <1>2, <1>3, <1>4, <1>5, <1>6, <1>7 DEF Next

-----------------------------------------------------------------------------
(* Every step keeps the requests coherent.                                 *)

LEMMA RequestsStep == TypeOK /\ RequestsCoherent /\ [Next]_vars => RequestsCoherent'
<1> SUFFICES ASSUME TypeOK, RequestsCoherent, [Next]_vars PROVE RequestsCoherent'
  OBVIOUS
<1> USE DEF RequestsCoherent
<1>1. CASE UNCHANGED <<updates, dispatches>>
  BY <1>1
<1>2. CASE Recruiter
  <2>1. ASSUME NEW r \in Requests, NEW new \in {"ACTIVE", "CLOSED"}, UpdateStatusBegins(r, new)
        PROVE  RequestsCoherent'
    BY <2>1 DEF UpdateStatusBegins, TypeOK, Idle
  <2>2. ASSUME NEW r \in Requests, UpdateStatusCommits(r) \/ UpdateStatusAborts(r)
        PROVE  RequestsCoherent'
    BY <2>2 DEF UpdateStatusCommits, UpdateStatusAborts, TypeOK, Idle
  <2> QED
    BY <1>2, <2>1, <2>2 DEF Recruiter
<1>3. CASE Dispatch
  BY <1>3 DEF Dispatch, DispatchStarts, EnqueueCancellationEmail, DispatchEnds,
       DispatchCrashes, TypeOK
<1> QED
  BY <1>1, <1>2, <1>3 DEF Next, Processing, CreateAssessment, EnqueueProcessing,
       StartProcessing, ActivateAssessment, ProcessingFails, AcknowledgeProcessing,
       ProcessingCrashes, CloseExpiredAssessments, Tick, Enrol, Enter, vars

-----------------------------------------------------------------------------
(* Every step keeps the e-mails accounted for.                             *)

\* Subsets of the requests are finite.
LEMMA RequestSetsFinite ==
  /\ \A c : IsFiniteSet(Pending(c)) /\ Cardinality(Pending(c)) \in Nat
  /\ IsFiniteSet(Cancelling) /\ Cardinality(Cancelling) \in Nat
<1>1. \A T \in SUBSET Requests : IsFiniteSet(T) /\ Cardinality(T) \in Nat
  BY FS_Subset, FS_CardinalityType
<1> QED
  BY <1>1 DEF Pending, Cancelling

\* A step that starts no request, adds no pending e-mail and queues none,
\* whatever it does to the crash counter, keeps the account.
LEMMA NothingPending ==
  ASSUME TypeOK, TypeOK', Outstanding, UNCHANGED told, Cancelling' = Cancelling,
         \A c \in Candidates : Pending(c)' \subseteq Pending(c),
         crashes <= crashes'
  PROVE  Outstanding'
<1> SUFFICES ASSUME NEW c \in Candidates
             PROVE  (told[c] + Cardinality(Pending(c)) <= crashes + Cardinality(Cancelling))'
  BY DEF Outstanding
<1>1. Cardinality(Pending(c)') <= Cardinality(Pending(c)) /\ Cardinality(Pending(c)') \in Nat
  BY RequestSetsFinite, FS_Subset, FS_CardinalityType
<1> QED
  BY <1>1, RequestSetsFinite DEF Outstanding, TypeOK

\* A request that asks to close an open assessment adds itself to both sides.
LEMMA BeginStep ==
  ASSUME TypeOK, TypeOK', RequestsCoherent, Outstanding,
         NEW r \in Requests, NEW new \in {"ACTIVE", "CLOSED"}, UpdateStatusBegins(r, new)
  PROVE  Outstanding'
<1> USE DEF UpdateStatusBegins
<1>1. CASE ~Cancels(assessment.status, new)
  <2>1. Cancelling' = Cancelling
    BY <1>1 DEF Cancels, Cancelling, TypeOK, Statuses, Idle
  <2>2. \A c \in Candidates : Pending(c)' = Pending(c)
    BY <1>1 DEF Pending
  <2> QED
    BY SMTT(30), <2>1, <2>2, NothingPending DEF TypeOK
<1>2. CASE Cancels(assessment.status, new)
  <2>1. Cancelling' = Cancelling \cup {r} /\ r \notin Cancelling
    BY <1>2 DEF Cancels, Cancelling, TypeOK, Statuses, Idle
  <2>2. \A c \in Candidates : Pending(c)' = Pending(c) \cup {r} /\ r \notin Pending(c)
    BY <1>2 DEF Pending, RequestsCoherent, TypeOK
  <2>3. Cardinality(Cancelling') = Cardinality(Cancelling) + 1
    BY <2>1, RequestSetsFinite, FS_AddElement
  <2>4. \A c \in Candidates : Cardinality(Pending(c)') = Cardinality(Pending(c)) + 1
    BY <2>2, RequestSetsFinite, FS_AddElement
  <2> QED
    BY <2>3, <2>4, RequestSetsFinite DEF Outstanding, TypeOK
<1> QED
  BY <1>1, <1>2

\* Queueing an e-mail moves it from the pending ones to the queued ones.
LEMMA EnqueueStep ==
  ASSUME TypeOK, TypeOK', Outstanding,
         NEW r \in Requests, NEW d \in Candidates, EnqueueCancellationEmail(r, d)
  PROVE  Outstanding'
<1> USE DEF EnqueueCancellationEmail
<1>1. Cancelling' = Cancelling
  BY DEF Cancelling
<1>2. Pending(d)' = Pending(d) \ {r} /\ r \in Pending(d)
  BY DEF Pending, TypeOK
<1>3. Cardinality(Pending(d)') = Cardinality(Pending(d)) - 1
  BY <1>2, RequestSetsFinite, FS_RemoveElement
<1>4. \A c \in Candidates \ {d} : Pending(c)' = Pending(c)
  BY DEF Pending, TypeOK
<1> SUFFICES ASSUME NEW c \in Candidates
             PROVE  (told[c] + Cardinality(Pending(c)) <= crashes + Cardinality(Cancelling))'
  BY DEF Outstanding
<1>5. CASE c = d
  BY <1>1, <1>3, <1>5, RequestSetsFinite DEF Outstanding, TypeOK
<1>6. CASE c # d
  BY <1>1, <1>4, <1>6, RequestSetsFinite DEF Outstanding, TypeOK
<1> QED
  BY <1>5, <1>6

\* A dispatch that is delivered again may repeat every e-mail once, which
\* the crash pays for.
LEMMA CrashStep ==
  ASSUME TypeOK, TypeOK', Outstanding, NEW r \in Requests, DispatchCrashes(r)
  PROVE  Outstanding'
<1> USE DEF DispatchCrashes, Crash
<1>1. Cancelling' = Cancelling
  BY DEF Cancelling
<1>2. \A c \in Candidates : Pending(c)' = Pending(c) \cup {r}
  BY DEF Pending, TypeOK
<1>3. \A c \in Candidates :
        Cardinality(Pending(c)') \in Nat /\ Cardinality(Pending(c)') <= Cardinality(Pending(c)) + 1
  <2> SUFFICES ASSUME NEW c \in Candidates
               PROVE  /\ Cardinality(Pending(c)') \in Nat
                      /\ Cardinality(Pending(c)') <= Cardinality(Pending(c)) + 1
    OBVIOUS
  <2>1. Cardinality(Pending(c) \cup {r}) = IF r \in Pending(c) THEN Cardinality(Pending(c))
                                           ELSE Cardinality(Pending(c)) + 1
    BY RequestSetsFinite, FS_AddElement
  <2> QED
    BY <1>2, <2>1, RequestSetsFinite
<1> QED
  BY <1>1, <1>3, RequestSetsFinite DEF Outstanding, TypeOK

LEMMA OutstandingStep ==
  TypeOK /\ RequestsCoherent /\ Outstanding /\ [Next]_vars => Outstanding'
<1> SUFFICES ASSUME TypeOK, RequestsCoherent, Outstanding, [Next]_vars PROVE Outstanding'
  OBVIOUS
<1>0. TypeOK'
  BY TypeStep
<1>1. CASE /\ UNCHANGED <<updates, dispatches, told>>
           /\ crashes <= crashes'
  BY <1>0, <1>1, NothingPending DEF Cancelling, Pending
<1>2. CASE Recruiter
  <2>1. ASSUME NEW r \in Requests, UpdateStatusCommits(r) \/ UpdateStatusAborts(r)
        PROVE  Outstanding'
    <3>1. Cancelling' = Cancelling
      BY <2>1 DEF UpdateStatusCommits, UpdateStatusAborts, Cancelling, TypeOK
    <3> QED
      BY <1>0, <2>1, <3>1, NothingPending
      DEF UpdateStatusCommits, UpdateStatusAborts, Pending, TypeOK
  <2> QED
    BY <1>0, <1>2, <2>1, BeginStep DEF Recruiter
<1>3. CASE Dispatch
  <2>1. ASSUME NEW r \in Requests, DispatchStarts(r) \/ DispatchEnds(r)
        PROVE  Outstanding'
    <3>1. \A c \in Candidates : Pending(c)' \subseteq Pending(c)
      BY <2>1 DEF DispatchStarts, DispatchEnds, Pending, TypeOK
    <3> QED
      BY <1>0, <2>1, <3>1, NothingPending
      DEF DispatchStarts, DispatchEnds, Cancelling, TypeOK
  <2> QED
    BY <1>0, <1>3, <2>1, EnqueueStep, CrashStep DEF Dispatch
<1> QED
  BY <1>1, <1>2, <1>3 DEF Next, Processing, CreateAssessment, EnqueueProcessing,
       StartProcessing, ActivateAssessment, ProcessingFails, AcknowledgeProcessing,
       ProcessingCrashes, Crash, CloseExpiredAssessments, Tick, Enrol, Enter, vars, TypeOK

-----------------------------------------------------------------------------
(* The theorems.                                                           *)

THEOREM Invariance == Spec => []IndInv
<1>1. IndInv /\ [Next]_vars => IndInv'
  BY TypeStep, RequestsStep, OutstandingStep DEF IndInv
<1> QED
  BY InitIndInv, <1>1, PTL DEF Spec

\* The rows, tasks and counters keep their types, for any number of
\* candidates, requests, crashes and any window.
THEOREM Typing == Spec => []TypeOK
<1>1. IndInv => TypeOK
  BY DEF IndInv
<1> QED
  BY Invariance, <1>1, PTL

\* Only requests that found the assessment open and asked to close it tell
\* candidates, once each and once more per crash.
THEOREM Notices == Spec => []NoticesAreAccounted
<1>1. IndInv => NoticesAreAccounted
  <2> SUFFICES ASSUME IndInv, NEW c \in Candidates
               PROVE  told[c] <= crashes + Cardinality(Cancelling)
    BY DEF NoticesAreAccounted
  <2> QED
    BY RequestSetsFinite DEF IndInv, Outstanding, TypeOK
<1> QED
  BY Invariance, <1>1, PTL

\* A closed assessment is opened by nothing but the commit of a request that
\* asked for it.
THEOREM NeverReopened == Spec => OnlyRecruiterReopens
<1> DEFINE Reopening ==
      assessment.status = "CLOSED" /\ assessment'.status # "CLOSED" =>
        \E r \in Requests : updates[r].state = "open" /\ updates[r].new = "ACTIVE"
                              /\ updates'[r].state = "committed"
<1>1. IndInv /\ [Next]_vars => [Reopening]_vars
  <2> SUFFICES ASSUME IndInv, Next,
                      assessment.status = "CLOSED", assessment'.status # "CLOSED"
               PROVE  \E r \in Requests : updates[r].state = "open"
                        /\ updates[r].new = "ACTIVE" /\ updates'[r].state = "committed"
    BY DEF vars
  <2> USE DEF IndInv, TypeOK
  <2>1. PICK r \in Requests : UpdateStatusCommits(r)
    BY DEF Next, Processing, CreateAssessment, EnqueueProcessing, StartProcessing,
         ActivateAssessment, FinalStatus, ProcessingFails, AcknowledgeProcessing,
         ProcessingCrashes, CloseExpiredAssessments, Expired, Recruiter,
         UpdateStatusBegins, UpdateStatusAborts, Dispatch, DispatchStarts,
         EnqueueCancellationEmail, DispatchEnds, DispatchCrashes, Tick, Enrol, Enter
  <2>2. updates[r].state = "open" /\ updates'[r].state = "committed" /\ updates[r].new # "CLOSED"
    BY <2>1 DEF UpdateStatusCommits
  <2>3. updates[r].new = "ACTIVE"
    BY <2>2 DEF RequestsCoherent
  <2> QED
    BY <2>2, <2>3
<1>2. Spec => [][Reopening]_vars
  BY Invariance, <1>1, PTL DEF Spec
<1> QED
  BY <1>2 DEF OnlyRecruiterReopens

\* Without a crash the analysis that was stored is over: its message is not
\* delivered a second time.
AnalysedOnce == assessment.plan /\ crashes = 0 => job \in {"finished", "done"}

LEMMA AnalysedStep == TypeOK /\ AnalysedOnce /\ [Next]_vars => AnalysedOnce'
<1> SUFFICES ASSUME TypeOK, AnalysedOnce, [Next]_vars PROVE AnalysedOnce'
  OBVIOUS
<1> USE DEF AnalysedOnce, TypeOK
<1>1. CASE Processing
  BY <1>1 DEF Processing, CreateAssessment, EnqueueProcessing, StartProcessing,
              ActivateAssessment, ProcessingFails, AcknowledgeProcessing, ProcessingCrashes, Crash
<1>2. CASE UNCHANGED <<job, crashes>> /\ assessment'.plan = assessment.plan
  BY <1>2
<1>3. CASE Recruiter \/ CloseExpiredAssessments
  BY <1>2, <1>3 DEF Recruiter, UpdateStatusBegins, UpdateStatusCommits, UpdateStatusAborts,
                    CloseExpiredAssessments
<1>4. CASE Dispatch
  BY <1>2, <1>4 DEF Dispatch, DispatchStarts, EnqueueCancellationEmail, DispatchEnds,
                    DispatchCrashes, Crash
<1> QED
  BY <1>1, <1>2, <1>3, <1>4 DEF Next, Tick, Enrol, Enter, vars

\* An analysed assessment that is running is closed by its recruiter, by the
\* end of its window, or by an analysis that a crash repeats.
THEOREM ClosedInTime == Spec => RunningIsNotClosedEarly
<1> DEFINE Closing ==
      assessment.status = "ACTIVE" /\ assessment.plan /\ assessment'.status = "CLOSED" =>
        \/ WindowOver
        \/ crashes > 0
        \/ \E r \in Requests : updates[r].new = "CLOSED" /\ updates'[r] # updates[r]
<1>1. (IndInv /\ AnalysedOnce) /\ [Next]_vars => [Closing]_vars
  <2> SUFFICES ASSUME TypeOK, AnalysedOnce, Next, ~WindowOver, crashes = 0,
                      assessment.status = "ACTIVE", assessment.plan, assessment'.status = "CLOSED"
               PROVE  \E r \in Requests : updates[r].new = "CLOSED" /\ updates'[r] # updates[r]
    BY DEF vars, IndInv, TypeOK
  <2>1. job \in {"finished", "done"}
    BY DEF AnalysedOnce
  <2>2. PICK r \in Requests : UpdateStatusCommits(r)
    BY <2>1
       DEF TypeOK, Next, Processing, CreateAssessment, EnqueueProcessing, StartProcessing,
           ActivateAssessment, ProcessingFails, AcknowledgeProcessing, ProcessingCrashes,
           CloseExpiredAssessments, Expired, Recruiter, UpdateStatusBegins, UpdateStatusAborts,
           Dispatch, DispatchStarts, EnqueueCancellationEmail, DispatchEnds, DispatchCrashes,
           Tick, Enrol, Enter
  <2>3. updates[r].new = "CLOSED"
    BY <2>2 DEF UpdateStatusCommits, TypeOK
  <2>4. updates[r].state = "open" /\ updates'[r].state = "committed"
    BY <2>2 DEF UpdateStatusCommits, TypeOK
  <2> QED
    BY <2>3, <2>4
<1>2. Init => AnalysedOnce
  BY DEF Init, AnalysedOnce
<1>3. (IndInv /\ AnalysedOnce) /\ [Next]_vars => AnalysedOnce'
  BY AnalysedStep DEF IndInv
<1>4. Spec => []AnalysedOnce
  BY <1>2, <1>3, Invariance, PTL DEF Spec
<1>5. Spec => [][Closing]_vars
  BY <1>1, <1>4, Invariance, PTL DEF Spec
<1> QED
  BY <1>5 DEF RunningIsNotClosedEarly

=============================================================================
