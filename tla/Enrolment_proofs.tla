-------------------------- MODULE Enrolment_proofs --------------------------
(***************************************************************************)
(* Proofs about Enrolment for any number of requests, rows, assessments    *)
(* and restarts.                                                           *)
(*                                                                         *)
(* That keys and references hold in the database is not inductive: a       *)
(* request adds to it what it checked long ago.  The invariant speaks of   *)
(* every row that is stored or flushed, as each request sees them: no two  *)
(* requests hold rows with the same key, none holds a row whose candidate  *)
(* another one deletes, and what a request sees keeps keys and references. *)
(* Flushes that wait are what makes these facts hold, so a commit may      *)
(* simply replace the database by what its request sees.                   *)
(* The second half follows the work that goes with a row, from the         *)
(* callbacks of an uncommitted request over those of a committed one to    *)
(* the queue, the task and the temporary file.                             *)
(* The third part compares windows: each row remembers which rows its      *)
(* request saw, and does not clash with those.                             *)
(***************************************************************************)
EXTENDS Enrolment, TLAPS

USE EnrolmentAssumption

Recruiters == {Owner[a] : a \in Assessments}

Person == [id : Nat, email : Emails, createdBy : Recruiters]

Row == [id : Nat, candidate : Nat, assessment : Assessments, active : BOOLEAN,
        resume : {"PENDING", "COMPLETED", "FAILED"}, asked : BOOLEAN, saw : SUBSET Nat]

Call == [do : {"invite", "analyse"}, for : Nat]

Enrolling == {"upload", "create", "enroll"}

Txn == [step : Steps, kind : Enrolling \cup {"delete", "none"},
        assessment : Assessments \cup {"none"}, todo : Seq(Emails), target : Nat,
        file : BOOLEAN, resume : {"PENDING", "COMPLETED", "FAILED"}, saw : SUBSET Nat,
        created : SUBSET Person, inserted : SUBSET Row, dropped : SUBSET Nat,
        doomed : BOOLEAN, callbacks : Seq(Call), answer : SUBSET Nat]

\* What a request has, and what only its kind and its step can tell.
Fit(t) ==
    /\ t.step = "insert" => t.kind \in Enrolling /\ t.todo # <<>>
    /\ t.kind \in Enrolling => t.assessment \in Assessments
    /\ t.kind \in {"create", "enroll"} /\ t.step \notin {"commit", "callbacks"} => t.todo # <<>>
    /\ t.step \in {"erase", "remain", "cascade", "drop"} => t.kind \in {"create", "delete"}
    /\ t.kind # "upload" /\ t.step \notin {"commit", "callbacks"} =>
         t.created = {} /\ t.inserted = {}
    /\ t.step = "erase" => t.dropped = {}
    /\ t.doomed => t.kind = "upload"

Types ==
    /\ candidates \subseteq Person /\ enrolments \subseteq Row
    /\ txn \in [Requests -> Txn] /\ lastId \in Nat
    /\ begun \in 0..MaxRequests /\ crashes \in 0..MaxCrashes
    /\ \A r \in Requests : Fit(txn[r])

\* Every identifier was drawn from the counter.
Known == 1..lastId

Drawn(t) ==
    /\ \A c \in t.created : c.id \in Known
    /\ \A e \in t.inserted : e.id \in Known /\ e.candidate \in Known
    /\ t.saw \cup t.dropped \cup {t.target} \subseteq {0} \cup Known

Numbered ==
    /\ \A c \in candidates : c.id \in Known
    /\ \A e \in enrolments : e.id \in Known
    /\ files \cup enrolled \subseteq Known
    /\ \A r \in Requests : Drawn(txn[r])

-----------------------------------------------------------------------------
(* Keys and references, among all rows that are stored or about to be.     *)

Persons == candidates \cup UNION {txn[r].created : r \in Requests}

\* An identifier belongs to one person, or to enrolments.
IdsApart ==
    /\ \A c, d \in Persons : c.id = d.id => c = d
    /\ \A c \in Persons :
          /\ \A e \in enrolments : c.id # e.id
          /\ \A r \in Requests :
                c.id \notin txn[r].saw /\ \A e \in txn[r].inserted : c.id # e.id

\* Uncommitted enrolments have identifiers of their own.
RowsApart ==
    \A r \in Requests : \A f \in txn[r].inserted :
        /\ f.id \notin txn[r].dropped
        /\ \A e \in enrolments : e.id # f.id
        /\ \A q \in Requests \ {r} : \A e \in txn[q].inserted : e.id # f.id

OneEmail(people) == \A c, d \in people : c.email = d.email => c = d

\* No two e-mail addresses meet in a commit.
EmailsApart ==
    /\ OneEmail(candidates)
    /\ \A r \in Requests : OneEmail(SeenCandidates(r))
    /\ \A r, q \in Requests : r # q =>
          \A c \in txn[r].created, d \in txn[q].created : c.email # d.email

Same(e, f) == e.candidate = f.candidate /\ e.assessment = f.assessment

OneRow(rows) == \A e, f \in rows : Same(e, f) => e = f

\* No two enrolments of a candidate in an assessment meet in a commit.
EnrolmentsApart ==
    /\ OneRow(enrolments)
    /\ \A r \in Requests : OneRow(SeenEnrolments(r))
    /\ \A r, q \in Requests : r # q =>
          \A e \in txn[r].inserted, f \in txn[q].inserted : ~Same(e, f)

\* No commit leaves an enrolment without its candidate.
References ==
    /\ \A e \in enrolments : e.candidate \in Ids(candidates)
    /\ \A r \in Requests : \A e \in SeenEnrolments(r) : e.candidate \in Ids(SeenCandidates(r))
    /\ \A r, q \in Requests : r # q =>
          \A e \in txn[r].inserted : e.candidate \notin txn[q].dropped

Keys == IdsApart /\ RowsApart /\ EmailsApart /\ EnrolmentsApart /\ References

-----------------------------------------------------------------------------
(* The work that goes with the rows.                                       *)

Targets(t, do) == {c.for : c \in {d \in ToSet(t.callbacks) : d.do = do}}

Invites(t) == Targets(t, "invite")

Analyses(t) == Targets(t, "analyse")

\* Before the commit the callbacks speak of the request's own rows, after it of
\* committed ones.
Prepared(t) ==
    /\ t.answer \subseteq invited \cup Invites(t)
    /\ IF t.step = "callbacks"
       THEN Invites(t) \cup Analyses(t) \cup t.answer \subseteq enrolled
       ELSE /\ Invites(t) \cup Analyses(t) \cup t.answer \subseteq Ids(t.inserted)
            /\ Ids(t.inserted) \subseteq Invites(t)
            /\ files \cap Ids(t.inserted) \subseteq Analyses(t)
            /\ \A e \in t.inserted : e.asked => e.id \in Analyses(t)

\* Callbacks that are still to run.
Committed == {r \in Requests : txn[r].step = "callbacks"}

DueInvites == UNION {Invites(txn[r]) : r \in Committed}

DueAnalyses == UNION {Analyses(txn[r]) : r \in Committed}

Work ==
    /\ invited \cup analyses \subseteq enrolled
    /\ confirmed \subseteq enrolled \cap invited
    /\ \A r \in Requests : Prepared(txn[r])
    /\ enrolled \subseteq invited \cup forsaken \cup DueInvites
    /\ files \cap enrolled \subseteq analyses \cup forsaken \cup DueAnalyses
    /\ \A e \in enrolments : e.asked /\ e.resume = "PENDING" =>
          e.id \in analyses \cup forsaken \cup DueAnalyses

IndInv == Types /\ Numbered /\ Keys /\ Work

-----------------------------------------------------------------------------
(* A request moves on, and nothing is committed.                           *)

\* A request that is not under way, or has only begun.
Blank(t) ==
    /\ t.created = {} /\ t.inserted = {} /\ t.dropped = {} /\ t.saw = {}
    /\ t.callbacks = <<>> /\ t.answer = {} /\ t.step # "callbacks"

LEMMA IdleFits == Idle \in Txn /\ Fit(Idle) /\ Blank(Idle) /\ Idle.target = 0
BY DEF Idle, Txn, Fit, Blank, Steps, Enrolling

LEMMA BlankTargets ==
    ASSUME NEW t, t.callbacks = <<>>
    PROVE  Invites(t) = {} /\ Analyses(t) = {}
BY DEF Invites, Analyses, Targets, ToSet

LEMMA SameTargets ==
    ASSUME NEW t, NEW u, u.callbacks = t.callbacks
    PROVE  Invites(u) = Invites(t) /\ Analyses(u) = Analyses(t)
BY DEF Invites, Analyses, Targets

LEMMA OthersSee ==
    ASSUME NEW r \in Requests, UNCHANGED database,
           \A q \in Requests \ {r} : txn'[q] = txn[q]
    PROVE  \A q \in Requests \ {r} :
             SeenCandidates(q)' = SeenCandidates(q) /\ SeenEnrolments(q)' = SeenEnrolments(q)
BY DEF database, SeenCandidates, SeenEnrolments

\* Before the commit nothing is due.
LEMMA DueKept ==
    ASSUME NEW r \in Requests, txn[r].step # "callbacks", txn'[r].step # "callbacks",
           \A q \in Requests \ {r} : txn'[q] = txn[q]
    PROVE  DueInvites' = DueInvites /\ DueAnalyses' = DueAnalyses
<1>1. Committed' = Committed
  BY DEF Committed
<1>2. \A q \in Committed : txn'[q] = txn[q]
  BY DEF Committed
<1> QED
  BY <1>1, <1>2 DEF DueInvites, DueAnalyses

LEMMA WorkKept ==
    ASSUME IndInv, NEW r \in Requests, UNCHANGED <<database, outside, history>>,
           txn[r].step # "callbacks", txn'[r].step # "callbacks",
           \A q \in Requests \ {r} : txn'[q] = txn[q],
           Prepared(txn[r])'
    PROVE  Work'
<1>1. \A q \in Requests : Prepared(txn[q])'
  BY DEF IndInv, Work, Prepared, outside, history
<1> QED
  BY <1>1, DueKept DEF IndInv, Work, database, outside, history

\* A request begins, or is over without a commit.
LEMMA Starts ==
    ASSUME IndInv, NEW r \in Requests, NEW u \in Txn, Fit(u), Blank(u),
           u.target \in {0} \cup Known, txn' = [txn EXCEPT ![r] = u],
           txn[r].step # "callbacks",
           UNCHANGED <<database, lastId, outside, history, crashes>>,
           begun' \in 0..MaxRequests
    PROVE  IndInv'
<1>1. txn'[r] = u /\ \A q \in Requests \ {r} : txn'[q] = txn[q]
  BY DEF IndInv, Types
<1>2. Types'
  BY <1>1 DEF IndInv, Types, database
<1>3. Numbered'
  BY <1>1 DEF IndInv, Numbered, Drawn, Blank, Known, database, outside, history
<1>4. Persons' \subseteq Persons
  BY <1>1 DEF Persons, Blank, database
<1>5. IdsApart'
  BY <1>1, <1>4 DEF IndInv, Keys, IdsApart, Blank, database
<1>6. RowsApart'
  BY <1>1 DEF IndInv, Keys, RowsApart, Blank, database
<1>7. SeenCandidates(r)' = candidates /\ SeenEnrolments(r)' = enrolments
  BY <1>1 DEF SeenCandidates, SeenEnrolments, Blank, database
<1>8. EmailsApart'
  BY <1>1, <1>7, OthersSee DEF IndInv, Keys, EmailsApart, OneEmail, Blank, database
<1>9. EnrolmentsApart'
  BY <1>1, <1>7, OthersSee DEF IndInv, Keys, EnrolmentsApart, OneRow, Blank, database
<1>10. References'
  BY <1>1, <1>7, OthersSee DEF IndInv, Keys, References, Blank, database
<1>11. Prepared(txn[r])'
  BY <1>1, BlankTargets DEF Prepared, Blank, Ids
<1>12. Work'
  BY <1>1, <1>11, WorkKept DEF Blank
<1> QED
  BY <1>2, <1>3, <1>5, <1>6, <1>8, <1>9, <1>10, <1>12 DEF IndInv, Keys

\* A request looks at rows or marks some as deleted. It must not leave an
\* enrolment without its candidate, or delete another request's candidate.
LEMMA Moves ==
    ASSUME IndInv, NEW r \in Requests, NEW u \in Txn, Fit(u),
           u.created = txn[r].created, u.inserted = txn[r].inserted,
           u.callbacks = txn[r].callbacks, u.answer = txn[r].answer,
           txn[r].dropped \subseteq u.dropped,
           u.saw \subseteq txn[r].saw \cup Ids(SeenEnrolments(r)),
           u.target \in {0} \cup Known, u.dropped \subseteq {0} \cup Known,
           \A f \in u.inserted : f.id \notin u.dropped,
           \A e \in SeenEnrolments(r) : e.id \notin u.dropped => e.candidate \notin u.dropped,
           \A q \in Requests \ {r} : \A e \in txn[q].inserted : e.candidate \notin u.dropped,
           txn' = [txn EXCEPT ![r] = u],
           txn[r].step # "callbacks", u.step # "callbacks",
           UNCHANGED <<database, lastId, outside, history, bounds>>
    PROVE  IndInv'
<1>1. txn'[r] = u /\ \A q \in Requests \ {r} : txn'[q] = txn[q]
  BY DEF IndInv, Types
<1>2. Types'
  BY <1>1 DEF IndInv, Types, database, bounds
<1>3. SeenEnrolments(r) \subseteq enrolments \cup txn[r].inserted
  BY DEF SeenEnrolments
<1>4. Numbered'
  <2>1. Drawn(txn[r])'
    BY <1>1, <1>3 DEF IndInv, Numbered, Drawn, Known, Ids
  <2> QED
    BY <1>1, <2>1 DEF IndInv, Numbered, Drawn, Known, database, outside, history
<1>5. Persons' = Persons
  BY <1>1 DEF Persons, database
<1>6. IdsApart'
  <2>1. \A c \in Persons : c.id \notin u.saw
    BY <1>3 DEF IndInv, Keys, IdsApart, Ids
  <2> QED
    BY <1>1, <1>5, <2>1 DEF IndInv, Keys, IdsApart, database
<1>7. RowsApart'
  BY <1>1 DEF IndInv, Keys, RowsApart, database
<1>8. /\ SeenCandidates(r)' = {c \in SeenCandidates(r) : c.id \notin u.dropped}
      /\ SeenEnrolments(r)' = {e \in SeenEnrolments(r) : e.id \notin u.dropped}
  BY <1>1 DEF SeenCandidates, SeenEnrolments, database
<1>9. EmailsApart'
  BY <1>1, <1>8, OthersSee DEF IndInv, Keys, EmailsApart, OneEmail, database
<1>10. EnrolmentsApart'
  BY <1>1, <1>8, OthersSee DEF IndInv, Keys, EnrolmentsApart, OneRow, database
<1>11. References'
  <2>1. \A e \in SeenEnrolments(r)' : e.candidate \in Ids(SeenCandidates(r)')
    BY <1>8 DEF IndInv, Keys, References, Ids
  <2>2. \A e \in enrolments' : e.candidate \in Ids(candidates')
    BY DEF IndInv, Keys, References, database
  <2>3. ASSUME NEW q \in Requests \ {r}, NEW e \in SeenEnrolments(q)'
        PROVE  e.candidate \in Ids(SeenCandidates(q)')
    BY <1>1, OthersSee DEF IndInv, Keys, References
  <2>4. \A p, q \in Requests : p # q =>
          \A e \in txn'[p].inserted : e.candidate \notin txn'[q].dropped
    BY <1>1 DEF IndInv, Keys, References
  <2> QED
    BY <2>1, <2>2, <2>3, <2>4 DEF References, Ids
<1>12. Prepared(txn[r])'
  BY <1>1, SameTargets DEF IndInv, Work, Prepared, outside, history
<1>13. Work'
  BY <1>1, <1>12, WorkKept
<1> QED
  BY <1>2, <1>4, <1>6, <1>7, <1>9, <1>10, <1>11, <1>13 DEF IndInv, Keys

\* The most common case: nothing is deleted.
LEMMA Looks ==
    ASSUME IndInv, NEW r \in Requests, NEW u \in Txn, Fit(u),
           u.created = txn[r].created, u.inserted = txn[r].inserted,
           u.callbacks = txn[r].callbacks, u.answer = txn[r].answer,
           u.dropped = txn[r].dropped,
           u.saw \subseteq txn[r].saw \cup Ids(SeenEnrolments(r)),
           u.target \in {0} \cup Known,
           txn' = [txn EXCEPT ![r] = u],
           txn[r].step # "callbacks", u.step # "callbacks",
           UNCHANGED <<database, lastId, outside, history, bounds>>
    PROVE  IndInv'
<1>1. u.dropped \subseteq {0} \cup Known
  BY DEF IndInv, Numbered, Drawn
<1>2. \A f \in u.inserted : f.id \notin u.dropped
  BY DEF IndInv, Keys, RowsApart
<1>3. \A e \in SeenEnrolments(r) : e.candidate \notin u.dropped
  BY DEF IndInv, Keys, References, Ids, SeenCandidates
<1>4. \A q \in Requests \ {r} : \A e \in txn[q].inserted : e.candidate \notin u.dropped
  BY DEF IndInv, Keys, References
<1> QED
  BY <1>1, <1>2, <1>3, <1>4, Moves

\* A request that is refused leaves nothing.
LEMMA Refused ==
    ASSUME IndInv, NEW r \in Requests, txn[r].step # "callbacks", Refuse(r)
    PROVE  IndInv'
BY IdleFits, Starts DEF Refuse, IndInv, Types, bounds

-----------------------------------------------------------------------------
(* The requests begin and find out what to do.                             *)

\* What is known of a request that is under way.
LEMMA ReqFacts ==
    ASSUME IndInv, NEW r \in Requests
    PROVE  /\ txn[r] \in Txn /\ Fit(txn[r]) /\ txn[r].target \in {0} \cup Known
           /\ \A c \in SeenCandidates(r) : c \in Person /\ c.id \in Known
           /\ \A e \in SeenEnrolments(r) : e \in Row /\ e.id \in Known /\ e.candidate \in Known
<1>1. txn[r] \in Txn /\ Fit(txn[r]) /\ Drawn(txn[r])
  BY DEF IndInv, Types, Numbered
<1>2. \A c \in SeenCandidates(r) : c \in Person /\ c.id \in Known
  BY <1>1 DEF SeenCandidates, Drawn, IndInv, Types, Numbered, Txn
<1>3. \A e \in SeenEnrolments(r) : e \in Row /\ e.id \in Known
  BY <1>1 DEF SeenEnrolments, Drawn, IndInv, Types, Numbered, Txn
<1>4. \A e \in SeenEnrolments(r) : e.candidate \in Known
  BY <1>2 DEF IndInv, Keys, References, Ids
<1> QED
  BY <1>1, <1>2, <1>3, <1>4 DEF Drawn

LEMMA BeginSteps ==
    ASSUME IndInv, NEW r \in Requests
    PROVE  BeginUpload(r) \/ BeginCreate(r) \/ BeginEnroll(r) \/ BeginDelete(r) => IndInv'
<1>1. ASSUME NEW u \in Txn, Fit(u), Blank(u), u.target \in {0} \cup Known, Begin(r, u)
      PROVE  IndInv'
  <2>1. txn[r].step # "callbacks" /\ begun' \in 0..MaxRequests
    BY <1>1 DEF Begin, IndInv, Types
  <2> QED
    BY <1>1, <2>1, Starts DEF Begin
<1>2. ASSUME NEW a \in Assessments, NEW n \in 1..MaxRows, NEW rows \in [1..n -> Emails]
      PROVE  LET u == [Idle EXCEPT !.step = "find", !.kind = "upload", !.assessment = a, !.todo = rows]
             IN  u \in Txn /\ Fit(u) /\ Blank(u) /\ u.target = 0
  <2>1. rows \in Seq(Emails)
    OBVIOUS
  <2> QED
    BY ZenonT(40), <2>1, IdleFits DEF Idle, Txn, Fit, Blank, Steps, Enrolling
<1>3. ASSUME NEW a \in Assessments, NEW email \in Emails
      PROVE  LET u == [Idle EXCEPT !.step = "find", !.kind = "create", !.assessment = a,
                                   !.todo = <<email>>, !.file = TRUE]
             IN  u \in Txn /\ Fit(u) /\ Blank(u) /\ u.target = 0
  <2>1. <<email>> \in Seq(Emails) /\ <<email>> # <<>>
    OBVIOUS
  <2> QED
    BY ZenonT(40), <2>1, IdleFits DEF Idle, Txn, Fit, Blank, Steps, Enrolling
<1>4. ASSUME NEW a \in Assessments, NEW c \in candidates, NEW file \in BOOLEAN
      PROVE  LET u == [Idle EXCEPT !.step = "find", !.kind = "enroll", !.assessment = a,
                                   !.todo = <<c.email>>, !.target = c.id, !.file = file]
             IN  u \in Txn /\ Fit(u) /\ Blank(u) /\ u.target \in Known
  <2> DEFINE todo == <<c.email>>
             u == [Idle EXCEPT !.step = "find", !.kind = "enroll", !.assessment = a,
                               !.todo = todo, !.target = c.id, !.file = file]
  <2>1. c \in Person /\ c.id \in Known /\ Known \subseteq Nat
    BY DEF IndInv, Types, Numbered, Known
  <2>2. todo \in Seq(Emails) /\ todo # <<>>
    BY <2>1 DEF Person
  <2> HIDE DEF todo
  <2>3. u \in Txn
    BY <2>1, <2>2, IdleFits DEF Txn, Steps, Enrolling
  <2>4. Fit(u) /\ Blank(u) /\ u.target \in Known
    BY <2>1, <2>2 DEF Idle, Fit, Blank, Enrolling
  <2> QED
    BY <2>3, <2>4 DEF todo
<1>5. ASSUME NEW e \in enrolments
      PROVE  LET u == [Idle EXCEPT !.step = "erase", !.kind = "delete", !.target = e.id]
             IN  u \in Txn /\ Fit(u) /\ Blank(u) /\ u.target \in Known
  <2>1. e.id \in Known /\ Known \subseteq Nat
    BY DEF IndInv, Numbered, Known
  <2> QED
    BY <2>1, IdleFits DEF Idle, Txn, Fit, Blank, Steps, Enrolling
<1> QED
  BY <1>1, <1>2, <1>3, <1>4, <1>5 DEF BeginUpload, BeginCreate, BeginEnroll, BeginDelete

LEMMA Skips ==
    ASSUME IndInv, NEW r \in Requests, NEW doomed \in BOOLEAN, txn[r].kind = "upload",
           txn[r].todo # <<>>, txn[r].step # "callbacks", SkipRow(r, doomed),
           UNCHANGED <<database, lastId, outside, history, bounds>>
    PROVE  IndInv'
<1> DEFINE t == txn[r]
           u == [t EXCEPT !.step = "find", !.todo = Tail(@), !.doomed = doomed]
<1>1. t \in Txn /\ Fit(t) /\ t.target \in {0} \cup Known
  BY ReqFacts
<1>2. Tail(t.todo) \in Seq(Emails)
  BY <1>1 DEF Txn
<1>3. u \in Txn /\ Fit(u)
  BY <1>1, <1>2 DEF Txn, Fit, Steps, Enrolling
<1>4. /\ u.created = t.created /\ u.inserted = t.inserted /\ u.callbacks = t.callbacks
      /\ u.answer = t.answer /\ u.dropped = t.dropped /\ u.saw = t.saw
      /\ u.target = t.target /\ u.step = "find"
  BY <1>1 DEF Txn
<1>5. txn' = [txn EXCEPT ![r] = u]
  BY DEF SkipRow, IndInv, Types
<1> HIDE DEF u
<1> QED
  BY <1>1, <1>3, <1>4, <1>5, Looks

LEMMA Plans ==
    ASSUME IndInv, NEW r \in Requests, NEW c \in {0} \cup Known,
           NEW rows \in SUBSET SeenEnrolments(r),
           NEW resume \in {"PENDING", "COMPLETED", "FAILED"},
           txn[r].kind \in Enrolling, txn[r].todo # <<>>, txn[r].step = "find",
           Plan(r, c, rows, resume),
           UNCHANGED <<database, lastId, outside, history, bounds>>
    PROVE  IndInv'
<1> DEFINE t == txn[r]
           u == [t EXCEPT !.step = "insert", !.target = c, !.resume = resume, !.saw = Ids(rows)]
<1>1. t \in Txn /\ Fit(t) /\ Known \subseteq Nat
  BY ReqFacts DEF Known
<1>2. Ids(rows) \subseteq Ids(SeenEnrolments(r)) /\ Ids(rows) \in SUBSET Nat
  BY <1>1, ReqFacts DEF Ids
<1>4. /\ u.created = t.created /\ u.inserted = t.inserted /\ u.callbacks = t.callbacks
      /\ u.answer = t.answer /\ u.dropped = t.dropped /\ u.saw = Ids(rows)
      /\ u.target = c /\ u.step = "insert" /\ u.kind = t.kind /\ u.todo = t.todo
      /\ u.assessment = t.assessment /\ u.doomed = t.doomed
  BY <1>1 DEF Txn
<1>6. c \in Nat
  <2>1. lastId \in Nat
    BY DEF IndInv, Types
  <2> QED
    BY <2>1 DEF Known
<1>7. u \in Txn
  BY <1>1, <1>2, <1>6 DEF Txn, Steps
<1>3. u \in Txn /\ Fit(u)
  BY <1>1, <1>4, <1>7 DEF Fit, Enrolling
<1>5. txn' = [txn EXCEPT ![r] = u]
  BY DEF Plan, IndInv, Types
<1> HIDE DEF u
<1> QED
  BY <1>2, <1>3, <1>4, <1>5, Looks

\* A request takes its next step, perhaps with another target.
LEMMA Goes ==
    ASSUME IndInv, NEW r \in Requests, NEW step \in {"commit", "cascade"},
           NEW c \in {0} \cup Known,
           txn' = [txn EXCEPT ![r] = [txn[r] EXCEPT !.step = step, !.target = c]],
           txn[r].step \in {"find", "remain"},
           step = "commit" \/ txn[r].kind \in {"create", "delete"},
           UNCHANGED <<database, lastId, outside, history, bounds>>
    PROVE  IndInv'
<1> DEFINE t == txn[r]
           u == [t EXCEPT !.step = step, !.target = c]
<1>1. t \in Txn /\ Fit(t)
  BY ReqFacts
<1>2. c \in Nat
  <2>1. lastId \in Nat
    BY DEF IndInv, Types
  <2> QED
    BY <2>1 DEF Known
<1>3. /\ u.created = t.created /\ u.inserted = t.inserted /\ u.callbacks = t.callbacks
      /\ u.answer = t.answer /\ u.dropped = t.dropped /\ u.saw = t.saw
      /\ u.target = c /\ u.step = step /\ u.kind = t.kind /\ u.todo = t.todo
      /\ u.assessment = t.assessment /\ u.doomed = t.doomed
  BY <1>1 DEF Txn
<1>4. u \in Txn
  BY <1>1, <1>2 DEF Txn, Steps
<1>5. Fit(u)
  BY <1>1, <1>3 DEF Fit, Enrolling
<1>6. txn' = [txn EXCEPT ![r] = u]
  OBVIOUS
<1> HIDE DEF u
<1> QED
  BY <1>3, <1>4, <1>5, <1>6, Looks

LEMMA UploadSteps ==
    ASSUME IndInv, NEW r \in Requests
    PROVE  UploadFind(r) \/ DoomedRow(r) \/ UploadDone(r) \/ UploadFails(r) => IndInv'
<1> DEFINE t == txn[r]
<1>1. t \in Txn /\ Fit(t) /\ t.target \in {0} \cup Known
  BY ReqFacts
<1>2. ASSUME UploadFind(r) PROVE IndInv'
  <2>1. /\ t.kind = "upload" /\ t.step = "find" /\ t.todo # <<>>
        /\ UNCHANGED <<database, lastId, outside, history, bounds>>
    BY <1>2 DEF UploadFind
  <2>2. CASE Plan(r, 0, {}, "PENDING")
    BY <2>1, <2>2, Plans DEF Enrolling
  <2>3. CASE SkipRow(r, FALSE)
    BY <2>1, <2>3, Skips
  <2>4. ASSUME NEW c \in SeenCandidates(r),
               Plan(r, c.id, EnrolmentsOf(c.id, SeenEnrolments(r)), "PENDING")
        PROVE  IndInv'
    <3>1. c.id \in Known /\ EnrolmentsOf(c.id, SeenEnrolments(r)) \subseteq SeenEnrolments(r)
      BY ReqFacts DEF EnrolmentsOf
    <3> QED
      BY <2>1, <2>4, <3>1, Plans DEF Enrolling
  <2> QED
    BY <1>2, <2>2, <2>3, <2>4 DEF UploadFind
<1>3. ASSUME DoomedRow(r) PROVE IndInv'
  BY <1>1, <1>3, Skips DEF DoomedRow, Fit
<1>4. ASSUME UploadDone(r) PROVE IndInv'
  <2>1. txn' = [txn EXCEPT ![r] = [t EXCEPT !.step = "commit", !.target = t.target]]
    BY <1>1, <1>4 DEF UploadDone, Go, Txn, IndInv, Types
  <2> QED
    BY <1>1, <1>4, <2>1, Goes DEF UploadDone
<1>5. ASSUME UploadFails(r) PROVE IndInv'
  BY <1>5, Refused DEF UploadFails
<1> QED
  BY <1>2, <1>3, <1>4, <1>5

LEMMA FindSteps ==
    ASSUME IndInv, NEW r \in Requests
    PROVE  CreateFind(r) \/ EnrollFind(r) => IndInv'
<1> DEFINE t == txn[r]
<1>1. t \in Txn /\ Fit(t) /\ t.target \in {0} \cup Known
  BY ReqFacts
<1>2. ASSUME CreateFind(r) PROVE IndInv'
  <2>1. t.kind = "create" /\ t.step = "find" /\ t.todo # <<>>
    BY <1>1, <1>2 DEF CreateFind, Fit
  <2>2. CASE Refuse(r)
    BY <2>1, <2>2, Refused
  <2>3. CASE /\ Plan(r, 0, {}, "PENDING")
             /\ UNCHANGED <<database, lastId, outside, history, bounds>>
    BY <2>1, <2>3, Plans DEF Enrolling
  <2>4. ASSUME NEW c \in SeenCandidates(r),
               txn' = [txn EXCEPT ![r].step = "cascade", ![r].target = c.id],
               UNCHANGED <<database, lastId, outside, history, bounds>>
        PROVE  IndInv'
    <3>1. c.id \in Known
      BY ReqFacts
    <3>2. txn' = [txn EXCEPT ![r] = [t EXCEPT !.step = "cascade", !.target = c.id]]
      BY <2>4 DEF IndInv, Types
    <3> QED
      BY <2>1, <2>4, <3>1, <3>2, Goes
  <2> QED
    BY <1>2, <2>2, <2>3, <2>4 DEF CreateFind
<1>3. ASSUME EnrollFind(r) PROVE IndInv'
  <2>1. t.kind = "enroll" /\ t.step = "find" /\ t.todo # <<>>
    BY <1>1, <1>3 DEF EnrollFind, Fit
  <2>2. CASE Refuse(r)
    BY <2>1, <2>2, Refused
  <2>3. ASSUME NEW resume \in {"PENDING", "COMPLETED", "FAILED"},
               Plan(r, t.target, EnrolmentsOf(t.target, SeenEnrolments(r)), resume),
               UNCHANGED <<database, lastId, outside, history, bounds>>
        PROVE  IndInv'
    <3>1. EnrolmentsOf(t.target, SeenEnrolments(r)) \subseteq SeenEnrolments(r)
      BY DEF EnrolmentsOf
    <3> QED
      BY <1>1, <2>1, <2>3, <3>1, Plans DEF Enrolling
  <2> QED
    BY <1>3, <2>2, <2>3 DEF EnrollFind
<1> QED
  BY <1>2, <1>3

-----------------------------------------------------------------------------
(* Deleting.                                                               *)

LEMMA CandidatesKnown ==
    ASSUME IndInv, NEW r \in Requests
    PROVE  \A e \in SeenEnrolments(r) \cup txn[r].inserted : e.candidate \in Ids(Persons)
<1>1. SeenCandidates(r) \subseteq Persons
  BY DEF SeenCandidates, Persons
<1>2. txn[r].inserted \subseteq SeenEnrolments(r)
  BY DEF SeenEnrolments, IndInv, Keys, RowsApart
<1> QED
  BY <1>1, <1>2 DEF IndInv, Keys, References, Ids

LEMMA DeletionSteps ==
    ASSUME IndInv, NEW r \in Requests
    PROVE  Erase(r) \/ Remain(r) \/ Cascade(r) \/ Drop(r) => IndInv'
<1> DEFINE t == txn[r]
<1>1. t \in Txn /\ Fit(t) /\ t.target \in {0} \cup Known /\ lastId \in Nat
  BY ReqFacts DEF IndInv, Types
<1>2. ASSUME NEW e \in enrolments, t.step = "erase",
             txn' = [txn EXCEPT ![r].step = "remain", ![r].target = e.candidate,
                                ![r].dropped = {e.id}],
             UNCHANGED <<database, lastId, outside, history, bounds>>
      PROVE  IndInv'
  <2> DEFINE u == [t EXCEPT !.step = "remain", !.target = e.candidate, !.dropped = {e.id}]
  <2>1. t.inserted = {} /\ t.created = {} /\ t.dropped = {} /\ t.kind \in {"create", "delete"}
    BY <1>1, <1>2 DEF Fit
  <2>2. e.id \in Known /\ e.candidate \in Known
    BY DEF IndInv, Numbered, Keys, References, Ids
  <2>3. e.id \in Nat /\ e.candidate \in Nat
    BY <1>1, <2>2 DEF Known
  <2>4. /\ u.created = t.created /\ u.inserted = t.inserted /\ u.callbacks = t.callbacks
        /\ u.answer = t.answer /\ u.dropped = {e.id} /\ u.saw = t.saw
        /\ u.target = e.candidate /\ u.step = "remain" /\ u.kind = t.kind /\ u.todo = t.todo
        /\ u.assessment = t.assessment /\ u.doomed = t.doomed
    BY <1>1 DEF Txn
  <2>5. u \in Txn
    BY <1>1, <2>3 DEF Txn, Steps
  <2>6. Fit(u)
    BY <1>1, <1>2, <2>1, <2>4 DEF Fit, Enrolling
  <2>7. \A q \in Requests : \A f \in SeenEnrolments(q) \cup txn[q].inserted : f.candidate # e.id
    BY CandidatesKnown DEF IndInv, Keys, IdsApart, Ids
  <2>8. txn' = [txn EXCEPT ![r] = u]
    BY <1>2 DEF IndInv, Types
  <2>9. UNCHANGED <<database, lastId, outside, history, bounds>>
    BY <1>2
  <2>10. /\ t.dropped \subseteq u.dropped /\ u.dropped \subseteq {0} \cup Known
         /\ u.saw \subseteq t.saw \cup Ids(SeenEnrolments(r))
         /\ u.target \in {0} \cup Known
         /\ \A f \in u.inserted : f.id \notin u.dropped
    BY <2>1, <2>2, <2>4
  <2>11. /\ \A f \in SeenEnrolments(r) : f.id \notin u.dropped => f.candidate \notin u.dropped
         /\ \A q \in Requests \ {r} : \A f \in txn[q].inserted : f.candidate \notin u.dropped
    BY <2>4, <2>7
  <2>12. t.step # "callbacks" /\ u.step # "callbacks"
    BY <1>2, <2>4
  <2> HIDE DEF u
  <2> QED
    BY <2>4, <2>5, <2>6, <2>8, <2>9, <2>10, <2>11, <2>12, Moves
<1>3. ASSUME Remain(r) PROVE IndInv'
  <2>1. t.step = "remain" /\ t.kind \in {"create", "delete"}
    BY <1>1, <1>3 DEF Remain, Fit
  <2>2. ASSUME NEW step \in {"commit", "cascade"}, Go(r, step) PROVE IndInv'
    <3>1. txn' = [txn EXCEPT ![r] = [t EXCEPT !.step = step, !.target = t.target]]
      BY <1>1, <2>2 DEF Go, Txn, IndInv, Types
    <3> QED
      BY <1>1, <1>3, <2>1, <3>1, Goes DEF Remain
  <2> QED
    BY <1>3, <2>2 DEF Remain
<1>4. ASSUME Cascade(r) PROVE IndInv'
  <2> DEFINE rows == EnrolmentsOf(t.target, SeenEnrolments(r))
             u == [t EXCEPT !.step = "drop", !.saw = Ids(rows)]
  <2>1. t.step = "cascade" /\ t.kind \in {"create", "delete"}
    BY <1>1, <1>4 DEF Cascade, Fit
  <2>2. Ids(rows) \subseteq Ids(SeenEnrolments(r)) /\ Ids(rows) \in SUBSET Nat
    BY <1>1, ReqFacts DEF Ids, EnrolmentsOf, Known
  <2>4. /\ u.created = t.created /\ u.inserted = t.inserted /\ u.callbacks = t.callbacks
        /\ u.answer = t.answer /\ u.dropped = t.dropped /\ u.saw = Ids(rows)
        /\ u.target = t.target /\ u.step = "drop" /\ u.kind = t.kind /\ u.todo = t.todo
        /\ u.assessment = t.assessment /\ u.doomed = t.doomed
    BY <1>1 DEF Txn
  <2> HIDE DEF rows
  <2>5. u \in Txn
    BY <1>1, <2>2 DEF Txn, Steps
  <2>6. Fit(u)
    BY <1>1, <2>1, <2>4 DEF Fit, Enrolling
  <2>7. txn' = [txn EXCEPT ![r] = u]
    BY <1>4 DEF Cascade, IndInv, Types, rows
  <2>8. UNCHANGED <<database, lastId, outside, history, bounds>>
    BY <1>4 DEF Cascade
  <2>9. u.saw \subseteq t.saw \cup Ids(SeenEnrolments(r))
    BY <2>2, <2>4
  <2> HIDE DEF u
  <2> QED
    BY <1>1, <2>1, <2>4, <2>5, <2>6, <2>7, <2>8, <2>9, Looks
<1>5. ASSUME t.step = "drop", ~DropWaits(r),
             Ids(EnrolmentsOf(t.target, SeenEnrolments(r))) \subseteq t.saw,
             txn' = [txn EXCEPT ![r].step = IF t.kind = "create" THEN "insert" ELSE "commit",
                                ![r].dropped = @ \cup t.saw \cup {t.target},
                                ![r].target = 0, ![r].saw = {}],
             UNCHANGED <<database, lastId, outside, history, bounds>>
      PROVE  IndInv'
  <2> DEFINE step == IF t.kind = "create" THEN "insert" ELSE "commit"
             gone == t.dropped \cup t.saw \cup {t.target}
             u == [t EXCEPT !.step = step, !.dropped = gone, !.target = 0, !.saw = {}]
  <2>1. t.inserted = {} /\ t.created = {} /\ t.kind \in {"create", "delete"}
    BY <1>1, <1>5 DEF Fit
  <2>2. gone \subseteq {0} \cup Known /\ gone \in SUBSET Nat
    <3>1. gone \subseteq {0} \cup Known
      BY <1>1 DEF IndInv, Numbered, Drawn
    <3> QED
      BY <1>1, <3>1 DEF Known
  <2>3. ASSUME NEW q \in Requests, NEW e \in SeenEnrolments(q) \cup txn[q].inserted
        PROVE  e.candidate \notin t.saw
    BY CandidatesKnown DEF IndInv, Keys, IdsApart, Ids
  <2>4. ASSUME NEW e \in SeenEnrolments(r), e.id \notin gone PROVE e.candidate \notin gone
    <3>1. e.candidate # t.target
      BY <1>5, <2>4 DEF EnrolmentsOf, Ids
    <3>2. e.candidate \notin t.dropped
      BY DEF IndInv, Keys, References, Ids, SeenCandidates
    <3> QED
      BY <2>3, <3>1, <3>2
  <2>5. ASSUME NEW q \in Requests \ {r}, NEW e \in txn[q].inserted PROVE e.candidate \notin gone
    <3>1. e.candidate # t.target
      BY <1>5 DEF DropWaits, Others, EnrolmentsOf
    <3>2. e.candidate \notin t.dropped
      BY DEF IndInv, Keys, References
    <3> QED
      BY <2>3, <3>1, <3>2
  <2>6. txn' = [txn EXCEPT ![r] = u]
    BY <1>5 DEF IndInv, Types
  <2> HIDE DEF gone
  <2>7. /\ u.created = t.created /\ u.inserted = t.inserted /\ u.callbacks = t.callbacks
        /\ u.answer = t.answer /\ u.dropped = gone /\ u.saw = {}
        /\ u.target = 0 /\ u.step = step /\ u.kind = t.kind /\ u.todo = t.todo
        /\ u.assessment = t.assessment /\ u.doomed = t.doomed
    BY <1>1 DEF Txn
  <2>8. u \in Txn
    BY <1>1, <2>2 DEF Txn, Steps
  <2>9. Fit(u)
    BY <1>1, <1>5, <2>1, <2>7 DEF Fit, Enrolling
  <2>10. t.dropped \subseteq gone /\ step \in {"insert", "commit"}
    BY DEF gone
  <2> HIDE DEF u, step
  <2> QED
    BY <1>5, <2>1, <2>2, <2>4, <2>5, <2>6, <2>7, <2>8, <2>9, <2>10, Moves
<1>6. t.step \in {"erase", "drop"} /\ Refuse(r) => IndInv'
  BY Refused
<1> QED
  BY <1>2, <1>3, <1>4, <1>5, <1>6 DEF Erase, Drop

-----------------------------------------------------------------------------
(* Inserting.                                                              *)

LEMMA ToSetConcat ==
    ASSUME NEW S, NEW s \in Seq(S), NEW t \in Seq(S)
    PROVE  ToSet(s \o t) = ToSet(s) \cup ToSet(t)
<1>1. ASSUME NEW x \in ToSet(s \o t) PROVE x \in ToSet(s) \cup ToSet(t)
  <2>1. PICK i \in 1..(Len(s) + Len(t)) : x = (s \o t)[i]
    BY DEF ToSet
  <2>2. CASE i <= Len(s)
    BY <2>1, <2>2 DEF ToSet
  <2>3. CASE i > Len(s)
    <3>1. x = t[i - Len(s)] /\ i - Len(s) \in 1..Len(t)
      BY <2>1, <2>3
    <3> QED
      BY <3>1 DEF ToSet
  <2> QED
    BY <2>2, <2>3
<1>2. ASSUME NEW x \in ToSet(s) PROVE x \in ToSet(s \o t)
  <2>1. PICK i \in 1..Len(s) : x = s[i]
    BY DEF ToSet
  <2>2. i \in 1..Len(s \o t) /\ (s \o t)[i] = x
    BY <2>1
  <2> QED
    BY <2>2 DEF ToSet
<1>3. ASSUME NEW x \in ToSet(t) PROVE x \in ToSet(s \o t)
  <2>1. PICK i \in 1..Len(t) : x = t[i]
    BY DEF ToSet
  <2>2. i + Len(s) \in 1..Len(s \o t) /\ (s \o t)[i + Len(s)] = x
    BY <2>1
  <2> QED
    BY <2>2 DEF ToSet
<1> QED
  BY <1>1, <1>2, <1>3

LEMMA ToSetOne ==
    ASSUME NEW x
    PROVE  ToSet(<<x>>) = {x}
<1>1. \A k \in DOMAIN <<x>> : <<x>>[k] = x
  OBVIOUS
<1>2. 1 \in DOMAIN <<x>>
  OBVIOUS
<1> QED
  BY <1>1, <1>2 DEF ToSet

\* What the insertion of an enrolment adds to the callbacks.
LEMMA CallbacksAdd ==
    ASSUME NEW t \in Txn, NEW id \in Nat, NEW u, u.callbacks = t.callbacks \o Callbacks(t, id)
    PROVE  /\ u.callbacks \in Seq(Call)
           /\ Invites(u) = Invites(t) \cup {id}
           /\ Analyses(u) = Analyses(t) \cup (IF t.kind = "enroll" /\ ~t.file THEN {} ELSE {id})
<1> DEFINE i == [do |-> "invite", for |-> id]
           a == [do |-> "analyse", for |-> id]
           new == Callbacks(t, id)
<1>1. /\ new \in Seq(Call)
      /\ ToSet(new) = {i} \cup (IF t.kind = "enroll" /\ ~t.file THEN {} ELSE {a})
  <2>1. i \in Call /\ a \in Call
    BY DEF Call
  <2>2. new = <<i>> \o (IF t.kind = "enroll" /\ ~t.file THEN <<>> ELSE <<a>>)
    BY DEF Callbacks
  <2> HIDE DEF new, i, a
  <2>3. <<i>> \in Seq(Call) /\ <<a>> \in Seq(Call) /\ <<>> \in Seq(Call)
    BY <2>1
  <2>4. ToSet(<<i>>) = {i} /\ ToSet(<<a>>) = {a} /\ ToSet(<<>>) = {}
    <3>1. ToSet(<<>>) = {}
      BY DEF ToSet
    <3> QED
      BY <3>1, ToSetOne
  <2>5. CASE t.kind = "enroll" /\ ~t.file
    <3>1. new = <<i>> \o <<>>
      BY <2>2, <2>5
    <3>2. ToSet(<<i>> \o <<>>) = ToSet(<<i>>) \cup ToSet(<<>>)
      BY ZenonT(40), <2>3, ToSetConcat
    <3>3. <<i>> \o <<>> \in Seq(Call)
      BY <2>3
    <3> QED
      BY <2>4, <2>5, <3>1, <3>2, <3>3
  <2>6. CASE ~(t.kind = "enroll" /\ ~t.file)
    <3>1. new = <<i>> \o <<a>>
      BY <2>2, <2>6
    <3>2. ToSet(<<i>> \o <<a>>) = ToSet(<<i>>) \cup ToSet(<<a>>)
      BY ZenonT(40), <2>3, ToSetConcat
    <3>3. <<i>> \o <<a>> \in Seq(Call)
      BY <2>3
    <3> QED
      BY <2>4, <2>6, <3>1, <3>2, <3>3
  <2> QED
    BY <2>5, <2>6
<1>2. t.callbacks \in Seq(Call)
  BY DEF Txn
<1>4. i.do = "invite" /\ i.for = id /\ a.do = "analyse" /\ a.for = id
  OBVIOUS
<1> HIDE DEF new, i, a
<1>3. u.callbacks \in Seq(Call) /\ ToSet(u.callbacks) = ToSet(t.callbacks) \cup ToSet(new)
  BY <1>1, <1>2, ToSetConcat DEF new
<1>5. Invites(u) = Invites(t) \cup {id}
  BY <1>1, <1>3, <1>4 DEF Invites, Targets
<1>6. Analyses(u) = Analyses(t) \cup (IF t.kind = "enroll" /\ ~t.file THEN {} ELSE {id})
  BY <1>1, <1>3, <1>4 DEF Analyses, Targets
<1> QED
  BY <1>3, <1>5, <1>6

LEMMA InsertStep ==
    ASSUME IndInv, NEW r \in Requests, Insert(r)
    PROVE  IndInv'
<1> DEFINE t == txn[r]
           new == t.target = 0
           c == IF new THEN lastId + 1 ELSE t.target
           id == IF new THEN lastId + 2 ELSE lastId + 1
           row == [id |-> id, candidate |-> c, assessment |-> t.assessment, active |-> TRUE,
                   resume |-> t.resume, asked |-> t.kind # "enroll" \/ t.file, saw |-> t.saw]
           person == [id |-> c, email |-> Head(t.todo), createdBy |-> Owner[t.assessment]]
           people == IF new THEN {person} ELSE {}
           next == IF t.kind = "upload" THEN "find" ELSE "commit"
           u == [t EXCEPT !.step = next, !.todo = Tail(@), !.created = @ \cup people,
                          !.inserted = @ \cup {row}, !.callbacks = @ \o Callbacks(t, id),
                          !.answer = @ \cup {id}]
<1>1. /\ t \in Txn /\ Fit(t) /\ t.target \in {0} \cup Known /\ lastId \in Nat
      /\ t.step = "insert" /\ ~InsertWaits(r) /\ ~InsertClashes(r)
      /\ lastId' = id /\ files' = files \cup (IF t.file THEN {id} ELSE {})
      /\ UNCHANGED <<database, analyses, history, bounds>>
  <2>1. t \in Txn /\ Fit(t) /\ t.target \in {0} \cup Known /\ lastId \in Nat
    BY ReqFacts DEF IndInv, Types
  <2>2. /\ t.step = "insert" /\ ~InsertWaits(r) /\ ~InsertClashes(r)
        /\ lastId' = id /\ files' = files \cup (IF t.file THEN {id} ELSE {})
    BY DEF Insert
  <2>3. UNCHANGED <<database, analyses, history, bounds>>
    BY DEF Insert
  <2> QED
    BY <2>1, <2>2, <2>3
<1>2. /\ t.kind \in Enrolling /\ t.todo # <<>> /\ t.assessment \in Assessments
      /\ Head(t.todo) \in Emails /\ Tail(t.todo) \in Seq(Emails)
  BY <1>1 DEF Fit, Txn
<1>3. /\ id \in Nat /\ c \in Nat /\ id > lastId /\ c # id
      /\ new => c > lastId
      /\ ~new => c \in Known
      /\ id \notin {0} \cup Known /\ Known \subseteq Known' /\ {c, id} \subseteq Known'
  BY <1>1 DEF Known
<1>4. row \in Row /\ person \in Person
  BY <1>1, <1>2, <1>3 DEF Row, Person, Recruiters, Txn
<1>5. txn' = [txn EXCEPT ![r] = u]
  <2>1. txn' = [txn EXCEPT ![r].step = next, ![r].todo = Tail(@), ![r].created = @ \cup people,
                           ![r].inserted = @ \cup {row}, ![r].callbacks = @ \o Callbacks(t, id),
                           ![r].answer = @ \cup {id}]
    BY DEF Insert
  <2> HIDE DEF next, people, row, id
  <2>2. DOMAIN txn = Requests
    BY DEF IndInv, Types
  <2> QED
    BY <2>1, <2>2
<1>6. txn'[r] = u /\ \A q \in Requests \ {r} : txn'[q] = txn[q]
  BY <1>5 DEF IndInv, Types
<1>7. row.id = id /\ row.candidate = c /\ row.assessment = t.assessment
      /\ (row.asked <=> t.kind # "enroll" \/ t.file)
      /\ person.id = c /\ person.email = Head(t.todo)
  OBVIOUS
<1> HIDE DEF row, person
<1>8. people \subseteq Person
  BY <1>4
<1>9. /\ u.step = next /\ u.created = t.created \cup people
      /\ u.inserted = t.inserted \cup {row} /\ u.dropped = t.dropped /\ u.saw = t.saw
      /\ u.callbacks = t.callbacks \o Callbacks(t, id) /\ u.answer = t.answer \cup {id}
      /\ u.target = t.target /\ u.kind = t.kind /\ u.assessment = t.assessment
      /\ u.todo = Tail(t.todo) /\ u.doomed = t.doomed
  BY <1>1 DEF Txn
<1> HIDE DEF u
<1>10. /\ u.callbacks \in Seq(Call)
       /\ Invites(u) = Invites(t) \cup {id}
       /\ Analyses(u) = Analyses(t) \cup (IF t.kind = "enroll" /\ ~t.file THEN {} ELSE {id})
  <2>1. t \in Txn /\ id \in Nat /\ u.callbacks = t.callbacks \o Callbacks(t, id)
    BY <1>1, <1>3, <1>9
  <2> HIDE DEF id, t
  <2> QED
    BY <2>1, CallbacksAdd
<1>11. u \in Txn
  BY <1>1, <1>2, <1>3, <1>4, <1>8, <1>9, <1>10 DEF u, Txn, Steps
<1>12. Fit(u)
  BY <1>1, <1>2, <1>9 DEF Fit, Enrolling
<1>13. Types'
  BY <1>1, <1>3, <1>5, <1>6, <1>11, <1>12 DEF IndInv, Types, database, bounds
<1> HIDE DEF c, id
<1>14. Numbered'
  <2>1. Drawn(txn[r])'
    BY <1>1, <1>3, <1>6, <1>7, <1>9 DEF IndInv, Numbered, Drawn
  <2>2. \A q \in Requests \ {r} : Drawn(txn[q])'
    BY <1>3, <1>6 DEF IndInv, Numbered, Drawn
  <2>3. \A q \in Requests : Drawn(txn[q])'
    BY <2>1, <2>2
  <2> QED
    BY <1>1, <1>3, <2>3 DEF IndInv, Numbered, database, history
<1>15. Persons' = Persons \cup people
  BY <1>1, <1>6, <1>9 DEF Persons, database
<1>16. /\ \A p \in Persons : p.id \in Known
       /\ \A e \in enrolments : e.id \in Known
       /\ \A q \in Requests : Drawn(txn[q])
  BY DEF IndInv, Numbered, Drawn, Persons
<1>17. IdsApart'
  <2>1. \A p, d \in Persons' : p.id = d.id => p = d
    BY <1>1, <1>3, <1>7, <1>15, <1>16 DEF IndInv, Keys, IdsApart, Known
  <2>2. ASSUME NEW p \in Persons'
        PROVE  /\ \A e \in enrolments' : p.id # e.id
               /\ \A q \in Requests :
                     p.id \notin txn'[q].saw /\ \A e \in txn'[q].inserted : p.id # e.id
    <3>1. CASE p \in Persons
      BY <1>1, <1>3, <1>6, <1>7, <1>9, <1>16, <3>1 DEF IndInv, Keys, IdsApart, database
    <3>2. CASE new /\ p = person
      <4>1. p.id > lastId
        BY <1>3, <1>7, <3>2
      <4>2. p.id \notin {0} \cup Known /\ p.id # id
        BY <1>1, <1>3, <1>7, <3>2, <4>1 DEF Known
      <4> QED
        BY <1>1, <1>6, <1>7, <1>9, <1>16, <4>2 DEF Drawn, database
    <3> QED
      BY <1>15, <3>1, <3>2
  <2> QED
    BY <2>1, <2>2 DEF IdsApart
<1>18. RowsApart'
  BY <1>1, <1>3, <1>6, <1>7, <1>9, <1>16 DEF IndInv, Keys, RowsApart, Drawn, database
<1>19. /\ SeenCandidates(r)' = SeenCandidates(r) \cup people
       /\ SeenEnrolments(r)' = SeenEnrolments(r) \cup {row}
  <2>1. new => c \notin t.dropped
    BY <1>1, <1>3, <1>16 DEF Drawn, Known
  <2>2. id \notin t.dropped
    BY <1>3, <1>16 DEF Drawn
  <2> QED
    BY <1>1, <1>6, <1>7, <1>9, <2>1, <2>2 DEF SeenCandidates, SeenEnrolments, database
<1>20. EmailsApart'
  <2>1. new => \A p \in SeenCandidates(r) : p.email # person.email
    BY <1>1, <1>7 DEF InsertClashes
  <2>2. new => \A q \in Requests \ {r} : \A p \in txn[q].created : p.email # person.email
    BY <1>1, <1>7 DEF InsertWaits, Others
  <2> QED
    BY <1>1, <1>6, <1>9, <1>19, <2>1, <2>2, OthersSee DEF IndInv, Keys, EmailsApart, OneEmail, database
<1>21. EnrolmentsApart'
  <2>1. ASSUME NEW e \in SeenEnrolments(r) PROVE ~Same(e, row)
    <3>1. CASE new
      BY <1>1, <1>3, <1>7, <3>1, ReqFacts DEF Same, Known
    <3>2. CASE ~new
      BY <1>1, <1>7, <3>2 DEF Same, InsertClashes, EnrolmentsOf, c
    <3> QED
      BY <3>1, <3>2
  <2>2. ASSUME NEW q \in Requests \ {r}, NEW e \in txn[q].inserted PROVE ~Same(e, row)
    <3>1. CASE new
      BY <1>1, <1>3, <1>7, <1>16, <3>1 DEF Same, Known, Drawn
    <3>2. CASE ~new
      BY <1>1, <1>7, <3>2 DEF Same, InsertWaits, Others, c
    <3> QED
      BY <3>1, <3>2
  <2>3. \A e \in SeenEnrolments(r)', f \in SeenEnrolments(r)' : Same(e, f) => e = f
    BY <1>19, <2>1 DEF IndInv, Keys, EnrolmentsApart, OneRow, Same
  <2>4. \A p, q \in Requests : p # q =>
          \A e \in txn'[p].inserted, f \in txn'[q].inserted : ~Same(e, f)
    BY <1>6, <1>9, <2>2 DEF IndInv, Keys, EnrolmentsApart, Same
  <2>5. OneRow(enrolments)' /\ \A q \in Requests \ {r} : OneRow(SeenEnrolments(q))'
    BY <1>1, <1>6, OthersSee DEF IndInv, Keys, EnrolmentsApart, OneRow, database
  <2> QED
    BY <2>3, <2>4, <2>5 DEF EnrolmentsApart, OneRow
<1>22. References'
  <2>1. c \in Ids(SeenCandidates(r)')
    <3>1. CASE new
      BY <1>7, <1>19, <3>1 DEF Ids
    <3>2. CASE ~new
      BY <1>1, <1>19, <3>2 DEF Ids, InsertClashes, c
    <3> QED
      BY <3>1, <3>2
  <2>2. \A q \in Requests \ {r} : c \notin txn[q].dropped
    <3>1. CASE new
      BY <1>1, <1>3, <1>16, <3>1 DEF Drawn, Known
    <3>2. CASE ~new
      BY <1>1, <3>2 DEF InsertWaits, Others, c
    <3> QED
      BY <3>1, <3>2
  <2>3. \A e \in SeenEnrolments(r)' : e.candidate \in Ids(SeenCandidates(r)')
    BY <1>7, <1>19, <2>1 DEF IndInv, Keys, References, Ids
  <2>4. ASSUME NEW q \in Requests \ {r}, NEW e \in SeenEnrolments(q)'
        PROVE  e.candidate \in Ids(SeenCandidates(q)')
    BY <1>1, <1>6, OthersSee DEF IndInv, Keys, References
  <2>5. \A e \in enrolments' : e.candidate \in Ids(candidates')
    BY <1>1 DEF IndInv, Keys, References, database
  <2>6. \A p, q \in Requests : p # q =>
          \A e \in txn'[p].inserted : e.candidate \notin txn'[q].dropped
    BY <1>6, <1>7, <1>9, <2>2 DEF IndInv, Keys, References
  <2> QED
    BY <2>3, <2>4, <2>5, <2>6 DEF References, Ids
<1>23. Work'
  <2>1. Prepared(t) /\ t.step # "callbacks" /\ u.step # "callbacks"
    BY <1>1, <1>9 DEF IndInv, Work
  <2>2. id \notin enrolled /\ \A q \in Requests : id \notin Ids(txn[q].inserted)
    BY <1>3, <1>16 DEF IndInv, Numbered, Drawn, Ids
  <2>3. Ids(u.inserted) = Ids(t.inserted) \cup {id}
    BY <1>7, <1>9 DEF Ids
  <2>4. files \cap {id} = {}
    BY <1>3 DEF IndInv, Numbered
  <2>5. t.file => id \in Analyses(u)
    BY <1>10
  <2>6. files' \cap Ids(u.inserted) \subseteq Analyses(u)
    BY <1>1, <1>10, <2>1, <2>2, <2>3, <2>4, <2>5 DEF Prepared
  <2>7. \A e \in u.inserted : e.asked => e.id \in Analyses(u)
    BY <1>7, <1>9, <1>10, <2>1 DEF Prepared
  <2>8. Prepared(txn[r])'
    BY <1>1, <1>6, <1>9, <1>10, <2>1, <2>3, <2>6, <2>7 DEF Prepared, history
  <2>9. ASSUME NEW q \in Requests \ {r} PROVE Prepared(txn[q])'
    <3>1. files' \cap Ids(txn[q].inserted) = files \cap Ids(txn[q].inserted)
      BY <1>1, <2>2
    <3>2. Prepared(txn[q])
      BY DEF IndInv, Work
    <3> QED
      BY <1>1, <1>6, <3>1, <3>2 DEF Prepared, history
  <2>10. \A q \in Requests : Prepared(txn[q])'
    BY <2>8, <2>9
  <2>11. files' \cap enrolled = files \cap enrolled
    BY <1>1, <2>2
  <2>12. DueInvites' = DueInvites /\ DueAnalyses' = DueAnalyses
    BY <1>6, <2>1, DueKept
  <2> QED
    BY <1>1, <2>10, <2>11, <2>12 DEF IndInv, Work, database, history
<1> QED
  BY <1>13, <1>14, <1>17, <1>18, <1>20, <1>21, <1>22, <1>23 DEF IndInv, Keys

LEMMA FailureSteps ==
    ASSUME IndInv, NEW r \in Requests
    PROVE  InsertRefused(r) \/ StatementFails(r) \/ CommitFails(r) => IndInv'
<1>1. ASSUME Broken(r), txn[r].step # "callbacks", txn[r].kind = "upload" => txn[r].todo # <<>>
      PROVE  IndInv'
  BY <1>1, Skips, Refused DEF Broken
<1>2. ASSUME InsertRefused(r) PROVE IndInv'
  BY <1>1, <1>2, ReqFacts DEF InsertRefused, Fit
<1>3. ASSUME StatementFails(r) PROVE IndInv'
  BY <1>1, <1>3 DEF StatementFails
<1>4. ASSUME CommitFails(r) PROVE IndInv'
  BY <1>4, Refused DEF CommitFails
<1> QED
  BY <1>2, <1>3, <1>4

-----------------------------------------------------------------------------
(* The commit.                                                             *)

LEMMA CommitStep ==
    ASSUME IndInv, NEW r \in Requests, Commit(r)
    PROVE  IndInv'
<1> DEFINE t == txn[r]
           u == [Idle EXCEPT !.step = "callbacks", !.callbacks = t.callbacks, !.answer = t.answer]
<1>1. /\ t \in Txn /\ Fit(t) /\ Drawn(t) /\ t.step = "commit"
      /\ candidates' = SeenCandidates(r) /\ enrolments' = SeenEnrolments(r)
      /\ enrolled' = enrolled \cup Ids(t.inserted)
      /\ UNCHANGED <<lastId, outside, invited, forsaken, confirmed, bounds>>
  <2>1. t \in Txn /\ Fit(t) /\ Drawn(t) /\ t.step = "commit"
    BY DEF IndInv, Types, Numbered, Commit
  <2>2. /\ candidates' = SeenCandidates(r) /\ enrolments' = SeenEnrolments(r)
        /\ enrolled' = enrolled \cup Ids(t.inserted)
    BY DEF Commit
  <2>3. UNCHANGED <<lastId, outside, invited, forsaken, confirmed, bounds>>
    BY DEF Commit
  <2> QED
    BY <2>1, <2>2, <2>3
<1>2. txn'[r] = u /\ \A q \in Requests \ {r} : txn'[q] = txn[q]
  BY DEF Commit, IndInv, Types
<1>3. u \in Txn /\ Fit(u)
  <2>1. t.callbacks \in Seq(Call) /\ t.answer \in SUBSET Nat
    BY <1>1 DEF Txn
  <2> HIDE DEF t
  <2>2. u \in Txn
    BY <2>1, IdleFits DEF Txn, Steps
  <2>3. Fit(u)
    BY DEF Idle, Fit, Enrolling
  <2> QED
    BY <2>2, <2>3
<1>4. /\ u.created = {} /\ u.inserted = {} /\ u.dropped = {} /\ u.saw = {} /\ u.target = 0
      /\ u.step = "callbacks" /\ u.callbacks = t.callbacks /\ u.answer = t.answer
  BY DEF Idle
<1> HIDE DEF u
<1>5. /\ SeenCandidates(r) \subseteq candidates \cup t.created
      /\ SeenEnrolments(r) \subseteq enrolments \cup t.inserted
  BY DEF SeenCandidates, SeenEnrolments
<1>6. Types'
  <2>1. candidates' \subseteq Person /\ enrolments' \subseteq Row
    BY <1>1, ReqFacts
  <2>2. txn' \in [Requests -> Txn]
    BY <1>3 DEF Commit, IndInv, Types, u
  <2>3. \A q \in Requests : Fit(txn'[q])
    BY <1>2, <1>3 DEF IndInv, Types
  <2>4. lastId' = lastId /\ begun' = begun /\ crashes' = crashes
    BY <1>1 DEF bounds
  <2> QED
    BY <2>1, <2>2, <2>3, <2>4 DEF Types, IndInv
<1>7. Numbered'
  <2>1. Known' = Known
    BY <1>1 DEF Known
  <2>2. /\ \A c \in candidates' : c.id \in Known
        /\ \A e \in enrolments' : e.id \in Known
    BY <1>1, ReqFacts
  <2>3. files' \cup enrolled' \subseteq Known
    BY <1>1 DEF outside, IndInv, Numbered, Drawn, Ids
  <2>4. Drawn(txn[r])'
    BY <1>2, <1>4 DEF Drawn
  <2>5. \A q \in Requests \ {r} : Drawn(txn[q])'
    BY <1>2, <2>1 DEF Drawn, IndInv, Numbered
  <2>6. \A q \in Requests : Drawn(txn[q])'
    BY <2>4, <2>5
  <2> QED
    BY <2>1, <2>2, <2>3, <2>6 DEF Numbered
<1>8. IdsApart'
  <2>1. Persons' \subseteq Persons
    BY <1>1, <1>2, <1>4, <1>5 DEF Persons
  <2>2. \A c, d \in Persons' : c.id = d.id => c = d
    BY <2>1 DEF IndInv, Keys, IdsApart
  <2>3. ASSUME NEW c \in Persons, NEW e \in enrolments' PROVE c.id # e.id
    BY <1>1, <1>5 DEF IndInv, Keys, IdsApart
  <2>4. ASSUME NEW c \in Persons, NEW q \in Requests
        PROVE  c.id \notin txn'[q].saw /\ \A e \in txn'[q].inserted : c.id # e.id
    BY <1>2, <1>4 DEF IndInv, Keys, IdsApart
  <2> QED
    BY <2>1, <2>2, <2>3, <2>4 DEF IdsApart
<1>9. RowsApart'
  BY <1>1, <1>2, <1>4, <1>5 DEF IndInv, Keys, RowsApart
<1>10. /\ SeenCandidates(r)' = SeenCandidates(r)
       /\ SeenEnrolments(r)' = SeenEnrolments(r)
  BY <1>1, <1>2, <1>4 DEF SeenCandidates, SeenEnrolments
<1>11. ASSUME NEW q \in Requests \ {r}
       PROVE  /\ SeenCandidates(q)' = {c \in SeenCandidates(r) \cup txn[q].created :
                                           c.id \notin txn[q].dropped}
              /\ SeenEnrolments(q)' = {e \in SeenEnrolments(r) \cup txn[q].inserted :
                                           e.id \notin txn[q].dropped}
  <2>1. SeenCandidates(q)' = {c \in candidates' \cup txn'[q].created : c.id \notin txn'[q].dropped}
    BY DEF SeenCandidates
  <2>2. SeenEnrolments(q)' = {e \in enrolments' \cup txn'[q].inserted : e.id \notin txn'[q].dropped}
    BY DEF SeenEnrolments
  <2> QED
    BY <1>1, <1>2, <2>1, <2>2
<1>12. EmailsApart'
  <2>1. ASSUME NEW q \in Requests \ {r} PROVE OneEmail(SeenCandidates(q)')
    <3>1. ASSUME NEW c \in SeenCandidates(r), c.id \notin txn[q].dropped,
                 NEW d \in txn[q].created, d.id \notin txn[q].dropped, c.email = d.email
          PROVE  c = d
      <4>1. CASE c \in candidates
        BY <3>1, <4>1 DEF IndInv, Keys, EmailsApart, OneEmail, SeenCandidates
      <4>2. CASE c \in t.created
        BY <3>1, <4>2 DEF IndInv, Keys, EmailsApart
      <4> QED
        BY <1>5, <4>1, <4>2
    <3>2. \A c, d \in SeenCandidates(r) : c.email = d.email => c = d
      BY DEF IndInv, Keys, EmailsApart, OneEmail
    <3>3. \A c, d \in txn[q].created :
             c.id \notin txn[q].dropped /\ d.id \notin txn[q].dropped /\ c.email = d.email => c = d
      BY DEF IndInv, Keys, EmailsApart, OneEmail, SeenCandidates
    <3> QED
      BY <1>11, <3>1, <3>2, <3>3 DEF OneEmail
  <2>2. OneEmail(candidates') /\ OneEmail(SeenCandidates(r)')
    BY <1>1, <1>10 DEF IndInv, Keys, EmailsApart
  <2>3. \A p, q \in Requests : p # q =>
          \A c \in txn'[p].created, d \in txn'[q].created : c.email # d.email
    BY <1>2, <1>4 DEF IndInv, Keys, EmailsApart
  <2> QED
    BY <2>1, <2>2, <2>3 DEF EmailsApart, OneEmail
<1>13. EnrolmentsApart'
  <2>1. ASSUME NEW q \in Requests \ {r} PROVE OneRow(SeenEnrolments(q)')
    <3>1. ASSUME NEW e \in SeenEnrolments(r), e.id \notin txn[q].dropped,
                 NEW f \in txn[q].inserted, f.id \notin txn[q].dropped
          PROVE  (~Same(e, f) /\ ~Same(f, e)) \/ e = f
      <4>1. CASE e \in enrolments
        BY <3>1, <4>1 DEF IndInv, Keys, EnrolmentsApart, OneRow, SeenEnrolments
      <4>2. CASE e \in t.inserted
        BY <3>1, <4>2 DEF IndInv, Keys, EnrolmentsApart
      <4> QED
        BY <1>5, <4>1, <4>2
    <3>2. \A e, f \in SeenEnrolments(r) : Same(e, f) => e = f
      BY DEF IndInv, Keys, EnrolmentsApart, OneRow
    <3>3. \A e, f \in txn[q].inserted :
             e.id \notin txn[q].dropped /\ f.id \notin txn[q].dropped /\ Same(e, f) => e = f
      BY DEF IndInv, Keys, EnrolmentsApart, OneRow, SeenEnrolments
    <3> QED
      BY <1>11, <3>1, <3>2, <3>3 DEF OneRow
  <2>2. OneRow(enrolments') /\ OneRow(SeenEnrolments(r)')
    BY <1>1, <1>10 DEF IndInv, Keys, EnrolmentsApart
  <2>3. \A p, q \in Requests : p # q =>
          \A e \in txn'[p].inserted, f \in txn'[q].inserted : ~Same(e, f)
    BY <1>2, <1>4 DEF IndInv, Keys, EnrolmentsApart
  <2> QED
    BY <2>1, <2>2, <2>3 DEF EnrolmentsApart, OneRow
<1>14. References'
  <2>1. ASSUME NEW q \in Requests \ {r}, NEW e \in SeenEnrolments(q)'
        PROVE  e.candidate \in Ids(SeenCandidates(q)')
    <3>1. CASE e \in SeenEnrolments(r)
      <4>1. PICK c \in SeenCandidates(r) : c.id = e.candidate
        BY <3>1 DEF IndInv, Keys, References, Ids
      <4>2. e.candidate \notin txn[q].dropped
        <5>1. CASE e \in enrolments
          <6>1. e \in SeenEnrolments(q)
            BY <1>11, <5>1 DEF SeenEnrolments
          <6>2. PICK d \in SeenCandidates(q) : d.id = e.candidate
            BY <6>1 DEF IndInv, Keys, References, Ids
          <6> QED
            BY <6>2 DEF SeenCandidates
        <5>2. CASE e \in t.inserted
          BY <5>2 DEF IndInv, Keys, References
        <5> QED
          BY <1>5, <3>1, <5>1, <5>2
      <4>3. c \in SeenCandidates(q)'
        BY <1>11, <4>1, <4>2
      <4> QED
        BY <4>1, <4>3 DEF Ids
    <3>2. CASE e \in txn[q].inserted
      <4>1. e \in SeenEnrolments(q)
        BY <1>11, <3>2 DEF SeenEnrolments
      <4>2. PICK c \in SeenCandidates(q) : c.id = e.candidate
        BY <4>1 DEF IndInv, Keys, References, Ids
      <4>3. e.candidate \notin t.dropped
        BY <3>2 DEF IndInv, Keys, References
      <4>4. c \in SeenCandidates(r) \cup txn[q].created /\ c.id \notin txn[q].dropped
        BY <4>2, <4>3 DEF SeenCandidates
      <4>5. c \in SeenCandidates(q)'
        BY <1>11, <4>4
      <4> QED
        BY <4>2, <4>5 DEF Ids
    <3> QED
      BY <1>11, <3>1, <3>2
  <2>2. /\ \A e \in enrolments' : e.candidate \in Ids(candidates')
        /\ \A e \in SeenEnrolments(r)' : e.candidate \in Ids(SeenCandidates(r)')
    BY <1>1, <1>10 DEF IndInv, Keys, References
  <2>3. \A p, q \in Requests : p # q =>
          \A e \in txn'[p].inserted : e.candidate \notin txn'[q].dropped
    BY <1>2, <1>4 DEF IndInv, Keys, References
  <2> QED
    BY <2>1, <2>2, <2>3 DEF References, Ids
<1>15. Work'
  <2>1. Prepared(t)
    BY DEF IndInv, Work
  <2>2. Invites(u) = Invites(t) /\ Analyses(u) = Analyses(t)
    BY <1>4, SameTargets
  <2>3. files' = files /\ analyses' = analyses
    BY <1>1 DEF outside
  <2>4. Prepared(txn[r])'
    BY <1>1, <1>2, <1>4, <2>1, <2>2 DEF Prepared
  <2>5. ASSUME NEW q \in Requests \ {r} PROVE Prepared(txn[q])'
    <3>1. Prepared(txn[q])
      BY DEF IndInv, Work
    <3> QED
      BY <1>1, <1>2, <2>3, <3>1 DEF Prepared
  <2>6. /\ DueInvites \cup Invites(t) \subseteq DueInvites'
        /\ DueAnalyses \cup Analyses(t) \subseteq DueAnalyses'
    <3>1. Committed' = Committed \cup {r} /\ \A q \in Committed : txn'[q] = txn[q]
      BY <1>1, <1>2, <1>4 DEF Committed
    <3> QED
      BY <1>2, <2>2, <3>1 DEF DueInvites, DueAnalyses
  <2>7. Ids(t.inserted) \subseteq Invites(t)
    BY <1>1, <2>1 DEF Prepared
  <2>8. files \cap Ids(t.inserted) \subseteq Analyses(t)
    BY <1>1, <2>1 DEF Prepared
  <2>9. ASSUME NEW e \in enrolments', e.asked, e.resume = "PENDING"
        PROVE  e.id \in analyses' \cup forsaken' \cup DueAnalyses'
    <3>1. CASE e \in enrolments
      BY <1>1, <2>3, <2>6, <2>9, <3>1 DEF IndInv, Work
    <3>2. CASE e \in t.inserted
      BY <1>1, <2>1, <2>6, <2>9, <3>2 DEF Prepared
    <3> QED
      BY <1>1, <1>5, <3>1, <3>2
  <2>10. \A q \in Requests : Prepared(txn[q])'
    BY <2>4, <2>5
  <2>11. enrolled' \subseteq invited' \cup forsaken' \cup DueInvites'
    BY <1>1, <2>6, <2>7 DEF IndInv, Work
  <2>12. files' \cap enrolled' \subseteq analyses' \cup forsaken' \cup DueAnalyses'
    BY <1>1, <2>3, <2>6, <2>8 DEF IndInv, Work
  <2>13. invited' \cup analyses' \subseteq enrolled' /\ confirmed' \subseteq enrolled' \cap invited'
    BY <1>1, <2>3 DEF IndInv, Work
  <2> QED
    BY <2>9, <2>10, <2>11, <2>12, <2>13 DEF Work
<1> QED
  BY <1>6, <1>7, <1>8, <1>9, <1>12, <1>13, <1>14, <1>15 DEF IndInv, Keys


-----------------------------------------------------------------------------
(* After the commit.                                                       *)

\* A request keeps its rows, or is over.
Settled(q) ==
    \/ /\ txn'[q].created = txn[q].created /\ txn'[q].inserted = txn[q].inserted
       /\ txn'[q].dropped = txn[q].dropped /\ txn'[q].saw = txn[q].saw
    \/ /\ txn'[q].created = {} /\ txn'[q].inserted = {}
       /\ txn'[q].dropped = {} /\ txn'[q].saw = {}

LEMMA KeysKept ==
    ASSUME Keys, UNCHANGED database, \A q \in Requests : Settled(q)
    PROVE  Keys'
<1>1. candidates' = candidates /\ enrolments' = enrolments
  BY DEF database
<1>2. \A q \in Requests :
         /\ txn'[q].created \subseteq txn[q].created /\ txn'[q].inserted \subseteq txn[q].inserted
         /\ txn'[q].dropped \subseteq txn[q].dropped /\ txn'[q].saw \subseteq txn[q].saw
  BY DEF Settled
<1>3. Persons' \subseteq Persons
  BY <1>1, <1>2 DEF Persons
<1>4. IdsApart'
  BY <1>1, <1>2, <1>3 DEF Keys, IdsApart
<1>5. RowsApart'
  BY <1>1, <1>2 DEF Keys, RowsApart
<1>6. ASSUME NEW q \in Requests
      PROVE  \/ SeenCandidates(q)' = SeenCandidates(q) /\ SeenEnrolments(q)' = SeenEnrolments(q)
             \/ SeenCandidates(q)' = candidates /\ SeenEnrolments(q)' = enrolments
  BY <1>1 DEF Settled, SeenCandidates, SeenEnrolments
<1>7. EmailsApart'
  BY <1>1, <1>2, <1>6 DEF Keys, EmailsApart, OneEmail
<1>8. EnrolmentsApart'
  BY <1>1, <1>2, <1>6 DEF Keys, EnrolmentsApart, OneRow
<1>9. References'
  <2>1. \A e \in enrolments' : e.candidate \in Ids(candidates')
    BY <1>1 DEF Keys, References
  <2>2. ASSUME NEW q \in Requests, NEW e \in SeenEnrolments(q)'
        PROVE  e.candidate \in Ids(SeenCandidates(q)')
    BY <1>6 DEF Keys, References
  <2>3. \A p, q \in Requests : p # q =>
          \A e \in txn'[p].inserted : e.candidate \notin txn'[q].dropped
    BY <1>2 DEF Keys, References
  <2> QED
    BY <2>1, <2>2, <2>3 DEF References, Ids
<1> QED
  BY <1>4, <1>5, <1>7, <1>8, <1>9 DEF Keys

\* A request that is over the commit becomes u, and what u no longer has to do is
\* done or forsaken.
LEMMA Ends ==
    ASSUME IndInv, NEW r \in Requests, NEW u \in Txn, Fit(u), Drawn(u), txn[r].step = "callbacks",
           txn' = [txn EXCEPT ![r] = u],
           \/ /\ u.created = txn[r].created /\ u.inserted = txn[r].inserted
              /\ u.dropped = txn[r].dropped /\ u.saw = txn[r].saw
           \/ Blank(u),
           u.step = "callbacks" \/ Blank(u),
           Invites(u) \subseteq Invites(txn[r]), Analyses(u) \subseteq Analyses(txn[r]),
           u.answer \subseteq txn[r].answer,
           UNCHANGED <<database, lastId, files, enrolled, bounds>>,
           invited \subseteq invited', invited' \subseteq enrolled,
           analyses \subseteq analyses', analyses' \subseteq enrolled,
           forsaken \subseteq forsaken',
           confirmed' \subseteq enrolled \cap invited',
           Invites(txn[r]) \subseteq invited' \cup forsaken' \cup Invites(u),
           Analyses(txn[r]) \subseteq analyses' \cup forsaken' \cup Analyses(u),
           u.answer \subseteq invited' \cup Invites(u)
    PROVE  IndInv'
<1>1. txn'[r] = u /\ \A q \in Requests \ {r} : txn'[q] = txn[q]
  BY DEF IndInv, Types
<1>2. Types'
  BY <1>1 DEF IndInv, Types, database, bounds
<1>3. Numbered'
  BY <1>1 DEF IndInv, Numbered, Drawn, Known, database
<1>4. Keys'
  <2>1. \A q \in Requests : Settled(q)
    BY <1>1 DEF Settled, Blank
  <2> QED
    BY <2>1, KeysKept DEF IndInv
<1>5. ASSUME NEW x \in DueInvites PROVE x \in invited' \cup forsaken' \cup DueInvites'
  <2>1. PICK q \in Requests : txn[q].step = "callbacks" /\ x \in Invites(txn[q])
    BY DEF DueInvites, Committed
  <2>2. CASE q # r
    BY <1>1, <2>1, <2>2 DEF DueInvites, Committed
  <2>3. CASE q = r /\ x \in Invites(u)
    <3>1. u.step = "callbacks"
      BY <2>3, BlankTargets DEF Blank
    <3> QED
      BY <1>1, <2>3, <3>1 DEF DueInvites, Committed
  <2> QED
    BY <2>1, <2>2, <2>3
<1>6. ASSUME NEW x \in DueAnalyses PROVE x \in analyses' \cup forsaken' \cup DueAnalyses'
  <2>1. PICK q \in Requests : txn[q].step = "callbacks" /\ x \in Analyses(txn[q])
    BY DEF DueAnalyses, Committed
  <2>2. CASE q # r
    BY <1>1, <2>1, <2>2 DEF DueAnalyses, Committed
  <2>3. CASE q = r /\ x \in Analyses(u)
    <3>1. u.step = "callbacks"
      BY <2>3, BlankTargets DEF Blank
    <3> QED
      BY <1>1, <2>3, <3>1 DEF DueAnalyses, Committed
  <2> QED
    BY <2>1, <2>2, <2>3
<1>7. Work'
  <2>1. ASSUME NEW q \in Requests \ {r} PROVE Prepared(txn[q])'
    <3>1. Prepared(txn[q])
      BY DEF IndInv, Work
    <3> QED
      BY <1>1, <3>1 DEF Prepared
  <2>2. Prepared(txn[r])'
    <3>1. CASE u.step = "callbacks"
      <4>1. Prepared(txn[r])
        BY DEF IndInv, Work
      <4> QED
        BY <1>1, <3>1, <4>1 DEF Prepared
    <3>2. CASE Blank(u)
      BY <1>1, <3>2, BlankTargets DEF Prepared, Blank, Ids
    <3> QED
      BY <3>1, <3>2
  <2>3. \A q \in Requests : Prepared(txn[q])'
    BY <2>1, <2>2
  <2> QED
    BY <1>5, <1>6, <2>3 DEF IndInv, Work, database
<1> QED
  BY <1>2, <1>3, <1>4, <1>7 DEF IndInv

LEMMA ToSetSplit ==
    ASSUME NEW S, NEW s \in Seq(S), s # <<>>
    PROVE  ToSet(s) = {Head(s)} \cup ToSet(Tail(s))
<1>1. Tail(s) \in Seq(S) /\ Len(Tail(s)) = Len(s) - 1 /\ Len(s) \in Nat \ {0}
  OBVIOUS
<1>2. s[1] = Head(s) /\ \A i \in 1..(Len(s) - 1) : Tail(s)[i] = s[i + 1]
  OBVIOUS
<1>3. ASSUME NEW x \in ToSet(s) PROVE x \in {Head(s)} \cup ToSet(Tail(s))
  <2>1. PICK i \in 1..Len(s) : x = s[i]
    BY DEF ToSet
  <2>2. CASE i = 1
    BY <1>2, <2>1, <2>2
  <2>3. CASE i # 1
    <3>1. i - 1 \in 1..(Len(s) - 1) /\ (i - 1) + 1 = i
      BY <1>1, <2>3
    <3>2. Tail(s)[i - 1] = x
      BY <1>2, <2>1, <3>1
    <3>3. i - 1 \in 1..Len(Tail(s))
      BY <1>1, <3>1
    <3>4. i - 1 \in DOMAIN Tail(s)
      BY <1>1, <3>3
    <3>5. x \in {Tail(s)[j] : j \in DOMAIN Tail(s)}
      BY <3>2, <3>4
    <3> QED
      BY <3>5 DEF ToSet
  <2> QED
    BY <2>2, <2>3
<1>4. Head(s) \in ToSet(s)
  BY <1>1, <1>2 DEF ToSet
<1>5. ASSUME NEW x \in ToSet(Tail(s)) PROVE x \in ToSet(s)
  <2>1. PICK i \in 1..Len(Tail(s)) : x = Tail(s)[i]
    BY DEF ToSet
  <2>2. i + 1 \in 1..Len(s) /\ s[i + 1] = x
    BY <1>1, <1>2, <2>1
  <2> QED
    BY <2>2 DEF ToSet
<1> QED
  BY <1>3, <1>4, <1>5

LEMMA IdleEnds == Drawn(Idle) /\ Invites(Idle) = {} /\ Analyses(Idle) = {}
<1>1. Idle.created = {} /\ Idle.inserted = {} /\ Idle.saw = {} /\ Idle.dropped = {}
      /\ Idle.target = 0 /\ Idle.callbacks = <<>>
  BY DEF Idle
<1> HIDE DEF Idle
<1> QED
  BY <1>1, BlankTargets DEF Drawn

\* What is known of a request that is over the commit.
LEMMA CallbackFacts ==
    ASSUME IndInv, NEW r \in Requests, txn[r].step = "callbacks"
    PROVE  /\ txn[r] \in Txn /\ Fit(txn[r]) /\ Drawn(txn[r])
           /\ txn[r].answer \subseteq invited \cup Invites(txn[r])
           /\ Invites(txn[r]) \cup Analyses(txn[r]) \cup txn[r].answer \subseteq enrolled
           /\ CallbackTargets(r) = Invites(txn[r]) \cup Analyses(txn[r])
<1>1. txn[r] \in Txn /\ Fit(txn[r]) /\ Drawn(txn[r]) /\ Prepared(txn[r])
  BY DEF IndInv, Types, Numbered, Work
<1>2. \A c \in ToSet(txn[r].callbacks) : c.do \in {"invite", "analyse"}
  <2>1. txn[r].callbacks \in Seq(Call)
    BY <1>1 DEF Txn
  <2>2. ASSUME NEW c \in ToSet(txn[r].callbacks) PROVE c \in Call
    <3>1. PICK i \in 1..Len(txn[r].callbacks) : c = txn[r].callbacks[i]
      BY DEF ToSet
    <3> QED
      BY <2>1, <3>1
  <2> QED
    BY <2>2 DEF Call
<1>3. CallbackTargets(r) = Invites(txn[r]) \cup Analyses(txn[r])
  BY <1>2 DEF CallbackTargets, Invites, Analyses, Targets
<1> QED
  BY <1>1, <1>3 DEF Prepared

LEMMA CallbackSteps ==
    ASSUME IndInv, NEW r \in Requests
    PROVE  RunCallback(r) \/ CallbackRaises(r) \/ Answer(r) => IndInv'
<1>1. ASSUME RunCallback(r) PROVE IndInv'
  <2> DEFINE t == txn[r]
             c == Head(t.callbacks)
             u == [t EXCEPT !.callbacks = Tail(@)]
  <2>1. /\ t.step = "callbacks" /\ t.callbacks # <<>>
        /\ invited' = invited \cup (IF c.do = "invite" THEN {c.for} ELSE {})
        /\ analyses' = analyses \cup (IF c.do = "analyse" THEN {c.for} ELSE {})
        /\ UNCHANGED <<database, lastId, files, enrolled, forsaken, confirmed, bounds>>
    <3>1. t.step = "callbacks" /\ t.callbacks # <<>>
      BY <1>1 DEF RunCallback
    <3>2. /\ invited' = invited \cup (IF c.do = "invite" THEN {c.for} ELSE {})
          /\ analyses' = analyses \cup (IF c.do = "analyse" THEN {c.for} ELSE {})
      BY <1>1 DEF RunCallback
    <3>3. UNCHANGED <<database, lastId, files, enrolled, forsaken, confirmed, bounds>>
      BY <1>1 DEF RunCallback
    <3> QED
      BY <3>1, <3>2, <3>3
  <2>2. /\ t \in Txn /\ Fit(t) /\ Drawn(t) /\ t.answer \subseteq invited \cup Invites(t)
        /\ Invites(t) \cup Analyses(t) \cup t.answer \subseteq enrolled
    BY <2>1, CallbackFacts
  <2>3. t.callbacks \in Seq(Call) /\ Tail(t.callbacks) \in Seq(Call)
    BY <2>1, <2>2 DEF Txn
  <2>4. ToSet(t.callbacks) = {c} \cup ToSet(Tail(t.callbacks))
    BY <2>1, <2>3, ToSetSplit
  <2>5. txn' = [txn EXCEPT ![r] = u]
    BY <1>1 DEF RunCallback, IndInv, Types
  <2>6. /\ u.created = t.created /\ u.inserted = t.inserted /\ u.dropped = t.dropped
        /\ u.saw = t.saw /\ u.target = t.target /\ u.step = t.step /\ u.answer = t.answer
        /\ u.kind = t.kind /\ u.todo = t.todo /\ u.assessment = t.assessment
        /\ u.doomed = t.doomed /\ u.callbacks = Tail(t.callbacks)
    BY <2>2 DEF Txn
  <2>7. u \in Txn
    BY <2>2, <2>3 DEF Txn
  <2> HIDE DEF u
  <2>8. Fit(u) /\ Drawn(u)
    BY <2>2, <2>6 DEF Fit, Drawn
  <2>9. /\ Invites(t) = (IF c.do = "invite" THEN {c.for} ELSE {}) \cup Invites(u)
        /\ Analyses(t) = (IF c.do = "analyse" THEN {c.for} ELSE {}) \cup Analyses(u)
    <3> HIDE DEF c
    <3> QED
      BY <2>4, <2>6 DEF Invites, Analyses, Targets
  <2>10. invited \cup analyses \subseteq enrolled /\ confirmed \subseteq enrolled \cap invited
    BY DEF IndInv, Work
  <2>11. u.step = "callbacks"
    BY <2>1, <2>6
  <2> HIDE DEF c
  <2>12. /\ invited \subseteq invited' /\ invited' \subseteq enrolled
         /\ analyses \subseteq analyses' /\ analyses' \subseteq enrolled
         /\ confirmed' \subseteq enrolled \cap invited'
         /\ forsaken \subseteq forsaken'
    BY <2>1, <2>2, <2>9, <2>10
  <2>13. /\ Invites(t) \subseteq invited' \cup forsaken' \cup Invites(u)
         /\ Analyses(t) \subseteq analyses' \cup forsaken' \cup Analyses(u)
         /\ Invites(u) \subseteq Invites(t) /\ Analyses(u) \subseteq Analyses(t)
         /\ u.answer \subseteq invited' \cup Invites(u)
         /\ u.answer \subseteq t.answer
    BY <2>1, <2>2, <2>6, <2>9
  <2>14. UNCHANGED <<database, lastId, files, enrolled, bounds>>
    BY <2>1
  <2> QED
    BY <2>1, <2>5, <2>6, <2>7, <2>8, <2>11, <2>12, <2>13, <2>14, Ends
<1>2. ASSUME CallbackRaises(r) PROVE IndInv'
  <2>1. /\ txn[r].step = "callbacks" /\ forsaken' = forsaken \cup CallbackTargets(r)
        /\ txn' = [txn EXCEPT ![r] = Idle]
        /\ UNCHANGED <<database, lastId, outside, enrolled, invited, confirmed, bounds>>
    BY <1>2 DEF CallbackRaises
  <2>2. analyses' = analyses /\ invited' = invited /\ confirmed' = confirmed
        /\ UNCHANGED <<database, lastId, files, enrolled, bounds>>
    BY <2>1 DEF outside
  <2>3. invited \cup analyses \subseteq enrolled /\ confirmed \subseteq enrolled \cap invited
    BY DEF IndInv, Work
  <2>4. CallbackTargets(r) = Invites(txn[r]) \cup Analyses(txn[r])
    BY <2>1, CallbackFacts
  <2>5. Idle.answer = {}
    BY DEF Idle
  <2> QED
    BY <2>1, <2>2, <2>3, <2>4, <2>5, IdleFits, IdleEnds, Ends
<1>3. ASSUME Answer(r) PROVE IndInv'
  <2>1. /\ txn[r].step = "callbacks" /\ txn[r].callbacks = <<>>
        /\ confirmed' = confirmed \cup txn[r].answer
        /\ txn' = [txn EXCEPT ![r] = Idle]
        /\ UNCHANGED <<database, lastId, outside, enrolled, invited, forsaken, bounds>>
    BY <1>3 DEF Answer
  <2>2. analyses' = analyses /\ invited' = invited /\ forsaken' = forsaken
        /\ UNCHANGED <<database, lastId, files, enrolled, bounds>>
    BY <2>1 DEF outside
  <2>3. Invites(txn[r]) = {} /\ Analyses(txn[r]) = {}
    BY <2>1, BlankTargets
  <2>4. txn[r].answer \subseteq invited /\ txn[r].answer \subseteq enrolled
    BY <2>1, <2>3, CallbackFacts
  <2>5. invited \cup analyses \subseteq enrolled /\ confirmed \subseteq enrolled \cap invited
    BY DEF IndInv, Work
  <2>6. Idle.answer = {}
    BY DEF Idle
  <2> QED
    BY <2>1, <2>2, <2>3, <2>4, <2>5, <2>6, IdleFits, IdleEnds, Ends
<1> QED
  BY <1>1, <1>2, <1>3


-----------------------------------------------------------------------------
(* What goes on around the requests.                                       *)

\* Rows change, but not their keys.
LEMMA Revised ==
    ASSUME IndInv, NEW g \in [Row -> Row],
           \A e \in Row : g[e].id = e.id /\ Same(g[e], e),
           enrolments' = {g[e] : e \in enrolments},
           UNCHANGED <<candidates, txn, lastId>>
    PROVE  /\ enrolments' \subseteq Row /\ (\A e \in enrolments' : e.id \in Known) /\ Keys'
<1>1. enrolments \subseteq Row
  BY DEF IndInv, Types
<1>2. enrolments' \subseteq Row /\ \A e \in enrolments' : e.id \in Known
  BY <1>1 DEF IndInv, Numbered
<1>3. \A e \in enrolments' : \E f \in enrolments : e = g[f] /\ e.id = f.id /\ Same(e, f)
  BY <1>1
<1>4. \A q \in Requests : txn'[q] = txn[q] /\ SeenCandidates(q)' = SeenCandidates(q)
  BY DEF SeenCandidates
<1>5. ASSUME NEW q \in Requests, NEW e \in SeenEnrolments(q)'
      PROVE  \/ e \in SeenEnrolments(q) /\ e \in txn[q].inserted
             \/ \E f \in SeenEnrolments(q) : f \in enrolments /\ e = g[f] /\ Same(e, f) /\ e.id = f.id
  BY <1>3, <1>4 DEF SeenEnrolments
<1>6. Persons' = Persons
  BY DEF Persons
<1>7. IdsApart'
  <2>1. \A c \in Persons : \A e \in enrolments' : c.id # e.id
    BY <1>3 DEF IndInv, Keys, IdsApart
  <2> QED
    BY <1>4, <1>6, <2>1 DEF IndInv, Keys, IdsApart
<1>8. RowsApart'
  <2>1. \A q \in Requests : \A f \in txn[q].inserted : \A e \in enrolments' : e.id # f.id
    BY <1>3 DEF IndInv, Keys, RowsApart
  <2> QED
    BY <1>4, <2>1 DEF IndInv, Keys, RowsApart
<1>9. EmailsApart'
  BY <1>4 DEF IndInv, Keys, EmailsApart, OneEmail
<1>10. EnrolmentsApart'
  <2>1. OneRow(enrolments')
    BY <1>3 DEF IndInv, Keys, EnrolmentsApart, OneRow, Same
  <2>2. ASSUME NEW q \in Requests, NEW e \in SeenEnrolments(q)', NEW f \in SeenEnrolments(q)',
               Same(e, f)
        PROVE  e = f
    <3>1. \A x, y \in SeenEnrolments(q) : Same(x, y) => x = y
      BY DEF IndInv, Keys, EnrolmentsApart, OneRow
    <3>2. \A x \in txn[q].inserted : x \notin enrolments
      BY DEF IndInv, Keys, RowsApart
    <3>3. CASE e \in SeenEnrolments(q) /\ e \in txn[q].inserted
      BY <1>5, <2>2, <3>1, <3>2, <3>3 DEF Same
    <3>4. CASE \E x \in SeenEnrolments(q) : x \in enrolments /\ e = g[x] /\ Same(e, x)
      BY <1>5, <2>2, <3>1, <3>2, <3>4 DEF Same
    <3> QED
      BY <1>5, <3>3, <3>4
  <2>3. \A p, q \in Requests : p # q =>
          \A e \in txn'[p].inserted, f \in txn'[q].inserted : ~Same(e, f)
    BY <1>4 DEF IndInv, Keys, EnrolmentsApart
  <2> QED
    BY <2>1, <2>2, <2>3 DEF EnrolmentsApart, OneRow
<1>11. References'
  <2>1. \A e \in enrolments' : e.candidate \in Ids(candidates')
    BY <1>3 DEF IndInv, Keys, References, Same
  <2>2. ASSUME NEW q \in Requests, NEW e \in SeenEnrolments(q)'
        PROVE  e.candidate \in Ids(SeenCandidates(q)')
    BY <1>4, <1>5 DEF IndInv, Keys, References, Same
  <2>3. \A p, q \in Requests : p # q =>
          \A e \in txn'[p].inserted : e.candidate \notin txn'[q].dropped
    BY <1>4 DEF IndInv, Keys, References
  <2> QED
    BY <2>1, <2>2, <2>3 DEF References, Ids
<1> QED
  BY <1>2, <1>7, <1>8, <1>9, <1>10, <1>11 DEF Keys

\* The rows change, and the tasks of the process may end.
LEMMA Background ==
    ASSUME IndInv, NEW g \in [Row -> Row],
           \A e \in Row : g[e].id = e.id /\ Same(g[e], e) /\ g[e].asked = e.asked,
           enrolments' = {g[e] : e \in enrolments},
           UNCHANGED <<candidates, txn, lastId, enrolled, invited, confirmed, bounds>>,
           analyses' \subseteq analyses, files' \subseteq files, forsaken \subseteq forsaken',
           files' \cap analyses \subseteq analyses' \cup forsaken',
           \A e \in enrolments : g[e].resume = "PENDING" =>
               e.resume = "PENDING" /\ (e.id \in analyses => e.id \in analyses' \cup forsaken')
    PROVE  IndInv'
<1>1. enrolments' \subseteq Row /\ (\A e \in enrolments' : e.id \in Known) /\ Keys'
  BY Revised
<1>2. enrolments \subseteq Row
  BY DEF IndInv, Types
<1>3. Types'
  BY <1>1 DEF IndInv, Types, bounds
<1>4. Numbered'
  BY <1>1 DEF IndInv, Numbered, Known, Drawn
<1>5. DueInvites' = DueInvites /\ DueAnalyses' = DueAnalyses
  BY DEF DueInvites, DueAnalyses, Committed
<1>6. Work'
  <2>1. ASSUME NEW q \in Requests PROVE Prepared(txn[q])'
    <3>1. Prepared(txn[q])
      BY DEF IndInv, Work
    <3> QED
      BY <3>1 DEF Prepared
  <2>2. ASSUME NEW e \in enrolments', e.asked, e.resume = "PENDING"
        PROVE  e.id \in analyses' \cup forsaken' \cup DueAnalyses'
    <3>1. PICK f \in enrolments : e = g[f]
      OBVIOUS
    <3> QED
      BY <1>2, <1>5, <2>2, <3>1 DEF IndInv, Work
  <2>3. enrolled' \subseteq invited' \cup forsaken' \cup DueInvites'
    BY <1>5 DEF IndInv, Work
  <2>4. files' \cap enrolled' \subseteq analyses' \cup forsaken' \cup DueAnalyses'
    BY <1>5 DEF IndInv, Work
  <2>5. invited' \cup analyses' \subseteq enrolled' /\ confirmed' \subseteq enrolled' \cap invited'
    BY DEF IndInv, Work
  <2> QED
    BY <2>1, <2>2, <2>3, <2>4, <2>5 DEF Work
<1> QED
  BY <1>1, <1>3, <1>4, <1>6 DEF IndInv

LEMMA AnalyseStep ==
    ASSUME IndInv, NEW id \in analyses, Analyse(id)
    PROVE  IndInv'
<1>1. enrolments \subseteq Row
  BY DEF IndInv, Types
<1>2. ASSUME NEW status \in {"COMPLETED", "FAILED"}, Analysed(id, status) PROVE IndInv'
  <2> DEFINE change(e) == [e EXCEPT !.resume = status]
             g == [e \in Row |-> IF e.id = id THEN change(e) ELSE e]
  <2>1. \A e \in Row : [e EXCEPT !.resume = status] \in Row
    BY DEF Row
  <2>2. \A e \in Row : /\ g[e] \in Row /\ g[e].id = e.id /\ Same(g[e], e) /\ g[e].asked = e.asked
                       /\ g[e].resume = "PENDING" => e.resume = "PENDING" /\ e.id # id
    BY <2>1 DEF Row, Same
  <2>3. g \in [Row -> Row]
    BY <2>2
  <2>4. \A e \in enrolments : g[e] = IF e.id = id THEN change(e) ELSE e
    BY <1>1
  <2>5. enrolments' = {IF e.id = id THEN change(e) ELSE e : e \in enrolments}
    BY <1>2 DEF Analysed
  <2> HIDE DEF g, change
  <2>6. enrolments' = {g[e] : e \in enrolments}
    <3>1. ASSUME NEW x PROVE x \in enrolments' <=> \E e \in enrolments : x = g[e]
      BY <2>4, <2>5
    <3> QED
      BY <3>1
  <2>7. /\ analyses' = analyses \ {id} /\ files' = files \ {id} /\ forsaken' = forsaken
        /\ UNCHANGED <<candidates, txn, lastId, enrolled, invited, confirmed, bounds>>
    BY <1>2 DEF Analysed, history
  <2> QED
    BY <1>1, <2>2, <2>3, <2>6, <2>7, Background
<1>3. ASSUME ResultLost(id) PROVE IndInv'
  <2> DEFINE g == [e \in Row |-> e]
  <2>1. g \in [Row -> Row] /\ \A e \in Row : g[e] = e
    OBVIOUS
  <2> HIDE DEF g
  <2>2. enrolments' = {g[e] : e \in enrolments}
    <3>1. enrolments' = enrolments
      BY <1>3 DEF ResultLost, database
    <3>2. \A e \in enrolments : g[e] = e
      BY <1>1, <2>1
    <3>3. {g[e] : e \in enrolments} = enrolments
      BY <3>2
    <3> QED
      BY <3>1, <3>3
  <2>3. /\ analyses' = analyses \ {id} /\ files' = files \ {id} /\ forsaken' = forsaken \cup {id}
        /\ UNCHANGED <<candidates, txn, lastId, enrolled, invited, confirmed, bounds>>
    BY <1>3 DEF ResultLost, database
  <2>4. \A e \in Row : g[e].id = e.id /\ Same(g[e], e) /\ g[e].asked = e.asked
    BY <2>1 DEF Same
  <2> QED
    BY <1>1, <2>1, <2>2, <2>3, <2>4, Background
<1> QED
  BY <1>2, <1>3 DEF Analyse

LEMMA InterviewStep ==
    ASSUME IndInv, NEW x \in enrolments, InterviewEnds(x)
    PROVE  IndInv'
<1> DEFINE y == [x EXCEPT !.active = FALSE]
           g == [e \in Row |-> IF e = x THEN y ELSE e]
<1>1. enrolments \subseteq Row
  BY DEF IndInv, Types
<1>2. /\ y \in Row /\ y.id = x.id /\ y.candidate = x.candidate /\ y.assessment = x.assessment
      /\ y.asked = x.asked /\ y.resume = x.resume
  BY <1>1 DEF Row
<1>3. enrolments' = (enrolments \ {x}) \cup {y}
  BY DEF InterviewEnds
<1> HIDE DEF y
<1>4. \A e \in Row : /\ g[e] \in Row /\ g[e].id = e.id /\ Same(g[e], e) /\ g[e].asked = e.asked
                     /\ g[e].resume = e.resume
  BY <1>2 DEF Same
<1>5. g \in [Row -> Row] /\ \A e \in enrolments : g[e] = IF e = x THEN y ELSE e
  BY <1>1, <1>4
<1> HIDE DEF g
<1>6. enrolments' = {g[e] : e \in enrolments}
  BY <1>3, <1>5
<1>7. /\ analyses' = analyses /\ files' = files /\ forsaken' = forsaken
      /\ UNCHANGED <<candidates, txn, lastId, enrolled, invited, confirmed, bounds>>
  BY DEF InterviewEnds, outside, history
<1> QED
  BY <1>1, <1>4, <1>5, <1>6, <1>7, Background

\* The process restarts: everything that was under way is forsaken.
LEMMA RestartStep ==
    ASSUME IndInv, Restart
    PROVE  IndInv'
<1>1. /\ UNCHANGED <<database, lastId, begun, enrolled, invited, confirmed>>
      /\ crashes < MaxCrashes /\ crashes' = crashes + 1
      /\ txn' = [r \in Requests |-> Idle] /\ analyses' = {} /\ files' = {}
      /\ forsaken' = forsaken \cup analyses \cup UNION {CallbackTargets(r) : r \in Requests}
  BY DEF Restart
<1>2. \A r \in Requests : txn'[r] = Idle
  BY <1>1
<1>3. Types'
  <2>1. crashes' \in 0..MaxCrashes
    BY <1>1 DEF IndInv, Types
  <2> QED
    BY <1>1, <2>1, IdleFits DEF IndInv, Types, database
<1>4. Numbered'
  BY <1>1, <1>2, IdleEnds DEF IndInv, Numbered, Drawn, Known, database
<1>5. Keys'
  <2>1. \A q \in Requests : Settled(q)
    BY <1>2, IdleFits DEF Settled, Blank
  <2> QED
    BY <1>1, <2>1, KeysKept DEF IndInv
<1>6. DueInvites \cup DueAnalyses \cup analyses \subseteq forsaken'
  <2>1. \A r \in Committed : Invites(txn[r]) \cup Analyses(txn[r]) \subseteq CallbackTargets(r)
    BY CallbackFacts DEF Committed
  <2> QED
    BY <1>1, <2>1 DEF DueInvites, DueAnalyses, Committed
<1>7. Work'
  <2>1. ASSUME NEW q \in Requests PROVE Prepared(txn[q])'
    BY <1>2, IdleFits, IdleEnds DEF Prepared, Blank, Ids
  <2>2. \A e \in enrolments' : e.asked /\ e.resume = "PENDING" =>
          e.id \in analyses' \cup forsaken' \cup DueAnalyses'
    BY <1>1, <1>6 DEF IndInv, Work, database
  <2>3. enrolled' \subseteq invited' \cup forsaken' \cup DueInvites'
    BY <1>1, <1>6 DEF IndInv, Work
  <2>4. files' \cap enrolled' \subseteq analyses' \cup forsaken' \cup DueAnalyses'
    BY <1>1
  <2>5. invited' \cup analyses' \subseteq enrolled' /\ confirmed' \subseteq enrolled' \cap invited'
    BY <1>1 DEF IndInv, Work
  <2> QED
    BY <2>1, <2>2, <2>3, <2>4, <2>5 DEF Work
<1> QED
  BY <1>3, <1>4, <1>5, <1>7 DEF IndInv


-----------------------------------------------------------------------------
(* The theorems.                                                           *)

LEMMA InitIndInv == Init => IndInv
<1> SUFFICES ASSUME Init PROVE IndInv
  OBVIOUS
<1> DEFINE fresh ==
      /\ candidates \subseteq Person /\ enrolments \subseteq Row /\ lastId \in Nat
      /\ (\A c \in candidates : c.id \in Known) /\ (\A e \in enrolments : e.id \in Known)
      /\ (\A c, d \in candidates : c = d) /\ (\A e, f \in enrolments : e = f)
      /\ (\A c \in candidates : \A e \in enrolments : c.id # e.id)
      /\ (\A e \in enrolments : e.candidate \in Ids(candidates) /\ e.resume # "PENDING")
<1>1. \/ candidates = {} /\ enrolments = {} /\ lastId = 0
      \/ \E email \in Emails, a \in Assessments, parsed \in {"COMPLETED", "FAILED"} :
           /\ candidates = {[id |-> 1, email |-> email, createdBy |-> Owner[a]]}
           /\ enrolments = {[id |-> 2, candidate |-> 1, assessment |-> a, active |-> TRUE,
                             resume |-> parsed, asked |-> TRUE, saw |-> {}]}
           /\ lastId = 2
  BY DEF Init
<1>2. /\ txn = [r \in Requests |-> Idle] /\ begun = 0 /\ crashes = 0
      /\ analyses = {} /\ files = {} /\ forsaken = {}
      /\ enrolled = Ids(enrolments) /\ invited = enrolled /\ confirmed = enrolled
  BY DEF Init
<1>3. \A r \in Requests : txn[r] = Idle
  BY <1>2
<1>4. \A r \in Requests : SeenCandidates(r) = candidates /\ SeenEnrolments(r) = enrolments
  BY <1>3, IdleFits DEF SeenCandidates, SeenEnrolments, Blank
<1>5. Persons = candidates
  BY <1>3, IdleFits DEF Persons, Blank
<1>6. fresh
  <2>1. CASE candidates = {} /\ enrolments = {} /\ lastId = 0
    BY <2>1
  <2>2. ASSUME NEW email \in Emails, NEW a \in Assessments, NEW parsed \in {"COMPLETED", "FAILED"},
               candidates = {[id |-> 1, email |-> email, createdBy |-> Owner[a]]},
               enrolments = {[id |-> 2, candidate |-> 1, assessment |-> a, active |-> TRUE,
                              resume |-> parsed, asked |-> TRUE, saw |-> {}]},
               lastId = 2
        PROVE  fresh
    <3> DEFINE c == [id |-> 1, email |-> email, createdBy |-> Owner[a]]
               e == [id |-> 2, candidate |-> 1, assessment |-> a, active |-> TRUE,
                     resume |-> parsed, asked |-> TRUE, saw |-> {}]
    <3>1. c \in Person /\ e \in Row
      BY DEF Person, Row, Recruiters
    <3>2. c.id = 1 /\ e.id = 2 /\ e.candidate = 1 /\ e.resume # "PENDING"
      OBVIOUS
    <3>3. candidates = {c} /\ enrolments = {e} /\ 1 \in Known /\ 2 \in Known
      BY <2>2 DEF Known
    <3> HIDE DEF c, e
    <3> QED
      BY <2>2, <3>1, <3>2, <3>3 DEF Ids
  <2> QED
    BY <1>1, <2>1, <2>2
<1>7. Types
  BY <1>2, <1>3, <1>6, IdleFits DEF Types
<1>8. Numbered
  BY <1>2, <1>3, <1>6, IdleEnds DEF Numbered, Ids
<1>9. Keys
  <2>1. IdsApart /\ RowsApart
    BY <1>3, <1>5, <1>6, IdleFits DEF IdsApart, RowsApart, Blank
  <2>2. EmailsApart /\ EnrolmentsApart
    BY <1>3, <1>4, <1>6, IdleFits DEF EmailsApart, EnrolmentsApart, OneEmail, OneRow, Blank
  <2>3. References
    BY <1>3, <1>4, <1>6, IdleFits DEF References, Blank
  <2> QED
    BY <2>1, <2>2, <2>3 DEF Keys
<1>10. Work
  <2>1. \A r \in Requests : Prepared(txn[r])
    BY <1>3, IdleFits, IdleEnds DEF Prepared, Blank, Ids
  <2> QED
    BY <1>2, <1>6, <2>1 DEF Work
<1> QED
  BY <1>7, <1>8, <1>9, <1>10 DEF IndInv

LEMMA Stutter ==
    ASSUME IndInv, UNCHANGED vars
    PROVE  IndInv'
<1>1. UNCHANGED <<candidates, enrolments, txn, lastId, analyses, files, begun, crashes,
                  enrolled, invited, forsaken, confirmed>>
  BY DEF vars
<1>2. Types'
  BY <1>1 DEF IndInv, Types
<1>3. Numbered'
  BY <1>1 DEF IndInv, Numbered, Drawn, Known
<1>4. Keys'
  BY <1>1, KeysKept DEF IndInv, Settled, database
<1>5. Work'
  <2>1. \A q \in Requests : Prepared(txn[q])'
    BY <1>1 DEF IndInv, Work, Prepared
  <2>2. DueInvites' = DueInvites /\ DueAnalyses' = DueAnalyses
    BY <1>1 DEF DueInvites, DueAnalyses, Committed
  <2> QED
    BY <1>1, <2>1, <2>2 DEF IndInv, Work
<1> QED
  BY <1>2, <1>3, <1>4, <1>5 DEF IndInv

LEMMA NextIndInv == IndInv /\ [Next]_vars => IndInv'
<1> SUFFICES ASSUME IndInv, [Next]_vars PROVE IndInv'
  OBVIOUS
<1>1. ASSUME NEW r \in Requests, Register(r) PROVE IndInv'
  BY <1>1, BeginSteps, UploadSteps, FindSteps, InsertStep, FailureSteps DEF Register, BulkUpload
<1>2. ASSUME NEW r \in Requests, Withdraw(r) PROVE IndInv'
  BY <1>2, BeginSteps, DeletionSteps DEF Withdraw
<1>3. ASSUME NEW r \in Requests, End(r) PROVE IndInv'
  BY <1>3, FailureSteps, CommitStep, CallbackSteps DEF End
<1>4. ASSUME NEW id \in analyses, Analyse(id) PROVE IndInv'
  BY <1>4, AnalyseStep
<1>5. ASSUME NEW e \in enrolments, InterviewEnds(e) PROVE IndInv'
  BY <1>5, InterviewStep
<1>6. ASSUME Restart PROVE IndInv'
  BY <1>6, RestartStep
<1>7. ASSUME UNCHANGED vars PROVE IndInv'
  BY <1>7, Stutter
<1> QED
  BY <1>1, <1>2, <1>3, <1>4, <1>5, <1>6, <1>7 DEF Next

LEMMA Invariance == Spec => []IndInv
<1> QED
  BY InitIndInv, NextIndInv, PTL DEF Spec

\* However requests interleave, fail or are cut off by a restart: no invitation
\* is queued, no analysis started and no success answered for an enrolment that
\* was never committed (on_commit of candidate_service.py).
THEOREM Premature == Spec => []NothingPremature
<1>1. IndInv => NothingPremature
  BY DEF IndInv, Work, NothingPremature, WorkIsDurable, AnswersAreTrue
<1> QED
  BY <1>1, Invariance, PTL

\* The rows that requests commit side by side keep the unique keys and the
\* foreign keys of the schema, and each committed enrolment was invited, its
\* resume analysed and its temporary file removed, unless that work is still to
\* be done by a callback or a task or got lost with the process or the broker.
THEOREM Accounted == Spec => []WorkAccounted
<1>1. ASSUME IndInv PROVE TypeOK
  <2>1. candidates \subseteq [id : 1..lastId, email : Emails, createdBy : {Owner[a] : a \in Assessments}]
    BY <1>1 DEF IndInv, Types, Numbered, Person, Recruiters, Known
  <2>2. ASSUME NEW e \in enrolments
        PROVE  /\ e.id \in 1..lastId /\ e.candidate \in Ids(candidates) /\ e.assessment \in Assessments
               /\ e.active \in BOOLEAN /\ e.asked \in BOOLEAN
               /\ e.resume \in {"PENDING", "COMPLETED", "FAILED"}
    <3>1. e \in Row /\ e.id \in Known /\ e.candidate \in Ids(candidates)
      BY <1>1 DEF IndInv, Types, Numbered, Keys, References
    <3> QED
      BY <3>1 DEF Row, Known
  <2>3. \A c, d \in candidates : c.email = d.email \/ c.id = d.id => c = d
    BY <1>1 DEF IndInv, Keys, EmailsApart, OneEmail, IdsApart, Persons
  <2>4. \A e, f \in enrolments : e.candidate = f.candidate /\ e.assessment = f.assessment => e = f
    BY <1>1 DEF IndInv, Keys, EnrolmentsApart, OneRow, Same
  <2>5. \A r \in Requests : txn[r].step \in Steps
    BY <1>1, ReqFacts DEF Txn
  <2>6. begun \in 0..MaxRequests /\ crashes \in 0..MaxCrashes
    BY <1>1 DEF IndInv, Types
  <2> QED
    BY <2>1, <2>2, <2>3, <2>4, <2>5, <2>6 DEF TypeOK
<1>2. ASSUME IndInv PROVE InvitationsAccounted /\ ResumesAccounted /\ FilesAreRemoved
  <2>1. DueInvites \cup DueAnalyses \subseteq UNION {CallbackTargets(r) : r \in Requests}
    BY <1>2, CallbackFacts DEF DueInvites, DueAnalyses, Committed
  <2> QED
    BY <1>2, <2>1 DEF IndInv, Work, InvitationsAccounted, ResumesAccounted, FilesAreRemoved
<1>3. IndInv => WorkAccounted
  BY <1>1, <1>2 DEF WorkAccounted
<1> QED
  BY <1>3, Invariance, PTL

-----------------------------------------------------------------------------
(* Windows.  A row remembers which enrolments its request saw when it      *)
(* compared the windows; with those it does not clash, whatever happens    *)
(* later: rows only disappear, or become inactive.                         *)

AllRows == enrolments \cup UNION {txn[r].inserted : r \in Requests}

\* An enrolment in a may join the rows that were seen.
MayJoin(a, saw) == \A e \in AllRows : e.id \in saw /\ e.active => ~Overlap(a, e.assessment)

Compared ==
    /\ \A e, f \in AllRows : e.id = f.id => e = f
    /\ \A f \in AllRows : f.saw \subseteq {0} \cup Known
    /\ \A f \in AllRows : f.active => MayJoin(f.assessment, f.saw)
    /\ \A r \in Requests : txn[r].step = "insert" => MayJoin(txn[r].assessment, txn[r].saw)

\* No row is new, and none becomes active.
LEMMA RowsFade ==
    ASSUME Compared, UNCHANGED lastId,
           \A e \in AllRows' : \E d \in AllRows :
             /\ e.id = d.id /\ e.assessment = d.assessment /\ e.saw = d.saw
             /\ e.active => d.active,
           \A e, f \in AllRows' : e.id = f.id => e = f,
           \A q \in Requests :
             txn'[q].step = "insert" => MayJoin(txn'[q].assessment, txn'[q].saw)
    PROVE  Compared'
<1>1. \A f \in AllRows' : f.saw \subseteq {0} \cup Known'
  BY DEF Compared, Known
<1>2. ASSUME NEW a, NEW saw, MayJoin(a, saw)
      PROVE  \A e \in AllRows' : e.id \in saw /\ e.active => ~Overlap(a, e.assessment)
  BY <1>2 DEF MayJoin, Overlap
<1>3. \A f \in AllRows' : f.active => MayJoin(f.assessment, f.saw)
  BY DEF Compared
<1>4. \A f \in AllRows' : f.active =>
        \A e \in AllRows' : e.id \in f.saw /\ e.active => ~Overlap(f.assessment, e.assessment)
  BY <1>2, <1>3
<1>5. \A q \in Requests : txn'[q].step = "insert" =>
        \A e \in AllRows' : e.id \in txn'[q].saw /\ e.active =>
                              ~Overlap(txn'[q].assessment, e.assessment)
  BY <1>2
<1> QED
  BY <1>1, <1>4, <1>5 DEF Compared, MayJoin, Overlap

LEMMA RowsGo ==
    ASSUME Compared, NEW r \in Requests, UNCHANGED lastId,
           \A q \in Requests \ {r} : txn'[q] = txn[q],
           enrolments' \subseteq AllRows, txn'[r].inserted \subseteq txn[r].inserted,
           txn'[r].step = "insert" => MayJoin(txn'[r].assessment, txn'[r].saw)
    PROVE  Compared'
<1>1. AllRows' \subseteq AllRows
  BY DEF AllRows
<1>2. \A q \in Requests : txn'[q].step = "insert" => MayJoin(txn'[q].assessment, txn'[q].saw)
  BY DEF Compared
<1> QED
  BY <1>1, <1>2, RowsFade DEF Compared

LEMMA MovesCompared ==
    ASSUME IndInv, Compared, NEW r \in Requests, NEW u, txn' = [txn EXCEPT ![r] = u],
           UNCHANGED <<database, lastId>>, u.inserted \subseteq txn[r].inserted,
           u.step = "insert" => MayJoin(u.assessment, u.saw)
    PROVE  Compared'
<1>1. txn'[r] = u /\ \A q \in Requests \ {r} : txn'[q] = txn[q]
  BY DEF IndInv, Types
<1>2. enrolments' \subseteq AllRows
  BY DEF AllRows, database
<1> QED
  BY <1>1, <1>2, RowsGo

LEMMA RefuseCompared ==
    ASSUME IndInv, Compared, NEW r \in Requests, Refuse(r)
    PROVE  Compared'
<1>1. Idle.inserted = {} /\ Idle.step = "idle"
  BY DEF Idle
<1> QED
  BY <1>1, MovesCompared DEF Refuse

LEMMA SkipCompared ==
    ASSUME IndInv, Compared, NEW r \in Requests, NEW doomed, SkipRow(r, doomed),
           UNCHANGED <<database, lastId>>
    PROVE  Compared'
<1> DEFINE t == txn[r]
           u == [t EXCEPT !.step = "find", !.todo = Tail(@), !.doomed = doomed]
<1>1. txn' = [txn EXCEPT ![r] = u] /\ t \in Txn
  BY ReqFacts DEF SkipRow, IndInv, Types
<1>2. u.step = "find" /\ u.inserted = t.inserted
  BY <1>1 DEF Txn
<1> HIDE DEF u
<1> QED
  BY <1>1, <1>2, MovesCompared

LEMMA PlanCompared ==
    ASSUME IndInv, Compared, NEW r \in Requests, NEW c, NEW rows, NEW resume,
           Plan(r, c, rows, resume), rows \subseteq SeenEnrolments(r),
           Conflicting(txn[r].assessment, rows) = {}, UNCHANGED <<database, lastId>>
    PROVE  Compared'
<1> DEFINE t == txn[r]
           u == [t EXCEPT !.step = "insert", !.target = c, !.resume = resume, !.saw = Ids(rows)]
<1>1. txn' = [txn EXCEPT ![r] = u] /\ t \in Txn
  BY ReqFacts DEF Plan, IndInv, Types
<1>2. u.inserted = t.inserted /\ u.assessment = t.assessment /\ u.saw = Ids(rows)
  BY <1>1 DEF Txn
<1>3. rows \subseteq AllRows
  BY DEF SeenEnrolments, AllRows
<1>4. MayJoin(t.assessment, Ids(rows))
  <2> SUFFICES ASSUME NEW e \in AllRows, e.id \in Ids(rows), e.active
               PROVE  ~Overlap(t.assessment, e.assessment)
    BY DEF MayJoin
  <2>1. e \in rows
    BY <1>3 DEF Ids, Compared
  <2> QED
    BY <2>1 DEF Conflicting
<1> HIDE DEF u
<1> QED
  BY <1>1, <1>2, <1>4, MovesCompared

LEMMA FindsCompared ==
    ASSUME IndInv, Compared, NEW r \in Requests
    PROVE  UploadFind(r) \/ CreateFind(r) \/ EnrollFind(r) => Compared'
<1> DEFINE t == txn[r]
           rows(c) == EnrolmentsOf(c, SeenEnrolments(r))
<1>1. \A c : rows(c) \subseteq SeenEnrolments(r)
  BY DEF EnrolmentsOf
<1>2. Conflicting(t.assessment, {}) = {}
  BY DEF Conflicting
<1>3. ASSUME UploadFind(r) PROVE Compared'
  <2>1. UNCHANGED <<database, lastId>>
    BY <1>3 DEF UploadFind
  <2>2. CASE Plan(r, 0, {}, "PENDING")
    BY <1>2, <2>1, <2>2, PlanCompared
  <2>3. CASE SkipRow(r, FALSE)
    BY <2>1, <2>3, SkipCompared
  <2>4. ASSUME NEW c, Plan(r, c, rows(c), "PENDING"), Conflicting(t.assessment, rows(c)) = {}
        PROVE  Compared'
    BY <1>1, <2>1, <2>4, PlanCompared
  <2> QED
    BY <1>3, <2>2, <2>3, <2>4 DEF UploadFind
<1>4. ASSUME CreateFind(r) PROVE Compared'
  <2>1. CASE Refuse(r)
    BY <2>1, RefuseCompared
  <2>2. CASE Plan(r, 0, {}, "PENDING") /\ UNCHANGED <<database, lastId>>
    BY <1>2, <2>2, PlanCompared
  <2>3. ASSUME NEW c, txn' = [txn EXCEPT ![r].step = "cascade", ![r].target = c],
               UNCHANGED <<database, lastId>>
        PROVE  Compared'
    <3> DEFINE u == [t EXCEPT !.step = "cascade", !.target = c]
    <3>1. txn' = [txn EXCEPT ![r] = u] /\ t \in Txn
      BY <2>3, ReqFacts DEF IndInv, Types
    <3>2. u.step = "cascade" /\ u.inserted = t.inserted
      BY <3>1 DEF Txn
    <3> HIDE DEF u
    <3> QED
      BY <2>3, <3>1, <3>2, MovesCompared
  <2> QED
    BY <1>4, <2>1, <2>2, <2>3 DEF CreateFind
<1>5. ASSUME EnrollFind(r) PROVE Compared'
  <2>1. CASE Refuse(r)
    BY <2>1, RefuseCompared
  <2>2. ASSUME NEW resume, Plan(r, t.target, rows(t.target), resume),
               Conflicting(t.assessment, rows(t.target)) = {}, UNCHANGED <<database, lastId>>
        PROVE  Compared'
    BY <1>1, <2>2, PlanCompared
  <2> QED
    BY <1>5, <2>1, <2>2 DEF EnrollFind, Enrollable
<1> QED
  BY <1>3, <1>4, <1>5

LEMMA BeginsCompared ==
    ASSUME IndInv, Compared, NEW r \in Requests
    PROVE  BeginUpload(r) \/ BeginCreate(r) \/ BeginEnroll(r) \/ BeginDelete(r) => Compared'
<1>1. ASSUME NEW u, Begin(r, u), u.inserted = {}, u.step # "insert" PROVE Compared'
  BY <1>1, MovesCompared DEF Begin
<1>2. \A a, rows : LET u == [Idle EXCEPT !.step = "find", !.kind = "upload", !.assessment = a, !.todo = rows]
                   IN u.inserted = {} /\ u.step = "find"
  BY DEF Idle
<1>3. \A a, rows : LET u == [Idle EXCEPT !.step = "find", !.kind = "create", !.assessment = a,
                                         !.todo = rows, !.file = TRUE]
                   IN u.inserted = {} /\ u.step = "find"
  BY DEF Idle
<1>4. \A a, rows, c, file :
        LET u == [Idle EXCEPT !.step = "find", !.kind = "enroll", !.assessment = a,
                              !.todo = rows, !.target = c, !.file = file]
        IN u.inserted = {} /\ u.step = "find"
  BY DEF Idle
<1>5. \A e : LET u == [Idle EXCEPT !.step = "erase", !.kind = "delete", !.target = e]
             IN u.inserted = {} /\ u.step = "erase"
  BY DEF Idle
<1>6. ASSUME BeginUpload(r) PROVE Compared'
  BY <1>1, <1>2, <1>6 DEF BeginUpload
<1>7. ASSUME BeginCreate(r) PROVE Compared'
  BY <1>1, <1>3, <1>7 DEF BeginCreate
<1>8. ASSUME BeginEnroll(r) PROVE Compared'
  BY <1>1, <1>4, <1>8 DEF BeginEnroll
<1>9. ASSUME BeginDelete(r) PROVE Compared'
  BY <1>1, <1>5, <1>9 DEF BeginDelete
<1> QED
  BY <1>6, <1>7, <1>8, <1>9

\* The other steps of a request insert nothing.
LEMMA QuietCompared ==
    ASSUME IndInv, Compared, NEW r \in Requests
    PROVE  \/ DoomedRow(r) \/ UploadDone(r) \/ UploadFails(r) \/ InsertRefused(r)
           \/ StatementFails(r) \/ Erase(r) \/ Remain(r) \/ Cascade(r) \/ Drop(r)
           \/ CommitFails(r) \/ RunCallback(r) \/ CallbackRaises(r) \/ Answer(r)
           => Compared'
<1> DEFINE t == txn[r]
<1>1. t \in Txn /\ DOMAIN txn = Requests
  BY ReqFacts DEF IndInv, Types
<1>2. ASSUME NEW step, step # "insert", Go(r, step), UNCHANGED <<database, lastId>> PROVE Compared'
  <2> DEFINE u == [t EXCEPT !.step = step]
  <2>1. txn' = [txn EXCEPT ![r] = u]
    BY <1>1, <1>2 DEF Go
  <2>2. u.step = step /\ u.inserted = t.inserted
    BY <1>1 DEF Txn
  <2> HIDE DEF u
  <2> QED
    BY <1>2, <2>1, <2>2, MovesCompared
<1>3. ASSUME Broken(r) PROVE Compared'
  BY <1>3, RefuseCompared, SkipCompared DEF Broken
<1>4. ASSUME DoomedRow(r) \/ UploadDone(r) \/ UploadFails(r) \/ InsertRefused(r)
               \/ StatementFails(r) \/ CommitFails(r)
      PROVE  Compared'
  BY <1>2, <1>3, <1>4, RefuseCompared, SkipCompared
     DEF DoomedRow, UploadDone, UploadFails, InsertRefused, StatementFails, CommitFails
<1>5. ASSUME Erase(r) PROVE Compared'
  <2>1. CASE Refuse(r)
    BY <2>1, RefuseCompared
  <2>2. ASSUME NEW c, NEW dropped, UNCHANGED <<database, lastId>>,
               txn' = [txn EXCEPT ![r].step = "remain", ![r].target = c, ![r].dropped = dropped]
        PROVE  Compared'
    <3> DEFINE u == [t EXCEPT !.step = "remain", !.target = c, !.dropped = dropped]
    <3>1. txn' = [txn EXCEPT ![r] = u]
      BY <1>1, <2>2
    <3>2. u.step = "remain" /\ u.inserted = t.inserted
      BY <1>1 DEF Txn
    <3> HIDE DEF u
    <3> QED
      BY <2>2, <3>1, <3>2, MovesCompared
  <2> QED
    BY <1>5, <2>1, <2>2 DEF Erase
<1>6. ASSUME Remain(r) PROVE Compared'
  BY <1>2, <1>6 DEF Remain
<1>7. ASSUME Cascade(r) PROVE Compared'
  <2> DEFINE saw == Ids(EnrolmentsOf(t.target, SeenEnrolments(r)))
             u == [t EXCEPT !.step = "drop", !.saw = saw]
  <2>1. txn' = [txn EXCEPT ![r] = u] /\ UNCHANGED <<database, lastId>>
    BY <1>1, <1>7 DEF Cascade
  <2> HIDE DEF saw
  <2>2. u.step = "drop" /\ u.inserted = t.inserted
    BY <1>1 DEF Txn
  <2> HIDE DEF u
  <2> QED
    BY <2>1, <2>2, MovesCompared
<1>8. ASSUME Drop(r) PROVE Compared'
  <2> DEFINE next == IF t.kind = "create" THEN "insert" ELSE "commit"
             dropped == t.dropped \cup t.saw \cup {t.target}
             u == [t EXCEPT !.step = next, !.dropped = dropped, !.target = 0, !.saw = {}]
  <2>1. CASE Refuse(r)
    BY <2>1, RefuseCompared
  <2>2. CASE /\ txn' = [txn EXCEPT ![r].step = next, ![r].dropped = @ \cup t.saw \cup {t.target},
                                   ![r].target = 0, ![r].saw = {}]
             /\ UNCHANGED <<database, lastId>>
    <3>1. txn' = [txn EXCEPT ![r] = u]
      BY <1>1, <2>2
    <3> HIDE DEF next, dropped
    <3>2. u.saw = {} /\ u.inserted = t.inserted
      BY <1>1 DEF Txn
    <3>3. MayJoin(u.assessment, u.saw)
      BY <3>2 DEF MayJoin
    <3> HIDE DEF u
    <3> QED
      BY <2>2, <3>1, <3>2, <3>3, MovesCompared
  <2> QED
    BY <1>8, <2>1, <2>2 DEF Drop
<1>9. ASSUME RunCallback(r) PROVE Compared'
  <2> DEFINE u == [t EXCEPT !.callbacks = Tail(@)]
  <2>1. txn' = [txn EXCEPT ![r] = u] /\ t.step = "callbacks" /\ UNCHANGED <<database, lastId>>
    BY <1>1, <1>9 DEF RunCallback
  <2>2. u.step = t.step /\ u.inserted = t.inserted
    BY <1>1 DEF Txn
  <2> HIDE DEF u
  <2> QED
    BY <2>1, <2>2, MovesCompared
<1>10. ASSUME CallbackRaises(r) \/ Answer(r) PROVE Compared'
  <2>1. Idle.inserted = {} /\ Idle.step = "idle"
    BY DEF Idle
  <2> QED
    BY <1>10, <2>1, MovesCompared DEF CallbackRaises, Answer
<1> QED
  BY <1>4, <1>5, <1>6, <1>7, <1>8, <1>9, <1>10

LEMMA InsertCompared ==
    ASSUME IndInv, Compared, NEW r \in Requests, Insert(r)
    PROVE  Compared'
<1> DEFINE t == txn[r]
           new == t.target = 0
           c == IF new THEN lastId + 1 ELSE t.target
           id == IF new THEN lastId + 2 ELSE lastId + 1
           row == [id |-> id, candidate |-> c, assessment |-> t.assessment, active |-> TRUE,
                   resume |-> t.resume, asked |-> t.kind # "enroll" \/ t.file, saw |-> t.saw]
           people == IF new THEN {[id |-> c, email |-> Head(t.todo), createdBy |-> Owner[t.assessment]]}
                     ELSE {}
           next == IF t.kind = "upload" THEN "find" ELSE "commit"
           calls == Callbacks(t, id)
           u == [t EXCEPT !.step = next, !.todo = Tail(@), !.created = @ \cup people,
                          !.inserted = @ \cup {row}, !.callbacks = @ \o calls,
                          !.answer = @ \cup {id}]
<1>1. /\ t \in Txn /\ DOMAIN txn = Requests /\ lastId \in Nat /\ Drawn(t)
      /\ t.step = "insert" /\ lastId' = id /\ UNCHANGED database
  BY ReqFacts DEF Insert, IndInv, Types, Numbered
<1>2. id \notin {0} \cup Known /\ Known \subseteq Known'
  BY <1>1 DEF Known
<1>3. row.id = id /\ row.saw = t.saw /\ row.assessment = t.assessment
  OBVIOUS
<1>4. next # "insert"
  OBVIOUS
<1>5. txn' = [txn EXCEPT ![r].step = next, ![r].todo = Tail(@), ![r].created = @ \cup people,
                         ![r].inserted = @ \cup {row}, ![r].callbacks = @ \o calls,
                         ![r].answer = @ \cup {id}]
  BY DEF Insert
<1> HIDE DEF next, people, row, id, calls
<1>6. txn' = [txn EXCEPT ![r] = u]
  BY <1>1, <1>5
<1>7. u.step = next /\ u.inserted = t.inserted \cup {row}
  BY <1>1 DEF Txn
<1> HIDE DEF u
<1>8. txn'[r] = u /\ \A q \in Requests \ {r} : txn'[q] = txn[q]
  BY <1>1, <1>6
<1>9. AllRows' = AllRows \cup {row}
  BY <1>1, <1>7, <1>8 DEF AllRows, database
<1>10. \A e \in AllRows : e.id \in Known
  BY DEF IndInv, Numbered, Drawn, AllRows
<1>11. t.saw \subseteq {0} \cup Known
  BY <1>1 DEF Drawn
<1>12. \A e, f \in AllRows' : e.id = f.id => e = f
  BY <1>2, <1>3, <1>9, <1>10 DEF Compared
<1>13. \A f \in AllRows' : f.saw \subseteq {0} \cup Known /\ f.saw \subseteq {0} \cup Known'
  BY <1>2, <1>3, <1>9, <1>11 DEF Compared
<1>14. ASSUME NEW a, NEW saw, MayJoin(a, saw), saw \subseteq {0} \cup Known
       PROVE  \A e \in AllRows' : e.id \in saw /\ e.active => ~Overlap(a, e.assessment)
  BY <1>2, <1>3, <1>9, <1>14 DEF MayJoin
<1>15. \A f \in AllRows' : f.active => MayJoin(f.assessment, f.saw)
  BY <1>1, <1>3, <1>9 DEF Compared
<1>16. \A f \in AllRows' : f.active =>
         \A e \in AllRows' : e.id \in f.saw /\ e.active => ~Overlap(f.assessment, e.assessment)
  BY <1>13, <1>14, <1>15
<1>17. ASSUME NEW q \in Requests, txn'[q].step = "insert"
       PROVE  \A e \in AllRows' : e.id \in txn'[q].saw /\ e.active =>
                                    ~Overlap(txn'[q].assessment, e.assessment)
  <2>1. txn'[q] = txn[q]
    BY <1>4, <1>7, <1>8, <1>17
  <2>2. MayJoin(txn'[q].assessment, txn'[q].saw) /\ txn'[q].saw \subseteq {0} \cup Known
    BY <1>17, <2>1 DEF Compared, IndInv, Numbered, Drawn
  <2> QED
    BY <1>14, <2>2
<1> QED
  BY <1>12, <1>13, <1>16, <1>17 DEF Compared, MayJoin, Overlap

LEMMA CommitCompared ==
    ASSUME IndInv, Compared, NEW r \in Requests, Commit(r)
    PROVE  Compared'
<1> DEFINE u == [Idle EXCEPT !.step = "callbacks", !.callbacks = txn[r].callbacks,
                             !.answer = txn[r].answer]
<1>1. u.inserted = {} /\ u.step = "callbacks"
  BY DEF Idle
<1>2. txn' = [txn EXCEPT ![r] = u] /\ enrolments' = SeenEnrolments(r) /\ UNCHANGED lastId
  BY DEF Commit
<1> HIDE DEF u
<1>3. txn'[r] = u /\ \A q \in Requests \ {r} : txn'[q] = txn[q]
  BY <1>2 DEF IndInv, Types
<1>4. enrolments' \subseteq AllRows
  BY <1>2 DEF SeenEnrolments, AllRows
<1> QED
  BY <1>1, <1>2, <1>3, <1>4, RowsGo

\* A committed row is replaced by one that says the same of the windows.
LEMMA BackgroundCompared ==
    ASSUME IndInv, Compared, UNCHANGED <<txn, lastId>>,
           \A e \in enrolments' : \E d \in enrolments :
             /\ e.id = d.id /\ e.assessment = d.assessment /\ e.saw = d.saw
             /\ e.active => d.active,
           \A e, f \in enrolments' : e.id = f.id => e = f
    PROVE  Compared'
<1>1. \A e \in AllRows' : \E d \in AllRows :
        /\ e.id = d.id /\ e.assessment = d.assessment /\ e.saw = d.saw
        /\ e.active => d.active
  BY DEF AllRows
<1>2. \A e, f \in AllRows' : e.id = f.id => e = f
  <2>1. ASSUME NEW e \in enrolments', NEW q \in Requests, NEW f \in txn[q].inserted
        PROVE  e.id # f.id
    BY <2>1 DEF IndInv, Keys, RowsApart
  <2>2. \A e, f \in AllRows : e.id = f.id => e = f
    BY DEF Compared
  <2> QED
    BY <2>1, <2>2 DEF AllRows
<1>3. \A q \in Requests : txn'[q].step = "insert" => MayJoin(txn'[q].assessment, txn'[q].saw)
  BY DEF Compared
<1> QED
  BY <1>1, <1>2, <1>3, RowsFade

LEMMA AnalyseCompared ==
    ASSUME IndInv, Compared, NEW id \in analyses, Analyse(id)
    PROVE  Compared'
<1>1. enrolments \subseteq Row /\ \A e, f \in enrolments : e.id = f.id => e = f
  BY DEF IndInv, Types, Compared, AllRows
<1>2. ASSUME NEW status \in {"COMPLETED", "FAILED"}, Analysed(id, status) PROVE Compared'
  <2> DEFINE change(e) == [e EXCEPT !.resume = status]
  <2>1. \A e \in Row : /\ change(e).id = e.id /\ change(e).assessment = e.assessment
                       /\ change(e).saw = e.saw /\ change(e).active = e.active
    BY DEF Row
  <2>2. /\ enrolments' = {IF e.id = id THEN change(e) ELSE e : e \in enrolments}
        /\ UNCHANGED <<txn, lastId>>
    BY <1>2 DEF Analysed
  <2> HIDE DEF change
  <2>3. \A e \in enrolments' : \E d \in enrolments :
          /\ e = IF d.id = id THEN change(d) ELSE d
          /\ e.id = d.id /\ e.assessment = d.assessment /\ e.saw = d.saw
          /\ e.active => d.active
    BY <1>1, <2>1, <2>2
  <2>4. \A e, f \in enrolments' : e.id = f.id => e = f
    BY <1>1, <2>3
  <2> QED
    BY <2>2, <2>3, <2>4, BackgroundCompared
<1>3. ASSUME ResultLost(id) PROVE Compared'
  <2>1. UNCHANGED <<enrolments, txn, lastId>>
    BY <1>3 DEF ResultLost, database
  <2> QED
    BY <1>1, <2>1, BackgroundCompared
<1> QED
  BY <1>2, <1>3 DEF Analyse

LEMMA InterviewCompared ==
    ASSUME IndInv, Compared, NEW x \in enrolments, InterviewEnds(x)
    PROVE  Compared'
<1> DEFINE y == [x EXCEPT !.active = FALSE]
<1>1. /\ enrolments \subseteq Row
      /\ \A e, f \in enrolments : e.id = f.id => e = f
  BY DEF IndInv, Types, Compared, AllRows
<1>2. y.id = x.id /\ y.assessment = x.assessment /\ y.saw = x.saw /\ ~y.active
  BY <1>1 DEF Row
<1>3. enrolments' = (enrolments \ {x}) \cup {y} /\ UNCHANGED <<txn, lastId>>
  BY DEF InterviewEnds
<1> HIDE DEF y
<1> QED
  BY <1>1, <1>2, <1>3, BackgroundCompared

LEMMA RestartCompared ==
    ASSUME IndInv, Compared, Restart
    PROVE  Compared'
<1>1. Idle.inserted = {} /\ Idle.step = "idle"
  BY DEF Idle
<1>2. /\ UNCHANGED <<enrolments, lastId>>
      /\ \A r \in Requests : txn'[r] = Idle
  BY DEF Restart, database
<1>3. AllRows' \subseteq AllRows
  BY <1>1, <1>2 DEF AllRows
<1>4. \A q \in Requests : txn'[q].step # "insert"
  BY <1>1, <1>2
<1> QED
  BY <1>2, <1>3, <1>4, RowsFade DEF Compared

LEMMA InitCompared == Init => Compared
<1> SUFFICES ASSUME Init PROVE Compared
  OBVIOUS
<1>1. Idle.inserted = {} /\ Idle.step = "idle"
  BY DEF Idle
<1>2. AllRows = enrolments /\ \A r \in Requests : txn[r].step # "insert"
  BY <1>1 DEF Init, AllRows
<1>3. \A e, f \in enrolments : e = f /\ e.saw = {}
  <2>1. CASE enrolments = {}
    BY <2>1
  <2>2. ASSUME NEW a, NEW parsed,
               enrolments = {[id |-> 2, candidate |-> 1, assessment |-> a, active |-> TRUE,
                              resume |-> parsed, asked |-> TRUE, saw |-> {}]}
        PROVE  \A e, f \in enrolments : e = f /\ e.saw = {}
    <3> DEFINE row == [id |-> 2, candidate |-> 1, assessment |-> a, active |-> TRUE,
                       resume |-> parsed, asked |-> TRUE, saw |-> {}]
    <3>1. row.saw = {} /\ enrolments = {row}
      BY <2>2
    <3> HIDE DEF row
    <3> QED
      BY <3>1
  <2>3. \/ enrolments = {}
        \/ \E a \in Assessments, parsed \in {"COMPLETED", "FAILED"} :
             enrolments = {[id |-> 2, candidate |-> 1, assessment |-> a, active |-> TRUE,
                            resume |-> parsed, asked |-> TRUE, saw |-> {}]}
    BY DEF Init
  <2> QED
    BY <2>1, <2>2, <2>3
<1> QED
  BY <1>2, <1>3 DEF Compared, MayJoin

LEMMA NextCompared == IndInv /\ Compared /\ [Next]_vars => Compared'
<1> SUFFICES ASSUME IndInv, Compared, [Next]_vars PROVE Compared'
  OBVIOUS
<1>1. ASSUME NEW r \in Requests, Register(r) \/ Withdraw(r) \/ End(r) PROVE Compared'
  BY <1>1, BeginsCompared, FindsCompared, QuietCompared, InsertCompared, CommitCompared
     DEF Register, BulkUpload, Withdraw, End
<1>2. ASSUME NEW id \in analyses, Analyse(id) PROVE Compared'
  BY <1>2, AnalyseCompared
<1>3. ASSUME NEW e \in enrolments, InterviewEnds(e) PROVE Compared'
  BY <1>3, InterviewCompared
<1>4. ASSUME Restart PROVE Compared'
  BY <1>4, RestartCompared
<1>5. ASSUME UNCHANGED vars PROVE Compared'
  BY <1>5, RowsFade DEF vars, Compared, AllRows
<1> QED
  BY <1>1, <1>2, <1>3, <1>4, <1>5 DEF Next

\* Two enrolments of a candidate whose windows overlap are both active only if
\* neither request could see the row of the other when it compared windows
\* (_assert_no_window_overlap): the check fails in a race and in no other way.
THEOREM Overlaps == Spec => []OverlapNeedsRace
<1>1. IndInv /\ Compared => OverlapNeedsRace
  <2> SUFFICES ASSUME IndInv, Compared, NEW e \in enrolments, NEW f \in enrolments, Clash(e, f)
               PROVE  e.id \notin f.saw /\ f.id \notin e.saw
    BY DEF OverlapNeedsRace
  <2>1. e \in AllRows /\ f \in AllRows
    BY DEF AllRows
  <2>2. MayJoin(e.assessment, e.saw) /\ MayJoin(f.assessment, f.saw)
    BY <2>1 DEF Compared, Clash
  <2>3. Overlap(e.assessment, f.assessment) /\ Overlap(f.assessment, e.assessment)
    BY DEF Clash, Overlap
  <2> QED
    BY <2>1, <2>2, <2>3 DEF MayJoin, Clash
<1>2. Init => IndInv /\ Compared
  BY InitIndInv, InitCompared
<1>3. IndInv /\ Compared /\ [Next]_vars => IndInv' /\ Compared'
  BY NextIndInv, NextCompared
<1> QED
  BY <1>1, <1>2, <1>3, PTL DEF Spec
=============================================================================
