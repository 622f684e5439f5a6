----------------------------- MODULE Proctoring -----------------------------
(***************************************************************************)
(* What the interview engine stores in the session row while an interview  *)
(* runs: tab switches and face episodes, which may terminate it, and the   *)
(* transcript (data/repositories/interview_session_repository.py).  The    *)
(* engine forwards browser packets for the job of one connection; packets  *)
(* are repeated, late and reordered, and every request locks the session   *)
(* row for its whole transaction.                                          *)
(*                                                                         *)
(* The module extends InterviewSession: a packet that terminates is its    *)
(* ProctoringTermination, a persisted turn its PersistTurn.  Packets that  *)
(* are stale, duplicate or invalid change nothing and are stuttering steps.*)
(***************************************************************************)
EXTENDS InterviewSession, FiniteSetsExt, SequencesExt

CONSTANTS
    MaxTabSwitches,      \* MAX_ALLOWED_TAB_SWITCHES
    TabEvents,           \* event ids of tab switches
    LegacyTabs,          \* ids of tab switches stored one record each by old code
    FaceTypes,           \* keys of FACE_PROCTORING_POLICIES
    MinimumDuration,     \* the least duration of a violation
    TerminationDuration, \* the continuous duration that terminates
    Durations,           \* observed_duration_ms values, in units of the policy
    Starts,              \* condition_started_at values
    FaceEvents,          \* event ids of face packets
    Turns,               \* turn_id values
    Findings,            \* violation_id values the engine itself reports
    MaxTurnItems         \* bound: items per request

ASSUME ProctoringAssumption ==
    /\ MaxTabSwitches \in Nat \ {0}
    /\ LegacyTabs \subseteq TabEvents
    /\ IsFiniteSet(LegacyTabs) /\ Cardinality(LegacyTabs) < MaxTabSwitches
    /\ Durations \subseteq Nat \ {0}
    /\ MinimumDuration \in Nat /\ TerminationDuration \in Nat \ {0}
    /\ MinimumDuration <= TerminationDuration
    /\ MaxTurnItems \in Nat

VARIABLES
    tabs,         \* the violations of type tab_switch
    faces,        \* per type: episodes (0: none), packet ids, whether it terminated
    transcript,   \* turn ids, in order
    findings,     \* violation ids the engine itself reported, in order
    counted,      \* history: the tab switches counted so far
    packets       \* history: the face packets merged so far

proctoring == <<tabs, faces, transcript, findings, counted, packets>>

-----------------------------------------------------------------------------
(* Shared by both kinds of packet.                                         *)

\* The session is not running, or the packet is of a replaced connection.
Stale(id) == session.status \notin ActiveStatuses \/ session.conn # id

\* Mutant: the session row is terminated without the candidate's.
TerminateSessionOnly(terminated) ==
    IF terminated
    THEN session' = TerminateSession(session) /\ UNCHANGED ca /\ OnlyRows
    ELSE UNCHANGED vars

TerminateIf(terminated) ==
    IF terminated THEN ProctoringTermination ELSE UNCHANGED vars

-----------------------------------------------------------------------------
(* Tab switches: records of old code and the canonical one.                *)

TabSwitchCount == Max({Cardinality(tabs)} \cup {item.declared : item \in tabs})

TabEventIds == UNION {item.ids : item \in tabs}

\* Mutant: the ids of the records it replaces are forgotten.
CanonicalForgetsIds(event) == [ids |-> {event}, declared |-> TabSwitchCount + 1]

CanonicalTab(event) ==
    [ids |-> TabEventIds \cup {event}, declared |-> TabSwitchCount + 1]

\* Mutant: off by one.
TabLimitExceeded(count) == count > MaxTabSwitches

TabLimitReached(count) == count >= MaxTabSwitches

RecordTabSwitch(id, event) ==
    /\ ~Stale(id)
    /\ event \notin TabEventIds
    /\ tabs' = {CanonicalTab(event)}
    /\ counted' = counted \cup {event}
    /\ TerminateIf(TabLimitReached(TabSwitchCount + 1))
    /\ UNCHANGED <<faces, transcript, findings, packets>>

-----------------------------------------------------------------------------
(* Face episodes, keyed by the start of the condition.                     *)

\* Mutant: the last packet wins.
LastDuration(previous, observed) == observed

MergedDuration(previous, observed) == Greatest(previous, observed)

\* A repeated packet counts only if it reports a longer condition.
Duplicate(face, event, start, observed) ==
    event \in face.ids /\ observed <= face.episodes[start]

MergeFaceEpisode(face, event, start, observed) ==
    [episodes |-> [face.episodes EXCEPT ![start] = MergedDuration(@, observed)],
     ids |-> face.ids \cup {event},
     triggered |-> face.triggered \/ observed >= TerminationDuration]

RecordProctoringEvent(id, type, event, start, observed) ==
    /\ observed >= MinimumDuration
    /\ ~Stale(id)
    /\ ~Duplicate(faces[type], event, start, observed)
    /\ faces' = [faces EXCEPT ![type] = MergeFaceEpisode(@, event, start, observed)]
    /\ packets' = packets \cup {[type |-> type, start |-> start, observed |-> observed]}
    /\ TerminateIf(observed >= TerminationDuration)
    /\ UNCHANGED <<tabs, transcript, findings, counted>>

-----------------------------------------------------------------------------
(* persist_turn: every transcript item and every violation of the request  *)
(* is appended unless its id is there, in one transaction with the elapsed *)
(* time.                                                                   *)

\* Mutant: the whole batch is compared instead of each item.
AppendBatch(items, item) ==
    IF items # <<>> /\ Last(items) = item THEN items ELSE Append(items, item)

AppendUnique(items, item) ==
    IF item \in ToSet(items) THEN items ELSE Append(items, item)

AppendItems(stored, items) == FoldLeft(AppendUnique, stored, items)

PersistTurnItems(items, reported, elapsed) ==
    /\ transcript' = AppendItems(transcript, items)
    /\ findings' = AppendItems(findings, reported)
    /\ PersistTurn(elapsed)
    /\ UNCHANGED <<tabs, faces, counted, packets>>

-----------------------------------------------------------------------------

ProctoringInit ==
    /\ Init
    /\ tabs = {[ids |-> {event}, declared |-> 0] : event \in LegacyTabs}
    /\ faces = [type \in FaceTypes |->
                  [episodes |-> [start \in Starts |-> 0], ids |-> {}, triggered |-> FALSE]]
    /\ transcript = <<>>
    /\ findings = <<>>
    /\ counted = LegacyTabs
    /\ packets = {}

Packet ==
    \E id \in 1..generations :
      \/ \E event \in TabEvents : RecordTabSwitch(id, event)
      \/ \E type \in FaceTypes, event \in FaceEvents, start \in Starts,
            observed \in Durations :
           RecordProctoringEvent(id, type, event, start, observed)

Turn ==
    \E items \in BoundedSeq(Turns, MaxTurnItems),
       reported \in BoundedSeq(Findings, MaxTurnItems), elapsed \in Elapsed :
      PersistTurnItems(items, reported, elapsed)

Session == (Tick \/ Candidate \/ LiveKit \/ Progress) /\ UNCHANGED proctoring

ProctoringNext == Packet \/ Turn \/ Session

ProctoringSpec == ProctoringInit /\ [][ProctoringNext]_<<vars, proctoring>>

-----------------------------------------------------------------------------
(* Properties.                                                             *)

ProctoringTypeOK ==
    /\ TypeOK
    /\ tabs \subseteq [ids: SUBSET TabEvents, declared: Nat]
    /\ faces \in [FaceTypes -> [episodes: [Starts -> Durations \cup {0}],
                                ids: SUBSET FaceEvents, triggered: BOOLEAN]]
    /\ transcript \in Seq(Turns) /\ findings \in Seq(Findings)
    /\ counted \subseteq TabEvents

\* Every tab switch counts once: the authoritative count is the number of
\* distinct switches that were accepted, records of old code included,
\* although the records are rewritten into one and packets are repeated.
TabsCountedOnce == TabSwitchCount = Cardinality(counted)

\* The fifth tab switch ends the interview, and so does a face condition
\* that lasted long enough; no interleaving of packets, drops, replaced
\* connections and engine calls leaves such a session running.  Holds of an
\* orderly engine.
LimitsEnforced ==
    TabSwitchCount >= MaxTabSwitches
      \/ (\E type \in FaceTypes, start \in Starts :
            faces[type].episodes[start] >= TerminationDuration)
    => session.status \in TerminalSessionStatuses

\* The stored episodes depend on which packets were accepted, not on their
\* order or number: an episode's duration is the longest one reported for
\* its start, and the termination flag is never lost.
EpisodesSummarisePackets ==
    \A type \in FaceTypes :
      LET Observed(start) == {p.observed : p \in {q \in packets : q.type = type /\ q.start = start}}
      IN /\ \A start \in Starts :
              faces[type].episodes[start] = Max({0} \cup Observed(start))
         /\ faces[type].triggered <=>
              \E start \in Starts : faces[type].episodes[start] >= TerminationDuration

\* A retried persist_turn adds nothing twice, also within one batch.
TurnsStoredOnce == IsInjective(transcript) /\ IsInjective(findings)

\* Proctoring changes the lifecycle rows only in the ways InterviewSession
\* lets it, so everything shown there holds here.
SessionSpec == Spec

=============================================================================
