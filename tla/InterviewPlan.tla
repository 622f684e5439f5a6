---------------------------- MODULE InterviewPlan ----------------------------
(* The analysis of a job description and the interview plan computed from   *)
(* it (utils/assessment_utils.py, schemas/assessment.py): the conversation   *)
(* with the language model, at most MaxAttempts prompts of which a rejected  *)
(* answer is repaired and an oversized one shortened, and the deterministic  *)
(* pass that selects the technical sections and divides the minutes.         *)
(*                                                                          *)
(* Time is counted in tenths of a minute, as the code does. A name is known  *)
(* only by how well it matches (_match_score, 0 to 3), a weight by an        *)
(* integer, and the fractions that break ties are exact, where the code      *)
(* compares floats.                                                          *)
EXTENDS Integers, Sequences, FiniteSets, FiniteSetsExt

CONSTANTS
  Durations,     \* interview_duration_mins of the requests
  Priorities,    \* jd_analysis.skills[].priority_score, a sequence
  Overrides,     \* focus_areas[].weight_override, a sequence
  Replies        \* what the model may answer: sequences of technical sections

MaxAttempts == 3

\* A technical section: how well its name matches each skill of the job
\* description and each focus area of the recruiter.
Section == [skills : [DOMAIN Priorities -> 0..3],
            areas  : [DOMAIN Overrides -> 0..3]]

ASSUME PlanAssumption ==
  /\ Durations \subseteq 2..180
  /\ Priorities \in Seq(1..10) /\ Overrides \in Seq(0..10)
  /\ \A r \in Replies : r \in Seq(Section)

VARIABLES
  duration,    \* interview_duration_mins
  long,        \* the prompt carries more than 4000 characters of the text
  attempt,     \* answers awaited so far
  repair,      \* a repair note goes with the next prompt
  outcome,     \* "asking", "planned", "failed", then how the text is stored
  reply,       \* the technical sections of the accepted answer, with their weights
  plan         \* the sections of the plan, each with its tenths of a minute

vars == <<duration, long, attempt, repair, outcome, reply, plan>>

-----------------------------------------------------------------------------
(* The time of a plan of mins minutes.                                      *)

IntroUnits(mins) == IF mins <= 15 THEN mins ELSE 15

BehaviouralUnits(mins) == mins

TechnicalUnits(mins) == 10 * mins - IntroUnits(mins) - BehaviouralUnits(mins)

MinUnits(mins) ==
  IF mins <= 5 THEN 15 ELSE IF mins <= 15 THEN 20 ELSE IF mins <= 30 THEN 25 ELSE 30

SoftCap(mins) == 1 + Cardinality({limit \in {3, 8, 15, 20, 30, 45} : mins > limit})

TargetSkillCount(mins) ==
  Max({1, Min({TechnicalUnits(mins) \div MinUnits(mins), SoftCap(mins)})})

-----------------------------------------------------------------------------
(* The sections of an answer s, by their indices.                           *)

\* The value whose name matches best, the first one of equals.
BestMatch(scores, values, default) ==
  LET best == {i \in DOMAIN scores : /\ scores[i] > 0
                                     /\ \A j \in DOMAIN scores : scores[j] <= scores[i]}
  IN  IF best = {} THEN default ELSE values[Min(best)]

NoOverride == -1

\* A focus area of the recruiter overrules the job description.
Scored(s) ==
  [i \in DOMAIN s |->
     LET priority == BestMatch(s[i].skills, Priorities, 1)
         override == BestMatch(s[i].areas, Overrides, NoOverride)
     IN  [of |-> i, priority |-> priority,
          effective |-> IF override # NoOverride THEN override ELSE priority]]

\* Mutant: the weight of the job description is forgotten when weights are equal.
BeforeByIndex(x, y) ==
  \/ x.effective > y.effective
  \/ x.effective = y.effective /\ x.of < y.of

Before(x, y) ==
  \/ x.effective > y.effective
  \/ x.effective = y.effective /\ x.priority > y.priority
  \/ x.effective = y.effective /\ x.priority = y.priority /\ x.of < y.of

\* How many of the sections come before section i.
Ahead(sections, i) ==
  Cardinality({j \in DOMAIN sections : Before(sections[j], sections[i])})

\* The sections that are kept, the heaviest first.
Selected(mins, s) ==
  LET all == Scored(s)
      Nth(k) == CHOOSE i \in DOMAIN all : Ahead(all, i) = k - 1
  IN  [k \in 1..Min({Len(s), TargetSkillCount(mins)}) |-> all[Nth(k)]]

\* What is left when every one of n sections has its minimum.
ExtraUnits(mins, n) == TechnicalUnits(mins) - n * MinUnits(mins)

\* Mutant: the weights are not boosted.
Unboosted(w) == w

Boosted(w) == w * w

Boosts(ws) == [i \in DOMAIN ws |-> Boosted(ws[i])]

\* Mutant: the units that rounding leaves are not handed out.
FloorShare(extra, ws, k) ==
  LET total == SumFunction(Boosts(ws))
  IN  IF total = 0 THEN extra \div Len(ws) ELSE (extra * Boosted(ws[k])) \div total

\* Of extra units, those of section k among sections with the effective weights
\* ws: its share rounded down, and one of the units left over if its remainder
\* is among the largest.
ExtraShare(extra, ws, k) ==
  LET total == SumFunction(Boosts(ws))
      whole == [i \in DOMAIN ws |-> (extra * Boosted(ws[i])) \div total]
      rest  == [i \in DOMAIN ws |-> (extra * Boosted(ws[i])) % total]
      left  == extra - SumFunction(whole)
      First(i, j) == \/ rest[i] > rest[j]
                     \/ rest[i] = rest[j] /\ ws[i] > ws[j]
                     \/ rest[i] = rest[j] /\ ws[i] = ws[j] /\ i < j
      Bonus(i) == Cardinality({j \in DOMAIN ws : First(j, i)}) < left
  IN  IF total = 0
      THEN extra \div Len(ws) + (IF k <= extra % Len(ws) THEN 1 ELSE 0)
      ELSE whole[k] + (IF Bonus(k) THEN 1 ELSE 0)

\* _allocate_minutes_by_weight; the second case needs a budget below the
\* minimum, which no duration and no selection produce.
Allocation(mins, ws, k) ==
  LET budget == TechnicalUnits(mins)
      extra  == ExtraUnits(mins, Len(ws))
  IN  IF extra < 0
      THEN budget \div Len(ws) + (IF k <= budget % Len(ws) THEN 1 ELSE 0)
      ELSE MinUnits(mins) + ExtraShare(extra, ws, k)

PlanOf(mins, s) ==
  LET chosen == Selected(mins, s)
      ws     == [k \in DOMAIN chosen |-> chosen[k].effective]
  IN  <<[kind |-> "self_intro", of |-> 0, units |-> IntroUnits(mins)]>>
      \o [k \in DOMAIN chosen |->
            [kind |-> "technical", of |-> chosen[k].of, units |-> Allocation(mins, ws, k)]]
      \o <<[kind |-> "behavioural_cultural", of |-> 0, units |-> BehaviouralUnits(mins)]>>

-----------------------------------------------------------------------------
(* The conversation.                                                        *)

Init ==
  /\ duration \in Durations /\ long \in BOOLEAN
  /\ attempt = 0 /\ repair = FALSE
  /\ outcome = "asking"
  /\ reply = <<>> /\ plan = <<>>

\* One answer less; after the last one the analysis has failed.
AnotherAttempt ==
  /\ attempt' = attempt + 1
  /\ outcome' = IF attempt + 1 = MaxAttempts THEN "failed" ELSE "asking"

LastAttempt == attempt = MaxAttempts - 1

\* The answer passes the schema and has a technical section.
AnswerAccepted(s) ==
  /\ outcome = "asking" /\ s # <<>>
  /\ outcome' = "planned" /\ attempt' = attempt + 1
  /\ reply' = Scored(s) /\ plan' = PlanOf(duration, s)
  /\ UNCHANGED <<duration, long, repair>>

\* No JSON, not the schema, a technical section without its brief, or no
\* technical section at all.
AnswerRejected ==
  /\ outcome = "asking"
  /\ AnotherAttempt
  /\ repair' = (repair \/ ~LastAttempt)
  /\ UNCHANGED <<duration, long, reply, plan>>

\* The request is too large: the text is cut, if it still can be.
RequestTooLarge ==
  /\ outcome = "asking"
  /\ AnotherAttempt
  /\ IF ~LastAttempt /\ long
     THEN long' = FALSE /\ repair' = FALSE
     ELSE UNCHANGED <<long, repair>>
  /\ UNCHANGED <<duration, reply, plan>>

RequestFails ==
  /\ outcome = "asking"
  /\ AnotherAttempt
  /\ UNCHANGED <<duration, long, repair, reply, plan>>

\* The text is rewritten for display; what cannot be used leaves it as it is.
FormatText ==
  /\ outcome = "planned"
  /\ outcome' \in {"formatted", "raw"}
  /\ UNCHANGED <<duration, long, attempt, repair, reply, plan>>

Next ==
  \/ \E s \in Replies : AnswerAccepted(s)
  \/ AnswerRejected \/ RequestTooLarge \/ RequestFails
  \/ FormatText

Spec == Init /\ [][Next]_vars

-----------------------------------------------------------------------------
(* Properties.                                                              *)

Technical == {k \in DOMAIN plan : plan[k].kind = "technical"}

Chosen == {plan[k].of : k \in Technical}

Weight(k) == reply[plan[k].of].effective

\* The conversation keeps its shape: a plan exists exactly when an answer was
\* accepted, it opens with the introduction and ends with the behavioural
\* section, and no technical section is empty or taken twice.
TypeOK ==
  /\ duration \in Durations /\ long \in BOOLEAN /\ repair \in BOOLEAN
  /\ attempt \in 0..MaxAttempts
  /\ outcome \in {"asking", "planned", "failed", "formatted", "raw"}
  /\ (plan # <<>>) <=> outcome \in {"planned", "formatted", "raw"}
  /\ outcome = "failed" => attempt = MaxAttempts
  /\ plan # <<>> =>
       /\ plan[1].kind = "self_intro" /\ plan[Len(plan)].kind = "behavioural_cultural"
       /\ Technical = 2..Len(plan) - 1 /\ Cardinality(Chosen) = Cardinality(Technical)
       /\ \A k \in DOMAIN plan : plan[k].units \in 1..1800

\* "Allocations must sum exactly to total_mins" (assessment_utils.py:552):
\* whatever the weights, rounding neither loses nor invents a tenth of a
\* minute.
SumsExactly ==
  plan # <<>> => SumFunction([k \in DOMAIN plan |-> plan[k].units]) = 10 * duration

\* "Every included technical/domain skill must receive meaningful time": the
\* number of sections that the duration admits leaves each its minimum.
EnoughDepth ==
  /\ plan # <<>> => Technical # {}
  /\ \A k \in Technical : plan[k].units >= MinUnits(duration)

\* "Drop lowest-priority skills first when time is limited": a section that
\* was left out weighs no more than any section that was kept, and of two that
\* weigh the same the job description preferred the kept one.
BestSelected ==
  \A i \in Chosen, j \in DOMAIN reply \ Chosen :
    /\ reply[j].effective <= reply[i].effective
    /\ reply[j].effective = reply[i].effective => reply[j].priority <= reply[i].priority

\* The technical sections come in descending weight, and rounding never gives
\* a lighter section more time than a heavier one.
HeavierNotShorter ==
  \A k, l \in Technical :
    /\ k < l => Weight(k) >= Weight(l)
    /\ Weight(k) > Weight(l) => plan[k].units >= plan[l].units

\* Beyond the minimum, every section is within one tenth of a minute of its
\* exact share by squared weight.
WithinQuota ==
  LET total == SumFunction([k \in Technical |-> Weight(k) * Weight(k)])
      extra == ExtraUnits(duration, Cardinality(Technical))
  IN  \A k \in Technical : total > 0 =>
        LET gap == (plan[k].units - MinUnits(duration)) * total - extra * Weight(k) * Weight(k)
        IN  -total < gap /\ gap < total

\* The plan is whole and its shares are fair.
SharesFair == TypeOK /\ EnoughDepth /\ HeavierNotShorter /\ WithinQuota
=============================================================================
