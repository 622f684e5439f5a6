--------------------------- MODULE MCInterviewPlan ---------------------------
(* Two skills, one focus area that takes the time away and one that gives   *)
(* it, answers of up to three sections of every kind, and longer ones.       *)
EXTENDS InterviewPlan

MCDurations == {2, 4, 5, 8, 10, 15, 16, 30, 45, 60, 180}

MCPriorities == <<10, 6>>

MCOverrides == <<0, 9>>

\* Named after a skill, after the other one, or not in the analysis; and in no
\* focus area, in the first, the second, or closer to the second.
Named == {<<3, 0>>, <<1, 3>>, <<0, 0>>}
Focused == {<<0, 0>>, <<3, 0>>, <<1, 2>>}
Sections == [skills : Named, areas : Focused]

Plain(n) == [skills |-> n, areas |-> <<0, 0>>]

\* As many sections as a model may list, in ascending, equal or mixed weight.
LongReplies ==
  {[i \in 1..9 |-> Plain(<<0, 0>>)],
   [i \in 1..8 |-> IF i % 3 = 0 THEN Plain(<<3, 0>>) ELSE Plain(<<0, 3>>)],
   [i \in 1..8 |-> IF i < 6 THEN Plain(<<0, 0>>) ELSE Plain(<<3, 0>>)],
   [i \in 1..9 |-> [skills |-> <<3, 0>>, areas |-> IF i % 2 = 0 THEN <<3, 0>> ELSE <<0, 3>>]],
   [i \in 1..8 |-> [skills |-> <<3, 0>>, areas |-> <<3, 0>>]]}

MCReplies ==
  {<<>>} \cup {<<a>> : a \in Sections} \cup {<<a, b>> : a, b \in Sections}
    \cup {<<a, b, c>> : a, b, c \in Sections} \cup LongReplies
=============================================================================
