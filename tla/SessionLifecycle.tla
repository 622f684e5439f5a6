-------------------------- MODULE SessionLifecycle --------------------------
(***************************************************************************)
(* What the session service promises about one interview, without rows,    *)
(* tokens, connections or a clock: an interview opens once, each drop puts *)
(* it in a grace phase that ends by resuming or by closing, the last       *)
(* allowed drop closes it, recoveries cost at most one window of pause     *)
(* each, and a closed interview stays closed.                              *)
(***************************************************************************)
EXTENDS Integers

CONSTANTS Window, MaxStrikes

VARIABLES phase, strikes, paused

lifecycle == <<phase, strikes, paused>>

Init == phase = "new" /\ strikes = 0 /\ paused = 0

Open ==
    /\ phase = "new" /\ phase' = "open"
    /\ UNCHANGED <<strikes, paused>>

Drop ==
    /\ phase = "open"
    /\ strikes' = strikes + 1
    /\ phase' = IF strikes + 1 >= MaxStrikes THEN "closed" ELSE "grace"
    /\ UNCHANGED paused

Resume ==
    /\ phase = "grace" /\ phase' = "open"
    /\ paused' \in paused..(paused + Window)
    /\ UNCHANGED strikes

Close ==
    /\ phase \in {"open", "grace"} /\ phase' = "closed"
    /\ UNCHANGED <<strikes, paused>>

Next == Open \/ Drop \/ Resume \/ Close

Spec == Init /\ [][Next]_lifecycle

=============================================================================
