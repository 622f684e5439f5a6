----------------------------- MODULE MCEnrolment -----------------------------
(* Two overlapping interview windows and one that only touches the second. *)
EXTENDS Enrolment, TLC

CONSTANTS a1, a2, a3, alice, bob

Perms == Permutations(Requests) \cup Permutations(Emails)

MCOwner == (a1 :> alice) @@ (a2 :> alice) @@ (a3 :> bob)

MCWindow == (a1 :> [from |-> 0, to |-> 2]) @@ (a2 :> [from |-> 1, to |-> 3])
                @@ (a3 :> [from |-> 3, to |-> 4])
=============================================================================
