----------------------------- MODULE MCRowLocks -----------------------------
(* RowLocks on a small instance, for TLC.  Enrolments are interchangeable. *)
EXTENDS RowLocks, TLC

Symmetry == Permutations(Enrolments)

=============================================================================
