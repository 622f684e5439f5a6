---------------------------- MODULE MCProctoring ----------------------------
(* Proctoring on a small instance, for TLC.  Ids and starts are compared   *)
(* with one another only, so permuting them changes nothing.               *)
EXTENDS Proctoring

Symmetry ==
    Permutations(Turns) \cup Permutations(Starts) \cup Permutations(FaceEvents)
      \cup Permutations(TabEvents \ LegacyTabs)

=============================================================================
