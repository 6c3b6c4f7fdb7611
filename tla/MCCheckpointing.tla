--------------------------- MODULE MCCheckpointing ---------------------------
(***************************************************************************)
(* Values for model checking Checkpointing.                                *)
(***************************************************************************)
EXTENDS Checkpointing, TLC

\* Pods, rounds and consumers are interchangeable in the safety runs.
Symmetry ==
    Permutations(Pods) \cup Permutations(Rounds) \cup Permutations(Consumers)
=============================================================================
