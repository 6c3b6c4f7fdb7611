----------------------------- MODULE MCRepairing -----------------------------
(***************************************************************************)
(* Values for model checking Repairing.                                    *)
(***************************************************************************)
EXTENDS Repairing, TLC

\* Pods, rounds, workers and consumers are interchangeable in the safety runs.
Symmetry ==
    Permutations(Pods) \cup Permutations(Rounds) \cup Permutations(Workers)
      \cup Permutations(Consumers)
=============================================================================
