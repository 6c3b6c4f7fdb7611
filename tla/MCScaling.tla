------------------------------ MODULE MCScaling ------------------------------
(***************************************************************************)
(* Values for model checking Scaling.                                      *)
(***************************************************************************)
EXTENDS Scaling, TLC

\* The safety runs tell no pod from another.
Symmetry == Permutations(Pods)

\* Pods are created with more than the smallest limit.
Larger == [p \in Pods |-> MaxSize - 1]

NoRepair == [p \in Pods |-> 0]

\* Every pod is one that was repaired.
AllRepaired == [p \in Pods |-> MinSize + 1]
=============================================================================
