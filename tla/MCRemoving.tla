----------------------------- MODULE MCRemoving ------------------------------
(***************************************************************************)
(* Values for model checking Removing.                                     *)
(***************************************************************************)
EXTENDS Removing, TLC

CONSTANTS p1, p2, p3

\* The priority of p3 is not below the sentinel: it is never taken as the lowest.
Ranked == (p1 :> 0) @@ (p2 :> 1) @@ (p3 :> 2)

\* The pause list: any pods, in any order, and what an earlier deletion can have
\* left, an entry twice.
PausedPods ==
    {list \in SetToAllKPermutations({p1, p2, p3}) : Len(list) > 1}
        \cup {<<p1>>, <<p1, p2, p2>>}

\* Every pod is a candidate, the one with the lowest priority first or last.
AllCandidates == {<<p1, p2, p3>>, <<p3, p2, p1>>}

\* Not checkpointed, under memory pressure or not, or checkpointed recently; a
\* consumer sets any other.
Flags ==
    {<<FALSE, TRUE, FALSE>>, <<TRUE, TRUE, FALSE>>, <<TRUE, FALSE, TRUE>>}

Record(p, f) ==
    [pod |-> p, isCheckpoint |-> f[1], hot |-> f[2], recent |-> f[3]]

RecordsOf(pods) ==
    {[i \in DOMAIN pods |-> Record(pods[i], f[i])] : f \in [DOMAIN pods -> Flags]}

\* One record per pod, none for one of them, or two.
PodRecords ==
    UNION {RecordsOf(pods) :
             pods \in {<<p1, p2, p3>>, <<p3, p1>>, <<p1, p1, p2>>}}
=============================================================================
