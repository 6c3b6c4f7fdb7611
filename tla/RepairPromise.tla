---------------------------- MODULE RepairPromise ----------------------------
(***************************************************************************)
(* What the repair of killed pods promises of the node, with nothing of    *)
(* lists, channels, rounds and goroutines: the life of each pod.  A pod is *)
(* killed, an image is built of what was killed, the pod is created from   *)
(* an image, perhaps rejected and created again, and found.                *)
(***************************************************************************)

CONSTANT Pods  \* pod names

VARIABLES
    killed,  \* pods killed so far
    imaged,  \* pods of which an image was built
    alive,   \* pods that exist
    found    \* pods that were found back

vars == <<killed, imaged, alive, found>>

Init ==
    /\ killed = {}
    /\ imaged = {}
    /\ alive = Pods
    /\ found = {}

\* Nobody looks whether the command had any effect.
Kill(p) ==
    /\ killed' = killed \cup {p}
    /\ alive' \in {alive, alive \ {p}}
    /\ UNCHANGED <<imaged, found>>

BuildImage(p) ==
    /\ p \in killed
    /\ imaged' = imaged \cup {p}
    /\ UNCHANGED <<killed, alive, found>>

Create(p) ==
    /\ p \in imaged
    /\ alive' = alive \cup {p}
    /\ UNCHANGED <<killed, imaged, found>>

\* Only what can be created again is rejected.
Reject(p) ==
    /\ p \in imaged \cap alive
    /\ alive' = alive \ {p}
    /\ UNCHANGED <<killed, imaged, found>>

Find(p) ==
    /\ p \in imaged \cap alive
    /\ found' = found \cup {p}
    /\ UNCHANGED <<killed, imaged, alive>>

Next ==
    \E p \in Pods :
        \/ Kill(p) \/ BuildImage(p) \/ Create(p) \/ Reject(p) \/ Find(p)

Spec == Init /\ [][Next]_vars
=============================================================================
