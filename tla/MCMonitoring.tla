---------------------------- MODULE MCMonitoring -----------------------------
(***************************************************************************)
(* Values for model checking Monitoring.                                   *)
(***************************************************************************)
EXTENDS Monitoring, TLC

CONSTANTS p1, p2

\* One pod lives through restarts and repairs, the other appears at any time.
Lives == (p1 :> 3) @@ (p2 :> 1)
Cpu == (p1 :> 1) @@ (p2 :> 0)
=============================================================================
