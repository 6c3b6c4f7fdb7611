----------------------------- MODULE Monitoring ------------------------------
(***************************************************************************)
(* What the controller knows of pods and containers: podIndex, podInfoSet  *)
(* and the windows of samples, from which everything else is decided.      *)
(*                                                                         *)
(* In every iteration main lists the pods, goes through the listing,       *)
(* computes utilisations and priorities and lets the scaling cut windows.  *)
(* All the while kubelet restarts containers and goroutines repair pods:   *)
(* the listing may be out of date when a pod of it is looked at, and the   *)
(* array of podInfoSet may have moved when a repair writes to it.          *)
(*                                                                         *)
(* A pod has one container, as the code assumes, and one sandbox.          *)
(***************************************************************************)
EXTENDS Integers, Sequences, FiniteSets, SequencesExt

CONSTANTS
    Pods,           \* pod names
    NoStats,        \* a pod that is not, or no more, in the listing
    MaxTimeWindow,  \* MAX_TIME_WINDOW
    DownThreshold,  \* SCALE_DOWN_THRESHOLD
    Modulus,        \* 2^64, for the subtraction of two uint64
    MaxCpu,         \* bound: CPU time a container of each pod accounts for
    MaxLives        \* bound: containers of each pod, one after the other

ASSUME ConstantsAssumption ==
    /\ MaxTimeWindow \in Nat /\ 2 <= MaxTimeWindow
    /\ DownThreshold \in Nat \ {0}
    /\ Modulus \in Nat
    /\ MaxCpu \in [Pods -> 0 .. Modulus - 1]
    /\ MaxLives \in [Pods -> Nat]
    /\ NoStats \notin [id : Nat, attempt : Nat, cpu : Nat]

VARIABLES
    phase,      \* where main is
    listing,    \* what ListPodSandboxStats said of the pods still to look at
    ready,      \* isPodRunning
    running,    \* currentRunningPods
    known,      \* pods in podIndex
    con,        \* Container[0] of each pod
    arrays,     \* IsRepairPod in the arrays of podInfoSet, the last is in use
    repairing,  \* the array a repair of the pod was handed, 0 when there is none
    actual,     \* the container that runs
    answered,   \* history: containers whose restart main answered with a kill
    outrun      \* history: pods under repair when the array moved

main == <<phase, listing, ready, running>>
vars == <<main, known, con, arrays, repairing, actual, answered, outrun>>

(***************************************************************************)
(* Types                                                                   *)
(***************************************************************************)

\* CpuUtil is kept as its numerator, a uint64.
Sample == [cpu : Nat, util : 0 .. Modulus - 1]

Container == [listed : BOOLEAN, id : Nat, attempt : Nat, timeWindow : Nat,
              res : Seq(Sample)]

Stats == [id : Nat, attempt : Nat, cpu : Nat]

TypeOK ==
    /\ phase \in {"list", "visit", "measure", "scale", "exit", "crashed"}
    /\ listing \in [Pods -> Stats \cup {NoStats}]
    /\ ready \in BOOLEAN
    /\ running \in SUBSET Pods
    /\ known \in SUBSET Pods
    /\ con \in [Pods -> Container]
    /\ arrays \in Seq(SUBSET Pods) /\ arrays # <<>>
    /\ repairing \in [Pods -> 0 .. Len(arrays)]
    /\ actual \in [Pods -> [up : BOOLEAN, id : Nat, attempt : Nat,
                            cpu : Nat]]
    /\ \A p \in Pods : /\ actual[p].id <= MaxLives[p]
                       /\ actual[p].cpu <= MaxCpu[p]
    /\ answered \in SUBSET (Pods \X Nat)
    /\ outrun \in SUBSET Pods

Unlisted == [p \in Pods |-> NoStats]

Init ==
    /\ phase = "list"
    /\ listing = Unlisted
    /\ ready = FALSE
    /\ running = {}
    /\ known = {}
    /\ con = [p \in Pods |-> [listed |-> FALSE, id |-> 0, attempt |-> 0,
                              timeWindow |-> 0, res |-> <<>>]]
    /\ arrays = <<{}>>
    /\ repairing = [p \in Pods |-> 0]
    /\ actual = [p \in Pods |-> [up |-> FALSE, id |-> 0, attempt |-> 0,
                                 cpu |-> 0]]
    /\ answered = {}
    /\ outrun = {}

Alive == phase \notin {"exit", "crashed"}

\* Main looks at the node and at podInfoSet's array in these phases only: what
\* happens at another time could as well happen after it.
Observing == phase \in {"list", "visit"}

(***************************************************************************)
(* The node: pods are created, their containers restarted; some pods are   *)
(* killed by the phases of DecisionRemoveContainer and repaired.           *)
(***************************************************************************)

CreatePod(p) ==
    /\ Observing
    /\ actual[p].id = 0
    /\ 0 < MaxLives[p]
    /\ actual' = [actual EXCEPT ![p].up = TRUE, ![p].id = 1]
    /\ UNCHANGED <<main, known, con, arrays, repairing, answered, outrun>>

\* kubelet starts another container in the place of one that ended.
Restart(p) ==
    /\ Observing
    /\ actual[p].up
    /\ actual[p].id < MaxLives[p]
    /\ actual' = [actual EXCEPT ![p].id = @ + 1, ![p].attempt = @ + 1,
                                ![p].cpu = 0]
    /\ UNCHANGED <<main, known, con, arrays, repairing, answered, outrun>>

Kill(p) ==
    /\ phase = "scale"
    /\ p \in known
    /\ actual' = [actual EXCEPT ![p].up = FALSE]
    /\ UNCHANGED <<main, known, con, arrays, repairing, answered, outrun>>

\* Mutant of StartRepair: the array podInfoSet had in the beginning is handed.
StartRepairWithFirst(p) ==
    /\ Observing
    /\ p \in known
    /\ ~actual[p].up
    /\ repairing[p] = 0
    /\ repairing' = [repairing EXCEPT ![p] = 1]
    /\ UNCHANGED <<main, known, con, arrays, actual, answered, outrun>>

\* DecisionRepairContainer is handed podInfoSet as it is.
StartRepair(p) ==
    /\ Observing
    /\ p \in known
    /\ ~actual[p].up
    /\ repairing[p] = 0
    /\ repairing' = [repairing EXCEPT ![p] = Len(arrays)]
    /\ UNCHANGED <<main, known, con, arrays, actual, answered, outrun>>

\* The pod created from the image has a first container again.
RestoreContainer(p) ==
    /\ Observing
    /\ repairing[p] # 0
    /\ ~actual[p].up
    /\ actual[p].id < MaxLives[p]
    /\ actual' = [actual EXCEPT ![p] = [up |-> TRUE, id |-> @.id + 1,
                                        attempt |-> 0, cpu |-> 0]]
    /\ UNCHANGED <<main, known, con, arrays, repairing, answered, outrun>>

\* It is marked in the array the repair was handed.
UpdatePodData(p) ==
    /\ Observing
    /\ repairing[p] # 0
    /\ actual[p].up
    /\ arrays' = [arrays EXCEPT ![repairing[p]] = @ \cup {p}]
    /\ repairing' = [repairing EXCEPT ![p] = 0]
    /\ UNCHANGED <<main, known, con, actual, answered, outrun>>

(***************************************************************************)
(* GetPodStatsInfo                                                         *)
(***************************************************************************)

\* ListPodSandboxStats fails: what was running is taken to be running.
ListFails ==
    /\ phase = "list"
    /\ phase' = "measure"
    /\ UNCHANGED <<listing, ready, running, known, con, arrays, repairing,
                   actual, answered, outrun>>

\* The pods that run, with the CPU time accounted for by now.
ListPods ==
    /\ phase = "list"
    /\ phase' = "visit"
    /\ \E more \in [Pods -> {0, 1}] :
          /\ \A p \in Pods : /\ actual[p].cpu + more[p] <= MaxCpu[p]
                             /\ ~actual[p].up => more[p] = 0
          /\ actual' = [p \in Pods |-> [actual[p] EXCEPT !.cpu = @ + more[p]]]
          /\ listing' = [p \in Pods |->
                           IF actual[p].up
                           THEN [id |-> actual[p].id,
                                 attempt |-> actual[p].attempt,
                                 cpu |-> actual[p].cpu + more[p]]
                           ELSE NoStats]
    /\ ready' = FALSE
    /\ running' = {}
    /\ UNCHANGED <<known, con, arrays, repairing, answered, outrun>>

\* The loop comes to p.
Turn(p) ==
    /\ phase = "visit"
    /\ listing[p] # NoStats
    /\ listing' = [listing EXCEPT ![p] = NoStats]

\* There is no status of the sandbox, or it says NOTREADY.
SkipPod(p) ==
    /\ Turn(p)
    /\ UNCHANGED <<phase, ready, running, known, con, arrays, repairing, actual,
                   answered, outrun>>

\* InitPodData, for a pod that is new: the append moves podInfoSet to a larger
\* array when the present one is full.
InitPodData(p) ==
    /\ ready' = TRUE
    /\ known' = known \cup {p}
    /\ \/ UNCHANGED <<arrays, outrun>>
       \/ /\ p \notin known
          /\ arrays' = Append(arrays, Last(arrays))
          /\ outrun' = outrun \cup {q \in Pods : repairing[q] # 0}

\* getContainerStatsInfo returns false: there is no answer from kubectl, no
\* container, as after a crash, or no status of it.
VisitWithoutContainer(p) ==
    /\ Turn(p)
    /\ InitPodData(p)
    /\ UNCHANGED <<phase, running, con, repairing, actual, answered>>

\* The container cannot be created, and there is a checkpoint record: the pod is
\* deleted, for the repair to begin again.
RemoveRestartedRepairContainer(p) ==
    /\ Turn(p)
    /\ p \in known
    /\ InitPodData(p)
    /\ actual' = [actual EXCEPT ![p].up = FALSE]
    /\ UNCHANGED <<phase, running, con, repairing, answered>>

\* InitContainerData gets no status: the pod counts as running all the same.
VisitUninitialised(p) ==
    /\ Turn(p)
    /\ InitPodData(p)
    /\ ~con[p].listed
    /\ running' = running \cup {p}
    /\ UNCHANGED <<phase, con, repairing, actual, answered>>

Restarted(p) == con[p].listed /\ con[p].attempt < listing[p].attempt

\* Mutant of KillRestarted: the new attempt is not kept.
KillAgain(p) ==
    /\ Turn(p)
    /\ InitPodData(p)
    /\ Restarted(p)
    /\ answered' = answered \cup {<<p, listing[p].id>>}
    /\ \/ actual' = [actual EXCEPT ![p].up = FALSE]
       \/ UNCHANGED actual
    /\ UNCHANGED <<phase, running, con, repairing>>

\* The container was restarted and there is a checkpoint of it: the pod is
\* killed and sent to be repaired.  The commands may fail unnoticed.
KillRestarted(p) ==
    /\ Turn(p)
    /\ InitPodData(p)
    /\ Restarted(p)
    /\ con' = [con EXCEPT ![p].attempt = listing[p].attempt]
    /\ answered' = answered \cup {<<p, listing[p].id>>}
    /\ \/ actual' = [actual EXCEPT ![p].up = FALSE]
       \/ UNCHANGED actual
    /\ UNCHANGED <<phase, running, repairing>>

Replaced(p) == con[p].listed /\ con[p].id # listing[p].id

\* InitContainerData.
InitContainerData(s) ==
    [listed |-> TRUE, id |-> s.id, attempt |-> s.attempt, timeWindow |-> 0,
     res |-> <<>>]

\* Mutant of FixRestartContainerData: the window is left as it is.
FixWithoutCut(c, s) == [c EXCEPT !.id = s.id, !.attempt = s.attempt]

\* FixRestartContainerData, and the window is cut down to the latest sample, of
\* the container before.
FixRestartContainerData(c, s) ==
    [c EXCEPT !.id = s.id, !.attempt = s.attempt, !.timeWindow = 1,
              !.res = <<Last(@)>>]

\* What the container is known to be after the checks for a restart.
Checked(p, s) ==
    IF ~con[p].listed THEN InitContainerData(s)
    ELSE IF Replaced(p) THEN FixRestartContainerData(con[p], s)
    ELSE [con[p] EXCEPT !.attempt = IF @ < s.attempt THEN s.attempt ELSE @]

\* Mutant of Sampled: TimeWindow grows by one more before the window slides.
SampledUnslid(c, s) ==
    [c EXCEPT !.res = Append(@, [cpu |-> s.cpu, util |-> 0]),
              !.timeWindow = IF @ < MaxTimeWindow THEN @ + 1 ELSE @]

\* A new sample: the window grows, or slides once it is MAX_TIME_WINDOW long.
Sampled(c, s) ==
    LET longer == Append(c.res, [cpu |-> s.cpu, util |-> 0])
    IN  IF c.timeWindow < MaxTimeWindow
        THEN [c EXCEPT !.res = longer, !.timeWindow = @ + 1]
        ELSE [c EXCEPT !.res = Tail(longer)]

\* The whole of getContainerStatsInfo; there may be no stats of CPU and memory.
VisitContainer(p) ==
    /\ Turn(p)
    /\ InitPodData(p)
    /\ Replaced(p) => con[p].res # <<>>
    /\ \E next \in {Checked(p, listing[p]),
                    Sampled(Checked(p, listing[p]), listing[p])} :
          con' = [con EXCEPT ![p] = next]
    /\ running' = running \cup {p}
    /\ UNCHANGED <<phase, repairing, actual, answered>>

\* The container was replaced, and either the status asked for a second time
\* does not come, so that the window of nothing is cut, or there is no sample
\* to cut it to: both end the program.
CrashOnReplaced(p) ==
    /\ Turn(p)
    /\ InitPodData(p)
    /\ Replaced(p)
    /\ phase' = "crashed"
    /\ UNCHANGED <<running, con, repairing, actual, answered>>

\* Without a pod that is ready the program prints its results and exits.
EndVisit ==
    /\ phase = "visit"
    /\ listing = Unlisted
    /\ phase' = IF ready THEN "measure" ELSE "exit"
    /\ UNCHANGED <<listing, ready, running, known, con, arrays, repairing,
                   actual, answered, outrun>>

(***************************************************************************)
(* The rest of the iteration                                               *)
(***************************************************************************)

\* Mutant of CpuUtil: the difference is signed.
CpuUtilSigned(res) ==
    IF Len(res) <= 1 THEN 0 ELSE res[Len(res)].cpu - res[Len(res) - 1].cpu

\* CpuUtil of the latest sample, by the one before.
CpuUtil(res) ==
    IF Len(res) <= 1 THEN 0
    ELSE (res[Len(res)].cpu - res[Len(res) - 1].cpu) % Modulus

\* MonitoringPodResources.
Measured(c) ==
    IF c.res = <<>> THEN c
    ELSE [c EXCEPT !.res[Len(c.res)].util = CpuUtil(c.res)]

\* GetPriorityMetric reads as many samples from the end as TimeWindow says.
GetPriorityMetricReads(p) == con[p].timeWindow <= Len(con[p].res)

\* Both, for the running pods.
Measure ==
    /\ phase = "measure"
    /\ con' = [p \in Pods |-> IF p \in running THEN Measured(con[p])
                              ELSE con[p]]
    /\ phase' = IF \A p \in running : GetPriorityMetricReads(p) THEN "scale"
                ELSE "crashed"
    /\ UNCHANGED <<listing, ready, running, known, arrays, repairing, actual,
                   answered, outrun>>

\* What DecisionScaleUp and DecisionScaleDown do to a window.
Cuts(c) ==
    {c} \cup {[c EXCEPT !.timeWindow = 1, !.res = <<s>>] :
                s \in IF c.res = <<>> THEN {}
                      ELSE {Last(c.res)}
                        \cup IF Len(c.res) < DownThreshold THEN {}
                             ELSE {Head(c.res)}}

Scale ==
    /\ phase = "scale"
    /\ phase' = "list"
    /\ \E next \in [Pods -> UNION {Cuts(con[p]) : p \in Pods}] :
          /\ \A p \in Pods : next[p] \in Cuts(con[p])
          /\ con' = next
    /\ UNCHANGED <<listing, ready, running, known, arrays, repairing, actual,
                   answered, outrun>>

-----------------------------------------------------------------------------

Node(p) ==
    \/ CreatePod(p) \/ Restart(p) \/ Kill(p)
    \/ StartRepair(p) \/ RestoreContainer(p) \/ UpdatePodData(p)

Visit(p) ==
    \/ SkipPod(p) \/ VisitWithoutContainer(p)
    \/ RemoveRestartedRepairContainer(p) \/ VisitUninitialised(p)
    \/ KillRestarted(p) \/ VisitContainer(p) \/ CrashOnReplaced(p)

\* The program has ended.
Halted == ~Alive /\ UNCHANGED vars

Next ==
    \/ \E p \in Pods : Node(p) \/ Visit(p)
    \/ ListFails \/ ListPods \/ EndVisit \/ Measure \/ Scale
    \/ Halted

Spec == Init /\ [][Next]_vars

-----------------------------------------------------------------------------
(***************************************************************************)
(* Properties                                                              *)
(***************************************************************************)

\* Appending, sliding, the cut after a restart and the two kinds of cut of the
\* scaling keep TimeWindow and the number of samples equal: GetPriorityMetric
\* never reads before the first sample, and divides by what it has added up.
WindowReadable ==
    \A p \in Pods : con[p].timeWindow = Len(con[p].res)

\* The CPU time of a new container is less than that of the one before, so
\* CpuUtil, a difference of uint64, wraps around.  That happens once after a
\* restart, never in the middle of a window: whatever restarts, repairs and
\* cuts come in between, a wrapped value is one of the two oldest of its window.
WrapsOnlyAfterRestart ==
    \A p \in Pods : \A i \in DOMAIN con[p].res :
        con[p].res[i].util > MaxCpu[p] => i <= 2

\* A restart is answered with one kill: the pod is not killed once more for it
\* when the kill had no effect, when the listing is old, or when it was repaired
\* and its attempts are counted from 0 again.
OneKillPerRestart ==
    [][\A p \in Pods :
         KillRestarted(p) => <<p, listing[p].id>> \notin answered]_vars

\* The mark of a repaired pod, without which its raised limit is taken back, is
\* lost only if podInfoSet moved while the repair was under way.
MarksKept ==
    \A i \in DOMAIN arrays : arrays[i] \subseteq Last(arrays) \cup outrun
=============================================================================
