------------------------------- MODULE Scaling -------------------------------
(***************************************************************************)
(* One iteration after the other of the main loop's scaling half: measure  *)
(* the containers, resume the throttled ones nobody waits for, scale down, *)
(* collect the candidates for scaling up, scale those for which the node   *)
(* has memory, pause the others, let the paused ones continue that are     *)
(* candidates no more, and clean up the pause list.                        *)
(*                                                                         *)
(* Every step starts one goroutine per container and waits for them all.   *)
(* They work on different containers, so a step is one action; what they   *)
(* share, the slices they append to without a lock, may lose entries and   *)
(* come in any order.  Every goroutine makes two calls to the runtime, an  *)
(* update and a read, and either may fail.                                 *)
(*                                                                         *)
(* Memory is counted in units of MIN_SCALE_SIZE or less; the ratios are    *)
(* the code's.                                                             *)
(***************************************************************************)
EXTENDS Integers, Sequences, FiniteSets, SequencesExt, FiniteSetsExt, Slices

CONSTANTS
    Pods,           \* pod names; one container per pod, as the code assumes
    MinSize,        \* MIN_SIZE_PER_CONTAINER
    MaxSize,        \* MAX_SIZE_PER_CONTAINER
    MinScaleSize,   \* MIN_SCALE_SIZE
    DownThreshold,  \* SCALE_DOWN_THRESHOLD
    TimeWindow,     \* MAX_TIME_WINDOW
    Capacity,       \* MAX_MEMORY_USAGE_THRESHOLD of the node's memory
    OwnLimit,       \* the limit a pod's container is created with
    RepairRequest,  \* RepairRequestMemory of the pods that were repaired,
                    \* 0 for the others
    Usages,         \* bound: memory a container may use
    NodeUsages,     \* bound: memory the node may use
    Growths,        \* bound: results of CalculateScaleSize
    MaxFailures     \* bound: containers for which a runtime call fails

ASSUME ConstantsAssumption ==
    /\ IsFiniteSet(Pods)
    /\ MinSize \in Nat /\ MaxSize \in Nat /\ MinSize <= MaxSize
    /\ MinScaleSize \in Nat \ {0}
    /\ DownThreshold \in Nat \ {0}
    /\ TimeWindow \in Nat /\ DownThreshold <= TimeWindow
    /\ Capacity \in Nat
    /\ OwnLimit \in [Pods -> Nat]
    /\ RepairRequest \in [Pods -> Nat]
    /\ Usages \subseteq Nat
    /\ NodeUsages \subseteq Nat
    /\ Growths \subseteq Nat
    /\ MaxFailures \in Nat

VARIABLES
    phase,       \* where the iteration is
    running,     \* currentRunningPods
    used,        \* memory in use on the node
    con,         \* what is asked of, seen of and true of each container
    res,         \* the Resource window of each container
    candidates,  \* scaleUpCandidateList
    size,        \* ScaleSize of the candidates
    pauseList,   \* pauseContainerList
    toRemove,    \* toRemovePauseContainer
    lost,        \* history: containers that were sent a limit, and of which no
                 \* update and no read has succeeded since
    lastUsage,   \* history: the memory each used when it was last measured
    failures     \* history: containers for which a call has failed, so far

vars == <<phase, running, used, con, res, candidates, size, pauseList,
          toRemove, lost, lastUsage, failures>>

(***************************************************************************)
(* Types                                                                   *)
(***************************************************************************)

\* A memory limit, and whether the CPU quota is LIMIT_CPU_QUOTA.
Setting == [limit : Int, throttled : BOOLEAN]

\* orig is OriginalContainerData, what the controller sends; cg is Cgroup, what
\* it decides from; actual is what the runtime enforces.
Container == [orig : Setting, cg : Setting, actual : Setting]

\* ConMemUtil is kept as the usage and the limit it was computed from.
Sample == [usage : Usages, limit : Int]

TypeOK ==
    /\ phase \in {"monitor", "resume", "down", "plan", "scale", "pause",
                  "continue", "delete", "remove"}
    /\ running \in SUBSET Pods
    /\ used \in NodeUsages
    /\ con \in [Pods -> Container]
    /\ res \in [Pods -> Seq(Sample)]
    /\ \A p \in Pods : Len(res[p]) <= TimeWindow
    /\ candidates \in Seq(Pods)
    /\ size \in [Pods -> Int]
    /\ pauseList \in Seq(Pods)
    /\ toRemove \in Seq(DOMAIN pauseList)
    /\ lost \in SUBSET Pods
    /\ lastUsage \in [Pods -> Usages \cup {0}]
    /\ failures \in 0 .. MaxFailures

\* What InitContainerData sends and keeps in OriginalContainerData and Cgroup.
Initially == [limit |-> MinSize, throttled |-> FALSE]

\* What the runtime then enforces.  An error of the first update is printed as
\* any other, and no read follows it.
AtFirst(p, ok) == IF ok THEN Initially ELSE [Initially EXCEPT !.limit = OwnLimit[p]]

Init ==
    /\ phase = "monitor"
    /\ running = {}
    /\ used \in NodeUsages
    /\ lost \in SUBSET Pods
    /\ con = [p \in Pods |-> [orig |-> Initially, cg |-> Initially,
                              actual |-> AtFirst(p, p \notin lost)]]
    /\ res = [p \in Pods |-> <<>>]
    /\ candidates = <<>>
    /\ size = [p \in Pods |-> 0]
    /\ pauseList = <<>>
    /\ toRemove = <<>>
    /\ lastUsage = [p \in Pods |-> 0]
    /\ failures = Cardinality(lost)
    /\ failures <= MaxFailures

(***************************************************************************)
(* Calls to the runtime.  An error of UpdateContainerResources is printed, *)
(* and UpdateContainerData leaves everything as it is when it gets no      *)
(* status: every call may fail without the controller taking notice.       *)
(***************************************************************************)

Outcome == [resume : BOOLEAN, update : BOOLEAN, read : BOOLEAN]
AllWell == [resume |-> TRUE, update |-> TRUE, read |-> TRUE]

\* UpdateContainerResources: the whole setting is sent, and kept as asked for.
Send(c, setting, ok) ==
    [c EXCEPT !.orig = setting, !.actual = IF ok THEN setting ELSE @]

\* Mutant of ReadBack: OriginalContainerData is not replaced.
ReadBackCgroupOnly(c, ok) == IF ok THEN [c EXCEPT !.cg = c.actual] ELSE c

\* UpdateContainerData.
ReadBack(c, ok) ==
    IF ok THEN [c EXCEPT !.orig = c.actual, !.cg = c.actual] ELSE c

SendQuota(c, throttled, ok) ==
    Send(c, [c.orig EXCEPT !.throttled = throttled], ok)

SendLimit(c, limit, ok) ==
    Send(c, [c.orig EXCEPT !.limit = limit], ok)

\* PauseContainer or ContinueContainer, and the read.
SetQuota(c, throttled, o) ==
    ReadBack(SendQuota(c, throttled, o.update), o.read)

\* ScaleUp or ScaleDown, and the read; ContinueContainer comes first when
\* Cgroup says that the container is throttled.
SetLimit(c, limit, o) ==
    LET awake == IF c.cg.throttled THEN SendQuota(c, FALSE, o.resume) ELSE c
    IN  ReadBack(SendLimit(awake, limit, o.update), o.read)

\* After one of these calls the controller's copy of the limit is the limit
\* enforced.  Resume does not read.
Answered(o) == o.update \/ (o.read /\ phase # "resume")

\* One goroutine for each container of a set.
ForEach(S, After) ==
    \E outcome \in [S -> IF failures < MaxFailures THEN Outcome ELSE {AllWell}] :
        LET failed == {p \in Pods \cap S : outcome[p] # AllWell}
        IN  /\ con' = [p \in Pods |-> IF p \in S THEN After[p][outcome[p]]
                                      ELSE con[p]]
            /\ lost' = {p \in Pods :
                          IF p \in S
                          THEN /\ ~Answered(outcome[p])
                               /\ p \in lost \/ phase \in {"down", "scale"}
                          ELSE p \in lost}
            /\ failures' = failures + Cardinality(failed)
            /\ failures' <= MaxFailures
            /\ UNCHANGED lastUsage

(***************************************************************************)
(* MonitoringPodResources, and the goroutines of main that resume          *)
(***************************************************************************)

Latest(p) == res[p][Len(res[p])]

\* The window of S is cut down to the latest sample, and TimeWindow to 1.
OnlyLatest(S) ==
    [p \in Pods |-> IF p \in S THEN <<Latest(p)>> ELSE res[p]]

\* A usage above the limit stands for stats that do not come.
HasStats(p, usage) == usage <= con[p].actual.limit

\* Mutant of Measured: the window grows by one more before it slides.
MeasuredSlidingLate(p, usage) ==
    LET longer == Append(res[p], [usage |-> usage, limit |-> con[p].cg.limit])
    IN  IF ~HasStats(p, usage) THEN res[p]
        ELSE IF Len(longer) > TimeWindow + 1 THEN Tail(longer) ELSE longer

\* The new sample, if there are stats, and the utilisation of the latest one by
\* the limit in Cgroup.
Measured(p, usage) ==
    LET longer == Append(res[p], [usage |-> usage, limit |-> 0])
        window == IF ~HasStats(p, usage) THEN res[p]
                  ELSE IF Len(longer) > TimeWindow THEN Tail(longer)
                  ELSE longer
    IN  [i \in DOMAIN window |->
           IF i = Len(window) THEN [window[i] EXCEPT !.limit = con[p].cg.limit]
           ELSE window[i]]

\* Mutant of Monitor: the quota is not read again.
MonitorWithoutQuota ==
    /\ phase = "monitor"
    /\ phase' = "resume"
    /\ running' \in SUBSET Pods
    /\ used' \in NodeUsages
    /\ \E usage \in [running' -> Usages] :
          /\ res' = [p \in Pods |-> IF p \in running' THEN Measured(p, usage[p])
                                    ELSE res[p]]
          /\ lastUsage' = [p \in Pods |->
                             IF p \in running' /\ HasStats(p, usage[p])
                             THEN usage[p] ELSE lastUsage[p]]
    /\ UNCHANGED <<con, candidates, size, pauseList, toRemove, lost, failures>>

Monitor ==
    /\ phase = "monitor"
    /\ phase' = "resume"
    /\ running' \in SUBSET Pods
    /\ used' \in NodeUsages
    /\ \E usage \in [running' -> Usages] :
          /\ res' = [p \in Pods |-> IF p \in running' THEN Measured(p, usage[p])
                                    ELSE res[p]]
          /\ lastUsage' = [p \in Pods |->
                             IF p \in running' /\ HasStats(p, usage[p])
                             THEN usage[p] ELSE lastUsage[p]]
    /\ con' = [p \in Pods |->
                 IF p \in running'
                 THEN [con[p] EXCEPT !.cg.throttled = con[p].actual.throttled]
                 ELSE con[p]]
    /\ UNCHANGED <<candidates, size, pauseList, toRemove, lost, failures>>

\* Mutant of Resume: the pause list is not looked at.
ResumeNoCandidates ==
    /\ phase = "resume"
    /\ phase' = "down"
    /\ LET idle == {p \in Pods : con[p].cg.throttled /\ p \notin ToSet(candidates)}
           After == [p \in Pods |->
                      [o \in Outcome |-> SendQuota(con[p], FALSE, o.update)]]
       IN  ForEach(idle, After)
    /\ UNCHANGED <<running, used, res, candidates, size, pauseList, toRemove>>

\* A throttled container that is no candidate, or not in the pause list, is
\* resumed.  The setting is not read back.
Resume ==
    /\ phase = "resume"
    /\ phase' = "down"
    /\ LET idle == {p \in Pods : /\ con[p].cg.throttled
                                 /\ \/ p \notin ToSet(candidates)
                                    \/ p \notin ToSet(pauseList)}
           After == [p \in Pods |->
                      [o \in Outcome |-> SendQuota(con[p], FALSE, o.update)]]
       IN  ForEach(idle, After)
    /\ UNCHANGED <<running, used, res, candidates, size, pauseList, toRemove>>

(***************************************************************************)
(* DecisionScaleDown                                                       *)
(***************************************************************************)

\* ConMemUtil against CONTAINER_MEMORY_SLO_UPPER and _LOWER.
Hot(s) == s.limit > 0 /\ 100 * s.usage > 80 * s.limit
Cold(s) == s.limit <= 0 \/ 100 * s.usage < 70 * s.limit

\* The containers whose window is long enough, that use less than the smallest
\* limit and have more; a repaired one keeps what it asked for.
Small ==
    {p \in running : /\ Len(res[p]) >= DownThreshold
                     /\ Latest(p).usage < MinSize
                     /\ con[p].cg.limit > MinSize
                     /\ con[p].cg.limit > RepairRequest[p]}

\* scaleDownCandidateList
TooLarge ==
    {p \in running : /\ Len(res[p]) >= DownThreshold
                     /\ Latest(p).usage >= MinSize
                     /\ Cold(Latest(p))}

\* Mutant of DownSize: the oldest sample is taken for the latest.
DownSizeFromOldest(p) == (100 * Head(res[p]).usage) \div 75

\* Usage over CONTAINER_MEMORY_SLO.
DownSize(p) == (100 * Latest(p).usage) \div 75

\* The small ones get the smallest limit while the list is built, and keep
\* their oldest sample; the listed ones get a goroutine each.
DecisionScaleDown ==
    /\ phase = "down"
    /\ phase' = "plan"
    /\ LET After == [p \in Pods |-> [o \in Outcome |->
             IF p \in Small
             THEN ReadBack(SendLimit(con[p], MinSize, o.update), o.read)
             ELSE SetLimit(con[p], DownSize(p), o)]]
       IN  ForEach(Small \cup TooLarge, After)
    /\ res' = [p \in Pods |-> IF p \in Small THEN <<Head(res[p])>>
                              ELSE OnlyLatest(TooLarge)[p]]
    /\ UNCHANGED <<running, used, candidates, size, pauseList, toRemove>>

(***************************************************************************)
(* DecisionScaleUp                                                         *)
(***************************************************************************)

\* The running containers that have a sample.
Sampled == {p \in running : res[p] # <<>>}

SumLimit == SumFunctionOnSet([p \in Pods |-> con[p].cg.limit], Sampled)

\* The bounds on what CalculateScaleSize returned.
ClampedSize(limit, growth) ==
    IF limit = MaxSize THEN 0
    ELSE IF limit + growth > MaxSize THEN MaxSize - limit
    ELSE IF growth < MinScaleSize THEN MinScaleSize
    ELSE growth

\* What CalculateScaleSize can return: it adds up, from the latest samples
\* back, growths of the usage that are not negative, with weights.
CalculateScaleSize == Growths

CheckToAppendScaleCandidateList(p) == p \notin ToSet(candidates)

\* AppendToScaleUpCandidateList, and a size for every candidate.
PlanScaleUp ==
    /\ phase = "plan"
    /\ phase' = "scale"
    /\ \E new \in SetToSeqs({p \in Sampled :
                              /\ Hot(Latest(p))
                              /\ CheckToAppendScaleCandidateList(p)}) :
          candidates' = candidates \o new
    /\ \E growth \in [ToSet(candidates') -> CalculateScaleSize] :
          size' = [p \in Pods |->
                     IF p \in ToSet(candidates')
                     THEN ClampedSize(con[p].orig.limit, growth[p]) ELSE 0]
    /\ UNCHANGED <<running, used, con, res, pauseList, toRemove, lost, lastUsage,
                   failures>>

\* The sum of the sizes of a list of candidates.
Sizes(list) == SumFunction([i \in DOMAIN list |-> size[list[i]]])

Sufficient == used + Sizes(candidates) < Capacity

\* What a list of candidates adds to the limits, when entry i gets sizes[i].
Growth(list, sizes) ==
    [p \in Pods |-> SumFunctionOnSet(sizes, {i \in DOMAIN list : list[i] = p})]

ScaleUp(grown, growth) ==
    LET After == [p \in Pods |-> [o \in Outcome |->
                    SetLimit(con[p], con[p].orig.limit + growth[p], o)]]
    IN  /\ ForEach(grown, After)
        /\ res' = OnlyLatest(grown)

\* The node has memory for all: those that can grow are scaled up, and the
\* list is reset.
ScaleUpAll ==
    /\ phase = "scale"
    /\ phase' = "continue"
    /\ Sufficient
    /\ ScaleUp({p \in ToSet(candidates) : size[p] # 0},
               Growth(candidates, [i \in DOMAIN candidates |-> size[candidates[i]]]))
    /\ candidates' = <<>>
    /\ size' = [p \in Pods |-> 0]
    /\ UNCHANGED <<running, used, pauseList, toRemove>>

\* CalculatePriority keys priorityMap by the id of the pod, and the sort looks
\* the name up, which is no key: every priority is 0, highestPriorityIndex stays
\* 0 in every turn, and the list keeps the order of arrival.
SortedCandidates == candidates

\* The first candidate that does not fit, or one past the end.
IsFirstUnfit(list, k) ==
    /\ \A j \in 1 .. k - 1 : used + Sizes(SubSeq(list, 1, j)) <= Capacity
    /\ k \in DOMAIN list => used + Sizes(SubSeq(list, 1, k)) > Capacity

\* noScaleUpIndex after the loop: the index of that candidate, counted from 0,
\* and one more unless it is the very first.
NoScaleUpIndex(list, k) == IF k = 1 \/ k > Len(list) THEN k - 1 ELSE k

\* lastScaleUpSize: what the limits leave of the capacity.
LastScaleUpSize(list, k) ==
    IF k = 1 \/ k > Len(list) THEN 0
    ELSE Capacity - (SumLimit + Sizes(SubSeq(list, 1, k - 1)))

Targets(list, k) ==
    LET n == NoScaleUpIndex(list, k)
    IN  SubSeq(list, 1, IF n >= Len(list) THEN n ELSE n + 1)

LeftOver(list, k) == SubSeq(list, NoScaleUpIndex(list, k) + 1, Len(list))

\* Mutant of ScaleUpSome: every target gets the size of the last.
ScaleUpSomeAlike ==
    /\ phase = "scale"
    /\ phase' = "pause"
    /\ ~Sufficient
    /\ \E k \in 1 .. Len(SortedCandidates) + 1 :
          /\ IsFirstUnfit(SortedCandidates, k)
          /\ LET targets == Targets(SortedCandidates, k)
                 last == LastScaleUpSize(SortedCandidates, k)
                 sizes == [i \in DOMAIN targets |->
                             IF last # 0 THEN last ELSE size[targets[i]]]
             IN  ScaleUp(ToSet(targets), Growth(targets, sizes))
          /\ candidates' = LeftOver(SortedCandidates, k)
    /\ size' = [p \in Pods |-> 0]
    /\ UNCHANGED <<running, used, pauseList, toRemove>>

\* The node has not: the first candidates are scaled up, the others stay.
ScaleUpSome ==
    /\ phase = "scale"
    /\ phase' = "pause"
    /\ ~Sufficient
    /\ \E k \in 1 .. Len(SortedCandidates) + 1 :
          /\ IsFirstUnfit(SortedCandidates, k)
          /\ LET targets == Targets(SortedCandidates, k)
                 last == LastScaleUpSize(SortedCandidates, k)
                 sizes == [i \in DOMAIN targets |->
                             IF last # 0 /\ i = Len(targets) THEN last
                             ELSE size[targets[i]]]
             IN  ScaleUp(ToSet(targets), Growth(targets, sizes))
          /\ candidates' = LeftOver(SortedCandidates, k)
    /\ size' = [p \in Pods |-> 0]
    /\ UNCHANGED <<running, used, pauseList, toRemove>>

\* What concurrent appends of the members of S to one slice can leave: any
\* order, and an append that saw the length before another's is overwritten.
RacingAppends(S) ==
    IF S = {} THEN {<<>>} ELSE SetToAllKPermutations(S) \ {<<>>}

\* The candidates left are paused unless they are listed as paused already.
PauseLeftOver ==
    /\ phase = "pause"
    /\ phase' = "continue"
    /\ LET awake == ToSet(candidates) \ ToSet(pauseList)
           After == [p \in Pods |-> [o \in Outcome |-> SetQuota(con[p], TRUE, o)]]
       IN  /\ ForEach(awake, After)
           /\ \E new \in RacingAppends(awake) : pauseList' = pauseList \o new
    /\ UNCHANGED <<running, used, res, candidates, size, toRemove>>

\* Paused containers that are candidates no more continue.
ContinueOthers ==
    /\ phase = "continue"
    /\ phase' = "delete"
    /\ LET done == {i \in DOMAIN pauseList : pauseList[i] \notin ToSet(candidates)}
           After == [p \in Pods |-> [o \in Outcome |-> SetQuota(con[p], FALSE, o)]]
       IN  /\ ForEach({pauseList[i] : i \in done}, After)
           /\ toRemove' \in RacingAppends(done)
    /\ UNCHANGED <<running, used, res, candidates, size, pauseList>>

\* The loop that deletes them from the pause list.
DeleteContinued ==
    /\ phase = "delete"
    /\ phase' = "remove"
    /\ pauseList' = DeleteIndices(pauseList, toRemove)
    /\ toRemove' = <<>>
    /\ UNCHANGED <<running, used, con, res, candidates, size, lost, lastUsage,
                   failures>>

(***************************************************************************)
(* The rest of the iteration, as far as the lists are concerned:           *)
(* DecisionRemoveContainer deletes what it kills from both lists.          *)
(***************************************************************************)
DecisionRemoveContainer ==
    /\ phase = "remove"
    /\ phase' = "monitor"
    /\ pauseList' \in Remnants(pauseList)
    /\ candidates' \in Remnants(candidates)
    /\ UNCHANGED <<running, used, con, res, size, toRemove, lost, lastUsage,
                   failures>>

-----------------------------------------------------------------------------

Next ==
    \/ Monitor \/ Resume \/ DecisionScaleDown \/ PlanScaleUp
    \/ ScaleUpAll \/ ScaleUpSome \/ PauseLeftOver \/ ContinueOthers
    \/ DeleteContinued \/ DecisionRemoveContainer

Spec == Init /\ [][Next]_vars

(***************************************************************************)
(* Fairness.  The main goroutine never stops, and the runtime lists a      *)
(* container again and again, whatever an iteration has missed.            *)
(***************************************************************************)
Fairness ==
    /\ WF_vars(Next)
    /\ \A p \in Pods : SF_vars(Monitor /\ p \in running')

FairSpec == Spec /\ Fairness

-----------------------------------------------------------------------------
(***************************************************************************)
(* Properties                                                              *)
(***************************************************************************)

\* As long as no call fails, a throttled container waits for memory: at the end
\* of DecisionScaleUp it is a candidate for scaling up, whatever the racing
\* appends and the deletion loop have made of the pause list before.
ThrottledAreWaiting ==
    phase = "remove" /\ failures = 0 =>
        \A p \in Pods : con[p].actual.throttled => p \in ToSet(candidates)

LimitKept(p) == con'[p].actual.limit = con[p].actual.limit

\* Pausing and continuing send the whole setting again, but leave the memory
\* limit as it is, whatever calls failed before: they bring back a limit that is
\* out of date only to a container of which no call has succeeded since it was
\* sent a limit (the first one, of InitContainerData, included).  One successful
\* update or read makes up for it.
QuotaKeepsLimit ==
    [][(phase \in {"resume", "pause", "continue"}) =>
         \A p \in Pods \ lost : LimitKept(p)]_vars

\* When DecisionScaleDown changes a limit, the container keeps the memory it used
\* when it was last measured, however its window has been cut and slid and
\* whatever samples were missed since.  The one exception: ContinueContainer, its
\* first call, can bring back the limit the controller last sent to a container
\* that has answered no call since, and the call for the new limit then fails.
ScaleDownKeepsUsage ==
    [][phase = "down" =>
         \A p \in running :
           \/ LimitKept(p)
           \/ con'[p].actual.limit >= lastUsage[p]
           \/ p \in lost /\ con'[p].actual.limit = con[p].orig.limit]_vars

\* A container that needs memory stops being a candidate only when its limit
\* has grown by all it needs, however the list is cut: the one exception is the
\* last of a list that does not fit, whose size is what the limits leave of the
\* capacity.  It takes calls that succeed, and a container of which a call has
\* succeeded since it was last sent a limit.
ScaledInFull ==
    [][phase = "scale" /\ failures' = failures =>
         \A p \in ToSet(candidates) \ (ToSet(candidates') \cup lost) :
           \/ size[p] <= 0
           \/ con'[p].actual.limit >= con[p].actual.limit + size[p]
           \/ used + Sizes(candidates) > Capacity /\ p = Last(candidates)]_vars

\* Whatever fails, a throttled container that is no candidate does not stay so
\* for ever: main's loop over all pods finds it again.
ThrottledResumed ==
    \A p \in Pods :
        con[p].actual.throttled /\ p \notin ToSet(candidates)
          ~> ~con[p].actual.throttled \/ p \in ToSet(candidates)
=============================================================================
