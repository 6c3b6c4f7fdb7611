# A verification of container-elastic

container-elastic is a node-level controller written in Go. Every second it
measures the containers of a node, changes their memory limits, throttles
("pauses") the ones for which there is no memory, checkpoints throttled ones,
kills checkpointed ones when memory runs out, and creates them again from their
checkpoints when there is room. This directory holds TLA+ modules of the
controller, TLC runs over small instances of them, and proofs checked by TLAPS.

Paths such as `main.go:136` are relative to the repository's root.

## 1. The system

### Components

| component | state it keeps | operations |
|---|---|---|
| main loop (`main.go`) | `podIndex`, `podInfoSet`, `currentRunningPods`, the four lists (scale-up candidates, paused, checkpointed, removed), four channels of 100 places, a semaphore of 2 | one iteration per second: measure, resume, scale down, scale up and pause, start two list-serving goroutines, start a checkpoint round, kill, start two repair goroutines |
| monitoring (`get_stats.go`, `stats_management.go`) | per container: `Resource` window (at most 60 samples), `TimeWindow`, `Cgroup`, `OriginalContainerData`, `Attempt` | sample, slide the window, detect restarts, reread or reset limits |
| priority (`get_priority_metric.go`) | `priorityMap`, keyed by pod id | compute metric and map |
| scaling and pausing (`scale/`) | `scaleUpCandidateList`, `pauseContainerList`, limits and quotas in the runtime | `DecisionScaleDown`, `DecisionScaleUp` |
| checkpointing (`checkpoint/`) | `checkpointContainerList`, append and modify channels, semaphore | `DecisionCheckpoint`, its workers, the consumer goroutine of `main.go:136-193` |
| removal (`remove.go`) | takes entries out of three lists, feeds `removeContainerToChan` | `DecisionRemoveContainer` in three phases, `RemoveContainer` |
| repair (`repair.go`) | `removeContainerList`, its flags per container | `CreateImageContainer`, `DecisionRepairContainer`, the consumer of `main.go:201-245` |
| reports and helpers | none | `PrintResult`, `IsSucceed`, `GetSystemStatsInfo`, `InitClient`, `user_util.go` |

### How they interact

The main goroutine owns the lists and rewrites them, in part in place. It never
takes a lock. Every iteration starts goroutines that are never stopped: one
that serves the append and modify channels, one that serves the remove and
repair channels, and one round each of checkpointing, image building and
repair. The rounds get the lists by value of the slice, so they share the
backing arrays with main; the consumers capture the list variables themselves
and write to them while main reads. After a minute some sixty consumers compete
for each message.

The runtime (CRI-O), the kubelet's checkpoint endpoint and `kubectl` are called
from all of these goroutines. Errors are printed and forgotten, and no call has
a time limit.

### What is hard here, and what correctness means

* Checkpointing: overlapping rounds and consumers, reports out of order, an
  `err` variable shared by the workers of a round. Correct means: bounded
  calls, no claim of a checkpoint that was not made, no archive attached to
  another pod, rounds that end; and, as the comments of `remove.go` have it, no
  kill of a container that is being checkpointed or was not.
* Scaling: racing appends, in-place deletions by unsorted indices, calls that
  fail, arithmetic at the edge of capacity. Correct means: throttled containers
  wait for memory or get resumed, limits cover what is in use, the selection
  does what its comments say.
* Removal and repair: lists reset between phases, kills that fail, several
  messages per pod overtaking each other, a queue cut short. Correct means:
  what is killed is repaired once, from its own archive.
* Monitoring: windows whose length two variables must agree on, restarts seen
  late, elements of `podInfoSet` moved while repair goroutines write to them.

`PROJECT.json` lists each hazard with its line and the properties that cover it.

## 2. Modules

| module | what it is |
|---|---|
| `Slices` | Go slices as the goroutines use them: what one sees of a slice it was handed (`Views`), writes at an index (`Overwrite`), the deletion loop of main exactly (`DeleteIndices`), and everything that loop can leave of a list when the indices are unknown (`Remnants`) |
| `SlicesProofs` | lemmas about them, and that whatever `DeleteIndices` leaves is one of the `Remnants` |
| `RecursionProofs` | induction over the naturals for recursive functions, and sums over sets: what the proofs about loops and totals rest on |
| `Checkpointing` | the checkpoint pipeline: rounds, workers, channels, semaphore, consumers, and the kills that rely on it |
| `CheckpointingProofs` | its theorems |
| `Scaling` | the scaling half of an iteration with the runtime's calls |
| `ScalingProofs` | its theorems |
| `Removing` | one call of `DecisionRemoveContainer`: its three phases, and the consumers that write the checkpoint list meanwhile |
| `RemovingProofs` | its theorems |
| `Repairing` | the repair pipeline: kills, the removed list, image building, repair, and the consumers in between |
| `RepairPromise` | what the repair promises of each pod, with nothing of lists and goroutines: the abstract specification `Repairing` implements |
| `RepairingProofs` | the theorems of `Repairing`, the refinement among them |
| `Monitoring` | what the controller knows of pods and containers: listing, windows, restarts, `podInfoSet`, repairs that write to it |
| `MonitoringProofs` | its theorems |
| `MCCheckpointing`, `MCScaling`, `MCRemoving`, `MCRepairing`, `MCMonitoring` | values for TLC |

How they fit together. No module composes all five: the product of their
states is out of TLC's reach. Each takes what the others may do to its lists as
a step of its own environment, and the interfaces are checked where they meet:

* `Scaling` and `Checkpointing` take a removal to leave a member of `Remnants`
  of each list; that the three phases of `Removing` do is a theorem
  (`RemnantsReturned`).
* `Checkpointing` tests records of the checkpoint list and takes what is at their
  index a moment later, as often as it likes, and drops a remnant of the pause list
  with every one (`TestRecord`, `TakeRecord`). That covers the three phases of
  `Removing`: each takes a record it has tested, at the same index, and
  remnants of remnants are what the phases together leave (`RemnantsReturned`).
* `Checkpointing` and `Repairing` share the kill: the one says when a pod may be
  killed, the other what comes of the message.
* `Repairing` ends with `UpdatePodData`, whose writes are in `Monitoring`.
* `Monitoring` keeps the windows that `Scaling` reads; `Scaling` has the limits,
  which `Monitoring` leaves out.

### Checkpointing

One variable per list, channel and program counter. A *round* is one call of
`DecisionCheckpoint`. `Skip`, `Request`, `Send` and `Launch` are its loop over
the pause list, `Return` is `wg.Wait()`. A *worker* goes through `Acquire`
(semaphore), `Announce` (first message), `Call` (kubelet), `Check` (test of the
shared `err`), `Report` (second message) and `Release` (deferred calls). A
*consumer* takes a message and looks at the list (`TakeAppend`, `TakeModify`),
writes at the indices it found (`WriteAppend`, `Write`), and, after the call of
`PodSandboxStats`, deletes or stamps at the same index (`Abort`, `Complete`).
After a stamp it scans the pause list for the pod (`FindPaused`) and flags the
entry at the index it found (`FlagPaused`). An index that is out of range by then is a panic, which ends the goroutine if
it has deferred its `recover()` before and the program otherwise (`Panic`,
`Crashed`). Main pauses, continues, starts goroutines, tests records and takes
them for victims, and kills these; `mainPc` says where it is, and `aim` is the
record it has just tested. It looks at the present checkpoint list when it tests a
record. When it takes one, it finds what it tested or what a consumer has moved
to the index since.

What a goroutine sees of a slice it was handed is either the contents at the
hand-over or the present contents of the cells it can address (`Views`); two
consumers that append at once may overwrite each other (`WriteAppend`). Main
deletes entries of the pause list in place or moves it to another array, so that
the scan for a pod may miss it, and the flag may land on the entry of another
pod, be lost in the old array, or be out of range (`FlagPaused`).

Abstractions: one container per pod, as the code assumes
(`get_priority_metric.go`). Utilisation against `CHECKPOINT_THRESHOLD` is a
free choice at each test. Which checkpointed record main tests next is a free
choice: memory use and priority, and the order of the phases, are in `Removing`.
A candidate is paused whatever has become of its container, and is listed
as often as it was a candidate (`Pause`). The kill of a restarted container
by the monitor (`get_stats.go:188-199`) is an action of `Monitoring`. Names
of archives are the pods they were made of.

Bounds: `Rounds` (calls of `DecisionCheckpoint` in a run), `Consumers`
(goroutines alive at once; a consumer lost to a recovered panic is replaced),
`PausedAtOnce` (entries of one pod in one list of candidates), `MaxVictims`
(records taken before the kills), `Mortal` (pods whose containers end by
themselves; an empty set loses little, since the call and `PodSandboxStats` may
fail for every pod), `MaxClock`.

### Scaling

One action per stage of an iteration, in the code's order, held by `phase`:
`Monitor`, `Resume` (`main.go:100-130`), `DecisionScaleDown`, `PlanScaleUp`
(candidates and sizes), `ScaleUpAll` or `ScaleUpSome`, `PauseLeftOver`,
`ContinueOthers`, `DeleteContinued`, `DecisionRemoveContainer`. The goroutines
of a stage work on different containers and are waited for, so that a stage is
one action in which every container has an outcome of its own: each call may
fail (`Outcome`), and the slices they append to without a lock come out in any
order and with losses (`RacingAppends`).

A container is three settings: `orig` is what the controller will send
(`OriginalContainerData`), `cg` what it decides from (`Cgroup`), `actual` what
the runtime enforces. `Send` and `ReadBack` are `UpdateContainerResources` and
`UpdateContainerData`. A sample keeps the usage and the limit it was divided
by, so the thresholds of the code (0.80, 0.70, 0.75) are compared exactly, in
integers.

`Init` is the state after `InitContainerData`. Its first update of a container may
have failed (`AtFirst`): the runtime then enforces the limit the pod was created
with, `OwnLimit`, while `orig` and `cg` have the smallest limit, and nothing is read
back. Such a container is in `lost` from the start. `lost` are the containers that
were sent a limit and of which no update and no read has succeeded since
(`Answered`); one successful update or read puts the three settings right again.
`lastUsage` is a history: what each container used when it was last measured, which
the window may have lost by a cut.

Abstractions: `CalculateScaleSize` returns any non-negative size of `Growths`
(the code adds up non-negative growths and stops at the first negative one).
`Capacity` is 0.95 of the node's memory, taken as a whole number.
`DecisionRemoveContainer` may leave any remnant of both lists. A pod that the
runtime does not list is not in `running` in that iteration; restarts and
repairs belong to monitoring and repair. What the runtime does with a limit
that is not positive is not modelled. The sort of the candidates (`scale.go:77-88`)
looks names up in a map keyed by ids, finds no priority for any of them and
leaves the list as it is (`SortedCandidates`).

### Removing

One call of `DecisionRemoveContainer`; `phase` says where it is. The first phase
kills checkpointed pods of the pause list that use most of their limit: for each
entry it looks up a record (`FindPaused`), tests the flag (`TestPaused`) and the
memory use (`MeasurePaused`), and takes the record (`TakePaused`). The second kills,
when the node is short of memory, all that were checkpointed a short while ago
(`FindRecent`, `TakeRecent`, `MarkPaused`, `MarkCandidate`). The third kills the
pods with the lowest priority as long as more than half of the running pods
are paused (`CountUncheckpointed`, `SelectLowest`, `TakeLowest`). The first two delete
what they have taken by the indices they collected, first from the pause list,
then from the candidates (`DeleteCollected`, with the deletion loop of `Slices`);
the third deletes one entry per turn and shrinks the part of the list it looks at
in every turn. Each phase ends with its kills (`KillPaused`, `KillRecent`,
`KillLowest`).

The checkpoint list is passed by value, so that main sees the consumers' writes
in its array: a report that replaces a record, at an index that may be out of
date, and the deletion of a record, which moves the others up and leaves the last
one twice (`Report`, `Delete`). `aim` are the indices of the entry and the record
main is at. Every read at `aim` is a step of its own, so that a write can come
between the reads that test a record and the one that takes it: the victim is then
the pod of whatever record is at the index, and the entry that is deleted is still
the one at the index of the pause list. `moved` remembers that a write has put
another pod's record where one was.

Four scans are one step each: for the record of one entry (`FindPaused`), for the
entry of one pod (`WithFirst`; nobody but main changes those lists), the count
(`CountUncheckpointed`) and the search for the lowest (`SelectLowest`). What a write in
the middle of a scan could change is which record it finds, or the count. A scan
by name finds the same as long as no record is moved, since a report leaves the
names; and the properties that hold when records move, `ReturnsRemnants` and the
count of entries in `OthersStayPaused`, hold for whatever index a scan gives.
`StuckResolved`, which depends on the count, is about calls during which nobody
writes.

Abstractions: of a record the model keeps the pod, whether it has a checkpoint,
whether it used more than the threshold (`hot`), and whether it is younger than
`RECHECKPOINT_THRESHOLD`. Priorities are integers, 0 for a pod whose id is not in
the map. The search for the lowest starts with `Sentinel`, the 9999999999 of
`remove.go:164`: a pod whose priority is not below it is never taken. CPU time that
wraps around gives such a priority; NaN, that of a container without samples,
compares false too, and is modelled by a priority that reaches the sentinel.
`RemoveContainer` and the channel are in `Repairing`; here a kill is an
entry of the history `killed`.

### Monitoring

Main goes through `list`, `visit`, `measure` and `scale` and back. `ListPods` is
`ListPodSandboxStats`; `SkipPod` up to `VisitContainer` are what `GetPodStatsInfo`
and `getContainerStatsInfo` do with one pod of the listing, with their early
returns in the code's order; `EndVisit`, `Measure` (utilisation and the reads of
the priority metric) and `Scale` (the cuts of the windows) end the iteration.
Beside main the node acts: a pod is created, its container restarts, it is
killed, a repair of it starts (`StartRepair`), creates it (`RestoreContainer`) and
writes the data it finds to the array of `podInfoSet` it was handed
(`UpdatePodData`).

`con` is `Container[0]` of each pod: the id and attempt it knows, `TimeWindow` and
the window. `arrays` are the arrays `podInfoSet` has had, as the pods marked as
repaired in each; an append when a pod is found may move to a new one.

Abstractions. `CpuUtil` is kept as its numerator, a difference of two `uint64`,
with `Modulus` for 2^64. Whether an append moves the array is a free choice
(`append` doubles the capacity, so that it does at some lengths only). A pod has
one sandbox per name. Limits, quotas and memory are in `Scaling`. The branch that calls
`UpdateRepairnitContainerData` (`get_stats.go:214`) tests an id that has just been
overwritten and is never taken. The node's steps happen while main lists or visits,
where what it reads can be out of date; in the other stages it reads nothing of
the node, and only its own kills (`remove.go`) happen there, in `scale`.

### Repairing

A record is a pod and a *stage*. The four flags of the code are set one at a
time (`DuringCreateImages`, `CreateImages`, `DuringCreateContainer`,
`CreateContainer`), each worker clears the flag before, so that a record is in
one of five stages: `killed`, `imaging`, `image`, `restoring`, `restored`.

Main kills a pod (`RemoveContainer`, `SendRemoved`), starts consumers and
rounds. A *round* is one call of `CreateImageContainer` (`SkipRecord`,
`StartImage`, `EndImages`) or of `DecisionRepairContainer` (`CopyRecord`,
`EndCopy`, `ChooseHead`, `StopChoosing`, `StartRepair`, `EndRepairs`), with the
list of the moment it was started. A *worker* is one of the goroutines they
start: `AnnounceImage`, `Build`, `ReportImage`, or `AnnounceRepair`,
`RestoreContainer`, then `OutOfMemory` (delete and repeat) or `Accept`,
`UpdatePodData` (with `Poll` while the pod is not there) and `ReportRepair`. A
*consumer* appends a killed pod unless it is listed (`TakeRemoved`,
`WriteAppend`), and writes a report over the listed record or deletes it at
the index it found before (`TakeReport`, `Write`, `Delete`).

Abstractions. Every test of the node's memory is a free choice. Both functions
end with `wg.Wait()` on a counter that is never brought to zero once a worker
was started; they do nothing after it, so their places in the model are used
again. The same holds for workers. `Init` is the state in which pods run and
consumers have been started: nothing can be killed before it has a checkpoint,
which takes many iterations. A record always has an archive here; whether it
does is the business of `Checkpointing`. The writes of `UpdatePodData` to
`podInfoSet` are in `Monitoring`. A kill may fail, or hit a pod
that is dead already. A worker that returns at once because of its flags is a
step of its round (`SkipRecord`); the test of the flags that a goroutine makes
on its own copy is made when it is started. `DecisionRepairContainer` chooses
records in stage `image` only, so the same test in its workers never returns.

Bounds: `Rounds`, `Workers`, `Consumers` (alive at once), `MaxRemovals` (kills),
`MaxFaults` (creates that fail, pods that do not fit), named in `Faults`.

`RepairPromise` has four sets of pods, killed, imaged, alive and found, and five
steps: a pod is killed, an image is built of what was killed, a pod is created
from an image, rejected when it does not fit, and found. `Repairing` maps its
histories and the pods that exist to them (`Promise`); `KeepsPromise` says that
every step of every goroutine is one of the five for one pod, or none.

## 3. Runs

| run | bounds | shows |
|---|---|---|
| `checkpointing_rounds` | 1 pod, 2 rounds, 2 consumers, channels and semaphore of 1, pick limit 1, clock 0..1 | `TypeOK`; `SemaphoreHeld`: tokens are exactly the workers in progress, over all rounds; `ClaimNeedsCall`: no record claims a checkpoint, and main finds none that does, before a call for its pod has returned |
| `checkpointing_workers` | 2 pods, 1 round of 2 workers, 2 consumers | `ClaimNeedsCall` again, with flags that land on the other pod's entry; `ArchiveOfOwnPod`; `LoneWorkerReportsTruth`: alone in its round, a worker reports a checkpoint if and only if its call returned one |
| `checkpointing_live` | 1 pod, 2 rounds, 1 consumer, no symmetry | `RoundReturns`, if every call returns |
| `checkpointing_kill` | as the first | violation of `NoKillDuringCheckpoint` |
| `checkpointing_archive` | 2 pods, 1 round of 2 workers, 1 consumer | violation of `KilledHasArchive` |
| `scaling_quiet` | 2 pods, window 1, no failing call; memory in use with room for both, for one, for none | `TypeOK`; `ThrottledAreWaiting`; `ScaledInFull`: a candidate leaves the list only when its limit has grown by all it needs, except the last of a list that does not fit |
| `scaling_failures` | 1 repaired pod, window 3, 3 failures, the first update among them, under fairness | `QuotaKeepsLimit`: resuming, pausing and continuing leave the limit of a container that has answered a call since it was sent one; `ScaleDownKeepsUsage`: a lower limit covers what was last measured; `ThrottledResumed` |
| `removing` | 3 pods, one with a priority that reaches the sentinel; 14 pause lists; 63 checkpoint lists; 1 consumer write between any two reads | `TypeOK`; `ReturnsRemnants`: what the three phases leave of the lists is what the other modules assume; `KilledOnce`: unless the node is short of memory, a pod is listed twice or a record is moved, no pod is killed twice, and none that was killed stays in the pause list; `OthersStayPaused`: unless the node is short of memory, one entry leaves the pause list for each kill, and as long as no record is moved it is the killed pod's; `StuckResolved`: with one record per pod and no write, the third phase ends with at most half of the pods paused or none left that it can choose |
| `repairing_records` | 1 pod, 2 kills, 1 round and 2 workers at a time, 2 consumers, channels of 1, 1 fault | `TypeOK`; `RecordsTrue`: no copy of a record says more than has happened to the pod; `CreatedFromImage`: a pod is created only after a kill and from an image of its own; `KeepsPromise`: the pipeline implements `RepairPromise` |
| `repairing_live` | 1 pod, 1 kill, 2 workers, 1 consumer, no fault, no symmetry | `RepairCompletes` |
| `repairing_killed` | 1 pod, 2 kills, 1 consumer | violation of `KilledStaysListed` |
| `monitoring` | 2 pods with 3 and 1 containers, window 3, `Modulus` 4 | `TypeOK`; `WindowReadable`: `TimeWindow` is the number of samples; `WrapsOnlyAfterRestart`: CPU time that wraps around is at the old end of the window; `MarksKept`: the mark of a repaired pod is lost only when the array moved under the repair; `OneKillPerRestart` |

Why the bounds are enough. Channels and semaphores of one place are full after
one send, which is the case that can block. Two rounds and two consumers are
what a race needs; a third adds no new kind of step. One pod is enough for
overlapping rounds, because both may pick it; two pods are needed where records
could be mixed up, inside one round. In Scaling two pods race with their
appends and make the deletion loop miss entries; three are needed only for an
entry shown twice, which `Remnants` covers and `Removing` has. A window of three samples, of
which two are needed to scale down, has an oldest and a latest one when it is cut
and when it slides. Three failures are the first update and two later calls of the
same container that rely on each other.

In Repairing a worker goes on after its round has ended, so that one round at a
time still gives workers started from lists of different age: two workers may
build the same image, or repair the same pod. A second kill is needed for the
entry of an earlier one to be in the way, and lets two consumers append the same
pod twice, so that entries move under the hands of a consumer. Two pods with two
workers and two consumers (18 million states without faults) were checked once,
with the same result; the theorems below hold for any number.

In Removing three pods are the fewest for which a deletion by an old index can
show an entry twice, and for which the third phase has a choice; one write of a
consumer can come between any two reads. The pause lists are all of two or three
different pods, one of a single pod, and one as a deletion from three entries leaves
it, with the last entry shown twice. The checkpoint lists have one record per pod,
none for one of them, or two of one pod, which two consumers that append at once
can leave. Their records are not checkpointed, checkpointed and under memory
pressure, or checkpointed recently; a consumer writes any combination. The pods
have three priorities, the highest of which reaches the sentinel, and so
are not interchangeable; of the orders of the candidates it matters whether a pod
is first or last.

`TypeOK` and `ReturnsRemnants` hold in every case; each of the other properties
leaves out one in which the code does otherwise. `KilledOnce` and `OthersStayPaused`
leave out a node that is short of memory. `KilledOnce`, and the part of
`OthersStayPaused` that says whose entries go, leave out records that are moved
between the scan and the read that takes them (see below); `KilledOnce` also leaves out
a pause list with a pod listed twice, which the first phase kills twice.
`StuckResolved` leaves out a checkpoint list that changes meanwhile, and one with two
records of a pod, whose checkpoints are counted twice.

In Monitoring three containers one after the other are a
container, its replacement and the replacement of that one, with attempts that
are counted again from 0 after a repair; a window of three is the shortest in
which a wrapped value may not be at the end. The second pod comes and goes, so
that `podInfoSet` moves while the first is repaired.

The safety runs of Checkpointing and Repairing and `scaling_quiet` use the symmetry of
their model values. The runs with liveness, Removing and Monitoring use none.

### Fairness

`Checkpointing`: Go runs every goroutine that can run. Goroutines blocked on a
channel are queued, and `select` picks among ready cases at random, so rounds,
workers and the consumers' receives get strong fairness, the steps in between
weak fairness. Main reaches its `go` statements in every iteration, and kills what it
has taken. Nothing is assumed of containers or of the other decisions of main.
None of this says that a call to the kubelet returns: `checkpoint.go:125` runs curl
without a time limit, and a worker keeps its place in the semaphore while it waits.
`RoundReturns` therefore assumes it, as a formula of its own (`CallsReturn`). Without
the assumption TLC finds the property violated: as many calls as the semaphore has
places that never return keep every other round waiting.
The liveness run has one consumer: it needs no more to be live, and messages
are then applied in order.

`Scaling`: the main goroutine never stops (weak fairness of `Next`), and the
runtime lists a container that stays on the node again and again (strong
fairness of `Monitor` with that pod).

`Repairing`: as in Checkpointing. Main starts both functions in every
iteration, and the node's memory is assumed to be below their thresholds again
and again; building an image succeeds in the end (the code repeats it). The
liveness run assumes that `kubectl create` works and the pod fits: when the
create fails, the code takes the pod for created and `UpdatePodData` waits for
it for ever. It has one consumer: with two, the reports of a worker may be
applied in the reverse order, and an entry that stays at `DuringCreateImages`
is never taken up again.

### Disagreements the runs show

1. `KilledHasArchive`: the workers of a round share `err`
   (`checkpoint.go:18,84`). One worker's failure is hidden by another's success,
   and its container is killed without an archive, contrary to `remove.go:170`
   and `remove.go:180`. `LoneWorkerReportsTruth` shows that the sharing is the
   only cause.
2. `NoKillDuringCheckpoint`: `DecisionRemoveContainer` looks at `IsCheckpoint`
   only; a pod with a second checkpoint under way is killed, contrary to
   `remove.go:155`.
3. `KilledStaysListed`: a pod that is back and is killed again before the report
   of its repair was handled is still listed. The consumer drops the message of
   the new kill (`main.go:207-212`) and then deletes the entry on the old
   report; the pod stays dead, contrary to `remove.go:223`.

More were met in reading and are part of the models without a run of their own:

* The pod that is killed need not be the one whose record was tested. Main tests
  a record at an index and reads it again when it takes it (`remove.go:26-29`,
  `remove.go:185-200`); when a consumer has deleted a record in between
  (`main.go:171`), another pod is killed, which may have no checkpoint, while the
  entry of the first is taken off the pause list (`TakePaused`, `TakeLowest`). The pod
  that was killed may still be listed and be killed again: TLC finds `KilledOnce`
  violated when its condition on records that move is dropped.
* The flag `IsCheckpoint` of a pause entry can land on another pod's
  (`main.go:180-182`), which is then not checkpointed as long as it is paused
  (`FlagPaused`).
* A pod whose priority is NaN or beyond 9999999999 is never taken by the third phase
  (`remove.go:164`, `remove.go:191`), which then ends with more than half of the pods
  paused (`SelectLowest`).
* The failure of the first update of a container goes unnoticed (`get_stats.go:278`):
  nothing is read back, so that the limit the controller decides from and sends
  again is not the one enforced (`AtFirst`).
* Scaling a throttled container down first sends the limit of before, with the
  quota (`ContinueContainer`). When the update after it fails, a container that has
  answered nothing since it was sent that limit has got it by then, even if it is
  below what it uses: the exception of `ScaleDownKeepsUsage`. With two pods TLC finds
  the case; the run with one pod does not reach it.
* The sort by priority (`scale.go:77-88`) looks up names in a map keyed by ids and
  never raises its maximum: the order of arrival decides (`SortedCandidates`).
* `lastScaleUpSize` (`scale.go:99`) is negative when the limits are overcommitted
  (`LastScaleUpSize`). When the first candidate that does not fit is the last of
  the list, it gets that size and is a candidate no more: the case that
  `ScaledInFull` leaves out.
* The cut of `scale.go:110` goes one past `noScaleUpIndex`, so that a candidate is
  scaled up and then paused (`Targets`, `LeftOver`).
* The branch of `scale.go:206-207`, which is to remove the last element, removes
  nothing, or shows again what was deleted (`DeleteIndex`).
* When the node is short of memory, the indices of `remove.go:93-104` come in the
  order of the checkpoint list; a pod that was just killed can stay in the
  pause list and be killed again by the third phase (`MarkPaused`).
* The first phase collects the indices of the candidates in the order of the
  pause list too (`remove.go:28-35`): the deletion may take a candidate that was
  not killed and leave one that was (`WithFirst`).
* Two records of one pod are counted as two paused pods (`remove.go:171-179`): the
  third phase may end while a checkpointed pod is paused (`NotCheckpointed`).
* `remove.go:151` subtracts the length of a list that was reset at line 148
  (`Offset`).
* A container that was replaced and has no samples, or whose status does not
  come, makes `get_stats.go:205` panic (`CrashOnReplaced`).
* The branch of `get_stats.go:214` is never taken, so that a repaired container
  never gets the tenth more that the branch is for.

## 4. Proofs

`CheckpointingProofs` proves for all constants that satisfy
`ConstantsAssumption` (finitely many rounds; any pods, consumers and bounds):

* `TypeCorrect`, `SemaphoreBound`, `ClaimsNeedCalls`, `ArchivesOfOwnPods`,
  `LoneReportsTrue`: the five safety invariants of the passing runs;
* `Honesty`: the inductive invariant `IInv` behind them.

None of the properties is inductive as it stands: records are copied between
lists, channels, workers and consumers, so a claim about the checkpoint list
depends on what is on its way to it. `IInv` says of every place that holds
records that they are *honest*: well typed, `isCheckpoint` only if a call for
the pod has returned, `data` only if it is the pod's own archive and written.
It is the conjunction of `ListsHonest` (lists and channels), `RoundsHonest`
(what rounds were handed), `WorkersHonest` (records of workers, and that a
worker past `call` has its call counted) and `ConsumersHonest` (inboxes,
indices). Of the flags in the pause list it claims nothing: they may be on another
pod's entry, and the invariant shows that no record depends on them. That main
tests an honest record is part of `ListsHonest` (`HonestAims`). Lemmas about `Views`, `Remnants`, `Overwrite` and appended or removed
entries show that the list operations keep a set of honest records honest;
there is one lemma per action. `SemaphoreBound` needs the cardinality of the
set of workers between send and receive, which each action changes by at most
one. `LoneReportsTrue` adds `LoneInv`: with one record in a round, `err` is set from
the call to the report exactly if the record has no archive.

`RepairingProofs` proves for all constants that satisfy `ConstantsAssumption`
of `Repairing` (any pods, rounds, workers, consumers, channel capacity, number
of kills and faults):

* `TypeCorrect`, `RecordsAreTrue` and `CreatedOnlyFromImage`, the three safety
  properties of the passing runs;
* `Truth`: the inductive invariant behind them.

The argument is the same: `RecordsTrue` speaks of every copy of a record, but it
is not inductive, because what a worker is about to report depends on what it
has done. `WorkersTrue` adds that: past the building the pod has an image, and
before the last report the pod was found. The histories `removed`, `images` and
`attached` only grow, so what was true stays true (`TrueGrows`).
`CreatedOnlyFromImage` follows from the invariant for the one step that creates
pods, and from the fact that no other step does.

`ImplementsPromise` is the refinement: every action of `Repairing`, under the
mapping, is a step of `RepairPromise` or a stutter. It rests on `Truth`: that a
worker builds only of what was killed, and creates, rejects or finds only what
has an image, is what `WorkersTrue` says of workers.

`ScalingProofs` proves for all constants that satisfy `ConstantsAssumption` of
`Scaling` (any finite set of pods, any number of failing calls):

* `TypesCorrect`, `ThrottledWait`, `CandidatesServed`, `QuotasKeepLimits` and
  `ScaleDownKeeps`: the safety properties of the two passing runs;
* `Invariance` and `CandidatesMeasured`: the two inductive invariants behind them.

`ThrottledAreWaiting` speaks of one stage only; `ThrottledListed` says for every
stage in which of the two lists a throttled container is, so that the racing
appends to the pause list are harmless: before it is appended to, the candidates
are where the container is found, and an entry that is lost makes main resume
the container in the next iteration. It needs `QuotasKnown`: without failures
the controller knows which containers are throttled. `LimitsAgree` says that the
limit it will send is the one enforced, for every container that is not `lost`; a
failed update is made good by the read, a failed read by the update, and a first
update that failed by the next call that succeeds. `ScaleDownKeeps` adds `Remembered`:
the last sample of a window is what was last measured, except where
the window was cut down to its oldest sample, and then the container was last seen
to use less than the smallest limit. The stages start a goroutine for each
container of a set; the lemmas `Goroutines` and `Stage` reduce them to what one
goroutine makes of one container. For the types, the sizes and limits that
are added up must be shown to be integers: the sums are recursive over a set,
and `SumOfIntegers` of `RecursionProofs` is the induction. `CandidatesServed`
needs more of the sums: a container may have several entries in the list, and
what it gets is the sum of their sizes (`SumAtLeast`, `GrowthCovers`). The rest
is the arithmetic of the cut (`TargetsInFull`): who is not left over is a target
at every entry, and the last target is left over as well or is the last of
the list.

`MonitoringProofs` proves for all constants that satisfy `ConstantsAssumption` of
`Monitoring` (any pods, any length of the window, any modulus, any number of
restarts) the five properties of its run: `TypesCorrect`, `WindowsReadable`,
`WrapsAfterRestart`, `MarksAreKept` and `OneKill`, from `Invariance`. What is added is
that a listing is no newer than the node (`Listings`); that of each window only
the first samples can be of an earlier container (`Windows`), without which a cut
could bring a wrapped value to the middle; that an answered restart is one of
an attempt main has recorded (`Answers`); and which arrays a repair can still write
to (`Marks`).

`RemovingProofs` proves for all constants that satisfy `ConstantsAssumption` of
`Removing` (any finite set of pods, any lists with any repetitions, any
priorities and any number of writes of the consumers) the five properties of its
run: `TypesCorrect`, `RemnantsReturned`, `NoneKilledTwice`, `NoneDropped` and
`DeadlockResolved`, from `Invariance`. The properties speak of the end of the call,
so that all of the argument is in the invariant:

* `Typed` adds to the types that the third phase looks at no more entries than
  there are, and takes one only while it looks at more than half of the pods;
  `Located` says that the indices in hand are in range in the phases that read there;
* `Remaining` says of both lists that they are remnants of what was handed over:
  remnants of remnants are remnants, and the deletion loop leaves a remnant
  whatever its indices are;
* `Collected` says of the first phase that the indices it has collected ascend, are
  as many as the records taken, and point to the pods of these unless a record was
  moved; `Matched` that the record in hand is of the entry's pod, unless one was moved;
* `Gone` and `NoneLost` say of the pods taken, killed or not, that they are
  different ones, that none of them is listed, and that nothing else is missing,
  unless a record was moved; `Balanced` that the entries that are missing are as
  many as the pods taken, whether one was moved or not. They rest on the first
  phase: its indices ascend, the loop deletes from the last to the first, and so
  leaves exactly the entries that were not chosen (`AscendingDeletions`,
  `AscendingRest`). In the second phase they do not ascend, which is why the three
  say nothing of a node that is short of memory;
* `Resolved` says that the third phase, which shrinks the part it looks at in
  every turn, looks at the whole list as long as an entry has a checkpoint and a
  priority below the sentinel. With one record per pod, the entries without a
  checkpoint are as many as those looked at only when none has one
  (`CountIsRight`), so that in all other turns an entry is found and deleted, or
  none is left that can be (`NoneEligible`).

`SlicesProofs` holds the lemmas about lists that these use, and the theorem
`DeletionsLeaveRemnants`: for every list and every sequence of indices, in any
order and any number, what the deletion loop leaves is one of the list's
`Remnants`. The loop is a recursive function; the lemma `DeletionTurns` unfolds
it into a sequence of lists, one per turn, and the theorem is a loop invariant
over that.

`RecursionProofs` is what inductions use here. The theorems of the library that
state induction take the predicate as an operator, which the provers cannot
instantiate; `Induction`, `LoopInduction` and `LoopRun` take the set of the
numbers for which the predicate holds, and follow from the well-foundedness of
the naturals, which the library proves.

TLC has checked the inductive invariants too, on the bounds of
`checkpointing_rounds`, `checkpointing_workers`, `repairing_records`, `monitoring`,
`scaling_quiet`, `scaling_failures` and `removing` (in `Scaling`, with the limits taken
from the integers).

Only model-checked: the liveness properties `RoundReturns`, `RepairCompletes` and
`ThrottledResumed`, because fairness is beyond the prover. Every other property of
the passing runs is a theorem.

## 5. Not modelled

* `GetSystemStatsInfo` copies numbers from the operating system; `PrintResult` and
  `IsSucceed` print at the end; `InitClient` and the helpers of `user_util.go` are not
  called. None of them changes what the controller does.
* The arithmetic of the priority metric and of `CalculateScaleSize`: weighted sums
  of floating-point numbers. The models take any priority, and any growth that
  is not negative.
* The parsing of a pod's request (`get_stats.go:325`), which takes plain bytes of a
  repaired pod's manifest for Mi.
* The composition of the five modules in one: see above for what is checked
  where they meet.
* Restarts of the controller itself: it keeps nothing on disk that it reads
  again, and has no code for it.

## 6. What is left

* `CalculateScaleSize` as a function over windows, in integers: its indices in range
  for every length, its result never negative.
* Checkpointing composed with Scaling for one pod, to say under which fairness a
  paused container is checkpointed in the end.
