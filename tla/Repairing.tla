------------------------------ MODULE Repairing ------------------------------
(***************************************************************************)
(* The repair pipeline: what becomes of a pod that was killed.             *)
(*                                                                         *)
(* Main kills a pod and sends its record on the remove channel; a consumer *)
(* appends it to removeContainerList.  Every iteration starts one round of *)
(* CreateImageContainer and one of DecisionRepairContainer, each with the  *)
(* list of that moment, and one more consumer.  The rounds start workers,  *)
(* one builds an image from the checkpoint, another creates the pod again, *)
(* and the workers report on the repair channel before and after.  A       *)
(* consumer writes the reports over the listed record, or deletes it when  *)
(* the pod is back.                                                        *)
(*                                                                         *)
(* The list has no lock: looking up an index and using it are two steps,   *)
(* and a round reads the list it was handed or the present one (Views).    *)
(***************************************************************************)
EXTENDS Integers, Sequences, FiniteSets, SequencesExt, Slices

CONSTANTS
    Pods,         \* pod names
    NoEntry,      \* what an idle worker or consumer works on
    NoPod,        \* main has no record to send
    Rounds,       \* bound: calls of the two decision functions at once
    Workers,      \* bound: goroutines of those calls at once
    Consumers,    \* bound: consumer goroutines alive at once
    ChanCap,      \* capacity of the two channels, 100 in main
    MaxRemovals,  \* bound: kills in a run
    Faults,       \* bound: which commands of a repair may go wrong
    MaxFaults     \* bound: and how often

ASSUME ConstantsAssumption ==
    /\ NoPod \notin Pods
    /\ ChanCap \in Nat
    /\ MaxRemovals \in Nat
    /\ Faults \subseteq {"create", "memory"}
    /\ MaxFaults \in Nat

VARIABLES
    \* main
    removeList,  \* removeContainerList
    removeChan,  \* removeContainerToChan
    repairChan,  \* repairCandidateToChan
    pending,     \* the pod main has killed and not yet sent
    \* rounds and their workers
    roundPc,     \* where each round is
    pos,         \* index of its range loop
    handed,      \* the list a round was handed
    queue,       \* copyRemoveContainerList
    chosen,      \* repairContainerCandidateList
    workerPc,    \* where each worker is
    job,         \* the record a worker works on, a copy of its own
    \* consumers
    consumerPc,  \* where each consumer is
    inbox,       \* the message being handled
    hit,         \* index of removeList the message is meant for
    seenLen,     \* length of removeList when the message was taken
    recovers,    \* consumers with a deferred recover()
    \* the node
    present,     \* pods that exist
    images,      \* pods of which an image was built
    removals,    \* history: kills so far
    removed,     \* history: pods killed so far
    attached,    \* history: pods for which UpdatePodData has returned
    faults       \* history: commands that went wrong

channels == <<removeChan, repairChan>>
rounds == <<roundPc, pos, handed, queue, chosen>>
workers == <<workerPc, job>>
consumers == <<consumerPc, inbox, hit, seenLen, recovers>>
kills == <<removals, removed>>
node == <<present, images, attached, faults>>
vars == <<removeList, channels, pending, rounds, workers, consumers, kills,
          node>>

(***************************************************************************)
(* Types                                                                   *)
(***************************************************************************)

\* The four flags of a record: none, DuringCreateImages, CreateImages,
\* DuringCreateContainer or CreateContainer.  The workers set one and clear the
\* one before.
Stage == {"killed", "imaging", "image", "restoring", "restored"}

CheckpointContainer == [pod : Pods, stage : Stage]

TypeOK ==
    /\ removeList \in Seq(CheckpointContainer)
    /\ removeChan \in Seq(CheckpointContainer)
    /\ repairChan \in Seq(CheckpointContainer)
    /\ Len(removeChan) <= ChanCap
    /\ Len(repairChan) <= ChanCap
    /\ pending \in Pods \cup {NoPod}
    /\ roundPc \in [Rounds -> {"idle", "images", "repairs", "queue", "launch"}]
    /\ pos \in [Rounds -> Nat \ {0}]
    /\ handed \in [Rounds -> Seq(CheckpointContainer)]
    /\ queue \in [Rounds -> Seq(CheckpointContainer)]
    /\ chosen \in [Rounds -> Seq(CheckpointContainer)]
    /\ workerPc \in [Workers -> {"idle", "announceImage", "build",
                                 "reportImage", "announceRepair", "restore",
                                 "inspect", "attach", "reportRepair"}]
    /\ job \in [Workers -> CheckpointContainer \cup {NoEntry}]
    /\ consumerPc \in [Consumers -> {"off", "select", "append", "write",
                                     "delete", "panicked"}]
    /\ inbox \in [Consumers -> CheckpointContainer \cup {NoEntry}]
    /\ hit \in [Consumers -> Nat]
    /\ seenLen \in [Consumers -> Nat]
    /\ recovers \in SUBSET Consumers
    /\ present \in SUBSET Pods
    /\ images \in SUBSET Pods
    /\ removals \in 0 .. MaxRemovals
    /\ removed \in SUBSET Pods
    /\ attached \in SUBSET Pods
    /\ faults \in 0 .. MaxFaults

\* Until the first pod has a checkpoint and can be killed, main has gone through
\* iterations, each of which has started a consumer.
Init ==
    /\ removeList = <<>>
    /\ removeChan = <<>>
    /\ repairChan = <<>>
    /\ pending = NoPod
    /\ roundPc = [r \in Rounds |-> "idle"]
    /\ pos = [r \in Rounds |-> 1]
    /\ handed = [r \in Rounds |-> <<>>]
    /\ queue = [r \in Rounds |-> <<>>]
    /\ chosen = [r \in Rounds |-> <<>>]
    /\ workerPc = [w \in Workers |-> "idle"]
    /\ job = [w \in Workers |-> NoEntry]
    /\ consumerPc = [c \in Consumers |-> "select"]
    /\ inbox = [c \in Consumers |-> NoEntry]
    /\ hit = [c \in Consumers |-> 0]
    /\ seenLen = [c \in Consumers |-> 0]
    /\ recovers = {}
    /\ present = Pods
    /\ images = {}
    /\ removals = 0
    /\ removed = {}
    /\ attached = {}
    /\ faults = 0

\* A panic that no goroutine recovered has ended the program.
Crashed == \E c \in Consumers : consumerPc[c] = "panicked"

(***************************************************************************)
(* Main                                                                    *)
(***************************************************************************)

\* RemoveContainer, called for a pod that has a checkpoint: by the phases of
\* DecisionRemoveContainer, which may take a pod that is dead already, or by the
\* monitor when the container was restarted.  Its commands may fail unnoticed.
RemoveContainer(p) ==
    /\ ~Crashed
    /\ pending = NoPod
    /\ removals < MaxRemovals
    /\ removals' = removals + 1
    /\ removed' = removed \cup {p}
    /\ pending' = p
    /\ present' \in {present, present \ {p}}
    /\ UNCHANGED <<removeList, channels, rounds, workers, consumers, images,
                   attached, faults>>

\* Mutant of SendRemoved: the send does not block.
SendRemovedUnblocked ==
    /\ ~Crashed
    /\ pending # NoPod
    /\ removeChan' = Append(removeChan, [pod |-> pending, stage |-> "killed"])
    /\ pending' = NoPod
    /\ UNCHANGED <<removeList, repairChan, rounds, workers, consumers, kills,
                   node>>

\* And the send that follows it.
SendRemoved ==
    /\ ~Crashed
    /\ pending # NoPod
    /\ Len(removeChan) < ChanCap
    /\ removeChan' = Append(removeChan, [pod |-> pending, stage |-> "killed"])
    /\ pending' = NoPod
    /\ UNCHANGED <<removeList, repairChan, rounds, workers, consumers, kills,
                   node>>

\* The go statements of an iteration.  A consumer is never stopped: one is
\* started when the bound allows another.
StartConsumer(c) ==
    /\ ~Crashed
    /\ pending = NoPod
    /\ consumerPc[c] = "off"
    /\ consumerPc' = [consumerPc EXCEPT ![c] = "select"]
    /\ recovers' = recovers \ {c}
    /\ UNCHANGED <<removeList, channels, pending, rounds, workers, inbox, hit,
                   seenLen, kills, node>>

\* kind is "images" for CreateImageContainer, unless the node's memory is above
\* CREATE_IMAGE_THRESHOLD, and "repairs" for DecisionRepairContainer.
StartRound(r, kind) ==
    /\ ~Crashed
    /\ pending = NoPod
    /\ roundPc[r] = "idle"
    /\ roundPc' = [roundPc EXCEPT ![r] = kind]
    /\ handed' = [handed EXCEPT ![r] = removeList]
    /\ UNCHANGED <<removeList, channels, pending, pos, queue, chosen,
                   workers, consumers, kills, node>>

(***************************************************************************)
(* The rounds.  Either function waits for a WaitGroup in the end that is   *)
(* never brought to zero when it has started a worker; it does nothing     *)
(* after that, so its place is free again here.                            *)
(***************************************************************************)

MoveRound(r, from, to) ==
    /\ ~Crashed
    /\ roundPc[r] = from
    /\ roundPc' = [roundPc EXCEPT ![r] = to]

\* The record the range loop is at, as the round may see it.
Current(r) ==
    {list[pos[r]] : list \in Views(handed[r], removeList)}

Advance(r) ==
    /\ pos[r] <= Len(handed[r])
    /\ pos' = [pos EXCEPT ![r] = @ + 1]

LeaveLoop(r) ==
    /\ pos[r] > Len(handed[r])
    /\ pos' = [pos EXCEPT ![r] = 1]
    /\ handed' = [handed EXCEPT ![r] = <<>>]

\* The loop of CreateImageContainer starts a goroutine for every record.  With a
\* flag set it returns at once.
SkipRecord(r) ==
    /\ MoveRound(r, "images", "images")
    /\ Advance(r)
    /\ \E m \in Current(r) : m.stage # "killed"
    /\ UNCHANGED <<removeList, channels, pending, handed, queue, chosen,
                   workers, consumers, kills, node>>

\* With none it goes on, with a copy of the record.
StartImage(r, w) ==
    /\ MoveRound(r, "images", "images")
    /\ Advance(r)
    /\ workerPc[w] = "idle"
    /\ workerPc' = [workerPc EXCEPT ![w] = "announceImage"]
    /\ \E m \in Current(r) :
          /\ m.stage = "killed"
          /\ job' = [job EXCEPT ![w] = m]
    /\ UNCHANGED <<removeList, channels, pending, handed, queue, chosen,
                   consumers, kills, node>>

EndImages(r) ==
    /\ MoveRound(r, "images", "idle")
    /\ LeaveLoop(r)
    /\ UNCHANGED <<removeList, channels, pending, queue, chosen, workers,
                   consumers, kills, node>>

\* The first loop of DecisionRepairContainer copies the records that have an
\* image.
CopyRecord(r) ==
    /\ MoveRound(r, "repairs", "repairs")
    /\ Advance(r)
    /\ \E m \in Current(r) :
          queue' = [queue EXCEPT ![r] = IF m.stage = "image" THEN Append(@, m)
                                        ELSE @]
    /\ UNCHANGED <<removeList, channels, pending, handed, chosen, workers,
                   consumers, kills, node>>

EndCopy(r) ==
    /\ MoveRound(r, "repairs", "queue")
    /\ LeaveLoop(r)
    /\ UNCHANGED <<removeList, channels, pending, queue, chosen, workers,
                   consumers, kills, node>>

\* As long as the memory limits admit another pod, the head of the queue is
\* chosen and sent, as it was read.  The rest is cut at both ends.
ChooseHead(r) ==
    /\ MoveRound(r, "queue", "queue")
    /\ queue[r] # <<>>
    /\ Len(repairChan) < ChanCap
    /\ repairChan' = Append(repairChan, Head(queue[r]))
    /\ chosen' = [chosen EXCEPT ![r] = Append(@, Head(queue[r]))]
    /\ queue' = [queue EXCEPT ![r] = IF Len(@) = 1 THEN <<>>
                                     ELSE SubSeq(@, 2, Len(@) - 1)]
    /\ UNCHANGED <<removeList, removeChan, pending, pos, handed, workers,
                   consumers, kills, node>>

StopChoosing(r) ==
    /\ MoveRound(r, "queue", "launch")
    /\ queue' = [queue EXCEPT ![r] = <<>>]
    /\ UNCHANGED <<removeList, channels, pending, pos, handed, chosen,
                   workers, consumers, kills, node>>

\* The loop over the chosen ones; a worker gets a copy of its record.
StartRepair(r, w) ==
    /\ MoveRound(r, "launch", "launch")
    /\ chosen[r] # <<>>
    /\ workerPc[w] = "idle"
    /\ workerPc' = [workerPc EXCEPT ![w] = "announceRepair"]
    /\ job' = [job EXCEPT ![w] = Head(chosen[r])]
    /\ chosen' = [chosen EXCEPT ![r] = Tail(@)]
    /\ UNCHANGED <<removeList, channels, pending, pos, handed, queue, consumers,
                   kills, node>>

EndRepairs(r) ==
    /\ MoveRound(r, "launch", "idle")
    /\ chosen[r] = <<>>
    /\ UNCHANGED <<removeList, channels, pending, pos, handed, queue,
                   chosen, workers, consumers, kills, node>>

(***************************************************************************)
(* The workers                                                             *)
(***************************************************************************)

MoveWorker(w, from, to) ==
    /\ ~Crashed
    /\ workerPc[w] = from
    /\ workerPc' = [workerPc EXCEPT ![w] = to]

\* The worker sends its record with another flag set and goes on.
Announce(w, from, stage, to) ==
    /\ MoveWorker(w, from, to)
    /\ Len(repairChan) < ChanCap
    /\ job' = [job EXCEPT ![w].stage = stage]
    /\ repairChan' = Append(repairChan, job'[w])
    /\ UNCHANGED <<removeList, removeChan, pending, rounds, consumers, kills,
                   node>>

\* The same, and the worker is done.
Report(w, from, stage) ==
    /\ MoveWorker(w, from, "idle")
    /\ Len(repairChan) < ChanCap
    /\ job' = [job EXCEPT ![w] = NoEntry]
    /\ repairChan' = Append(repairChan, [job[w] EXCEPT !.stage = stage])
    /\ UNCHANGED <<removeList, removeChan, pending, rounds, consumers, kills,
                   node>>

\* Mutant of AnnounceImage: CreateImages is set in the place of
\* DuringCreateImages.
AnnounceBuilt(w) == Announce(w, "announceImage", "image", "build")

\* Mutant of AnnounceImage: the pod is created at once.
AnnounceWithoutBuild(w) == Announce(w, "announceImage", "imaging", "restore")

AnnounceImage(w) == Announce(w, "announceImage", "imaging", "build")

\* MakeContainerFromCheckpoint is repeated until it succeeds.
Build(w) ==
    /\ MoveWorker(w, "build", "reportImage")
    /\ images' = images \cup {job[w].pod}
    /\ UNCHANGED <<removeList, channels, pending, rounds, job, consumers, kills,
                   present, attached, faults>>

ReportImage(w) == Report(w, "reportImage", "image")

AnnounceRepair(w) == Announce(w, "announceRepair", "restoring", "restore")

\* RestoreContainer creates the pod, or finds it there.  Its error is printed.
RestoreContainer(w) ==
    /\ MoveWorker(w, "restore", "inspect")
    /\ \/ /\ present' = present \cup {job[w].pod}
          /\ UNCHANGED faults
       \/ /\ "create" \in Faults
          /\ faults < MaxFaults
          /\ faults' = faults + 1
          /\ UNCHANGED present
    /\ UNCHANGED <<removeList, channels, pending, rounds, job, consumers, kills,
                   images, attached>>

\* The pod was rejected: it is deleted, and the worker tries again.
OutOfMemory(w) ==
    /\ MoveWorker(w, "inspect", "restore")
    /\ job[w].pod \in present
    /\ "memory" \in Faults
    /\ faults < MaxFaults
    /\ faults' = faults + 1
    /\ present' = present \ {job[w].pod}
    /\ UNCHANGED <<removeList, channels, pending, rounds, job, consumers, kills,
                   images, attached>>

\* It was not, as far as kubectl tells: also when it does not exist.
Accept(w) ==
    /\ MoveWorker(w, "inspect", "attach")
    /\ UNCHANGED <<removeList, channels, pending, rounds, job, consumers, kills,
                   node>>

\* Mutant of UpdatePodData: it does not wait.
UpdateAtOnce(w) ==
    /\ MoveWorker(w, "attach", "reportRepair")
    /\ attached' = attached \cup {job[w].pod}
    /\ UNCHANGED <<removeList, channels, pending, rounds, job, consumers, kills,
                   present, images, faults>>

\* UpdatePodData waits until the pod is there.
UpdatePodData(w) ==
    /\ MoveWorker(w, "attach", "reportRepair")
    /\ job[w].pod \in present
    /\ attached' = attached \cup {job[w].pod}
    /\ UNCHANGED <<removeList, channels, pending, rounds, job, consumers, kills,
                   present, images, faults>>

\* It asks again every second.
Poll(w) ==
    /\ ~Crashed
    /\ workerPc[w] = "attach"
    /\ job[w].pod \notin present
    /\ UNCHANGED vars

ReportRepair(w) == Report(w, "reportRepair", "restored")

(***************************************************************************)
(* The consumers                                                           *)
(***************************************************************************)

MoveConsumer(c, from, to) ==
    /\ ~Crashed
    /\ consumerPc[c] = from
    /\ consumerPc' = [consumerPc EXCEPT ![c] = to]

\* The message is dealt with, or given up.
Finish(c, from, to) ==
    /\ MoveConsumer(c, from, to)
    /\ inbox' = [inbox EXCEPT ![c] = NoEntry]
    /\ hit' = [hit EXCEPT ![c] = 0]
    /\ seenLen' = [seenLen EXCEPT ![c] = 0]

\* A killed pod is appended unless it is listed.
TakeRemoved(c) ==
    /\ removeChan # <<>>
    /\ removeChan' = Tail(removeChan)
    /\ LET m == Head(removeChan)
       IN  \/ /\ IndicesOf(removeList, m.pod) = {}
              /\ MoveConsumer(c, "select", "append")
              /\ inbox' = [inbox EXCEPT ![c] = m]
              /\ seenLen' = [seenLen EXCEPT ![c] = Len(removeList)]
           \/ /\ IndicesOf(removeList, m.pod) # {}
              /\ MoveConsumer(c, "select", "select")
              /\ UNCHANGED <<inbox, seenLen>>
    /\ UNCHANGED <<removeList, repairChan, pending, rounds, workers, hit,
                   recovers, kills, node>>

\* append: at the present length, or at the length read before another
\* consumer appended, whose element is then overwritten.
WriteAppend(c) ==
    /\ Finish(c, "append", "select")
    /\ \E n \in {seenLen[c], Len(removeList)} :
          /\ n <= Len(removeList)
          /\ removeList' = Append(SubSeq(removeList, 1, n), inbox[c])
    /\ UNCHANGED <<channels, pending, rounds, workers, recovers, kills, node>>

\* Mutant of Recorded: CreateImages is left out of the condition.
RecordedDuring == {"imaging", "restoring"}

\* The stages that are written over the listed record.
Recorded == {"imaging", "image", "restoring"}

\* A report is taken and the pod is looked up.  When it is the last report, the
\* consumer defers its recover().
TakeReport(c) ==
    /\ repairChan # <<>>
    /\ repairChan' = Tail(repairChan)
    /\ LET m == Head(repairChan)
       IN  \/ \E i \in DOMAIN removeList, to \in {"write", "delete"} :
                 /\ IsFirst(removeList, m.pod, i)
                 /\ m.stage \in IF to = "write" THEN Recorded ELSE {"restored"}
                 /\ MoveConsumer(c, "select", to)
                 /\ inbox' = [inbox EXCEPT ![c] = m]
                 /\ hit' = [hit EXCEPT ![c] = i]
                 /\ recovers' = IF to = "write" THEN recovers
                                ELSE recovers \cup {c}
           \/ /\ \/ IndicesOf(removeList, m.pod) = {}
                 \/ m.stage \notin Recorded \cup {"restored"}
              /\ MoveConsumer(c, "select", "select")
              /\ UNCHANGED <<inbox, hit, recovers>>
    /\ UNCHANGED <<removeList, removeChan, pending, rounds, workers, seenLen,
                   kills, node>>

\* The record is written at the index found before.  If the list has become
\* too short, the program ends, unless this goroutine recovers.
Write(c) ==
    /\ removeList' = Overwrite(removeList, {hit[c]}, inbox[c])
    /\ Finish(c, "write", IF hit[c] \in DOMAIN removeList THEN "select"
                          ELSE IF c \in recovers THEN "off" ELSE "panicked")
    /\ UNCHANGED <<channels, pending, rounds, workers, recovers, kills, node>>

\* The pod is back: what is at the index now is deleted.
Delete(c) ==
    /\ \/ /\ hit[c] \in DOMAIN removeList
          /\ removeList' = RemoveAt(removeList, hit[c])
          /\ Finish(c, "delete", "select")
       \/ /\ hit[c] \notin DOMAIN removeList
          /\ Finish(c, "delete", "off")
          /\ UNCHANGED removeList
    /\ UNCHANGED <<channels, pending, rounds, workers, recovers, kills, node>>

-----------------------------------------------------------------------------

MainStep ==
    \/ \E p \in Pods : RemoveContainer(p)
    \/ SendRemoved
    \/ \E c \in Consumers : StartConsumer(c)
    \/ \E r \in Rounds, kind \in {"images", "repairs"} : StartRound(r, kind)

RoundStep(r) ==
    \/ SkipRecord(r) \/ EndImages(r)
    \/ CopyRecord(r) \/ EndCopy(r) \/ ChooseHead(r) \/ StopChoosing(r)
    \/ EndRepairs(r)
    \/ \E w \in Workers : StartImage(r, w) \/ StartRepair(r, w)

WorkerStep(w) ==
    \/ AnnounceImage(w) \/ Build(w) \/ ReportImage(w)
    \/ AnnounceRepair(w) \/ RestoreContainer(w) \/ OutOfMemory(w)
    \/ Accept(w) \/ UpdatePodData(w) \/ Poll(w) \/ ReportRepair(w)

ConsumerStep(c) ==
    \/ TakeRemoved(c) \/ WriteAppend(c)
    \/ TakeReport(c) \/ Write(c) \/ Delete(c)

\* An unrecovered panic ends the program.
Halted == Crashed /\ UNCHANGED vars

Next ==
    \/ MainStep
    \/ \E r \in Rounds : RoundStep(r)
    \/ \E w \in Workers : WorkerStep(w)
    \/ \E c \in Consumers : ConsumerStep(c)
    \/ Halted

Spec == Init /\ [][Next]_vars

(***************************************************************************)
(* Fairness.  Go runs every goroutine that can run, and what blocks on a   *)
(* channel is queued.  Main comes to its go statements in every iteration; *)
(* the node's memory is below the thresholds again and again.  Building an *)
(* image succeeds in the end.  Nothing is assumed of the kills.            *)
(***************************************************************************)
Fairness ==
    /\ SF_vars(SendRemoved)
    /\ \A kind \in {"images", "repairs"} :
          SF_vars(\E r \in Rounds : StartRound(r, kind))
    /\ \A r \in Rounds :
          /\ SF_vars(RoundStep(r))
          /\ SF_vars(ChooseHead(r))
    /\ \A w \in Workers : SF_vars(WorkerStep(w))
    /\ \A c \in Consumers : SF_vars(StartConsumer(c) \/ ConsumerStep(c))

FairSpec == Spec /\ Fairness

-----------------------------------------------------------------------------
(***************************************************************************)
(* Properties                                                              *)
(***************************************************************************)

Listed(p) == IndicesOf(removeList, p) # {}

\* Every copy of a record, wherever it is on its way.
Records ==
    ToSet(removeList) \cup ToSet(removeChan) \cup ToSet(repairChan)
      \cup (UNION {ToSet(handed[r]) \cup ToSet(queue[r]) \cup ToSet(chosen[r])
                   : r \in Rounds})
      \cup (({job[w] : w \in Workers} \cup {inbox[c] : c \in Consumers})
              \ {NoEntry})

\* However the reports of workers and rounds cross, lose or overwrite each
\* other, no record of a pod is ahead of the pod: it says that there is an image
\* only if one was built, and that the pod is back, which deletes it from the
\* list, only if it was found back; and nothing is repaired that was not killed.
RecordsTrue ==
    \A m \in Records :
        /\ m.pod \in removed
        /\ m.stage \in {"image", "restoring", "restored"} => m.pod \in images
        /\ m.stage = "restored" => m.pod \in attached

\* Whatever list a round was handed and whatever was reported since, a pod is
\* created only if it was killed before and an image of it has been built.
CreatedFromImage ==
    [][\A p \in present' \ present : p \in removed /\ p \in images]_vars

\* Behind the lists, channels and goroutines each pod lives the life that
\* RepairPromise describes: whatever a stale list, a crossed report or a second
\* round makes the program do again, nothing is built, created, rejected or found
\* out of turn.
Promise ==
    INSTANCE RepairPromise
    WITH killed <- removed, imaged <- images, alive <- present,
         found <- attached

KeepsPromise == Promise!Spec

\* A pod that is killed once is built an image, created again, found by
\* UpdatePodData and taken off the list: the rounds that work on it at the same
\* time, with lists of different age, do not hold each other up for ever.
RepairCompletes ==
    \A p \in Pods :
        p \in removed ~> (p \in present /\ p \in attached /\ ~Listed(p))

\* "Append to removeContainerList" (DecisionRemoveContainer): a pod that was
\* killed is on its way to the list, or listed, until it has been created again.
KilledStaysListed ==
    \A p \in Pods \ present :
        \/ pending = p
        \/ Listed(p)
        \/ \E m \in ToSet(removeChan) : m.pod = p
        \/ \E c \in Consumers : consumerPc[c] = "append" /\ inbox[c].pod = p
=============================================================================
