---------------------------- MODULE RepairingProofs ----------------------------
(***************************************************************************)
(* Proofs about Repairing, for any number of pods, rounds, workers,        *)
(* consumers and kills.                                                    *)
(*                                                                         *)
(* Records are copied from the list to rounds, from these to workers, from *)
(* there to a channel, to a consumer and back to the list.  The inductive  *)
(* invariant says that they are true in all these places, and of a worker  *)
(* how far its pod has come at each point of its program.                  *)
(***************************************************************************)
EXTENDS Repairing, SlicesProofs, TLAPS

TrueRecords ==
    {m \in CheckpointContainer :
        /\ m.pod \in removed
        /\ m.stage \in {"image", "restoring", "restored"} => m.pod \in images
        /\ m.stage = "restored" => m.pod \in attached}

\* What DecisionRepairContainer picks out of the list.
ImageRecords == {m \in TrueRecords : m.stage = "image"}

\* The node.
NodeTrue ==
    /\ present \in SUBSET Pods
    /\ Pods \ present \subseteq removed
    /\ images \in SUBSET Pods
    /\ removals \in 0 .. MaxRemovals
    /\ removed \in SUBSET Pods
    /\ attached \in SUBSET Pods
    /\ faults \in 0 .. MaxFaults

\* What main and the channels hold.
ListsTrue ==
    /\ removeList \in Seq(TrueRecords)
    /\ removeChan \in Seq(TrueRecords)
    /\ repairChan \in Seq(TrueRecords)
    /\ Len(removeChan) <= ChanCap
    /\ Len(repairChan) <= ChanCap
    /\ pending \in removed \cup {NoPod}

RoundsTrue ==
    /\ roundPc \in [Rounds -> {"idle", "images", "repairs", "queue", "launch"}]
    /\ pos \in [Rounds -> Nat \ {0}]
    /\ handed \in [Rounds -> Seq(TrueRecords)]
    /\ queue \in [Rounds -> Seq(ImageRecords)]
    /\ chosen \in [Rounds -> Seq(ImageRecords)]

\* A worker that is past the building has an image, one that is about to report
\* the repair has found the pod.
WorkersTrue ==
    /\ workerPc \in [Workers -> {"idle", "announceImage", "build",
                                 "reportImage", "announceRepair", "restore",
                                 "inspect", "attach", "reportRepair"}]
    /\ job \in [Workers -> TrueRecords \cup {NoEntry}]
    /\ \A w \in Workers : workerPc[w] # "idle" => job[w] \in TrueRecords
    /\ \A w \in Workers :
          workerPc[w] \in {"reportImage", "announceRepair", "restore",
                           "inspect", "attach", "reportRepair"} =>
              job[w].pod \in images
    /\ \A w \in Workers :
          workerPc[w] = "reportRepair" => job[w].pod \in attached

ConsumersTrue ==
    /\ consumerPc \in [Consumers -> {"off", "select", "append", "write",
                                     "delete", "panicked"}]
    /\ inbox \in [Consumers -> TrueRecords \cup {NoEntry}]
    /\ \A c \in Consumers : consumerPc[c] \in {"append", "write", "delete"} =>
          inbox[c] \in TrueRecords
    /\ hit \in [Consumers -> Nat]
    /\ seenLen \in [Consumers -> Nat]
    /\ recovers \in SUBSET Consumers

IInv ==
    /\ NodeTrue
    /\ ListsTrue
    /\ RoundsTrue
    /\ WorkersTrue
    /\ ConsumersTrue

\* A step that writes no history.
LEMMA TrueSame ==
    ASSUME UNCHANGED <<removed, images, attached>>
    PROVE  TrueRecords' = TrueRecords /\ ImageRecords' = ImageRecords
  BY DEF TrueRecords, ImageRecords

\* A step that does: what was true stays true.
LEMMA TrueGrows ==
    ASSUME removed \subseteq removed', images \subseteq images',
           attached \subseteq attached'
    PROVE  /\ TrueRecords \subseteq TrueRecords'
           /\ ImageRecords \subseteq ImageRecords'
           /\ Seq(TrueRecords) \subseteq Seq(TrueRecords')
           /\ Seq(ImageRecords) \subseteq Seq(ImageRecords')
<1>1. TrueRecords \subseteq TrueRecords'
  BY DEF TrueRecords
<1>2. ImageRecords \subseteq ImageRecords'
  BY <1>1 DEF ImageRecords
<1> QED
  BY <1>1, <1>2, SeqMonotonic

LEMMA StutterKeeps ==
    ASSUME IInv, UNCHANGED vars
    PROVE  IInv'
<1> USE DEF vars, channels, rounds, workers, consumers, kills, node
<1>1. TrueRecords' = TrueRecords /\ ImageRecords' = ImageRecords
  BY TrueSame
<1>2. NodeTrue' /\ ListsTrue'
  BY <1>1 DEF IInv, NodeTrue, ListsTrue
<1>3. RoundsTrue' /\ WorkersTrue'
  BY <1>1 DEF IInv, RoundsTrue, WorkersTrue
<1>4. ConsumersTrue'
  BY <1>1 DEF IInv, ConsumersTrue
<1> QED
  BY <1>2, <1>3, <1>4 DEF IInv

(***************************************************************************)
(* Main                                                                    *)
(***************************************************************************)

LEMMA RemoveContainerKeeps ==
    ASSUME IInv, NEW p \in Pods, RemoveContainer(p)
    PROVE  IInv'
<1> USE DEF channels, rounds, workers, consumers, kills, node, RemoveContainer
<1>1. /\ TrueRecords \subseteq TrueRecords'
      /\ ImageRecords \subseteq ImageRecords'
      /\ Seq(TrueRecords) \subseteq Seq(TrueRecords')
      /\ Seq(ImageRecords) \subseteq Seq(ImageRecords')
  BY TrueGrows
<1>2. removals' \in 0 .. MaxRemovals
  BY ConstantsAssumption DEF IInv, NodeTrue
<1>3. NodeTrue'
  BY <1>1, <1>2 DEF IInv, NodeTrue
<1>4. ListsTrue'
  BY <1>1 DEF IInv, ListsTrue
<1>5. RoundsTrue'
  BY <1>1 DEF IInv, RoundsTrue
<1>6. WorkersTrue'
  BY <1>1 DEF IInv, WorkersTrue
<1>7. ConsumersTrue'
  BY <1>1 DEF IInv, ConsumersTrue
<1> QED
  BY <1>3, <1>4, <1>5, <1>6, <1>7 DEF IInv

LEMMA SendRemovedKeeps ==
    ASSUME IInv, SendRemoved
    PROVE  IInv'
<1> USE DEF channels, rounds, workers, consumers, kills, node, SendRemoved
<1>1. TrueRecords' = TrueRecords /\ ImageRecords' = ImageRecords
  BY TrueSame
<1>2. [pod |-> pending, stage |-> "killed"] \in TrueRecords
  BY ConstantsAssumption DEF IInv, NodeTrue, ListsTrue, TrueRecords,
     CheckpointContainer, Stage
<1>3. removeChan' \in Seq(TrueRecords) /\ Len(removeChan') <= ChanCap
  BY <1>2, ConstantsAssumption DEF IInv, ListsTrue
<1>4. NodeTrue'
  BY <1>1 DEF IInv, NodeTrue
<1>5. ListsTrue'
  BY <1>1, <1>3 DEF IInv, ListsTrue
<1>6. RoundsTrue'
  BY <1>1 DEF IInv, RoundsTrue
<1>7. WorkersTrue'
  BY <1>1 DEF IInv, WorkersTrue
<1>8. ConsumersTrue'
  BY <1>1 DEF IInv, ConsumersTrue
<1> QED
  BY <1>4, <1>5, <1>6, <1>7, <1>8 DEF IInv

LEMMA StartConsumerKeeps ==
    ASSUME IInv, NEW c \in Consumers, StartConsumer(c)
    PROVE  IInv'
<1> USE DEF channels, rounds, workers, consumers, kills, node, StartConsumer
<1>1. TrueRecords' = TrueRecords /\ ImageRecords' = ImageRecords
  BY TrueSame
<1>2. NodeTrue'
  BY <1>1 DEF IInv, NodeTrue
<1>3. ListsTrue'
  BY <1>1 DEF IInv, ListsTrue
<1>4. RoundsTrue'
  BY <1>1 DEF IInv, RoundsTrue
<1>5. WorkersTrue'
  BY <1>1 DEF IInv, WorkersTrue
<1>6. ConsumersTrue'
  BY <1>1 DEF IInv, ConsumersTrue
<1> QED
  BY <1>2, <1>3, <1>4, <1>5, <1>6 DEF IInv

LEMMA StartRoundKeeps ==
    ASSUME IInv, NEW r \in Rounds, NEW kind \in {"images", "repairs"},
           StartRound(r, kind)
    PROVE  IInv'
<1> USE DEF channels, rounds, workers, consumers, kills, node, StartRound
<1>1. TrueRecords' = TrueRecords /\ ImageRecords' = ImageRecords
  BY TrueSame
<1>2. NodeTrue'
  BY <1>1 DEF IInv, NodeTrue
<1>3. ListsTrue'
  BY <1>1 DEF IInv, ListsTrue
<1>4. RoundsTrue'
  BY <1>1 DEF IInv, RoundsTrue, ListsTrue
<1>5. WorkersTrue'
  BY <1>1 DEF IInv, WorkersTrue
<1>6. ConsumersTrue'
  BY <1>1 DEF IInv, ConsumersTrue
<1> QED
  BY <1>2, <1>3, <1>4, <1>5, <1>6 DEF IInv

(***************************************************************************)
(* The rounds                                                              *)
(***************************************************************************)

\* The range loops read true records, be they old or new.
LEMMA CurrentTrue ==
    ASSUME IInv, NEW r \in Rounds, pos[r] <= Len(handed[r])
    PROVE  Current(r) \subseteq TrueRecords
<1>1. handed[r] \in Seq(TrueRecords) /\ removeList \in Seq(TrueRecords)
  BY DEF IInv, RoundsTrue, ListsTrue
<1>2. pos[r] \in DOMAIN handed[r]
  BY <1>1 DEF IInv, RoundsTrue
<1>3. \A list \in Views(handed[r], removeList) :
         list \in Seq(TrueRecords) /\ DOMAIN list = DOMAIN handed[r]
  BY <1>1, ViewsOfSeq DEF Views, Overlay
<1> QED
  BY <1>2, <1>3 DEF Current

LEMMA SkipRecordKeeps ==
    ASSUME IInv, NEW r \in Rounds, SkipRecord(r)
    PROVE  IInv'
<1> USE DEF channels, rounds, workers, consumers, kills, node, SkipRecord,
       MoveRound, Advance
<1>1. TrueRecords' = TrueRecords /\ ImageRecords' = ImageRecords
  BY TrueSame
<1>2. NodeTrue'
  BY <1>1 DEF IInv, NodeTrue
<1>3. ListsTrue'
  BY <1>1 DEF IInv, ListsTrue
<1>4. RoundsTrue'
  BY <1>1 DEF IInv, RoundsTrue
<1>5. WorkersTrue'
  BY <1>1 DEF IInv, WorkersTrue
<1>6. ConsumersTrue'
  BY <1>1 DEF IInv, ConsumersTrue
<1> QED
  BY <1>2, <1>3, <1>4, <1>5, <1>6 DEF IInv

LEMMA StartImageKeeps ==
    ASSUME IInv, NEW r \in Rounds, NEW w \in Workers, StartImage(r, w)
    PROVE  IInv'
<1> USE DEF channels, rounds, workers, consumers, kills, node, StartImage,
       MoveRound, Advance
<1>1. TrueRecords' = TrueRecords /\ ImageRecords' = ImageRecords
  BY TrueSame
<1>2. Current(r) \subseteq TrueRecords
  BY CurrentTrue
<1>3. PICK m \in TrueRecords : job' = [job EXCEPT ![w] = m]
  BY <1>2
<1>4. NodeTrue'
  BY <1>1 DEF IInv, NodeTrue
<1>5. ListsTrue'
  BY <1>1 DEF IInv, ListsTrue
<1>6. RoundsTrue'
  BY <1>1 DEF IInv, RoundsTrue
<1>7. WorkersTrue'
  BY <1>1, <1>3 DEF IInv, WorkersTrue
<1>8. ConsumersTrue'
  BY <1>1 DEF IInv, ConsumersTrue
<1> QED
  BY <1>4, <1>5, <1>6, <1>7, <1>8 DEF IInv

LEMMA EndImagesKeeps ==
    ASSUME IInv, NEW r \in Rounds, EndImages(r)
    PROVE  IInv'
<1> USE DEF channels, rounds, workers, consumers, kills, node, EndImages,
       MoveRound, LeaveLoop
<1>1. TrueRecords' = TrueRecords /\ ImageRecords' = ImageRecords
  BY TrueSame
<1>2. NodeTrue'
  BY <1>1 DEF IInv, NodeTrue
<1>3. ListsTrue'
  BY <1>1 DEF IInv, ListsTrue
<1>4. RoundsTrue'
  BY <1>1 DEF IInv, RoundsTrue
<1>5. WorkersTrue'
  BY <1>1 DEF IInv, WorkersTrue
<1>6. ConsumersTrue'
  BY <1>1 DEF IInv, ConsumersTrue
<1> QED
  BY <1>2, <1>3, <1>4, <1>5, <1>6 DEF IInv

LEMMA CopyRecordKeeps ==
    ASSUME IInv, NEW r \in Rounds, CopyRecord(r)
    PROVE  IInv'
<1> USE DEF channels, rounds, workers, consumers, kills, node, CopyRecord,
       MoveRound, Advance
<1>1. TrueRecords' = TrueRecords /\ ImageRecords' = ImageRecords
  BY TrueSame
<1>2. Current(r) \subseteq TrueRecords
  BY CurrentTrue
<1>3. queue' \in [Rounds -> Seq(ImageRecords)]
  <2>1. queue[r] \in Seq(ImageRecords)
    BY DEF IInv, RoundsTrue
  <2>2. \A m \in Current(r) : m.stage = "image" => m \in ImageRecords
    BY <1>2 DEF ImageRecords
  <2> QED
    BY <2>1, <2>2 DEF IInv, RoundsTrue
<1>4. NodeTrue'
  BY <1>1 DEF IInv, NodeTrue
<1>5. ListsTrue'
  BY <1>1 DEF IInv, ListsTrue
<1>6. RoundsTrue'
  BY <1>1, <1>3 DEF IInv, RoundsTrue
<1>7. WorkersTrue'
  BY <1>1 DEF IInv, WorkersTrue
<1>8. ConsumersTrue'
  BY <1>1 DEF IInv, ConsumersTrue
<1> QED
  BY <1>4, <1>5, <1>6, <1>7, <1>8 DEF IInv

LEMMA EndCopyKeeps ==
    ASSUME IInv, NEW r \in Rounds, EndCopy(r)
    PROVE  IInv'
<1> USE DEF channels, rounds, workers, consumers, kills, node, EndCopy,
       MoveRound, LeaveLoop
<1>1. TrueRecords' = TrueRecords /\ ImageRecords' = ImageRecords
  BY TrueSame
<1>2. NodeTrue'
  BY <1>1 DEF IInv, NodeTrue
<1>3. ListsTrue'
  BY <1>1 DEF IInv, ListsTrue
<1>4. RoundsTrue'
  BY <1>1 DEF IInv, RoundsTrue
<1>5. WorkersTrue'
  BY <1>1 DEF IInv, WorkersTrue
<1>6. ConsumersTrue'
  BY <1>1 DEF IInv, ConsumersTrue
<1> QED
  BY <1>2, <1>3, <1>4, <1>5, <1>6 DEF IInv

LEMMA ChooseHeadKeeps ==
    ASSUME IInv, NEW r \in Rounds, ChooseHead(r)
    PROVE  IInv'
<1> USE DEF channels, rounds, workers, consumers, kills, node, ChooseHead,
       MoveRound
<1>1. TrueRecords' = TrueRecords /\ ImageRecords' = ImageRecords
  BY TrueSame
<1>2. queue[r] \in Seq(ImageRecords) /\ Head(queue[r]) \in ImageRecords
  BY DEF IInv, RoundsTrue
<1>3. Head(queue[r]) \in TrueRecords
  BY <1>2 DEF ImageRecords
<1>4. (IF Len(queue[r]) = 1 THEN <<>>
        ELSE SubSeq(queue[r], 2, Len(queue[r]) - 1)) \in Seq(ImageRecords)
  BY <1>2
<1>5. repairChan' \in Seq(TrueRecords) /\ Len(repairChan') <= ChanCap
  BY <1>3, ConstantsAssumption DEF IInv, ListsTrue
<1>6. NodeTrue'
  BY <1>1 DEF IInv, NodeTrue
<1>7. ListsTrue'
  BY <1>1, <1>5 DEF IInv, ListsTrue
<1>8. RoundsTrue'
  BY <1>1, <1>2, <1>4 DEF IInv, RoundsTrue
<1>9. WorkersTrue'
  BY <1>1 DEF IInv, WorkersTrue
<1>10. ConsumersTrue'
  BY <1>1 DEF IInv, ConsumersTrue
<1> QED
  BY <1>6, <1>7, <1>8, <1>9, <1>10 DEF IInv

LEMMA StopChoosingKeeps ==
    ASSUME IInv, NEW r \in Rounds, StopChoosing(r)
    PROVE  IInv'
<1> USE DEF channels, rounds, workers, consumers, kills, node, StopChoosing,
       MoveRound
<1>1. TrueRecords' = TrueRecords /\ ImageRecords' = ImageRecords
  BY TrueSame
<1>2. NodeTrue'
  BY <1>1 DEF IInv, NodeTrue
<1>3. ListsTrue'
  BY <1>1 DEF IInv, ListsTrue
<1>4. RoundsTrue'
  BY <1>1 DEF IInv, RoundsTrue
<1>5. WorkersTrue'
  BY <1>1 DEF IInv, WorkersTrue
<1>6. ConsumersTrue'
  BY <1>1 DEF IInv, ConsumersTrue
<1> QED
  BY <1>2, <1>3, <1>4, <1>5, <1>6 DEF IInv

LEMMA StartRepairKeeps ==
    ASSUME IInv, NEW r \in Rounds, NEW w \in Workers, StartRepair(r, w)
    PROVE  IInv'
<1> USE DEF channels, rounds, workers, consumers, kills, node, StartRepair,
       MoveRound
<1>1. TrueRecords' = TrueRecords /\ ImageRecords' = ImageRecords
  BY TrueSame
<1>2. /\ chosen[r] \in Seq(ImageRecords)
      /\ Head(chosen[r]) \in ImageRecords
      /\ Tail(chosen[r]) \in Seq(ImageRecords)
  BY DEF IInv, RoundsTrue
<1>3. Head(chosen[r]) \in TrueRecords /\ Head(chosen[r]).pod \in images
  BY <1>2 DEF ImageRecords, TrueRecords
<1>4. NodeTrue'
  BY <1>1 DEF IInv, NodeTrue
<1>5. ListsTrue'
  BY <1>1 DEF IInv, ListsTrue
<1>6. RoundsTrue'
  BY <1>1, <1>2 DEF IInv, RoundsTrue
<1>7. WorkersTrue'
  BY <1>1, <1>3 DEF IInv, WorkersTrue
<1>8. ConsumersTrue'
  BY <1>1 DEF IInv, ConsumersTrue
<1> QED
  BY <1>4, <1>5, <1>6, <1>7, <1>8 DEF IInv

LEMMA EndRepairsKeeps ==
    ASSUME IInv, NEW r \in Rounds, EndRepairs(r)
    PROVE  IInv'
<1> USE DEF channels, rounds, workers, consumers, kills, node, EndRepairs,
       MoveRound
<1>1. TrueRecords' = TrueRecords /\ ImageRecords' = ImageRecords
  BY TrueSame
<1>2. NodeTrue'
  BY <1>1 DEF IInv, NodeTrue
<1>3. ListsTrue'
  BY <1>1 DEF IInv, ListsTrue
<1>4. RoundsTrue'
  BY <1>1 DEF IInv, RoundsTrue
<1>5. WorkersTrue'
  BY <1>1 DEF IInv, WorkersTrue
<1>6. ConsumersTrue'
  BY <1>1 DEF IInv, ConsumersTrue
<1> QED
  BY <1>2, <1>3, <1>4, <1>5, <1>6 DEF IInv

(***************************************************************************)
(* The workers                                                             *)
(***************************************************************************)

\* Announce and Report, for a record that is true with its new stage.
LEMMA AnnounceKeeps ==
    ASSUME IInv, NEW w \in Workers, NEW from, NEW stage \in Stage, NEW to,
           from # "idle", to \in {"build", "restore"}, Announce(w, from,
     stage, to),
           stage = "restoring" => job[w].pod \in images,
           to = "restore" => job[w].pod \in images,
           stage \in {"imaging", "restoring"}
    PROVE  IInv'
<1> USE DEF channels, rounds, workers, consumers, kills, node, Announce,
       MoveWorker
<1>1. TrueRecords' = TrueRecords /\ ImageRecords' = ImageRecords
  BY TrueSame
<1>2. job[w] \in TrueRecords
  BY DEF IInv, WorkersTrue
<1>3. /\ [job[w] EXCEPT !.stage = stage] \in TrueRecords
      /\ [job[w] EXCEPT !.stage = stage].pod = job[w].pod
  BY <1>2 DEF TrueRecords, CheckpointContainer
<1>4. /\ job' = [job EXCEPT ![w] = [job[w] EXCEPT !.stage = stage]]
      /\ job'[w] \in TrueRecords
      /\ job'[w].pod = job[w].pod
  BY <1>3 DEF IInv, WorkersTrue
<1>5. repairChan' \in Seq(TrueRecords) /\ Len(repairChan') <= ChanCap
  BY <1>4, ConstantsAssumption DEF IInv, ListsTrue
<1>6. NodeTrue'
  BY DEF IInv, NodeTrue
<1>7. ListsTrue'
  BY <1>1, <1>5 DEF IInv, ListsTrue
<1>8. RoundsTrue'
  BY <1>1 DEF IInv, RoundsTrue
<1>9. WorkersTrue'
  <2> HIDE DEF Announce
  <2>1. /\ workerPc' = [workerPc EXCEPT ![w] = to]
        /\ UNCHANGED <<images, attached>>
    BY DEF Announce
  <2>2. job' \in [Workers -> TrueRecords \cup {NoEntry}]
    BY <1>3, <1>4 DEF IInv, WorkersTrue
  <2>3. \A v \in Workers : v # w => job'[v] = job[v] /\ workerPc'[v] = workerPc[v]
    BY <1>4, <2>1 DEF IInv, WorkersTrue
  <2>4. workerPc'[w] = to
    BY <2>1 DEF IInv, WorkersTrue
  <2> QED
    BY <1>1, <1>4, <2>1, <2>2, <2>3, <2>4 DEF IInv, WorkersTrue
<1>10. ConsumersTrue'
  BY <1>1 DEF IInv, ConsumersTrue
<1> QED
  BY <1>6, <1>7, <1>8, <1>9, <1>10 DEF IInv

LEMMA ReportKeeps ==
    ASSUME IInv, NEW w \in Workers, NEW from, NEW stage \in Stage,
           from # "idle", Report(w, from, stage), job[w].pod \in images,
           stage = "restored" => job[w].pod \in attached
    PROVE  IInv'
<1> USE DEF channels, rounds, workers, consumers, kills, node, Report,
       MoveWorker
<1>1. TrueRecords' = TrueRecords /\ ImageRecords' = ImageRecords
  BY TrueSame
<1>2. job[w] \in TrueRecords
  BY DEF IInv, WorkersTrue
<1>3. [job[w] EXCEPT !.stage = stage] \in TrueRecords
  BY <1>2 DEF TrueRecords, CheckpointContainer
<1>4. repairChan' \in Seq(TrueRecords) /\ Len(repairChan') <= ChanCap
  BY <1>3, ConstantsAssumption DEF IInv, ListsTrue
<1>5. NodeTrue'
  BY DEF IInv, NodeTrue
<1>6. ListsTrue'
  BY <1>1, <1>4 DEF IInv, ListsTrue
<1>7. RoundsTrue'
  BY <1>1 DEF IInv, RoundsTrue
<1>8. WorkersTrue'
  BY <1>1 DEF IInv, WorkersTrue
<1>9. ConsumersTrue'
  BY <1>1 DEF IInv, ConsumersTrue
<1> QED
  BY <1>5, <1>6, <1>7, <1>8, <1>9 DEF IInv

LEMMA BuildKeeps ==
    ASSUME IInv, NEW w \in Workers, Build(w)
    PROVE  IInv'
<1> USE DEF channels, rounds, workers, consumers, kills, node, Build, MoveWorker
<1>1. /\ TrueRecords \subseteq TrueRecords'
      /\ ImageRecords \subseteq ImageRecords'
      /\ Seq(TrueRecords) \subseteq Seq(TrueRecords')
      /\ Seq(ImageRecords) \subseteq Seq(ImageRecords')
  BY TrueGrows
<1>2. job[w] \in TrueRecords /\ job[w].pod \in Pods
  BY DEF IInv, WorkersTrue, TrueRecords, CheckpointContainer
<1>3. NodeTrue'
  BY <1>1, <1>2 DEF IInv, NodeTrue
<1>4. ListsTrue'
  BY <1>1 DEF IInv, ListsTrue
<1>5. RoundsTrue'
  BY <1>1 DEF IInv, RoundsTrue
<1>6. WorkersTrue'
  BY <1>1, <1>2 DEF IInv, WorkersTrue
<1>7. ConsumersTrue'
  BY <1>1 DEF IInv, ConsumersTrue
<1> QED
  BY <1>3, <1>4, <1>5, <1>6, <1>7 DEF IInv

LEMMA RestoreContainerKeeps ==
    ASSUME IInv, NEW w \in Workers, RestoreContainer(w)
    PROVE  IInv'
<1> USE DEF channels, rounds, workers, consumers, kills, node,
       RestoreContainer, MoveWorker
<1>1. TrueRecords' = TrueRecords /\ ImageRecords' = ImageRecords
  BY TrueSame
<1>2. job[w].pod \in Pods
  BY DEF IInv, WorkersTrue, TrueRecords, CheckpointContainer
<1>3. faults' \in 0 .. MaxFaults
  BY ConstantsAssumption DEF IInv, NodeTrue
<1>4. NodeTrue'
  BY <1>1, <1>2, <1>3 DEF IInv, NodeTrue
<1>5. ListsTrue'
  BY <1>1 DEF IInv, ListsTrue
<1>6. RoundsTrue'
  BY <1>1 DEF IInv, RoundsTrue
<1>7. WorkersTrue'
  BY <1>1 DEF IInv, WorkersTrue
<1>8. ConsumersTrue'
  BY <1>1 DEF IInv, ConsumersTrue
<1> QED
  BY <1>4, <1>5, <1>6, <1>7, <1>8 DEF IInv

LEMMA OutOfMemoryKeeps ==
    ASSUME IInv, NEW w \in Workers, OutOfMemory(w)
    PROVE  IInv'
<1> USE DEF channels, rounds, workers, consumers, kills, node, OutOfMemory,
       MoveWorker
<1>1. TrueRecords' = TrueRecords /\ ImageRecords' = ImageRecords
  BY TrueSame
<1>2. job[w].pod \in removed
  BY DEF IInv, WorkersTrue, TrueRecords
<1>3. faults' \in 0 .. MaxFaults
  BY ConstantsAssumption DEF IInv, NodeTrue
<1>4. NodeTrue'
  BY <1>1, <1>2, <1>3 DEF IInv, NodeTrue
<1>5. ListsTrue'
  BY <1>1 DEF IInv, ListsTrue
<1>6. RoundsTrue'
  BY <1>1 DEF IInv, RoundsTrue
<1>7. WorkersTrue'
  BY <1>1 DEF IInv, WorkersTrue
<1>8. ConsumersTrue'
  BY <1>1 DEF IInv, ConsumersTrue
<1> QED
  BY <1>4, <1>5, <1>6, <1>7, <1>8 DEF IInv

LEMMA AcceptKeeps ==
    ASSUME IInv, NEW w \in Workers, Accept(w)
    PROVE  IInv'
<1> USE DEF channels, rounds, workers, consumers, kills, node, Accept,
       MoveWorker
<1>1. TrueRecords' = TrueRecords /\ ImageRecords' = ImageRecords
  BY TrueSame
<1>2. NodeTrue'
  BY <1>1 DEF IInv, NodeTrue
<1>3. ListsTrue'
  BY <1>1 DEF IInv, ListsTrue
<1>4. RoundsTrue'
  BY <1>1 DEF IInv, RoundsTrue
<1>5. WorkersTrue'
  BY <1>1 DEF IInv, WorkersTrue
<1>6. ConsumersTrue'
  BY <1>1 DEF IInv, ConsumersTrue
<1> QED
  BY <1>2, <1>3, <1>4, <1>5, <1>6 DEF IInv

LEMMA UpdatePodDataKeeps ==
    ASSUME IInv, NEW w \in Workers, UpdatePodData(w)
    PROVE  IInv'
<1> USE DEF channels, rounds, workers, consumers, kills, node, UpdatePodData,
       MoveWorker
<1>1. /\ TrueRecords \subseteq TrueRecords'
      /\ ImageRecords \subseteq ImageRecords'
      /\ Seq(TrueRecords) \subseteq Seq(TrueRecords')
      /\ Seq(ImageRecords) \subseteq Seq(ImageRecords')
  BY TrueGrows
<1>2. job[w] \in TrueRecords /\ job[w].pod \in Pods
  BY DEF IInv, WorkersTrue, TrueRecords, CheckpointContainer
<1>3. NodeTrue'
  BY <1>1, <1>2 DEF IInv, NodeTrue
<1>4. ListsTrue'
  BY <1>1 DEF IInv, ListsTrue
<1>5. RoundsTrue'
  BY <1>1 DEF IInv, RoundsTrue
<1>6. WorkersTrue'
  BY <1>1, <1>2 DEF IInv, WorkersTrue
<1>7. ConsumersTrue'
  BY <1>1 DEF IInv, ConsumersTrue
<1> QED
  BY <1>3, <1>4, <1>5, <1>6, <1>7 DEF IInv

LEMMA WorkerKeeps ==
    ASSUME IInv, NEW w \in Workers, WorkerStep(w)
    PROVE  IInv'
<1>1. CASE AnnounceImage(w)
  BY <1>1, AnnounceKeeps DEF AnnounceImage, Stage
<1>2. CASE Build(w)
  BY <1>2, BuildKeeps
<1>3. CASE ReportImage(w)
  <2>1. job[w].pod \in images
    BY <1>3 DEF ReportImage, Report, MoveWorker, IInv, WorkersTrue
  <2> QED
    BY <1>3, <2>1, ReportKeeps DEF ReportImage, Stage
<1>4. CASE AnnounceRepair(w)
  <2>1. job[w].pod \in images
    BY <1>4 DEF AnnounceRepair, Announce, MoveWorker, IInv, WorkersTrue
  <2> QED
    BY <1>4, <2>1, AnnounceKeeps DEF AnnounceRepair, Stage
<1>5. CASE RestoreContainer(w)
  BY <1>5, RestoreContainerKeeps
<1>6. CASE OutOfMemory(w)
  BY <1>6, OutOfMemoryKeeps
<1>7. CASE Accept(w)
  BY <1>7, AcceptKeeps
<1>8. CASE UpdatePodData(w)
  BY <1>8, UpdatePodDataKeeps
<1>9. CASE Poll(w)
  BY <1>9, StutterKeeps DEF Poll
<1>10. CASE ReportRepair(w)
  <2>1. job[w].pod \in images /\ job[w].pod \in attached
    BY <1>10 DEF ReportRepair, Report, MoveWorker, IInv, WorkersTrue
  <2> QED
    BY <1>10, <2>1, ReportKeeps DEF ReportRepair, Stage
<1> QED
  BY <1>1, <1>2, <1>3, <1>4, <1>5, <1>6, <1>7, <1>8, <1>9, <1>10 DEF WorkerStep

(***************************************************************************)
(* The consumers                                                           *)
(***************************************************************************)

LEMMA TakeRemovedKeeps ==
    ASSUME IInv, NEW c \in Consumers, TakeRemoved(c)
    PROVE  IInv'
<1> USE DEF channels, rounds, workers, consumers, kills, node, TakeRemoved,
       MoveConsumer
<1>1. TrueRecords' = TrueRecords /\ ImageRecords' = ImageRecords
  BY TrueSame
<1>2. /\ Head(removeChan) \in TrueRecords
      /\ Tail(removeChan) \in Seq(TrueRecords)
      /\ Len(Tail(removeChan)) <= ChanCap
      /\ Len(removeList) \in Nat
  BY ConstantsAssumption DEF IInv, ListsTrue
<1>3. NodeTrue'
  BY <1>1 DEF IInv, NodeTrue
<1>4. ListsTrue'
  BY <1>1, <1>2 DEF IInv, ListsTrue
<1>5. RoundsTrue'
  BY <1>1 DEF IInv, RoundsTrue
<1>6. WorkersTrue'
  BY <1>1 DEF IInv, WorkersTrue
<1>7. ConsumersTrue'
  BY <1>1, <1>2 DEF IInv, ConsumersTrue
<1> QED
  BY <1>3, <1>4, <1>5, <1>6, <1>7 DEF IInv

LEMMA WriteAppendKeeps ==
    ASSUME IInv, NEW c \in Consumers, WriteAppend(c)
    PROVE  IInv'
<1> USE DEF channels, rounds, workers, consumers, kills, node, WriteAppend,
       MoveConsumer, Finish
<1>1. TrueRecords' = TrueRecords /\ ImageRecords' = ImageRecords
  BY TrueSame
<1>2. inbox[c] \in TrueRecords /\ seenLen[c] \in Nat /\ removeList \in Seq(TrueRecords)
  BY DEF IInv, ConsumersTrue, ListsTrue
<1>3. removeList' \in Seq(TrueRecords)
  <2>1. \A n \in {seenLen[c], Len(removeList)} :
           n <= Len(removeList) =>
             SubSeq(removeList, 1, n) \in Seq(TrueRecords)
    BY <1>2
  <2> QED
    BY <1>2, <2>1
<1>4. NodeTrue'
  BY <1>1 DEF IInv, NodeTrue
<1>5. ListsTrue'
  BY <1>1, <1>3 DEF IInv, ListsTrue
<1>6. RoundsTrue'
  BY <1>1 DEF IInv, RoundsTrue
<1>7. WorkersTrue'
  BY <1>1 DEF IInv, WorkersTrue
<1>8. ConsumersTrue'
  BY <1>1 DEF IInv, ConsumersTrue
<1> QED
  BY <1>4, <1>5, <1>6, <1>7, <1>8 DEF IInv

LEMMA TakeReportKeeps ==
    ASSUME IInv, NEW c \in Consumers, TakeReport(c)
    PROVE  IInv'
<1> USE DEF channels, rounds, workers, consumers, kills, node, TakeReport,
       MoveConsumer
<1>1. TrueRecords' = TrueRecords /\ ImageRecords' = ImageRecords
  BY TrueSame
<1>2. /\ Head(repairChan) \in TrueRecords
      /\ Tail(repairChan) \in Seq(TrueRecords)
      /\ Len(Tail(repairChan)) <= ChanCap
  BY ConstantsAssumption DEF IInv, ListsTrue
<1>3. \A i \in DOMAIN removeList : i \in Nat
  BY DEF IInv, ListsTrue
<1>4. NodeTrue'
  BY <1>1 DEF IInv, NodeTrue
<1>5. ListsTrue'
  BY <1>1, <1>2 DEF IInv, ListsTrue
<1>6. RoundsTrue'
  BY <1>1 DEF IInv, RoundsTrue
<1>7. WorkersTrue'
  BY <1>1 DEF IInv, WorkersTrue
<1>8. ConsumersTrue'
  BY <1>1, <1>2, <1>3 DEF IInv, ConsumersTrue
<1> QED
  BY <1>4, <1>5, <1>6, <1>7, <1>8 DEF IInv

LEMMA WriteKeeps ==
    ASSUME IInv, NEW c \in Consumers, Write(c)
    PROVE  IInv'
<1> USE DEF channels, rounds, workers, consumers, kills, node, Write,
       MoveConsumer, Finish
<1>1. TrueRecords' = TrueRecords /\ ImageRecords' = ImageRecords
  BY TrueSame
<1>2. inbox[c] \in TrueRecords /\ removeList \in Seq(TrueRecords)
  BY DEF IInv, ConsumersTrue, ListsTrue
<1>3. removeList' \in Seq(TrueRecords)
  BY <1>2, OverwriteSeq
<1>4. NodeTrue'
  BY <1>1 DEF IInv, NodeTrue
<1>5. ListsTrue'
  BY <1>1, <1>3 DEF IInv, ListsTrue
<1>6. RoundsTrue'
  BY <1>1 DEF IInv, RoundsTrue
<1>7. WorkersTrue'
  BY <1>1 DEF IInv, WorkersTrue
<1>8. ConsumersTrue'
  BY <1>1 DEF IInv, ConsumersTrue
<1> QED
  BY <1>4, <1>5, <1>6, <1>7, <1>8 DEF IInv

LEMMA DeleteKeeps ==
    ASSUME IInv, NEW c \in Consumers, Delete(c)
    PROVE  IInv'
<1> USE DEF channels, rounds, workers, consumers, kills, node, Delete,
       MoveConsumer, Finish
<1>1. TrueRecords' = TrueRecords /\ ImageRecords' = ImageRecords
  BY TrueSame
<1>2. removeList' \in Seq(TrueRecords)
  BY RemoveAtSeq DEF IInv, ListsTrue
<1>3. NodeTrue'
  BY <1>1 DEF IInv, NodeTrue
<1>4. ListsTrue'
  BY <1>1, <1>2 DEF IInv, ListsTrue
<1>5. RoundsTrue'
  BY <1>1 DEF IInv, RoundsTrue
<1>6. WorkersTrue'
  BY <1>1 DEF IInv, WorkersTrue
<1>7. ConsumersTrue'
  BY <1>1 DEF IInv, ConsumersTrue
<1> QED
  BY <1>3, <1>4, <1>5, <1>6, <1>7 DEF IInv

(***************************************************************************)
(* Theorems                                                                *)
(***************************************************************************)

\* Every copy of a record is true, wherever it is on its way, and every worker
\* is as far as its pod.
THEOREM Truth == Spec => []IInv
<1>1. Init => IInv
  BY ConstantsAssumption DEF Init, IInv, NodeTrue, ListsTrue, RoundsTrue,
     WorkersTrue, ConsumersTrue
<1>2. IInv /\ [Next]_vars => IInv'
  <2> SUFFICES ASSUME IInv, [Next]_vars
               PROVE  IInv'
    OBVIOUS
  <2>1. CASE MainStep
    BY <2>1, RemoveContainerKeeps, SendRemovedKeeps, StartConsumerKeeps,
       StartRoundKeeps DEF MainStep
  <2>2. CASE \E r \in Rounds : RoundStep(r)
    BY <2>2, SkipRecordKeeps, EndImagesKeeps, CopyRecordKeeps, EndCopyKeeps,
       ChooseHeadKeeps, StopChoosingKeeps, EndRepairsKeeps, StartImageKeeps,
       StartRepairKeeps DEF RoundStep
  <2>3. CASE \E w \in Workers : WorkerStep(w)
    BY <2>3, WorkerKeeps
  <2>4. CASE \E c \in Consumers : ConsumerStep(c)
    BY <2>4, TakeRemovedKeeps, WriteAppendKeeps, TakeReportKeeps, WriteKeeps,
       DeleteKeeps DEF ConsumerStep
  <2>5. CASE UNCHANGED vars
    BY <2>5, StutterKeeps
  <2> QED
    BY <2>1, <2>2, <2>3, <2>4, <2>5 DEF Next, Halted
<1> QED
  BY <1>1, <1>2, PTL DEF Spec

\* Every reachable state is well typed, and the channels stay within their
\* capacity.
THEOREM TypeCorrect == Spec => []TypeOK
<1>1. IInv => TypeOK
  <2> SUFFICES ASSUME IInv
               PROVE  TypeOK
    OBVIOUS
  <2>1. TrueRecords \subseteq CheckpointContainer
    BY DEF TrueRecords
  <2>2. ImageRecords \subseteq CheckpointContainer
    BY <2>1 DEF ImageRecords
  <2>3. /\ Seq(TrueRecords) \subseteq Seq(CheckpointContainer)
        /\ Seq(ImageRecords) \subseteq Seq(CheckpointContainer)
    BY <2>1, <2>2, SeqMonotonic
  <2>4. /\ removeList \in Seq(CheckpointContainer)
        /\ removeChan \in Seq(CheckpointContainer)
        /\ repairChan \in Seq(CheckpointContainer)
        /\ Len(removeChan) <= ChanCap
        /\ Len(repairChan) <= ChanCap
        /\ pending \in Pods \cup {NoPod}
    BY <2>3 DEF IInv, ListsTrue, NodeTrue
  <2>5. /\ handed \in [Rounds -> Seq(CheckpointContainer)]
        /\ queue \in [Rounds -> Seq(CheckpointContainer)]
        /\ chosen \in [Rounds -> Seq(CheckpointContainer)]
    BY <2>3 DEF IInv, RoundsTrue
  <2>6. /\ job \in [Workers -> CheckpointContainer \cup {NoEntry}]
        /\ inbox \in [Consumers -> CheckpointContainer \cup {NoEntry}]
    BY <2>1 DEF IInv, WorkersTrue, ConsumersTrue
  <2> QED
    BY <2>4, <2>5, <2>6 DEF TypeOK, IInv, NodeTrue, RoundsTrue, WorkersTrue,
       ConsumersTrue
<1> QED
  BY <1>1, Truth, PTL

\* No record is ahead of its pod, however the reports of any number of workers
\* and consumers cross.
THEOREM RecordsAreTrue == Spec => []RecordsTrue
<1>1. IInv => RecordsTrue
  <2> SUFFICES ASSUME IInv, NEW m \in Records
               PROVE  m \in TrueRecords
    BY DEF RecordsTrue, TrueRecords
  <2>1. \A list \in Seq(TrueRecords) : ToSet(list) \subseteq TrueRecords
    BY DEF ToSet
  <2>2. \A list \in Seq(ImageRecords) : ToSet(list) \subseteq TrueRecords
    BY DEF ToSet, ImageRecords
  <2>3. CASE m \in ToSet(removeList) \cup ToSet(removeChan) \cup ToSet(repairChan)
    BY <2>1, <2>3 DEF IInv, ListsTrue
  <2>4. CASE \E r \in Rounds :
               m \in ToSet(handed[r]) \cup ToSet(queue[r]) \cup ToSet(chosen[r])
    BY <2>1, <2>2, <2>4 DEF IInv, RoundsTrue
  <2>5. CASE m # NoEntry /\ \E w \in Workers : m = job[w]
    BY <2>5 DEF IInv, WorkersTrue
  <2>6. CASE m # NoEntry /\ \E c \in Consumers : m = inbox[c]
    BY <2>6 DEF IInv, ConsumersTrue
  <2> QED
    BY <2>3, <2>4, <2>5, <2>6 DEF Records
<1> QED
  BY <1>1, Truth, PTL

\* Whatever lists the rounds were handed, a pod is created only after it was
\* killed and an image was built of it.
THEOREM CreatedOnlyFromImage == Spec => CreatedFromImage
<1>1. IInv /\ [Next]_vars =>
        [\A p \in present' \ present : p \in removed /\ p \in images]_vars
  <2> SUFFICES ASSUME IInv, Next, NEW p \in present' \ present
               PROVE  p \in removed /\ p \in images
    OBVIOUS
  <2> USE DEF vars, channels, rounds, workers, consumers, kills, node
  <2>1. CASE \E w \in Workers : RestoreContainer(w)
    <3>1. PICK w \in Workers : RestoreContainer(w)
      BY <2>1
    <3>2. p = job[w].pod /\ workerPc[w] = "restore"
      BY <3>1 DEF RestoreContainer, MoveWorker
    <3> QED
      BY <3>2 DEF IInv, WorkersTrue, TrueRecords
  <2>2. CASE present' \subseteq present
    BY <2>2
  <2>3. CASE MainStep
    BY <2>2, <2>3 DEF MainStep, RemoveContainer, SendRemoved, StartConsumer,
       StartRound
  <2>4. CASE \E r \in Rounds : RoundStep(r)
    BY <2>2, <2>4 DEF RoundStep, SkipRecord, EndImages, CopyRecord, EndCopy,
       ChooseHead, StopChoosing, EndRepairs, StartImage, StartRepair
  <2>5. CASE \E w \in Workers : WorkerStep(w)
    BY <2>1, <2>2, <2>5 DEF WorkerStep, AnnounceImage, Announce, Build,
       ReportImage, Report, AnnounceRepair, OutOfMemory, Accept, UpdatePodData,
       Poll, ReportRepair
  <2>6. CASE \E c \in Consumers : ConsumerStep(c)
    BY <2>2, <2>6 DEF ConsumerStep, TakeRemoved, WriteAppend, TakeReport, Write,
       Delete
  <2> QED
    BY <2>2, <2>3, <2>4, <2>5, <2>6 DEF Next, Halted
<1> QED
  BY <1>1, Truth, PTL DEF Spec, CreatedFromImage

(***************************************************************************)
(* The refinement                                                          *)
(***************************************************************************)

promised == <<removed, images, present, attached>>

\* What neither kills nor repairs is a stutter.
LEMMA PromiseStutters ==
    ASSUME UNCHANGED promised
    PROVE  [Promise!Next]_Promise!vars
  BY DEF promised, Promise!vars

LEMMA MainPromise ==
    ASSUME MainStep
    PROVE  [Promise!Next]_Promise!vars
<1> USE DEF channels, rounds, workers, consumers, kills, node
<1>1. CASE \E p \in Pods : RemoveContainer(p)
  <2>1. PICK p \in Pods : RemoveContainer(p)
    BY <1>1
  <2>2. Promise!Kill(p)
    BY <2>1 DEF RemoveContainer, Promise!Kill
  <2> QED
    BY <2>2 DEF Promise!Next
<1>2. CASE UNCHANGED promised
  BY <1>2, PromiseStutters
<1> QED
  BY <1>1, <1>2 DEF MainStep, promised, SendRemoved, StartConsumer, StartRound

LEMMA WorkerPromise ==
    ASSUME IInv, NEW w \in Workers, WorkerStep(w)
    PROVE  [Promise!Next]_Promise!vars
<1> DEFINE p == job[w].pod
<1> USE DEF channels, rounds, workers, consumers, kills, node, MoveWorker
<1>1. workerPc[w] # "idle" => p \in Pods /\ p \in removed
  BY DEF IInv, WorkersTrue, TrueRecords, CheckpointContainer
<1>2. workerPc[w] \in {"restore", "inspect", "attach"} => p \in images
  BY DEF IInv, WorkersTrue
<1>3. CASE Build(w)
  <2>1. p \in Pods /\ Promise!BuildImage(p)
    BY <1>1, <1>3 DEF Build, Promise!BuildImage
  <2> QED
    BY <2>1 DEF Promise!Next
<1>4. CASE RestoreContainer(w)
  <2>1. CASE present' = present
    BY <2>1, <1>4, PromiseStutters DEF RestoreContainer, promised
  <2>2. CASE present' = present \cup {p}
    <3>1. p \in Pods /\ Promise!Create(p)
      BY <1>1, <1>2, <1>4, <2>2 DEF RestoreContainer, Promise!Create
    <3> QED
      BY <3>1 DEF Promise!Next
  <2> QED
    BY <1>4, <2>1, <2>2 DEF RestoreContainer
<1>5. CASE OutOfMemory(w)
  <2>1. p \in Pods /\ Promise!Reject(p)
    BY <1>1, <1>2, <1>5 DEF OutOfMemory, Promise!Reject
  <2> QED
    BY <2>1 DEF Promise!Next
<1>6. CASE UpdatePodData(w)
  <2>1. p \in Pods /\ Promise!Find(p)
    BY <1>1, <1>2, <1>6 DEF UpdatePodData, Promise!Find
  <2> QED
    BY <2>1 DEF Promise!Next
<1>7. CASE UNCHANGED promised
  BY <1>7, PromiseStutters
<1> QED
  BY <1>3, <1>4, <1>5, <1>6, <1>7 DEF WorkerStep, promised, AnnounceImage,
     Announce, ReportImage, Report, AnnounceRepair, Accept, Poll, ReportRepair,
     vars

\* For any number of rounds, workers and consumers, the pipeline implements the
\* life of a pod that RepairPromise describes.
THEOREM ImplementsPromise == Spec => KeepsPromise
<1>1. Init => Promise!Init
  BY DEF Init, Promise!Init
<1>2. IInv /\ [Next]_vars => [Promise!Next]_Promise!vars
  <2> SUFFICES ASSUME IInv, [Next]_vars
               PROVE  [Promise!Next]_Promise!vars
    OBVIOUS
  <2> USE DEF channels, rounds, workers, consumers, kills, node
  <2>1. CASE MainStep
    BY <2>1, MainPromise
  <2>2. CASE \E w \in Workers : WorkerStep(w)
    BY <2>2, WorkerPromise
  <2>3. CASE UNCHANGED promised
    BY <2>3, PromiseStutters
  <2>4. CASE \E r \in Rounds : RoundStep(r)
    BY <2>3, <2>4 DEF promised, RoundStep, SkipRecord, EndImages, CopyRecord,
       EndCopy, ChooseHead, StopChoosing, EndRepairs, StartImage, StartRepair
  <2>5. CASE \E c \in Consumers : ConsumerStep(c)
    BY <2>3, <2>5 DEF promised, ConsumerStep, TakeRemoved, WriteAppend,
       TakeReport, Write, Delete
  <2>6. CASE Halted \/ UNCHANGED vars
    BY <2>3, <2>6 DEF promised, Halted, vars
  <2> QED
    BY <2>1, <2>2, <2>4, <2>5, <2>6 DEF Next
<1> QED
  BY <1>1, <1>2, Truth, PTL DEF Spec, KeepsPromise, Promise!Spec
=============================================================================
