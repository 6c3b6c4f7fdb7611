-------------------------- MODULE CheckpointingProofs --------------------------
(***************************************************************************)
(* Proofs about Checkpointing, for any number of pods, rounds, workers and *)
(* consumers.                                                              *)
(*                                                                         *)
(* The inductive invariant says of every record, wherever it is, what the  *)
(* properties ask of it: the lists, channels and local copies are          *)
(* sequences over the set of honest records.  A step then preserves the    *)
(* invariant for the reason it preserves types: it moves records about,    *)
(* and the few that change one keep it honest.                             *)
(***************************************************************************)
EXTENDS Checkpointing, SlicesProofs, FiniteSetTheorems, TLAPS

HonestRecords ==
    {m \in CheckpointEntry :
        /\ m.isCheckpoint => m.pod \in called
        /\ m.data # NoArchive => m.data = m.pod /\ m.pod \in archives}

\* What main and the consumers hold; the records that main has found in a test.
\* Of the flags in the pause list nothing is claimed: they may be on the entry
\* of another pod.
HonestAims == [index: Nat \ {0}, pod: called]

ListsHonest ==
    /\ pauseList \in Seq(PauseEntry)
    /\ cpList \in Seq(HonestRecords)
    /\ appendChan \in Seq(HonestRecords)
    /\ modifyChan \in Seq(HonestRecords)
    /\ mainPc \in {"loop", "take", "choose", "kill"}
    /\ aim \in Seq(HonestAims)
    /\ mainPc = "take" => Len(aim) = 1
    /\ victims \in SUBSET Pods
    /\ running \in [Pods -> {"up", "gone", "killed"}]
    /\ clock \in Time
    /\ archives \in SUBSET Pods
    /\ called \in SUBSET Pods

\* A round has as many workers as records, and none before it launches them.
RoundsHonest ==
    /\ roundPc \in [Rounds -> {"new", "select", "send", "wait", "returned"}]
    /\ pos \in [Rounds -> Nat \ {0}]
    /\ pauseArg \in [Rounds -> Seq(PauseEntry)]
    /\ cpArg \in [Rounds -> Seq(HonestRecords)]
    /\ picked \in [Rounds -> Seq(HonestRecords)]
    /\ err \in [Rounds -> BOOLEAN]
    /\ \A r \in Rounds : roundPc[r] = "send" => picked[r] # <<>>

WorkersHonest ==
    /\ workerPc \in [Workers -> {"none", "acquire", "announce", "call",
                                 "check", "report", "release", "done"}]
    /\ \A w \in Workers : workerPc[w] # "none" =>
          /\ roundPc[w[1]] = "wait"
          /\ w[2] \in 1 .. Len(picked[w[1]])
    /\ \A w \in Workers : workerPc[w] = "check" =>
          picked[w[1]][w[2]].pod \in called

\* Where a consumer has a message.
Handling == {"append", "write", "stats", "find", "flag"}

ConsumersHonest ==
    /\ consumerPc \in [Consumers -> {"off", "select", "append", "write",
                                     "stats", "find", "flag", "panicked"}]
    /\ inbox \in [Consumers -> Seq(HonestRecords)]
    /\ \A c \in Consumers : consumerPc[c] \in Handling => Len(inbox[c]) = 1
    /\ hits \in [Consumers -> SUBSET Nat]
    /\ seenLen \in [Consumers -> Nat]
    /\ recovers \in SUBSET Consumers

IInv ==
    /\ ListsHonest
    /\ RoundsHonest
    /\ WorkersHonest
    /\ ConsumersHonest

\* Nothing that the honest hold changes: a step of the environment.
LEMMA HonestSame ==
    ASSUME UNCHANGED <<archives, called>>
    PROVE  HonestRecords' = HonestRecords /\ HonestAims' = HonestAims
  BY DEF HonestRecords, HonestAims

(***************************************************************************)
(* The node                                                                *)
(***************************************************************************)

LEMMA TickKeeps ==
    ASSUME IInv, Tick
    PROVE  IInv'
<1> USE DEF lists, channels, removal, rounds, workers, consumers, node, Tick
<1>1. HonestRecords' = HonestRecords /\ HonestAims' = HonestAims
  BY HonestSame
<1>2. clock' \in Time
  BY ConstantsAssumption DEF IInv, ListsHonest, Time
<1>3. ListsHonest'
  BY <1>1, <1>2 DEF IInv, ListsHonest
<1>4. RoundsHonest'
  BY <1>1 DEF IInv, RoundsHonest
<1>5. WorkersHonest'
  BY <1>1 DEF IInv, WorkersHonest
<1>6. ConsumersHonest'
  BY <1>1 DEF IInv, ConsumersHonest
<1> QED
  BY <1>3, <1>4, <1>5, <1>6 DEF IInv

LEMMA ContainerEndsKeeps ==
    ASSUME IInv, NEW p \in Pods, ContainerEnds(p)
    PROVE  IInv'
<1> USE DEF lists, channels, removal, rounds, workers, consumers, node, ContainerEnds
<1>1. HonestRecords' = HonestRecords /\ HonestAims' = HonestAims
  BY HonestSame
<1>2. ListsHonest'
  BY <1>1 DEF IInv, ListsHonest
<1>3. RoundsHonest'
  BY <1>1 DEF IInv, RoundsHonest
<1>4. WorkersHonest'
  BY <1>1 DEF IInv, WorkersHonest
<1>5. ConsumersHonest'
  BY <1>1 DEF IInv, ConsumersHonest
<1> QED
  BY <1>2, <1>3, <1>4, <1>5 DEF IInv

LEMMA ContainerReturnsKeeps ==
    ASSUME IInv, NEW p \in Pods, ContainerReturns(p)
    PROVE  IInv'
<1> USE DEF lists, channels, removal, rounds, workers, consumers, node, ContainerReturns
<1>1. HonestRecords' = HonestRecords /\ HonestAims' = HonestAims
  BY HonestSame
<1>2. ListsHonest'
  BY <1>1 DEF IInv, ListsHonest
<1>3. RoundsHonest'
  BY <1>1 DEF IInv, RoundsHonest
<1>4. WorkersHonest'
  BY <1>1 DEF IInv, WorkersHonest
<1>5. ConsumersHonest'
  BY <1>1 DEF IInv, ConsumersHonest
<1> QED
  BY <1>2, <1>3, <1>4, <1>5 DEF IInv

(***************************************************************************)
(* The main goroutine                                                      *)
(***************************************************************************)

\* The entries of a candidate that is appended n times.
LEMMA RepeatedSeq ==
    ASSUME NEW S, NEW e \in S, NEW n \in Nat
    PROVE  [k \in 1 .. n |-> e] \in Seq(S)
  OBVIOUS

LEMMA ConcatSeq ==
    ASSUME NEW S, NEW a \in Seq(S), NEW b \in Seq(S)
    PROVE  a \o b \in Seq(S)
  OBVIOUS

LEMMA PauseKeeps ==
    ASSUME IInv, NEW p \in Pods, Pause(p)
    PROVE  IInv'
<1> USE DEF lists, channels, removal, rounds, workers, consumers, node, Pause
<1>1. HonestRecords' = HonestRecords /\ HonestAims' = HonestAims
  BY HonestSame
<1>2. pauseList' \in Seq(PauseEntry)
  <2>1. PICK n \in 1 .. PausedAtOnce :
          pauseList' = pauseList \o
            [k \in 1 .. n |-> [pod |-> p, timestamp |-> clock, isCheckpoint |-> FALSE]]
    OBVIOUS
  <2>2. [pod |-> p, timestamp |-> clock, isCheckpoint |-> FALSE] \in PauseEntry
    BY DEF IInv, ListsHonest, PauseEntry
  <2>3. n \in Nat
    BY ConstantsAssumption
  <2> DEFINE e == [pod |-> p, timestamp |-> clock, isCheckpoint |-> FALSE]
             new == [k \in 1 .. n |-> e]
  <2>4. new \in Seq(PauseEntry)
    BY <2>2, <2>3, RepeatedSeq
  <2>5. pauseList \in Seq(PauseEntry) /\ pauseList' = pauseList \o new
    BY <2>1 DEF IInv, ListsHonest
  <2> QED
    BY <2>4, <2>5, ConcatSeq
<1>3. ListsHonest'
  BY <1>1, <1>2 DEF IInv, ListsHonest
<1>4. RoundsHonest'
  BY <1>1 DEF IInv, RoundsHonest
<1>5. WorkersHonest'
  BY <1>1 DEF IInv, WorkersHonest
<1>6. ConsumersHonest'
  BY <1>1 DEF IInv, ConsumersHonest
<1> QED
  BY <1>3, <1>4, <1>5, <1>6 DEF IInv

LEMMA ContinueKeeps ==
    ASSUME IInv, Continue
    PROVE  IInv'
<1> USE DEF lists, channels, removal, rounds, workers, consumers, node, Continue
<1>1. HonestRecords' = HonestRecords /\ HonestAims' = HonestAims
  BY HonestSame
<1>2. pauseList' \in Seq(PauseEntry)
  BY RemnantsOfSeq DEF IInv, ListsHonest
<1>3. ListsHonest'
  BY <1>1, <1>2 DEF IInv, ListsHonest
<1>4. RoundsHonest'
  BY <1>1 DEF IInv, RoundsHonest
<1>5. WorkersHonest'
  BY <1>1 DEF IInv, WorkersHonest
<1>6. ConsumersHonest'
  BY <1>1 DEF IInv, ConsumersHonest
<1> QED
  BY <1>3, <1>4, <1>5, <1>6 DEF IInv

LEMMA StartConsumerKeeps ==
    ASSUME IInv, NEW c \in Consumers, StartConsumer(c)
    PROVE  IInv'
<1> USE DEF lists, channels, removal, rounds, workers, consumers, node, StartConsumer
<1>1. HonestRecords' = HonestRecords /\ HonestAims' = HonestAims
  BY HonestSame
<1>2. ListsHonest'
  BY <1>1 DEF IInv, ListsHonest
<1>3. RoundsHonest'
  BY <1>1 DEF IInv, RoundsHonest
<1>4. WorkersHonest'
  BY <1>1 DEF IInv, WorkersHonest
<1>5. ConsumersHonest'
  BY <1>1 DEF IInv, ConsumersHonest, Handling
<1> QED
  BY <1>2, <1>3, <1>4, <1>5 DEF IInv

LEMMA StartRoundKeeps ==
    ASSUME IInv, NEW r \in Rounds, StartRound(r)
    PROVE  IInv'
<1> USE DEF lists, channels, removal, rounds, workers, consumers, node, StartRound
<1>1. HonestRecords' = HonestRecords /\ HonestAims' = HonestAims
  BY HonestSame
<1>2. pauseList \in Seq(PauseEntry)
  BY DEF IInv, ListsHonest
<1>3. cpList \in Seq(HonestRecords)
  BY DEF IInv, ListsHonest
<1>4. \A w \in Workers : workerPc[w] # "none" => w[1] # r
  BY DEF IInv, WorkersHonest
<1>5. ListsHonest'
  BY <1>1 DEF IInv, ListsHonest
<1>6. RoundsHonest'
  BY <1>1, <1>2, <1>3 DEF IInv, RoundsHonest
<1>7. WorkersHonest'
  BY <1>1, <1>4 DEF IInv, WorkersHonest, RoundsHonest, Workers
<1>8. ConsumersHonest'
  BY <1>1 DEF IInv, ConsumersHonest
<1> QED
  BY <1>5, <1>6, <1>7, <1>8 DEF IInv

LEMMA TestRecordKeeps ==
    ASSUME IInv, NEW j \in DOMAIN cpList, TestRecord(j)
    PROVE  IInv'
<1> USE DEF lists, channels, removal, rounds, workers, consumers, node, TestRecord
<1>1. HonestRecords' = HonestRecords /\ HonestAims' = HonestAims
  BY HonestSame
<1>2. cpList[j] \in HonestRecords /\ j \in Nat \ {0}
  BY DEF IInv, ListsHonest
<1>3. cpList[j].pod \in called
  BY <1>2 DEF HonestRecords
<1>4. aim' \in Seq(HonestAims') /\ Len(aim') = 1
  BY <1>2, <1>3 DEF HonestAims
<1>5. ListsHonest'
  BY <1>1, <1>4 DEF IInv, ListsHonest
<1>6. RoundsHonest'
  BY <1>1 DEF IInv, RoundsHonest
<1>7. WorkersHonest'
  BY <1>1 DEF IInv, WorkersHonest
<1>8. ConsumersHonest'
  BY <1>1 DEF IInv, ConsumersHonest
<1> QED
  BY <1>5, <1>6, <1>7, <1>8 DEF IInv

LEMMA TakeRecordKeeps ==
    ASSUME IInv, TakeRecord
    PROVE  IInv'
<1> USE DEF lists, channels, removal, rounds, workers, consumers, node, TakeRecord
<1>1. HonestRecords' = HonestRecords /\ HonestAims' = HonestAims
  BY HonestSame
<1>2. pauseList' \in Seq(PauseEntry)
  BY RemnantsOfSeq DEF IInv, ListsHonest
<1>3. aim[1].pod \in Pods
  <2>1. aim \in Seq(HonestAims) /\ Len(aim) = 1
    BY DEF IInv, ListsHonest
  <2>2. aim[1] \in HonestAims
    BY <2>1
  <2> QED
    BY <2>2 DEF HonestAims, IInv, ListsHonest
<1>4. aim[1].index \in DOMAIN cpList => cpList[aim[1].index].pod \in Pods
  <2>1. \A i \in DOMAIN cpList : cpList[i] \in HonestRecords
    BY DEF IInv, ListsHonest
  <2> QED
    BY <2>1 DEF HonestRecords, CheckpointEntry
<1>5. victims' \in SUBSET Pods
  BY <1>3, <1>4 DEF IInv, ListsHonest
<1>6. aim' \in Seq(HonestAims')
  OBVIOUS
<1>7. ListsHonest'
  BY <1>1, <1>2, <1>5, <1>6 DEF IInv, ListsHonest
<1>8. RoundsHonest'
  BY <1>1 DEF IInv, RoundsHonest
<1>9. WorkersHonest'
  BY <1>1 DEF IInv, WorkersHonest
<1>10. ConsumersHonest'
  BY <1>1 DEF IInv, ConsumersHonest
<1> QED
  BY <1>7, <1>8, <1>9, <1>10 DEF IInv

LEMMA KillVictimKeeps ==
    ASSUME IInv, NEW p \in Pods, KillVictim(p)
    PROVE  IInv'
<1> USE DEF lists, channels, removal, rounds, workers, consumers, node, KillVictim
<1>1. HonestRecords' = HonestRecords /\ HonestAims' = HonestAims
  BY HonestSame
<1>2. ListsHonest'
  BY <1>1 DEF IInv, ListsHonest
<1>3. RoundsHonest'
  BY <1>1 DEF IInv, RoundsHonest
<1>4. WorkersHonest'
  BY <1>1 DEF IInv, WorkersHonest
<1>5. ConsumersHonest'
  BY <1>1 DEF IInv, ConsumersHonest
<1> QED
  BY <1>2, <1>3, <1>4, <1>5 DEF IInv

(***************************************************************************)
(* Rounds                                                                  *)
(***************************************************************************)

LEMMA SkipKeeps ==
    ASSUME IInv, NEW r \in Rounds, Skip(r)
    PROVE  IInv'
<1> USE DEF lists, channels, removal, rounds, workers, consumers, node, Skip
<1>1. HonestRecords' = HonestRecords /\ HonestAims' = HonestAims
  BY HonestSame
<1>2. ListsHonest'
  BY <1>1 DEF IInv, ListsHonest
<1>3. RoundsHonest'
  BY <1>1 DEF IInv, RoundsHonest
<1>4. WorkersHonest'
  BY <1>1 DEF IInv, WorkersHonest
<1>5. ConsumersHonest'
  BY <1>1 DEF IInv, ConsumersHonest
<1> QED
  BY <1>2, <1>3, <1>4, <1>5 DEF IInv

LEMMA RequestKeeps ==
    ASSUME IInv, NEW r \in Rounds, Request(r)
    PROVE  IInv'
<1> USE DEF lists, channels, removal, rounds, workers, consumers, node, Request
<1>1. HonestRecords' = HonestRecords /\ HonestAims' = HonestAims
  BY HonestSame
<1>2. \A ps \in Views(pauseArg[r], pauseList) : ps \in Seq(PauseEntry)
  <2>1. pauseList \in Seq(PauseEntry)
    BY DEF IInv, ListsHonest
  <2> QED
    BY <2>1, ViewsOfSeq DEF IInv, RoundsHonest
<1>3. PICK ps \in Views(pauseArg[r], pauseList) :
         /\ pos[r] \in DOMAIN ps
         /\ picked' = [picked EXCEPT ![r] = Append(@, NewRecord(ps[pos[r]].pod))]
  <2>1. PICK ps \in Views(pauseArg[r], pauseList),
             cs \in Views(cpArg[r], cpList) :
           /\ ~LoopEnds(r, ps, cs)
           /\ picked' = [picked EXCEPT ![r] =
                           Append(@, NewRecord(ps[pos[r]].pod))]
    OBVIOUS
  <2>2. pos[r] \in Nat \ {0} /\ ps \in Seq(PauseEntry)
    BY <1>2 DEF IInv, RoundsHonest
  <2>3. pos[r] <= Len(ps)
    BY <2>1, <2>2 DEF LoopEnds
  <2>4. pos[r] \in DOMAIN ps
    BY <2>2, <2>3
  <2> QED
    BY <2>1, <2>4
<1> DEFINE rec == NewRecord(ps[pos[r]].pod)
<1>4. rec \in HonestRecords
  <2>1. ps[pos[r]] \in PauseEntry
    BY <1>2, <1>3
  <2>2. ps[pos[r]].pod \in Pods
    BY <2>1 DEF PauseEntry
  <2> QED
    BY <2>2 DEF NewRecord, HonestRecords, CheckpointEntry, IInv, ListsHonest
<1> HIDE DEF rec
<1>5. Append(picked[r], rec) \in Seq(HonestRecords) \ {<<>>}
  <2>1. picked[r] \in Seq(HonestRecords)
    BY DEF IInv, RoundsHonest
  <2> QED
    BY <1>4, <2>1, AppendSeq
<1>6. /\ picked' \in [Rounds -> Seq(HonestRecords)]
      /\ picked'[r] # <<>>
      /\ \A q \in Rounds \ {r} : picked'[q] = picked[q]
  BY <1>3, <1>5 DEF IInv, RoundsHonest, rec
<1>7. \A w \in Workers : workerPc[w] # "none" => w[1] # r /\ w[1] \in Rounds
  BY DEF IInv, WorkersHonest, Workers
<1>8. ListsHonest'
  BY <1>1 DEF IInv, ListsHonest
<1>9. RoundsHonest'
  BY <1>1, <1>6 DEF IInv, RoundsHonest
<1>10. WorkersHonest'
  BY <1>1, <1>6, <1>7 DEF IInv, WorkersHonest, RoundsHonest
<1>11. ConsumersHonest'
  BY <1>1 DEF IInv, ConsumersHonest
<1> QED
  BY <1>8, <1>9, <1>10, <1>11 DEF IInv

LEMMA SendKeeps ==
    ASSUME IInv, NEW r \in Rounds, Send(r)
    PROVE  IInv'
<1> USE DEF lists, channels, removal, rounds, workers, consumers, node, Send
<1>1. HonestRecords' = HonestRecords /\ HonestAims' = HonestAims
  BY HonestSame
<1>2. picked[r][Len(picked[r])] \in HonestRecords
  BY DEF IInv, RoundsHonest
<1>3. \A w \in Workers : workerPc[w] # "none" => w[1] # r
  BY DEF IInv, WorkersHonest
<1>4. ListsHonest'
  BY <1>1, <1>2 DEF IInv, ListsHonest
<1>5. RoundsHonest'
  BY <1>1 DEF IInv, RoundsHonest
<1>6. WorkersHonest'
  BY <1>1, <1>3 DEF IInv, WorkersHonest, RoundsHonest, Workers
<1>7. ConsumersHonest'
  BY <1>1 DEF IInv, ConsumersHonest
<1> QED
  BY <1>4, <1>5, <1>6, <1>7 DEF IInv

LEMMA LaunchKeeps ==
    ASSUME IInv, NEW r \in Rounds, Launch(r)
    PROVE  IInv'
<1> USE DEF lists, channels, removal, rounds, workers, consumers, node, Launch
<1>1. HonestRecords' = HonestRecords /\ HonestAims' = HonestAims
  BY HonestSame
<1>2. \A w \in Workers : w[1] \in Rounds /\ w[2] \in 1 .. PickLimit
  BY DEF Workers
<1>3. ListsHonest'
  BY <1>1 DEF IInv, ListsHonest
<1>4. RoundsHonest'
  BY <1>1 DEF IInv, RoundsHonest
<1>5. WorkersHonest'
  BY <1>1, <1>2 DEF IInv, WorkersHonest, RoundsHonest
<1>6. ConsumersHonest'
  BY <1>1 DEF IInv, ConsumersHonest
<1> QED
  BY <1>3, <1>4, <1>5, <1>6 DEF IInv

LEMMA ReturnKeeps ==
    ASSUME IInv, NEW r \in Rounds, Return(r)
    PROVE  IInv'
<1> USE DEF lists, channels, removal, rounds, workers, consumers, node, Return
<1>1. HonestRecords' = HonestRecords /\ HonestAims' = HonestAims
  BY HonestSame
<1>2. \A w \in Workers : w[1] \in Rounds
  BY DEF Workers
<1>3. ListsHonest'
  BY <1>1 DEF IInv, ListsHonest
<1>4. RoundsHonest'
  BY <1>1 DEF IInv, RoundsHonest
<1>5. WorkersHonest'
  BY <1>1, <1>2 DEF IInv, WorkersHonest, RoundsHonest
<1>6. ConsumersHonest'
  BY <1>1 DEF IInv, ConsumersHonest
<1> QED
  BY <1>3, <1>4, <1>5, <1>6 DEF IInv

(***************************************************************************)
(* Workers                                                                 *)
(***************************************************************************)

\* A live worker has a record of its own, and only it changes that record.
LEMMA WorkerRecord ==
    ASSUME IInv, NEW w \in Workers, workerPc[w] # "none"
    PROVE  /\ w[1] \in Rounds
           /\ roundPc[w[1]] = "wait"
           /\ picked[w[1]] \in Seq(HonestRecords)
           /\ w[2] \in DOMAIN picked[w[1]]
           /\ picked[w[1]][w[2]] \in HonestRecords
<1>1. w[1] \in Rounds /\ picked \in [Rounds -> Seq(HonestRecords)]
  BY DEF IInv, RoundsHonest, Workers
<1>2. roundPc[w[1]] = "wait" /\ w[2] \in 1 .. Len(picked[w[1]])
  BY DEF IInv, WorkersHonest
<1> QED
  BY <1>1, <1>2

LEMMA WorkerWritesOwn ==
    ASSUME IInv, NEW w \in Workers, workerPc[w] # "none", NEW rec,
           picked' = [picked EXCEPT ![w[1]][w[2]] = rec]
    PROVE  /\ picked'[w[1]][w[2]] = rec
           /\ Len(picked'[w[1]]) = Len(picked[w[1]])
<1> DEFINE S == HonestRecords \cup {rec}
<1>1. picked[w[1]] \in Seq(S)
  BY WorkerRecord, SeqMonotonic
<1>2. w[2] \in DOMAIN picked[w[1]]
  BY WorkerRecord
<1>3. picked'[w[1]] = [picked[w[1]] EXCEPT ![w[2]] = rec]
  BY WorkerRecord DEF IInv, RoundsHonest
<1>4. rec \in S
  OBVIOUS
<1> HIDE DEF S
<1>5. Len([picked[w[1]] EXCEPT ![w[2]] = rec]) = Len(picked[w[1]])
  BY <1>1, <1>2, <1>4, ExceptSeq
<1> QED
  BY <1>1, <1>2, <1>3, <1>5

LEMMA WorkerWrites ==
    ASSUME IInv, NEW w \in Workers, workerPc[w] # "none",
           NEW S, HonestRecords \subseteq S, NEW rec \in S,
           picked' = [picked EXCEPT ![w[1]][w[2]] = rec]
    PROVE  /\ picked' \in [Rounds -> Seq(S)]
           /\ picked'[w[1]][w[2]] = rec
           /\ \A r \in Rounds : Len(picked'[r]) = Len(picked[r])
           /\ \A v \in Workers : v # w =>
                 picked'[v[1]][v[2]] = picked[v[1]][v[2]]
<1>1. picked \in [Rounds -> Seq(S)]
  BY SeqMonotonic DEF IInv, RoundsHonest
<1>2. w[1] \in Rounds /\ w[2] \in DOMAIN picked[w[1]]
  BY WorkerRecord
<1>3. picked' = [picked EXCEPT ![w[1]] = [picked[w[1]] EXCEPT ![w[2]] = rec]]
  OBVIOUS
<1>4. /\ [picked[w[1]] EXCEPT ![w[2]] = rec] \in Seq(S)
      /\ Len([picked[w[1]] EXCEPT ![w[2]] = rec]) = Len(picked[w[1]])
  BY <1>1, <1>2, ExceptSeq
<1>5. picked' \in [Rounds -> Seq(S)]
  BY <1>1, <1>3, <1>4
<1>6. picked'[w[1]][w[2]] = rec
  BY <1>1, <1>2, <1>3
<1>7. \A r \in Rounds : Len(picked'[r]) = Len(picked[r])
  BY <1>1, <1>2, <1>3, <1>4
<1>8. ASSUME NEW v \in Workers, v # w
      PROVE  picked'[v[1]][v[2]] = picked[v[1]][v[2]]
  <2>1. v[1] \in Rounds /\ (v[1] # w[1] \/ v[2] # w[2])
    BY <1>8 DEF Workers
  <2> QED
    BY <1>1, <1>2, <1>3, <2>1
<1> QED
  BY <1>5, <1>6, <1>7, <1>8

LEMMA AcquireKeeps ==
    ASSUME IInv, NEW w \in Workers, Acquire(w)
    PROVE  IInv'
<1> USE DEF lists, channels, removal, rounds, workers, consumers, node, Acquire, MoveWorker
<1>1. HonestRecords' = HonestRecords /\ HonestAims' = HonestAims
  BY HonestSame
<1>2. ListsHonest'
  BY <1>1 DEF IInv, ListsHonest
<1>3. RoundsHonest'
  BY <1>1 DEF IInv, RoundsHonest
<1>4. WorkersHonest'
  BY <1>1 DEF IInv, WorkersHonest
<1>5. ConsumersHonest'
  BY <1>1 DEF IInv, ConsumersHonest
<1> QED
  BY <1>2, <1>3, <1>4, <1>5 DEF IInv

LEMMA AnnounceKeeps ==
    ASSUME IInv, NEW w \in Workers, Announce(w)
    PROVE  IInv'
<1> USE DEF lists, channels, removal, rounds, workers, consumers, node
<1>1. HonestRecords' = HonestRecords /\ HonestAims' = HonestAims
  BY HonestSame DEF Announce
<1> DEFINE rec == [picked[w[1]][w[2]] EXCEPT !.during = TRUE]
<1>2. workerPc[w] = "announce" /\ workerPc' = [workerPc EXCEPT ![w] = "call"]
  BY DEF Announce, MoveWorker
<1>3. rec \in HonestRecords
  BY <1>2, WorkerRecord DEF HonestRecords, CheckpointEntry
<1>4. picked' = [picked EXCEPT ![w[1]][w[2]] = rec]
  BY DEF Announce
<1> HIDE DEF rec
<1>5. /\ picked' \in [Rounds -> Seq(HonestRecords)]
      /\ picked'[w[1]][w[2]] = rec
      /\ \A r \in Rounds : Len(picked'[r]) = Len(picked[r])
      /\ \A v \in Workers : v # w =>
            picked'[v[1]][v[2]] = picked[v[1]][v[2]]
  BY <1>2, <1>3, <1>4, WorkerWrites
<1>6. ListsHonest'
  <2>1. modifyChan' \in Seq(HonestRecords)
    <3>1. modifyChan' = Append(modifyChan, rec)
      BY <1>5 DEF Announce
    <3> QED
      BY <1>3, <3>1, AppendSeq DEF IInv, ListsHonest
  <2> QED
    BY <1>1, <2>1 DEF Announce, IInv, ListsHonest
<1>7. RoundsHonest'
  <2>1. \A r \in Rounds : roundPc[r] = "send" => picked'[r] # <<>>
    BY <1>5 DEF IInv, RoundsHonest
  <2> QED
    BY <1>1, <1>5, <2>1 DEF Announce, IInv, RoundsHonest
<1>8. WorkersHonest'
  <2>1. \A v \in Workers : v[1] \in Rounds
    BY DEF Workers
  <2> QED
    BY <1>2, <1>5, <2>1 DEF Announce, IInv, WorkersHonest
<1>9. ConsumersHonest'
  BY <1>1 DEF Announce, IInv, ConsumersHonest
<1> QED
  BY <1>6, <1>7, <1>8, <1>9 DEF IInv

\* The call returns: its pod enters called, and archives if it succeeded, so
\* that what was honest stays so.
LEMMA CallKeeps ==
    ASSUME IInv, NEW w \in Workers, Call(w)
    PROVE  IInv'
<1> USE DEF lists, channels, removal, rounds, workers, consumers, node
<1> DEFINE p == picked[w[1]][w[2]].pod
<1>1. /\ workerPc[w] = "call"
      /\ workerPc' = [workerPc EXCEPT ![w] = "check"]
      /\ called' = called \cup {p}
      /\ archives' = archives \cup {p} \/ archives' = archives
  BY DEF Call, MoveWorker
<1>2. picked[w[1]][w[2]] \in HonestRecords
  BY <1>1, WorkerRecord
<1>3. p \in Pods
  BY <1>2 DEF HonestRecords, CheckpointEntry
<1>4. HonestRecords \subseteq HonestRecords' /\ HonestAims \subseteq HonestAims'
  BY <1>1 DEF HonestRecords, HonestAims
<1>5. /\ Seq(HonestRecords) \subseteq Seq(HonestRecords')
      /\ Seq(HonestAims) \subseteq Seq(HonestAims')
  BY <1>4, SeqMonotonic
<1>6. /\ picked' \in [Rounds -> Seq(HonestRecords')]
      /\ picked'[w[1]][w[2]].pod = p
      /\ \A r \in Rounds : Len(picked'[r]) = Len(picked[r])
      /\ \A v \in Workers : v # w =>
            picked'[v[1]][v[2]] = picked[v[1]][v[2]]
  <2>1. CASE /\ picked' = [picked EXCEPT ![w[1]][w[2]].data = p]
             /\ archives' = archives \cup {p}
    <3> DEFINE rec == [picked[w[1]][w[2]] EXCEPT !.data = p]
    <3>1. rec \in HonestRecords' /\ rec.pod = p
      BY <1>1, <1>2, <1>3, <2>1 DEF HonestRecords, CheckpointEntry
    <3>2. picked' = [picked EXCEPT ![w[1]][w[2]] = rec]
      BY <2>1
    <3> HIDE DEF rec, p
    <3> QED
      BY <1>1, <1>4, <3>1, <3>2, WorkerWrites
  <2>2. CASE UNCHANGED picked
    BY <1>5, <2>2 DEF IInv, RoundsHonest
  <2> QED
    BY <2>1, <2>2 DEF Call
<1> HIDE DEF p
<1>7. ListsHonest'
  BY <1>1, <1>3, <1>5 DEF Call, IInv, ListsHonest
<1>8. RoundsHonest'
  <2>1. \A r \in Rounds : roundPc[r] = "send" => picked'[r] # <<>>
    BY <1>6 DEF IInv, RoundsHonest
  <2>2. err' \in [Rounds -> BOOLEAN]
    BY DEF Call, IInv, RoundsHonest
  <2> QED
    BY <1>5, <1>6, <2>1, <2>2 DEF Call, IInv, RoundsHonest
<1>9. WorkersHonest'
  <2>1. \A v \in Workers : v[1] \in Rounds
    BY DEF Workers
  <2>2. \A v \in Workers : workerPc'[v] = "check" =>
          picked'[v[1]][v[2]].pod \in called'
    BY <1>1, <1>6 DEF IInv, WorkersHonest
  <2> QED
    BY <1>1, <1>6, <2>1, <2>2 DEF Call, IInv, WorkersHonest
<1>10. ConsumersHonest'
  BY <1>5 DEF Call, IInv, ConsumersHonest
<1> QED
  BY <1>7, <1>8, <1>9, <1>10 DEF IInv

\* The outcome is filled in: a claim needs the pod to be in called, which the
\* worker's own call has seen to.
LEMMA CheckKeeps ==
    ASSUME IInv, NEW w \in Workers, Check(w)
    PROVE  IInv'
<1> USE DEF lists, channels, removal, rounds, workers, consumers, node
<1>1. HonestRecords' = HonestRecords /\ HonestAims' = HonestAims
  BY HonestSame DEF Check
<1> DEFINE rec == [picked[w[1]][w[2]] EXCEPT !.during = FALSE,
                                             !.isCheckpoint = ~err[w[1]]]
<1>2. workerPc[w] = "check" /\ workerPc' = [workerPc EXCEPT ![w] = "report"]
  BY DEF Check, MoveWorker
<1>3. rec \in HonestRecords
  <2>1. picked[w[1]][w[2]].pod \in called
    BY <1>2 DEF IInv, WorkersHonest
  <2>2. err[w[1]] \in BOOLEAN
    BY <1>2, WorkerRecord DEF IInv, RoundsHonest
  <2>3. picked[w[1]][w[2]] \in HonestRecords
    BY <1>2, WorkerRecord
  <2> QED
    BY <2>1, <2>2, <2>3 DEF HonestRecords, CheckpointEntry
<1>4. picked' = [picked EXCEPT ![w[1]][w[2]] = rec]
  BY DEF Check
<1> HIDE DEF rec
<1>5. /\ picked' \in [Rounds -> Seq(HonestRecords)]
      /\ picked'[w[1]][w[2]] = rec
      /\ \A r \in Rounds : Len(picked'[r]) = Len(picked[r])
      /\ \A v \in Workers : v # w =>
            picked'[v[1]][v[2]] = picked[v[1]][v[2]]
  BY <1>2, <1>3, <1>4, WorkerWrites
<1>6. ListsHonest'
  BY <1>1 DEF Check, IInv, ListsHonest
<1>7. RoundsHonest'
  <2>1. \A r \in Rounds : roundPc[r] = "send" => picked'[r] # <<>>
    BY <1>5 DEF IInv, RoundsHonest
  <2> QED
    BY <1>1, <1>5, <2>1 DEF Check, IInv, RoundsHonest
<1>8. WorkersHonest'
  <2>1. \A v \in Workers : v[1] \in Rounds
    BY DEF Workers
  <2> QED
    BY <1>2, <1>5, <2>1 DEF Check, IInv, WorkersHonest
<1>9. ConsumersHonest'
  BY <1>1 DEF Check, IInv, ConsumersHonest
<1> QED
  BY <1>6, <1>7, <1>8, <1>9 DEF IInv

LEMMA ReportKeeps ==
    ASSUME IInv, NEW w \in Workers, Report(w)
    PROVE  IInv'
<1> USE DEF lists, channels, removal, rounds, workers, consumers, node, Report, MoveWorker
<1>1. HonestRecords' = HonestRecords /\ HonestAims' = HonestAims
  BY HonestSame
<1>2. picked[w[1]][w[2]] \in HonestRecords
  BY WorkerRecord
<1>3. ListsHonest'
  BY <1>1, <1>2 DEF IInv, ListsHonest
<1>4. RoundsHonest'
  BY <1>1 DEF IInv, RoundsHonest
<1>5. WorkersHonest'
  BY <1>1 DEF IInv, WorkersHonest
<1>6. ConsumersHonest'
  BY <1>1 DEF IInv, ConsumersHonest
<1> QED
  BY <1>3, <1>4, <1>5, <1>6 DEF IInv

LEMMA ReleaseKeeps ==
    ASSUME IInv, NEW w \in Workers, Release(w)
    PROVE  IInv'
<1> USE DEF lists, channels, removal, rounds, workers, consumers, node, Release, MoveWorker
<1>1. HonestRecords' = HonestRecords /\ HonestAims' = HonestAims
  BY HonestSame
<1>2. ListsHonest'
  BY <1>1 DEF IInv, ListsHonest
<1>3. RoundsHonest'
  BY <1>1 DEF IInv, RoundsHonest
<1>4. WorkersHonest'
  BY <1>1 DEF IInv, WorkersHonest
<1>5. ConsumersHonest'
  BY <1>1 DEF IInv, ConsumersHonest
<1> QED
  BY <1>2, <1>3, <1>4, <1>5 DEF IInv

(***************************************************************************)
(* Consumers                                                               *)
(***************************************************************************)

\* What a consumer's step has to leave in its own variables.
LEMMA ConsumerMoves ==
    ASSUME IInv, NEW c \in Consumers,
           HonestRecords' = HonestRecords,
           NEW pc \in {"off", "select", "append", "write", "stats", "find",
                       "flag", "panicked"},
           NEW box \in Seq(HonestRecords), NEW at \in SUBSET Nat, NEW n \in Nat,
           pc \in Handling => Len(box) = 1,
           consumerPc' = [consumerPc EXCEPT ![c] = pc],
           inbox' = [inbox EXCEPT ![c] = box],
           hits' = [hits EXCEPT ![c] = at],
           seenLen' = [seenLen EXCEPT ![c] = n],
           recovers' \in SUBSET Consumers
    PROVE  ConsumersHonest'
  BY DEF IInv, ConsumersHonest, Handling

LEMMA ConsumerFinishes ==
    ASSUME IInv, NEW c \in Consumers, NEW from,
           HonestRecords' = HonestRecords,
           Finish(c, from) \/ Panic(c, from),
           recovers' = recovers
    PROVE  ConsumersHonest'
<1>1. PICK pc \in {"off", "select", "panicked"} :
        consumerPc' = [consumerPc EXCEPT ![c] = pc]
  BY DEF Finish, Panic, MoveConsumer
<1>2. /\ inbox' = [inbox EXCEPT ![c] = <<>>]
      /\ hits' = [hits EXCEPT ![c] = {}]
      /\ seenLen' = [seenLen EXCEPT ![c] = 0]
  BY DEF Finish, Panic
<1>3. recovers' \in SUBSET Consumers
  BY DEF IInv, ConsumersHonest
<1>4. <<>> \in Seq(HonestRecords)
  OBVIOUS
<1> QED
  BY <1>1, <1>2, <1>3, <1>4, ConsumerMoves DEF Handling

\* A consumer's variables as ConsumerMoves wants them.
LEMMA ConsumerTypes ==
    ASSUME IInv, NEW c \in Consumers
    PROVE  /\ inbox[c] \in Seq(HonestRecords)
           /\ hits[c] \in SUBSET Nat
           /\ seenLen[c] \in Nat
           /\ recovers \in SUBSET Consumers
           /\ inbox = [inbox EXCEPT ![c] = inbox[c]]
           /\ hits = [hits EXCEPT ![c] = hits[c]]
           /\ seenLen = [seenLen EXCEPT ![c] = seenLen[c]]
           /\ consumerPc[c] \in Handling =>
                 Len(inbox[c]) = 1 /\ inbox[c][1] \in HonestRecords
  BY DEF IInv, ConsumersHonest

LEMMA TakeAppendKeeps ==
    ASSUME IInv, NEW c \in Consumers, TakeAppend(c)
    PROVE  IInv'
<1> USE DEF lists, channels, removal, rounds, workers, consumers, node, TakeAppend, MoveConsumer, Finish, Panic
<1>1. HonestRecords' = HonestRecords /\ HonestAims' = HonestAims
  BY HonestSame
<1>2. /\ Head(appendChan) \in HonestRecords
      /\ Tail(appendChan) \in Seq(HonestRecords)
  BY DEF IInv, ListsHonest
<1>3. DOMAIN cpList \subseteq Nat /\ Len(cpList) \in Nat
  BY DEF IInv, ListsHonest
<1>4. /\ <<Head(appendChan)>> \in Seq(HonestRecords)
      /\ Len(<<Head(appendChan)>>) = 1
  BY <1>2
<1>5. ListsHonest'
  BY <1>1, <1>2 DEF IInv, ListsHonest
<1>6. RoundsHonest'
  BY <1>1 DEF IInv, RoundsHonest
<1>7. WorkersHonest'
  BY <1>1 DEF IInv, WorkersHonest
<1>8. ConsumersHonest'
  <2>1. CASE consumerPc' = [consumerPc EXCEPT ![c] = "append"]
    <3>1. /\ inbox' = [inbox EXCEPT ![c] = <<Head(appendChan)>>]
          /\ seenLen' = [seenLen EXCEPT ![c] = Len(cpList)]
          /\ UNCHANGED hits
      BY <2>1, ConsumerTypes DEF IInv, ConsumersHonest
    <3> QED
      BY <1>1, <1>3, <1>4, <2>1, <3>1, ConsumerTypes, ConsumerMoves
  <2>2. CASE consumerPc' = [consumerPc EXCEPT ![c] = "write"]
    <3>1. /\ inbox' = [inbox EXCEPT ![c] = <<Head(appendChan)>>]
          /\ UNCHANGED seenLen
      BY <2>2, ConsumerTypes DEF IInv, ConsumersHonest
    <3>2. PICK at \in SUBSET Nat : hits' = [hits EXCEPT ![c] = at]
      BY <1>3, <2>2, ConsumerTypes DEF IInv, ConsumersHonest, IndicesOf
    <3> QED
      BY <1>1, <1>4, <2>2, <3>1, <3>2, ConsumerTypes, ConsumerMoves
  <2>3. CASE UNCHANGED <<consumerPc, inbox, hits, seenLen>>
    BY <1>1, <2>3 DEF IInv, ConsumersHonest
  <2> QED
    BY <2>1, <2>2, <2>3
<1> QED
  BY <1>5, <1>6, <1>7, <1>8 DEF IInv

LEMMA WriteAppendKeeps ==
    ASSUME IInv, NEW c \in Consumers, WriteAppend(c)
    PROVE  IInv'
<1> USE DEF lists, channels, removal, rounds, workers, consumers, node, WriteAppend
<1>1. HonestRecords' = HonestRecords /\ HonestAims' = HonestAims
  BY HonestSame
<1>2. inbox[c][1] \in HonestRecords
  BY ConsumerTypes DEF Handling, Finish, MoveConsumer
<1>3. cpList' \in Seq(HonestRecords)
  BY <1>2 DEF IInv, ListsHonest, ConsumersHonest
<1>4. ListsHonest'
  BY <1>1, <1>3 DEF IInv, ListsHonest
<1>5. RoundsHonest'
  BY <1>1 DEF IInv, RoundsHonest
<1>6. WorkersHonest'
  BY <1>1 DEF IInv, WorkersHonest
<1>7. ConsumersHonest'
  <2>1. Finish(c, "append") /\ recovers' = recovers
    OBVIOUS
  <2> QED
    BY <1>1, <2>1, ConsumerFinishes
<1> QED
  BY <1>4, <1>5, <1>6, <1>7 DEF IInv

LEMMA TakeModifyKeeps ==
    ASSUME IInv, NEW c \in Consumers, TakeModify(c)
    PROVE  IInv'
<1> USE DEF lists, channels, removal, rounds, workers, consumers, node, TakeModify, MoveConsumer, Finish, Panic
<1>1. HonestRecords' = HonestRecords /\ HonestAims' = HonestAims
  BY HonestSame
<1>2. /\ Head(modifyChan) \in HonestRecords
      /\ Tail(modifyChan) \in Seq(HonestRecords)
  BY DEF IInv, ListsHonest
<1>3. DOMAIN cpList \subseteq Nat
  BY DEF IInv, ListsHonest
<1>4. /\ <<Head(modifyChan)>> \in Seq(HonestRecords)
      /\ Len(<<Head(modifyChan)>>) = 1
  BY <1>2
<1>5. ListsHonest'
  BY <1>1, <1>2 DEF IInv, ListsHonest
<1>6. RoundsHonest'
  BY <1>1 DEF IInv, RoundsHonest
<1>7. WorkersHonest'
  BY <1>1 DEF IInv, WorkersHonest
<1>8. ConsumersHonest'
  <2>1. recovers' \in SUBSET Consumers
    BY ConsumerTypes
  <2>2. CASE UNCHANGED <<consumerPc, inbox, hits>>
    BY <1>1, <2>1, <2>2 DEF IInv, ConsumersHonest
  <2>3. CASE \E i \in DOMAIN cpList :
                /\ MoveConsumer(c, "select", "write")
                /\ inbox' = [inbox EXCEPT ![c] = <<Head(modifyChan)>>]
                /\ hits' = [hits EXCEPT ![c] = {i}]
    <3>1. PICK i \in DOMAIN cpList : hits' = [hits EXCEPT ![c] = {i}]
      BY <2>3
    <3>2. {i} \in SUBSET Nat
      BY <1>3
    <3> QED
      <4>1. /\ consumerPc' = [consumerPc EXCEPT ![c] = "write"]
            /\ inbox' = [inbox EXCEPT ![c] = <<Head(modifyChan)>>]
            /\ seenLen' = [seenLen EXCEPT ![c] = seenLen[c]]
            /\ seenLen[c] \in Nat
        BY <2>3, ConsumerTypes DEF MoveConsumer
      <4> QED
        BY <1>1, <1>4, <2>1, <3>1, <3>2, <4>1, ConsumerMoves
  <2> QED
    BY <2>2, <2>3
<1> QED
  BY <1>5, <1>6, <1>7, <1>8 DEF IInv

LEMMA WriteKeeps ==
    ASSUME IInv, NEW c \in Consumers, Write(c)
    PROVE  IInv'
<1> USE DEF lists, channels, removal, rounds, workers, consumers, node, Write
<1>1. HonestRecords' = HonestRecords /\ HonestAims' = HonestAims
  BY HonestSame
<1>2. inbox[c][1] \in HonestRecords
  BY ConsumerTypes DEF Handling
<1>3. cpList' \in Seq(HonestRecords)
  BY <1>2, OverwriteSeq DEF IInv, ListsHonest
<1>4. ListsHonest'
  BY <1>1, <1>3 DEF IInv, ListsHonest
<1>5. RoundsHonest'
  BY <1>1 DEF IInv, RoundsHonest
<1>6. WorkersHonest'
  BY <1>1 DEF IInv, WorkersHonest
<1>7. ConsumersHonest'
  <2>1. CASE Finish(c, "write") \/ Panic(c, "write")
    BY <1>1, <2>1, ConsumerFinishes
  <2>2. CASE /\ inbox[c][1].isCheckpoint
             /\ MoveConsumer(c, "write", "stats")
             /\ UNCHANGED <<inbox, hits, seenLen>>
    <3>1. /\ consumerPc' = [consumerPc EXCEPT ![c] = "stats"]
          /\ inbox' = [inbox EXCEPT ![c] = inbox[c]]
          /\ hits' = [hits EXCEPT ![c] = hits[c]]
          /\ seenLen' = [seenLen EXCEPT ![c] = seenLen[c]]
          /\ recovers' = recovers
      BY <2>2, ConsumerTypes DEF MoveConsumer
    <3>2. Len(inbox[c]) = 1
      BY ConsumerTypes DEF Handling
    <3>3. /\ inbox[c] \in Seq(HonestRecords)
          /\ hits[c] \in SUBSET Nat
          /\ seenLen[c] \in Nat
          /\ recovers' \in SUBSET Consumers
      BY <3>1, ConsumerTypes
    <3>4. inbox[c][1].isCheckpoint
      BY <2>2
    <3> QED
      BY <1>1, <3>1, <3>2, <3>3, <3>4, ConsumerMoves
  <2> QED
    BY <2>1, <2>2
<1> QED
  BY <1>4, <1>5, <1>6, <1>7 DEF IInv

LEMMA AbortKeeps ==
    ASSUME IInv, NEW c \in Consumers, Abort(c)
    PROVE  IInv'
<1> USE DEF lists, channels, removal, rounds, workers, consumers, node, Abort
<1>1. HonestRecords' = HonestRecords /\ HonestAims' = HonestAims
  BY HonestSame
<1>2. cpList' \in Seq(HonestRecords)
  BY RemoveAtSeq DEF IInv, ListsHonest
<1>3. ListsHonest'
  BY <1>1, <1>2 DEF IInv, ListsHonest
<1>4. RoundsHonest'
  BY <1>1 DEF IInv, RoundsHonest
<1>5. WorkersHonest'
  BY <1>1 DEF IInv, WorkersHonest
<1>6. ConsumersHonest'
  <2>1. Finish(c, "stats") \/ Panic(c, "stats")
    OBVIOUS
  <2> QED
    BY <1>1, <2>1, ConsumerFinishes
<1> QED
  BY <1>3, <1>4, <1>5, <1>6 DEF IInv

LEMMA CompleteKeeps ==
    ASSUME IInv, NEW c \in Consumers, Complete(c)
    PROVE  IInv'
<1> USE DEF lists, channels, removal, rounds, workers, consumers, node, Complete
<1>1. HonestRecords' = HonestRecords /\ HonestAims' = HonestAims
  BY HonestSame
<1>2. ListsHonest'
  BY <1>1 DEF IInv, ListsHonest
<1>3. RoundsHonest'
  BY <1>1 DEF IInv, RoundsHonest
<1>4. WorkersHonest'
  BY <1>1 DEF IInv, WorkersHonest
<1>5. ConsumersHonest'
  <2>1. CASE Panic(c, "stats")
    BY <1>1, <2>1, ConsumerFinishes
  <2>2. CASE /\ MoveConsumer(c, "stats", "find")
             /\ hits' = [hits EXCEPT ![c] = {}]
             /\ UNCHANGED <<inbox, seenLen>>
    <3>1. /\ consumerPc' = [consumerPc EXCEPT ![c] = "find"]
          /\ inbox' = [inbox EXCEPT ![c] = inbox[c]]
          /\ seenLen' = [seenLen EXCEPT ![c] = seenLen[c]]
          /\ recovers' \in SUBSET Consumers
      BY <2>2, ConsumerTypes DEF MoveConsumer
    <3>2. inbox[c] \in Seq(HonestRecords) /\ Len(inbox[c]) = 1 /\ seenLen[c] \in Nat
      BY ConsumerTypes DEF Handling
    <3> QED
      BY <1>1, <2>2, <3>1, <3>2, ConsumerMoves
  <2> QED
    BY <2>1, <2>2
<1> QED
  BY <1>2, <1>3, <1>4, <1>5 DEF IInv

LEMMA FindPausedKeeps ==
    ASSUME IInv, NEW c \in Consumers, FindPaused(c)
    PROVE  IInv'
<1> USE DEF lists, channels, removal, rounds, workers, consumers, node, FindPaused
<1>1. HonestRecords' = HonestRecords /\ HonestAims' = HonestAims
  BY HonestSame
<1>2. ListsHonest'
  BY <1>1 DEF IInv, ListsHonest
<1>3. RoundsHonest'
  BY <1>1 DEF IInv, RoundsHonest
<1>4. WorkersHonest'
  BY <1>1 DEF IInv, WorkersHonest
<1>5. ConsumersHonest'
  <2>1. CASE Finish(c, "find")
    BY <1>1, <2>1, ConsumerFinishes
  <2>2. CASE ~Finish(c, "find")
    <3>1. PICK j \in IndicesOf(pauseList, inbox[c][1].pod) :
             /\ MoveConsumer(c, "find", "flag")
             /\ hits' = [hits EXCEPT ![c] = {j}]
             /\ UNCHANGED <<inbox, seenLen>>
      BY <2>2
    <3>2. {j} \in SUBSET Nat
      BY DEF IndicesOf, IInv, ListsHonest
    <3>3. /\ consumerPc' = [consumerPc EXCEPT ![c] = "flag"]
          /\ consumerPc[c] = "find"
          /\ inbox' = [inbox EXCEPT ![c] = inbox[c]]
          /\ seenLen' = [seenLen EXCEPT ![c] = seenLen[c]]
          /\ recovers' \in SUBSET Consumers
      BY <3>1, ConsumerTypes DEF MoveConsumer
    <3>4. inbox[c] \in Seq(HonestRecords) /\ Len(inbox[c]) = 1 /\ seenLen[c] \in Nat
      BY <3>3, ConsumerTypes DEF Handling
    <3> QED
      BY <1>1, <3>1, <3>2, <3>3, <3>4, ConsumerMoves
  <2> QED
    BY <2>1, <2>2
<1> QED
  BY <1>2, <1>3, <1>4, <1>5 DEF IInv

\* The flag goes to some entry of the pause list, and to no record.
LEMMA FlagPausedKeeps ==
    ASSUME IInv, NEW c \in Consumers, FlagPaused(c)
    PROVE  IInv'
<1> USE DEF lists, channels, removal, rounds, workers, consumers, node, FlagPaused
<1>1. HonestRecords' = HonestRecords /\ HonestAims' = HonestAims
  BY HonestSame
<1>2. pauseList' \in Seq(PauseEntry)
  <2>1. CASE UNCHANGED pauseList
    BY <2>1 DEF IInv, ListsHonest
  <2>2. CASE \E j \in DOMAIN pauseList :
                pauseList' = [pauseList EXCEPT ![j].isCheckpoint = TRUE]
    <3>1. PICK j \in DOMAIN pauseList :
             pauseList' = [pauseList EXCEPT ![j] =
                               [pauseList[j] EXCEPT !.isCheckpoint = TRUE]]
      BY <2>2
    <3>2. pauseList \in Seq(PauseEntry) /\ pauseList[j] \in PauseEntry
      BY DEF IInv, ListsHonest
    <3>3. [pauseList[j] EXCEPT !.isCheckpoint = TRUE] \in PauseEntry
      BY <3>2 DEF PauseEntry
    <3> QED
      BY <3>1, <3>2, <3>3, ExceptSeq
  <2> QED
    BY <2>1, <2>2
<1>3. ListsHonest'
  BY <1>1, <1>2 DEF IInv, ListsHonest
<1>4. RoundsHonest'
  BY <1>1 DEF IInv, RoundsHonest
<1>5. WorkersHonest'
  BY <1>1 DEF IInv, WorkersHonest
<1>6. ConsumersHonest'
  <2>1. Finish(c, "flag") \/ Panic(c, "flag")
    OBVIOUS
  <2> QED
    BY <1>1, <2>1, ConsumerFinishes
<1> QED
  BY <1>3, <1>4, <1>5, <1>6 DEF IInv

(***************************************************************************)
(* The invariant and what follows from it                                  *)
(***************************************************************************)

LEMMA InitHonest ==
    ASSUME Init
    PROVE  IInv
<1>1. ListsHonest
  BY ConstantsAssumption DEF Init, ListsHonest, Time
<1>2. RoundsHonest
  BY DEF Init, RoundsHonest
<1>3. WorkersHonest
  BY DEF Init, WorkersHonest
<1>4. ConsumersHonest
  BY DEF Init, ConsumersHonest, Handling
<1> QED
  BY <1>1, <1>2, <1>3, <1>4 DEF IInv

LEMMA StutterKeeps ==
    ASSUME IInv, UNCHANGED vars
    PROVE  IInv'
<1> USE DEF vars, lists, channels, removal, rounds, workers, consumers, node
<1>1. HonestRecords' = HonestRecords /\ HonestAims' = HonestAims
  BY HonestSame
<1>2. ListsHonest'
  BY <1>1 DEF IInv, ListsHonest
<1>3. RoundsHonest'
  BY <1>1 DEF IInv, RoundsHonest
<1>4. WorkersHonest'
  BY <1>1 DEF IInv, WorkersHonest
<1>5. ConsumersHonest'
  BY <1>1 DEF IInv, ConsumersHonest
<1> QED
  BY <1>2, <1>3, <1>4, <1>5 DEF IInv

LEMMA NextKeeps ==
    ASSUME IInv, [Next]_vars
    PROVE  IInv'
<1>1. CASE MainStep
  BY <1>1, PauseKeeps, KillVictimKeeps, StartConsumerKeeps, StartRoundKeeps,
     ContinueKeeps, TestRecordKeeps, TakeRecordKeeps
     DEF MainStep
<1>2. CASE \E r \in Rounds : RoundStep(r)
  BY <1>2, SkipKeeps, RequestKeeps, SendKeeps, LaunchKeeps, ReturnKeeps
     DEF RoundStep
<1>3. CASE \E w \in Workers : WorkerStep(w)
  BY <1>3, AcquireKeeps, AnnounceKeeps, CallKeeps, CheckKeeps, ReportKeeps,
     ReleaseKeeps DEF WorkerStep, GoStep
<1>4. CASE \E c \in Consumers : ConsumerStep(c)
  BY <1>4, TakeAppendKeeps, WriteAppendKeeps, TakeModifyKeeps, WriteKeeps,
     AbortKeeps, CompleteKeeps, FindPausedKeeps, FlagPausedKeeps DEF ConsumerStep
<1>5. CASE NodeStep
  BY <1>5, TickKeeps, ContainerEndsKeeps, ContainerReturnsKeeps DEF NodeStep
<1>6. CASE UNCHANGED vars
  BY <1>6, StutterKeeps
<1> QED
  BY <1>1, <1>2, <1>3, <1>4, <1>5, <1>6 DEF Next, Halted

\* Every record, in a list, in a channel or in a goroutine, is honest.
THEOREM Honesty == Spec => []IInv
<1>1. Init => IInv
  BY InitHonest
<1>2. IInv /\ [Next]_vars => IInv'
  BY NextKeeps
<1> QED
  BY <1>1, <1>2, PTL DEF Spec

LEMMA ElementsOfSeq ==
    ASSUME NEW S, NEW list \in Seq(S)
    PROVE  ToSet(list) \subseteq S
  BY DEF ToSet

LEMMA RecordsHonest ==
    ASSUME IInv
    PROVE  Records \subseteq HonestRecords
<1>1. /\ ToSet(cpList) \subseteq HonestRecords
      /\ ToSet(appendChan) \subseteq HonestRecords
      /\ ToSet(modifyChan) \subseteq HonestRecords
  BY ElementsOfSeq DEF IInv, ListsHonest
<1>2. \A r \in Rounds : /\ ToSet(picked[r]) \subseteq HonestRecords
                         /\ ToSet(cpArg[r]) \subseteq HonestRecords
  BY ElementsOfSeq DEF IInv, RoundsHonest
<1>3. \A c \in Consumers : ToSet(inbox[c]) \subseteq HonestRecords
  BY ElementsOfSeq DEF IInv, ConsumersHonest
<1>4. UNION {ToSet(picked[r]) \cup ToSet(cpArg[r]) : r \in Rounds}
        \subseteq HonestRecords
  BY <1>2
<1>5. UNION {ToSet(inbox[c]) : c \in Consumers} \subseteq HonestRecords
  BY <1>3
<1> QED
  BY <1>1, <1>4, <1>5 DEF Records

\* However the reports of overlapping rounds cross, no copy of a record claims a
\* checkpoint, and main tests none that does, before a call for its pod has
\* returned.
THEOREM ClaimsNeedCalls == Spec => []ClaimNeedsCall
<1>1. IInv => ClaimNeedsCall
  <2> SUFFICES ASSUME IInv
               PROVE  ClaimNeedsCall
    OBVIOUS
  <2>1. \A m \in Records : m.isCheckpoint => m.pod \in called
    BY RecordsHonest DEF HonestRecords
  <2>2. \A k \in DOMAIN aim : aim[k] \in HonestAims
    BY DEF IInv, ListsHonest
  <2> QED
    BY <2>1, <2>2 DEF ClaimNeedsCall, HonestAims
<1> QED
  BY <1>1, Honesty, PTL

\* No interleaving of workers and consumers attaches the archive of one pod to
\* the record of another.
THEOREM ArchivesOfOwnPods == Spec => []ArchiveOfOwnPod
<1>1. IInv => ArchiveOfOwnPod
  BY RecordsHonest DEF ArchiveOfOwnPod, HonestRecords
<1> QED
  BY <1>1, Honesty, PTL

(***************************************************************************)
(* The semaphore                                                           *)
(***************************************************************************)

LEMMA HoldersFinite == IsFiniteSet(Holders)
<1>1. IsFiniteSet(1 .. PickLimit)
  BY FS_Interval, ConstantsAssumption
<1>2. IsFiniteSet(Workers)
  BY <1>1, FS_Product, ConstantsAssumption DEF Workers
<1>3. Holders \in SUBSET Workers
  BY DEF Holders
<1> QED
  BY <1>2, <1>3, FS_Subset

LEMMA SemaphoreStep ==
    ASSUME IInv, SemaphoreHeld, [Next]_vars
    PROVE  SemaphoreHeld'
<1> USE DEF lists, channels, removal, rounds, workers, consumers, node
<1>1. ASSUME NEW w \in Workers, Acquire(w)
      PROVE  SemaphoreHeld'
  <2>1. w \notin Holders /\ Holders' = Holders \cup {w}
    BY <1>1 DEF Acquire, MoveWorker, Holders, IInv, WorkersHonest
  <2>2. Cardinality(Holders') = Cardinality(Holders) + 1
    BY <2>1, HoldersFinite, FS_AddElement
  <2>3. Cardinality(Holders) \in Nat
    BY HoldersFinite, FS_CardinalityType
  <2>4. semaphore' = semaphore + 1 /\ semaphore < SemaphoreCap
    BY <1>1 DEF Acquire
  <2> QED
    BY <2>2, <2>3, <2>4, ConstantsAssumption DEF SemaphoreHeld
<1>2. ASSUME NEW w \in Workers, Release(w)
      PROVE  SemaphoreHeld'
  <2>1. w \in Holders /\ Holders' = Holders \ {w}
    BY <1>2 DEF Release, MoveWorker, Holders, IInv, WorkersHonest
  <2>2. Cardinality(Holders') = Cardinality(Holders) - 1
    BY <2>1, HoldersFinite, FS_RemoveElement
  <2>3. Cardinality(Holders) \in Nat
    BY HoldersFinite, FS_CardinalityType
  <2>4. semaphore' = semaphore - 1
    BY <1>2 DEF Release
  <2> QED
    BY <2>2, <2>3, <2>4, ConstantsAssumption DEF SemaphoreHeld
<1>3. ASSUME Holders' = Holders, semaphore' = semaphore
      PROVE  SemaphoreHeld'
  BY <1>3 DEF SemaphoreHeld
<1>4. ASSUME NEW w \in Workers, Announce(w) \/ Call(w) \/ Check(w) \/ Report(w)
      PROVE  SemaphoreHeld'
  <2>1. Holders' = Holders
    BY <1>4 DEF Announce, Call, Check, Report, MoveWorker, Holders, IInv,
       WorkersHonest
  <2> QED
    BY <1>3, <1>4, <2>1 DEF Announce, Call, Check, Report
<1>5. ASSUME NEW r \in Rounds, Launch(r)
      PROVE  SemaphoreHeld'
  <2>1. \A w \in Workers : w[1] = r => workerPc[w] = "none"
    BY <1>5 DEF Launch, IInv, WorkersHonest
  <2>2. Holders' = Holders
    BY <1>5, <2>1 DEF Launch, Holders
  <2> QED
    BY <1>3, <1>5, <2>2 DEF Launch
<1>6. ASSUME NEW r \in Rounds, Return(r)
      PROVE  SemaphoreHeld'
  <2>1. Holders' = Holders
    BY <1>6 DEF Return, Holders
  <2> QED
    BY <1>3, <1>6, <2>1 DEF Return
<1>7. ASSUME UNCHANGED <<workerPc, semaphore>>
      PROVE  SemaphoreHeld'
  BY <1>3, <1>7 DEF Holders
<1>8. CASE MainStep
  BY <1>7, <1>8 DEF MainStep, Pause, KillVictim, StartConsumer, StartRound,
     Continue, TestRecord, TakeRecord
<1>9. CASE \E r \in Rounds : RoundStep(r)
  <2>1. ASSUME NEW r \in Rounds, Skip(r) \/ Request(r) \/ Send(r)
        PROVE  SemaphoreHeld'
    BY <1>7, <2>1 DEF Skip, Request, Send
  <2> QED
    BY <1>5, <1>6, <1>9, <2>1 DEF RoundStep
<1>10. CASE \E w \in Workers : WorkerStep(w)
  BY <1>1, <1>2, <1>4, <1>10 DEF WorkerStep, GoStep
<1>11. CASE \E c \in Consumers : ConsumerStep(c)
  BY <1>7, <1>11 DEF ConsumerStep, TakeAppend, WriteAppend, TakeModify, Write,
     Abort, Complete, FindPaused, FlagPaused
<1>12. CASE NodeStep
  BY <1>7, <1>12 DEF NodeStep, Tick, ContainerEnds, ContainerReturns
<1>13. CASE UNCHANGED vars
  BY <1>7, <1>13 DEF vars
<1> QED
  BY <1>8, <1>9, <1>10, <1>11, <1>12, <1>13 DEF Next, Halted

\* Over all rounds together, at most SemaphoreCap checkpoints are in progress,
\* and every token in the semaphore is some worker's.
THEOREM SemaphoreBound == Spec => []SemaphoreHeld
<1>1. Init => SemaphoreHeld
  <2> SUFFICES ASSUME Init
               PROVE  SemaphoreHeld
    OBVIOUS
  <2>1. Holders = {}
    BY DEF Init, Holders
  <2> QED
    BY <2>1, FS_EmptySet, ConstantsAssumption DEF Init, SemaphoreHeld
<1>2. IInv /\ SemaphoreHeld /\ [Next]_vars => SemaphoreHeld'
  BY SemaphoreStep
<1> QED
  BY <1>1, <1>2, Honesty, PTL DEF Spec

\* Types, for any values of the constants.
THEOREM TypeCorrect == Spec => []TypeOK
<1>1. IInv /\ SemaphoreHeld => TypeOK
  <2> SUFFICES ASSUME IInv, SemaphoreHeld
               PROVE  TypeOK
    OBVIOUS
  <2>1. semaphore \in Nat
    BY HoldersFinite, FS_CardinalityType DEF SemaphoreHeld
  <2>2. /\ Seq(HonestRecords) \subseteq Seq(CheckpointEntry)
        /\ Seq(HonestAims) \subseteq Seq(Aim)
    <3>1. HonestRecords \subseteq CheckpointEntry
      BY DEF HonestRecords
    <3>2. HonestAims \subseteq Aim
      BY DEF HonestAims, Aim, IInv, ListsHonest
    <3> QED
      BY <3>1, <3>2, SeqMonotonic
  <2> QED
    BY <2>1, <2>2 DEF IInv, ListsHonest, RoundsHonest, WorkersHonest,
       ConsumersHonest, TypeOK
<1> QED
  BY <1>1, Honesty, SemaphoreBound, PTL

(***************************************************************************)
(* The shared err                                                          *)
(***************************************************************************)

\* What a worker that is alone in its round finds in err is its own: no archive
\* before the call, and after it one exactly if err says so.
LoneTruth(r) ==
    Len(picked[r]) = 1 =>
        /\ workerPc[<<r, 1>>] \in {"none", "acquire", "announce", "call"} =>
              picked[r][1].data = NoArchive
        /\ workerPc[<<r, 1>>] = "check" =>
              (err[r] <=> picked[r][1].data = NoArchive)
        /\ workerPc[<<r, 1>>] \in {"report", "release", "done"} =>
              (picked[r][1].isCheckpoint <=> picked[r][1].data # NoArchive)

LoneInv == \A r \in Rounds : LoneTruth(r)

\* The worker that takes a step in a round with one record is worker 1.
LEMMA LoneWorker ==
    ASSUME IInv, NEW w \in Workers, workerPc[w] # "none",
           Len(picked[w[1]]) = 1
    PROVE  w = <<w[1], 1>>
<1>1. w[2] = 1
  BY WorkerRecord
<1> QED
  BY <1>1 DEF Workers

\* A step that leaves a round's records, err and first worker alone, or moves
\* the worker without leaving its part of the way.
BeforeCall == {"none", "acquire", "announce", "call"}
AfterCheck == {"report", "release", "done"}

LEMMA LoneSame ==
    ASSUME NEW r, LoneTruth(r),
           picked'[r] = picked[r], err'[r] = err[r],
           \/ workerPc'[<<r, 1>>] = workerPc[<<r, 1>>]
           \/ {workerPc[<<r, 1>>], workerPc'[<<r, 1>>]} \subseteq BeforeCall
           \/ {workerPc[<<r, 1>>], workerPc'[<<r, 1>>]} \subseteq AfterCheck
    PROVE  LoneTruth(r)'
  BY DEF LoneTruth, BeforeCall, AfterCheck

\* A worker's step leaves the other rounds alone.
LEMMA LoneOthers ==
    ASSUME IInv, LoneInv, NEW w \in Workers, WorkerStep(w),
           NEW r \in Rounds, r # w[1]
    PROVE  LoneTruth(r)'
<1> USE DEF lists, channels, removal, rounds, workers, consumers, node, MoveWorker
<1>1. picked'[r] = picked[r] /\ err'[r] = err[r]
  BY DEF WorkerStep, GoStep, Acquire, Announce, Call, Check, Report, Release, IInv,
     RoundsHonest
<1>2. <<r, 1>> # w
  OBVIOUS
<1>3. workerPc'[<<r, 1>>] = workerPc[<<r, 1>>]
  <2>1. \E to : workerPc' = [workerPc EXCEPT ![w] = to]
    BY DEF WorkerStep, GoStep, Acquire, Announce, Call, Check, Report, Release
  <2>2. DOMAIN workerPc = Workers
    BY DEF IInv, WorkersHonest
  <2> QED
    BY <1>2, <2>1, <2>2
<1> QED
  BY <1>1, <1>3, LoneSame DEF LoneInv

LEMMA LoneOwn ==
    ASSUME IInv, LoneInv, NEW w \in Workers, WorkerStep(w)
    PROVE  LoneTruth(w[1])'
<1> USE DEF lists, channels, removal, rounds, workers, consumers, node, MoveWorker
<1> DEFINE r == w[1]
           rec == picked[r][w[2]]
<1>1. workerPc[w] # "none"
  BY DEF WorkerStep, GoStep, Acquire, Announce, Call, Check, Report, Release
<1>2. r \in Rounds /\ picked[r] \in Seq(HonestRecords) /\ LoneTruth(r)
  BY <1>1, WorkerRecord DEF LoneInv
<1>3. /\ picked \in [Rounds -> Seq(HonestRecords)]
      /\ err \in [Rounds -> BOOLEAN]
      /\ DOMAIN workerPc = Workers
  BY DEF IInv, RoundsHonest, WorkersHonest
<1>4. Len(picked'[r]) = Len(picked[r])
  <2>1. picked' = picked \/ \E v : picked' = [picked EXCEPT ![w[1]][w[2]] = v]
    BY DEF WorkerStep, GoStep, Acquire, Announce, Call, Check, Report, Release
  <2> QED
    BY <1>1, <2>1, WorkerWritesOwn
<1>5. SUFFICES ASSUME Len(picked[r]) = 1
               PROVE  LoneTruth(r)'
  BY <1>4 DEF LoneTruth
<1>6. w = <<r, 1>> /\ w[2] = 1
  BY <1>1, <1>5, LoneWorker
<1>7. CASE Acquire(w) \/ Report(w) \/ Release(w)
  <2>1. picked' = picked /\ err' = err
    BY <1>7 DEF Acquire, Report, Release
  <2>2. \/ {workerPc[w], workerPc'[w]} \subseteq BeforeCall
        \/ {workerPc[w], workerPc'[w]} \subseteq AfterCheck
    BY <1>3, <1>7 DEF Acquire, Report, Release, BeforeCall, AfterCheck
  <2> QED
    BY <1>2, <1>6, <2>1, <2>2, LoneSame
<1>8. CASE Announce(w)
  <2>1. workerPc[w] = "announce" /\ workerPc'[w] = "call"
    BY <1>3, <1>8 DEF Announce
  <2>2. picked'[r][1] = [picked[r][1] EXCEPT !.during = TRUE]
    <3> DEFINE new == [picked[w[1]][w[2]] EXCEPT !.during = TRUE]
    <3>1. picked' = [picked EXCEPT ![w[1]][w[2]] = new]
      BY <1>8 DEF Announce
    <3>2. new = [picked[r][1] EXCEPT !.during = TRUE]
      BY <1>6
    <3> HIDE DEF new
    <3>3. picked'[w[1]][w[2]] = new
      BY <1>1, <3>1, WorkerWritesOwn
    <3> QED
      BY <1>6, <3>2, <3>3
  <2>3. picked[r][1] \in HonestRecords
    BY <1>1, <1>6, WorkerRecord
  <2>4. /\ picked'[r][1].isCheckpoint = picked[r][1].isCheckpoint
        /\ picked'[r][1].data = picked[r][1].data
    BY <2>2, <2>3 DEF HonestRecords, CheckpointEntry
  <2> QED
    BY <1>2, <1>5, <1>6, <2>1, <2>4 DEF LoneTruth
<1>9. CASE Call(w)
  <2>1. picked[r][1] \in HonestRecords
    BY <1>1, <1>6, WorkerRecord
  <2>2. workerPc[w] = "call" /\ workerPc'[w] = "check"
    BY <1>3, <1>9 DEF Call
  <2>3. picked[r][1].data = NoArchive
    BY <1>2, <1>5, <1>6, <2>2 DEF LoneTruth
  <2>4. CASE picked' = picked /\ err'[r]
    BY <1>6, <2>2, <2>3, <2>4 DEF LoneTruth
  <2>5. CASE /\ picked' = [picked EXCEPT ![r][1].data = picked[r][1].pod]
             /\ ~err'[r]
    <3>1. picked'[r][1] = [picked[r][1] EXCEPT !.data = picked[r][1].pod]
      BY <1>2, <1>3, <1>5, <2>5
    <3>2. picked'[r][1].data # NoArchive
      BY <2>1, <3>1, ConstantsAssumption DEF HonestRecords, CheckpointEntry
    <3> QED
      BY <1>6, <2>2, <2>5, <3>2 DEF LoneTruth
  <2>6. \/ picked' = picked /\ err'[r]
        \/ /\ picked' = [picked EXCEPT ![r][1].data = picked[r][1].pod]
           /\ ~err'[r]
    BY <1>2, <1>3, <1>6, <1>9 DEF Call
  <2> QED
    BY <2>4, <2>5, <2>6
<1>10. CASE Check(w)
  <2>1. picked[r][1] \in HonestRecords
    BY <1>1, <1>6, WorkerRecord
  <2>2. picked'[r][1] = [picked[r][1] EXCEPT !.during = FALSE,
                                             !.isCheckpoint = ~err[r]]
    <3> DEFINE new == [picked[w[1]][w[2]] EXCEPT !.during = FALSE,
                                                 !.isCheckpoint = ~err[w[1]]]
    <3>1. picked' = [picked EXCEPT ![w[1]][w[2]] = new]
      BY <1>10 DEF Check
    <3>2. new = [picked[r][1] EXCEPT !.during = FALSE,
                                     !.isCheckpoint = ~err[r]]
      BY <1>6
    <3> HIDE DEF new
    <3>3. picked'[w[1]][w[2]] = new
      BY <1>1, <3>1, WorkerWritesOwn
    <3> QED
      BY <1>6, <3>2, <3>3
  <2>3. /\ picked'[r][1].isCheckpoint = ~err[r]
        /\ picked'[r][1].data = picked[r][1].data
    BY <2>1, <2>2 DEF HonestRecords, CheckpointEntry
  <2>4. workerPc[w] = "check" /\ workerPc'[w] = "report"
    BY <1>3, <1>10 DEF Check
  <2> QED
    BY <1>2, <1>3, <1>5, <1>6, <2>3, <2>4 DEF LoneTruth
<1> QED
  BY <1>7, <1>8, <1>9, <1>10 DEF WorkerStep, GoStep

LEMMA LoneRound ==
    ASSUME IInv, LoneInv, NEW q \in Rounds, RoundStep(q), NEW r \in Rounds
    PROVE  LoneTruth(r)'
<1> USE DEF lists, channels, removal, rounds, workers, consumers, node
<1>1. LoneTruth(r) /\ DOMAIN workerPc = Workers /\ <<r, 1>> \in Workers
  BY ConstantsAssumption DEF LoneInv, IInv, WorkersHonest, Workers
<1>2. CASE Skip(q) \/ Send(q)
  BY <1>1, <1>2, LoneSame DEF Skip, Send
<1>3. CASE Launch(q)
  <2>1. workerPc[<<r, 1>>] # "none" => roundPc[r] = "wait"
    BY <1>1 DEF IInv, WorkersHonest
  <2>2. \/ workerPc'[<<r, 1>>] = workerPc[<<r, 1>>]
        \/ {workerPc[<<r, 1>>], workerPc'[<<r, 1>>]} \subseteq BeforeCall
    BY <1>1, <1>3, <2>1 DEF Launch, BeforeCall
  <2>3. picked'[r] = picked[r] /\ err'[r] = err[r]
    BY <1>3 DEF Launch
  <2> QED
    BY <1>1, <2>2, <2>3, LoneSame
<1>4. CASE Return(q)
  <2>1. CASE r = q
    <3>1. picked'[r] = <<>>
      BY <1>4, <2>1 DEF Return, IInv, RoundsHonest
    <3> QED
      BY <3>1 DEF LoneTruth
  <2>2. CASE r # q
    <3>1. picked'[r] = picked[r] /\ err'[r] = err[r]
      BY <1>4, <2>2 DEF Return, IInv, RoundsHonest
    <3>2. workerPc'[<<r, 1>>] = workerPc[<<r, 1>>]
      BY <1>1, <1>4, <2>2 DEF Return
    <3> QED
      BY <1>1, <3>1, <3>2, LoneSame
  <2> QED
    BY <2>1, <2>2
<1>5. CASE Request(q)
  <2>1. PICK p : picked' = [picked EXCEPT ![q] = Append(@, NewRecord(p))]
    BY <1>5 DEF Request
  <2>2. picked \in [Rounds -> Seq(HonestRecords)]
    BY DEF IInv, RoundsHonest
  <2>3. CASE r # q
    BY <1>1, <1>5, <2>1, <2>2, <2>3, LoneSame DEF Request
  <2>4. CASE r = q /\ Len(picked'[r]) = 1
    <3>1. picked[r] = <<>>
      BY <2>1, <2>2, <2>4
    <3>2. picked'[r][1] = NewRecord(p)
      BY <2>1, <2>2, <2>4, <3>1
    <3>3. picked'[r][1].data = NoArchive
      BY <3>2 DEF NewRecord
    <3>4. workerPc'[<<r, 1>>] = "none"
      BY <1>1, <1>5, <2>4 DEF Request, IInv, WorkersHonest
    <3> QED
      BY <3>3, <3>4 DEF LoneTruth
  <2> QED
    BY <2>3, <2>4 DEF LoneTruth
<1> QED
  BY <1>2, <1>3, <1>4, <1>5 DEF RoundStep

\* A worker that is alone in its round reports exactly what its own call
\* returned, a success as a checkpoint and a failure as none: only the other
\* workers of the same round can spoil a report.
THEOREM LoneReportsTrue == Spec => []LoneWorkerReportsTruth
<1>1. Init => LoneInv
  BY DEF Init, LoneInv, LoneTruth
<1>2. IInv /\ LoneInv /\ [Next]_vars => LoneInv'
  <2> SUFFICES ASSUME IInv, LoneInv, [Next]_vars, NEW r \in Rounds
               PROVE  LoneTruth(r)'
    BY DEF LoneInv
  <2> USE DEF lists, channels, removal, rounds, workers, consumers, node
  <2>1. CASE UNCHANGED <<picked, err, workerPc>>
    BY <2>1, LoneSame DEF LoneInv
  <2>2. CASE MainStep
    BY <2>1, <2>2 DEF MainStep, Pause, KillVictim, StartConsumer, StartRound,
       Continue, TestRecord, TakeRecord
  <2>3. CASE \E q \in Rounds : RoundStep(q)
    BY <2>3, LoneRound
  <2>4. CASE \E w \in Workers : WorkerStep(w)
    BY <2>4, LoneOwn, LoneOthers
  <2>5. CASE \E c \in Consumers : ConsumerStep(c)
    BY <2>1, <2>5 DEF ConsumerStep, TakeAppend, WriteAppend, TakeModify, Write,
       Abort, Complete, FindPaused, FlagPaused
  <2>6. CASE NodeStep
    BY <2>1, <2>6 DEF NodeStep, Tick, ContainerEnds, ContainerReturns
  <2>7. CASE UNCHANGED vars
    BY <2>1, <2>7 DEF vars
  <2> QED
    BY <2>2, <2>3, <2>4, <2>5, <2>6, <2>7 DEF Next, Halted
<1>3. LoneInv => LoneWorkerReportsTruth
  BY DEF LoneInv, LoneTruth, LoneWorkerReportsTruth
<1> QED
  BY <1>1, <1>2, <1>3, Honesty, PTL DEF Spec
=============================================================================
