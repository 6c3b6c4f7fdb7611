---------------------------- MODULE Checkpointing ----------------------------
(***************************************************************************)
(* The checkpoint pipeline of the controller.                              *)
(*                                                                         *)
(* Every iteration of the main loop starts one DecisionCheckpoint          *)
(* goroutine (here: a round) and one more goroutine that serves the        *)
(* append and modify channels (here: a consumer), and never stops either.  *)
(* A round walks the pause list, asks for at most PickLimit checkpoints    *)
(* and runs one worker for each of them; a semaphore shared by all rounds  *)
(* bounds the kubelet calls.  The workers report on the modify channel and *)
(* the consumers fold the reports into checkpointContainerList, which the  *)
(* main goroutine reads when it decides which containers to kill.          *)
(*                                                                         *)
(* No lock protects the lists.  Each read or write of a list is a step of  *)
(* its own, and a goroutine that was handed a slice reads either the       *)
(* contents at the hand-over or the present ones (see Views).              *)
(***************************************************************************)
EXTENDS Integers, Sequences, FiniteSets, SequencesExt, Slices

CONSTANTS
    Pods,          \* pod names; one container per pod, as the code assumes
    NoArchive,     \* CheckpointData of a record without a checkpoint
    Rounds,        \* bound: the DecisionCheckpoint calls of a run
    Consumers,     \* bound: consumer goroutines alive at once
    PausedAtOnce,  \* bound: how often a pod is a candidate in one list
    PickLimit,     \* the literal 2 of DecisionCheckpoint
    SemaphoreCap,  \* capacity of the semaphore channel, 2 in main
    ChanCap,       \* capacity of the result channels, 100 in main
    Recheckpoint,  \* RECHECKPOINT_THRESHOLD
    Mortal,        \* bound: pods whose containers end by themselves
    MaxVictims,    \* bound: containers chosen in one phase of a removal
    MaxClock       \* bound: the last value of the clock

ASSUME ConstantsAssumption ==
    /\ NoArchive \notin Pods
    /\ IsFiniteSet(Rounds)
    /\ PausedAtOnce \in Nat
    /\ PickLimit \in Nat \ {0}
    /\ SemaphoreCap \in Nat
    /\ ChanCap \in Nat
    /\ Recheckpoint \in Nat
    /\ Mortal \subseteq Pods
    /\ MaxVictims \in Nat
    /\ MaxClock \in Nat

VARIABLES
    \* lists and channels of main
    pauseList,     \* pauseContainerList
    cpList,        \* checkpointContainerList
    appendChan,    \* appendCheckpointContainerToChan
    modifyChan,    \* modifyCheckpointContainerToChan
    semaphore,     \* number of tokens in the semaphore channel
    mainPc,        \* where main is with its removal of containers
    aim,           \* the record it has just tested, a sequence of length 0 or 1
    victims,       \* removeCandidateContainerList, chosen and not yet killed
    \* rounds and their workers
    roundPc,       \* where each round is
    pos,           \* index of the range loop over the pause list
    pauseArg,      \* the pause list the round was handed
    cpArg,         \* the checkpoint list the round was handed
    picked,        \* updateCandidateList; element k is worker k's record
    err,           \* the variable err shared by the workers of a round
    workerPc,      \* where each worker is
    \* consumers
    consumerPc,    \* where each consumer is
    inbox,         \* the message being handled, a sequence of length 0 or 1
    hits,          \* indices of cpList the message will be written to, or
                   \* the one of pauseList that will be flagged
    seenLen,       \* length of cpList when the message was taken
    recovers,      \* consumers with a deferred recover()
    \* the node
    clock,
    running,       \* what the runtime knows of each pod's container
    archives,      \* pods of which the kubelet has written an archive
    called         \* history: pods of which a checkpoint call has returned

lists == <<pauseList, cpList>>
channels == <<appendChan, modifyChan>>
removal == <<mainPc, aim, victims>>
rounds == <<roundPc, pos, pauseArg, cpArg>>
workers == <<picked, err, workerPc>>
consumers == <<consumerPc, inbox, hits, seenLen, recovers>>
node == <<running, archives, called>>
vars == <<lists, channels, semaphore, removal, rounds, workers, consumers,
          clock, node>>

(***************************************************************************)
(* Types                                                                   *)
(***************************************************************************)

Time == 0 .. MaxClock
Workers == Rounds \X (1 .. PickLimit)

PauseEntry == [pod: Pods, timestamp: Time, isCheckpoint: BOOLEAN]

CheckpointEntry == [pod: Pods, timestamp: Time, during: BOOLEAN,
                    isCheckpoint: BOOLEAN, data: Pods \cup {NoArchive}]

\* A record of cpList as main saw it: its index, and the pod it was of.
Aim == [index: Nat \ {0}, pod: Pods]

TypeOK ==
    /\ pauseList \in Seq(PauseEntry)
    /\ cpList \in Seq(CheckpointEntry)
    /\ appendChan \in Seq(CheckpointEntry)
    /\ modifyChan \in Seq(CheckpointEntry)
    /\ semaphore \in Nat
    /\ mainPc \in {"loop", "take", "choose", "kill"}
    /\ aim \in Seq(Aim)
    /\ victims \in SUBSET Pods
    /\ roundPc \in [Rounds -> {"new", "select", "send", "wait", "returned"}]
    /\ pos \in [Rounds -> Nat \ {0}]
    /\ pauseArg \in [Rounds -> Seq(PauseEntry)]
    /\ cpArg \in [Rounds -> Seq(CheckpointEntry)]
    /\ picked \in [Rounds -> Seq(CheckpointEntry)]
    /\ err \in [Rounds -> BOOLEAN]
    /\ workerPc \in [Workers -> {"none", "acquire", "announce", "call",
                                 "check", "report", "release", "done"}]
    /\ consumerPc \in [Consumers -> {"off", "select", "append", "write",
                                     "stats", "find", "flag", "panicked"}]
    /\ inbox \in [Consumers -> Seq(CheckpointEntry)]
    /\ hits \in [Consumers -> SUBSET Nat]
    /\ seenLen \in [Consumers -> Nat]
    /\ recovers \in SUBSET Consumers
    /\ clock \in Time
    /\ running \in [Pods -> {"up", "gone", "killed"}]
    /\ archives \in SUBSET Pods
    /\ called \in SUBSET Pods

Init ==
    /\ pauseList = <<>>
    /\ cpList = <<>>
    /\ appendChan = <<>>
    /\ modifyChan = <<>>
    /\ semaphore = 0
    /\ mainPc = "loop"
    /\ aim = <<>>
    /\ victims = {}
    /\ roundPc = [r \in Rounds |-> "new"]
    /\ pos = [r \in Rounds |-> 1]
    /\ pauseArg = [r \in Rounds |-> <<>>]
    /\ cpArg = [r \in Rounds |-> <<>>]
    /\ picked = [r \in Rounds |-> <<>>]
    /\ err = [r \in Rounds |-> FALSE]
    /\ workerPc = [w \in Workers |-> "none"]
    /\ consumerPc = [c \in Consumers |-> "off"]
    /\ inbox = [c \in Consumers |-> <<>>]
    /\ hits = [c \in Consumers |-> {}]
    /\ seenLen = [c \in Consumers |-> 0]
    /\ recovers = {}
    /\ clock = 0
    /\ running = [p \in Pods |-> "up"]
    /\ archives = {}
    /\ called = {}

\* A panic that no goroutine recovered has ended the program.
Crashed == \E c \in Consumers : consumerPc[c] = "panicked"

(***************************************************************************)
(* The main goroutine                                                      *)
(***************************************************************************)

\* DecisionScaleUp pauses a left-over candidate that CheckToPauseContainer lets
\* through, whatever has become of its container; a pod that is a candidate
\* several times passes the test as often before it is appended.
Pause(p) ==
    /\ ~Crashed
    /\ mainPc = "loop"
    /\ IndicesOf(pauseList, p) = {}
    /\ \E n \in 1 .. PausedAtOnce :
          pauseList' = pauseList \o
            [k \in 1 .. n |-> [pod |-> p, timestamp |-> clock, isCheckpoint |-> FALSE]]
    /\ UNCHANGED <<cpList, channels, semaphore, removal, rounds, workers,
                   consumers, clock, node>>

\* DecisionScaleUp lets paused containers continue: their entries go, in the
\* way the deletion loop deletes.
Continue ==
    /\ ~Crashed
    /\ mainPc = "loop"
    /\ pauseList' \in Remnants(pauseList) \ {pauseList}
    /\ UNCHANGED <<cpList, channels, semaphore, removal, rounds, workers,
                   consumers, clock, node>>

\* The two go statements of an iteration.  Consumers are never stopped: one is
\* started when the bound allows another.
StartConsumer(c) ==
    /\ ~Crashed
    /\ mainPc = "loop"
    /\ consumerPc[c] = "off"
    /\ consumerPc' = [consumerPc EXCEPT ![c] = "select"]
    /\ recovers' = recovers \ {c}
    /\ UNCHANGED <<lists, channels, semaphore, removal, rounds, workers,
                   inbox, hits, seenLen, clock, node>>

StartRound(r) ==
    /\ ~Crashed
    /\ mainPc = "loop"
    /\ roundPc[r] = "new"
    /\ roundPc' = [roundPc EXCEPT ![r] = "select"]
    /\ pauseArg' = [pauseArg EXCEPT ![r] = pauseList]
    /\ cpArg' = [cpArg EXCEPT ![r] = cpList]
    /\ UNCHANGED <<lists, channels, semaphore, removal, pos, workers,
                   consumers, clock, node>>

\* DecisionRemoveContainer tests a record of the checkpoint list: it has a
\* checkpoint, and its pod is paused or the checkpoint is recent (the phases and
\* what else they ask of it, memory use and priority, are in Removing) ...
TestRecord(j) ==
    /\ ~Crashed
    /\ mainPc \in {"loop", "choose"}
    /\ Cardinality(victims) < MaxVictims
    /\ j \in DOMAIN cpList
    /\ cpList[j].isCheckpoint
    /\ \/ IndicesOf(pauseList, cpList[j].pod) # {}
       \/ clock < cpList[j].timestamp + Recheckpoint
    /\ mainPc' = "take"
    /\ aim' = <<[index |-> j, pod |-> cpList[j].pod]>>
    /\ UNCHANGED <<lists, channels, semaphore, victims, rounds, workers,
                   consumers, clock, node>>

\* ... and then appends the record at its index to the candidates for removal.
\* A consumer that deletes a record meanwhile moves another one there, unless
\* main looks at the array of before.  Entries of the pause list are deleted
\* with it or, in the first two phases, with the last of them.
TakeRecord ==
    /\ ~Crashed
    /\ mainPc = "take"
    /\ mainPc' = "choose"
    /\ aim' = <<>>
    /\ \/ victims' = victims \cup {aim[1].pod}
       \/ /\ aim[1].index \in DOMAIN cpList
          /\ victims' = victims \cup {cpList[aim[1].index].pod}
    /\ pauseList' \in Remnants(pauseList)
    /\ UNCHANGED <<cpList, channels, semaphore, rounds, workers, consumers,
                   clock, node>>

\* RemoveContainer runs a shell command for each candidate in turn; it finds
\* nothing to kill, or fails, without the controller noticing.
KillVictim(p) ==
    /\ ~Crashed
    /\ mainPc \in {"choose", "kill"}
    /\ p \in victims
    /\ victims' = victims \ {p}
    /\ mainPc' = IF victims' = {} THEN "loop" ELSE "kill"
    /\ \/ /\ running[p] = "up"
          /\ running' = [running EXCEPT ![p] = "killed"]
       \/ UNCHANGED running
    /\ UNCHANGED <<lists, channels, semaphore, aim, rounds, workers, consumers,
                   clock, archives, called>>

(***************************************************************************)
(* DecisionCheckpoint: the loop over the pause list                        *)
(***************************************************************************)

Ongoing(cs) == Cardinality({i \in DOMAIN cs : cs[i].during})

\* AppendToCheckpointList; hot is the test against CHECKPOINT_THRESHOLD.
AppendToCheckpointList(pe, cs, hot) ==
    /\ ~pe.isCheckpoint
    /\ hot
    /\ \A i \in IndicesOf(cs, pe.pod) :
          pe.timestamp >= cs[i].timestamp + Recheckpoint

LoopEnds(r, ps, cs) ==
    pos[r] > Len(ps) \/ Ongoing(cs) >= PickLimit

\* The entry needs no checkpoint.
Skip(r) ==
    /\ ~Crashed
    /\ roundPc[r] = "select"
    /\ \E ps \in Views(pauseArg[r], pauseList),
          cs \in Views(cpArg[r], cpList), hot \in BOOLEAN :
          /\ ~LoopEnds(r, ps, cs)
          /\ ~AppendToCheckpointList(ps[pos[r]], cs, hot)
    /\ pos' = [pos EXCEPT ![r] = @ + 1]
    /\ UNCHANGED <<lists, channels, semaphore, removal, roundPc, pauseArg,
                   cpArg, workers, consumers, clock, node>>

NewRecord(p) == [pod |-> p, timestamp |-> clock, during |-> FALSE,
                 isCheckpoint |-> FALSE, data |-> NoArchive]

\* The entry needs a checkpoint: its record is made ...
Request(r) ==
    /\ ~Crashed
    /\ roundPc[r] = "select"
    /\ Len(picked[r]) < PickLimit
    /\ \E ps \in Views(pauseArg[r], pauseList),
          cs \in Views(cpArg[r], cpList) :
          /\ ~LoopEnds(r, ps, cs)
          /\ AppendToCheckpointList(ps[pos[r]], cs, TRUE)
          /\ picked' = [picked EXCEPT ![r] =
                          Append(@, NewRecord(ps[pos[r]].pod))]
    /\ roundPc' = [roundPc EXCEPT ![r] = "send"]
    /\ UNCHANGED <<lists, channels, semaphore, removal, pos, pauseArg, cpArg,
                   err, workerPc, consumers, clock, node>>

\* ... and announced on the append channel.
Send(r) ==
    /\ ~Crashed
    /\ roundPc[r] = "send"
    /\ Len(appendChan) < ChanCap
    /\ appendChan' = Append(appendChan, picked[r][Len(picked[r])])
    /\ roundPc' = [roundPc EXCEPT ![r] = "select"]
    /\ pos' = [pos EXCEPT ![r] = @ + 1]
    /\ UNCHANGED <<lists, modifyChan, semaphore, removal, pauseArg, cpArg,
                   workers, consumers, clock, node>>

\* The loop ends, or breaks at the limit; one goroutine per request starts.
Launch(r) ==
    /\ ~Crashed
    /\ roundPc[r] = "select"
    /\ \E ps \in Views(pauseArg[r], pauseList),
          cs \in Views(cpArg[r], cpList) :
          \/ LoopEnds(r, ps, cs)
          \/ /\ ~LoopEnds(r, ps, cs)
             /\ Len(picked[r]) >= PickLimit
             /\ AppendToCheckpointList(ps[pos[r]], cs, TRUE)
    /\ roundPc' = [roundPc EXCEPT ![r] = "wait"]
    /\ pos' = [pos EXCEPT ![r] = 1]
    /\ pauseArg' = [pauseArg EXCEPT ![r] = <<>>]
    /\ cpArg' = [cpArg EXCEPT ![r] = <<>>]
    /\ workerPc' = [w \in Workers |->
                      IF w[1] = r /\ w[2] <= Len(picked[r])
                      THEN "acquire" ELSE workerPc[w]]
    /\ UNCHANGED <<lists, channels, semaphore, removal, picked, err,
                   consumers, clock, node>>

\* wg.Wait() returns when every worker of the round has called wg.Done(); the
\* variables of the call are gone.
Return(r) ==
    /\ ~Crashed
    /\ roundPc[r] = "wait"
    /\ \A w \in Workers : w[1] = r => workerPc[w] \in {"none", "done"}
    /\ roundPc' = [roundPc EXCEPT ![r] = "returned"]
    /\ picked' = [picked EXCEPT ![r] = <<>>]
    /\ err' = [err EXCEPT ![r] = FALSE]
    /\ workerPc' = [w \in Workers |->
                      IF w[1] = r THEN "none" ELSE workerPc[w]]
    /\ UNCHANGED <<lists, channels, semaphore, removal, pos, pauseArg, cpArg,
                   consumers, clock, node>>

(***************************************************************************)
(* DecisionCheckpoint: the workers                                         *)
(***************************************************************************)

MoveWorker(w, from, to) ==
    /\ ~Crashed
    /\ workerPc[w] = from
    /\ workerPc' = [workerPc EXCEPT ![w] = to]

\* Mutant of Acquire: the workers do not wait for a free place.
AcquireUnbounded(w) ==
    /\ MoveWorker(w, "acquire", "announce")
    /\ semaphore' = semaphore + 1
    /\ UNCHANGED <<lists, channels, removal, rounds, picked, err, consumers,
                   clock, node>>

Acquire(w) ==
    /\ MoveWorker(w, "acquire", "announce")
    /\ semaphore < SemaphoreCap
    /\ semaphore' = semaphore + 1
    /\ UNCHANGED <<lists, channels, removal, rounds, picked, err, consumers,
                   clock, node>>

\* Mutant of Announce: the first message claims the checkpoint at once.
AnnounceClaiming(w) ==
    /\ MoveWorker(w, "announce", "call")
    /\ Len(modifyChan) < ChanCap
    /\ picked' = [picked EXCEPT ![w[1]][w[2]] =
                    [@ EXCEPT !.during = TRUE, !.isCheckpoint = TRUE]]
    /\ modifyChan' = Append(modifyChan, picked'[w[1]][w[2]])
    /\ UNCHANGED <<lists, appendChan, semaphore, removal, rounds, err,
                   consumers, clock, node>>

\* DuringCheckpoint is set and sent.
Announce(w) ==
    /\ MoveWorker(w, "announce", "call")
    /\ Len(modifyChan) < ChanCap
    /\ picked' = [picked EXCEPT ![w[1]][w[2]].during = TRUE]
    /\ modifyChan' = Append(modifyChan, picked'[w[1]][w[2]])
    /\ UNCHANGED <<lists, appendChan, semaphore, removal, rounds, err,
                   consumers, clock, node>>

\* Mutant of Call: the goroutines capture the loop's variable, as before Go
\* 1.22, and the archive goes to the round's last record.
CallCapturingLoopVariable(w) ==
    LET p == picked[w[1]][w[2]].pod
        k == Len(picked[w[1]])
    IN  /\ MoveWorker(w, "call", "check")
        /\ \/ /\ running[p] = "up"
              /\ picked' = [picked EXCEPT ![w[1]][k].data = p]
              /\ err' = [err EXCEPT ![w[1]] = FALSE]
              /\ archives' = archives \cup {p}
           \/ /\ err' = [err EXCEPT ![w[1]] = TRUE]
              /\ UNCHANGED <<picked, archives>>
        /\ called' = called \cup {p}
        /\ UNCHANGED <<lists, channels, semaphore, removal, rounds,
                       consumers, clock, running>>

\* Mutant of Call: an answer without an archive is no error.
CallSwallowingErrors(w) ==
    LET p == picked[w[1]][w[2]].pod
    IN  /\ MoveWorker(w, "call", "check")
        /\ \/ /\ running[p] = "up"
              /\ picked' = [picked EXCEPT ![w[1]][w[2]].data = p]
              /\ archives' = archives \cup {p}
           \/ UNCHANGED <<picked, archives>>
        /\ err' = [err EXCEPT ![w[1]] = FALSE]
        /\ called' = called \cup {p}
        /\ UNCHANGED <<lists, channels, semaphore, removal, rounds,
                       consumers, clock, running>>

\* CheckpointContainer returns.  Its results go to the worker's own record
\* and to err, which all the workers of the round share.
Call(w) ==
    LET p == picked[w[1]][w[2]].pod
    IN  /\ MoveWorker(w, "call", "check")
        /\ \/ /\ running[p] = "up"
              /\ picked' = [picked EXCEPT ![w[1]][w[2]].data = p]
              /\ err' = [err EXCEPT ![w[1]] = FALSE]
              /\ archives' = archives \cup {p}
           \/ /\ err' = [err EXCEPT ![w[1]] = TRUE]
              /\ UNCHANGED <<picked, archives>>
        /\ called' = called \cup {p}
        /\ UNCHANGED <<lists, channels, semaphore, removal, rounds,
                       consumers, clock, running>>

\* The worker tests err and fills in the outcome.
Check(w) ==
    /\ MoveWorker(w, "check", "report")
    /\ picked' = [picked EXCEPT ![w[1]][w[2]] =
                    [@ EXCEPT !.during = FALSE, !.isCheckpoint = ~err[w[1]]]]
    /\ UNCHANGED <<lists, channels, semaphore, removal, rounds, err,
                   consumers, clock, node>>

Report(w) ==
    /\ MoveWorker(w, "report", "release")
    /\ Len(modifyChan) < ChanCap
    /\ modifyChan' = Append(modifyChan, picked[w[1]][w[2]])
    /\ UNCHANGED <<lists, appendChan, semaphore, removal, rounds, picked, err,
                   consumers, clock, node>>

\* Mutant of Release: the token is taken out of the channel twice.
ReleaseTwice(w) ==
    /\ MoveWorker(w, "release", "done")
    /\ semaphore' = semaphore - 2
    /\ UNCHANGED <<lists, channels, removal, rounds, picked, err, consumers,
                   clock, node>>

\* Mutant of Release: the token stays in the channel.
ReleaseKeepingToken(w) ==
    /\ MoveWorker(w, "release", "done")
    /\ UNCHANGED <<lists, channels, semaphore, removal, rounds, picked, err,
                   consumers, clock, node>>

\* The deferred calls: the token first, wg.Done() after it.
Release(w) ==
    /\ MoveWorker(w, "release", "done")
    /\ semaphore' = semaphore - 1
    /\ UNCHANGED <<lists, channels, removal, rounds, picked, err, consumers,
                   clock, node>>

(***************************************************************************)
(* The consumers                                                           *)
(***************************************************************************)

MoveConsumer(c, from, to) ==
    /\ ~Crashed
    /\ consumerPc[c] = from
    /\ consumerPc' = [consumerPc EXCEPT ![c] = to]

\* The message is dealt with: the goroutine is back at the select.
Finish(c, from) ==
    /\ MoveConsumer(c, from, "select")
    /\ inbox' = [inbox EXCEPT ![c] = <<>>]
    /\ hits' = [hits EXCEPT ![c] = {}]
    /\ seenLen' = [seenLen EXCEPT ![c] = 0]

\* An index out of range: the goroutine ends, or the whole program does when
\* this goroutine has not yet deferred its recover().
Panic(c, from) ==
    /\ MoveConsumer(c, from, IF c \in recovers THEN "off" ELSE "panicked")
    /\ inbox' = [inbox EXCEPT ![c] = <<>>]
    /\ hits' = [hits EXCEPT ![c] = {}]
    /\ seenLen' = [seenLen EXCEPT ![c] = 0]

\* A message of the append channel is taken and the list is scanned.
TakeAppend(c) ==
    /\ appendChan # <<>>
    /\ appendChan' = Tail(appendChan)
    /\ LET m == Head(appendChan)
           same == IndicesOf(cpList, m.pod)
           old == {i \in same : m.timestamp >= cpList[i].timestamp + Recheckpoint}
       IN  \/ /\ same = {}
              /\ MoveConsumer(c, "select", "append")
              /\ inbox' = [inbox EXCEPT ![c] = <<m>>]
              /\ seenLen' = [seenLen EXCEPT ![c] = Len(cpList)]
              /\ UNCHANGED hits
           \/ /\ old # {}
              /\ MoveConsumer(c, "select", "write")
              /\ inbox' = [inbox EXCEPT ![c] = <<m>>]
              /\ hits' = [hits EXCEPT ![c] = old]
              /\ UNCHANGED seenLen
           \/ /\ same # {} /\ old = {}
              /\ consumerPc[c] = "select"
              /\ UNCHANGED <<consumerPc, inbox, hits, seenLen>>
    /\ UNCHANGED <<lists, modifyChan, semaphore, removal, rounds, workers,
                   recovers, clock, node>>

\* append: at the present length, or at the length read before another
\* consumer appended, whose element is then overwritten.
WriteAppend(c) ==
    /\ Finish(c, "append")
    /\ \E n \in {seenLen[c], Len(cpList)} :
          /\ n <= Len(cpList)
          /\ cpList' = Append(SubSeq(cpList, 1, n), inbox[c][1])
    /\ UNCHANGED <<pauseList, channels, semaphore, removal, rounds, workers,
                   recovers, clock, node>>

\* A message of the modify channel is taken and its entry is looked up.
TakeModify(c) ==
    /\ modifyChan # <<>>
    /\ modifyChan' = Tail(modifyChan)
    /\ recovers' = recovers \cup {c}
    /\ LET m == Head(modifyChan)
       IN  \/ \E i \in DOMAIN cpList :
                 /\ IsFirst(cpList, m.pod, i)
                 /\ MoveConsumer(c, "select", "write")
                 /\ inbox' = [inbox EXCEPT ![c] = <<m>>]
                 /\ hits' = [hits EXCEPT ![c] = {i}]
           \/ /\ IndicesOf(cpList, m.pod) = {}
              /\ consumerPc[c] = "select"
              /\ UNCHANGED <<consumerPc, inbox, hits>>
    /\ UNCHANGED <<lists, appendChan, semaphore, removal, rounds, workers,
                   seenLen, clock, node>>

\* The whole record is written at the indices found before.
Write(c) ==
    /\ consumerPc[c] = "write"
    /\ cpList' = Overwrite(cpList, hits[c], inbox[c][1])
    /\ \/ /\ ~ (hits[c] \subseteq DOMAIN cpList)
          /\ Panic(c, "write")
       \/ /\ hits[c] \subseteq DOMAIN cpList
          /\ inbox[c][1].isCheckpoint
          /\ MoveConsumer(c, "write", "stats")
          /\ UNCHANGED <<inbox, hits, seenLen>>
       \/ /\ hits[c] \subseteq DOMAIN cpList
          /\ ~inbox[c][1].isCheckpoint
          /\ Finish(c, "write")
    /\ UNCHANGED <<pauseList, channels, semaphore, removal, rounds, workers,
                   recovers, clock, node>>

\* PodSandboxStats has no container for the pod (or fails: the error is
\* ignored): the entry at the index found before the call is deleted.
Abort(c) ==
    /\ consumerPc[c] = "stats"
    /\ \E i \in hits[c] :
          \/ /\ i \in DOMAIN cpList
             /\ cpList' = RemoveAt(cpList, i)
             /\ Finish(c, "stats")
          \/ /\ i \notin DOMAIN cpList
             /\ Panic(c, "stats")
             /\ UNCHANGED cpList
    /\ UNCHANGED <<pauseList, channels, semaphore, removal, rounds, workers,
                   recovers, clock, node>>

\* PodSandboxStats finds the container: the end time is stamped at the index
\* found before the call.
Complete(c) ==
    /\ consumerPc[c] = "stats"
    /\ running[inbox[c][1].pod] = "up"
    /\ \/ /\ hits[c] \subseteq DOMAIN cpList
          /\ MoveConsumer(c, "stats", "find")
          /\ hits' = [hits EXCEPT ![c] = {}]
          /\ UNCHANGED <<inbox, seenLen>>
       \/ /\ ~ (hits[c] \subseteq DOMAIN cpList)
          /\ Panic(c, "stats")
    /\ UNCHANGED <<lists, channels, semaphore, removal, rounds, workers,
                   recovers, clock, node>>

\* The pause list is scanned for the pod.  It may be missed, when main deletes
\* an entry before it during the scan or has moved the list to another array.
FindPaused(c) ==
    /\ \/ /\ MoveConsumer(c, "find", "flag")
          /\ \E j \in IndicesOf(pauseList, inbox[c][1].pod) :
                hits' = [hits EXCEPT ![c] = {j}]
          /\ UNCHANGED <<inbox, seenLen>>
       \/ Finish(c, "find")
    /\ UNCHANGED <<lists, channels, semaphore, removal, rounds, workers,
                   recovers, clock, node>>

\* Mutant of FlagPaused: the record at the index is flagged.
FlagRecord(c) ==
    /\ Finish(c, "flag")
    /\ cpList' = [i \in DOMAIN cpList |->
                    IF i \in hits[c] THEN [cpList[i] EXCEPT !.isCheckpoint = TRUE]
                    ELSE cpList[i]]
    /\ UNCHANGED <<pauseList, channels, semaphore, removal, rounds, workers,
                   recovers, clock, node>>

\* The entry at the index is flagged, of whatever pod it is by now.  The flag is
\* lost in an array that main has left.
FlagPaused(c) ==
    /\ \E j \in hits[c] :
          \/ /\ j \in DOMAIN pauseList
             /\ pauseList' = [pauseList EXCEPT ![j].isCheckpoint = TRUE]
             /\ Finish(c, "flag")
          \/ /\ UNCHANGED pauseList
             /\ Finish(c, "flag")
          \/ /\ j \notin DOMAIN pauseList
             /\ UNCHANGED pauseList
             /\ Panic(c, "flag")
    /\ UNCHANGED <<cpList, channels, semaphore, removal, rounds, workers,
                   recovers, clock, node>>

(***************************************************************************)
(* The node: time passes, containers end or are killed by the kernel, the  *)
(* kubelet restarts them and the repair goroutines bring them back.        *)
(***************************************************************************)

Tick ==
    /\ ~Crashed
    /\ clock < MaxClock
    /\ clock' = clock + 1
    /\ UNCHANGED <<lists, channels, semaphore, removal, rounds, workers,
                   consumers, node>>

ContainerEnds(p) ==
    /\ ~Crashed
    /\ p \in Mortal
    /\ running[p] = "up"
    /\ running' = [running EXCEPT ![p] = "gone"]
    /\ UNCHANGED <<lists, channels, semaphore, removal, rounds, workers,
                   consumers, clock, archives, called>>

ContainerReturns(p) ==
    /\ ~Crashed
    /\ running[p] # "up"
    /\ running' = [running EXCEPT ![p] = "up"]
    /\ UNCHANGED <<lists, channels, semaphore, removal, rounds, workers,
                   consumers, clock, archives, called>>

-----------------------------------------------------------------------------

MainStep ==
    \/ \E p \in Pods : Pause(p) \/ KillVictim(p)
    \/ \E c \in Consumers : StartConsumer(c)
    \/ \E r \in Rounds : StartRound(r)
    \/ \E j \in DOMAIN cpList : TestRecord(j)
    \/ Continue \/ TakeRecord

RoundStep(r) == Skip(r) \/ Request(r) \/ Send(r) \/ Launch(r) \/ Return(r)

GoStep(w) ==
    Acquire(w) \/ Announce(w) \/ Check(w) \/ Report(w) \/ Release(w)

WorkerStep(w) == Call(w) \/ GoStep(w)

ConsumerStep(c) ==
    \/ TakeAppend(c) \/ WriteAppend(c)
    \/ TakeModify(c) \/ Write(c) \/ Abort(c) \/ Complete(c)
    \/ FindPaused(c) \/ FlagPaused(c)

NodeStep ==
    \/ Tick
    \/ \E p \in Pods : ContainerEnds(p) \/ ContainerReturns(p)

\* An unrecovered panic ends the program.
Halted == Crashed /\ UNCHANGED vars

Next ==
    \/ MainStep
    \/ \E r \in Rounds : RoundStep(r)
    \/ \E w \in Workers : WorkerStep(w)
    \/ \E c \in Consumers : ConsumerStep(c)
    \/ NodeStep
    \/ Halted

Spec == Init /\ [][Next]_vars

(***************************************************************************)
(* Fairness.  Go runs every goroutine that can run.  Goroutines blocked on *)
(* a channel are queued first in, first out, and a select with several     *)
(* ready cases picks one at random: these steps get strong fairness.  Main *)
(* tests finitely many records before it kills (strong fairness again) and *)
(* reaches the go statement of every iteration.                            *)
(* Nothing is assumed about containers or the other decisions.             *)
(***************************************************************************)
Fairness ==
    /\ WF_vars(TakeRecord)
    /\ \A p \in Pods : SF_vars(KillVictim(p))
    /\ \A r \in Rounds : SF_vars(RoundStep(r))
    /\ \A w \in Workers : SF_vars(GoStep(w))
    /\ \A c \in Consumers :
          /\ SF_vars(StartConsumer(c))
          /\ SF_vars(TakeAppend(c))
          /\ SF_vars(TakeModify(c))
          /\ WF_vars(\/ WriteAppend(c) \/ Write(c) \/ Abort(c) \/ Complete(c)
                     \/ FindPaused(c) \/ FlagPaused(c))

(***************************************************************************)
(* What the scheduler does not give: that the kubelet answers.  The code   *)
(* runs curl without a time limit, and a worker holds its place in the     *)
(* semaphore while it waits.                                               *)
(***************************************************************************)
CallsReturn == \A w \in Workers : WF_vars(Call(w))

FairSpec == Spec /\ Fairness /\ CallsReturn

-----------------------------------------------------------------------------
(***************************************************************************)
(* Properties                                                              *)
(***************************************************************************)

Holders == {w \in Workers : workerPc[w] \in
              {"announce", "call", "check", "report", "release"}}

\* The tokens in the semaphore are those of the workers between the send and
\* the deferred receive, and never more than its capacity: over all rounds
\* together at most SemaphoreCap checkpoints are in progress.
SemaphoreHeld ==
    /\ semaphore = Cardinality(Holders)
    /\ semaphore <= SemaphoreCap

\* Every copy of a checkpoint record, wherever it is on its way.
Records ==
    ToSet(cpList) \cup ToSet(appendChan) \cup ToSet(modifyChan)
      \cup (UNION {ToSet(picked[r]) \cup ToSet(cpArg[r]) : r \in Rounds})
      \cup (UNION {ToSet(inbox[c]) : c \in Consumers})

\* However the reports of overlapping rounds cross, and whichever entry a
\* consumer hits with an index that is out of date, no copy of a record claims a
\* checkpoint before a call for its pod has returned; and main, when it tests a
\* record, finds such a claim.  (What it takes at the index a moment later may be
\* another pod's record: see TakeRecord.)
ClaimNeedsCall ==
    /\ \A m \in Records : m.isCheckpoint => m.pod \in called
    /\ \A k \in DOMAIN aim : aim[k].pod \in called

\* A record that names an archive names one that the kubelet has written, of
\* the record's own pod: concurrent workers and consumers never attach the
\* archive of one pod to the record of another.
ArchiveOfOwnPod ==
    \A m \in Records :
        m.data # NoArchive => m.data = m.pod /\ m.pod \in archives

\* The variable err is shared by the workers of one round only: a worker that
\* is alone in its round reports exactly what its own call returned, a success
\* as a checkpoint and a failure as none.
LoneWorkerReportsTruth ==
    \A r \in Rounds :
        Len(picked[r]) = 1 /\ workerPc[<<r, 1>>] \in {"report", "release", "done"} =>
            (picked[r][1].isCheckpoint <=> picked[r][1].data # NoArchive)

\* If every call of the kubelet returns (CallsReturn), every round returns:
\* neither full channels nor the semaphore it shares with the other rounds holds
\* a checkpoint goroutine for ever.
RoundReturns ==
    \A r \in Rounds : roundPc[r] = "select" ~> (roundPc[r] = "returned" \/ Crashed)

\* "If a container is being checkpointed it must not be removed" (comment in
\* DecisionRemoveContainer): no kill hits a pod whose call is under way.
NoKillDuringCheckpoint ==
    [][\A p \in Pods :
         running[p] = "up" /\ running'[p] = "killed" =>
           ~ \E w \in Workers : /\ workerPc[w] = "call"
                                /\ picked[w[1]][w[2]].pod = p]_vars

\* "Break out of the loop if there are only uncheckpointed containers": what
\* DecisionRemoveContainer has killed, and its record calls checkpointed, has an
\* archive to be repaired from.
KilledHasArchive ==
    \A p \in Pods :
        /\ running[p] = "killed"
        /\ \E i \in IndicesOf(cpList, p) : cpList[i].isCheckpoint
        => p \in archives
=============================================================================
