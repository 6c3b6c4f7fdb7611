------------------------------ MODULE Removing -------------------------------
(***************************************************************************)
(* One call of DecisionRemoveContainer.  Main kills, in three phases, the  *)
(* checkpointed pods that are paused and use most of their limit; when the *)
(* node is short of memory, all that were checkpointed a short while ago;  *)
(* and, when more than half of the running pods are paused, those with the *)
(* lowest priority.  What it kills it deletes from the pause list and from *)
(* the candidates for scaling up, by indices collected before.             *)
(*                                                                         *)
(* The checkpoint list it reads is written by the consumer goroutines at   *)
(* the same time, also between the reads that test a record and the one    *)
(* that takes it.                                                          *)
(***************************************************************************)
EXTENDS Integers, Sequences, FiniteSets, SequencesExt, FiniteSetsExt, Slices

CONSTANTS
    Pods,            \* pod names
    Priority,        \* priorityMap under the ids of the pause list, 0 where
                     \* there is no entry
    Sentinel,        \* the priority the search for the lowest starts with; one
                     \* that is NaN compares as one that reaches it
    OtherPods,       \* how many more pods are running
    PauseLists,      \* bound: the pause lists main hands over
    CandidateLists,  \* bound: the lists of candidates main hands over
    RecordLists,     \* bound: the checkpoint lists main hands over
    MaxWrites        \* bound: writes of consumers during the call

\* What is known of the container of a record: whether it has a checkpoint, used
\* more than CONTAINER_MEMORY_USAGE_THRESHOLD of its limit when the record was
\* made, and was checkpointed less than RECHECKPOINT_THRESHOLD ago.
CheckpointContainer ==
    [pod : Pods, isCheckpoint : BOOLEAN, hot : BOOLEAN, recent : BOOLEAN]

ASSUME ConstantsAssumption ==
    /\ IsFiniteSet(Pods)
    /\ Priority \in [Pods -> Int]
    /\ Sentinel \in Int
    /\ OtherPods \in Nat
    /\ PauseLists \subseteq Seq(Pods)
    /\ CandidateLists \subseteq Seq(Pods)
    /\ RecordLists \subseteq Seq(CheckpointContainer)
    /\ MaxWrites \in Nat

VARIABLES
    phase,       \* where the call is
    crowded,     \* the node uses more than MAX_MEMORY_USAGE_THRESHOLD
    pauseList,   \* pauseContainerList
    candidates,  \* scaleUpCandidateList
    running,     \* currentRunningPods, the paused ones of them
    victims,     \* removeCandidateContainerList
    toRemovePause,       \* toRemovePauseContainer
    toRemoveCandidates,  \* toRemovescaleUpCandidateList
    aim,         \* the entry of the pause list and the record that the loops
                 \* are at; 0 when they are before the first one
    size,        \* pauseContainerListSize
    records,     \* checkPointContainerList
    killed,      \* history: the pods killed, in order
    handed,      \* history: the lists main handed over
    writes,      \* writes of consumers to the checkpoint list so far
    moved        \* history: one of them put another pod's record at an index

lists == <<pauseList, candidates>>
toRemove == <<toRemovePause, toRemoveCandidates>>
vars == <<phase, crowded, lists, running, victims, toRemove, aim, size, records,
          killed, handed, writes, moved>>

Phases ==
    {"paused", "testPaused", "measurePaused", "takePaused", "killPaused",
     "recent", "takeRecent", "markPaused", "markCandidate", "killRecent",
     "count", "select", "take", "killLowest", "returned"}

\* No victim is left when a phase starts, or the call has returned.
TypeOK ==
    /\ phase \in Phases
    /\ crowded \in BOOLEAN
    /\ pauseList \in Seq(Pods)
    /\ candidates \in Seq(Pods)
    /\ running \in SUBSET Pods
    /\ victims \in Seq(Pods)
    /\ \/ phase = "returned"
       \/ phase \in {"paused", "recent"} /\ aim = <<0, 0>>
       => victims = <<>>
    /\ toRemovePause \in Seq(1 .. Len(handed.pauseList))
    /\ toRemoveCandidates \in Seq(1 .. Len(handed.candidates))
    /\ aim \in (0 .. Len(handed.pauseList)) \X (0 .. Len(records))
    /\ size \in 0 .. Len(handed.pauseList)
    /\ records \in Seq(CheckpointContainer)
    /\ killed \in Seq(Pods)
    /\ handed \in [pauseList : PauseLists, candidates : CandidateLists]
    /\ writes \in 0 .. MaxWrites
    /\ moved \in BOOLEAN

Init ==
    /\ phase = "paused"
    /\ crowded \in BOOLEAN
    /\ pauseList \in PauseLists
    /\ candidates \in CandidateLists
    /\ running = Pods
    /\ victims = <<>>
    /\ toRemovePause = <<>>
    /\ toRemoveCandidates = <<>>
    /\ aim = <<0, 0>>
    /\ size = 0
    /\ records \in RecordLists
    /\ killed = <<>>
    /\ handed = [pauseList |-> pauseList, candidates |-> candidates]
    /\ writes = 0
    /\ moved = FALSE

-----------------------------------------------------------------------------
(***************************************************************************)
(* What the first two phases have in common.                               *)
(***************************************************************************)

FirstIndex(p, list) ==
    CHOOSE i \in DOMAIN list : list[i] = p /\ \A j \in 1 .. i - 1 : list[j] # p

\* The indices with that of the pod's first entry in a list, if it has one.
WithFirst(indices, p, list) ==
    IF p \in ToSet(list) THEN Append(indices, FirstIndex(p, list)) ELSE indices

\* Mutant of DeleteCollected: the deletion loop runs from the first index to the
\* last.
DeleteForwards ==
    /\ pauseList' = DeleteIndices(pauseList, Reverse(toRemovePause))
    /\ candidates' = DeleteIndices(candidates, toRemoveCandidates)

\* Both phases delete what they have chosen before they kill it.
DeleteCollected ==
    /\ pauseList' = DeleteIndices(pauseList, toRemovePause)
    /\ candidates' = DeleteIndices(candidates, toRemoveCandidates)

\* Mutant of Kill: the list is not reset.
KillWithoutReset ==
    /\ running' = running \ ToSet(victims)
    /\ killed' = killed \o victims
    /\ UNCHANGED victims

\* The kills, and the messages to removeContainerToChan.
Kill ==
    /\ running' = running \ ToSet(victims)
    /\ killed' = killed \o victims
    /\ victims' = <<>>

(***************************************************************************)
(* The first phase: paused pods under memory pressure.                     *)
(***************************************************************************)

\* The next entry of the pause list, and the first record of its pod.  What is
\* at the record's index is read again in each of the next three steps.
FindPaused ==
    /\ phase = "paused"
    /\ aim[1] < Len(pauseList)
    /\ LET i == aim[1] + 1 IN
          \/ \E j \in DOMAIN records : /\ IsFirst(records, pauseList[i], j)
                                       /\ aim' = <<i, j>>
                                       /\ phase' = "testPaused"
          \/ /\ IndicesOf(records, pauseList[i]) = {}
             /\ aim' = <<i, 0>>
             /\ UNCHANGED phase
    /\ UNCHANGED <<crowded, lists, running, victims, toRemove, size, records,
                   killed, handed, writes, moved>>

TestPaused ==
    /\ phase = "testPaused"
    /\ phase' = IF records[aim[2]].isCheckpoint THEN "measurePaused" ELSE "paused"
    /\ UNCHANGED <<crowded, lists, running, victims, toRemove, aim, size, records,
                   killed, handed, writes, moved>>

MeasurePaused ==
    /\ phase = "measurePaused"
    /\ phase' = IF records[aim[2]].hot THEN "takePaused" ELSE "paused"
    /\ UNCHANGED <<crowded, lists, running, victims, toRemove, aim, size, records,
                   killed, handed, writes, moved>>

\* The victim is the pod of the record, the indices are those of the entry's pod.
TakePaused ==
    /\ phase = "takePaused"
    /\ phase' = "paused"
    /\ victims' = Append(victims, records[aim[2]].pod)
    /\ toRemovePause' = Append(toRemovePause, aim[1])
    /\ toRemoveCandidates' =
          WithFirst(toRemoveCandidates, pauseList[aim[1]], candidates)
    /\ UNCHANGED <<crowded, lists, running, aim, size, records, killed, handed,
                   writes, moved>>

DeletePaused ==
    /\ phase = "paused"
    /\ aim[1] = Len(pauseList)
    /\ phase' = "killPaused"
    /\ DeleteCollected
    /\ aim' = <<0, 0>>
    /\ UNCHANGED <<crowded, running, victims, toRemove, size, records, killed,
                   handed, writes, moved>>

KillPaused ==
    /\ phase = "killPaused"
    /\ phase' = "recent"
    /\ Kill
    /\ toRemovePause' = <<>>
    /\ toRemoveCandidates' = <<>>
    /\ UNCHANGED <<crowded, lists, aim, size, records, handed, writes, moved>>

(***************************************************************************)
(* The second phase: pods checkpointed a short while ago, in the order of  *)
(* the checkpoint list, so that their indices in the others come in any.   *)
(***************************************************************************)

RecentlyCheckpointed(r) == r.isCheckpoint /\ r.recent

FindRecent ==
    /\ phase = "recent"
    /\ crowded
    /\ aim[2] < Len(records)
    /\ aim' = <<0, aim[2] + 1>>
    /\ phase' = IF RecentlyCheckpointed(records[aim[2] + 1])
                THEN "takeRecent" ELSE "recent"
    /\ UNCHANGED <<crowded, lists, running, victims, toRemove, size, records,
                   killed, handed, writes, moved>>

TakeRecent ==
    /\ phase = "takeRecent"
    /\ phase' = "markPaused"
    /\ victims' = Append(victims, records[aim[2]].pod)
    /\ UNCHANGED <<crowded, lists, running, toRemove, aim, size, records, killed,
                   handed, writes, moved>>

MarkPaused ==
    /\ phase = "markPaused"
    /\ phase' = "markCandidate"
    /\ toRemovePause' = WithFirst(toRemovePause, records[aim[2]].pod, pauseList)
    /\ UNCHANGED <<crowded, lists, running, victims, toRemoveCandidates, aim, size,
                   records, killed, handed, writes, moved>>

MarkCandidate ==
    /\ phase = "markCandidate"
    /\ phase' = "recent"
    /\ toRemoveCandidates' =
          WithFirst(toRemoveCandidates, records[aim[2]].pod, candidates)
    /\ UNCHANGED <<crowded, lists, running, victims, toRemovePause, aim, size,
                   records, killed, handed, writes, moved>>

DeleteRecent ==
    /\ phase = "recent"
    /\ ~crowded \/ aim[2] = Len(records)
    /\ phase' = "killRecent"
    /\ DeleteCollected
    /\ aim' = <<0, 0>>
    /\ UNCHANGED <<crowded, running, victims, toRemove, size, records, killed,
                   handed, writes, moved>>

KillRecent ==
    /\ phase = "killRecent"
    /\ phase' = "count"
    /\ Kill
    /\ size' = Len(pauseList)
    /\ UNCHANGED <<crowded, lists, toRemove, aim, records, handed, writes, moved>>

(***************************************************************************)
(* The third phase resolves "a state that resembles a deadlock".           *)
(***************************************************************************)

\* offset.  The list that is subtracted from the number of running pods has been
\* reset before: the pods killed so far count as running.
Offset == (Cardinality(Pods) + OtherPods) \div 2

\* Entries i of the pause list and j of the checkpoint list that belong together.
Matches ==
    {m \in (1 .. size) \X DOMAIN records : pauseList[m[1]] = records[m[2]].pod}

Checkpointed == {m \in Matches : records[m[2]].isCheckpoint}

NotCheckpointed == Cardinality(Matches \ Checkpointed)

\* Mutant of CountUncheckpointed: the loop ends at the first one.
CountAny ==
    /\ phase = "count"
    /\ phase' = IF size <= Offset \/ NotCheckpointed > 0
                THEN "killLowest" ELSE "select"
    /\ UNCHANGED <<crowded, lists, running, victims, toRemove, aim, size, records,
                   killed, handed, writes, moved>>

\* The condition of the loop, and the break when none is checkpointed.
CountUncheckpointed ==
    /\ phase = "count"
    /\ phase' = IF size <= Offset \/ NotCheckpointed = size
                THEN "killLowest" ELSE "select"
    /\ UNCHANGED <<crowded, lists, running, victims, toRemove, aim, size, records,
                   killed, handed, writes, moved>>

PriorityOf(m) == Priority[pauseList[m[1]]]

Eligible == {m \in Checkpointed : PriorityOf(m) < Sentinel}

\* The scan takes the first of the lowest: entry by entry, record by record.
Precedes(m, n) ==
    \/ PriorityOf(m) < PriorityOf(n)
    \/ /\ PriorityOf(m) = PriorityOf(n)
       /\ m[1] < n[1] \/ (m[1] = n[1] /\ m[2] < n[2])

\* The scan finds none if no priority is below the sentinel, if a consumer took
\* the last checkpoint away meanwhile, or if no entry has a record.
SelectLowest ==
    /\ phase = "select"
    /\ \/ \E m \in Eligible : /\ \A n \in Eligible \ {m} : Precedes(m, n)
                              /\ aim' = m
                              /\ phase' = "take"
                              /\ UNCHANGED size
       \/ /\ Eligible = {}
          /\ phase' = "count"
          /\ size' = size - 1
          /\ UNCHANGED aim
    /\ UNCHANGED <<crowded, lists, running, victims, toRemove, records, killed,
                   handed, writes, moved>>

\* Mutant of TakeLowest: the last entry is moved to the place of the taken one.
TakeLowestSwapping ==
    /\ phase = "take"
    /\ phase' = "count"
    /\ victims' = Append(victims, records[aim[2]].pod)
    /\ candidates' = RemoveFirst(candidates, pauseList[aim[1]])
    /\ pauseList' = Front([pauseList EXCEPT ![aim[1]] = Last(pauseList)])
    /\ size' = size - 1
    /\ aim' = <<0, 0>>
    /\ UNCHANGED <<crowded, running, toRemove, records, killed, handed, writes,
                   moved>>

\* The victim is whatever pod the record at the remembered index is of by now;
\* the lists lose the entry's pod.
TakeLowest ==
    /\ phase = "take"
    /\ phase' = "count"
    /\ victims' = Append(victims, records[aim[2]].pod)
    /\ candidates' = RemoveFirst(candidates, pauseList[aim[1]])
    /\ pauseList' = RemoveAt(pauseList, aim[1])
    /\ size' = size - 1
    /\ aim' = <<0, 0>>
    /\ UNCHANGED <<crowded, running, toRemove, records, killed, handed, writes,
                   moved>>

KillLowest ==
    /\ phase = "killLowest"
    /\ phase' = "returned"
    /\ Kill
    /\ UNCHANGED <<crowded, lists, toRemove, aim, size, records, handed, writes,
                   moved>>

(***************************************************************************)
(* The consumers, in the array of the checkpoint list main looks at.       *)
(***************************************************************************)

\* A report replaces a record, at the index its pod's record was found at: another
\* consumer's deletion may have moved that one since.
Report(i) ==
    \E r \in CheckpointContainer :
       /\ records' = [records EXCEPT ![i] = r]
       /\ moved' = (moved \/ r.pod # records[i].pod)

\* An aborted checkpoint's record is deleted: the others move up, and main sees
\* the last one twice.
Delete(i) ==
    /\ records' = [j \in DOMAIN records |->
                     records[IF j < i \/ j = Len(records) THEN j ELSE j + 1]]
    /\ moved' = TRUE

Consumer ==
    /\ phase # "returned"
    /\ writes < MaxWrites
    /\ \E i \in DOMAIN records : Report(i) \/ Delete(i)
    /\ writes' = writes + 1
    /\ UNCHANGED <<phase, crowded, lists, running, victims, toRemove, aim, size,
                   killed, handed>>

Returned == phase = "returned" /\ UNCHANGED vars

Next ==
    \/ FindPaused \/ TestPaused \/ MeasurePaused \/ TakePaused
    \/ DeletePaused \/ KillPaused
    \/ FindRecent \/ TakeRecent \/ MarkPaused \/ MarkCandidate
    \/ DeleteRecent \/ KillRecent
    \/ CountUncheckpointed \/ SelectLowest \/ TakeLowest \/ KillLowest
    \/ Consumer
    \/ Returned

Spec == Init /\ [][Next]_vars

-----------------------------------------------------------------------------
(***************************************************************************)
(* Properties                                                              *)
(***************************************************************************)

OneRecordPerPod ==
    \A i, j \in DOMAIN records : records[i].pod = records[j].pod => i = j

\* What the three phases together leave of the lists is what Scaling and
\* Checkpointing take a removal to leave: some entries may be missing, and of
\* three and more one may be shown twice, but nothing is added or reordered.
ReturnsRemnants ==
    phase = "returned" =>
        /\ pauseList \in Remnants(handed.pauseList)
        /\ candidates \in Remnants(handed.candidates)

\* Unless the node is short of memory, as long as no pod is listed as paused
\* twice and no consumer puts another pod's record where one was, a call kills no
\* pod twice, and what it has killed is no more in the pause list, whatever is
\* reported meanwhile: the indices the first phase collects are still right when
\* it deletes them, and the third phase does not find again what the first has
\* killed.  Where a record has moved between the scan and the read that takes it,
\* main kills another pod than it deletes, and may find that one again.
KilledOnce ==
    phase = "returned" /\ ~crowded /\ ~moved /\ IsInjective(handed.pauseList) =>
        /\ IsInjective(killed)
        /\ ToSet(killed) \cap ToSet(pauseList) = {}

\* Unless the node is short of memory, every kill takes exactly one entry off the
\* pause list, whatever the consumers write: the first phase collects its indices
\* in ascending order and deletes from the last to the first, so that no deletion
\* is past the end or hits an entry that has moved.  As long as no record is moved
\* either, the entries that are gone are those of pods that were killed.
OthersStayPaused ==
    phase = "returned" /\ ~crowded =>
        /\ Len(handed.pauseList) = Len(pauseList) + Len(killed)
        /\ ~moved =>
              ToSet(handed.pauseList) \subseteq ToSet(killed) \cup ToSet(pauseList)

\* When no consumer writes during the call and every pod has one record at most,
\* the third phase ends only when at most half of the pods are paused, or none of
\* those that are paused has a checkpoint and a priority below the sentinel,
\* although it shrinks the part of the list it looks at in every turn, whether it
\* deletes an entry or not.  A pod whose priority is NaN or beyond the sentinel is
\* never taken, however many are stuck; two records of one that has no checkpoint
\* count for two paused pods.
StuckResolved ==
    phase = "returned" /\ writes = 0 /\ OneRecordPerPod =>
        \/ Len(pauseList) <= Offset
        \/ \A j \in DOMAIN records :
              records[j].isCheckpoint /\ Priority[records[j].pod] < Sentinel =>
                 records[j].pod \notin ToSet(pauseList)
=============================================================================
