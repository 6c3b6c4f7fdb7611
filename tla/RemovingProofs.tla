--------------------------- MODULE RemovingProofs ----------------------------
(***************************************************************************)
(* Theorems about Removing, for any lists of pods, candidates and records, *)
(* whatever the priorities and the sentinel, and any number of writes of   *)
(* the consumers between any two reads of main.                            *)
(***************************************************************************)
EXTENDS Removing, SlicesProofs

(***************************************************************************)
(* The inductive invariant.                                                *)
(***************************************************************************)

\* The first phase, before it deletes; with an entry and its record in hand.
Early == phase \in {"paused", "testPaused", "measurePaused", "takePaused"}
Aiming == phase \in {"testPaused", "measurePaused", "takePaused"}

\* The second phase, with a record in hand.
Marking == phase \in {"takeRecent", "markPaused", "markCandidate"}

\* The third phase takes an entry only when more than half of the pods are
\* paused, and looks at no more entries than there are.
Typed ==
    /\ TypeOK
    /\ Early \/ Marking \/ phase \in {"killPaused", "recent", "killRecent"} =>
          size = 0
    /\ size <= Len(pauseList)
    /\ phase \in {"select", "take"} => size > Offset

\* The indices in hand and the collected ones are in the lists, and the second
\* phase collects none unless the node is short of memory.
Located ==
    /\ Aiming => aim[1] \in DOMAIN pauseList /\ aim[2] \in DOMAIN records
    /\ Marking => crowded /\ aim[2] \in DOMAIN records
    /\ phase = "take" => aim[1] \in 1 .. size /\ aim[2] \in DOMAIN records
    /\ Early \/ Marking \/ phase = "recent" =>
          /\ toRemovePause \in Seq(DOMAIN pauseList)
          /\ toRemoveCandidates \in Seq(DOMAIN candidates)
    /\ phase = "recent" /\ ~crowded =>
          toRemovePause = <<>> /\ toRemoveCandidates = <<>>

Remaining ==
    /\ pauseList \in Remnants(handed.pauseList)
    /\ candidates \in Remnants(handed.candidates)

\* The entries the first phase is done with.
Passed == IF Aiming THEN aim[1] - 1 ELSE aim[1]

\* It collects indices in ascending order, one for each victim: that of the
\* victim's entry, unless a record has moved.
Collected ==
    Early =>
        /\ killed = <<>>
        /\ pauseList = handed.pauseList
        /\ toRemovePause \in Seq(1 .. Passed)
        /\ IsAscending(toRemovePause)
        /\ Len(victims) = Len(toRemovePause)
        /\ ~moved => \A n \in DOMAIN victims :
                        victims[n] = pauseList[toRemovePause[n]]

\* Unless a record has moved, the entry and the record in hand belong together.
Matched ==
    ~moved /\ (Aiming \/ phase = "take") =>
        records[aim[2]].pod = pauseList[aim[1]]

\* What was chosen, killed or not, is different pods, none of them listed.
Chosen == killed \o victims

Gone ==
    ~Early /\ ~crowded /\ ~moved /\ IsInjective(handed.pauseList) =>
        /\ IsInjective(Chosen)
        /\ IsInjective(pauseList)
        /\ ToSet(Chosen) \cap ToSet(pauseList) = {}

\* What is no more listed was chosen.
NoneLost ==
    ~Early /\ ~crowded /\ ~moved =>
        ToSet(handed.pauseList) \subseteq ToSet(Chosen) \cup ToSet(pauseList)

\* As many entries are gone as pods were chosen, whatever has moved.
Balanced ==
    ~Early /\ ~crowded => Len(handed.pauseList) = Len(pauseList) + Len(Chosen)

Accounts == Remaining /\ Gone /\ NoneLost /\ Balanced

\* The third phase looks at the whole list until no entry is left to take.
NoneEligible ==
    \A j \in DOMAIN records :
       records[j].isCheckpoint /\ Priority[records[j].pod] < Sentinel =>
          records[j].pod \notin ToSet(pauseList)

Resolved ==
    writes = 0 /\ OneRecordPerPod =>
        /\ phase \in {"count", "select", "take"} =>
              Len(pauseList) = size \/ NoneEligible
        /\ phase \in {"killLowest", "returned"} =>
              Len(pauseList) <= Offset \/ NoneEligible

IInv == Typed /\ Located /\ Collected /\ Matched /\ Accounts /\ Resolved

-----------------------------------------------------------------------------
(***************************************************************************)
(* The indices the phases collect.                                         *)
(***************************************************************************)

LEMMA FirstIndexFound ==
    ASSUME NEW S, NEW list \in Seq(S), NEW p \in ToSet(list)
    PROVE  FirstIndex(p, list) \in DOMAIN list
<1> DEFINE T == {i \in DOMAIN list : list[i] = p}
<1>1. T \in SUBSET Nat /\ T # {}
  BY DEF ToSet
<1>2. PICK i \in T : \A j \in T : i <= j
  BY <1>1, SmallestElement
<1>3. \A j \in 1 .. i - 1 : j \in DOMAIN list /\ ~(i <= j)
  <2>1. DOMAIN list = 1 .. Len(list) /\ Len(list) \in Nat /\ i \in DOMAIN list
    BY <1>2
  <2> QED
    BY <2>1
<1>4. list[i] = p /\ \A j \in 1 .. i - 1 : list[j] # p
  BY <1>2, <1>3
<1> QED
  BY <1>2, <1>4 DEF FirstIndex

\* What is collected are indices of the list.
LEMMA WithFirstFound ==
    ASSUME NEW S, NEW list \in Seq(S), NEW indices \in Seq(DOMAIN list), NEW p
    PROVE  WithFirst(indices, p, list) \in Seq(DOMAIN list)
<1>1. CASE p \in ToSet(list)
  <2>1. FirstIndex(p, list) \in DOMAIN list
    BY <1>1, FirstIndexFound
  <2> QED
    BY <1>1, <2>1 DEF WithFirst
<1>2. CASE p \notin ToSet(list)
  BY <1>2 DEF WithFirst
<1> QED
  BY <1>1, <1>2

\* What was chosen are the entries at the indices.
IsPicked(list, indices, chosen) ==
    /\ Len(chosen) = Len(indices)
    /\ \A n \in DOMAIN chosen : chosen[n] = list[indices[n]]

\* Entries at ascending indices, and what is left when they are deleted.
LEMMA PickedAndRest ==
    ASSUME NEW S, NEW list \in Seq(S), NEW indices \in Seq(DOMAIN list),
           IsAscending(indices), NEW chosen \in Seq(S),
           IsPicked(list, indices, chosen),
           NEW rest, rest = DeleteIndices(list, indices)
    PROVE  /\ ToSet(list) \subseteq ToSet(chosen) \cup ToSet(rest)
           /\ IsInjective(list) =>
                 /\ IsInjective(chosen)
                 /\ IsInjective(rest)
                 /\ ToSet(chosen) \cap ToSet(rest) = {}
<1>1. PICK m \in Nat : /\ m = Len(indices)
                       /\ DOMAIN indices = 1 .. m /\ DOMAIN chosen = 1 .. m
  BY DEF IsPicked
<1>2. \A k \in 1 .. m : indices[k] \in DOMAIN list /\ chosen[k] = list[indices[k]]
  BY <1>1 DEF IsPicked
<1>3. ToSet(list) \subseteq ToSet(chosen) \cup ToSet(rest)
  <2>1. ASSUME NEW i \in DOMAIN list, i \notin ToSet(indices)
        PROVE  list[i] \in ToSet(rest)
    BY <2>1, AscendingKeeps
  <2>2. ASSUME NEW i \in DOMAIN list, i \in ToSet(indices)
        PROVE  list[i] \in ToSet(chosen)
    BY <1>1, <1>2, <2>2 DEF ToSet
  <2>3. \A p \in ToSet(list) : \E i \in DOMAIN list : p = list[i]
    BY DEF ToSet
  <2> QED
    BY <2>1, <2>2, <2>3
<1>4. ASSUME IsInjective(list), NEW a \in DOMAIN chosen, NEW b \in DOMAIN chosen,
             chosen[a] = chosen[b]
      PROVE  a = b
  <2>1. a \in 1 .. m /\ b \in 1 .. m /\ list[indices[a]] = list[indices[b]]
    BY <1>1, <1>2, <1>4
  <2>2. indices[a] = indices[b]
    BY <1>2, <1>4, <2>1 DEF IsInjective
  <2>3. indices[a] \in Nat /\ indices[b] \in Nat
    BY <1>2, <2>1
  <2>4. ~(a < b) /\ ~(b < a)
    BY <1>1, <2>1, <2>2, <2>3 DEF IsAscending
  <2> QED
    BY <2>1, <2>4
<1>5. ASSUME IsInjective(list)
      PROVE  IsInjective(rest) /\ ToSet(chosen) \cap ToSet(rest) = {}
  <2>1. /\ IsInjective(rest)
        /\ \A n \in DOMAIN indices : list[indices[n]] \notin ToSet(rest)
    BY <1>5, AscendingDeletions
  <2>2. \A p \in ToSet(chosen) : \E n \in DOMAIN indices : p = list[indices[n]]
    BY <1>1, <1>2 DEF ToSet
  <2> QED
    BY <2>1, <2>2
<1> QED
  BY <1>3, <1>4, <1>5 DEF IsInjective

\* With one record per pod, as many entries without a checkpoint as there are
\* entries means that none of them has one.
LEMMA CountIsRight ==
    ASSUME TypeOK, size <= Len(pauseList), OneRecordPerPod, NotCheckpointed = size
    PROVE  Checkpointed = {}
<1> SUFFICES ASSUME NEW m \in Checkpointed
             PROVE  FALSE
  OBVIOUS
<1> DEFINE D == Matches \ Checkpointed
           R == (1 .. size) \ {m[1]}
           f == [x \in D |-> x[1]]
<1>1. size \in Nat
  BY DEF TypeOK
<1>2. m \in Matches /\ m[1] \in 1 .. size
  BY DEF Matches, Checkpointed
<1>3. ASSUME NEW x \in Matches, NEW y \in Matches, x[1] = y[1]
      PROVE  x = y
  <2>1. /\ x \in (1 .. size) \X DOMAIN records /\ y \in (1 .. size) \X DOMAIN records
        /\ pauseList[x[1]] = records[x[2]].pod /\ pauseList[y[1]] = records[y[2]].pod
    BY DEF Matches
  <2>2. x[2] \in DOMAIN records /\ y[2] \in DOMAIN records
    BY <2>1
  <2>3. x[2] = y[2]
    BY <1>3, <2>1, <2>2 DEF OneRecordPerPod
  <2> QED
    BY <1>3, <2>1, <2>3
<1>4. \A x \in D : x[1] \in R
  BY <1>2, <1>3 DEF Matches
<1>5. f \in Injection(D, R)
  BY <1>3, <1>4 DEF Injection, IsInjective
<1>6. IsFiniteSet(1 .. size) /\ Cardinality(1 .. size) = size
  BY <1>1, FS_Interval
<1>7. IsFiniteSet(R) /\ Cardinality(R) = size - 1
  BY <1>2, <1>6, FS_RemoveElement
<1>8. IsFiniteSet(D)
  <2>1. DOMAIN records = 1 .. Len(records) /\ Len(records) \in Nat
    BY DEF TypeOK
  <2>2. IsFiniteSet(DOMAIN records)
    BY <2>1, FS_Interval
  <2>3. IsFiniteSet((1 .. size) \X DOMAIN records)
    BY <1>6, <2>2, FS_Product
  <2>4. D \in SUBSET ((1 .. size) \X DOMAIN records)
    BY DEF Matches
  <2> QED
    BY <2>3, <2>4, FS_Subset
<1>9. Cardinality(D) <= Cardinality(R)
  <2> HIDE DEF D, R, f
  <2> QED
    BY <1>5, <1>7, FS_Injection
<1>10. Cardinality(D) = size
  BY DEF NotCheckpointed
<1> QED
  BY <1>1, <1>7, <1>9, <1>10

\* When none is eligible and all are looked at, none is left.
LEMMA NoneLeft ==
    ASSUME TypeOK, ConstantsAssumption, size = Len(pauseList), Eligible = {}
    PROVE  NoneEligible
<1>1. DOMAIN pauseList = 1 .. size
  BY DEF TypeOK
<1> SUFFICES ASSUME NEW j \in DOMAIN records, records[j].isCheckpoint,
                    Priority[records[j].pod] < Sentinel,
                    records[j].pod \in ToSet(pauseList)
             PROVE  FALSE
  BY DEF NoneEligible
<1>2. PICK i \in 1 .. size : pauseList[i] = records[j].pod
  BY <1>1 DEF ToSet
<1>3. PICK m : m = <<i, j>>
  OBVIOUS
<1>4. m \in Matches
  BY <1>2, <1>3 DEF Matches
<1>5. m \in Checkpointed
  BY <1>3, <1>4 DEF Checkpointed
<1>6. m \in Eligible
  BY <1>2, <1>3, <1>5 DEF Eligible, PriorityOf
<1> QED
  BY <1>6

-----------------------------------------------------------------------------
(***************************************************************************)
(* What the phases have in common.                                         *)
(***************************************************************************)

\* The lists the invariant speaks of.
LEMMA TypedLists ==
    ASSUME IInv, ConstantsAssumption
    PROVE  /\ pauseList \in Seq(Pods) /\ candidates \in Seq(Pods)
           /\ killed \in Seq(Pods) /\ victims \in Seq(Pods)
           /\ records \in Seq(CheckpointContainer)
           /\ size \in Nat
           /\ handed.pauseList \in Seq(Pods) /\ handed.candidates \in Seq(Pods)
  BY DEF IInv, Typed, TypeOK, ConstantsAssumption

\* No list grows beyond what was handed over.
LEMMA ListsFit ==
    ASSUME IInv, ConstantsAssumption
    PROVE  /\ Len(pauseList) \in Nat /\ Len(pauseList) <= Len(handed.pauseList)
           /\ DOMAIN pauseList \subseteq 1 .. Len(handed.pauseList)
           /\ DOMAIN candidates \subseteq 1 .. Len(handed.candidates)
<1>1. /\ Len(pauseList) \in Nat /\ Len(pauseList) <= Len(handed.pauseList)
      /\ Len(candidates) \in Nat /\ Len(candidates) <= Len(handed.candidates)
  BY TypedLists, RemnantsLen DEF IInv, Accounts, Remaining
<1>2. /\ DOMAIN pauseList = 1 .. Len(pauseList)
      /\ DOMAIN candidates = 1 .. Len(candidates)
      /\ Len(handed.pauseList) \in Nat /\ Len(handed.candidates) \in Nat
  BY TypedLists
<1> QED
  BY <1>1, <1>2

\* A step that leaves the lists alone, and chooses none that it should delete.
LEMMA SameAccounts ==
    ASSUME IInv, UNCHANGED <<crowded, lists, handed, moved>>,
           Early' \/ crowded \/ (~Early /\ Chosen' = Chosen)
    PROVE  Accounts'
  BY DEF IInv, Accounts, Remaining, Gone, NoneLost, Balanced, lists

\* The lists after a step: remnants of what they were.
Shrunk == pauseList' \in Remnants(pauseList) /\ candidates' \in Remnants(candidates)

\* What holds of all lists that shrink.
LEMMA ShrunkLists ==
    ASSUME IInv, ConstantsAssumption, Shrunk, handed' = handed
    PROVE  /\ Remaining'
           /\ pauseList' \in Seq(Pods) /\ candidates' \in Seq(Pods)
           /\ ToSet(pauseList') \subseteq ToSet(pauseList)
           /\ NoneEligible /\ records' = records => NoneEligible'
<1>1. pauseList \in Seq(Pods) /\ candidates \in Seq(Pods)
  BY TypedLists
<1>2. pauseList' \in Seq(Pods) /\ candidates' \in Seq(Pods)
  BY <1>1, RemnantsOfSeq DEF Shrunk
<1>3. Remaining'
  <2>1. handed.pauseList \in Seq(Pods) /\ handed.candidates \in Seq(Pods)
    BY TypedLists
  <2>2. pauseList' \in Remnants(handed.pauseList)
    BY <2>1, RemnantsTransitive DEF Shrunk, IInv, Accounts, Remaining
  <2>3. candidates' \in Remnants(handed.candidates)
    BY <2>1, RemnantsTransitive DEF Shrunk, IInv, Accounts, Remaining
  <2> QED
    BY <2>2, <2>3 DEF Remaining
<1>4. ToSet(pauseList') \subseteq ToSet(pauseList)
  BY <1>1, RemnantEntries DEF Shrunk
<1> QED
  BY <1>2, <1>3, <1>4 DEF NoneEligible

\* The indices that were collected are deleted.
LEMMA DeletionShrinks ==
    ASSUME IInv, ConstantsAssumption, DeleteCollected, Early \/ phase = "recent"
    PROVE  Shrunk
<1>1. /\ toRemovePause \in Seq(DOMAIN pauseList)
      /\ toRemoveCandidates \in Seq(DOMAIN candidates)
  BY DEF IInv, Located
<1> QED
  BY <1>1, TypedLists, DeletionsLeaveRemnants DEF DeleteCollected, Shrunk

LEMMA OffsetNat ==
    ASSUME ConstantsAssumption
    PROVE  Offset \in Nat
<1>1. Cardinality(Pods) + OtherPods \in Nat
  BY FS_CardinalityType DEF ConstantsAssumption
<1> QED
  BY <1>1 DEF Offset

LEMMA ConcatEmpty ==
    ASSUME NEW S, NEW s \in Seq(S)
    PROVE  s \o <<>> = s
  OBVIOUS

LEMMA ConcatAppend ==
    ASSUME NEW S, NEW s \in Seq(S), NEW t \in Seq(S), NEW e \in S
    PROVE  s \o Append(t, e) = (s \o t) \o <<e>>
<1>1. PICK u : u = s \o Append(t, e)
  OBVIOUS
<1>2. PICK v : v = (s \o t) \o <<e>>
  OBVIOUS
<1>3. /\ u \in Seq(S) /\ Len(u) = Len(s) + (Len(t) + 1)
      /\ v \in Seq(S) /\ Len(v) = (Len(s) + Len(t)) + 1
      /\ Len(s) \in Nat /\ Len(t) \in Nat
  BY <1>1, <1>2
<1>4. ASSUME NEW k \in 1 .. Len(u)
      PROVE  u[k] = v[k]
  BY <1>1, <1>2, <1>3
<1> QED
  BY <1>1, <1>2, <1>3, <1>4

LEMMA ConcatLen ==
    ASSUME NEW S, NEW s \in Seq(S), NEW t \in Seq(S)
    PROVE  Len(s \o t) = Len(s) + Len(t)
  OBVIOUS

LEMMA EmptyConcat ==
    ASSUME NEW S, NEW s \in Seq(S)
    PROVE  <<>> \o s = s
  OBVIOUS

LEMMA AppendEntries ==
    ASSUME NEW S, NEW s \in Seq(S), NEW e \in S
    PROVE  /\ Len(Append(s, e)) = Len(s) + 1
           /\ DOMAIN Append(s, e) = 1 .. Len(s) + 1
           /\ Append(s, e)[Len(s) + 1] = e
           /\ \A n \in 1 .. Len(s) : Append(s, e)[n] = s[n]
  OBVIOUS

\* The pod of a record.
LEMMA RecordPod ==
    ASSUME NEW list \in Seq(CheckpointContainer), NEW j \in DOMAIN list
    PROVE  list[j].pod \in Pods
<1>1. list[j] \in CheckpointContainer
  OBVIOUS
<1> QED
  BY <1>1 DEF CheckpointContainer

-----------------------------------------------------------------------------
(***************************************************************************)
(* The steps of the first phase.                                           *)
(***************************************************************************)

\* The next entry, and its first record if it has one.
LEMMA FindPausedStep ==
    ASSUME IInv, ConstantsAssumption, FindPaused
    PROVE  IInv'
<1>1. PICK i \in Nat : i = aim[1] + 1 /\ aim[1] = i - 1
  BY DEF IInv, Typed, TypeOK
<1>2. /\ phase = "paused" /\ aim[1] < Len(pauseList)
      /\ \/ \E j \in DOMAIN records : /\ IsFirst(records, pauseList[i], j)
                                      /\ aim' = <<i, j>>
                                      /\ phase' = "testPaused"
         \/ aim' = <<i, 0>> /\ phase' = "paused"
      /\ UNCHANGED <<crowded, lists, running, victims, toRemove, size, records,
                     killed, handed, writes, moved>>
      /\ pauseList' = pauseList /\ candidates' = candidates
      /\ toRemovePause' = toRemovePause /\ toRemoveCandidates' = toRemoveCandidates
  BY <1>1 DEF FindPaused, lists, toRemove
<1>3. i \in DOMAIN pauseList /\ i \in 1 .. Len(handed.pauseList)
  <2>1. DOMAIN pauseList = 1 .. Len(pauseList) /\ Len(pauseList) \in Nat
    BY TypedLists
  <2>2. aim[1] \in Nat
    BY DEF IInv, Typed, TypeOK
  <2>3. i \in DOMAIN pauseList
    BY <1>1, <1>2, <2>1, <2>2
  <2> QED
    BY <2>3, ListsFit
<1>4. DOMAIN records = 1 .. Len(records) /\ Len(records) \in Nat
  BY TypedLists
<1>5. Early /\ ~Aiming /\ Early' /\ ~Marking' /\ Passed = i - 1
      /\ aim[1] = i - 1
  BY <1>1, <1>2 DEF Early, Aiming, Marking, Passed
<1>6. /\ aim' \in (0 .. Len(handed.pauseList)) \X (0 .. Len(records))
      /\ aim' # <<0, 0>> /\ aim'[1] = i
      /\ phase' \in {"paused", "testPaused"}
      /\ Aiming' => /\ aim'[2] \in DOMAIN records
                    /\ records[aim'[2]].pod = pauseList[i]
  <2>1. CASE \E j \in DOMAIN records : /\ IsFirst(records, pauseList[i], j)
                                      /\ aim' = <<i, j>>
                                      /\ phase' = "testPaused"
    BY <1>3, <1>4, <2>1 DEF IsFirst, IndicesOf
  <2>2. CASE aim' = <<i, 0>> /\ phase' = "paused"
    BY <1>3, <1>4, <2>2 DEF Aiming
  <2> QED
    BY <1>2, <2>1, <2>2
<1>7. Typed'
  <2>1. TypeOK'
    BY <1>2, <1>6 DEF IInv, Typed, TypeOK, Phases
  <2> QED
    BY <1>2, <1>5, <1>6, <2>1 DEF IInv, Typed
<1>8. Located'
  BY <1>2, <1>3, <1>5, <1>6 DEF IInv, Located
<1>9. Collected'
  <2>1. Passed' = IF Aiming' THEN i - 1 ELSE i
    BY <1>6 DEF Passed
  <2>2. /\ toRemovePause \in Seq(1 .. i - 1) /\ IsAscending(toRemovePause)
        /\ killed = <<>> /\ pauseList = handed.pauseList
        /\ Len(victims) = Len(toRemovePause)
        /\ ~moved => \A n \in DOMAIN victims :
                        victims[n] = pauseList[toRemovePause[n]]
    BY <1>5 DEF IInv, Collected
  <2>3. toRemovePause \in Seq(1 .. i)
    <3>1. 1 .. i - 1 \subseteq 1 .. i
      BY <1>1
    <3> QED
      BY <2>2, <3>1, SeqMonotonic
  <2>4. toRemovePause \in Seq(1 .. Passed')
    BY <2>1, <2>2, <2>3
  <2> QED
    BY <1>2, <2>2, <2>4 DEF Collected
<1>10. Matched'
  BY <1>2, <1>6 DEF Matched
<1>11. Accounts'
  BY <1>2, <1>5, SameAccounts
<1>12. Resolved'
  BY <1>6 DEF Resolved
<1> QED
  BY <1>7, <1>8, <1>9, <1>10, <1>11, <1>12 DEF IInv

\* A record that is read at the index goes on being the one in hand, or the loop
\* goes on to the next entry.
LEMMA ReadPausedStep ==
    ASSUME IInv, ConstantsAssumption, TestPaused \/ MeasurePaused
    PROVE  IInv'
<1>1. /\ phase \in {"testPaused", "measurePaused"}
      /\ phase' \in {"measurePaused", "takePaused", "paused"}
      /\ UNCHANGED <<crowded, lists, running, victims, toRemove, aim, size, records,
                     killed, handed, writes, moved>>
      /\ pauseList' = pauseList /\ candidates' = candidates
      /\ toRemovePause' = toRemovePause /\ toRemoveCandidates' = toRemoveCandidates
  BY DEF TestPaused, MeasurePaused, lists, toRemove
<1>2. Early /\ Aiming /\ Early' /\ ~Marking'
  BY <1>1 DEF Early, Aiming, Marking
<1>3. PICK i \in Nat \ {0} : i = aim[1] /\ i \in DOMAIN pauseList
  <2>1. aim[1] \in DOMAIN pauseList
    BY <1>2 DEF IInv, Located
  <2>2. DOMAIN pauseList = 1 .. Len(pauseList) /\ Len(pauseList) \in Nat
    BY TypedLists
  <2> QED
    BY <2>1, <2>2
<1>4. Typed'
  <2>1. aim # <<0, 0>>
    BY <1>3
  <2>2. TypeOK'
    BY <1>1, <2>1 DEF IInv, Typed, TypeOK, Phases
  <2> QED
    BY <1>1, <1>2, <2>2 DEF IInv, Typed
<1>5. Located'
  BY <1>1, <1>2 DEF IInv, Located
<1>6. Collected'
  <2>1. /\ toRemovePause \in Seq(1 .. i - 1) /\ IsAscending(toRemovePause)
        /\ killed = <<>> /\ pauseList = handed.pauseList
        /\ Len(victims) = Len(toRemovePause)
        /\ ~moved => \A n \in DOMAIN victims :
                        victims[n] = pauseList[toRemovePause[n]]
    BY <1>2, <1>3 DEF IInv, Collected, Passed
  <2>2. toRemovePause \in Seq(1 .. i)
    <3>1. 1 .. i - 1 \subseteq 1 .. i
      BY <1>3
    <3> QED
      BY <2>1, <3>1, SeqMonotonic
  <2>3. Passed' = IF Aiming' THEN i - 1 ELSE i
    BY <1>1, <1>3 DEF Passed
  <2>4. toRemovePause \in Seq(1 .. Passed')
    BY <2>1, <2>2, <2>3
  <2> QED
    BY <1>1, <2>1, <2>4 DEF Collected
<1>7. Matched'
  BY <1>1, <1>2 DEF IInv, Matched
<1>8. Accounts'
  BY <1>1, <1>2, SameAccounts
<1>9. Resolved'
  BY <1>1 DEF Resolved
<1> QED
  BY <1>4, <1>5, <1>6, <1>7, <1>8, <1>9 DEF IInv

\* The pod of the record in hand is chosen, with the entry's index.
LEMMA TakePausedStep ==
    ASSUME IInv, ConstantsAssumption, TakePaused
    PROVE  IInv'
<1>1. PICK i : i = aim[1]
  OBVIOUS
<1>2. /\ phase = "takePaused" /\ phase' = "paused"
      /\ victims' = Append(victims, records[aim[2]].pod)
      /\ toRemovePause' = Append(toRemovePause, i)
      /\ toRemoveCandidates' =
            WithFirst(toRemoveCandidates, pauseList[i], candidates)
      /\ UNCHANGED <<crowded, lists, running, aim, size, records, killed, handed,
                     writes, moved>>
      /\ pauseList' = pauseList /\ candidates' = candidates
  BY <1>1 DEF TakePaused, lists
<1>3. Early /\ Aiming /\ Early' /\ ~Aiming' /\ ~Marking'
  BY <1>2 DEF Early, Aiming, Marking
<1>4. /\ i \in DOMAIN pauseList /\ i \in Nat \ {0} /\ aim[2] \in DOMAIN records
      /\ toRemovePause \in Seq(DOMAIN pauseList)
      /\ toRemoveCandidates \in Seq(DOMAIN candidates)
  <2>1. /\ i \in DOMAIN pauseList /\ aim[2] \in DOMAIN records
        /\ toRemovePause \in Seq(DOMAIN pauseList)
        /\ toRemoveCandidates \in Seq(DOMAIN candidates)
    BY <1>1, <1>3 DEF IInv, Located
  <2>2. DOMAIN pauseList = 1 .. Len(pauseList) /\ Len(pauseList) \in Nat
    BY TypedLists
  <2> QED
    BY <2>1, <2>2
<1>5. PICK p \in Pods : p = records[aim[2]].pod
  BY <1>4, TypedLists, RecordPod
<1>6. /\ toRemovePause \in Seq(1 .. i - 1) /\ IsAscending(toRemovePause)
      /\ killed = <<>> /\ pauseList = handed.pauseList
      /\ Len(victims) = Len(toRemovePause)
      /\ ~moved => \A n \in DOMAIN victims :
                      victims[n] = pauseList[toRemovePause[n]]
  BY <1>1, <1>3 DEF IInv, Collected, Passed
<1>7. /\ toRemovePause' \in Seq(1 .. i) /\ IsAscending(toRemovePause')
  <2>1. i - 1 \in Nat /\ (i - 1) + 1 = i
    BY <1>4
  <2> QED
    BY <1>2, <1>6, <2>1, AppendAscending
<1>8. /\ toRemovePause' \in Seq(DOMAIN pauseList)
      /\ toRemoveCandidates' \in Seq(DOMAIN candidates)
  BY <1>2, <1>4, TypedLists, WithFirstFound
<1>9. victims' \in Seq(Pods)
  BY <1>2, <1>5, TypedLists
<1>10. Typed'
  <2>1. aim # <<0, 0>>
    BY <1>1, <1>4
  <2>2. /\ toRemovePause' \in Seq(1 .. Len(handed.pauseList))
        /\ toRemoveCandidates' \in Seq(1 .. Len(handed.candidates))
    BY <1>8, ListsFit, SeqMonotonic
  <2>3. TypeOK'
    BY <1>2, <1>9, <2>1, <2>2 DEF IInv, Typed, TypeOK, Phases
  <2> QED
    BY <1>2, <1>3, <2>3 DEF IInv, Typed
<1>11. Located'
  BY <1>2, <1>3, <1>8 DEF Located
<1>12. Collected'
  <2>1. Passed' = i
    BY <1>1, <1>2, <1>3 DEF Passed
  <2>2. PICK m \in Nat : /\ m = Len(victims) /\ m = Len(toRemovePause)
                         /\ DOMAIN victims = 1 .. m
    BY <1>6, TypedLists
  <2>3. /\ Len(victims') = m + 1 /\ Len(toRemovePause') = m + 1
        /\ DOMAIN victims' = 1 .. m + 1
        /\ victims'[m + 1] = p /\ toRemovePause'[m + 1] = i
        /\ \A n \in 1 .. m : /\ victims'[n] = victims[n]
                            /\ toRemovePause'[n] = toRemovePause[n]
    BY <1>2, <1>4, <1>5, <2>2, TypedLists, AppendEntries
  <2>4. ~moved => p = pauseList[i]
    BY <1>1, <1>3, <1>5 DEF IInv, Matched
  <2>5. ASSUME ~moved, NEW n \in DOMAIN victims'
        PROVE  victims'[n] = pauseList[toRemovePause'[n]]
    <3>1. CASE n = m + 1
      BY <2>3, <2>4, <2>5, <3>1
    <3>2. CASE n # m + 1
      <4>1. n \in 1 .. m /\ n \in DOMAIN victims
        BY <2>2, <2>3, <3>2
      <4> QED
        BY <1>6, <2>3, <2>5, <4>1
    <3> QED
      BY <3>1, <3>2
  <2> QED
    BY <1>2, <1>6, <1>7, <2>1, <2>3, <2>5 DEF Collected
<1>13. Matched'
  BY <1>2, <1>3 DEF Matched
<1>14. Accounts'
  BY <1>2, <1>3, SameAccounts
<1>15. Resolved'
  BY <1>2 DEF Resolved
<1> QED
  BY <1>10, <1>11, <1>12, <1>13, <1>14, <1>15 DEF IInv

\* The indices are deleted from the list they were collected in.
LEMMA DeletePausedStep ==
    ASSUME IInv, ConstantsAssumption, DeletePaused
    PROVE  IInv'
<1>1. /\ phase = "paused" /\ phase' = "killPaused" /\ DeleteCollected
      /\ aim' = <<0, 0>>
      /\ UNCHANGED <<crowded, running, victims, toRemove, size, records, killed,
                     handed, writes, moved>>
      /\ pauseList' = DeleteIndices(pauseList, toRemovePause)
      /\ toRemovePause' = toRemovePause /\ toRemoveCandidates' = toRemoveCandidates
  BY DEF DeletePaused, DeleteCollected, toRemove
<1>2. Early /\ ~Early' /\ ~Aiming' /\ ~Marking'
  BY <1>1 DEF Early, Aiming, Marking
<1>3. Shrunk
  BY <1>1, <1>2, DeletionShrinks
<1>4. /\ Remaining' /\ pauseList' \in Seq(Pods) /\ candidates' \in Seq(Pods)
  BY <1>1, <1>3, ShrunkLists
<1>5. /\ IsAscending(toRemovePause) /\ toRemovePause \in Seq(DOMAIN pauseList)
      /\ killed = <<>> /\ pauseList = handed.pauseList
      /\ Len(victims) = Len(toRemovePause)
      /\ ~moved => \A n \in DOMAIN victims :
                      victims[n] = pauseList[toRemovePause[n]]
  BY <1>2 DEF IInv, Collected, Located
<1>6. Chosen' = victims
  <2>1. killed' = <<>> /\ victims' = victims
    BY <1>1, <1>5
  <2> QED
    BY <2>1, TypedLists, EmptyConcat DEF Chosen
<1>7. ASSUME ~moved
      PROVE  /\ ToSet(pauseList) \subseteq ToSet(victims) \cup ToSet(pauseList')
             /\ IsInjective(pauseList) =>
                   /\ IsInjective(victims)
                   /\ IsInjective(pauseList')
                   /\ ToSet(victims) \cap ToSet(pauseList') = {}
  <2>1. PICK rest : rest = DeleteIndices(pauseList, toRemovePause)
    OBVIOUS
  <2>2. /\ pauseList \in Seq(Pods) /\ victims \in Seq(Pods)
        /\ IsPicked(pauseList, toRemovePause, victims)
    BY <1>5, <1>7, TypedLists DEF IsPicked
  <2>3. /\ ToSet(pauseList) \subseteq ToSet(victims) \cup ToSet(rest)
        /\ IsInjective(pauseList) =>
              /\ IsInjective(victims)
              /\ IsInjective(rest)
              /\ ToSet(victims) \cap ToSet(rest) = {}
    BY <1>5, <2>1, <2>2, PickedAndRest
  <2> QED
    BY <1>1, <2>1, <2>3
<1>8. Gone' /\ NoneLost'
  BY <1>1, <1>5, <1>6, <1>7 DEF Gone, NoneLost
<1>9. Balanced'
  <2>1. Len(pauseList) = Len(pauseList') + Len(toRemovePause)
    BY <1>1, <1>5, TypedLists, AscendingLen
  <2> QED
    BY <1>1, <1>5, <1>6, <2>1 DEF Balanced
<1>10. Typed'
  <2>1. size = 0 /\ size' = 0
    BY <1>1, <1>2 DEF IInv, Typed
  <2>2. aim' \in (0 .. Len(handed.pauseList)) \X (0 .. Len(records))
    <3>1. Len(handed.pauseList) \in Nat /\ Len(records) \in Nat
      BY TypedLists
    <3>2. 0 \in 0 .. Len(handed.pauseList) /\ 0 \in 0 .. Len(records)
      BY <3>1
    <3> QED
      BY <1>1, <3>2
  <2>3. TypeOK'
    BY <1>1, <1>4, <2>2 DEF IInv, Typed, TypeOK, Phases
  <2>4. Len(pauseList') \in Nat
    BY <1>4
  <2> QED
    BY <1>1, <2>1, <2>3, <2>4 DEF Typed
<1>11. Located' /\ Collected' /\ Matched' /\ Resolved'
  BY <1>1, <1>2 DEF Located, Collected, Matched, Resolved
<1> QED
  BY <1>4, <1>8, <1>9, <1>10, <1>11 DEF IInv, Accounts

\* A kill moves what was chosen to what was killed.
LEMMA KillKeepsChosen ==
    ASSUME IInv, ConstantsAssumption, Kill, ~Early,
           UNCHANGED <<crowded, lists, handed, moved>>
    PROVE  /\ Accounts'
           /\ killed' \in Seq(Pods) /\ victims' = <<>>
           /\ running \subseteq Pods => running' \subseteq Pods
<1>1. killed' \in Seq(Pods) /\ killed' \o <<>> = killed'
  <2>1. killed' \in Seq(Pods)
    BY TypedLists, ConcatInjective DEF Kill
  <2> QED
    BY <2>1, ConcatEmpty
<1>2. Chosen' = Chosen
  BY <1>1 DEF Kill, Chosen
<1>3. Accounts'
  BY <1>2, SameAccounts
<1> QED
  BY <1>1, <1>3 DEF Kill

LEMMA KillPausedStep ==
    ASSUME IInv, ConstantsAssumption, KillPaused
    PROVE  IInv'
<1>1. /\ phase = "killPaused" /\ phase' = "recent" /\ Kill
      /\ toRemovePause' = <<>> /\ toRemoveCandidates' = <<>>
      /\ UNCHANGED <<crowded, lists, aim, size, records, handed, writes, moved>>
      /\ pauseList' = pauseList /\ candidates' = candidates
  BY DEF KillPaused, lists
<1>2. ~Early /\ ~Early' /\ ~Aiming' /\ ~Marking'
  BY <1>1 DEF Early, Aiming, Marking
<1>3. Accounts' /\ killed' \in Seq(Pods) /\ victims' = <<>>
  BY <1>1, <1>2, KillKeepsChosen
<1>4. running' \subseteq Pods
  BY <1>1, <1>2, KillKeepsChosen DEF IInv, Typed, TypeOK
<1>5. Typed'
  <2>1. /\ toRemovePause' \in Seq(1 .. Len(handed.pauseList))
        /\ toRemoveCandidates' \in Seq(1 .. Len(handed.candidates))
        /\ victims' \in Seq(Pods)
    BY <1>1, <1>3, EmptySeq
  <2>2. TypeOK'
    BY <1>1, <1>3, <1>4, <2>1 DEF IInv, Typed, TypeOK, Phases
  <2> QED
    BY <1>1, <1>2, <2>2 DEF IInv, Typed
<1>6. Located'
  BY <1>1, <1>2, EmptySeq DEF Located
<1>7. Collected' /\ Matched' /\ Resolved'
  BY <1>1, <1>2 DEF Collected, Matched, Resolved
<1> QED
  BY <1>3, <1>5, <1>6, <1>7 DEF IInv

-----------------------------------------------------------------------------
(***************************************************************************)
(* The steps of the second phase.                                          *)
(***************************************************************************)

\* Any records, found in the lists in any order, but only when the node is short
\* of memory.
LEMMA FindRecentStep ==
    ASSUME IInv, ConstantsAssumption, FindRecent
    PROVE  IInv'
<1>1. /\ phase = "recent" /\ crowded /\ aim[2] < Len(records)
      /\ aim' = <<0, aim[2] + 1>>
      /\ phase' \in {"takeRecent", "recent"}
      /\ UNCHANGED <<crowded, lists, running, victims, toRemove, size, records,
                     killed, handed, writes, moved>>
      /\ pauseList' = pauseList /\ candidates' = candidates
      /\ toRemovePause' = toRemovePause /\ toRemoveCandidates' = toRemoveCandidates
  BY DEF FindRecent, lists, toRemove
<1>2. ~Early' /\ ~Aiming'
  BY <1>1 DEF Early, Aiming
<1>3. PICK j \in Nat \ {0} : /\ j = aim[2] + 1 /\ j \in 1 .. Len(records)
                             /\ j \in DOMAIN records
  <2>1. aim[2] \in Nat
    BY DEF IInv, Typed, TypeOK
  <2>2. DOMAIN records = 1 .. Len(records) /\ Len(records) \in Nat
    BY TypedLists
  <2> QED
    BY <1>1, <2>1, <2>2
<1>4. aim' = <<0, j>>
  BY <1>1, <1>3
<1>5. /\ aim' \in (0 .. Len(handed.pauseList)) \X (0 .. Len(records))
      /\ aim' # <<0, 0>>
  <2>1. Len(handed.pauseList) \in Nat /\ Len(records) \in Nat
    BY TypedLists
  <2>2. 0 \in 0 .. Len(handed.pauseList) /\ j \in 0 .. Len(records)
    BY <1>3, <2>1
  <2> QED
    BY <1>3, <1>4, <2>2
<1>6. Typed'
  <2>1. TypeOK'
    BY <1>1, <1>5 DEF IInv, Typed, TypeOK, Phases
  <2> QED
    BY <1>1, <2>1 DEF IInv, Typed
<1>7. Located'
  BY <1>1, <1>2, <1>3, <1>4 DEF IInv, Located
<1>8. Accounts'
  BY <1>1, SameAccounts
<1>9. Collected' /\ Matched' /\ Resolved'
  BY <1>1, <1>2 DEF Collected, Matched, Resolved
<1> QED
  BY <1>6, <1>7, <1>8, <1>9 DEF IInv

\* The pod of the record in hand is chosen, and what is at its index a step later
\* looked up in the lists.
LEMMA MarkRecentStep ==
    ASSUME IInv, ConstantsAssumption, TakeRecent \/ MarkPaused \/ MarkCandidate
    PROVE  IInv'
<1>1. /\ Marking
      /\ phase' \in {"markPaused", "markCandidate", "recent"}
      /\ UNCHANGED <<crowded, lists, running, aim, size, records, killed, handed,
                     writes, moved>>
      /\ pauseList' = pauseList /\ candidates' = candidates
  BY DEF TakeRecent, MarkPaused, MarkCandidate, Marking, lists
<1>2. ~Early' /\ ~Aiming'
  BY <1>1 DEF Early, Aiming
<1>3. /\ crowded /\ aim[2] \in DOMAIN records
      /\ toRemovePause \in Seq(DOMAIN pauseList)
      /\ toRemoveCandidates \in Seq(DOMAIN candidates)
  BY <1>1 DEF IInv, Located
<1>4. aim # <<0, 0>>
  <2>1. DOMAIN records = 1 .. Len(records) /\ Len(records) \in Nat
    BY TypedLists
  <2> QED
    BY <1>3, <2>1
<1>5. /\ victims' \in Seq(Pods)
      /\ toRemovePause' \in Seq(DOMAIN pauseList)
      /\ toRemoveCandidates' \in Seq(DOMAIN candidates)
  <2>1. CASE TakeRecent
    <3>1. PICK p \in Pods : p = records[aim[2]].pod
      BY <1>3, TypedLists, RecordPod
    <3>2. victims' = Append(victims, p) /\ UNCHANGED toRemove
      BY <2>1, <3>1 DEF TakeRecent
    <3> QED
      BY <1>3, <3>2, TypedLists DEF toRemove
  <2>2. CASE MarkPaused
    BY <1>3, <2>2, TypedLists, WithFirstFound DEF MarkPaused
  <2>3. CASE MarkCandidate
    BY <1>3, <2>3, TypedLists, WithFirstFound DEF MarkCandidate
  <2> QED
    BY <2>1, <2>2, <2>3
<1>6. Typed'
  <2>1. /\ toRemovePause' \in Seq(1 .. Len(handed.pauseList))
        /\ toRemoveCandidates' \in Seq(1 .. Len(handed.candidates))
    BY <1>5, ListsFit, SeqMonotonic
  <2>2. TypeOK'
    BY <1>1, <1>4, <1>5, <2>1 DEF IInv, Typed, TypeOK, Phases
  <2> QED
    BY <1>1, <2>2 DEF IInv, Typed
<1>7. Located'
  BY <1>1, <1>2, <1>3, <1>5 DEF Located
<1>8. Accounts'
  BY <1>1, <1>3, SameAccounts
<1>9. Collected' /\ Matched' /\ Resolved'
  BY <1>1, <1>2 DEF Collected, Matched, Resolved
<1> QED
  BY <1>6, <1>7, <1>8, <1>9 DEF IInv

\* With enough memory there is nothing to delete.
LEMMA DeleteRecentStep ==
    ASSUME IInv, ConstantsAssumption, DeleteRecent
    PROVE  IInv'
<1>1. /\ phase = "recent" /\ phase' = "killRecent" /\ DeleteCollected
      /\ aim' = <<0, 0>>
      /\ UNCHANGED <<crowded, running, victims, toRemove, size, records, killed,
                     handed, writes, moved>>
      /\ toRemovePause' = toRemovePause /\ toRemoveCandidates' = toRemoveCandidates
  BY DEF DeleteRecent, toRemove
<1>2. ~Early /\ ~Early' /\ ~Aiming' /\ ~Marking'
  BY <1>1 DEF Early, Aiming, Marking
<1>3. Shrunk
  BY <1>1, DeletionShrinks
<1>4. /\ Remaining' /\ pauseList' \in Seq(Pods) /\ candidates' \in Seq(Pods)
  BY <1>1, <1>3, ShrunkLists
<1>5. Gone' /\ NoneLost' /\ Balanced'
  <2>1. CASE crowded
    BY <1>1, <2>1 DEF Gone, NoneLost, Balanced
  <2>2. CASE ~crowded
    <3>1. toRemovePause = <<>> /\ toRemoveCandidates = <<>>
      BY <1>1, <2>2 DEF IInv, Located
    <3>2. pauseList' = pauseList /\ candidates' = candidates
      BY <1>1, <3>1, TypedLists, NothingDeleted DEF DeleteCollected
    <3>3. Chosen' = Chosen
      BY <1>1 DEF Chosen
    <3> QED
      BY <1>1, <1>2, <3>2, <3>3, SameAccounts DEF lists, Accounts
  <2> QED
    BY <2>1, <2>2 DEF IInv, Typed, TypeOK
<1>6. Typed'
  <2>1. size = 0 /\ size' = 0
    BY <1>1 DEF IInv, Typed
  <2>2. aim' \in (0 .. Len(handed.pauseList)) \X (0 .. Len(records))
    <3>1. Len(handed.pauseList) \in Nat /\ Len(records) \in Nat
      BY TypedLists
    <3>2. 0 \in 0 .. Len(handed.pauseList) /\ 0 \in 0 .. Len(records)
      BY <3>1
    <3> QED
      BY <1>1, <3>2
  <2>3. TypeOK'
    BY <1>1, <1>4, <2>2 DEF IInv, Typed, TypeOK, Phases
  <2>4. Len(pauseList') \in Nat
    BY <1>4
  <2> QED
    BY <1>1, <2>1, <2>3, <2>4 DEF Typed
<1>7. Located' /\ Collected' /\ Matched' /\ Resolved'
  BY <1>1, <1>2 DEF Located, Collected, Matched, Resolved
<1> QED
  BY <1>4, <1>5, <1>6, <1>7 DEF IInv, Accounts

LEMMA KillRecentStep ==
    ASSUME IInv, ConstantsAssumption, KillRecent
    PROVE  IInv'
<1>1. /\ phase = "killRecent" /\ phase' = "count" /\ Kill
      /\ size' = Len(pauseList)
      /\ UNCHANGED <<crowded, lists, toRemove, aim, records, handed, writes, moved>>
      /\ pauseList' = pauseList /\ candidates' = candidates
      /\ toRemovePause' = toRemovePause /\ toRemoveCandidates' = toRemoveCandidates
  BY DEF KillRecent, lists, toRemove
<1>2. ~Early /\ ~Early' /\ ~Aiming' /\ ~Marking'
  BY <1>1 DEF Early, Aiming, Marking
<1>3. Accounts' /\ killed' \in Seq(Pods) /\ victims' = <<>>
  BY <1>1, <1>2, KillKeepsChosen
<1>4. running' \subseteq Pods
  BY <1>1, <1>2, KillKeepsChosen DEF IInv, Typed, TypeOK
<1>5. size' \in 0 .. Len(handed'.pauseList) /\ size' <= Len(pauseList')
  <2>1. Len(handed.pauseList) \in Nat
    BY TypedLists
  <2> QED
    BY <1>1, <2>1, ListsFit
<1>6. Typed'
  <2>1. victims' \in Seq(Pods)
    BY <1>3, EmptySeq
  <2>2. TypeOK'
    BY <1>1, <1>3, <1>4, <1>5, <2>1 DEF IInv, Typed, TypeOK, Phases
  <2> QED
    BY <1>1, <1>2, <1>5, <2>2 DEF Typed
<1>7. Located' /\ Collected' /\ Matched' /\ Resolved'
  BY <1>1, <1>2 DEF Located, Collected, Matched, Resolved
<1> QED
  BY <1>3, <1>6, <1>7 DEF IInv

-----------------------------------------------------------------------------
(***************************************************************************)
(* The steps of the third phase.                                           *)
(***************************************************************************)

\* It stops when at most half of the pods are paused, or all that it looks at
\* have no checkpoint.
LEMMA CountUncheckpointedStep ==
    ASSUME IInv, ConstantsAssumption, CountUncheckpointed
    PROVE  IInv'
<1>1. /\ phase = "count"
      /\ phase' = IF size <= Offset \/ NotCheckpointed = size
                  THEN "killLowest" ELSE "select"
      /\ UNCHANGED <<crowded, lists, running, victims, toRemove, aim, size, records,
                     killed, handed, writes, moved>>
      /\ pauseList' = pauseList /\ candidates' = candidates
      /\ toRemovePause' = toRemovePause /\ toRemoveCandidates' = toRemoveCandidates
  BY DEF CountUncheckpointed, lists, toRemove
<1>2. phase' \in {"killLowest", "select"}
  BY <1>1
<1>3. ~Early /\ ~Early' /\ ~Aiming' /\ ~Marking'
  BY <1>1, <1>2 DEF Early, Aiming, Marking
<1>4. size \in Nat /\ Offset \in Nat
  BY TypedLists, OffsetNat
<1>5. Chosen' = Chosen
  BY <1>1 DEF Chosen
<1>6. Accounts'
  BY <1>1, <1>3, <1>5, SameAccounts
<1>7. Offset' = Offset
  BY DEF Offset
<1>8. phase' = "select" => size > Offset
  BY <1>1, <1>4
<1>9. Typed'
  <2>1. TypeOK'
    BY <1>1, <1>2 DEF IInv, Typed, TypeOK, Phases
  <2> QED
    BY <1>1, <1>2, <1>3, <1>7, <1>8, <2>1 DEF IInv, Typed
<1>10. Located' /\ Collected' /\ Matched'
  BY <1>2, <1>3 DEF Located, Collected, Matched
<1>11. ASSUME writes = 0, OneRecordPerPod
       PROVE  /\ Len(pauseList) = size \/ NoneEligible
              /\ phase' = "killLowest" => Len(pauseList) <= Offset \/ NoneEligible
  <2>1. Len(pauseList) = size \/ NoneEligible
    BY <1>1, <1>11 DEF IInv, Resolved
  <2>2. ASSUME phase' = "killLowest", Len(pauseList) = size
        PROVE  Len(pauseList) <= Offset \/ NoneEligible
    <3>1. CASE size <= Offset
      BY <2>2, <3>1
    <3>2. CASE NotCheckpointed = size
      <4>1. TypeOK /\ size <= Len(pauseList)
        BY DEF IInv, Typed
      <4>2. Checkpointed = {}
        BY <1>11, <3>2, <4>1, CountIsRight
      <4>3. Eligible = {}
        BY <4>2 DEF Eligible
      <4> QED
        BY <2>2, <4>1, <4>3, NoneLeft
    <3> QED
      BY <1>1, <2>2, <3>1, <3>2
  <2> QED
    BY <2>1, <2>2
<1>12. Resolved'
  BY <1>1, <1>2, <1>7, <1>11 DEF Resolved, OneRecordPerPod, NoneEligible
<1> QED
  BY <1>6, <1>9, <1>10, <1>12 DEF IInv

\* It finds an entry and a record of its pod, or none and looks at one entry less.
LEMMA SelectLowestStep ==
    ASSUME IInv, ConstantsAssumption, SelectLowest
    PROVE  IInv'
<1>1. /\ phase = "select"
      /\ UNCHANGED <<crowded, lists, running, victims, toRemove, records, killed,
                     handed, writes, moved>>
      /\ pauseList' = pauseList /\ candidates' = candidates
      /\ toRemovePause' = toRemovePause /\ toRemoveCandidates' = toRemoveCandidates
      /\ \/ \E m \in Eligible : aim' = m /\ phase' = "take" /\ size' = size
         \/ Eligible = {} /\ phase' = "count" /\ size' = size - 1 /\ aim' = aim
  BY DEF SelectLowest, lists, toRemove
<1>2. phase' \in {"take", "count"}
  BY <1>1
<1>3. ~Early /\ ~Early' /\ ~Aiming' /\ ~Marking'
  BY <1>1, <1>2 DEF Early, Aiming, Marking
<1>4. /\ size \in Nat /\ Offset \in Nat /\ size > Offset
      /\ size <= Len(pauseList) /\ size \in 0 .. Len(handed.pauseList)
      /\ Len(handed.pauseList) \in Nat /\ Len(pauseList) \in Nat
  BY <1>1, TypedLists, OffsetNat DEF IInv, Typed, TypeOK
<1>5. Chosen' = Chosen
  BY <1>1 DEF Chosen
<1>6. Accounts'
  BY <1>1, <1>3, <1>5, SameAccounts
<1>7. Offset' = Offset
  BY DEF Offset
<1>8. CASE \E m \in Eligible : aim' = m /\ phase' = "take" /\ size' = size
  <2>1. PICK m \in Eligible : aim' = m /\ phase' = "take" /\ size' = size
    BY <1>8
  <2>2. /\ m \in (1 .. size) \X DOMAIN records
        /\ pauseList[m[1]] = records[m[2]].pod
    BY DEF Eligible, Checkpointed, Matches
  <2>3. aim' \in (0 .. Len(handed.pauseList)) \X (0 .. Len(records))
    <3>1. DOMAIN records = 1 .. Len(records) /\ Len(records) \in Nat
      BY TypedLists
    <3>2. 1 .. size \subseteq 0 .. Len(handed.pauseList)
      BY <1>4
    <3>3. DOMAIN records \subseteq 0 .. Len(records)
      BY <3>1
    <3> QED
      BY <2>1, <2>2, <3>2, <3>3
  <2>4. Typed'
    <3>1. TypeOK'
      BY <1>1, <2>1, <2>3 DEF IInv, Typed, TypeOK, Phases
    <3> QED
      BY <1>1, <1>3, <1>4, <1>7, <2>1, <3>1 DEF IInv, Typed
  <2>5. Located' /\ Collected'
    BY <1>1, <1>3, <2>1, <2>2 DEF Located, Collected
  <2>6. Matched'
    BY <1>1, <1>3, <2>1, <2>2 DEF Matched
  <2>7. Resolved'
    BY <1>1, <2>1 DEF IInv, Resolved, OneRecordPerPod, NoneEligible
  <2> QED
    BY <1>6, <2>4, <2>5, <2>6, <2>7 DEF IInv
<1>9. CASE Eligible = {} /\ phase' = "count" /\ size' = size - 1 /\ aim' = aim
  <2>1. size' \in 0 .. Len(handed.pauseList) /\ size' <= Len(pauseList)
    BY <1>4, <1>9
  <2>2. Typed'
    <3>1. TypeOK'
      BY <1>1, <1>9, <2>1 DEF IInv, Typed, TypeOK, Phases
    <3> QED
      BY <1>1, <1>3, <1>9, <2>1, <3>1 DEF Typed
  <2>3. Located' /\ Collected' /\ Matched'
    BY <1>3, <1>9 DEF Located, Collected, Matched
  <2>4. Resolved'
    <3> SUFFICES ASSUME writes = 0, OneRecordPerPod
                 PROVE  NoneEligible'
      BY <1>1, <1>9 DEF Resolved, OneRecordPerPod
    <3>1. Len(pauseList) = size \/ NoneEligible
      BY <1>1 DEF IInv, Resolved
    <3>2. NoneEligible
      BY <1>9, <3>1, NoneLeft DEF IInv, Typed
    <3> QED
      BY <1>1, <3>2 DEF NoneEligible
  <2> QED
    BY <1>6, <2>2, <2>3, <2>4 DEF IInv
<1> QED
  BY <1>1, <1>8, <1>9

\* The victim is the pod of the record, the entry goes from the list; they belong
\* together unless a record has moved.
LEMMA TakeOne ==
    ASSUME IInv, ConstantsAssumption, TakeLowest
    PROVE  /\ Shrunk /\ Accounts'
           /\ victims' \in Seq(Pods)
           /\ Len(pauseList') = Len(pauseList) - 1
<1>1. phase = "take" /\ ~Early
  BY DEF TakeLowest, Early
<1>2. PICK i \in 1 .. size : i = aim[1]
  BY <1>1 DEF IInv, Located
<1>3. /\ pauseList \in Seq(Pods) /\ candidates \in Seq(Pods)
      /\ killed \in Seq(Pods) /\ victims \in Seq(Pods)
  BY TypedLists
<1>4. i \in DOMAIN pauseList
  BY <1>3 DEF IInv, Typed, TypeOK
<1>5. PICK q \in Pods : q = records[aim[2]].pod
  BY <1>1, TypedLists, RecordPod DEF IInv, Located
<1>6. ~moved => q = pauseList[i]
  BY <1>1, <1>2, <1>5 DEF IInv, Matched
<1>7. /\ victims' = Append(victims, q)
      /\ candidates' = RemoveFirst(candidates, pauseList[i])
      /\ pauseList' = RemoveAt(pauseList, i)
      /\ UNCHANGED <<crowded, killed, handed, moved>>
  BY <1>2, <1>5 DEF TakeLowest
<1>8. Shrunk
  BY <1>3, <1>4, <1>7, RemoveAtRemnant, RemoveFirstRemnant DEF Shrunk
<1>9. victims' \in Seq(Pods)
  BY <1>3, <1>7
<1>10. Len(pauseList') = Len(pauseList) - 1
  BY <1>3, <1>4, <1>7, RemoveAtEntries
<1>11. PICK new : new = <<q>>
  OBVIOUS
<1>12. new \in Seq(Pods) /\ DOMAIN new = {1} /\ new[1] = q /\ Len(new) = 1
  BY <1>11
<1>13. IsInjective(new) /\ ToSet(new) = {q}
  BY <1>12 DEF IsInjective, ToSet
<1>14. Chosen \in Seq(Pods) /\ Chosen' = Chosen \o new
  <2>1. Chosen \in Seq(Pods)
    BY <1>3, ConcatInjective DEF Chosen
  <2>2. Chosen' = Chosen \o new
    BY <1>3, <1>7, <1>11, ConcatAppend DEF Chosen
  <2> QED
    BY <2>1, <2>2
<1> HIDE DEF Chosen
<1>15. /\ ToSet(Chosen') = ToSet(Chosen) \cup {q}
       /\ Len(Chosen') = Len(Chosen) + 1
  <2>1. ToSet(Chosen') = ToSet(Chosen) \cup {q}
    BY <1>12, <1>13, <1>14, ConcatInjective
  <2>2. Len(Chosen') = Len(Chosen) + 1
    BY <1>12, <1>14, ConcatLen
  <2> QED
    BY <2>1, <2>2
<1>16. Remaining' /\ ToSet(pauseList') \subseteq ToSet(pauseList)
  BY <1>7, <1>8, ShrunkLists
<1>17. Gone'
  <2> SUFFICES ASSUME ~crowded, ~moved, IsInjective(handed.pauseList)
               PROVE  /\ IsInjective(Chosen')
                      /\ IsInjective(pauseList')
                      /\ ToSet(Chosen') \cap ToSet(pauseList') = {}
    BY <1>7 DEF Gone
  <2>1. /\ IsInjective(Chosen) /\ IsInjective(pauseList)
        /\ ToSet(Chosen) \cap ToSet(pauseList) = {}
    BY <1>1 DEF IInv, Accounts, Gone
  <2>2. q \in ToSet(pauseList)
    BY <1>4, <1>6 DEF ToSet
  <2>3. IsInjective(Chosen')
    <3>1. ToSet(Chosen) \cap ToSet(new) = {}
      BY <1>13, <2>1, <2>2
    <3> QED
      BY <1>12, <1>13, <1>14, <2>1, <3>1, ConcatInjective
  <2>4. IsInjective(pauseList') /\ q \notin ToSet(pauseList')
    BY <1>3, <1>4, <1>6, <1>7, <2>1, RemoveAtInjective
  <2> QED
    BY <1>15, <1>16, <2>1, <2>3, <2>4
<1>18. NoneLost'
  <2> SUFFICES ASSUME ~crowded, ~moved
               PROVE  ToSet(handed.pauseList) \subseteq
                        ToSet(Chosen') \cup ToSet(pauseList')
    BY <1>7 DEF NoneLost
  <2>1. ToSet(handed.pauseList) \subseteq ToSet(Chosen) \cup ToSet(pauseList)
    BY <1>1 DEF IInv, Accounts, NoneLost
  <2>2. ToSet(pauseList) \subseteq ToSet(pauseList') \cup {q}
    BY <1>3, <1>4, <1>6, <1>7, RemoveAtKeeps
  <2> QED
    BY <1>15, <2>1, <2>2
<1>19. Balanced'
  <2> SUFFICES ASSUME ~crowded
               PROVE  Len(handed.pauseList) = Len(pauseList') + Len(Chosen')
    BY <1>7 DEF Balanced
  <2>1. Len(handed.pauseList) = Len(pauseList) + Len(Chosen)
    BY <1>1 DEF IInv, Accounts, Balanced
  <2>2. Len(pauseList) \in Nat /\ Len(Chosen) \in Nat
    BY <1>3, <1>14
  <2> QED
    BY <1>10, <1>15, <2>1, <2>2
<1> QED
  BY <1>8, <1>9, <1>10, <1>16, <1>17, <1>18, <1>19 DEF Accounts

LEMMA TakeLowestStep ==
    ASSUME IInv, ConstantsAssumption, TakeLowest
    PROVE  IInv'
<1>1. /\ phase = "take" /\ phase' = "count" /\ size' = size - 1 /\ aim' = <<0, 0>>
      /\ UNCHANGED <<crowded, running, toRemove, records, killed, handed, writes,
                     moved>>
      /\ toRemovePause' = toRemovePause /\ toRemoveCandidates' = toRemoveCandidates
  BY DEF TakeLowest, toRemove
<1>2. ~Early' /\ ~Aiming' /\ ~Marking'
  BY <1>1 DEF Early, Aiming, Marking
<1>3. /\ size \in Nat /\ Offset \in Nat /\ size > Offset
      /\ size <= Len(pauseList) /\ size \in 0 .. Len(handed.pauseList)
      /\ Len(handed.pauseList) \in Nat /\ Len(pauseList) \in Nat
      /\ Len(records) \in Nat
  <2>1. size > Offset /\ size <= Len(pauseList) /\ size \in 0 .. Len(handed.pauseList)
    BY <1>1 DEF IInv, Typed, TypeOK
  <2> QED
    BY <2>1, TypedLists, OffsetNat
<1>4. /\ Shrunk /\ Accounts' /\ victims' \in Seq(Pods)
      /\ Len(pauseList') = Len(pauseList) - 1
  BY TakeOne
<1>5. /\ pauseList' \in Seq(Pods) /\ candidates' \in Seq(Pods)
      /\ NoneEligible => NoneEligible'
  BY <1>1, <1>4, ShrunkLists
<1>6. Typed'
  <2>1. size' \in 0 .. Len(handed.pauseList) /\ size' <= Len(pauseList')
    BY <1>1, <1>3, <1>4
  <2>2. aim' \in (0 .. Len(handed.pauseList)) \X (0 .. Len(records))
    <3>1. 0 \in 0 .. Len(handed.pauseList) /\ 0 \in 0 .. Len(records)
      BY <1>3
    <3> QED
      BY <1>1, <3>1
  <2>3. TypeOK'
    BY <1>1, <1>4, <1>5, <2>1, <2>2 DEF IInv, Typed, TypeOK, Phases
  <2> QED
    BY <1>1, <1>2, <2>1, <2>3 DEF Typed
<1>7. Located' /\ Collected' /\ Matched'
  BY <1>1, <1>2 DEF Located, Collected, Matched
<1>8. Resolved'
  <2> SUFFICES ASSUME writes = 0, OneRecordPerPod
               PROVE  Len(pauseList') = size' \/ NoneEligible'
    BY <1>1 DEF Resolved, OneRecordPerPod
  <2>1. Len(pauseList) = size \/ NoneEligible
    BY <1>1 DEF IInv, Resolved
  <2> QED
    BY <1>1, <1>4, <1>5, <2>1
<1> QED
  BY <1>4, <1>6, <1>7, <1>8 DEF IInv

LEMMA KillLowestStep ==
    ASSUME IInv, ConstantsAssumption, KillLowest
    PROVE  IInv'
<1>1. /\ phase = "killLowest" /\ phase' = "returned" /\ Kill
      /\ UNCHANGED <<crowded, lists, toRemove, aim, size, records, handed, writes,
                     moved>>
      /\ pauseList' = pauseList /\ candidates' = candidates
      /\ toRemovePause' = toRemovePause /\ toRemoveCandidates' = toRemoveCandidates
  BY DEF KillLowest, lists, toRemove
<1>2. ~Early /\ ~Early' /\ ~Aiming' /\ ~Marking'
  BY <1>1 DEF Early, Aiming, Marking
<1>3. Accounts' /\ killed' \in Seq(Pods) /\ victims' = <<>>
  BY <1>1, <1>2, KillKeepsChosen
<1>4. running' \subseteq Pods
  BY <1>1, <1>2, KillKeepsChosen DEF IInv, Typed, TypeOK
<1>5. Typed'
  <2>1. victims' \in Seq(Pods)
    BY <1>3, EmptySeq
  <2>2. TypeOK'
    BY <1>1, <1>3, <1>4, <2>1 DEF IInv, Typed, TypeOK, Phases
  <2> QED
    BY <1>1, <1>2, <2>2 DEF IInv, Typed
<1>6. Offset' = Offset
  BY DEF Offset
<1>7. Located' /\ Collected' /\ Matched'
  BY <1>1, <1>2 DEF Located, Collected, Matched
<1>8. Resolved'
  BY <1>1, <1>6 DEF IInv, Resolved, OneRecordPerPod, NoneEligible
<1> QED
  BY <1>3, <1>5, <1>7, <1>8 DEF IInv

-----------------------------------------------------------------------------
(***************************************************************************)
(* The consumers.                                                          *)
(***************************************************************************)

\* A write leaves as many records, and the same pods at the indices unless it
\* moves one.
LEMMA RecordsWritten ==
    ASSUME IInv, ConstantsAssumption, NEW i \in DOMAIN records, Report(i) \/ Delete(i)
    PROVE  /\ records' \in Seq(CheckpointContainer)
           /\ Len(records') = Len(records) /\ DOMAIN records' = DOMAIN records
           /\ moved' \in BOOLEAN
           /\ ~moved' => /\ ~moved
                         /\ \A j \in DOMAIN records : records'[j].pod = records[j].pod
<1>1. records \in Seq(CheckpointContainer) /\ moved \in BOOLEAN
  BY DEF IInv, Typed, TypeOK
<1>2. PICK n \in Nat : n = Len(records) /\ DOMAIN records = 1 .. n
  BY <1>1
<1>3. CASE Report(i)
  <2>1. PICK r \in CheckpointContainer :
           /\ records' = [records EXCEPT ![i] = r]
           /\ moved' = (moved \/ r.pod # records[i].pod)
    BY <1>3 DEF Report
  <2>2. /\ records' \in Seq(CheckpointContainer)
        /\ Len(records') = Len(records) /\ DOMAIN records' = DOMAIN records
    BY <1>1, <2>1, ExceptSeq
  <2>3. \A j \in DOMAIN records : records'[j] = IF j = i THEN r ELSE records[j]
    BY <2>1
  <2>4. moved' \in BOOLEAN /\ (~moved' => ~moved /\ r.pod = records[i].pod)
    BY <1>1, <2>1
  <2> QED
    BY <2>2, <2>3, <2>4
<1>4. CASE Delete(i)
  <2>1. /\ moved' = TRUE
        /\ records' = [j \in 1 .. n |->
                         records[IF j < i \/ j = n THEN j ELSE j + 1]]
    BY <1>2, <1>4 DEF Delete
  <2>2. \A j \in 1 .. n : (IF j < i \/ j = n THEN j ELSE j + 1) \in 1 .. n
    BY <1>2
  <2>3. \A j \in 1 .. n : records[j] \in CheckpointContainer
    BY <1>1, <1>2
  <2>4. records' \in [1 .. n -> CheckpointContainer]
    BY <2>1, <2>2, <2>3
  <2> QED
    BY <1>2, <2>1, <2>4
<1> QED
  BY <1>3, <1>4

\* What is said of the records is said of a call without writes; what is said of
\* the pod in hand, of one in which no record has moved.
LEMMA ConsumerStep ==
    ASSUME IInv, ConstantsAssumption, Consumer
    PROVE  IInv'
<1>1. /\ \E i \in DOMAIN records : Report(i) \/ Delete(i)
      /\ writes < MaxWrites /\ writes' = writes + 1
      /\ UNCHANGED <<phase, crowded, lists, running, victims, toRemove, aim, size,
                     killed, handed>>
      /\ pauseList' = pauseList /\ candidates' = candidates
      /\ toRemovePause' = toRemovePause /\ toRemoveCandidates' = toRemoveCandidates
  BY DEF Consumer, lists, toRemove
<1>2. /\ records' \in Seq(CheckpointContainer)
      /\ Len(records') = Len(records) /\ DOMAIN records' = DOMAIN records
      /\ moved' \in BOOLEAN
      /\ ~moved' => /\ ~moved
                    /\ \A j \in DOMAIN records : records'[j].pod = records[j].pod
  BY <1>1, RecordsWritten
<1>3. writes' \in 0 .. MaxWrites /\ writes' # 0
  BY <1>1 DEF IInv, Typed, TypeOK, ConstantsAssumption
<1>4. /\ Early' = Early /\ Aiming' = Aiming /\ Marking' = Marking
      /\ Offset' = Offset /\ Passed' = Passed /\ Chosen' = Chosen
  BY <1>1 DEF Early, Aiming, Marking, Offset, Passed, Chosen
<1>5. Typed'
  <2>1. TypeOK'
    BY <1>1, <1>2, <1>3 DEF IInv, Typed, TypeOK
  <2> QED
    BY <1>1, <1>4, <2>1 DEF IInv, Typed
<1>6. Located'
  BY <1>1, <1>2, <1>4 DEF IInv, Located
<1>7. Collected'
  BY <1>1, <1>2, <1>4 DEF IInv, Collected
<1>8. Matched'
  <2> SUFFICES ASSUME ~moved', Aiming \/ phase = "take"
               PROVE  records'[aim[2]].pod = pauseList[aim[1]]
    BY <1>1, <1>4 DEF Matched
  <2>1. records[aim[2]].pod = pauseList[aim[1]]
    BY <1>2 DEF IInv, Matched
  <2>2. aim[2] \in DOMAIN records
    BY DEF IInv, Located
  <2> QED
    BY <1>2, <2>1, <2>2
<1>9. Accounts'
  BY <1>1, <1>2, <1>4 DEF IInv, Accounts, Remaining, Gone, NoneLost, Balanced
<1>10. Resolved'
  BY <1>3 DEF Resolved
<1> QED
  BY <1>5, <1>6, <1>7, <1>8, <1>9, <1>10 DEF IInv

-----------------------------------------------------------------------------
(***************************************************************************)
(* The theorems.                                                           *)
(***************************************************************************)

LEMMA Initially ==
    ASSUME Init, ConstantsAssumption
    PROVE  IInv
<1>1. /\ phase = "paused" /\ crowded \in BOOLEAN
      /\ pauseList \in PauseLists /\ candidates \in CandidateLists
      /\ running = Pods /\ victims = <<>> /\ size = 0 /\ records \in RecordLists
      /\ toRemovePause = <<>> /\ toRemoveCandidates = <<>> /\ aim = <<0, 0>>
      /\ killed = <<>> /\ writes = 0 /\ moved = FALSE
      /\ handed = [pauseList |-> pauseList, candidates |-> candidates]
  BY DEF Init
<1>2. /\ pauseList \in Seq(Pods) /\ candidates \in Seq(Pods)
      /\ records \in Seq(CheckpointContainer) /\ MaxWrites \in Nat
  BY <1>1 DEF ConstantsAssumption
<1>3. /\ handed \in [pauseList : PauseLists, candidates : CandidateLists]
      /\ handed.pauseList = pauseList /\ handed.candidates = candidates
  BY <1>1
<1>4. Early /\ ~Aiming /\ ~Marking /\ Passed = 0
  BY <1>1 DEF Early, Aiming, Marking, Passed
<1>5. Typed
  <2>1. victims \in Seq(Pods) /\ killed \in Seq(Pods)
    BY <1>1, EmptySeq
  <2>2. /\ toRemovePause \in Seq(1 .. Len(handed.pauseList))
        /\ toRemoveCandidates \in Seq(1 .. Len(handed.candidates))
    BY <1>1, EmptySeq
  <2>3. /\ aim \in (0 .. Len(handed.pauseList)) \X (0 .. Len(records))
        /\ size \in 0 .. Len(handed.pauseList) /\ writes \in 0 .. MaxWrites
    <3>1. Len(handed.pauseList) \in Nat /\ Len(records) \in Nat
      BY <1>2, <1>3
    <3>2. 0 \in 0 .. Len(handed.pauseList) /\ 0 \in 0 .. Len(records)
      BY <3>1
    <3> QED
      BY <1>1, <1>2, <3>2
  <2>4. TypeOK
    BY <1>1, <1>2, <1>3, <2>1, <2>2, <2>3 DEF TypeOK, Phases
  <2> QED
    BY <1>1, <1>2, <2>4 DEF Typed
<1>6. Located
  BY <1>1, <1>4, EmptySeq DEF Located
<1>7. Collected
  <2>1. toRemovePause \in Seq(1 .. Passed) /\ IsAscending(toRemovePause)
    BY <1>1, EmptySeq DEF IsAscending
  <2> QED
    BY <1>1, <1>3, <2>1 DEF Collected
<1>8. Matched
  BY <1>1, <1>4 DEF Matched
<1>9. Accounts
  <2>1. Remaining
    BY <1>2, <1>3, RemnantsReflexive DEF Remaining
  <2> QED
    BY <1>4, <2>1 DEF Accounts, Gone, NoneLost, Balanced
<1>10. Resolved
  BY <1>1 DEF Resolved
<1> QED
  BY <1>5, <1>6, <1>7, <1>8, <1>9, <1>10 DEF IInv

LEMMA Inductive ==
    ASSUME IInv, ConstantsAssumption, [Next]_vars
    PROVE  IInv'
<1>1. CASE FindPaused
  BY <1>1, FindPausedStep
<1>2. CASE TestPaused \/ MeasurePaused
  BY <1>2, ReadPausedStep
<1>3. CASE TakePaused
  BY <1>3, TakePausedStep
<1>4. CASE DeletePaused
  BY <1>4, DeletePausedStep
<1>5. CASE KillPaused
  BY <1>5, KillPausedStep
<1>6. CASE FindRecent
  BY <1>6, FindRecentStep
<1>7. CASE TakeRecent \/ MarkPaused \/ MarkCandidate
  BY <1>7, MarkRecentStep
<1>8. CASE DeleteRecent
  BY <1>8, DeleteRecentStep
<1>9. CASE KillRecent
  BY <1>9, KillRecentStep
<1>10. CASE CountUncheckpointed
  BY <1>10, CountUncheckpointedStep
<1>11. CASE SelectLowest
  BY <1>11, SelectLowestStep
<1>12. CASE TakeLowest
  BY <1>12, TakeLowestStep
<1>13. CASE KillLowest
  BY <1>13, KillLowestStep
<1>14. CASE Consumer
  BY <1>14, ConsumerStep
<1>15. CASE UNCHANGED vars
  <2>1. UNCHANGED <<phase, crowded, pauseList, candidates, running, victims,
                    toRemovePause, toRemoveCandidates, aim, size, records, killed,
                    handed, writes, moved>>
    BY <1>15 DEF vars, lists, toRemove
  <2>2. /\ Early' = Early /\ Aiming' = Aiming /\ Marking' = Marking
        /\ Offset' = Offset /\ Passed' = Passed /\ Chosen' = Chosen
    BY <2>1 DEF Early, Aiming, Marking, Offset, Passed, Chosen
  <2>3. Typed'
    BY <2>1, <2>2 DEF IInv, Typed, TypeOK
  <2>4. Located' /\ Collected' /\ Matched'
    BY <2>1, <2>2 DEF IInv, Located, Collected, Matched
  <2>5. Accounts'
    BY <2>1, <2>2 DEF IInv, Accounts, Remaining, Gone, NoneLost, Balanced
  <2>6. Resolved'
    BY <2>1, <2>2 DEF IInv, Resolved, OneRecordPerPod, NoneEligible
  <2> QED
    BY <2>3, <2>4, <2>5, <2>6 DEF IInv
<1> QED
  BY <1>1, <1>2, <1>3, <1>4, <1>5, <1>6, <1>7, <1>8, <1>9, <1>10, <1>11, <1>12,
     <1>13, <1>14, <1>15 DEF Next, Returned

\* The invariant behind the theorems below, whatever is written between two reads.
LEMMA Invariance == Spec => []IInv
<1>1. Init => IInv
  BY Initially, ConstantsAssumption
<1>2. IInv /\ [Next]_vars => IInv'
  BY Inductive, ConstantsAssumption
<1> QED
  BY <1>1, <1>2, PTL DEF Spec

\* The deletions, whatever the indices, keep both lists lists of pods, every index
\* in hand is one of the lists handed over, and the third phase never looks at more
\* entries than it was handed.
THEOREM TypesCorrect == Spec => []TypeOK
<1>1. IInv => TypeOK
  BY DEF IInv, Typed
<1> QED
  BY <1>1, Invariance, PTL

\* What Scaling and Checkpointing take a removal to leave of a list is what the
\* three phases together leave, also when the node is short of memory and the
\* indices come in any order, and also when records move between the reads.
THEOREM RemnantsReturned == Spec => []ReturnsRemnants
<1>1. IInv => ReturnsRemnants
  BY DEF IInv, Accounts, Remaining, ReturnsRemnants
<1> QED
  BY <1>1, Invariance, PTL

LEMMA AllChosenKilled ==
    ASSUME IInv, phase = "returned"
    PROVE  Chosen = killed /\ ~Early
<1>1. victims = <<>> /\ killed \in Seq(Pods)
  BY DEF IInv, Typed, TypeOK
<1> QED
  BY <1>1, ConcatEmpty DEF Chosen, Early

\* With enough memory, and as long as no record is moved, no pod is killed twice
\* or listed after it was killed, whatever else the consumers report meanwhile.
THEOREM NoneKilledTwice == Spec => []KilledOnce
<1>1. IInv => KilledOnce
  BY AllChosenKilled DEF IInv, Accounts, Gone, KilledOnce
<1> QED
  BY <1>1, Invariance, PTL

\* With enough memory, as many entries leave the pause list as pods are killed,
\* whatever the consumers write; as long as they move no record, they are those of
\* the pods that were killed, however often a pod is listed.
THEOREM NoneDropped == Spec => []OthersStayPaused
<1>1. IInv => OthersStayPaused
  BY AllChosenKilled DEF IInv, Accounts, NoneLost, Balanced, OthersStayPaused
<1> QED
  BY <1>1, Invariance, PTL

\* The third phase, which looks at one entry less in every turn, ends only when
\* it has resolved what resembles a deadlock, or nothing that is paused has both a
\* checkpoint and a priority below the sentinel.
THEOREM DeadlockResolved == Spec => []StuckResolved
<1>1. IInv => StuckResolved
  BY DEF IInv, Resolved, NoneEligible, StuckResolved
<1> QED
  BY <1>1, Invariance, PTL
=============================================================================
