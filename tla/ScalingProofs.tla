---------------------------- MODULE ScalingProofs -----------------------------
(***************************************************************************)
(* Theorems about Scaling, for any number of pods, failing calls and racing *)
(* appends.                                                                 *)
(***************************************************************************)
EXTENDS Scaling, SlicesProofs

(***************************************************************************)
(* The inductive invariant.  Nothing is said of the size of a limit.       *)
(***************************************************************************)

SettingOf(L) == [limit : L, throttled : BOOLEAN]

ContainerOf(L) == [orig : SettingOf(L), cg : SettingOf(L), actual : SettingOf(L)]

IsContainer(c) == \E L : c \in ContainerOf(L)

Shapes ==
    /\ phase \in {"monitor", "resume", "down", "plan", "scale", "pause",
                  "continue", "delete", "remove"}
    /\ running \subseteq Pods
    /\ candidates \in Seq(Pods)
    /\ failures \in Nat
    /\ \A p \in Pods : IsContainer(con[p])

\* What the controller will send has the limit the runtime enforces, except as
\* long as the container has answered no call since it was last sent a limit.
LimitAgrees(c) == c.orig.limit = c.actual.limit

LimitsAgree == \A p \in Pods \ lost : LimitAgrees(con[p])

\* Without failures the controller knows of every container that is throttled;
\* Cgroup may still say so of one that has been resumed.
QuotaKnown(c) ==
    /\ c.orig.throttled = c.actual.throttled
    /\ c.actual.throttled => c.cg.throttled

QuotasKnown == failures = 0 => \A p \in Pods : QuotaKnown(con[p])

\* Where a throttled container is listed, from the resuming to the removal.
Listed(p) ==
    /\ phase \in {"down", "plan", "scale"} =>
         p \in ToSet(candidates) /\ p \in ToSet(pauseList)
    /\ phase = "continue" => p \in ToSet(candidates) \/ p \in ToSet(pauseList)
    /\ phase \in {"pause", "delete", "remove"} => p \in ToSet(candidates)

ThrottledListed ==
    failures = 0 => \A p \in Pods : con[p].actual.throttled => Listed(p)

Inv == Shapes /\ LimitsAgree /\ QuotasKnown /\ ThrottledListed

-----------------------------------------------------------------------------
(***************************************************************************)
(* Calls to the runtime.                                                   *)
(***************************************************************************)

LEMMA SendResult ==
    ASSUME NEW L, NEW c \in ContainerOf(L), NEW s \in SettingOf(L),
           NEW ok \in BOOLEAN
    PROVE  /\ Send(c, s, ok) \in ContainerOf(L)
           /\ Send(c, s, ok).orig = s
           /\ Send(c, s, ok).cg = c.cg
           /\ Send(c, s, ok).actual = IF ok THEN s ELSE c.actual
<1>1. CASE ok
  BY <1>1 DEF Send, ContainerOf
<1>2. CASE ~ok
  BY <1>2 DEF Send, ContainerOf
<1> QED
  BY <1>1, <1>2

LEMMA ReadBackResult ==
    ASSUME NEW L, NEW c \in ContainerOf(L), NEW ok \in BOOLEAN
    PROVE  /\ ReadBack(c, ok) \in ContainerOf(L)
           /\ ReadBack(c, ok).orig = IF ok THEN c.actual ELSE c.orig
           /\ ReadBack(c, ok).cg = IF ok THEN c.actual ELSE c.cg
           /\ ReadBack(c, ok).actual = c.actual
<1>1. CASE ok
  BY <1>1 DEF ReadBack, ContainerOf
<1>2. CASE ~ok
  BY <1>2 DEF ReadBack, ContainerOf
<1> QED
  BY <1>1, <1>2

\* A setting with another quota, or another limit.
LEMMA QuotaExcept ==
    ASSUME NEW L, NEW s \in SettingOf(L), NEW t \in BOOLEAN
    PROVE  /\ [s EXCEPT !.throttled = t] \in SettingOf(L)
           /\ [s EXCEPT !.throttled = t].limit = s.limit
           /\ [s EXCEPT !.throttled = t].throttled = t
  BY DEF SettingOf

LEMMA LimitExcept ==
    ASSUME NEW L, NEW s \in SettingOf(L), NEW l \in L
    PROVE  /\ [s EXCEPT !.limit = l] \in SettingOf(L)
           /\ [s EXCEPT !.limit = l].limit = l
           /\ [s EXCEPT !.limit = l].throttled = s.throttled
  BY DEF SettingOf

LEMMA OutcomeType ==
    /\ AllWell \in Outcome
    /\ \A o \in Outcome : /\ o.resume \in BOOLEAN
                          /\ o.update \in BOOLEAN
                          /\ o.read \in BOOLEAN
    /\ AllWell.resume = TRUE /\ AllWell.update = TRUE /\ AllWell.read = TRUE
  BY DEF Outcome, AllWell

\* Sending another quota changes no limit of a container whose limits agree.
LEMMA SendQuotaResult ==
    ASSUME NEW L, NEW c \in ContainerOf(L), NEW t \in BOOLEAN,
           NEW ok \in BOOLEAN, NEW d, d = SendQuota(c, t, ok)
    PROVE  /\ d \in ContainerOf(L)
           /\ d.cg = c.cg
           /\ LimitAgrees(c) =>
                LimitAgrees(d) /\ d.actual.limit = c.actual.limit
           /\ ok => LimitAgrees(d)
           /\ d.actual.limit \in {c.actual.limit, c.orig.limit}
           /\ d.orig.throttled = t
           /\ ok => d.actual.throttled = t
<1> DEFINE s == [c.orig EXCEPT !.throttled = t]
<1>1. c.orig \in SettingOf(L) /\ c.orig.limit \in L
  BY DEF ContainerOf, SettingOf
<1>2. s \in SettingOf(L) /\ s.limit = c.orig.limit /\ s.throttled = t
  BY <1>1, QuotaExcept
<1>3. d = Send(c, s, ok)
  BY DEF SendQuota
<1> HIDE DEF s
<1> QED
  BY <1>2, <1>3, SendResult DEF LimitAgrees

\* Pausing or continuing a container.
LEMMA SetQuotaResult ==
    ASSUME NEW L, NEW c \in ContainerOf(L), NEW t \in BOOLEAN,
           NEW o \in Outcome, NEW d, d = SetQuota(c, t, o)
    PROVE  /\ d \in ContainerOf(L)
           /\ LimitAgrees(c) =>
                LimitAgrees(d) /\ d.actual.limit = c.actual.limit
           /\ o.update \/ o.read => LimitAgrees(d)
           /\ o = AllWell => QuotaKnown(d) /\ d.actual.throttled = t
<1>0. PICK e : e = SendQuota(c, t, o.update)
  OBVIOUS
<1>1. o.update \in BOOLEAN /\ o.read \in BOOLEAN
  BY OutcomeType
<1>2. /\ e \in ContainerOf(L)
      /\ LimitAgrees(c) => LimitAgrees(e) /\ e.actual.limit = c.actual.limit
      /\ o.update => LimitAgrees(e)
      /\ o.update => e.actual.throttled = t
  <2>1. PICK ok \in BOOLEAN : ok = o.update
    BY <1>1
  <2>2. e = SendQuota(c, t, ok)
    BY <1>0, <2>1
  <2>3. /\ e \in ContainerOf(L)
        /\ LimitAgrees(c) => LimitAgrees(e) /\ e.actual.limit = c.actual.limit
        /\ ok => LimitAgrees(e)
        /\ ok => e.actual.throttled = t
    BY <2>2, SendQuotaResult
  <2> QED
    BY <2>1, <2>3
<1>3. d = ReadBack(e, o.read)
  BY <1>0 DEF SetQuota
<1>4. /\ ReadBack(e, o.read) \in ContainerOf(L)
      /\ ReadBack(e, o.read).orig = IF o.read THEN e.actual ELSE e.orig
      /\ ReadBack(e, o.read).cg = IF o.read THEN e.actual ELSE e.cg
      /\ ReadBack(e, o.read).actual = e.actual
  BY <1>1, <1>2, ReadBackResult
<1>5. o = AllWell => o.update /\ o.read
  BY OutcomeType
<1> QED
  BY <1>2, <1>3, <1>4, <1>5 DEF LimitAgrees, QuotaKnown

\* Scaling a container, which is resumed before when Cgroup says it is throttled.
LEMMA SetLimitResult ==
    ASSUME NEW L, NEW c \in ContainerOf(L), NEW l \in L,
           NEW o \in Outcome, NEW d, d = SetLimit(c, l, o)
    PROVE  /\ d \in ContainerOf(L)
           /\ o.update \/ o.read => LimitAgrees(d)
           /\ d.actual.limit \in {l, c.actual.limit, c.orig.limit}
           /\ o = AllWell => d.actual.limit = l
           /\ o = AllWell /\ QuotaKnown(c) =>
                QuotaKnown(d) /\ ~d.actual.throttled
<1> DEFINE e == IF c.cg.throttled THEN SendQuota(c, FALSE, o.resume) ELSE c
           s == [e.orig EXCEPT !.limit = l]
           f == Send(e, s, o.update)
<1>1. o.update \in BOOLEAN /\ o.read \in BOOLEAN /\ o.resume \in BOOLEAN
  BY OutcomeType
<1>2. /\ e \in ContainerOf(L)
      /\ e.actual.limit \in {c.actual.limit, c.orig.limit}
      /\ o = AllWell /\ QuotaKnown(c) => ~e.orig.throttled
  <2>1. CASE c.cg.throttled
    <3>1. e = SendQuota(c, FALSE, o.resume)
      BY <2>1
    <3>2. FALSE \in BOOLEAN
      OBVIOUS
    <3> HIDE DEF e
    <3>3. PICK ok \in BOOLEAN : ok = o.resume
      BY <1>1
    <3>4. PICK t \in BOOLEAN : t = FALSE
      BY <3>2
    <3>5. e = SendQuota(c, t, ok)
      BY <3>1, <3>3, <3>4
    <3>6. /\ e \in ContainerOf(L)
          /\ e.actual.limit \in {c.actual.limit, c.orig.limit}
          /\ e.orig.throttled = t
      BY <3>5, SendQuotaResult
    <3> QED
      BY <3>4, <3>6
  <2>2. CASE ~c.cg.throttled
    <3>1. e = c
      BY <2>2
    <3>2. QuotaKnown(c) => ~c.orig.throttled
      BY <2>2 DEF QuotaKnown, ContainerOf, SettingOf
    <3> QED
      BY <3>1, <3>2
  <2> QED
    BY <2>1, <2>2
<1>3. d = ReadBack(f, o.read)
  BY DEF SetLimit, SendLimit
<1> HIDE DEF e
<1>4. s \in SettingOf(L) /\ s.limit = l /\ s.throttled = e.orig.throttled
  <2>1. e.orig \in SettingOf(L)
    BY <1>2 DEF ContainerOf
  <2> QED
    BY <2>1, LimitExcept
<1> HIDE DEF s
<1>5. /\ f \in ContainerOf(L)
      /\ f.orig = s
      /\ f.cg = e.cg
      /\ f.actual = IF o.update THEN s ELSE e.actual
  BY <1>1, <1>2, <1>4, SendResult
<1> HIDE DEF f
<1>6. /\ ReadBack(f, o.read) \in ContainerOf(L)
      /\ ReadBack(f, o.read).orig = IF o.read THEN f.actual ELSE f.orig
      /\ ReadBack(f, o.read).cg = IF o.read THEN f.actual ELSE f.cg
      /\ ReadBack(f, o.read).actual = f.actual
  BY <1>1, <1>5, ReadBackResult
<1>7. o = AllWell => o.update /\ o.read
  BY OutcomeType
<1> QED
  BY <1>2, <1>3, <1>4, <1>5, <1>6, <1>7 DEF LimitAgrees, QuotaKnown

\* Scaling a container down that uses less than the smallest limit; it is not
\* resumed.
LEMMA LowerResult ==
    ASSUME NEW L, NEW c \in ContainerOf(L), NEW l \in L, NEW o \in Outcome,
           NEW d, d = ReadBack(SendLimit(c, l, o.update), o.read)
    PROVE  /\ d \in ContainerOf(L)
           /\ o.update \/ o.read => LimitAgrees(d)
           /\ d.actual.limit \in {l, c.actual.limit}
           /\ o = AllWell /\ QuotaKnown(c) =>
                QuotaKnown(d) /\ d.actual.throttled = c.actual.throttled
<1> DEFINE s == [c.orig EXCEPT !.limit = l]
           f == Send(c, s, o.update)
<1>1. o.update \in BOOLEAN /\ o.read \in BOOLEAN
  BY OutcomeType
<1>2. s \in SettingOf(L) /\ s.limit = l /\ s.throttled = c.orig.throttled
  <2>1. c.orig \in SettingOf(L)
    BY DEF ContainerOf
  <2> QED
    BY <2>1, LimitExcept
<1>3. d = ReadBack(f, o.read)
  BY DEF SendLimit
<1> HIDE DEF s
<1>4. /\ f \in ContainerOf(L)
      /\ f.orig = s
      /\ f.cg = c.cg
      /\ f.actual = IF o.update THEN s ELSE c.actual
  BY <1>1, <1>2, SendResult
<1> HIDE DEF f
<1>5. /\ ReadBack(f, o.read) \in ContainerOf(L)
      /\ ReadBack(f, o.read).orig = IF o.read THEN f.actual ELSE f.orig
      /\ ReadBack(f, o.read).cg = IF o.read THEN f.actual ELSE f.cg
      /\ ReadBack(f, o.read).actual = f.actual
  BY <1>1, <1>4, ReadBackResult
<1>6. o = AllWell => o.update /\ o.read
  BY OutcomeType
<1> QED
  BY <1>2, <1>3, <1>4, <1>5, <1>6 DEF LimitAgrees, QuotaKnown

\* A container stays one whatever limit it is given.
LEMMA ContainerWider ==
    ASSUME NEW c, IsContainer(c), NEW l
    PROVE  \E L : c \in ContainerOf(L) /\ l \in L
<1>1. PICK L : c \in ContainerOf(L)
  BY DEF IsContainer
<1>2. c \in ContainerOf(L \cup {l}) /\ l \in L \cup {l}
  BY <1>1 DEF ContainerOf, SettingOf
<1> QED
  BY <1>2

-----------------------------------------------------------------------------
(***************************************************************************)
(* The goroutines of a stage.                                              *)
(***************************************************************************)

\* What a goroutine with outcome o makes of its container's place in lost.
StaysLost(p, o) == ~Answered(o) /\ (p \in lost \/ phase \in {"down", "scale"})

\* Each container of S gets an outcome; when no failure has been counted after
\* it, none was counted before, and when none was added, all is well.
LEMMA Goroutines ==
    ASSUME NEW S, NEW After, ForEach(S, After), failures \in Nat
    PROVE  /\ failures' \in Nat
           /\ failures' = 0 => failures = 0
           /\ lastUsage' = lastUsage
           /\ \A p \in Pods \ S : con'[p] = con[p] /\ (p \in lost' <=> p \in lost)
           /\ \A p \in Pods \cap S : \E o \in Outcome :
                 /\ con'[p] = After[p][o]
                 /\ p \in lost' <=> StaysLost(p, o)
                 /\ failures' \in {0, failures} => o = AllWell
<1> DEFINE T == IF failures < MaxFailures THEN Outcome ELSE {AllWell}
           Failed(out) == {p \in Pods \cap S : out[p] # AllWell}
<1>1. PICK out \in [S -> T] :
         /\ con' = [p \in Pods |-> IF p \in S THEN After[p][out[p]] ELSE con[p]]
         /\ lost' = {p \in Pods : IF p \in S THEN StaysLost(p, out[p])
                                  ELSE p \in lost}
         /\ failures' = failures + Cardinality(Failed(out))
         /\ lastUsage' = lastUsage
  BY DEF ForEach, StaysLost
<1>2. \A p \in S : out[p] \in Outcome
  BY OutcomeType
<1>3. IsFiniteSet(Failed(out)) /\ Cardinality(Failed(out)) \in Nat
  <2>1. Failed(out) \subseteq Pods /\ IsFiniteSet(Pods)
    BY ConstantsAssumption
  <2> QED
    BY <2>1, FS_Subset, FS_CardinalityType
<1>4. /\ failures' \in Nat
      /\ failures' = 0 => failures = 0
      /\ failures' \in {0, failures} => Failed(out) = {}
  <2>1. PICK n \in Nat : n = Cardinality(Failed(out))
    BY <1>3
  <2>2. failures' = failures + n
    BY <1>1, <2>1
  <2>3. /\ failures' \in Nat
        /\ failures' = 0 => failures = 0
        /\ failures' \in {0, failures} => n = 0
    BY <2>2
  <2> QED
    BY <1>3, <2>1, <2>3, FS_EmptySet
<1>5. ASSUME NEW p \in Pods \cap S
      PROVE  \E o \in Outcome : /\ con'[p] = After[p][o]
                                /\ p \in lost' <=> StaysLost(p, o)
                                /\ failures' \in {0, failures} => o = AllWell
  <2>1. con'[p] = After[p][out[p]]
    BY <1>1
  <2>2. failures' \in {0, failures} => out[p] = AllWell
    BY <1>4
  <2>3. p \in lost' <=> StaysLost(p, out[p])
    BY <1>1
  <2> QED
    BY <1>2, <2>1, <2>2, <2>3
<1>6. \A p \in Pods \ S : con'[p] = con[p] /\ (p \in lost' <=> p \in lost)
  BY <1>1
<1> QED
  BY <1>1, <1>4, <1>5, <1>6

\* What is true of each goroutine's container is true of all after the stage.
LEMMA Stage ==
    ASSUME NEW S, NEW After, ForEach(S, After), Shapes, LimitsAgree, QuotasKnown,
           \A p \in Pods \cap S : \A o \in Outcome :
              /\ IsContainer(After[p][o])
              /\ Answered(o) => LimitAgrees(After[p][o])
              /\ LimitAgrees(con[p]) /\ phase \notin {"down", "scale"}
                   => LimitAgrees(After[p][o])
              /\ o = AllWell /\ QuotaKnown(con[p]) => QuotaKnown(After[p][o])
    PROVE  /\ failures' \in Nat
           /\ \A p \in Pods : IsContainer(con[p])'
           /\ LimitsAgree'
           /\ QuotasKnown'
           /\ failures' = 0 => failures = 0
           /\ \A p \in Pods \cap S : failures' = 0 => con'[p] = After[p][AllWell]
           /\ \A p \in Pods \ S : con'[p] = con[p]
           /\ \A p \in Pods \cap S : \E o \in Outcome : con'[p] = After[p][o]
<1>1. /\ failures' \in Nat
      /\ failures' = 0 => failures = 0
      /\ \A p \in Pods \ S : con'[p] = con[p] /\ (p \in lost' <=> p \in lost)
      /\ \A p \in Pods \cap S : \E o \in Outcome :
            /\ con'[p] = After[p][o]
            /\ p \in lost' <=> StaysLost(p, o)
            /\ failures' = 0 => o = AllWell
  BY Goroutines DEF Shapes
<1>2. ASSUME NEW p \in Pods
      PROVE  /\ IsContainer(con'[p])
             /\ p \notin lost' => LimitAgrees(con'[p])
             /\ failures' = 0 => QuotaKnown(con'[p])
  <2>1. /\ IsContainer(con[p])
        /\ p \notin lost => LimitAgrees(con[p])
        /\ failures = 0 => QuotaKnown(con[p])
    BY DEF Shapes, LimitsAgree, QuotasKnown
  <2>2. CASE p \in S
    <3>1. PICK o \in Outcome : /\ con'[p] = After[p][o]
                               /\ p \in lost' <=> StaysLost(p, o)
                               /\ failures' = 0 => o = AllWell
      BY <1>1, <2>2
    <3>2. /\ IsContainer(After[p][o])
          /\ Answered(o) => LimitAgrees(After[p][o])
          /\ LimitAgrees(con[p]) /\ phase \notin {"down", "scale"}
               => LimitAgrees(After[p][o])
          /\ o = AllWell /\ QuotaKnown(con[p]) => QuotaKnown(After[p][o])
      BY <2>2
    <3>3. p \notin lost' => LimitAgrees(After[p][o])
      BY <2>1, <3>1, <3>2 DEF StaysLost
    <3> QED
      BY <1>1, <2>1, <3>1, <3>2, <3>3
  <2>3. CASE p \notin S
    BY <1>1, <2>1, <2>3
  <2> QED
    BY <2>2, <2>3
<1>3. \A p \in Pods : IsContainer(con[p])'
  BY <1>2 DEF IsContainer
<1>4. LimitsAgree'
  BY <1>2 DEF LimitsAgree, LimitAgrees
<1>5. QuotasKnown'
  BY <1>2 DEF QuotasKnown, QuotaKnown
<1> QED
  BY <1>1, <1>3, <1>4, <1>5

-----------------------------------------------------------------------------
(***************************************************************************)
(* The actions keep the invariant.                                         *)
(***************************************************************************)

\* The first failures are those of the containers that are lost.
LEMMA InitFailures ==
    ASSUME Init
    PROVE  failures \in 0 .. MaxFailures
<1>1. lost \subseteq Pods /\ IsFiniteSet(Pods) /\ MaxFailures \in Nat
  BY ConstantsAssumption DEF Init
<1>2. Cardinality(lost) \in Nat
  BY <1>1, FS_Subset, FS_CardinalityType
<1> QED
  BY <1>1, <1>2 DEF Init

LEMMA InitInv == Init => Inv
<1> SUFFICES ASSUME Init PROVE Inv
  OBVIOUS
<1> USE DEF Init
<1> DEFINE c(p) == [orig |-> Initially, cg |-> Initially,
                    actual |-> AtFirst(p, p \notin lost)]
<1>1. ASSUME NEW p \in Pods
      PROVE  /\ IsContainer(c(p))
             /\ p \notin lost => LimitAgrees(c(p))
             /\ QuotaKnown(c(p)) /\ ~c(p).actual.throttled
  <2> DEFINE L == {MinSize, OwnLimit[p]}
  <2>1. Initially \in SettingOf(L) /\ ~Initially.throttled
    BY DEF SettingOf, Initially
  <2>2. /\ AtFirst(p, p \notin lost) \in SettingOf(L)
        /\ p \notin lost => AtFirst(p, p \notin lost) = Initially
        /\ ~AtFirst(p, p \notin lost).throttled
    BY DEF SettingOf, Initially, AtFirst
  <2> HIDE DEF L
  <2>3. c(p) \in ContainerOf(L)
    BY <2>1, <2>2 DEF ContainerOf
  <2>4. /\ c(p).orig = Initially
        /\ c(p).actual = AtFirst(p, p \notin lost)
    OBVIOUS
  <2>5. IsContainer(c(p))
    BY <2>3 DEF IsContainer
  <2> HIDE DEF c
  <2>6. p \notin lost => LimitAgrees(c(p))
    BY <2>2, <2>4 DEF LimitAgrees
  <2>7. QuotaKnown(c(p)) /\ ~c(p).actual.throttled
    <3>1. c(p).orig.throttled = FALSE /\ c(p).actual.throttled = FALSE
      BY <2>1, <2>2, <2>4 DEF SettingOf, Initially, AtFirst
    <3> QED
      BY <3>1 DEF QuotaKnown
  <2> QED
    BY <2>5, <2>6, <2>7
<1>2. \A p \in Pods : con[p] = c(p)
  OBVIOUS
<1> HIDE DEF c
<1>3. failures \in Nat
  BY InitFailures, ConstantsAssumption
<1>4. <<>> \in Seq(Pods)
  OBVIOUS
<1>5. Shapes
  BY <1>1, <1>2, <1>3, <1>4 DEF Shapes
<1>6. LimitsAgree /\ QuotasKnown /\ ThrottledListed
  BY <1>1, <1>2 DEF LimitsAgree, QuotasKnown, ThrottledListed
<1> QED
  BY <1>5, <1>6 DEF Inv

LEMMA MonitorInv == Inv /\ Monitor => Inv'
<1> SUFFICES ASSUME Inv, Monitor PROVE Inv'
  OBVIOUS
<1> USE DEF Inv
<1>1. /\ phase' = "resume"
      /\ running' \subseteq Pods
      /\ candidates' = candidates /\ failures' = failures /\ lost' = lost
  BY DEF Monitor
<1>2. ASSUME NEW p \in Pods
      PROVE  /\ IsContainer(con'[p])
             /\ LimitAgrees(con[p]) => LimitAgrees(con'[p])
             /\ QuotaKnown(con[p]) => QuotaKnown(con'[p])
  <2>1. PICK L : con[p] \in ContainerOf(L)
    BY DEF Shapes, IsContainer
  <2>2. con'[p] = IF p \in running'
                  THEN [con[p] EXCEPT !.cg.throttled = con[p].actual.throttled]
                  ELSE con[p]
    BY DEF Monitor
  <2>3. CASE p \in running'
    <3> DEFINE d == [con[p] EXCEPT !.cg.throttled = con[p].actual.throttled]
    <3>1. /\ d \in ContainerOf(L)
          /\ d.orig = con[p].orig /\ d.actual = con[p].actual
          /\ d.cg.throttled = con[p].actual.throttled
      BY <2>1 DEF ContainerOf, SettingOf
    <3>2. con'[p] = d
      BY <2>2, <2>3
    <3> HIDE DEF d
    <3> QED
      BY <3>1, <3>2 DEF IsContainer, LimitAgrees, QuotaKnown
  <2>4. CASE p \notin running'
    BY <2>1, <2>2, <2>4 DEF IsContainer
  <2> QED
    BY <2>3, <2>4
<1>3. Shapes'
  BY <1>1, <1>2 DEF Shapes, IsContainer
<1>4. LimitsAgree'
  BY <1>1, <1>2 DEF LimitsAgree, LimitAgrees
<1>5. QuotasKnown'
  BY <1>1, <1>2 DEF QuotasKnown, QuotaKnown
<1>6. ThrottledListed'
  BY <1>1 DEF ThrottledListed, Listed
<1> QED
  BY <1>3, <1>4, <1>5, <1>6

LEMMA ResumeInv == Inv /\ Resume => Inv'
<1> SUFFICES ASSUME Inv, Resume PROVE Inv'
  OBVIOUS
<1> USE DEF Inv
<1> DEFINE S == {p \in Pods : /\ con[p].cg.throttled
                             /\ \/ p \notin ToSet(candidates)
                                \/ p \notin ToSet(pauseList)}
           After == [p \in Pods |->
                       [o \in Outcome |-> SendQuota(con[p], FALSE, o.update)]]
<1>1. /\ phase = "resume" /\ phase' = "down"
      /\ ForEach(S, After)
      /\ running' = running /\ candidates' = candidates
      /\ pauseList' = pauseList
  BY DEF Resume
<1>2. ASSUME NEW p \in Pods, NEW o \in Outcome
      PROVE  /\ IsContainer(After[p][o])
             /\ Answered(o) => LimitAgrees(After[p][o])
             /\ LimitAgrees(con[p]) => LimitAgrees(After[p][o])
             /\ o = AllWell /\ con[p].cg.throttled =>
                  QuotaKnown(After[p][o]) /\ ~After[p][o].actual.throttled
  <2>1. PICK L : con[p] \in ContainerOf(L)
    BY DEF Shapes, IsContainer
  <2>2. PICK t \in BOOLEAN, ok \in BOOLEAN : t = FALSE /\ ok = o.update
    BY OutcomeType
  <2>3. After[p][o] = SendQuota(con[p], t, ok)
    BY <2>2
  <2> HIDE DEF After
  <2>4. /\ After[p][o] \in ContainerOf(L)
        /\ After[p][o].cg = con[p].cg
        /\ ok => LimitAgrees(After[p][o])
        /\ LimitAgrees(con[p]) => LimitAgrees(After[p][o])
        /\ After[p][o].orig.throttled = t
        /\ ok => After[p][o].actual.throttled = t
    BY <2>1, <2>3, SendQuotaResult
  <2>5. o = AllWell => ok
    BY <2>2, OutcomeType
  <2>6. Answered(o) => ok
    BY <1>1, <2>2 DEF Answered
  <2> QED
    BY <2>2, <2>4, <2>5, <2>6 DEF IsContainer, QuotaKnown
<1>3. \A p \in S : con[p].cg.throttled
  OBVIOUS
<1>4. \A p \in Pods : con[p].actual.throttled /\ p \notin S /\ failures = 0 =>
         p \in ToSet(candidates) /\ p \in ToSet(pauseList)
  BY DEF QuotasKnown, QuotaKnown
<1> HIDE DEF S, After
<1>5. /\ failures' \in Nat
      /\ \A p \in Pods : IsContainer(con[p])'
      /\ LimitsAgree'
      /\ QuotasKnown'
      /\ failures' = 0 => failures = 0
      /\ \A p \in Pods \cap S : failures' = 0 => con'[p] = After[p][AllWell]
      /\ \A p \in Pods \ S : con'[p] = con[p]
  BY <1>1, <1>2, <1>3, Stage
<1>6. Shapes'
  BY <1>1, <1>5 DEF Shapes
<1>7. ThrottledListed'
  <2> SUFFICES ASSUME failures' = 0, NEW p \in Pods, con'[p].actual.throttled
               PROVE  p \in ToSet(candidates) /\ p \in ToSet(pauseList)
    BY <1>1 DEF ThrottledListed, Listed
  <2>1. p \notin S
    BY <1>2, <1>3, <1>5, OutcomeType
  <2> QED
    BY <1>4, <1>5, <2>1
<1> QED
  BY <1>5, <1>6, <1>7

\* What the goroutines of DecisionScaleDown make of their containers.
LEMMA ScaleDownResult ==
    ASSUME NEW p \in Pods, IsContainer(con[p]), NEW o \in Outcome, NEW d,
           d = IF p \in Small
               THEN ReadBack(SendLimit(con[p], MinSize, o.update), o.read)
               ELSE SetLimit(con[p], DownSize(p), o)
    PROVE  /\ IsContainer(d)
           /\ o.update \/ o.read => LimitAgrees(d)
           /\ d.actual.limit \in {IF p \in Small THEN MinSize ELSE DownSize(p),
                                 con[p].actual.limit, con[p].orig.limit}
           /\ o = AllWell /\ QuotaKnown(con[p]) =>
                QuotaKnown(d) /\ (d.actual.throttled => con[p].actual.throttled)
<1>1. CASE p \in Small
  <2>1. PICK L : con[p] \in ContainerOf(L) /\ MinSize \in L
    BY ContainerWider
  <2>2. d = ReadBack(SendLimit(con[p], MinSize, o.update), o.read)
    BY <1>1
  <2>3. /\ d \in ContainerOf(L)
        /\ o.update \/ o.read => LimitAgrees(d)
        /\ d.actual.limit \in {MinSize, con[p].actual.limit}
        /\ o = AllWell /\ QuotaKnown(con[p]) =>
             QuotaKnown(d) /\ d.actual.throttled = con[p].actual.throttled
    BY <2>1, <2>2, LowerResult
  <2> QED
    BY <1>1, <2>3 DEF IsContainer
<1>2. CASE p \notin Small
  <2>1. PICK L : con[p] \in ContainerOf(L) /\ DownSize(p) \in L
    BY ContainerWider
  <2>2. d = SetLimit(con[p], DownSize(p), o)
    BY <1>2
  <2>3. /\ d \in ContainerOf(L)
        /\ o.update \/ o.read => LimitAgrees(d)
        /\ d.actual.limit \in {DownSize(p), con[p].actual.limit, con[p].orig.limit}
        /\ o = AllWell /\ QuotaKnown(con[p]) =>
             QuotaKnown(d) /\ ~d.actual.throttled
    BY <2>1, <2>2, SetLimitResult
  <2> QED
    BY <1>2, <2>3 DEF IsContainer
<1> QED
  BY <1>1, <1>2

LEMMA DecisionScaleDownInv == Inv /\ DecisionScaleDown => Inv'
<1> SUFFICES ASSUME Inv, DecisionScaleDown PROVE Inv'
  OBVIOUS
<1> USE DEF Inv
<1> DEFINE S == Small \cup TooLarge
           After == [p \in Pods |-> [o \in Outcome |->
             IF p \in Small
             THEN ReadBack(SendLimit(con[p], MinSize, o.update), o.read)
             ELSE SetLimit(con[p], DownSize(p), o)]]
<1>1. /\ phase = "down" /\ phase' = "plan"
      /\ ForEach(S, After)
      /\ running' = running /\ candidates' = candidates
      /\ pauseList' = pauseList
  BY DEF DecisionScaleDown
<1>2. ASSUME NEW p \in Pods, NEW o \in Outcome
      PROVE  /\ IsContainer(After[p][o])
             /\ Answered(o) => LimitAgrees(After[p][o])
             /\ o = AllWell /\ QuotaKnown(con[p]) =>
                  /\ QuotaKnown(After[p][o])
                  /\ After[p][o].actual.throttled => con[p].actual.throttled
  <2>1. IsContainer(con[p])
    BY DEF Shapes
  <2>2. PICK d : d = After[p][o]
    OBVIOUS
  <2>3. d = IF p \in Small
            THEN ReadBack(SendLimit(con[p], MinSize, o.update), o.read)
            ELSE SetLimit(con[p], DownSize(p), o)
    BY <2>2
  <2>4. Answered(o) => o.update \/ o.read
    BY DEF Answered
  <2> HIDE DEF After
  <2> QED
    BY <2>1, <2>2, <2>3, <2>4, ScaleDownResult
<1> HIDE DEF S, After
<1>3. /\ failures' \in Nat
      /\ \A p \in Pods : IsContainer(con[p])'
      /\ LimitsAgree'
      /\ QuotasKnown'
      /\ failures' = 0 => failures = 0
      /\ \A p \in Pods \cap S : failures' = 0 => con'[p] = After[p][AllWell]
      /\ \A p \in Pods \ S : con'[p] = con[p]
  BY <1>1, <1>2, Stage
<1>4. Shapes'
  BY <1>1, <1>3 DEF Shapes
<1>5. ThrottledListed'
  <2> SUFFICES ASSUME failures' = 0, NEW p \in Pods, con'[p].actual.throttled
               PROVE  p \in ToSet(candidates) /\ p \in ToSet(pauseList)
    BY <1>1 DEF ThrottledListed, Listed
  <2>1. con[p].actual.throttled
    BY <1>2, <1>3, OutcomeType DEF QuotasKnown
  <2> QED
    BY <1>1, <1>3, <2>1 DEF ThrottledListed, Listed
<1> QED
  BY <1>3, <1>4, <1>5

\* The candidates that are added come in some order.
LEMMA OrdersOfSet ==
    ASSUME NEW S, S \subseteq Pods, NEW s \in SetToSeqs(S)
    PROVE  s \in Seq(S)
<1>1. IsFiniteSet(S)
  BY ConstantsAssumption, FS_Subset
<1>2. Cardinality(S) \in Nat
  BY <1>1, FS_CardinalityType
<1>3. s \in [1 .. Cardinality(S) -> S]
  BY DEF SetToSeqs
<1>4. PICK n \in Nat : s \in [1 .. n -> S]
  BY <1>2, <1>3
<1> QED
  BY <1>4

\* Appending keeps what a list has.
LEMMA ConcatElements ==
    ASSUME NEW S, NEW s \in Seq(S), NEW t \in Seq(S)
    PROVE  s \o t \in Seq(S) /\ ToSet(s) \subseteq ToSet(s \o t)
<1>1. s \o t \in Seq(S)
  OBVIOUS
<1>2. ASSUME NEW i \in DOMAIN s
      PROVE  i \in DOMAIN (s \o t) /\ (s \o t)[i] = s[i]
  OBVIOUS
<1> QED
  BY <1>1, <1>2 DEF ToSet

LEMMA PlanScaleUpInv == Inv /\ PlanScaleUp => Inv'
<1> SUFFICES ASSUME Inv, PlanScaleUp PROVE Inv'
  OBVIOUS
<1> USE DEF Inv
<1> DEFINE hot == {p \in Sampled : /\ Hot(Latest(p))
                                   /\ CheckToAppendScaleCandidateList(p)}
<1>1. /\ phase = "plan" /\ phase' = "scale"
      /\ running' = running /\ con' = con /\ lost' = lost
      /\ failures' = failures /\ pauseList' = pauseList
  BY DEF PlanScaleUp
<1>2. PICK new \in SetToSeqs(hot) : candidates' = candidates \o new
  BY DEF PlanScaleUp
<1>3. hot \subseteq Pods
  BY DEF Shapes, Sampled
<1> HIDE DEF hot
<1>4. candidates' \in Seq(Pods) /\ ToSet(candidates) \subseteq ToSet(candidates')
  <2>1. new \in Seq(Pods) /\ candidates \in Seq(Pods)
    BY <1>3, OrdersOfSet, SeqMonotonic DEF Shapes
  <2> QED
    BY <1>2, <2>1, ConcatElements
<1>5. Shapes'
  BY <1>1, <1>4 DEF Shapes, IsContainer
<1>6. LimitsAgree' /\ QuotasKnown'
  BY <1>1 DEF LimitsAgree, LimitAgrees, QuotasKnown, QuotaKnown
<1>7. ThrottledListed'
  <2> SUFFICES ASSUME failures' = 0, NEW p \in Pods, con'[p].actual.throttled
               PROVE  p \in ToSet(candidates') /\ p \in ToSet(pauseList)
    BY <1>1 DEF ThrottledListed, Listed
  <2> QED
    BY <1>1, <1>4 DEF ThrottledListed, Listed
<1> QED
  BY <1>5, <1>6, <1>7

-----------------------------------------------------------------------------
(***************************************************************************)
(* Scaling up.                                                             *)
(***************************************************************************)

\* Whatever a set of containers gets, those of the set are throttled no more.
LEMMA ScaleUpStage ==
    ASSUME Inv, phase = "scale", NEW grown, NEW growth, ScaleUp(grown, growth)
    PROVE  /\ failures' \in Nat
           /\ \A p \in Pods : IsContainer(con[p])'
           /\ LimitsAgree'
           /\ QuotasKnown'
           /\ failures' = 0 => failures = 0
           /\ \A p \in Pods : failures' = 0 /\ con'[p].actual.throttled =>
                 p \notin grown /\ con[p].actual.throttled
<1> USE DEF Inv
<1> DEFINE After == [p \in Pods |-> [o \in Outcome |->
                       SetLimit(con[p], con[p].orig.limit + growth[p], o)]]
<1>1. ForEach(grown, After)
  BY DEF ScaleUp
<1>2. ASSUME NEW p \in Pods, NEW o \in Outcome
      PROVE  /\ IsContainer(After[p][o])
             /\ Answered(o) => LimitAgrees(After[p][o])
             /\ o = AllWell /\ QuotaKnown(con[p]) =>
                  QuotaKnown(After[p][o]) /\ ~After[p][o].actual.throttled
  <2> DEFINE l == con[p].orig.limit + growth[p]
  <2>1. After[p][o] = SetLimit(con[p], l, o)
    OBVIOUS
  <2> HIDE DEF l, After
  <2>2. IsContainer(con[p])
    BY DEF Shapes
  <2>3. PICK L : con[p] \in ContainerOf(L) /\ l \in L
    BY <2>2, ContainerWider
  <2>4. PICK d : d = After[p][o]
    OBVIOUS
  <2>5. /\ d \in ContainerOf(L)
        /\ o.update \/ o.read => LimitAgrees(d)
        /\ o = AllWell /\ QuotaKnown(con[p]) =>
             QuotaKnown(d) /\ ~d.actual.throttled
    BY <2>1, <2>3, <2>4, SetLimitResult
  <2> QED
    BY <2>4, <2>5 DEF IsContainer, Answered
<1> HIDE DEF After
<1>3. /\ failures' \in Nat
      /\ \A p \in Pods : IsContainer(con[p])'
      /\ LimitsAgree'
      /\ QuotasKnown'
      /\ failures' = 0 => failures = 0
      /\ \A p \in Pods \cap grown :
            failures' = 0 => con'[p] = After[p][AllWell]
      /\ \A p \in Pods \ grown : con'[p] = con[p]
  BY <1>1, <1>2, Stage
<1>4. ASSUME NEW p \in Pods, failures' = 0, con'[p].actual.throttled
      PROVE  p \notin grown /\ con[p].actual.throttled
  BY <1>2, <1>3, <1>4, OutcomeType DEF QuotasKnown
<1> QED
  BY <1>3, <1>4

LEMMA ScaleUpAllInv == Inv /\ ScaleUpAll => Inv'
<1> SUFFICES ASSUME Inv, ScaleUpAll PROVE Inv'
  OBVIOUS
<1> DEFINE grown == {p \in ToSet(candidates) : size[p] # 0}
           growth == Growth(candidates,
                            [i \in DOMAIN candidates |-> size[candidates[i]]])
<1>1. /\ phase = "scale" /\ phase' = "continue"
      /\ ScaleUp(grown, growth)
      /\ candidates' = <<>>
      /\ running' = running /\ pauseList' = pauseList
  BY DEF ScaleUpAll
<1> HIDE DEF grown, growth
<1>2. /\ failures' \in Nat
      /\ \A p \in Pods : IsContainer(con[p])'
      /\ LimitsAgree' /\ QuotasKnown'
      /\ failures' = 0 => failures = 0
      /\ \A p \in Pods : failures' = 0 /\ con'[p].actual.throttled =>
            con[p].actual.throttled
  BY <1>1, ScaleUpStage
<1>3. Shapes'
  <2>1. <<>> \in Seq(Pods)
    OBVIOUS
  <2> QED
    BY <1>1, <1>2, <2>1 DEF Inv, Shapes
<1>4. ThrottledListed'
  <2> SUFFICES ASSUME failures' = 0, NEW p \in Pods, con'[p].actual.throttled
               PROVE  p \in ToSet(pauseList)
    BY <1>1 DEF ThrottledListed, Listed
  <2> QED
    BY <1>1, <1>2 DEF Inv, ThrottledListed, Listed
<1> QED
  BY <1>2, <1>3, <1>4 DEF Inv

\* A candidate is scaled up or left over; the cut may do both with one.
LEMMA TargetsAndLeftOver ==
    ASSUME NEW S, NEW list \in Seq(S), NEW k \in 1 .. Len(list) + 1
    PROVE  /\ Targets(list, k) \in Seq(S)
           /\ LeftOver(list, k) \in Seq(S)
           /\ ToSet(list) \subseteq
                ToSet(Targets(list, k)) \cup ToSet(LeftOver(list, k))
<1> DEFINE n == NoScaleUpIndex(list, k)
           m == IF n >= Len(list) THEN n ELSE n + 1
<1>1. n \in 0 .. Len(list)
  BY DEF NoScaleUpIndex
<1>2. m \in n .. Len(list) /\ m \in Nat
  BY <1>1
<1>3. Targets(list, k) = SubSeq(list, 1, m)
  BY DEF Targets
<1>4. LeftOver(list, k) = SubSeq(list, n + 1, Len(list))
  BY DEF LeftOver
<1> HIDE DEF n, m
<1>5. Targets(list, k) \in Seq(S) /\ LeftOver(list, k) \in Seq(S)
  BY <1>1, <1>2, <1>3, <1>4
<1>6. ASSUME NEW i \in DOMAIN list
      PROVE  list[i] \in ToSet(Targets(list, k)) \cup ToSet(LeftOver(list, k))
  <2>1. CASE i <= n
    <3>1. /\ i \in DOMAIN SubSeq(list, 1, m)
          /\ SubSeq(list, 1, m)[i] = list[i]
      BY <1>1, <1>2, <2>1
    <3> QED
      BY <1>3, <3>1 DEF ToSet
  <2>2. CASE i > n
    <3>1. /\ i - n \in DOMAIN SubSeq(list, n + 1, Len(list))
          /\ SubSeq(list, n + 1, Len(list))[i - n] = list[i]
      BY <1>1, <2>2
    <3> QED
      BY <1>4, <3>1 DEF ToSet
  <2> QED
    BY <1>1, <2>1, <2>2
<1> QED
  BY <1>5, <1>6 DEF ToSet

LEMMA ScaleUpSomeInv == Inv /\ ScaleUpSome => Inv'
<1> SUFFICES ASSUME Inv, ScaleUpSome PROVE Inv'
  OBVIOUS
<1>1. /\ phase = "scale" /\ phase' = "pause"
      /\ running' = running /\ pauseList' = pauseList
  BY DEF ScaleUpSome
<1>2. PICK k \in 1 .. Len(candidates) + 1 :
         /\ \E growth : ScaleUp(ToSet(Targets(candidates, k)), growth)
         /\ candidates' = LeftOver(candidates, k)
  BY DEF ScaleUpSome, SortedCandidates
<1>3. /\ failures' \in Nat
      /\ \A p \in Pods : IsContainer(con[p])'
      /\ LimitsAgree' /\ QuotasKnown'
      /\ failures' = 0 => failures = 0
      /\ \A p \in Pods : failures' = 0 /\ con'[p].actual.throttled =>
            p \notin ToSet(Targets(candidates, k)) /\ con[p].actual.throttled
  BY <1>1, <1>2, ScaleUpStage
<1>4. /\ LeftOver(candidates, k) \in Seq(Pods)
      /\ ToSet(candidates) \subseteq
           ToSet(Targets(candidates, k)) \cup ToSet(LeftOver(candidates, k))
  BY TargetsAndLeftOver DEF Inv, Shapes
<1>5. Shapes'
  BY <1>1, <1>2, <1>3, <1>4 DEF Inv, Shapes
<1>6. ThrottledListed'
  <2> SUFFICES ASSUME failures' = 0, NEW p \in Pods, con'[p].actual.throttled
               PROVE  p \in ToSet(candidates')
    BY <1>1 DEF ThrottledListed, Listed
  <2> QED
    BY <1>1, <1>2, <1>3, <1>4 DEF Inv, ThrottledListed, Listed
<1> QED
  BY <1>3, <1>5, <1>6 DEF Inv

-----------------------------------------------------------------------------
(***************************************************************************)
(* Pausing and continuing.                                                 *)
(***************************************************************************)

\* The goroutines of one loop pause, or let continue, the containers of a set.
LEMMA QuotaStage ==
    ASSUME Inv, NEW S, NEW t \in BOOLEAN,
           ForEach(S, [p \in Pods |-> [o \in Outcome |-> SetQuota(con[p], t, o)]])
    PROVE  /\ failures' \in Nat
           /\ \A p \in Pods : IsContainer(con[p])'
           /\ LimitsAgree'
           /\ QuotasKnown'
           /\ failures' = 0 => failures = 0
           /\ \A p \in Pods \cap S : failures' = 0 => con'[p].actual.throttled = t
           /\ \A p \in Pods \ S : con'[p] = con[p]
           /\ \A p \in Pods \ lost : LimitKept(p)
<1> USE DEF Inv
<1> DEFINE After == [p \in Pods |-> [o \in Outcome |-> SetQuota(con[p], t, o)]]
<1>1. ForEach(S, After)
  OBVIOUS
<1>2. ASSUME NEW p \in Pods, NEW o \in Outcome
      PROVE  /\ IsContainer(After[p][o])
             /\ Answered(o) => LimitAgrees(After[p][o])
             /\ LimitAgrees(con[p]) =>
                  /\ LimitAgrees(After[p][o])
                  /\ After[p][o].actual.limit = con[p].actual.limit
             /\ o = AllWell =>
                  QuotaKnown(After[p][o]) /\ After[p][o].actual.throttled = t
  <2>1. PICK L : con[p] \in ContainerOf(L)
    BY DEF Shapes, IsContainer
  <2>2. PICK d : d = After[p][o]
    OBVIOUS
  <2>3. d = SetQuota(con[p], t, o)
    BY <2>2
  <2> HIDE DEF After
  <2>4. /\ d \in ContainerOf(L)
        /\ LimitAgrees(con[p]) =>
             LimitAgrees(d) /\ d.actual.limit = con[p].actual.limit
        /\ o.update \/ o.read => LimitAgrees(d)
        /\ o = AllWell => QuotaKnown(d) /\ d.actual.throttled = t
    BY <2>1, <2>3, SetQuotaResult
  <2> QED
    BY <2>2, <2>4 DEF IsContainer, Answered
<1> HIDE DEF After
<1>3. /\ failures' \in Nat
      /\ \A p \in Pods : IsContainer(con[p])'
      /\ LimitsAgree'
      /\ QuotasKnown'
      /\ failures' = 0 => failures = 0
      /\ \A p \in Pods \cap S : failures' = 0 => con'[p] = After[p][AllWell]
      /\ \A p \in Pods \ S : con'[p] = con[p]
      /\ \A p \in Pods \cap S : \E o \in Outcome : con'[p] = After[p][o]
  BY <1>1, <1>2, Stage
<1>4. \A p \in Pods \ lost : LimitKept(p)
  BY <1>2, <1>3 DEF LimitsAgree, LimitKept
<1> QED
  BY <1>2, <1>3, <1>4, OutcomeType

LEMMA PauseLeftOverInv == Inv /\ PauseLeftOver => Inv'
<1> SUFFICES ASSUME Inv, PauseLeftOver PROVE Inv'
  OBVIOUS
<1> DEFINE awake == ToSet(candidates) \ ToSet(pauseList)
<1>1. /\ phase = "pause" /\ phase' = "continue"
      /\ running' = running /\ candidates' = candidates
      /\ ForEach(awake,
                 [p \in Pods |-> [o \in Outcome |-> SetQuota(con[p], TRUE, o)]])
  BY DEF PauseLeftOver
<1>2. \A p \in Pods : p \in awake => p \in ToSet(candidates)
  OBVIOUS
<1> HIDE DEF awake
<1>3. /\ failures' \in Nat
      /\ \A p \in Pods : IsContainer(con[p])'
      /\ LimitsAgree' /\ QuotasKnown'
      /\ failures' = 0 => failures = 0
      /\ \A p \in Pods \ awake : con'[p] = con[p]
  BY <1>1, QuotaStage
<1>4. Shapes'
  BY <1>1, <1>3 DEF Inv, Shapes
<1>5. ThrottledListed'
  <2> SUFFICES ASSUME failures' = 0, NEW p \in Pods, con'[p].actual.throttled
               PROVE  p \in ToSet(candidates)
    BY <1>1 DEF ThrottledListed, Listed
  <2> QED
    BY <1>1, <1>2, <1>3 DEF Inv, ThrottledListed, Listed
<1> QED
  BY <1>3, <1>4, <1>5 DEF Inv

LEMMA ContinueOthersInv == Inv /\ ContinueOthers => Inv'
<1> SUFFICES ASSUME Inv, ContinueOthers PROVE Inv'
  OBVIOUS
<1> DEFINE done == {i \in DOMAIN pauseList : pauseList[i] \notin ToSet(candidates)}
           S == {pauseList[i] : i \in done}
<1>1. /\ phase = "continue" /\ phase' = "delete"
      /\ running' = running /\ candidates' = candidates
      /\ pauseList' = pauseList
      /\ ForEach(S,
                 [p \in Pods |-> [o \in Outcome |-> SetQuota(con[p], FALSE, o)]])
  BY DEF ContinueOthers
<1>2. \A p \in ToSet(pauseList) \ ToSet(candidates) : p \in S
  BY DEF ToSet
<1> HIDE DEF S
<1>3. /\ failures' \in Nat
      /\ \A p \in Pods : IsContainer(con[p])'
      /\ LimitsAgree' /\ QuotasKnown'
      /\ failures' = 0 => failures = 0
      /\ \A p \in Pods \cap S : failures' = 0 => con'[p].actual.throttled = FALSE
      /\ \A p \in Pods \ S : con'[p] = con[p]
  BY <1>1, QuotaStage
<1>4. Shapes'
  BY <1>1, <1>3 DEF Inv, Shapes
<1>5. ThrottledListed'
  <2> SUFFICES ASSUME failures' = 0, NEW p \in Pods, con'[p].actual.throttled
               PROVE  p \in ToSet(candidates)
    BY <1>1 DEF ThrottledListed, Listed
  <2> QED
    BY <1>1, <1>2, <1>3 DEF Inv, ThrottledListed, Listed
<1> QED
  BY <1>3, <1>4, <1>5 DEF Inv

-----------------------------------------------------------------------------
(***************************************************************************)
(* The lists are cleaned up.                                               *)
(***************************************************************************)

\* Nothing of the containers changes.
LEMMA SameContainers ==
    ASSUME Inv, con' = con, lost' = lost, failures' = failures
    PROVE  /\ failures' \in Nat
           /\ \A p \in Pods : IsContainer(con[p])'
           /\ LimitsAgree'
           /\ QuotasKnown'
  BY DEF Inv, Shapes, IsContainer, LimitsAgree, LimitAgrees, QuotasKnown,
         QuotaKnown

LEMMA DeleteContinuedInv == Inv /\ DeleteContinued => Inv'
<1> SUFFICES ASSUME Inv, DeleteContinued PROVE Inv'
  OBVIOUS
<1>1. /\ phase = "delete" /\ phase' = "remove"
      /\ running' = running /\ candidates' = candidates
      /\ con' = con /\ lost' = lost /\ failures' = failures
  BY DEF DeleteContinued
<1>2. Shapes'
  BY <1>1, SameContainers DEF Inv, Shapes
<1>3. ThrottledListed'
  BY <1>1 DEF Inv, ThrottledListed, Listed
<1> QED
  BY <1>1, <1>2, <1>3, SameContainers DEF Inv

LEMMA DecisionRemoveContainerInv == Inv /\ DecisionRemoveContainer => Inv'
<1> SUFFICES ASSUME Inv, DecisionRemoveContainer PROVE Inv'
  OBVIOUS
<1>1. /\ phase' = "monitor" /\ running' = running
      /\ candidates' \in Remnants(candidates)
      /\ con' = con /\ lost' = lost /\ failures' = failures
  BY DEF DecisionRemoveContainer
<1>2. candidates' \in Seq(Pods)
  BY <1>1, RemnantsOfSeq DEF Inv, Shapes
<1>3. Shapes'
  BY <1>1, <1>2, SameContainers DEF Inv, Shapes
<1>4. ThrottledListed'
  BY <1>1 DEF ThrottledListed, Listed
<1> QED
  BY <1>1, <1>3, <1>4, SameContainers DEF Inv

LEMMA InductiveStep == Inv /\ [Next]_vars => Inv'
<1> SUFFICES ASSUME Inv, [Next]_vars PROVE Inv'
  OBVIOUS
<1>1. CASE UNCHANGED vars
  <2>1. /\ phase' = phase /\ running' = running /\ candidates' = candidates
        /\ pauseList' = pauseList /\ con' = con /\ lost' = lost
        /\ failures' = failures
    BY <1>1 DEF vars
  <2>2. Shapes'
    BY <2>1, SameContainers DEF Inv, Shapes
  <2>3. ThrottledListed'
    BY <2>1 DEF Inv, ThrottledListed, Listed
  <2> QED
    BY <2>1, <2>2, <2>3, SameContainers DEF Inv
<1>2. CASE Monitor
  BY <1>2, MonitorInv
<1>3. CASE Resume
  BY <1>3, ResumeInv
<1>4. CASE DecisionScaleDown
  BY <1>4, DecisionScaleDownInv
<1>5. CASE PlanScaleUp
  BY <1>5, PlanScaleUpInv
<1>6. CASE ScaleUpAll
  BY <1>6, ScaleUpAllInv
<1>7. CASE ScaleUpSome
  BY <1>7, ScaleUpSomeInv
<1>8. CASE PauseLeftOver
  BY <1>8, PauseLeftOverInv
<1>9. CASE ContinueOthers
  BY <1>9, ContinueOthersInv
<1>10. CASE DeleteContinued
  BY <1>10, DeleteContinuedInv
<1>11. CASE DecisionRemoveContainer
  BY <1>11, DecisionRemoveContainerInv
<1> QED
  BY <1>1, <1>2, <1>3, <1>4, <1>5, <1>6, <1>7, <1>8, <1>9, <1>10, <1>11 DEF Next

\* The limit the controller will send a container again is the one the runtime
\* enforces, unless the container has answered no call since it was last sent one
\* (InitContainerData's first update included); and as long as no call has failed
\* every throttled container is in the lists that a later stage reads, whatever
\* the racing appends of scale.go have lost of the pause list.
THEOREM Invariance == Spec => []Inv
  BY InitInv, InductiveStep, PTL DEF Spec

\* At the end of DecisionScaleUp every throttled container is a candidate, as
\* long as no call to the runtime has failed.
THEOREM ThrottledWait == Spec => []ThrottledAreWaiting
<1>1. Inv => ThrottledAreWaiting
  BY DEF Inv, ThrottledListed, Listed, ThrottledAreWaiting
<1> QED
  BY <1>1, Invariance, PTL

-----------------------------------------------------------------------------
(***************************************************************************)
(* What the stages do to the limits.                                       *)
(***************************************************************************)

LEMMA ResumeKeepsLimit ==
    ASSUME Inv, Resume, NEW p \in Pods \ lost
    PROVE  LimitKept(p)
<1> DEFINE S == {q \in Pods : /\ con[q].cg.throttled
                             /\ \/ q \notin ToSet(candidates)
                                \/ q \notin ToSet(pauseList)}
           After == [q \in Pods |->
                       [o \in Outcome |-> SendQuota(con[q], FALSE, o.update)]]
<1>1. ForEach(S, After) /\ failures \in Nat
  BY DEF Resume, Inv, Shapes
<1>2. ASSUME NEW o \in Outcome
      PROVE  After[p][o].actual.limit = con[p].actual.limit
  <2>1. PICK L : con[p] \in ContainerOf(L)
    BY DEF Inv, Shapes, IsContainer
  <2>2. PICK t \in BOOLEAN, ok \in BOOLEAN : t = FALSE /\ ok = o.update
    BY OutcomeType
  <2>3. After[p][o] = SendQuota(con[p], t, ok)
    BY <2>2
  <2>4. LimitAgrees(con[p])
    BY DEF Inv, LimitsAgree
  <2> HIDE DEF After
  <2> QED
    BY <2>1, <2>3, <2>4, SendQuotaResult
<1> HIDE DEF S, After
<1>3. /\ \A q \in Pods \ S : con'[q] = con[q]
      /\ \A q \in Pods \cap S : \E o \in Outcome : con'[q] = After[q][o]
  BY <1>1, Goroutines
<1> QED
  BY <1>2, <1>3 DEF LimitKept

\* Pausing, continuing and resuming leave the limit of every container as it is
\* that has answered a call, an update or the read after it, since it was last
\* sent a limit, whatever failed before and whatever fails now.
THEOREM QuotasKeepLimits == Spec => QuotaKeepsLimit
<1>1. ASSUME Inv, Next, phase \in {"resume", "pause", "continue"},
             NEW p \in Pods \ lost
      PROVE  LimitKept(p)
  <2>1. CASE Resume
    BY <1>1, <2>1, ResumeKeepsLimit
  <2>2. CASE PauseLeftOver
    BY <1>1, <2>2, QuotaStage DEF PauseLeftOver
  <2>3. CASE ContinueOthers
    BY <1>1, <2>3, QuotaStage DEF ContinueOthers
  <2> QED
    BY <1>1, <2>1, <2>2, <2>3 DEF Next, Monitor, DecisionScaleDown, PlanScaleUp,
       ScaleUpAll, ScaleUpSome, DeleteContinued, DecisionRemoveContainer
<1>2. Inv /\ [Next]_vars =>
        [(phase \in {"resume", "pause", "continue"}) =>
           \A p \in Pods \ lost : LimitKept(p)]_vars
  BY <1>1
<1> QED
  BY <1>2, Invariance, PTL DEF Spec, QuotaKeepsLimit

-----------------------------------------------------------------------------
(***************************************************************************)
(* The windows.  They hold samples of memory in use, and every candidate   *)
(* has one: the code takes the last entry without looking.                 *)
(***************************************************************************)

SampleOf(L) == [usage : Usages, limit : L]

IsWindow(w) == \E L : w \in Seq(SampleOf(L))

HasSample == {p \in Pods : res[p] # <<>>}

Windows ==
    /\ \A p \in Pods : IsWindow(res[p])
    /\ candidates \in Seq(HasSample)

LEMMA WindowWider ==
    ASSUME NEW w, IsWindow(w), NEW l
    PROVE  \E L : w \in Seq(SampleOf(L)) /\ l \in L /\ 0 \in L
<1>1. PICK L : w \in Seq(SampleOf(L))
  BY DEF IsWindow
<1> DEFINE M == L \cup {l, 0}
<1>2. SampleOf(L) \subseteq SampleOf(M)
  BY DEF SampleOf
<1>3. l \in M /\ 0 \in M
  OBVIOUS
<1> HIDE DEF M
<1>4. w \in Seq(SampleOf(M))
  BY <1>1, <1>2, SeqMonotonic
<1> QED
  BY <1>3, <1>4

\* A new sample makes a window of a window.
LEMMA MeasuredWindow ==
    ASSUME NEW p \in Pods, IsWindow(res[p]), NEW usage \in Usages
    PROVE  /\ IsWindow(Measured(p, usage))
           /\ res[p] # <<>> => Measured(p, usage) # <<>>
<1> DEFINE l == con[p].cg.limit
           longer == Append(res[p], [usage |-> usage, limit |-> 0])
           window == IF ~HasStats(p, usage) THEN res[p]
                     ELSE IF Len(longer) > TimeWindow THEN Tail(longer)
                     ELSE longer
           last(i) == IF i = Len(window) THEN [window[i] EXCEPT !.limit = l]
                      ELSE window[i]
<1>1. PICK L : res[p] \in Seq(SampleOf(L)) /\ l \in L /\ 0 \in L
  BY WindowWider
<1>2. [usage |-> usage, limit |-> 0] \in SampleOf(L)
  BY <1>1 DEF SampleOf
<1>3. /\ longer \in Seq(SampleOf(L)) /\ longer # <<>>
      /\ Tail(longer) \in Seq(SampleOf(L))
      /\ res[p] # <<>> => Tail(longer) # <<>>
  <2>1. PICK e \in SampleOf(L) : e = [usage |-> usage, limit |-> 0]
    BY <1>2
  <2>2. longer = Append(res[p], e)
    BY <2>1
  <2> HIDE DEF longer
  <2>3. /\ longer \in Seq(SampleOf(L)) /\ longer # <<>>
        /\ Len(longer) = Len(res[p]) + 1 /\ Len(res[p]) \in Nat
    BY <1>1, <2>2
  <2>4. Tail(longer) \in Seq(SampleOf(L)) /\ Len(Tail(longer)) = Len(res[p])
    BY <2>3
  <2>5. res[p] # <<>> => Len(res[p]) # 0
    BY <1>1
  <2>6. Len(<<>>) = 0
    OBVIOUS
  <2> QED
    BY <2>3, <2>4, <2>5, <2>6
<1>4. /\ window \in Seq(SampleOf(L))
      /\ res[p] # <<>> => window # <<>>
  BY <1>1, <1>3
<1>5. Measured(p, usage) = [i \in DOMAIN window |-> last(i)]
  BY DEF Measured
<1> HIDE DEF window
<1>6. ASSUME NEW s \in SampleOf(L)
      PROVE  [s EXCEPT !.limit = l] \in SampleOf(L)
  BY <1>1 DEF SampleOf
<1>7. \A i \in DOMAIN window : last(i) \in SampleOf(L)
  BY <1>4, <1>6
<1> HIDE DEF last
<1>8. PICK n \in Nat : DOMAIN window = 1 .. n /\ n = Len(window)
  BY <1>4
<1>9. Measured(p, usage) \in Seq(SampleOf(L)) /\ Len(Measured(p, usage)) = n
  BY <1>5, <1>7, <1>8
<1>10. res[p] # <<>> => n # 0
  BY <1>4, <1>8
<1>11. Measured(p, usage) = <<>> => n = 0
  BY <1>9
<1> QED
  BY <1>9, <1>10, <1>11 DEF IsWindow

\* Both ends of a window that is not empty are samples.
LEMMA WindowEnds ==
    ASSUME NEW p \in Pods, IsWindow(res[p]), res[p] # <<>>
    PROVE  /\ IsWindow(<<Latest(p)>>) /\ IsWindow(<<Head(res[p])>>)
           /\ Latest(p).usage \in Usages
           /\ <<Latest(p)>> # <<>> /\ <<Head(res[p])>> # <<>>
<1>1. PICK L : res[p] \in Seq(SampleOf(L))
  BY DEF IsWindow
<1>2. Latest(p) \in SampleOf(L) /\ Head(res[p]) \in SampleOf(L)
  BY <1>1 DEF Latest
<1>3. \A s \in SampleOf(L) : <<s>> \in Seq(SampleOf(L)) /\ <<s>> # <<>>
  OBVIOUS
<1> QED
  BY <1>2, <1>3 DEF IsWindow, SampleOf

LEMMA ThresholdSample ==
    ASSUME NEW p \in Pods, IsWindow(res[p]), Len(res[p]) >= DownThreshold
    PROVE  res[p] # <<>>
<1>1. DownThreshold \in Nat /\ DownThreshold # 0
  BY ConstantsAssumption
<1>2. Len(<<>>) = 0
  OBVIOUS
<1> QED
  BY <1>1, <1>2

\* Scaling a set of candidates cuts windows and leaves none empty.
LEMMA CutWindows ==
    ASSUME \A p \in Pods : IsWindow(res[p]), NEW S,
           \A p \in Pods \cap S : res[p] # <<>>, res' = OnlyLatest(S)
    PROVE  /\ \A p \in Pods : IsWindow(res'[p])
           /\ HasSample \subseteq HasSample'
<1>1. \A p \in Pods : res'[p] = IF p \in S THEN <<Latest(p)>> ELSE res[p]
  BY DEF OnlyLatest
<1> QED
  BY <1>1, WindowEnds DEF HasSample

\* The candidates keep their samples.
LEMMA CandidatesKept ==
    ASSUME NEW list \in Seq(HasSample), HasSample \subseteq HasSample'
    PROVE  list \in Seq(HasSample')
  BY SeqMonotonic

\* What Monitor makes of the windows and of what it remembers.
LEMMA MonitorMeasures ==
    ASSUME Monitor
    PROVE  \E usage \in [running' -> Usages] :
             /\ res' = [p \in Pods |-> IF p \in running' THEN Measured(p, usage[p])
                                       ELSE res[p]]
             /\ lastUsage' = [p \in Pods |->
                                IF p \in running' /\ HasStats(p, usage[p])
                                THEN usage[p] ELSE lastUsage[p]]
  BY DEF Monitor

LEMMA MonitorWindows ==
    ASSUME Windows, Monitor
    PROVE  Windows'
<1>1. PICK usage \in [running' -> Usages] :
         res' = [p \in Pods |-> IF p \in running' THEN Measured(p, usage[p])
                                ELSE res[p]]
  BY MonitorMeasures
<1>2. ASSUME NEW p \in Pods
      PROVE  IsWindow(res'[p]) /\ (res[p] # <<>> => res'[p] # <<>>)
  <2>1. IsWindow(res[p])
    BY DEF Windows
  <2>2. CASE p \in running'
    BY <1>1, <2>1, <2>2, MeasuredWindow
  <2>3. CASE p \notin running'
    BY <1>1, <2>1, <2>3
  <2> QED
    BY <2>2, <2>3
<1>3. HasSample \subseteq HasSample' /\ candidates' = candidates
  BY <1>2 DEF HasSample, Monitor
<1> QED
  BY <1>2, <1>3, CandidatesKept DEF Windows

LEMMA ScaleDownWindows ==
    ASSUME Inv, Windows, DecisionScaleDown
    PROVE  Windows'
<1>1. \A p \in Pods : res'[p] = IF p \in Small THEN <<Head(res[p])>>
                                 ELSE IF p \in TooLarge THEN <<Latest(p)>>
                                 ELSE res[p]
  BY DEF DecisionScaleDown, OnlyLatest
<1>2. \A p \in Pods : p \in Small \cup TooLarge => res[p] # <<>>
  BY ThresholdSample DEF Windows, Small, TooLarge
<1>3. \A p \in Pods : IsWindow(res'[p]) /\ (res[p] # <<>> => res'[p] # <<>>)
  BY <1>1, <1>2, WindowEnds DEF Windows
<1>4. HasSample \subseteq HasSample' /\ candidates' = candidates
  BY <1>3 DEF HasSample, DecisionScaleDown
<1> QED
  BY <1>3, <1>4, CandidatesKept DEF Windows

LEMMA PlanWindows ==
    ASSUME Inv, Windows, PlanScaleUp
    PROVE  Windows'
<1> DEFINE hot == {p \in Sampled : /\ Hot(Latest(p))
                                   /\ CheckToAppendScaleCandidateList(p)}
<1>1. PICK new \in SetToSeqs(hot) : candidates' = candidates \o new
  BY DEF PlanScaleUp
<1>2. hot \subseteq HasSample /\ HasSample \subseteq Pods
  BY DEF Inv, Shapes, Sampled, HasSample
<1>3. res' = res
  BY DEF PlanScaleUp
<1> HIDE DEF hot
<1>4. new \in Seq(HasSample) /\ candidates \in Seq(HasSample)
  BY <1>2, OrdersOfSet, SeqMonotonic DEF Windows
<1>5. candidates' \in Seq(HasSample)
  BY <1>1, <1>4, ConcatElements
<1>6. HasSample' = HasSample
  BY <1>3 DEF HasSample
<1> QED
  BY <1>3, <1>5, <1>6 DEF Windows

LEMMA ScaleUpAllWindows ==
    ASSUME Windows, ScaleUpAll
    PROVE  Windows'
<1>1. /\ candidates' = <<>>
      /\ res' = OnlyLatest({p \in ToSet(candidates) : size[p] # 0})
  BY DEF ScaleUpAll, ScaleUp
<1>2. ToSet(candidates) \subseteq HasSample
  BY DEF Windows, ToSet
<1>3. \A p \in Pods \cap {q \in ToSet(candidates) : size[q] # 0} : res[p] # <<>>
  BY <1>2 DEF HasSample
<1>4. \A p \in Pods : IsWindow(res'[p])
  BY <1>1, <1>3, CutWindows DEF Windows
<1>5. <<>> \in Seq(HasSample')
  OBVIOUS
<1> QED
  BY <1>1, <1>4, <1>5 DEF Windows

LEMMA ScaleUpSomeWindows ==
    ASSUME Windows, ScaleUpSome
    PROVE  Windows'
<1>1. PICK k \in 1 .. Len(candidates) + 1 :
         /\ res' = OnlyLatest(ToSet(Targets(candidates, k)))
         /\ candidates' = LeftOver(candidates, k)
  BY DEF ScaleUpSome, ScaleUp, SortedCandidates
<1>2. /\ Targets(candidates, k) \in Seq(HasSample)
      /\ LeftOver(candidates, k) \in Seq(HasSample)
  BY TargetsAndLeftOver DEF Windows
<1>3. ToSet(Targets(candidates, k)) \subseteq HasSample
  BY <1>2 DEF ToSet
<1>4. \A p \in Pods \cap ToSet(Targets(candidates, k)) : res[p] # <<>>
  BY <1>3 DEF HasSample
<1>5. /\ \A p \in Pods : IsWindow(res'[p])
      /\ HasSample \subseteq HasSample'
  BY <1>1, <1>4, CutWindows DEF Windows
<1> QED
  BY <1>1, <1>2, <1>5, CandidatesKept DEF Windows

LEMMA RemoveWindows ==
    ASSUME Windows, DecisionRemoveContainer
    PROVE  Windows'
<1>1. res' = res /\ candidates' \in Remnants(candidates)
  BY DEF DecisionRemoveContainer
<1>2. candidates' \in Seq(HasSample)
  BY <1>1, RemnantsOfSeq DEF Windows
<1>3. HasSample' = HasSample
  BY <1>1 DEF HasSample
<1> QED
  BY <1>1, <1>2, <1>3 DEF Windows

LEMMA SameWindows ==
    ASSUME Windows, res' = res, candidates' = candidates
    PROVE  Windows'
  BY DEF Windows, HasSample

LEMMA WindowsStep == Inv /\ Windows /\ [Next]_vars => Windows'
<1> SUFFICES ASSUME Inv, Windows, [Next]_vars PROVE Windows'
  OBVIOUS
<1>1. CASE UNCHANGED vars
  BY <1>1, SameWindows DEF vars
<1>2. CASE Monitor
  BY <1>2, MonitorWindows
<1>3. CASE Resume
  BY <1>3, SameWindows DEF Resume
<1>4. CASE DecisionScaleDown
  BY <1>4, ScaleDownWindows
<1>5. CASE PlanScaleUp
  BY <1>5, PlanWindows
<1>6. CASE ScaleUpAll
  BY <1>6, ScaleUpAllWindows
<1>7. CASE ScaleUpSome
  BY <1>7, ScaleUpSomeWindows
<1>8. CASE PauseLeftOver
  BY <1>8, SameWindows DEF PauseLeftOver
<1>9. CASE ContinueOthers
  BY <1>9, SameWindows DEF ContinueOthers
<1>10. CASE DeleteContinued
  BY <1>10, SameWindows DEF DeleteContinued
<1>11. CASE DecisionRemoveContainer
  BY <1>11, RemoveWindows
<1> QED
  BY <1>1, <1>2, <1>3, <1>4, <1>5, <1>6, <1>7, <1>8, <1>9, <1>10, <1>11 DEF Next

LEMMA InitWindows == Init => Windows
<1> SUFFICES ASSUME Init PROVE Windows
  OBVIOUS
<1>1. <<>> \in Seq(SampleOf({})) /\ <<>> \in Seq(HasSample)
  OBVIOUS
<1> QED
  BY <1>1 DEF Init, Windows, IsWindow

\* No stage takes the latest sample of an empty window; what a restart makes of a
\* window is Monitoring's.
THEOREM CandidatesMeasured == Spec => []Windows
  BY InitWindows, WindowsStep, Invariance, PTL DEF Spec

-----------------------------------------------------------------------------
(***************************************************************************)
(* The samples DecisionScaleDown decides from.  The latest of a window is  *)
(* the last that was measured, unless the window was cut down to its       *)
(* oldest; then the container was last seen to use less than MinSize.      *)
(***************************************************************************)

LatestIsLast(p) ==
    res[p] # <<>> => Latest(p).usage = lastUsage[p] \/ lastUsage[p] < MinSize

Remembered == \A p \in Pods : LatestIsLast(p)

\* The latest sample of a window after a listing.
LEMMA MeasuredLatest ==
    ASSUME NEW p \in Pods, IsWindow(res[p]), NEW usage \in Usages,
           NEW w, w = Measured(p, usage), w # <<>>
    PROVE  IF HasStats(p, usage) THEN w[Len(w)].usage = usage
           ELSE res[p] # <<>> /\ w[Len(w)].usage = Latest(p).usage
<1> DEFINE e == [usage |-> usage, limit |-> 0]
           longer == Append(res[p], e)
           window == IF ~HasStats(p, usage) THEN res[p]
                     ELSE IF Len(longer) > TimeWindow THEN Tail(longer)
                     ELSE longer
           last(i) == IF i = Len(window)
                      THEN [window[i] EXCEPT !.limit = con[p].cg.limit]
                      ELSE window[i]
<1>1. PICK L : res[p] \in Seq(SampleOf(L)) /\ 0 \in L
  BY WindowWider
<1>2. e \in SampleOf(L) /\ e.usage = usage
  BY <1>1 DEF SampleOf
<1>3. w = [i \in DOMAIN window |-> last(i)]
  BY DEF Measured
<1> HIDE DEF e
<1>4. /\ longer \in Seq(SampleOf(L)) /\ Len(longer) = Len(res[p]) + 1
      /\ longer[Len(longer)] = e
      /\ Len(res[p]) \in Nat
  BY <1>1, <1>2
<1> HIDE DEF longer
<1>5. /\ Tail(longer) \in Seq(SampleOf(L)) /\ Len(Tail(longer)) = Len(res[p])
      /\ \A i \in 1 .. Len(res[p]) : Tail(longer)[i] = longer[i + 1]
  <2>1. longer # <<>>
    <3>1. Len(<<>>) = 0
      OBVIOUS
    <3> QED
      BY <1>4, <3>1
  <2> QED
    BY <1>4, <2>1
<1>6. window \in Seq(SampleOf(L))
  BY <1>1, <1>4, <1>5
<1>7. window # <<>> =>
        IF HasStats(p, usage) THEN window[Len(window)] = e
        ELSE res[p] # <<>> /\ window[Len(window)] = Latest(p)
  <2> SUFFICES ASSUME window # <<>>
               PROVE  IF HasStats(p, usage) THEN window[Len(window)] = e
                      ELSE res[p] # <<>> /\ window[Len(window)] = Latest(p)
    OBVIOUS
  <2>1. CASE ~HasStats(p, usage)
    BY <2>1 DEF Latest
  <2>2. CASE HasStats(p, usage) /\ Len(longer) > TimeWindow
    <3>1. window = Tail(longer)
      BY <2>2
    <3>2. Len(res[p]) # 0
      <4>1. \A t \in Seq(SampleOf(L)) : Len(t) = 0 => t = <<>>
        OBVIOUS
      <4> QED
        BY <1>5, <3>1, <4>1
    <3>3. Len(res[p]) \in 1 .. Len(res[p]) /\ Len(Tail(longer)) = Len(res[p])
      BY <1>4, <1>5, <3>2
    <3>4. Tail(longer)[Len(Tail(longer))] = longer[Len(res[p]) + 1]
      BY <1>5, <3>3
    <3> QED
      BY <1>4, <2>2, <3>1, <3>4
  <2>3. CASE HasStats(p, usage) /\ ~(Len(longer) > TimeWindow)
    BY <1>4, <2>3
  <2> QED
    BY <2>1, <2>2, <2>3
<1> HIDE DEF window
<1>8. PICK n \in Nat : DOMAIN window = 1 .. n /\ n = Len(window)
  BY <1>6
<1>9. Len(w) = n /\ (n # 0 => n \in DOMAIN window)
  BY <1>3, <1>8
<1>10. n # 0
  BY <1>3, <1>8
<1>11. window # <<>>
  BY <1>8, <1>10
<1>12. w[n] = [window[n] EXCEPT !.limit = con[p].cg.limit]
  BY <1>3, <1>8, <1>9, <1>10
<1>13. window[n] \in SampleOf(L)
  BY <1>6, <1>8, <1>9, <1>10
<1>14. w[n].usage = window[n].usage
  BY <1>12, <1>13 DEF SampleOf
<1> QED
  BY <1>2, <1>7, <1>8, <1>9, <1>11, <1>14

LEMMA MonitorRemembered ==
    ASSUME Windows, Remembered, Monitor
    PROVE  Remembered'
<1>1. PICK usage \in [running' -> Usages] :
         /\ res' = [p \in Pods |-> IF p \in running' THEN Measured(p, usage[p])
                                   ELSE res[p]]
         /\ lastUsage' = [p \in Pods |->
                            IF p \in running' /\ HasStats(p, usage[p])
                            THEN usage[p] ELSE lastUsage[p]]
  BY MonitorMeasures
<1>2. ASSUME NEW p \in Pods
      PROVE  LatestIsLast(p)'
  <2>1. IsWindow(res[p]) /\ LatestIsLast(p)
    BY DEF Windows, Remembered
  <2>2. CASE p \in running'
    <3>1. PICK w : w = res'[p]
      OBVIOUS
    <3>2. PICK u \in Usages : u = usage[p]
      BY <2>2
    <3>3. w = Measured(p, u)
      BY <1>1, <2>2, <3>1, <3>2
    <3>4. lastUsage'[p] = IF HasStats(p, u) THEN u ELSE lastUsage[p]
      BY <1>1, <2>2, <3>2
    <3>5. w # <<>> => IF HasStats(p, u) THEN w[Len(w)].usage = u
                      ELSE res[p] # <<>> /\ w[Len(w)].usage = Latest(p).usage
      BY <2>1, <3>3, MeasuredLatest
    <3> QED
      BY <2>1, <3>1, <3>4, <3>5 DEF LatestIsLast, Latest
  <2>3. CASE p \notin running'
    BY <1>1, <2>1, <2>3 DEF LatestIsLast, Latest
  <2> QED
    BY <2>2, <2>3
<1> QED
  BY <1>2 DEF Remembered

\* Cutting a window to its latest sample keeps what is said of that.
LEMMA CutRemembered ==
    ASSUME Remembered, NEW S, res' = OnlyLatest(S), lastUsage' = lastUsage,
           \A p \in Pods \cap S : res[p] # <<>>
    PROVE  Remembered'
<1>1. ASSUME NEW p \in Pods
      PROVE  LatestIsLast(p)'
  <2>1. LatestIsLast(p)
    BY DEF Remembered
  <2>2. res'[p] = IF p \in S THEN <<Latest(p)>> ELSE res[p]
    BY DEF OnlyLatest
  <2>3. CASE p \in S
    <3>1. PICK e : e = Latest(p)
      OBVIOUS
    <3>2. res'[p] = <<e>> /\ <<e>>[Len(<<e>>)] = e
      BY <2>2, <2>3, <3>1
    <3>3. Latest(p)' = e
      BY <3>2 DEF Latest
    <3> QED
      BY <2>1, <2>3, <3>1, <3>3 DEF LatestIsLast
  <2>4. CASE p \notin S
    BY <2>1, <2>2, <2>4 DEF LatestIsLast, Latest
  <2> QED
    BY <2>3, <2>4
<1> QED
  BY <1>1 DEF Remembered

\* A container whose window is cut to its oldest sample uses less than MinSize.
LEMMA ScaleDownRemembered ==
    ASSUME Inv, Windows, Remembered, DecisionScaleDown
    PROVE  Remembered'
<1>1. /\ \A p \in Pods : res'[p] = IF p \in Small THEN <<Head(res[p])>>
                                    ELSE IF p \in TooLarge THEN <<Latest(p)>>
                                    ELSE res[p]
      /\ lastUsage' = lastUsage
  BY DEF DecisionScaleDown, OnlyLatest, ForEach
<1>2. \A p \in Pods : p \in Small \cup TooLarge => res[p] # <<>>
  BY ThresholdSample DEF Windows, Small, TooLarge
<1>3. ASSUME NEW p \in Pods
      PROVE  LatestIsLast(p)'
  <2>1. LatestIsLast(p)
    BY DEF Remembered
  <2>2. CASE p \in Small
    <3>1. Latest(p).usage < MinSize
      BY <2>2 DEF Small
    <3>2. lastUsage[p] < MinSize
      BY <1>2, <2>1, <2>2, <3>1 DEF LatestIsLast
    <3> QED
      BY <1>1, <3>2 DEF LatestIsLast
  <2>3. CASE p \in TooLarge \ Small
    <3>1. PICK e : e = Latest(p)
      OBVIOUS
    <3>2. res'[p] = <<e>> /\ <<e>>[Len(<<e>>)] = e
      BY <1>1, <2>3, <3>1
    <3>3. Latest(p)' = e
      BY <3>2 DEF Latest
    <3> QED
      BY <1>1, <1>2, <2>1, <2>3, <3>1, <3>3 DEF LatestIsLast
  <2>4. CASE p \notin Small \cup TooLarge
    BY <1>1, <2>1, <2>4 DEF LatestIsLast, Latest
  <2> QED
    BY <2>2, <2>3, <2>4
<1> QED
  BY <1>3 DEF Remembered

LEMMA SameRemembered ==
    ASSUME Remembered, res' = res, lastUsage' = lastUsage
    PROVE  Remembered'
  BY DEF Remembered, LatestIsLast, Latest

LEMMA RememberedStep ==
    Inv /\ Windows /\ Remembered /\ [Next]_vars => Remembered'
<1> SUFFICES ASSUME Inv, Windows, Remembered, [Next]_vars PROVE Remembered'
  OBVIOUS
<1>1. CASE UNCHANGED vars
  BY <1>1, SameRemembered DEF vars
<1>2. CASE Monitor
  BY <1>2, MonitorRemembered
<1>3. CASE Resume
  BY <1>3, SameRemembered DEF Resume, ForEach
<1>4. CASE DecisionScaleDown
  BY <1>4, ScaleDownRemembered
<1>5. CASE PlanScaleUp
  BY <1>5, SameRemembered DEF PlanScaleUp
<1>6. CASE ScaleUpAll
  <2>1. /\ res' = OnlyLatest({p \in ToSet(candidates) : size[p] # 0})
        /\ lastUsage' = lastUsage
    BY <1>6 DEF ScaleUpAll, ScaleUp, ForEach
  <2>2. ToSet(candidates) \subseteq HasSample
    BY DEF Windows, ToSet
  <2>3. \A p \in Pods \cap {q \in ToSet(candidates) : size[q] # 0} : res[p] # <<>>
    BY <2>2 DEF HasSample
  <2> QED
    BY <2>1, <2>3, CutRemembered
<1>7. CASE ScaleUpSome
  <2>1. PICK k \in 1 .. Len(candidates) + 1 :
           /\ res' = OnlyLatest(ToSet(Targets(candidates, k)))
           /\ lastUsage' = lastUsage
    BY <1>7 DEF ScaleUpSome, ScaleUp, SortedCandidates, ForEach
  <2>2. Targets(candidates, k) \in Seq(HasSample)
    BY TargetsAndLeftOver DEF Windows
  <2>3. \A p \in Pods \cap ToSet(Targets(candidates, k)) : res[p] # <<>>
    BY <2>2 DEF HasSample, ToSet
  <2> QED
    BY <2>1, <2>3, CutRemembered
<1>8. CASE PauseLeftOver
  BY <1>8, SameRemembered DEF PauseLeftOver, ForEach
<1>9. CASE ContinueOthers
  BY <1>9, SameRemembered DEF ContinueOthers, ForEach
<1>10. CASE DeleteContinued
  BY <1>10, SameRemembered DEF DeleteContinued
<1>11. CASE DecisionRemoveContainer
  BY <1>11, SameRemembered DEF DecisionRemoveContainer
<1> QED
  BY <1>1, <1>2, <1>3, <1>4, <1>5, <1>6, <1>7, <1>8, <1>9, <1>10, <1>11 DEF Next

\* What scaling down takes for the latest usage is, or bounds, the last one
\* measured.
LEMMA UsageRemembered == Spec => []Remembered
<1>1. Init => Remembered
  BY DEF Init, Remembered, LatestIsLast
<1> QED
  BY <1>1, RememberedStep, Invariance, CandidatesMeasured, PTL DEF Spec

\* What DecisionScaleDown may leave of a limit it changes.
DownKeeps(p) ==
    \/ LimitKept(p)
    \/ con'[p].actual.limit >= lastUsage[p]
    \/ p \in lost /\ con'[p].actual.limit = con[p].orig.limit

\* A limit that DecisionScaleDown sets covers what the container used when it
\* was last measured.
LEMMA ScaleDownCovers ==
    ASSUME Inv, Windows, Remembered, DecisionScaleDown, NEW p \in running,
           lastUsage[p] \in Nat
    PROVE  DownKeeps(p)
<1> SUFFICES ASSUME ~LimitKept(p)
             PROVE  \/ con'[p].actual.limit >= lastUsage[p]
                    \/ p \in lost /\ con'[p].actual.limit = con[p].orig.limit
  BY DEF DownKeeps
<1> DEFINE S == Small \cup TooLarge
           After == [q \in Pods |-> [o \in Outcome |->
             IF q \in Small
             THEN ReadBack(SendLimit(con[q], MinSize, o.update), o.read)
             ELSE SetLimit(con[q], DownSize(q), o)]]
           limit == IF p \in Small THEN MinSize ELSE DownSize(p)
<1>1. ForEach(S, After) /\ failures \in Nat /\ p \in Pods
  BY DEF DecisionScaleDown, Inv, Shapes
<1>2. IsContainer(con[p]) /\ (p \notin lost => LimitAgrees(con[p]))
  BY <1>1 DEF Inv, Shapes, LimitsAgree
<1>3. ASSUME NEW o \in Outcome
      PROVE  After[p][o].actual.limit \in
               {limit, con[p].actual.limit, con[p].orig.limit}
  <2>1. PICK d : d = After[p][o]
    OBVIOUS
  <2>2. d = IF p \in Small
            THEN ReadBack(SendLimit(con[p], MinSize, o.update), o.read)
            ELSE SetLimit(con[p], DownSize(p), o)
    BY <1>1, <2>1
  <2> HIDE DEF After
  <2> QED
    BY <1>1, <1>2, <2>1, <2>2, ScaleDownResult
<1> HIDE DEF After
<1>4. p \in S /\ con'[p].actual.limit \in {limit, con[p].orig.limit}
  <2>1. /\ \A q \in Pods \ S : con'[q] = con[q]
        /\ \A q \in Pods \cap S : \E o \in Outcome : con'[q] = After[q][o]
    BY <1>1, Goroutines
  <2> HIDE DEF S, limit
  <2> QED
    BY <1>1, <1>3, <2>1 DEF LimitKept
<1>5. CASE con'[p].actual.limit = con[p].orig.limit
  BY <1>2, <1>5 DEF LimitKept, LimitAgrees
<1>6. CASE con'[p].actual.limit = limit
  <2>1. res[p] # <<>> /\ IsWindow(res[p])
    BY <1>1, <1>4, ThresholdSample DEF Windows, Small, TooLarge
  <2>2. Latest(p).usage \in Nat
    BY <1>1, <2>1, WindowEnds, ConstantsAssumption
  <2>3. Latest(p).usage = lastUsage[p] \/ lastUsage[p] < MinSize
    BY <1>1, <2>1 DEF Remembered, LatestIsLast
  <2>4. MinSize \in Nat
    BY ConstantsAssumption
  <2>5. limit >= lastUsage[p]
    <3>1. CASE p \in Small
      <4>1. Latest(p).usage < MinSize /\ limit = MinSize
        BY <3>1 DEF Small
      <4> QED
        BY <2>2, <2>3, <2>4, <4>1
    <3>2. CASE p \notin Small
      <4>1. limit = (100 * Latest(p).usage) \div 75
        BY <3>2 DEF DownSize
      <4>2. \A u \in Nat : (100 * u) \div 75 >= u /\ (100 * u) \div 75 \in Nat
        OBVIOUS
      <4>3. Latest(p).usage >= MinSize
        BY <1>4, <3>2 DEF TooLarge
      <4>4. limit >= Latest(p).usage /\ limit \in Nat
        BY <2>2, <4>1, <4>2
      <4> QED
        BY <2>2, <2>3, <2>4, <4>3, <4>4
    <3> QED
      BY <3>1, <3>2
  <2> QED
    BY <1>6, <2>5
<1> QED
  BY <1>4, <1>5, <1>6

-----------------------------------------------------------------------------
(***************************************************************************)
(* Types.  The limits are integers although they come from sums over lists *)
(* that may repeat an entry, the windows never grow beyond TimeWindow, and *)
(* the indices collected for the deletion loop are indices of the pause    *)
(* list until the loop has used them.                                      *)
(***************************************************************************)

Types ==
    /\ TypeOK
    /\ phase # "delete" => toRemove = <<>>

LEMMA ContainerTypes == Container = ContainerOf(Int) /\ Setting = SettingOf(Int)
  BY DEF Container, ContainerOf, Setting, SettingOf

LEMMA ListDomain ==
    ASSUME NEW S, NEW list \in Seq(S)
    PROVE  IsFiniteSet(DOMAIN list) /\ Len(list) \in Nat /\ DOMAIN list = 1 .. Len(list)
<1>1. Len(list) \in Nat /\ DOMAIN list = 1 .. Len(list)
  OBVIOUS
<1>2. IsFiniteSet(1 .. Len(list))
  BY <1>1, FS_Interval
<1> QED
  BY <1>1, <1>2

\* What racing appends leave is a list of the members of the set.
LEMMA RacingType ==
    ASSUME NEW S, IsFiniteSet(S), NEW s \in RacingAppends(S)
    PROVE  s \in Seq(S)
<1>1. CASE S = {}
  BY <1>1 DEF RacingAppends
<1>2. CASE S # {}
  <2>1. PICK T \in SUBSET S : s \in SetToSeqs(T)
    BY <1>2 DEF RacingAppends, SetToAllKPermutations
  <2>2. Cardinality(T) \in Nat
    BY FS_Subset, FS_CardinalityType
  <2>3. PICK n \in Nat : s \in [1 .. n -> T]
    BY <2>1, <2>2 DEF SetToSeqs
  <2> QED
    BY <2>3
<1> QED
  BY <1>1, <1>2

LEMMA GrowthType ==
    ASSUME NEW list \in Seq(Pods), NEW sizes \in [DOMAIN list -> Int]
    PROVE  Growth(list, sizes) \in [Pods -> Int]
<1>1. ASSUME NEW p \in Pods
      PROVE  SumFunctionOnSet(sizes, {i \in DOMAIN list : list[i] = p}) \in Int
  <2> DEFINE S == {i \in DOMAIN list : list[i] = p}
  <2>1. S \in SUBSET DOMAIN list /\ IsFiniteSet(S)
    BY ListDomain, FS_Subset
  <2> HIDE DEF S
  <2>2. SumFunctionOnSet(sizes, S) \in Int
    BY <2>1, SumOfIntegers
  <2> QED
    BY <2>2 DEF S
<1> QED
  BY <1>1 DEF Growth

LEMMA SizesType ==
    ASSUME NEW list \in Seq(Pods), size \in [Pods -> Int]
    PROVE  Sizes(list) \in Int
<1> DEFINE f == [i \in DOMAIN list |-> size[list[i]]]
<1>1. f \in [DOMAIN list -> Int] /\ DOMAIN f = DOMAIN list
  OBVIOUS
<1>2. IsFiniteSet(DOMAIN list)
  BY ListDomain
<1>3. Sizes(list) = SumFunctionOnSet(f, DOMAIN f)
  BY DEF Sizes, SumFunction
<1> HIDE DEF f
<1> QED
  BY <1>1, <1>2, <1>3, SumOfIntegers

LEMMA SumLimitType ==
    ASSUME con \in [Pods -> Container], running \subseteq Pods
    PROVE  SumLimit \in Int
<1> DEFINE f == [p \in Pods |-> con[p].cg.limit]
<1>1. f \in [Pods -> Int]
  BY DEF Container, Setting
<1>2. Sampled \in SUBSET Pods /\ IsFiniteSet(Sampled)
  BY ConstantsAssumption, FS_Subset DEF Sampled
<1> HIDE DEF f
<1> QED
  BY <1>1, <1>2, SumOfIntegers DEF SumLimit, f

\* The last container that is scaled up may get a negative size, but a number.
LEMMA LastScaleUpSizeType ==
    ASSUME Types, NEW list \in Seq(Pods), NEW k \in 1 .. Len(list) + 1
    PROVE  LastScaleUpSize(list, k) \in Int
<1>1. SubSeq(list, 1, k - 1) \in Seq(Pods)
  OBVIOUS
<1>2. Sizes(SubSeq(list, 1, k - 1)) \in Int /\ SumLimit \in Int
  BY <1>1, SizesType, SumLimitType DEF Types, TypeOK
<1>3. Capacity \in Int
  BY ConstantsAssumption
<1> QED
  BY <1>2, <1>3 DEF LastScaleUpSize

\* The goroutines of a stage leave containers, and count their failures.
LEMMA ForEachTypes ==
    ASSUME Types, NEW S, NEW After, ForEach(S, After),
           \A p \in Pods \cap S : \A o \in Outcome : After[p][o] \in Container
    PROVE  /\ con' \in [Pods -> Container]
           /\ lost' \in SUBSET Pods
           /\ failures' \in 0 .. MaxFailures
           /\ lastUsage' \in [Pods -> Usages \cup {0}]
<1>1. con \in [Pods -> Container] /\ failures \in Nat /\ lost \in SUBSET Pods
  BY DEF Types, TypeOK
<1>2. PICK out \in [S -> IF failures < MaxFailures THEN Outcome ELSE {AllWell}] :
         /\ con' = [p \in Pods |-> IF p \in S THEN After[p][out[p]] ELSE con[p]]
         /\ lost' \subseteq Pods
         /\ failures' <= MaxFailures
         /\ lastUsage' = lastUsage
  BY DEF ForEach
<1>3. \A p \in S : out[p] \in Outcome
  BY OutcomeType
<1>4. failures' \in Nat
  BY <1>1, Goroutines
<1>5. failures' \in 0 .. MaxFailures
  BY <1>2, <1>4, ConstantsAssumption
<1>6. lastUsage' \in [Pods -> Usages \cup {0}]
  BY <1>2 DEF Types, TypeOK
<1> QED
  BY <1>1, <1>2, <1>3, <1>5, <1>6

\* What each kind of goroutine makes of a container is a container.
LEMMA SetQuotaType ==
    ASSUME NEW c \in Container, NEW t \in BOOLEAN, NEW o \in Outcome
    PROVE  SetQuota(c, t, o) \in Container
<1>1. PICK d : d = SetQuota(c, t, o)
  OBVIOUS
<1>2. c \in ContainerOf(Int)
  BY ContainerTypes
<1>3. d \in ContainerOf(Int)
  BY <1>1, <1>2, SetQuotaResult
<1> QED
  BY <1>1, <1>3, ContainerTypes

LEMMA SetLimitType ==
    ASSUME NEW c \in Container, NEW l \in Int, NEW o \in Outcome
    PROVE  SetLimit(c, l, o) \in Container
<1>1. PICK d : d = SetLimit(c, l, o)
  OBVIOUS
<1>2. c \in ContainerOf(Int)
  BY ContainerTypes
<1>3. d \in ContainerOf(Int)
  BY <1>1, <1>2, SetLimitResult
<1> QED
  BY <1>1, <1>3, ContainerTypes

LEMMA LowerType ==
    ASSUME NEW c \in Container, NEW l \in Int, NEW o \in Outcome
    PROVE  ReadBack(SendLimit(c, l, o.update), o.read) \in Container
<1>1. PICK d : d = ReadBack(SendLimit(c, l, o.update), o.read)
  OBVIOUS
<1>2. c \in ContainerOf(Int)
  BY ContainerTypes
<1>3. d \in ContainerOf(Int)
  BY <1>1, <1>2, LowerResult
<1> QED
  BY <1>1, <1>3, ContainerTypes

LEMMA SendQuotaType ==
    ASSUME NEW c \in Container, NEW t \in BOOLEAN, NEW ok \in BOOLEAN
    PROVE  SendQuota(c, t, ok) \in Container
<1>1. PICK d : d = SendQuota(c, t, ok)
  OBVIOUS
<1>2. c \in ContainerOf(Int)
  BY ContainerTypes
<1>3. d \in ContainerOf(Int)
  BY <1>1, <1>2, SendQuotaResult
<1> QED
  BY <1>1, <1>3, ContainerTypes

\* A window with one more sample is not longer than TimeWindow.
LEMMA MeasuredType ==
    ASSUME NEW p \in Pods, NEW usage \in Usages, res[p] \in Seq(Sample),
           Len(res[p]) <= TimeWindow, con[p] \in Container
    PROVE  /\ Measured(p, usage) \in Seq(Sample)
           /\ Len(Measured(p, usage)) <= TimeWindow
<1> DEFINE l == con[p].cg.limit
           e == [usage |-> usage, limit |-> 0]
           longer == Append(res[p], e)
           window == IF ~HasStats(p, usage) THEN res[p]
                     ELSE IF Len(longer) > TimeWindow THEN Tail(longer)
                     ELSE longer
           last(i) == IF i = Len(window) THEN [window[i] EXCEPT !.limit = l]
                      ELSE window[i]
<1>1. l \in Int
  BY DEF Container, Setting
<1>2. e \in Sample
  BY DEF Sample
<1>3. TimeWindow \in Nat
  BY ConstantsAssumption
<1>4. Measured(p, usage) = [i \in DOMAIN window |-> last(i)]
  BY DEF Measured
<1> HIDE DEF e
<1>5. /\ longer \in Seq(Sample) /\ Len(longer) = Len(res[p]) + 1
      /\ Len(res[p]) \in Nat
  BY <1>2
<1> HIDE DEF longer
<1>6. Tail(longer) \in Seq(Sample) /\ Len(Tail(longer)) = Len(res[p])
  <2>1. longer # <<>>
    <3>1. Len(<<>>) = 0
      OBVIOUS
    <3> QED
      BY <1>5, <3>1
  <2> QED
    BY <1>5, <2>1
<1>7. window \in Seq(Sample) /\ Len(window) <= TimeWindow
  BY <1>3, <1>5, <1>6
<1> HIDE DEF window, l
<1>8. \A s \in Sample : [s EXCEPT !.limit = l] \in Sample
  BY <1>1 DEF Sample
<1>9. \A i \in DOMAIN window : last(i) \in Sample
  BY <1>7, <1>8
<1> HIDE DEF last
<1>10. PICK n \in Nat : DOMAIN window = 1 .. n /\ n = Len(window)
  BY <1>7
<1>11. Measured(p, usage) \in Seq(Sample) /\ Len(Measured(p, usage)) = n
  BY <1>4, <1>9, <1>10
<1> QED
  BY <1>7, <1>10, <1>11

\* A window that is cut to one of its ends.
LEMMA EndsType ==
    ASSUME NEW p \in Pods, res[p] \in Seq(Sample), res[p] # <<>>,
           Len(res[p]) <= TimeWindow
    PROVE  /\ <<Latest(p)>> \in Seq(Sample) /\ Len(<<Latest(p)>>) <= TimeWindow
           /\ <<Head(res[p])>> \in Seq(Sample) /\ Len(<<Head(res[p])>>) <= TimeWindow
           /\ Latest(p).usage \in Nat
<1>1. TimeWindow \in Nat /\ Usages \subseteq Nat
  BY ConstantsAssumption
<1>2. Len(res[p]) \in Nat /\ Len(res[p]) # 0
  OBVIOUS
<1>3. 1 <= TimeWindow
  BY <1>1, <1>2
<1>4. Latest(p) \in Sample /\ Head(res[p]) \in Sample
  BY DEF Latest
<1>5. \A s \in Sample : <<s>> \in Seq(Sample) /\ Len(<<s>>) = 1
  OBVIOUS
<1>6. Latest(p).usage \in Nat
  BY <1>1, <1>4 DEF Sample
<1> QED
  BY <1>3, <1>4, <1>5, <1>6

\* Scaling a set of candidates up cuts windows.
LEMMA CutTypes ==
    ASSUME Types, NEW S, \A p \in Pods \cap S : res[p] # <<>>,
           res' = OnlyLatest(S)
    PROVE  /\ res' \in [Pods -> Seq(Sample)]
           /\ \A p \in Pods : Len(res'[p]) <= TimeWindow
<1>1. res' = [p \in Pods |-> IF p \in S THEN <<Latest(p)>> ELSE res[p]]
  BY DEF OnlyLatest
<1>2. ASSUME NEW p \in Pods
      PROVE  /\ (IF p \in S THEN <<Latest(p)>> ELSE res[p]) \in Seq(Sample)
             /\ Len(IF p \in S THEN <<Latest(p)>> ELSE res[p]) <= TimeWindow
  <2>1. res[p] \in Seq(Sample) /\ Len(res[p]) <= TimeWindow
    BY DEF Types, TypeOK
  <2> QED
    BY <2>1, EndsType
<1> QED
  BY <1>1, <1>2

LEMMA InitTypes == Init => Types
<1> SUFFICES ASSUME Init PROVE Types
  OBVIOUS
<1> USE DEF Init
<1>1. con \in [Pods -> Container]
  <2>1. Initially \in Setting
    BY ConstantsAssumption DEF Initially, Setting
  <2>2. ASSUME NEW p \in Pods
        PROVE  AtFirst(p, p \notin lost) \in Setting
    <3>1. OwnLimit[p] \in Int
      BY ConstantsAssumption
    <3>2. [Initially EXCEPT !.limit = OwnLimit[p]] \in Setting
      BY <3>1 DEF Initially, Setting
    <3> QED
      BY <2>1, <3>2 DEF AtFirst
  <2> QED
    BY <2>1, <2>2 DEF Container
<1>2. /\ \A S : <<>> \in Seq(S)
      /\ Len(<<>>) = 0
  OBVIOUS
<1>3. res \in [Pods -> Seq(Sample)] /\ \A p \in Pods : Len(res[p]) <= TimeWindow
  BY <1>2, ConstantsAssumption
<1>4. failures \in 0 .. MaxFailures
  BY InitFailures
<1>5. lastUsage \in [Pods -> Usages \cup {0}]
  OBVIOUS
<1> QED
  BY <1>1, <1>2, <1>3, <1>4, <1>5 DEF Types, TypeOK

LEMMA MonitorTypes ==
    ASSUME Types, Monitor
    PROVE  Types'
<1> USE DEF Types, TypeOK
<1>1. PICK usage \in [running' -> Usages] :
         /\ res' = [p \in Pods |-> IF p \in running' THEN Measured(p, usage[p])
                                   ELSE res[p]]
         /\ lastUsage' = [p \in Pods |->
                            IF p \in running' /\ HasStats(p, usage[p])
                            THEN usage[p] ELSE lastUsage[p]]
  BY MonitorMeasures
<1>2. ASSUME NEW p \in Pods
      PROVE  /\ (IF p \in running' THEN Measured(p, usage[p]) ELSE res[p])
                  \in Seq(Sample)
             /\ Len(IF p \in running' THEN Measured(p, usage[p]) ELSE res[p])
                  <= TimeWindow
  <2>1. CASE p \in running'
    BY <2>1, MeasuredType
  <2>2. CASE p \notin running'
    BY <2>2
  <2> QED
    BY <2>1, <2>2
<1>3. /\ res' \in [Pods -> Seq(Sample)]
      /\ \A p \in Pods : Len(res'[p]) <= TimeWindow
  BY <1>1, <1>2
<1>4. con' \in [Pods -> Container]
  <2>1. \A c \in Container :
           [c EXCEPT !.cg.throttled = c.actual.throttled] \in Container
    BY DEF Container, Setting
  <2>2. con' = [p \in Pods |->
                  IF p \in running'
                  THEN [con[p] EXCEPT !.cg.throttled = con[p].actual.throttled]
                  ELSE con[p]]
    BY DEF Monitor
  <2> QED
    BY <2>1, <2>2
<1>5. /\ phase = "monitor" /\ phase' = "resume"
      /\ running' \in SUBSET Pods /\ used' \in NodeUsages
      /\ candidates' = candidates /\ size' = size /\ pauseList' = pauseList
      /\ toRemove' = toRemove /\ lost' = lost /\ failures' = failures
  BY DEF Monitor
<1>6. lastUsage' \in [Pods -> Usages \cup {0}]
  BY <1>1
<1> QED
  BY <1>3, <1>4, <1>5, <1>6

LEMMA ResumeTypes ==
    ASSUME Types, Resume
    PROVE  Types'
<1> DEFINE S == {p \in Pods : /\ con[p].cg.throttled
                             /\ \/ p \notin ToSet(candidates)
                                \/ p \notin ToSet(pauseList)}
           After == [p \in Pods |->
                       [o \in Outcome |-> SendQuota(con[p], FALSE, o.update)]]
<1>1. /\ ForEach(S, After)
      /\ phase = "resume" /\ phase' = "down"
      /\ running' = running /\ used' = used /\ res' = res
      /\ candidates' = candidates /\ size' = size /\ pauseList' = pauseList
      /\ toRemove' = toRemove
  BY DEF Resume
<1>2. ASSUME NEW p \in Pods, NEW o \in Outcome
      PROVE  After[p][o] \in Container
  <2>1. con[p] \in Container
    BY DEF Types, TypeOK
  <2>2. PICK t \in BOOLEAN, ok \in BOOLEAN : t = FALSE /\ ok = o.update
    BY OutcomeType
  <2>3. After[p][o] = SendQuota(con[p], t, ok)
    BY <2>2
  <2> HIDE DEF After
  <2> QED
    BY <2>1, <2>3, SendQuotaType
<1> HIDE DEF S, After
<1>3. /\ con' \in [Pods -> Container] /\ lost' \in SUBSET Pods
      /\ failures' \in 0 .. MaxFailures
      /\ lastUsage' \in [Pods -> Usages \cup {0}]
  BY <1>1, <1>2, ForEachTypes
<1> QED
  BY <1>1, <1>3 DEF Types, TypeOK

LEMMA ScaleDownTypes ==
    ASSUME Types, DecisionScaleDown
    PROVE  Types'
<1> DEFINE After == [p \in Pods |-> [o \in Outcome |->
             IF p \in Small
             THEN ReadBack(SendLimit(con[p], MinSize, o.update), o.read)
             ELSE SetLimit(con[p], DownSize(p), o)]]
<1>1. /\ ForEach(Small \cup TooLarge, After)
      /\ phase = "down" /\ phase' = "plan"
      /\ running' = running /\ used' = used
      /\ candidates' = candidates /\ size' = size /\ pauseList' = pauseList
      /\ toRemove' = toRemove
      /\ res' = [p \in Pods |-> IF p \in Small THEN <<Head(res[p])>>
                                ELSE OnlyLatest(TooLarge)[p]]
  BY DEF DecisionScaleDown
<1>2. ASSUME NEW p \in Pods
      PROVE  res[p] \in Seq(Sample) /\ Len(res[p]) <= TimeWindow
  BY DEF Types, TypeOK
<1>3. ASSUME NEW p \in Pods, p \in Small \cup TooLarge
      PROVE  /\ <<Head(res[p])>> \in Seq(Sample) /\ Len(<<Head(res[p])>>) <= TimeWindow
             /\ <<Latest(p)>> \in Seq(Sample) /\ Len(<<Latest(p)>>) <= TimeWindow
             /\ Latest(p).usage \in Nat
  <2>1. Len(res[p]) >= DownThreshold /\ DownThreshold \in Nat \ {0}
    BY <1>3, ConstantsAssumption DEF Small, TooLarge
  <2>2. Len(<<>>) = 0
    OBVIOUS
  <2>3. res[p] # <<>>
    BY <2>1, <2>2
  <2> QED
    BY <1>2, <2>3, EndsType
<1>4. ASSUME NEW p \in Pods \cap (Small \cup TooLarge), NEW o \in Outcome
      PROVE  After[p][o] \in Container
  <2>1. con[p] \in Container /\ MinSize \in Int
    BY ConstantsAssumption DEF Types, TypeOK
  <2>2. DownSize(p) \in Int
    <3>1. \A u \in Nat : (100 * u) \div 75 \in Int
      OBVIOUS
    <3> QED
      BY <1>3, <3>1 DEF DownSize
  <2> QED
    BY <2>1, <2>2, LowerType, SetLimitType
<1> HIDE DEF After
<1>5. /\ con' \in [Pods -> Container] /\ lost' \in SUBSET Pods
      /\ failures' \in 0 .. MaxFailures
      /\ lastUsage' \in [Pods -> Usages \cup {0}]
  BY <1>1, <1>4, ForEachTypes
<1>6. ASSUME NEW p \in Pods
      PROVE  res'[p] \in Seq(Sample) /\ Len(res'[p]) <= TimeWindow
  <2>1. res'[p] = IF p \in Small THEN <<Head(res[p])>>
                  ELSE IF p \in TooLarge THEN <<Latest(p)>> ELSE res[p]
    BY <1>1 DEF OnlyLatest
  <2> QED
    BY <1>2, <1>3, <2>1
<1>7. /\ res' \in [Pods -> Seq(Sample)]
      /\ \A p \in Pods : Len(res'[p]) <= TimeWindow
  <2>1. DOMAIN res' = Pods /\ res' = [p \in Pods |-> res'[p]]
    BY <1>1
  <2> QED
    BY <1>6, <2>1
<1> QED
  BY <1>1, <1>5, <1>7 DEF Types, TypeOK

LEMMA PlanTypes ==
    ASSUME Types, PlanScaleUp
    PROVE  Types'
<1> USE DEF Types, TypeOK
<1> DEFINE hot == {p \in Sampled : /\ Hot(Latest(p))
                                   /\ CheckToAppendScaleCandidateList(p)}
<1>1. PICK new \in SetToSeqs(hot) : candidates' = candidates \o new
  BY DEF PlanScaleUp
<1>2. hot \subseteq Pods
  BY DEF Sampled
<1>3. /\ phase = "plan" /\ phase' = "scale"
      /\ running' = running /\ used' = used /\ con' = con /\ res' = res
      /\ pauseList' = pauseList /\ toRemove' = toRemove
      /\ lost' = lost /\ failures' = failures /\ lastUsage' = lastUsage
  BY DEF PlanScaleUp
<1> HIDE DEF hot
<1>4. candidates' \in Seq(Pods)
  <2>1. new \in Seq(Pods)
    BY <1>2, OrdersOfSet, SeqMonotonic
  <2> QED
    BY <1>1, <2>1, ConcatElements
<1>5. size' \in [Pods -> Int]
  <2>1. PICK growth \in [ToSet(candidates') -> Growths] :
           size' = [p \in Pods |->
                      IF p \in ToSet(candidates')
                      THEN ClampedSize(con[p].orig.limit, growth[p]) ELSE 0]
    BY DEF PlanScaleUp, CalculateScaleSize
  <2>2. \A p \in Pods : con[p].orig.limit \in Int
    BY DEF Container, Setting
  <2>3. Growths \subseteq Int /\ 0 \in Int
    BY ConstantsAssumption
  <2>4. \A l \in Int, g \in Int : ClampedSize(l, g) \in Int
    BY ConstantsAssumption DEF ClampedSize
  <2>5. ASSUME NEW p \in Pods
        PROVE  (IF p \in ToSet(candidates')
                THEN ClampedSize(con[p].orig.limit, growth[p]) ELSE 0) \in Int
    <3>1. CASE p \in ToSet(candidates')
      <4>1. growth[p] \in Int
        BY <2>1, <2>3, <3>1
      <4> QED
        BY <2>2, <2>4, <3>1, <4>1
    <3>2. CASE p \notin ToSet(candidates')
      BY <2>3, <3>2
    <3> QED
      BY <3>1, <3>2
  <2> QED
    BY <2>1, <2>5
<1> QED
  BY <1>3, <1>4, <1>5

\* The candidates that are scaled up get numbers.
LEMMA ScaleUpTypes ==
    ASSUME Types, NEW grown, NEW growth \in [Pods -> Int], ScaleUp(grown, growth),
           \A p \in Pods \cap grown : res[p] # <<>>
    PROVE  /\ con' \in [Pods -> Container] /\ lost' \in SUBSET Pods
           /\ failures' \in 0 .. MaxFailures
           /\ lastUsage' \in [Pods -> Usages \cup {0}]
           /\ res' \in [Pods -> Seq(Sample)]
           /\ \A p \in Pods : Len(res'[p]) <= TimeWindow
<1> DEFINE After == [p \in Pods |-> [o \in Outcome |->
                       SetLimit(con[p], con[p].orig.limit + growth[p], o)]]
<1>1. ForEach(grown, After) /\ res' = OnlyLatest(grown)
  BY DEF ScaleUp
<1>2. ASSUME NEW p \in Pods, NEW o \in Outcome
      PROVE  After[p][o] \in Container
  <2>1. con[p] \in Container /\ growth[p] \in Int
    BY DEF Types, TypeOK
  <2>2. con[p].orig.limit + growth[p] \in Int
    BY <2>1 DEF Container, Setting
  <2> QED
    BY <2>1, <2>2, SetLimitType
<1> HIDE DEF After
<1>3. /\ con' \in [Pods -> Container] /\ lost' \in SUBSET Pods
      /\ failures' \in 0 .. MaxFailures
      /\ lastUsage' \in [Pods -> Usages \cup {0}]
  BY <1>1, <1>2, ForEachTypes
<1> QED
  BY <1>1, <1>3, CutTypes

LEMMA ScaleUpAllTypes ==
    ASSUME Types, Windows, ScaleUpAll
    PROVE  Types'
<1> DEFINE grown == {p \in ToSet(candidates) : size[p] # 0}
           sizes == [i \in DOMAIN candidates |-> size[candidates[i]]]
<1>1. /\ phase = "scale" /\ phase' = "continue"
      /\ ScaleUp(grown, Growth(candidates, sizes))
      /\ candidates' = <<>> /\ size' = [p \in Pods |-> 0]
      /\ running' = running /\ used' = used /\ pauseList' = pauseList
      /\ toRemove' = toRemove
  BY DEF ScaleUpAll
<1>2. candidates \in Seq(Pods) /\ sizes \in [DOMAIN candidates -> Int]
  BY DEF Types, TypeOK
<1>3. \A p \in Pods \cap grown : res[p] # <<>>
  <2>1. ToSet(candidates) \subseteq HasSample
    BY DEF Windows, ToSet
  <2> QED
    BY <2>1 DEF HasSample
<1> HIDE DEF grown, sizes
<1>4. Growth(candidates, sizes) \in [Pods -> Int]
  BY <1>2, GrowthType
<1>5. /\ con' \in [Pods -> Container] /\ lost' \in SUBSET Pods
      /\ failures' \in 0 .. MaxFailures
      /\ lastUsage' \in [Pods -> Usages \cup {0}]
      /\ res' \in [Pods -> Seq(Sample)]
      /\ \A p \in Pods : Len(res'[p]) <= TimeWindow
  BY <1>1, <1>3, <1>4, ScaleUpTypes
<1>6. candidates' \in Seq(Pods) /\ size' \in [Pods -> Int]
  BY <1>1
<1> QED
  BY <1>1, <1>5, <1>6 DEF Types, TypeOK

LEMMA ScaleUpSomeTypes ==
    ASSUME Types, Windows, ScaleUpSome
    PROVE  Types'
<1>1. /\ phase = "scale" /\ phase' = "pause"
      /\ size' = [p \in Pods |-> 0]
      /\ running' = running /\ used' = used /\ pauseList' = pauseList
      /\ toRemove' = toRemove
  BY DEF ScaleUpSome
<1>2. candidates \in Seq(Pods) /\ size \in [Pods -> Int]
  BY DEF Types, TypeOK
<1> DEFINE sizes(k) == [i \in DOMAIN Targets(candidates, k) |->
                          IF LastScaleUpSize(candidates, k) # 0
                               /\ i = Len(Targets(candidates, k))
                          THEN LastScaleUpSize(candidates, k)
                          ELSE size[Targets(candidates, k)[i]]]
<1>3. PICK k \in 1 .. Len(candidates) + 1 :
         /\ ScaleUp(ToSet(Targets(candidates, k)),
                    Growth(Targets(candidates, k), sizes(k)))
         /\ candidates' = LeftOver(candidates, k)
  BY DEF ScaleUpSome, SortedCandidates
<1>4. /\ Targets(candidates, k) \in Seq(HasSample)
      /\ Targets(candidates, k) \in Seq(Pods)
      /\ LeftOver(candidates, k) \in Seq(Pods)
  <2>1. candidates \in Seq(HasSample)
    BY DEF Windows
  <2> QED
    BY <1>2, <2>1, TargetsAndLeftOver
<1>5. \A p \in Pods \cap ToSet(Targets(candidates, k)) : res[p] # <<>>
  BY <1>4 DEF HasSample, ToSet
<1>6. LastScaleUpSize(candidates, k) \in Int
  BY <1>2, LastScaleUpSizeType
<1>7. sizes(k) \in [DOMAIN Targets(candidates, k) -> Int]
  BY <1>2, <1>4, <1>6
<1> HIDE DEF sizes
<1>8. Growth(Targets(candidates, k), sizes(k)) \in [Pods -> Int]
  BY <1>4, <1>7, GrowthType
<1>9. /\ con' \in [Pods -> Container] /\ lost' \in SUBSET Pods
      /\ failures' \in 0 .. MaxFailures
      /\ lastUsage' \in [Pods -> Usages \cup {0}]
      /\ res' \in [Pods -> Seq(Sample)]
      /\ \A p \in Pods : Len(res'[p]) <= TimeWindow
  BY <1>3, <1>5, <1>8, ScaleUpTypes
<1>10. size' \in [Pods -> Int]
  BY <1>1
<1> QED
  BY <1>1, <1>3, <1>4, <1>9, <1>10 DEF Types, TypeOK

\* Pausing and continuing keep everything but the quotas.
LEMMA QuotaTypes ==
    ASSUME Types, NEW S, NEW t \in BOOLEAN,
           ForEach(S, [p \in Pods |-> [o \in Outcome |-> SetQuota(con[p], t, o)]])
    PROVE  /\ con' \in [Pods -> Container] /\ lost' \in SUBSET Pods
           /\ failures' \in 0 .. MaxFailures
           /\ lastUsage' \in [Pods -> Usages \cup {0}]
<1> DEFINE After == [p \in Pods |-> [o \in Outcome |-> SetQuota(con[p], t, o)]]
<1>1. ForEach(S, After)
  OBVIOUS
<1>2. \A p \in Pods : \A o \in Outcome : After[p][o] \in Container
  BY SetQuotaType DEF Types, TypeOK
<1> HIDE DEF After
<1> QED
  BY <1>1, <1>2, ForEachTypes

LEMMA PauseTypes ==
    ASSUME Types, PauseLeftOver
    PROVE  Types'
<1> DEFINE awake == ToSet(candidates) \ ToSet(pauseList)
<1>1. /\ phase = "pause" /\ phase' = "continue"
      /\ ForEach(awake,
                 [p \in Pods |-> [o \in Outcome |-> SetQuota(con[p], TRUE, o)]])
      /\ running' = running /\ used' = used /\ res' = res /\ size' = size
      /\ candidates' = candidates /\ toRemove' = toRemove
  BY DEF PauseLeftOver
<1>2. PICK new \in RacingAppends(awake) : pauseList' = pauseList \o new
  BY DEF PauseLeftOver
<1>3. awake \subseteq Pods /\ pauseList \in Seq(Pods)
  BY DEF Types, TypeOK, ToSet
<1> HIDE DEF awake
<1>4. pauseList' \in Seq(Pods)
  <2>1. IsFiniteSet(awake)
    BY <1>3, ConstantsAssumption, FS_Subset
  <2>2. new \in Seq(Pods)
    BY <1>3, <2>1, RacingType, SeqMonotonic
  <2> QED
    BY <1>2, <1>3, <2>2, ConcatElements
<1>5. toRemove' = <<>> /\ toRemove' \in Seq(DOMAIN pauseList')
  BY <1>1 DEF Types
<1>6. TRUE \in BOOLEAN
  OBVIOUS
<1>7. /\ con' \in [Pods -> Container] /\ lost' \in SUBSET Pods
      /\ failures' \in 0 .. MaxFailures
      /\ lastUsage' \in [Pods -> Usages \cup {0}]
  BY <1>1, <1>6, QuotaTypes
<1> QED
  BY <1>1, <1>4, <1>5, <1>7 DEF Types, TypeOK

LEMMA ContinueTypes ==
    ASSUME Types, ContinueOthers
    PROVE  Types'
<1> DEFINE done == {i \in DOMAIN pauseList : pauseList[i] \notin ToSet(candidates)}
<1>1. /\ phase = "continue" /\ phase' = "delete"
      /\ ForEach({pauseList[i] : i \in done},
                 [p \in Pods |-> [o \in Outcome |-> SetQuota(con[p], FALSE, o)]])
      /\ toRemove' \in RacingAppends(done)
      /\ running' = running /\ used' = used /\ res' = res /\ size' = size
      /\ candidates' = candidates /\ pauseList' = pauseList
  BY DEF ContinueOthers
<1>2. done \subseteq DOMAIN pauseList /\ pauseList \in Seq(Pods)
  BY DEF Types, TypeOK
<1> HIDE DEF done
<1>3. IsFiniteSet(done)
  BY <1>2, ListDomain, FS_Subset
<1>4. toRemove' \in Seq(DOMAIN pauseList')
  <2>1. toRemove' \in Seq(done)
    BY <1>1, <1>3, RacingType
  <2> QED
    BY <1>1, <1>2, <2>1, SeqMonotonic
<1>5. FALSE \in BOOLEAN
  OBVIOUS
<1>6. /\ con' \in [Pods -> Container] /\ lost' \in SUBSET Pods
      /\ failures' \in 0 .. MaxFailures
      /\ lastUsage' \in [Pods -> Usages \cup {0}]
  BY <1>1, <1>5, QuotaTypes
<1> QED
  BY <1>1, <1>4, <1>6 DEF Types, TypeOK

\* The indices are those of the list they are deleted from.
LEMMA DeleteTypes ==
    ASSUME Types, DeleteContinued
    PROVE  Types'
<1>1. /\ phase = "delete" /\ phase' = "remove"
      /\ pauseList' = DeleteIndices(pauseList, toRemove) /\ toRemove' = <<>>
      /\ running' = running /\ used' = used /\ con' = con /\ res' = res
      /\ candidates' = candidates /\ size' = size
      /\ lost' = lost /\ failures' = failures /\ lastUsage' = lastUsage
  BY DEF DeleteContinued
<1>2. pauseList \in Seq(Pods) /\ toRemove \in Seq(DOMAIN pauseList)
  BY DEF Types, TypeOK
<1>3. pauseList' \in Seq(Pods)
  BY <1>1, <1>2, DeletionsLeaveRemnants, RemnantsOfSeq
<1>4. toRemove' \in Seq(DOMAIN pauseList')
  BY <1>1
<1> QED
  BY <1>1, <1>3, <1>4 DEF Types, TypeOK

LEMMA RemoveTypes ==
    ASSUME Types, DecisionRemoveContainer
    PROVE  Types'
<1>1. /\ phase = "remove" /\ phase' = "monitor"
      /\ pauseList' \in Remnants(pauseList)
      /\ candidates' \in Remnants(candidates)
      /\ toRemove' = toRemove
      /\ running' = running /\ used' = used /\ con' = con /\ res' = res
      /\ size' = size /\ lost' = lost /\ failures' = failures
      /\ lastUsage' = lastUsage
  BY DEF DecisionRemoveContainer
<1>2. pauseList' \in Seq(Pods) /\ candidates' \in Seq(Pods)
  BY <1>1, RemnantsOfSeq DEF Types, TypeOK
<1>3. toRemove' = <<>> /\ toRemove' \in Seq(DOMAIN pauseList')
  BY <1>1 DEF Types
<1> QED
  BY <1>1, <1>2, <1>3 DEF Types, TypeOK

LEMMA TypesStep == Windows /\ Types /\ [Next]_vars => Types'
<1> SUFFICES ASSUME Windows, Types, [Next]_vars PROVE Types'
  OBVIOUS
<1>1. CASE UNCHANGED vars
  BY <1>1 DEF vars, Types, TypeOK
<1>2. CASE Monitor
  BY <1>2, MonitorTypes
<1>3. CASE Resume
  BY <1>3, ResumeTypes
<1>4. CASE DecisionScaleDown
  BY <1>4, ScaleDownTypes
<1>5. CASE PlanScaleUp
  BY <1>5, PlanTypes
<1>6. CASE ScaleUpAll
  BY <1>6, ScaleUpAllTypes
<1>7. CASE ScaleUpSome
  BY <1>7, ScaleUpSomeTypes
<1>8. CASE PauseLeftOver
  BY <1>8, PauseTypes
<1>9. CASE ContinueOthers
  BY <1>9, ContinueTypes
<1>10. CASE DeleteContinued
  BY <1>10, DeleteTypes
<1>11. CASE DecisionRemoveContainer
  BY <1>11, RemoveTypes
<1> QED
  BY <1>1, <1>2, <1>3, <1>4, <1>5, <1>6, <1>7, <1>8, <1>9, <1>10, <1>11 DEF Next

\* The variables keep their types: limits stay numbers, windows within their
\* bound, and the deletion loop of the pause list is given indices of that list.
THEOREM TypesCorrect == Spec => []TypeOK
<1>1. Types => TypeOK
  BY DEF Types
<1> QED
  BY <1>1, InitTypes, TypesStep, CandidatesMeasured, PTL DEF Spec

\* Scaling down never takes memory away that a container used when it was last
\* measured, however its window was cut and slid since and whatever calls failed
\* before or fail now; the exception is a container that has answered no call
\* since it was sent a limit, to which ContinueContainer brings that one.
THEOREM ScaleDownKeeps == Spec => ScaleDownKeepsUsage
<1>1. ASSUME Inv, Windows, Remembered, TypeOK, Next, phase = "down",
             NEW p \in running
      PROVE  DownKeeps(p)
  <2>1. DecisionScaleDown
    BY <1>1 DEF Next, Monitor, Resume, PlanScaleUp, ScaleUpAll, ScaleUpSome,
       PauseLeftOver, ContinueOthers, DeleteContinued, DecisionRemoveContainer
  <2>2. p \in Pods /\ lastUsage \in [Pods -> Usages \cup {0}]
    BY <1>1 DEF TypeOK
  <2>3. lastUsage[p] \in Usages \cup {0}
    BY <2>2
  <2>4. lastUsage[p] \in Nat
    <3>1. CASE lastUsage[p] \in Usages
      BY <3>1, ConstantsAssumption
    <3>2. CASE lastUsage[p] = 0
      BY <3>2
    <3> QED
      BY <2>3, <3>1, <3>2
  <2> QED
    BY <1>1, <2>1, <2>4, ScaleDownCovers
<1>2. Inv /\ Windows /\ Remembered /\ TypeOK /\ [Next]_vars =>
        [phase = "down" =>
           \A p \in running :
             \/ LimitKept(p)
             \/ con'[p].actual.limit >= lastUsage[p]
             \/ p \in lost /\ con'[p].actual.limit = con[p].orig.limit]_vars
  BY <1>1 DEF DownKeeps
<1> QED
  BY <1>2, Invariance, CandidatesMeasured, UsageRemembered, TypesCorrect, PTL
     DEF Spec, ScaleDownKeepsUsage
-----------------------------------------------------------------------------
(***************************************************************************)
(* What the selection of candidates gives them.                            *)
(***************************************************************************)

\* A candidate that gets its size at each of its entries grows by that at least.
LEMMA GrowthCovers ==
    ASSUME NEW list \in Seq(Pods), NEW sizes \in [DOMAIN list -> Int],
           NEW p \in ToSet(list), NEW n \in Nat,
           \A i \in DOMAIN list : list[i] = p => sizes[i] = n
    PROVE  p \in Pods => Growth(list, sizes)[p] >= n
<1> DEFINE S == {i \in DOMAIN list : list[i] = p}
<1>1. S \in SUBSET DOMAIN list /\ IsFiniteSet(S)
  BY ListDomain, FS_Subset
<1>2. PICK a \in S : TRUE
  BY DEF ToSet
<1>3. sizes[a] = n /\ \A i \in S : sizes[i] >= 0
  OBVIOUS
<1>4. p \in Pods => Growth(list, sizes)[p] = SumFunctionOnSet(sizes, S)
  BY DEF Growth
<1> HIDE DEF S
<1>5. SumFunctionOnSet(sizes, S) >= sizes[a]
  BY <1>1, <1>2, <1>3, SumAtLeast
<1> QED
  BY <1>3, <1>4, <1>5

\* When all calls succeed, a container grows by what it is given.
LEMMA ScaledWell ==
    ASSUME Inv, Types, NEW grown, NEW growth \in [Pods -> Int],
           ScaleUp(grown, growth), failures' = failures, NEW p \in Pods \ lost
    PROVE  con'[p].actual.limit =
             IF p \in grown THEN con[p].actual.limit + growth[p]
             ELSE con[p].actual.limit
<1> DEFINE After == [q \in Pods |-> [o \in Outcome |->
                       SetLimit(con[q], con[q].orig.limit + growth[q], o)]]
<1>1. ForEach(grown, After)
  BY DEF ScaleUp
<1>2. con[p].orig.limit = con[p].actual.limit
  BY DEF Inv, LimitsAgree, LimitAgrees
<1>3. con[p] \in ContainerOf(Int) /\ con[p].orig.limit + growth[p] \in Int
  <2>1. con[p] \in ContainerOf(Int) /\ growth[p] \in Int
    BY ContainerTypes DEF Types, TypeOK
  <2>2. con[p].orig.limit \in Int
    BY <2>1 DEF ContainerOf, SettingOf
  <2> QED
    BY <2>1, <2>2
<1>4. After[p][AllWell] = SetLimit(con[p], con[p].orig.limit + growth[p], AllWell)
  BY OutcomeType
<1> HIDE DEF After
<1>5. failures \in Nat
  BY DEF Inv, Shapes
<1>6. p \in grown => con'[p] = After[p][AllWell]
  BY <1>1, <1>5, Goroutines
<1>7. p \notin grown => con'[p] = con[p]
  BY <1>1, <1>5, Goroutines
<1>8. PICK d : d = SetLimit(con[p], con[p].orig.limit + growth[p], AllWell)
  OBVIOUS
<1>9. d.actual.limit = con[p].orig.limit + growth[p]
  BY <1>3, <1>8, OutcomeType, SetLimitResult
<1> QED
  BY <1>2, <1>4, <1>6, <1>7, <1>8, <1>9

\* What ScaledInFull says of one candidate.
InFull(p) ==
    \/ size[p] <= 0
    \/ con'[p].actual.limit >= con[p].actual.limit + size[p]
    \/ used + Sizes(candidates) > Capacity /\ p = Last(candidates)

\* A container that was given its size grew by it.
LEMMA GrownInFull ==
    ASSUME Inv, Types, NEW list \in Seq(Pods), NEW sizes \in [DOMAIN list -> Int],
           NEW grown, ScaleUp(grown, Growth(list, sizes)), failures' = failures,
           NEW p \in Pods \ lost, p \in grown, p \in ToSet(list),
           \A i \in DOMAIN list : list[i] = p => sizes[i] = size[p]
    PROVE  InFull(p)
<1> SUFFICES ASSUME size[p] > 0
             PROVE  con'[p].actual.limit >= con[p].actual.limit + size[p]
  BY DEF InFull, Types, TypeOK
<1>1. size[p] \in Nat
  BY DEF Types, TypeOK
<1>2. PICK growth : growth = Growth(list, sizes)
  OBVIOUS
<1>3. growth \in [Pods -> Int] /\ growth[p] \in Int
  BY <1>2, GrowthType
<1>4. growth[p] >= size[p]
  BY <1>1, <1>2, GrowthCovers
<1>5. con'[p].actual.limit = con[p].actual.limit + growth[p]
  BY <1>2, <1>3, ScaledWell
<1>6. con[p].actual.limit \in Int
  BY DEF Types, TypeOK, Container, Setting
<1> QED
  BY <1>1, <1>3, <1>4, <1>5, <1>6

LEMMA AllInFull ==
    ASSUME Inv, Types, ScaleUpAll, failures' = failures,
           NEW p \in ToSet(candidates) \ lost
    PROVE  InFull(p)
<1> DEFINE grown == {q \in ToSet(candidates) : size[q] # 0}
           sizes == [i \in DOMAIN candidates |-> size[candidates[i]]]
<1>1. ScaleUp(grown, Growth(candidates, sizes))
  BY DEF ScaleUpAll
<1>2. candidates \in Seq(Pods) /\ sizes \in [DOMAIN candidates -> Int]
  BY DEF Types, TypeOK
<1>3. p \in Pods /\ size[p] \in Int
  BY DEF Types, TypeOK, ToSet
<1>4. p \notin grown => size[p] = 0
  OBVIOUS
<1>5. \A i \in DOMAIN candidates : candidates[i] = p => sizes[i] = size[p]
  OBVIOUS
<1> HIDE DEF grown, sizes
<1>6. CASE p \in grown
  BY <1>1, <1>2, <1>3, <1>5, <1>6, GrownInFull
<1>7. CASE p \notin grown
  BY <1>4, <1>7 DEF InFull
<1> QED
  BY <1>6, <1>7

\* A candidate that is not left over is a target at each of its entries, and the
\* last target only if it is the last of a list that does not fit.
LEMMA TargetsInFull ==
    ASSUME Types, NEW k \in 1 .. Len(candidates) + 1, IsFirstUnfit(candidates, k),
           NEW p \in ToSet(candidates) \ ToSet(LeftOver(candidates, k)),
           ~(used + Sizes(candidates) > Capacity /\ p = Last(candidates))
    PROVE  /\ p \in ToSet(Targets(candidates, k))
           /\ \A i \in DOMAIN Targets(candidates, k) :
                 Targets(candidates, k)[i] = p =>
                   \/ LastScaleUpSize(candidates, k) = 0
                   \/ i # Len(Targets(candidates, k))
<1> DEFINE list == candidates
           n == NoScaleUpIndex(list, k)
           m == IF n >= Len(list) THEN n ELSE n + 1
<1>1. list \in Seq(Pods) /\ Len(list) \in Nat /\ DOMAIN list = 1 .. Len(list)
  BY DEF Types, TypeOK
<1>2. n \in 0 .. Len(list)
  BY <1>1 DEF NoScaleUpIndex
<1>3. /\ n \in Nat /\ m \in Nat /\ Len(list) \in Nat
      /\ n <= m /\ m <= Len(list)
      /\ m = n => n = Len(list)
  <2>1. Len(list) \in Nat
    BY <1>1
  <2>2. n \in Nat /\ n <= Len(list)
    BY <1>2, <2>1
  <2> HIDE DEF n
  <2>3. m = Len(list) \/ (m = n + 1 /\ n < Len(list))
    BY <2>1, <2>2
  <2> HIDE DEF m
  <2> QED
    BY <2>1, <2>2, <2>3
<1>4. PICK T : T = Targets(list, k)
  OBVIOUS
<1>5. T = SubSeq(list, 1, m)
  BY <1>4 DEF Targets
<1>6. LeftOver(list, k) = SubSeq(list, n + 1, Len(list))
  BY DEF LeftOver
<1>7. LastScaleUpSize(list, k) # 0 => n = k /\ k \in DOMAIN list
  BY <1>1 DEF LastScaleUpSize, NoScaleUpIndex
<1>8. n = Len(list) /\ n = k /\ k \in DOMAIN list =>
        /\ list[n] = Last(list)
        /\ used + Sizes(list) > Capacity
  <2>1. SubSeq(list, 1, Len(list)) = list
    BY <1>1
  <2> QED
    BY <2>1 DEF IsFirstUnfit, Last
<1> HIDE DEF n, m
<1>9. ASSUME NEW i \in DOMAIN list, list[i] = p
      PROVE  i <= n
  <2> SUFFICES ASSUME i > n PROVE FALSE
    BY <1>1, <1>2
  <2>1. /\ i - n \in DOMAIN SubSeq(list, n + 1, Len(list))
        /\ SubSeq(list, n + 1, Len(list))[i - n] = list[i]
    BY <1>1, <1>2
  <2> QED
    BY <1>6, <1>9, <2>1 DEF ToSet
<1>10. /\ Len(T) = m /\ DOMAIN T = 1 .. m
      /\ \A i \in 1 .. m : i \in DOMAIN list /\ T[i] = list[i]
  <2>1. m <= Len(list) /\ \A i \in 1 .. m : i \in 1 .. Len(list)
    BY <1>3
  <2>2. m \in 0 .. Len(list)
    BY <1>3
  <2>3. Len(T) = m /\ DOMAIN T = 1 .. m /\ \A i \in 1 .. m : T[i] = list[i]
    BY <1>1, <1>5, <2>2
  <2> QED
    BY <1>1, <2>1, <2>3
<1>11. p \in ToSet(T)
  <2>1. PICK i \in DOMAIN list : list[i] = p
    BY DEF ToSet
  <2>2. i <= n
    BY <1>9, <2>1
  <2>3. i \in 1 .. m
    <3>1. i \in Nat \ {0}
      BY <1>1
    <3> QED
      BY <1>3, <2>2, <3>1
  <2>4. i \in DOMAIN T /\ T[i] = p
    BY <1>10, <2>1, <2>3
  <2> QED
    BY <2>4 DEF ToSet
<1>12. ASSUME NEW i \in DOMAIN T, T[i] = p, i = Len(T),
              LastScaleUpSize(list, k) # 0
       PROVE  FALSE
  <2>1. i = m /\ i \in DOMAIN list /\ list[i] = p
    BY <1>10, <1>12
  <2>2. i = n /\ n = Len(list)
    BY <1>2, <1>3, <1>9, <2>1
  <2> QED
    BY <1>7, <1>8, <1>12, <2>1, <2>2
<1> QED
  BY <1>4, <1>11, <1>12

LEMMA SomeInFull ==
    ASSUME Inv, Types, ScaleUpSome, failures' = failures,
           NEW p \in ToSet(candidates) \ (ToSet(candidates') \cup lost)
    PROVE  InFull(p)
<1> SUFFICES ASSUME ~(used + Sizes(candidates) > Capacity /\ p = Last(candidates))
             PROVE  InFull(p)
  BY DEF InFull
<1>1. candidates \in Seq(Pods) /\ size \in [Pods -> Int]
  BY DEF Types, TypeOK
<1> DEFINE sizes(k) == [i \in DOMAIN Targets(candidates, k) |->
                          IF LastScaleUpSize(candidates, k) # 0
                               /\ i = Len(Targets(candidates, k))
                          THEN LastScaleUpSize(candidates, k)
                          ELSE size[Targets(candidates, k)[i]]]
<1>2. PICK k \in 1 .. Len(candidates) + 1 :
         /\ IsFirstUnfit(candidates, k)
         /\ ScaleUp(ToSet(Targets(candidates, k)),
                    Growth(Targets(candidates, k), sizes(k)))
         /\ candidates' = LeftOver(candidates, k)
  BY DEF ScaleUpSome, SortedCandidates
<1>3. Targets(candidates, k) \in Seq(Pods)
  BY <1>1, TargetsAndLeftOver
<1>4. LastScaleUpSize(candidates, k) \in Int
  BY <1>1, LastScaleUpSizeType
<1>5. sizes(k) \in [DOMAIN Targets(candidates, k) -> Int]
  BY <1>1, <1>3, <1>4
<1>6. /\ p \in ToSet(Targets(candidates, k))
      /\ \A i \in DOMAIN Targets(candidates, k) :
            Targets(candidates, k)[i] = p =>
              \/ LastScaleUpSize(candidates, k) = 0
              \/ i # Len(Targets(candidates, k))
  BY <1>2, TargetsInFull
<1>7. \A i \in DOMAIN Targets(candidates, k) :
         Targets(candidates, k)[i] = p => sizes(k)[i] = size[p]
  BY <1>6
<1>8. p \in Pods \ lost
  BY <1>1 DEF ToSet
<1> HIDE DEF sizes
<1> QED
  BY <1>2, <1>3, <1>5, <1>6, <1>7, <1>8, GrownInFull

\* The cut of the list, which scales one candidate more than it takes off, takes
\* none off that has not got all it needs, but for the last of a list that does
\* not fit.
THEOREM CandidatesServed == Spec => ScaledInFull
<1>1. ASSUME Inv, Types, Next, phase = "scale", failures' = failures,
             NEW p \in ToSet(candidates) \ (ToSet(candidates') \cup lost)
      PROVE  InFull(p)
  <2>1. ScaleUpAll \/ ScaleUpSome
    BY <1>1 DEF Next, Monitor, Resume, DecisionScaleDown, PlanScaleUp,
       PauseLeftOver, ContinueOthers, DeleteContinued, DecisionRemoveContainer
  <2> QED
    BY <1>1, <2>1, AllInFull, SomeInFull
<1>2. Inv /\ Types /\ [Next]_vars =>
        [phase = "scale" /\ failures' = failures =>
           \A p \in ToSet(candidates) \ (ToSet(candidates') \cup lost) :
             \/ size[p] <= 0
             \/ con'[p].actual.limit >= con[p].actual.limit + size[p]
             \/ used + Sizes(candidates) > Capacity /\ p = Last(candidates)]_vars
  BY <1>1 DEF InFull
<1>3. Spec => []Types
  BY InitTypes, TypesStep, CandidatesMeasured, PTL DEF Spec
<1> QED
  BY <1>2, <1>3, Invariance, PTL DEF Spec, ScaledInFull
=============================================================================
