-------------------------- MODULE MonitoringProofs ---------------------------
(***************************************************************************)
(* Proofs about Monitoring, for any number of pods, restarts and repairs   *)
(* and windows of any length.                                              *)
(*                                                                         *)
(* The invariant has four parts: the types; what a listing, which may be   *)
(* old, says against what runs (Listings); the windows (Windows); the      *)
(* restarts answered (Answers) and the arrays of podInfoSet (Marks).       *)
(***************************************************************************)
EXTENDS Monitoring, TLAPS

\* A window is as long as TimeWindow says; from the second sample on its CPU
\* times do not fall, and from the third on no utilisation has wrapped around.
Window(c, p) ==
    /\ c \in Container
    /\ c.timeWindow = Len(c.res)
    /\ c.timeWindow <= MaxTimeWindow
    /\ ~c.listed => c.res = <<>>
    /\ \A i \in DOMAIN c.res : c.res[i].cpu <= MaxCpu[p]
    /\ \A i \in DOMAIN c.res : i > 2 => c.res[i - 1].cpu <= c.res[i].cpu
    /\ \A i \in DOMAIN c.res : i > 2 => c.res[i].util <= MaxCpu[p]

\* Two samples or more are those of the present container in the end.
LastUpTo(c, cpu) == Len(c.res) > 1 => c.res[Len(c.res)].cpu <= cpu

\* The controller lags behind the listing, the listing behind the node.
Listings ==
    \A p \in Pods :
        /\ con[p].id <= actual[p].id
        /\ listing[p] # NoStats =>
              /\ con[p].id <= listing[p].id
              /\ listing[p].id <= actual[p].id
              /\ listing[p].cpu <= MaxCpu[p]
              /\ listing[p].id = actual[p].id =>
                    /\ listing[p].attempt = actual[p].attempt
                    /\ listing[p].cpu <= actual[p].cpu

Windows ==
    \A p \in Pods :
        /\ Window(con[p], p)
        /\ con[p].id = actual[p].id => LastUpTo(con[p], actual[p].cpu)
        /\ listing[p] # NoStats /\ con[p].id = listing[p].id =>
              LastUpTo(con[p], listing[p].cpu)

\* An attempt that was answered is kept until the container is replaced.
Answers ==
    \A p \in Pods, k \in Nat : <<p, k>> \in answered =>
        /\ k <= actual[p].id
        /\ k = actual[p].id => actual[p].attempt <= con[p].attempt
        /\ listing[p] # NoStats =>
              /\ k <= listing[p].id
              /\ k = listing[p].id => listing[p].attempt <= con[p].attempt

\* A repair that nothing has outrun was handed the array in use.
Marks ==
    /\ MarksKept
    /\ \A p \in Pods \ outrun : repairing[p] \in {0, Len(arrays)}

IInv == TypeOK /\ Listings /\ Windows /\ Answers /\ Marks

(***************************************************************************)
(* What is done to a window                                                *)
(***************************************************************************)

LEMMA InitWindow ==
    ASSUME NEW p \in Pods, NEW s \in Stats
    PROVE  Window(InitContainerData(s), p)
<1> DEFINE c == InitContainerData(s)
<1>1. <<>> \in Seq(Sample) /\ Len(<<>>) = 0 /\ DOMAIN <<>> = {}
  OBVIOUS
<1>2. c \in Container /\ c.res = <<>> /\ c.timeWindow = 0 /\ c.listed
  BY <1>1 DEF InitContainerData, Container, Stats
<1> QED
  BY <1>1, <1>2, ConstantsAssumption DEF Window

\* A window of one sample.
LEMMA ShortWindow ==
    ASSUME NEW p \in Pods, NEW c, Window(c, p), NEW s \in Sample,
           s.cpu <= MaxCpu[p], NEW d \in Container, d.listed,
           d.res = <<s>>, d.timeWindow = 1
    PROVE  Window(d, p) /\ Len(d.res) = 1
<1>1. Len(<<s>>) = 1 /\ DOMAIN <<s>> = {1} /\ <<s>>[1] = s
  OBVIOUS
<1> QED
  BY <1>1, ConstantsAssumption DEF Window

LEMMA EndsOfWindow ==
    ASSUME NEW p \in Pods, NEW c, Window(c, p), c.res # <<>>
    PROVE  /\ c.listed
           /\ Last(c.res) \in Sample /\ Last(c.res).cpu <= MaxCpu[p]
           /\ Head(c.res) \in Sample /\ Head(c.res).cpu <= MaxCpu[p]
<1>1. c.res \in Seq(Sample) /\ c.res # <<>> /\ c.listed
  BY DEF Window, Container
<1>2. 1 \in DOMAIN c.res /\ Len(c.res) \in DOMAIN c.res
  BY <1>1
<1>3. Last(c.res) = c.res[Len(c.res)] /\ Head(c.res) = c.res[1]
  BY <1>1 DEF Last
<1> QED
  BY <1>1, <1>2, <1>3 DEF Window

LEMMA FixWindow ==
    ASSUME NEW p \in Pods, NEW c, Window(c, p), c.res # <<>>, NEW s \in Stats
    PROVE  /\ Window(FixRestartContainerData(c, s), p)
           /\ Len(FixRestartContainerData(c, s).res) = 1
<1> DEFINE d == FixRestartContainerData(c, s)
<1>1. c \in Container /\ c.listed /\ Last(c.res) \in Sample
                      /\ Last(c.res).cpu <= MaxCpu[p]
  BY EndsOfWindow DEF Window
<1>2. <<Last(c.res)>> \in Seq(Sample)
  BY <1>1
<1>3. d \in Container /\ d.listed /\ d.res = <<Last(c.res)>> /\ d.timeWindow = 1
  BY <1>1, <1>2 DEF FixRestartContainerData, Container, Stats
<1> HIDE DEF d
<1>4. Window(d, p) /\ Len(d.res) = 1
  BY <1>1, <1>3, ShortWindow
<1> QED
  BY <1>4 DEF d

LEMMA SampledWindow ==
    ASSUME NEW p \in Pods, NEW c, Window(c, p), c.listed, NEW s \in Stats,
           s.cpu <= MaxCpu[p], LastUpTo(c, s.cpu)
    PROVE  /\ Window(Sampled(c, s), p)
           /\ LastUpTo(Sampled(c, s), s.cpu)
           /\ Sampled(c, s).id = c.id /\ Sampled(c, s).attempt = c.attempt
<1> DEFINE new == [cpu |-> s.cpu, util |-> 0]
           longer == Append(c.res, new)
           d == Sampled(c, s)
<1>1. c \in Container /\ c.res \in Seq(Sample)
  BY DEF Window, Container
<1>2. new \in Sample /\ new.cpu = s.cpu /\ new.util = 0
  BY ConstantsAssumption DEF Sample, Stats
<1>3. longer \in Seq(Sample) /\ Len(longer) = Len(c.res) + 1
      /\ longer[Len(c.res) + 1] = new
      /\ \A i \in DOMAIN c.res : longer[i] = c.res[i]
  BY <1>1, <1>2
<1>4. \A i \in DOMAIN longer :
         /\ longer[i].cpu <= MaxCpu[p]
         /\ i > 2 => /\ longer[i - 1].cpu <= longer[i].cpu
                     /\ longer[i].util <= MaxCpu[p]
  <2> SUFFICES ASSUME NEW i \in DOMAIN longer
               PROVE  /\ longer[i].cpu <= MaxCpu[p]
                      /\ i > 2 => /\ longer[i - 1].cpu <= longer[i].cpu
                                  /\ longer[i].util <= MaxCpu[p]
    OBVIOUS
  <2>1. CASE i \in DOMAIN c.res
    <3>1. i > 2 => i - 1 \in DOMAIN c.res
      BY <1>1, <2>1
    <3> QED
      BY <1>3, <2>1, <3>1 DEF Window
  <2>2. CASE i = Len(c.res) + 1
    <3>1. i > 2 => Len(c.res) \in DOMAIN c.res /\ i - 1 = Len(c.res)
                   /\ Len(c.res) > 1
      BY <1>1, <2>2
    <3>2. MaxCpu[p] \in Nat
      BY ConstantsAssumption
    <3> QED
      BY <1>2, <1>3, <2>2, <3>1, <3>2 DEF LastUpTo
  <2> QED
    BY <1>1, <1>3, <2>1, <2>2
<1> HIDE DEF longer
<1>5. CASE c.timeWindow < MaxTimeWindow
  <2>1. d = [c EXCEPT !.res = longer, !.timeWindow = @ + 1]
    BY <1>5 DEF Sampled, longer
  <2>2. d \in Container /\ d.res = longer /\ d.timeWindow = c.timeWindow + 1
        /\ d.listed /\ d.id = c.id /\ d.attempt = c.attempt
    <3>1. longer \in Seq(Sample) /\ c.timeWindow + 1 \in Nat
      BY <1>1, <1>3 DEF Container
    <3> HIDE DEF d
    <3> QED
      BY <1>1, <2>1, <3>1 DEF Container
  <2> HIDE DEF d
  <2>3. d.timeWindow = Len(d.res) /\ d.timeWindow <= MaxTimeWindow
    BY <1>1, <1>3, <1>5, <2>2, ConstantsAssumption DEF Window, Container
  <2>4. Window(d, p)
    BY <1>4, <2>2, <2>3 DEF Window
  <2>5. LastUpTo(d, s.cpu)
    BY <1>1, <1>2, <1>3, <2>2 DEF LastUpTo, Stats
  <2> QED
    BY <2>2, <2>4, <2>5 DEF d
<1>6. CASE ~(c.timeWindow < MaxTimeWindow)
  <2> DEFINE rest == Tail(longer)
  <2>1. d = [c EXCEPT !.res = rest]
    BY <1>6 DEF Sampled, longer
  <2>2. rest \in Seq(Sample) /\ Len(rest) = Len(c.res)
        /\ \A i \in DOMAIN rest : rest[i] = longer[i + 1]
                                  /\ i + 1 \in DOMAIN longer
    BY <1>1, <1>3
  <2> HIDE DEF rest
  <2>3. d \in Container /\ d.res = rest /\ d.timeWindow = c.timeWindow
        /\ d.listed /\ d.id = c.id /\ d.attempt = c.attempt
    BY <1>1, <2>1, <2>2 DEF Container
  <2> HIDE DEF d
  <2>4. d.timeWindow = Len(d.res) /\ d.timeWindow <= MaxTimeWindow
    BY <2>2, <2>3 DEF Window
  <2>5. \A i \in DOMAIN rest :
           /\ rest[i].cpu <= MaxCpu[p]
           /\ i > 2 => /\ rest[i - 1].cpu <= rest[i].cpu
                       /\ rest[i].util <= MaxCpu[p]
    <3> SUFFICES ASSUME NEW i \in DOMAIN rest
                 PROVE  /\ rest[i].cpu <= MaxCpu[p]
                        /\ i > 2 => /\ rest[i - 1].cpu <= rest[i].cpu
                                    /\ rest[i].util <= MaxCpu[p]
      OBVIOUS
    <3>1. i \in Nat /\ (i > 2 => i - 1 \in DOMAIN rest)
      BY <2>2
    <3>2. i + 1 \in DOMAIN longer /\ rest[i] = longer[i + 1]
      BY <2>2
    <3>3. i > 2 => rest[i - 1] = longer[i]
      BY <2>2, <3>1
    <3> QED
      BY <1>4, <3>1, <3>2, <3>3
  <2>6. Window(d, p)
    BY <2>3, <2>4, <2>5 DEF Window
  <2>7. LastUpTo(d, s.cpu)
    <3>1. Len(c.res) > 1 => rest[Len(rest)] = new
      BY <1>1, <1>3, <2>2
    <3> QED
      BY <1>2, <2>2, <2>3, <3>1 DEF LastUpTo, Stats
  <2> QED
    BY <2>3, <2>6, <2>7 DEF d
<1> QED
  BY <1>5, <1>6

\* The difference of two CPU times in order does not wrap around.
LEMMA NoWrap ==
    ASSUME NEW p \in Pods, NEW a \in Nat, NEW b \in Nat, a <= b, b <= MaxCpu[p]
    PROVE  (b - a) % Modulus <= MaxCpu[p]
<1>1. b - a \in 0 .. Modulus - 1 /\ b - a <= MaxCpu[p] /\ Modulus \in Nat
  BY ConstantsAssumption
<1>2. (b - a) % Modulus = b - a
  BY <1>1
<1> QED
  BY <1>1, <1>2

LEMMA ModType ==
    ASSUME NEW x \in Int, Modulus > 0
    PROVE  x % Modulus \in 0 .. Modulus - 1
  BY ConstantsAssumption

LEMMA MeasuredWindow ==
    ASSUME NEW p \in Pods, NEW c, Window(c, p)
    PROVE  /\ Window(Measured(c), p)
           /\ \A cpu : LastUpTo(c, cpu) => LastUpTo(Measured(c), cpu)
           /\ Measured(c).id = c.id /\ Measured(c).attempt = c.attempt
<1> DEFINE n == Len(c.res)
           u == CpuUtil(c.res)
           d == Measured(c)
           res == [c.res EXCEPT ![n].util = u]
<1>1. c \in Container /\ c.res \in Seq(Sample)
  BY DEF Window, Container
<1>2. CASE c.res = <<>>
  BY <1>2 DEF Measured
<1>3. CASE c.res # <<>>
  <2>1. n \in DOMAIN c.res /\ n \in Nat /\ n >= 1
    BY <1>1, <1>3
  <2>2. u \in 0 .. Modulus - 1 /\ (n > 2 => u <= MaxCpu[p])
    <3>1. MaxCpu[p] \in 0 .. Modulus - 1 /\ Modulus > 0 /\ Modulus \in Nat
      BY ConstantsAssumption
    <3>2. CASE n <= 1
      <4>1. u = 0
        BY <3>2 DEF CpuUtil
      <4> HIDE DEF u
      <4> QED
        BY <2>1, <3>1, <3>2, <4>1
    <3>3. CASE n > 1
      <4>1. n - 1 \in DOMAIN c.res
        BY <1>1, <2>1, <3>3
      <4>2. c.res[n].cpu \in Nat /\ c.res[n - 1].cpu \in Nat
        <5>1. c.res[n] \in Sample /\ c.res[n - 1] \in Sample
          BY <1>1, <2>1, <4>1
        <5> QED
          BY <5>1 DEF Sample
      <4>3. u = (c.res[n].cpu - c.res[n - 1].cpu) % Modulus
        BY <3>3 DEF CpuUtil
      <4>4. u \in 0 .. Modulus - 1
        <5>1. c.res[n].cpu - c.res[n - 1].cpu \in Int
          BY <4>2
        <5> HIDE DEF u
        <5> QED
          BY <3>1, <4>3, <5>1, ModType
      <4>5. n > 2 => u <= MaxCpu[p]
        BY <2>1, <4>2, <4>3, NoWrap DEF Window
      <4> QED
        BY <4>4, <4>5
    <3> QED
      BY <2>1, <3>2, <3>3
  <2> HIDE DEF u
  <2>3. d = [c EXCEPT !.res = res]
    BY <1>3 DEF Measured, u
  <2>4. /\ res \in Seq(Sample) /\ Len(res) = n
        /\ \A i \in DOMAIN c.res :
              /\ res[i].cpu = c.res[i].cpu
              /\ res[i].util = IF i = n THEN u ELSE c.res[i].util
    <3>1. [c.res[n] EXCEPT !.util = u] \in Sample
      <4>1. c.res[n] \in Sample
        BY <1>1, <2>1
      <4> QED
        BY <2>2, <4>1 DEF Sample
    <3>2. /\ [c.res[n] EXCEPT !.util = u].cpu = c.res[n].cpu
          /\ [c.res[n] EXCEPT !.util = u].util = u
      BY <1>1, <2>1 DEF Sample
    <3> QED
      BY <1>1, <2>1, <3>1, <3>2
  <2> HIDE DEF res
  <2>5. d \in Container /\ d.res = res /\ d.timeWindow = c.timeWindow
        /\ d.listed = c.listed /\ d.id = c.id /\ d.attempt = c.attempt
    BY <1>1, <2>3, <2>4 DEF Container
  <2> HIDE DEF d
  <2>6. DOMAIN res = DOMAIN c.res
    BY <1>1, <2>4
  <2>7. \A i \in DOMAIN res :
           /\ res[i].cpu <= MaxCpu[p]
           /\ i > 2 => /\ res[i - 1].cpu <= res[i].cpu
                       /\ res[i].util <= MaxCpu[p]
    <3> SUFFICES ASSUME NEW i \in DOMAIN c.res
                 PROVE  /\ res[i].cpu <= MaxCpu[p]
                        /\ i > 2 => /\ res[i - 1].cpu <= res[i].cpu
                                    /\ res[i].util <= MaxCpu[p]
      BY <2>6
    <3>1. i > 2 => i - 1 \in DOMAIN c.res
      BY <1>1
    <3> QED
      BY <2>2, <2>4, <3>1 DEF Window
  <2>8. Window(d, p)
    BY <1>3, <2>4, <2>5, <2>7 DEF Window
  <2>9. \A cpu : LastUpTo(c, cpu) => LastUpTo(d, cpu)
    BY <2>1, <2>4, <2>5 DEF LastUpTo
  <2> QED
    BY <2>5, <2>8, <2>9 DEF d
<1> QED
  BY <1>2, <1>3

LEMMA CutWindow ==
    ASSUME NEW p \in Pods, NEW c, Window(c, p), NEW d \in Cuts(c)
    PROVE  /\ Window(d, p)
           /\ \A cpu : LastUpTo(c, cpu) => LastUpTo(d, cpu)
           /\ d.id = c.id /\ d.attempt = c.attempt
<1>1. CASE d = c
  BY <1>1
<1>2. CASE d # c
  <2>1. c.res # <<>>
    BY <1>2 DEF Cuts
  <2>2. PICK s \in {Last(c.res), Head(c.res)} :
           d = [c EXCEPT !.timeWindow = 1, !.res = <<s>>]
    BY <1>2, <2>1 DEF Cuts
  <2>3. s \in Sample /\ s.cpu <= MaxCpu[p] /\ c.listed
    BY <2>1, <2>2, EndsOfWindow
  <2>4. c \in Container
    BY DEF Window
  <2>5. <<s>> \in Seq(Sample)
    BY <2>3
  <2>6. d \in Container /\ d.listed /\ d.res = <<s>> /\ d.timeWindow = 1
        /\ d.id = c.id /\ d.attempt = c.attempt
    BY <2>2, <2>3, <2>4, <2>5 DEF Container
  <2>7. Window(d, p) /\ Len(d.res) = 1
    BY <2>3, <2>6, ShortWindow
  <2> QED
    BY <2>6, <2>7 DEF LastUpTo
<1> QED
  BY <1>1, <1>2

\* A container that is looked at, with a sample or without.
LEMMA VisitedWindow ==
    ASSUME NEW p \in Pods, NEW s \in Stats, s.cpu <= MaxCpu[p],
           Window(con[p], p), listing[p] = s, Replaced(p) => con[p].res # <<>>,
           con[p].id = s.id => LastUpTo(con[p], s.cpu),
           NEW d \in {Checked(p, s), Sampled(Checked(p, s), s)}
    PROVE  /\ Window(d, p)
           /\ LastUpTo(d, s.cpu)
           /\ d.id = s.id
           /\ d.attempt >= s.attempt
           /\ con[p].listed /\ con[p].id = s.id => d.attempt >= con[p].attempt
<1> DEFINE c == Checked(p, s)
<1>0. s \in [id : Nat, attempt : Nat, cpu : Nat] /\ con[p] \in Container
  BY DEF Stats, Window
<1>1. /\ Window(c, p) /\ LastUpTo(c, s.cpu) /\ c.listed /\ c.id = s.id
      /\ c.attempt >= s.attempt
      /\ con[p].listed /\ con[p].id = s.id => c.attempt >= con[p].attempt
  <2>1. CASE ~con[p].listed
    <3>1. c = InitContainerData(s)
      BY <2>1 DEF Checked
    <3>2. Window(c, p)
      BY <3>1, InitWindow
    <3>3. c.res = <<>> /\ c.listed /\ c.id = s.id /\ c.attempt = s.attempt
      BY <1>0, <3>1 DEF InitContainerData
    <3> QED
      BY <1>0, <2>1, <3>2, <3>3 DEF LastUpTo
  <2>2. CASE Replaced(p)
    <3>1. c = FixRestartContainerData(con[p], s)
      BY <2>2 DEF Checked, Replaced
    <3>2. Window(c, p) /\ Len(c.res) = 1
      BY <2>2, <3>1, FixWindow
    <3>3. c.listed /\ c.id = s.id /\ c.attempt = s.attempt
      BY <1>0, <2>2, <3>1 DEF FixRestartContainerData, Replaced, Container
    <3> QED
      BY <1>0, <2>2, <3>2, <3>3 DEF LastUpTo, Replaced
  <2>3. CASE con[p].listed /\ ~Replaced(p)
    <3> DEFINE a == IF con[p].attempt < s.attempt THEN s.attempt
                    ELSE con[p].attempt
    <3>1. c = [con[p] EXCEPT !.attempt = a]
      BY <2>3 DEF Checked
    <3>2. a \in Nat /\ a >= s.attempt /\ a >= con[p].attempt
      BY <1>0 DEF Container
    <3> HIDE DEF a
    <3>3. c \in Container /\ c.res = con[p].res /\ c.listed = con[p].listed
          /\ c.timeWindow = con[p].timeWindow /\ c.id = con[p].id
          /\ c.attempt = a
      BY <1>0, <3>1, <3>2 DEF Container
    <3> HIDE DEF c
    <3>4. Window(c, p)
      BY <3>3 DEF Window
    <3> QED
      BY <2>3, <3>2, <3>3, <3>4 DEF LastUpTo, Replaced
  <2> QED
    BY <2>1, <2>2, <2>3
<1> HIDE DEF c
<1>2. CASE d = c
  BY <1>1, <1>2
<1>3. CASE d = Sampled(c, s)
  BY <1>1, <1>3, SampledWindow
<1> QED
  BY <1>2, <1>3 DEF c

(***************************************************************************)
(* The steps, part by part                                                 *)
(***************************************************************************)

\* A new pod: the arrays grow, and what was not outrun still has the last one.
LEMMA InitPodDataKeeps ==
    ASSUME IInv, NEW p \in Pods, InitPodData(p), UNCHANGED repairing
    PROVE  /\ ready' \in BOOLEAN /\ known' \in SUBSET Pods
           /\ arrays' \in Seq(SUBSET Pods) /\ arrays' # <<>>
           /\ repairing' \in [Pods -> 0 .. Len(arrays')]
           /\ outrun' \in SUBSET Pods
           /\ Marks'
<1>1. ready' \in BOOLEAN /\ known' \in SUBSET Pods
  BY DEF IInv, TypeOK, InitPodData
<1>2. arrays \in Seq(SUBSET Pods) /\ arrays # <<>> /\ outrun \in SUBSET Pods
      /\ repairing \in [Pods -> 0 .. Len(arrays)]
  BY DEF IInv, TypeOK
<1>3. CASE UNCHANGED <<arrays, outrun>>
  BY <1>1, <1>2, <1>3 DEF IInv, Marks, MarksKept
<1>4. CASE /\ arrays' = Append(arrays, Last(arrays))
           /\ outrun' = outrun \cup {q \in Pods : repairing[q] # 0}
  <2>1. Last(arrays) = arrays[Len(arrays)] /\ Last(arrays) \in SUBSET Pods
        /\ Len(arrays) >= 1
    BY <1>2 DEF Last
  <2>2. arrays' \in Seq(SUBSET Pods) /\ Len(arrays') = Len(arrays) + 1
        /\ Last(arrays') = Last(arrays) /\ arrays' # <<>>
        /\ \A i \in DOMAIN arrays' :
              arrays'[i] = IF i \in DOMAIN arrays THEN arrays[i]
                           ELSE Last(arrays)
    BY <1>2, <1>4, <2>1 DEF Last
  <2>3. outrun \subseteq outrun' /\ outrun' \in SUBSET Pods
    BY <1>2, <1>4
  <2>4. MarksKept'
    BY <2>2, <2>3 DEF IInv, Marks, MarksKept
  <2>5. \A q \in Pods \ outrun' : repairing'[q] = 0
    BY <1>4
  <2>6. repairing' \in [Pods -> 0 .. Len(arrays')]
    BY <1>2, <2>2
  <2> QED
    BY <1>1, <2>2, <2>3, <2>4, <2>5, <2>6 DEF Marks
<1> QED
  BY <1>3, <1>4 DEF InitPodData

LEMMA MarksStep ==
    ASSUME IInv, [Next]_vars
    PROVE  /\ known' \in SUBSET Pods
           /\ arrays' \in Seq(SUBSET Pods) /\ arrays' # <<>>
           /\ repairing' \in [Pods -> 0 .. Len(arrays')]
           /\ outrun' \in SUBSET Pods
           /\ Marks'
<1> USE DEF main
<1>1. /\ known \in SUBSET Pods /\ outrun \in SUBSET Pods
      /\ arrays \in Seq(SUBSET Pods) /\ arrays # <<>>
      /\ repairing \in [Pods -> 0 .. Len(arrays)]
  BY DEF IInv, TypeOK
<1>2. Last(arrays) = arrays[Len(arrays)] /\ Len(arrays) \in Nat
      /\ Len(arrays) \in DOMAIN arrays
  BY <1>1 DEF Last
<1>3. CASE UNCHANGED <<known, arrays, repairing, outrun>>
  BY <1>1, <1>3 DEF IInv, Marks, MarksKept
<1>4. CASE \E p \in Pods : Visit(p)
  <2>1. PICK p \in Pods : Visit(p)
    BY <1>4
  <2>2. CASE InitPodData(p) /\ UNCHANGED repairing
    BY <2>2, InitPodDataKeeps
  <2>3. CASE SkipPod(p)
    BY <1>3, <2>3 DEF SkipPod
  <2> QED
    BY <2>1, <2>2, <2>3 DEF Visit, VisitWithoutContainer,
       RemoveRestartedRepairContainer, VisitUninitialised, KillRestarted,
       VisitContainer, CrashOnReplaced
<1>5. ASSUME NEW p \in Pods, StartRepair(p)
      PROVE  /\ UNCHANGED <<known, arrays, outrun>>
             /\ repairing' \in [Pods -> 0 .. Len(arrays')]
             /\ Marks'
  BY <1>1, <1>2, <1>5 DEF StartRepair, IInv, Marks, MarksKept
<1>6. ASSUME NEW p \in Pods, UpdatePodData(p)
      PROVE  /\ UNCHANGED <<known, outrun>>
             /\ arrays' \in Seq(SUBSET Pods) /\ arrays' # <<>>
             /\ repairing' \in [Pods -> 0 .. Len(arrays')]
             /\ Marks'
  <2> DEFINE g == repairing[p]
  <2>1. g \in DOMAIN arrays
    BY <1>1, <1>6 DEF UpdatePodData
  <2>2. arrays' = [arrays EXCEPT ![g] = arrays[g] \cup {p}]
        /\ repairing' = [repairing EXCEPT ![p] = 0]
        /\ UNCHANGED <<known, outrun>>
    BY <1>6 DEF UpdatePodData
  <2> HIDE DEF g
  <2>3. arrays[g] \cup {p} \in SUBSET Pods
    BY <1>1, <2>1
  <2>4. arrays' \in Seq(SUBSET Pods) /\ Len(arrays') = Len(arrays)
        /\ DOMAIN arrays' = DOMAIN arrays
        /\ \A i \in DOMAIN arrays :
              arrays'[i] = IF i = g THEN arrays[i] \cup {p} ELSE arrays[i]
    <3>1. /\ arrays \in [1 .. Len(arrays) -> SUBSET Pods]
          /\ DOMAIN arrays = 1 .. Len(arrays)
      BY <1>1
    <3>2. arrays' \in [1 .. Len(arrays) -> SUBSET Pods]
      BY <2>1, <2>2, <2>3, <3>1
    <3>3. arrays' \in Seq(SUBSET Pods) /\ Len(arrays') = Len(arrays)
      BY <1>2, <3>2
    <3> QED
      BY <2>1, <2>2, <3>1, <3>2, <3>3
  <2>5. arrays' # <<>> /\ Last(arrays') = arrays'[Len(arrays)]
    BY <1>1, <2>4 DEF Last
  <2>6. repairing' \in [Pods -> 0 .. Len(arrays')]
    BY <1>1, <1>2, <2>2, <2>4
  <2>7. p \in outrun \/ g = Len(arrays)
    BY <1>6, <2>1, <1>1 DEF g, IInv, Marks, UpdatePodData
  <2>8. MarksKept'
    BY <1>2, <2>2, <2>4, <2>5, <2>7 DEF IInv, Marks, MarksKept
  <2>9. \A q \in Pods \ outrun' : repairing'[q] \in {0, Len(arrays')}
    BY <1>1, <2>2, <2>4 DEF IInv, Marks
  <2> QED
    BY <2>2, <2>4, <2>5, <2>6, <2>8, <2>9 DEF Marks
<1>7. CASE \E p \in Pods : Node(p)
  BY <1>1, <1>3, <1>5, <1>6, <1>7 DEF Node, CreatePod, Restart, Kill,
     RestoreContainer
<1>8. CASE ListFails \/ ListPods \/ EndVisit \/ Measure \/ Scale
  BY <1>3, <1>8 DEF ListFails, ListPods, EndVisit, Measure, Scale
<1>9. CASE Halted \/ UNCHANGED vars
  BY <1>3, <1>9 DEF Halted, vars
<1> QED
  BY <1>4, <1>7, <1>8, <1>9 DEF Next

\* The rest of the types, without con.
LEMMA TypeStep ==
    ASSUME IInv, [Next]_vars
    PROVE  /\ phase' \in {"list", "visit", "measure", "scale", "exit", "crashed"}
           /\ listing' \in [Pods -> Stats \cup {NoStats}]
           /\ ready' \in BOOLEAN
           /\ running' \in SUBSET Pods
           /\ actual' \in [Pods -> [up : BOOLEAN, id : Nat, attempt : Nat,
                                    cpu : Nat]]
           /\ \A p \in Pods : /\ actual'[p].id <= MaxLives[p]
                              /\ actual'[p].cpu <= MaxCpu[p]
           /\ answered' \in SUBSET (Pods \X Nat)
<1> USE DEF main
<1> DEFINE A == [up : BOOLEAN, id : Nat, attempt : Nat, cpu : Nat]
           Good(a, p) == a \in A /\ a.id <= MaxLives[p] /\ a.cpu <= MaxCpu[p]
<1>1. TypeOK
  BY DEF IInv
<1>2. actual \in [Pods -> A] /\ \A p \in Pods : Good(actual[p], p)
  BY <1>1 DEF TypeOK
<1>3. \A p \in Pods : MaxLives[p] \in Nat /\ MaxCpu[p] \in Nat
  BY ConstantsAssumption
<1>4. ASSUME NEW p \in Pods, NEW a, Good(a, p),
             actual' = [actual EXCEPT ![p] = a]
      PROVE  actual' \in [Pods -> A] /\ \A q \in Pods : Good(actual'[q], q)
  <2> HIDE DEF A
  <2> QED
    BY <1>2, <1>4
<1>5. ASSUME NEW p \in Pods, actual' = [actual EXCEPT ![p].up = FALSE]
      PROVE  actual' \in [Pods -> A] /\ \A q \in Pods : Good(actual'[q], q)
  <2>1. Good([actual[p] EXCEPT !.up = FALSE], p)
    BY <1>2
  <2> QED
    BY <1>4, <1>5, <2>1
<1>6. CASE \E p \in Pods : Node(p)
  <2>1. PICK p \in Pods : Node(p)
    BY <1>6
  <2>2. UNCHANGED <<phase, listing, ready, running, answered>>
    BY <2>1 DEF Node, CreatePod, Restart, Kill, StartRepair, RestoreContainer,
       UpdatePodData
  <2>3. actual' \in [Pods -> A] /\ \A q \in Pods : Good(actual'[q], q)
    <3>1. CASE CreatePod(p)
      <4>1. Good([actual[p] EXCEPT !.up = TRUE, !.id = 1], p)
        BY <1>2, <1>3, <3>1 DEF CreatePod
      <4> QED
        BY <1>4, <3>1, <4>1 DEF CreatePod
    <3>2. CASE Restart(p)
      <4> DEFINE a == [actual[p] EXCEPT !.id = @ + 1, !.attempt = @ + 1,
                                        !.cpu = 0]
      <4>1. Good(a, p)
        BY <1>2, <1>3, <3>2 DEF Restart
      <4>2. actual' = [actual EXCEPT ![p] = a]
        BY <1>2, <3>2 DEF Restart
      <4> HIDE DEF a, Good, A
      <4> QED
        BY <1>4, <4>1, <4>2
    <3>3. CASE Kill(p)
      BY <1>5, <3>3 DEF Kill
    <3>4. CASE RestoreContainer(p)
      <4> DEFINE a == [up |-> TRUE, id |-> actual[p].id + 1, attempt |-> 0,
                       cpu |-> 0]
      <4>1. Good(a, p)
        BY <1>2, <1>3, <3>4 DEF RestoreContainer
      <4>2. actual' = [actual EXCEPT ![p] = a]
        BY <1>2, <3>4 DEF RestoreContainer
      <4> HIDE DEF a, Good, A
      <4> QED
        BY <1>4, <4>1, <4>2
    <3>5. CASE StartRepair(p) \/ UpdatePodData(p)
      BY <1>2, <3>5 DEF StartRepair, UpdatePodData
    <3> QED
      BY <2>1, <3>1, <3>2, <3>3, <3>4, <3>5 DEF Node
  <2> HIDE DEF A
  <2> QED
    BY <1>1, <2>2, <2>3 DEF TypeOK, A
<1>7. CASE \E p \in Pods : Visit(p)
  <2>1. PICK p \in Pods : Visit(p)
    BY <1>7
  <2>2. /\ listing' = [listing EXCEPT ![p] = NoStats]
        /\ listing[p] # NoStats
        /\ phase' \in {phase, "crashed"}
        /\ ready' \in {ready, TRUE}
        /\ running' \in {running, running \cup {p}}
        /\ answered' \in {answered, answered \cup {<<p, listing[p].id>>}}
        /\ \/ UNCHANGED actual
           \/ actual' = [actual EXCEPT ![p].up = FALSE]
    BY <2>1 DEF Visit, SkipPod, VisitWithoutContainer,
       RemoveRestartedRepairContainer, VisitUninitialised, KillRestarted,
       VisitContainer, CrashOnReplaced, Turn, InitPodData
  <2>3. listing' \in [Pods -> Stats \cup {NoStats}]
    BY <1>1, <2>2 DEF TypeOK
  <2>4. answered' \in SUBSET (Pods \X Nat)
    <3>1. listing[p].id \in Nat
      BY <1>1, <2>2 DEF TypeOK, Stats
    <3> QED
      BY <1>1, <2>2, <3>1 DEF TypeOK
  <2>5. actual' \in [Pods -> A] /\ \A q \in Pods : Good(actual'[q], q)
    BY <1>2, <1>5, <2>2
  <2> HIDE DEF A
  <2> QED
    BY <1>1, <2>2, <2>3, <2>4, <2>5 DEF TypeOK, A
<1>8. CASE ListPods
  <2>1. PICK more \in [Pods -> {0, 1}] :
           /\ \A p \in Pods : actual[p].cpu + more[p] <= MaxCpu[p]
           /\ actual' = [p \in Pods |-> [actual[p] EXCEPT !.cpu = @ + more[p]]]
           /\ listing' = [p \in Pods |->
                            IF actual[p].up
                            THEN [id |-> actual[p].id,
                                  attempt |-> actual[p].attempt,
                                  cpu |-> actual[p].cpu + more[p]]
                            ELSE NoStats]
    BY <1>8 DEF ListPods
  <2>2. \A p \in Pods : Good(actual'[p], p)
    BY <1>2, <2>1
  <2>3. actual' \in [Pods -> A]
    BY <2>1, <2>2
  <2>4. listing' \in [Pods -> Stats \cup {NoStats}]
    BY <1>2, <2>1 DEF Stats
  <2>5. phase' = "visit" /\ ready' = FALSE /\ running' = {}
        /\ answered' = answered
    BY <1>8 DEF ListPods
  <2> QED
    BY <1>1, <2>2, <2>3, <2>4, <2>5 DEF TypeOK
<1>9. CASE ListFails \/ EndVisit \/ Measure \/ Scale
  BY <1>1, <1>9 DEF TypeOK, ListFails, EndVisit, Measure, Scale
<1>10. CASE Halted \/ UNCHANGED vars
  BY <1>1, <1>10 DEF TypeOK, Halted, vars
<1> QED
  BY <1>6, <1>7, <1>8, <1>9, <1>10 DEF Next

\* A listing is taken, gets old, and is used up; the controller follows.
LEMMA ListingsStep ==
    ASSUME IInv, [Next]_vars, con' \in [Pods -> Container]
    PROVE  Listings'
<1> USE DEF main
<1>1. /\ listing \in [Pods -> Stats \cup {NoStats}]
      /\ actual \in [Pods -> [up : BOOLEAN, id : Nat, attempt : Nat, cpu : Nat]]
      /\ con \in [Pods -> Container]
      /\ \A p \in Pods : actual[p].cpu <= MaxCpu[p] /\ MaxCpu[p] \in Nat
  BY ConstantsAssumption DEF IInv, TypeOK
<1>2. \A p \in Pods : listing[p] # NoStats =>
         listing[p] \in [id : Nat, attempt : Nat, cpu : Nat]
  BY <1>1 DEF Stats
<1>3. \A p \in Pods : con[p].id \in Nat
  BY <1>1 DEF Container
<1>4. ASSUME UNCHANGED <<listing, actual>>,
             \A p \in Pods : con'[p].id = con[p].id
      PROVE  Listings'
  BY <1>4 DEF IInv, Listings
<1>5. CASE \E p \in Pods : Node(p)
  <2>1. PICK p \in Pods : Node(p)
    BY <1>5
  <2>2. UNCHANGED <<listing, con>>
    BY <2>1 DEF Node, CreatePod, Restart, Kill, StartRepair, RestoreContainer,
       UpdatePodData
  <2>3. CASE UNCHANGED actual
    BY <1>4, <2>2, <2>3
  <2>4. CASE Kill(p)
    <3>1. \A q \in Pods : /\ actual'[q].id = actual[q].id
                         /\ actual'[q].attempt = actual[q].attempt
                         /\ actual'[q].cpu = actual[q].cpu
      BY <1>1, <2>4 DEF Kill
    <3> QED
      BY <2>2, <3>1 DEF IInv, Listings
  <2>5. CASE CreatePod(p) \/ Restart(p) \/ RestoreContainer(p)
    <3>1. /\ actual'[p].id > actual[p].id
          /\ \A q \in Pods \ {p} : actual'[q] = actual[q]
      BY <1>1, <2>5 DEF CreatePod, Restart, RestoreContainer
    <3>2. actual'[p].id \in Nat
      BY <1>1, <2>5 DEF CreatePod, Restart, RestoreContainer
    <3> QED
      BY <1>1, <1>2, <1>3, <2>2, <3>1, <3>2 DEF IInv, Listings
  <2> QED
    BY <2>1, <2>3, <2>4, <2>5 DEF Node, StartRepair, UpdatePodData
<1>6. CASE \E p \in Pods : Visit(p)
  <2>1. PICK p \in Pods : Visit(p)
    BY <1>6
  <2>2. /\ listing[p] # NoStats
        /\ listing' = [listing EXCEPT ![p] = NoStats]
        /\ \/ UNCHANGED actual
           \/ actual' = [actual EXCEPT ![p].up = FALSE]
    BY <2>1 DEF Visit, SkipPod, VisitWithoutContainer,
       RemoveRestartedRepairContainer, VisitUninitialised, KillRestarted,
       VisitContainer, CrashOnReplaced, Turn
  <2>3. \A q \in Pods : /\ actual'[q].id = actual[q].id
                       /\ actual'[q].attempt = actual[q].attempt
                       /\ actual'[q].cpu = actual[q].cpu
    BY <1>1, <2>2
  <2>4. /\ con'[p].id \in {con[p].id, listing[p].id}
        /\ \A q \in Pods \ {p} : con'[q] = con[q]
    <3>1. CASE VisitContainer(p)
      <4>1. PICK d \in {Checked(p, listing[p]),
                        Sampled(Checked(p, listing[p]), listing[p])} :
               con' = [con EXCEPT ![p] = d]
        BY <3>1 DEF VisitContainer
      <4>2. Window(con[p], p) /\ (Replaced(p) => con[p].res # <<>>)
            /\ (con[p].id = listing[p].id => LastUpTo(con[p], listing[p].cpu))
            /\ listing[p] \in Stats /\ listing[p].cpu <= MaxCpu[p]
        BY <1>1, <2>2, <3>1 DEF VisitContainer, IInv, Windows, Listings
      <4>3. d.id = listing[p].id
        BY <4>1, <4>2, VisitedWindow
      <4> QED
        BY <1>1, <4>1, <4>3
    <3>2. CASE KillRestarted(p)
      BY <1>1, <3>2 DEF KillRestarted
    <3>3. CASE UNCHANGED con
      BY <3>3
    <3> QED
      BY <2>1, <3>1, <3>2, <3>3 DEF Visit, SkipPod, VisitWithoutContainer,
         RemoveRestartedRepairContainer, VisitUninitialised, CrashOnReplaced
  <2>5. listing'[p] = NoStats /\ \A q \in Pods \ {p} : listing'[q] = listing[q]
    BY <1>1, <2>2
  <2> QED
    BY <2>2, <2>3, <2>4, <2>5 DEF IInv, Listings
<1>7. CASE ListPods
  <2>1. PICK more \in [Pods -> {0, 1}] :
           /\ \A p \in Pods : actual[p].cpu + more[p] <= MaxCpu[p]
           /\ actual' = [p \in Pods |-> [actual[p] EXCEPT !.cpu = @ + more[p]]]
           /\ listing' = [p \in Pods |->
                            IF actual[p].up
                            THEN [id |-> actual[p].id,
                                  attempt |-> actual[p].attempt,
                                  cpu |-> actual[p].cpu + more[p]]
                            ELSE NoStats]
           /\ con' = con
    BY <1>7 DEF ListPods
  <2> SUFFICES ASSUME NEW p \in Pods
               PROVE  /\ con'[p].id <= actual'[p].id
                      /\ listing'[p] # NoStats =>
                            /\ con'[p].id <= listing'[p].id
                            /\ listing'[p].id <= actual'[p].id
                            /\ listing'[p].cpu <= MaxCpu[p]
                            /\ listing'[p].id = actual'[p].id =>
                                  /\ listing'[p].attempt = actual'[p].attempt
                                  /\ listing'[p].cpu <= actual'[p].cpu
    BY DEF Listings
  <2>2. /\ actual'[p].id = actual[p].id /\ actual[p].id \in Nat
        /\ actual'[p].attempt = actual[p].attempt
        /\ actual'[p].cpu = actual[p].cpu + more[p]
        /\ actual[p].cpu + more[p] \in Nat
    BY <1>1, <2>1
  <2>3. con[p].id <= actual[p].id
    BY DEF IInv, Listings
  <2> QED
    BY <2>1, <2>2, <2>3
<1>8. CASE Measure \/ Scale
  <2>1. \A p \in Pods : con'[p].id = con[p].id
    BY <1>8, MeasuredWindow, CutWindow DEF Measure, Scale, IInv, Windows
  <2> QED
    BY <1>4, <1>8, <2>1 DEF Measure, Scale
<1>9. CASE ListFails \/ EndVisit \/ Halted \/ UNCHANGED vars
  BY <1>4, <1>9 DEF ListFails, EndVisit, Halted, vars
<1> QED
  BY <1>5, <1>6, <1>7, <1>8, <1>9 DEF Next

LEMMA WindowsStep ==
    ASSUME IInv, [Next]_vars
    PROVE  con' \in [Pods -> Container] /\ Windows'
<1> USE DEF main
<1>1. /\ listing \in [Pods -> Stats \cup {NoStats}]
      /\ actual \in [Pods -> [up : BOOLEAN, id : Nat, attempt : Nat, cpu : Nat]]
      /\ con \in [Pods -> Container]
      /\ \A p \in Pods : MaxCpu[p] \in Nat
  BY ConstantsAssumption DEF IInv, TypeOK
<1>2. \A p \in Pods : listing[p] # NoStats =>
         listing[p] \in [id : Nat, attempt : Nat, cpu : Nat]
  BY <1>1 DEF Stats
<1>3. \A p \in Pods : con[p].id \in Nat /\ Window(con[p], p)
  BY <1>1 DEF Container, IInv, Windows
<1>4. ASSUME UNCHANGED <<listing, con>>,
             \A p \in Pods : /\ actual'[p].id = actual[p].id
                             /\ actual'[p].cpu = actual[p].cpu
      PROVE  con' \in [Pods -> Container] /\ Windows'
  BY <1>1, <1>4 DEF IInv, Windows
<1>5. CASE \E p \in Pods : Node(p)
  <2>1. PICK p \in Pods : Node(p)
    BY <1>5
  <2>2. UNCHANGED <<listing, con>>
    BY <2>1 DEF Node, CreatePod, Restart, Kill, StartRepair, RestoreContainer,
       UpdatePodData
  <2>3. CASE UNCHANGED actual \/ Kill(p)
    BY <1>1, <1>4, <2>2, <2>3 DEF Kill
  <2>4. CASE CreatePod(p) \/ Restart(p) \/ RestoreContainer(p)
    <3>1. /\ actual'[p].id > con[p].id
          /\ \A q \in Pods \ {p} : actual'[q] = actual[q]
      BY <1>1, <1>3, <2>4 DEF CreatePod, Restart, RestoreContainer, IInv, Listings
    <3>2. actual'[p].id \in Nat
      BY <1>1, <2>4 DEF CreatePod, Restart, RestoreContainer
    <3>3. \A q \in Pods : Window(con'[q], q)
      BY <1>3, <2>2
    <3> QED
      BY <1>1, <1>3, <2>2, <3>1, <3>2, <3>3 DEF IInv, Windows
  <2> QED
    BY <2>1, <2>3, <2>4 DEF Node, StartRepair, UpdatePodData
<1>6. CASE \E p \in Pods : Visit(p)
  <2>1. PICK p \in Pods : Visit(p)
    BY <1>6
  <2>2. /\ listing[p] # NoStats
        /\ listing' = [listing EXCEPT ![p] = NoStats]
        /\ \/ UNCHANGED actual
           \/ actual' = [actual EXCEPT ![p].up = FALSE]
    BY <2>1 DEF Visit, SkipPod, VisitWithoutContainer,
       RemoveRestartedRepairContainer, VisitUninitialised, KillRestarted,
       VisitContainer, CrashOnReplaced, Turn
  <2>3. \A q \in Pods : /\ actual'[q].id = actual[q].id
                       /\ actual'[q].cpu = actual[q].cpu
    BY <1>1, <2>2
  <2>4. listing'[p] = NoStats /\ \A q \in Pods \ {p} : listing'[q] = listing[q]
    BY <1>1, <2>2
  <2>5. PICK d \in Container :
           /\ con' = [con EXCEPT ![p] = d]
           /\ Window(d, p)
           /\ d.id = actual[p].id => LastUpTo(d, actual[p].cpu)
    <3>1. CASE VisitContainer(p)
      <4>1. PICK d \in {Checked(p, listing[p]),
                        Sampled(Checked(p, listing[p]), listing[p])} :
               con' = [con EXCEPT ![p] = d]
        BY <3>1 DEF VisitContainer
      <4>2. Window(con[p], p) /\ (Replaced(p) => con[p].res # <<>>)
            /\ (con[p].id = listing[p].id => LastUpTo(con[p], listing[p].cpu))
            /\ listing[p] \in Stats /\ listing[p].cpu <= MaxCpu[p]
        BY <1>1, <2>2, <3>1 DEF VisitContainer, IInv, Windows, Listings
      <4>3. Window(d, p) /\ d.id = listing[p].id /\ LastUpTo(d, listing[p].cpu)
        BY <4>1, <4>2, VisitedWindow
      <4>4. d.id = actual[p].id => listing[p].cpu <= actual[p].cpu
        BY <2>2, <4>3 DEF IInv, Listings
      <4>5. d \in Container /\ d.res \in Seq(Sample)
        BY <4>3 DEF Window, Container
      <4>6. LastUpTo(d, listing[p].cpu) /\ listing[p].cpu <= actual[p].cpu
              => LastUpTo(d, actual[p].cpu)
        <5>1. Len(d.res) > 1 => d.res[Len(d.res)] \in Sample
          BY <4>5
        <5> QED
          BY <1>1, <1>2, <2>2, <5>1 DEF LastUpTo, Sample
      <4> QED
        BY <4>1, <4>3, <4>4, <4>5, <4>6
    <3>2. CASE KillRestarted(p)
      <4> DEFINE d == [con[p] EXCEPT !.attempt = listing[p].attempt]
      <4>1. con' = [con EXCEPT ![p] = d]
        BY <3>2 DEF KillRestarted
      <4>2. /\ d \in Container /\ d.res = con[p].res /\ d.id = con[p].id
            /\ d.timeWindow = con[p].timeWindow /\ d.listed = con[p].listed
        BY <1>1, <1>2, <2>2 DEF Container
      <4> HIDE DEF d
      <4>3. Window(d, p)
        BY <1>3, <4>2 DEF Window
      <4>4. d.id = actual[p].id => LastUpTo(d, actual[p].cpu)
        BY <4>2 DEF IInv, Windows, LastUpTo
      <4> QED
        BY <4>1, <4>2, <4>3, <4>4
    <3>3. CASE UNCHANGED con
      <4>1. con' = [con EXCEPT ![p] = con[p]] /\ con[p] \in Container
        BY <1>1, <3>3
      <4> QED
        BY <4>1 DEF IInv, Windows
    <3> QED
      BY <2>1, <3>1, <3>2, <3>3 DEF Visit, SkipPod, VisitWithoutContainer,
         RemoveRestartedRepairContainer, VisitUninitialised, CrashOnReplaced
  <2>6. con'[p] = d /\ \A q \in Pods \ {p} : con'[q] = con[q]
    BY <1>1, <2>5
  <2>7. con' \in [Pods -> Container]
    BY <1>1, <2>5
  <2> QED
    BY <2>3, <2>4, <2>5, <2>6, <2>7 DEF IInv, Windows
<1>7. CASE ListPods
  <2>1. PICK more \in [Pods -> {0, 1}] :
           /\ actual' = [p \in Pods |-> [actual[p] EXCEPT !.cpu = @ + more[p]]]
           /\ listing' = [p \in Pods |->
                            IF actual[p].up
                            THEN [id |-> actual[p].id,
                                  attempt |-> actual[p].attempt,
                                  cpu |-> actual[p].cpu + more[p]]
                            ELSE NoStats]
           /\ con' = con
    BY <1>7 DEF ListPods
  <2> SUFFICES ASSUME NEW p \in Pods
               PROVE  /\ con'[p].id = actual'[p].id =>
                            LastUpTo(con'[p], actual'[p].cpu)
                      /\ listing'[p] # NoStats /\ con'[p].id = listing'[p].id =>
                            LastUpTo(con'[p], listing'[p].cpu)
    BY <1>1, <1>3, <2>1 DEF Windows
  <2>2. /\ actual'[p].id = actual[p].id
        /\ actual'[p].cpu = actual[p].cpu + more[p]
        /\ actual[p].cpu \in Nat /\ more[p] \in Nat
    BY <1>1, <2>1
  <2>3. con[p].id = actual[p].id => LastUpTo(con[p], actual[p].cpu + more[p])
    <3>1. con[p].res \in Seq(Sample)
      BY <1>1 DEF Container
    <3>2. Len(con[p].res) > 1 => con[p].res[Len(con[p].res)] \in Sample
      BY <3>1
    <3> QED
      BY <2>2, <3>2 DEF IInv, Windows, LastUpTo, Sample
  <2> QED
    BY <2>1, <2>2, <2>3
<1>8. CASE Measure \/ Scale
  <2>1. \A p \in Pods : Window(con'[p], p) /\ con'[p].id = con[p].id
    <3>1. CASE Measure
      BY <1>3, <3>1, MeasuredWindow DEF Measure
    <3>2. CASE Scale
      BY <1>3, <3>2, CutWindow DEF Scale
    <3> QED
      BY <1>8, <3>1, <3>2
  <2>2. con' \in [Pods -> Container]
    <3>1. \E f : con' = [p \in Pods |-> f[p]]
      <4>1. CASE Measure
        <5> DEFINE f == [p \in Pods |-> IF p \in running THEN Measured(con[p])
                                        ELSE con[p]]
        <5>1. con' = [p \in Pods |-> f[p]]
          BY <4>1 DEF Measure
        <5> QED
          BY <5>1
      <4>2. CASE Scale
        BY <4>2 DEF Scale
      <4> QED
        BY <1>8, <4>1, <4>2
    <3> QED
      BY <2>1, <3>1 DEF Window
  <2>3. UNCHANGED <<listing, actual>>
    BY <1>8 DEF Measure, Scale
  <2>4. \A p \in Pods : \A cpu : LastUpTo(con[p], cpu) => LastUpTo(con'[p], cpu)
    <3>1. CASE Measure
      BY <1>3, <3>1, MeasuredWindow DEF Measure
    <3>2. CASE Scale
      BY <1>3, <3>2, CutWindow DEF Scale
    <3> QED
      BY <1>8, <3>1, <3>2
  <2> SUFFICES ASSUME NEW p \in Pods
               PROVE  /\ con'[p].id = actual'[p].id =>
                            LastUpTo(con'[p], actual'[p].cpu)
                      /\ listing'[p] # NoStats /\ con'[p].id = listing'[p].id =>
                            LastUpTo(con'[p], listing'[p].cpu)
    BY <2>1, <2>2 DEF Windows
  <2> QED
    BY <2>1, <2>3, <2>4 DEF IInv, Windows
<1>9. CASE ListFails \/ EndVisit \/ Halted \/ UNCHANGED vars
  BY <1>4, <1>9 DEF ListFails, EndVisit, Halted, vars
<1> QED
  BY <1>5, <1>6, <1>7, <1>8, <1>9 DEF Next

\* What was answered once is not above the attempt the controller knows.
LEMMA AnswersStep ==
    ASSUME IInv, [Next]_vars
    PROVE  Answers'
<1> USE DEF main
<1>1. /\ listing \in [Pods -> Stats \cup {NoStats}]
      /\ actual \in [Pods -> [up : BOOLEAN, id : Nat, attempt : Nat, cpu : Nat]]
      /\ con \in [Pods -> Container]
      /\ answered \in SUBSET (Pods \X Nat)
  BY DEF IInv, TypeOK
<1>2. \A p \in Pods : listing[p] # NoStats =>
         listing[p] \in [id : Nat, attempt : Nat, cpu : Nat]
  BY <1>1 DEF Stats
<1>3. \A p \in Pods : con[p].id \in Nat /\ con[p].attempt \in Nat
  BY <1>1 DEF Container
<1>4. ASSUME UNCHANGED <<listing, answered>>,
             \A p \in Pods : con'[p].attempt = con[p].attempt,
             \A p \in Pods : /\ actual'[p].id = actual[p].id
                             /\ actual'[p].attempt = actual[p].attempt
      PROVE  Answers'
  BY <1>4 DEF IInv, Answers
<1>5. CASE \E p \in Pods : Node(p)
  <2>1. PICK p \in Pods : Node(p)
    BY <1>5
  <2>2. UNCHANGED <<listing, con, answered>>
    BY <2>1 DEF Node, CreatePod, Restart, Kill, StartRepair, RestoreContainer,
       UpdatePodData
  <2>3. CASE UNCHANGED actual \/ Kill(p)
    BY <1>1, <1>4, <2>2, <2>3 DEF Kill
  <2>4. CASE CreatePod(p) \/ Restart(p) \/ RestoreContainer(p)
    <3>1. /\ actual'[p].id > actual[p].id
          /\ \A q \in Pods \ {p} : actual'[q] = actual[q]
      BY <1>1, <2>4 DEF CreatePod, Restart, RestoreContainer
    <3>2. actual'[p].id \in Nat /\ actual[p].id \in Nat
      BY <1>1, <2>4 DEF CreatePod, Restart, RestoreContainer
    <3> QED
      BY <2>2, <3>1, <3>2 DEF IInv, Answers
  <2> QED
    BY <2>1, <2>3, <2>4 DEF Node, StartRepair, UpdatePodData
<1>6. CASE \E p \in Pods : Visit(p)
  <2>1. PICK p \in Pods : Visit(p)
    BY <1>6
  <2>2. /\ listing[p] # NoStats
        /\ listing' = [listing EXCEPT ![p] = NoStats]
        /\ \/ UNCHANGED actual
           \/ actual' = [actual EXCEPT ![p].up = FALSE]
    BY <2>1 DEF Visit, SkipPod, VisitWithoutContainer,
       RemoveRestartedRepairContainer, VisitUninitialised, KillRestarted,
       VisitContainer, CrashOnReplaced, Turn
  <2>3. \A q \in Pods : /\ actual'[q].id = actual[q].id
                       /\ actual'[q].attempt = actual[q].attempt
    BY <1>1, <2>2
  <2>4. listing'[p] = NoStats /\ \A q \in Pods \ {p} : listing'[q] = listing[q]
    BY <1>1, <2>2
  <2>5. \A q \in Pods \ {p} : con'[q] = con[q]
    BY <1>1, <2>1 DEF Visit, SkipPod, VisitWithoutContainer,
       RemoveRestartedRepairContainer, VisitUninitialised, KillRestarted,
       VisitContainer, CrashOnReplaced
  <2>6. /\ listing[p].id <= actual[p].id
        /\ listing[p].id = actual[p].id => listing[p].attempt = actual[p].attempt
    BY <2>2 DEF IInv, Listings
  <2>7. \A k \in Nat : <<p, k>> \in answered' =>
           /\ k <= actual[p].id
           /\ k = actual[p].id => actual[p].attempt <= con'[p].attempt
    <3>1. CASE VisitContainer(p)
      <4>1. PICK d \in {Checked(p, listing[p]),
                        Sampled(Checked(p, listing[p]), listing[p])} :
               con' = [con EXCEPT ![p] = d]
        BY <3>1 DEF VisitContainer
      <4>2. Window(con[p], p) /\ (Replaced(p) => con[p].res # <<>>)
            /\ (con[p].id = listing[p].id => LastUpTo(con[p], listing[p].cpu))
            /\ listing[p] \in Stats /\ listing[p].cpu <= MaxCpu[p]
        BY <1>1, <2>2, <3>1 DEF VisitContainer, IInv, Windows, Listings
      <4>3. Window(d, p) /\ d.attempt >= listing[p].attempt
        BY <4>1, <4>2, VisitedWindow
      <4>4. con'[p] = d /\ d.attempt \in Nat
        BY <1>1, <4>1, <4>3 DEF Window, Container
      <4> QED
        <5> SUFFICES ASSUME NEW k \in Nat, <<p, k>> \in answered
                     PROVE  /\ k <= actual[p].id
                            /\ k = actual[p].id =>
                                  actual[p].attempt <= con'[p].attempt
          BY <3>1 DEF VisitContainer
        <5>1. k <= actual[p].id /\ k <= listing[p].id
          BY <2>2 DEF IInv, Answers
        <5>2. k = actual[p].id => listing[p].id = actual[p].id
          BY <1>1, <1>2, <2>2, <2>6, <5>1
        <5> QED
          BY <1>1, <1>2, <2>2, <2>6, <4>3, <4>4, <5>1, <5>2
    <3>2. CASE KillRestarted(p)
      <4>1. con'[p].attempt = listing[p].attempt
            /\ con[p].attempt < listing[p].attempt
            /\ answered' = answered \cup {<<p, listing[p].id>>}
        BY <1>1, <3>2 DEF KillRestarted, Restarted
      <4> SUFFICES ASSUME NEW k \in Nat, <<p, k>> \in answered'
                   PROVE  /\ k <= actual[p].id
                          /\ k = actual[p].id =>
                                actual[p].attempt <= con'[p].attempt
        OBVIOUS
      <4>2. CASE <<p, k>> \in answered
        BY <1>1, <1>2, <1>3, <2>2, <4>1, <4>2 DEF IInv, Answers
      <4>3. CASE k = listing[p].id
        BY <1>1, <1>2, <2>2, <2>6, <4>1, <4>3
      <4> QED
        BY <4>1, <4>2, <4>3
    <3>3. CASE UNCHANGED <<con, answered>>
      BY <3>3 DEF IInv, Answers
    <3> QED
      BY <2>1, <3>1, <3>2, <3>3 DEF Visit, SkipPod, VisitWithoutContainer,
         RemoveRestartedRepairContainer, VisitUninitialised, CrashOnReplaced
  <2>8. \A q \in Pods \ {p}, k \in Nat : <<q, k>> \in answered' =>
           <<q, k>> \in answered
    BY <2>1 DEF Visit, SkipPod, VisitWithoutContainer,
       RemoveRestartedRepairContainer, VisitUninitialised, KillRestarted,
       VisitContainer, CrashOnReplaced
  <2> QED
    BY <2>3, <2>4, <2>5, <2>7, <2>8 DEF IInv, Answers
<1>7. CASE ListPods
  <2>1. PICK more \in [Pods -> {0, 1}] :
           /\ actual' = [p \in Pods |-> [actual[p] EXCEPT !.cpu = @ + more[p]]]
           /\ listing' = [p \in Pods |->
                            IF actual[p].up
                            THEN [id |-> actual[p].id,
                                  attempt |-> actual[p].attempt,
                                  cpu |-> actual[p].cpu + more[p]]
                            ELSE NoStats]
           /\ con' = con /\ answered' = answered
    BY <1>7 DEF ListPods
  <2>2. \A p \in Pods :
           /\ actual'[p].id = actual[p].id
           /\ actual'[p].attempt = actual[p].attempt
           /\ listing'[p] # NoStats => /\ listing'[p].id = actual[p].id
                                       /\ listing'[p].attempt = actual[p].attempt
    BY <1>1, <2>1
  <2> QED
    BY <2>1, <2>2 DEF IInv, Answers
<1>8. CASE Measure \/ Scale
  <2>1. \A p \in Pods : con'[p].attempt = con[p].attempt
    BY <1>8, MeasuredWindow, CutWindow DEF Measure, Scale, IInv, Windows
  <2> QED
    BY <1>4, <1>8, <2>1 DEF Measure, Scale
<1>9. CASE ListFails \/ EndVisit \/ Halted \/ UNCHANGED vars
  BY <1>4, <1>9 DEF ListFails, EndVisit, Halted, vars
<1> QED
  BY <1>5, <1>6, <1>7, <1>8, <1>9 DEF Next

(***************************************************************************)
(* The theorems                                                            *)
(***************************************************************************)

LEMMA InitHolds == Init => IInv
<1> SUFFICES ASSUME Init
             PROVE  IInv
  OBVIOUS
<1> USE ConstantsAssumption DEF Init, Unlisted
<1>1. <<{}>> \in Seq(SUBSET Pods) /\ <<{}>> # <<>> /\ Len(<<{}>>) = 1
      /\ DOMAIN <<{}>> = {1} /\ <<{}>>[1] = {}
  OBVIOUS
<1>2. <<>> \in Seq(Sample) /\ Len(<<>>) = 0 /\ DOMAIN <<>> = {}
  OBVIOUS
<1>3. con \in [Pods -> Container] /\ \A p \in Pods : con[p].res = <<>>
  BY <1>2 DEF Container
<1>4. TypeOK
  <2>1. actual \in [Pods -> [up : BOOLEAN, id : Nat, attempt : Nat, cpu : Nat]]
        /\ \A p \in Pods : actual[p].id <= MaxLives[p] /\ actual[p].cpu <= MaxCpu[p]
    OBVIOUS
  <2>2. repairing \in [Pods -> 0 .. Len(arrays)]
    BY <1>1
  <2>3. phase = "list" /\ listing \in [Pods -> Stats \cup {NoStats}]
    OBVIOUS
  <2>4. arrays \in Seq(SUBSET Pods) /\ arrays # <<>>
    BY <1>1
  <2> QED
    BY <1>3, <2>1, <2>2, <2>3, <2>4 DEF TypeOK
<1>5. Listings /\ Answers
  BY DEF Listings, Answers
<1>6. Windows
  BY <1>2, <1>3 DEF Windows, Window, LastUpTo
<1>7. Marks
  BY <1>1 DEF Marks, MarksKept, Last
<1> QED
  BY <1>4, <1>5, <1>6, <1>7 DEF IInv

LEMMA StepKeeps == IInv /\ [Next]_vars => IInv'
<1> SUFFICES ASSUME IInv, [Next]_vars
             PROVE  IInv'
  OBVIOUS
<1>1. con' \in [Pods -> Container] /\ Windows'
  BY WindowsStep
<1>2. Listings'
  BY <1>1, ListingsStep
<1>3. Answers'
  BY AnswersStep
<1>4. Marks'
  BY MarksStep
<1>5. TypeOK'
  BY <1>1, MarksStep, TypeStep DEF TypeOK
<1> QED
  BY <1>1, <1>2, <1>3, <1>4, <1>5 DEF IInv

\* Listings are no newer than the node, windows are in order of their containers,
\* kills were answered for known attempts, and marks are where they are looked for.
THEOREM Invariance == Spec => []IInv
  BY InitHolds, StepKeeps, PTL DEF Spec

\* The types, for windows of any length and any number of pods.
THEOREM TypesCorrect == Spec => []TypeOK
<1>1. IInv => TypeOK
  BY DEF IInv
<1> QED
  BY <1>1, Invariance, PTL

\* However windows are cut, TimeWindow is their length.
THEOREM WindowsReadable == Spec => []WindowReadable
<1>1. IInv => WindowReadable
  BY DEF IInv, Windows, Window, WindowReadable
<1> QED
  BY <1>1, Invariance, PTL

\* CpuUtil wraps around after a restart only.
THEOREM WrapsAfterRestart == Spec => []WrapsOnlyAfterRestart
<1>1. IInv => WrapsOnlyAfterRestart
  <2> SUFFICES ASSUME IInv, NEW p \in Pods, NEW i \in DOMAIN con[p].res,
                      con[p].res[i].util > MaxCpu[p]
               PROVE  i <= 2
    BY DEF WrapsOnlyAfterRestart
  <2>1. con[p].res \in Seq(Sample) /\ MaxCpu[p] \in Nat /\ i \in Nat
    <3>1. con[p] \in Container
      BY DEF IInv, TypeOK
    <3> QED
      BY <3>1, ConstantsAssumption DEF Container
  <2>2. con[p].res[i] \in Sample
        /\ (i > 2 => con[p].res[i].util <= MaxCpu[p])
    BY <2>1 DEF IInv, Windows, Window
  <2>3. con[p].res[i].util \in Int
    BY <2>2 DEF Sample
  <2> QED
    BY <2>1, <2>2, <2>3
<1> QED
  BY <1>1, Invariance, PTL

\* A mark is lost only to a move of the array during the repair.
THEOREM MarksAreKept == Spec => []MarksKept
<1>1. IInv => MarksKept
  BY DEF IInv, Marks
<1> QED
  BY <1>1, Invariance, PTL

\* No restart is answered with two kills.
THEOREM OneKill == Spec => OneKillPerRestart
<1>1. IInv /\ [Next]_vars =>
        [\A p \in Pods : KillRestarted(p) => <<p, listing[p].id>> \notin answered]_vars
  <2> SUFFICES ASSUME IInv, NEW p \in Pods, KillRestarted(p)
               PROVE  <<p, listing[p].id>> \notin answered
    OBVIOUS
  <2>1. listing[p] # NoStats /\ con[p].attempt < listing[p].attempt
    BY DEF KillRestarted, Turn, Restarted
  <2>2. listing[p] \in [id : Nat, attempt : Nat, cpu : Nat]
        /\ con[p].attempt \in Nat
    BY <2>1 DEF IInv, TypeOK, Stats, Container
  <2> QED
    BY <2>1, <2>2 DEF IInv, Answers
<1> QED
  BY <1>1, Invariance, PTL DEF Spec, OneKillPerRestart
=============================================================================
