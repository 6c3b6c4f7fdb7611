--------------------------- MODULE RecursionProofs ---------------------------
(***************************************************************************)
(* Induction over the natural numbers, and what it gives for definitions   *)
(* by recursion: the loops of the code that the modules write as recursive *)
(* functions, and the sums over sets.                                      *)
(*                                                                         *)
(* The induction theorems of the library take a predicate as an operator,  *)
(* which no prover can instantiate here.  These take the set of numbers    *)
(* for which the predicate holds, and rest on the library's proof that the *)
(* order of the naturals is well-founded.                                  *)
(***************************************************************************)
EXTENDS Integers, FiniteSets, Functions, WellFoundedInduction,
        FiniteSetTheorems, TLAPS

Before == {pair \in Nat \X Nat : pair[1] < pair[2]}

LEMMA BeforeWellFounded == IsWellFoundedOn(Before, Nat)
  BY NatLessThanWellFounded DEF Before, OpToRel

\* Every set of naturals that is not empty has a smallest element.
LEMMA SmallestElement ==
    ASSUME NEW T \in SUBSET Nat, T # {}
    PROVE  \E n \in T : \A m \in T : n <= m
<1>1. PICK n \in T : \A m \in T : ~(<<m, n>> \in Before)
  BY BeforeWellFounded, WFMin
<1>2. \A m \in Nat : m < n => <<m, n>> \in Before
  BY n \in Nat DEF Before
<1>3. ASSUME NEW m \in T
      PROVE  n <= m
  <2>1. m \in Nat /\ n \in Nat /\ ~(m < n)
    BY <1>1, <1>2
  <2> QED
    BY <2>1
<1> QED
  BY <1>3

\* Induction over the naturals.
LEMMA Induction ==
    ASSUME NEW S, 0 \in S, \A n \in Nat : n \in S => n + 1 \in S
    PROVE  Nat \subseteq S
<1> SUFFICES ASSUME Nat \ S # {}
             PROVE  FALSE
  OBVIOUS
<1>1. PICK n \in Nat \ S : \A m \in Nat \ S : n <= m
  BY SmallestElement
<1>2. n - 1 \in Nat /\ ~(n <= n - 1) /\ n = (n - 1) + 1
  <2>1. n # 0
    OBVIOUS
  <2> QED
    BY <2>1
<1>3. n - 1 \in S
  BY <1>1, <1>2
<1> QED
  BY <1>2, <1>3

\* Induction up to a bound: a loop invariant.
LEMMA LoopInduction ==
    ASSUME NEW m \in Nat, NEW S,
           0 \in S, \A n \in 1 .. m : n - 1 \in S => n \in S
    PROVE  0 .. m \subseteq S
<1> DEFINE T == {n \in Nat : n <= m => n \in S}
<1>1. 0 \in T
  OBVIOUS
<1>2. ASSUME NEW n \in Nat, n \in T
      PROVE  n + 1 \in T
  <2>1. ASSUME n + 1 <= m
        PROVE  n + 1 \in S
    <3>1. n \in S
      BY <1>2, <2>1
    <3>2. n + 1 \in 1 .. m /\ (n + 1) - 1 = n
      BY <2>1
    <3> QED
      BY <3>1, <3>2
  <2> QED
    BY <2>1
<1>3. Nat \subseteq T
  <2> HIDE DEF T
  <2> QED
    BY <1>1, <1>2, Induction
<1> QED
  BY <1>3

\* What never decreases from one index to the next never decreases.
LEMMA Monotone ==
    ASSUME NEW n \in Nat, NEW f \in [1 .. n -> Int],
           \A k \in 2 .. n : f[k - 1] <= f[k]
    PROVE  \A a, b \in 1 .. n : a <= b => f[a] <= f[b]
<1> SUFFICES ASSUME NEW a \in 1 .. n
             PROVE  \A b \in 1 .. n : a <= b => f[a] <= f[b]
  OBVIOUS
<1> DEFINE S == {b \in 0 .. n : b \in 1 .. n /\ a <= b => f[a] <= f[b]}
<1>1. 0 \in S
  OBVIOUS
<1>2. ASSUME NEW b \in 1 .. n, b - 1 \in S
      PROVE  b \in S
  <2>1. CASE a <= b - 1
    <3>1. b \in 2 .. n /\ b - 1 \in 1 .. n
      BY <2>1
    <3>2. f[a] <= f[b - 1] /\ f[b - 1] <= f[b]
      BY <1>2, <2>1, <3>1
    <3>3. f[a] \in Int /\ f[b - 1] \in Int /\ f[b] \in Int
      BY <3>1
    <3> QED
      BY <3>2, <3>3
  <2>2. CASE ~(a <= b - 1)
    <3>1. a <= b => a = b
      BY <2>2
    <3>2. f[b] \in Int
      OBVIOUS
    <3> QED
      BY <3>1, <3>2
  <2> QED
    BY <2>1, <2>2
<1>3. 0 .. n \subseteq S
  <2> HIDE DEF S
  <2> QED
    BY <1>1, <1>2, LoopInduction
<1> QED
  BY <1>3

\* What increases from one index to the next increases.
LEMMA StrictlyMonotone ==
    ASSUME NEW n \in Nat, NEW f \in [1 .. n -> Int],
           \A k \in 2 .. n : f[k - 1] < f[k]
    PROVE  \A a, b \in 1 .. n : a < b => f[a] < f[b]
<1>1. ASSUME NEW k \in 2 .. n
      PROVE  f[k - 1] <= f[k]
  <2>1. f[k - 1] \in Int /\ f[k] \in Int /\ f[k - 1] < f[k]
    OBVIOUS
  <2> QED
    BY <2>1
<1>2. \A a, b \in 1 .. n : a <= b => f[a] <= f[b]
  BY <1>1, Monotone
<1> SUFFICES ASSUME NEW a \in 1 .. n, NEW b \in 1 .. n, a < b
             PROVE  f[a] < f[b]
  OBVIOUS
<1>3. b \in 2 .. n /\ b - 1 \in 1 .. n /\ a <= b - 1
  OBVIOUS
<1>4. f[a] <= f[b - 1] /\ f[b - 1] < f[b]
  BY <1>2, <1>3
<1>5. f[a] \in Int /\ f[b - 1] \in Int /\ f[b] \in Int
  BY <1>3
<1> QED
  BY <1>4, <1>5

IsRun(m, base, Step, g) ==
    /\ g[0] = base
    /\ \A n \in 1 .. m : g[n] = Step[n][g[n - 1]]

\* A loop of m turns that keeps a value in V has a run: the recursive function
\* that describes it exists.
LEMMA LoopRun ==
    ASSUME NEW m \in Nat, NEW V, NEW base \in V, NEW Step \in [1 .. m -> [V -> V]]
    PROVE  \E g \in [0 .. m -> V] : IsRun(m, base, Step, g)
<1> DEFINE Runs(n) == {g \in [0 .. n -> V] :
                         /\ g[0] = base
                         /\ \A k \in 1 .. n : g[k] = Step[k][g[k - 1]]}
           S == {n \in 0 .. m : Runs(n) # {}}
<1>1. 0 \in S
  <2> DEFINE g == [k \in 0 .. 0 |-> base]
  <2>1. g \in Runs(0)
    OBVIOUS
  <2> QED
    BY <2>1
<1>2. ASSUME NEW n \in 1 .. m, n - 1 \in S
      PROVE  n \in S
  <2>1. PICK g \in Runs(n - 1) : TRUE
    BY <1>2
  <2> DEFINE h == [k \in 0 .. n |-> IF k = n THEN Step[n][g[n - 1]] ELSE g[k]]
  <2>2. g[n - 1] \in V
    BY <2>1
  <2>3. Step[n][g[n - 1]] \in V
    BY <2>2
  <2>4. \A k \in 0 .. n : k # n => k \in 0 .. n - 1
    OBVIOUS
  <2>5. h \in [0 .. n -> V]
    BY <2>1, <2>3, <2>4
  <2>6. h[0] = base
    BY <2>1
  <2>7. ASSUME NEW k \in 1 .. n
        PROVE  h[k] = Step[k][h[k - 1]]
    <3>1. k - 1 \in 0 .. n /\ k - 1 # n /\ k \in 0 .. n
      OBVIOUS
    <3>2. h[k - 1] = g[k - 1]
      BY <3>1
    <3>3. CASE k = n
      BY <3>1, <3>2, <3>3
    <3>4. CASE k # n
      <4>1. k \in 1 .. n - 1
        BY <3>4
      <4> QED
        BY <2>1, <3>1, <3>2, <3>4, <4>1
    <3> QED
      BY <3>3, <3>4
  <2>8. h \in Runs(n)
    BY <2>5, <2>6, <2>7
  <2> QED
    BY <2>8
<1>3. 0 .. m \subseteq S
  <2> HIDE DEF S
  <2> QED
    BY <1>1, <1>2, LoopInduction
<1>4. PICK g \in Runs(m) : TRUE
  BY <1>3
<1> QED
  BY <1>4 DEF IsRun

(***************************************************************************)
(* Sums over finite sets, which the community modules define by recursion  *)
(* on the subsets.                                                         *)
(***************************************************************************)

AnyOf(s) == CHOOSE x \in s : TRUE

\* The subsets of S with at most n elements.
SubsetsUpTo(S, n) == {s \in SUBSET S : Cardinality(s) <= n}

\* What the recursion says of a set.
SumRule(f, g, s) == IF s = {} THEN 0 ELSE f[AnyOf(s)] + g[s \ {AnyOf(s)}]

IsSum(f, g, S) == \A s \in SUBSET S : g[s] = SumRule(f, g, s)

\* The recursion goes to a set with one element less.
LEMMA SmallerSubset ==
    ASSUME NEW S, IsFiniteSet(S), NEW n \in Nat, NEW s \in SubsetsUpTo(S, n), s # {}
    PROVE  /\ AnyOf(s) \in s
           /\ n \in Nat \ {0}
           /\ s \ {AnyOf(s)} \in SubsetsUpTo(S, n - 1)
<1>1. AnyOf(s) \in s
  BY DEF AnyOf
<1>2. IsFiniteSet(s)
  BY FS_Subset DEF SubsetsUpTo
<1>3. Cardinality(s) \in Nat /\ Cardinality(s) <= n
  BY <1>2, FS_CardinalityType DEF SubsetsUpTo
<1>4. Cardinality(s \ {AnyOf(s)}) = Cardinality(s) - 1
  BY <1>1, <1>2, FS_RemoveElement
<1>5. Cardinality(s \ {AnyOf(s)}) \in Nat
  BY <1>2, FS_RemoveElement, FS_CardinalityType
<1>6. s \ {AnyOf(s)} \in SUBSET S
  BY DEF SubsetsUpTo
<1> QED
  BY <1>1, <1>3, <1>4, <1>5, <1>6 DEF SubsetsUpTo

\* The recursive function exists on the subsets of a finite set, ...
LEMMA SumExists ==
    ASSUME NEW D, NEW f \in [D -> Int], NEW S \in SUBSET D, IsFiniteSet(S)
    PROVE  \E g \in [SUBSET S -> Int] : IsSum(f, g, S)
<1> DEFINE Sums(n) == {g \in [SubsetsUpTo(S, n) -> Int] :
                         \A s \in SubsetsUpTo(S, n) : g[s] = SumRule(f, g, s)}
           T == {n \in Nat : Sums(n) # {}}
<1>1. 0 \in T
  <2> DEFINE g == [s \in SubsetsUpTo(S, 0) |-> 0]
  <2>1. \A s \in SubsetsUpTo(S, 0) : s = {}
    BY SmallerSubset
  <2>2. g \in Sums(0)
    BY <2>1 DEF SumRule
  <2> QED
    BY <2>2
<1>2. ASSUME NEW n \in Nat, n \in T
      PROVE  n + 1 \in T
  <2>1. PICK g \in Sums(n) : TRUE
    BY <1>2
  <2> DEFINE h == [s \in SubsetsUpTo(S, n + 1) |-> SumRule(f, g, s)]
  <2>2. ASSUME NEW s \in SubsetsUpTo(S, n + 1), s # {}
        PROVE  /\ s \ {AnyOf(s)} \in SubsetsUpTo(S, n)
               /\ s \ {AnyOf(s)} \in SubsetsUpTo(S, n + 1)
               /\ f[AnyOf(s)] \in Int
    <3>1. AnyOf(s) \in s /\ s \ {AnyOf(s)} \in SubsetsUpTo(S, (n + 1) - 1)
      BY <2>2, SmallerSubset
    <3>2. s \in SUBSET S
      BY DEF SubsetsUpTo
    <3>3. SubsetsUpTo(S, (n + 1) - 1) = SubsetsUpTo(S, n)
      OBVIOUS
    <3>4. ASSUME NEW t \in SubsetsUpTo(S, n)
          PROVE  t \in SubsetsUpTo(S, n + 1)
      <4>1. IsFiniteSet(t)
        BY FS_Subset DEF SubsetsUpTo
      <4>2. Cardinality(t) \in Nat
        BY <4>1, FS_CardinalityType
      <4> QED
        BY <4>2 DEF SubsetsUpTo
    <3> QED
      BY <3>1, <3>2, <3>3, <3>4
  <2>3. h \in [SubsetsUpTo(S, n + 1) -> Int]
    BY <2>1, <2>2 DEF SumRule
  <2>4. ASSUME NEW s \in SubsetsUpTo(S, n)
        PROVE  s \in SubsetsUpTo(S, n + 1) /\ h[s] = g[s]
    <3>1. IsFiniteSet(s)
      BY FS_Subset DEF SubsetsUpTo
    <3>2. Cardinality(s) \in Nat
      BY <3>1, FS_CardinalityType
    <3>3. s \in SubsetsUpTo(S, n + 1)
      BY <3>2 DEF SubsetsUpTo
    <3> QED
      BY <2>1, <3>3
  <2>5. \A s \in SubsetsUpTo(S, n + 1) : h[s] = SumRule(f, h, s)
    BY <2>2, <2>4 DEF SumRule
  <2>6. h \in Sums(n + 1)
    BY <2>3, <2>5
  <2>7. n + 1 \in Nat
    OBVIOUS
  <2> HIDE DEF Sums, h
  <2> QED
    BY <2>6, <2>7
<1>3. Nat \subseteq T
  <2> HIDE DEF T
  <2> QED
    BY <1>1, <1>2, Induction
<1>4. Cardinality(S) \in Nat
  BY FS_CardinalityType
<1>5. PICK g \in Sums(Cardinality(S)) : TRUE
  BY <1>3, <1>4
<1>6. SubsetsUpTo(S, Cardinality(S)) = SUBSET S
  BY FS_Subset DEF SubsetsUpTo
<1> QED
  BY <1>5, <1>6 DEF IsSum

\* ... is unique, ...
LEMMA SumUnique ==
    ASSUME NEW S, IsFiniteSet(S), NEW f, NEW g, NEW h,
           IsSum(f, g, S), IsSum(f, h, S)
    PROVE  g[S] = h[S]
<1> DEFINE T == {n \in Nat : \A s \in SubsetsUpTo(S, n) : g[s] = h[s]}
<1>1. 0 \in T
  <2>1. \A s \in SubsetsUpTo(S, 0) : s = {}
    BY SmallerSubset
  <2> QED
    BY <2>1 DEF IsSum, SumRule
<1>2. ASSUME NEW n \in Nat, n \in T
      PROVE  n + 1 \in T
  <2>1. ASSUME NEW s \in SubsetsUpTo(S, n + 1)
        PROVE  g[s] = h[s]
    <3>1. s \in SUBSET S
      BY DEF SubsetsUpTo
    <3>2. CASE s = {}
      BY <3>1, <3>2 DEF IsSum, SumRule
    <3>3. CASE s # {}
      <4>1. s \ {AnyOf(s)} \in SubsetsUpTo(S, (n + 1) - 1)
        BY <3>3, SmallerSubset
      <4>2. g[s \ {AnyOf(s)}] = h[s \ {AnyOf(s)}]
        BY <1>2, <4>1
      <4> QED
        BY <3>1, <3>3, <4>2 DEF IsSum, SumRule
    <3> QED
      BY <3>2, <3>3
  <2> QED
    BY <2>1
<1>3. Nat \subseteq T
  <2> HIDE DEF T
  <2> QED
    BY <1>1, <1>2, Induction
<1>4. Cardinality(S) \in T
  BY <1>3, FS_CardinalityType
<1> QED
  BY <1>4 DEF SubsetsUpTo

SumsUp(f, g, S) ==
    /\ g \in [SUBSET S -> Int]
    /\ IsSum(f, g, S)
    /\ SumFunctionOnSet(f, S) = g[S]

\* ... and is what the sum over the set is defined by.
LEMMA SumFound ==
    ASSUME NEW D, NEW f \in [D -> Int], NEW S \in SUBSET D, IsFiniteSet(S)
    PROVE  \E g : SumsUp(f, g, S)
<1> DEFINE i == CHOOSE i : i = [s \in SUBSET S |->
                                  IF s = {} THEN 0
                                  ELSE f[CHOOSE x \in s : TRUE]
                                         + i[s \ {CHOOSE x \in s : TRUE}]]
<1>1. SumFunctionOnSet(f, S) = i[S]
  BY DEF SumFunctionOnSet, FoldFunctionOnSet, MapThenFoldSet
<1> HIDE DEF i
<1>2. PICK g \in [SUBSET S -> Int] : IsSum(f, g, S)
  BY SumExists
<1>3. g = [s \in SUBSET S |-> IF s = {} THEN 0
                              ELSE f[CHOOSE x \in s : TRUE]
                                     + g[s \ {CHOOSE x \in s : TRUE}]]
  BY <1>2 DEF IsSum, SumRule, AnyOf
<1>4. i = [s \in SUBSET S |-> IF s = {} THEN 0
                              ELSE f[CHOOSE x \in s : TRUE]
                                     + i[s \ {CHOOSE x \in s : TRUE}]]
  BY <1>3 DEF i
<1>5. IsSum(f, i, S)
  BY <1>4 DEF IsSum, SumRule, AnyOf
<1>6. i[S] = g[S]
  BY <1>2, <1>5, SumUnique
<1>7. SumsUp(f, g, S)
  BY <1>1, <1>2, <1>6 DEF SumsUp
<1> QED
  BY <1>7

\* A sum of integers is an integer.
LEMMA SumOfIntegers ==
    ASSUME NEW D, NEW f \in [D -> Int], NEW S \in SUBSET D, IsFiniteSet(S)
    PROVE  SumFunctionOnSet(f, S) \in Int
<1>1. PICK g : SumsUp(f, g, S)
  BY SumFound
<1> QED
  BY <1>1 DEF SumsUp

\* A sum of numbers none of which is negative is at least each of them.
LEMMA SumAtLeast ==
    ASSUME NEW D, NEW f \in [D -> Int], NEW S \in SUBSET D, IsFiniteSet(S),
           \A x \in S : f[x] >= 0,
           NEW a \in S
    PROVE  SumFunctionOnSet(f, S) >= f[a]
<1>1. PICK g : SumsUp(f, g, S)
  BY SumFound
<1>2. /\ g \in [SUBSET S -> Int] /\ SumFunctionOnSet(f, S) = g[S]
      /\ \A s \in SUBSET S : g[s] = SumRule(f, g, s)
  BY <1>1 DEF SumsUp, IsSum
<1>3. \A s \in SUBSET S : s = {} => g[s] >= 0 /\ \A x \in s : g[s] >= f[x]
  <2>1. g[{}] = 0
    BY <1>2 DEF SumRule
  <2>2. g[{}] >= 0
    BY <2>1
  <2> QED
    BY <2>2
<1> DEFINE T == {n \in Nat : \A s \in SubsetsUpTo(S, n) :
                                g[s] >= 0 /\ \A x \in s : g[s] >= f[x]}
<1>4. 0 \in T
  <2>1. \A s \in SubsetsUpTo(S, 0) : s = {}
    BY SmallerSubset
  <2>2. SubsetsUpTo(S, 0) \subseteq SUBSET S
    BY DEF SubsetsUpTo
  <2> QED
    BY <1>3, <2>1, <2>2
<1>5. ASSUME NEW n \in Nat, n \in T
      PROVE  n + 1 \in T
  <2>1. ASSUME NEW s \in SubsetsUpTo(S, n + 1)
        PROVE  g[s] >= 0 /\ \A x \in s : g[s] >= f[x]
    <3>1. s \in SUBSET S
      BY DEF SubsetsUpTo
    <3>2. CASE s = {}
      BY <1>3, <3>1, <3>2
    <3>3. CASE s # {}
      <4>1. PICK y : y = AnyOf(s)
        OBVIOUS
      <4>2. y \in s /\ s \ {y} \in SubsetsUpTo(S, (n + 1) - 1)
        BY <3>3, <4>1, SmallerSubset
      <4>3. s \ {y} \in SubsetsUpTo(S, n) /\ s \ {y} \in SUBSET S
        BY <3>1, <4>2
      <4>4. g[s] = f[y] + g[s \ {y}]
        BY <1>2, <3>1, <3>3, <4>1 DEF SumRule
      <4>5. /\ g[s \ {y}] >= 0 /\ \A x \in s \ {y} : g[s \ {y}] >= f[x]
            /\ f[y] >= 0 /\ f[y] \in Int /\ g[s \ {y}] \in Int
        BY <1>5, <1>2, <3>1, <4>2, <4>3
      <4>6. ASSUME NEW x \in s
            PROVE  g[s] >= f[x]
        <5>1. CASE x = y
          BY <4>4, <4>5, <5>1
        <5>2. CASE x # y
          <6>1. f[x] \in Int /\ g[s \ {y}] >= f[x]
            BY <3>1, <4>5, <5>2
          <6> QED
            BY <4>4, <4>5, <6>1
        <5> QED
          BY <5>1, <5>2
      <4>7. g[s] >= 0
        BY <4>4, <4>5
      <4> QED
        BY <4>6, <4>7
    <3> QED
      BY <3>2, <3>3
  <2> QED
    BY <2>1
<1>6. Nat \subseteq T
  <2> HIDE DEF T
  <2> QED
    BY <1>4, <1>5, Induction
<1>7. Cardinality(S) \in T /\ S \in SubsetsUpTo(S, Cardinality(S))
  <2>1. Cardinality(S) \in Nat
    BY FS_CardinalityType
  <2> QED
    BY <1>6, <2>1 DEF SubsetsUpTo
<1> QED
  BY <1>2, <1>7
=============================================================================
