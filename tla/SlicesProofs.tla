----------------------------- MODULE SlicesProofs -----------------------------
(***************************************************************************)
(* What the list operations of Slices, and a few of the standard modules,  *)
(* make of a sequence over a set: a sequence over that set.                *)
(***************************************************************************)
EXTENDS Slices, RecursionProofs

\* In-place deletions leave entries of the list.
LEMMA RemnantsOfSeq ==
    ASSUME NEW S, NEW list \in Seq(S)
    PROVE  Remnants(list) \subseteq Seq(S)
<1> SUFFICES ASSUME NEW s \in Remnants(list)
             PROVE  s \in Seq(S)
  OBVIOUS
<1>1. PICK n \in Nat : \E f \in [1 .. n -> DOMAIN list] :
         s = [k \in 1 .. n |-> list[f[k]]]
  BY DEF Remnants
<1>2. PICK f \in [1 .. n -> DOMAIN list] : s = [k \in 1 .. n |-> list[f[k]]]
  BY <1>1
<1>3. \A k \in 1 .. n : list[f[k]] \in S
  OBVIOUS
<1> QED
  BY <1>2, <1>3

\* A goroutine reads entries of the list it was handed or of the present one.
LEMMA ViewsOfSeq ==
    ASSUME NEW S, NEW handed \in Seq(S), NEW now \in Seq(S),
           NEW s \in Views(handed, now)
    PROVE  s \in Seq(S)
<1>1. CASE s = handed
  BY <1>1
<1>2. CASE s = Overlay(handed, now)
  <2>1. DOMAIN handed = 1 .. Len(handed) /\ Len(handed) \in Nat
    OBVIOUS
  <2>2. \A i \in DOMAIN handed :
           (IF i \in DOMAIN now THEN now[i] ELSE handed[i]) \in S
    OBVIOUS
  <2> QED
    BY <1>2, <2>1, <2>2 DEF Overlay
<1> QED
  BY <1>1, <1>2 DEF Views

\* A consumer's write changes entries to the record it writes.
LEMMA OverwriteSeq ==
    ASSUME NEW S, NEW list \in Seq(S), NEW is, NEW m \in S
    PROVE  Overwrite(list, is, m) \in Seq(S)
<1>1. DOMAIN list = 1 .. Len(list) /\ Len(list) \in Nat
  OBVIOUS
<1> QED
  BY <1>1 DEF Overwrite

\* The consumers' deletion.
LEMMA RemoveAtSeq ==
    ASSUME NEW S, NEW list \in Seq(S), NEW i \in DOMAIN list
    PROVE  RemoveAt(list, i) \in Seq(S)
  BY DEF RemoveAt

\* A send, or an append to a list.
LEMMA AppendSeq ==
    ASSUME NEW S, NEW list \in Seq(S), NEW e \in S
    PROVE  Append(list, e) \in Seq(S) \ {<<>>}
  OBVIOUS

\* A write to one entry keeps the length.
LEMMA ExceptSeq ==
    ASSUME NEW S, NEW list \in Seq(S), NEW i \in DOMAIN list, NEW e \in S
    PROVE  /\ [list EXCEPT ![i] = e] \in Seq(S)
           /\ Len([list EXCEPT ![i] = e]) = Len(list)
  OBVIOUS

\* What is in a set stays in a larger one, in sequences too.
LEMMA SeqMonotonic ==
    ASSUME NEW S, NEW T, S \subseteq T
    PROVE  Seq(S) \subseteq Seq(T)
  OBVIOUS

-----------------------------------------------------------------------------
(***************************************************************************)
(* The deletion loop.                                                      *)
(***************************************************************************)

\* After any turns the cells hold entries of the list in their order, some of
\* them perhaps more than once; once a turn is done, not all cells are shown.
IsKept(list, f, slice) ==
    /\ f \in [DOMAIN list -> DOMAIN list]
    /\ \A j \in 2 .. Len(list) : f[j - 1] <= f[j]
    /\ slice.cells = [j \in DOMAIN list |-> list[f[j]]]
    /\ slice.len = Len(list) => \A j \in DOMAIN list : f[j] = j

Kept(S, list) ==
    {slice \in [cells : [DOMAIN list -> S], len : 0 .. Len(list)] :
       \E f : IsKept(list, f, slice)}

LEMMA SliceOfKept ==
    ASSUME NEW S, NEW list \in Seq(S)
    PROVE  SliceOf(list) \in Kept(S, list)
<1> DEFINE f == [j \in DOMAIN list |-> j]
<1>1. DOMAIN list = 1 .. Len(list) /\ Len(list) \in Nat
  OBVIOUS
<1>2. list \in [DOMAIN list -> S] /\ list = [j \in DOMAIN list |-> list[j]]
  OBVIOUS
<1>3. IsKept(list, f, SliceOf(list))
  BY <1>1, <1>2 DEF IsKept, SliceOf
<1> QED
  BY <1>1, <1>2, <1>3 DEF Kept, SliceOf

LEMMA DeleteIndexKept ==
    ASSUME NEW S, NEW list \in Seq(S), NEW slice \in Kept(S, list),
           NEW i \in DOMAIN list
    PROVE  DeleteIndex(i, slice) \in Kept(S, list)
<1>1. DOMAIN list = 1 .. Len(list) /\ Len(list) \in Nat
  OBVIOUS
<1>2. PICK f : IsKept(list, f, slice)
  BY DEF Kept
<1>3. /\ slice.cells \in [DOMAIN list -> S] /\ slice.len \in 0 .. Len(list)
      /\ slice = [cells |-> slice.cells, len |-> slice.len]
  BY DEF Kept
<1>4. CASE i <= slice.len
  <2> DEFINE g == [j \in DOMAIN list |-> IF j \in i .. (slice.len - 1)
                                         THEN f[j + 1] ELSE f[j]]
             new == [j \in DOMAIN slice.cells |->
                       IF j \in i .. (slice.len - 1) THEN slice.cells[j + 1]
                       ELSE slice.cells[j]]
  <2>1. DeleteIndex(i, slice) = [cells |-> new, len |-> slice.len - 1]
    BY <1>4 DEF DeleteIndex
  <2>2. \A j \in DOMAIN list : j \in i .. (slice.len - 1) => j + 1 \in DOMAIN list
    BY <1>1, <1>3
  <2>3. slice.len - 1 \in 0 .. Len(list) /\ slice.len - 1 # Len(list)
    BY <1>1, <1>3, <1>4
  <2>4. new \in [DOMAIN list -> S]
    BY <1>3, <2>2
  <2>5. g \in [DOMAIN list -> DOMAIN list]
    BY <1>2, <2>2 DEF IsKept
  <2>6. ASSUME NEW j \in 2 .. Len(list)
        PROVE  g[j - 1] <= g[j]
    <3>1. /\ j \in DOMAIN list /\ j - 1 \in DOMAIN list /\ (j - 1) + 1 = j
          /\ f[j - 1] \in Nat /\ f[j] \in Nat /\ f[j - 1] <= f[j]
      BY <1>1, <1>2 DEF IsKept
    <3>2. j + 1 \in DOMAIN list => f[j + 1] \in Nat /\ f[j] <= f[j + 1]
      <4>1. j + 1 \in DOMAIN list => j + 1 \in 2 .. Len(list) /\ (j + 1) - 1 = j
        BY <1>1
      <4> QED
        BY <1>1, <1>2, <4>1 DEF IsKept
    <3>3. g[j - 1] \in {f[j - 1], f[j]}
      BY <3>1
    <3>4. CASE j \in i .. (slice.len - 1)
      <4>1. g[j] = f[j + 1] /\ j + 1 \in DOMAIN list
        BY <2>2, <3>1, <3>4
      <4> QED
        BY <3>1, <3>2, <3>3, <4>1
    <3>5. CASE j \notin i .. (slice.len - 1)
      <4>1. g[j] = f[j]
        BY <3>1, <3>5
      <4> QED
        BY <3>1, <3>3, <4>1
    <3> QED
      BY <3>4, <3>5
  <2>7. new = [j \in DOMAIN list |-> list[g[j]]]
    BY <1>2, <1>3, <2>2 DEF IsKept
  <2> HIDE DEF g, new
  <2>8. IsKept(list, g, DeleteIndex(i, slice))
    BY <2>1, <2>3, <2>5, <2>6, <2>7 DEF IsKept
  <2> QED
    BY <2>1, <2>3, <2>4, <2>8 DEF Kept
<1>5. CASE ~(i <= slice.len)
  <2>1. DeleteIndex(i, slice) = [cells |-> slice.cells, len |-> i - 1]
    BY <1>3, <1>5 DEF DeleteIndex
  <2>2. i - 1 \in 0 .. Len(list) /\ i - 1 # Len(list)
    BY <1>1
  <2>3. IsKept(list, f, DeleteIndex(i, slice))
    BY <1>2, <2>1, <2>2 DEF IsKept
  <2> QED
    BY <1>3, <2>1, <2>2, <2>3 DEF Kept
<1> QED
  BY <1>4, <1>5

\* What is shown after the loop is a remnant of the list.
LEMMA ShownKept ==
    ASSUME NEW S, NEW list \in Seq(S), NEW slice \in Kept(S, list)
    PROVE  Shown(slice) \in Remnants(list)
<1>1. DOMAIN list = 1 .. Len(list) /\ Len(list) \in Nat
  OBVIOUS
<1>2. PICK f : IsKept(list, f, slice)
  BY DEF Kept
<1>3. PICK n \in 0 .. Len(list) : n = slice.len
  BY DEF Kept
<1>4. slice.cells = [j \in DOMAIN list |-> list[f[j]]]
  BY <1>2 DEF IsKept
<1> DEFINE g == [k \in 1 .. n |-> f[k]]
<1>5. Shown(slice) = [k \in 1 .. n |-> list[g[k]]]
  <2>1. slice.cells \in Seq(S) /\ Len(slice.cells) = Len(list)
    BY <1>1 DEF Kept
  <2>2. Shown(slice) = [k \in 1 .. n |-> slice.cells[k]]
    BY <1>1, <1>3, <2>1 DEF Shown
  <2>3. \A k \in 1 .. n : k \in DOMAIN list
    BY <1>1, <1>3
  <2> QED
    BY <1>4, <2>2, <2>3
<1>6. g \in [1 .. n -> DOMAIN list]
  BY <1>1, <1>2, <1>3 DEF IsKept
<1>7. ASSUME NEW k \in 2 .. n
      PROVE  \/ g[k - 1] < g[k]
             \/ g[k - 1] = g[k] /\ Len(list) > 2
  <2>1. /\ k \in 2 .. Len(list) /\ k - 1 \in 1 .. n /\ k \in 1 .. n
        /\ k \in DOMAIN list /\ k - 1 \in DOMAIN list
    BY <1>1, <1>3
  <2>2. /\ g[k - 1] = f[k - 1] /\ g[k] = f[k]
        /\ f[k - 1] <= f[k] /\ f[k - 1] \in Nat /\ f[k] \in Nat
    BY <1>1, <1>2, <2>1 DEF IsKept
  <2>3. CASE n = Len(list)
    <3>1. f[k] = k /\ f[k - 1] = k - 1
      BY <1>2, <1>3, <2>1, <2>3 DEF IsKept
    <3>2. k - 1 < k
      BY <1>1, <1>3
    <3> HIDE DEF g
    <3> QED
      BY <2>2, <3>1, <3>2
  <2>4. CASE n # Len(list)
    <3>1. Len(list) > 2
      BY <1>1, <1>3, <2>4
    <3> QED
      BY <2>2, <3>1
  <2> QED
    BY <2>3, <2>4
<1> DEFINE picks == {h \in [1 .. n -> DOMAIN list] :
                       \A k \in 2 .. n : \/ h[k - 1] < h[k]
                                         \/ h[k - 1] = h[k] /\ Len(list) > 2}
<1>8. g \in picks
  BY <1>6, <1>7
<1> HIDE DEF g
<1>9. Shown(slice) \in {[k \in 1 .. n |-> list[h[k]]] : h \in picks}
  BY <1>5, <1>8
<1> QED
  BY <1>3, <1>9 DEF Remnants

\* The loop's turns, one slice after the other.
IsDeletion(list, indices, turn) ==
    /\ turn[0] = SliceOf(list)
    /\ \A n \in 1 .. Len(indices) :
          turn[n] = DeleteIndex(indices[Len(indices) + 1 - n], turn[n - 1])
    /\ DeleteIndices(list, indices) = Shown(turn[Len(indices)])

LEMMA DeletionTurns ==
    ASSUME NEW S, NEW list \in Seq(S), NEW indices \in Seq(DOMAIN list)
    PROVE  \E turn \in [0 .. Len(indices) -> Kept(S, list)] :
              IsDeletion(list, indices, turn)
<1> DEFINE m == Len(indices)
           V == Kept(S, list)
           Step == [n \in 1 .. m |->
                      [slice \in V |-> DeleteIndex(indices[m + 1 - n], slice)]]
           turn == CHOOSE turn : turn = [n \in 0 .. m |->
                      IF n = 0 THEN SliceOf(list)
                      ELSE DeleteIndex(indices[m + 1 - n], turn[n - 1])]
<1>1. DeleteIndices(list, indices) = Shown(turn[m])
  BY DEF DeleteIndices
<1> HIDE DEF turn
<1>2. m \in Nat
  OBVIOUS
<1>3. \A n \in 1 .. m : indices[m + 1 - n] \in DOMAIN list
  <2>1. \A n \in 1 .. m : m + 1 - n \in 1 .. m
    BY <1>2
  <2> QED
    BY <2>1
<1>4. Step \in [1 .. m -> [V -> V]]
  BY <1>3, DeleteIndexKept
<1>5. SliceOf(list) \in V
  BY SliceOfKept
<1> HIDE DEF V, m
<1>6. PICK g \in [0 .. m -> V] : IsRun(m, SliceOf(list), Step, g)
  <2> HIDE DEF Step
  <2> QED
    BY <1>2, <1>4, <1>5, LoopRun
<1>7. \A n \in 1 .. m : g[n] = DeleteIndex(indices[m + 1 - n], g[n - 1])
  <2> TAKE n \in 1 .. m
  <2>1. n - 1 \in 0 .. m
    BY <1>2
  <2>2. g[n - 1] \in V
    BY <1>6, <2>1
  <2>3. g[n] = Step[n][g[n - 1]]
    BY <1>6 DEF IsRun
  <2> QED
    BY <2>2, <2>3
<1>8. g = [n \in 0 .. m |->
             IF n = 0 THEN SliceOf(list)
             ELSE DeleteIndex(indices[m + 1 - n], g[n - 1])]
  <2>1. g[0] = SliceOf(list)
    BY <1>6 DEF IsRun
  <2>2. \A n \in 0 .. m : n # 0 => n \in 1 .. m
    BY <1>2
  <2>3. \A n \in 0 .. m : g[n] = IF n = 0 THEN SliceOf(list)
                               ELSE DeleteIndex(indices[m + 1 - n], g[n - 1])
    BY <1>7, <2>1, <2>2
  <2> QED
    BY <1>6, <2>3
<1>9. turn = [n \in 0 .. m |->
                IF n = 0 THEN SliceOf(list)
                ELSE DeleteIndex(indices[m + 1 - n], turn[n - 1])]
  BY <1>8 DEF turn
<1>10. turn[0] = SliceOf(list)
  BY <1>2, <1>9
<1>11. \A n \in 1 .. m : turn[n] = DeleteIndex(indices[m + 1 - n], turn[n - 1])
  <2>1. \A n \in 1 .. m : n \in 0 .. m /\ n # 0
    BY <1>2
  <2> QED
    BY <1>9, <2>1
<1> DEFINE T == {n \in 0 .. m : turn[n] \in V}
<1>12. 0 \in T
  BY <1>2, <1>5, <1>10
<1>13. ASSUME NEW n \in 1 .. m, n - 1 \in T
       PROVE  n \in T
  <2>1. turn[n] = DeleteIndex(indices[m + 1 - n], turn[n - 1])
    BY <1>11
  <2>2. turn[n - 1] \in V
    BY <1>13
  <2>3. turn[n] \in V
    BY <1>3, <2>1, <2>2, DeleteIndexKept DEF V
  <2> QED
    BY <1>2, <2>3
<1>14. 0 .. m \subseteq T
  <2> HIDE DEF T
  <2> QED
    BY <1>2, <1>12, <1>13, LoopInduction
<1>15. turn \in [0 .. m -> V]
  <2>1. \A n \in 0 .. m : turn[n] \in V
    BY <1>14
  <2>2. turn = [n \in 0 .. m |-> turn[n]]
    BY <1>9
  <2> QED
    BY <2>1, <2>2
<1>16. IsDeletion(list, indices, turn)
  BY <1>1, <1>10, <1>11 DEF IsDeletion, m
<1> QED
  BY <1>15, <1>16 DEF V, m

\* Whatever the indices, in whatever order, and however many of them: what the
\* deletion loop leaves of a list is one of the list's remnants.
THEOREM DeletionsLeaveRemnants ==
    ASSUME NEW S, NEW list \in Seq(S), NEW indices \in Seq(DOMAIN list)
    PROVE  DeleteIndices(list, indices) \in Remnants(list)
<1>1. PICK turn \in [0 .. Len(indices) -> Kept(S, list)] :
         IsDeletion(list, indices, turn)
  BY DeletionTurns
<1>2. Len(indices) \in 0 .. Len(indices)
  OBVIOUS
<1>3. turn[Len(indices)] \in Kept(S, list)
  BY <1>2
<1> QED
  BY <1>1, <1>3, ShownKept DEF IsDeletion

-----------------------------------------------------------------------------
(***************************************************************************)
(* Remnants.                                                               *)
(***************************************************************************)

IsPick(list, n, f) ==
    /\ f \in [1 .. n -> DOMAIN list]
    /\ \A k \in 2 .. n : \/ f[k - 1] < f[k]
                         \/ f[k - 1] = f[k] /\ Len(list) > 2

\* The picks that make up a remnant, and the converse.
LEMMA RemnantOfPick ==
    ASSUME NEW list, NEW n \in 0 .. Len(list), NEW f, IsPick(list, n, f)
    PROVE  [k \in 1 .. n |-> list[f[k]]] \in Remnants(list)
<1> DEFINE picks == {h \in [1 .. n -> DOMAIN list] :
                       \A k \in 2 .. n : \/ h[k - 1] < h[k]
                                         \/ h[k - 1] = h[k] /\ Len(list) > 2}
<1>1. f \in picks
  BY DEF IsPick
<1>2. [k \in 1 .. n |-> list[f[k]]] \in {[k \in 1 .. n |-> list[h[k]]] : h \in picks}
  BY <1>1
<1> QED
  BY <1>2 DEF Remnants

LEMMA PickOfRemnant ==
    ASSUME NEW list, NEW s \in Remnants(list)
    PROVE  \E n \in 0 .. Len(list) : \E f :
              IsPick(list, n, f) /\ s = [k \in 1 .. n |-> list[f[k]]]
<1>1. PICK n \in 0 .. Len(list) :
         s \in {[k \in 1 .. n |-> list[h[k]]] :
                  h \in {h \in [1 .. n -> DOMAIN list] :
                           \A k \in 2 .. n : \/ h[k - 1] < h[k]
                                             \/ h[k - 1] = h[k] /\ Len(list) > 2}}
  BY DEF Remnants
<1>2. PICK f \in {h \in [1 .. n -> DOMAIN list] :
                    \A k \in 2 .. n : \/ h[k - 1] < h[k]
                                      \/ h[k - 1] = h[k] /\ Len(list) > 2} :
         s = [k \in 1 .. n |-> list[f[k]]]
  BY <1>1
<1>3. IsPick(list, n, f)
  BY DEF IsPick
<1> QED
  BY <1>2, <1>3

LEMMA RemnantsReflexive ==
    ASSUME NEW S, NEW list \in Seq(S)
    PROVE  list \in Remnants(list)
<1> DEFINE f == [k \in 1 .. Len(list) |-> k]
<1>1. DOMAIN list = 1 .. Len(list) /\ Len(list) \in Nat
  OBVIOUS
<1>2. IsPick(list, Len(list), f)
  BY <1>1 DEF IsPick
<1>3. list = [k \in 1 .. Len(list) |-> list[f[k]]]
  BY <1>1
<1>4. Len(list) \in 0 .. Len(list)
  BY <1>1
<1> HIDE DEF f
<1>5. [k \in 1 .. Len(list) |-> list[f[k]]] \in Remnants(list)
  BY <1>2, <1>4, RemnantOfPick
<1> QED
  BY <1>3, <1>5

\* A deletion from what a deletion has left.
LEMMA RemnantsTransitive ==
    ASSUME NEW S, NEW list \in Seq(S), NEW s \in Remnants(list),
           NEW t \in Remnants(s)
    PROVE  t \in Remnants(list)
<1>1. DOMAIN list = 1 .. Len(list) /\ Len(list) \in Nat
  OBVIOUS
<1>2. PICK n \in 0 .. Len(list) : \E f :
         IsPick(list, n, f) /\ s = [k \in 1 .. n |-> list[f[k]]]
  BY PickOfRemnant
<1>3. PICK f : IsPick(list, n, f) /\ s = [k \in 1 .. n |-> list[f[k]]]
  BY <1>2
<1>4. n \in Nat /\ Len(s) = n /\ DOMAIN s = 1 .. n
  <2>1. s \in Seq(S)
    BY RemnantsOfSeq
  <2>2. DOMAIN s = 1 .. Len(s) /\ Len(s) \in Nat
    BY <2>1
  <2>3. n \in Nat
    BY <1>1
  <2> QED
    BY <1>3, <2>2, <2>3
<1>5. PICK m \in 0 .. n : \E g :
         IsPick(s, m, g) /\ t = [k \in 1 .. m |-> s[g[k]]]
  BY <1>4, PickOfRemnant
<1>6. PICK g : IsPick(s, m, g) /\ t = [k \in 1 .. m |-> s[g[k]]]
  BY <1>5
<1>7. f \in [1 .. n -> 1 .. Len(list)] /\ g \in [1 .. m -> 1 .. n]
  BY <1>1, <1>3, <1>4, <1>6 DEF IsPick
<1> DEFINE h == [k \in 1 .. m |-> f[g[k]]]
<1>8. t = [k \in 1 .. m |-> list[h[k]]]
  BY <1>3, <1>6, <1>7
<1>9. f \in [1 .. n -> Int]
  BY <1>7
<1>10. \A a, b \in 1 .. n : a <= b => f[a] <= f[b]
  <2>1. ASSUME NEW k \in 2 .. n
        PROVE  f[k - 1] <= f[k]
    <3>1. k - 1 \in 1 .. n /\ k \in 1 .. n
      BY <1>4
    <3>2. f[k - 1] \in Int /\ f[k] \in Int
      BY <1>9, <3>1
    <3>3. f[k - 1] < f[k] \/ f[k - 1] = f[k]
      BY <1>3 DEF IsPick
    <3> QED
      BY <3>2, <3>3
  <2> QED
    BY <1>4, <1>9, <2>1, Monotone
<1>11. ASSUME ~(Len(list) > 2)
       PROVE  \A a, b \in 1 .. n : a < b => f[a] < f[b]
  <2>1. \A k \in 2 .. n : f[k - 1] < f[k]
    BY <1>3, <1>11 DEF IsPick
  <2> QED
    BY <1>4, <1>9, <2>1, StrictlyMonotone
<1>12. ASSUME NEW k \in 2 .. m
       PROVE  \/ h[k - 1] < h[k]
              \/ h[k - 1] = h[k] /\ Len(list) > 2
  <2>1. k - 1 \in 1 .. m /\ k \in 1 .. m
    BY <1>4
  <2>2. /\ g[k - 1] \in 1 .. n /\ g[k] \in 1 .. n
        /\ h[k - 1] = f[g[k - 1]] /\ h[k] = f[g[k]]
        /\ h[k - 1] \in Int /\ h[k] \in Int
    BY <1>7, <1>9, <2>1
  <2>3. \/ g[k - 1] < g[k]
        \/ g[k - 1] = g[k] /\ n > 2
    BY <1>4, <1>6 DEF IsPick
  <2> HIDE DEF h
  <2>4. CASE Len(list) > 2
    <3>1. g[k - 1] <= g[k]
      BY <1>4, <2>2, <2>3
    <3>2. h[k - 1] <= h[k]
      BY <1>10, <2>2, <3>1
    <3> QED
      BY <2>2, <2>4, <3>2
  <2>5. CASE ~(Len(list) > 2)
    <3>1. g[k - 1] < g[k]
      BY <1>1, <1>4, <2>3, <2>5
    <3> QED
      BY <1>11, <2>2, <2>5, <3>1
  <2> QED
    BY <2>4, <2>5
<1>13. h \in [1 .. m -> DOMAIN list]
  BY <1>1, <1>7
<1>14. m \in 0 .. Len(list)
  BY <1>1, <1>4
<1> HIDE DEF h
<1>15. IsPick(list, m, h)
  BY <1>12, <1>13 DEF IsPick
<1>16. [k \in 1 .. m |-> list[h[k]]] \in Remnants(list)
  BY <1>14, <1>15, RemnantOfPick
<1> QED
  BY <1>8, <1>16

LEMMA RemnantsLen ==
    ASSUME NEW S, NEW list \in Seq(S), NEW s \in Remnants(list)
    PROVE  Len(s) \in Nat /\ Len(s) <= Len(list)
<1>1. PICK n \in 0 .. Len(list) : \E f :
         IsPick(list, n, f) /\ s = [k \in 1 .. n |-> list[f[k]]]
  BY PickOfRemnant
<1>2. Len(list) \in Nat /\ n \in Nat
  OBVIOUS
<1>3. s \in Seq(S)
  BY RemnantsOfSeq
<1>4. DOMAIN s = 1 .. n
  BY <1>1
<1>5. Len(s) = n
  BY <1>2, <1>3, <1>4
<1> QED
  BY <1>2, <1>5

\* The entries of a list without one of them.
LEMMA RemoveAtEntries ==
    ASSUME NEW S, NEW list \in Seq(S), NEW i \in DOMAIN list
    PROVE  /\ Len(RemoveAt(list, i)) = Len(list) - 1
           /\ RemoveAt(list, i) =
                [k \in 1 .. Len(list) - 1 |-> list[IF k < i THEN k ELSE k + 1]]
<1>1. Len(list) \in Nat /\ i \in 1 .. Len(list)
  OBVIOUS
<1>2. PICK s : s = SubSeq(list, 1, i - 1)
  OBVIOUS
<1>3. s \in Seq(S) /\ Len(s) = i - 1 /\ \A k \in 1 .. i - 1 : s[k] = list[k]
  BY <1>1, <1>2
<1>4. PICK t : t = SubSeq(list, i + 1, Len(list))
  OBVIOUS
<1>5. /\ t \in Seq(S) /\ Len(t) = Len(list) - i
      /\ \A k \in 1 .. Len(list) - i : t[k] = list[i + k]
  BY <1>1, <1>4
<1>6. RemoveAt(list, i) = s \o t
  BY <1>2, <1>4 DEF RemoveAt
<1>7. Len(s \o t) = Len(list) - 1 /\ s \o t \in Seq(S)
  BY <1>1, <1>3, <1>5
<1>8. ASSUME NEW k \in 1 .. Len(list) - 1
      PROVE  (s \o t)[k] = list[IF k < i THEN k ELSE k + 1]
  <2>1. CASE k < i
    <3>1. k \in 1 .. i - 1
      BY <1>1, <2>1
    <3> QED
      BY <1>1, <1>3, <1>5, <2>1, <3>1
  <2>2. CASE ~(k < i)
    <3>1. k - (i - 1) \in 1 .. Len(list) - i /\ i + (k - (i - 1)) = k + 1
      BY <1>1, <2>2
    <3>2. (s \o t)[k] = t[k - (i - 1)]
      BY <1>1, <1>3, <1>5, <2>2
    <3> QED
      BY <1>5, <2>2, <3>1, <3>2
  <2> QED
    BY <2>1, <2>2
<1>9. PICK u \in Seq(S) : u = s \o t
  BY <1>7
<1>10. u = [k \in 1 .. Len(list) - 1 |-> list[IF k < i THEN k ELSE k + 1]]
  <2>1. DOMAIN u = 1 .. Len(list) - 1
    BY <1>7, <1>9
  <2>2. u = [k \in DOMAIN u |-> u[k]]
    OBVIOUS
  <2> QED
    BY <1>8, <1>9, <2>1, <2>2
<1> QED
  BY <1>6, <1>7, <1>9, <1>10

\* Removing one entry leaves a remnant.
LEMMA RemoveAtRemnant ==
    ASSUME NEW S, NEW list \in Seq(S), NEW i \in DOMAIN list
    PROVE  RemoveAt(list, i) \in Remnants(list)
<1> DEFINE n == Len(list) - 1
           f == [k \in 1 .. n |-> IF k < i THEN k ELSE k + 1]
<1>1. DOMAIN list = 1 .. Len(list) /\ Len(list) \in Nat /\ i \in 1 .. Len(list)
  OBVIOUS
<1>2. n \in 0 .. Len(list)
  BY <1>1
<1>3. RemoveAt(list, i) = [k \in 1 .. n |-> list[f[k]]]
  BY RemoveAtEntries
<1>4. f \in [1 .. n -> DOMAIN list]
  BY <1>1
<1>5. \A k \in 2 .. n : f[k - 1] < f[k]
  BY <1>1, <1>2
<1> HIDE DEF f
<1>6. IsPick(list, n, f)
  BY <1>4, <1>5 DEF IsPick
<1> HIDE DEF n
<1> QED
  BY <1>2, <1>3, <1>6, RemnantOfPick

\* The smallest of a set of naturals, by the community modules.
LEMMA MinOfNaturals ==
    ASSUME NEW T \in SUBSET Nat, T # {}
    PROVE  Min(T) \in T /\ \A m \in T : Min(T) <= m
<1>1. \E n \in T : \A m \in T : n <= m
  BY SmallestElement
<1>2. Min(T) = CHOOSE n \in T : \A m \in T : n =< m
  BY DEF Min
<1> QED
  BY <1>1, <1>2

\* Removing the first of some entries, if there is one, leaves a remnant.
LEMMA RemoveFirstRemnant ==
    ASSUME NEW S, NEW list \in Seq(S), NEW e
    PROVE  RemoveFirst(list, e) \in Remnants(list)
<1> DEFINE I == {i \in 1 .. Len(list) : list[i] = e}
<1>1. CASE I = {}
  <2>1. RemoveFirst(list, e) = list
    BY <1>1 DEF RemoveFirst
  <2> QED
    BY <2>1, RemnantsReflexive
<1>2. CASE I # {}
  <2>1. I \in SUBSET Nat
    OBVIOUS
  <2>2. Min(I) \in I
    BY <1>2, <2>1, MinOfNaturals
  <2>3. SelectInSeq(list, LAMBDA v : v = e) = Min(I)
    BY <1>2 DEF SelectInSeq
  <2>4. RemoveFirst(list, e) = RemoveAt(list, Min(I))
    BY <1>2, <2>3 DEF RemoveFirst
  <2>5. Min(I) \in DOMAIN list
    BY <2>2
  <2> QED
    BY <2>4, <2>5, RemoveAtRemnant
<1> QED
  BY <1>1, <1>2

-----------------------------------------------------------------------------
(***************************************************************************)
(* Indices collected in one pass over a list, and their deletion.          *)
(***************************************************************************)

IsAscending(s) == \A i, j \in DOMAIN s : i < j => s[i] < s[j]

LEMMA AppendAscending ==
    ASSUME NEW n \in Nat, NEW s \in Seq(1 .. n), IsAscending(s)
    PROVE  /\ Append(s, n + 1) \in Seq(1 .. n + 1)
           /\ IsAscending(Append(s, n + 1))
<1>1. PICK u : u = Append(s, n + 1)
  OBVIOUS
<1>2. s \in Seq(1 .. n + 1) /\ n + 1 \in 1 .. n + 1
  BY SeqMonotonic
<1>3. /\ u \in Seq(1 .. n + 1) /\ Len(u) = Len(s) + 1 /\ Len(s) \in Nat
      /\ u[Len(s) + 1] = n + 1
      /\ \A i \in 1 .. Len(s) : u[i] = s[i]
  BY <1>1, <1>2
<1>4. ASSUME NEW i \in DOMAIN u, NEW j \in DOMAIN u, i < j
      PROVE  u[i] < u[j]
  <2>1. i \in 1 .. Len(s) /\ s[i] \in 1 .. n /\ u[i] = s[i]
    BY <1>3, <1>4
  <2>2. CASE j \in 1 .. Len(s)
    <3>1. u[j] = s[j] /\ s[i] < s[j]
      BY <1>3, <1>4, <2>1, <2>2 DEF IsAscending
    <3> QED
      BY <2>1, <3>1
  <2>3. CASE j \notin 1 .. Len(s)
    <3>1. u[j] = n + 1
      BY <1>3, <2>3
    <3> QED
      BY <2>1, <3>1
  <2> QED
    BY <2>2, <2>3
<1> QED
  BY <1>1, <1>3, <1>4 DEF IsAscending

\* After the deletion of indices R, of which low is the smallest, the slice shows
\* the other entries, all of them: nothing before low has moved.
IsCut(list, R, low, slice, f) ==
    /\ f \in [1 .. slice.len -> DOMAIN list \ R]
    /\ \A a, b \in 1 .. slice.len : a < b => f[a] < f[b]
    /\ \A d \in DOMAIN list \ R : \E j \in 1 .. slice.len : f[j] = d
    /\ \A j \in 1 .. slice.len : slice.cells[j] = list[f[j]]
    /\ \A j \in 1 .. slice.len : j < low => f[j] = j
    /\ low <= slice.len + 1

Cut(list, R, low, slice) == \E f : IsCut(list, R, low, slice, f)

LEMMA SliceOfCut ==
    ASSUME NEW S, NEW list \in Seq(S)
    PROVE  Cut(list, {}, Len(list) + 1, SliceOf(list))
<1> DEFINE f == [j \in 1 .. Len(list) |-> j]
<1>1. DOMAIN list = 1 .. Len(list) /\ Len(list) \in Nat
  OBVIOUS
<1>2. IsCut(list, {}, Len(list) + 1, SliceOf(list), f)
  BY <1>1 DEF IsCut, SliceOf
<1> QED
  BY <1>2 DEF Cut

LEMMA DeleteIndexCut ==
    ASSUME NEW S, NEW list \in Seq(S), NEW R, NEW low \in Nat,
           NEW slice \in Kept(S, list), Cut(list, R, low, slice),
           NEW i \in DOMAIN list, i < low
    PROVE  Cut(list, R \cup {i}, i, DeleteIndex(i, slice))
<1>1. DOMAIN list = 1 .. Len(list) /\ Len(list) \in Nat
  OBVIOUS
<1>2. PICK f : IsCut(list, R, low, slice, f)
  BY DEF Cut
<1>3. PICK n \in Nat : n = slice.len /\ n <= Len(list)
  BY <1>1 DEF Kept
<1>4. DOMAIN slice.cells = 1 .. Len(list)
  BY <1>1 DEF Kept
<1>5. /\ f \in [1 .. n -> (1 .. Len(list)) \ R]
      /\ \A a, b \in 1 .. n : a < b => f[a] < f[b]
      /\ \A d \in (1 .. Len(list)) \ R : \E j \in 1 .. n : f[j] = d
      /\ \A j \in 1 .. n : slice.cells[j] = list[f[j]]
      /\ \A j \in 1 .. n : j < low => f[j] = j
      /\ low <= n + 1
  BY <1>1, <1>2, <1>3 DEF IsCut
<1>6. i \in 1 .. n
  BY <1>1, <1>3, <1>5
<1> DEFINE new == [j \in DOMAIN slice.cells |->
                     IF j \in i .. (n - 1) THEN slice.cells[j + 1]
                     ELSE slice.cells[j]]
           cut == [cells |-> new, len |-> n - 1]
           g == [j \in 1 .. n - 1 |-> IF j < i THEN f[j] ELSE f[j + 1]]
<1>7. DeleteIndex(i, slice) = cut
  BY <1>3, <1>6 DEF DeleteIndex
<1>8. f[i] = i
  BY <1>5, <1>6
<1>9. \A a \in 1 .. n - 1 : /\ a \in 1 .. n /\ a + 1 \in 1 .. n
                           /\ f[a] \in (1 .. Len(list)) \ R
                           /\ f[a + 1] \in (1 .. Len(list)) \ R
  <2>1. \A a \in 1 .. n - 1 : a \in 1 .. n /\ a + 1 \in 1 .. n
    BY <1>3
  <2> QED
    BY <1>5, <2>1
<1>10. ASSUME NEW a \in 1 .. n - 1
       PROVE  g[a] \in DOMAIN list \ (R \cup {i})
  <2>1. CASE a < i
    <3>1. g[a] = f[a] /\ f[a] < f[i]
      BY <1>5, <1>6, <1>9, <2>1
    <3> QED
      BY <1>1, <1>8, <1>9, <3>1
  <2>2. CASE ~(a < i)
    <3>1. g[a] = f[a + 1] /\ i < a + 1
      BY <1>6, <2>2
    <3>2. f[i] < f[a + 1]
      BY <1>5, <1>6, <1>9, <3>1
    <3> QED
      BY <1>1, <1>8, <1>9, <3>1, <3>2
  <2> QED
    BY <2>1, <2>2
<1>11. ASSUME NEW a \in 1 .. n - 1, NEW b \in 1 .. n - 1, a < b
       PROVE  g[a] < g[b]
  <2>1. PICK c \in 1 .. n : c = IF a < i THEN a ELSE a + 1
    BY <1>9
  <2>2. PICK d \in 1 .. n : d = IF b < i THEN b ELSE b + 1
    BY <1>9
  <2>3. c < d
    BY <1>6, <1>11, <2>1, <2>2
  <2>4. g[a] = f[c] /\ g[b] = f[d]
    BY <2>1, <2>2
  <2> QED
    BY <1>5, <2>3, <2>4
<1>12. ASSUME NEW j \in 1 .. n - 1
       PROVE  new[j] = list[g[j]]
  <2>1. j \in DOMAIN slice.cells
    BY <1>3, <1>4
  <2>2. CASE j < i
    <3>1. j \notin i .. (n - 1)
      BY <1>6, <2>2
    <3> QED
      BY <1>5, <1>9, <2>1, <2>2, <3>1
  <2>3. CASE ~(j < i)
    <3>1. j \in i .. (n - 1)
      BY <1>6, <2>3
    <3> QED
      BY <1>5, <1>9, <2>1, <2>3, <3>1
  <2> QED
    BY <2>2, <2>3
<1>13. ASSUME NEW j \in 1 .. n - 1, j < i
       PROVE  g[j] = j
  BY <1>5, <1>9, <1>13
<1>14. g \in [1 .. n - 1 -> DOMAIN list \ (R \cup {i})]
  BY <1>10
<1>15. i <= (n - 1) + 1
  BY <1>6
<1>16. ASSUME NEW d \in DOMAIN list \ (R \cup {i})
       PROVE  \E j \in 1 .. n - 1 : g[j] = d
  <2>1. PICK j \in 1 .. n : f[j] = d
    BY <1>1, <1>5
  <2>2. j # i
    BY <1>8, <2>1
  <2>3. CASE j < i
    <3>1. j \in 1 .. n - 1
      BY <1>6, <2>3
    <3> QED
      BY <2>1, <2>3, <3>1
  <2>4. CASE ~(j < i)
    <3>1. j - 1 \in 1 .. n - 1 /\ ~(j - 1 < i) /\ (j - 1) + 1 = j
      BY <1>6, <2>2, <2>4
    <3>2. g[j - 1] = f[j]
      BY <3>1
    <3> QED
      BY <2>1, <3>1, <3>2
  <2> QED
    BY <2>3, <2>4
<1> HIDE DEF g, new
<1>17. IsCut(list, R \cup {i}, i, cut, g)
  BY <1>11, <1>12, <1>13, <1>14, <1>15, <1>16 DEF IsCut
<1> QED
  BY <1>7, <1>17 DEF Cut

\* What is left when the entries at the indices, and no others, are deleted.
IsRest(list, indices, rest, n, f) ==
    /\ f \in [1 .. n -> DOMAIN list \ ToSet(indices)]
    /\ \A a, b \in 1 .. n : a < b => f[a] < f[b]
    /\ \A d \in DOMAIN list \ ToSet(indices) : \E j \in 1 .. n : f[j] = d
    /\ rest = [j \in 1 .. n |-> list[f[j]]]

\* Ascending indices are deleted from the last to the first, so that each is
\* still right when it is deleted, and every deletion takes one entry.
LEMMA AscendingRest ==
    ASSUME NEW S, NEW list \in Seq(S),
           NEW indices \in Seq(DOMAIN list), IsAscending(indices)
    PROVE  \E n \in Nat : /\ n = Len(list) - Len(indices)
                         /\ \E f : IsRest(list, indices,
                                         DeleteIndices(list, indices), n, f)
<1>1. PICK turn \in [0 .. Len(indices) -> Kept(S, list)] :
         IsDeletion(list, indices, turn)
  BY DeletionTurns
<1>2. PICK m \in Nat : m = Len(indices)
  OBVIOUS
<1>3. PICK L \in Nat : L = Len(list) /\ DOMAIN list = 1 .. L
  OBVIOUS
<1>4. /\ turn \in [0 .. m -> Kept(S, list)]
      /\ turn[0] = SliceOf(list)
      /\ \A n \in 1 .. m : turn[n] = DeleteIndex(indices[m + 1 - n], turn[n - 1])
      /\ DeleteIndices(list, indices) = Shown(turn[m])
  BY <1>1, <1>2 DEF IsDeletion
<1> DEFINE R(n) == {indices[k] : k \in m + 1 - n .. m}
           low(n) == IF n = 0 THEN L + 1 ELSE indices[m + 1 - n]
           T == {n \in 0 .. m : /\ Cut(list, R(n), low(n), turn[n])
                               /\ turn[n].len = L - n}
<1>5. 0 \in T
  <2>1. R(0) = {} /\ low(0) = Len(list) + 1 /\ 0 \in 0 .. m
    <3>1. m + 1 - 0 .. m = {}
      BY <1>2
    <3> QED
      BY <1>3, <3>1
  <2>2. Cut(list, {}, Len(list) + 1, turn[0])
    BY <1>4, SliceOfCut
  <2>3. turn[0].len = L - 0
    BY <1>3, <1>4 DEF SliceOf
  <2> HIDE DEF R, low
  <2> QED
    BY <2>1, <2>2, <2>3
<1>6. ASSUME NEW n \in 1 .. m, n - 1 \in T
      PROVE  n \in T
  <2>1. /\ n \in 0 .. m /\ n # 0 /\ n - 1 \in 0 .. m
        /\ m + 1 - n \in 1 .. m /\ m + 1 - (n - 1) = (m + 1 - n) + 1
    BY <1>2
  <2>2. PICK i \in DOMAIN list : i = indices[m + 1 - n]
    BY <1>2, <2>1
  <2>3. low(n) = i
    BY <2>1, <2>2
  <2>4. R(n) = R(n - 1) \cup {i}
    <3>1. m + 1 - n .. m = (m + 1 - (n - 1) .. m) \cup {m + 1 - n}
      BY <1>2, <2>1
    <3> QED
      BY <2>2, <3>1
  <2>5. low(n - 1) \in Nat /\ i < low(n - 1)
    <3>1. CASE n - 1 = 0
      BY <1>3, <3>1
    <3>2. CASE n - 1 # 0
      <4>1. m + 1 - (n - 1) \in 1 .. m
        BY <1>2, <3>2
      <4>2. indices[m + 1 - n] < indices[m + 1 - (n - 1)]
        <5>1. DOMAIN indices = 1 .. m /\ m + 1 - n < m + 1 - (n - 1)
          BY <1>2, <2>1
        <5> QED
          BY <2>1, <4>1, <5>1 DEF IsAscending
      <4>3. indices[m + 1 - (n - 1)] \in 1 .. L
        BY <1>2, <1>3, <4>1
      <4> QED
        BY <2>2, <3>2, <4>2, <4>3
    <3> QED
      BY <3>1, <3>2
  <2>6. turn[n - 1] \in Kept(S, list) /\ turn[n] = DeleteIndex(i, turn[n - 1])
    BY <1>4, <2>1, <2>2
  <2>7. Cut(list, R(n - 1), low(n - 1), turn[n - 1])
    BY <1>6
  <2> HIDE DEF R, low
  <2>8. Cut(list, R(n - 1) \cup {i}, i, turn[n])
    BY <2>5, <2>6, <2>7, DeleteIndexCut
  <2>9. turn[n].len = L - n
    <3>1. PICK slice : slice = turn[n - 1]
      OBVIOUS
    <3>2. slice.len = L - (n - 1) /\ low(n - 1) <= slice.len + 1
      BY <1>6, <2>7, <3>1 DEF Cut, IsCut
    <3>3. i \in Nat /\ n \in Nat /\ i <= slice.len
      BY <1>3, <2>2, <2>5, <3>2
    <3>4. DeleteIndex(i, slice).len = slice.len - 1
      BY <3>3 DEF DeleteIndex
    <3> QED
      BY <1>3, <2>6, <3>1, <3>2, <3>3, <3>4
  <2> QED
    BY <2>1, <2>3, <2>4, <2>8, <2>9
<1>7. m \in T
  <2>1. 0 .. m \subseteq T
    <3> HIDE DEF T
    <3> QED
      BY <1>2, <1>5, <1>6, LoopInduction
  <2>2. m \in 0 .. m
    BY <1>2
  <2> HIDE DEF T
  <2> QED
    BY <2>1, <2>2
<1>8. R(m) = ToSet(indices)
  <2>1. m + 1 - m .. m = DOMAIN indices
    BY <1>2
  <2> QED
    BY <2>1 DEF ToSet
<1>9. turn[m] \in Kept(S, list)
  BY <1>4
<1>10. PICK slice : slice = turn[m]
  OBVIOUS
<1>11. PICK n \in 0 .. L : n = slice.len /\ n = Len(list) - Len(indices)
  BY <1>2, <1>3, <1>7, <1>9, <1>10 DEF Kept
<1>12. PICK f : IsCut(list, R(m), low(m), slice, f)
  BY <1>7, <1>10 DEF Cut
<1> HIDE DEF R, low, T
<1>13. /\ f \in [1 .. n -> DOMAIN list \ ToSet(indices)]
       /\ \A a, b \in 1 .. n : a < b => f[a] < f[b]
       /\ \A d \in DOMAIN list \ ToSet(indices) : \E j \in 1 .. n : f[j] = d
       /\ \A j \in 1 .. n : slice.cells[j] = list[f[j]]
  BY <1>8, <1>11, <1>12 DEF IsCut
<1>14. Shown(slice) = [j \in 1 .. n |-> list[f[j]]]
  <2>1. slice.cells \in Seq(S) /\ Len(slice.cells) = L
    <3>1. PICK cells \in [1 .. L -> S] : cells = slice.cells
      BY <1>3, <1>9, <1>10 DEF Kept
    <3>2. cells \in Seq(S) /\ Len(cells) = L
      BY <1>3
    <3> QED
      BY <3>1, <3>2
  <2>2. Shown(slice) = [j \in 1 .. n |-> slice.cells[j]]
    BY <1>11, <2>1 DEF Shown
  <2> QED
    BY <1>13, <2>2
<1>15. IsRest(list, indices, DeleteIndices(list, indices), n, f)
  BY <1>4, <1>10, <1>13, <1>14 DEF IsRest
<1>16. n \in Nat /\ n = Len(list) - Len(indices)
  BY <1>11
<1> QED
  BY <1>15, <1>16

\* What is left of a list without duplicates has none, and nothing that was at
\* one of the indices.
LEMMA AscendingDeletions ==
    ASSUME NEW S, NEW list \in Seq(S), IsInjective(list),
           NEW indices \in Seq(DOMAIN list), IsAscending(indices)
    PROVE  /\ IsInjective(DeleteIndices(list, indices))
           /\ \A k \in DOMAIN indices :
                 list[indices[k]] \notin ToSet(DeleteIndices(list, indices))
<1>1. PICK r : r = DeleteIndices(list, indices)
  OBVIOUS
<1>2. PICK n \in Nat : \E f : IsRest(list, indices, r, n, f)
  BY <1>1, AscendingRest
<1>3. PICK f : IsRest(list, indices, r, n, f)
  BY <1>2
<1>4. /\ f \in [1 .. n -> DOMAIN list \ ToSet(indices)]
      /\ \A a, b \in 1 .. n : a < b => f[a] < f[b]
      /\ r = [j \in 1 .. n |-> list[f[j]]]
  BY <1>3 DEF IsRest
<1>5. ASSUME NEW a \in DOMAIN r, NEW b \in DOMAIN r, r[a] = r[b]
      PROVE  a = b
  <2>1. /\ a \in 1 .. n /\ b \in 1 .. n
        /\ f[a] \in DOMAIN list /\ f[b] \in DOMAIN list
        /\ list[f[a]] = list[f[b]]
    BY <1>4, <1>5
  <2>2. f[a] = f[b]
    BY <2>1 DEF IsInjective
  <2>3. f[a] \in Nat /\ f[b] \in Nat /\ a \in Nat /\ b \in Nat
    BY <2>1
  <2>4. ~(a < b) /\ ~(b < a)
    BY <1>4, <2>1, <2>2, <2>3
  <2> QED
    BY <2>3, <2>4
<1>6. ASSUME NEW k \in DOMAIN indices, NEW a \in DOMAIN r, r[a] = list[indices[k]]
      PROVE  FALSE
  <2>1. /\ f[a] \in DOMAIN list \ ToSet(indices)
        /\ list[f[a]] = list[indices[k]]
    BY <1>4, <1>6
  <2>2. indices[k] \in DOMAIN list /\ indices[k] \in ToSet(indices)
    BY DEF ToSet
  <2>3. f[a] = indices[k]
    BY <2>1, <2>2 DEF IsInjective
  <2> QED
    BY <2>1, <2>2, <2>3
<1>7. IsInjective(r)
  BY <1>5 DEF IsInjective
<1>8. \A k \in DOMAIN indices : list[indices[k]] \notin ToSet(r)
  BY <1>6 DEF ToSet
<1> QED
  BY <1>1, <1>7, <1>8

\* Every index takes one entry.
LEMMA AscendingLen ==
    ASSUME NEW S, NEW list \in Seq(S),
           NEW indices \in Seq(DOMAIN list), IsAscending(indices)
    PROVE  Len(list) = Len(DeleteIndices(list, indices)) + Len(indices)
<1>1. PICK r : r = DeleteIndices(list, indices)
  OBVIOUS
<1>2. PICK n \in Nat : n = Len(list) - Len(indices) /\ \E f : IsRest(list, indices, r, n, f)
  BY <1>1, AscendingRest
<1>3. PICK f : IsRest(list, indices, r, n, f)
  BY <1>2
<1>4. r = [j \in 1 .. n |-> list[f[j]]]
  BY <1>3 DEF IsRest
<1>5. Len(r) = n
  BY <1>4
<1>6. Len(list) \in Nat /\ Len(indices) \in Nat
  OBVIOUS
<1> QED
  BY <1>1, <1>2, <1>5, <1>6

LEMMA EmptySeq ==
    ASSUME NEW S
    PROVE  <<>> \in Seq(S)
  OBVIOUS

\* Without an index the list stays as it is.
LEMMA NothingDeleted ==
    ASSUME NEW S, NEW list \in Seq(S)
    PROVE  DeleteIndices(list, <<>>) = list
<1>1. PICK none \in Seq(DOMAIN list) : none = <<>>
  BY EmptySeq
<1>2. PICK turn : IsDeletion(list, none, turn)
  BY DeletionTurns
<1>3. DeleteIndices(list, none) = Shown(SliceOf(list))
  <2>1. Len(none) = 0
    BY <1>1
  <2> QED
    BY <1>2, <2>1 DEF IsDeletion
<1>4. Shown(SliceOf(list)) = list
  BY DEF Shown, SliceOf
<1> QED
  BY <1>1, <1>3, <1>4

\* Nothing is lost of any list but what was at one of the indices.
LEMMA AscendingKeeps ==
    ASSUME NEW S, NEW list \in Seq(S),
           NEW indices \in Seq(DOMAIN list), IsAscending(indices),
           NEW i \in DOMAIN list \ ToSet(indices)
    PROVE  list[i] \in ToSet(DeleteIndices(list, indices))
<1>1. PICK r : r = DeleteIndices(list, indices)
  OBVIOUS
<1>2. PICK n \in Nat : \E f : IsRest(list, indices, r, n, f)
  BY <1>1, AscendingRest
<1>3. PICK f : IsRest(list, indices, r, n, f)
  BY <1>2
<1>4. PICK j \in 1 .. n : f[j] = i
  BY <1>3 DEF IsRest
<1>5. j \in DOMAIN r /\ r[j] = list[i]
  BY <1>3, <1>4 DEF IsRest
<1> QED
  BY <1>1, <1>5 DEF ToSet

-----------------------------------------------------------------------------
(***************************************************************************)
(* Lists without duplicates.                                               *)
(***************************************************************************)

\* A remnant has no entries but those of the list.
LEMMA RemnantEntries ==
    ASSUME NEW S, NEW list \in Seq(S), NEW s \in Remnants(list)
    PROVE  ToSet(s) \subseteq ToSet(list)
<1>1. PICK n \in 0 .. Len(list) : \E f :
         IsPick(list, n, f) /\ s = [k \in 1 .. n |-> list[f[k]]]
  BY PickOfRemnant
<1>2. PICK f : IsPick(list, n, f) /\ s = [k \in 1 .. n |-> list[f[k]]]
  BY <1>1
<1>3. \A k \in DOMAIN s : f[k] \in DOMAIN list /\ s[k] = list[f[k]]
  BY <1>2 DEF IsPick
<1> QED
  BY <1>3 DEF ToSet

LEMMA RemoveAtInjective ==
    ASSUME NEW S, NEW list \in Seq(S), IsInjective(list), NEW i \in DOMAIN list
    PROVE  /\ IsInjective(RemoveAt(list, i))
           /\ list[i] \notin ToSet(RemoveAt(list, i))
<1>1. PICK n \in Nat : n = Len(list) /\ DOMAIN list = 1 .. n /\ i \in 1 .. n
  OBVIOUS
<1>2. PICK r : r = RemoveAt(list, i)
  OBVIOUS
<1>3. r = [k \in 1 .. n - 1 |-> list[IF k < i THEN k ELSE k + 1]]
  BY <1>1, <1>2, RemoveAtEntries
<1>4. ASSUME NEW k \in DOMAIN r
      PROVE  \E j \in DOMAIN list : /\ j # i /\ r[k] = list[j]
                                    /\ j = IF k < i THEN k ELSE k + 1
  BY <1>1, <1>3
<1>5. ASSUME NEW a \in DOMAIN r, NEW b \in DOMAIN r, r[a] = r[b]
      PROVE  a = b
  <2>1. PICK c \in DOMAIN list : r[a] = list[c] /\ c = IF a < i THEN a ELSE a + 1
    BY <1>4
  <2>2. PICK d \in DOMAIN list : r[b] = list[d] /\ d = IF b < i THEN b ELSE b + 1
    BY <1>4
  <2>3. c = d
    BY <1>5, <2>1, <2>2 DEF IsInjective
  <2> QED
    BY <1>1, <1>3, <2>1, <2>2, <2>3
<1>6. list[i] \notin ToSet(r)
  BY <1>4 DEF ToSet, IsInjective
<1> QED
  BY <1>2, <1>5, <1>6 DEF IsInjective

\* No other entry is lost.
LEMMA RemoveAtKeeps ==
    ASSUME NEW S, NEW list \in Seq(S), NEW i \in DOMAIN list
    PROVE  ToSet(list) \subseteq ToSet(RemoveAt(list, i)) \cup {list[i]}
<1>1. PICK n \in Nat : n = Len(list) /\ DOMAIN list = 1 .. n /\ i \in 1 .. n
  OBVIOUS
<1>2. PICK r : r = RemoveAt(list, i)
  OBVIOUS
<1>3. r = [k \in 1 .. n - 1 |-> list[IF k < i THEN k ELSE k + 1]]
  BY <1>1, <1>2, RemoveAtEntries
<1>4. ASSUME NEW j \in DOMAIN list, j # i
      PROVE  \E k \in DOMAIN r : r[k] = list[j]
  <2>1. CASE j < i
    <3>1. j \in 1 .. n - 1
      BY <1>1, <2>1
    <3> QED
      BY <1>3, <2>1, <3>1
  <2>2. CASE ~(j < i)
    <3>1. j - 1 \in 1 .. n - 1 /\ ~(j - 1 < i) /\ (j - 1) + 1 = j
      BY <1>1, <1>4, <2>2
    <3> QED
      BY <1>3, <3>1
  <2> QED
    BY <2>1, <2>2
<1> QED
  BY <1>2, <1>4 DEF ToSet

\* Two lists one after the other.
LEMMA ConcatInjective ==
    ASSUME NEW S, NEW s \in Seq(S), NEW t \in Seq(S)
    PROVE  /\ s \o t \in Seq(S)
           /\ ToSet(s \o t) = ToSet(s) \cup ToSet(t)
           /\ IsInjective(s) /\ IsInjective(t) /\ ToSet(s) \cap ToSet(t) = {}
                => IsInjective(s \o t)
<1>1. PICK m \in Nat : m = Len(s) /\ DOMAIN s = 1 .. m
  OBVIOUS
<1>2. PICK n \in Nat : n = Len(t) /\ DOMAIN t = 1 .. n
  OBVIOUS
<1>3. PICK u \in Seq(S) : u = s \o t
  <2>1. s \o t \in Seq(S)
    OBVIOUS
  <2> QED
    BY <2>1
<1>4. /\ DOMAIN u = 1 .. m + n
      /\ \A k \in 1 .. m : u[k] = s[k]
      /\ \A k \in m + 1 .. m + n : k - m \in 1 .. n /\ u[k] = t[k - m]
  BY <1>1, <1>2, <1>3
<1>5. \A k \in DOMAIN u : k \in 1 .. m \/ k \in m + 1 .. m + n
  BY <1>4
<1>6. ToSet(u) \subseteq ToSet(s) \cup ToSet(t)
  BY <1>1, <1>2, <1>4, <1>5 DEF ToSet
<1>7. ToSet(s) \subseteq ToSet(u)
  <2>1. \A k \in DOMAIN s : k \in DOMAIN u /\ u[k] = s[k]
    BY <1>1, <1>4
  <2> QED
    BY <2>1 DEF ToSet
<1>8. ToSet(t) \subseteq ToSet(u)
  <2>1. \A k \in DOMAIN t : m + k \in DOMAIN u /\ u[m + k] = t[k]
    <3> TAKE k \in DOMAIN t
    <3>1. m + k \in m + 1 .. m + n /\ (m + k) - m = k /\ m + k \in 1 .. m + n
      BY <1>2
    <3> QED
      BY <1>4, <3>1
  <2> QED
    BY <2>1 DEF ToSet
<1>9. ASSUME IsInjective(s), IsInjective(t), ToSet(s) \cap ToSet(t) = {},
             NEW a \in DOMAIN u, NEW b \in DOMAIN u, u[a] = u[b]
      PROVE  a = b
  <2>1. \A k \in 1 .. m : s[k] \in ToSet(s)
    BY <1>1 DEF ToSet
  <2>2. \A k \in 1 .. n : t[k] \in ToSet(t)
    BY <1>2 DEF ToSet
  <2>3. CASE a \in 1 .. m /\ b \in 1 .. m
    BY <1>1, <1>4, <1>9, <2>3 DEF IsInjective
  <2>4. CASE a \in m + 1 .. m + n /\ b \in m + 1 .. m + n
    <3>1. a - m = b - m
      BY <1>2, <1>4, <1>9, <2>4 DEF IsInjective
    <3> QED
      BY <2>4, <3>1
  <2>5. CASE a \in 1 .. m /\ b \in m + 1 .. m + n
    BY <1>4, <1>9, <2>1, <2>2, <2>5
  <2>6. CASE a \in m + 1 .. m + n /\ b \in 1 .. m
    BY <1>4, <1>9, <2>1, <2>2, <2>6
  <2> QED
    BY <1>5, <2>3, <2>4, <2>5, <2>6
<1> QED
  BY <1>3, <1>6, <1>7, <1>8, <1>9 DEF IsInjective
=============================================================================
