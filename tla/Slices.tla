-------------------------------- MODULE Slices --------------------------------
(***************************************************************************)
(* Go slices as the controller uses them.  The lists are passed by value   *)
(* and kept without a lock, so goroutines share their backing arrays.      *)
(***************************************************************************)
EXTENDS Naturals, Sequences, SequencesExt

(***************************************************************************)
(* Entries that name a pod.                                                *)
(***************************************************************************)

IndicesOf(list, p) == {i \in DOMAIN list : list[i].pod = p}

IsFirst(list, p, i) ==
    /\ i \in IndicesOf(list, p)
    /\ \A j \in IndicesOf(list, p) : i <= j

Overwrite(list, is, m) ==
    [i \in DOMAIN list |-> IF i \in is THEN m ELSE list[i]]

(***************************************************************************)
(* A goroutine that was handed a slice sees the owner's writes and         *)
(* in-place deletions in the cells it can address, unless the owner has    *)
(* moved to a new array.                                                   *)
(***************************************************************************)

Overlay(handed, now) ==
    [i \in DOMAIN handed |-> IF i \in DOMAIN now THEN now[i] ELSE handed[i]]

Views(handed, now) == {handed, Overlay(handed, now)}

(***************************************************************************)
(* How the main loop deletes entries.  The indices were appended by        *)
(* concurrent goroutines or while another list was scanned, so they come   *)
(* in any order, and append(list[:i], list[i+1:]...) moves the tail within *)
(* the backing array.                                                      *)
(***************************************************************************)

\* A slice: the cells of its backing array, and how many of them it shows.
SliceOf(list) == [cells |-> list, len |-> Len(list)]

Shown(slice) == SubSeq(slice.cells, 1, slice.len)

\* One turn of the deletion loop.  An index past the end does not delete: it
\* shows the cells up to that index again.
DeleteIndex(i, slice) ==
    IF i <= slice.len
    THEN [cells |-> [j \in DOMAIN slice.cells |->
                       IF j \in i .. (slice.len - 1) THEN slice.cells[j + 1]
                       ELSE slice.cells[j]],
          len |-> slice.len - 1]
    ELSE [slice EXCEPT !.len = i - 1]

\* The loop runs over the collected indices from the last to the first.
DeleteIndices(list, indices) ==
    LET turn[n \in 0 .. Len(indices)] ==
          IF n = 0 THEN SliceOf(list)
          ELSE DeleteIndex(indices[Len(indices) + 1 - n], turn[n - 1])
    IN  Shown(turn[Len(indices)])

\* What a deletion can leave of a list when nothing is known of the indices:
\* entries may be missed, and from three entries on a moved one may be shown
\* twice.
Remnants(list) ==
    LET picks(n) == {f \in [1 .. n -> DOMAIN list] :
                       \A k \in 2 .. n : \/ f[k - 1] < f[k]
                                         \/ f[k - 1] = f[k] /\ Len(list) > 2}
    IN  UNION {{[k \in 1 .. n |-> list[f[k]]] : f \in picks(n)}
               : n \in 0 .. Len(list)}
=============================================================================
