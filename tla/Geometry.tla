------------------------------ MODULE Geometry ------------------------------
(***************************************************************************)
(* Depth intervals of a drill core, in millimetres: internal/domain's      *)
(* Interval and Segment and the checks made on lists of them. A list is    *)
(* modelled by the set of its members: the code sorts every list it keeps, *)
(* and rejects a request or a cut that names a depth twice.                *)
(***************************************************************************)
EXTENDS Integers

\* Both ends are JSON numbers of the caller's choosing.
Interval == [start : Int, end : Int]

Valid(i) == i.start >= 0 /\ i.end > i.start

\* Half open: two intervals that only touch do not overlap.
Overlap(i, j) == i.start < j.end /\ j.start < i.end

Inside(i, outer) == i.start >= outer.start /\ i.end <= outer.end

\* i drifts from j by at most t at either end.
WithinTolerance(i, j, t) == i.start >= j.start - t /\ i.end <= j.end + t

\* No depth is in both lists.
Apart(S, T) == \A i \in S, j \in T : ~Overlap(i, j)

\* A list the code accepts as a request or as a cut: not empty, every member
\* well formed, no two members sharing a depth.
ValidSegments(S) ==
    /\ S # {}
    /\ \A i \in S : Valid(i)
    /\ \A i, j \in S : i # j => ~Overlap(i, j)

-----------------------------------------------------------------------------
(***************************************************************************)
(* NormalizeIntervals sorts a list and merges every interval into its      *)
(* predecessor when the two touch or overlap. What it returns is stated    *)
(* here without the loop, for malformed intervals too: ReviseCore merges   *)
(* before it validates.                                                    *)
(***************************************************************************)

SortsBefore(i, j) == i.start < j.start \/ (i.start = j.start /\ i.end < j.end)

\* The intervals at which the merge opens a new result.
Heads(S) == {h \in S : \A i \in S : SortsBefore(i, h) => i.end < h.start}

\* What the merge folds into the result that h opens.
Absorbed(h, S) ==
    {i \in S : /\ i = h \/ SortsBefore(h, i)
               /\ \A g \in Heads(S) : SortsBefore(h, g) => SortsBefore(i, g)}

Merged(m, S) ==
    \E h \in Heads(S) :
        /\ m.start = h.start
        /\ \E i \in Absorbed(h, S) : i.end = m.end
        /\ \A i \in Absorbed(h, S) : i.end <= m.end

Normalize(S) ==
    {m \in [start : {i.start : i \in S}, end : {i.end : i \in S}] : Merged(m, S)}
=============================================================================
