--------------------------- MODULE IntervalLoops ---------------------------
(***************************************************************************)
(* The loops over sorted lists of intervals: NormalizeIntervals and        *)
(* MergeSegments, which are the same loop, and Subtract, which runs        *)
(* MergeSegments first. One step is one round of a loop.                   *)
(***************************************************************************)
EXTENDS Geometry, SequencesExt

CONSTANTS
    Lists,      \* lists as the sort leaves them
    Bases,      \* what the cuts are subtracted from
    Depths      \* the depths the properties are about

SortedList(s) == \A i, j \in 1..Len(s) : i < j => s[i] = s[j] \/ SortsBefore(s[i], s[j])

ASSUME ListsAssumption == \A s \in Lists : s \in Seq(Interval) /\ SortedList(s)
ASSUME BasesAssumption == Bases \subseteq Interval
ASSUME DepthsAssumption == Depths \subseteq Int

VARIABLES
    list,       \* the sorted input
    merged,     \* the merged list
    base,
    pieces,     \* Subtract's out
    cur,        \* how far Subtract has come
    next,       \* the index of the round to come
    loop        \* "merge", "subtract" or "done"

loopVars == <<list, merged, base, pieces, cur, next, loop>>

LoopInit ==
    /\ list \in Lists
    /\ base \in Bases
    /\ merged = << >>
    /\ pieces = << >>
    /\ cur = base.start
    /\ next = 1
    /\ loop = "merge"

Merging == loop = "merge" /\ next <= Len(list)

\* Slip: intervals that only touch are kept apart.
Overlaps == merged # << >> /\ list[next].start < Last(merged).end

Touches == merged # << >> /\ list[next].start <= Last(merged).end

\* Slip: the end of the later interval is taken for the later end.
TakeEnd ==
    /\ Merging
    /\ Touches
    /\ merged' = [merged EXCEPT ![Len(merged)] = [start |-> @.start, end |-> list[next].end]]
    /\ next' = next + 1
    /\ UNCHANGED <<list, base, pieces, cur, loop>>

\* The interval touches or overlaps the last result, which grows to hold both.
Join ==
    /\ Merging
    /\ Touches
    /\ merged' = IF list[next].end > Last(merged).end
                 THEN [merged EXCEPT ![Len(merged)] = [start |-> @.start, end |-> list[next].end]]
                 ELSE merged
    /\ next' = next + 1
    /\ UNCHANGED <<list, base, pieces, cur, loop>>

\* It opens a new result.
Open ==
    /\ Merging
    /\ ~Touches
    /\ merged' = Append(merged, list[next])
    /\ next' = next + 1
    /\ UNCHANGED <<list, base, pieces, cur, loop>>

ToSubtract ==
    /\ loop = "merge" /\ next > Len(list)
    /\ next' = 1
    /\ loop' = "subtract"
    /\ UNCHANGED <<list, merged, base, pieces, cur>>

Subtracting == loop = "subtract" /\ next <= Len(merged)

OutOfReach(c) == c.end <= cur \/ c.start >= base.end

Skip ==
    /\ Subtracting
    /\ OutOfReach(merged[next])
    /\ next' = next + 1
    /\ UNCHANGED <<list, merged, base, pieces, cur, loop>>

\* What lies before the cut is kept, the loop goes on behind it.
Carve ==
    LET c == merged[next]
    IN /\ Subtracting
       /\ ~OutOfReach(c)
       /\ pieces' = IF c.start > cur
                    THEN Append(pieces, [start |-> cur,
                                         end |-> IF c.start < base.end THEN c.start ELSE base.end])
                    ELSE pieces
       /\ cur' = IF c.end > cur THEN c.end ELSE cur
       /\ next' = next + 1
       /\ UNCHANGED <<list, merged, base, loop>>

\* Slip: an empty piece is kept when the last cut ends with the base.
KeepEmptyRest ==
    /\ loop = "subtract" /\ next > Len(merged)
    /\ pieces' = IF cur <= base.end THEN Append(pieces, [start |-> cur, end |-> base.end]) ELSE pieces
    /\ loop' = "done"
    /\ UNCHANGED <<list, merged, base, cur, next>>

\* What lies behind the last cut is kept.
KeepRest ==
    /\ loop = "subtract" /\ next > Len(merged)
    /\ pieces' = IF cur < base.end THEN Append(pieces, [start |-> cur, end |-> base.end]) ELSE pieces
    /\ loop' = "done"
    /\ UNCHANGED <<list, merged, base, cur, next>>

LoopNext == Join \/ Open \/ ToSubtract \/ Skip \/ Carve \/ KeepRest

LoopSpec == LoopInit /\ [][LoopNext]_loopVars

-----------------------------------------------------------------------------

Covers(s, n, d) == \E i \in 1..n : s[i].start <= d /\ d < s[i].end

CoversSame(s, n, t, m) == \A d \in Depths : Covers(s, n, d) <=> Covers(t, m, d)

Gaps(s) == \A i, j \in 1..Len(s) : i < j => s[i].end < s[j].start

\* In every round and for malformed intervals too, what is merged covers the
\* depths of the intervals taken so far and no other, with a gap between any
\* two of its intervals: normalising adds no protection and loses none.
MergeIsUnion ==
    /\ Gaps(merged)
    /\ loop = "merge" => CoversSame(merged, Len(merged), list, next - 1)
    /\ loop # "merge" => CoversSame(merged, Len(merged), list, Len(list))

Members(s) == {s[i] : i \in 1..Len(s)}

\* What the loop returns is what Geometry says without it, and what
\* SamplingWorkflow stores.
MergeIsNormalize == loop # "merge" => Members(merged) = Normalize(Members(list))

\* Subtract returns the depths of its base that no cut covers, and if the cuts
\* are well formed, in disjoint pieces of the base that are not empty.
SubtractIsDifference ==
    loop = "done" =>
        /\ \A d \in Depths :
              Covers(pieces, Len(pieces), d) <=>
                  base.start <= d /\ d < base.end /\ ~Covers(list, Len(list), d)
        /\ (\A i \in 1..Len(list) : Valid(list[i])) =>
              /\ Gaps(pieces)
              /\ \A i \in 1..Len(pieces) : pieces[i].start < pieces[i].end
=============================================================================
