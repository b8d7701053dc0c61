---------------------------- MODULE MCIntervals ----------------------------
(***************************************************************************)
(* Both interval modules on every small input. The loops and the view do   *)
(* not interact: a behaviour runs one or the other.                        *)
(***************************************************************************)
EXTENDS IntervalLoops, AvailabilityView, FiniteSetsExt

Top == 5

\* Every interval of 0..Top, the malformed ones included.
AnyInterval == [start : 0..Top, end : 0..Top]

\* Every sorted list of at most three.
SortedLists == {s \in BoundedSeq(AnyInterval, 3) : SortedList(s)}

WellFormed == {i \in AnyInterval : Valid(i)}

SomeBases == {[start |-> 0, end |-> 5], [start |-> 1, end |-> 4]}

SomeDepths == 0..Top

\* The core is [1,5); cuts may leave it by their tolerance.
ThisDepth == [start |-> 1, end |-> 5]

InCore == {i \in WellFormed : Inside(i, ThisDepth)}

\* Up to two protected intervals, as normalising leaves them.
AtMostTwo == {{}} \cup {{i, j} : i, j \in {i \in InCore : i.end < 4 \/ i.start > 2}}

NormalSets == {S \in AtMostTwo : Normalize(S) = S}

UpToTwoSegments == {S \in kSubset(1, WellFormed) \cup kSubset(2, WellFormed) : ValidSegments(S)}

Holding(case, core, status, segments) ==
    [case |-> case, core |-> core, status |-> status, segments |-> segments]

\* A case with one or two segments, and another one, here or on a second core.
TwoHoldings ==
    {{Holding("case1", "core", s, S), Holding("case2", k, "Draft", {i})} :
        s \in {"Submitted", "Frozen"}, S \in UpToTwoSegments, k \in {"core", "elsewhere"}, i \in InCore}

MCInit ==
    \/ /\ LoopInit
       /\ protected = {} /\ holders = {} /\ uniq = << >> /\ round = 1 /\ partitions = << >>
    \/ /\ ViewInit
       /\ list = << >> /\ merged = << >> /\ base = ThisDepth /\ pieces = << >>
       /\ cur = 0 /\ next = 0 /\ loop = "none"

MCNext ==
    \/ LoopNext /\ UNCHANGED viewVars
    \/ Round /\ UNCHANGED loopVars

MCSpec == MCInit /\ [][MCNext]_<<loopVars, viewVars>>
=============================================================================
