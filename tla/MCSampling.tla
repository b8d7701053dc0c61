----------------------------- MODULE MCSampling -----------------------------
(***************************************************************************)
(* Small instances of the sampling workflow. The core is 20 mm deep and    *)
(* weighs 4 mg.                                                            *)
(***************************************************************************)
EXTENDS SamplingProperties, TLC

Ivl(a, b) == [start |-> a, end |-> b]

Symmetry == Permutations(Cases) \cup Permutations(Cores)

\* A core without a protected interval.
PlainCore ==
    {[depth |-> Ivl(0, 20), initial |-> 4, available |-> 4, reserve |-> 0, protected |-> {}]}

\* [8,12) is free of every request but within the tolerance of [4,8); a
\* reserve of 3 is more than two cuts leave.
ProtectOrReserve ==
    {[reserve |-> 0, protected |-> {Ivl(8, 10), Ivl(10, 12)}],
     [reserve |-> 3, protected |-> {}]}

ProtectAndReserve == {[reserve |-> 3, protected |-> {Ivl(8, 10), Ivl(10, 12)}]}

\* [4,8) and [6,10) overlap, [12,16) is apart from both.
Overlapping ==
    {[requested |-> {Ivl(4, 8)}, estimated |-> 1],
     [requested |-> {Ivl(6, 10)}, estimated |-> 1]}

TwoOfThreeOverlap == Overlapping \cup {[requested |-> {Ivl(12, 16)}, estimated |-> 2]}

\* A cut of [4,10) stays within 2 mm of [4,8).
AnyCut == [actual : {{Ivl(4, 10)}, {Ivl(12, 16)}}, before : 0..4, sample : {1, 2}, after : 0..4]

OneMgCut == [actual : {{Ivl(4, 10)}}, before : 0..4, sample : {1}, after : 0..4]

AnyMeasurement == [remaining : 1..4, complete : {TRUE}]

GoodOrIncomplete == [remaining : {3}, complete : BOOLEAN]

NoIssue == {}
OneIssue == {[code |-> "DOC", ref |-> None]}
TwoIssues == OneIssue \cup {[code |-> "SEGMENT_NOTE", ref |-> Ivl(6, 8)]}
=============================================================================
