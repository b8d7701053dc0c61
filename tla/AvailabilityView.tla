-------------------------- MODULE AvailabilityView --------------------------
(***************************************************************************)
(* The loop of Availability: the depth range of a core is cut at every end *)
(* of a protected interval, an active request or a frozen cut, each part   *)
(* gets the list of what occupies it, and equal neighbours are joined. One *)
(* step is one round.                                                      *)
(***************************************************************************)
EXTENDS Geometry, SequencesExt

CONSTANTS
    Core,       \* the core that is asked about
    CoreDepth,
    Protected,  \* sets of intervals a core may protect
    Holdings    \* lists of cases: [case, core, status, segments], the segments
                \* being what an active case requests or a frozen one has cut

ASSUME CoreDepthAssumption == CoreDepth \in Interval /\ CoreDepth.start < CoreDepth.end
ASSUME ProtectedAssumption == \A S \in Protected : S \subseteq Interval
ASSUME HoldingsAssumption == \A H \in Holdings : \A h \in H : h.segments \subseteq Interval

VARIABLES
    protected,
    holders,
    uniq,       \* the ends that are inside the core, in order, each once
    round,
    partitions  \* [start, end, reasons]; "Occupied" if there is a reason

viewVars == <<protected, holders, uniq, round, partitions>>

Terminal == {"Frozen"}

Own == {h \in holders : h.core = Core}

Ends(S) == {i.start : i \in S} \cup {i.end : i \in S}

Points == Ends({CoreDepth}) \cup Ends(protected) \cup UNION {Ends(h.segments) : h \in Own}

\* The sort, and the loop that drops repeated points.
InOrder(S) == CHOOSE s \in [1..Cardinality(S) -> S] : \A i, j \in DOMAIN s : i < j => s[i] < s[j]

ViewInit ==
    /\ protected \in Protected
    /\ holders \in Holdings
    /\ uniq = InOrder({p \in Points : p >= CoreDepth.start /\ p <= CoreDepth.end})
    /\ round = 1
    /\ partitions = << >>

Touched(part, S) == \E i \in S : Overlap(part, i)

\* Slip: a case on another core counts.
AnyonesReasons(part) ==
    (IF Touched(part, protected) THEN {[type |-> "Protected"]} ELSE {})
    \cup {[type |-> IF h.status \in Terminal THEN "Frozen" ELSE "ActiveCase", case |-> h.case] :
            h \in {h \in holders : Touched(part, h.segments)}}

\* Each case is named once, however many of its segments are in the part. (At
\* most one protected interval is, since they are normalised.)
Reasons(part) ==
    (IF Touched(part, protected) THEN {[type |-> "Protected"]} ELSE {})
    \cup {[type |-> IF h.status \in Terminal THEN "Frozen" ELSE "ActiveCase", case |-> h.case] :
            h \in {h \in Own : Touched(part, h.segments)}}

\* Slip: only neighbours that are available are joined.
BothAvailable(reasons) == reasons = {} /\ Last(partitions).reasons = {}

SameReasons(reasons) == Last(partitions).reasons = reasons

Round ==
    LET part    == [start |-> uniq[round], end |-> uniq[round + 1]]
        reasons == Reasons(part)
        n       == Len(partitions)
    IN /\ round < Len(uniq)
       /\ partitions' =
            IF n > 0 /\ partitions[n].end = part.start /\ SameReasons(reasons)
            THEN [partitions EXCEPT ![n].end = part.end]
            ELSE Append(partitions, [start |-> part.start, end |-> part.end, reasons |-> reasons])
       /\ round' = round + 1
       /\ UNCHANGED <<protected, holders, uniq>>

ViewSpec == ViewInit /\ [][Round]_viewVars

-----------------------------------------------------------------------------

At(d, S) == \E i \in S : i.start <= d /\ d < i.end

\* In every round the partitions lie end to end from the top of the core, and
\* each names exactly what holds every single depth in it: no depth is offered
\* that a precheck would refuse, or withheld without a reason.
ViewExplainsDepths ==
    /\ \A i \in 1..Len(partitions) :
          /\ partitions[i].start = IF i = 1 THEN CoreDepth.start ELSE partitions[i - 1].end
          /\ \A d \in partitions[i].start..(partitions[i].end - 1) :
                partitions[i].reasons =
                    {r \in [type : {"Protected"}] : At(d, protected)}
                    \cup {[type |-> IF h.status \in Terminal THEN "Frozen" ELSE "ActiveCase",
                           case |-> h.case] : h \in {h \in Own : At(d, h.segments)}}
    /\ round = Len(uniq) =>
          partitions # << >> /\ Last(partitions).end = CoreDepth.end

\* A partition ends only where its reasons do, and none is empty: a stretch
\* that can be requested in one piece is shown in one piece.
ViewIsCoarsest ==
    \A i \in 1..Len(partitions) :
        /\ partitions[i].start < partitions[i].end
        /\ i > 1 => partitions[i].reasons # partitions[i - 1].reasons
=============================================================================
