--------------------------- MODULE IntervalProofs ---------------------------
(***************************************************************************)
(* Theorems about the interval loops, for lists of any length and any      *)
(* intervals, malformed ones included, and about the availability view     *)
(* built from intervals, for any protected intervals and holdings.         *)
(***************************************************************************)
EXTENDS IntervalLoops, AvailabilityView, FiniteSetTheorems, SequenceTheorems,
        WellFoundedInduction, TLAPS

-----------------------------------------------------------------------------
(***************************************************************************)
(* The merge loop                                                          *)
(*                                                                         *)
(* Its invariant needs the starts to ascend: the last result begins before *)
(* every interval still to come, so that touching it at the end is enough  *)
(* to be one interval with it.                                             *)
(***************************************************************************)

LoopType ==
    /\ list \in Seq(Interval) /\ SortedList(list)
    /\ merged \in Seq(Interval)
    /\ pieces \in Seq(Interval)
    /\ base \in Interval
    /\ cur \in Int
    /\ next \in Nat \ {0}
    /\ loop \in {"merge", "subtract", "done"}

Ascends(s) == \A i, j \in 1..Len(s) : i < j => s[i].start <= s[j].start

\* What is to come starts behind the results.
ComesLater == \A i \in 1..Len(merged), j \in next..Len(list) : merged[i].start <= list[j].start

MergeInv ==
    /\ Ascends(merged)
    /\ MergeIsUnion
    /\ loop = "merge" => next <= Len(list) + 1 /\ ComesLater
    /\ (\A i \in 1..Len(list) : Valid(list[i])) => \A i \in 1..Len(merged) : merged[i].start < merged[i].end

\* The result of extending the last of s to the end of x.
Extended(s, x) == [s EXCEPT ![Len(s)] = [start |-> s[Len(s)].start, end |-> x.end]]

LEMMA ExtendedType ==
    ASSUME NEW s \in Seq(Interval), s # << >>, NEW x \in Interval
    PROVE  /\ Extended(s, x) \in Seq(Interval)
           /\ Len(Extended(s, x)) = Len(s) /\ Len(s) \in 1..Len(s)
           /\ \A i \in 1..Len(s) :
                 /\ s[i] \in Interval
                 /\ Extended(s, x)[i].start = s[i].start
                 /\ Extended(s, x)[i].end = IF i = Len(s) THEN x.end ELSE s[i].end
<1>1. Len(s) \in 1..Len(s) /\ \A i \in 1..Len(s) : s[i] \in Interval
  OBVIOUS
<1> DEFINE y == [start |-> s[Len(s)].start, end |-> x.end]
<1>2. y \in Interval
  BY <1>1 DEF Interval
<1>3. Extended(s, x) = [s EXCEPT ![Len(s)] = y]
  BY DEF Extended
<1>4. y.start = s[Len(s)].start /\ y.end = x.end
  OBVIOUS
<1> HIDE DEF y
<1>5. Extended(s, x) \in Seq(Interval) /\ Len(Extended(s, x)) = Len(s)
  BY <1>1, <1>2, <1>3
<1>6. \A i \in 1..Len(s) : Extended(s, x)[i] = IF i = Len(s) THEN y ELSE s[i]
  BY <1>1, <1>3
<1>7. QED
  BY <1>1, <1>4, <1>5, <1>6

LEMMA AppendType ==
    ASSUME NEW s \in Seq(Interval), NEW x \in Interval
    PROVE  /\ Append(s, x) \in Seq(Interval) /\ Len(Append(s, x)) = Len(s) + 1
           /\ Len(s) \in Nat
           /\ \A i \in 1..Len(s) : Append(s, x)[i] = s[i] /\ s[i] \in Interval
           /\ Append(s, x)[Len(s) + 1] = x
  OBVIOUS

\* A list with one more interval covers what that interval covers as well.
LEMMA AppendCovers ==
    ASSUME NEW s \in Seq(Interval), NEW x \in Interval, NEW d \in Int
    PROVE  Covers(Append(s, x), Len(Append(s, x)), d) <=>
              Covers(s, Len(s), d) \/ (x.start <= d /\ d < x.end)
<1> DEFINE t == Append(s, x)
<1>1. /\ Len(t) = Len(s) + 1 /\ Len(s) \in Nat
      /\ \A i \in 1..Len(s) : t[i] = s[i]
      /\ t[Len(s) + 1] = x
  BY AppendType
<1> HIDE DEF t
<1>2. SUFFICES Covers(t, Len(t), d) <=> Covers(s, Len(s), d) \/ (x.start <= d /\ d < x.end)
  BY DEF t
<1>3. \A i \in 1..Len(t) : i \in 1..Len(s) \/ i = Len(s) + 1
  BY <1>1
<1>4. 1..Len(s) \subseteq 1..Len(t) /\ Len(s) + 1 \in 1..Len(t)
  BY <1>1
<1>5. QED
  BY <1>1, <1>3, <1>4 DEF Covers

\* So does a list whose last interval is extended to the end of one it touches.
LEMMA ExtendedCovers ==
    ASSUME NEW s \in Seq(Interval), s # << >>, NEW x \in Interval, NEW d \in Int,
           s[Len(s)].start <= x.start, x.start <= s[Len(s)].end
    PROVE  /\ x.end > s[Len(s)].end =>
                 (Covers(Extended(s, x), Len(s), d) <=>
                     Covers(s, Len(s), d) \/ (x.start <= d /\ d < x.end))
           /\ x.end <= s[Len(s)].end =>
                 (Covers(s, Len(s), d) <=>
                     Covers(s, Len(s), d) \/ (x.start <= d /\ d < x.end))
<1> DEFINE t == Extended(s, x)
           n == Len(s)
<1>1. /\ n \in 1..n /\ n \in Nat
      /\ \A i \in 1..n : /\ s[i] \in Interval /\ t[i].start = s[i].start
                         /\ t[i].end = IF i = n THEN x.end ELSE s[i].end
  BY ExtendedType
<1>2. s[n].start \in Int /\ s[n].end \in Int /\ x.start \in Int /\ x.end \in Int
  BY <1>1 DEF Interval
<1>3. s[n].start <= x.start /\ x.start <= s[n].end
  OBVIOUS
<1> HIDE DEF t, n
<1>4. \A i \in 1..n : i # n => (t[i].start <= d /\ d < t[i].end <=> s[i].start <= d /\ d < s[i].end)
  BY <1>1
<1>5. t[n].start = s[n].start /\ t[n].end = x.end
  BY <1>1
<1>6. ASSUME x.end > s[n].end
      PROVE  t[n].start <= d /\ d < t[n].end <=>
                (s[n].start <= d /\ d < s[n].end) \/ (x.start <= d /\ d < x.end)
  BY <1>2, <1>3, <1>5, <1>6
<1>7. ASSUME x.end > s[n].end
      PROVE  Covers(t, n, d) <=> Covers(s, n, d) \/ (x.start <= d /\ d < x.end)
  BY <1>1, <1>4, <1>6, <1>7 DEF Covers
<1>8. ASSUME x.end <= s[n].end, x.start <= d, d < x.end
      PROVE  Covers(s, n, d)
  <2>1. s[n].start <= d /\ d < s[n].end
    BY <1>2, <1>3, <1>8
  <2>2. QED
    BY <1>1, <2>1 DEF Covers
<1>9. QED
  BY <1>7, <1>8 DEF t, n

\* What the first n intervals cover, and the next one.
LEMMA NextCovers ==
    ASSUME NEW s \in Seq(Interval), NEW n \in 1..Len(s), NEW d \in Int
    PROVE  Covers(s, n, d) <=> Covers(s, n - 1, d) \/ (s[n].start <= d /\ d < s[n].end)
<1>1. \A i \in 1..n : i \in 1..(n - 1) \/ i = n
  OBVIOUS
<1>2. 1..(n - 1) \subseteq 1..n /\ n \in 1..n
  OBVIOUS
<1>3. QED
  BY <1>1, <1>2 DEF Covers

LEMMA IntervalEnds == \A x \in Interval : x.start \in Int /\ x.end \in Int
  BY DEF Interval

LEMMA SortedStarts ==
    ASSUME NEW s \in Seq(Interval), SortedList(s)
    PROVE  \A i, j \in 1..Len(s) : i < j => s[i].start <= s[j].start
<1>0. \A i \in 1..Len(s) : s[i] \in Interval
  OBVIOUS
<1>1. \A i \in 1..Len(s) : s[i].start \in Int /\ s[i].end \in Int
  BY <1>0, IntervalEnds
<1>2. QED
  BY <1>1 DEF SortedList, SortsBefore

LEMMA LoopTypeInit == LoopInit => LoopType
  BY ListsAssumption, BasesAssumption DEF LoopInit, LoopType, Interval

LEMMA LoopTypeStep ==
    ASSUME LoopType, [LoopNext]_loopVars
    PROVE  LoopType'
<1>1. CASE Join
  <2>1. merged # << >> /\ next \in 1..Len(list) /\ list[next] \in Interval
    BY <1>1 DEF Join, Merging, Touches, LoopType
  <2>2. merged' = Extended(merged, list[next]) \/ merged' = merged
    BY <1>1 DEF Join, Extended
  <2>3. merged' \in Seq(Interval)
    <3>1. merged \in Seq(Interval)
      BY DEF LoopType
    <3>2. QED
      BY <2>1, <2>2, <3>1, ExtendedType
  <2>4. QED
    BY <1>1, <2>3 DEF Join, Merging, LoopType
<1>2. CASE Open
  <2>1. list[next] \in Interval
    BY <1>2 DEF Open, Merging, LoopType
  <2>2. QED
    BY <1>2, <2>1 DEF Open, Merging, LoopType
<1>3. CASE ToSubtract
  BY <1>3 DEF ToSubtract, LoopType
<1>4. CASE Skip
  BY <1>4 DEF Skip, Subtracting, LoopType
<1>5. CASE Carve
  <2> DEFINE c == merged[next]
             p == [start |-> cur, end |-> IF c.start < base.end THEN c.start ELSE base.end]
  <2>1. c \in Interval /\ base \in Interval /\ cur \in Int
    BY <1>5 DEF Carve, Subtracting, LoopType
  <2>2. p \in Interval
    BY <2>1 DEF Interval
  <2>3. pieces' \in {pieces, Append(pieces, p)} /\ cur' \in {cur, c.end}
    BY <1>5 DEF Carve
  <2>4. pieces' \in Seq(Interval) /\ cur' \in Int
    <3>1. pieces \in Seq(Interval)
      BY DEF LoopType
    <3>2. c.end \in Int
      BY <2>1, IntervalEnds
    <3> HIDE DEF c, p
    <3>3. Append(pieces, p) \in Seq(Interval)
      BY <2>2, <3>1
    <3>4. QED
      BY <2>1, <2>3, <3>1, <3>2, <3>3
  <2>5. QED
    BY <1>5, <2>4 DEF Carve, Subtracting, LoopType
<1>6. CASE KeepRest
  <2> DEFINE p == [start |-> cur, end |-> base.end]
  <2>1. p \in Interval
    BY DEF LoopType, Interval
  <2>2. pieces' \in {pieces, Append(pieces, p)}
    BY <1>6 DEF KeepRest
  <2>3. pieces' \in Seq(Interval)
    BY <2>1, <2>2 DEF LoopType
  <2>4. QED
    BY <1>6, <2>3 DEF KeepRest, LoopType
<1>7. CASE UNCHANGED loopVars
  BY <1>7 DEF loopVars, LoopType
<1>8. QED
  BY <1>1, <1>2, <1>3, <1>4, <1>5, <1>6, <1>7 DEF LoopNext

LEMMA MergeInit == LoopInit => MergeInv
  BY ListsAssumption DEF LoopInit, MergeInv, Ascends, MergeIsUnion, Gaps, CoversSame, Covers, ComesLater

\* A round that joins an interval to the last result.
LEMMA MergeJoin ==
    ASSUME LoopType, MergeInv, Join
    PROVE  MergeInv'
<1> DEFINE x == list[next]
           n == Len(merged)
<1>1. /\ merged # << >> /\ x.start <= merged[n].end
      /\ next \in 1..Len(list) /\ next' = next + 1
      /\ loop = "merge" /\ UNCHANGED <<list, base, pieces, cur, loop>>
      /\ merged' = IF x.end > merged[n].end THEN Extended(merged, x) ELSE merged
  BY DEF Join, Merging, Touches, Last, LoopType, Extended
<1>2. x \in Interval /\ list \in Seq(Interval) /\ merged \in Seq(Interval)
  BY <1>1 DEF LoopType
<1>3. /\ n \in 1..n /\ Len(merged') = n /\ merged' \in Seq(Interval)
      /\ \A i \in 1..n : /\ merged[i] \in Interval /\ merged'[i].start = merged[i].start
                         /\ i # n => merged'[i].end = merged[i].end
      /\ merged'[n].end = IF x.end > merged[n].end THEN x.end ELSE merged[n].end
  BY <1>1, <1>2, ExtendedType
<1>4. merged[n].start <= x.start
  BY <1>1, <1>3 DEF MergeInv, ComesLater
<1>5. Ascends(merged')
  BY <1>3 DEF MergeInv, Ascends
<1>6. Gaps(merged')
  <2>1. Gaps(merged)
    BY DEF MergeInv, MergeIsUnion
  <2>2. SUFFICES ASSUME NEW i \in 1..n, NEW j \in 1..n, i < j
                 PROVE  merged'[i].end < merged'[j].start
    BY <1>3 DEF Gaps
  <2>3. i # n
    BY <1>3, <2>2
  <2>4. QED
    BY <1>3, <2>1, <2>2, <2>3 DEF Gaps
<1>7. CoversSame(merged', n, list, next)
  <2>1. SUFFICES ASSUME NEW d \in Depths
                 PROVE  Covers(merged', n, d) <=> Covers(list, next, d)
    BY DEF CoversSame
  <2>2. d \in Int
    BY DepthsAssumption
  <2>3. Covers(merged, n, d) <=> Covers(list, next - 1, d)
    BY <1>1 DEF MergeInv, MergeIsUnion, CoversSame
  <2>4. Covers(list, next, d) <=> Covers(list, next - 1, d) \/ (x.start <= d /\ d < x.end)
    BY <1>1, <1>2, <2>2, NextCovers
  <2>5. Covers(merged', n, d) <=> Covers(merged, n, d) \/ (x.start <= d /\ d < x.end)
    <3>1. x.end \in Int /\ merged[n].end \in Int
      BY <1>2, <1>3 DEF Interval
    <3>2. CASE x.end > merged[n].end
      BY <1>1, <1>2, <1>4, <2>2, <3>2, ExtendedCovers
    <3>3. CASE x.end <= merged[n].end
      BY <1>1, <1>2, <1>4, <2>2, <3>1, <3>3, ExtendedCovers
    <3>4. QED
      BY <3>1, <3>2, <3>3
  <2>6. QED
    BY <2>3, <2>4, <2>5
<1>8. ComesLater'
  <2>1. \A i \in 1..n, j \in next..Len(list) : merged[i].start <= list[j].start
    BY <1>1 DEF MergeInv, ComesLater
  <2>2. QED
    BY <1>1, <1>3, <2>1 DEF ComesLater, LoopType
<1>9. ASSUME \A i \in 1..Len(list) : Valid(list[i])
      PROVE  \A i \in 1..n : merged'[i].start < merged'[i].end
  <2>1. \A i \in 1..n : merged[i].start < merged[i].end
    BY <1>9 DEF MergeInv
  <2>2. merged[n].start \in Int /\ merged[n].end \in Int /\ x.end \in Int
    BY <1>2, <1>3, IntervalEnds
  <2>3. merged'[n].start < merged'[n].end
    BY <1>3, <2>1, <2>2
  <2>4. QED
    BY <1>3, <2>1, <2>3
<1>10. next' <= Len(list) + 1 /\ next' - 1 = next
  BY <1>1
<1>11. QED
  BY <1>1, <1>3, <1>5, <1>6, <1>7, <1>8, <1>9, <1>10 DEF MergeInv, MergeIsUnion

\* A round that opens a new result.
LEMMA MergeOpen ==
    ASSUME LoopType, MergeInv, Open
    PROVE  MergeInv'
<1> DEFINE x == list[next]
           n == Len(merged)
<1>1. /\ merged # << >> => ~(x.start <= merged[n].end)
      /\ next \in 1..Len(list) /\ next' = next + 1
      /\ loop = "merge" /\ UNCHANGED <<list, base, pieces, cur, loop>>
      /\ merged' = Append(merged, x)
  BY DEF Open, Merging, Touches, Last, LoopType
<1>2. x \in Interval /\ list \in Seq(Interval) /\ merged \in Seq(Interval)
  BY <1>1 DEF LoopType
<1>3. /\ n \in Nat /\ Len(merged') = n + 1 /\ merged' \in Seq(Interval)
      /\ \A i \in 1..n : merged'[i] = merged[i] /\ merged[i] \in Interval
      /\ merged'[n + 1] = x
  BY <1>1, <1>2, AppendType
<1>4. \A i \in 1..n : merged[i].start <= x.start
  BY <1>1 DEF MergeInv, ComesLater
<1>5. \A i \in 1..(n + 1) : i \in 1..n \/ i = n + 1
  BY <1>3
<1>6. \A i \in 1..n : merged[i].end < x.start
  <2>1. SUFFICES ASSUME NEW i \in 1..n PROVE merged[i].end < x.start
    OBVIOUS
  <2>2. n \in 1..n /\ merged # << >>
    BY <1>2, <1>3
  <2>0. /\ merged[n].start \in Int /\ merged[n].end \in Int /\ merged[i].end \in Int
        /\ x.start \in Int
    BY <1>2, <1>3, <2>2, IntervalEnds
  <2>3. merged[n].end < x.start
    BY <1>1, <2>2, <2>0
  <2>4. CASE i = n
    BY <2>3, <2>4
  <2>5. CASE i < n
    <3>1. merged[i].end < merged[n].start
      BY <2>2, <2>5 DEF MergeInv, MergeIsUnion, Gaps
    <3>2. merged[n].start <= x.start
      BY <1>4, <2>2
    <3>3. QED
      BY <2>0, <3>1, <3>2
  <2>6. QED
    BY <1>3, <2>4, <2>5
<1>7. Ascends(merged')
  BY <1>3, <1>4, <1>5 DEF MergeInv, Ascends
<1>8. Gaps(merged')
  BY <1>3, <1>5, <1>6 DEF MergeInv, MergeIsUnion, Gaps
<1>9. CoversSame(merged', n + 1, list, next)
  <2>1. SUFFICES ASSUME NEW d \in Depths
                 PROVE  Covers(merged', n + 1, d) <=> Covers(list, next, d)
    BY DEF CoversSame
  <2>2. d \in Int
    BY DepthsAssumption
  <2>3. Covers(merged, n, d) <=> Covers(list, next - 1, d)
    BY <1>1 DEF MergeInv, MergeIsUnion, CoversSame
  <2>4. Covers(list, next, d) <=> Covers(list, next - 1, d) \/ (x.start <= d /\ d < x.end)
    BY <1>1, <1>2, <2>2, NextCovers
  <2>5. Covers(merged', n + 1, d) <=> Covers(merged, n, d) \/ (x.start <= d /\ d < x.end)
    BY <1>1, <1>2, <1>3, <2>2, AppendCovers
  <2>6. QED
    BY <2>3, <2>4, <2>5
<1>10. ComesLater'
  <2>1. \A i \in 1..n, j \in next..Len(list) : merged[i].start <= list[j].start
    BY <1>1 DEF MergeInv, ComesLater
  <2>2. \A j \in (next + 1)..Len(list) : x.start <= list[j].start
    BY <1>1, <1>2, SortedStarts DEF LoopType
  <2>3. QED
    BY <1>1, <1>3, <1>5, <2>1, <2>2 DEF ComesLater
<1>11. ASSUME \A i \in 1..Len(list) : Valid(list[i])
       PROVE  \A i \in 1..(n + 1) : merged'[i].start < merged'[i].end
  <2>1. \A i \in 1..n : merged[i].start < merged[i].end
    BY <1>11 DEF MergeInv
  <2>2. x.start < x.end
    BY <1>1, <1>2, <1>11 DEF Valid, Interval
  <2>3. QED
    BY <1>3, <1>5, <2>1, <2>2
<1>12. next' <= Len(list) + 1 /\ next' - 1 = next
  BY <1>1
<1>13. QED
  BY <1>1, <1>3, <1>7, <1>8, <1>9, <1>10, <1>11, <1>12 DEF MergeInv, MergeIsUnion

LEMMA MergeStep ==
    ASSUME LoopType, MergeInv, [LoopNext]_loopVars
    PROVE  MergeInv'
<1>1. CASE Join
  BY <1>1, MergeJoin
<1>2. CASE Open
  BY <1>2, MergeOpen
<1>3. CASE ToSubtract
  <2>1. next - 1 = Len(list)
    BY <1>3 DEF ToSubtract, MergeInv, LoopType
  <2>2. CoversSame(merged, Len(merged), list, Len(list))
    BY <1>3, <2>1 DEF ToSubtract, MergeInv, MergeIsUnion
  <2>3. QED
    BY <1>3, <2>2 DEF ToSubtract, MergeInv, MergeIsUnion
<1>4. CASE Skip \/ Carve \/ KeepRest \/ UNCHANGED loopVars
  <2>1. UNCHANGED <<list, merged>> /\ (loop' = "merge" => loop = "merge" /\ next' = next)
        /\ (loop' # "merge" => loop # "merge")
    BY <1>4 DEF Skip, Carve, KeepRest, Subtracting, loopVars
  <2>2. QED
    BY <2>1 DEF MergeInv, MergeIsUnion, ComesLater
<1>5. QED
  BY <1>1, <1>2, <1>3, <1>4 DEF LoopNext

\* For every list, however long and malformed: the merge loop of
\* NormalizeIntervals and MergeSegments keeps exactly the depths it was given,
\* in intervals that neither touch nor overlap.
THEOREM MergeIsCorrect == LoopSpec => []MergeIsUnion
<1>1. LoopInit => LoopType /\ MergeInv
  BY LoopTypeInit, MergeInit
<1>2. LoopType /\ MergeInv /\ [LoopNext]_loopVars => LoopType' /\ MergeInv'
  BY LoopTypeStep, MergeStep
<1>3. MergeInv => MergeIsUnion
  BY DEF MergeInv
<1>4. QED
  BY <1>1, <1>2, <1>3, PTL DEF LoopSpec

-----------------------------------------------------------------------------
(***************************************************************************)
(* Subtract                                                                *)
(*                                                                         *)
(* Behind cur nothing of the base is covered by a cut already passed;      *)
(* before it the pieces are exactly what no cut covers. That a piece is    *)
(* not covered by a cut still to come needs the starts to ascend.          *)
(***************************************************************************)

Within(d, x) == x.start <= d /\ d < x.end

Uncut(d) == Within(d, base) /\ ~Covers(merged, Len(merged), d)

Passed == IF loop = "subtract" THEN next - 1 ELSE Len(merged)

SubtractInv ==
    /\ loop = "merge" => pieces = << >> /\ cur = base.start
    /\ loop = "subtract" => next <= Len(merged) + 1
    /\ base.start <= cur
    /\ \A d \in Depths : Covers(pieces, Len(pieces), d) => Uncut(d)
    /\ loop # "merge" =>
          /\ \A d \in Depths : Uncut(d) /\ d < cur => Covers(pieces, Len(pieces), d)
          /\ \A j \in 1..Passed : \A d \in Int : Within(d, merged[j]) /\ d < base.end => d < cur
    /\ loop = "done" => \A d \in Depths : Uncut(d) => Covers(pieces, Len(pieces), d)
    /\ (\A i \in 1..Len(list) : Valid(list[i])) =>
          /\ Gaps(pieces)
          /\ \A i \in 1..Len(pieces) : pieces[i].start < pieces[i].end
          /\ loop # "done" => \A i \in 1..Len(pieces) : pieces[i].end < cur

LEMMA SubtractInit == LoopInit => SubtractInv
<1> SUFFICES ASSUME LoopInit PROVE SubtractInv
  OBVIOUS
<1>1. base \in Interval
  BY BasesAssumption DEF LoopInit
<1>2. pieces = << >> /\ Len(pieces) = 0 /\ cur = base.start /\ loop = "merge"
  BY DEF LoopInit
<1>3. base.start <= cur
  BY <1>1, <1>2, IntervalEnds
<1>4. QED
  BY <1>2, <1>3 DEF SubtractInv, Covers, Gaps

\* A round that keeps the piece p before the cut c, if there is one.
LEMMA SubtractCarve ==
    ASSUME LoopType, MergeInv, SubtractInv, Carve
    PROVE  SubtractInv'
<1> DEFINE c == merged[next]
           p == [start |-> cur, end |-> IF c.start < base.end THEN c.start ELSE base.end]
<1>1. /\ loop = "subtract" /\ next \in 1..Len(merged) /\ next' = next + 1
      /\ ~OutOfReach(c)
      /\ pieces' = (IF c.start > cur THEN Append(pieces, p) ELSE pieces)
      /\ cur' = (IF c.end > cur THEN c.end ELSE cur)
      /\ UNCHANGED <<list, merged, base, loop>>
  BY DEF Carve, Subtracting, LoopType
<1>2. c \in Interval /\ base \in Interval /\ cur \in Int /\ pieces \in Seq(Interval)
  <2>1. merged \in Seq(Interval)
    BY DEF LoopType
  <2>2. c \in Interval
    BY <1>1, <2>1
  <2>3. QED
    BY <2>2 DEF LoopType
<1>3. /\ c.start \in Int /\ c.end \in Int /\ base.start \in Int /\ base.end \in Int
  BY <1>2, IntervalEnds
<1>4. c.end > cur /\ c.start < base.end /\ cur' = c.end /\ base.start <= cur
  BY <1>1, <1>2, <1>3 DEF OutOfReach, SubtractInv
<1>5. p.start = cur /\ p.end = c.start /\ p \in Interval
  <2>1. p = [start |-> cur, end |-> c.start]
    BY <1>4
  <2>2. QED
    BY <1>2, <1>3, <2>1 DEF Interval
<1> HIDE DEF p
<1>6. ASSUME NEW d \in Int, cur <= d, d < c.start, NEW j \in 1..Len(merged), Within(d, merged[j])
      PROVE  FALSE
  <2>1. merged[j].start \in Int /\ merged[j].end \in Int
    <3>1. merged \in Seq(Interval)
      BY DEF LoopType
    <3>2. merged[j] \in Interval
      BY <3>1
    <3>3. QED
      BY <3>2, IntervalEnds
  <2>2. CASE j < next
    <3>1. j \in 1..Passed
      BY <1>1, <2>2 DEF Passed
    <3>2. d < base.end
      BY <1>3, <1>4, <1>6
    <3>3. d < cur
      BY <1>1, <1>6, <3>1, <3>2 DEF SubtractInv
    <3>4. QED
      BY <1>2, <1>6, <3>3
  <2>3. CASE j >= next
    <3>1. c.start <= merged[j].start
      BY <1>1, <1>3, <2>3 DEF MergeInv, Ascends
    <3>2. QED
      BY <1>3, <1>6, <2>1, <3>1 DEF Within
  <2>4. QED
    BY <1>1, <2>2, <2>3
<1>7. ASSUME NEW d \in Int, cur <= d, d < c.start
      PROVE  Uncut(d)
  <2>1. ~Covers(merged, Len(merged), d)
    BY <1>6, <1>7 DEF Covers, Within
  <2>2. Within(d, base)
    BY <1>2, <1>3, <1>4, <1>7 DEF Within
  <2>3. QED
    BY <2>1, <2>2 DEF Uncut
<1>8. ASSUME NEW d \in Int
      PROVE  Covers(pieces', Len(pieces'), d) <=>
                Covers(pieces, Len(pieces), d) \/ (cur <= d /\ d < c.start)
  <2>1. CASE c.start > cur
    <3>1. pieces' = Append(pieces, p)
      BY <1>1, <2>1
    <3>2. QED
      BY <1>2, <1>5, <3>1, AppendCovers
  <2>2. CASE ~(c.start > cur)
    BY <1>1, <1>2, <1>3, <2>2
  <2>3. QED
    BY <2>1, <2>2
<1>9. \A d \in Int : Uncut(d)' <=> Uncut(d)
  BY <1>1 DEF Uncut
<1>10. \A d \in Depths : Covers(pieces', Len(pieces'), d) => Uncut(d)'
  BY <1>7, <1>8, <1>9, DepthsAssumption DEF SubtractInv
<1>11. \A d \in Depths : Uncut(d)' /\ d < cur' => Covers(pieces', Len(pieces'), d)
  <2>1. SUFFICES ASSUME NEW d \in Depths, Uncut(d), d < c.end
                 PROVE  Covers(pieces', Len(pieces'), d)
    BY <1>4, <1>9, DepthsAssumption
  <2>2. d \in Int
    BY DepthsAssumption
  <2>3. CASE d < cur
    BY <1>1, <1>8, <2>1, <2>2, <2>3 DEF SubtractInv
  <2>4. CASE d >= cur
    <3>1. ~(c.start <= d /\ d < c.end)
      BY <1>1, <2>1 DEF Uncut, Covers
    <3>2. d < c.start
      BY <1>3, <2>1, <2>2, <3>1
    <3>3. QED
      BY <1>2, <1>8, <2>2, <2>4, <3>2
  <2>5. QED
    BY <1>2, <2>2, <2>3, <2>4
<1>12. \A j \in 1..Passed' : \A d \in Int : Within(d, merged'[j]) /\ d < base'.end => d < cur'
  <2>1. Passed = next - 1 /\ Passed' = next
    BY <1>1 DEF Passed
  <2>2. SUFFICES ASSUME NEW j \in 1..next, NEW d \in Int, Within(d, merged[j]), d < base.end
                 PROVE  d < c.end
    BY <1>1, <1>4, <2>1
  <2>3. CASE j = next
    BY <2>2, <2>3 DEF Within
  <2>4. CASE j # next
    <3>1. j \in 1..Passed
      BY <1>1, <2>1, <2>4
    <3>2. d < cur
      BY <1>1, <2>2, <3>1 DEF SubtractInv
    <3>3. QED
      BY <1>2, <1>3, <1>4, <3>2
  <2>5. QED
    BY <2>3, <2>4
<1>13. ASSUME \A i \in 1..Len(list) : Valid(list[i])
       PROVE  /\ Gaps(pieces')
              /\ \A i \in 1..Len(pieces') : pieces'[i].start < pieces'[i].end
              /\ \A i \in 1..Len(pieces') : pieces'[i].end < cur'
  <2>1. c.start < c.end
    BY <1>1, <1>13 DEF MergeInv
  <2>2. /\ Gaps(pieces)
        /\ \A i \in 1..Len(pieces) : pieces[i].start < pieces[i].end /\ pieces[i].end < cur
    BY <1>1, <1>13 DEF SubtractInv
  <2>3. \A i \in 1..Len(pieces) : pieces[i] \in Interval /\ pieces[i].end \in Int
    BY <1>2, IntervalEnds
  <2>4. CASE c.start > cur
    <3>1. /\ Len(pieces') = Len(pieces) + 1 /\ Len(pieces) \in Nat
          /\ \A i \in 1..Len(pieces) : pieces'[i] = pieces[i]
          /\ pieces'[Len(pieces) + 1] = p
      BY <1>1, <1>2, <1>5, <2>4, AppendType
    <3>2. \A i \in 1..Len(pieces') : i \in 1..Len(pieces) \/ i = Len(pieces) + 1
      BY <3>1
    <3>3. Gaps(pieces')
      BY <1>5, <2>2, <3>1, <3>2 DEF Gaps
    <3>4. \A i \in 1..Len(pieces') : pieces'[i].start < pieces'[i].end
      BY <1>5, <2>2, <2>4, <1>2, <1>3, <3>1, <3>2
    <3>5. \A i \in 1..Len(pieces') : pieces'[i].end < cur'
      <4>1. \A i \in 1..Len(pieces) : pieces[i].end < c.end
        BY <1>2, <1>3, <1>4, <2>2, <2>3
      <4>2. QED
        BY <1>4, <1>5, <2>1, <3>1, <3>2, <4>1
    <3>6. QED
      BY <3>3, <3>4, <3>5
  <2>5. CASE ~(c.start > cur)
    <3>1. pieces' = pieces
      BY <1>1, <2>5
    <3>2. \A i \in 1..Len(pieces) : pieces[i].end < c.end
      BY <1>2, <1>3, <1>4, <2>2, <2>3
    <3>3. QED
      BY <1>4, <2>2, <3>1, <3>2
  <2>6. QED
    BY <2>4, <2>5
<1>14. base'.start <= cur'
  BY <1>1, <1>2, <1>3, <1>4
<1>15. next' <= Len(merged') + 1 /\ loop' = "subtract"
  BY <1>1
<1> HIDE DEF c
<1>16. (\A i \in 1..Len(list') : Valid(list'[i])) => \A i \in 1..Len(list) : Valid(list[i])
  BY <1>1
<1>17. QED
  BY <1>10, <1>11, <1>12, <1>13, <1>14, <1>15, <1>16 DEF SubtractInv

\* The last round keeps what lies behind cur.
LEMMA SubtractRest ==
    ASSUME LoopType, MergeInv, SubtractInv, KeepRest
    PROVE  SubtractInv'
<1> DEFINE p == [start |-> cur, end |-> base.end]
<1>1. /\ loop = "subtract" /\ next > Len(merged) /\ loop' = "done"
      /\ pieces' = (IF cur < base.end THEN Append(pieces, p) ELSE pieces)
      /\ UNCHANGED <<list, merged, base, cur, next>>
  BY DEF KeepRest
<1>2. /\ cur \in Int /\ base \in Interval /\ pieces \in Seq(Interval)
      /\ base.start \in Int /\ base.end \in Int
  BY IntervalEnds DEF LoopType
<1>3. p \in Interval /\ p.start = cur /\ p.end = base.end
  BY <1>2 DEF Interval
<1> HIDE DEF p
<1>4. base.start <= cur
  BY DEF SubtractInv
<1>5. Passed = Len(merged) /\ Passed' = Len(merged)
  <2>1. Len(merged) \in Nat /\ next \in Nat /\ next <= Len(merged) + 1
    BY <1>1 DEF LoopType, SubtractInv
  <2>2. QED
    BY <1>1, <2>1 DEF Passed
<1>6. ASSUME NEW d \in Int
      PROVE  Covers(pieces', Len(pieces'), d) <=>
                Covers(pieces, Len(pieces), d) \/ (cur <= d /\ d < base.end)
  <2>1. CASE cur < base.end
    <3>1. pieces' = Append(pieces, p)
      BY <1>1, <2>1
    <3>2. QED
      BY <1>2, <1>3, <3>1, AppendCovers
  <2>2. CASE ~(cur < base.end)
    BY <1>1, <1>2, <2>2
  <2>3. QED
    BY <2>1, <2>2
<1>7. ASSUME NEW d \in Int, cur <= d, d < base.end
      PROVE  Uncut(d)
  <2>1. Within(d, base)
    BY <1>2, <1>4, <1>7 DEF Within
  <2>2. ~Covers(merged, Len(merged), d)
    <3>1. \A j \in 1..Len(merged) : Within(d, merged[j]) => d < cur
      BY <1>1, <1>5, <1>7 DEF SubtractInv
    <3>2. QED
      BY <1>2, <1>7, <3>1 DEF Covers, Within
  <2>3. QED
    BY <2>1, <2>2 DEF Uncut
<1>8. \A d \in Int : Uncut(d)' <=> Uncut(d)
  BY <1>1 DEF Uncut
<1>9. \A d \in Depths : Covers(pieces', Len(pieces'), d) => Uncut(d)'
  BY <1>6, <1>7, <1>8, DepthsAssumption DEF SubtractInv
<1>10. \A d \in Depths : Uncut(d)' => Covers(pieces', Len(pieces'), d)
  <2>1. SUFFICES ASSUME NEW d \in Depths, Uncut(d)
                 PROVE  Covers(pieces', Len(pieces'), d)
    BY <1>8, DepthsAssumption
  <2>2. d \in Int
    BY DepthsAssumption
  <2>3. CASE d < cur
    BY <1>1, <1>6, <2>1, <2>2, <2>3 DEF SubtractInv
  <2>4. CASE d >= cur
    BY <1>2, <1>6, <2>1, <2>2, <2>4 DEF Uncut, Within
  <2>5. QED
    BY <1>2, <2>2, <2>3, <2>4
<1>11. \A j \in 1..Passed' : \A d \in Int : Within(d, merged'[j]) /\ d < base'.end => d < cur'
  BY <1>1, <1>5 DEF SubtractInv
<1>12. ASSUME \A i \in 1..Len(list) : Valid(list[i])
       PROVE  /\ Gaps(pieces')
              /\ \A i \in 1..Len(pieces') : pieces'[i].start < pieces'[i].end
  <2>1. /\ Gaps(pieces)
        /\ \A i \in 1..Len(pieces) : pieces[i].start < pieces[i].end /\ pieces[i].end < cur
    BY <1>1, <1>12 DEF SubtractInv
  <2>2. CASE cur < base.end
    <3>1. /\ Len(pieces') = Len(pieces) + 1 /\ Len(pieces) \in Nat
          /\ \A i \in 1..Len(pieces) : pieces'[i] = pieces[i]
          /\ pieces'[Len(pieces) + 1] = p
      BY <1>1, <1>2, <1>3, <2>2, AppendType
    <3>2. \A i \in 1..Len(pieces') : i \in 1..Len(pieces) \/ i = Len(pieces) + 1
      BY <3>1
    <3>3. QED
      BY <1>3, <2>1, <2>2, <3>1, <3>2 DEF Gaps
  <2>3. CASE ~(cur < base.end)
    BY <1>1, <2>1, <2>3
  <2>4. QED
    BY <2>2, <2>3
<1>13. (\A i \in 1..Len(list') : Valid(list'[i])) => \A i \in 1..Len(list) : Valid(list[i])
  BY <1>1
<1>14. QED
  BY <1>1, <1>4, <1>9, <1>10, <1>11, <1>12, <1>13 DEF SubtractInv

LEMMA SubtractStep ==
    ASSUME LoopType, MergeInv, SubtractInv, [LoopNext]_loopVars
    PROVE  SubtractInv'
<1>1. CASE Join \/ Open
  <2>1. UNCHANGED <<list, base, pieces, cur, loop>> /\ loop = "merge"
        /\ pieces = << >> /\ Len(pieces) = 0
    BY <1>1 DEF Join, Open, Merging, SubtractInv
  <2>2. QED
    BY <2>1 DEF SubtractInv, Covers
<1>2. CASE ToSubtract
  <2>1. /\ UNCHANGED <<list, merged, base, pieces, cur>> /\ loop' = "subtract" /\ next' = 1
        /\ pieces = << >> /\ Len(pieces) = 0 /\ cur = base.start
    BY <1>2 DEF ToSubtract, SubtractInv
  <2>2. base.start \in Int /\ Len(merged) \in Nat
    BY IntervalEnds DEF LoopType
  <2>3. \A d \in Depths : ~(Uncut(d) /\ d < cur)
    BY <2>1, <2>2, DepthsAssumption DEF Uncut, Within
  <2>4. Passed' = 0 /\ next' <= Len(merged') + 1
    BY <2>1, <2>2 DEF Passed
  <2>5. \A d \in Int : Uncut(d)' <=> Uncut(d)
    BY <2>1 DEF Uncut
  <2>6. QED
    BY <2>1, <2>3, <2>4, <2>5, DepthsAssumption DEF SubtractInv, Covers, Gaps
<1>3. CASE Skip
  <2> DEFINE c == merged[next]
  <2>1. /\ UNCHANGED <<list, merged, base, pieces, cur, loop>> /\ loop = "subtract"
        /\ next \in 1..Len(merged) /\ next' = next + 1 /\ OutOfReach(c)
    BY <1>3 DEF Skip, Subtracting, LoopType
  <2>2. c.start \in Int /\ c.end \in Int /\ base.end \in Int /\ cur \in Int
    <3>1. merged \in Seq(Interval)
      BY DEF LoopType
    <3>2. c \in Interval
      BY <2>1, <3>1
    <3>3. QED
      BY <3>2, IntervalEnds DEF LoopType
  <2>3. Passed = next - 1 /\ Passed' = next
    BY <2>1 DEF Passed
  <2>4. ASSUME NEW j \in 1..next, NEW d \in Int, Within(d, merged[j]), d < base.end
        PROVE  d < cur
    <3>1. CASE j = next
      BY <2>1, <2>2, <2>4, <3>1 DEF OutOfReach, Within
    <3>2. CASE j # next
      <4>1. j \in 1..Passed
        BY <2>1, <2>3, <3>2
      <4>2. QED
        BY <2>1, <2>4, <4>1 DEF SubtractInv
    <3>3. QED
      BY <3>1, <3>2
  <2>5. \A j \in 1..Passed' : \A d \in Int : Within(d, merged'[j]) /\ d < base'.end => d < cur'
    BY <2>1, <2>3, <2>4
  <2>6. \A d \in Int : Uncut(d)' <=> Uncut(d)
    BY <2>1 DEF Uncut
  <2>7. next' <= Len(merged') + 1
    BY <2>1
  <2>8. QED
    BY <2>1, <2>5, <2>6, <2>7, DepthsAssumption DEF SubtractInv
<1>4. CASE Carve
  BY <1>4, SubtractCarve
<1>5. CASE KeepRest
  BY <1>5, SubtractRest
<1>6. CASE UNCHANGED loopVars
  BY <1>6 DEF loopVars, SubtractInv, Uncut, Passed
<1>7. QED
  BY <1>1, <1>2, <1>3, <1>4, <1>5, <1>6 DEF LoopNext

LEMMA SubtractDone ==
    ASSUME MergeInv, SubtractInv
    PROVE  SubtractIsDifference
<1>1. SUFFICES ASSUME loop = "done" PROVE SubtractIsDifference
  BY DEF SubtractIsDifference
<1>2. \A d \in Depths : Covers(merged, Len(merged), d) <=> Covers(list, Len(list), d)
  BY <1>1 DEF MergeInv, MergeIsUnion, CoversSame
<1>3. \A d \in Depths : Covers(pieces, Len(pieces), d) <=> Uncut(d)
  BY <1>1 DEF SubtractInv
<1>4. QED
  BY <1>1, <1>2, <1>3 DEF SubtractInv, SubtractIsDifference, Uncut, Within

\* For every base and every list of cuts, Subtract returns the depths of the
\* base that no cut covers; if the cuts are well formed, in ascending pieces
\* that are not empty.
THEOREM SubtractIsCorrect == LoopSpec => []SubtractIsDifference
<1>1. LoopInit => LoopType /\ MergeInv /\ SubtractInv
  BY LoopTypeInit, MergeInit, SubtractInit
<1>2. LoopType /\ MergeInv /\ SubtractInv /\ [LoopNext]_loopVars
        => LoopType' /\ MergeInv' /\ SubtractInv'
  BY LoopTypeStep, MergeStep, SubtractStep
<1>3. MergeInv /\ SubtractInv => SubtractIsDifference
  BY SubtractDone
<1>4. QED
  BY <1>1, <1>2, <1>3, PTL DEF LoopSpec

-----------------------------------------------------------------------------
(***************************************************************************)
(* Normalize                                                               *)
(*                                                                         *)
(* Each result belongs to a head of the intervals taken so far, and ends   *)
(* where the last of the intervals it absorbed does; the last result       *)
(* belongs to the last head. A further interval either becomes a head, and *)
(* absorbs nothing, or is absorbed by the last head.                       *)
(***************************************************************************)

\* m is what the loop makes of head h and the intervals of S it absorbs.
MergedBy(m, h, S) ==
    /\ m.start = h.start
    /\ \E i \in Absorbed(h, S) : i.end = m.end
    /\ \A i \in Absorbed(h, S) : i.end <= m.end

LastHead(h, S) == h \in Heads(S) /\ \A g \in Heads(S) : g = h \/ SortsBefore(g, h)

Taken == {list[i] : i \in 1..(IF loop = "merge" THEN next - 1 ELSE Len(list))}

GroupInv ==
    /\ \A i \in 1..Len(merged) : \E h \in Heads(Taken) : MergedBy(merged[i], h, Taken)
    /\ \A h \in Heads(Taken) : \E i \in 1..Len(merged) : MergedBy(merged[i], h, Taken)
    /\ merged # << >> => \E h : LastHead(h, Taken) /\ MergedBy(merged[Len(merged)], h, Taken)
    /\ \A i \in Taken : \E j \in 1..Len(merged) : i.end <= merged[j].end

LEMMA SortOrder ==
    ASSUME NEW i \in Interval, NEW j \in Interval, NEW k \in Interval
    PROVE  /\ ~SortsBefore(i, i)
           /\ SortsBefore(i, j) => ~SortsBefore(j, i) /\ i # j /\ i.start <= j.start
           /\ i = j \/ SortsBefore(i, j) \/ SortsBefore(j, i)
           /\ SortsBefore(i, j) /\ SortsBefore(j, k) => SortsBefore(i, k)
<1>1. /\ i.start \in Int /\ i.end \in Int /\ j.start \in Int /\ j.end \in Int
      /\ k.start \in Int /\ k.end \in Int
  BY IntervalEnds
<1>2. i.start = j.start /\ i.end = j.end => i = j
  BY DEF Interval
<1> QED
  BY <1>1, <1>2 DEF SortsBefore

LEMMA HeadParts ==
    ASSUME NEW S \in SUBSET Interval, NEW h \in Heads(S)
    PROVE  /\ h \in S /\ h \in Interval
           /\ Absorbed(h, S) \subseteq S
           /\ h \in Absorbed(h, S)
<1>1. h \in S /\ h \in Interval
  BY DEF Heads
<1> QED
  BY <1>1 DEF Absorbed

\* A head and what it absorbs leave no choice.
LEMMA MergedOnce ==
    ASSUME NEW S \in SUBSET Interval, NEW h \in Heads(S), NEW m \in Interval, NEW o \in Interval,
           MergedBy(m, h, S), MergedBy(o, h, S)
    PROVE  m = o
<1>1. m.start \in Int /\ m.end \in Int /\ o.start \in Int /\ o.end \in Int
  BY IntervalEnds
<1>2. m.start = o.start /\ m.end <= o.end /\ o.end <= m.end
  BY DEF MergedBy
<1> QED
  BY <1>1, <1>2 DEF Interval

\* What sorts last, starts behind every end and is new to the results.
LEMMA NewHead ==
    ASSUME NEW S \in SUBSET Interval, NEW x \in Interval,
           \A i \in S : i = x \/ SortsBefore(i, x),
           \A i \in S : i # x => i.end < x.start
    PROVE  /\ Heads(S \cup {x}) = Heads(S) \cup {x}
           /\ Absorbed(x, S \cup {x}) = {x}
           /\ \A h \in Heads(S) : h # x => Absorbed(h, S \cup {x}) = Absorbed(h, S)
           /\ LastHead(x, S \cup {x})
<1> DEFINE T == S \cup {x}
<1>1. T \subseteq Interval /\ \A i \in T : ~SortsBefore(x, i)
  BY SortOrder
<1>2. x \in Heads(T)
  <2>1. \A i \in T : SortsBefore(i, x) => i.end < x.start
    BY SortOrder
  <2> QED
    BY <2>1 DEF Heads
<1>3. Heads(T) = Heads(S) \cup {x}
  <2>1. \A h \in S : h \in Heads(T) <=> h \in Heads(S)
    BY <1>1 DEF Heads
  <2> QED
    BY <1>2, <2>1 DEF Heads
<1>4. Absorbed(x, T) = {x}
  <2>1. \A g \in Heads(T) : ~SortsBefore(x, g)
    BY <1>1 DEF Heads
  <2> QED
    BY <1>1, <2>1 DEF Absorbed
<1>5. ASSUME NEW h \in Heads(S), h # x PROVE Absorbed(h, T) = Absorbed(h, S)
  <2>1. SortsBefore(h, x)
    BY <1>5, HeadParts
  <2>2. x \notin Absorbed(h, T)
    BY <1>1, <1>2, <2>1 DEF Absorbed
  <2>3. ASSUME NEW i \in S, i # x PROVE i \in Absorbed(h, T) <=> i \in Absorbed(h, S)
    <3>1. SortsBefore(i, x)
      BY <2>3
    <3> QED
      BY <1>3, <3>1 DEF Absorbed
  <2>4. x \notin Absorbed(h, S)
    <3>1. x \in S => T = S
      OBVIOUS
    <3> QED
      BY <2>2, <3>1 DEF Absorbed
  <2> QED
    BY <2>2, <2>3, <2>4 DEF Absorbed
<1>6. LastHead(x, T)
  BY <1>2, HeadParts, <1>1 DEF LastHead, Heads
<1> QED
  BY <1>3, <1>4, <1>5, <1>6

\* What sorts last and starts no later than some end is the last head's.
LEMMA NewMember ==
    ASSUME NEW S \in SUBSET Interval, NEW x \in Interval, x \notin S,
           \A i \in S : SortsBefore(i, x),
           NEW e \in S, x.start <= e.end,
           NEW l, LastHead(l, S)
    PROVE  /\ Heads(S \cup {x}) = Heads(S)
           /\ Absorbed(l, S \cup {x}) = Absorbed(l, S) \cup {x}
           /\ \A h \in Heads(S) : h # l => Absorbed(h, S \cup {x}) = Absorbed(h, S)
           /\ LastHead(l, S \cup {x})
<1> DEFINE T == S \cup {x}
<1>0. l \in Heads(S) /\ l \in Interval /\ l \in S
  BY HeadParts DEF LastHead
<1>1. T \subseteq Interval /\ \A i \in T : ~SortsBefore(x, i)
  BY SortOrder
<1>2. x \notin Heads(T)
  <2>1. SortsBefore(e, x) /\ ~(e.end < x.start)
    BY IntervalEnds
  <2> QED
    BY <2>1 DEF Heads
<1>3. Heads(T) = Heads(S)
  <2>1. \A h \in S : h \in Heads(T) <=> h \in Heads(S)
    BY <1>1 DEF Heads
  <2> QED
    BY <1>2, <2>1 DEF Heads
<1>4. Absorbed(l, T) = Absorbed(l, S) \cup {x}
  <2>1. SortsBefore(l, x)
    BY <1>0
  <2>2. \A g \in Heads(T) : ~SortsBefore(l, g)
    BY <1>0, <1>3, HeadParts, SortOrder DEF LastHead
  <2> QED
    BY <1>3, <2>1, <2>2 DEF Absorbed
<1>5. ASSUME NEW h \in Heads(S), h # l PROVE Absorbed(h, T) = Absorbed(h, S)
  <2>1. SortsBefore(h, l)
    BY <1>5 DEF LastHead
  <2>2. x \notin Absorbed(h, T)
    BY <1>0, <1>1, <1>3, <2>1 DEF Absorbed
  <2> QED
    BY <1>3, <2>2 DEF Absorbed
<1>6. LastHead(l, T)
  BY <1>3 DEF LastHead
<1> QED
  BY <1>3, <1>4, <1>5, <1>6

\* What an earlier head absorbed ends before a later head starts.
LEMMA EarlierEnds ==
    ASSUME NEW S \in SUBSET Interval, NEW h \in Heads(S), NEW l, LastHead(l, S), h # l,
           NEW i \in Absorbed(h, S)
    PROVE  i.end < l.start
<1>1. l \in Heads(S) /\ SortsBefore(h, l)
  BY DEF LastHead
<1>2. i \in S /\ SortsBefore(i, l)
  BY <1>1 DEF Absorbed
<1> QED
  BY <1>1, <1>2 DEF Heads

LEMMA GroupInit == LoopInit => GroupInv
<1> SUFFICES ASSUME LoopInit PROVE GroupInv
  OBVIOUS
<1>1. Taken = {} /\ merged = << >> /\ Len(merged) = 0
  BY DEF LoopInit, Taken
<1> QED
  BY <1>1 DEF GroupInv, Heads

\* The interval of a round sorts behind those of the earlier rounds.
LEMMA TakenNext ==
    ASSUME LoopType, loop = "merge", next \in 1..Len(list), loop' = loop, list' = list, next' = next + 1
    PROVE  /\ list[next] \in Interval
           /\ Taken \in SUBSET Interval
           /\ Taken' = Taken \cup {list[next]}
           /\ \A i \in Taken : i = list[next] \/ SortsBefore(i, list[next])
<1>1. list \in Seq(Interval) /\ SortedList(list) /\ next \in Nat
  BY DEF LoopType
<1>2. Taken = {list[i] : i \in 1..(next - 1)} /\ Taken' = {list[i] : i \in 1..next}
  BY DEF Taken
<1>3. \A i \in 1..next : i \in 1..(next - 1) \/ i = next
  BY <1>1
<1>4. 1..(next - 1) \subseteq 1..next /\ next \in 1..next /\ 1..next \subseteq 1..Len(list)
  OBVIOUS
<1>5. \A i \in 1..(next - 1) : list[i] = list[next] \/ SortsBefore(list[i], list[next])
  BY <1>1, <1>4 DEF SortedList
<1> QED
  BY <1>1, <1>2, <1>3, <1>4, <1>5

\* A result that is opened becomes the last group.
LEMMA GroupOpen ==
    ASSUME LoopType, MergeInv, MergeInv', GroupInv, Open
    PROVE  GroupInv'
<1> DEFINE x == list[next]
           n == Len(merged)
           S == Taken
           T == S \cup {x}
<1>1. /\ next \in 1..Len(list) /\ next' = next + 1 /\ loop = "merge"
      /\ UNCHANGED <<list, loop>> /\ merged' = Append(merged, x)
  BY DEF Open, Merging, LoopType
<1>2. /\ x \in Interval /\ S \in SUBSET Interval /\ Taken' = T
      /\ \A i \in S : i = x \/ SortsBefore(i, x)
  BY <1>1, TakenNext
<1>3. /\ n \in Nat /\ Len(merged') = n + 1
      /\ \A i \in 1..n : merged'[i] = merged[i] /\ merged[i] \in Interval
      /\ merged'[n + 1] = x /\ merged' # << >>
  BY <1>1, <1>2, AppendType DEF LoopType
<1>4. \A i \in 1..(n + 1) : i \in 1..n \/ i = n + 1
  BY <1>3
<1>5. \A i \in 1..n : merged[i].end < x.start
  BY <1>3, <1>4 DEF MergeInv, MergeIsUnion, Gaps
<1>6. ASSUME NEW i \in S PROVE i.end < x.start
  <2>1. PICK j \in 1..n : i.end <= merged[j].end
    BY DEF GroupInv
  <2>2. i.end \in Int /\ merged[j].end \in Int /\ x.start \in Int
    BY <1>2, <1>3, IntervalEnds
  <2> QED
    BY <1>5, <2>1, <2>2
<1>7. /\ Heads(T) = Heads(S) \cup {x}
      /\ Absorbed(x, T) = {x}
      /\ \A h \in Heads(S) : h # x => Absorbed(h, T) = Absorbed(h, S)
      /\ LastHead(x, T)
  BY <1>2, <1>6, NewHead
<1> HIDE DEF x, n, S, T
<1>8. MergedBy(x, x, T)
  BY <1>2, <1>7, IntervalEnds DEF MergedBy
<1>9. ASSUME NEW h \in Heads(S), NEW m, MergedBy(m, h, S) PROVE MergedBy(m, h, T)
  <2>1. CASE h # x
    BY <1>7, <1>9, <2>1 DEF MergedBy
  <2>2. CASE h = x
    <3>1. x \in S
      BY <2>2 DEF Heads
    <3>2. T = S
      BY <3>1 DEF T
    <3> QED
      BY <1>9, <3>2
  <2> QED
    BY <2>1, <2>2
<1>10. /\ \A i \in 1..n : \E h \in Heads(S) : MergedBy(merged[i], h, S)
       /\ \A h \in Heads(S) : \E i \in 1..n : MergedBy(merged[i], h, S)
       /\ \A i \in S : \E j \in 1..n : i.end <= merged[j].end
  BY DEF GroupInv, n, S
<1>11. \A i \in 1..(n + 1) : \E h \in Heads(T) : MergedBy(merged'[i], h, T)
  BY <1>3, <1>4, <1>7, <1>8, <1>9, <1>10
<1>12. 1..n \subseteq 1..(n + 1) /\ n + 1 \in 1..(n + 1)
  BY <1>3
<1>13. \A h \in Heads(T) : \E i \in 1..(n + 1) : MergedBy(merged'[i], h, T)
  BY <1>3, <1>7, <1>8, <1>9, <1>10, <1>12
<1>14. \A i \in T : \E j \in 1..(n + 1) : i.end <= merged'[j].end
  <2>1. x.end <= x.end
    BY <1>2, IntervalEnds
  <2> QED
    BY <1>3, <1>10, <1>12, <2>1 DEF T
<1> QED
  BY <1>2, <1>3, <1>7, <1>8, <1>11, <1>13, <1>14 DEF GroupInv

\* A result that is extended stays the last group.
LEMMA GroupJoin ==
    ASSUME LoopType, MergeInv, GroupInv, Join
    PROVE  GroupInv'
<1> DEFINE x == list[next]
           n == Len(merged)
           S == Taken
           T == S \cup {x}
           m == merged[n]
<1>1. /\ merged # << >> /\ x.start <= m.end
      /\ next \in 1..Len(list) /\ next' = next + 1 /\ loop = "merge"
      /\ UNCHANGED <<list, loop>>
      /\ merged' = IF x.end > m.end THEN Extended(merged, x) ELSE merged
  BY DEF Join, Merging, Touches, Last, LoopType, Extended
<1>2. /\ x \in Interval /\ S \in SUBSET Interval /\ Taken' = T
      /\ \A i \in S : i = x \/ SortsBefore(i, x)
  BY <1>1, TakenNext
<1>3. /\ n \in 1..n /\ n \in Nat /\ Len(merged') = n /\ merged' \in Seq(Interval)
      /\ \A i \in 1..n : /\ merged[i] \in Interval /\ merged'[i].start = merged[i].start
                         /\ i # n => merged'[i].end = merged[i].end
      /\ merged'[n].end = IF x.end > m.end THEN x.end ELSE m.end
  <2>1. merged \in Seq(Interval)
    BY DEF LoopType
  <2>2. CASE x.end > m.end
    <3>1. merged' = Extended(merged, x)
      BY <1>1, <2>2
    <3>2. x \in Interval /\ merged # << >>
      BY <1>1, <1>2
    <3>3. /\ merged' \in Seq(Interval)
          /\ Len(merged') = n /\ n \in 1..n
          /\ \A i \in 1..n : /\ merged[i] \in Interval
                             /\ merged'[i].start = merged[i].start
                             /\ merged'[i].end = IF i = n THEN x.end ELSE merged[i].end
      BY <2>1, <3>1, <3>2, ExtendedType
    <3> QED
      BY <2>2, <3>3
  <2>3. CASE ~(x.end > m.end)
    BY <1>1, <2>1, <2>3
  <2> QED
    BY <2>2, <2>3
<1>4. /\ x.start \in Int /\ x.end \in Int
      /\ \A i \in 1..n : merged[i].start \in Int /\ merged[i].end \in Int
  BY <1>2, <1>3, IntervalEnds
<1>5. m.start <= x.start
  BY <1>1, <1>3 DEF MergeInv, ComesLater
<1>6. \A i \in 1..n : i # n => merged[i].end < m.start
  BY <1>3 DEF MergeInv, MergeIsUnion, Gaps
<1>7. PICK l : LastHead(l, S) /\ MergedBy(m, l, S)
  BY <1>1 DEF GroupInv
<1>8. l \in Heads(S) /\ l \in Interval /\ l.start = m.start
  BY <1>2, <1>7, HeadParts DEF LastHead, MergedBy
<1>9. /\ \A i \in 1..n : \E h \in Heads(S) : MergedBy(merged[i], h, S)
      /\ \A h \in Heads(S) : \E i \in 1..n : MergedBy(merged[i], h, S)
      /\ \A i \in S : \E j \in 1..n : i.end <= merged[j].end
  BY DEF GroupInv
<1> HIDE DEF x, n, S, T, m
<1>10. CASE x \in S
  <2>1. T = S
    BY <1>10 DEF T
  <2>2. \A g \in Heads(S) : ~SortsBefore(l, g)
    BY <1>2, <1>7, <1>8, HeadParts, SortOrder DEF LastHead
  <2>3. x = l \/ SortsBefore(l, x)
    BY <1>2, <1>8, HeadParts
  <2>4. x \in Absorbed(l, S)
    BY <1>10, <2>2, <2>3 DEF Absorbed
  <2>5. x.end <= m.end
    BY <1>7, <2>4 DEF MergedBy
  <2>6. merged' = merged
    BY <1>1, <1>3, <1>4, <2>5 DEF m
  <2> QED
    BY <1>2, <2>1, <2>6 DEF GroupInv, S
<1>11. CASE x \notin S
  <2>1. PICK e \in Absorbed(l, S) : e.end = m.end
    BY <1>7 DEF MergedBy
  <2>2. e \in S /\ x.start <= e.end
    BY <1>1, <1>2, <1>8, <2>1, HeadParts
  <2>3. \A i \in S : SortsBefore(i, x)
    BY <1>2, <1>11
  <2>4. /\ Heads(T) = Heads(S)
        /\ Absorbed(l, T) = Absorbed(l, S) \cup {x}
        /\ \A h \in Heads(S) : h # l => Absorbed(h, T) = Absorbed(h, S)
        /\ LastHead(l, T)
    BY <1>2, <1>7, <1>11, <2>2, <2>3, NewMember DEF T
  <2>5. MergedBy(merged'[n], l, T)
    <3>1. merged'[n].start = l.start
      BY <1>3, <1>8 DEF m
    <3>2. CASE x.end > m.end
      <4>1. merged'[n].end = x.end
        BY <1>3, <3>2
      <4>2. \A i \in Absorbed(l, S) : i.end <= x.end
        <5>1. \A i \in Absorbed(l, S) : i.end <= m.end /\ i.end \in Int
          BY <1>2, <1>7, <1>8, HeadParts, IntervalEnds DEF MergedBy
        <5> QED
          BY <1>3, <1>4, <3>2, <5>1 DEF m
      <4> QED
        BY <1>4, <2>4, <3>1, <4>1, <4>2 DEF MergedBy
    <3>3. CASE ~(x.end > m.end)
      <4>1. merged'[n].end = m.end /\ x.end <= m.end
        BY <1>3, <1>4, <3>3 DEF m
      <4> QED
        BY <1>7, <2>4, <3>1, <4>1 DEF MergedBy
    <3> QED
      BY <3>2, <3>3
  <2>6. m.start <= m.end
    BY <1>1, <1>3, <1>4, <1>5 DEF m
  <2>7. ASSUME NEW i \in 1..n, i # n, NEW h \in Heads(S), MergedBy(merged[i], h, S)
        PROVE  h # l /\ MergedBy(merged'[i], h, T)
    <3>1. h # l
      <4> SUFFICES ASSUME h = l PROVE FALSE
        OBVIOUS
      <4>1. merged[i] = m
        BY <1>2, <1>3, <1>7, <2>7, MergedOnce DEF m
      <4>2. merged[i].end < m.start
        BY <1>6, <2>7
      <4> QED
        BY <1>3, <1>4, <2>6, <4>1, <4>2 DEF m
    <3>2. merged'[i].start = merged[i].start /\ merged'[i].end = merged[i].end
      BY <1>3, <2>7
    <3> QED
      BY <2>4, <2>7, <3>1, <3>2 DEF MergedBy
  <2>8. ASSUME NEW h \in Heads(S), h # l, MergedBy(m, h, S) PROVE FALSE
    <3>1. PICK i \in Absorbed(h, S) : i.end = m.end
      BY <2>8 DEF MergedBy
    <3>2. i.end < l.start
      BY <1>2, <1>7, <2>8, <3>1, EarlierEnds
    <3> QED
      BY <1>3, <1>4, <1>8, <2>6, <3>1, <3>2 DEF m
  <2>9. \A i \in 1..n : \E h \in Heads(T) : MergedBy(merged'[i], h, T)
    BY <1>8, <1>9, <2>4, <2>5, <2>7
  <2>10. ASSUME NEW h \in Heads(S) PROVE \E i \in 1..n : MergedBy(merged'[i], h, T)
    <3>1. CASE h = l
      BY <1>3, <2>5, <3>1
    <3>2. CASE h # l
      <4>1. PICK i \in 1..n : MergedBy(merged[i], h, S)
        BY <1>9
      <4>2. i # n
        BY <2>8, <3>2, <4>1 DEF m
      <4> QED
        BY <2>7, <4>1, <4>2
    <3> QED
      BY <3>1, <3>2
  <2>11. ASSUME NEW i \in T PROVE \E j \in 1..n : i.end <= merged'[j].end
    <3>1. \A j \in 1..n : merged[j].end <= merged'[j].end /\ merged'[j].end \in Int
      BY <1>3, <1>4 DEF m
    <3>2. CASE i = x
      <4>1. x.end <= merged'[n].end
        BY <1>3, <1>4 DEF m
      <4> QED
        BY <1>3, <3>2, <4>1
    <3>3. CASE i \in S
      <4>1. PICK j \in 1..n : i.end <= merged[j].end
        BY <1>9, <3>3
      <4>2. i.end \in Int
        BY <1>2, <3>3, IntervalEnds
      <4>3. i.end <= merged'[j].end
        BY <1>4, <3>1, <4>1, <4>2
      <4> QED
        BY <4>3
    <3> QED
      BY <3>2, <3>3 DEF T
  <2>12. merged'[Len(merged')] = merged'[n] /\ 1..Len(merged') = 1..n
    BY <1>3
  <2> QED
    BY <1>2, <2>4, <2>5, <2>9, <2>10, <2>11, <2>12 DEF GroupInv
<1> QED
  BY <1>10, <1>11

LEMMA GroupStep ==
    ASSUME LoopType, MergeInv, MergeInv', GroupInv, [LoopNext]_loopVars
    PROVE  GroupInv'
<1>1. CASE Join
  BY <1>1, GroupJoin
<1>2. CASE Open
  BY <1>2, GroupOpen
<1>3. CASE ToSubtract
  <2>1. next - 1 = Len(list) /\ loop = "merge" /\ loop' = "subtract" /\ UNCHANGED <<list, merged>>
    BY <1>3 DEF ToSubtract, MergeInv, LoopType
  <2>2. Taken' = Taken
    BY <2>1 DEF Taken
  <2> QED
    BY <2>1, <2>2 DEF GroupInv
<1>4. CASE Skip \/ Carve \/ KeepRest \/ UNCHANGED loopVars
  <2>1. /\ UNCHANGED <<list, merged>>
        /\ \/ loop' = loop /\ next' = next
           \/ loop # "merge" /\ loop' # "merge"
    BY <1>4 DEF Skip, Carve, KeepRest, Subtracting, loopVars
  <2>2. Taken' = Taken
    BY <2>1 DEF Taken
  <2> QED
    BY <2>1, <2>2 DEF GroupInv
<1> QED
  BY <1>1, <1>2, <1>3, <1>4 DEF LoopNext

LEMMA GroupsAreNormal ==
    ASSUME LoopType, GroupInv
    PROVE  MergeIsNormalize
<1> SUFFICES ASSUME loop # "merge" PROVE Members(merged) = Normalize(Members(list))
  BY DEF MergeIsNormalize
<1> DEFINE S == Members(list)
<1>1. Taken = S
  BY DEF Taken, Members
<1>2. S \in SUBSET Interval /\ \A i \in 1..Len(merged) : merged[i] \in Interval
  BY DEF LoopType, Members
<1>3. ASSUME NEW i \in 1..Len(merged) PROVE merged[i] \in Normalize(S)
  <2>1. PICK h \in Heads(S) : MergedBy(merged[i], h, S)
    BY <1>1 DEF GroupInv
  <2>2. h \in S /\ Absorbed(h, S) \subseteq S
    BY <1>2, HeadParts
  <2>3. PICK e \in Absorbed(h, S) : e.end = merged[i].end
    BY <2>1 DEF MergedBy
  <2> HIDE DEF S
  <2>4. merged[i].start \in {j.start : j \in S} /\ merged[i].end \in {j.end : j \in S}
    BY <2>1, <2>2, <2>3 DEF MergedBy
  <2>5. merged[i] \in [start : {j.start : j \in S}, end : {j.end : j \in S}]
    BY <1>2, <2>4 DEF Interval
  <2> QED
    BY <2>1, <2>5 DEF Normalize, Merged, MergedBy
<1>4. ASSUME NEW m \in Normalize(S) PROVE \E i \in 1..Len(merged) : merged[i] = m
  <2>1. m \in [start : {j.start : j \in S}, end : {j.end : j \in S}] /\ Merged(m, S)
    BY DEF Normalize
  <2>2. m \in Interval
    BY <1>2, <2>1 DEF Interval
  <2>3. PICK h \in Heads(S) : MergedBy(m, h, S)
    BY <2>1 DEF Merged, MergedBy
  <2>4. PICK i \in 1..Len(merged) : MergedBy(merged[i], h, S)
    BY <1>1 DEF GroupInv
  <2>5. merged[i] = m
    BY <1>2, <2>2, <2>3, <2>4, MergedOnce
  <2> QED
    BY <2>5
<1> HIDE DEF S
<1>5. Members(merged) = Normalize(S)
  BY <1>3, <1>4 DEF Members
<1> QED
  BY <1>5 DEF S

\* For every list the loop returns what Geometry says without it: the result
\* of NormalizeIntervals that SamplingWorkflow stores.
THEOREM LoopNormalizes == LoopSpec => []MergeIsNormalize
<1>1. LoopInit => LoopType /\ MergeInv /\ GroupInv
  BY LoopTypeInit, MergeInit, GroupInit
<1>2. LoopType /\ MergeInv /\ GroupInv /\ [LoopNext]_loopVars
        => LoopType' /\ MergeInv' /\ GroupInv'
  BY LoopTypeStep, MergeStep, GroupStep
<1>3. LoopType /\ GroupInv => MergeIsNormalize
  BY GroupsAreNormal
<1>4. QED
  BY <1>1, <1>2, <1>3, PTL DEF LoopSpec


-----------------------------------------------------------------------------
(***************************************************************************)
(* Lists in order                                                          *)
(*                                                                         *)
(* That the sort has a result, for every finite set of depths: otherwise   *)
(* InOrder would name nothing. The proof is by induction on the size of    *)
(* the set, as the absence of a least counterexample.                      *)
(***************************************************************************)

Climbs(s, n) == \A i, j \in 1..n : i < j => s[i] < s[j]

Onto(s, n, S) == \A p \in S : \E i \in 1..n : s[i] = p

LEMMA LeastNatural ==
    ASSUME NEW S \in SUBSET Nat, S # {}
    PROVE  \E n \in S : \A m \in S : n <= m
<1> DEFINE R == OpToRel(<, Nat)
<1>1. IsWellFoundedOn(R, Nat)
  BY NatLessThanWellFounded, Zenon
<1>2. \A x, y \in Nat : x < y => <<x, y>> \in R
  BY DEF OpToRel
<1> HIDE DEF R
<1>3. PICK n \in S : \A m \in S : <<m, n>> \notin R
  BY <1>1, WFMin
<1>4. ASSUME NEW m \in S PROVE n <= m
  <2>1. ~(m < n) /\ m \in Nat /\ n \in Nat
    BY <1>2, <1>3
  <2> QED
    BY <2>1
<1> QED
  BY <1>4

\* A further depth has its place in a climbing list.
LEMMA InsertInOrder ==
    ASSUME NEW S \in SUBSET Int, NEW x \in S, NEW n \in Nat \ {0},
           NEW s \in [1..(n - 1) -> S \ {x}], Climbs(s, n - 1), Onto(s, n - 1, S \ {x})
    PROVE  \E t \in [1..n -> S] : Climbs(t, n) /\ Onto(t, n, S)
<1> DEFINE Later == {i \in 1..n : i = n \/ s[i] > x}
<1>1. PICK p \in Later : \A i \in Later : p <= i
  <2>1. Later \in SUBSET Nat /\ n \in Later
    OBVIOUS
  <2> QED
    BY <2>1, LeastNatural
<1>2. p \in 1..n /\ \A i \in 1..(p - 1) : i \in 1..(n - 1) /\ ~(s[i] > x)
  BY <1>1
<1>3. \A i \in 1..(n - 1) : s[i] \in Int /\ s[i] \in S /\ s[i] # x
  OBVIOUS
<1>4. \A i \in 1..(p - 1) : s[i] < x
  BY <1>2, <1>3
<1>5. \A i \in p..(n - 1) : x < s[i]
  <2> SUFFICES ASSUME NEW i \in p..(n - 1) PROVE x < s[i]
    OBVIOUS
  <2>1. p \in 1..(n - 1) /\ i \in 1..(n - 1)
    BY <1>2
  <2>2. s[p] > x
    BY <1>1, <2>1
  <2>3. i = p \/ s[p] < s[i]
    BY <2>1 DEF Climbs
  <2> QED
    BY <1>3, <2>1, <2>2, <2>3
<1> DEFINE t == [i \in 1..n |-> IF i < p THEN s[i] ELSE IF i = p THEN x ELSE s[i - 1]]
<1>6. /\ \A i \in 1..n : i < p => t[i] = s[i] /\ i \in 1..(p - 1) /\ i \in 1..(n - 1)
      /\ t[p] = x
      /\ \A i \in 1..n : i > p => t[i] = s[i - 1] /\ i - 1 \in p..(n - 1) /\ i - 1 \in 1..(n - 1)
  BY <1>2
<1>7. t \in [1..n -> S]
  <2>1. \A i \in 1..n : i < p \/ i = p \/ i > p
    BY <1>2
  <2>2. \A i \in 1..n : t[i] \in S
    BY <1>3, <1>6, <2>1
  <2> QED
    BY <2>2
<1> HIDE DEF t
<1>8. Climbs(t, n)
  <2> SUFFICES ASSUME NEW i \in 1..n, NEW j \in 1..n, i < j PROVE t[i] < t[j]
    BY DEF Climbs
  <2>1. CASE j < p
    BY <1>2, <1>6, <2>1 DEF Climbs
  <2>2. CASE j = p
    BY <1>4, <1>6, <2>2
  <2>3. CASE j > p /\ i < p
    BY <1>3, <1>4, <1>5, <1>6, <2>3
  <2>4. CASE j > p /\ i = p
    BY <1>5, <1>6, <2>4
  <2>5. CASE i > p
    BY <1>2, <1>6, <2>5 DEF Climbs
  <2> QED
    BY <1>2, <2>1, <2>2, <2>3, <2>4, <2>5
<1>9. Onto(t, n, S)
  <2> SUFFICES ASSUME NEW q \in S PROVE \E i \in 1..n : t[i] = q
    BY DEF Onto
  <2>1. CASE q = x
    BY <1>2, <1>6, <2>1
  <2>2. CASE q # x
    <3>1. PICK i \in 1..(n - 1) : s[i] = q
      BY <2>2 DEF Onto
    <3>2. CASE i < p
      BY <1>6, <3>1, <3>2
    <3>3. CASE i >= p
      <4>1. i + 1 \in 1..n /\ i + 1 > p /\ (i + 1) - 1 = i
        BY <1>2, <3>3
      <4>2. t[i + 1] = s[i]
        BY <1>6, <4>1
      <4> QED
        BY <3>1, <4>1, <4>2
    <3> QED
      BY <1>2, <3>2, <3>3
  <2> QED
    BY <2>1, <2>2
<1> QED
  BY <1>7, <1>8, <1>9

LEMMA OrderExists ==
    ASSUME NEW S \in SUBSET Int, IsFiniteSet(S)
    PROVE  \E s \in [1..Cardinality(S) -> S] : Climbs(s, Cardinality(S)) /\ Onto(s, Cardinality(S), S)
<1> DEFINE Listed(T, n) == \E s \in [1..n -> T] : Climbs(s, n) /\ Onto(s, n, T)
           Unlisted == {n \in Nat : \E T \in SUBSET Int :
                                       IsFiniteSet(T) /\ Cardinality(T) = n /\ ~Listed(T, n)}
<1>1. Unlisted = {}
  <2> SUFFICES ASSUME Unlisted # {} PROVE FALSE
    OBVIOUS
  <2> HIDE DEF Listed
  <2>1. PICK n \in Unlisted : \A m \in Unlisted : n <= m
    <3>1. Unlisted \in SUBSET Nat
      OBVIOUS
    <3> HIDE DEF Unlisted
    <3> QED
      BY <3>1, LeastNatural
  <2>2. PICK T \in SUBSET Int : IsFiniteSet(T) /\ Cardinality(T) = n /\ ~Listed(T, n)
    BY <2>1
  <2>3. n \in Nat
    BY <2>1
  <2>4. CASE n = 0
    <3>1. T = {}
      BY <2>2, <2>4, FS_EmptySet
    <3>2. [i \in 1..0 |-> 0] \in [1..0 -> T]
      OBVIOUS
    <3>3. Listed(T, 0)
      BY <3>1, <3>2 DEF Listed, Climbs, Onto
    <3> QED
      BY <2>2, <2>4, <3>3
  <2>5. CASE n # 0
    <3>1. T # {}
      BY <2>2, <2>5, FS_EmptySet
    <3>2. PICK x \in T : TRUE
      BY <3>1
    <3>3. IsFiniteSet(T \ {x}) /\ Cardinality(T \ {x}) = n - 1
      BY <2>2, <3>2, FS_RemoveElement
    <3>4. n - 1 \in Nat /\ n - 1 \notin Unlisted
      <4>1. n - 1 \in Nat /\ ~(n <= n - 1)
        BY <2>3, <2>5
      <4> HIDE DEF Unlisted
      <4> QED
        BY <2>1, <4>1
    <3>5. Listed(T \ {x}, n - 1)
      <4>1. T \ {x} \in SUBSET Int
        OBVIOUS
      <4> QED
        BY <3>3, <3>4, <4>1
    <3>6. PICK s \in [1..(n - 1) -> T \ {x}] : Climbs(s, n - 1) /\ Onto(s, n - 1, T \ {x})
      BY <3>5 DEF Listed
    <3>7. Listed(T, n)
      BY <2>3, <2>5, <3>2, <3>6, InsertInOrder DEF Listed
    <3> QED
      BY <2>2, <3>7
  <2> QED
    BY <2>4, <2>5
<1>2. Cardinality(S) \in Nat
  BY FS_CardinalityType
<1>3. Listed(S, Cardinality(S))
  <2> HIDE DEF Listed
  <2> QED
    BY <1>1, <1>2
<1> QED
  BY <1>3

\* A climbing list as long as the set leaves nothing out.
LEMMA ClimbsOnto ==
    ASSUME NEW S \in SUBSET Int, IsFiniteSet(S), NEW s \in [1..Cardinality(S) -> S],
           Climbs(s, Cardinality(S))
    PROVE  Onto(s, Cardinality(S), S)
<1> DEFINE n == Cardinality(S)
           R == {s[i] : i \in 1..n}
<1>1. n \in Nat
  BY FS_CardinalityType
<1>2. IsFiniteSet(1..n) /\ Cardinality(1..n) = n
  BY <1>1, FS_Interval
<1>3. \A i, j \in 1..n : s[i] = s[j] => i = j
  <2> SUFFICES ASSUME NEW i \in 1..n, NEW j \in 1..n, i # j PROVE s[i] # s[j]
    OBVIOUS
  <2> HIDE DEF n
  <2>1. i < j \/ j < i
    BY <1>1
  <2>2. s[i] \in S /\ s[j] \in S
    BY DEF n
  <2>3. s[i] < s[j] \/ s[j] < s[i]
    BY <2>1 DEF Climbs, n
  <2>4. s[i] \in Int /\ s[j] \in Int
    BY <2>2
  <2> QED
    BY <2>3, <2>4
<1>4. R \in SUBSET S
  OBVIOUS
<1> HIDE DEF n
<1>5. s \in [1..n -> R] /\ \A q \in R : \E i \in 1..n : s[i] = q
  BY DEF n
<1> HIDE DEF R
<1>6. ExistsBijection(1..n, R)
  BY <1>3, <1>5 DEF ExistsBijection, Bijection, Injection, Surjection, IsInjective
<1>7. Cardinality(R) = n
  BY <1>2, <1>6, FS_Bijection
<1>8. R = S
  BY <1>4, <1>7, FS_Subset DEF n
<1> QED
  BY <1>5, <1>8 DEF Onto, n

-----------------------------------------------------------------------------
(***************************************************************************)
(* The loop of Availability                                                *)
(*                                                                         *)
(* No point of the core lies strictly between two neighbours of uniq, so   *)
(* what overlaps the part between them holds every depth of the part.      *)
(***************************************************************************)

Inner == {p \in Points : p >= CoreDepth.start /\ p <= CoreDepth.end}

Cause ==
    [type : {"Protected"}]
    \cup {[type |-> IF h.status \in Terminal THEN "Frozen" ELSE "ActiveCase", case |-> h.case] : h \in holders}

Partition == [start : Int, end : Int, reasons : SUBSET Cause]

\* What holds depth d.
ReasonsAt(d) ==
    {r \in [type : {"Protected"}] : At(d, protected)}
    \cup {[type |-> IF h.status \in Terminal THEN "Frozen" ELSE "ActiveCase", case |-> h.case] :
            h \in {h \in Own : At(d, h.segments)}}

ViewType ==
    /\ protected \subseteq Interval
    /\ \A h \in holders : h.segments \subseteq Interval
    /\ uniq \in Seq(Inner) /\ Climbs(uniq, Len(uniq)) /\ Onto(uniq, Len(uniq), Inner)
    /\ round \in 1..Len(uniq)
    /\ partitions \in Seq(Partition)

\* The partitions reach from the top of the core to the end of the last round.
Reached ==
    IF partitions = << >> THEN round = 1 ELSE partitions[Len(partitions)].end = uniq[round]

ViewInv ==
    /\ ViewType /\ Reached
    /\ \A i \in 1..Len(partitions) :
          /\ partitions[i].start = IF i = 1 THEN CoreDepth.start ELSE partitions[i - 1].end
          /\ partitions[i].start < partitions[i].end
          /\ \A d \in partitions[i].start..(partitions[i].end - 1) : partitions[i].reasons = ReasonsAt(d)
          /\ i > 1 => partitions[i].reasons # partitions[i - 1].reasons

LEMMA InnerType ==
    ASSUME protected \subseteq Interval, \A h \in holders : h.segments \subseteq Interval
    PROVE  /\ Points \subseteq Int
           /\ Inner \in SUBSET Int
           /\ IsFiniteSet(Inner)
           /\ CoreDepth.start \in Inner /\ CoreDepth.end \in Inner
           /\ CoreDepth.start \in Int /\ CoreDepth.end \in Int
<1>1. CoreDepth.start \in Int /\ CoreDepth.end \in Int
  BY CoreDepthAssumption DEF Interval
<1>2. ASSUME NEW S, S \subseteq Interval PROVE Ends(S) \subseteq Int
  BY <1>2 DEF Ends, Interval
<1>3. Points \subseteq Int
  <2>1. Ends({CoreDepth}) \subseteq Int /\ Ends(protected) \subseteq Int
    BY <1>2, CoreDepthAssumption
  <2>2. \A h \in Own : Ends(h.segments) \subseteq Int
    BY <1>2 DEF Own
  <2> QED
    BY <2>1, <2>2 DEF Points
<1>4. Inner \in SUBSET (CoreDepth.start..CoreDepth.end)
  <2>1. \A p \in Inner : p \in Int /\ CoreDepth.start <= p /\ p <= CoreDepth.end
    BY <1>1, <1>3 DEF Inner
  <2>2. \A p \in Inner : p \in CoreDepth.start..CoreDepth.end
    BY <1>1, <2>1
  <2> QED
    BY <2>2
<1>5. IsFiniteSet(Inner)
  BY <1>1, <1>4, FS_Interval, FS_Subset
<1>6. CoreDepth.start \in Points /\ CoreDepth.end \in Points
  BY DEF Points, Ends
<1>7. CoreDepth.start \in Inner /\ CoreDepth.end \in Inner
  BY <1>1, <1>6, CoreDepthAssumption DEF Inner
<1> QED
  BY <1>1, <1>3, <1>5, <1>7 DEF Inner

LEMMA ViewStarts == ViewInit => ViewInv
<1> SUFFICES ASSUME ViewInit PROVE ViewInv
  OBVIOUS
<1>1. protected \subseteq Interval /\ \A h \in holders : h.segments \subseteq Interval
  BY ProtectedAssumption, HoldingsAssumption DEF ViewInit
<1> DEFINE n == Cardinality(Inner)
<1>2. Inner \in SUBSET Int /\ IsFiniteSet(Inner) /\ CoreDepth.start \in Inner
  BY <1>1, InnerType
<1>3. n \in Nat
  BY <1>2, FS_CardinalityType
<1>4. PICK s \in [1..n -> Inner] : Climbs(s, n) /\ Onto(s, n, Inner)
  BY <1>2, OrderExists
<1>5. uniq = CHOOSE t \in [1..n -> Inner] : \A i, j \in DOMAIN t : i < j => t[i] < t[j]
  BY DEF ViewInit, InOrder, Inner
<1> HIDE DEF n
<1>6. uniq \in [1..n -> Inner] /\ Climbs(uniq, n)
  BY <1>4, <1>5 DEF Climbs
<1>7. uniq \in Seq(Inner) /\ Len(uniq) = n
  BY <1>3, <1>6
<1>8. Onto(uniq, n, Inner)
  BY <1>2, <1>6, ClimbsOnto DEF n
<1>9. round = 1 /\ partitions = << >>
  BY DEF ViewInit
<1>10. n # 0
  <2>1. 1..0 = {}
    OBVIOUS
  <2> QED
    BY <1>2, <1>8, <2>1 DEF Onto
<1> QED
  BY <1>1, <1>3, <1>6, <1>7, <1>8, <1>9, <1>10 DEF ViewInv, ViewType, Reached

\* uniq runs from one end of the core to the other ...
LEMMA UniqEnds ==
    ASSUME ViewType
    PROVE  /\ Len(uniq) \in Nat /\ Len(uniq) >= 2
           /\ uniq[1] = CoreDepth.start /\ uniq[Len(uniq)] = CoreDepth.end
           /\ \A i \in 1..Len(uniq) : uniq[i] \in Int
<1>1. /\ CoreDepth.start \in Inner /\ CoreDepth.end \in Inner
      /\ CoreDepth.start \in Int /\ CoreDepth.end \in Int /\ Inner \in SUBSET Int
  BY InnerType DEF ViewType
<1> DEFINE n == Len(uniq)
<1>2. n \in Nat /\ \A i \in 1..n : uniq[i] \in Inner
  BY DEF ViewType
<1>3. Climbs(uniq, n) /\ Onto(uniq, n, Inner)
  BY DEF ViewType
<1> HIDE DEF n
<1>4. \A i \in 1..n : uniq[i] \in Int /\ CoreDepth.start <= uniq[i] /\ uniq[i] <= CoreDepth.end
  BY <1>1, <1>2 DEF Inner
<1>5. PICK a \in 1..n : uniq[a] = CoreDepth.start
  BY <1>1, <1>3 DEF Onto
<1>6. PICK b \in 1..n : uniq[b] = CoreDepth.end
  BY <1>1, <1>3 DEF Onto
<1>7. a = 1
  <2> SUFFICES ASSUME a # 1 PROVE FALSE
    OBVIOUS
  <2>1. 1 \in 1..n /\ 1 < a
    BY <1>2
  <2>2. uniq[1] < uniq[a]
    BY <1>3, <2>1 DEF Climbs
  <2> QED
    BY <1>1, <1>4, <1>5, <2>1, <2>2
<1>8. b = n
  <2> SUFFICES ASSUME b # n PROVE FALSE
    OBVIOUS
  <2>1. n \in 1..n /\ b < n
    BY <1>2
  <2>2. uniq[b] < uniq[n]
    BY <1>3, <2>1 DEF Climbs
  <2> QED
    BY <1>1, <1>4, <1>6, <2>1, <2>2
<1>9. n # 1
  BY <1>1, <1>5, <1>6, <1>7, <1>8, CoreDepthAssumption
<1> QED
  BY <1>2, <1>4, <1>5, <1>6, <1>7, <1>8, <1>9 DEF n

\* ... and skips no point.
LEMMA NothingBetween ==
    ASSUME ViewType, NEW i \in 1..(Len(uniq) - 1), NEW p \in Inner
    PROVE  /\ uniq[i] \in Int /\ uniq[i + 1] \in Int /\ uniq[i] < uniq[i + 1]
           /\ CoreDepth.start <= uniq[i] /\ uniq[i + 1] <= CoreDepth.end
           /\ p <= uniq[i] \/ uniq[i + 1] <= p
<1>1. Inner \in SUBSET Int /\ CoreDepth.start \in Int /\ CoreDepth.end \in Int
  BY InnerType DEF ViewType
<1> DEFINE n == Len(uniq)
<1>2. n \in Nat /\ \A j \in 1..n : uniq[j] \in Inner
  BY DEF ViewType
<1>3. Climbs(uniq, n) /\ Onto(uniq, n, Inner)
  BY DEF ViewType
<1>4. i \in 1..(n - 1)
  OBVIOUS
<1> HIDE DEF n
<1>5. i \in 1..n /\ i + 1 \in 1..n
  BY <1>2, <1>4
<1>6. uniq[i] \in Inner /\ uniq[i + 1] \in Inner /\ uniq[i] < uniq[i + 1]
  BY <1>2, <1>3, <1>5 DEF Climbs
<1>7. PICK j \in 1..n : uniq[j] = p
  BY <1>3 DEF Onto
<1>8. j < i \/ j = i \/ j = i + 1 \/ i + 1 < j
  BY <1>2, <1>5
<1>9. uniq[j] < uniq[i] \/ uniq[j] = uniq[i] \/ uniq[j] = uniq[i + 1] \/ uniq[i + 1] < uniq[j]
  BY <1>3, <1>5, <1>8 DEF Climbs
<1>10. p <= uniq[i] \/ uniq[i + 1] <= p
  <2>1. uniq[i] \in Int /\ uniq[i + 1] \in Int /\ p \in Int
    BY <1>1, <1>6
  <2> QED
    BY <1>7, <1>9, <2>1
<1>11. CoreDepth.start <= uniq[i] /\ uniq[i + 1] <= CoreDepth.end
  BY <1>1, <1>6 DEF Inner
<1> QED
  BY <1>1, <1>6, <1>10, <1>11

\* What overlaps the part holds each depth in it.
LEMMA TouchedIsAt ==
    ASSUME ViewType, NEW i \in 1..(Len(uniq) - 1), NEW d \in uniq[i]..(uniq[i + 1] - 1),
           NEW S, S \subseteq Interval, Ends(S) \subseteq Points
    PROVE  Touched([start |-> uniq[i], end |-> uniq[i + 1]], S) <=> At(d, S)
<1> DEFINE a == uniq[i]
           b == uniq[i + 1]
<1>1. CoreDepth.start \in Inner /\ CoreDepth.start \in Int /\ CoreDepth.end \in Int
  BY InnerType DEF ViewType
<1>2. /\ a \in Int /\ b \in Int /\ a < b /\ CoreDepth.start <= a /\ b <= CoreDepth.end
      /\ \A p \in Inner : p <= a \/ b <= p
  BY <1>1, NothingBetween
<1>3. d \in Int /\ a <= d /\ d < b
  BY <1>2
<1> HIDE DEF a, b
<1>4. ASSUME NEW x \in S
      PROVE  a < x.end /\ x.start < b <=> x.start <= d /\ d < x.end
  <2>1. x.start \in Int /\ x.end \in Int /\ x.start \in Points /\ x.end \in Points
    BY DEF Interval, Ends
  <2>2. CASE a < x.end /\ x.start < b
    <3>1. x.start <= a
      <4>1. CASE x.start \in Inner
        BY <1>2, <2>1, <2>2, <4>1
      <4>2. CASE x.start \notin Inner
        BY <1>1, <1>2, <2>1, <2>2, <4>2 DEF Inner
      <4> QED
        BY <4>1, <4>2
    <3>2. b <= x.end
      <4>1. CASE x.end \in Inner
        BY <1>2, <2>1, <2>2, <4>1
      <4>2. CASE x.end \notin Inner
        BY <1>1, <1>2, <2>1, <2>2, <4>2 DEF Inner
      <4> QED
        BY <4>1, <4>2
    <3> QED
      BY <1>2, <1>3, <2>1, <2>2, <3>1, <3>2
  <2>3. CASE x.start <= d /\ d < x.end
    BY <1>2, <1>3, <2>1, <2>3
  <2> QED
    BY <2>2, <2>3
<1>5. \A x : Overlap([start |-> a, end |-> b], x) <=> a < x.end /\ x.start < b
  BY DEF Overlap
<1> QED
  BY <1>4, <1>5 DEF Touched, At, a, b

LEMMA ReasonsHold ==
    ASSUME ViewType, NEW i \in 1..(Len(uniq) - 1), NEW d \in uniq[i]..(uniq[i + 1] - 1)
    PROVE  Reasons([start |-> uniq[i], end |-> uniq[i + 1]]) = ReasonsAt(d)
<1> DEFINE part == [start |-> uniq[i], end |-> uniq[i + 1]]
<1>1. Touched(part, protected) <=> At(d, protected)
  <2>1. protected \subseteq Interval /\ Ends(protected) \subseteq Points
    BY DEF ViewType, Points
  <2> QED
    BY <2>1, TouchedIsAt
<1>2. \A h \in Own : Touched(part, h.segments) <=> At(d, h.segments)
  <2> SUFFICES ASSUME NEW h \in Own PROVE Touched(part, h.segments) <=> At(d, h.segments)
    OBVIOUS
  <2>1. h.segments \subseteq Interval /\ Ends(h.segments) \subseteq Points
    BY DEF ViewType, Points, Own
  <2> QED
    BY <2>1, TouchedIsAt
<1> HIDE DEF part
<1>3. (IF Touched(part, protected) THEN {[type |-> "Protected"]} ELSE {})
         = {r \in [type : {"Protected"}] : At(d, protected)}
  <2>1. \A r \in [type : {"Protected"}] : r = [type |-> "Protected"]
    OBVIOUS
  <2>2. [type |-> "Protected"] \in [type : {"Protected"}]
    OBVIOUS
  <2> QED
    BY <1>1, <2>1, <2>2
<1>4. {h \in Own : Touched(part, h.segments)} = {h \in Own : At(d, h.segments)}
  BY <1>2
<1>5. Reasons(part) = ReasonsAt(d)
  BY <1>3, <1>4 DEF Reasons, ReasonsAt
<1> QED
  BY <1>5 DEF part

LEMMA ReasonsType ==
    ASSUME NEW part
    PROVE  Reasons(part) \in SUBSET Cause
BY DEF Reasons, Cause, Own

\* s with its last partition extended to e.
Stretched(s, e) == [s EXCEPT ![Len(s)].end = e]

LEMMA StretchedType ==
    ASSUME NEW s \in Seq(Partition), s # << >>, NEW e \in Int
    PROVE  /\ Stretched(s, e) \in Seq(Partition)
           /\ Len(Stretched(s, e)) = Len(s) /\ Len(s) \in 1..Len(s)
           /\ \A i \in 1..Len(s) :
                 /\ Stretched(s, e)[i].start = s[i].start
                 /\ Stretched(s, e)[i].reasons = s[i].reasons
                 /\ Stretched(s, e)[i].end = IF i = Len(s) THEN e ELSE s[i].end
<1> DEFINE n == Len(s)
           y == [s[n] EXCEPT !.end = e]
<1>1. n \in 1..n /\ \A i \in 1..n : s[i] \in Partition
  OBVIOUS
<1>2. /\ y \in Partition
      /\ y.start = s[n].start /\ y.reasons = s[n].reasons /\ y.end = e
  BY <1>1 DEF Partition
<1>3. Stretched(s, e) = [s EXCEPT ![n] = y]
  BY DEF Stretched
<1> HIDE DEF y
<1>4. Stretched(s, e) \in Seq(Partition) /\ Len(Stretched(s, e)) = n
  BY <1>1, <1>2, <1>3
<1>5. \A i \in 1..n : Stretched(s, e)[i] = IF i = n THEN y ELSE s[i]
  BY <1>1, <1>3
<1> QED
  BY <1>1, <1>2, <1>4, <1>5

\* The state the round finds, and the part it adds.
LEMMA RoundParts ==
    ASSUME ViewInv, Round
    PROVE  LET n       == Len(partitions)
               part    == [start |-> uniq[round], end |-> uniq[round + 1]]
               reasons == Reasons(part)
           IN /\ round \in 1..(Len(uniq) - 1) /\ round' = round + 1
              /\ part.start \in Int /\ part.end \in Int /\ part.start < part.end
              /\ reasons \in SUBSET Cause
              /\ \A d \in part.start..(part.end - 1) : reasons = ReasonsAt(d)
              /\ n \in Nat
              /\ n = 0 => part.start = CoreDepth.start
              /\ n > 0 => partitions[n].end = part.start
              /\ partitions' = IF n > 0 /\ partitions[n].reasons = reasons
                               THEN Stretched(partitions, part.end)
                               ELSE Append(partitions, [start |-> part.start, end |-> part.end,
                                                        reasons |-> reasons])
<1> DEFINE n       == Len(partitions)
           part    == [start |-> uniq[round], end |-> uniq[round + 1]]
           reasons == Reasons(part)
<1>1. ViewType /\ Reached
  BY DEF ViewInv
<1>2. round \in 1..(Len(uniq) - 1) /\ round' = round + 1
  <2>1. round < Len(uniq) /\ round' = round + 1
    BY DEF Round
  <2>2. Len(uniq) \in Nat /\ round \in 1..Len(uniq)
    BY <1>1 DEF ViewType
  <2> QED
    BY <2>1, <2>2
<1>3. uniq[round] \in Int /\ uniq[round + 1] \in Int /\ uniq[round] < uniq[round + 1]
  <2>1. CoreDepth.start \in Inner
    BY <1>1, InnerType DEF ViewType
  <2> QED
    BY <1>1, <1>2, <2>1, NothingBetween
<1>4. \A d \in uniq[round]..(uniq[round + 1] - 1) : reasons = ReasonsAt(d)
  BY <1>1, <1>2, ReasonsHold
<1>5. n \in Nat /\ (n = 0 <=> partitions = << >>)
  BY <1>1 DEF ViewType
<1>6. n = 0 => part.start = CoreDepth.start
  BY <1>1, <1>5, UniqEnds DEF Reached
<1>7. n > 0 => partitions[n].end = part.start
  BY <1>1, <1>5 DEF Reached
<1>8. n > 0 => Last(partitions) = partitions[n]
  BY DEF Last
<1>9. partitions' = IF n > 0 /\ partitions[n].reasons = reasons
                    THEN Stretched(partitions, part.end)
                    ELSE Append(partitions, [start |-> part.start, end |-> part.end,
                                             reasons |-> reasons])
  BY <1>7, <1>8 DEF Round, SameReasons, Stretched
<1>10. reasons \in SUBSET Cause
  BY ReasonsType
<1>11. part.start = uniq[round] /\ part.end = uniq[round + 1]
  OBVIOUS
<1> HIDE DEF n, part, reasons
<1>12. /\ round \in 1..(Len(uniq) - 1) /\ round' = round + 1
       /\ part.start \in Int /\ part.end \in Int /\ part.start < part.end
       /\ reasons \in SUBSET Cause
       /\ \A d \in part.start..(part.end - 1) : reasons = ReasonsAt(d)
       /\ n \in Nat
       /\ n = 0 => part.start = CoreDepth.start
       /\ n > 0 => partitions[n].end = part.start
  BY <1>2, <1>3, <1>4, <1>5, <1>6, <1>7, <1>10, <1>11
<1> QED
  BY <1>9, <1>12 DEF n, part, reasons

\* What a partition must be, its neighbour before it included.
Explains(s, i) ==
    /\ s[i].start = IF i = 1 THEN CoreDepth.start ELSE s[i - 1].end
    /\ s[i].start < s[i].end
    /\ \A d \in s[i].start..(s[i].end - 1) : s[i].reasons = ReasonsAt(d)
    /\ i > 1 => s[i].reasons # s[i - 1].reasons

LEMMA RoundKeeps ==
    ASSUME ViewInv, Round
    PROVE  ViewInv'
<1> DEFINE n       == Len(partitions)
           part    == [start |-> uniq[round], end |-> uniq[round + 1]]
           a       == part.start
           b       == part.end
           reasons == Reasons(part)
           new     == [start |-> a, end |-> b, reasons |-> reasons]
<1>1. /\ round \in 1..(Len(uniq) - 1) /\ round' = round + 1
      /\ a \in Int /\ b \in Int /\ a < b
      /\ reasons \in SUBSET Cause
      /\ \A d \in a..(b - 1) : reasons = ReasonsAt(d)
      /\ n \in Nat
      /\ n = 0 => a = CoreDepth.start
      /\ n > 0 => partitions[n].end = a
      /\ partitions' = IF n > 0 /\ partitions[n].reasons = reasons
                       THEN Stretched(partitions, b) ELSE Append(partitions, new)
  BY RoundParts
<1>2. b = uniq[round'] /\ UNCHANGED <<protected, holders, uniq>>
  BY <1>1 DEF Round
<1>3. /\ Cause' = Cause /\ Partition' = Partition /\ Inner' = Inner
      /\ \A d : ReasonsAt(d)' = ReasonsAt(d)
  BY <1>2 DEF Cause, Partition, Inner, Points, Own, ReasonsAt
<1>4. ViewType /\ partitions \in Seq(Partition)
  BY DEF ViewInv, ViewType
<1>5. \A i \in 1..n : Explains(partitions, i)
  BY DEF ViewInv, Explains
<1>6. new \in Partition /\ new.start = a /\ new.end = b /\ new.reasons = reasons
  BY <1>1 DEF Partition
<1>7. round' \in 1..Len(uniq)
  BY <1>1
<1>8. \A i \in 1..n : /\ partitions[i] \in Partition
                      /\ partitions[i].start \in Int /\ partitions[i].end \in Int
  <2>1. \A i \in 1..n : partitions[i] \in Partition
    BY <1>4
  <2>2. \A x \in Partition : x.start \in Int /\ x.end \in Int
    BY DEF Partition
  <2> QED  BY <2>1, <2>2
<1> HIDE DEF n, part, a, b, reasons, new
<1>9. /\ partitions' \in Seq(Partition) /\ partitions' # << >>
      /\ partitions'[Len(partitions')].end = b
      /\ \A i \in 1..Len(partitions') : Explains(partitions', i)
  <2>1. CASE n > 0 /\ partitions[n].reasons = reasons
    <3> DEFINE t == Stretched(partitions, b)
    <3>1. partitions' = t
      BY <1>1, <2>1
    <3>2. partitions # << >> /\ n \in 1..n
      BY <1>1, <2>1 DEF n
    <3>3. /\ t \in Seq(Partition) /\ Len(t) = n
          /\ \A i \in 1..n : /\ t[i].start = partitions[i].start
                             /\ t[i].reasons = partitions[i].reasons
                             /\ t[i].end = IF i = n THEN b ELSE partitions[i].end
      BY <1>1, <1>4, <3>2, StretchedType DEF n
    <3> HIDE DEF t
    <3>4. ASSUME NEW i \in 1..n PROVE Explains(t, i)
      <4>1. i > 1 => i - 1 \in 1..n /\ i - 1 # n
        BY <1>1
      <4>2. Explains(partitions, i)
        BY <1>5
      <4>3. CASE i # n
        BY <3>3, <4>1, <4>2, <4>3 DEF Explains
      <4>4. CASE i = n
        <5>1. t[i].start < b
          BY <1>1, <1>8, <3>3, <4>2, <4>4, <2>1 DEF Explains
        <5>2. ASSUME NEW d \in t[i].start..(b - 1) PROVE reasons = ReasonsAt(d)
          <6>1. CASE d < a
            <7>1. d \in partitions[i].start..(partitions[i].end - 1)
              BY <1>1, <1>8, <2>1, <3>3, <4>4, <5>2, <6>1
            <7> QED
              BY <2>1, <4>2, <4>4, <7>1 DEF Explains
          <6>2. CASE d >= a
            <7>1. d \in a..(b - 1)
              BY <1>1, <1>8, <3>3, <5>2, <6>2
            <7> QED
              BY <1>1, <7>1
          <6> QED
            BY <1>1, <1>8, <3>3, <5>2, <6>1, <6>2
        <5>3. t[i].end = b /\ t[i].reasons = reasons
          BY <2>1, <3>3, <4>4
        <5> QED
          BY <3>3, <4>1, <4>2, <5>1, <5>2, <5>3 DEF Explains
      <4> QED
        BY <4>3, <4>4
    <3>5. t # << >> /\ t[Len(t)].end = b
      BY <3>2, <3>3
    <3> QED
      BY <3>1, <3>3, <3>4, <3>5
  <2>2. CASE ~(n > 0 /\ partitions[n].reasons = reasons)
    <3> DEFINE t == Append(partitions, new)
    <3>1. partitions' = t
      BY <1>1, <2>2
    <3>2. /\ t \in Seq(Partition) /\ Len(t) = n + 1 /\ t # << >>
          /\ \A i \in 1..n : t[i] = partitions[i]
          /\ t[n + 1] = new
      BY <1>4, <1>6 DEF n
    <3> HIDE DEF t
    <3>3. ASSUME NEW i \in 1..n PROVE Explains(t, i)
      <4>1. i > 1 => i - 1 \in 1..n
        BY <1>1
      <4>2. Explains(partitions, i)
        BY <1>5
      <4> QED
        BY <3>2, <4>1, <4>2 DEF Explains
    <3>4. Explains(t, n + 1)
      <4>1. n = 0 \/ n \in 1..n
        BY <1>1
      <4>2. (n + 1) - 1 = n /\ (n + 1 = 1 <=> n = 0) /\ (n + 1 > 1 <=> n > 0)
        BY <1>1
      <4>3. new.start = IF n = 0 THEN CoreDepth.start ELSE t[n].end
        BY <1>1, <1>6, <3>2, <4>1
      <4>4. n > 0 => new.reasons # t[n].reasons
        BY <1>6, <2>2, <3>2, <4>1
      <4> QED
        BY <1>1, <1>6, <3>2, <4>2, <4>3, <4>4 DEF Explains
    <3>5. \A i \in 1..(n + 1) : i \in 1..n \/ i = n + 1
      BY <1>1
    <3> QED
      BY <1>6, <3>1, <3>2, <3>3, <3>4, <3>5
  <2> QED
    BY <2>1, <2>2
<1>10. ViewType'
  BY <1>2, <1>3, <1>4, <1>7, <1>9 DEF ViewType
<1>11. Reached'
  BY <1>2, <1>9 DEF Reached
<1> QED
  BY <1>3, <1>9, <1>10, <1>11 DEF ViewInv, Explains

LEMMA ViewKept ==
    ASSUME ViewInv, [Round]_viewVars
    PROVE  ViewInv'
<1>1. CASE UNCHANGED viewVars
  BY <1>1 DEF viewVars, ViewInv, ViewType, Reached, Cause, Partition, Inner, Points, Own, ReasonsAt
<1> QED
  BY <1>1, RoundKeeps

\* For every core, list of protected intervals and set of cases: the partitions
\* of Availability lie end to end, span the core, and name for each depth
\* exactly what holds it.
THEOREM DepthsExplained == ViewSpec => []ViewExplainsDepths
<1>1. ViewInv => ViewExplainsDepths
  <2> SUFFICES ASSUME ViewInv PROVE ViewExplainsDepths
    OBVIOUS
  <2>1. ASSUME round = Len(uniq)
        PROVE  partitions # << >> /\ Last(partitions).end = CoreDepth.end
    <3>1. ViewType /\ Reached
      BY DEF ViewInv
    <3>2. round # 1 /\ uniq[round] = CoreDepth.end
      BY <2>1, <3>1, UniqEnds
    <3> QED
      BY <3>1, <3>2 DEF Reached, Last
  <2> QED
    BY <2>1 DEF ViewInv, ViewExplainsDepths, ReasonsAt
<1> QED
  BY <1>1, ViewStarts, ViewKept, PTL DEF ViewSpec

\* No partition is empty, and no two neighbours could be one.
THEOREM CoarsestShown == ViewSpec => []ViewIsCoarsest
<1>1. ViewInv => ViewIsCoarsest
  BY DEF ViewInv, ViewIsCoarsest
<1> QED
  BY <1>1, ViewStarts, ViewKept, PTL DEF ViewSpec
=============================================================================
