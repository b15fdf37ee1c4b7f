--------------------------- MODULE MCRangeSource ---------------------------
(* Reads that overlap in every way and one apart from them, with a cache   *)
(* of MaxCache bytes that cannot hold all of them.                         *)
EXTENDS RangeSource

CONSTANTS left, right, middle, all, far

MCReads == {left, right, middle, all, far}
MCWant == [r \in MCReads |-> CASE r = left -> Interval(0, 2) [] r = right -> Interval(3, 4)
                               [] r = middle -> Interval(1, 3) [] r = all -> Interval(0, 4)
                               [] r = far -> Interval(5, 7)]

(* Three overlapping reads, for liveness. *)
LiveReads == {left, middle, all}
LiveWant == [r \in LiveReads |-> MCWant[r]]

(* The sweeps under the accessor, on every list of up to three segments of *)
(* a source of four bytes, in every order: #missing is the complement of   *)
(* the held bytes, #assemble succeeds exactly on what is held, and         *)
(* #coveredLength counts a byte once; what mergeIntervals and              *)
(* splitInterval make of the actions of a step covers them.                *)
Size == 4
Ranges == {i \in [lo : 0..Size, hi : 0..Size] : i.lo <= i.hi}
Lists == UNION {[1..n -> Ranges] : n \in 0..3}
Held(segments) == SelectSeq(segments, LAMBDA i : i.lo < i.hi)

ASSUME SweepsAgree ==
    \A segments \in Lists, want \in Ranges :
        /\ MissingExact(Held(segments), want)
        /\ AssembledExact(Held(segments), want)
        /\ CoveredExact(Held(segments), want)
        /\ want.lo < want.hi =>
              (Assembled(Held(segments), want) <=> Missing(Held(segments), want) = <<>>)

ASSUME PlanCoversActions ==
    /\ \A segments \in Lists : MergeExact(segments)
    /\ \A i \in Ranges, max \in 1..Size : SplitExact(i, max)
=============================================================================
