--------------------------- MODULE RangeIntervals ---------------------------
(***************************************************************************)
(* The interval arithmetic of RangeSourceAccessor                          *)
(* (js/worker/source-accessor.ts): which bytes of a wanted range the       *)
(* cached segments leave out, whether they cover it, how the actions of a  *)
(* step are merged and how a merged range is split.  Every function sorts  *)
(* its segments and sweeps a cursor over them.                             *)
(***************************************************************************)
EXTENDS Naturals, Sequences, FiniteSets, SequencesExt

(* A half-open range of bytes; hi is exclusive. *)
Interval(lo, hi) == [lo |-> lo, hi |-> hi]
Bytes(i) == i.lo..(i.hi - 1)
BytesOf(segments) == UNION {Bytes(segments[k]) : k \in DOMAIN segments}

Larger(m, n) == IF m >= n THEN m ELSE n
Smaller(m, n) == IF m <= n THEN m ELSE n

Overlaps(e, want) == e.hi > want.lo /\ e.lo < want.hi

(* The entries of a list that are in a set, in the list's order.           *)
Where(list, S) ==
    FoldLeft(LAMBDA kept, e : IF e \in S THEN Append(kept, e) ELSE kept, <<>>, list)

(* Segments in ascending order; equal ones stay as they are.               *)
Before(a, b) == a.lo < b.lo \/ (a.lo = b.lo /\ a.hi < b.hi)
Placed(list, e) ==
    Where(list, {x \in Range(list) : ~Before(e, x)}) \o <<e>>
        \o Where(list, {x \in Range(list) : Before(e, x)})
Sorted(segments) == FoldLeft(LAMBDA list, e : Placed(list, e), <<>>, segments)

Hits(segments, want) == Where(segments, {e \in Range(segments) : Overlaps(e, want)})

(* The segments that overlap the wanted range, clipped to it and sorted. *)
Clipped(segments, want) ==
    LET hits == Hits(segments, want)
    IN  Sorted([k \in DOMAIN hits |-> Interval(Larger(want.lo, hits[k].lo), Smaller(want.hi, hits[k].hi))])

(* #missing: the holes the segments leave in the wanted range, in order. *)
Missing(segments, want) ==
    LET sweep == FoldLeft(LAMBDA acc, e :
                    IF e.hi <= acc.cursor \/ acc.cursor >= want.hi THEN acc
                    ELSE [holes |-> IF e.lo > acc.cursor THEN Append(acc.holes, Interval(acc.cursor, e.lo)) ELSE acc.holes,
                          cursor |-> e.hi],
                    [holes |-> <<>>, cursor |-> want.lo], Clipped(segments, want))
    IN  IF sweep.cursor < want.hi THEN Append(sweep.holes, Interval(sweep.cursor, want.hi)) ELSE sweep.holes

(* #assemble: the segments yield every byte of the range, or nothing. *)
Assembled(segments, want) ==
    LET sweep == FoldLeft(LAMBDA cursor, e :
                    IF e.hi <= cursor \/ e.lo > cursor \/ cursor >= want.hi THEN cursor
                    ELSE Smaller(want.hi, e.hi),
                    want.lo, Sorted(Hits(segments, want)))
    IN  sweep >= want.hi

(* #coveredLength: bytes of the range the segments hold, each counted once. *)
CoveredLength(segments, want) ==
    FoldLeft(LAMBDA acc, e :
                LET start == Larger(acc.cursor, e.lo)
                IN  IF e.hi <= start THEN acc ELSE [bytes |-> acc.bytes + e.hi - start, cursor |-> e.hi],
             [bytes |-> 0, cursor |-> want.lo], Clipped(segments, want)).bytes

(* mergeIntervals: overlapping and directly adjacent ranges become one. *)
MergeIntervals(segments) ==
    FoldLeft(LAMBDA merged, e :
                IF merged # <<>> /\ e.lo <= Last(merged).hi
                THEN IF e.hi > Last(merged).hi THEN [merged EXCEPT ![Len(merged)].hi = e.hi] ELSE merged
                ELSE Append(merged, e),
             <<>>, Sorted(segments))

(* splitInterval: pieces of at most max bytes. *)
SplitInterval(i, max) ==
    IF i.hi <= i.lo THEN <<i>>
    ELSE [k \in 1..((i.hi - i.lo + max - 1) \div max) |->
             Interval(i.lo + (k - 1) * max, Smaller(i.hi, i.lo + k * max))]

----------------------------------------------------------------------------
(* What the functions must compute, by sets of bytes.                      *)
Increasing(s) == \A k \in 1..(Len(s) - 1) : s[k].hi < s[k + 1].lo

(* The holes are exactly the bytes not held, as maximal separate ranges,   *)
(* so no byte is fetched twice and none is left out.                       *)
MissingExact(segments, want) ==
    LET holes == Missing(segments, want)
    IN  /\ BytesOf(holes) = Bytes(want) \ BytesOf(segments)
        /\ \A k \in DOMAIN holes : holes[k].lo < holes[k].hi
        /\ Increasing(holes)

(* A range is assembled exactly when every byte of it is held.             *)
AssembledExact(segments, want) ==
    want.lo < want.hi => (Assembled(segments, want) <=> Bytes(want) \subseteq BytesOf(segments))

CoveredExact(segments, want) ==
    CoveredLength(segments, want) = Cardinality(Bytes(want) \cap BytesOf(segments))

(* Merging loses and adds no byte and leaves no two ranges that touch;     *)
(* splitting a range gives consecutive pieces within the limit.            *)
MergeExact(segments) ==
    BytesOf(MergeIntervals(segments)) = BytesOf(segments) /\ Increasing(MergeIntervals(segments))

SplitExact(i, max) ==
    LET pieces == SplitInterval(i, max)
    IN  /\ pieces[1].lo = i.lo /\ Last(pieces).hi = i.hi
        /\ \A k \in DOMAIN pieces : pieces[k].hi - pieces[k].lo <= max
        /\ \A k \in 1..(Len(pieces) - 1) : pieces[k].hi = pieces[k + 1].lo
=============================================================================
