--------------------------- MODULE MCRangeFlights ---------------------------
(* Three calls, the first two on different handles of the same table. *)
EXTENDS RangeFlights

CONSTANTS c1, c2, c3, h1, h2

MCHandleOf == [c \in Calls |-> IF c = c2 THEN h2 ELSE h1]
=============================================================================
