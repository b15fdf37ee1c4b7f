--------------------------- MODULE ResourceLedger ---------------------------
(***************************************************************************)
(* The byte ledger every official adapter artifact embeds                  *)
(* (src/src/resource.rs).  Bytes are charged to five ownership classes;    *)
(* four of them are the runtime's own and share one budget, the fifth only *)
(* counts what was handed to the caller.  An admission that does not fit   *)
(* clears the reclaimable cache and is tried exactly once more.            *)
(*                                                                         *)
(* The methods are operators on a ledger record, so that a caller which    *)
(* makes two of them in a row (resourceSnapshot) composes them; the state  *)
(* machine at the end calls them in any order.  WebAssembly page counts    *)
(* are telemetry that no decision reads and are left out.                  *)
(***************************************************************************)
EXTENDS Integers, FiniteSets

CONSTANTS
    BudgetBytes,   \* the runtime-owned budget (budget_bytes)
    MaxU64         \* the largest value a checked byte counter can hold

ASSUME LedgerAssumption ==
    /\ BudgetBytes \in Nat \ {0}
    /\ MaxU64 \in Nat
    /\ BudgetBytes <= MaxU64

VARIABLE ledger

-----------------------------------------------------------------------------
OwnedCategories == {"persistent", "active", "ingress", "cache"}

Categories == OwnedCategories \cup {"caller"}

Ledgers == [charged   : [Categories -> 0 .. MaxU64],
            highWater : 0 .. MaxU64,
            reclaimed : 0 .. MaxU64]

Ledger(charged, highWater, reclaimed) ==
    [charged |-> charged, highWater |-> highWater, reclaimed |-> reclaimed]

Nothing == [c \in Categories |-> 0]

EmptyLedger == Ledger(Nothing, 0, 0)

Accepted(l) == [ok |-> TRUE, ledger |-> l]

Refused(l) == [ok |-> FALSE, ledger |-> l]

\* runtime_owned_bytes: everything but what the caller owns.
OwnedBytes(charged) == charged["persistent"] + charged["active"]
                         + charged["ingress"] + charged["cache"]

\* What is about to be added is not counted.
CanAdmitAny(l, bytes) == OwnedBytes(l.charged) <= BudgetBytes

CanAdmit(l, bytes) == OwnedBytes(l.charged) + bytes <= BudgetBytes

Greater(a, b) == IF a > b THEN a ELSE b

\* add_unbounded: an overflowing counter is refused, an owned charge moves
\* the high-water mark.
AddUnbounded(l, category, bytes) ==
    LET charged == [l.charged EXCEPT ![category] = @ + bytes]
        mark    == IF category \in OwnedCategories
                   THEN Greater(OwnedBytes(charged), l.highWater)
                   ELSE l.highWater
    IN  IF charged[category] > MaxU64
        THEN Refused(l)
        ELSE Accepted(Ledger(charged, mark, l.reclaimed))

Charge(l, category, bytes) ==
    Ledger([l.charged EXCEPT ![category] = bytes], l.highWater, l.reclaimed)

\* clear_native_cache: the cache is gone even when the lifetime counter of
\* reclaimed bytes cannot take the number any more.
ClearNativeCache(l) ==
    LET total   == l.reclaimed + l.charged["cache"]
        cleared == Charge(l, "cache", 0)
    IN  IF total > MaxU64
        THEN Refused(cleared)
        ELSE Accepted(Ledger(cleared.charged, l.highWater, total))

Admit(l, category, bytes) ==
    LET cleared == ClearNativeCache(l)
    IN  IF category \notin OwnedCategories \/ CanAdmit(l, bytes)
        THEN AddUnbounded(l, category, bytes)
        ELSE IF cleared.ok /\ CanAdmit(cleared.ledger, bytes)
        THEN AddUnbounded(cleared.ledger, category, bytes)
        ELSE Refused(cleared.ledger)

Release(l, category, bytes) ==
    IF bytes > l.charged[category]
    THEN Refused(l)
    ELSE Accepted(Charge(l, category, l.charged[category] - bytes))

\* replace: the old charge is taken away while the new one is admitted, and
\* put back when it is refused (the cache cleared on the way stays cleared).
Replace(l, category, bytes) ==
    LET admitted == Admit(Charge(l, category, 0), category, bytes)
    IN  IF l.charged[category] = bytes
        THEN Accepted(l)
        ELSE IF admitted.ok
        THEN admitted
        ELSE Refused(Charge(admitted.ledger, category, l.charged[category]))

\* release_all keeps the high-water evidence.
ReleaseAll(l) == Ledger(Nothing, l.highWater, l.reclaimed)

-----------------------------------------------------------------------------
LedgerInit == ledger = EmptyLedger

Admits(category, bytes)   == ledger' = Admit(ledger, category, bytes).ledger
Releases(category, bytes) == ledger' = Release(ledger, category, bytes).ledger
Replaces(category, bytes) == ledger' = Replace(ledger, category, bytes).ledger

LedgerNext ==
    \/ \E category \in Categories, bytes \in 0 .. MaxU64 :
          \/ Admits(category, bytes)
          \/ Releases(category, bytes)
          \/ Replaces(category, bytes)
    \/ ledger' = ClearNativeCache(ledger).ledger
    \/ ledger' = ReleaseAll(ledger)

LedgerSpec == LedgerInit /\ [][LedgerNext]_ledger

-----------------------------------------------------------------------------
(***************************************************************************)
(* The runtime never owns more than its budget, and the high-water mark is *)
(* a true record of the peak: not below what is charged now, not above the *)
(* budget, whatever mixture of refused replacements and cache reclaims     *)
(* came before (ResourceLedger::admit, replace, clear_native_cache).       *)
(***************************************************************************)
LedgerInv ==
    /\ ledger \in Ledgers
    /\ OwnedBytes(ledger.charged) <= ledger.highWater
    /\ ledger.highWater <= BudgetBytes

=============================================================================
