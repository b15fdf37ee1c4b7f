---------------------------- MODULE AdaptersProofs ----------------------------
(***************************************************************************)
(* The four adapter artifacts for any sources, handles, weights, budgets   *)
(* and step limits.                                                        *)
(*                                                                         *)
(* A map of a registry is a function whose domain lies below its counter   *)
(* (Map), so a new handle is never one that is in use.  What a map weighs  *)
(* is the sum of the bytes of its entries (Weigh).  The invariant has one  *)
(* part per kind of artifact, and each action is reduced to what it takes  *)
(* out of the maps or adds to them.                                        *)
(*                                                                         *)
(* The ledger a snapshot charges comes first.  Its invariant is stated on  *)
(* ledger records (Sound) and each method is shown to take a sound ledger  *)
(* to a sound ledger.  The method that needs an argument is replace: it    *)
(* takes a charge away, may clear the cache and be refused, and puts the   *)
(* old charge back without asking again.  A refused admission leaves every *)
(* charge where it was or lower (RefusedIsLower), so the restored ledger   *)
(* is below the one replace started from, and that one was below the       *)
(* high-water mark.                                                        *)
(*                                                                         *)
(* The last part is about WorkerRanges, the scheduler that drives the      *)
(* adapters from the Worker.                                               *)
(***************************************************************************)
EXTENDS Adapters, WorkerRanges, FoldTheorems

-----------------------------------------------------------------------------
(* The resource ledger.                                                    *)
Sound(l) ==
    /\ l \in Ledgers
    /\ OwnedBytes(l.charged) <= l.highWater
    /\ l.highWater <= BudgetBytes

Charges == [Categories -> 0 .. MaxU64]

\* The parts of a ledger record.
LEMMA LedgerFields ==
    ASSUME NEW ch, NEW hw, NEW rc
    PROVE  /\ Ledger(ch, hw, rc).charged = ch
           /\ Ledger(ch, hw, rc).highWater = hw
           /\ Ledger(ch, hw, rc).reclaimed = rc
  BY DEF Ledger

\* A ledger is sound when its parts are in range and ordered.
LEMMA SoundParts ==
    ASSUME NEW ch \in Charges, NEW hw \in 0 .. MaxU64, NEW rc \in 0 .. MaxU64,
           OwnedBytes(ch) <= hw, hw <= BudgetBytes
    PROVE  Sound(Ledger(ch, hw, rc))
  BY DEF Sound, Ledger, Ledgers, Charges

LEMMA PartsOfSound ==
    ASSUME NEW l, Sound(l)
    PROVE  /\ l.charged \in Charges
           /\ l.highWater \in 0 .. MaxU64
           /\ l.reclaimed \in 0 .. MaxU64
           /\ OwnedBytes(l.charged) <= l.highWater
           /\ l.highWater <= BudgetBytes
  BY DEF Sound, Ledgers, Charges

LEMMA OwnedIsNat ==
    ASSUME NEW ch \in Charges
    PROVE  OwnedBytes(ch) \in Nat
  BY LedgerAssumption DEF Charges, OwnedBytes, Categories, OwnedCategories

\* The owned bytes are monotone in every single charge.
LEMMA OwnedMonotone ==
    ASSUME NEW a \in Charges, NEW b \in Charges,
           \A c \in Categories : a[c] <= b[c]
    PROVE  OwnedBytes(a) <= OwnedBytes(b)
<1>1. /\ a["persistent"] <= b["persistent"] /\ a["active"] <= b["active"]
      /\ a["ingress"] <= b["ingress"] /\ a["cache"] <= b["cache"]
  BY DEF Categories, OwnedCategories
<1>2. \A c \in Categories : a[c] \in Nat /\ b[c] \in Nat
  BY LedgerAssumption DEF Charges
<1>3. /\ a["persistent"] \in Nat /\ a["active"] \in Nat
      /\ a["ingress"] \in Nat /\ a["cache"] \in Nat
      /\ b["persistent"] \in Nat /\ b["active"] \in Nat
      /\ b["ingress"] \in Nat /\ b["cache"] \in Nat
  BY <1>2 DEF Categories, OwnedCategories
<1> QED
  BY <1>1, <1>3 DEF OwnedBytes

\* Setting one charge keeps the charges well formed.
LEMMA ChargeTyped ==
    ASSUME NEW ch \in Charges, NEW c \in Categories, NEW n \in 0 .. MaxU64
    PROVE  /\ [ch EXCEPT ![c] = n] \in Charges
           /\ [ch EXCEPT ![c] = n][c] = n
           /\ \A d \in Categories \ {c} : [ch EXCEPT ![c] = n][d] = ch[d]
  BY DEF Charges

\* Adding to one owned charge adds to the sum.
LEMMA OwnedCategoriesSum ==
    ASSUME NEW a \in Charges, NEW b \in Charges,
           NEW c \in OwnedCategories, NEW n \in Nat,
           a[c] = b[c] + n,
           \A d \in Categories \ {c} : a[d] = b[d]
    PROVE  OwnedBytes(a) = OwnedBytes(b) + n
<1>1. \A c1 \in Categories : a[c1] \in Nat /\ b[c1] \in Nat
  BY LedgerAssumption DEF Charges
<1>2. /\ b["persistent"] \in Nat /\ b["active"] \in Nat
      /\ b["ingress"] \in Nat /\ b["cache"] \in Nat
  BY <1>1 DEF Categories, OwnedCategories
<1>3. CASE c = "persistent"
  <2>1. a["active"] = b["active"] /\ a["ingress"] = b["ingress"]
        /\ a["cache"] = b["cache"]
    BY <1>3 DEF Categories, OwnedCategories
  <2> QED BY <1>2, <1>3, <2>1 DEF OwnedBytes
<1>4. CASE c = "active"
  <2>1. a["persistent"] = b["persistent"] /\ a["ingress"] = b["ingress"]
        /\ a["cache"] = b["cache"]
    BY <1>4 DEF Categories, OwnedCategories
  <2> QED BY <1>2, <1>4, <2>1 DEF OwnedBytes
<1>5. CASE c = "ingress"
  <2>1. a["persistent"] = b["persistent"] /\ a["active"] = b["active"]
        /\ a["cache"] = b["cache"]
    BY <1>5 DEF Categories, OwnedCategories
  <2> QED BY <1>2, <1>5, <2>1 DEF OwnedBytes
<1>6. CASE c = "cache"
  <2>1. a["persistent"] = b["persistent"] /\ a["active"] = b["active"]
        /\ a["ingress"] = b["ingress"]
    BY <1>6 DEF Categories, OwnedCategories
  <2> QED BY <1>2, <1>6, <2>1 DEF OwnedBytes
<1> QED
  BY <1>3, <1>4, <1>5, <1>6 DEF OwnedCategories

\* Lowering one charge of a sound ledger leaves it sound.
LEMMA LowerIsSound ==
    ASSUME NEW l, Sound(l), NEW c \in Categories,
           NEW n \in 0 .. MaxU64, n <= l.charged[c]
    PROVE  Sound(Charge(l, c, n))
<1> DEFINE ch == [l.charged EXCEPT ![c] = n]
<1>1. l.charged \in Charges /\ \A d \in Categories : l.charged[d] \in Nat
  BY PartsOfSound, LedgerAssumption DEF Charges
<1>2. ch \in Charges /\ \A d \in Categories : ch[d] <= l.charged[d]
  BY <1>1, ChargeTyped, LedgerAssumption
<1>3. OwnedBytes(ch) <= OwnedBytes(l.charged)
  BY <1>1, <1>2, OwnedMonotone
<1>4. OwnedBytes(ch) <= l.highWater
  BY <1>1, <1>2, <1>3, PartsOfSound, OwnedIsNat, LedgerAssumption
<1> QED
  BY <1>2, <1>4, PartsOfSound, SoundParts DEF Charge

\* A charge below the budget that was admitted moves the mark with it.
LEMMA AddIsSound ==
    ASSUME NEW l, Sound(l), NEW c \in Categories, NEW n \in 0 .. MaxU64,
           c \in OwnedCategories => CanAdmit(l, n)
    PROVE  Sound(AddUnbounded(l, c, n).ledger)
<1> DEFINE ch == [l.charged EXCEPT ![c] = @ + n]
<1> DEFINE mark == IF c \in OwnedCategories
                   THEN Greater(OwnedBytes(ch), l.highWater)
                   ELSE l.highWater
<1>1. /\ l.charged \in Charges
      /\ \A d \in Categories : l.charged[d] \in Nat
      /\ l.highWater \in Nat
      /\ OwnedBytes(l.charged) \in Nat
      /\ OwnedBytes(l.charged) <= l.highWater
      /\ l.highWater <= BudgetBytes
      /\ l.reclaimed \in 0 .. MaxU64
  BY PartsOfSound, OwnedIsNat, LedgerAssumption DEF Charges
<1>2. CASE ch[c] > MaxU64
  BY <1>2 DEF AddUnbounded, Refused
<1>3. CASE ~ (ch[c] > MaxU64)
  <2>1. ch[c] = l.charged[c] + n
    BY <1>1 DEF Charges
  <2>2. ch = [l.charged EXCEPT ![c] = l.charged[c] + n]
    BY <1>1 DEF Charges
  <2>3. l.charged[c] + n \in 0 .. MaxU64
    BY <1>1, <1>3, <2>1, LedgerAssumption
  <2>4. ch \in Charges /\ \A d \in Categories \ {c} : ch[d] = l.charged[d]
    BY <1>1, <2>2, <2>3, ChargeTyped
  <2>5. OwnedBytes(ch) \in Nat
    BY <2>4, OwnedIsNat
  <2>6. OwnedBytes(ch) <= mark /\ mark <= BudgetBytes /\ mark \in Nat
    <3>1. CASE c \in OwnedCategories
      <4>1. OwnedBytes(ch) = OwnedBytes(l.charged) + n
        <5>1. n \in Nat
          BY LedgerAssumption
        <5> HIDE DEF ch
        <5> QED
          BY <1>1, <2>1, <2>4, <3>1, <5>1, OwnedCategoriesSum
      <4>2. OwnedBytes(ch) <= BudgetBytes
        BY <3>1, <4>1 DEF CanAdmit
      <4> QED
        BY <1>1, <2>5, <3>1, <4>2, LedgerAssumption DEF Greater
    <3>2. CASE c \notin OwnedCategories
      <4>1. /\ ch["persistent"] = l.charged["persistent"]
            /\ ch["active"] = l.charged["active"]
            /\ ch["ingress"] = l.charged["ingress"]
            /\ ch["cache"] = l.charged["cache"]
        BY <2>4, <3>2 DEF Categories, OwnedCategories
      <4> QED
        BY <1>1, <3>2, <4>1 DEF OwnedBytes
    <3> QED
      BY <3>1, <3>2
  <2>7. mark \in 0 .. MaxU64
    BY <2>6, LedgerAssumption
  <2>8. AddUnbounded(l, c, n).ledger = Ledger(ch, mark, l.reclaimed)
    BY <1>3 DEF AddUnbounded, Accepted
  <2> QED
    BY <1>1, <2>4, <2>6, <2>7, <2>8, SoundParts
<1> QED
  BY <1>2, <1>3

\* Clearing the cache keeps a ledger sound, and raises no charge.
LEMMA ClearIsSound ==
    ASSUME NEW l, Sound(l)
    PROVE  /\ Sound(ClearNativeCache(l).ledger)
           /\ ClearNativeCache(l).ledger.highWater = l.highWater
           /\ \A d \in Categories :
                 ClearNativeCache(l).ledger.charged[d] <= l.charged[d]
<1> DEFINE ch == [l.charged EXCEPT !["cache"] = 0]
<1> DEFINE total == l.reclaimed + l.charged["cache"]
<1>1. /\ l.charged \in Charges /\ "cache" \in Categories
      /\ \A d \in Categories : l.charged[d] \in Nat
      /\ l.reclaimed \in Nat
  BY PartsOfSound, LedgerAssumption
  DEF Charges, Categories, OwnedCategories
<1>2. 0 \in 0 .. MaxU64 /\ 0 <= l.charged["cache"]
  BY <1>1, LedgerAssumption
<1>3. Sound(Ledger(ch, l.highWater, l.reclaimed))
  BY <1>1, <1>2, LowerIsSound DEF Charge
<1>4. \A d \in Categories : ch[d] <= l.charged[d]
  BY <1>1, <1>2, ChargeTyped
<1>5. CASE total > MaxU64
  <2>1. ClearNativeCache(l).ledger = Ledger(ch, l.highWater, l.reclaimed)
    BY <1>5 DEF ClearNativeCache, Refused, Charge
  <2>2. /\ ClearNativeCache(l).ledger.charged = ch
        /\ ClearNativeCache(l).ledger.highWater = l.highWater
    BY <2>1, LedgerFields
  <2>3. Sound(ClearNativeCache(l).ledger)
    BY <1>3, <2>1
  <2> QED
    BY <1>4, <2>2, <2>3
<1>6. CASE ~ (total > MaxU64)
  <2>1. ClearNativeCache(l).ledger = Ledger(ch, l.highWater, total)
    BY <1>6, LedgerFields DEF ClearNativeCache, Accepted, Charge
  <2>2. total \in 0 .. MaxU64
    BY <1>1, <1>6, LedgerAssumption
  <2>3. /\ ch \in Charges /\ l.highWater \in 0 .. MaxU64
        /\ OwnedBytes(ch) <= l.highWater /\ l.highWater <= BudgetBytes
    BY <1>3, PartsOfSound, LedgerFields
  <2>4. Sound(Ledger(ch, l.highWater, total))
    BY <2>2, <2>3, SoundParts
  <2>5. /\ ClearNativeCache(l).ledger.charged = ch
        /\ ClearNativeCache(l).ledger.highWater = l.highWater
    BY <2>1, LedgerFields
  <2>6. Sound(ClearNativeCache(l).ledger)
    BY <2>1, <2>4
  <2> QED
    BY <1>4, <2>5, <2>6
<1> QED
  BY <1>5, <1>6

\* An admission that is refused leaves every charge where it was or lower.
LEMMA RefusedIsLower ==
    ASSUME NEW l, Sound(l), NEW c \in Categories, NEW n \in Nat,
           n <= MaxU64 \/ c \in OwnedCategories,
           ~ Admit(l, c, n).ok
    PROVE  /\ Sound(Admit(l, c, n).ledger)
           /\ Admit(l, c, n).ledger.highWater = l.highWater
           /\ \A d \in Categories :
                 Admit(l, c, n).ledger.charged[d] <= l.charged[d]
<1> DEFINE r == ClearNativeCache(l)
<1>1. /\ Sound(r.ledger) /\ r.ledger.highWater = l.highWater
      /\ \A d \in Categories : r.ledger.charged[d] <= l.charged[d]
  BY ClearIsSound
<1>2. \A k : AddUnbounded(k, c, n).ok \/ AddUnbounded(k, c, n).ledger = k
  BY DEF AddUnbounded, Accepted, Refused
<1>3. Admit(l, c, n).ledger = l \/ Admit(l, c, n).ledger = r.ledger
  <2>1. CASE c \notin OwnedCategories \/ CanAdmit(l, n)
    <3>1. Admit(l, c, n) = AddUnbounded(l, c, n)
      BY <2>1 DEF Admit
    <3> QED BY <1>2, <3>1
  <2>2. CASE /\ ~ (c \notin OwnedCategories \/ CanAdmit(l, n))
             /\ r.ok /\ CanAdmit(r.ledger, n)
    <3>1. Admit(l, c, n) = AddUnbounded(r.ledger, c, n)
      BY <2>2 DEF Admit
    <3> QED BY <1>2, <3>1
  <2>3. CASE /\ ~ (c \notin OwnedCategories \/ CanAdmit(l, n))
             /\ ~ (r.ok /\ CanAdmit(r.ledger, n))
    <3>1. Admit(l, c, n) = Refused(r.ledger)
      BY <2>3 DEF Admit
    <3> QED BY <3>1 DEF Refused
  <2> QED BY <2>1, <2>2, <2>3
<1>4. \A d \in Categories : l.charged[d] <= l.charged[d]
  BY PartsOfSound, LedgerAssumption DEF Charges
<1>5. CASE Admit(l, c, n).ledger = l
  BY <1>4, <1>5
<1>6. CASE Admit(l, c, n).ledger = r.ledger
  BY <1>1, <1>6
<1> QED
  BY <1>3, <1>5, <1>6

\* Admission keeps a ledger sound, whatever it answers.
LEMMA AdmitIsSound ==
    ASSUME NEW l, Sound(l), NEW c \in Categories, NEW n \in Nat,
           n <= MaxU64 \/ c \in OwnedCategories
    PROVE  Sound(Admit(l, c, n).ledger)
<1> DEFINE r == ClearNativeCache(l)
<1>1. Sound(r.ledger)
  BY ClearIsSound
<1> DEFINE Fitting(k) == n \in 0 .. MaxU64 /\ (c \in OwnedCategories => CanAdmit(k, n))
<1>2. ASSUME NEW k, Sound(k), c \notin OwnedCategories \/ CanAdmit(k, n)
      PROVE  Fitting(k)
  <2>1. k.charged \in Charges
    BY <1>2, PartsOfSound
  <2>2. OwnedBytes(k.charged) \in Nat
    BY <2>1, OwnedIsNat
  <2> QED
    BY <1>2, <2>2, LedgerAssumption DEF CanAdmit
<1>3. CASE c \notin OwnedCategories \/ CanAdmit(l, n)
  <2>1. Admit(l, c, n) = AddUnbounded(l, c, n)
    BY <1>3 DEF Admit
  <2>2. Fitting(l)
    BY <1>3, <1>2
  <2>3. Sound(AddUnbounded(l, c, n).ledger)
    BY <2>2, AddIsSound
  <2> QED BY <2>1, <2>3
<1>4. CASE /\ ~ (c \notin OwnedCategories \/ CanAdmit(l, n))
           /\ r.ok /\ CanAdmit(r.ledger, n)
  <2>1. Admit(l, c, n) = AddUnbounded(r.ledger, c, n)
    BY <1>4 DEF Admit
  <2>2. Fitting(r.ledger)
    BY <1>1, <1>4, <1>2
  <2>3. Sound(AddUnbounded(r.ledger, c, n).ledger)
    BY <1>1, <2>2, AddIsSound
  <2> QED BY <2>1, <2>3
<1>5. CASE /\ ~ (c \notin OwnedCategories \/ CanAdmit(l, n))
           /\ ~ (r.ok /\ CanAdmit(r.ledger, n))
  <2>1. Admit(l, c, n).ledger = r.ledger
    BY <1>5 DEF Admit, Refused
  <2> QED BY <1>1, <2>1
<1> QED
  BY <1>3, <1>4, <1>5

\* A release only lowers one charge.
LEMMA ReleaseIsSound ==
    ASSUME NEW l, Sound(l), NEW c \in Categories, NEW n \in 0 .. MaxU64
    PROVE  Sound(Release(l, c, n).ledger)
<1>1. \A d \in Categories : l.charged[d] \in 0 .. MaxU64
  BY PartsOfSound DEF Charges
<1>2. CASE n > l.charged[c]
  BY <1>2 DEF Release, Refused
<1>3. CASE ~ (n > l.charged[c])
  <2> DEFINE m == l.charged[c] - n
  <2>1. m \in 0 .. MaxU64 /\ m <= l.charged[c]
    BY <1>1, <1>3, LedgerAssumption
  <2>2. Sound(Charge(l, c, m))
    BY <2>1, LowerIsSound
  <2>3. Release(l, c, n).ledger = Charge(l, c, m)
    BY <1>3 DEF Release, Accepted
  <2> QED BY <2>2, <2>3
<1> QED
  BY <1>2, <1>3

\* A refused replacement restores a charge no higher than the sound ledger
\* it began with.
LEMMA ReplaceIsSound ==
    ASSUME NEW l, Sound(l), NEW c \in Categories, NEW n \in Nat,
           n <= MaxU64 \/ c \in OwnedCategories
    PROVE  Sound(Replace(l, c, n).ledger)
<1> DEFINE k == Charge(l, c, 0)
<1> DEFINE a == Admit(k, c, n)
<1> DEFINE old == l.charged[c]
<1>1. l.charged \in Charges /\ \A d \in Categories : l.charged[d] \in Nat
  BY PartsOfSound, LedgerAssumption DEF Charges
<1>2. old \in 0 .. MaxU64 /\ 0 \in 0 .. MaxU64 /\ 0 <= old
  BY <1>1, LedgerAssumption DEF Charges
<1>3. Sound(k)
  BY <1>2, LowerIsSound
<1>4. /\ k.highWater = l.highWater /\ k.charged = [l.charged EXCEPT ![c] = 0]
  BY LedgerFields DEF Charge
<1>5. CASE old = n
  BY <1>5 DEF Replace, Accepted
<1>6. CASE old # n /\ a.ok
  <2>1. Sound(a.ledger)
    BY <1>3, AdmitIsSound
  <2>2. Replace(l, c, n).ledger = a.ledger
    BY <1>6 DEF Replace
  <2> QED BY <2>1, <2>2
<1>7. CASE old # n /\ ~ a.ok
  <2> DEFINE b == a.ledger
  <2> DEFINE ch == [b.charged EXCEPT ![c] = old]
  <2>1. /\ Sound(b) /\ b.highWater = l.highWater
        /\ \A d \in Categories : b.charged[d] <= k.charged[d]
    BY <1>3, <1>4, <1>7, RefusedIsLower
  <2>2. b.charged \in Charges /\ \A d \in Categories : b.charged[d] \in Nat
    BY <2>1, PartsOfSound, LedgerAssumption DEF Charges
  <2>3. ch \in Charges /\ ch[c] = old
        /\ \A d \in Categories \ {c} : ch[d] = b.charged[d]
    BY <1>2, <2>2, ChargeTyped
  <2>4. \A d \in Categories \ {c} : k.charged[d] = l.charged[d]
    BY <1>1, <1>2, <1>4, ChargeTyped
  <2>5. \A d \in Categories : ch[d] <= l.charged[d]
    BY <1>1, <2>1, <2>3, <2>4
  <2>6. OwnedBytes(ch) <= OwnedBytes(l.charged)
    BY <1>1, <2>3, <2>5, OwnedMonotone
  <2>7. /\ OwnedBytes(ch) <= b.highWater /\ b.highWater <= BudgetBytes
        /\ b.highWater \in 0 .. MaxU64 /\ b.reclaimed \in 0 .. MaxU64
    BY <1>1, <2>1, <2>3, <2>6, PartsOfSound, OwnedIsNat, LedgerAssumption
  <2>8. Sound(Ledger(ch, b.highWater, b.reclaimed))
    BY <2>3, <2>7, SoundParts
  <2>9. Replace(l, c, n).ledger = Ledger(ch, b.highWater, b.reclaimed)
    BY <1>7 DEF Replace, Refused, Charge
  <2> QED BY <2>8, <2>9
<1> QED
  BY <1>5, <1>6, <1>7

\* Giving everything back keeps the marks.
LEMMA ReleaseAllIsSound ==
    ASSUME NEW l, Sound(l)
    PROVE  Sound(ReleaseAll(l))
<1>1. Nothing \in Charges /\ OwnedBytes(Nothing) = 0
  BY LedgerAssumption
  DEF Nothing, Charges, OwnedBytes, Categories, OwnedCategories
<1>2. 0 <= l.highWater
  BY PartsOfSound, LedgerAssumption
<1> QED
  BY <1>1, <1>2, PartsOfSound, SoundParts DEF ReleaseAll

-----------------------------------------------------------------------------
(***************************************************************************)
(* For every budget and counter width, no sequence of admissions,          *)
(* releases, replacements and reclaims of ResourceLedger takes the         *)
(* runtime-owned bytes above the recorded high-water mark, nor that mark   *)
(* above the budget.                                                       *)
(***************************************************************************)
THEOREM LedgerSafe == LedgerSpec => []LedgerInv
<1>1. LedgerInit => LedgerInv
  <2>1. Nothing \in Charges /\ OwnedBytes(Nothing) = 0
    BY LedgerAssumption
    DEF Nothing, Charges, OwnedBytes, Categories, OwnedCategories
  <2>2. 0 \in 0 .. MaxU64 /\ 0 <= 0 /\ 0 <= BudgetBytes
    BY LedgerAssumption
  <2>3. Sound(EmptyLedger)
    BY <2>1, <2>2, SoundParts DEF EmptyLedger
  <2> QED
    BY <2>3 DEF LedgerInit, Sound, LedgerInv
<1>2. LedgerInv /\ [LedgerNext]_ledger => LedgerInv'
  <2> SUFFICES ASSUME Sound(ledger), [LedgerNext]_ledger
               PROVE  Sound(ledger')
    BY DEF Sound, LedgerInv
  <2>1. ASSUME NEW c \in Categories, NEW n \in 0 .. MaxU64, Admits(c, n)
        PROVE  Sound(ledger')
    BY <2>1, AdmitIsSound DEF Admits
  <2>2. ASSUME NEW c \in Categories, NEW n \in 0 .. MaxU64, Releases(c, n)
        PROVE  Sound(ledger')
    BY <2>2, ReleaseIsSound DEF Releases
  <2>3. ASSUME NEW c \in Categories, NEW n \in 0 .. MaxU64, Replaces(c, n)
        PROVE  Sound(ledger')
    BY <2>3, ReplaceIsSound DEF Replaces
  <2>4. CASE ledger' = ClearNativeCache(ledger).ledger
    BY <2>4, ClearIsSound
  <2>5. CASE ledger' = ReleaseAll(ledger)
    BY <2>5, ReleaseAllIsSound
  <2>6. CASE UNCHANGED ledger
    BY <2>6
  <2> QED
    BY <2>1, <2>2, <2>3, <2>4, <2>5, <2>6 DEF LedgerNext
<1> QED
  BY <1>1, <1>2, PTL DEF LedgerSpec

-----------------------------------------------------------------------------
(* Maps under a counter.                                                   *)
Map(f, V, n) == f \in [DOMAIN f -> V] /\ DOMAIN f \subseteq 1 .. (n - 1)

LEMMA MapFinite ==
  ASSUME NEW f, NEW V, NEW n \in Nat, Map(f, V, n)
  PROVE  IsFiniteSet(DOMAIN f) /\ n \notin DOMAIN f
         /\ \A x \in DOMAIN f : x \in Nat /\ x > 0 /\ x < n /\ f[x] \in V
  <1>1. IsFiniteSet(1 .. (n - 1)) BY FS_Interval
  <1>2. QED BY <1>1, FS_Subset DEF Map

LEMMA MapEmpty == ASSUME NEW V, NEW n PROVE Map(Empty, V, n) /\ DOMAIN Empty = {}
  BY DEF Map, Empty

LEMMA MapLater ==
  ASSUME NEW f, NEW V, NEW n \in Nat, Map(f, V, n), NEW m \in Nat, n <= m
  PROVE  Map(f, V, m)
  BY DEF Map

LEMMA MapWith ==
  ASSUME NEW f, NEW V, NEW n \in Nat, Map(f, V, n), NEW k \in Nat, k > 0,
         NEW m \in Nat, n <= m, k < m, NEW v \in V
  PROVE  /\ Map(With(f, k, v), V, m)
         /\ DOMAIN With(f, k, v) = DOMAIN f \cup {k} /\ With(f, k, v)[k] = v
         /\ \A x \in DOMAIN f : x # k => With(f, k, v)[x] = f[x]
  BY DEF Map, With

LEMMA MapWithout ==
  ASSUME NEW f, NEW V, NEW n, Map(f, V, n), NEW S
  PROVE  /\ Map(Without(f, S), V, n) /\ DOMAIN Without(f, S) = DOMAIN f \ S
         /\ \A x \in DOMAIN f \ S : Without(f, S)[x] = f[x]
  BY DEF Map, Without, Restrict

LEMMA WithoutNothing ==
  ASSUME NEW f, NEW V, NEW n, Map(f, V, n), NEW S, S \cap DOMAIN f = {}
  PROVE  Without(f, S) = f
  BY DEF Map, Without, Restrict

LEMMA MapPut ==
  ASSUME NEW f, NEW V, NEW n, Map(f, V, n), NEW k \in DOMAIN f, NEW v \in V
  PROVE  /\ Map([f EXCEPT ![k] = v], V, n) /\ DOMAIN [f EXCEPT ![k] = v] = DOMAIN f
         /\ [f EXCEPT ![k] = v][k] = v
         /\ \A x \in DOMAIN f : x # k => [f EXCEPT ![k] = v][x] = f[x]
  BY DEF Map

-----------------------------------------------------------------------------
(* The bytes of the entries of a map.                                      *)
BytesIn(f) == [x \in DOMAIN f |-> f[x].bytes]
Weigh(f) == Total(BytesIn(f), DOMAIN f)

Weighted(f) == IsFiniteSet(DOMAIN f) /\ \A x \in DOMAIN f : f[x].bytes \in Nat

LEMMA WeighIsSum ==
  ASSUME NEW f, Weighted(f)
  PROVE  /\ SumOf(f, SourceBytes) = Weigh(f) /\ SumOf(f, TableBytes) = Weigh(f)
         /\ Weigh(f) \in Nat
  <1> DEFINE w == BytesIn(f)
             S == DOMAIN f
             G == SumOver(w, S)
             W == CHOOSE g : g = [s \in SUBSET S |->
                     IF s = {} THEN 0 ELSE f[Pick(s)].bytes + g[s \ {Pick(s)}]]
             P == {s \in SUBSET S : W[s] = G[s]}
  <1>1. NatOn(w, S) /\ \A x \in S : w[x] = f[x].bytes BY DEF Weighted, BytesIn, NatOn
  <1>2. SumOf(f, SourceBytes) = W[S] /\ SumOf(f, TableBytes) = W[S]
    BY Zenon DEF SumOf, SourceBytes, TableBytes, FoldSet, MapThenFoldSet, Pick
  <1>3. /\ G \in [SUBSET S -> Nat]
        /\ \A s \in SUBSET S : G[s] = IF s = {} THEN 0 ELSE w[Pick(s)] + G[s \ {Pick(s)}]
    <2>1. NatOn(w, S) BY <1>1
    <2> HIDE DEF w, S
    <2>2. QED BY <2>1, SumOverExists
  <1> HIDE DEF G, w
  <1>4. \A s \in SUBSET S : s # {} => Pick(s) \in s BY DEF Pick
  <1>5. \A s \in SUBSET S : s # {} => w[Pick(s)] = f[Pick(s)].bytes BY <1>1, <1>4
  <1>6. G = [s \in SUBSET S |->
                IF s = {} THEN 0 ELSE f[Pick(s)].bytes + G[s \ {Pick(s)}]]
    BY <1>3, <1>5
  <1>7. W = [s \in SUBSET S |->
                IF s = {} THEN 0 ELSE f[Pick(s)].bytes + W[s \ {Pick(s)}]]
    BY <1>6, Zenon
  <1> HIDE DEF W
  <1>8. \A s \in SUBSET S :
           /\ W[s] = IF s = {} THEN 0 ELSE f[Pick(s)].bytes + W[s \ {Pick(s)}]
           /\ G[s] = IF s = {} THEN 0 ELSE f[Pick(s)].bytes + G[s \ {Pick(s)}]
    BY <1>3, <1>5, <1>7
  <1>9. ASSUME NEW s \in SUBSET S, \A t \in SUBSET s : t # s => t \in P PROVE s \in P
    <2>1. CASE s = {} BY <1>8, <2>1
    <2>2. CASE s # {}
      <3>1. s \ {Pick(s)} \in SUBSET s /\ s \ {Pick(s)} # s BY <1>4, <2>2
      <3>2. W[s \ {Pick(s)}] = G[s \ {Pick(s)}] BY <1>9, <3>1
      <3>3. W[s] = G[s] BY <1>8, <2>2, <3>2
      <3>4. QED BY <3>3
    <2>3. QED BY <2>1, <2>2
  <1>10. P \in SUBSET SUBSET S /\ IsFiniteSet(S) BY DEF Weighted
  <1> HIDE DEF P
  <1>11. SUBSET S \subseteq P BY <1>9, <1>10, InductSize
  <1>12. W[S] = G[S] BY <1>11 DEF P
  <1>13. Weigh(f) = G[S] BY DEF Weigh, Total, G, w
  <1>14. Weigh(f) \in Nat BY <1>1, TotalType DEF Weigh, w
  <1>15. QED BY <1>2, <1>12, <1>13, <1>14

LEMMA WeighEmpty == Weighted(Empty) /\ Weigh(Empty) = 0
  BY MapEmpty, TotalEmpty, FS_EmptySet DEF Weigh, Weighted

LEMMA WeighWith ==
  ASSUME NEW f, Weighted(f), NEW k, k \notin DOMAIN f, NEW v, v.bytes \in Nat
  PROVE  Weighted(With(f, k, v)) /\ Weigh(With(f, k, v)) = Weigh(f) + v.bytes
  <1> DEFINE g == With(f, k, v)
             S == DOMAIN f
  <1>1. DOMAIN g = S \cup {k} /\ g[k] = v /\ \A x \in S : g[x] = f[x] BY DEF With
  <1> HIDE DEF g
  <1>2. Weighted(g) BY <1>1, FS_AddElement DEF Weighted
  <1>3. NatOn(BytesIn(f), S) /\ \A x \in S : BytesIn(g)[x] = BytesIn(f)[x]
    BY <1>1 DEF Weighted, BytesIn, NatOn
  <1>4. NatOn(BytesIn(g), S) /\ Total(BytesIn(g), S) = Total(BytesIn(f), S)
    BY <1>3, TotalSame
  <1>5. BytesIn(g)[k] = v.bytes BY <1>1 DEF BytesIn
  <1>6. Total(BytesIn(g), S \cup {k}) = v.bytes + Total(BytesIn(g), S)
    BY <1>4, <1>5, TotalAdd
  <1>7. Total(BytesIn(f), S) \in Nat BY <1>3, TotalType
  <1>8. QED BY <1>1, <1>2, <1>4, <1>6, <1>7 DEF Weigh, g

LEMMA WeighSplit ==
  ASSUME NEW f, Weighted(f), NEW S
  PROVE  /\ Weighted(Without(f, S)) /\ Weighted(Restrict(f, DOMAIN f \cap S))
         /\ Weigh(f) = Weigh(Without(f, S)) + Weigh(Restrict(f, DOMAIN f \cap S))
  <1> DEFINE g == Without(f, S)
             h == Restrict(f, DOMAIN f \cap S)
             D == DOMAIN f \ S
             C == DOMAIN f \cap S
  <1>1. /\ DOMAIN g = D /\ \A x \in D : g[x] = f[x]
        /\ DOMAIN h = C /\ \A x \in C : h[x] = f[x]
    BY DEF Without, Restrict
  <1>2. IsFiniteSet(D) /\ IsFiniteSet(C) BY FS_Subset DEF Weighted
  <1> HIDE DEF g, h
  <1>3. Weighted(g) /\ Weighted(h) BY <1>1, <1>2 DEF Weighted
  <1>4. /\ NatOn(BytesIn(f), D) /\ \A x \in D : BytesIn(g)[x] = BytesIn(f)[x]
        /\ NatOn(BytesIn(f), C) /\ \A x \in C : BytesIn(h)[x] = BytesIn(f)[x]
    BY <1>1, <1>2 DEF Weighted, BytesIn, NatOn
  <1>5. Total(BytesIn(g), D) = Total(BytesIn(f), D) BY <1>4, TotalSame
  <1>6. Total(BytesIn(h), C) = Total(BytesIn(f), C) BY <1>4, TotalSame
  <1>7. DOMAIN f = D \cup C /\ D \cap C = {} OBVIOUS
  <1>8. Total(BytesIn(f), D \cup C) = Total(BytesIn(f), D) + Total(BytesIn(f), C)
    BY <1>4, <1>7, TotalUnion
  <1>9. QED BY <1>1, <1>3, <1>5, <1>6, <1>7, <1>8 DEF Weigh, g, h

LEMMA WeighLess ==
  ASSUME NEW f, Weighted(f), NEW S
  PROVE  Weighted(Without(f, S)) /\ Weigh(Without(f, S)) <= Weigh(f)
  <1>1. /\ Weighted(Without(f, S)) /\ Weighted(Restrict(f, DOMAIN f \cap S))
        /\ Weigh(f) = Weigh(Without(f, S)) + Weigh(Restrict(f, DOMAIN f \cap S))
    BY WeighSplit
  <1>2. Weigh(Without(f, S)) \in Nat /\ Weigh(Restrict(f, DOMAIN f \cap S)) \in Nat
    BY <1>1, WeighIsSum
  <1>3. QED BY <1>1, <1>2

LEMMA WeighOne ==
  ASSUME NEW f, Weighted(f), NEW k \in DOMAIN f
  PROVE  Weighted(Without(f, {k})) /\ Weigh(f) = Weigh(Without(f, {k})) + f[k].bytes
  <1> DEFINE h == Restrict(f, {k})
  <1>1. DOMAIN f \cap {k} = {k} OBVIOUS
  <1>2. DOMAIN h = {k} /\ h[k] = f[k] BY DEF Restrict
  <1> HIDE DEF h
  <1>3. BytesIn(h)[k] = f[k].bytes /\ f[k].bytes \in Nat BY <1>2 DEF BytesIn, Weighted
  <1>4. NatOn(BytesIn(h), {}) /\ {} \cup {k} = {k} BY FS_EmptySet DEF NatOn
  <1>5. Total(BytesIn(h), {} \cup {k}) = f[k].bytes + Total(BytesIn(h), {})
    BY <1>3, <1>4, TotalAdd
  <1>6. Weigh(h) = f[k].bytes BY <1>2, <1>3, <1>4, <1>5, TotalEmpty DEF Weigh
  <1>7. QED BY <1>1, <1>6, WeighSplit DEF h

LEMMA WeighPut ==
  ASSUME NEW f, Weighted(f), NEW k \in DOMAIN f, NEW v, v.bytes \in Nat
  PROVE  /\ Weighted([f EXCEPT ![k] = v])
         /\ Weigh([f EXCEPT ![k] = v]) = Weigh(f) - f[k].bytes + v.bytes
  <1> DEFINE g == [f EXCEPT ![k] = v]
             a == Without(f, {k})
             b == Without(g, {k})
  <1>1. DOMAIN g = DOMAIN f /\ \A x \in DOMAIN f : g[x] = IF x = k THEN v ELSE f[x] OBVIOUS
  <1>2. g[k] = v BY <1>1
  <1> HIDE DEF g
  <1>3. Weighted(g) BY <1>1 DEF Weighted
  <1>4. a = b BY <1>1 DEF Without, Restrict
  <1> HIDE DEF a, b
  <1>5. Weighted(a) /\ Weigh(f) = Weigh(a) + f[k].bytes BY WeighOne DEF a
  <1>6. Weigh(g) = Weigh(b) + v.bytes BY <1>1, <1>2, <1>3, WeighOne DEF b
  <1>7. Weigh(a) \in Nat /\ f[k].bytes \in Nat BY <1>5, WeighIsSum DEF Weighted
  <1>8. QED BY <1>3, <1>4, <1>5, <1>6, <1>7 DEF g

-----------------------------------------------------------------------------
(* The inductive invariant.                                                *)
Steps == [index : Int, offset : Int, length : Int]
Cursors == [revision : Nat, outstanding : Seq(Steps), awaiting : BOOLEAN]
OperationRecords ==
    [kind : {"open", "read", "openTable"}, source : Nat, table : Nat, range : Nat,
     at : Nat, fed : Nat, length : Nat, cursor : Cursors]
SourceRecords == [bytes : Nat, stream : BOOLEAN, seen : Nat]
TableRecords == [source : Nat, bytes : Nat]
OwnerRecords == [book : Nat, source : Nat]
BookRecords == [bytes : Nat, inner : SUBSET Nat, xlsx : BOOLEAN]
Counters == [operation : Nat, handle : Nat, table : Nat, book : Nat]

Typed ==
    /\ next \in Counters
    /\ next.operation > 0 /\ next.handle > 0 /\ next.table > 0 /\ next.book > 0
    /\ Map(operations, OperationRecords, next.operation)
    /\ Map(sources, SourceRecords, next.handle)
    /\ Map(tables, TableRecords, next.handle)
    /\ Map(lengths, Nat, next.handle) /\ Map(decoders, Nat, next.handle)
    /\ Map(books, BookRecords, next.book)
    /\ owners \in [DOMAIN owners -> OwnerRecords]
    /\ \A op \in DOMAIN operations : operations[op].cursor.revision >= 1

Opens == {op \in DOMAIN operations : operations[op].kind = "open"}

\* A scan takes a byte with every revision.
ScanPace(o) ==
    /\ o.at < o.length \/ o.at = 0
    /\ o.cursor.revision <= o.at + 1
    /\ ChunkBytes > 1 => 2 * o.cursor.revision <= o.at + 2

Scans ==
    /\ \A op \in DOMAIN operations :
          LET o == operations[op]
          IN  /\ o.cursor.awaiting /\ o.cursor.outstanding = ReadAction(o.at, o.length)
              /\ o.kind \in {"open", "read"} /\ o.at <= o.length /\ o.range < next.handle
              /\ o.length \in Lengths
    /\ \A op \in Opens :
          LET o == operations[op]
          IN  /\ o.source \in DOMAIN sources /\ o.source \notin done /\ o.range = None
              /\ o.at = sources[o.source].seen /\ lengths[o.source] = o.length
              /\ ScanPace(o)
    /\ \A op1, op2 \in Opens :
          operations[op1].source = operations[op2].source => op1 = op2

Decoding ==
    /\ \A op1, op2 \in DOMAIN operations :
          operations[op1].range = operations[op2].range /\ operations[op1].range # None => op1 = op2
    /\ \A r \in DOMAIN decoders :
          /\ decoders[r] \in DOMAIN sources
          /\ \E op \in DOMAIN operations :
                operations[op].kind = "read" /\ operations[op].range = r
                /\ operations[op].source = decoders[r]

Scanned ==
    /\ DOMAIN lengths = DOMAIN sources
    /\ DOMAIN sources \cap DOMAIN decoders = {}
    /\ \A s \in DOMAIN lengths : lengths[s] \in Lengths
    /\ \A s \in done : s \in Nat /\ s < next.handle
    /\ \A s \in DOMAIN sources \cap done : sources[s].seen = lengths[s]
    /\ \A s \in DOMAIN sources : s \in done \/ \E op \in Opens : operations[op].source = s

\* What was scanned fits the index, and a scanner without a chunk is as it was made.
Metered ==
    /\ Weigh(Without(sources, Unfed)) <= IndexBudget
    /\ \A s \in Unfed : sources[s].bytes = ScannerBytes

Delimited ==
    /\ tables = Empty /\ retained = 0 /\ books = Empty /\ DOMAIN owners \subseteq Nat
    /\ Scans /\ Decoding /\ Scanned /\ Metered

Charged == retained = Weigh(sources) + Weigh(tables) /\ retained <= BudgetBytes

Columns ==
    /\ lengths = Empty /\ decoders = Empty /\ books = Empty
    /\ DOMAIN owners = DOMAIN tables /\ DOMAIN sources \cap DOMAIN tables = {}
    /\ \A t \in DOMAIN tables :
          /\ tables[t].source = owners[t].source /\ tables[t].source \in DOMAIN sources
          /\ tables[t].bytes = 0
    /\ Charged

Working ==
    /\ \A op \in DOMAIN operations :
          LET o == operations[op]
          IN  /\ o.cursor.awaiting /\ o.kind \in {"open", "read"}
              /\ o.kind = "open" /\ o.source # None =>
                    /\ format = "arrow" /\ o.source \in DOMAIN sources
                    /\ sources[o.source].stream
              /\ o.kind = "read" =>
                    /\ o.table \in DOMAIN tables /\ o.source = tables[o.table].source
                    /\ format = "arrow" => ~sources[o.source].stream
    /\ \A op1, op2 \in Opens :
          operations[op1].source = operations[op2].source /\ operations[op1].source # None
             => op1 = op2
    /\ \A s \in DOMAIN sources : s \in done \/ \E op \in Opens : operations[op].source = s

Columnar == Columns /\ Working

Answered ==
    \A op \in DOMAIN operations :
        /\ operations[op].kind \in {"open", "openTable"}
        /\ ~operations[op].cursor.awaiting => operations[op].cursor.outstanding = << >>

Shelves ==
    /\ lengths = Empty /\ decoders = Empty
    /\ DOMAIN owners = DOMAIN tables /\ DOMAIN sources \cap DOMAIN tables = {}
    /\ \A t \in DOMAIN tables :
          /\ tables[t].source = owners[t].source /\ owners[t].book \in DOMAIN books
          /\ owners[t].source \in books[owners[t].book].inner
    /\ \A s \in DOMAIN sources : \E t \in DOMAIN tables : tables[t].source = s
    /\ \A t1, t2 \in DOMAIN tables : tables[t1].source = tables[t2].source => t1 = t2
    /\ \A b \in DOMAIN books : books[b].inner \subseteq DOMAIN sources
    /\ \A b1, b2 \in DOMAIN books : books[b1].inner \cap books[b2].inner # {} => b1 = b2
    /\ DOMAIN books \subseteq done
    /\ Charged

Workbooks == Answered /\ Shelves

IInv ==
    /\ Typed /\ Sound(ledger)
    /\ \/ format = "delimited" /\ Delimited
       \/ format \in {"arrow", "parquet"} /\ Columnar
       \/ format = "excel" /\ Workbooks

-----------------------------------------------------------------------------
(* Records of operations, and what the maps of the registry are under      *)
(* Typed.                                                                  *)
LEMMA CursorType ==
  ASSUME NEW c \in Cursors, NEW steps \in Seq(Steps)
  PROVE  /\ Issue(c, steps) \in Cursors /\ Issue(c, steps).awaiting
         /\ Issue(c, steps).outstanding = steps
         /\ Issue(c, steps).revision = c.revision + 1
         /\ ConsumeResults(c) \in Cursors /\ ~ConsumeResults(c).awaiting
         /\ ConsumeResults(c).outstanding = << >>
         /\ ConsumeResults(c).revision = c.revision
  <1>1. c.revision \in Nat /\ c.revision + 1 \in Nat BY DEF Cursors
  <1>4. << >> \in Seq(Steps) OBVIOUS
  <1>5. ConsumeResults(c) \in Cursors BY <1>1, <1>4 DEF Cursors, ConsumeResults
  <1>6. Issue(c, steps) \in Cursors BY <1>1 DEF Cursors, Issue
  <1>7. QED BY <1>5, <1>6 DEF Issue, ConsumeResults, Cursors

LEMMA NewCursorType == NewCursor \in Cursors /\ NewCursor.revision = 0
  BY DEF NewCursor, Cursors

LEMMA StepsType ==
  ASSUME NEW length \in Nat, NEW n \in Nat, NEW steps
  PROVE  /\ steps \in EngineSteps(length) => steps \in Seq(Steps)
         /\ <<ReadBytes(0, length - 1, 1)>> \in Seq(Steps)
         /\ <<ReadBytes(0, 0, 1)>> \in Seq(Steps)
         /\ ReadAction(n, length) \in Seq(Steps)
  <1>1. \A i, o, l \in Int : ReadBytes(i, o, l) \in Steps BY DEF ReadBytes, Steps
  <1>2. \A r \in Steps : <<r>> \in Seq(Steps) OBVIOUS
  <1>3. \A r, q \in Steps : <<r, q>> \in Seq(Steps) OBVIOUS
  <1>4. <<ReadBytes(0, length - 1, 1)>> \in Seq(Steps) /\ <<ReadBytes(0, 0, 1)>> \in Seq(Steps)
        /\ <<ReadBytes(0, 0, 1), ReadBytes(1, 1, 1)>> \in Seq(Steps)
    BY <1>1, <1>2, <1>3
  <1>5. steps \in EngineSteps(length) => steps \in Seq(Steps) BY <1>4 DEF EngineSteps
  <1>6. ReadAction(n, length) \in Seq(Steps)
    <2>1. length - n \in Int /\ ChunkBytes \in Int BY ScanAssumption
    <2>2. QED BY <1>1, <1>2, <2>1 DEF ReadAction
  <1>7. QED BY <1>4, <1>5, <1>6

LEMMA OperationType ==
  ASSUME NEW kind \in {"open", "read", "openTable"}, NEW s \in Nat, NEW t \in Nat,
         NEW length \in Nat, NEW c \in Cursors
  PROVE  LET o == Operation(kind, s, t, length, c)
         IN  /\ o \in OperationRecords /\ o.kind = kind /\ o.source = s /\ o.table = t
             /\ o.range = None /\ o.at = 0 /\ o.fed = 0 /\ o.length = length /\ o.cursor = c
  BY DEF Operation, OperationRecords, None

LEMMA OperationPut ==
  ASSUME NEW o \in OperationRecords, NEW at \in Nat, NEW s \in Nat, NEW fed \in Nat,
         NEW c \in Cursors
  PROVE  /\ [o EXCEPT !.cursor = c] \in OperationRecords
         /\ [o EXCEPT !.at = at, !.cursor = c] \in OperationRecords
         /\ [o EXCEPT !.fed = fed, !.cursor = c] \in OperationRecords
         /\ [o EXCEPT !.source = s, !.fed = fed, !.cursor = c] \in OperationRecords
  BY DEF OperationRecords

LEMMA OperationFields ==
  ASSUME NEW o \in OperationRecords
  PROVE  /\ o.kind \in {"open", "read", "openTable"} /\ o.source \in Nat /\ o.table \in Nat
         /\ o.range \in Nat /\ o.at \in Nat /\ o.fed \in Nat /\ o.length \in Nat
         /\ o.cursor \in Cursors /\ o.cursor.revision \in Nat
         /\ o.cursor.awaiting \in BOOLEAN
  BY DEF OperationRecords, Cursors

LEMMA CountersType ==
  ASSUME next \in Counters, NEW n \in Nat
  PROVE  /\ next.operation \in Nat /\ next.handle \in Nat /\ next.table \in Nat /\ next.book \in Nat
         /\ TakeOperation \in Counters
         /\ [next EXCEPT !.handle = @ + n] \in Counters
         /\ [next EXCEPT !.operation = @ + 1, !.handle = @ + n] \in Counters
  <1>1. /\ next.operation \in Nat /\ next.handle \in Nat /\ next.table \in Nat /\ next.book \in Nat
        /\ next.operation + 1 \in Nat /\ next.handle + n \in Nat
    BY DEF Counters
  <1>2. QED BY <1>1 DEF Counters, TakeOperation

LEMMA TypedMaps ==
  ASSUME Typed
  PROVE  /\ next.operation \in Nat /\ next.operation > 0
         /\ next.handle \in Nat /\ next.handle > 0
         /\ next.table \in Nat /\ next.table > 0 /\ next.book \in Nat /\ next.book > 0
         /\ Map(operations, OperationRecords, next.operation)
         /\ Map(sources, SourceRecords, next.handle) /\ Map(tables, TableRecords, next.handle)
         /\ Map(lengths, Nat, next.handle) /\ Map(decoders, Nat, next.handle)
         /\ Map(books, BookRecords, next.book)
  BY CountersType DEF Typed

LEMMA TypedFacts ==
  ASSUME Typed
  PROVE  /\ next.operation \in Nat /\ next.handle \in Nat /\ next.table \in Nat /\ next.book \in Nat
         /\ \A op \in DOMAIN operations :
               /\ op \in Nat /\ op > 0 /\ op < next.operation
               /\ operations[op] \in OperationRecords
         /\ next.operation \notin DOMAIN operations
         /\ \A s \in DOMAIN sources :
               s \in Nat /\ s > 0 /\ s < next.handle /\ sources[s] \in SourceRecords
         /\ \A t \in DOMAIN tables :
               t \in Nat /\ t > 0 /\ t < next.handle /\ tables[t] \in TableRecords
         /\ \A b \in DOMAIN books :
               b \in Nat /\ b > 0 /\ b < next.book /\ books[b] \in BookRecords
         /\ Weighted(sources) /\ Weighted(tables) /\ Weighted(books)
  <1>1. next.operation \in Nat /\ next.handle \in Nat /\ next.table \in Nat /\ next.book \in Nat
    BY CountersType DEF Typed
  <1>2. /\ IsFiniteSet(DOMAIN operations) /\ next.operation \notin DOMAIN operations
        /\ \A op \in DOMAIN operations : op \in Nat /\ op > 0 /\ op < next.operation
              /\ operations[op] \in OperationRecords
    BY <1>1, MapFinite DEF Typed
  <1>3. /\ IsFiniteSet(DOMAIN sources)
        /\ \A s \in DOMAIN sources :
               s \in Nat /\ s > 0 /\ s < next.handle /\ sources[s] \in SourceRecords
    BY <1>1, MapFinite DEF Typed
  <1>4. /\ IsFiniteSet(DOMAIN tables)
        /\ \A t \in DOMAIN tables :
               t \in Nat /\ t > 0 /\ t < next.handle /\ tables[t] \in TableRecords
    BY <1>1, MapFinite DEF Typed
  <1>5. /\ IsFiniteSet(DOMAIN books)
        /\ \A b \in DOMAIN books :
               b \in Nat /\ b > 0 /\ b < next.book /\ books[b] \in BookRecords
    BY <1>1, MapFinite DEF Typed
  <1>6. /\ \A s \in DOMAIN sources : sources[s].bytes \in Nat BY <1>3 DEF SourceRecords
  <1>7. /\ \A s \in DOMAIN tables : tables[s].bytes \in Nat BY <1>4 DEF TableRecords
  <1>8. /\ \A s \in DOMAIN books : books[s].bytes \in Nat BY <1>5 DEF BookRecords
  <1>9. QED BY <1>1, <1>2, <1>3, <1>4, <1>5, <1>6, <1>7, <1>8 DEF Weighted

(* What can happen to the registry of operations.                          *)
OpsTyped ==
    /\ Map(operations, OperationRecords, next.operation)
    /\ \A op \in DOMAIN operations : operations[op].cursor.revision >= 1

LEMMA OpsCut ==
  ASSUME Typed, next'.operation \in Nat, next'.operation >= next.operation,
         NEW S, operations' = Without(operations, S)
  PROVE  /\ OpsTyped' /\ DOMAIN operations' = DOMAIN operations \ S
         /\ \A op \in DOMAIN operations' : operations'[op] = operations[op]
  <1>1. /\ DOMAIN operations' = DOMAIN operations \ S
        /\ \A op \in DOMAIN operations' : operations'[op] = operations[op]
        /\ operations' \in [DOMAIN operations' -> OperationRecords]
    BY TypedMaps DEF Map, Without, Restrict
  <1>2. DOMAIN operations' \subseteq 1 .. (next'.operation - 1)
    BY <1>1, TypedMaps DEF Map
  <1>3. QED BY <1>1, <1>2 DEF OpsTyped, Map, Typed

LEMMA OpsSame ==
  ASSUME Typed, next'.operation \in Nat, next'.operation >= next.operation, UNCHANGED operations
  PROVE  OpsTyped'
  <1>1. DOMAIN operations' \subseteq 1 .. (next'.operation - 1) BY TypedMaps DEF Map
  <1>2. QED BY <1>1, TypedMaps DEF OpsTyped, Map, Typed

LEMMA OpsPut ==
  ASSUME Typed, next'.operation \in Nat, next'.operation >= next.operation,
         NEW op \in DOMAIN operations, NEW o \in OperationRecords, o.cursor.revision >= 1,
         operations' = [operations EXCEPT ![op] = o]
  PROVE  /\ OpsTyped' /\ DOMAIN operations' = DOMAIN operations /\ operations'[op] = o
         /\ \A x \in DOMAIN operations : x # op => operations'[x] = operations[x]
  <1>1. /\ DOMAIN operations' = DOMAIN operations /\ operations'[op] = o
        /\ \A x \in DOMAIN operations : x # op => operations'[x] = operations[x]
        /\ operations' \in [DOMAIN operations' -> OperationRecords]
    BY TypedMaps DEF Map
  <1>2. DOMAIN operations' \subseteq 1 .. (next'.operation - 1)
    BY <1>1, TypedMaps DEF Map
  <1>3. QED BY <1>1, <1>2 DEF OpsTyped, Map, Typed

LEMMA OpsAdd ==
  ASSUME Typed, next'.operation = next.operation + 1,
         NEW o \in OperationRecords, o.cursor.revision >= 1,
         operations' = With(operations, next.operation, o)
  PROVE  /\ OpsTyped' /\ DOMAIN operations' = DOMAIN operations \cup {next.operation}
         /\ next.operation \notin DOMAIN operations /\ operations'[next.operation] = o
         /\ \A x \in DOMAIN operations : operations'[x] = operations[x]
  <1> DEFINE n == next.operation
  <1>1. DOMAIN operations \subseteq 1 .. (n - 1) /\ operations \in [DOMAIN operations -> OperationRecords]
    BY TypedMaps DEF Map
  <1>2. n \in Nat /\ n > 0 /\ next'.operation = n + 1
        /\ operations' = With(operations, n, o) BY TypedMaps
  <1>3. \A x \in DOMAIN operations : operations[x].cursor.revision >= 1 BY DEF Typed
  <1> HIDE DEF n
  <1>4. DOMAIN operations \cup {n} \subseteq 1 .. (next'.operation - 1) BY <1>1, <1>2
  <1>5. /\ DOMAIN operations' = DOMAIN operations \cup {n} /\ n \notin DOMAIN operations
        /\ operations'[n] = o /\ \A x \in DOMAIN operations : operations'[x] = operations[x]
        /\ operations' \in [DOMAIN operations' -> OperationRecords]
    BY <1>1, <1>2 DEF With
  <1>6. QED BY <1>3, <1>4, <1>5 DEF OpsTyped, Map, n

\* Closing a source of the engine keeps the account of retained bytes.
LEMMA EngineCloseIs ==
  ASSUME Typed, Charged, NEW source, EngineClose(source),
         \A t \in DOMAIN tables : tables[t].source \in DOMAIN sources
  PROVE  /\ sources' = Without(sources, {source})
         /\ tables' = Without(tables, TablesOf(source))
         /\ Charged'
  <1> DEFINE closed == TablesOf(source)
             part == Restrict(tables, closed)
  <1>1. CASE source \in DOMAIN sources
    <2>1. DOMAIN tables \cap closed = closed BY DEF TablesOf
    <2>2. /\ Weighted(Without(tables, closed)) /\ Weighted(part)
          /\ Weigh(tables) = Weigh(Without(tables, closed)) + Weigh(part)
      BY <2>1, TypedFacts, WeighSplit, Zenon
    <2>3. SumOf(part, TableBytes) = Weigh(part) BY <2>2, WeighIsSum, Zenon
    <2>4. /\ sources' = Without(sources, {source})
          /\ tables' = Without(tables, closed)
          /\ retained' = retained - sources[source].bytes - Weigh(part)
      BY <1>1, <2>3, Zenon DEF EngineClose
    <2>5. /\ Weighted(Without(sources, {source}))
          /\ Weigh(sources) = Weigh(Without(sources, {source})) + sources[source].bytes
      BY <1>1, TypedFacts, WeighOne
    <2> HIDE DEF closed, part
    <2>6. /\ Weigh(Without(sources, {source})) \in Nat /\ Weigh(Without(tables, closed)) \in Nat
          /\ Weigh(part) \in Nat /\ Weigh(sources) \in Nat /\ Weigh(tables) \in Nat
      BY <2>2, <2>5, WeighIsSum, TypedFacts
    <2>7. sources[source].bytes \in Nat BY <1>1, TypedFacts DEF Weighted
    <2>8. Charged' BY <2>2, <2>4, <2>5, <2>6, <2>7, LedgerAssumption DEF Charged
    <2>9. QED BY <2>4, <2>8 DEF closed
  <1>2. CASE source \notin DOMAIN sources
    <2>1. UNCHANGED engine BY <1>2 DEF EngineClose
    <2>2. Without(sources, {source}) = sources BY <1>2, WithoutNothing DEF Typed
    <2>3. TablesOf(source) = {} BY <1>2 DEF TablesOf
    <2>4. Without(tables, TablesOf(source)) = tables BY <2>3, WithoutNothing DEF Typed
    <2>5. QED BY <2>1, <2>2, <2>4 DEF engine, Charged
  <1>3. QED BY <1>1, <1>2

-----------------------------------------------------------------------------
(* The columnar artifacts.                                                 *)
Artifact == UNCHANGED <<format, lengths, decoders, books, ledger>>

\* What is closed or dropped takes everything that points at it along.
LEMMA ColumnarForget ==
  ASSUME Typed, format \in {"arrow", "parquet"}, Columnar, Artifact, UNCHANGED <<next, done>>,
         NEW S, NEW T, NEW U,
         operations' = Without(operations, S), sources' = Without(sources, T),
         tables' = Without(tables, U), owners' = Without(owners, U), Charged',
         \A t \in DOMAIN tables : tables[t].source \in T => t \in U,
         \A op \in DOMAIN operations :
            \/ op \in S
            \/ /\ operations[op].source \in DOMAIN sources => operations[op].source \notin T
               /\ operations[op].kind = "read" => operations[op].table \notin U,
         \A op \in Opens \cap S :
            operations[op].source \in DOMAIN sources => operations[op].source \in T
  PROVE  Typed' /\ Columnar'
  <1>1. /\ OpsTyped' /\ DOMAIN operations' = DOMAIN operations \ S
        /\ \A op \in DOMAIN operations' : operations'[op] = operations[op]
    <2>1. next'.operation \in Nat /\ next'.operation >= next.operation BY TypedMaps
    <2>2. operations' = Without(operations, S) OBVIOUS
    <2>3. QED BY ONLY Typed, <2>1, <2>2, OpsCut
  <1>2. /\ Map(sources', SourceRecords, next.handle)
        /\ DOMAIN sources' = DOMAIN sources \ T
        /\ \A s \in DOMAIN sources' : sources'[s] = sources[s]
    BY TypedMaps DEF Map, Without, Restrict
  <1>3. /\ Map(tables', TableRecords, next.handle)
        /\ DOMAIN tables' = DOMAIN tables \ U
        /\ \A t \in DOMAIN tables' : tables'[t] = tables[t]
    BY TypedMaps DEF Map, Without, Restrict
  <1>4. /\ owners' \in [DOMAIN owners' -> OwnerRecords]
        /\ DOMAIN owners' = DOMAIN owners \ U
        /\ \A t \in DOMAIN owners' : owners'[t] = owners[t]
    BY DEF Typed, Without, Restrict
  <1>5. UNCHANGED <<format, lengths, decoders, books, next, done>> BY DEF Artifact
  <1>6. Typed' BY <1>1, <1>2, <1>3, <1>4, <1>5 DEF Typed, OpsTyped
  <1>7. Columns' BY <1>2, <1>3, <1>4, <1>5 DEF Columnar, Columns
  <1>8. Opens' = Opens \ S BY <1>1 DEF Opens
  <1>9. ASSUME NEW op \in DOMAIN operations'
        PROVE  LET o == operations'[op]
               IN  /\ o.cursor.awaiting /\ o.kind \in {"open", "read"}
                   /\ o.kind = "open" /\ o.source # None =>
                         /\ format' = "arrow" /\ o.source \in DOMAIN sources'
                         /\ sources'[o.source].stream
                   /\ o.kind = "read" =>
                         /\ o.table \in DOMAIN tables' /\ o.source = tables'[o.table].source
                         /\ format' = "arrow" => ~sources'[o.source].stream
    <2> DEFINE o == operations[op]
    <2>1. op \in DOMAIN operations /\ op \notin S /\ operations'[op] = o BY <1>1
    <2>2. o.kind = "read" => o.table \in DOMAIN tables /\ o.source = tables[o.table].source
      BY <2>1 DEF Columnar, Working
    <2>3. o.kind = "read" => o.table \in DOMAIN tables' BY <1>3, <2>1, <2>2
    <2>4. o.kind = "read" => o.source \in DOMAIN sources'
      BY <1>2, <1>3, <2>1, <2>2, <2>3 DEF Columnar, Columns
    <2>5. o.kind = "open" /\ o.source # None => o.source \in DOMAIN sources'
      BY <1>2, <2>1 DEF Columnar, Working
    <2>6. QED BY <1>2, <1>3, <1>5, <2>1, <2>2, <2>3, <2>4, <2>5 DEF Columnar, Working
  <1>10. \A s \in DOMAIN sources' : s \in done' \/ \E op \in Opens' : operations'[op].source = s
    BY <1>1, <1>2, <1>5, <1>8 DEF Columnar, Working, Opens
  <1>11. \A op1, op2 \in Opens' :
           operations'[op1].source = operations'[op2].source /\ operations'[op1].source # None
             => op1 = op2
    BY <1>1, <1>8 DEF Columnar, Working, Opens
  <1>12. Working' BY <1>9, <1>10, <1>11 DEF Working
  <1>13. QED BY <1>6, <1>7, <1>12 DEF Columnar

\* A new operation waits for its first step.
LEMMA ColumnarBegin ==
  ASSUME Typed, format \in {"arrow", "parquet"}, Columnar, Artifact,
         UNCHANGED <<owners, engine, done>>, next' = TakeOperation,
         NEW kind \in {"open", "read"}, NEW s \in Nat, NEW t \in Nat, NEW length \in Nat,
         NEW steps \in Seq(Steps),
         operations' = With(operations, next.operation,
                            Operation(kind, s, t, length, Issue(NewCursor, steps))),
         \/ kind = "open" /\ s = None
         \/ /\ kind = "read" /\ t \in DOMAIN tables /\ s = tables[t].source
            /\ format = "arrow" => ~sources[s].stream
  PROVE  Typed' /\ Columnar'
  <1> DEFINE n == next.operation
             c == Issue(NewCursor, steps)
             new == Operation(kind, s, t, length, c)
  <1>1. c \in Cursors /\ c.awaiting /\ c.revision = 1 BY CursorType, NewCursorType
  <1>2. /\ new \in OperationRecords /\ new.kind = kind /\ new.source = s /\ new.table = t
        /\ new.cursor = c
    <2> HIDE DEF c
    <2>1. QED BY <1>1 DEF Operation, OperationRecords, None
  <1> HIDE DEF new
  <1>3. n \in Nat /\ n > 0 /\ n \notin DOMAIN operations BY TypedFacts DEF Typed
  <1>4. next' \in Counters /\ next'.operation = n + 1 /\ next'.handle = next.handle
        /\ next'.table = next.table /\ next'.book = next.book
    BY CountersType DEF TakeOperation, Counters, Typed
  <1>5. /\ OpsTyped' /\ DOMAIN operations' = DOMAIN operations \cup {n} /\ operations'[n] = new
        /\ \A op \in DOMAIN operations : operations'[op] = operations[op]
    <2> HIDE DEF c
    <2>1. operations' = With(operations, next.operation, new) BY DEF new, c
    <2>2. new.cursor.revision >= 1 BY <1>1, <1>2
    <2>3. QED BY <1>2, <1>4, <2>1, <2>2, OpsAdd
  <1>6. UNCHANGED <<format, lengths, decoders, books, owners, sources, tables, retained, done>>
    BY DEF Artifact, engine
  <1>7. Typed'
    <2>1. next'.operation > 0 /\ next'.handle > 0 /\ next'.table > 0 /\ next'.book > 0
      BY <1>3, <1>4 DEF Typed
    <2>2. QED BY <1>4, <1>5, <1>6, <2>1 DEF Typed, OpsTyped
  <1>8. Columns' BY <1>6 DEF Columnar, Columns, Charged
  <1>9. Opens' = Opens \cup (IF kind = "open" THEN {n} ELSE {}) BY <1>2, <1>3, <1>5 DEF Opens
  <1>10. \A op \in DOMAIN operations' :
           LET o == operations'[op]
           IN  /\ o.cursor.awaiting /\ o.kind \in {"open", "read"}
               /\ o.kind = "open" /\ o.source # None =>
                     /\ format' = "arrow" /\ o.source \in DOMAIN sources'
                     /\ sources'[o.source].stream
               /\ o.kind = "read" =>
                     /\ o.table \in DOMAIN tables' /\ o.source = tables'[o.table].source
                     /\ format' = "arrow" => ~sources'[o.source].stream
    BY <1>1, <1>2, <1>5, <1>6 DEF Columnar, Working
  <1>11. \A op1, op2 \in Opens' :
           operations'[op1].source = operations'[op2].source /\ operations'[op1].source # None
             => op1 = op2
    BY <1>2, <1>5, <1>9 DEF Columnar, Working, Opens
  <1>12. \A x \in DOMAIN sources' : x \in done' \/ \E op \in Opens' : operations'[op].source = x
    BY <1>5, <1>6, <1>9 DEF Columnar, Working, Opens
  <1>13. QED BY <1>7, <1>8, <1>10, <1>11, <1>12 DEF Columnar, Working

\* A registered source is charged; the budget has room for it.
LEMMA RegisterIs ==
  ASSUME Typed, Charged, NEW bytes \in Nat, NEW stream \in BOOLEAN,
         EngineCanRegister(bytes), EngineRegister(bytes, stream), UNCHANGED tables
  PROVE  /\ next' \in Counters /\ next'.handle = next.handle + 1
         /\ next'.operation = next.operation /\ next'.table = next.table /\ next'.book = next.book
         /\ Map(sources', SourceRecords, next'.handle) /\ Map(tables', TableRecords, next'.handle)
         /\ DOMAIN sources' = DOMAIN sources \cup {next.handle}
         /\ next.handle \notin DOMAIN sources \cup DOMAIN tables
         /\ sources'[next.handle].stream = stream
         /\ \A s \in DOMAIN sources : sources'[s] = sources[s]
         /\ Charged'
  <1> DEFINE n == next.handle
             v == [bytes |-> bytes, stream |-> stream, seen |-> 0]
  <1>1. v \in SourceRecords /\ v.bytes = bytes /\ v.stream = stream BY DEF SourceRecords
  <1>2. /\ sources' = With(sources, n, v) /\ retained' = retained + bytes /\ tables' = tables
        /\ retained + bytes <= BudgetBytes
    BY DEF EngineRegister, EngineCanRegister, Fits
  <1>3. /\ next' \in Counters /\ next'.handle = n + 1 /\ n \in Nat /\ n > 0
        /\ next'.operation = next.operation /\ next'.table = next.table /\ next'.book = next.book
    BY CountersType DEF EngineRegister, Counters, Typed
  <1>4. /\ DOMAIN sources \subseteq 1 .. (n - 1) /\ sources \in [DOMAIN sources -> SourceRecords]
        /\ DOMAIN tables \subseteq 1 .. (n - 1) /\ tables \in [DOMAIN tables -> TableRecords]
    BY TypedMaps DEF Map
  <1> HIDE DEF n, v
  <1>5. /\ n \notin DOMAIN sources \cup DOMAIN tables
        /\ DOMAIN sources \cup {n} \subseteq 1 .. (n + 1 - 1) /\ DOMAIN tables \subseteq 1 .. (n + 1 - 1)
    BY <1>3, <1>4
  <1>6. /\ DOMAIN sources' = DOMAIN sources \cup {n} /\ sources'[n] = v
        /\ \A s \in DOMAIN sources : sources'[s] = sources[s]
        /\ sources' \in [DOMAIN sources' -> SourceRecords]
    BY <1>1, <1>2, <1>4, <1>5 DEF With
  <1>7. Map(sources', SourceRecords, next'.handle) /\ Map(tables', TableRecords, next'.handle)
    BY <1>2, <1>3, <1>4, <1>5, <1>6 DEF Map
  <1>8. Weigh(sources') = Weigh(sources) + bytes
    BY <1>1, <1>2, <1>5, TypedFacts, WeighWith
  <1>9. Weigh(sources) \in Nat /\ Weigh(tables) \in Nat BY TypedFacts, WeighIsSum
  <1>10. Charged' BY <1>2, <1>8, <1>9 DEF Charged
  <1>11. QED BY <1>1, <1>3, <1>5, <1>6, <1>7, <1>10 DEF n

\* A published stream that grows is charged for the difference only.
LEMMA AppendIs ==
  ASSUME Typed, Charged, NEW source \in DOMAIN sources, NEW fed \in Nat,
         Fits(StreamGrowth(source, fed)), ArrowAppend(source, fed), UNCHANGED tables
  PROVE  /\ UNCHANGED next
         /\ Map(sources', SourceRecords, next.handle) /\ Map(tables', TableRecords, next.handle)
         /\ DOMAIN sources' = DOMAIN sources
         /\ \A s \in DOMAIN sources : sources'[s].stream = sources[s].stream
         /\ Charged'
  <1> DEFINE v == [sources[source] EXCEPT !.bytes = fed]
             old == sources[source]
  <1>1. old \in SourceRecords BY TypedFacts
  <1>2. v \in SourceRecords /\ v.bytes = fed /\ v.stream = old.stream BY <1>1 DEF SourceRecords
  <1>3. /\ sources' = [sources EXCEPT ![source] = v] /\ UNCHANGED <<next, tables>>
        /\ retained' = retained + (fed - old.bytes) /\ retained + (fed - old.bytes) <= BudgetBytes
    BY DEF ArrowAppend, Fits, StreamGrowth
  <1>4. old.bytes \in Nat BY <1>1 DEF SourceRecords
  <1> HIDE DEF v
  <1>5. /\ DOMAIN sources' = DOMAIN sources /\ sources'[source] = v
        /\ \A s \in DOMAIN sources : s # source => sources'[s] = sources[s]
        /\ sources' \in [DOMAIN sources' -> SourceRecords]
    BY <1>2, <1>3, TypedMaps DEF Map
  <1>6. Map(sources', SourceRecords, next.handle) /\ Map(tables', TableRecords, next.handle)
    BY <1>3, <1>5, TypedMaps DEF Map
  <1>7. Weigh(sources') = Weigh(sources) - old.bytes + fed
    BY <1>2, <1>3, TypedFacts, WeighPut
  <1>8. Weigh(sources) \in Nat /\ Weigh(tables) \in Nat BY TypedFacts, WeighIsSum
  <1>9. Charged' BY <1>3, <1>4, <1>7, <1>8 DEF Charged
  <1>10. QED BY <1>2, <1>3, <1>5, <1>6, <1>9

\* A step that leaves the engine alone keeps the operation as it is but for
\* its cursor.
LEMMA ColumnarStep ==
  ASSUME Typed, format \in {"arrow", "parquet"}, Columnar, Artifact,
         UNCHANGED <<owners, engine, next, done>>,
         NEW op \in DOMAIN operations, NEW o \in OperationRecords,
         operations' = [operations EXCEPT ![op] = o],
         o.kind = operations[op].kind, o.source = operations[op].source,
         o.table = operations[op].table, o.cursor.awaiting, o.cursor.revision >= 1
  PROVE  Typed' /\ Columnar'
  <1>1. /\ OpsTyped' /\ DOMAIN operations' = DOMAIN operations /\ operations'[op] = o
        /\ \A x \in DOMAIN operations : x # op => operations'[x] = operations[x]
    <2>1. next'.operation \in Nat /\ next'.operation >= next.operation BY TypedMaps
    <2>2. QED BY <2>1, OpsPut
  <1>2. UNCHANGED <<format, lengths, decoders, books, owners, sources, tables, retained, next, done>>
    BY DEF Artifact, engine
  <1>3. Typed' BY <1>1, <1>2 DEF Typed, OpsTyped
  <1>4. \A x \in DOMAIN operations : /\ operations'[x].kind = operations[x].kind
           /\ operations'[x].source = operations[x].source
           /\ operations'[x].table = operations[x].table
    BY <1>1
  <1>5. Opens' = Opens BY <1>1, <1>4 DEF Opens
  <1>6. Columns' BY <1>2 DEF Columnar, Columns, Charged
  <1>7. \A x \in DOMAIN operations' : operations'[x].cursor.awaiting
    BY <1>1 DEF Columnar, Working
  <1>8. Working' BY <1>1, <1>2, <1>4, <1>5, <1>7 DEF Columnar, Working, Opens
  <1>9. QED BY <1>3, <1>6, <1>8 DEF Columnar

\* Whatever the engine's sources become, the tables stay as they are.
LEMMA ColumnarGrow ==
  ASSUME Typed, Columnar, Artifact, UNCHANGED <<owners, tables>>,
         OpsTyped', next' \in Counters, next'.operation > 0, next'.handle >= next.handle,
         next'.table = next.table, next'.book = next.book,
         Map(sources', SourceRecords, next'.handle), Map(tables', TableRecords, next'.handle),
         NEW N, DOMAIN sources' = DOMAIN sources \cup N, N \cap DOMAIN tables = {}, Charged'
  PROVE  Typed' /\ Columns'
  <1>1. next'.handle > 0 BY TypedMaps, next'.handle \in Nat DEF Counters
  <1>2. UNCHANGED <<format, lengths, decoders, books>> BY DEF Artifact
  <1>3. Columns' BY <1>2 DEF Columnar, Columns
  <1>4. Map(lengths', Nat, next'.handle) /\ Map(decoders', Nat, next'.handle)
    BY <1>2, MapEmpty DEF Columnar, Columns
  <1>5. Typed' BY <1>1, <1>2, <1>4 DEF Typed, OpsTyped
  <1>6. QED BY <1>3, <1>5

\* A finished open leaves the registry and its source stays.
LEMMA ColumnarFinish ==
  ASSUME Typed, format \in {"arrow", "parquet"}, Columnar, Artifact, UNCHANGED <<owners, tables>>,
         NEW op \in Opens, operations' = Without(operations, {op}),
         NEW fed \in Nat, NEW stream \in BOOLEAN,
         \/ /\ operations[op].source = None
            /\ EngineCanRegister(fed) /\ EngineRegister(fed, stream)
            /\ done' = done \cup {next.handle}
         \/ /\ operations[op].source # None
            /\ Fits(StreamGrowth(operations[op].source, fed))
            /\ ArrowAppend(operations[op].source, fed)
            /\ done' = done \cup {operations[op].source}
  PROVE  Typed' /\ Columnar'
  <1> DEFINE source == operations[op].source
             N == IF source = None THEN {next.handle} ELSE {}
             own == IF source = None THEN next.handle ELSE source
  <1>1. op \in DOMAIN operations /\ operations[op].kind = "open" BY DEF Opens
  <1>2. source # None => source \in DOMAIN sources BY <1>1 DEF Columnar, Working
  <1>3. Charged BY DEF Columnar, Columns
  <1>4. /\ next' \in Counters /\ next'.handle >= next.handle /\ next'.operation = next.operation
        /\ next'.table = next.table /\ next'.book = next.book
        /\ Map(sources', SourceRecords, next'.handle) /\ Map(tables', TableRecords, next'.handle)
        /\ DOMAIN sources' = DOMAIN sources \cup N /\ N \cap (DOMAIN sources \cup DOMAIN tables) = {}
        /\ \A s \in DOMAIN sources : sources'[s].stream = sources[s].stream
        /\ done' = done \cup {own}
        /\ Charged'
    <2>1. CASE source = None
      <3>1. EngineCanRegister(fed) /\ EngineRegister(fed, stream) /\ UNCHANGED tables
            /\ done' = done \cup {next.handle}
        BY <2>1
      <3>2. /\ next' \in Counters /\ next'.handle = next.handle + 1
            /\ next'.operation = next.operation /\ next'.table = next.table /\ next'.book = next.book
            /\ Map(sources', SourceRecords, next'.handle) /\ Map(tables', TableRecords, next'.handle)
            /\ DOMAIN sources' = DOMAIN sources \cup {next.handle}
            /\ next.handle \notin DOMAIN sources \cup DOMAIN tables
            /\ \A s \in DOMAIN sources : sources'[s] = sources[s]
            /\ Charged'
        BY ONLY Typed, <1>3, <3>1, fed \in Nat, stream \in BOOLEAN, RegisterIs
      <3>3. QED BY <2>1, <3>1, <3>2, TypedMaps
    <2>2. CASE source # None
      <3>1. Fits(StreamGrowth(source, fed)) /\ ArrowAppend(source, fed) /\ UNCHANGED tables
            /\ done' = done \cup {source}
        BY <2>2
      <3> HIDE DEF source
      <3>2. /\ UNCHANGED next
            /\ Map(sources', SourceRecords, next.handle) /\ Map(tables', TableRecords, next.handle)
            /\ DOMAIN sources' = DOMAIN sources
            /\ \A s \in DOMAIN sources : sources'[s].stream = sources[s].stream
            /\ Charged'
        BY ONLY Typed, <1>2, <1>3, <2>2, <3>1, fed \in Nat, AppendIs
      <3>3. next.handle \in Nat BY TypedMaps
      <3>4. QED BY <2>2, <3>1, <3>2, <3>3 DEF Typed
    <2>3. QED BY <2>1, <2>2
  <1>5. /\ OpsTyped' /\ DOMAIN operations' = DOMAIN operations \ {op}
        /\ \A x \in DOMAIN operations' : operations'[x] = operations[x]
    <2>1. next'.operation \in Nat /\ next'.operation >= next.operation BY <1>4, TypedMaps
    <2>2. operations' = Without(operations, {op}) OBVIOUS
    <2>3. QED BY ONLY Typed, <2>1, <2>2, OpsCut
  <1>6. next'.operation > 0 BY <1>4, TypedMaps
  <1>7. UNCHANGED <<format, owners, tables>> BY DEF Artifact
  <1> HIDE DEF N
  <1>8. Typed' /\ Columns'
    BY ONLY Typed, Columnar, Artifact, <1>4, <1>5, <1>6, <1>7, ColumnarGrow
  <1>9. Opens' = Opens \ {op} BY <1>5 DEF Opens
  <1>10. \A x \in DOMAIN operations' :
           LET o == operations'[x]
           IN  /\ o.cursor.awaiting /\ o.kind \in {"open", "read"}
               /\ o.kind = "open" /\ o.source # None =>
                     /\ format' = "arrow" /\ o.source \in DOMAIN sources'
                     /\ sources'[o.source].stream
               /\ o.kind = "read" =>
                     /\ o.table \in DOMAIN tables' /\ o.source = tables'[o.table].source
                     /\ format' = "arrow" => ~sources'[o.source].stream
    <2> SUFFICES ASSUME NEW x \in DOMAIN operations'
        PROVE  LET o == operations[x]
               IN  /\ o.cursor.awaiting /\ o.kind \in {"open", "read"}
                   /\ o.kind = "open" /\ o.source # None =>
                         /\ format = "arrow" /\ o.source \in DOMAIN sources'
                         /\ sources'[o.source].stream
                   /\ o.kind = "read" =>
                         /\ o.table \in DOMAIN tables /\ o.source = tables[o.table].source
                         /\ format = "arrow" => ~sources'[o.source].stream
      BY <1>5, <1>7
    <2> DEFINE o == operations[x]
    <2>1. x \in DOMAIN operations BY <1>5
    <2>2. o.kind = "read" => /\ o.table \in DOMAIN tables /\ o.source = tables[o.table].source
                             /\ o.source \in DOMAIN sources
      BY <2>1 DEF Columnar, Working, Columns
    <2>3. QED BY <1>4, <2>1, <2>2 DEF Columnar, Working
  <1>11. \A op1, op2 \in Opens' :
           operations'[op1].source = operations'[op2].source /\ operations'[op1].source # None
             => op1 = op2
    <2>1. \A x \in Opens' : x \in Opens /\ operations'[x] = operations[x]
      BY <1>5, <1>9 DEF Opens
    <2>2. QED BY ONLY Columnar, <2>1 DEF Columnar, Working
  <1>12. \A s \in DOMAIN sources' : s \in done' \/ \E x \in Opens' : operations'[x].source = s
    <2> SUFFICES ASSUME NEW s \in DOMAIN sources', s \notin done'
                 PROVE  \E x \in Opens' : operations'[x].source = s
      OBVIOUS
    <2>1. s \in DOMAIN sources /\ s # own /\ s \notin done BY <1>4 DEF N
    <2>2. PICK x \in Opens : operations[x].source = s BY <2>1 DEF Columnar, Working
    <2>3. s \in Nat /\ s > 0 BY <2>1, TypedFacts
    <2>4. x # op BY <2>1, <2>2, <2>3 DEF None
    <2>5. QED BY <1>5, <1>9, <2>2, <2>4 DEF Opens
  <1>13. QED BY <1>8, <1>10, <1>11, <1>12 DEF Columnar, Working

\* A Stream publishes its rows and its open goes on.
LEMMA ColumnarPublish ==
  ASSUME Typed, format = "arrow", Columnar, Artifact, UNCHANGED <<owners, tables, done>>,
         NEW op \in Opens, NEW own, NEW fed \in Nat,
         NEW o \in OperationRecords, operations' = [operations EXCEPT ![op] = o],
         o.kind = "open", o.source = own, o.cursor.awaiting, o.cursor.revision >= 1,
         \/ /\ operations[op].source = None /\ own = next.handle
            /\ EngineCanRegister(fed) /\ EngineRegister(fed, TRUE)
         \/ /\ operations[op].source # None /\ own = operations[op].source
            /\ Fits(StreamGrowth(own, fed)) /\ ArrowAppend(own, fed)
  PROVE  Typed' /\ Columnar'
  <1> DEFINE source == operations[op].source
             N == IF source = None THEN {next.handle} ELSE {}
  <1>1. op \in DOMAIN operations /\ operations[op].kind = "open" BY DEF Opens
  <1>2. source # None => source \in DOMAIN sources /\ sources[source].stream
    BY <1>1 DEF Columnar, Working
  <1>3. Charged BY DEF Columnar, Columns
  <1>4. /\ next' \in Counters /\ next'.handle >= next.handle /\ next'.operation = next.operation
        /\ next'.table = next.table /\ next'.book = next.book
        /\ Map(sources', SourceRecords, next'.handle) /\ Map(tables', TableRecords, next'.handle)
        /\ DOMAIN sources' = DOMAIN sources \cup N /\ N \cap (DOMAIN sources \cup DOMAIN tables) = {}
        /\ \A s \in DOMAIN sources : sources'[s].stream = sources[s].stream
        /\ own \in DOMAIN sources' /\ sources'[own].stream
        /\ own \notin DOMAIN sources \/ own = source
        /\ Charged'
    <2>1. CASE source = None
      <3>1. EngineCanRegister(fed) /\ EngineRegister(fed, TRUE) /\ UNCHANGED tables
            /\ own = next.handle
        BY <2>1
      <3>2. /\ next' \in Counters /\ next'.handle = next.handle + 1
            /\ next'.operation = next.operation /\ next'.table = next.table /\ next'.book = next.book
            /\ Map(sources', SourceRecords, next'.handle) /\ Map(tables', TableRecords, next'.handle)
            /\ DOMAIN sources' = DOMAIN sources \cup {next.handle}
            /\ next.handle \notin DOMAIN sources \cup DOMAIN tables
            /\ sources'[next.handle].stream = TRUE
            /\ \A s \in DOMAIN sources : sources'[s] = sources[s]
            /\ Charged'
        BY ONLY Typed, <1>3, <3>1, fed \in Nat, TRUE \in BOOLEAN, RegisterIs
      <3>3. QED BY <2>1, <3>1, <3>2, TypedMaps
    <2>2. CASE source # None
      <3>1. Fits(StreamGrowth(own, fed)) /\ ArrowAppend(own, fed) /\ UNCHANGED tables
            /\ own = source
        BY <2>2
      <3> HIDE DEF source
      <3>2. /\ UNCHANGED next
            /\ Map(sources', SourceRecords, next.handle) /\ Map(tables', TableRecords, next.handle)
            /\ DOMAIN sources' = DOMAIN sources
            /\ \A s \in DOMAIN sources : sources'[s].stream = sources[s].stream
            /\ Charged'
        BY ONLY Typed, <1>2, <1>3, <2>2, <3>1, fed \in Nat, AppendIs
      <3>3. next.handle \in Nat BY TypedMaps
      <3>4. QED BY <1>2, <2>2, <3>1, <3>2, <3>3 DEF Typed
    <2>3. QED BY <2>1, <2>2
  <1>5. /\ OpsTyped' /\ DOMAIN operations' = DOMAIN operations /\ operations'[op] = o
        /\ \A x \in DOMAIN operations : x # op => operations'[x] = operations[x]
    <2>1. next'.operation \in Nat /\ next'.operation >= next.operation BY <1>4, TypedMaps
    <2>2. operations' = [operations EXCEPT ![op] = o] OBVIOUS
    <2>3. QED BY ONLY Typed, <1>1, <2>1, <2>2, o \in OperationRecords, o.cursor.revision >= 1, OpsPut
  <1>6. next'.operation > 0 BY <1>4, TypedMaps
  <1>7. UNCHANGED <<format, owners, tables, done>> BY DEF Artifact
  <1> HIDE DEF N
  <1>8. Typed' /\ Columns'
    BY ONLY Typed, Columnar, Artifact, <1>4, <1>5, <1>6, <1>7, ColumnarGrow
  <1>9. Opens' = Opens BY <1>1, <1>5 DEF Opens
  <1>10. own \in Nat /\ own # None
    <2>1. next.handle # None BY TypedMaps DEF None
    <2>2. QED BY <2>1, OperationFields
  <1>11. ASSUME NEW x \in DOMAIN operations'
         PROVE  LET q == operations'[x]
                IN  /\ q.cursor.awaiting /\ q.kind \in {"open", "read"}
                    /\ q.kind = "open" /\ q.source # None =>
                         /\ format' = "arrow" /\ q.source \in DOMAIN sources'
                         /\ sources'[q.source].stream
                    /\ q.kind = "read" =>
                         /\ q.table \in DOMAIN tables' /\ q.source = tables'[q.table].source
                         /\ format' = "arrow" => ~sources'[q.source].stream
    <2> DEFINE q == operations[x]
    <2>1. x \in DOMAIN operations BY <1>5
    <2>2. CASE x = op BY <1>4, <1>5, <1>7, <2>2
    <2>3. CASE x # op
      <3>1. q.kind = "read" => /\ q.table \in DOMAIN tables /\ q.source = tables[q.table].source
                               /\ q.source \in DOMAIN sources
        BY <2>1 DEF Columnar, Working, Columns
      <3>2. operations'[x] = q BY <1>5, <2>1, <2>3
      <3>3. QED BY <1>4, <1>7, <2>1, <3>1, <3>2 DEF Columnar, Working
    <2>4. QED BY <2>2, <2>3
  <1>12. \A x \in Opens' : x # op =>
           /\ x \in Opens /\ operations'[x] = operations[x]
           /\ operations[x].source # None => operations[x].source # own
    <2> SUFFICES ASSUME NEW x \in Opens, x # op, operations[x].source # None
                 PROVE  operations[x].source # own
      BY <1>5, <1>9 DEF Opens
    <2>1. operations[x].source \in DOMAIN sources BY DEF Columnar, Working, Opens
    <2>2. operations[x].source # source BY DEF Columnar, Working
    <2>3. QED BY <1>4, <2>1, <2>2
  <1>13. \A op1, op2 \in Opens' :
           operations'[op1].source = operations'[op2].source /\ operations'[op1].source # None
             => op1 = op2
    <2>1. operations'[op].source = own BY <1>5
    <2>2. QED BY ONLY Columnar, <1>10, <1>12, <2>1 DEF Columnar, Working
  <1>14. \A s \in DOMAIN sources' : s \in done' \/ \E x \in Opens' : operations'[x].source = s
    <2> SUFFICES ASSUME NEW s \in DOMAIN sources', s \notin done', s # own
                 PROVE  \E x \in Opens' : operations'[x].source = s
      BY <1>5, <1>9
    <2>1. s \in DOMAIN sources /\ s # source /\ s \notin done
      <3>1. N \subseteq {own} BY DEF N
      <3>2. s \in DOMAIN sources BY <1>4, <3>1
      <3>3. source = None \/ source = own OBVIOUS
      <3>4. s # None BY <3>2, TypedFacts DEF None
      <3>5. QED BY <1>7, <3>2, <3>3, <3>4
    <2>2. PICK x \in Opens : operations[x].source = s BY <2>1 DEF Columnar, Working
    <2>3. QED BY <1>5, <1>9, <2>1, <2>2 DEF Opens
  <1>15. QED BY <1>8, <1>11, <1>13, <1>14 DEF Columnar, Working

\* A table is registered in the engine and in the adapter's map at once.
LEMMA ColumnarOpenTable ==
  ASSUME Typed, format \in {"arrow", "parquet"}, Columnar, Artifact,
         NEW source, EngineOpenTable(source)
  PROVE  Typed' /\ Columnar'
  <1> DEFINE n == next.handle
             v == [source |-> source, bytes |-> 0]
             w == [book |-> None, source |-> source]
  <1>1. /\ source \in DOMAIN sources /\ tables' = With(tables, n, v) /\ owners' = With(owners, n, w)
        /\ next' = [next EXCEPT !.operation = @ + 1, !.handle = @ + 1]
        /\ UNCHANGED <<operations, sources, retained, done>>
    BY DEF EngineOpenTable
  <1>2. source \in Nat BY <1>1, TypedFacts
  <1>3. v \in TableRecords /\ v.bytes = 0 /\ v.source = source /\ w \in OwnerRecords /\ w.source = source
    BY <1>2 DEF TableRecords, OwnerRecords, None
  <1>4. /\ next' \in Counters /\ next'.handle = n + 1 /\ n \in Nat /\ n > 0
        /\ next'.operation = next.operation + 1 /\ next'.table = next.table /\ next'.book = next.book
    BY <1>1, CountersType DEF Counters, Typed
  <1>5. /\ DOMAIN sources \subseteq 1 .. (n - 1) /\ sources \in [DOMAIN sources -> SourceRecords]
        /\ DOMAIN tables \subseteq 1 .. (n - 1) /\ tables \in [DOMAIN tables -> TableRecords]
        /\ owners \in [DOMAIN owners -> OwnerRecords] /\ DOMAIN owners = DOMAIN tables
    BY TypedMaps DEF Map, Typed, Columnar, Columns
  <1> HIDE DEF n, v, w
  <1>6. /\ n \notin DOMAIN sources \cup DOMAIN tables
        /\ DOMAIN tables \cup {n} \subseteq 1 .. (n + 1 - 1) /\ DOMAIN sources \subseteq 1 .. (n + 1 - 1)
    BY <1>4, <1>5
  <1>7. /\ DOMAIN tables' = DOMAIN tables \cup {n} /\ tables'[n] = v
        /\ \A t \in DOMAIN tables : tables'[t] = tables[t]
        /\ tables' \in [DOMAIN tables' -> TableRecords]
        /\ DOMAIN owners' = DOMAIN tables' /\ owners'[n] = w
        /\ \A t \in DOMAIN tables : owners'[t] = owners[t]
        /\ owners' \in [DOMAIN owners' -> OwnerRecords]
    BY <1>1, <1>3, <1>5, <1>6 DEF With
  <1>8. Map(sources', SourceRecords, next'.handle) /\ Map(tables', TableRecords, next'.handle)
    BY <1>1, <1>4, <1>5, <1>6, <1>7 DEF Map
  <1>9. OpsTyped'
    <2>1. next'.operation \in Nat /\ next'.operation >= next.operation BY <1>4, TypedMaps
    <2>2. QED BY <1>1, <2>1, OpsSame
  <1>10. Charged'
    <2>1. Weigh(tables') = Weigh(tables) + 0 BY <1>1, <1>3, <1>6, TypedFacts, WeighWith
    <2>2. Weigh(tables) \in Nat BY TypedFacts, WeighIsSum
    <2>3. QED BY <1>1, <2>1, <2>2 DEF Columnar, Columns, Charged
  <1>11. UNCHANGED <<format, lengths, decoders, books>> BY DEF Artifact
  <1>12. Typed'
    <2>1. Map(lengths', Nat, next'.handle) /\ Map(decoders', Nat, next'.handle)
      BY <1>11, MapEmpty DEF Columnar, Columns
    <2>2. /\ next'.operation > 0 /\ next'.handle > 0 /\ next'.table > 0 /\ next'.book > 0
      BY <1>4, TypedMaps
    <2>3. Map(books', BookRecords, next'.book) BY <1>4, <1>11, TypedMaps
    <2>4. QED BY <1>4, <1>7, <1>8, <1>9, <2>1, <2>2, <2>3 DEF Typed, OpsTyped
  <1>13. Columns' BY <1>1, <1>3, <1>6, <1>7, <1>10, <1>11 DEF Columnar, Columns
  <1>14. Opens' = Opens BY <1>1 DEF Opens
  <1>15. Working' BY <1>1, <1>6, <1>7, <1>11, <1>14 DEF Columnar, Working
  <1>16. QED BY <1>12, <1>13, <1>15 DEF Columnar

\* The operation alone is dropped: it published nothing.
LEMMA ColumnarDrop ==
  ASSUME Typed, format \in {"arrow", "parquet"}, Columnar, Artifact,
         UNCHANGED <<owners, engine, next, done>>,
         NEW op \in DOMAIN operations, operations' = Without(operations, {op}),
         op \in Opens => operations[op].source \notin DOMAIN sources
  PROVE  Typed' /\ Columnar'
  <1>1. UNCHANGED <<next, done>> /\ UNCHANGED <<owners, sources, tables, retained>> BY DEF engine
  <1>2. /\ sources' = Without(sources, {}) /\ tables' = Without(tables, {})
        /\ owners' = Without(owners, {})
    <2>1. Without(sources, {}) = sources /\ Without(tables, {}) = tables
      BY WithoutNothing DEF Typed
    <2>2. Without(owners, {}) = owners BY DEF Typed, Without, Restrict
    <2>3. QED BY <1>1, <2>1, <2>2
  <1>3. Charged' BY <1>1 DEF Columnar, Columns, Charged
  <1>4. \A t \in DOMAIN tables : tables[t].source \in {} => t \in {} OBVIOUS
  <1>5. \A x \in DOMAIN operations :
           \/ x \in {op}
           \/ /\ operations[x].source \in DOMAIN sources => operations[x].source \notin {}
              /\ operations[x].kind = "read" => operations[x].table \notin {}
    OBVIOUS
  <1>6. \A x \in Opens \cap {op} :
           operations[x].source \in DOMAIN sources => operations[x].source \in {}
    OBVIOUS
  <1>7. operations' = Without(operations, {op}) /\ format \in {"arrow", "parquet"} OBVIOUS
  <1>8. QED BY ONLY Typed, Columnar, Artifact, <1>1, <1>2, <1>3, <1>4, <1>5, <1>6, <1>7, ColumnarForget

\* A handle was spent and nothing else happened.
LEMMA ColumnarIdle ==
  ASSUME Typed, format \in {"arrow", "parquet"}, Columnar, Artifact,
         UNCHANGED <<operations, owners, engine, done>>, next' = TakeOperation
  PROVE  Typed' /\ Columnar'
  <1>1. UNCHANGED <<format, lengths, decoders, books, operations, owners, sources, tables, retained, done>>
    BY DEF Artifact, engine
  <1>2. /\ next' \in Counters /\ next'.handle = next.handle /\ next'.table = next.table
        /\ next'.book = next.book /\ next'.operation = next.operation + 1
    BY CountersType DEF TakeOperation, Counters, Typed
  <1>3. OpsTyped'
    <2>1. next'.operation \in Nat /\ next'.operation >= next.operation BY <1>2, TypedMaps
    <2>2. QED BY <1>1, <2>1, OpsSame
  <1>4. Typed'
    <2>1. next'.operation > 0 BY <1>2, TypedMaps
    <2>2. QED BY <1>1, <1>2, <1>3, <2>1 DEF Typed, OpsTyped
  <1>5. Opens' = Opens BY <1>1 DEF Opens
  <1>6. Columns' /\ Working' BY <1>1, <1>5 DEF Columnar, Columns, Charged, Working
  <1>7. QED BY <1>4, <1>6 DEF Columnar

\* A source is closed with all that works on it or reads from it.
LEMMA ColumnarCloses ==
  ASSUME Typed, format \in {"arrow", "parquet"}, Columnar, Artifact, UNCHANGED <<next, done>>,
         NEW source, NEW S,
         operations' = Without(operations, S), owners' = Without(owners, OwnedBy(source)),
         EngineClose(source),
         \A op \in DOMAIN operations :
            operations[op].source = source /\ source \in DOMAIN sources => op \in S,
         \A op \in Opens \cap S :
            operations[op].source \in DOMAIN sources => operations[op].source = source
  PROVE  Typed' /\ Columnar'
  <1> DEFINE U == TablesOf(source)
  <1>1. /\ sources' = Without(sources, {source}) /\ tables' = Without(tables, U) /\ Charged'
    <2>1. \A t \in DOMAIN tables : tables[t].source \in DOMAIN sources
      BY DEF Columnar, Columns
    <2>2. QED BY <2>1, EngineCloseIs DEF Columnar, Columns
  <1>2. OwnedBy(source) = U BY DEF OwnedBy, TablesOf, Columnar, Columns
  <1>3. \A t \in DOMAIN tables : tables[t].source \in {source} => t \in U BY DEF TablesOf
  <1>4. \A op \in DOMAIN operations :
           \/ op \in S
           \/ /\ operations[op].source \in DOMAIN sources => operations[op].source \notin {source}
              /\ operations[op].kind = "read" => operations[op].table \notin U
    BY DEF TablesOf, Columnar, Working, Columns
  <1>5. \A op \in Opens \cap S :
           operations[op].source \in DOMAIN sources => operations[op].source \in {source}
    OBVIOUS
  <1>6. /\ operations' = Without(operations, S) /\ owners' = Without(owners, U)
        /\ UNCHANGED <<next, done>> /\ format \in {"arrow", "parquet"}
    BY <1>2
  <1> HIDE DEF U
  <1>7. QED BY ONLY Typed, Columnar, Artifact, <1>1, <1>3, <1>4, <1>5, <1>6, ColumnarForget

LEMMA ColumnarCloseTable ==
  ASSUME Typed, format \in {"arrow", "parquet"}, Columnar, Artifact,
         NEW table \in DOMAIN owners, EngineCloseTable(table)
  PROVE  Typed' /\ Columnar'
  <1> DEFINE S == ReadsOf(table)
  <1>1. /\ operations' = Without(operations, S) /\ owners' = Without(owners, {table})
        /\ tables' = Without(tables, {table}) /\ UNCHANGED <<sources, retained, next, done>>
    BY DEF EngineCloseTable
  <1>2. sources' = Without(sources, {}) BY <1>1, WithoutNothing DEF Typed
  <1>3. table \in DOMAIN tables /\ tables[table].bytes = 0 BY DEF Columnar, Columns
  <1>4. Charged'
    <2>1. /\ Weighted(Without(tables, {table}))
          /\ Weigh(tables) = Weigh(Without(tables, {table})) + tables[table].bytes
      BY <1>3, TypedFacts, WeighOne
    <2>2. Weigh(Without(tables, {table})) \in Nat BY <2>1, WeighIsSum
    <2>3. Weigh(tables') = Weigh(tables) BY <1>1, <1>3, <2>1, <2>2
    <2>4. QED BY <1>1, <2>3 DEF Columnar, Columns, Charged
  <1>5. \A t \in DOMAIN tables : tables[t].source \in {} => t \in {table} OBVIOUS
  <1>6. \A op \in DOMAIN operations :
           \/ op \in S
           \/ /\ operations[op].source \in DOMAIN sources => operations[op].source \notin {}
              /\ operations[op].kind = "read" => operations[op].table \notin {table}
    BY DEF ReadsOf
  <1>7. \A op \in Opens \cap S :
           operations[op].source \in DOMAIN sources => operations[op].source \in {}
    BY DEF ReadsOf, Opens
  <1>8. format \in {"arrow", "parquet"} OBVIOUS
  <1> HIDE DEF S
  <1>9. QED BY ONLY Typed, Columnar, Artifact, <1>1, <1>2, <1>4, <1>5, <1>6, <1>7, <1>8, ColumnarForget

LEMMA ColumnarBeginRead ==
  ASSUME Typed, format \in {"arrow", "parquet"}, Columnar, Artifact,
         NEW table \in DOMAIN owners, NEW lazy \in BOOLEAN, NEW length \in Nat,
         NEW steps \in Seq(Steps), EngineBeginRead(table, lazy, length, steps),
         lazy /\ format = "arrow" => ~sources[owners[table].source].stream
  PROVE  Typed' /\ Columnar'
  <1> DEFINE s == owners[table].source
  <1>1. table \in DOMAIN tables /\ s = tables[table].source /\ s \in DOMAIN sources
    BY DEF Columnar, Columns
  <1>2. s \in Nat /\ table \in Nat BY <1>1, TypedFacts
  <1>3. next' = TakeOperation /\ UNCHANGED <<owners, engine, done>> BY DEF EngineBeginRead
  <1>4. CASE UNCHANGED operations
    <2>1. UNCHANGED <<operations, owners, engine, done>> BY <1>3, <1>4
    <2>2. format \in {"arrow", "parquet"} OBVIOUS
    <2>3. QED BY ONLY Typed, Columnar, Artifact, <1>3, <2>1, <2>2, ColumnarIdle
  <1>5. CASE /\ lazy
             /\ operations' = With(operations, next.operation,
                    Operation("read", s, table, length, Issue(NewCursor, steps)))
    <2> DEFINE kind == "read"
    <2>1. kind \in {"open", "read"} OBVIOUS
    <2>2. /\ kind = "read" /\ table \in DOMAIN tables /\ s = tables[table].source
          /\ format = "arrow" => ~sources[s].stream
      BY <1>1, <1>5
    <2>5. operations' = With(operations, next.operation,
                    Operation(kind, s, table, length, Issue(NewCursor, steps)))
      BY <1>5
    <2>3. format \in {"arrow", "parquet"} OBVIOUS
    <2> HIDE DEF s, kind
    <2>4. QED BY ONLY Typed, Columnar, Artifact, length \in Nat, steps \in Seq(Steps),
              <1>2, <1>3, <2>1, <2>2, <2>3, <2>5, ColumnarBegin
  <1>6. QED BY <1>4, <1>5 DEF EngineBeginRead

LEMMA ColumnarOpens ==
  ASSUME Typed, format \in {"arrow", "parquet"}, Columnar, Artifact,
         UNCHANGED <<owners, engine, done>>, next' = TakeOperation,
         NEW length \in Nat, NEW steps \in Seq(Steps),
         operations' = With(operations, next.operation,
                            Operation("open", None, None, length, Issue(NewCursor, steps)))
  PROVE  Typed' /\ Columnar'
  <1> DEFINE kind == "open"
  <1>1. kind \in {"open", "read"} /\ kind = "open" /\ None = None /\ None \in Nat BY DEF None
  <1>2. format \in {"arrow", "parquet"} /\ UNCHANGED <<owners, engine, done>>
        /\ next' = TakeOperation
    OBVIOUS
  <1>3. operations' = With(operations, next.operation,
                           Operation(kind, None, None, length, Issue(NewCursor, steps)))
    OBVIOUS
  <1> HIDE DEF kind
  <1>4. QED BY ONLY Typed, Columnar, Artifact, length \in Nat, steps \in Seq(Steps),
            <1>1, <1>2, <1>3, ColumnarBegin

\* The next step of an operation: its record with a cursor that waits.
LEMMA ColumnarAsks ==
  ASSUME Typed, format \in {"arrow", "parquet"}, Columnar, Artifact,
         UNCHANGED <<owners, engine, next, done>>,
         NEW op \in DOMAIN operations, NEW steps \in Seq(Steps),
         operations' = [operations EXCEPT
            ![op].cursor = Issue(ConsumeResults(operations[op].cursor), steps)]
  PROVE  Typed' /\ Columnar'
  <1> DEFINE old == operations[op]
             c == Issue(ConsumeResults(old.cursor), steps)
             o == [old EXCEPT !.cursor = c]
  <1>1. old \in OperationRecords BY TypedFacts
  <1>2. c \in Cursors /\ c.awaiting /\ c.revision >= 1
    <2>1. old.cursor \in Cursors /\ old.cursor.revision >= 1 BY <1>1, OperationFields DEF Typed
    <2>2. /\ ConsumeResults(old.cursor) \in Cursors
          /\ ConsumeResults(old.cursor).revision = old.cursor.revision
      BY <2>1, CursorType
    <2>3. old.cursor.revision \in Nat BY <2>1 DEF Cursors
    <2> HIDE DEF old
    <2>4. /\ c \in Cursors /\ c.awaiting
          /\ c.revision = ConsumeResults(old.cursor).revision + 1
      BY <2>2, CursorType
    <2>5. QED BY <2>1, <2>2, <2>3, <2>4
  <1>3. operations' = [operations EXCEPT ![op] = o] BY DEF Typed, Map
  <1> HIDE DEF c
  <1>4. /\ o \in OperationRecords /\ o.kind = old.kind /\ o.source = old.source
        /\ o.table = old.table /\ o.cursor = c
    BY <1>1, <1>2 DEF OperationRecords
  <1> HIDE DEF o
  <1>5. o.cursor.awaiting /\ o.cursor.revision >= 1 BY <1>2, <1>4
  <1>6. format \in {"arrow", "parquet"} /\ UNCHANGED <<owners, engine, next, done>> OBVIOUS
  <1>7. QED BY ONLY Typed, Columnar, Artifact, op \in DOMAIN operations, <1>3, <1>4, <1>5, <1>6, ColumnarStep

LEMMA LengthsNat == \A length \in Lengths : length \in Nat
  BY RegistryAssumption

LEMMA ParquetKeeps ==
  ASSUME Typed, Columnar, ParquetNext PROVE Typed' /\ Columnar'
  <1>1. format = "parquet" /\ Artifact /\ format \in {"arrow", "parquet"} BY DEF ParquetNext, Artifact
  <1>2. ASSUME NEW length \in Lengths, NEW steps \in EngineSteps(length),
               ParquetBeginOpen(length, steps)
        PROVE  Typed' /\ Columnar'
    <2>1. length \in Nat /\ steps \in Seq(Steps) BY LengthsNat, StepsType
    <2>2. /\ UNCHANGED <<owners, engine, done>> /\ next' = TakeOperation
          /\ operations' = With(operations, next.operation,
                            Operation("open", None, None, length, Issue(NewCursor, steps)))
      BY <1>2 DEF ParquetBeginOpen
    <2>3. QED BY ONLY Typed, Columnar, <1>1, <2>1, <2>2, ColumnarOpens
  <1>3. ASSUME NEW op \in DOMAIN operations, operations' = Without(operations, {op}),
               UNCHANGED <<owners, engine, next, done>>
        PROVE  Typed' /\ Columnar'
    <2>1. op \in Opens => operations[op].source \notin DOMAIN sources
      BY <1>1, TypedFacts DEF Columnar, Working, Opens, None
    <2>2. QED BY ONLY Typed, Columnar, <1>1, <1>3, <2>1, ColumnarDrop
  <1>4. ASSUME NEW op \in DOMAIN operations, operations[op].kind = "open",
               NEW bytes \in Weights, ParquetFinish(op, bytes)
        PROVE  Typed' /\ Columnar'
    <2>1. CASE EngineCanRegister(bytes)
      <3>1. op \in Opens /\ operations[op].source = None
        BY <1>1, <1>4 DEF Opens, Columnar, Working
      <3>2. /\ operations' = Without(operations, {op}) /\ EngineRegister(bytes, FALSE)
            /\ done' = done \cup {next.handle} /\ UNCHANGED <<owners, tables>>
        BY <1>4, <2>1 DEF ParquetFinish
      <3>3. bytes \in Nat /\ FALSE \in BOOLEAN BY RegistryAssumption
      <3>4. QED BY ONLY Typed, Columnar, <1>1, <2>1, <3>1, <3>2, <3>3, ColumnarFinish
    <2>2. CASE ~EngineCanRegister(bytes)
      <3>1. operations' = Without(operations, {op}) /\ UNCHANGED <<owners, engine, next, done>>
        BY <1>4, <2>2 DEF ParquetFinish, engine
      <3>2. QED BY <1>3, <3>1
    <2>3. QED BY <2>1, <2>2
  <1>5. ASSUME NEW op \in DOMAIN operations, NEW revision, NEW results,
               ParquetContinue(op, revision, results)
        PROVE  Typed' /\ Columnar'
    <2>1. CASE operations' = Without(operations, {op}) /\ UNCHANGED <<owners, engine, next, done>>
      BY <1>3, <2>1
    <2>2. CASE operations[op].kind = "open" /\ \E bytes \in Weights : ParquetFinish(op, bytes)
      BY <1>4, <2>2
    <2>3. ASSUME NEW steps \in EngineSteps(operations[op].length),
                 operations' = [operations EXCEPT
                   ![op].cursor = Issue(ConsumeResults(operations[op].cursor), steps)],
                 UNCHANGED <<owners, engine, next, done>>
          PROVE  Typed' /\ Columnar'
      <3>1. operations[op].length \in Nat BY TypedFacts, OperationFields
      <3>2. steps \in Seq(Steps) BY <3>1, StepsType
      <3>3. QED BY ONLY Typed, Columnar, op \in DOMAIN operations, <1>1, <2>3, <3>2, ColumnarAsks
    <2>4. QED BY <1>5, <2>1, <2>2, <2>3 DEF ParquetContinue
  <1>6. ASSUME NEW source, ParquetOpenTable(source) PROVE Typed' /\ Columnar'
    BY ONLY Typed, Columnar, <1>1, <1>6, ColumnarOpenTable DEF ParquetOpenTable
  <1>7. ASSUME NEW source, ParquetCloseSource(source) PROVE Typed' /\ Columnar'
    <2> DEFINE S == WorkOn(source)
    <2>1. /\ operations' = Without(operations, S) /\ owners' = Without(owners, OwnedBy(source))
          /\ EngineClose(source) /\ UNCHANGED <<next, done>>
      BY <1>7 DEF ParquetCloseSource, EngineCloseSource
    <2>2. /\ \A op \in DOMAIN operations :
                operations[op].source = source /\ source \in DOMAIN sources => op \in S
          /\ \A op \in Opens \cap S :
                operations[op].source \in DOMAIN sources => operations[op].source = source
      BY DEF WorkOn
    <2> HIDE DEF S
    <2>3. QED BY ONLY Typed, Columnar, <1>1, <2>1, <2>2, ColumnarCloses
  <1>8. ASSUME NEW table \in DOMAIN owners, ParquetCloseTable(table) PROVE Typed' /\ Columnar'
    BY ONLY Typed, Columnar, <1>1, <1>8, ColumnarCloseTable DEF ParquetCloseTable
  <1>9. ASSUME NEW table \in DOMAIN owners, NEW length \in Lengths,
               NEW steps \in EngineSteps(length), ParquetBeginRead(table, length, steps)
        PROVE  Typed' /\ Columnar'
    <2>1. length \in Nat /\ steps \in Seq(Steps) BY LengthsNat, StepsType
    <2> DEFINE lazy == TRUE
    <2>2. /\ EngineBeginRead(table, lazy, length, steps) /\ lazy \in BOOLEAN
          /\ lazy /\ format = "arrow" => ~sources[owners[table].source].stream
      BY <1>1, <1>9 DEF ParquetBeginRead
    <2> HIDE DEF lazy
    <2>3. QED BY ONLY Typed, Columnar, table \in DOMAIN owners, <1>1, <2>1, <2>2, ColumnarBeginRead
  <1>10. \A op \in DOMAIN operations : ParquetCancel(op) => Typed' /\ Columnar'
    BY <1>3 DEF ParquetCancel
  <1>11. QED BY <1>2, <1>5, <1>6, <1>7, <1>8, <1>9, <1>10 DEF ParquetNext

LEMMA ArrowDropKeeps ==
  ASSUME Typed, Columnar, format = "arrow", Artifact, NEW op \in Opens, ArrowDropOpen(op)
  PROVE  Typed' /\ Columnar'
  <1> DEFINE source == operations[op].source
             S == {op}
  <1>1. op \in DOMAIN operations /\ operations[op].kind = "open" BY DEF Opens
  <1>2. /\ operations' = Without(operations, S) /\ owners' = Without(owners, OwnedBy(source))
        /\ EngineClose(source) /\ UNCHANGED <<next, done>>
    BY DEF ArrowDropOpen
  <1>3. ASSUME NEW x \in DOMAIN operations, operations[x].source = source, source \in DOMAIN sources
        PROVE  x \in S
    <2>1. source # None BY <1>3, TypedFacts DEF None
    <2>2. sources[source].stream BY <1>1, <2>1 DEF Columnar, Working
    <2>3. operations[x].kind = "open" BY <1>3, <2>2 DEF Columnar, Working
    <2>4. x \in Opens BY <2>3 DEF Opens
    <2>5. QED BY <1>3, <2>1, <2>4 DEF Columnar, Working
  <1>4. \A x \in Opens \cap S :
           operations[x].source \in DOMAIN sources => operations[x].source = source
    OBVIOUS
  <1>5. format \in {"arrow", "parquet"} OBVIOUS
  <1> HIDE DEF S, source
  <1>6. QED BY ONLY Typed, Columnar, Artifact, <1>2, <1>3, <1>4, <1>5, ColumnarCloses

LEMMA ArrowProgressKeeps ==
  ASSUME Typed, Columnar, format = "arrow", Artifact, NEW op \in Opens, NEW fed \in Nat,
         NEW publish \in BOOLEAN, NEW steps \in Seq(Steps), ArrowProgress(op, fed, publish, steps)
  PROVE  Typed' /\ Columnar'
  <1> DEFINE old == operations[op]
             c == Issue(ConsumeResults(old.cursor), steps)
             own == IF publish /\ old.source = None THEN next.handle ELSE old.source
             o == [old EXCEPT !.source = own, !.fed = fed, !.cursor = c]
  <1>1. op \in DOMAIN operations /\ old.kind = "open" /\ old \in OperationRecords
        /\ format \in {"arrow", "parquet"}
    BY TypedFacts DEF Opens
  <1>2. c \in Cursors /\ c.awaiting /\ c.revision >= 1
    <2>1. old.cursor \in Cursors /\ old.cursor.revision >= 1 BY <1>1, OperationFields DEF Typed
    <2>2. /\ ConsumeResults(old.cursor) \in Cursors
          /\ ConsumeResults(old.cursor).revision = old.cursor.revision
      BY <2>1, CursorType
    <2>3. old.cursor.revision \in Nat BY <2>1 DEF Cursors
    <2> HIDE DEF old
    <2>4. /\ c \in Cursors /\ c.awaiting
          /\ c.revision = ConsumeResults(old.cursor).revision + 1
      BY <2>2, CursorType
    <2>5. QED BY <2>1, <2>2, <2>3, <2>4
  <1>3. operations' = [operations EXCEPT ![op] = o] BY DEF ArrowProgress
  <1>4. own \in Nat
    <2>1. next.handle \in Nat /\ old.source \in Nat BY <1>1, TypedMaps, OperationFields
    <2>2. QED BY <2>1
  <1>5. /\ o \in OperationRecords /\ o.kind = old.kind /\ o.table = old.table /\ o.cursor = c
        /\ o.source = own
    <2> HIDE DEF own, c
    <2>1. QED BY <1>1, <1>2, <1>4 DEF OperationRecords
  <1>6. CASE ~publish
    <2>1. own = old.source BY <1>6
    <2>2. UNCHANGED <<owners, engine, next, done>> BY <1>6 DEF ArrowProgress, engine
    <2> HIDE DEF own, c, o, old
    <2>3. o.source = operations[op].source /\ o.kind = operations[op].kind
          /\ o.table = operations[op].table /\ o.cursor.awaiting /\ o.cursor.revision >= 1
      BY <1>2, <1>5, <2>1 DEF old
    <2>4. QED BY ONLY Typed, Columnar, Artifact, <1>1, <1>3, <1>5, <2>2, <2>3, ColumnarStep
  <1>7. CASE publish
    <2>1. /\ UNCHANGED <<owners, tables, done>>
          /\ \/ /\ operations[op].source = None /\ own = next.handle
                /\ EngineCanRegister(fed) /\ EngineRegister(fed, TRUE)
             \/ /\ operations[op].source # None /\ own = operations[op].source
                /\ Fits(StreamGrowth(own, fed)) /\ ArrowAppend(own, fed)
      BY <1>7 DEF ArrowProgress
    <2> HIDE DEF own, c, o
    <2>2. o.kind = "open" /\ o.source = own /\ o.cursor.awaiting /\ o.cursor.revision >= 1
      BY <1>1, <1>2, <1>5
    <2> HIDE DEF old
    <2>3. QED BY ONLY Typed, Columnar, Artifact, format = "arrow", op \in Opens, fed \in Nat,
              <1>3, <1>5, <2>1, <2>2, ColumnarPublish
  <1>8. QED BY <1>6, <1>7

LEMMA ArrowKeeps ==
  ASSUME Typed, Columnar, ArrowNext PROVE Typed' /\ Columnar'
  <1>1. format = "arrow" /\ Artifact /\ format \in {"arrow", "parquet"} BY DEF ArrowNext, Artifact
  <1>2. ASSUME NEW length \in Lengths, NEW steps \in EngineSteps(length),
               ArrowBeginOpen(length, steps)
        PROVE  Typed' /\ Columnar'
    <2>1. length \in Nat /\ steps \in Seq(Steps) BY LengthsNat, StepsType
    <2>2. /\ UNCHANGED <<owners, engine, done>> /\ next' = TakeOperation
          /\ operations' = With(operations, next.operation,
                            Operation("open", None, None, length, Issue(NewCursor, steps)))
      BY <1>2 DEF ArrowBeginOpen
    <2>3. QED BY ONLY Typed, Columnar, <1>1, <2>1, <2>2, ColumnarOpens
  <1>3. ASSUME NEW op \in DOMAIN operations, operations[op].kind # "open",
               operations' = Without(operations, {op}), UNCHANGED <<owners, engine, next, done>>
        PROVE  Typed' /\ Columnar'
    <2>1. op \in Opens => operations[op].source \notin DOMAIN sources BY <1>3 DEF Opens
    <2>2. QED BY ONLY Typed, Columnar, <1>1, <1>3, <2>1, ColumnarDrop
  <1>4. ASSUME NEW op \in Opens, ArrowContinueOpen(op) PROVE Typed' /\ Columnar'
    <2>1. op \in DOMAIN operations /\ operations[op].fed \in Nat /\ operations[op].length \in Nat
      BY TypedFacts, OperationFields DEF Opens
    <2>2. CASE ArrowDropOpen(op) BY <1>1, <1>4, <2>2, ArrowDropKeeps
    <2>3. ASSUME NEW growth \in Weights, NEW kind \in BOOLEAN,
                 ArrowFinish(op, operations[op].fed + growth, kind)
          PROVE  Typed' /\ Columnar'
      <3> DEFINE fed == operations[op].fed + growth
                 source == operations[op].source
      <3>1. fed \in Nat BY <2>1, RegistryAssumption
      <3>2. /\ operations' = Without(operations, {op}) /\ UNCHANGED <<owners, tables>>
            /\ \/ /\ source = None
                  /\ EngineCanRegister(fed) /\ EngineRegister(fed, kind)
                  /\ done' = done \cup {next.handle}
               \/ /\ source # None /\ Fits(StreamGrowth(source, fed)) /\ ArrowAppend(source, fed)
                  /\ done' = done \cup {source}
        BY <2>3 DEF ArrowFinish
      <3> HIDE DEF fed
      <3>3. QED BY ONLY Typed, Columnar, op \in Opens, kind \in BOOLEAN, <1>1, <3>1, <3>2, ColumnarFinish
    <2>4. ASSUME NEW growth \in Weights, NEW steps \in EngineSteps(operations[op].length),
                 ArrowProgress(op, operations[op].fed + growth, TRUE, steps)
          PROVE  Typed' /\ Columnar'
      <3> DEFINE fed == operations[op].fed + growth
                 publish == TRUE
      <3>1. steps \in Seq(Steps) /\ publish \in BOOLEAN /\ ArrowProgress(op, fed, publish, steps)
        BY <2>1, <2>4, StepsType
      <3>2. fed \in Nat BY <2>1, RegistryAssumption
      <3> HIDE DEF fed, publish
      <3>3. QED BY ONLY Typed, Columnar, op \in Opens, <1>1, <3>1, <3>2, ArrowProgressKeeps
    <2>5. ASSUME NEW steps \in EngineSteps(operations[op].length),
                 ArrowProgress(op, operations[op].fed, FALSE, steps)
          PROVE  Typed' /\ Columnar'
      <3> DEFINE fed == operations[op].fed
                 publish == FALSE
      <3>1. fed \in Nat /\ steps \in Seq(Steps) /\ publish \in BOOLEAN
            /\ ArrowProgress(op, fed, publish, steps)
        BY <2>1, <2>5, StepsType
      <3> HIDE DEF fed, publish
      <3>2. QED BY ONLY Typed, Columnar, op \in Opens, <1>1, <3>1, ArrowProgressKeeps
    <2>6. QED BY <1>4, <2>2, <2>3, <2>4, <2>5 DEF ArrowContinueOpen
  <1>5. ASSUME NEW op \in DOMAIN operations, operations[op].kind # "open", ArrowContinueRead(op)
        PROVE  Typed' /\ Columnar'
    <2>1. UNCHANGED <<owners, engine, next, done>> BY <1>5 DEF ArrowContinueRead
    <2>2. CASE operations' = Without(operations, {op}) BY <1>3, <1>5, <2>1, <2>2
    <2>3. ASSUME NEW steps \in EngineSteps(operations[op].length),
                 operations' = [operations EXCEPT
                   ![op].cursor = Issue(ConsumeResults(operations[op].cursor), steps)]
          PROVE  Typed' /\ Columnar'
      <3>1. operations[op].length \in Nat BY TypedFacts, OperationFields
      <3>2. steps \in Seq(Steps) BY <3>1, StepsType
      <3>3. QED BY ONLY Typed, Columnar, op \in DOMAIN operations, <1>1, <2>1, <2>3, <3>2, ColumnarAsks
    <2>4. QED BY <1>5, <2>2, <2>3 DEF ArrowContinueRead
  <1>6. \A op \in DOMAIN operations : operations[op].kind = "open" => op \in Opens BY DEF Opens
  <1>7. ASSUME NEW op \in DOMAIN operations, NEW revision, NEW results,
               ArrowContinue(op, revision, results)
        PROVE  Typed' /\ Columnar'
    BY <1>4, <1>5, <1>6, <1>7 DEF ArrowContinue
  <1>8. ASSUME NEW op \in DOMAIN operations, ArrowCancel(op) PROVE Typed' /\ Columnar'
    BY <1>1, <1>3, <1>6, <1>8, ArrowDropKeeps DEF ArrowCancel
  <1>9. ASSUME NEW source, ArrowOpenTable(source) PROVE Typed' /\ Columnar'
    BY ONLY Typed, Columnar, <1>1, <1>9, ColumnarOpenTable DEF ArrowOpenTable
  <1>10. ASSUME NEW source, ArrowCloseSource(source) PROVE Typed' /\ Columnar'
    <2> DEFINE S == WorkOn(source)
    <2>1. /\ operations' = Without(operations, S) /\ owners' = Without(owners, OwnedBy(source))
          /\ EngineClose(source) /\ UNCHANGED <<next, done>>
      BY <1>10 DEF ArrowCloseSource, EngineCloseSource
    <2>2. /\ \A op \in DOMAIN operations :
                operations[op].source = source /\ source \in DOMAIN sources => op \in S
          /\ \A op \in Opens \cap S :
                operations[op].source \in DOMAIN sources => operations[op].source = source
      BY DEF WorkOn
    <2> HIDE DEF S
    <2>3. QED BY ONLY Typed, Columnar, <1>1, <2>1, <2>2, ColumnarCloses
  <1>11. ASSUME NEW table \in DOMAIN owners, ArrowCloseTable(table) PROVE Typed' /\ Columnar'
    BY ONLY Typed, Columnar, <1>1, <1>11, ColumnarCloseTable DEF ArrowCloseTable
  <1>12. ASSUME NEW table \in DOMAIN owners, NEW length \in Lengths,
               NEW steps \in EngineSteps(length), ArrowBeginRead(table, length, steps)
        PROVE  Typed' /\ Columnar'
    <2>1. length \in Nat /\ steps \in Seq(Steps) BY LengthsNat, StepsType
    <2> DEFINE lazy == ~sources[owners[table].source].stream
    <2>2. /\ EngineBeginRead(table, lazy, length, steps) /\ lazy \in BOOLEAN
          /\ lazy /\ format = "arrow" => ~sources[owners[table].source].stream
      BY <1>12 DEF ArrowBeginRead
    <2> HIDE DEF lazy
    <2>3. QED BY ONLY Typed, Columnar, table \in DOMAIN owners, <1>1, <2>1, <2>2, ColumnarBeginRead
  <1>13. QED BY <1>2, <1>7, <1>8, <1>9, <1>10, <1>11, <1>12 DEF ArrowNext

-----------------------------------------------------------------------------
(* The Excel artifact.                                                     *)
Facade == UNCHANGED <<format, lengths, decoders, ledger>>

CountersGrow ==
    /\ next' \in Counters /\ next'.operation >= next.operation /\ next'.handle >= next.handle
    /\ next'.table = next.table /\ next'.book >= next.book

LEMMA CountersGrowFacts ==
  ASSUME Typed, CountersGrow
  PROVE  /\ next'.operation \in Nat /\ next'.operation > 0
         /\ next'.handle \in Nat /\ next'.handle > 0 /\ next'.table > 0
         /\ next'.book \in Nat /\ next'.book > 0
  BY TypedMaps DEF CountersGrow, Counters

LEMMA CountersGrows ==
  ASSUME Typed
  PROVE  /\ next' = next => CountersGrow /\ next'.book = next.book
         /\ next' = TakeOperation => CountersGrow /\ next'.book = next.book
         /\ \A n \in Nat : next' = [next EXCEPT !.handle = @ + n] =>
               CountersGrow /\ next'.book = next.book /\ next'.handle = next.handle + n
         /\ \A n \in Nat : next' = [next EXCEPT !.operation = @ + 1, !.handle = @ + n] =>
               CountersGrow /\ next'.book = next.book /\ next'.handle = next.handle + n
  <1>1. next \in Counters /\ next.operation \in Nat /\ next.handle \in Nat /\ next.table \in Nat
        /\ next.book \in Nat
    BY TypedMaps DEF Typed
  <1>2. \A n \in Nat : next.handle + n \in Nat /\ next.handle + n >= next.handle
        /\ next.operation + 1 \in Nat /\ next.operation + 1 >= next.operation
    BY <1>1
  <1>3. next' = next => CountersGrow /\ next'.book = next.book BY <1>1 DEF CountersGrow
  <1>4. next' = TakeOperation => CountersGrow /\ next'.book = next.book
    BY <1>1, <1>2 DEF CountersGrow, Counters, TakeOperation
  <1>5. ASSUME NEW n \in Nat, next' = [next EXCEPT !.handle = @ + n]
        PROVE  CountersGrow /\ next'.book = next.book /\ next'.handle = next.handle + n
    BY <1>1, <1>2, <1>5 DEF CountersGrow, Counters
  <1>6. ASSUME NEW n \in Nat, next' = [next EXCEPT !.operation = @ + 1, !.handle = @ + n]
        PROVE  CountersGrow /\ next'.book = next.book /\ next'.handle = next.handle + n
    <2>1. /\ next'.operation = next.operation + 1 /\ next'.handle = next.handle + n
          /\ next'.table = next.table /\ next'.book = next.book
      BY <1>1, <1>6 DEF Counters
    <2>2. next' = [operation |-> next.operation + 1, handle |-> next.handle + n,
                   table |-> next.table, book |-> next.book]
      BY <1>1, <1>6 DEF Counters
    <2>3. next' \in Counters BY <1>1, <1>2, <2>2 DEF Counters
    <2>4. QED BY <1>1, <1>2, <2>1, <2>3 DEF CountersGrow
  <1>7. QED BY <1>3, <1>4, <1>5, <1>6

\* The books still hold the same inner sources.
SameShelves(kept) ==
    /\ Map(kept, BookRecords, next.book) /\ DOMAIN kept = DOMAIN books
    /\ \A b \in DOMAIN books : kept[b].inner = books[b].inner

LEMMA BooksKept ==
  ASSUME Typed, NEW book \in DOMAIN books
  PROVE  SameShelves(books) /\ SameShelves([books EXCEPT ![book].bytes = @ + 1])
  <1> DEFINE v == [books[book] EXCEPT !.bytes = @ + 1]
             kept == [books EXCEPT ![book] = v]
  <1>1. books[book] \in BookRecords BY TypedFacts
  <1>2. v \in BookRecords /\ v.inner = books[book].inner BY <1>1 DEF BookRecords
  <1>3. Map(books, BookRecords, next.book) BY TypedMaps
  <1>4. [books EXCEPT ![book].bytes = @ + 1] = kept BY <1>3 DEF Map
  <1> HIDE DEF v
  <1>5. SameShelves(kept) BY <1>2, <1>3 DEF SameShelves, Map
  <1>6. QED BY <1>3, <1>4, <1>5 DEF SameShelves

\* Only operations, counters and kept bytes change.
LEMMA WorkbookKeep ==
  ASSUME Typed, Workbooks, Facade, UNCHANGED <<owners, engine, done>>,
         SameShelves(books'), CountersGrow, next'.book = next.book, OpsTyped', Answered'
  PROVE  Typed' /\ Workbooks'
  <1>1. UNCHANGED <<lengths, decoders, owners, sources, tables, retained, done>>
    BY DEF engine, Facade
  <1>2. /\ next.handle \in Nat /\ next'.handle \in Nat /\ next.handle <= next'.handle
        /\ next' \in Counters
    BY TypedMaps, CountersGrowFacts DEF CountersGrow
  <1>3. Map(sources', SourceRecords, next'.handle) /\ Map(tables', TableRecords, next'.handle)
        /\ Map(lengths', Nat, next'.handle) /\ Map(decoders', Nat, next'.handle)
    <2>1. Map(sources, SourceRecords, next'.handle) BY ONLY <1>2, TypedMaps, Typed, MapLater
    <2>2. Map(tables, TableRecords, next'.handle) BY ONLY <1>2, TypedMaps, Typed, MapLater
    <2>3. Map(lengths, Nat, next'.handle) BY ONLY <1>2, TypedMaps, Typed, MapLater
    <2>4. Map(decoders, Nat, next'.handle) BY ONLY <1>2, TypedMaps, Typed, MapLater
    <2>5. QED BY <1>1, <2>1, <2>2, <2>3, <2>4
  <1>4. /\ Map(books', BookRecords, next'.book) /\ DOMAIN books' = DOMAIN books
        /\ \A b \in DOMAIN books : books'[b].inner = books[b].inner
    BY DEF SameShelves
  <1>5. Typed' BY <1>1, <1>2, <1>3, <1>4, CountersGrowFacts DEF Typed, OpsTyped
  <1>6. Shelves' BY <1>1, <1>4 DEF Workbooks, Shelves, Charged
  <1>7. QED BY <1>5, <1>6 DEF Workbooks

\* A new book has no sheet open.
LEMMA WorkbookAdd ==
  ASSUME Typed, Workbooks, Facade, UNCHANGED <<owners, engine>>,
         NEW v \in BookRecords, v.inner = {}, books' = With(books, next.book, v),
         done' = done \cup {next.book}, CountersGrow, next'.book = next.book + 1,
         OpsTyped', Answered'
  PROVE  Typed' /\ Workbooks'
  <1> DEFINE n == next.book
  <1>1. UNCHANGED <<lengths, decoders, owners, sources, tables, retained>>
    BY DEF engine, Facade
  <1>2. /\ next.handle \in Nat /\ next'.handle \in Nat /\ next.handle <= next'.handle
        /\ next' \in Counters /\ n \in Nat /\ n > 0
    BY TypedMaps, CountersGrowFacts DEF CountersGrow
  <1>3. Map(sources', SourceRecords, next'.handle) /\ Map(tables', TableRecords, next'.handle)
        /\ Map(lengths', Nat, next'.handle) /\ Map(decoders', Nat, next'.handle)
    <2>1. Map(sources, SourceRecords, next'.handle) BY ONLY <1>2, TypedMaps, Typed, MapLater
    <2>2. Map(tables, TableRecords, next'.handle) BY ONLY <1>2, TypedMaps, Typed, MapLater
    <2>3. Map(lengths, Nat, next'.handle) BY ONLY <1>2, TypedMaps, Typed, MapLater
    <2>4. Map(decoders, Nat, next'.handle) BY ONLY <1>2, TypedMaps, Typed, MapLater
    <2>5. QED BY <1>1, <2>1, <2>2, <2>3, <2>4
  <1>4. /\ Map(books', BookRecords, next'.book) /\ DOMAIN books' = DOMAIN books \cup {n}
        /\ n \notin DOMAIN books /\ books'[n].inner = {}
        /\ \A b \in DOMAIN books : books'[b].inner = books[b].inner
    <2>1. DOMAIN books \subseteq 1 .. (n - 1) /\ books \in [DOMAIN books -> BookRecords]
      BY TypedMaps DEF Map
    <2>2. books' = With(books, n, v) /\ next'.book = n + 1 OBVIOUS
    <2> HIDE DEF n
    <2>3. DOMAIN books \cup {n} \subseteq 1 .. (n + 1 - 1) /\ n \notin DOMAIN books BY <1>2, <2>1
    <2>4. QED BY <2>1, <2>2, <2>3 DEF Map, With
  <1>5. Typed' BY <1>1, <1>2, <1>3, <1>4, CountersGrowFacts DEF Typed, OpsTyped
  <1>6. Shelves'
    <2>1. \A b1, b2 \in DOMAIN books' : books'[b1].inner \cap books'[b2].inner # {} => b1 = b2
      BY <1>4 DEF Workbooks, Shelves
    <2>2. \A b \in DOMAIN books' : books'[b].inner \subseteq DOMAIN sources'
      BY <1>1, <1>4 DEF Workbooks, Shelves
    <2>3. DOMAIN books' \subseteq done' BY <1>4 DEF Workbooks, Shelves
    <2>4. \A t \in DOMAIN tables' :
            /\ tables'[t].source = owners'[t].source /\ owners'[t].book \in DOMAIN books'
            /\ owners'[t].source \in books'[owners'[t].book].inner
      BY <1>1, <1>4 DEF Workbooks, Shelves
    <2> HIDE DEF n
    <2>5. QED BY <1>1, <2>1, <2>2, <2>3, <2>4 DEF Workbooks, Shelves, Charged
  <1>7. QED BY <1>5, <1>6 DEF Workbooks

\* A worksheet is opened: an inner source, its one table and their place in
\* the book.
LEMMA WorkbookOpens ==
  ASSUME Typed, Workbooks, Facade, UNCHANGED done, NEW book \in DOMAIN books, NEW kept,
         SameShelves(kept), NEW inner \in Nat, NEW sheet \in Nat,
         ExcelOpenCompact(kept, book, inner, sheet),
         CountersGrow, next'.book = next.book, next'.handle = next.handle + 2,
         OpsTyped', Answered'
  PROVE  Typed' /\ Workbooks'
  <1> DEFINE h == next.handle
             k == next.handle + 1
             src == ExcelSource(inner)
             tab == [source |-> h, bytes |-> sheet]
             own == [book |-> book, source |-> h]
  <1>1. UNCHANGED <<lengths, decoders, done>> BY DEF Facade
  <1>2. /\ sources' = With(sources, h, src) /\ tables' = With(tables, k, tab)
        /\ owners' = With(owners, k, own) /\ retained' = retained + inner + sheet
        /\ retained + (inner + sheet) <= BudgetBytes
        /\ books' = [kept EXCEPT ![book].inner = @ \cup {h}]
    BY DEF ExcelOpenCompact, EngineCanRegister, Fits
  <1>3. h \in Nat /\ h > 0 /\ k \in Nat /\ k = h + 1 /\ next'.handle = h + 2 /\ book \in Nat
    BY TypedMaps, TypedFacts
  <1>4. /\ src \in SourceRecords /\ src.bytes = inner
        /\ tab \in TableRecords /\ tab.bytes = sheet /\ tab.source = h
        /\ own \in OwnerRecords /\ own.book = book /\ own.source = h
    BY <1>3 DEF ExcelSource, SourceRecords, TableRecords, OwnerRecords
  <1>5. /\ DOMAIN sources \subseteq 1 .. (h - 1) /\ sources \in [DOMAIN sources -> SourceRecords]
        /\ DOMAIN tables \subseteq 1 .. (h - 1) /\ tables \in [DOMAIN tables -> TableRecords]
        /\ owners \in [DOMAIN owners -> OwnerRecords] /\ DOMAIN owners = DOMAIN tables
    BY TypedMaps DEF Map, Typed, Workbooks, Shelves
  <1> HIDE DEF h, k, src, tab, own
  <1>6. /\ h \notin DOMAIN sources \cup DOMAIN tables /\ k \notin DOMAIN sources \cup DOMAIN tables
        /\ h # k /\ DOMAIN sources \cup {h} \subseteq 1 .. (h + 2 - 1)
        /\ DOMAIN tables \cup {k} \subseteq 1 .. (h + 2 - 1)
    BY <1>3, <1>5
  <1>7. /\ DOMAIN sources' = DOMAIN sources \cup {h}
        /\ \A s \in DOMAIN sources : sources'[s] = sources[s]
        /\ sources' \in [DOMAIN sources' -> SourceRecords]
    BY <1>2, <1>4, <1>5, <1>6 DEF With
  <1>8. /\ DOMAIN tables' = DOMAIN tables \cup {k} /\ tables'[k] = tab
        /\ \A t \in DOMAIN tables : tables'[t] = tables[t]
        /\ tables' \in [DOMAIN tables' -> TableRecords]
    BY <1>2, <1>4, <1>5, <1>6 DEF With
  <1>9. /\ DOMAIN owners' = DOMAIN tables' /\ owners'[k] = own
        /\ \A t \in DOMAIN tables : owners'[t] = owners[t]
        /\ owners' \in [DOMAIN owners' -> OwnerRecords]
    BY <1>2, <1>4, <1>5, <1>6, <1>8 DEF With
  <1>10. /\ Map(books', BookRecords, next'.book) /\ DOMAIN books' = DOMAIN books
         /\ books'[book].inner = books[book].inner \cup {h}
         /\ \A b \in DOMAIN books : b # book => books'[b].inner = books[b].inner
    <2> DEFINE v == [kept[book] EXCEPT !.inner = @ \cup {h}]
    <2>1. /\ Map(kept, BookRecords, next.book) /\ DOMAIN kept = DOMAIN books
          /\ \A b \in DOMAIN books : kept[b].inner = books[b].inner
      BY DEF SameShelves
    <2>2. kept[book] \in BookRecords BY <2>1 DEF Map
    <2>3. v \in BookRecords /\ v.inner = books[book].inner \cup {h}
      BY <1>3, <2>1, <2>2 DEF BookRecords
    <2>4. books' = [kept EXCEPT ![book] = v] BY <1>2, <2>1 DEF Map
    <2> HIDE DEF v
    <2>5. QED BY <2>1, <2>3, <2>4 DEF Map
  <1>11. Charged'
    <2>1. Weigh(sources') = Weigh(sources) + inner BY <1>2, <1>4, <1>6, TypedFacts, WeighWith
    <2>2. Weigh(tables') = Weigh(tables) + sheet BY <1>2, <1>4, <1>6, TypedFacts, WeighWith
    <2>3. Weigh(sources) \in Nat /\ Weigh(tables) \in Nat BY TypedFacts, WeighIsSum
    <2>4. QED BY <1>2, <2>1, <2>2, <2>3 DEF Workbooks, Shelves, Charged
  <1>12. Typed'
    <2>1. Map(sources', SourceRecords, next'.handle) /\ Map(tables', TableRecords, next'.handle)
      BY <1>3, <1>6, <1>7, <1>8 DEF Map
    <2>2. Map(lengths', Nat, next'.handle) /\ Map(decoders', Nat, next'.handle)
      BY <1>1, MapEmpty DEF Workbooks, Shelves
    <2>3. next' \in Counters BY DEF CountersGrow
    <2>4. QED BY <1>9, <1>10, <2>1, <2>2, <2>3, CountersGrowFacts DEF Typed, OpsTyped
  <1>13. Shelves'
    <2>1. \A t \in DOMAIN tables :
            /\ tables[t].source = owners[t].source /\ owners[t].book \in DOMAIN books
            /\ owners[t].source \in books[owners[t].book].inner
            /\ tables[t].source \in DOMAIN sources
      BY DEF Workbooks, Shelves
    <2>2. \A t \in DOMAIN tables' :
            /\ tables'[t].source = owners'[t].source /\ owners'[t].book \in DOMAIN books'
            /\ owners'[t].source \in books'[owners'[t].book].inner
      BY <1>4, <1>8, <1>9, <1>10, <2>1
    <2>3. \A s \in DOMAIN sources' : \E t \in DOMAIN tables' : tables'[t].source = s
      BY <1>4, <1>7, <1>8 DEF Workbooks, Shelves
    <2>4. \A t1, t2 \in DOMAIN tables' : tables'[t1].source = tables'[t2].source => t1 = t2
      BY <1>4, <1>6, <1>8, <2>1 DEF Workbooks, Shelves
    <2>5. \A b \in DOMAIN books : books[b].inner \subseteq DOMAIN sources BY DEF Workbooks, Shelves
    <2>6. \A b \in DOMAIN books' : books'[b].inner \subseteq DOMAIN sources'
      BY <1>7, <1>10, <2>5
    <2>7. \A b \in DOMAIN books : h \notin books[b].inner BY <1>6, <2>5
    <2>8. \A b1, b2 \in DOMAIN books' : books'[b1].inner \cap books'[b2].inner # {} => b1 = b2
      BY <1>10, <2>7 DEF Workbooks, Shelves
    <2>9. lengths' = Empty /\ decoders' = Empty /\ DOMAIN books' \subseteq done'
      BY <1>1, <1>10 DEF Workbooks, Shelves
    <2>10. DOMAIN sources' \cap DOMAIN tables' = {}
      BY <1>6, <1>7, <1>8 DEF Workbooks, Shelves
    <2>11. QED BY <1>9, <1>11, <2>2, <2>3, <2>4, <2>6, <2>8, <2>9, <2>10 DEF Shelves
  <1>14. QED BY <1>12, <1>13 DEF Workbooks

\* Inner sources are closed together with their tables and leave their book.
LEMMA WorkbookShut ==
  ASSUME Typed, Workbooks, Facade, UNCHANGED <<operations, next, done>>, NEW T, NEW U,
         U = {t \in DOMAIN tables : tables[t].source \in T},
         sources' = Without(sources, T), tables' = Without(tables, U), owners' = Without(owners, U),
         Charged', Map(books', BookRecords, next.book), DOMAIN books' \subseteq DOMAIN books,
         \A b \in DOMAIN books' : books'[b].inner = books[b].inner \ T,
         \A t \in DOMAIN tables : t \notin U => owners[t].book \in DOMAIN books'
  PROVE  Typed' /\ Workbooks'
  <1>1. UNCHANGED <<lengths, decoders, next, done, operations>> BY DEF Facade
  <1>2. /\ Map(sources', SourceRecords, next.handle) /\ DOMAIN sources' = DOMAIN sources \ T
    BY TypedMaps DEF Map, Without, Restrict
  <1>3. /\ Map(tables', TableRecords, next.handle) /\ DOMAIN tables' = DOMAIN tables \ U
        /\ \A t \in DOMAIN tables' : tables'[t] = tables[t]
    BY TypedMaps DEF Map, Without, Restrict
  <1>4. /\ owners' \in [DOMAIN owners' -> OwnerRecords] /\ DOMAIN owners' = DOMAIN owners \ U
        /\ \A t \in DOMAIN owners' : owners'[t] = owners[t]
    BY DEF Typed, Without, Restrict
  <1>5. Typed' BY <1>1, <1>2, <1>3, <1>4 DEF Typed
  <1>6. Answered' BY <1>1 DEF Workbooks, Answered
  <1>7. \A t \in DOMAIN tables' :
          /\ tables'[t].source = owners'[t].source /\ owners'[t].book \in DOMAIN books'
          /\ owners'[t].source \in books'[owners'[t].book].inner
    <2> SUFFICES ASSUME NEW t \in DOMAIN tables, t \notin U
                 PROVE  /\ tables[t].source = owners[t].source /\ owners[t].book \in DOMAIN books'
                        /\ owners[t].source \in books'[owners[t].book].inner
      BY <1>3, <1>4 DEF Workbooks, Shelves
    <2>1. tables[t].source \notin T OBVIOUS
    <2>2. QED BY <2>1 DEF Workbooks, Shelves
  <1>8. \A s \in DOMAIN sources' : \E t \in DOMAIN tables' : tables'[t].source = s
    <2> SUFFICES ASSUME NEW s \in DOMAIN sources, s \notin T
                 PROVE  \E t \in DOMAIN tables' : tables'[t].source = s
      BY <1>2
    <2>1. PICK t \in DOMAIN tables : tables[t].source = s BY DEF Workbooks, Shelves
    <2>2. t \notin U BY <2>1
    <2>3. QED BY <1>3, <2>1, <2>2
  <1>9. \A t1, t2 \in DOMAIN tables' : tables'[t1].source = tables'[t2].source => t1 = t2
    BY <1>3 DEF Workbooks, Shelves
  <1>10. \A b \in DOMAIN books' : books'[b].inner \subseteq DOMAIN sources'
    BY <1>2 DEF Workbooks, Shelves
  <1>11. \A b1, b2 \in DOMAIN books' : books'[b1].inner \cap books'[b2].inner # {} => b1 = b2
    BY DEF Workbooks, Shelves
  <1>12. /\ lengths' = Empty /\ decoders' = Empty /\ DOMAIN owners' = DOMAIN tables'
         /\ DOMAIN sources' \cap DOMAIN tables' = {} /\ DOMAIN books' \subseteq done'
    BY <1>1, <1>2, <1>3, <1>4 DEF Workbooks, Shelves
  <1>13. Shelves' BY <1>7, <1>8, <1>9, <1>10, <1>11, <1>12 DEF Shelves
  <1>14. QED BY <1>5, <1>6, <1>13 DEF Workbooks

LEMMA WorkbookCloseTable ==
  ASSUME Typed, Workbooks, Facade, NEW table \in DOMAIN owners, ExcelCloseTable(table)
  PROVE  Typed' /\ Workbooks'
  <1> DEFINE source == owners[table].source
             book == owners[table].book
             T == {source}
             U == {table}
             v == [books[book] EXCEPT !.inner = @ \ {source}]
  <1>1. /\ table \in DOMAIN tables /\ tables[table].source = source /\ book \in DOMAIN books
        /\ source \in books[book].inner /\ source \in DOMAIN sources
    BY DEF Workbooks, Shelves
  <1>2. /\ EngineClose(source) /\ owners' = Without(owners, U)
        /\ UNCHANGED <<operations, next, done>>
    BY DEF ExcelCloseTable
  <1>3. U = {t \in DOMAIN tables : tables[t].source \in T} /\ U = TablesOf(source)
    BY <1>1 DEF Workbooks, Shelves, TablesOf
  <1>4. /\ sources' = Without(sources, T) /\ tables' = Without(tables, U) /\ Charged'
    <2>1. \A t \in DOMAIN tables : tables[t].source \in DOMAIN sources
      BY DEF Workbooks, Shelves
    <2>2. Charged BY DEF Workbooks, Shelves
    <2>3. /\ sources' = Without(sources, {source}) /\ tables' = Without(tables, TablesOf(source))
          /\ Charged'
      BY ONLY Typed, <1>2, <2>1, <2>2, EngineCloseIs
    <2>4. QED BY <1>3, <2>3
  <1>5. books[book] \in BookRecords BY <1>1, TypedFacts
  <1>6. v \in BookRecords /\ v.inner = books[book].inner \ T BY <1>5 DEF BookRecords
  <1>7. books' = [books EXCEPT ![book] = v]
    BY <1>1, TypedMaps DEF Map, ExcelCloseTable
  <1> HIDE DEF v
  <1>8. /\ Map(books', BookRecords, next.book) /\ DOMAIN books' = DOMAIN books
        /\ books'[book].inner = books[book].inner \ T
        /\ \A b \in DOMAIN books : b # book => books'[b].inner = books[b].inner
    BY <1>1, <1>6, <1>7, TypedMaps DEF Map
  <1>9. \A b \in DOMAIN books' : books'[b].inner = books[b].inner \ T
    <2>1. \A b \in DOMAIN books : b # book => source \notin books[b].inner
      BY <1>1 DEF Workbooks, Shelves
    <2>2. QED BY <1>8, <2>1
  <1>10. /\ DOMAIN books' \subseteq DOMAIN books
         /\ \A t \in DOMAIN tables : t \notin U => owners[t].book \in DOMAIN books'
    BY <1>8 DEF Workbooks, Shelves
  <1> HIDE DEF T, U, source, book
  <1>11. QED BY ONLY Typed, Workbooks, Facade, <1>2, <1>3, <1>4, <1>8, <1>9, <1>10, WorkbookShut

LEMMA WorkbookCloseSource ==
  ASSUME Typed, Workbooks, Facade, NEW book \in DOMAIN books, ExcelCloseSource(book)
  PROVE  Typed' /\ Workbooks'
  <1> DEFINE T == books[book].inner
             U == {t \in DOMAIN tables : tables[t].source \in T}
  <1>1. /\ books' = Without(books, {book})
        /\ owners' = Without(owners, {t \in DOMAIN owners : owners[t].book = book})
        /\ sources' = Without(sources, T) /\ tables' = Without(tables, U)
        /\ retained' = retained - SumOf(Restrict(sources, T), SourceBytes)
                                - SumOf(Restrict(tables, U), TableBytes)
        /\ UNCHANGED <<operations, next, done>>
    BY Zenon DEF ExcelCloseSource
  <1>2. {t \in DOMAIN owners : owners[t].book = book} = U
    <2>1. \A t \in DOMAIN tables :
            /\ tables[t].source = owners[t].source /\ owners[t].book \in DOMAIN books
            /\ owners[t].source \in books[owners[t].book].inner
      BY DEF Workbooks, Shelves
    <2>2. \A b \in DOMAIN books : books[b].inner \cap books[book].inner # {} => b = book
      BY DEF Workbooks, Shelves
    <2>3. DOMAIN owners = DOMAIN tables BY DEF Workbooks, Shelves
    <2>4. QED BY <2>1, <2>2, <2>3
  <1>3. DOMAIN sources \cap T = T /\ DOMAIN tables \cap U = U BY DEF Workbooks, Shelves
  <1>4. /\ Weighted(Restrict(sources, T))
        /\ Weigh(sources) = Weigh(Without(sources, T)) + Weigh(Restrict(sources, T))
        /\ Weighted(Without(sources, T))
    <2>1. Weighted(sources) BY TypedFacts
    <2> HIDE DEF T
    <2>2. /\ Weighted(Without(sources, T)) /\ Weighted(Restrict(sources, DOMAIN sources \cap T))
          /\ Weigh(sources) = Weigh(Without(sources, T)) + Weigh(Restrict(sources, DOMAIN sources \cap T))
      BY ONLY <2>1, WeighSplit
    <2>3. QED BY ONLY <1>3, <2>2
  <1>5. /\ Weighted(Restrict(tables, U))
        /\ Weigh(tables) = Weigh(Without(tables, U)) + Weigh(Restrict(tables, U))
        /\ Weighted(Without(tables, U))
    <2>1. Weighted(tables) BY TypedFacts
    <2> HIDE DEF U
    <2>2. /\ Weighted(Without(tables, U)) /\ Weighted(Restrict(tables, DOMAIN tables \cap U))
          /\ Weigh(tables) = Weigh(Without(tables, U)) + Weigh(Restrict(tables, DOMAIN tables \cap U))
      BY ONLY <2>1, WeighSplit
    <2>3. QED BY ONLY <1>3, <2>2
  <1>6. retained' = retained - Weigh(Restrict(sources, T)) - Weigh(Restrict(tables, U))
    <2>1. SumOf(Restrict(sources, T), SourceBytes) = Weigh(Restrict(sources, T))
      BY <1>4, WeighIsSum, Zenon
    <2>2. SumOf(Restrict(tables, U), TableBytes) = Weigh(Restrict(tables, U))
      BY <1>5, WeighIsSum, Zenon
    <2>3. QED BY <1>1, <2>1, <2>2, Zenon
  <1>7. Charged'
    <2> HIDE DEF T, U
    <2>1. /\ Weigh(Without(sources, T)) \in Nat /\ Weigh(Restrict(sources, T)) \in Nat
          /\ Weigh(Without(tables, U)) \in Nat /\ Weigh(Restrict(tables, U)) \in Nat
      BY <1>4, <1>5, WeighIsSum
    <2>2. Weigh(sources') = Weigh(Without(sources, T)) /\ Weigh(tables') = Weigh(Without(tables, U))
      BY ONLY <1>1
    <2>3. Charged BY DEF Workbooks, Shelves
    <2>4. QED BY ONLY <1>4, <1>5, <1>6, <2>1, <2>2, <2>3, LedgerAssumption DEF Charged
  <1>8. /\ Map(books', BookRecords, next.book) /\ DOMAIN books' = DOMAIN books \ {book}
        /\ \A b \in DOMAIN books' : books'[b] = books[b]
    BY ONLY Typed, <1>1, TypedMaps DEF Map, Without, Restrict
  <1>9. \A b \in DOMAIN books' : books'[b].inner = books[b].inner \ T
    BY <1>8 DEF Workbooks, Shelves
  <1>10. /\ DOMAIN books' \subseteq DOMAIN books
         /\ \A t \in DOMAIN tables : t \notin U => owners[t].book \in DOMAIN books'
    BY <1>8 DEF Workbooks, Shelves
  <1>11. U = {t \in DOMAIN tables : tables[t].source \in T} OBVIOUS
  <1>12. owners' = Without(owners, U) BY <1>1, <1>2, Zenon
  <1>13. sources' = Without(sources, T) /\ tables' = Without(tables, U) /\ UNCHANGED <<operations, next, done>>
    BY <1>1, Zenon
  <1> HIDE DEF T, U
  <1>14. QED BY ONLY Typed, Workbooks, Facade, <1>7, <1>8, <1>9, <1>10, <1>11, <1>12, <1>13, WorkbookShut

\* The registry of operations after each kind of change.
LEMMA WorkbookDropped ==
  ASSUME Typed, Answered, CountersGrow, NEW op, operations' = Without(operations, {op})
  PROVE  OpsTyped' /\ Answered'
  <1> DEFINE S == {op}
  <1>1. operations' = Without(operations, S) /\ next'.operation \in Nat
        /\ next'.operation >= next.operation
    BY CountersGrowFacts DEF CountersGrow
  <1> HIDE DEF S
  <1>2. /\ OpsTyped' /\ DOMAIN operations' = DOMAIN operations \ S
        /\ \A x \in DOMAIN operations' : operations'[x] = operations[x]
    BY ONLY Typed, <1>1, OpsCut
  <1>3. QED BY <1>2 DEF Answered

LEMMA WorkbookSame ==
  ASSUME Typed, Answered, CountersGrow, UNCHANGED operations
  PROVE  OpsTyped' /\ Answered'
  <1>1. next'.operation \in Nat /\ next'.operation >= next.operation
    BY CountersGrowFacts DEF CountersGrow
  <1>2. OpsTyped' BY <1>1, OpsSame
  <1>3. QED BY <1>2 DEF Answered

LEMMA WorkbookPut ==
  ASSUME Typed, Answered, CountersGrow, NEW op \in DOMAIN operations, NEW o \in OperationRecords,
         o.cursor.revision >= 1, ~o.cursor.awaiting => o.cursor.outstanding = << >>,
         o.kind = operations[op].kind, operations' = [operations EXCEPT ![op] = o]
  PROVE  OpsTyped' /\ Answered'
  <1>1. next'.operation \in Nat /\ next'.operation >= next.operation
    BY CountersGrowFacts DEF CountersGrow
  <1>2. /\ OpsTyped' /\ DOMAIN operations' = DOMAIN operations /\ operations'[op] = o
        /\ \A x \in DOMAIN operations : x # op => operations'[x] = operations[x]
    BY <1>1, OpsPut
  <1>3. QED BY <1>2 DEF Answered

LEMMA WorkbookBegun ==
  ASSUME Typed, Answered, next' = TakeOperation, NEW kind \in {"open", "openTable"},
         NEW s \in Nat, NEW length \in Nat, NEW steps \in Seq(Steps),
         operations' = With(operations, next.operation,
                            Operation(kind, s, None, length, Issue(NewCursor, steps)))
  PROVE  OpsTyped' /\ Answered'
  <1> DEFINE c == Issue(NewCursor, steps)
             o == Operation(kind, s, None, length, c)
  <1>1. c \in Cursors /\ c.awaiting /\ c.revision = 1 BY CursorType, NewCursorType
  <1>2. o \in OperationRecords /\ o.cursor = c /\ o.kind = kind
    <2> HIDE DEF c
    <2>1. QED BY <1>1 DEF Operation, OperationRecords, None
  <1>3. next'.operation = next.operation + 1 BY TypedMaps DEF TakeOperation, Typed, Counters
  <1>4. operations' = With(operations, next.operation, o) OBVIOUS
  <1> HIDE DEF c, o
  <1>5. o.cursor.revision >= 1 BY <1>1, <1>2
  <1>6. /\ OpsTyped' /\ DOMAIN operations' = DOMAIN operations \cup {next.operation}
        /\ operations'[next.operation] = o
        /\ \A x \in DOMAIN operations : operations'[x] = operations[x]
    BY ONLY Typed, <1>2, <1>3, <1>4, <1>5, OpsAdd
  <1>7. QED BY <1>1, <1>2, <1>6 DEF Answered

LEMMA WorkbookConsumed ==
  ASSUME Typed, Answered, CountersGrow, NEW op \in DOMAIN operations,
         operations' = [operations EXCEPT ![op].cursor = ConsumeResults(@)]
  PROVE  OpsTyped' /\ Answered'
  <1> DEFINE old == operations[op]
             c == ConsumeResults(old.cursor)
             o == [old EXCEPT !.cursor = c]
  <1>1. old \in OperationRecords BY TypedFacts
  <1>2. old.cursor \in Cursors /\ old.cursor.revision >= 1 BY <1>1, OperationFields DEF Typed
  <1>3. c \in Cursors /\ c.outstanding = << >> /\ c.revision >= 1
    <2>1. << >> \in Seq(Steps) OBVIOUS
    <2>2. QED BY <1>2, <2>1, CursorType
  <1>4. operations' = [operations EXCEPT ![op] = o] BY TypedMaps DEF Map
  <1> HIDE DEF c
  <1>5. o \in OperationRecords /\ o.cursor = c /\ o.kind = operations[op].kind
    BY <1>1, <1>3 DEF OperationRecords
  <1> HIDE DEF o
  <1>6. o.cursor.revision >= 1 /\ (~o.cursor.awaiting => o.cursor.outstanding = << >>)
    BY <1>3, <1>5
  <1>7. QED BY ONLY Typed, Answered, CountersGrow, op \in DOMAIN operations, <1>4, <1>5, <1>6, WorkbookPut

LEMMA WorkbookIssued ==
  ASSUME Typed, Answered, CountersGrow, NEW op \in DOMAIN operations, NEW fed \in Nat,
         NEW steps \in Seq(Steps), ExcelIssue(op, fed, steps)
  PROVE  OpsTyped' /\ Answered'
  <1> DEFINE old == operations[op]
             c == Issue(ConsumeResults(old.cursor), steps)
             o == [old EXCEPT !.fed = fed, !.cursor = c]
  <1>1. old \in OperationRecords BY TypedFacts
  <1>2. old.cursor \in Cursors /\ old.cursor.revision >= 1 /\ old.cursor.revision \in Nat
    BY <1>1, OperationFields DEF Typed
  <1>3. ConsumeResults(old.cursor) \in Cursors /\ ConsumeResults(old.cursor).revision = old.cursor.revision
    BY <1>2, CursorType
  <1>4. operations' = [operations EXCEPT ![op] = o] BY DEF ExcelIssue
  <1> HIDE DEF old
  <1>5. /\ c \in Cursors /\ c.awaiting
        /\ c.revision = ConsumeResults(old.cursor).revision + 1
    BY <1>3, CursorType
  <1>6. c.revision >= 1 BY <1>2, <1>3, <1>5
  <1> HIDE DEF c
  <1>7. o \in OperationRecords /\ o.cursor = c /\ o.kind = operations[op].kind
    BY <1>1, <1>5 DEF OperationRecords, old
  <1> HIDE DEF o
  <1>8. o.cursor.revision >= 1 /\ (~o.cursor.awaiting => o.cursor.outstanding = << >>)
    BY <1>5, <1>6, <1>7
  <1>9. QED BY ONLY Typed, Answered, CountersGrow, op \in DOMAIN operations, <1>4, <1>7, <1>8, WorkbookPut

\* open_compact_table: the sheet opens or the inner source is closed again.
LEMMA WorkbookCompact ==
  ASSUME Typed, Workbooks, Facade, UNCHANGED done, NEW book \in DOMAIN books, NEW kept,
         SameShelves(kept), NEW inner \in Nat, NEW sheet \in Nat,
         CountersGrow, next'.book = next.book, OpsTyped', Answered',
         \/ ExcelOpenCompact(kept, book, inner, sheet) /\ next'.handle = next.handle + 2
         \/ ExcelCompactFails(kept, inner)
  PROVE  Typed' /\ Workbooks'
  <1>1. CASE ExcelOpenCompact(kept, book, inner, sheet) /\ next'.handle = next.handle + 2
    BY <1>1, WorkbookOpens
  <1>2. CASE ExcelCompactFails(kept, inner)
    <2>1. books' = kept /\ UNCHANGED <<owners, engine, done>> BY <1>2 DEF ExcelCompactFails
    <2>2. SameShelves(books') BY <2>1
    <2>3. QED BY <2>1, <2>2, WorkbookKeep
  <1>3. QED BY <1>1, <1>2

LEMMA ExcelContinueKeeps ==
  ASSUME Typed, Workbooks, Facade, NEW op \in DOMAIN operations, NEW revision, NEW results,
         ExcelContinue(op, revision, results)
  PROVE  Typed' /\ Workbooks'
  <1> DEFINE old == operations[op]
             kept == [books EXCEPT ![old.source].bytes = @ + 1]
  <1>1. Answered BY DEF Workbooks
  <1>2. old.fed \in Nat /\ old.length \in Nat BY TypedFacts, OperationFields
  <1>3. SameShelves(books)
    BY TypedMaps DEF SameShelves
  <1>4. next' = next => CountersGrow /\ next'.book = next.book BY CountersGrows
  <1>5. /\ next' = [next EXCEPT !.handle = @ + 1] => CountersGrow /\ next'.book = next.book
        /\ next' = [next EXCEPT !.handle = @ + 2] =>
              CountersGrow /\ next'.book = next.book /\ next'.handle = next.handle + 2
    BY CountersGrows
  <1>6. CASE ExcelKeepConsumed(op)
    <2>1. /\ operations' = [operations EXCEPT ![op].cursor = ConsumeResults(@)]
          /\ UNCHANGED <<owners, engine, done>> /\ books' = books /\ next' = next
      BY <1>6 DEF ExcelKeepConsumed
    <2>2. OpsTyped' /\ Answered' BY <1>1, <1>4, <2>1, WorkbookConsumed
    <2>3. SameShelves(books') BY <1>3, <2>1
    <2>4. QED BY ONLY Typed, Workbooks, Facade, <1>4, <2>1, <2>2, <2>3, WorkbookKeep
  <1>7. CASE ExcelContinueOpen(op)
    <2>1. CASE ExcelDropOperation(op)
      <3>1. /\ operations' = Without(operations, {op})
            /\ UNCHANGED <<owners, engine, done>> /\ books' = books /\ next' = next
        BY <2>1 DEF ExcelDropOperation
      <3>2. OpsTyped' /\ Answered' BY <1>1, <1>4, <3>1, WorkbookDropped
      <3>3. SameShelves(books') BY <1>3, <3>1
      <3>4. QED BY ONLY Typed, Workbooks, Facade, <1>4, <3>1, <3>2, <3>3, WorkbookKeep
    <2>2. ASSUME NEW bytes \in Weights, NEW xlsx \in BOOLEAN, ExcelFinishOpen(op, bytes, xlsx)
          PROVE  Typed' /\ Workbooks'
      <3> DEFINE v == [bytes |-> old.fed, inner |-> {}, xlsx |-> xlsx]
      <3>1. /\ operations' = Without(operations, {op}) /\ books' = With(books, next.book, v)
            /\ next' = [next EXCEPT !.book = @ + 1, !.handle = IF xlsx THEN @ ELSE @ + 1]
            /\ done' = done \cup {next.book} /\ UNCHANGED <<owners, engine>>
        BY <2>2 DEF ExcelFinishOpen
      <3>2. v \in BookRecords /\ v.inner = {} BY <1>2 DEF BookRecords
      <3>3. CountersGrow /\ next'.book = next.book + 1
        <4> DEFINE h == IF xlsx THEN next.handle ELSE next.handle + 1
        <4>1. next \in Counters /\ next.handle \in Nat /\ next.book \in Nat /\ next.operation \in Nat
              /\ next.table \in Nat
          BY TypedMaps DEF Typed
        <4>2. h \in Nat /\ h >= next.handle /\ next.book + 1 \in Nat BY <4>1
        <4>3. next' = [next EXCEPT !.book = next.book + 1, !.handle = h] BY <3>1, <4>1 DEF Counters
        <4> HIDE DEF h
        <4>4. /\ next'.operation = next.operation /\ next'.handle = h
              /\ next'.table = next.table /\ next'.book = next.book + 1 /\ next' \in Counters
          BY <4>1, <4>2, <4>3 DEF Counters
        <4>5. QED BY <4>1, <4>2, <4>4 DEF CountersGrow
      <3>4. OpsTyped' /\ Answered' BY <1>1, <3>1, <3>3, WorkbookDropped
      <3> HIDE DEF v
      <3>5. QED BY ONLY Typed, Workbooks, Facade, <3>1, <3>2, <3>3, <3>4, WorkbookAdd
    <2>3. ASSUME ExcelIssue(op, old.fed + 1, <<ReadBytes(0, old.length - 1, 1)>>),
                 UNCHANGED <<owners, engine, books, next, done>>
          PROVE  Typed' /\ Workbooks'
      <3> DEFINE steps == <<ReadBytes(0, old.length - 1, 1)>>
                 fed == old.fed + 1
      <3>1. steps \in Seq(Steps) /\ fed \in Nat
        <4>1. fed \in Nat BY <1>2
        <4>2. steps \in Seq(Steps) BY <1>2, StepsType
        <4>3. QED BY <4>1, <4>2
      <3>2. ExcelIssue(op, fed, steps) /\ next' = next BY <2>3
      <3> HIDE DEF steps, fed
      <3>3. OpsTyped' /\ Answered'
        BY ONLY Typed, op \in DOMAIN operations, <1>1, <1>4, <3>1, <3>2, WorkbookIssued
      <3>4. SameShelves(books') /\ UNCHANGED <<owners, engine, done>> BY <1>3, <2>3
      <3>5. QED BY ONLY Typed, Workbooks, Facade, <1>4, <3>2, <3>3, <3>4, WorkbookKeep
    <2>4. QED BY <1>7, <2>1, <2>2, <2>3 DEF ExcelContinueOpen
  <1>8. CASE old.source \in DOMAIN books /\ ExcelContinueTable(op)
    <2>1. SameShelves(kept) BY <1>8, BooksKept
    <2>2. CASE /\ operations' = Without(operations, {op}) /\ books' = kept
               /\ UNCHANGED <<owners, engine, next, done>>
      <3>1. OpsTyped' /\ Answered' BY <1>1, <1>4, <2>2, WorkbookDropped
      <3>2. SameShelves(books') /\ UNCHANGED <<owners, engine, done>> /\ next' = next BY <2>1, <2>2
      <3>3. QED BY ONLY Typed, Workbooks, Facade, <1>4, <3>1, <3>2, WorkbookKeep
    <2>3. CASE /\ ExcelIssue(op, 0, <<ReadBytes(0, old.length - 1, 1)>>) /\ books' = kept
               /\ UNCHANGED <<owners, engine, next, done>>
      <3> DEFINE steps == <<ReadBytes(0, old.length - 1, 1)>>
      <3>1. steps \in Seq(Steps) /\ 0 \in Nat BY <1>2, StepsType
      <3>2. ExcelIssue(op, 0, steps) /\ next' = next BY <2>3
      <3> HIDE DEF steps
      <3>3. OpsTyped' /\ Answered'
        BY ONLY Typed, op \in DOMAIN operations, <1>1, <1>4, <3>1, <3>2, WorkbookIssued
      <3>4. SameShelves(books') /\ UNCHANGED <<owners, engine, done>> BY <2>1, <2>3
      <3>5. QED BY ONLY Typed, Workbooks, Facade, <1>4, <3>2, <3>3, <3>4, WorkbookKeep
    <2>4. ASSUME NEW inner \in Weights, NEW sheet \in Weights,
                 operations' = Without(operations, {op}), UNCHANGED done,
                 \/ /\ ExcelOpenCompact(kept, old.source, inner, sheet)
                    /\ next' = [next EXCEPT !.handle = @ + 2]
                 \/ /\ ExcelCompactFails(kept, inner)
                    /\ next' = [next EXCEPT !.handle = @ + 1]
          PROVE  Typed' /\ Workbooks'
      <3>1. inner \in Nat /\ sheet \in Nat BY RegistryAssumption
      <3>2. CountersGrow /\ next'.book = next.book BY <1>5, <2>4
      <3>3. OpsTyped' /\ Answered' BY <1>1, <2>4, <3>2, WorkbookDropped
      <3>4. \/ ExcelOpenCompact(kept, old.source, inner, sheet) /\ next'.handle = next.handle + 2
            \/ ExcelCompactFails(kept, inner)
        BY <1>5, <2>4
      <3>5. old.source \in DOMAIN books BY <1>8
      <3> HIDE DEF kept, old
      <3>6. QED BY ONLY Typed, Workbooks, Facade, UNCHANGED done, <2>1, <3>1, <3>2, <3>3, <3>4, <3>5, WorkbookCompact
    <2>5. QED BY <1>8, <2>2, <2>3, <2>4 DEF ExcelContinueTable
  <1>9. old.kind \in {"open", "openTable"} BY <1>1 DEF Answered
  <1>10. QED BY <1>6, <1>7, <1>8, <1>9 DEF ExcelContinue

LEMMA ExcelKeeps ==
  ASSUME Typed, Workbooks, ExcelNext PROVE Typed' /\ Workbooks'
  <1>1. Facade /\ Answered BY DEF ExcelNext, Facade, Workbooks
  <1>2. SameShelves(books) BY TypedMaps DEF SameShelves
  <1>3. next' = next => CountersGrow /\ next'.book = next.book BY CountersGrows
  <1>4. next' = TakeOperation => CountersGrow /\ next'.book = next.book BY CountersGrows
  <1>5. ASSUME NEW length \in Lengths, ExcelBeginOpen(length) PROVE Typed' /\ Workbooks'
    <2> DEFINE steps == <<ReadBytes(0, 0, 1)>>
               kind == "open"
    <2>1. /\ operations' = With(operations, next.operation,
                                Operation(kind, None, None, length, Issue(NewCursor, steps)))
          /\ next' = TakeOperation /\ UNCHANGED <<owners, engine, done>> /\ books' = books
      BY <1>5 DEF ExcelBeginOpen
    <2>2. length \in Nat BY LengthsNat
    <2>3. steps \in Seq(Steps) BY <2>2, StepsType
    <2>4. kind \in {"open", "openTable"} /\ None \in Nat BY DEF None
    <2> HIDE DEF steps, kind
    <2>5. OpsTyped' /\ Answered' BY ONLY Typed, <1>1, <2>1, <2>2, <2>3, <2>4, WorkbookBegun
    <2>6. SameShelves(books') BY <1>2, <2>1
    <2>7. QED BY ONLY Typed, Workbooks, <1>1, <1>4, <2>1, <2>5, <2>6, WorkbookKeep
  <1>6. ASSUME NEW op \in DOMAIN operations, ExcelCancel(op) PROVE Typed' /\ Workbooks'
    <2>1. /\ operations' = Without(operations, {op})
          /\ UNCHANGED <<owners, engine, done>> /\ books' = books /\ next' = next
      BY <1>6 DEF ExcelCancel, ExcelDropOperation
    <2>2. OpsTyped' /\ Answered' BY <1>1, <1>3, <2>1, WorkbookDropped
    <2>3. SameShelves(books') BY <1>2, <2>1
    <2>4. QED BY ONLY Typed, Workbooks, <1>1, <1>3, <2>1, <2>2, <2>3, WorkbookKeep
  <1>7. ASSUME NEW op \in DOMAIN operations, NEW revision, NEW results,
               ExcelContinue(op, revision, results)
        PROVE  Typed' /\ Workbooks'
    BY <1>1, <1>7, ExcelContinueKeeps
  <1>8. ASSUME NEW book \in DOMAIN books, ExcelCloseSource(book) PROVE Typed' /\ Workbooks'
    BY <1>1, <1>8, WorkbookCloseSource
  <1>9. ASSUME NEW table \in DOMAIN owners, ExcelCloseTable(table) PROVE Typed' /\ Workbooks'
    BY <1>1, <1>9, WorkbookCloseTable
  <1>10. ASSUME NEW table, ExcelRead(table) PROVE Typed' /\ Workbooks'
    <2>1. /\ next' = TakeOperation /\ UNCHANGED operations
          /\ UNCHANGED <<owners, engine, done>> /\ books' = books
      BY <1>10 DEF ExcelRead
    <2>2. OpsTyped' /\ Answered' BY <1>1, <1>4, <2>1, WorkbookSame
    <2>3. SameShelves(books') BY <1>2, <2>1
    <2>4. QED BY ONLY Typed, Workbooks, <1>1, <1>4, <2>1, <2>2, <2>3, WorkbookKeep
  <1>11. ASSUME NEW book \in DOMAIN books, NEW inner \in Weights, NEW sheet \in Weights,
                NEW length \in Lengths, NEW steps \in EngineSteps(length),
                ExcelBeginOpenTable(book, length, inner, sheet, steps)
         PROVE  Typed' /\ Workbooks'
    <2>1. /\ next' = [next EXCEPT !.operation = @ + 1, !.handle = @ + 1] =>
                CountersGrow /\ next'.book = next.book
          /\ next' = [next EXCEPT !.operation = @ + 1, !.handle = @ + 2] =>
                CountersGrow /\ next'.book = next.book /\ next'.handle = next.handle + 2
      BY CountersGrows
    <2>2. UNCHANGED done BY <1>11 DEF ExcelBeginOpenTable
    <2>3. ASSUME UNCHANGED operations,
                 \/ /\ ExcelOpenCompact(books, book, inner, sheet)
                    /\ next' = [next EXCEPT !.operation = @ + 1, !.handle = @ + 2]
                 \/ /\ ExcelCompactFails(books, inner)
                    /\ next' = [next EXCEPT !.operation = @ + 1, !.handle = @ + 1]
          PROVE  Typed' /\ Workbooks'
      <3>1. inner \in Nat /\ sheet \in Nat BY RegistryAssumption
      <3>2. CountersGrow /\ next'.book = next.book BY <2>1, <2>3
      <3>3. OpsTyped' /\ Answered' BY <1>1, <2>3, <3>2, WorkbookSame
      <3>4. \/ ExcelOpenCompact(books, book, inner, sheet) /\ next'.handle = next.handle + 2
            \/ ExcelCompactFails(books, inner)
        BY <2>1, <2>3
      <3>5. QED BY ONLY Typed, Workbooks, book \in DOMAIN books, <1>1, <1>2, <2>2, <3>1, <3>2, <3>3, <3>4, WorkbookCompact
    <2>4. ASSUME operations' = With(operations, next.operation,
                       Operation("openTable", book, None, length, Issue(NewCursor, steps))),
                 next' = TakeOperation, UNCHANGED <<owners, engine, books>>
          PROVE  Typed' /\ Workbooks'
      <3> DEFINE kind == "openTable"
      <3>1. length \in Nat /\ book \in Nat BY LengthsNat, TypedFacts
      <3>2. steps \in Seq(Steps) BY <3>1, StepsType
      <3>3. /\ operations' = With(operations, next.operation,
                       Operation(kind, book, None, length, Issue(NewCursor, steps)))
            /\ next' = TakeOperation /\ kind \in {"open", "openTable"}
        BY <2>4
      <3> HIDE DEF kind
      <3>4. OpsTyped' /\ Answered' BY ONLY Typed, <1>1, <3>1, <3>2, <3>3, WorkbookBegun
      <3>5. SameShelves(books') /\ UNCHANGED <<owners, engine, done>> BY <1>2, <2>2, <2>4
      <3>6. QED BY ONLY Typed, Workbooks, <1>1, <1>4, <3>3, <3>4, <3>5, WorkbookKeep
    <2>5. QED BY <1>11, <2>3, <2>4 DEF ExcelBeginOpenTable
  <1>12. QED BY <1>5, <1>6, <1>7, <1>8, <1>9, <1>10, <1>11 DEF ExcelNext

-----------------------------------------------------------------------------
(* The delimited-text artifact.                                            *)
Plain == UNCHANGED <<format, tables, retained, books, ledger>>

OwnersTyped == owners \in [DOMAIN owners -> OwnerRecords] /\ DOMAIN owners \subseteq Nat

LEMMA CountersTake ==
  ASSUME Typed, next' = [next EXCEPT !.operation = @ + 1, !.handle = @ + 1]
  PROVE  CountersGrow
  <1>1. next \in Counters /\ next.operation \in Nat /\ next.handle \in Nat
    BY TypedMaps DEF Typed
  <1>2. next' = [operation |-> next.operation + 1, handle |-> next.handle + 1,
                 table |-> next.table, book |-> next.book]
    BY <1>1 DEF Counters
  <1>3. QED BY <1>1, <1>2 DEF Counters, CountersGrow

\* A chunk ends at the end of its source or ChunkBytes further on.
LEMMA ChunkIs ==
  ASSUME NEW at \in Nat, NEW length \in Nat, at <= length, NEW pending,
         pending.at = at, pending.length = length
  PROVE  LET chunk == ReadAction(at, length)[1]
         IN  /\ chunk.offset = at /\ chunk.length \in Nat
             /\ NextOffset(pending) = at + chunk.length /\ NextOffset(pending) \in Nat
             /\ NextOffset(pending) <= length
             /\ NextOffset(pending) # length => NextOffset(pending) = at + ChunkBytes
  <1> DEFINE rest == IF length - at < ChunkBytes THEN length - at ELSE ChunkBytes
  <1>1. ChunkBytes \in Nat /\ ChunkBytes > 0 BY ScanAssumption
  <1>2. rest \in Nat /\ at + rest <= length /\ (at + rest # length => rest = ChunkBytes)
    BY <1>1
  <1>3. ReadAction(at, length)[1] = [index |-> 0, offset |-> at, length |-> rest]
    BY DEF ReadAction, ReadBytes
  <1>4. NextOffset(pending) = at + rest BY <1>3 DEF NextOffset, ActionEnd
  <1> HIDE DEF rest
  <1>5. QED BY <1>2, <1>3, <1>4

\* Closing scanners leaves the others as they were weighed.
LEMMA MeteredLess ==
  ASSUME Weighted(sources), Metered, UNCHANGED done, NEW T, sources' = Without(sources, T)
  PROVE  Metered'
  <1> DEFINE fed == Without(sources, Unfed)
  <1>1. DOMAIN sources' = DOMAIN sources \ T /\ \A s \in DOMAIN sources' : sources'[s] = sources[s]
    BY DEF Without, Restrict
  <1>2. Unfed' = Unfed \ T BY <1>1 DEF Unfed
  <1>3. Without(sources', Unfed') = Without(fed, T)
    <2>1. DOMAIN fed = DOMAIN sources \ Unfed /\ \A s \in DOMAIN fed : fed[s] = sources[s]
      BY DEF Without, Restrict
    <2> HIDE DEF fed
    <2>2. /\ Without(fed, T) = [s \in DOMAIN fed \ T |-> fed[s]]
          /\ Without(sources', Unfed') = [s \in DOMAIN sources' \ Unfed' |-> sources'[s]]
      BY DEF Without, Restrict
    <2>3. DOMAIN sources' \ Unfed' = DOMAIN fed \ T BY <1>1, <1>2, <2>1
    <2>4. \A s \in DOMAIN fed \ T : fed[s] = sources'[s] BY <1>1, <2>1
    <2>5. QED BY <2>2, <2>3, <2>4
  <1>4. Weighted(fed) BY WeighLess
  <1>5. Weigh(fed) <= IndexBudget BY DEF Metered
  <1> HIDE DEF fed
  <1>6. Weighted(Without(fed, T)) /\ Weigh(Without(fed, T)) <= Weigh(fed) BY <1>4, WeighLess
  <1>7. Weigh(fed) \in Nat /\ Weigh(Without(fed, T)) \in Nat BY <1>4, <1>6, WeighIsSum
  <1>8. Weigh(Without(sources', Unfed')) <= IndexBudget BY <1>3, <1>5, <1>6, <1>7, IndexAssumption
  <1>9. \A s \in Unfed' : sources'[s].bytes = ScannerBytes BY <1>1, <1>2 DEF Metered, Unfed
  <1>10. QED BY <1>8, <1>9 DEF Metered

\* A new scanner is not weighed.
LEMMA MeteredAdd ==
  ASSUME Metered, UNCHANGED done, NEW h, h \notin DOMAIN sources, h \notin done,
         NEW v, v.bytes = ScannerBytes, v.seen = 0, sources' = With(sources, h, v)
  PROVE  Metered'
  <1>1. /\ DOMAIN sources' = DOMAIN sources \cup {h} /\ sources'[h] = v
        /\ \A s \in DOMAIN sources : sources'[s] = sources[s]
    BY DEF With
  <1>2. Unfed' = Unfed \cup {h} BY <1>1 DEF Unfed
  <1>3. Without(sources', Unfed') = Without(sources, Unfed)
    <2>1. /\ Without(sources, Unfed) = [s \in DOMAIN sources \ Unfed |-> sources[s]]
          /\ Without(sources', Unfed') = [s \in DOMAIN sources' \ Unfed' |-> sources'[s]]
      BY DEF Without, Restrict
    <2>2. DOMAIN sources' \ Unfed' = DOMAIN sources \ Unfed BY <1>1, <1>2
    <2>3. QED BY <1>1, <2>1, <2>2
  <1>4. \A s \in Unfed' : sources'[s].bytes = ScannerBytes BY <1>1, <1>2 DEF Metered, Unfed
  <1>5. QED BY <1>3, <1>4 DEF Metered

\* What ends takes its source and its decoders along.
LEMMA DelimitedForget ==
  ASSUME Typed, Delimited, Plain, UNCHANGED <<next, done>>,
         OwnersTyped', NEW S, NEW T, NEW D,
         operations' = Without(operations, S), sources' = Without(sources, T),
         lengths' = Without(lengths, T), decoders' = Without(decoders, D),
         \A op \in Opens : op \in S <=> operations[op].source \in T,
         \A r \in DOMAIN decoders : decoders[r] \in T => r \in D,
         \A op \in DOMAIN operations :
            op \in S /\ operations[op].kind = "read" /\ operations[op].range \in DOMAIN decoders
               => operations[op].range \in D
  PROVE  Typed' /\ Delimited'
  <1>1. /\ OpsTyped' /\ DOMAIN operations' = DOMAIN operations \ S
        /\ \A op \in DOMAIN operations' : operations'[op] = operations[op]
    <2>1. next'.operation \in Nat /\ next'.operation >= next.operation BY TypedMaps
    <2>2. operations' = Without(operations, S) OBVIOUS
    <2>3. QED BY ONLY Typed, <2>1, <2>2, OpsCut
  <1>2. /\ Map(sources', SourceRecords, next.handle) /\ DOMAIN sources' = DOMAIN sources \ T
        /\ \A s \in DOMAIN sources' : sources'[s] = sources[s]
    BY TypedMaps DEF Map, Without, Restrict
  <1>3. /\ Map(lengths', Nat, next.handle) /\ DOMAIN lengths' = DOMAIN lengths \ T
        /\ \A s \in DOMAIN lengths' : lengths'[s] = lengths[s]
    BY TypedMaps DEF Map, Without, Restrict
  <1>4. /\ Map(decoders', Nat, next.handle) /\ DOMAIN decoders' = DOMAIN decoders \ D
        /\ \A s \in DOMAIN decoders' : decoders'[s] = decoders[s]
    BY TypedMaps DEF Map, Without, Restrict
  <1>5. UNCHANGED <<format, tables, retained, books, next, done>> BY DEF Plain
  <1>6. Typed' BY <1>1, <1>2, <1>3, <1>4, <1>5 DEF Typed, OpsTyped, OwnersTyped
  <1>7. Opens' = Opens \ S BY <1>1 DEF Opens
  <1>8. \A op \in Opens' : op \in Opens /\ operations'[op] = operations[op]
           /\ operations[op].source \notin T
    BY <1>1, <1>7 DEF Opens
  <1>9. Scans'
    <2>1. \A op \in DOMAIN operations' :
             LET o == operations'[op]
             IN  /\ o.cursor.awaiting /\ o.cursor.outstanding = ReadAction(o.at, o.length)
                 /\ o.kind \in {"open", "read"} /\ o.at <= o.length /\ o.range < next'.handle
                 /\ o.length \in Lengths
      BY <1>1, <1>5 DEF Delimited, Scans
    <2>2. \A op \in Opens' :
             LET o == operations'[op]
             IN  /\ o.source \in DOMAIN sources' /\ o.source \notin done' /\ o.range = None
                 /\ o.at = sources'[o.source].seen /\ lengths'[o.source] = o.length
                 /\ ScanPace(o)
      BY <1>2, <1>3, <1>5, <1>8 DEF Delimited, Scans, Scanned
    <2>3. \A op1, op2 \in Opens' :
             operations'[op1].source = operations'[op2].source => op1 = op2
      BY <1>8 DEF Delimited, Scans
    <2>4. QED BY <2>1, <2>2, <2>3 DEF Scans, ScanPace
  <1>10. Decoding'
    <2>1. \A op1, op2 \in DOMAIN operations' :
             operations'[op1].range = operations'[op2].range /\ operations'[op1].range # None => op1 = op2
      BY <1>1 DEF Delimited, Decoding
    <2>2. ASSUME NEW r \in DOMAIN decoders'
          PROVE  /\ decoders'[r] \in DOMAIN sources'
                 /\ \E op \in DOMAIN operations' :
                       operations'[op].kind = "read" /\ operations'[op].range = r
                       /\ operations'[op].source = decoders'[r]
      <3>1. r \in DOMAIN decoders /\ r \notin D /\ decoders'[r] = decoders[r] BY <1>4
      <3>2. decoders'[r] \in DOMAIN sources' BY <1>2, <3>1 DEF Delimited, Decoding
      <3>3. PICK op \in DOMAIN operations :
                operations[op].kind = "read" /\ operations[op].range = r
                /\ operations[op].source = decoders[r]
        BY <3>1 DEF Delimited, Decoding
      <3>4. op \notin S BY <3>1, <3>3
      <3>5. QED BY <1>1, <3>1, <3>2, <3>3, <3>4
    <2>3. QED BY <2>1, <2>2 DEF Decoding
  <1>11. Scanned'
    <2>1. DOMAIN lengths' = DOMAIN sources' BY <1>2, <1>3 DEF Delimited, Scanned
    <2>2. DOMAIN sources' \cap DOMAIN decoders' = {} BY <1>2, <1>4 DEF Delimited, Scanned
    <2>3. /\ \A s \in DOMAIN lengths' : lengths'[s] \in Lengths
          /\ \A s \in done' : s \in Nat /\ s < next'.handle
      BY <1>3, <1>5 DEF Delimited, Scanned
    <2>4. \A s \in DOMAIN sources' \cap done' : sources'[s].seen = lengths'[s]
      BY <1>2, <1>3, <1>5, <2>1 DEF Delimited, Scanned
    <2>5. \A s \in DOMAIN sources' : s \in done' \/ \E op \in Opens' : operations'[op].source = s
      <3> SUFFICES ASSUME NEW s \in DOMAIN sources', s \notin done'
                   PROVE  \E op \in Opens' : operations'[op].source = s
        OBVIOUS
      <3>1. s \in DOMAIN sources /\ s \notin T BY <1>2
      <3>2. PICK op \in Opens : operations[op].source = s
        BY <1>5, <3>1 DEF Delimited, Scanned
      <3>3. op \in Opens' BY <1>7, <3>1, <3>2
      <3>4. QED BY <1>8, <3>2, <3>3
    <2>6. QED BY <2>1, <2>2, <2>3, <2>4, <2>5 DEF Scanned
  <1>12. Metered'
    <2>1. Weighted(sources) /\ Metered /\ UNCHANGED done /\ sources' = Without(sources, T)
      BY TypedFacts DEF Delimited
    <2>2. QED BY ONLY <2>1, MeteredLess
  <1>13. QED BY <1>5, <1>6, <1>9, <1>10, <1>11, <1>12 DEF Delimited, OwnersTyped

\* Handles were spent, and the host's map of tables may have changed.
LEMMA DelimitedIdle ==
  ASSUME Typed, Delimited, Plain, UNCHANGED <<operations, sources, lengths, decoders, done>>,
         OwnersTyped',
         next' \in Counters, next'.operation >= next.operation, next'.handle >= next.handle,
         next'.table > 0, next'.book > 0
  PROVE  Typed' /\ Delimited'
  <1>1. UNCHANGED <<format, tables, retained, books>> BY DEF Plain
  <1>2. /\ next.handle \in Nat /\ next'.handle \in Nat /\ next.handle <= next'.handle
        /\ next'.operation \in Nat /\ next'.operation > 0 /\ next'.handle > 0
    BY TypedMaps DEF Counters
  <1>3. Map(sources', SourceRecords, next'.handle) /\ Map(tables', TableRecords, next'.handle)
        /\ Map(lengths', Nat, next'.handle) /\ Map(decoders', Nat, next'.handle)
    <2>1. Map(sources, SourceRecords, next'.handle) BY ONLY <1>2, TypedMaps, Typed, MapLater
    <2>2. Map(tables, TableRecords, next'.handle) BY ONLY <1>2, TypedMaps, Typed, MapLater
    <2>3. Map(lengths, Nat, next'.handle) BY ONLY <1>2, TypedMaps, Typed, MapLater
    <2>4. Map(decoders, Nat, next'.handle) BY ONLY <1>2, TypedMaps, Typed, MapLater
    <2>5. QED BY <1>1, <2>1, <2>2, <2>3, <2>4
  <1>4. OpsTyped' BY <1>2, OpsSame
  <1>5. Map(books', BookRecords, next'.book) BY <1>1, MapEmpty DEF Delimited
  <1>6. Typed' BY <1>2, <1>3, <1>4, <1>5 DEF Typed, OpsTyped, OwnersTyped
  <1>7. Opens' = Opens BY DEF Opens
  <1>8. \A op \in DOMAIN operations : operations[op].range < next'.handle
    BY <1>2, TypedFacts, OperationFields DEF Delimited, Scans
  <1>9. Scans' BY <1>7, <1>8 DEF Delimited, Scans, ScanPace
  <1>10. Decoding' BY DEF Delimited, Decoding
  <1>11. \A s \in done' : s \in Nat /\ s < next'.handle BY <1>2 DEF Delimited, Scanned
  <1>12. Scanned' /\ Metered' BY <1>7, <1>11 DEF Delimited, Scanned, Metered, Unfed
  <1>13. QED BY <1>1, <1>6, <1>9, <1>10, <1>12 DEF Delimited, OwnersTyped

\* A scan begins at the first byte of a new source.
LEMMA DelimitedOpens ==
  ASSUME Typed, Delimited, Plain, UNCHANGED <<owners, decoders, done>>, NEW length \in Lengths,
         next' = [next EXCEPT !.operation = @ + 1, !.handle = @ + 1],
         operations' = With(operations, next.operation,
                            Operation("open", next.handle, None, length,
                                      Issue(NewCursor, ReadAction(0, length)))),
         sources' = With(sources, next.handle,
                         [bytes |-> ScannerBytes, stream |-> TRUE, seen |-> 0]),
         lengths' = With(lengths, next.handle, length)
  PROVE  Typed' /\ Delimited'
  <1> DEFINE n == next.operation
             h == next.handle
             c == Issue(NewCursor, ReadAction(0, length))
             o == Operation("open", h, None, length, c)
             v == [bytes |-> ScannerBytes, stream |-> TRUE, seen |-> 0]
  <1>1. /\ UNCHANGED <<format, tables, retained, books, owners, decoders, done>>
        /\ operations' = With(operations, next.operation, o) /\ sources' = With(sources, h, v)
        /\ lengths' = With(lengths, h, length) /\ length \in Lengths /\ length \in Nat
    BY LengthsNat DEF Plain
  <1>2. /\ n \in Nat /\ n > 0 /\ h \in Nat /\ h > 0
        /\ CountersGrow /\ next'.handle = h + 1 /\ next'.operation = n + 1
        /\ next' \in Counters
    <2>1. next' = [next EXCEPT !.operation = @ + 1, !.handle = @ + 1] OBVIOUS
    <2>2. next'.handle = h + 1 /\ next'.operation = n + 1
      BY ONLY Typed, <2>1, TypedMaps DEF Typed, Counters
    <2>3. CountersGrow BY ONLY Typed, <2>1, CountersTake
    <2>4. n \in Nat /\ n > 0 /\ h \in Nat /\ h > 0 BY ONLY Typed, TypedMaps
    <2>5. next' \in Counters BY <2>3 DEF CountersGrow
    <2>6. QED BY ONLY <2>2, <2>3, <2>4, <2>5
  <1>3. /\ c \in Cursors /\ c.awaiting /\ c.revision = 1
        /\ c.outstanding = ReadAction(0, length)
    <2>1. 0 \in Nat /\ ReadAction(0, length) \in Seq(Steps) BY <1>1, StepsType
    <2>2. QED BY <2>1, CursorType, NewCursorType
  <1>4. v \in SourceRecords /\ v.bytes = ScannerBytes /\ v.seen = 0
    BY IndexAssumption DEF SourceRecords
  <1> HIDE DEF c
  <1>5. /\ o \in OperationRecords /\ o.kind = "open" /\ o.source = h /\ o.range = None
        /\ o.at = 0 /\ o.length = length /\ o.cursor = c
    BY <1>1, <1>2, <1>3 DEF Operation, OperationRecords, None
  <1> HIDE DEF o, v, n, h
  <1>6. /\ OpsTyped' /\ DOMAIN operations' = DOMAIN operations \cup {n} /\ n \notin DOMAIN operations
        /\ operations'[n] = o
        /\ \A x \in DOMAIN operations : operations'[x] = operations[x]
    <2>1. o.cursor.revision >= 1 BY <1>3, <1>5
    <2>2. n = next.operation BY DEF n
    <2>3. QED BY <1>1, <1>2, <1>5, <2>1, <2>2, OpsAdd
  <1>7. /\ DOMAIN sources \subseteq 1 .. (h - 1) /\ sources \in [DOMAIN sources -> SourceRecords]
        /\ DOMAIN tables \subseteq 1 .. (h - 1) /\ tables \in [DOMAIN tables -> TableRecords]
        /\ DOMAIN lengths \subseteq 1 .. (h - 1) /\ lengths \in [DOMAIN lengths -> Nat]
        /\ DOMAIN decoders \subseteq 1 .. (h - 1) /\ decoders \in [DOMAIN decoders -> Nat]
    BY TypedMaps DEF Map, h
  <1>8. /\ h \notin DOMAIN sources /\ h \notin DOMAIN decoders /\ h \notin DOMAIN lengths
        /\ DOMAIN sources \cup {h} \subseteq 1 .. (h + 1 - 1) /\ DOMAIN lengths \cup {h} \subseteq 1 .. (h + 1 - 1)
        /\ DOMAIN tables \subseteq 1 .. (h + 1 - 1) /\ DOMAIN decoders \subseteq 1 .. (h + 1 - 1)
    BY <1>2, <1>7
  <1>9. /\ DOMAIN sources' = DOMAIN sources \cup {h} /\ sources'[h] = v
        /\ \A s \in DOMAIN sources : sources'[s] = sources[s]
        /\ sources' \in [DOMAIN sources' -> SourceRecords]
    <2>1. sources' = With(sources, h, v) /\ v \in SourceRecords /\ h \notin DOMAIN sources
          /\ sources \in [DOMAIN sources -> SourceRecords]
      BY <1>1, <1>4, <1>7, <1>8
    <2>2. QED BY ONLY <2>1 DEF With
  <1>10. /\ DOMAIN lengths' = DOMAIN lengths \cup {h} /\ lengths'[h] = length
         /\ \A s \in DOMAIN lengths : lengths'[s] = lengths[s]
         /\ lengths' \in [DOMAIN lengths' -> Nat]
    BY <1>1, <1>7, <1>8 DEF With
  <1>11. Typed'
    <2>1. Map(sources', SourceRecords, next'.handle) /\ Map(lengths', Nat, next'.handle)
          /\ Map(tables', TableRecords, next'.handle) /\ Map(decoders', Nat, next'.handle)
      BY ONLY <1>1, <1>2, <1>7, <1>8, <1>9, <1>10 DEF Map
    <2>2. Map(books', BookRecords, next'.book) BY <1>1, MapEmpty DEF Delimited
    <2>3. QED BY <1>1, <1>2, <1>6, <2>1, <2>2, CountersGrowFacts DEF Typed, OpsTyped
  <1>12. Opens' = Opens \cup {n} BY <1>5, <1>6 DEF Opens
  <1>13. \A op \in Opens : /\ op \in DOMAIN operations /\ operations'[op] = operations[op]
            /\ operations[op].source \in DOMAIN sources /\ operations[op].source # h
    BY <1>6, <1>8 DEF Opens, Delimited, Scans
  <1>14. h \notin done BY <1>2 DEF Delimited, Scanned, h
  <1>15. Scans'
    <2>1. ASSUME NEW op \in DOMAIN operations'
          PROVE  LET q == operations'[op]
                 IN  /\ q.cursor.awaiting /\ q.cursor.outstanding = ReadAction(q.at, q.length)
                     /\ q.kind \in {"open", "read"} /\ q.at <= q.length /\ q.range < next'.handle
                     /\ q.length \in Lengths
      <3>1. CASE op = n BY <1>1, <1>2, <1>3, <1>5, <1>6, <3>1 DEF None
      <3>2. CASE op # n
        <4>1. op \in DOMAIN operations /\ operations'[op] = operations[op] BY <1>6, <3>2
        <4>2. operations[op].range \in Nat BY <4>1, TypedFacts, OperationFields
        <4>3. operations[op].range < h BY <4>1 DEF Delimited, Scans, h
        <4>4. QED BY <1>2, <4>1, <4>2, <4>3 DEF Delimited, Scans
      <3>3. QED BY <3>1, <3>2
    <2>2. ASSUME NEW op \in Opens'
          PROVE  LET q == operations'[op]
                 IN  /\ q.source \in DOMAIN sources' /\ q.source \notin done' /\ q.range = None
                     /\ q.at = sources'[q.source].seen /\ lengths'[q.source] = q.length
                     /\ ScanPace(q)
      <3>1. CASE op = n
        BY <1>1, <1>3, <1>4, <1>5, <1>6, <1>9, <1>10, <1>14, <3>1 DEF ScanPace
      <3>2. CASE op # n
        <4>1. /\ op \in Opens /\ operations'[op] = operations[op]
              /\ operations[op].source \in DOMAIN sources /\ operations[op].source # h
          BY <1>12, <1>13, <3>2
        <4>2. /\ operations[op].source \notin done /\ operations[op].range = None
              /\ operations[op].at = sources[operations[op].source].seen
              /\ lengths[operations[op].source] = operations[op].length
              /\ ScanPace(operations[op]) /\ DOMAIN lengths = DOMAIN sources
          BY <4>1 DEF Delimited, Scans, Scanned
        <4>3. QED BY <1>1, <1>9, <1>10, <4>1, <4>2
      <3>3. QED BY <3>1, <3>2
    <2>3. \A op1, op2 \in Opens' :
             operations'[op1].source = operations'[op2].source => op1 = op2
      BY <1>5, <1>6, <1>12, <1>13 DEF Delimited, Scans
    <2>4. QED BY <2>1, <2>2, <2>3 DEF Scans, ScanPace
  <1>16. Decoding'
    <2>1. \A op1, op2 \in DOMAIN operations' :
             operations'[op1].range = operations'[op2].range /\ operations'[op1].range # None => op1 = op2
      BY <1>5, <1>6 DEF Delimited, Decoding
    <2>2. \A r \in DOMAIN decoders' :
             /\ decoders'[r] \in DOMAIN sources'
             /\ \E op \in DOMAIN operations' :
                   operations'[op].kind = "read" /\ operations'[op].range = r
                   /\ operations'[op].source = decoders'[r]
      BY <1>1, <1>6, <1>9 DEF Delimited, Decoding
    <2>3. QED BY <2>1, <2>2 DEF Decoding
  <1>17. Scanned'
    <2>1. DOMAIN lengths' = DOMAIN sources' BY <1>9, <1>10 DEF Delimited, Scanned
    <2>2. DOMAIN sources' \cap DOMAIN decoders' = {} BY <1>1, <1>8, <1>9 DEF Delimited, Scanned
    <2>3. /\ \A s \in DOMAIN lengths' : lengths'[s] \in Lengths
          /\ \A s \in done' : s \in Nat /\ s < next'.handle
      BY <1>1, <1>2, <1>10 DEF Delimited, Scanned, h
    <2>4. \A s \in DOMAIN sources' \cap done' : sources'[s].seen = lengths'[s]
      BY <1>1, <1>9, <1>10, <1>14 DEF Delimited, Scanned
    <2>5. \A s \in DOMAIN sources' : s \in done' \/ \E op \in Opens' : operations'[op].source = s
      BY <1>1, <1>5, <1>6, <1>9, <1>12, <1>13 DEF Delimited, Scanned
    <2>6. QED BY <2>1, <2>2, <2>3, <2>4, <2>5 DEF Scanned
  <1>18. Metered'
    <2>1. /\ Metered /\ UNCHANGED done /\ h \notin DOMAIN sources /\ h \notin done
          /\ v.bytes = ScannerBytes /\ v.seen = 0 /\ sources' = With(sources, h, v)
      BY <1>1, <1>4, <1>8, <1>14 DEF Delimited
    <2>2. QED BY ONLY <2>1, MeteredAdd
  <1>19. QED BY <1>1, <1>11, <1>15, <1>16, <1>17, <1>18 DEF Delimited

\* A read begins at a byte of a live source, with a decoder of its own.
LEMMA DelimitedReads ==
  ASSUME Typed, Delimited, Plain, UNCHANGED <<owners, sources, lengths, done>>,
         NEW source \in DOMAIN lengths \cap DOMAIN sources, NEW table \in Nat,
         NEW at \in Nat, at <= lengths[source],
         next' = [next EXCEPT !.operation = @ + 1, !.handle = @ + 1],
         operations' = With(operations, next.operation,
                            [Operation("read", source, table, lengths[source],
                                       Issue(NewCursor, ReadAction(at, lengths[source])))
                               EXCEPT !.range = next.handle, !.at = at]),
         decoders' = With(decoders, next.handle, source)
  PROVE  Typed' /\ Delimited'
  <1> DEFINE n == next.operation
             h == next.handle
             length == lengths[source]
             c == Issue(NewCursor, ReadAction(at, length))
             o == [Operation("read", source, table, length, c) EXCEPT !.range = h, !.at = at]
  <1>1. /\ UNCHANGED <<format, tables, retained, books, owners, sources, lengths, done>>
        /\ operations' = With(operations, next.operation, o)
        /\ decoders' = With(decoders, h, source)
    BY DEF Plain
  <1>2. /\ n \in Nat /\ n > 0 /\ h \in Nat /\ h > 0
        /\ CountersGrow /\ next'.handle = h + 1 /\ next'.operation = n + 1
        /\ next' \in Counters
    <2>1. next' = [next EXCEPT !.operation = @ + 1, !.handle = @ + 1] OBVIOUS
    <2>2. next'.handle = h + 1 /\ next'.operation = n + 1
      BY ONLY Typed, <2>1, TypedMaps DEF Typed, Counters
    <2>3. CountersGrow BY ONLY Typed, <2>1, CountersTake
    <2>4. n \in Nat /\ n > 0 /\ h \in Nat /\ h > 0 BY ONLY Typed, TypedMaps
    <2>5. next' \in Counters BY <2>3 DEF CountersGrow
    <2>6. QED BY ONLY <2>2, <2>3, <2>4, <2>5
  <1>3. length \in Nat /\ length \in Lengths /\ source \in Nat /\ source \in DOMAIN sources
    BY LengthsNat, TypedFacts DEF Delimited, Scanned
  <1>4. /\ c \in Cursors /\ c.awaiting /\ c.revision = 1
        /\ c.outstanding = ReadAction(at, length)
    <2> DEFINE steps == ReadAction(at, length)
    <2>1. steps \in Seq(Steps) /\ NewCursor \in Cursors /\ NewCursor.revision = 0
      BY <1>3, StepsType, NewCursorType
    <2> HIDE DEF steps
    <2>2. /\ Issue(NewCursor, steps) \in Cursors /\ Issue(NewCursor, steps).awaiting
          /\ Issue(NewCursor, steps).revision = 1 /\ Issue(NewCursor, steps).outstanding = steps
      BY <2>1, CursorType
    <2>3. QED BY <2>2 DEF steps
  <1> HIDE DEF c, length
  <1>5. /\ o \in OperationRecords /\ o.kind = "read" /\ o.source = source /\ o.range = h
        /\ o.at = at /\ o.length = length /\ o.cursor = c
    BY <1>2, <1>3, <1>4 DEF Operation, OperationRecords, None
  <1> HIDE DEF o, n, h
  <1>6. /\ OpsTyped' /\ DOMAIN operations' = DOMAIN operations \cup {n} /\ n \notin DOMAIN operations
        /\ operations'[n] = o
        /\ \A x \in DOMAIN operations : operations'[x] = operations[x]
    <2>1. o.cursor.revision >= 1 BY <1>4, <1>5
    <2>2. n = next.operation BY DEF n
    <2>3. QED BY <1>1, <1>2, <1>5, <2>1, <2>2, OpsAdd
  <1>7. /\ DOMAIN sources \subseteq 1 .. (h - 1) /\ DOMAIN tables \subseteq 1 .. (h - 1)
        /\ DOMAIN lengths \subseteq 1 .. (h - 1)
        /\ sources \in [DOMAIN sources -> SourceRecords]
        /\ tables \in [DOMAIN tables -> TableRecords] /\ lengths \in [DOMAIN lengths -> Nat]
        /\ DOMAIN decoders \subseteq 1 .. (h - 1) /\ decoders \in [DOMAIN decoders -> Nat]
    BY TypedMaps DEF Map, h
  <1>8. /\ h \notin DOMAIN sources /\ h \notin DOMAIN decoders
        /\ DOMAIN decoders \cup {h} \subseteq 1 .. (h + 1 - 1)
        /\ DOMAIN sources \subseteq 1 .. (h + 1 - 1) /\ DOMAIN lengths \subseteq 1 .. (h + 1 - 1)
        /\ DOMAIN tables \subseteq 1 .. (h + 1 - 1)
    BY <1>2, <1>7
  <1>9. /\ DOMAIN decoders' = DOMAIN decoders \cup {h} /\ decoders'[h] = source
        /\ \A r \in DOMAIN decoders : decoders'[r] = decoders[r]
        /\ decoders' \in [DOMAIN decoders' -> Nat]
    <2>1. decoders' = With(decoders, h, source) /\ source \in Nat /\ h \notin DOMAIN decoders
          /\ decoders \in [DOMAIN decoders -> Nat]
      BY <1>1, <1>3, <1>7, <1>8
    <2>2. QED BY ONLY <2>1 DEF With
  <1>10. Typed'
    <2>1. Map(sources', SourceRecords, next'.handle) /\ Map(lengths', Nat, next'.handle)
          /\ Map(tables', TableRecords, next'.handle) /\ Map(decoders', Nat, next'.handle)
      BY <1>1, <1>2, <1>7, <1>8, <1>9 DEF Map
    <2>2. Map(books', BookRecords, next'.book) BY <1>1, MapEmpty DEF Delimited
    <2>3. QED BY <1>1, <1>2, <1>6, <2>1, <2>2, CountersGrowFacts DEF Typed, OpsTyped
  <1>11. Opens' = Opens BY <1>5, <1>6 DEF Opens
  <1>12. \A op \in DOMAIN operations : operations[op].range \in Nat /\ operations[op].range < h
    BY TypedFacts, OperationFields DEF Delimited, Scans, h
  <1>13. Scans'
    <2>1. ASSUME NEW op \in DOMAIN operations'
          PROVE  LET q == operations'[op]
                 IN  /\ q.cursor.awaiting /\ q.cursor.outstanding = ReadAction(q.at, q.length)
                     /\ q.kind \in {"open", "read"} /\ q.at <= q.length /\ q.range < next'.handle
                     /\ q.length \in Lengths
      <3>1. CASE op = n
        <4>1. at <= length BY DEF length
        <4>2. QED BY <1>2, <1>3, <1>4, <1>5, <1>6, <3>1, <4>1
      <3>2. CASE op # n
        <4>1. op \in DOMAIN operations /\ operations'[op] = operations[op] BY <1>6, <3>2
        <4>2. QED BY <1>2, <1>12, <4>1 DEF Delimited, Scans
      <3>3. QED BY <3>1, <3>2
    <2>2. \A op \in Opens : op \in DOMAIN operations /\ operations'[op] = operations[op]
      BY <1>6 DEF Opens
    <2>3. /\ \A op \in Opens' :
                LET q == operations'[op]
                IN  /\ q.source \in DOMAIN sources' /\ q.source \notin done' /\ q.range = None
                    /\ q.at = sources'[q.source].seen /\ lengths'[q.source] = q.length
                    /\ ScanPace(q)
          /\ \A op1, op2 \in Opens' :
                operations'[op1].source = operations'[op2].source => op1 = op2
      BY <1>1, <1>11, <2>2 DEF Delimited, Scans
    <2>4. QED BY <2>1, <2>3 DEF Scans, ScanPace
  <1>14. Decoding'
    <2>1. \A op1, op2 \in DOMAIN operations' :
             operations'[op1].range = operations'[op2].range /\ operations'[op1].range # None => op1 = op2
      BY <1>5, <1>6, <1>12 DEF Delimited, Decoding
    <2>2. ASSUME NEW r \in DOMAIN decoders'
          PROVE  /\ decoders'[r] \in DOMAIN sources'
                 /\ \E op \in DOMAIN operations' :
                       operations'[op].kind = "read" /\ operations'[op].range = r
                       /\ operations'[op].source = decoders'[r]
      <3>1. CASE r = h BY <1>1, <1>3, <1>5, <1>6, <1>9, <3>1
      <3>2. CASE r # h BY <1>1, <1>6, <1>9, <3>2 DEF Delimited, Decoding
      <3>3. QED BY <3>1, <3>2
    <2>3. QED BY <2>1, <2>2 DEF Decoding
  <1>15. \A s \in done' : s \in Nat /\ s < next'.handle
    BY <1>1, <1>2 DEF Delimited, Scanned, h
  <1>16. Scanned'
    <2>1. DOMAIN sources' \cap DOMAIN decoders' = {} BY <1>1, <1>8, <1>9 DEF Delimited, Scanned
    <2>2. \A s \in DOMAIN sources' : s \in done' \/ \E op \in Opens' : operations'[op].source = s
      BY <1>1, <1>6, <1>11 DEF Delimited, Scanned, Opens
    <2>3. QED BY <1>1, <1>15, <2>1, <2>2 DEF Delimited, Scanned
  <1>17. Metered' BY <1>1 DEF Delimited, Metered, Unfed
  <1>18. QED BY <1>1, <1>10, <1>13, <1>14, <1>16, <1>17 DEF Delimited

\* A read that was answered goes on: nothing but its place changes.
LEMMA DelimitedFeeds ==
  ASSUME Typed, Delimited, Plain, UNCHANGED <<owners, sources, lengths, decoders, next, done>>,
         NEW op \in DOMAIN operations, operations[op].kind = "read",
         NEW o \in OperationRecords, operations' = [operations EXCEPT ![op] = o],
         o.kind = "read", o.source = operations[op].source, o.range = operations[op].range,
         o.length = operations[op].length, o.at <= o.length, o.cursor.revision >= 1,
         o.cursor.awaiting, o.cursor.outstanding = ReadAction(o.at, o.length)
  PROVE  Typed' /\ Delimited'
  <1>1. /\ OpsTyped' /\ DOMAIN operations' = DOMAIN operations /\ operations'[op] = o
        /\ \A x \in DOMAIN operations : x # op => operations'[x] = operations[x]
    <2>1. next'.operation \in Nat /\ next'.operation >= next.operation BY TypedMaps
    <2>2. QED BY <2>1, OpsPut
  <1>2. UNCHANGED <<format, tables, retained, books, owners, sources, lengths, decoders, next, done>>
    BY DEF Plain
  <1>3. Typed' BY <1>1, <1>2 DEF Typed, OpsTyped
  <1>4. \A x \in DOMAIN operations : /\ operations'[x].kind = operations[x].kind
           /\ operations'[x].source = operations[x].source
           /\ operations'[x].range = operations[x].range
           /\ operations'[x].length = operations[x].length
    BY <1>1
  <1>5. Opens' = Opens /\ \A x \in Opens : x \in DOMAIN operations /\ operations'[x] = operations[x]
    BY <1>1, <1>4 DEF Opens
  <1>6. Scans'
    <2>1. ASSUME NEW x \in DOMAIN operations'
          PROVE  LET q == operations'[x]
                 IN  /\ q.cursor.awaiting /\ q.cursor.outstanding = ReadAction(q.at, q.length)
                     /\ q.kind \in {"open", "read"} /\ q.at <= q.length /\ q.range < next'.handle
                     /\ q.length \in Lengths
      BY <1>1, <1>2, <1>4 DEF Delimited, Scans
    <2>2. /\ \A x \in Opens' :
                LET q == operations'[x]
                IN  /\ q.source \in DOMAIN sources' /\ q.source \notin done' /\ q.range = None
                    /\ q.at = sources'[q.source].seen /\ lengths'[q.source] = q.length
                    /\ ScanPace(q)
          /\ \A op1, op2 \in Opens' :
                operations'[op1].source = operations'[op2].source => op1 = op2
      BY <1>2, <1>5 DEF Delimited, Scans
    <2>3. QED BY <2>1, <2>2 DEF Scans, ScanPace
  <1>7. Decoding' BY <1>1, <1>2, <1>4 DEF Delimited, Decoding
  <1>8. Scanned' /\ Metered' BY <1>2, <1>5 DEF Delimited, Scanned, Metered, Unfed
  <1>9. QED BY <1>2, <1>3, <1>6, <1>7, <1>8 DEF Delimited

\* What a source of the scanner may become: more is seen, within the budget.
Seen(s, at) ==
    /\ Map(sources', SourceRecords, next.handle) /\ DOMAIN sources' = DOMAIN sources
    /\ sources'[s].seen = at /\ \A x \in DOMAIN sources : x # s => sources'[x] = sources[x]
    /\ Weigh(sources') <= IndexBudget

\* The scanner that was fed is weighed with all the others.
LEMMA MeteredSeen ==
  ASSUME Typed, Metered, NEW s \in DOMAIN sources, NEW at \in Nat, Seen(s, at),
         (done' = done /\ at > 0) \/ done' = done \cup {s}
  PROVE  Metered'
  <1>1. /\ DOMAIN sources' = DOMAIN sources /\ sources'[s].seen = at
        /\ \A x \in DOMAIN sources : x # s => sources'[x] = sources[x]
        /\ Weigh(sources') <= IndexBudget /\ Map(sources', SourceRecords, next.handle)
    BY DEF Seen
  <1>2. \A x \in Unfed' : x \in Unfed /\ sources'[x] = sources[x]
    <2> SUFFICES ASSUME NEW x \in Unfed' PROVE x \in Unfed /\ sources'[x] = sources[x] OBVIOUS
    <2>1. x \in DOMAIN sources' /\ x \notin done' /\ sources'[x].seen = 0 BY DEF Unfed
    <2>2. x # s BY <1>1, <2>1
    <2>3. QED BY <1>1, <2>1, <2>2 DEF Unfed
  <1>3. Weighted(sources')
    <2>1. next.handle \in Nat BY TypedMaps
    <2>2. IsFiniteSet(DOMAIN sources') /\ \A x \in DOMAIN sources' : sources'[x] \in SourceRecords
      BY <1>1, <2>1, MapFinite
    <2>3. QED BY <2>2 DEF Weighted, SourceRecords
  <1> DEFINE fed == Without(sources', Unfed')
  <1>4. Weighted(fed) /\ Weigh(fed) <= Weigh(sources') BY <1>3, WeighLess
  <1> HIDE DEF fed
  <1>5. Weigh(fed) \in Nat /\ Weigh(sources') \in Nat BY <1>3, <1>4, WeighIsSum
  <1>6. Weigh(fed) <= IndexBudget BY <1>1, <1>4, <1>5, IndexAssumption
  <1>7. QED BY <1>2, <1>6 DEF Metered, fed

LEMMA ScanIs ==
  ASSUME Typed, NEW s \in DOMAIN sources, NEW chunk, chunk.length \in Nat, NEW growth \in Nat,
         sources' = ScanChunk(s, chunk, growth), ~ SumOf(sources', SourceBytes) > IndexBudget
  PROVE  Seen(s, sources[s].seen + chunk.length)
  <1> DEFINE old == sources[s]
             size == old.bytes + growth
             at == old.seen + chunk.length
             v == [old EXCEPT !.bytes = size, !.seen = at]
             index == [sources EXCEPT ![s] = v]
  <1>1. old \in SourceRecords /\ Map(sources, SourceRecords, next.handle) /\ Weighted(sources)
    BY TypedFacts, TypedMaps
  <1>2. sources' = index BY <1>1 DEF ScanChunk, Map
  <1>3. v \in SourceRecords /\ v.seen = at /\ v.bytes \in Nat
    <2>1. size \in Nat /\ at \in Nat BY <1>1 DEF SourceRecords
    <2> HIDE DEF size, at
    <2>2. QED BY <1>1, <2>1 DEF SourceRecords
  <1> HIDE DEF v
  <1>4. /\ Map(index, SourceRecords, next.handle) /\ DOMAIN index = DOMAIN sources
        /\ index[s] = v /\ \A x \in DOMAIN sources : x # s => index[x] = sources[x]
    BY ONLY <1>1, <1>3, s \in DOMAIN sources, MapPut
  <1>5. Weighted(index) BY ONLY <1>1, <1>3, s \in DOMAIN sources, WeighPut
  <1> HIDE DEF index
  <1>6. SumOf(index, SourceBytes) = Weigh(index) /\ Weigh(index) \in Nat
    BY <1>5, WeighIsSum, Zenon
  <1>7. ~ SumOf(index, SourceBytes) > IndexBudget BY <1>2, Zenon
  <1>8. ~ Weigh(index) > IndexBudget BY <1>6, <1>7, Zenon
  <1>9. Weigh(index) <= IndexBudget BY <1>6, <1>8, IndexAssumption
  <1>10. QED BY <1>2, <1>3, <1>4, <1>9 DEF Seen

\* A scan that was answered asks for the next chunk.
LEMMA DelimitedScans ==
  ASSUME Typed, Delimited, Plain, UNCHANGED <<owners, lengths, decoders, next, done>>,
         NEW op \in Opens, NEW o \in OperationRecords,
         operations' = [operations EXCEPT ![op] = o], Seen(o.source, o.at),
         o.kind = "open", o.source = operations[op].source, o.range = operations[op].range,
         o.length = operations[op].length, o.at <= o.length, o.cursor.revision >= 1,
         o.cursor.awaiting, o.cursor.outstanding = ReadAction(o.at, o.length), ScanPace(o),
         o.at > 0
  PROVE  Typed' /\ Delimited'
  <1>1. /\ OpsTyped' /\ DOMAIN operations' = DOMAIN operations /\ operations'[op] = o
        /\ \A x \in DOMAIN operations : x # op => operations'[x] = operations[x]
    <2>1. next'.operation \in Nat /\ next'.operation >= next.operation BY TypedMaps
    <2>2. op \in DOMAIN operations BY DEF Opens
    <2>3. QED BY <2>1, <2>2, OpsPut
  <1>2. UNCHANGED <<format, tables, retained, books, owners, lengths, decoders, next, done>>
    BY DEF Plain
  <1>3. Typed' BY <1>1, <1>2 DEF Typed, OpsTyped, Seen
  <1>4. op \in DOMAIN operations /\ operations[op].kind = "open" BY DEF Opens
  <1>5. \A x \in DOMAIN operations : /\ operations'[x].kind = operations[x].kind
           /\ operations'[x].source = operations[x].source
           /\ operations'[x].range = operations[x].range
           /\ operations'[x].length = operations[x].length
    BY <1>1, <1>4
  <1>6. Opens' = Opens BY <1>1, <1>5 DEF Opens
  <1>7. DOMAIN sources' = DOMAIN sources /\ sources'[o.source].seen = o.at
        /\ \A x \in DOMAIN sources : x # o.source => sources'[x] = sources[x]
    BY DEF Seen
  <1>8. \A x \in Opens : x # op => /\ operations'[x] = operations[x]
           /\ operations[x].source # o.source /\ operations[x].source \in DOMAIN sources
    BY <1>1 DEF Opens, Delimited, Scans
  <1>9. o.source \in DOMAIN sources /\ o.source \notin done BY DEF Delimited, Scans
  <1>10. Scans'
    <2>1. ASSUME NEW x \in DOMAIN operations'
          PROVE  LET q == operations'[x]
                 IN  /\ q.cursor.awaiting /\ q.cursor.outstanding = ReadAction(q.at, q.length)
                     /\ q.kind \in {"open", "read"} /\ q.at <= q.length /\ q.range < next'.handle
                     /\ q.length \in Lengths
      BY <1>1, <1>2, <1>5 DEF Delimited, Scans
    <2>2. ASSUME NEW x \in Opens'
          PROVE  LET q == operations'[x]
                 IN  /\ q.source \in DOMAIN sources' /\ q.source \notin done' /\ q.range = None
                     /\ q.at = sources'[q.source].seen /\ lengths'[q.source] = q.length
                     /\ ScanPace(q)
      <3>1. CASE x = op BY <1>1, <1>2, <1>7, <1>9, <3>1 DEF Delimited, Scans
      <3>2. CASE x # op BY <1>2, <1>6, <1>7, <1>8, <3>2 DEF Delimited, Scans
      <3>3. QED BY <3>1, <3>2
    <2>3. \A x1, x2 \in Opens' :
             operations'[x1].source = operations'[x2].source => x1 = x2
      BY <1>5, <1>6 DEF Delimited, Scans, Opens
    <2>4. QED BY <2>1, <2>2, <2>3 DEF Scans, ScanPace
  <1>11. Decoding' BY <1>1, <1>2, <1>5, <1>7 DEF Delimited, Decoding
  <1>12. Scanned'
    <2>1. \A s \in DOMAIN sources' \cap done' : sources'[s].seen = lengths'[s]
      BY <1>2, <1>7, <1>9 DEF Delimited, Scanned
    <2>2. \A s \in DOMAIN sources' : s \in done' \/ \E x \in Opens' : operations'[x].source = s
      BY <1>2, <1>5, <1>6, <1>7 DEF Delimited, Scanned, Opens
    <2>3. QED BY <1>2, <1>7, <2>1, <2>2 DEF Delimited, Scanned
  <1>13. Metered'
    <2>1. Metered /\ o.at \in Nat BY DEF Delimited, OperationRecords
    <2>2. QED BY ONLY Typed, Seen(o.source, o.at), o.at > 0, UNCHANGED done, <1>9, <2>1, MeteredSeen
  <1>14. QED BY <1>2, <1>3, <1>10, <1>11, <1>12, <1>13 DEF Delimited

\* A scan that has seen its whole source is done, and the source stays.
LEMMA DelimitedCompletes ==
  ASSUME Typed, Delimited, Plain, UNCHANGED <<owners, lengths, decoders, next>>,
         NEW op \in Opens, operations' = Without(operations, {op}),
         Seen(operations[op].source, operations[op].length),
         done' = done \cup {operations[op].source}
  PROVE  Typed' /\ Delimited'
  <1> DEFINE source == operations[op].source
  <1>1. /\ OpsTyped' /\ DOMAIN operations' = DOMAIN operations \ {op}
        /\ \A x \in DOMAIN operations' : operations'[x] = operations[x]
    <2>1. next'.operation \in Nat /\ next'.operation >= next.operation BY TypedMaps
    <2>2. operations' = Without(operations, {op}) OBVIOUS
    <2>3. QED BY ONLY Typed, <2>1, <2>2, OpsCut
  <1>2. /\ UNCHANGED <<format, tables, retained, books, owners, lengths, decoders, next>>
        /\ done' = done \cup {source}
    BY DEF Plain
  <1>3. Typed' BY <1>1, <1>2 DEF Typed, OpsTyped, Seen
  <1>4. op \in DOMAIN operations /\ operations[op].kind = "open" BY DEF Opens
  <1>5. /\ Opens' = Opens \ {op}
        /\ \A x \in Opens' : operations'[x] = operations[x] /\ x \in Opens
    BY <1>1 DEF Opens
  <1>6. /\ DOMAIN sources' = DOMAIN sources
        /\ sources'[source].seen = operations[op].length
        /\ \A x \in DOMAIN sources : x # source => sources'[x] = sources[x]
    BY DEF Seen
  <1>7. /\ source \in DOMAIN sources /\ source \notin done
        /\ lengths[source] = operations[op].length
    BY DEF Delimited, Scans
  <1>8. \A x \in Opens' : operations[x].source # source /\ operations[x].source \in DOMAIN sources
    BY <1>5 DEF Delimited, Scans
  <1>9. source \in Nat /\ source < next.handle BY <1>7, TypedFacts
  <1> HIDE DEF source
  <1>10. Scans'
    <2>1. ASSUME NEW x \in DOMAIN operations'
          PROVE  LET q == operations'[x]
                 IN  /\ q.cursor.awaiting /\ q.cursor.outstanding = ReadAction(q.at, q.length)
                     /\ q.kind \in {"open", "read"} /\ q.at <= q.length /\ q.range < next'.handle
                     /\ q.length \in Lengths
      BY <1>1, <1>2 DEF Delimited, Scans
    <2>2. ASSUME NEW x \in Opens'
          PROVE  LET q == operations'[x]
                 IN  /\ q.source \in DOMAIN sources' /\ q.source \notin done' /\ q.range = None
                     /\ q.at = sources'[q.source].seen /\ lengths'[q.source] = q.length
                     /\ ScanPace(q)
      <3>1. x \in Opens /\ operations'[x] = operations[x] BY <1>5
      <3>2. operations[x].source \in DOMAIN sources /\ operations[x].source # source BY <1>8
      <3>3. operations[x].source \notin done' BY <1>2, <3>1, <3>2 DEF Delimited, Scans
      <3>4. /\ operations[x].range = None /\ ScanPace(operations[x])
            /\ operations[x].at = sources[operations[x].source].seen
            /\ lengths[operations[x].source] = operations[x].length
        BY ONLY Delimited, <3>1 DEF Delimited, Scans
      <3>5. QED BY <1>2, <1>6, <3>1, <3>2, <3>3, <3>4
    <2>3. \A x1, x2 \in Opens' :
             operations'[x1].source = operations'[x2].source => x1 = x2
      BY ONLY Delimited, <1>5 DEF Delimited, Scans
    <2>4. QED BY <2>1, <2>2, <2>3 DEF Scans, ScanPace
  <1>11. Decoding'
    <2>1. \A x1, x2 \in DOMAIN operations' :
             operations'[x1].range = operations'[x2].range /\ operations'[x1].range # None => x1 = x2
      BY ONLY Delimited, <1>1 DEF Delimited, Decoding
    <2>2. ASSUME NEW r \in DOMAIN decoders'
          PROVE  /\ decoders'[r] \in DOMAIN sources'
                 /\ \E x \in DOMAIN operations' :
                       operations'[x].kind = "read" /\ operations'[x].range = r
                       /\ operations'[x].source = decoders'[r]
      <3>1. PICK x \in DOMAIN operations :
                operations[x].kind = "read" /\ operations[x].range = r
                /\ operations[x].source = decoders[r]
        BY <1>2 DEF Delimited, Decoding
      <3>2. x # op BY <1>4, <3>1
      <3>3. QED BY <1>1, <1>2, <1>6, <3>1, <3>2 DEF Delimited, Decoding
    <2>3. QED BY <2>1, <2>2 DEF Decoding
  <1>12. Scanned'
    <2>1. \A s \in DOMAIN sources' \cap done' : sources'[s].seen = lengths'[s]
      BY <1>2, <1>6, <1>7 DEF Delimited, Scanned
    <2>2. \A s \in DOMAIN sources' : s \in done' \/ \E x \in Opens' : operations'[x].source = s
      <3> SUFFICES ASSUME NEW s \in DOMAIN sources', s \notin done'
                   PROVE  \E x \in Opens' : operations'[x].source = s
        OBVIOUS
      <3>1. s \in DOMAIN sources /\ s # source /\ s \notin done BY <1>2, <1>6
      <3>2. PICK x \in Opens : operations[x].source = s BY <3>1 DEF Delimited, Scanned
      <3>3. x # op BY <3>1, <3>2 DEF source
      <3>4. QED BY <1>5, <3>2, <3>3
    <2>3. \A s \in done' : s \in Nat /\ s < next'.handle
      BY <1>2, <1>9 DEF Delimited, Scanned
    <2>4. QED BY <1>2, <1>6, <2>1, <2>2, <2>3 DEF Delimited, Scanned
  <1>13. Metered'
    <2>1. Metered /\ operations[op].length \in Nat /\ Seen(source, operations[op].length)
      BY <1>4, TypedFacts, OperationFields DEF Delimited, source
    <2>2. QED BY ONLY Typed, <1>2, <1>7, <2>1, MeteredSeen
  <1>14. QED BY <1>2, <1>3, <1>10, <1>11, <1>12, <1>13 DEF Delimited

\* cancel_pending of an open, and of a read.
LEMMA DelimitedDropOpen ==
  ASSUME Typed, Delimited, Plain, UNCHANGED <<owners, next>>, NEW op \in Opens, DropOpen(op)
  PROVE  Typed' /\ Delimited'
  <1> DEFINE S == {op}
             T == {operations[op].source}
             D == {r \in DOMAIN decoders : decoders[r] = operations[op].source}
  <1>1. /\ operations' = Without(operations, S) /\ sources' = Without(sources, T)
        /\ lengths' = Without(lengths, T) /\ decoders' = Without(decoders, D)
        /\ UNCHANGED <<next, done>> /\ OwnersTyped'
    BY DEF DropOpen, CloseScanner, Delimited, OwnersTyped, Typed
  <1>2. \A x \in Opens : x \in S <=> operations[x].source \in T
    <2>1. \A x \in Opens : operations[x].source = operations[op].source => x = op
      BY DEF Delimited, Scans
    <2>2. QED BY <2>1
  <1>3. \A r \in DOMAIN decoders : decoders[r] \in T => r \in D OBVIOUS
  <1>4. \A x \in DOMAIN operations :
           x \in S /\ operations[x].kind = "read" /\ operations[x].range \in DOMAIN decoders
              => operations[x].range \in D
    BY DEF Opens
  <1> HIDE DEF S, T, D
  <1>5. QED BY ONLY Typed, Delimited, Plain, <1>1, <1>2, <1>3, <1>4, DelimitedForget

\* Reads end, and the sources stay.
LEMMA DelimitedDropReads ==
  ASSUME Typed, Delimited, Plain, UNCHANGED <<sources, lengths, next, done>>, NEW S, NEW D,
         OwnersTyped',
         operations' = Without(operations, S), decoders' = Without(decoders, D),
         \A op \in Opens : op \notin S,
         \A op \in DOMAIN operations : op \in S => operations[op].range \in D
  PROVE  Typed' /\ Delimited'
  <1> DEFINE T == {}
  <1>1. sources' = Without(sources, T) /\ lengths' = Without(lengths, T)
    BY WithoutNothing DEF Typed
  <1>2. /\ \A op \in Opens : op \in S <=> operations[op].source \in T
        /\ \A r \in DOMAIN decoders : decoders[r] \in T => r \in D
        /\ \A op \in DOMAIN operations :
              op \in S /\ operations[op].kind = "read" /\ operations[op].range \in DOMAIN decoders
                 => operations[op].range \in D
    OBVIOUS
  <1>3. UNCHANGED <<next, done>> /\ OwnersTyped'
        /\ operations' = Without(operations, S) /\ decoders' = Without(decoders, D)
    OBVIOUS
  <1> HIDE DEF T
  <1>4. QED BY ONLY Typed, Delimited, Plain, <1>1, <1>2, <1>3, DelimitedForget

LEMMA DelimitedDropRead ==
  ASSUME Typed, Delimited, Plain, UNCHANGED <<owners, next>>,
         NEW op \in DOMAIN operations, op \notin Opens, DropRead(op)
  PROVE  Typed' /\ Delimited'
  <1> DEFINE S == {op}
             D == {operations[op].range}
  <1>1. /\ operations' = Without(operations, S) /\ decoders' = Without(decoders, D)
        /\ UNCHANGED <<sources, lengths, next, done>>
        /\ OwnersTyped'
    BY DEF DropRead, Delimited, OwnersTyped, Typed
  <1>2. /\ \A x \in Opens : x \notin S
        /\ \A x \in DOMAIN operations : x \in S => operations[x].range \in D
    OBVIOUS
  <1> HIDE DEF S, D
  <1>3. QED BY ONLY Typed, Delimited, Plain, <1>1, <1>2, DelimitedDropReads

\* What an answered step of a scan or a read goes on with.
LEMMA NextStepIs ==
  ASSUME Typed, Delimited, NEW op \in DOMAIN operations
  PROVE  LET pending == operations[op]
             at      == NextOffset(pending)
             cursor  == ConsumeResults(pending.cursor)
             c       == Issue(cursor, ReadAction(at, pending.length))
             o       == [pending EXCEPT !.at = at, !.cursor = c]
         IN  /\ at \in Nat /\ at <= pending.length /\ pending.at \in Nat /\ pending.length \in Nat
             /\ at # pending.length => at = pending.at + ChunkBytes
             /\ ReadAction(pending.at, pending.length)[1].length \in Nat
             /\ at = pending.at + ReadAction(pending.at, pending.length)[1].length
             /\ ~cursor.awaiting /\ cursor.revision = pending.cursor.revision
             /\ pending.cursor.revision \in Nat
             /\ o \in OperationRecords /\ o.kind = pending.kind /\ o.source = pending.source
             /\ o.range = pending.range /\ o.length = pending.length /\ o.at = at
             /\ o.cursor.revision = pending.cursor.revision + 1 /\ o.cursor.revision >= 1
             /\ o.cursor.awaiting /\ o.cursor.outstanding = ReadAction(at, pending.length)
             /\ [operations EXCEPT ![op].at = at, ![op].cursor = c] = [operations EXCEPT ![op] = o]
  <1> DEFINE pending == operations[op]
             at == NextOffset(pending)
             cursor == ConsumeResults(pending.cursor)
             steps == ReadAction(at, pending.length)
             c == Issue(cursor, steps)
             o == [pending EXCEPT !.at = at, !.cursor = c]
  <1>1. /\ pending \in OperationRecords /\ pending.at \in Nat /\ pending.length \in Nat
        /\ pending.cursor \in Cursors /\ pending.cursor.revision \in Nat
        /\ pending.at <= pending.length
    BY TypedFacts, OperationFields DEF Delimited, Scans
  <1>2. LET chunk == ReadAction(pending.at, pending.length)[1]
        IN  /\ chunk.length \in Nat /\ at = pending.at + chunk.length /\ at \in Nat
            /\ at <= pending.length /\ (at # pending.length => at = pending.at + ChunkBytes)
    <2> DEFINE p == pending.at
               l == pending.length
    <2>1. p \in Nat /\ l \in Nat /\ p <= l /\ pending.at = p /\ pending.length = l BY <1>1
    <2> HIDE DEF p, l, pending
    <2>2. LET chunk == ReadAction(p, l)[1]
          IN  /\ chunk.length \in Nat /\ NextOffset(pending) = p + chunk.length
              /\ NextOffset(pending) \in Nat /\ NextOffset(pending) <= l
              /\ NextOffset(pending) # l => NextOffset(pending) = p + ChunkBytes
      BY ONLY <2>1, ChunkIs
    <2>3. QED BY ONLY <2>1, <2>2
  <1>3. steps \in Seq(Steps) BY <1>1, <1>2, StepsType
  <1> HIDE DEF steps, at
  <1>4. cursor \in Cursors /\ ~cursor.awaiting /\ cursor.revision = pending.cursor.revision
    BY ONLY <1>1, <1>3, CursorType
  <1> HIDE DEF cursor
  <1>5. /\ c \in Cursors /\ c.awaiting /\ c.outstanding = steps
        /\ c.revision = cursor.revision + 1
    BY ONLY <1>3, <1>4, CursorType
  <1>6. [operations EXCEPT ![op].at = at, ![op].cursor = c] = [operations EXCEPT ![op] = o]
    BY <1>1, TypedMaps DEF Map
  <1> HIDE DEF c
  <1>7. /\ o \in OperationRecords /\ o.kind = pending.kind /\ o.source = pending.source
        /\ o.range = pending.range /\ o.length = pending.length /\ o.at = at /\ o.cursor = c
    BY <1>1, <1>2, <1>5 DEF OperationRecords
  <1>8. o.cursor.revision = pending.cursor.revision + 1 /\ o.cursor.revision >= 1
    BY <1>1, <1>4, <1>5, <1>7
  <1>9. QED BY ONLY <1>1, <1>2, <1>4, <1>5, <1>6, <1>7, <1>8 DEF at, cursor, steps, c

\* A scan takes a byte a step, so its revisions do not run out before it ends.
LEMMA ScanCompletes ==
  ASSUME Typed, Delimited, NEW op \in Opens
  PROVE  operations[op].cursor.revision < MaxSafeInteger
  <1> DEFINE o == operations[op]
  <1>1. o.length \in Lengths /\ ScanPace(o) /\ op \in DOMAIN operations
    BY DEF Opens, Delimited, Scans
  <1>2. o.at \in Nat /\ o.cursor.revision \in Nat
    BY <1>1, TypedFacts, OperationFields
  <1>3. /\ o.length \in Nat /\ o.length <= MaxSafeInteger /\ MaxSafeInteger \in Nat
        /\ ChunkBytes \in Nat /\ ChunkBytes > 0 /\ MaxSafeInteger > 1
        /\ ChunkBytes > 1 \/ o.length # MaxSafeInteger
    <2> HIDE DEF o
    <2>1. o.length \in 0 .. MaxSafeInteger /\ MaxSafeInteger \in Nat
      BY <1>1, RegistryAssumption, ProtocolAssumption
    <2>2. ChunkBytes > 1 \/ o.length # MaxSafeInteger BY <1>1, ScanAssumption
    <2>3. ChunkBytes \in Nat /\ ChunkBytes > 0 /\ MaxSafeInteger > 1 BY ScanAssumption
    <2>4. QED BY ONLY <2>1, <2>2, <2>3
  <1>4. /\ o.at < o.length \/ o.at = 0
        /\ o.cursor.revision <= o.at + 1
        /\ ChunkBytes > 1 => 2 * o.cursor.revision <= o.at + 2
    BY <1>1 DEF ScanPace
  <1> DEFINE at == o.at
             length == o.length
             revision == o.cursor.revision
  <1>5. /\ at \in Nat /\ length \in Nat /\ revision \in Nat
        /\ length <= MaxSafeInteger /\ (ChunkBytes > 1 \/ length # MaxSafeInteger)
        /\ at < length \/ at = 0
        /\ revision <= at + 1 /\ (ChunkBytes > 1 => 2 * revision <= at + 2)
    BY <1>2, <1>3, <1>4
  <1> HIDE DEF at, length, revision
  <1>6. revision < MaxSafeInteger
    <2>1. CASE at = 0
      <3>1. revision <= 1 BY <1>5, <2>1
      <3>2. QED BY <1>3, <1>5, <3>1
    <2>2. CASE at < length /\ ChunkBytes > 1
      <3>1. 2 * revision <= MaxSafeInteger + 1 BY <1>3, <1>5, <2>2
      <3>2. QED BY <1>3, <1>5, <3>1
    <2>3. CASE at < length /\ ~ ChunkBytes > 1
      <3>1. length < MaxSafeInteger BY <1>3, <1>5, <2>3
      <3>2. QED BY <1>3, <1>5, <2>3, <3>1
    <2>4. QED BY <1>5, <2>1, <2>2, <2>3
  <1>7. QED BY <1>6 DEF revision

LEMMA AdvanceScanKeeps ==
  ASSUME Typed, Delimited, Plain, UNCHANGED <<owners, next>>, NEW op \in Opens,
         NEW growth \in Nat, AdvanceScan(op, growth)
  PROVE  Typed' /\ Delimited'
  <1> DEFINE pending == operations[op]
             cursor == ConsumeResults(pending.cursor)
             at == NextOffset(pending)
             chunk == ReadAction(pending.at, pending.length)[1]
             index == ScanChunk(pending.source, chunk, growth)
             c == Issue(cursor, ReadAction(at, pending.length))
             o == [pending EXCEPT !.at = at, !.cursor = c]
  <1>1. op \in DOMAIN operations /\ pending.kind = "open" BY DEF Opens
  <1>2. /\ at \in Nat /\ at <= pending.length /\ pending.at \in Nat /\ pending.length \in Nat
        /\ at # pending.length => at = pending.at + ChunkBytes
        /\ chunk.length \in Nat /\ at = pending.at + chunk.length
        /\ ~cursor.awaiting /\ cursor.revision = pending.cursor.revision
        /\ pending.cursor.revision \in Nat
        /\ o \in OperationRecords /\ o.kind = pending.kind /\ o.source = pending.source
        /\ o.range = pending.range /\ o.length = pending.length /\ o.at = at
        /\ o.cursor.revision = pending.cursor.revision + 1 /\ o.cursor.revision >= 1
        /\ o.cursor.awaiting /\ o.cursor.outstanding = ReadAction(at, pending.length)
        /\ [operations EXCEPT ![op].at = at, ![op].cursor = c] = [operations EXCEPT ![op] = o]
    BY ONLY Typed, Delimited, <1>1, NextStepIs, ZenonT(30)
  <1>3. /\ pending.source \in DOMAIN sources /\ pending.at = sources[pending.source].seen
        /\ ScanPace(pending)
    BY DEF Delimited, Scans
  <1>4. UNCHANGED <<owners, next>> OBVIOUS
  <1>5. \/ DropOpen(op)
        \/ /\ ~ SumOf(index, SourceBytes) > IndexBudget /\ sources' = index
           /\ at = pending.length /\ operations' = Without(operations, {op})
           /\ done' = IF CanComplete(cursor) THEN done \cup {pending.source} ELSE done
           /\ UNCHANGED <<lengths, decoders>>
        \/ /\ ~ SumOf(index, SourceBytes) > IndexBudget /\ sources' = index
           /\ at # pending.length
           /\ operations' = [operations EXCEPT ![op].at = at, ![op].cursor = c]
           /\ UNCHANGED <<lengths, decoders, done>>
    BY Zenon DEF AdvanceScan
  <1> HIDE DEF pending, cursor, at, chunk, c, o
  <1>6. ASSUME ~ SumOf(index, SourceBytes) > IndexBudget, sources' = index
        PROVE  Seen(pending.source, at)
    <2>1. /\ sources' = ScanChunk(pending.source, chunk, growth)
          /\ ~ SumOf(sources', SourceBytes) > IndexBudget
      BY <1>6, Zenon
    <2>2. Seen(pending.source, sources[pending.source].seen + chunk.length)
      BY ONLY Typed, <1>2, <1>3, growth \in Nat, <2>1, ScanIs
    <2>3. sources[pending.source].seen + chunk.length = at BY <1>2, <1>3
    <2>4. QED BY ONLY <2>2, <2>3
  <1> HIDE DEF index
  <1>7. CASE DropOpen(op) BY <1>4, <1>7, DelimitedDropOpen
  <1>8. CASE /\ ~ SumOf(index, SourceBytes) > IndexBudget /\ sources' = index
             /\ at = pending.length /\ operations' = Without(operations, {op})
             /\ done' = IF CanComplete(cursor) THEN done \cup {pending.source} ELSE done
             /\ UNCHANGED <<lengths, decoders>>
    <2>1. Seen(pending.source, at) BY <1>6, <1>8
    <2>2. pending.cursor.revision < MaxSafeInteger BY ScanCompletes DEF pending
    <2>3. CanComplete(cursor) BY <1>2, <2>2 DEF CanComplete, NextRevisionFits
    <2>4. done' = done \cup {operations[op].source} BY <1>8, <2>3 DEF pending
    <2>5. Seen(operations[op].source, operations[op].length)
      <3>1. at = pending.length BY <1>8
      <3>2. QED BY ONLY <2>1, <3>1 DEF pending
    <2>6. UNCHANGED <<owners, lengths, decoders, next>> /\ operations' = Without(operations, {op})
      BY <1>4, <1>8
    <2>7. QED BY ONLY Typed, Delimited, Plain, op \in Opens, <2>4, <2>5, <2>6, DelimitedCompletes
  <1>9. CASE /\ ~ SumOf(index, SourceBytes) > IndexBudget /\ sources' = index
             /\ at # pending.length
             /\ operations' = [operations EXCEPT ![op].at = at, ![op].cursor = c]
             /\ UNCHANGED <<lengths, decoders, done>>
    <2>1. Seen(o.source, o.at)
      <3>1. Seen(pending.source, at) BY <1>6, <1>9
      <3>2. QED BY ONLY <1>2, <3>1
    <2>2. ScanPace(o)
      <3>1. /\ pending.cursor.revision <= pending.at + 1
            /\ ChunkBytes > 1 => 2 * pending.cursor.revision <= pending.at + 2
        BY <1>3 DEF ScanPace
      <3>2. ChunkBytes \in Nat /\ ChunkBytes > 0 /\ at = pending.at + ChunkBytes
        BY <1>2, <1>9, ScanAssumption
      <3>3. /\ at < pending.length
            /\ pending.cursor.revision + 1 <= at + 1
            /\ ChunkBytes > 1 => 2 * (pending.cursor.revision + 1) <= at + 2
        BY <1>2, <1>9, <3>1, <3>2
      <3>4. QED BY <1>2, <3>3 DEF ScanPace
    <2>3. /\ o \in OperationRecords /\ operations' = [operations EXCEPT ![op] = o]
          /\ o.kind = "open" /\ o.source = operations[op].source
          /\ o.range = operations[op].range /\ o.length = operations[op].length
          /\ o.at <= o.length /\ o.cursor.revision >= 1
          /\ o.cursor.awaiting /\ o.cursor.outstanding = ReadAction(o.at, o.length)
      BY <1>1, <1>2, <1>9 DEF pending
    <2>4. UNCHANGED <<owners, lengths, decoders, next, done>> BY <1>4, <1>9
    <2>5. o.at > 0 BY <1>2, <1>9, ScanAssumption
    <2>6. QED BY ONLY Typed, Delimited, Plain, op \in Opens, <2>1, <2>2, <2>3, <2>4, <2>5,
             DelimitedScans
  <1>10. QED BY <1>5, <1>7, <1>8, <1>9

LEMMA AdvanceRangeKeeps ==
  ASSUME Typed, Delimited, Plain, UNCHANGED <<owners, next>>,
         NEW op \in DOMAIN operations, op \notin Opens, AdvanceRange(op)
  PROVE  Typed' /\ Delimited'
  <1> DEFINE pending == operations[op]
             cursor == ConsumeResults(pending.cursor)
             at == NextOffset(pending)
             c == Issue(cursor, ReadAction(at, pending.length))
             o == [pending EXCEPT !.at = at, !.cursor = c]
  <1>1. op \in DOMAIN operations /\ pending.kind = "read" BY DEF Opens, Delimited, Scans
  <1>2. /\ at <= pending.length
        /\ o \in OperationRecords /\ o.kind = pending.kind /\ o.source = pending.source
        /\ o.range = pending.range /\ o.length = pending.length /\ o.at = at
        /\ o.cursor.revision >= 1
        /\ o.cursor.awaiting /\ o.cursor.outstanding = ReadAction(at, pending.length)
        /\ [operations EXCEPT ![op].at = at, ![op].cursor = c] = [operations EXCEPT ![op] = o]
    BY ONLY Typed, Delimited, <1>1, NextStepIs, ZenonT(30)
  <1>3. \/ DropRead(op)
        \/ /\ operations' = [operations EXCEPT ![op].at = at, ![op].cursor = c]
           /\ UNCHANGED <<sources, lengths, decoders, done>>
    BY DEF AdvanceRange
  <1>4. UNCHANGED <<owners, next>> OBVIOUS
  <1> HIDE DEF cursor, at, c, o
  <1>5. CASE DropRead(op) BY <1>4, <1>5, DelimitedDropRead
  <1>6. CASE /\ operations' = [operations EXCEPT ![op].at = at, ![op].cursor = c]
             /\ UNCHANGED <<sources, lengths, decoders, done>>
    <2>1. /\ operations' = [operations EXCEPT ![op] = o] /\ o.kind = "read"
          /\ o.source = operations[op].source
          /\ o.range = operations[op].range /\ o.length = operations[op].length
          /\ o.at <= o.length /\ o.cursor.outstanding = ReadAction(o.at, o.length)
      BY <1>1, <1>2, <1>6
    <2>2. UNCHANGED <<owners, sources, lengths, decoders, next, done>> BY <1>4, <1>6
    <2>3. QED BY ONLY Typed, Delimited, Plain, <1>1, <1>2, <2>1, <2>2, DelimitedFeeds
  <1>7. QED BY <1>3, <1>5, <1>6

LEMMA DelimitedOpensTable ==
  ASSUME Typed, Delimited, Plain, NEW source, DelimitedOpenTable(source)
  PROVE  Typed' /\ Delimited'
  <1> DEFINE t == next.table
             v == [book |-> None, source |-> source]
  <1>1. /\ UNCHANGED <<operations, sources, lengths, decoders, done>>
        /\ source \in DOMAIN sources /\ owners' = With(owners, t, v)
        /\ next' = [next EXCEPT !.operation = @ + 1, !.table = @ + 1]
    BY DEF DelimitedOpenTable
  <1>2. v \in OwnerRecords
    <2>1. source \in Nat BY <1>1, TypedFacts
    <2>2. QED BY <2>1 DEF OwnerRecords, None
  <1>3. owners \in [DOMAIN owners -> OwnerRecords] /\ DOMAIN owners \subseteq Nat
    BY DEF Delimited, Typed
  <1>4. next \in Counters /\ next.operation \in Nat /\ next.handle \in Nat /\ t \in Nat
        /\ next.book \in Nat /\ next.book > 0
    BY TypedMaps DEF Typed
  <1>5. next' = [operation |-> next.operation + 1, handle |-> next.handle,
                 table |-> t + 1, book |-> next.book]
    BY <1>1, <1>4 DEF Counters
  <1> HIDE DEF t, v
  <1>6. OwnersTyped' BY ONLY <1>1, <1>2, <1>3, <1>4 DEF With, OwnersTyped
  <1>7. /\ next' \in Counters /\ next'.operation >= next.operation /\ next'.handle >= next.handle
        /\ next'.table > 0 /\ next'.book > 0
    BY ONLY <1>4, <1>5 DEF Counters
  <1>8. QED BY ONLY Typed, Delimited, Plain, <1>1, <1>6, <1>7, DelimitedIdle

\* Nothing but a pair of handles was used up.
LEMMA DelimitedSpends ==
  ASSUME Typed, Delimited, Plain,
         UNCHANGED <<operations, owners, sources, lengths, decoders, done>>,
         next' = [next EXCEPT !.operation = @ + 1, !.handle = @ + 1]
  PROVE  Typed' /\ Delimited'
  <1>1. next' = [next EXCEPT !.operation = @ + 1, !.handle = @ + 1] OBVIOUS
  <1>2. CountersGrow BY ONLY Typed, <1>1, CountersTake
  <1>3. /\ next' \in Counters /\ next'.operation >= next.operation /\ next'.handle >= next.handle
        /\ next'.table > 0 /\ next'.book > 0
    BY <1>2, CountersGrowFacts DEF CountersGrow
  <1>4. UNCHANGED <<operations, sources, lengths, decoders, done>>
        /\ OwnersTyped'
    BY DEF Delimited, OwnersTyped, Typed
  <1>5. QED BY ONLY Typed, Delimited, Plain, <1>3, <1>4, DelimitedIdle

LEMMA DelimitedCloses ==
  ASSUME Typed, Delimited, Plain, NEW source, DelimitedCloseSource(source)
  PROVE  Typed' /\ Delimited'
  <1> DEFINE S == WorkOn(source)
             T == {source}
             D == {r \in DOMAIN decoders : decoders[r] = source}
  <1>1. /\ operations' = Without(operations, S) /\ sources' = Without(sources, T)
        /\ lengths' = Without(lengths, T) /\ decoders' = Without(decoders, D)
        /\ UNCHANGED <<next, done>> /\ owners' = Without(owners, OwnedBy(source))
    BY DEF DelimitedCloseSource, CloseScanner
  <1>2. OwnersTyped' BY <1>1 DEF Delimited, OwnersTyped, Typed, Without, Restrict
  <1>3. /\ \A op \in Opens : op \in S <=> operations[op].source \in T
        /\ \A r \in DOMAIN decoders : decoders[r] \in T => r \in D
    BY DEF WorkOn, Opens
  <1>4. ASSUME NEW op \in DOMAIN operations, op \in S, operations[op].range \in DOMAIN decoders
        PROVE  operations[op].range \in D
    <2> DEFINE r == operations[op].range
    <2>1. PICK x \in DOMAIN operations :
             operations[x].range = r /\ operations[x].source = decoders[r]
      BY <1>4 DEF Delimited, Decoding
    <2>2. r # None BY <1>4, TypedMaps, MapFinite DEF None
    <2>3. x = op BY <2>1, <2>2 DEF Delimited, Decoding
    <2>4. QED BY <1>4, <2>1, <2>3 DEF WorkOn
  <1>5. \A op \in DOMAIN operations :
           op \in S /\ operations[op].kind = "read" /\ operations[op].range \in DOMAIN decoders
              => operations[op].range \in D
    BY <1>4
  <1> HIDE DEF S, T, D
  <1>6. QED BY ONLY Typed, Delimited, Plain, <1>1, <1>2, <1>3, <1>5, DelimitedForget

LEMMA DelimitedKeeps ==
  ASSUME Typed, Delimited, DelimitedNext PROVE Typed' /\ Delimited'
  <1>1. format = "delimited" /\ UNCHANGED <<format, books, ledger>> BY DEF DelimitedNext
  <1>2. ASSUME NEW length \in Lengths, DelimitedBeginOpen(length) PROVE Typed' /\ Delimited'
    <2>1. /\ UNCHANGED <<owners, decoders, done>> /\ Plain
          /\ next' = [next EXCEPT !.operation = @ + 1, !.handle = @ + 1]
          /\ \/ UNCHANGED <<operations, sources, lengths>>
             \/ /\ operations' = With(operations, next.operation,
                                      Operation("open", next.handle, None, length,
                                                Issue(NewCursor, ReadAction(0, length))))
                /\ sources' = With(sources, next.handle,
                                   [bytes |-> ScannerBytes, stream |-> TRUE, seen |-> 0])
                /\ lengths' = With(lengths, next.handle, length)
      BY <1>1, <1>2 DEF DelimitedBeginOpen, Plain
    <2>2. CASE UNCHANGED <<operations, sources, lengths>>
      <3>1. UNCHANGED <<operations, owners, sources, lengths, decoders, done>> BY <2>1, <2>2
      <3>2. QED BY ONLY Typed, Delimited, <2>1, <3>1, DelimitedSpends
    <2>3. CASE ~ UNCHANGED <<operations, sources, lengths>>
      <3>1. /\ operations' = With(operations, next.operation,
                                  Operation("open", next.handle, None, length,
                                            Issue(NewCursor, ReadAction(0, length))))
            /\ sources' = With(sources, next.handle,
                               [bytes |-> ScannerBytes, stream |-> TRUE, seen |-> 0])
            /\ lengths' = With(lengths, next.handle, length)
        BY <2>1, <2>3
      <3>2. QED BY ONLY Typed, Delimited, length \in Lengths, <2>1, <3>1, DelimitedOpens
    <2>4. QED BY <2>2, <2>3
  <1>3. \A op \in DOMAIN operations :
           /\ operations[op].kind = "open" <=> op \in Opens
           /\ operations[op].kind = "open" \/ operations[op].kind = "read"
           /\ operations[op].kind # "open" \/ operations[op].kind # "read"
    BY DEF Opens, Delimited, Scans
  <1>4. ASSUME NEW op \in DOMAIN operations, DelimitedCancel(op) PROVE Typed' /\ Delimited'
    <2>1. Plain /\ UNCHANGED <<owners, next>> BY <1>1, <1>4 DEF DelimitedCancel, Plain
    <2>2. CASE op \in Opens
      <3>1. DropOpen(op) BY <1>3, <1>4, <2>2 DEF DelimitedCancel
      <3>2. QED BY ONLY Typed, Delimited, <2>1, <2>2, <3>1, DelimitedDropOpen
    <2>3. CASE op \notin Opens
      <3>1. DropRead(op) BY <1>3, <1>4, <2>3 DEF DelimitedCancel
      <3>2. QED BY ONLY Typed, Delimited, op \in DOMAIN operations, <2>1, <2>3, <3>1, DelimitedDropRead
    <2>4. QED BY <2>2, <2>3
  <1>5. ASSUME NEW op \in DOMAIN operations, NEW revision, NEW results,
               DelimitedContinue(op, revision, results)
        PROVE  Typed' /\ Delimited'
    <2>1. Plain /\ UNCHANGED <<owners, next>> BY <1>1, <1>5 DEF DelimitedContinue, Plain
    <2>2. CASE op \in Opens
      <3>1. DropOpen(op) \/ \E growth \in Weights : AdvanceScan(op, growth)
        BY <1>3, <1>5, <2>2 DEF DelimitedContinue
      <3>2. CASE DropOpen(op) BY ONLY Typed, Delimited, <2>1, <2>2, <3>2, DelimitedDropOpen
      <3>3. ASSUME NEW growth \in Weights, AdvanceScan(op, growth) PROVE Typed' /\ Delimited'
        <4>1. growth \in Nat BY RegistryAssumption
        <4>2. QED BY ONLY Typed, Delimited, <2>1, <2>2, <3>3, <4>1, AdvanceScanKeeps
      <3>4. QED BY <3>1, <3>2, <3>3
    <2>3. CASE op \notin Opens
      <3>1. AdvanceRange(op) \/ DropRead(op)
        BY <1>3, <1>5, <2>3 DEF DelimitedContinue
      <3>2. CASE DropRead(op)
        BY ONLY Typed, Delimited, op \in DOMAIN operations, <2>1, <2>3, <3>2, DelimitedDropRead
      <3>3. CASE AdvanceRange(op)
        BY ONLY Typed, Delimited, op \in DOMAIN operations, <2>1, <2>3, <3>3, AdvanceRangeKeeps
      <3>4. QED BY <3>1, <3>2, <3>3
    <2>4. QED BY <2>2, <2>3
  <1>6. ASSUME NEW source, DelimitedOpenTable(source) PROVE Typed' /\ Delimited'
    <2>1. Plain BY <1>1, <1>6 DEF DelimitedOpenTable, Plain
    <2>2. QED BY <1>6, <2>1, DelimitedOpensTable
  <1>7. ASSUME NEW source, DelimitedCloseSource(source) PROVE Typed' /\ Delimited'
    <2>1. Plain BY <1>1, <1>7 DEF DelimitedCloseSource, Plain
    <2>2. QED BY <1>7, <2>1, DelimitedCloses
  <1>8. ASSUME NEW table \in DOMAIN owners, DelimitedCloseTable(table) PROVE Typed' /\ Delimited'
    <2> DEFINE S == ReadsOf(table)
               D == {operations[op].range : op \in S}
    <2>1. /\ Plain /\ UNCHANGED <<sources, lengths, next, done>>
          /\ operations' = Without(operations, S) /\ decoders' = Without(decoders, D)
          /\ owners' = Without(owners, {table})
      BY <1>1, <1>8 DEF DelimitedCloseTable, Plain
    <2>2. OwnersTyped' BY <2>1 DEF Delimited, OwnersTyped, Typed, Without, Restrict
    <2>3. /\ \A op \in Opens : op \notin S
          /\ \A op \in DOMAIN operations : op \in S => operations[op].range \in D
      BY DEF Opens, ReadsOf
    <2> HIDE DEF S, D
    <2>4. QED BY ONLY Typed, Delimited, <2>1, <2>2, <2>3, DelimitedDropReads
  <1>9. ASSUME NEW table \in DOMAIN owners, NEW at \in 0 .. lengths[owners[table].source],
               owners[table].source \in DOMAIN lengths, DelimitedBeginRead(table, at)
        PROVE  Typed' /\ Delimited'
    <2> DEFINE source == owners[table].source
    <2>1. /\ Plain /\ UNCHANGED <<owners, sources, lengths, done>>
          /\ source \in DOMAIN lengths \cap DOMAIN sources
          /\ next' = [next EXCEPT !.operation = @ + 1, !.handle = @ + 1]
          /\ \/ UNCHANGED <<operations, decoders>>
             \/ /\ operations' = With(operations, next.operation,
                                      [Operation("read", source, table, lengths[source],
                                                 Issue(NewCursor, ReadAction(at, lengths[source])))
                                         EXCEPT !.range = next.handle, !.at = at])
                /\ decoders' = With(decoders, next.handle, source)
      BY <1>1, <1>9 DEF DelimitedBeginRead, Plain
    <2>2. lengths[source] \in Nat BY <2>1, LengthsNat DEF Delimited, Scanned
    <2>3. at \in Nat /\ at <= lengths[source] /\ table \in Nat BY <2>2 DEF Delimited
    <2>4. CASE UNCHANGED <<operations, decoders>>
      <3>1. UNCHANGED <<operations, owners, sources, lengths, decoders, done>> BY <2>1, <2>4
      <3>2. QED BY ONLY Typed, Delimited, <2>1, <3>1, DelimitedSpends
    <2>5. CASE ~ UNCHANGED <<operations, decoders>>
      <3>1. /\ operations' = With(operations, next.operation,
                                  [Operation("read", source, table, lengths[source],
                                             Issue(NewCursor, ReadAction(at, lengths[source])))
                                     EXCEPT !.range = next.handle, !.at = at])
            /\ decoders' = With(decoders, next.handle, source)
        BY <2>1, <2>5
      <3> HIDE DEF source
      <3>2. source \in DOMAIN lengths \cap DOMAIN sources BY <2>1
      <3>3. QED BY ONLY Typed, Delimited, <2>1, <2>3, <3>1, <3>2, DelimitedReads, ZenonT(30)
    <2>6. QED BY <2>4, <2>5
  <1>10. QED BY <1>2, <1>4, <1>5, <1>6, <1>7, <1>8, <1>9 DEF DelimitedNext

-----------------------------------------------------------------------------
(* All four artifacts.                                                     *)

\* A ledger takes two replacements in a row.
LEMMA SnapshotKeepsLedger ==
  ASSUME Typed, Sound(ledger), RetainedBytes \in Nat, ResourceSnapshot
  PROVE  Sound(ledger')
  <1> DEFINE persistent == Replace(ledger, "persistent", RetainedBytes)
             both == Replace(persistent.ledger, "active", ActiveBytes)
  <1>1. ActiveBytes \in Nat
    <2>1. IsFiniteSet(DOMAIN operations) BY TypedMaps, MapFinite
    <2>2. Cardinality(DOMAIN operations) \in Nat BY <2>1, FS_CardinalityType
    <2>3. QED BY <2>2, RegistryAssumption DEF ActiveBytes
  <1>2. /\ "persistent" \in Categories /\ "persistent" \in OwnedCategories
        /\ "active" \in Categories /\ "active" \in OwnedCategories
    BY DEF Categories, OwnedCategories
  <1>3. ledger' = persistent.ledger \/ ledger' = both.ledger BY DEF ResourceSnapshot
  <1> DEFINE bytes == RetainedBytes
             work == ActiveBytes
             first == "persistent"
             second == "active"
             old == ledger
  <1>4. Sound(persistent.ledger)
    <2>1. bytes \in Nat /\ first \in Categories /\ first \in OwnedCategories /\ Sound(old)
      BY <1>2
    <2> HIDE DEF bytes, first, old
    <2>2. Sound(Replace(old, first, bytes).ledger) BY ONLY <2>1, ReplaceIsSound
    <2>3. QED BY <2>2 DEF bytes, first, old
  <1> HIDE DEF persistent
  <1>5. Sound(both.ledger)
    <2>1. work \in Nat /\ second \in Categories /\ second \in OwnedCategories BY <1>1, <1>2
    <2> HIDE DEF work, second
    <2>2. Sound(Replace(persistent.ledger, second, work).ledger)
      BY ONLY <1>4, <2>1, ReplaceIsSound
    <2>3. QED BY <2>2 DEF work, second
  <1>6. QED BY <1>3, <1>4, <1>5

\* What a snapshot reports is a number of bytes.
LEMMA RetainedIsNat ==
  ASSUME IInv PROVE RetainedBytes \in Nat
  <1>1. Typed BY DEF IInv
  <1>2. Weighted(sources) /\ Weighted(tables) /\ Weighted(books) BY <1>1, TypedFacts
  <1>3. SumOf(sources, SourceBytes) \in Nat BY <1>2, WeighIsSum, Zenon
  <1>4. SumOf(books, SourceBytes) \in Nat BY <1>2, WeighIsSum, Zenon
  <1>5. format # "delimited" => retained \in Nat
    <2>1. Weigh(sources) \in Nat /\ Weigh(tables) \in Nat BY <1>2, WeighIsSum
    <2>2. format # "delimited" => Charged BY DEF IInv, Columnar, Columns, Workbooks, Shelves
    <2>3. QED BY <2>1, <2>2 DEF Charged
  <1>6. format = "delimited" => RetainedBytes = SumOf(sources, SourceBytes) BY Zenon DEF RetainedBytes
  <1>7. format = "excel" => RetainedBytes = retained + SumOf(books, SourceBytes)
    BY Zenon DEF RetainedBytes
  <1>8. format # "delimited" /\ format # "excel" => RetainedBytes = retained BY Zenon DEF RetainedBytes
  <1> DEFINE bytes == RetainedBytes
             shelves == SumOf(books, SourceBytes)
             held == SumOf(sources, SourceBytes)
  <1>9. /\ held \in Nat /\ shelves \in Nat
        /\ format = "delimited" => bytes = held
        /\ format = "excel" => bytes = retained + shelves
        /\ format # "delimited" /\ format # "excel" => bytes = retained
    BY <1>3, <1>4, <1>6, <1>7, <1>8, Zenon
  <1> HIDE DEF bytes, shelves, held
  <1>10. bytes \in Nat BY <1>5, <1>9
  <1>11. QED BY <1>10 DEF bytes

\* An empty registry, whatever was in it before.
Vacant ==
    /\ operations = Empty /\ owners = Empty /\ sources = Empty /\ tables = Empty
    /\ retained = 0 /\ lengths = Empty /\ decoders = Empty /\ books = Empty

Numbered ==
    /\ next \in Counters
    /\ next.operation > 0 /\ next.handle > 0 /\ next.table > 0 /\ next.book > 0

LEMMA VacantIsTyped == Vacant /\ Numbered => Typed
  <1> SUFFICES ASSUME Vacant, Numbered PROVE Typed OBVIOUS
  <1>1. DOMAIN Empty = {} BY MapEmpty
  <1>2. owners \in [DOMAIN owners -> OwnerRecords] BY <1>1 DEF Vacant, Empty
  <1>3. \A op \in DOMAIN operations : operations[op].cursor.revision >= 1 BY <1>1 DEF Vacant
  <1>4. QED BY <1>2, <1>3, MapEmpty DEF Typed, Vacant, Numbered

Completed == \A s \in done : s \in Nat /\ s < next.handle

LEMMA VacantKeeps == Vacant => (Completed => Delimited) /\ Columnar /\ Workbooks
  <1> SUFFICES ASSUME Vacant PROVE (Completed => Delimited) /\ Columnar /\ Workbooks OBVIOUS
  <1>1. DOMAIN Empty = {} BY MapEmpty
  <1>2. Weigh(Empty) = 0 /\ Weigh(sources) = 0 /\ Weigh(tables) = 0
    BY WeighEmpty DEF Vacant
  <1>3. Opens = {} BY <1>1 DEF Opens, Vacant
  <1>4. Charged BY <1>2, LedgerAssumption DEF Charged, Vacant
  <1> DEFINE fed == Without(sources, Unfed)
  <1>13. Metered
    <2>1. Unfed = {} /\ fed = Empty BY <1>1 DEF Vacant, Unfed, Without, Restrict, Empty
    <2> HIDE DEF fed
    <2>2. QED BY <1>2, <2>1, IndexAssumption DEF Metered, fed
  <1>5. Scans BY <1>1, <1>3 DEF Scans, Vacant
  <1>6. Decoding BY <1>1 DEF Decoding, Vacant
  <1>7. Completed => Scanned BY <1>1, <1>4 DEF Completed, Scanned, Vacant
  <1>8. Columns BY <1>1, <1>4 DEF Columns, Vacant
  <1>9. Working BY <1>1, <1>3 DEF Working, Vacant
  <1>10. Answered BY <1>1 DEF Answered, Vacant
  <1>11. Shelves BY <1>1, <1>4 DEF Shelves, Vacant
  <1>12. QED BY <1>1, <1>5, <1>6, <1>7, <1>8, <1>9, <1>10, <1>11, <1>13
         DEF Delimited, Columnar, Workbooks, Vacant

LEMMA InitIInv == Init => IInv
  <1> SUFFICES ASSUME Init PROVE IInv OBVIOUS
  <1>1. Vacant BY DEF Init, Vacant
  <1>2. Numbered BY DEF Init, Counters, Numbered
  <1>3. Typed BY <1>1, <1>2, VacantIsTyped
  <1>4. Sound(ledger)
    <2>1. Nothing \in Charges /\ OwnedBytes(Nothing) = 0
      BY LedgerAssumption DEF Nothing, Charges, OwnedBytes, Categories, OwnedCategories
    <2>2. 0 \in 0 .. MaxU64 /\ 0 <= 0 /\ 0 <= BudgetBytes BY LedgerAssumption
    <2>3. Sound(EmptyLedger) BY <2>1, <2>2, SoundParts DEF EmptyLedger
    <2>4. QED BY <2>3 DEF Init, LedgerInit
  <1>5. Completed BY DEF Init, Completed
  <1>6. format \in {"delimited", "arrow", "parquet", "excel"} BY FormatAssumption DEF Init
  <1>7. QED BY <1>1, <1>3, <1>4, <1>5, <1>6, VacantKeeps DEF IInv

LEMMA NextIInv == IInv /\ [Next]_registry => IInv'
  <1> SUFFICES ASSUME IInv, [Next]_registry PROVE IInv' OBVIOUS
  <1>1. Typed /\ Sound(ledger) BY DEF IInv
  <1>2. CASE DelimitedNext
    <2>1. format = "delimited" /\ UNCHANGED <<format, ledger>> BY <1>2 DEF DelimitedNext
    <2>2. Delimited BY <2>1 DEF IInv
    <2>3. Typed' /\ Delimited' BY <1>1, <1>2, <2>2, DelimitedKeeps
    <2>4. QED BY <1>1, <2>1, <2>3 DEF IInv
  <1>3. CASE ArrowNext
    <2>1. format = "arrow" /\ UNCHANGED <<format, ledger>> BY <1>3 DEF ArrowNext
    <2>2. Columnar BY <2>1 DEF IInv
    <2>3. Typed' /\ Columnar' BY <1>1, <1>3, <2>2, ArrowKeeps
    <2>4. QED BY <1>1, <2>1, <2>3 DEF IInv
  <1>4. CASE ParquetNext
    <2>1. format = "parquet" /\ UNCHANGED <<format, ledger>> BY <1>4 DEF ParquetNext
    <2>2. Columnar BY <2>1 DEF IInv
    <2>3. Typed' /\ Columnar' BY <1>1, <1>4, <2>2, ParquetKeeps
    <2>4. QED BY <1>1, <2>1, <2>3 DEF IInv
  <1>5. CASE ExcelNext
    <2>1. format = "excel" /\ UNCHANGED <<format, ledger>> BY <1>5 DEF ExcelNext
    <2>2. Workbooks BY <2>1 DEF IInv
    <2>3. Typed' /\ Workbooks' BY <1>1, <1>5, <2>2, ExcelKeeps
    <2>4. QED BY <1>1, <2>1, <2>3 DEF IInv
  <1>6. ASSUME UNCHANGED <<format, operations, owners, sources, tables, retained, lengths,
                          decoders, books, next, done>>, Sound(ledger')
        PROVE  IInv'
    <2>1. Typed' BY <1>1, <1>6 DEF Typed
    <2>2. Opens' = Opens BY <1>6 DEF Opens
    <2>3. Charged' = Charged BY <1>6 DEF Charged
    <2>4. Delimited => Delimited'
      BY <1>6, <2>2 DEF Delimited, Scans, ScanPace, Decoding, Scanned, Metered, Unfed
    <2>5. Columnar => Columnar' BY <1>6, <2>2, <2>3 DEF Columnar, Columns, Working
    <2>6. Workbooks => Workbooks' BY <1>6, <2>3 DEF Workbooks, Answered, Shelves
    <2>7. QED BY <1>6, <2>1, <2>4, <2>5, <2>6 DEF IInv
  <1>7. CASE Snapshot
    <2>1. Sound(ledger') BY <1>1, <1>7, RetainedIsNat, SnapshotKeepsLedger DEF Snapshot
    <2>2. UNCHANGED <<format, operations, owners, sources, tables, retained, lengths,
                      decoders, books, next, done>>
      BY <1>7 DEF Snapshot, engine
    <2>3. QED BY <1>6, <2>1, <2>2
  <1>8. CASE Shutdown
    <2>1. Vacant' /\ UNCHANGED <<format, next, done>> BY <1>8 DEF Shutdown, ShutdownState, Vacant
    <2>2. Sound(ledger') BY <1>1, <1>8, ReleaseAllIsSound DEF Shutdown, ShutdownState
    <2>3. Numbered' /\ (Completed => Completed')
      BY <1>1, <2>1 DEF Typed, Numbered, Completed
    <2>4. /\ Vacant' /\ Numbered' => Typed'
          /\ Vacant' => (Completed' => Delimited') /\ Columnar' /\ Workbooks'
      BY VacantIsTyped, VacantKeeps, PTL
    <2>5. format = "delimited" => Completed
      BY DEF IInv, Delimited, Scanned, Completed
    <2>6. QED BY <2>1, <2>2, <2>3, <2>4, <2>5 DEF IInv
  <1>9. CASE UNCHANGED registry
    <2>1. UNCHANGED <<format, operations, owners, sources, tables, retained, lengths,
                      decoders, books, next, done>> /\ Sound(ledger')
      BY <1>1, <1>9 DEF registry, engine
    <2>2. QED BY <1>6, <2>1
  <1>10. QED BY <1>2, <1>3, <1>4, <1>5, <1>7, <1>8, <1>9 DEF Next

-----------------------------------------------------------------------------
(* What the invariant says of the properties that the runs check.          *)
LEMMA IInvRegistry == IInv => RegistryInv
  <1> SUFFICES ASSUME IInv PROVE RegistryInv OBVIOUS
  <1>1. Typed BY DEF IInv
  <1>2. \A op \in DOMAIN operations :
           /\ op < next.operation /\ operations[op].cursor.revision >= 1
           /\ operations[op].cursor.awaiting \in BOOLEAN
    BY <1>1, TypedFacts, OperationFields DEF Typed
  <1>3. \A h \in DOMAIN sources \cup DOMAIN tables \cup DOMAIN decoders : h < next.handle
    BY <1>1, TypedMaps, MapFinite
  <1>4. CASE format = "delimited"
    <2>1. Scans /\ Scanned /\ tables = Empty BY <1>4 DEF IInv, Delimited
    <2>2. \A op \in DOMAIN operations :
             LET o == operations[op]
             IN  /\ o.cursor.awaiting /\ o.cursor.outstanding = ReadAction(o.at, o.length)
                 /\ o.kind = "open" => o.at = sources[o.source].seen
      BY <2>1 DEF Scans, Opens
    <2>3. DOMAIN tables = {} BY <2>1, MapEmpty
    <2>4. /\ \A s \in DOMAIN lengths \cap done : sources[s].seen = lengths[s]
          /\ DOMAIN sources \cap (DOMAIN tables \cup DOMAIN decoders) = {}
      BY <2>1, <2>3 DEF Scanned
    <2>5. QED BY <1>2, <1>3, <2>2, <2>4 DEF RegistryInv
  <1>5. CASE format \in {"arrow", "parquet"}
    <2>1. Columns /\ Working BY <1>5 DEF IInv, Columnar
    <2>2. DOMAIN lengths = {} /\ DOMAIN decoders = {} BY <2>1, MapEmpty DEF Columns
    <2>3. DOMAIN sources \cap DOMAIN tables = {} BY <2>1 DEF Columns
    <2>4. \A op \in DOMAIN operations : operations[op].cursor.awaiting BY <2>1 DEF Working
    <2>5. QED BY <1>2, <1>3, <1>5, <2>2, <2>3, <2>4 DEF RegistryInv
  <1>6. CASE format = "excel"
    <2>1. Answered /\ Shelves BY <1>6 DEF IInv, Workbooks
    <2>2. DOMAIN lengths = {} /\ DOMAIN decoders = {} BY <2>1, MapEmpty DEF Shelves
    <2>3. DOMAIN sources \cap DOMAIN tables = {} BY <2>1 DEF Shelves
    <2>4. \A op \in DOMAIN operations :
             ~operations[op].cursor.awaiting => operations[op].cursor.outstanding = << >>
      BY <2>1 DEF Answered
    <2>5. QED BY <1>2, <1>3, <1>6, <2>2, <2>3, <2>4 DEF RegistryInv
  <1>7. QED BY <1>4, <1>5, <1>6 DEF IInv

LEMMA IInvOwners == IInv => NoOrphans
  <1> SUFFICES ASSUME IInv PROVE NoOrphans OBVIOUS
  <1>1. Typed BY DEF IInv
  <1>2. CASE format = "delimited"
    <2>1. Scans /\ Decoding /\ Scanned BY <1>2 DEF IInv, Delimited
    <2>2. ASSUME NEW r \in DOMAIN decoders
          PROVE  /\ decoders[r] \in DOMAIN sources
                 /\ Cardinality({op \in DOMAIN operations : operations[op].range = r}) = 1
      <3>1. r # None BY <1>1, TypedMaps, MapFinite DEF None
      <3>2. PICK op \in DOMAIN operations : operations[op].range = r BY <2>1 DEF Decoding
      <3>3. {x \in DOMAIN operations : operations[x].range = r} = {op}
        BY <2>1, <3>1, <3>2 DEF Decoding
      <3>4. QED BY <2>1, <3>3, FS_Singleton DEF Decoding
    <2>3. \A op \in DOMAIN operations :
             operations[op].kind = "open" => operations[op].source \in DOMAIN sources
      BY <2>1 DEF Scans, Opens
    <2>4. OwnersLive BY <1>2, <2>1, <2>2, <2>3 DEF OwnersLive, Scanned
    <2>5. SourcesReachable BY <1>2, <2>1 DEF SourcesReachable, HostSources, Scanned, Opens
    <2>6. QED BY <2>4, <2>5 DEF NoOrphans
  <1>3. CASE format \in {"arrow", "parquet"}
    <2>1. Columns /\ Working BY <1>3 DEF IInv, Columnar
    <2>2. /\ DOMAIN owners = DOMAIN tables
          /\ \A t \in DOMAIN tables :
                tables[t].source = owners[t].source /\ tables[t].source \in DOMAIN sources
      BY <2>1 DEF Columns
    <2>3. ASSUME NEW op \in DOMAIN operations
          PROVE  /\ operations[op].source \in DOMAIN sources \cup {None}
                 /\ operations[op].kind = "read" => operations[op].table \in DOMAIN tables
      <3>1. CASE operations[op].kind = "open" BY <2>1, <3>1 DEF Working
      <3>2. CASE operations[op].kind = "read" BY <2>1, <2>2, <3>2 DEF Working
      <3>3. QED BY <2>1, <3>1, <3>2 DEF Working
    <2>4. OwnersLive BY <1>3, <2>2, <2>3 DEF OwnersLive
    <2>5. SourcesReachable BY <1>3, <2>1 DEF SourcesReachable, HostSources, Working, Opens
    <2>6. QED BY <2>4, <2>5 DEF NoOrphans
  <1>4. CASE format = "excel"
    <2>1. Shelves BY <1>4 DEF IInv, Workbooks
    <2>2. /\ DOMAIN owners = DOMAIN tables
          /\ \A t \in DOMAIN tables :
                /\ tables[t].source = owners[t].source /\ owners[t].book \in DOMAIN books
                /\ owners[t].source \in books[owners[t].book].inner
      BY <2>1 DEF Shelves
    <2>3. DOMAIN sources = UNION {books[b].inner : b \in DOMAIN books}
      <3>1. \A b \in DOMAIN books : books[b].inner \subseteq DOMAIN sources BY <2>1 DEF Shelves
      <3>2. \A s \in DOMAIN sources : \E b \in DOMAIN books : s \in books[b].inner
        BY <2>1, <2>2 DEF Shelves
      <3>3. QED BY <3>1, <3>2
    <2>4. ASSUME NEW s \in DOMAIN sources PROVE Cardinality(TablesOf(s)) = 1
      <3>1. PICK t \in DOMAIN tables : tables[t].source = s BY <2>1 DEF Shelves
      <3>2. TablesOf(s) = {t} BY <2>1, <3>1 DEF Shelves, TablesOf
      <3>3. QED BY <3>2, FS_Singleton
    <2>5. OwnersLive BY <1>4, <2>2, <2>3, <2>4 DEF OwnersLive
    <2>6. SourcesReachable BY <1>4, <2>1 DEF SourcesReachable, HostSources, Shelves
    <2>7. QED BY <2>5, <2>6 DEF NoOrphans
  <1>5. QED BY <1>2, <1>3, <1>4 DEF IInv

LEMMA IInvRetained == IInv => RetainedExact
  <1> SUFFICES ASSUME IInv PROVE RetainedExact OBVIOUS
  <1>1. Weighted(sources) /\ Weighted(tables)
    BY TypedFacts DEF IInv
  <1>2. SumOf(sources, SourceBytes) = Weigh(sources) BY <1>1, WeighIsSum, Zenon
  <1>3. SumOf(tables, TableBytes) = Weigh(tables) BY <1>1, WeighIsSum, Zenon
  <1>4. format # "delimited" => Charged BY DEF IInv, Columnar, Columns, Workbooks, Shelves
  <1> DEFINE fed == Without(sources, Unfed)
  <1>5. format = "delimited" => Metered /\ retained = 0 BY DEF IInv, Delimited
  <1>6. 0 <= BudgetBytes BY LedgerAssumption
  <1>7. format # "delimited" =>
           retained = SumOf(sources, SourceBytes) + SumOf(tables, TableBytes)
    BY <1>2, <1>3, <1>4, Zenon DEF Charged
  <1>8. format = "delimited" => /\ SumOf(fed, SourceBytes) <= IndexBudget
                                /\ \A s \in Unfed : sources[s].bytes = ScannerBytes
    <2>1. Weighted(fed) BY <1>1, WeighLess
    <2> HIDE DEF fed
    <2>2. SumOf(fed, SourceBytes) = Weigh(fed) BY <2>1, WeighIsSum, Zenon
    <2>3. format = "delimited" => Weigh(fed) <= IndexBudget BY <1>5 DEF Metered, fed
    <2>4. QED BY <1>5, <2>2, <2>3, Zenon DEF Metered
  <1>9. retained <= BudgetBytes
    BY <1>4, <1>5, <1>6 DEF Charged
  <1>10. QED BY <1>7, <1>8, <1>9, Zenon DEF RetainedExact

LEMMA IInvHolds == Spec => []IInv
  <1>1. IInv /\ UNCHANGED registry => IInv' BY NextIInv
  <1>2. QED BY InitIInv, NextIInv, PTL DEF Spec

(***************************************************************************)
(* In every artifact, for any number of handles, sources, steps and any    *)
(* budgets, an unfinished operation waits for the answer to its current    *)
(* step (only the Excel facade may have taken and refused one), a scan of  *)
(* delimited text stands where its scanner stands, and a source whose open *)
(* completed has been seen to its last byte (wasm.rs continue_operation,   *)
(* protocol.rs accept_results).                                            *)
(***************************************************************************)
THEOREM RegistryWellFormed == Spec => []RegistryInv
  BY IInvHolds, IInvRegistry, PTL

(***************************************************************************)
(* Whatever order operations are opened, answered, cancelled and closed    *)
(* in, and whichever step fails, nothing outlives its owner and no source  *)
(* is left that the Worker cannot close (cancel_pending, close_source,     *)
(* close_table of the four facades).                                       *)
(***************************************************************************)
THEOREM NothingOrphaned == Spec => []NoOrphans
  BY IInvHolds, IInvOwners, PTL

(***************************************************************************)
(* retained_bytes, kept by additions and subtractions along progressive    *)
(* growth, refused growth and cascading closes, never drifts from what the *)
(* live sources and tables weigh, nor leaves the budget (arrow.rs and      *)
(* parquet.rs register_source, close_source; the scanner's index budget).  *)
(***************************************************************************)
THEOREM RetainedIsExact == Spec => []RetainedExact
  BY IInvHolds, IInvRetained, PTL

(***************************************************************************)
(* The snapshots of a running artifact replace two charges in a row, the   *)
(* first of which may be refused, and shutdown gives everything back: the  *)
(* ledger stays within its budget through all of them (resourceSnapshot).  *)
(***************************************************************************)
THEOREM SnapshotsKeepBudget == Spec => []LedgerInv
  <1>1. IInv => LedgerInv BY DEF IInv, Sound, LedgerInv
  <1>2. QED BY <1>1, IInvHolds, PTL

-----------------------------------------------------------------------------
(***************************************************************************)
(* The range scheduler for any requests, tables, datasets and limits.      *)
(*                                                                         *)
(* Its use of the permits is a behaviour of PermitQueue, so what           *)
(* PermitQueueProofs shows of the queue holds of it (QueueKept).  On top   *)
(* of that the invariant says, for each await a request may stand at, what *)
(* permit it has (PermitOfPhase), whether it owns an adapter operation     *)
(* (OperationOwned), and why it will go on (Scheduled): whoever is         *)
(* cancelled, granted or has nothing to wait for has its continuation      *)
(* scheduled, and whoever lost its table is about to be cancelled.         *)
(***************************************************************************)
Queue == INSTANCE PermitQueueProofs WITH Keys <- Requests

Held == {r \in Requests : permit[r] = "held"}
InQueue == {r \in Requests : permit[r] = "queued"}
PermitStates == {"none", "queued", "held", "released", "refused"}

\* What is needed of the queue.
QueueKept ==
    /\ permit \in [Requests -> PermitStates]
    /\ waiters \in Seq(Requests)
    /\ active = Cardinality(Held) /\ active \in Nat
    /\ Len(waiters) = Cardinality(InQueue)
    /\ InQueue = {waiters[i] : i \in 1..Len(waiters)}
    /\ waiters # <<>> => active = MaxActive

RangesTyped ==
    /\ phase \in [Requests -> Phase]
    /\ outcome \in [Requests -> Outcome \ {"full"}]
    /\ tableOf \in [Requests -> Tables]
    /\ cancelled \in [Requests -> BOOLEAN]
    /\ failure \in [Requests -> BOOLEAN]
    /\ owns \in [Requests -> BOOLEAN]
    /\ adapterOp \in [Requests -> AdapterOp]
    /\ opCancels \in [Requests -> 0..1]
    /\ rows \in [Datasets -> 0..(LastRow + 1)]
    /\ scan \in [Datasets -> {"running", "done", "failed"}]
    /\ datasetOpen \in [Datasets -> BOOLEAN]
    /\ tableOpen \in [Tables -> BOOLEAN]
    /\ ready \subseteq Active
    /\ toCancel \subseteq Active

Accounted == inFlight = Cardinality(Active) /\ inFlight <= MaxInFlight

PermitOfPhase ==
    \A r \in Requests :
        /\ phase[r] \in {"idle", "indexing"} => permit[r] = "none"
        /\ phase[r] = "queued" => permit[r] \in {"queued", "refused"}
        /\ phase[r] \in {"granted", "beginning", "reading"} => permit[r] = "held"
        /\ phase[r] = "done" => permit[r] \in {"none", "released", "refused"}

OperationOwned ==
    \A r \in Requests :
        /\ owns[r] <=> phase[r] = "reading" /\ ~cancelled[r]
        /\ adapterOp[r] = "open" <=> owns[r]
        /\ adapterOp[r] = "beginning" => opCancels[r] = 0 /\ (cancelled[r] \/ phase[r] = "beginning")
        /\ ~cancelled[r] /\ phase[r] # "done" => opCancels[r] = 0

Scheduled ==
    \A r \in Requests :
        /\ phase[r] = "idle" => ~cancelled[r]
        /\ phase[r] = "granted" => r \in ready
        /\ r \in Active /\ cancelled[r] => r \in ready
        /\ r \in ready /\ phase[r] \in {"queued", "beginning", "reading"} => cancelled[r]
        /\ phase[r] = "queued" => (permit[r] = "refused" <=> cancelled[r])
        /\ phase[r] = "indexing" /\ ~NotIndexed(r) => r \in ready
        /\ r \in Active /\ ~tableOpen[tableOf[r]] => cancelled[r] \/ r \in toCancel

TablesClosed == \A t \in Tables : tableOpen[t] => datasetOpen[DatasetOf[t]]

RangesIInv == RangesTyped /\ Accounted /\ PermitOfPhase /\ OperationOwned /\ Scheduled /\ TablesClosed

-----------------------------------------------------------------------------
\* The queue and the community's FiniteSets, seen through the instances.
LEMMA QueueAssumption == Queue!PermitAssumption
  BY RangeAssumption DEF Queue!PermitAssumption, IsFiniteSet, Queue!IsFiniteSet

LEMMA SameSize == ASSUME NEW S PROVE Queue!Cardinality(S) = Cardinality(S)
  BY Zenon DEF Cardinality, Queue!Cardinality

LEMMA SameInit == Permits!Init <=> Queue!Init
  BY DEF Permits!Init, Queue!Init

LEMMA SameNext == [Permits!Next]_(Permits!vars) <=> [Queue!Next]_(Queue!vars)
  BY Zenon DEF Permits!Next, Queue!Next, Permits!vars, Queue!vars,
     Permits!Acquire, Permits!AcquireNow, Permits!AcquireFull, Permits!AcquireWait,
     Queue!Acquire, Queue!AcquireNow, Queue!AcquireFull, Queue!AcquireWait,
     Permits!Cancel, Permits!Release, Permits!WakeWaiters, Permits!WakeCount, Permits!Min2,
     Permits!Without,
     Queue!Cancel, Queue!Release, Queue!WakeWaiters, Queue!WakeCount, Queue!Min2, Queue!Without

\* Every step of a request is a step of the queue or leaves it alone.
LEMMA StepOfQueue == [RangesNext]_vars => [Permits!Next]_(Permits!vars)
  <1> USE DEF permits, Permits!vars
  <1> SUFFICES ASSUME RangesNext PROVE Permits!Next \/ UNCHANGED permits
    BY DEF vars
  <1>1. ASSUME NEW r \in Requests, NEW o, Finish(r, o) PROVE Permits!Next \/ UNCHANGED permits
    BY <1>1 DEF Finish, Permits!Next
  <1>2. ASSUME NEW r \in Requests, NEW n, AcquirePermit(r, n)
        PROVE  Permits!Next
    BY <1>2 DEF AcquirePermit, Permits!Next
  <1>3. ASSUME NEW r \in Requests, Dispatch(r) PROVE Permits!Next \/ UNCHANGED permits
    BY <1>2, <1>3 DEF Dispatch, DispatchClosed, DispatchLimit, DispatchIndexing, DispatchAcquire
  <1>4. ASSUME NEW r \in Requests, Microtask(r) PROVE Permits!Next \/ UNCHANGED permits
    BY <1>1, <1>2, <1>4
       DEF Microtask, ResumeIndexingCancelled, ResumeIndexingAgain, ResumeIndexingDone,
           ResumeRejected, ResumeGranted, GrantedCancelled, BeginRead, ResumeCancelledRead
  <1>5. ASSUME NEW r \in Requests, CancelActive(r) PROVE Permits!Next \/ UNCHANGED permits
    BY <1>5 DEF CancelActive, Permits!Next
  <1>6. ASSUME NEW r \in Requests, ReadSettles(r) PROVE Permits!Next \/ UNCHANGED permits
    BY <1>1, <1>6 DEF ReadSettles, ReadCompletes, ReadFails, SourceFails, CompleteRead,
                      CloseDatasetState
  <1>7. ASSUME NEW r \in Requests, BeginAnswers(r) PROVE Permits!Next \/ UNCHANGED permits
    BY <1>1, <1>7 DEF BeginAnswers, BeginPending, BeginComplete, BeginFails, BeginLate, CompleteRead
  <1>8. QED
    BY <1>3, <1>4, <1>5, <1>6, <1>7
       DEF RangesNext, CancelMessage, CloseTable, CloseSource, CloseDatasetState, ScanStep,
           ScanProgress, ScanDone, ScanFails

\* readRange drives the permit queue through acquire, cancel and the release
\* closure only (js/worker.ts:1349-1410): a behaviour of the scheduler, seen
\* through its permits, is a behaviour of AsyncPermitQueue.
THEOREM PermitsImplemented == RangesSpec => PermitsRefined
  <1>1. RangesInit => Permits!Init BY DEF RangesInit
  <1>2. QED BY <1>1, StepOfQueue, PTL DEF RangesSpec, PermitsRefined, Permits!Spec

\* The length of a queue without repetition is the number of its entries.
LEMMA LengthIsSize ==
  ASSUME NEW q \in Seq(Requests),
         \A i, j \in 1..Len(q) : q[i] = q[j] => i = j
  PROVE  Len(q) = Cardinality({q[i] : i \in 1..Len(q)})
  <1> DEFINE S == {q[i] : i \in 1..Len(q)}
  <1>1. Len(q) \in Nat /\ 1 \in Int /\ Len(q) \in Int OBVIOUS
  <1>2. q \in Bijection(1..Len(q), S)
    BY DEF Bijection, Injection, Surjection, IsInjective
  <1>3. ExistsBijection(1..Len(q), S)
    BY <1>2 DEF ExistsBijection
  <1> HIDE DEF S
  <1>4. IsFiniteSet(1..Len(q)) /\ Cardinality(1..Len(q)) = Len(q)
    <2>1. IF 1 > Len(q) THEN Len(q) = 0 ELSE Len(q) - 1 + 1 = Len(q) BY <1>1
    <2> HIDE DEF S
    <2>2. QED BY <1>1, <2>1, FS_Interval
  <1>5. Cardinality(S) = Len(q) BY <1>3, <1>4, FS_Bijection
  <1>6. QED BY <1>5 DEF S

LEMMA QueueInvIsKept == Queue!PermitInv => QueueKept
  <1> SUFFICES ASSUME Queue!PermitInv PROVE QueueKept
    OBVIOUS
  <1> USE DEF Queue!PermitInv
  <1>1. /\ permit \in [Requests -> PermitStates] /\ waiters \in Seq(Requests)
        /\ active \in Nat
    BY DEF Queue!TypeOK, Queue!PermitState, PermitStates
  <1>2. active = Cardinality(Held)
    BY SameSize DEF Queue!PermitAccounting, Queue!Holders, Held
  <1>3. InQueue = {waiters[i] : i \in 1..Len(waiters)}
    BY DEF Queue!QueueIsPending, Queue!Queued, InQueue
  <1>4. Len(waiters) = Cardinality(InQueue)
    BY <1>1, <1>3, LengthIsSize DEF Queue!QueueIsPending
  <1>5. waiters # <<>> => active = MaxActive
    BY DEF Queue!NoLostWakeup
  <1>6. QED BY <1>1, <1>2, <1>3, <1>4, <1>5 DEF QueueKept

LEMMA QueueAlwaysKept == RangesSpec => []QueueKept
  <1>1. Queue!Spec => []Queue!PermitInv
    BY QueueAssumption, Queue!PermitQueueCorrect, PTL
  <1>2. Permits!Spec => Queue!Spec
    BY SameInit, SameNext, PTL DEF Permits!Spec, Queue!Spec
  <1>3. QED BY <1>1, <1>2, PermitsImplemented, QueueInvIsKept, PTL DEF PermitsRefined

-----------------------------------------------------------------------------
LEMMA QueueTypes ==
  ASSUME QueueKept
  PROVE  /\ Len(waiters) \in Nat /\ active \in Nat
         /\ MaxActive \in Nat /\ MaxActive > 0 /\ MaxWaiters \in Nat
         /\ \A i \in 1..Len(waiters) : waiters[i] \in InQueue
  <1>1. waiters \in Seq(Requests) BY DEF QueueKept
  <1>2. Len(waiters) \in Nat BY <1>1
  <1>3. active \in Nat BY DEF QueueKept
  <1>4. MaxActive \in Nat /\ MaxActive > 0 /\ MaxWaiters \in Nat BY RangeAssumption
  <1>5. \A i \in 1..Len(waiters) : waiters[i] \in InQueue
    <2>1. InQueue = {waiters[i] : i \in 1..Len(waiters)} BY DEF QueueKept
    <2>2. QED BY <2>1, Zenon
  <1>6. QED BY <1>2, <1>3, <1>4, <1>5

\* Among the active requests there are at least those with a permit and those
\* in the queue.
LEMMA SizesOfActive ==
  ASSUME QueueKept, NEW S \in SUBSET Requests, Held \subseteq S, InQueue \subseteq S
  PROVE  active + Len(waiters) <= Cardinality(S)
  <1>1. IsFiniteSet(S) /\ IsFiniteSet(Held) /\ IsFiniteSet(InQueue)
    BY FS_Subset, RangeAssumption DEF Held, InQueue
  <1>2. Held \cap InQueue = {} BY DEF Held, InQueue
  <1>3. /\ Cardinality(S) \in Nat /\ Cardinality(Held) \in Nat /\ Cardinality(InQueue) \in Nat
        /\ Cardinality({}) = 0
    BY <1>1, FS_CardinalityType, FS_EmptySet
  <1>4. Cardinality(Held \cup InQueue) = Cardinality(Held) + Cardinality(InQueue)
    <2>1. Cardinality(Held \cup InQueue)
            = Cardinality(Held) + Cardinality(InQueue) - Cardinality(Held \cap InQueue)
      BY <1>1, FS_Union
    <2>2. Cardinality(Held \cap InQueue) = 0
      BY <1>2, <1>3
    <2>3. QED BY <1>3, <2>1, <2>2
  <1>5. Cardinality(Held \cup InQueue) <= Cardinality(S)
    <2>1. Held \cup InQueue \in SUBSET S OBVIOUS
    <2>2. QED BY <1>1, <2>1, FS_Subset
  <1>6. QED BY <1>4, <1>5 DEF QueueKept

\* acquire grants, queues, or refuses when permits and places are all taken.
LEMMA AcquireEffect ==
  ASSUME QueueKept, NEW r \in Requests, Permits!Acquire(r),
         active + Len(waiters) < MaxInFlight
  PROVE  /\ permit[r] = "none"
         /\ \/ permit' = [permit EXCEPT ![r] = "held"]
            \/ permit' = [permit EXCEPT ![r] = "queued"]
  <1>1. Len(waiters) \in Nat /\ active \in Nat /\ MaxActive \in Nat /\ MaxWaiters \in Nat
    BY QueueTypes
  <1>2. ~(active >= MaxActive /\ Len(waiters) >= MaxWaiters)
    BY <1>1 DEF MaxInFlight
  <1>3. QED
    BY <1>2 DEF Permits!Acquire, Permits!AcquireNow, Permits!AcquireFull, Permits!AcquireWait

\* The release closure ends one permit and may pass it to waiters.
LEMMA ReleaseEffect ==
  ASSUME QueueKept, NEW r \in Requests, Permits!Release(r)
  PROVE  /\ permit' \in [Requests -> PermitStates]
         /\ permit'[r] = "released"
         /\ \A q \in Requests \ {r} :
               \/ permit'[q] = permit[q]
               \/ permit[q] = "queued" /\ permit'[q] = "held"
  <1> DEFINE n == Permits!WakeCount(active - 1, waiters)
             woken == {waiters[i] : i \in 1..n}
  <1>1. /\ permit[r] = "held"
        /\ permit' = [k \in Requests |-> IF k \in woken THEN "held"
                                         ELSE [permit EXCEPT ![r] = "released"][k]]
    BY Zenon DEF Permits!Release, Permits!WakeWaiters
  <1>2. n <= Len(waiters) /\ Len(waiters) \in Nat
    BY QueueTypes DEF Permits!WakeCount, Permits!Min2
  <1> HIDE DEF n
  <1>3. woken \subseteq InQueue
    <2>1. \A i \in 1..n : i \in 1..Len(waiters)
      <3>1. n \in Int BY QueueTypes DEF n, Permits!WakeCount, Permits!Min2
      <3>2. QED BY <1>2, <3>1
    <2>2. QED BY <2>1, QueueTypes
  <1>4. \A q \in woken : permit[q] = "queued" /\ q # r BY <1>1, <1>3 DEF InQueue
  <1> HIDE DEF woken
  <1>5. QED BY <1>1, <1>4 DEF QueueKept, PermitStates

\* cancel of a waiter wakes nobody: a queue forms only while all permits are
\* out.
LEMMA CancelEffect ==
  ASSUME QueueKept, NEW r \in Requests, Permits!Cancel(r)
  PROVE  permit' = [permit EXCEPT ![r] = "refused"]
  <1>1. PICK i \in 1..Len(waiters) :
          Permits!WakeWaiters(active, Permits!Without(waiters, i),
                              [permit EXCEPT ![r] = "refused"])
    BY DEF Permits!Cancel
  <1> DEFINE q == Permits!Without(waiters, i)
             p == [permit EXCEPT ![r] = "refused"]
             n == Permits!WakeCount(active, q)
  <1>2. Permits!WakeWaiters(active, q, p) BY <1>1
  <1>3. active = MaxActive /\ active \in Nat
    <2>1. waiters # <<>> BY QueueTypes
    <2>2. QED BY <2>1 DEF QueueKept
  <1>4. Len(q) \in Nat
    <2>1. waiters \in Seq(Requests) BY DEF QueueKept
    <2>2. Permits!Without(waiters, i) \in Seq(Requests) BY <2>1 DEF Permits!Without
    <2>3. QED BY <2>2
  <1> HIDE DEF q
  <1>5. n = 0 BY <1>3, <1>4 DEF Permits!WakeCount, Permits!Min2
  <1>6. permit' = [k \in Requests |-> IF k \in {q[j] : j \in 1..n} THEN "held" ELSE p[k]]
    <2> HIDE DEF p
    <2>1. QED BY <1>2, Zenon DEF Permits!WakeWaiters
  <1>7. {q[j] : j \in 1..n} = {} BY <1>5
  <1> HIDE DEF n
  <1>8. QED BY <1>6, <1>7 DEF QueueKept

-----------------------------------------------------------------------------
\* The initial state.
LEMMA InitInv == RangesInit => RangesIInv
  <1> SUFFICES ASSUME RangesInit PROVE RangesIInv
    OBVIOUS
  <1>1. Active = {} BY DEF RangesInit, Active
  <1>2. RangesTyped
    BY <1>1, RangeAssumption DEF RangesInit, RangesTyped, Phase, Outcome, AdapterOp
  <1>3. Accounted
    BY <1>1, FS_EmptySet, RangeAssumption DEF RangesInit, Accounted, MaxInFlight
  <1>4. PermitOfPhase BY DEF RangesInit, PermitOfPhase, Permits!Init
  <1>5. OperationOwned BY DEF RangesInit, OperationOwned
  <1>6. Scheduled BY <1>1 DEF RangesInit, Scheduled
  <1>7. TablesClosed BY RangeAssumption DEF RangesInit, TablesClosed
  <1>8. QED BY <1>2, <1>3, <1>4, <1>5, <1>6, <1>7 DEF RangesIInv

\* The number of active requests, when one comes, goes, or none does.
LEMMA ActiveSizes ==
  ASSUME Accounted, NEW r \in Requests
  PROVE  /\ inFlight \in Nat
         /\ r \notin Active => Cardinality(Active \cup {r}) = inFlight + 1
         /\ r \in Active => /\ Cardinality(Active \ {r}) = inFlight - 1
                            /\ inFlight >= 1
  <1>1. IsFiniteSet(Active)
    BY FS_Subset, RangeAssumption DEF Active
  <1>2. Cardinality(Active) \in Nat BY <1>1, FS_CardinalityType
  <1>3. r \notin Active => Cardinality(Active \cup {r}) = Cardinality(Active) + 1
    BY <1>1, FS_AddElement
  <1>4. r \in Active => /\ Cardinality(Active \ {r}) = Cardinality(Active) - 1
                        /\ Cardinality(Active \ {r}) \in Nat
    <2>1. Active \ {r} \in SUBSET Active OBVIOUS
    <2>2. IsFiniteSet(Active \ {r}) BY <1>1, <2>1, FS_Subset
    <2>3. QED BY <1>1, <2>2, FS_RemoveElement, FS_CardinalityType
  <1>5. QED BY <1>2, <1>3, <1>4 DEF Accounted

\* readRange answers and leaves through its finally block, from any await;
\* whoever gets its permit goes on to read.
LEMMA FinishStep ==
  ASSUME RangesIInv, QueueKept, NEW r \in Requests, NEW o \in Outcome \ {"full"}, NEW n \in 0..1,
         r \in Active, phase[r] = "queued" => permit[r] = "refused",
         toCancel = {}, Finish(r, o),
         owns' = [owns EXCEPT ![r] = FALSE],
         adapterOp' = adapterOp \/ adapterOp' = [adapterOp EXCEPT ![r] = "closed"],
         adapterOp'[r] # "open", adapterOp'[r] = "beginning" => cancelled[r] /\ n = 0,
         opCancels' = [opCancels EXCEPT ![r] = n]
  PROVE  RangesIInv'
  <1> USE DEF RangesIInv
  <1>1. /\ permit' \in [Requests -> PermitStates]
        /\ permit'[r] \in {"none", "released", "refused"}
        /\ \A q \in Requests \ {r} :
              \/ permit'[q] = permit[q]
              \/ permit[q] = "queued" /\ permit'[q] = "held"
    <2>1. CASE permit[r] = "held"
      <3>1. Permits!Release(r) BY <2>1 DEF Finish
      <3>2. QED BY <3>1, ReleaseEffect
    <2>2. CASE permit[r] # "held"
      <3>1. permit' = permit BY <2>2 DEF Finish, permits
      <3>2. phase[r] \in Phase \ {"idle", "done"} BY DEF RangesTyped, Active
      <3>3. permit[r] \in {"none", "refused"} BY <2>2, <3>2 DEF PermitOfPhase, Phase
      <3>4. QED BY <3>1, <3>3 DEF QueueKept
    <2>3. QED BY <2>1, <2>2
  <1>2. /\ phase' \in [Requests -> Phase]
        /\ phase'[r] = "done"
        /\ \A q \in Requests \ {r} :
              \/ phase'[q] = phase[q] /\ permit'[q] = permit[q]
              \/ /\ phase[q] = "queued" /\ permit[q] = "queued"
                 /\ phase'[q] = "granted" /\ permit'[q] = "held"
    <2>1. phase' = [q \in Requests |->
                      IF q = r THEN "done"
                      ELSE IF phase[q] = "queued" /\ permit'[q] = "held" THEN "granted"
                      ELSE phase[q]]
      BY DEF Finish
    <2>2. \A q \in Requests : permit[q] = "queued" => phase[q] = "queued"
      BY DEF PermitOfPhase, RangesTyped, Phase
    <2>3. \A q \in Requests : phase[q] = "queued" => permit[q] # "held"
      BY DEF PermitOfPhase
    <2>4. QED BY <1>1, <2>1, <2>2, <2>3 DEF RangesTyped, Phase
  <1>3. Active' = Active \ {r} BY <1>2 DEF Active
  <1>4. /\ ready' = (ready \ {r}) \cup
                     {q \in Requests : permit[q] = "queued" /\ permit'[q] = "held"}
        /\ outcome' = [outcome EXCEPT ![r] = o]
        /\ inFlight' = inFlight - 1
        /\ UNCHANGED <<tableOf, rowStart, cancelled, failure, rows, scan, datasetOpen,
                       tableOpen, toCancel>>
    BY DEF Finish, request, datasets
  <1>5. \A q \in ready' : q \in Requests /\ (q \in ready \/ phase'[q] = "granted") /\ q # r
    BY <1>1, <1>2, <1>4 DEF RangesTyped, Active
  <1>6. \A q \in Requests \ {r} :
           /\ q \in ready => q \in ready'
           /\ phase[q] # phase'[q] => q \in ready'
    BY <1>2, <1>4
  <1>7. RangesTyped'
    <2>1. ready' \subseteq Active' BY <1>2, <1>3, <1>5 DEF RangesTyped, Active
    <2>2. QED BY <1>2, <1>4, <2>1 DEF RangesTyped, AdapterOp
  <1>8. Accounted'
    BY <1>3, <1>4, ActiveSizes, RangeAssumption DEF Accounted, MaxInFlight
  <1>9. PermitOfPhase' BY <1>1, <1>2 DEF PermitOfPhase
  <1>10. OperationOwned'
    BY <1>2, <1>4 DEF OperationOwned, RangesTyped
  <1>11. Scheduled'
    BY <1>2, <1>3, <1>4, <1>5, <1>6 DEF Scheduled, NotIndexed, DatasetOfRequest, Active
  <1>12. TablesClosed' BY <1>4 DEF TablesClosed
  <1>13. QED BY <1>7, <1>8, <1>9, <1>10, <1>11, <1>12

\* readRange asks for its permit.  The in-flight cap has let in no more
\* requests than there are permits and places, so it is not refused.
LEMMA AcquireStep ==
  ASSUME RangesIInv, QueueKept, NEW r \in Requests, NEW n,
         phase[r] \in {"idle", "indexing"}, ~cancelled[r],
         ~tableOpen[tableOf[r]] => r \in toCancel,
         n = Cardinality(Active \cup {r}), n <= MaxInFlight,
         AcquirePermit(r, n),
         UNCHANGED <<request, cancelled, failure, owns, adapterOp, opCancels, datasets, toCancel>>
  PROVE  RangesIInv'
  <1> USE DEF RangesIInv
  <1>1. active + Len(waiters) < MaxInFlight
    <2>1. /\ Held \subseteq (Active \cup {r}) \ {r}
          /\ InQueue \subseteq (Active \cup {r}) \ {r}
          /\ (Active \cup {r}) \ {r} \subseteq Requests
      BY DEF Held, InQueue, PermitOfPhase, Active, RangesTyped, Phase
    <2>2. active + Len(waiters) <= Cardinality((Active \cup {r}) \ {r})
      BY <2>1, SizesOfActive
    <2>3. IsFiniteSet(Active \cup {r})
      BY FS_Subset, RangeAssumption DEF Active
    <2>4. /\ n \in Nat /\ Cardinality((Active \cup {r}) \ {r}) = n - 1
      BY <2>3, FS_RemoveElement, FS_CardinalityType
    <2>5. QED BY <2>2, <2>4, QueueTypes DEF MaxInFlight
  <1>2. /\ permit[r] = "none"
        /\ \/ permit' = [permit EXCEPT ![r] = "held"]
           \/ permit' = [permit EXCEPT ![r] = "queued"]
    BY <1>1, AcquireEffect DEF AcquirePermit
  <1>3. /\ \/ /\ permit'[r] = "held" /\ phase' = [phase EXCEPT ![r] = "granted"]
              /\ ready' = ready \cup {r}
           \/ /\ permit'[r] = "queued" /\ phase' = [phase EXCEPT ![r] = "queued"]
              /\ ready' = ready \ {r}
        /\ permit'[r] \in {"held", "queued"}
        /\ outcome' = outcome
        /\ inFlight' = n
    BY <1>2 DEF AcquirePermit, QueueKept
  <1>4. /\ phase'[r] = IF permit'[r] = "held" THEN "granted" ELSE "queued"
        /\ phase' \in [Requests -> Phase]
        /\ \A q \in Requests \ {r} : phase'[q] = phase[q] /\ permit'[q] = permit[q]
        /\ \A q \in Requests \ {r} : q \in ready' <=> q \in ready
        /\ r \in ready' <=> permit'[r] = "held"
    BY <1>2, <1>3 DEF RangesTyped, Phase, QueueKept
  <1>5. Active' = Active \cup {r} BY <1>3, <1>4 DEF Active
  <1>6. UNCHANGED <<tableOf, rowStart, cancelled, failure, owns, adapterOp, opCancels, rows, scan,
                    datasetOpen, tableOpen, toCancel>>
    BY DEF request, datasets
  <1>7. RangesTyped'
    <2>1. ready' \subseteq Active' BY <1>3, <1>5 DEF RangesTyped, Active
    <2>2. toCancel' \subseteq Active' BY <1>5, <1>6 DEF RangesTyped
    <2>3. QED BY <1>3, <1>4, <1>6, <2>1, <2>2 DEF RangesTyped
  <1>8. Accounted' BY <1>3, <1>5 DEF Accounted, MaxInFlight
  <1>9. PermitOfPhase' BY <1>3, <1>4 DEF PermitOfPhase
  <1>10. OperationOwned' BY <1>3, <1>4, <1>6 DEF OperationOwned
  <1>11. Scheduled'
    BY <1>3, <1>4, <1>5, <1>6 DEF Scheduled, NotIndexed, DatasetOfRequest, Active
  <1>12. TablesClosed' BY <1>6 DEF TablesClosed
  <1>13. QED BY <1>7, <1>8, <1>9, <1>10, <1>11, <1>12

\* readRange up to its first await.
LEMMA DispatchStep ==
  ASSUME RangesIInv, QueueKept, NEW r \in Requests, Dispatch(r)
  PROVE  RangesIInv'
  <1> USE DEF RangesIInv
  <1>0. r \notin Active /\ ~cancelled[r] /\ phase[r] = "idle" /\ permit[r] = "none"
    BY DEF Dispatch, DispatchClosed, DispatchLimit, DispatchIndexing, DispatchAcquire,
           Admitted, Active, Scheduled, PermitOfPhase
  <1>1. ASSUME NEW o \in {"failed", "limit"},
               phase' = [phase EXCEPT ![r] = "done"], outcome' = [outcome EXCEPT ![r] = o],
               UNCHANGED <<permits, request, cancelled, failure, owns, adapterOp, opCancels, inFlight,
                           datasets, ready, toCancel>>
        PROVE  RangesIInv'
    <2>1. UNCHANGED <<permit, tableOf, rowStart, cancelled, failure, owns, adapterOp, opCancels, inFlight,
                      rows, scan, datasetOpen, tableOpen, ready, toCancel>>
      BY <1>1 DEF permits, request, datasets
    <2>2. /\ phase' \in [Requests -> Phase] /\ phase'[r] = "done"
          /\ \A q \in Requests \ {r} : phase'[q] = phase[q]
          /\ outcome' \in [Requests -> Outcome \ {"full"}]
      BY <1>1 DEF RangesTyped, Phase, Outcome
    <2>3. Active' = Active BY <1>0, <2>2 DEF Active
    <2>4. RangesTyped' BY <2>1, <2>2, <2>3 DEF RangesTyped
    <2>5. Accounted' BY <2>1, <2>3 DEF Accounted, MaxInFlight
    <2>6. PermitOfPhase' BY <1>0, <2>1, <2>2 DEF PermitOfPhase
    <2>7. OperationOwned' BY <1>0, <2>1, <2>2 DEF OperationOwned
    <2>8. Scheduled'
      BY <1>0, <2>1, <2>2, <2>3 DEF Scheduled, NotIndexed, DatasetOfRequest, Active
    <2>9. TablesClosed' BY <2>1 DEF TablesClosed
    <2>10. QED BY <2>4, <2>5, <2>6, <2>7, <2>8, <2>9
  <1>2. CASE DispatchClosed(r) BY <1>1, <1>2 DEF DispatchClosed
  <1>3. CASE DispatchLimit(r) BY <1>1, <1>3 DEF DispatchLimit
  <1>4. CASE DispatchIndexing(r)
    <2> USE <1>4 DEF DispatchIndexing, Admitted
    <2>1. UNCHANGED <<permit, tableOf, rowStart, cancelled, failure, owns, adapterOp, opCancels, outcome,
                      rows, scan, datasetOpen, tableOpen, ready, toCancel>>
      BY DEF permits, request, datasets
    <2>2. /\ phase' \in [Requests -> Phase] /\ phase'[r] = "indexing"
          /\ \A q \in Requests \ {r} : phase'[q] = phase[q]
      BY DEF RangesTyped, Phase
    <2>3. Active' = Active \cup {r} BY <2>2 DEF Active
    <2>4. RangesTyped' BY <2>1, <2>2, <2>3 DEF RangesTyped
    <2>5. Accounted'
      <3>1. inFlight' = inFlight + 1 /\ inFlight < MaxInFlight OBVIOUS
      <3>2. MaxInFlight \in Nat BY RangeAssumption DEF MaxInFlight
      <3>3. Cardinality(Active') = inFlight + 1 /\ inFlight \in Nat
        BY <1>0, <2>3, ActiveSizes
      <3>4. QED BY <3>1, <3>2, <3>3 DEF Accounted, MaxInFlight
    <2>6. PermitOfPhase' BY <1>0, <2>1, <2>2 DEF PermitOfPhase
    <2>7. OperationOwned' BY <1>0, <2>1, <2>2 DEF OperationOwned
    <2>8. Scheduled'
      BY <1>0, <2>1, <2>2, <2>3 DEF Scheduled, NotIndexed, DatasetOfRequest, Active
    <2>9. TablesClosed' BY <2>1 DEF TablesClosed
    <2>10. QED BY <2>4, <2>5, <2>6, <2>7, <2>8, <2>9
  <1>5. CASE DispatchAcquire(r)
    <2>1. /\ inFlight + 1 = Cardinality(Active \cup {r})
          /\ inFlight \in Nat
      BY <1>0, ActiveSizes
    <2>2. inFlight + 1 <= MaxInFlight
      BY <1>5, <2>1, RangeAssumption DEF DispatchAcquire, Admitted, MaxInFlight
    <2>3. tableOpen[tableOf[r]] BY <1>5 DEF DispatchAcquire, Admitted
    <2>4. AcquirePermit(r, inFlight + 1)
          /\ UNCHANGED <<request, cancelled, failure, owns, adapterOp, opCancels, datasets, toCancel>>
      BY <1>5 DEF DispatchAcquire
    <2> HIDE DEF RangesIInv
    <2>5. QED BY <1>0, <2>1, <2>2, <2>3, <2>4, AcquireStep
  <1>6. QED BY <1>2, <1>3, <1>4, <1>5 DEF Dispatch

\* A continuation of readRange.
LEMMA MicrotaskStep ==
  ASSUME RangesIInv, QueueKept, NEW r \in Requests, Microtask(r)
  PROVE  RangesIInv'
  <1>0. /\ r \in ready /\ toCancel = {} /\ r \in Active
        /\ owns[r] => phase[r] = "reading" /\ ~cancelled[r]
        /\ phase[r] = "queued" => permit[r] = "refused"
        /\ phase[r] = "reading" => ~owns[r]
        /\ phase[r] # "done"
        /\ adapterOp[r] = "beginning" => cancelled[r]
    BY DEF Microtask, ResumeIndexingCancelled, ResumeIndexingAgain, ResumeIndexingDone,
           ResumeRejected, ResumeGranted, ResumeCancelledRead, Runs, RangesIInv, RangesTyped, Active,
           OperationOwned, Scheduled
  <1>1. ASSUME NEW o \in Outcome \ {"full"}, Finish(r, o), UNCHANGED <<owns, adapterOp, opCancels>>,
               ~owns[r]
        PROVE  RangesIInv'
    <2>1. opCancels[r] \in 0..1 /\ opCancels' = [opCancels EXCEPT ![r] = opCancels[r]]
      BY <1>1 DEF RangesIInv, RangesTyped
    <2>2. owns' = [owns EXCEPT ![r] = FALSE] BY <1>1 DEF RangesIInv, RangesTyped
    <2>3. /\ adapterOp' = adapterOp /\ adapterOp'[r] # "open"
          /\ adapterOp'[r] = "beginning" => cancelled[r] /\ opCancels[r] = 0
      BY <1>0, <1>1 DEF RangesIInv, OperationOwned
    <2>4. QED BY <1>0, <1>1, <2>1, <2>2, <2>3, FinishStep
  <1>2. CancelledOutcome(r) \in Outcome \ {"full"} /\ "failed" \in Outcome \ {"full"}
    BY DEF CancelledOutcome, Outcome
  <1>3. CASE ResumeIndexingCancelled(r)
    BY <1>0, <1>1, <1>2, <1>3 DEF ResumeIndexingCancelled
  <1>4. CASE ResumeIndexingAgain(r)
    <2> USE <1>4 DEF ResumeIndexingAgain, RangesIInv
    <2>1. /\ phase[r] = "indexing" /\ ~cancelled[r] /\ NotIndexed(r) /\ ready' = ready \ {r}
          /\ UNCHANGED <<permit, phase, tableOf, rowStart, cancelled, failure, owns, adapterOp, opCancels,
                         outcome, inFlight, rows, scan, datasetOpen, tableOpen, toCancel>>
      BY DEF permits, request, datasets
    <2>2. Active' = Active BY <2>1 DEF Active
    <2>3. RangesTyped' BY <2>1, <2>2 DEF RangesTyped
    <2>4. Accounted' BY <2>1, <2>2 DEF Accounted, MaxInFlight
    <2>5. PermitOfPhase' BY <2>1 DEF PermitOfPhase
    <2>6. OperationOwned' BY <2>1 DEF OperationOwned
    <2>7. Scheduled' BY <2>1, <2>2 DEF Scheduled, NotIndexed, DatasetOfRequest
    <2>8. TablesClosed' BY <2>1 DEF TablesClosed
    <2>9. QED BY <2>3, <2>4, <2>5, <2>6, <2>7, <2>8
  <1>5. CASE ResumeIndexingDone(r)
    <2>1. /\ phase[r] = "indexing" /\ ~cancelled[r] /\ AcquirePermit(r, inFlight)
          /\ UNCHANGED <<request, cancelled, failure, owns, adapterOp, opCancels, datasets, toCancel>>
      BY <1>5 DEF ResumeIndexingDone
    <2>2. Active \cup {r} = Active BY <1>0
    <2>3. inFlight = Cardinality(Active \cup {r}) /\ inFlight <= MaxInFlight
      BY <2>2 DEF RangesIInv, Accounted
    <2>4. ~tableOpen[tableOf[r]] => r \in toCancel
      BY <1>0, <2>1 DEF RangesIInv, Scheduled
    <2>5. QED BY <2>1, <2>3, <2>4, AcquireStep
  <1>6. CASE ResumeRejected(r)
    BY <1>0, <1>1, <1>2, <1>6 DEF ResumeRejected
  <1>7. CASE ResumeGranted(r)
    <2>0. phase[r] = "granted" /\ ~owns[r] BY <1>0, <1>7 DEF ResumeGranted
    <2>1. CASE GrantedCancelled(r) BY <1>1, <1>2, <2>0, <2>1 DEF GrantedCancelled
    <2>2. CASE BeginRead(r)
      <3> USE <2>2 DEF BeginRead, RangesIInv
      <3>1. /\ ~cancelled[r] /\ ready' = ready \ {r}
            /\ UNCHANGED <<permit, tableOf, rowStart, cancelled, failure, owns, opCancels,
                           outcome, inFlight, rows, scan, datasetOpen, tableOpen, toCancel>>
        BY DEF permits, request, datasets
      <3>2. /\ phase' \in [Requests -> Phase] /\ phase'[r] = "beginning"
            /\ adapterOp' \in [Requests -> AdapterOp] /\ adapterOp'[r] = "beginning"
            /\ \A q \in Requests \ {r} : phase'[q] = phase[q] /\ adapterOp'[q] = adapterOp[q]
        BY DEF RangesTyped, Phase, AdapterOp
      <3>3. Active' = Active BY <1>0, <3>2 DEF Active
      <3>4. RangesTyped' BY <3>1, <3>2, <3>3 DEF RangesTyped
      <3>5. Accounted' BY <3>1, <3>3 DEF Accounted, MaxInFlight
      <3>6. PermitOfPhase' BY <2>0, <3>1, <3>2 DEF PermitOfPhase
      <3>7. OperationOwned' BY <2>0, <3>1, <3>2 DEF OperationOwned
      <3>8. Scheduled'
        BY <1>0, <3>1, <3>2, <3>3 DEF Scheduled, NotIndexed, DatasetOfRequest
      <3>9. TablesClosed' BY <3>1 DEF TablesClosed
      <3>10. QED BY <3>4, <3>5, <3>6, <3>7, <3>8, <3>9
    <2>3. QED BY <1>7, <2>1, <2>2 DEF ResumeGranted
  <1>8. CASE ResumeCancelledRead(r)
    <2>1. PICK o \in {"cancelled", "failed"} : Finish(r, o)
      BY <1>8 DEF ResumeCancelledRead
    <2>2. o \in Outcome \ {"full"} BY DEF Outcome
    <2>3. QED BY <1>0, <1>1, <1>8, <2>1, <2>2 DEF ResumeCancelledRead
  <1>9. QED BY <1>3, <1>4, <1>5, <1>6, <1>7, <1>8 DEF Microtask

\* The adapter answers beginRead, in time or after the request has gone.
LEMMA BeginAnswersStep ==
  ASSUME RangesIInv, QueueKept, NEW r \in Requests, BeginAnswers(r)
  PROVE  RangesIInv'
  <1>0. toCancel = {} /\ adapterOp[r] = "beginning" /\ ~owns[r] /\ opCancels[r] = 0
    BY DEF BeginAnswers, BeginPending, BeginComplete, BeginFails, BeginLate, BeginsNow,
           RangesIInv, OperationOwned
  <1>1. ~cancelled[r] => phase[r] = "beginning" /\ r \in Active
    BY <1>0 DEF RangesIInv, OperationOwned, Active
  <1>2. CASE BeginPending(r)
    <2> USE <1>2 DEF BeginPending, RangesIInv
    <2>1. /\ ~cancelled[r]
          /\ UNCHANGED <<permit, tableOf, rowStart, cancelled, failure, opCancels, outcome,
                         inFlight, rows, scan, datasetOpen, tableOpen, ready, toCancel>>
      BY DEF permits, request, datasets
    <2>2. /\ phase' \in [Requests -> Phase] /\ phase'[r] = "reading"
          /\ owns' \in [Requests -> BOOLEAN] /\ owns'[r] = TRUE
          /\ adapterOp' \in [Requests -> AdapterOp] /\ adapterOp'[r] = "open"
          /\ \A q \in Requests \ {r} : /\ phase'[q] = phase[q] /\ owns'[q] = owns[q]
                                       /\ adapterOp'[q] = adapterOp[q]
      BY DEF RangesTyped, Phase, AdapterOp
    <2>3. Active' = Active BY <1>1, <2>1, <2>2 DEF Active
    <2>4. RangesTyped' BY <2>1, <2>2, <2>3 DEF RangesTyped
    <2>5. Accounted' BY <2>1, <2>3 DEF Accounted, MaxInFlight
    <2>6. PermitOfPhase' BY <1>1, <2>1, <2>2 DEF PermitOfPhase
    <2>7. OperationOwned' BY <1>1, <2>1, <2>2 DEF OperationOwned
    <2>8. Scheduled'
      BY <1>1, <2>1, <2>2, <2>3 DEF Scheduled, NotIndexed, DatasetOfRequest
    <2>9. TablesClosed' BY <2>1 DEF TablesClosed
    <2>10. QED BY <2>4, <2>5, <2>6, <2>7, <2>8, <2>9
  <1>3. ASSUME NEW o \in Outcome \ {"full"}, Finish(r, o), ~cancelled[r],
               owns' = owns \/ owns' = [owns EXCEPT ![r] = FALSE],
               adapterOp' = [adapterOp EXCEPT ![r] = "closed"], opCancels' = opCancels
        PROVE  RangesIInv'
    <2>1. /\ owns' = [owns EXCEPT ![r] = FALSE]
          /\ opCancels' = [opCancels EXCEPT ![r] = 0] /\ 0 \in 0..1
          /\ adapterOp'[r] = "closed"
      BY <1>0, <1>3 DEF RangesIInv, RangesTyped
    <2>2. r \in Active /\ phase[r] # "queued" BY <1>1, <1>3
    <2>3. QED BY <1>0, <1>3, <2>1, <2>2, FinishStep
  <1>4. CASE BeginComplete(r)
    <2>1. PICK o \in {"batch", "limit"} : Finish(r, o)
      BY <1>4 DEF BeginComplete, CompleteRead
    <2>2. o \in Outcome \ {"full"} BY DEF Outcome
    <2>3. QED BY <1>3, <1>4, <2>1, <2>2 DEF BeginComplete, CompleteRead
  <1>5. CASE BeginFails(r) /\ ~cancelled[r]
    <2>1. "failed" \in Outcome \ {"full"} BY DEF Outcome
    <2>2. QED BY <1>3, <1>5, <2>1 DEF BeginFails
  <1>6. ASSUME (BeginFails(r) /\ cancelled[r]) \/ BeginLate(r)
        PROVE  RangesIInv'
    <2> USE DEF RangesIInv
    <2>1. /\ cancelled[r]
          /\ UNCHANGED <<permit, phase, tableOf, rowStart, cancelled, failure, owns, outcome,
                         inFlight, rows, scan, datasetOpen, tableOpen, ready, toCancel>>
      BY <1>6 DEF BeginFails, BeginLate, permits, request, datasets
    <2>2. /\ adapterOp' = [adapterOp EXCEPT ![r] = "closed"]
          /\ opCancels' = opCancels \/ opCancels' = [opCancels EXCEPT ![r] = @ + 1]
      BY <1>6 DEF BeginFails, BeginLate, CleanupLateAdapterStep
    <2>3. /\ adapterOp' \in [Requests -> AdapterOp] /\ adapterOp'[r] = "closed"
          /\ opCancels' \in [Requests -> 0..1]
          /\ \A q \in Requests \ {r} : adapterOp'[q] = adapterOp[q] /\ opCancels'[q] = opCancels[q]
      BY <1>0, <2>2 DEF RangesTyped, AdapterOp
    <2>4. Active' = Active BY <2>1 DEF Active
    <2>5. RangesTyped' BY <2>1, <2>3, <2>4 DEF RangesTyped
    <2>6. Accounted' BY <2>1, <2>4 DEF Accounted, MaxInFlight
    <2>7. PermitOfPhase' BY <2>1 DEF PermitOfPhase
    <2>8. OperationOwned' BY <1>0, <2>1, <2>3 DEF OperationOwned
    <2>9. Scheduled' BY <2>1, <2>4 DEF Scheduled, NotIndexed, DatasetOfRequest
    <2>10. TablesClosed' BY <2>1 DEF TablesClosed
    <2>11. QED BY <2>5, <2>6, <2>7, <2>8, <2>9, <2>10
  <1>7. QED BY <1>2, <1>4, <1>5, <1>6 DEF BeginAnswers

\* cancelActive: the operation handle is taken before the adapter is called.
LEMMA CancelActiveStep ==
  ASSUME RangesIInv, QueueKept, NEW r \in Requests, CancelActive(r)
  PROVE  RangesIInv'
  <1> USE DEF RangesIInv
  <1>0. /\ r \in toCancel /\ r \in Active /\ toCancel' = toCancel \ {r}
        /\ UNCHANGED <<phase, tableOf, rowStart, failure, outcome, inFlight, rows, scan,
                       datasetOpen, tableOpen>>
    BY DEF CancelActive, RangesTyped, request, datasets
  <1>1. Active' = Active BY <1>0 DEF Active
  <1>2. Accounted' BY <1>0, <1>1 DEF Accounted, MaxInFlight
  <1>3. TablesClosed' BY <1>0 DEF TablesClosed
  <1>4. CASE cancelled[r]
    <2>1. UNCHANGED <<permit, cancelled, owns, adapterOp, opCancels, ready>>
      BY <1>4 DEF CancelActive, permits
    <2>2. RangesTyped' BY <1>0, <1>1, <2>1 DEF RangesTyped
    <2>3. PermitOfPhase' BY <1>0, <2>1 DEF PermitOfPhase
    <2>4. OperationOwned' BY <1>0, <2>1 DEF OperationOwned
    <2>5. Scheduled'
      BY <1>0, <1>1, <1>4, <2>1 DEF Scheduled, NotIndexed, DatasetOfRequest
    <2>6. QED BY <1>2, <1>3, <2>2, <2>3, <2>4, <2>5
  <1>5. CASE ~cancelled[r]
    <2>1. /\ cancelled' = [cancelled EXCEPT ![r] = TRUE]
          /\ owns' = [owns EXCEPT ![r] = FALSE]
          /\ opCancels' = IF owns[r] THEN [opCancels EXCEPT ![r] = @ + 1] ELSE opCancels
          /\ ready' = ready \cup Indexing(DatasetOfRequest(r))
                            \cup (IF phase[r] \in {"queued", "beginning", "reading"} THEN {r} ELSE {})
          /\ adapterOp' = IF owns[r] THEN [adapterOp EXCEPT ![r] = "closed"] ELSE adapterOp
      BY <1>5 DEF CancelActive
    <2>2. /\ permit' \in [Requests -> PermitStates]
          /\ \A q \in Requests \ {r} : permit'[q] = permit[q]
          /\ IF permit[r] = "queued" THEN permit'[r] = "refused" ELSE permit'[r] = permit[r]
      <3>1. CASE permit[r] = "queued"
        <4>1. permit' = [permit EXCEPT ![r] = "refused"]
          BY <1>5, <3>1, CancelEffect DEF CancelActive
        <4>2. QED BY <3>1, <4>1 DEF QueueKept, PermitStates
      <3>2. CASE permit[r] # "queued"
        BY <1>5, <3>2 DEF CancelActive, permits, QueueKept
      <3>3. QED BY <3>1, <3>2
    <2>3. opCancels[r] = 0 BY <1>0, <1>5 DEF OperationOwned, Active
    <2>4. /\ opCancels' \in [Requests -> 0..1] /\ adapterOp' \in [Requests -> AdapterOp]
          /\ \A q \in Requests \ {r} : opCancels'[q] = opCancels[q] /\ adapterOp'[q] = adapterOp[q]
          /\ adapterOp'[r] # "open"
          /\ adapterOp'[r] = "beginning" => opCancels'[r] = 0
      BY <2>1, <2>3 DEF RangesTyped, AdapterOp, OperationOwned
    <2>5. /\ \A q \in Requests : q \in ready => q \in ready'
          /\ \A q \in Requests \ {r} : q \in ready' => q \in ready \/ phase[q] = "indexing"
          /\ phase[r] \in {"queued", "beginning", "reading", "indexing"} => r \in ready'
          /\ ready' \subseteq Active
      BY <1>0, <2>1 DEF Indexing, ActiveOfDataset, RangesTyped
    <2>6. RangesTyped' BY <1>0, <1>1, <2>1, <2>4, <2>5 DEF RangesTyped
    <2>7. PermitOfPhase'
      <3>1. phase[r] = "queued" \/ permit[r] # "queued"
        BY DEF PermitOfPhase, RangesTyped, Phase
      <3>2. QED BY <1>0, <2>2, <3>1 DEF PermitOfPhase
    <2>8. OperationOwned' BY <1>0, <2>1, <2>4 DEF OperationOwned, RangesTyped, Active
    <2>9. Scheduled'
      <3>1. phase[r] = "queued" => permit'[r] = "refused"
        BY <2>2 DEF PermitOfPhase
      <3>2. phase[r] \in {"indexing", "queued", "granted", "beginning", "reading"}
        BY <1>0 DEF Active, RangesTyped, Phase
      <3>3. /\ cancelled'[r] /\ r \in ready'
            /\ \A q \in Requests \ {r} : cancelled'[q] = cancelled[q]
        BY <2>1, <2>5, <3>2 DEF RangesTyped, Scheduled
      <3>4. QED
        BY <1>0, <1>1, <2>2, <2>5, <3>1, <3>2, <3>3
           DEF Scheduled, NotIndexed, DatasetOfRequest
    <2>10. QED BY <1>2, <1>3, <2>6, <2>7, <2>8, <2>9
  <1>6. QED BY <1>4, <1>5

\* A task that only schedules: it starts a cancel loop over requests that are
\* active, closes tables whose requests are in that loop, reports scan progress
\* or its end, and wakes all who wait for an index it has changed.
LEMMA ScheduleStep ==
  ASSUME RangesIInv, QueueKept, Quiet,
         UNCHANGED <<permits, phase, request, cancelled, owns, adapterOp, opCancels, outcome, inFlight>>,
         failure' \in [Requests -> BOOLEAN],
         rows' \in [Datasets -> 0..(LastRow + 1)],
         scan' \in [Datasets -> {"running", "done", "failed"}],
         datasetOpen' \in [Datasets -> BOOLEAN],
         tableOpen' \in [Tables -> BOOLEAN],
         ready' \subseteq {r \in Active : phase[r] = "indexing"}, toCancel' \subseteq Active,
         \A r \in Active : phase[r] = "indexing" /\ ~NotIndexed(r)' => r \in ready',
         \A r \in Active : ~tableOpen'[tableOf[r]] => r \in toCancel',
         TablesClosed'
  PROVE  RangesIInv'
  <1> USE DEF RangesIInv
  <1>1. /\ ready = {} /\ toCancel = {}
        /\ UNCHANGED <<permit, phase, tableOf, rowStart, cancelled, owns, adapterOp, opCancels, outcome,
                       inFlight>>
    BY DEF Quiet, permits, request
  <1>2. Active' = Active BY <1>1 DEF Active
  <1>3. RangesTyped' BY <1>1, <1>2 DEF RangesTyped
  <1>4. Accounted' BY <1>1, <1>2 DEF Accounted, MaxInFlight
  <1>5. PermitOfPhase' BY <1>1 DEF PermitOfPhase
  <1>6. OperationOwned' BY <1>1 DEF OperationOwned
  <1>7. Scheduled' BY <1>1, <1>2 DEF Scheduled, Active
  <1>8. QED BY <1>3, <1>4, <1>5, <1>6, <1>7

\* In a quiet state a request of a closed table has been answered.
LEMMA QuietTables ==
  ASSUME RangesIInv, Quiet, NEW r \in Active
  PROVE  ~cancelled[r] /\ tableOpen[tableOf[r]]
  BY DEF RangesIInv, Quiet, Scheduled, Active

\* closeDatasetState, whatever else the task does to the scan.
LEMMA CloseDatasetStep ==
  ASSUME RangesIInv, QueueKept, Quiet, NEW d \in Datasets, NEW failed \in BOOLEAN,
         CloseDatasetState(d, failed), UNCHANGED <<owns, adapterOp, opCancels>>,
         scan' = scan \/ scan' = [scan EXCEPT ![d] = "failed"]
  PROVE  RangesIInv'
  <1> USE DEF RangesIInv
  <1>1. /\ datasetOpen' = [datasetOpen EXCEPT ![d] = FALSE]
        /\ tableOpen' = [t \in Tables |-> tableOpen[t] /\ DatasetOf[t] # d]
        /\ toCancel' = ActiveOfDataset(d)
        /\ ready' = Indexing(d)
        /\ failure' \in [Requests -> BOOLEAN]
        /\ UNCHANGED <<permits, phase, request, cancelled, outcome, inFlight, rows,
                       tableOf, rowStart>>
    BY DEF CloseDatasetState, Quiet, RangesTyped, request
  <1>2. /\ datasetOpen' \in [Datasets -> BOOLEAN]
        /\ tableOpen' \in [Tables -> BOOLEAN]
        /\ rows' \in [Datasets -> 0..(LastRow + 1)]
        /\ scan' \in [Datasets -> {"running", "done", "failed"}]
    BY <1>1 DEF RangesTyped
  <1>3. ready' \subseteq {r \in Active : phase[r] = "indexing"} /\ toCancel' \subseteq Active
    BY <1>1 DEF Indexing, ActiveOfDataset, Active
  <1>4. \A r \in Active : phase[r] = "indexing" /\ ~NotIndexed(r)' => r \in ready'
    <2> SUFFICES ASSUME NEW r \in Active, phase[r] = "indexing", ~NotIndexed(r)'
                 PROVE  r \in ready'
      OBVIOUS
    <2>1. CASE DatasetOfRequest(r) = d BY <1>1, <2>1 DEF Indexing, ActiveOfDataset
    <2>2. CASE DatasetOfRequest(r) # d
      <3>1. DatasetOfRequest(r) \in Datasets
        BY RangeAssumption DEF DatasetOfRequest, RangesTyped, Active
      <3>2. scan'[DatasetOfRequest(r)] = scan[DatasetOfRequest(r)]
        BY <2>2, <3>1 DEF RangesTyped
      <3>3. ~NotIndexed(r) BY <1>1, <3>2 DEF NotIndexed, DatasetOfRequest
      <3>4. r \in ready BY <3>3 DEF Scheduled, Active
      <3>5. QED BY <3>4 DEF Quiet
    <2>3. QED BY <2>1, <2>2
  <1>5. \A r \in Active : ~tableOpen'[tableOf[r]] => r \in toCancel'
    <2> SUFFICES ASSUME NEW r \in Active, ~tableOpen'[tableOf[r]] PROVE r \in toCancel'
      OBVIOUS
    <2>1. tableOpen[tableOf[r]] BY QuietTables
    <2>2. tableOf[r] \in Tables BY DEF RangesTyped, Active
    <2>3. DatasetOfRequest(r) = d BY <1>1, <2>1, <2>2 DEF DatasetOfRequest
    <2>4. QED BY <1>1, <2>3 DEF ActiveOfDataset
  <1>6. TablesClosed'
    BY <1>1, RangeAssumption DEF TablesClosed, RangesTyped
  <1> HIDE DEF RangesIInv
  <1>7. QED BY <1>1, <1>2, <1>3, <1>4, <1>5, <1>6, ScheduleStep

\* The scan of a dataset publishes rows or ends: its waiters are woken.
LEMMA ScanMoves ==
  ASSUME RangesIInv, QueueKept, Quiet, NEW d \in Datasets,
         UNCHANGED <<permits, phase, request, cancelled, failure, owns, adapterOp, opCancels, outcome,
                     inFlight, datasetOpen, tableOpen, toCancel>>,
         ready' = Indexing(d),
         \/ rows' = [rows EXCEPT ![d] = @ + 1] /\ rows[d] <= LastRow /\ scan' = scan
         \/ scan' = [scan EXCEPT ![d] = "done"] /\ rows' = rows
  PROVE  RangesIInv'
  <1> USE DEF RangesIInv
  <1>1. /\ rows' \in [Datasets -> 0..(LastRow + 1)]
        /\ scan' \in [Datasets -> {"running", "done", "failed"}]
        /\ \A e \in Datasets \ {d} : rows'[e] = rows[e] /\ scan'[e] = scan[e]
    BY RangeAssumption DEF RangesTyped
  <1>2. ready' \subseteq {r \in Active : phase[r] = "indexing"} /\ toCancel' \subseteq Active
    BY DEF Indexing, ActiveOfDataset, RangesTyped
  <1>3. \A r \in Active : phase[r] = "indexing" /\ ~NotIndexed(r)' => r \in ready'
    <2> SUFFICES ASSUME NEW r \in Active, phase[r] = "indexing", ~NotIndexed(r)'
                 PROVE  r \in ready'
      OBVIOUS
    <2>1. CASE DatasetOfRequest(r) = d BY <2>1 DEF Indexing, ActiveOfDataset
    <2>2. CASE DatasetOfRequest(r) # d
      <3>1. DatasetOfRequest(r) \in Datasets
        BY RangeAssumption DEF DatasetOfRequest, RangesTyped, Active
      <3>2. ~NotIndexed(r) BY <1>1, <2>2, <3>1 DEF NotIndexed, DatasetOfRequest, request
      <3>3. r \in ready BY <3>2 DEF Scheduled, Active
      <3>4. QED BY <3>3 DEF Quiet
    <2>3. QED BY <2>1, <2>2
  <1>4. \A r \in Active : ~tableOpen'[tableOf[r]] => r \in toCancel'
    BY QuietTables
  <1>5. /\ failure' \in [Requests -> BOOLEAN] /\ datasetOpen' \in [Datasets -> BOOLEAN]
        /\ tableOpen' \in [Tables -> BOOLEAN]
    BY DEF RangesTyped
  <1>6. TablesClosed' BY DEF TablesClosed
  <1> HIDE DEF RangesIInv
  <1>7. QED BY <1>1, <1>2, <1>3, <1>4, <1>5, <1>6, ScheduleStep

\* The source read of a running operation settles.
LEMMA ReadSettlesStep ==
  ASSUME RangesIInv, QueueKept, NEW r \in Requests, ReadSettles(r)
  PROVE  RangesIInv'
  <1>0. /\ Quiet /\ phase[r] = "reading" /\ r \in Active /\ toCancel = {}
        /\ ~cancelled[r] /\ opCancels[r] = 0
    <2>1. Quiet /\ phase[r] = "reading" /\ r \in Active
      BY DEF ReadSettles, ReadCompletes, ReadFails, SourceFails, Active
    <2>2. ~cancelled[r] BY <2>1, QuietTables
    <2>3. QED BY <2>1, <2>2 DEF Quiet, RangesIInv, OperationOwned
  <1>1. CASE ReadCompletes(r)
    <2>1. PICK o \in {"batch", "limit"} : Finish(r, o)
      BY <1>1 DEF ReadCompletes, CompleteRead
    <2>2. /\ o \in Outcome \ {"full"} /\ 0 \in 0..1
          /\ owns' = [owns EXCEPT ![r] = FALSE]
          /\ adapterOp' = [adapterOp EXCEPT ![r] = "closed"] /\ adapterOp'[r] = "closed"
          /\ opCancels' = [opCancels EXCEPT ![r] = 0]
      BY <1>0, <1>1 DEF ReadCompletes, CompleteRead, Outcome, RangesIInv, RangesTyped
    <2>3. QED BY <1>0, <2>1, <2>2, FinishStep
  <1>2. CASE ReadFails(r)
    <2>1. /\ Finish(r, "failed") /\ "failed" \in Outcome \ {"full"} /\ 1 \in 0..1
          /\ owns' = [owns EXCEPT ![r] = FALSE]
          /\ adapterOp' = [adapterOp EXCEPT ![r] = "closed"] /\ adapterOp'[r] = "closed"
          /\ opCancels' = [opCancels EXCEPT ![r] = 1]
      BY <1>0, <1>2 DEF ReadFails, Outcome, RangesIInv, RangesTyped
    <2>2. QED BY <1>0, <2>1, FinishStep
  <1>3. CASE SourceFails(r)
    <2>1. DatasetOfRequest(r) \in Datasets
      BY RangeAssumption DEF DatasetOfRequest, RangesIInv, RangesTyped
    <2>2. /\ CloseDatasetState(DatasetOfRequest(r), TRUE)
          /\ UNCHANGED <<owns, adapterOp, opCancels>> /\ scan' = scan
      BY <1>3 DEF SourceFails
    <2>3. QED BY <1>0, <2>1, <2>2, CloseDatasetStep
  <1>4. QED BY <1>1, <1>2, <1>3 DEF ReadSettles

LEMMA NextInv == RangesIInv /\ QueueKept /\ [RangesNext]_vars => RangesIInv'
  <1> SUFFICES ASSUME RangesIInv, QueueKept, [RangesNext]_vars PROVE RangesIInv'
    OBVIOUS
  <1>1. CASE UNCHANGED vars
    <2>1. Active' = Active BY <1>1 DEF vars, Active
    <2>2. QED
      BY <1>1, <2>1 DEF vars, RangesIInv, RangesTyped, Accounted, PermitOfPhase, OperationOwned, Scheduled,
                        TablesClosed, NotIndexed, DatasetOfRequest, MaxInFlight
  <1>2. ASSUME NEW r \in Requests, CancelMessage(r) PROVE RangesIInv'
    <2> USE <1>2 DEF CancelMessage, RangesIInv
    <2>1. /\ UNCHANGED <<permits, phase, request, cancelled, owns, adapterOp, opCancels, outcome, inFlight,
                         failure, rows, scan, datasetOpen, tableOpen, ready, tableOf, rowStart>>
          /\ Quiet /\ toCancel' = {r} /\ r \in Active
      BY DEF datasets, request
    <2>2. /\ failure' \in [Requests -> BOOLEAN] /\ datasetOpen' \in [Datasets -> BOOLEAN]
          /\ tableOpen' \in [Tables -> BOOLEAN]
          /\ rows' \in [Datasets -> 0..(LastRow + 1)]
          /\ scan' \in [Datasets -> {"running", "done", "failed"}]
      BY <2>1 DEF RangesTyped
    <2>3. ready' \subseteq {q \in Active : phase[q] = "indexing"} /\ toCancel' \subseteq Active
      BY <2>1 DEF Quiet
    <2>4. \A q \in Active : phase[q] = "indexing" /\ ~NotIndexed(q)' => q \in ready'
      BY <2>1 DEF NotIndexed, DatasetOfRequest, Scheduled, Active
    <2>5. \A q \in Active : ~tableOpen'[tableOf[q]] => q \in toCancel'
      BY <2>1, QuietTables
    <2>6. TablesClosed' BY <2>1 DEF TablesClosed
    <2> HIDE DEF RangesIInv, CancelMessage
    <2>7. QED BY <2>1, <2>2, <2>3, <2>4, <2>5, <2>6, ScheduleStep
  <1>3. ASSUME NEW t \in Tables, CloseTable(t) PROVE RangesIInv'
    <2> USE <1>3 DEF CloseTable, RangesIInv
    <2>1. /\ UNCHANGED <<permits, phase, request, cancelled, owns, adapterOp, opCancels, outcome, inFlight,
                         failure, rows, scan, datasetOpen, ready, tableOf, rowStart>>
          /\ Quiet /\ toCancel' = ActiveOfTable(t)
          /\ tableOpen' = [tableOpen EXCEPT ![t] = FALSE]
      BY DEF request
    <2>2. /\ failure' \in [Requests -> BOOLEAN] /\ datasetOpen' \in [Datasets -> BOOLEAN]
          /\ tableOpen' \in [Tables -> BOOLEAN]
          /\ rows' \in [Datasets -> 0..(LastRow + 1)]
          /\ scan' \in [Datasets -> {"running", "done", "failed"}]
      BY <2>1 DEF RangesTyped
    <2>3. ready' \subseteq {q \in Active : phase[q] = "indexing"} /\ toCancel' \subseteq Active
      BY <2>1 DEF Quiet, ActiveOfTable
    <2>4. \A q \in Active : phase[q] = "indexing" /\ ~NotIndexed(q)' => q \in ready'
      BY <2>1 DEF NotIndexed, DatasetOfRequest, Scheduled, Active
    <2>5. \A q \in Active : ~tableOpen'[tableOf[q]] => q \in toCancel'
      BY <2>1, QuietTables DEF ActiveOfTable, RangesTyped, Active
    <2>6. TablesClosed' BY <2>1 DEF TablesClosed, RangesTyped
    <2> HIDE DEF RangesIInv, CloseTable
    <2>7. QED BY <2>1, <2>2, <2>3, <2>4, <2>5, <2>6, ScheduleStep
  <1>4. ASSUME NEW d \in Datasets, CloseSource(d) PROVE RangesIInv'
    BY <1>4, CloseDatasetStep DEF CloseSource
  <1>5. ASSUME NEW d \in Datasets, ScanStep(d) PROVE RangesIInv'
    BY <1>5, CloseDatasetStep, ScanMoves DEF ScanStep, ScanProgress, ScanDone, ScanFails
  <1>6. QED
    BY <1>1, <1>2, <1>3, <1>4, <1>5, DispatchStep, MicrotaskStep, BeginAnswersStep,
       CancelActiveStep, ReadSettlesStep DEF RangesNext

-----------------------------------------------------------------------------
LEMMA Invariant == RangesSpec => []RangesIInv
  <1>1. QED BY InitInv, NextInv, QueueAlwaysKept, PTL DEF RangesSpec

LEMMA Accounts == RangesIInv /\ QueueKept => RangeInv
  <1> SUFFICES ASSUME RangesIInv, QueueKept PROVE RangeInv
    OBVIOUS
  <1> USE DEF RangesIInv
  <1>1. inFlight \in 0..MaxInFlight
    <2>1. IsFiniteSet(Active) BY FS_Subset, RangeAssumption DEF Active
    <2>2. inFlight \in Nat BY <2>1, FS_CardinalityType DEF Accounted
    <2>3. QED BY <2>2, RangeAssumption DEF Accounted, MaxInFlight
  <1>2. TypeOK BY <1>1 DEF TypeOK, RangesTyped
  <1>3. InFlightAccounting BY DEF Accounted, InFlightAccounting
  <1>4. NothingRetained
    BY DEF NothingRetained, PermitOfPhase, OperationOwned, RangesTyped, Phase
  <1>5. CancelledOnce BY DEF CancelledOnce, RangesTyped
  <1>6. NoQueueOverflow BY DEF NoQueueOverflow, RangesTyped
  <1>7. QED BY <1>2, <1>3, <1>4, <1>5, <1>6 DEF RangeInv

\* Every way out of readRange gives back the in-flight slot, the permit and the
\* adapter operation (its finally block, js/worker.ts:1405), an operation is
\* cancelled once (cancelActive takes the handle first), and the in-flight cap
\* leaves the permit queue nobody to refuse.
THEOREM RequestsAccounted == RangesSpec => []RangeInv
  <1>1. QED BY Invariant, QueueAlwaysKept, Accounts, PTL

LEMMA Reachable == RangesIInv /\ QueueKept => NoStrandedReader
  <1> SUFFICES ASSUME RangesIInv, QueueKept, Quiet, NEW r \in Active
               PROVE  /\ ~cancelled[r]
                      /\ tableOpen[tableOf[r]] /\ datasetOpen[DatasetOfRequest(r)]
                      /\ phase[r] = "indexing" => NotIndexed(r)
                      /\ phase[r] # "granted"
                      /\ phase[r] = "queued" => \E q \in Active : phase[q] \in {"beginning", "reading"}
    BY DEF NoStrandedReader
  <1> USE DEF RangesIInv
  <1>1. r \in Requests /\ ready = {} /\ toCancel = {} BY DEF Active, Quiet
  <1>2. ~cancelled[r] BY <1>1 DEF Scheduled
  <1>3. tableOpen[tableOf[r]] BY <1>1, <1>2 DEF Scheduled
  <1>4. datasetOpen[DatasetOfRequest(r)]
    BY <1>1, <1>3 DEF TablesClosed, DatasetOfRequest, RangesTyped
  <1>5. phase[r] = "indexing" => NotIndexed(r) BY <1>1 DEF Scheduled
  <1>6. phase[r] # "granted" BY <1>1 DEF Scheduled
  <1>7. ASSUME phase[r] = "queued" PROVE \E q \in Active : phase[q] \in {"beginning", "reading"}
    <2>1. permit[r] = "queued" BY <1>1, <1>2, <1>7 DEF Scheduled, PermitOfPhase
    <2>2. waiters # <<>>
      <3>1. r \in {waiters[i] : i \in 1..Len(waiters)}
        BY <1>1, <2>1 DEF QueueKept, InQueue
      <3>2. QED BY <3>1
    <2>3. active # 0
      <3>1. active = MaxActive BY <2>2 DEF QueueKept
      <3>2. MaxActive # 0 BY RangeAssumption
      <3>3. QED BY <3>1, <3>2
    <2>4. Held # {}
      BY <2>3, FS_EmptySet DEF QueueKept
    <2>5. PICK q \in Requests : permit[q] = "held" BY <2>4 DEF Held
    <2>6. phase[q] \in {"granted", "beginning", "reading"}
      BY <2>5 DEF PermitOfPhase, RangesTyped, Phase
    <2>7. phase[q] # "granted" BY <1>1 DEF Scheduled
    <2>8. QED BY <2>6, <2>7 DEF Active
  <1>8. QED BY <1>2, <1>3, <1>4, <1>5, <1>6, <1>7

\* Whatever cancelActive, closeTableState, closeDatasetState or a scan did
\* (js/worker.ts:1791, 1853, 1885, 1124), once the event loop is idle nobody waits
\* for an index that will not grow or for a permit that no read will return.
THEOREM NobodyStranded == RangesSpec => []NoStrandedReader
  <1>1. QED BY Invariant, QueueAlwaysKept, Reachable, PTL

LEMMA BatchOfOpenTable ==
  ASSUME RangesIInv, [RangesNext]_vars, NEW r \in Requests, outcome'[r] = "batch", outcome[r] # "batch"
  PROVE  tableOpen[tableOf[r]] /\ ~cancelled[r]
  <1> USE DEF RangesIInv
  <1>1. \A q \in Requests : \A o : Finish(q, o) => outcome' = [outcome EXCEPT ![q] = o]
    BY DEF Finish
  <1>2. outcome \in [Requests -> Outcome] BY DEF RangesTyped
  <1>3. \A q \in Requests : \A n :
           AcquirePermit(q, n) => outcome' \in {outcome, [outcome EXCEPT ![q] = "full"]}
    BY DEF AcquirePermit
  <1>4. ASSUME NEW q \in Requests, Finish(q, CancelledOutcome(q)) PROVE FALSE
    BY <1>1, <1>2, <1>4 DEF CancelledOutcome
  <1>5. ASSUME NEW q \in Requests, Dispatch(q) PROVE FALSE
    BY <1>2, <1>3, <1>5
       DEF Dispatch, DispatchClosed, DispatchLimit, DispatchIndexing, DispatchAcquire
  <1>6. ASSUME NEW q \in Requests, BeginAnswers(q)
        PROVE  tableOpen[tableOf[r]] /\ ~cancelled[r]
    <2>1. q = r /\ ~cancelled[q] /\ adapterOp[q] = "beginning" /\ toCancel = {}
      BY <1>1, <1>2, <1>6
         DEF BeginAnswers, BeginPending, BeginComplete, BeginFails, BeginLate, BeginsNow,
             CompleteRead
    <2>2. r \in Active BY <2>1 DEF OperationOwned, Active
    <2>3. QED BY <2>1, <2>2 DEF Scheduled
  <1>7. ASSUME NEW q \in Requests, Microtask(q) PROVE FALSE
    BY <1>1, <1>2, <1>3, <1>4, <1>7
       DEF Microtask, ResumeIndexingCancelled, ResumeIndexingAgain, ResumeIndexingDone,
           ResumeRejected, ResumeGranted, GrantedCancelled, BeginRead, ResumeCancelledRead
  <1>8. ASSUME NEW q \in Requests, ReadSettles(q)
        PROVE  tableOpen[tableOf[r]] /\ ~cancelled[r]
    <2>1. q = r
      BY <1>1, <1>2, <1>8
         DEF ReadSettles, ReadCompletes, ReadFails, SourceFails, CompleteRead, CloseDatasetState
    <2>2. Quiet /\ r \in Active
      BY <1>8, <2>1 DEF ReadSettles, ReadCompletes, ReadFails, SourceFails, Active
    <2>3. QED BY <2>2 DEF Scheduled, Quiet
  <1>9. CASE outcome' = outcome BY <1>9
  <1>10. QED
    BY <1>5, <1>6, <1>7, <1>8, <1>9
       DEF RangesNext, vars, CancelActive, CancelMessage, CloseTable, CloseSource, ScanStep,
           ScanProgress, ScanDone, ScanFails, CloseDatasetState

\* completeRead posts a batch only from a read that nobody cancelled and whose
\* table is open (readRange, js/worker.ts:1384, against closeTableState and
\* closeDatasetState, 1853 and 1885).
THEOREM NoLateBatch == RangesSpec => NoBatchAfterClose
  <1>1. RangesIInv /\ [RangesNext]_vars =>
          [\A r \in Requests : outcome'[r] = "batch" /\ outcome[r] # "batch"
              => tableOpen[tableOf[r]] /\ ~cancelled[r]]_vars
    BY BatchOfOpenTable
  <1>2. QED BY <1>1, Invariant, PTL DEF RangesSpec, NoBatchAfterClose
=============================================================================
