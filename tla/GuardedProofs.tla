--------------------------- MODULE GuardedProofs ---------------------------
(***************************************************************************)
(* What three structures of the runtime keep, each behind a lock of its    *)
(* own and none of them using another: the cost ledgers, the memory tier   *)
(* of the result cache and the cancellation signal. Their lemmas share the *)
(* counting of units.                                                      *)
(***************************************************************************)
EXTENDS Ledger, MemoryCache, CancelSignal, FiniteSetTheorems, TLAPS

-----------------------------------------------------------------------------
(* The cost ledgers: for every number of attempts, ledgers and units.      *)

\* The units of one reservation, as pairs.
UnitsOf(a, n) == {a} \X (1 .. n)

\* A reservation of n units is n pairs (the arithmetic of HeldUnits).
LEMMA UnitsOfCardinality ==
    ASSUME NEW a, NEW n \in Nat
    PROVE  IsFiniteSet(UnitsOf(a, n)) /\ Cardinality(UnitsOf(a, n)) = n
<1>1. IsFiniteSet({a}) /\ Cardinality({a}) = 1
  BY FS_Singleton
<1>2. IsFiniteSet(1 .. n) /\ Cardinality(1 .. n) = n
  BY FS_Interval
<1>3. /\ IsFiniteSet({a} \X (1 .. n))
      /\ Cardinality({a} \X (1 .. n)) = Cardinality({a}) * Cardinality(1 .. n)
  <2> HIDE DEF UnitsOf
  <2> DEFINE S == {a}
             T == 1 .. n
  <2>1. IsFiniteSet(S) /\ IsFiniteSet(T)
    BY <1>1, <1>2
  <2> HIDE DEF S, T
  <2>2. IsFiniteSet(S \X T) /\ Cardinality(S \X T) = Cardinality(S) * Cardinality(T)
    BY <2>1, FS_Product
  <2>3. QED
    BY <2>2 DEF S, T
<1>4. Cardinality({a}) * Cardinality(1 .. n) = n
  BY <1>1, <1>2
<1>5. QED
  BY <1>3, <1>4 DEF UnitsOf

\* Adding a reservation adds its units.
LEMMA AddUnits ==
    ASSUME NEW S, IsFiniteSet(S), NEW a, NEW n \in Nat,
           S \cap UnitsOf(a, n) = {}
    PROVE  /\ IsFiniteSet(S \cup UnitsOf(a, n))
           /\ Cardinality(S \cup UnitsOf(a, n)) = Cardinality(S) + n
<1>1. IsFiniteSet(UnitsOf(a, n)) /\ Cardinality(UnitsOf(a, n)) = n
  BY UnitsOfCardinality
<1>2. Cardinality(S) \in Nat /\ Cardinality(S \cap UnitsOf(a, n)) = 0
  BY FS_CardinalityType, FS_EmptySet
<1>3. QED
  BY <1>1, <1>2, FS_Union

\* Removing a reservation that is there removes its units, and there were at
\* least that many.
LEMMA RemoveUnits ==
    ASSUME NEW S, IsFiniteSet(S), NEW a, NEW n \in Nat,
           UnitsOf(a, n) \subseteq S
    PROVE  /\ IsFiniteSet(S \ UnitsOf(a, n))
           /\ Cardinality(S \ UnitsOf(a, n)) = Cardinality(S) - n
           /\ n =< Cardinality(S)
<1>1. IsFiniteSet(UnitsOf(a, n)) /\ Cardinality(UnitsOf(a, n)) = n
  BY UnitsOfCardinality
<1>2. S \cap UnitsOf(a, n) = UnitsOf(a, n)
  OBVIOUS
<1>3. Cardinality(S) \in Nat /\ n =< Cardinality(S)
  BY <1>1, FS_CardinalityType, FS_Subset
<1>4. QED
  BY <1>1, <1>2, <1>3, FS_Difference

\* Pairs of a finite set's members and units are finitely many.
LEMMA PairsFinite ==
    ASSUME NEW S, IsFiniteSet(S)
    PROVE  IsFiniteSet(S \X (1 .. MaxUnits))
<1> DEFINE T == 1 .. MaxUnits
<1>1. IsFiniteSet(T)
  BY LedgerAssumption, FS_Interval
<1> HIDE DEF T
<1>2. IsFiniteSet(S \X T)
  BY <1>1, FS_Product
<1>3. QED
  BY <1>2 DEF T

\* The units held on a ledger, and those owed to it, are finitely many.
LEMMA HeldUnitsFinite ==
    ASSUME NEW l
    PROVE  IsFiniteSet(HeldUnits(l)) /\ IsFiniteSet(OwedUnits(l))
<1>1. IsFiniteSet(Attempts \X (1 .. MaxUnits)) /\ IsFiniteSet(Ids \X (1 .. MaxUnits))
  BY LedgerAssumption, PairsFinite
<1>2. /\ HeldUnits(l) \in SUBSET (Attempts \X (1 .. MaxUnits))
      /\ OwedUnits(l) \in SUBSET (Ids \X (1 .. MaxUnits))
  BY DEF HeldUnits, OwedUnits
<1>3. QED
  BY <1>1, <1>2, FS_Subset

\* A reservation in progress is among the units held.
LEMMA HoldsUnits ==
    ASSUME TypeOK, NEW a \in Attempts, NEW l \in Ledgers, Holds(a, l)
    PROVE  UnitsOf(a, units[a]) \subseteq HeldUnits(l)
  BY LedgerAssumption DEF TypeOK, UnitsOf, HeldUnits

\* One attempt taking or giving up its place on one ledger changes the units
\* held there by its own, and nothing elsewhere.
LEMMA HeldUnitsStep ==
    ASSUME TypeOK, NEW a \in Attempts, NEW l \in Ledgers, units' = units,
           \A b \in Attempts, m \in Ledgers :
               b # a \/ m # l => (Holds(b, m)' <=> Holds(b, m))
    PROVE  /\ \A m \in Ledgers \ {l} : HeldUnits(m)' = HeldUnits(m)
           /\ ~Holds(a, l) /\ Holds(a, l)' =>
                /\ HeldUnits(l) \cap UnitsOf(a, units[a]) = {}
                /\ HeldUnits(l)' = HeldUnits(l) \cup UnitsOf(a, units[a])
           /\ Holds(a, l) /\ ~Holds(a, l)' =>
                HeldUnits(l)' = HeldUnits(l) \ UnitsOf(a, units[a])
<1>1. ASSUME NEW m \in Ledgers \ {l}
      PROVE  HeldUnits(m)' = HeldUnits(m)
  BY <1>1 DEF HeldUnits
<1>2. units[a] \in 0 .. MaxUnits /\ MaxUnits \in Nat
  BY LedgerAssumption DEF TypeOK
<1>3. ASSUME ~Holds(a, l), Holds(a, l)'
      PROVE  /\ HeldUnits(l) \cap UnitsOf(a, units[a]) = {}
             /\ HeldUnits(l)' = HeldUnits(l) \cup UnitsOf(a, units[a])
  BY <1>2, <1>3 DEF HeldUnits, UnitsOf
<1>4. ASSUME Holds(a, l), ~Holds(a, l)'
      PROVE  HeldUnits(l)' = HeldUnits(l) \ UnitsOf(a, units[a])
  BY <1>2, <1>4 DEF HeldUnits, UnitsOf
<1>5. QED
  BY <1>1, <1>3, <1>4

-----------------------------------------------------------------------------
(* Type correctness.                                                       *)

\* A disclosure and a charge carry units within the bound.
LEMMA RecordTypes ==
    /\ \A c \in Charges : c.units \in 0 .. MaxUnits /\ c.units \in 0 .. Top
    /\ \A c \in Charges : c.kind \in {"observed", "estimated", "unknown"}
    /\ \A d \in Disclosures : d.units \in 0 .. MaxUnits
    /\ Unknown \in Charges
  BY LedgerAssumption DEF Charges, Disclosures, Unknown

\* Every step of an attempt and every reconciliation keeps the types.
LEMMA TypeStep == TypeOK /\ [Next]_vars => TypeOK'
<1> SUFFICES ASSUME TypeOK, [Next]_vars
             PROVE  TypeOK'
  OBVIOUS
<1> USE LedgerAssumption
<1>1. ASSUME NEW a \in Attempts, Offer(a)
      PROVE  TypeOK'
  BY <1>1, RecordTypes DEF Offer, TypeOK, ledgerVars
<1>2. ASSUME NEW a \in Attempts, ReserveNext(a)
      PROVE  TypeOK'
  <2>1. PICK l \in Ledgers :
          /\ reserved' = [reserved EXCEPT ![l] = SatAdd(@, units[a])]
          /\ held' = [held EXCEPT ![a] = @ \cup {l}]
          /\ pc' = [pc EXCEPT ![a] = IF held[a] \cup {l} = Draws[a]
                                     THEN "reserved" ELSE "reserving"]
    BY <1>2 DEF ReserveNext
  <2>2. SatAdd(reserved[l], units[a]) \in 0 .. Top
    BY DEF TypeOK, SatAdd, SatSub
  <2>3. QED
    BY <1>2, <2>1, <2>2 DEF ReserveNext, TypeOK
<1>3. ASSUME NEW a \in Attempts, ReserveRefused(a)
      PROVE  TypeOK'
  BY <1>3 DEF ReserveRefused, AfterRefusal, TypeOK, ledgerVars
<1>4. ASSUME NEW a \in Attempts, NEW l \in Ledgers, NEW rest \in {"unwinding", "releasing"},
             Release(a, l, rest)
      PROVE  TypeOK'
  <2>1. SatSub(reserved[l], units[a]) \in 0 .. Top
    BY DEF TypeOK, SatAdd, SatSub
  <2>2. QED
    BY <1>4, <2>1 DEF Release, TypeOK
<1>5. ASSUME NEW a \in Attempts, Unwind(a) \/ Withdraw(a)
      PROVE  TypeOK'
  BY <1>4, <1>5 DEF Unwind, Withdraw, TypeOK
<1>6. ASSUME NEW a \in Attempts, Hold(a)
      PROVE  TypeOK'
  BY <1>6 DEF Hold, TypeOK, ledgerVars
<1>7. ASSUME NEW a \in Attempts, End(a)
      PROVE  TypeOK'
  BY <1>7 DEF End, TypeOK, ledgerVars
<1>8. ASSUME NEW a \in Attempts, SettleNext(a)
      PROVE  TypeOK'
  <2>1. PICK l \in held[a] :
          /\ Settle(a, l)
          /\ held' = [held EXCEPT ![a] = @ \ {l}]
          /\ pc' = [pc EXCEPT ![a] = IF held[a] = {l} THEN "done" ELSE "settling"]
    BY <1>8 DEF SettleNext
  <2>2. l \in Ledgers
    BY DEF TypeOK
  <2>3. charge[a].units \in 0 .. Top /\ units[a] \in 0 .. Top
    BY RecordTypes DEF TypeOK
  <2>4. /\ SatSub(reserved[l], units[a]) \in 0 .. Top
        /\ SatAdd(observed[l], charge[a].units) \in 0 .. Top
        /\ SatAdd(estimated[l], charge[a].units) \in 0 .. Top
        /\ SatAdd(liability[l], units[a]) \in 0 .. Top
        /\ Excess(charge[a].units, units[a]) \in Nat
    BY <2>2, <2>3 DEF TypeOK, Excess, SatAdd, SatSub
  <2>5. /\ reserved' \in [Ledgers -> 0 .. Top]
        /\ observed' \in [Ledgers -> 0 .. Top]
        /\ estimated' \in [Ledgers -> 0 .. Top]
        /\ liability' \in [Ledgers -> 0 .. Top]
    BY <2>1, <2>2, <2>4 DEF Settle, TypeOK
  <2>6. /\ violations' \in [Ledgers -> Nat]
        /\ unknown' \in [Ledgers -> Nat]
        /\ overrun' \in [Ledgers -> Nat]
        /\ late' \in [Ledgers -> Nat]
    BY <2>1, <2>2, <2>4 DEF Settle, TypeOK
  <2>9. /\ strays' \in [Ledgers -> Nat]
        /\ strayUnits' \in [Ledgers -> Nat]
    <3>1. openUnits[l][Id[a]] \in Nat
      BY <2>2 DEF TypeOK
    <3>2. QED
      BY <2>1, <2>2, <3>1 DEF Settle, TypeOK
  <2>7. /\ open' \in [Ledgers -> SUBSET Ids]
        /\ openUnits' \in [Ledgers -> [Ids -> 0 .. MaxUnits]]
    BY <2>1, <2>2 DEF Settle, TypeOK
  <2>8. QED
    BY <1>8, <2>1, <2>5, <2>6, <2>7, <2>9 DEF SettleNext, TypeOK
<1>9. ASSUME NEW l \in Ledgers, Reconcile(l)
      PROVE  TypeOK'
  <2>1. PICK i \in open[l], u \in 0 .. MaxUnits :
          /\ open' = [open EXCEPT ![l] = Closed(l, i)]
          /\ liability' = [liability EXCEPT ![l] = SatSub(@, openUnits[l][i])]
          /\ unknown' = [unknown EXCEPT ![l] = SatSub(@, 1)]
          /\ observed' = [observed EXCEPT ![l] = SatAdd(@, u)]
          /\ overrun' = [overrun EXCEPT ![l] = @ + Excess(u, openUnits[l][i])]
          /\ late' = [late EXCEPT ![l] = @ + Excess(u, openUnits[l][i])]
    BY <1>9 DEF Reconcile
  <2>2. openUnits[l][i] \in 0 .. Top /\ u \in 0 .. Top
    BY DEF TypeOK
  <2>3. /\ SatSub(liability[l], openUnits[l][i]) \in 0 .. Top
        /\ SatAdd(observed[l], u) \in 0 .. Top
        /\ Excess(u, openUnits[l][i]) \in Nat
        /\ SatSub(unknown[l], 1) \in Nat
    BY <2>2 DEF TypeOK, Excess, SatAdd, SatSub
  <2>4. QED
    BY <1>9, <2>1, <2>3 DEF Reconcile, Closed, TypeOK, attemptVars
<1>10. CASE UNCHANGED vars
  BY <1>10 DEF TypeOK, vars, ledgerVars, attemptVars
<1>11. QED
  BY <1>1, <1>2, <1>3, <1>5, <1>6, <1>7, <1>8, <1>9, <1>10
     DEF Next, Attempt, Over

\* Every reachable state of the ledgers and of the attempts that draw from them
\* is well typed; in particular no u64 of Ledger's State leaves its range.
THEOREM TypeCorrect == Spec => []TypeOK
<1>1. Init => TypeOK
  BY LedgerAssumption, RecordTypes DEF Init, TypeOK
<1>2. QED
  BY <1>1, TypeStep, PTL DEF Spec

-----------------------------------------------------------------------------
(* The inductive invariant.  ReservedAccounted alone is not inductive: the *)
(* subtractions must be shown not to saturate, which needs HeldOK, and the *)
(* additions not to saturate, which needs Covered; WithinLimit needs in    *)
(* addition that an entry reconciled was part of the liability (Owed).     *)

\* An attempt holds only ledgers it draws from, and none once it is over.
HeldOK == \A a \in Attempts : held[a] \subseteq Draws[a] /\ (~Running(a) => held[a] = {})

\* Reservations and liabilities together never exceed a limit.
Covered == \A l \in Ledgers : Limited(l) => reserved[l] + liability[l] =< Limit[l]

\* The entries of a ledger are part of its liability, even when an id repeats.
Owed == \A l \in Ledgers : Limited(l) => Cardinality(OwedUnits(l)) =< liability[l]

IInv == TypeOK /\ HeldOK /\ ReservedAccounted /\ Covered /\ Owed /\ WithinLimit

\* Nothing reserved, owed or held: the invariant holds of new ledgers.
LEMMA IInvInit == Init => IInv
<1> SUFFICES ASSUME Init
             PROVE  IInv
  OBVIOUS
<1>1. TypeOK
  BY LedgerAssumption, RecordTypes DEF Init, TypeOK
<1>2. \A l \in Ledgers : HeldUnits(l) = {} /\ OwedUnits(l) = {}
  BY DEF Init, HeldUnits, OwedUnits, Holds
<1>3. HeldOK
  BY LedgerAssumption DEF Init, HeldOK
<1>4. ReservedAccounted /\ Owed
  <2>1. \A l \in Ledgers : reserved[l] = 0 /\ liability[l] = 0
    BY DEF Init
  <2>2. QED
    BY <1>2, <2>1, FS_EmptySet DEF ReservedAccounted, Owed
<1>5. Covered /\ WithinLimit
  BY LedgerAssumption DEF Init, Covered, WithinLimit
<1>6. QED
  BY <1>1, <1>3, <1>4, <1>5 DEF IInv

\* What Ledger::reserve admits fits without saturating.
LEMMA FitsExact ==
    ASSUME TypeOK, NEW l \in Ledgers, Limited(l), NEW n \in 0 .. MaxUnits, Fits(l, n)
    PROVE  reserved[l] + observed[l] + estimated[l] + liability[l] + n =< Limit[l]
<1>1. /\ reserved[l] \in 0 .. Top /\ observed[l] \in 0 .. Top
      /\ estimated[l] \in 0 .. Top /\ liability[l] \in 0 .. Top
      /\ Limit[l] \in Nat /\ Limit[l] < Top /\ Top \in Nat /\ n \in Nat
  BY LedgerAssumption, LimitAssumption DEF TypeOK
<1>2. SatAdd(Committed(l), n) =< Limit[l]
  BY DEF Fits
<1>3. QED
  BY <1>1, <1>2 DEF Committed, SatAdd

\* On any ledger, a reservation in progress is part of what is reserved.
LEMMA HeldIsReserved ==
    ASSUME IInv, NEW a \in Attempts, NEW l \in Ledgers, Limited(l), Holds(a, l)
    PROVE  /\ units[a] =< reserved[l]
           /\ Cardinality(HeldUnits(l) \ UnitsOf(a, units[a])) = reserved[l] - units[a]
<1>1. IsFiniteSet(HeldUnits(l)) /\ UnitsOf(a, units[a]) \subseteq HeldUnits(l)
  BY HeldUnitsFinite, HoldsUnits DEF IInv
<1>2. units[a] \in Nat
  BY LedgerAssumption DEF IInv, TypeOK
<1>3. /\ Cardinality(HeldUnits(l) \ UnitsOf(a, units[a])) = Cardinality(HeldUnits(l)) - units[a]
      /\ units[a] =< Cardinality(HeldUnits(l))
  BY <1>1, <1>2, RemoveUnits
<1>4. QED
  BY <1>3 DEF IInv, ReservedAccounted

\* An attempt's step that touches no ledger and no place on one.
LEMMA QuietStep ==
    ASSUME IInv, TypeOK', HeldOK',
           UNCHANGED <<reserved, observed, estimated, liability, open, openUnits, overrun>>,
           \A b \in Attempts, m \in Ledgers :
               /\ Holds(b, m)' <=> Holds(b, m)
               /\ Holds(b, m) => units'[b] = units[b]
    PROVE  IInv'
<1>1. \A m \in Ledgers : HeldUnits(m)' = HeldUnits(m)
  BY DEF HeldUnits
<1>2. \A m \in Ledgers : OwedUnits(m)' = OwedUnits(m)
  BY DEF OwedUnits
<1>3. QED
  BY <1>1, <1>2 DEF IInv, ReservedAccounted, Covered, Owed, WithinLimit, Limited

\* A step that gives up one attempt's place on one ledger, and leaves the
\* other ledgers alone, keeps the accounting of reservations.
LEMMA GiveUpStep ==
    ASSUME IInv, NEW a \in Attempts, NEW l \in Ledgers, Holds(a, l), ~Holds(a, l)',
           reserved' = [reserved EXCEPT ![l] = SatSub(@, units[a])],
           units' = units,
           \A b \in Attempts, m \in Ledgers :
               b # a \/ m # l => (Holds(b, m)' <=> Holds(b, m))
    PROVE  /\ ReservedAccounted'
           /\ Limited(l) => reserved'[l] = reserved[l] - units[a]
           /\ \A m \in Ledgers \ {l} : reserved'[m] = reserved[m]
<1>1. TypeOK
  BY DEF IInv
<1>2. /\ \A m \in Ledgers \ {l} : HeldUnits(m)' = HeldUnits(m)
      /\ HeldUnits(l)' = HeldUnits(l) \ UnitsOf(a, units[a])
  BY <1>1, HeldUnitsStep
<1>3. \A m \in Ledgers \ {l} : reserved'[m] = reserved[m]
  BY <1>1 DEF TypeOK
<1>4. ASSUME Limited(l)
      PROVE  reserved'[l] = reserved[l] - units[a] /\ reserved'[l] = Cardinality(HeldUnits(l)')
  <2>1. units[a] =< reserved[l]
    BY <1>4, HeldIsReserved
  <2>2. reserved'[l] = reserved[l] - units[a]
    BY <1>1, <2>1, LedgerAssumption DEF TypeOK, SatSub
  <2>3. QED
    BY <1>2, <1>4, <2>2, HeldIsReserved
<1>5. QED
  BY <1>2, <1>3, <1>4 DEF IInv, ReservedAccounted, Limited

\* Attempts keep to the ledgers they draw from, and end holding none.
LEMMA HeldStep == TypeOK /\ HeldOK /\ [Next]_vars => HeldOK'
<1> SUFFICES ASSUME TypeOK, HeldOK, [Next]_vars
             PROVE  HeldOK'
  OBVIOUS
<1> USE DEF HeldOK, Running, TypeOK
<1>1. ASSUME NEW a \in Attempts, Offer(a) \/ ReserveRefused(a) \/ Hold(a) \/ End(a)
      PROVE  HeldOK'
  <2>1. CASE Offer(a)
    BY <2>1 DEF Offer
  <2>2. CASE ReserveRefused(a)
    BY <2>2 DEF ReserveRefused, AfterRefusal
  <2>3. CASE Hold(a) \/ End(a)
    BY <2>3 DEF Hold, End
  <2>4. QED
    BY <1>1, <2>1, <2>2, <2>3
<1>2. ASSUME NEW a \in Attempts, ReserveNext(a)
      PROVE  HeldOK'
  BY <1>2 DEF ReserveNext, NextToReserve
<1>3. ASSUME NEW a \in Attempts, Unwind(a) \/ Withdraw(a)
      PROVE  HeldOK'
  <2>1. PICK l \in held[a], rest \in {"unwinding", "releasing"} : Release(a, l, rest)
    BY <1>3 DEF Unwind, Withdraw
  <2>2. QED
    BY <2>1 DEF Release
<1>4. ASSUME NEW a \in Attempts, SettleNext(a)
      PROVE  HeldOK'
  BY <1>4 DEF SettleNext
<1>5. ASSUME NEW l \in Ledgers, Reconcile(l)
      PROVE  HeldOK'
  BY <1>5 DEF Reconcile, attemptVars
<1>6. CASE UNCHANGED vars
  BY <1>6 DEF vars, attemptVars
<1>7. QED
  BY <1>1, <1>2, <1>3, <1>4, <1>5, <1>6 DEF Next, Attempt, Over

\* Reserving on one ledger keeps the invariant: Fits leaves room.
LEMMA ReserveStep ==
    ASSUME IInv, TypeOK', HeldOK', NEW a \in Attempts, ReserveNext(a)
    PROVE  IInv'
<1> USE LedgerAssumption
<1>1. TypeOK /\ HeldOK
  BY DEF IInv
<1>2. PICK l \in Ledgers :
        /\ NextToReserve(a, l)
        /\ Fits(l, units[a])
        /\ reserved' = [reserved EXCEPT ![l] = SatAdd(@, units[a])]
        /\ held' = [held EXCEPT ![a] = @ \cup {l}]
        /\ pc' = [pc EXCEPT ![a] = IF held[a] \cup {l} = Draws[a]
                                   THEN "reserved" ELSE "reserving"]
  BY DEF ReserveNext
<1>3. units' = units /\ UNCHANGED <<observed, estimated, liability, open, openUnits, overrun>>
  BY DEF ReserveNext
<1>4. \A b \in Attempts, m \in Ledgers :
        b # a \/ m # l => (Holds(b, m)' <=> Holds(b, m))
  BY <1>1, <1>2 DEF Holds, Running, TypeOK, ReserveNext
<1>5. ~Holds(a, l) /\ Holds(a, l)'
  BY <1>1, <1>2 DEF Holds, Running, TypeOK, NextToReserve
<1>6. /\ \A m \in Ledgers \ {l} : HeldUnits(m)' = HeldUnits(m)
      /\ HeldUnits(l) \cap UnitsOf(a, units[a]) = {}
      /\ HeldUnits(l)' = HeldUnits(l) \cup UnitsOf(a, units[a])
  BY <1>1, <1>3, <1>4, <1>5, HeldUnitsStep
<1>7. \A m \in Ledgers \ {l} : reserved'[m] = reserved[m]
  BY <1>1, <1>2 DEF TypeOK
<1>8. units[a] \in 0 .. MaxUnits /\ units[a] \in Nat
  BY <1>1 DEF TypeOK
<1>9. ASSUME Limited(l)
      PROVE  /\ reserved'[l] = reserved[l] + units[a]
             /\ reserved'[l] = Cardinality(HeldUnits(l)')
             /\ reserved'[l] + observed[l] + estimated[l] + liability[l] =< Limit[l]
  <2>1. reserved[l] + observed[l] + estimated[l] + liability[l] + units[a] =< Limit[l]
    BY <1>1, <1>2, <1>8, <1>9, FitsExact
  <2>2. /\ reserved[l] \in Nat /\ observed[l] \in Nat /\ estimated[l] \in Nat
        /\ liability[l] \in Nat /\ Limit[l] \in Nat /\ Limit[l] < Top
    BY <1>1, LimitAssumption DEF TypeOK
  <2>3. reserved'[l] = SatAdd(reserved[l], units[a])
    BY <1>1, <1>2 DEF TypeOK
  <2>4. reserved'[l] = reserved[l] + units[a]
    BY <1>8, <2>1, <2>2, <2>3 DEF SatAdd
  <2>5. Cardinality(HeldUnits(l)') = Cardinality(HeldUnits(l)) + units[a]
    BY <1>6, <1>8, AddUnits, HeldUnitsFinite
  <2>6. QED
    BY <1>8, <1>9, <2>1, <2>2, <2>4, <2>5 DEF IInv, ReservedAccounted
<1>10. ReservedAccounted'
  BY <1>6, <1>7, <1>9 DEF IInv, ReservedAccounted, Limited
<1>11. \A m \in Ledgers : OwedUnits(m)' = OwedUnits(m)
  BY <1>3 DEF OwedUnits
<1>12. Owed'
  BY <1>3, <1>11 DEF IInv, Owed, Limited
<1>13. Covered' /\ WithinLimit'
  <2>1. ASSUME NEW m \in Ledgers, Limited(m)
        PROVE  /\ reserved'[m] + liability'[m] =< Limit[m]
               /\ reserved'[m] + observed'[m] + estimated'[m] + liability'[m]
                    =< Limit[m] + overrun'[m]
    <3>1. /\ observed[m] \in Nat /\ estimated[m] \in Nat /\ liability[m] \in Nat
          /\ reserved'[m] \in Nat /\ overrun[m] \in Nat /\ Limit[m] \in Nat
      BY <1>1 DEF TypeOK
    <3>2. CASE m = l
      BY <1>3, <1>9, <2>1, <3>1, <3>2
    <3>3. CASE m # l
      BY <1>3, <1>7, <2>1, <3>1, <3>3 DEF IInv, Covered, WithinLimit
    <3>4. QED
      BY <3>2, <3>3
  <2>2. QED
    BY <2>1 DEF Covered, WithinLimit, Limited
<1>14. QED
  BY <1>10, <1>12, <1>13 DEF IInv

\* Releasing on one ledger keeps the invariant.
LEMMA ReleaseStep ==
    ASSUME IInv, TypeOK', HeldOK', NEW a \in Attempts, NEW l \in held[a], Running(a),
           NEW rest \in {"unwinding", "releasing"}, Release(a, l, rest)
    PROVE  IInv'
<1> USE LedgerAssumption
<1>1. TypeOK /\ HeldOK /\ l \in Ledgers
  BY DEF IInv, TypeOK
<1>2. units' = units /\ UNCHANGED <<observed, estimated, liability, open, openUnits, overrun>>
  BY DEF Release
<1>3. \A b \in Attempts, m \in Ledgers :
        b # a \/ m # l => (Holds(b, m)' <=> Holds(b, m))
  BY <1>1 DEF Release, Holds, Running, TypeOK
<1>4. Holds(a, l) /\ ~Holds(a, l)'
  BY <1>1 DEF Release, Holds, Running, TypeOK
<1>5. /\ ReservedAccounted'
      /\ Limited(l) => reserved'[l] = reserved[l] - units[a]
      /\ \A m \in Ledgers \ {l} : reserved'[m] = reserved[m]
  BY <1>1, <1>2, <1>3, <1>4, GiveUpStep DEF Release
<1>6. \A m \in Ledgers : OwedUnits(m)' = OwedUnits(m)
  BY <1>2 DEF OwedUnits
<1>7. Owed'
  BY <1>2, <1>6 DEF IInv, Owed, Limited
<1>8. ASSUME NEW m \in Ledgers, Limited(m)
      PROVE  /\ reserved'[m] =< reserved[m]
             /\ reserved'[m] \in Nat /\ reserved[m] \in Nat /\ liability[m] \in Nat
             /\ observed[m] \in Nat /\ estimated[m] \in Nat /\ overrun[m] \in Nat
             /\ Limit[m] \in Nat
  <2>1. units[a] \in Nat /\ reserved[m] \in Nat /\ reserved'[m] \in Nat
    BY <1>1 DEF TypeOK
  <2>2. reserved'[m] =< reserved[m]
    BY <1>5, <1>8, <2>1
  <2>3. QED
    BY <1>1, <2>1, <2>2 DEF TypeOK
<1>9. Covered'
  BY <1>2, <1>8 DEF IInv, Covered, Limited
<1>10. WithinLimit'
  BY <1>2, <1>8 DEF IInv, WithinLimit, Limited
<1>11. QED
  BY <1>5, <1>7, <1>9, <1>10 DEF IInv

\* Settling on one ledger keeps the invariant: a charge replaces the
\* reservation it settles but for its excess, an unknown charge moves it to
\* the liability.
LEMMA SettleStep ==
    ASSUME IInv, TypeOK', HeldOK', NEW a \in Attempts, SettleNext(a)
    PROVE  IInv'
<1> USE LedgerAssumption
<1>1. TypeOK /\ HeldOK
  BY DEF IInv
<1>2. PICK l \in held[a] :
        /\ Settle(a, l)
        /\ held' = [held EXCEPT ![a] = @ \ {l}]
        /\ pc' = [pc EXCEPT ![a] = IF held[a] = {l} THEN "done" ELSE "settling"]
  BY DEF SettleNext
<1> DEFINE c == charge[a]
           n == units[a]
<1>3. /\ l \in Ledgers /\ units' = units /\ pc[a] = "settling"
      /\ n \in Nat /\ n =< MaxUnits /\ c.units \in Nat /\ Id[a] \in Ids
      /\ c.kind \in {"observed", "estimated", "unknown"}
  BY <1>1, RecordTypes DEF SettleNext, TypeOK
<1>4. \A b \in Attempts, m \in Ledgers :
        b # a \/ m # l => (Holds(b, m)' <=> Holds(b, m))
  BY <1>1, <1>2, <1>3 DEF Holds, Running, TypeOK
<1>5. Holds(a, l) /\ ~Holds(a, l)'
  BY <1>1, <1>2, <1>3 DEF Holds, Running, TypeOK
<1>6. /\ ReservedAccounted'
      /\ Limited(l) => reserved'[l] = reserved[l] - n
      /\ \A m \in Ledgers \ {l} : reserved'[m] = reserved[m]
  BY <1>2, <1>3, <1>4, <1>5, GiveUpStep DEF Settle
<1>7. \A m \in Ledgers \ {l} :
        /\ observed'[m] = observed[m] /\ estimated'[m] = estimated[m]
        /\ liability'[m] = liability[m] /\ overrun'[m] = overrun[m]
        /\ open'[m] = open[m] /\ openUnits'[m] = openUnits[m]
  BY <1>1, <1>2, <1>3 DEF Settle, TypeOK
<1>8. /\ observed'[l] = IF c.kind = "observed" THEN SatAdd(observed[l], c.units) ELSE observed[l]
      /\ estimated'[l] = IF c.kind = "estimated" THEN SatAdd(estimated[l], c.units) ELSE estimated[l]
      /\ liability'[l] = IF c.kind = "unknown" THEN SatAdd(liability[l], n) ELSE liability[l]
      /\ overrun'[l] = IF c.kind = "unknown" THEN overrun[l] ELSE overrun[l] + Excess(c.units, n)
      /\ open'[l] = IF c.kind = "unknown" THEN open[l] \cup {Id[a]} ELSE open[l]
      /\ openUnits'[l] = IF c.kind = "unknown" THEN [openUnits[l] EXCEPT ![Id[a]] = n]
                                               ELSE openUnits[l]
  BY <1>1, <1>2, <1>3 DEF Settle, TypeOK
<1> HIDE DEF c, n
<1>9. ASSUME NEW m \in Ledgers
      PROVE  /\ reserved[m] \in Nat /\ observed[m] \in Nat /\ estimated[m] \in Nat
             /\ liability[m] \in Nat /\ overrun[m] \in Nat /\ Limit[m] \in Nat
             /\ Limit[m] < Top
  BY <1>1, LimitAssumption DEF TypeOK
<1>10. ASSUME Limited(l)
       PROVE  n =< reserved[l] /\ liability[l] + n =< Limit[l]
  <2>1. n =< reserved[l]
    BY <1>3, <1>5, <1>10, HeldIsReserved DEF n
  <2>2. QED
    BY <1>3, <1>9, <1>10, <2>1 DEF IInv, Covered
<1>11. ASSUME Limited(l)
       PROVE  /\ reserved'[l] + liability'[l] =< Limit[l]
              /\ reserved'[l] + observed'[l] + estimated'[l] + liability'[l]
                   =< Limit[l] + overrun'[l]
  <2>1. /\ reserved[l] + liability[l] =< Limit[l]
        /\ reserved[l] + observed[l] + estimated[l] + liability[l] =< Limit[l] + overrun[l]
    BY <1>3, <1>11 DEF IInv, Covered, WithinLimit
  <2>2. reserved'[l] = reserved[l] - n /\ n =< reserved[l]
    BY <1>6, <1>10, <1>11
  <2>3. CASE c.kind = "unknown"
    BY <1>3, <1>8, <1>9, <1>10, <1>11, <2>1, <2>2, <2>3 DEF SatAdd
  <2>4. CASE c.kind = "observed"
    BY <1>3, <1>8, <1>9, <2>1, <2>2, <2>4 DEF SatAdd, Excess, SatSub
  <2>5. CASE c.kind = "estimated"
    BY <1>3, <1>8, <1>9, <2>1, <2>2, <2>5 DEF SatAdd, Excess, SatSub
  <2>6. QED
    BY <1>3, <2>3, <2>4, <2>5
<1>12. Covered' /\ WithinLimit'
  BY <1>6, <1>7, <1>11 DEF IInv, Covered, WithinLimit, Limited
<1>13. \A m \in Ledgers \ {l} : OwedUnits(m)' = OwedUnits(m)
  BY <1>7 DEF OwedUnits
<1>14. ASSUME Limited(l)
       PROVE  Cardinality(OwedUnits(l)') =< liability'[l]
  <2>1. IsFiniteSet(OwedUnits(l)) /\ Cardinality(OwedUnits(l)) =< liability[l]
    BY <1>3, <1>14, HeldUnitsFinite DEF IInv, Owed
  <2>2. CASE c.kind # "unknown"
    BY <1>8, <2>1, <2>2 DEF OwedUnits
  <2>3. CASE c.kind = "unknown"
    <3>1. OwedUnits(l)' \subseteq OwedUnits(l) \cup UnitsOf(Id[a], n)
      <4>1. openUnits[l] \in [Ids -> 0 .. MaxUnits]
        BY <1>1, <1>3 DEF TypeOK
      <4>2. QED
        BY <1>3, <1>8, <2>3, <4>1 DEF OwedUnits, UnitsOf
    <3>2. /\ IsFiniteSet(UnitsOf(Id[a], n)) /\ Cardinality(UnitsOf(Id[a], n)) = n
      BY <1>3, UnitsOfCardinality
    <3>3. /\ IsFiniteSet(OwedUnits(l) \cup UnitsOf(Id[a], n))
          /\ Cardinality(OwedUnits(l) \cup UnitsOf(Id[a], n))
               =< Cardinality(OwedUnits(l)) + n
      <4> DEFINE S == OwedUnits(l)
                 T == UnitsOf(Id[a], n)
      <4>1. IsFiniteSet(S \cap T) /\ Cardinality(S \cap T) \in Nat /\ Cardinality(S) \in Nat
        BY <2>1, FS_Intersection, FS_CardinalityType
      <4>2. /\ IsFiniteSet(S \cup T)
            /\ Cardinality(S \cup T) = Cardinality(S) + Cardinality(T) - Cardinality(S \cap T)
        BY <2>1, <3>2, FS_Union
      <4>3. QED
        BY <1>3, <3>2, <4>1, <4>2
    <3>4. Cardinality(OwedUnits(l)') =< Cardinality(OwedUnits(l) \cup UnitsOf(Id[a], n))
      BY <3>1, <3>3, FS_Subset
    <3>5. liability'[l] = liability[l] + n
      BY <1>3, <1>8, <1>9, <1>10, <1>14, <2>3 DEF SatAdd
    <3>6. /\ Cardinality(OwedUnits(l)) \in Nat /\ Cardinality(OwedUnits(l)') \in Nat
          /\ Cardinality(OwedUnits(l) \cup UnitsOf(Id[a], n)) \in Nat
      BY <2>1, <3>1, <3>3, FS_CardinalityType, FS_Subset
    <3>7. QED
      BY <1>3, <1>9, <2>1, <3>3, <3>4, <3>5, <3>6
  <2>4. QED
    BY <2>2, <2>3
<1>15. Owed'
  BY <1>7, <1>13, <1>14 DEF IInv, Owed, Limited
<1>16. QED
  BY <1>6, <1>12, <1>15 DEF IInv

\* Reconciling one entry keeps the invariant: the entry was part of the
\* liability, so the late charge replaces it but for its excess.
LEMMA ReconcileStep ==
    ASSUME IInv, TypeOK', HeldOK', NEW l \in Ledgers, Reconcile(l)
    PROVE  IInv'
<1> USE LedgerAssumption
<1>1. TypeOK /\ HeldOK
  BY DEF IInv
<1>2. PICK i \in open[l], u \in 0 .. MaxUnits :
        /\ open' = [open EXCEPT ![l] = Closed(l, i)]
        /\ liability' = [liability EXCEPT ![l] = SatSub(@, openUnits[l][i])]
        /\ observed' = [observed EXCEPT ![l] = SatAdd(@, u)]
        /\ overrun' = [overrun EXCEPT ![l] = @ + Excess(u, openUnits[l][i])]
  BY DEF Reconcile
<1>3. UNCHANGED <<reserved, estimated, openUnits, pc, held, units>>
  BY DEF Reconcile, attemptVars
<1> DEFINE n == openUnits[l][i]
<1>4. /\ i \in Ids /\ n \in Nat /\ n =< MaxUnits /\ u \in Nat
      /\ openUnits[l] \in [Ids -> 0 .. MaxUnits]
  BY <1>1 DEF TypeOK
<1>5. ReservedAccounted'
  <2>1. \A m \in Ledgers : HeldUnits(m)' = HeldUnits(m)
    BY <1>3 DEF HeldUnits, Holds, Running
  <2>2. QED
    BY <1>3, <2>1 DEF IInv, ReservedAccounted, Limited
<1>6. \A m \in Ledgers \ {l} :
        /\ liability'[m] = liability[m] /\ observed'[m] = observed[m]
        /\ overrun'[m] = overrun[m] /\ open'[m] = open[m]
  BY <1>1, <1>2 DEF TypeOK
<1>7. /\ liability'[l] = SatSub(liability[l], n)
      /\ observed'[l] = SatAdd(observed[l], u)
      /\ overrun'[l] = overrun[l] + Excess(u, n)
      /\ open'[l] = open[l] \ {i}
  BY <1>1, <1>2 DEF TypeOK, Closed
<1>8. ASSUME NEW m \in Ledgers
      PROVE  /\ reserved[m] \in Nat /\ observed[m] \in Nat /\ estimated[m] \in Nat
             /\ liability[m] \in Nat /\ overrun[m] \in Nat /\ Limit[m] \in Nat
  BY <1>1 DEF TypeOK
<1>9. /\ UnitsOf(i, n) \subseteq OwedUnits(l)
      /\ OwedUnits(l)' = OwedUnits(l) \ UnitsOf(i, n)
  BY <1>3, <1>4, <1>7 DEF OwedUnits, UnitsOf
<1> HIDE DEF n
<1>10. /\ Cardinality(OwedUnits(l)') = Cardinality(OwedUnits(l)) - n
       /\ n =< Cardinality(OwedUnits(l))
       /\ Cardinality(OwedUnits(l)) \in Nat
  BY <1>4, <1>9, HeldUnitsFinite, RemoveUnits, FS_CardinalityType
<1>11. ASSUME Limited(l)
       PROVE  /\ liability'[l] = liability[l] - n
              /\ Cardinality(OwedUnits(l)') =< liability'[l]
  <2>1. Cardinality(OwedUnits(l)) =< liability[l]
    BY <1>11 DEF IInv, Owed
  <2>2. QED
    BY <1>4, <1>7, <1>8, <1>10, <2>1 DEF SatSub
<1>12. Owed'
  <2>1. \A m \in Ledgers \ {l} : OwedUnits(m)' = OwedUnits(m)
    BY <1>3, <1>6 DEF OwedUnits
  <2>2. QED
    BY <1>6, <1>11, <2>1 DEF IInv, Owed, Limited
<1>13. ASSUME Limited(l)
       PROVE  /\ reserved'[l] + liability'[l] =< Limit[l]
              /\ reserved'[l] + observed'[l] + estimated'[l] + liability'[l]
                   =< Limit[l] + overrun'[l]
  <2>1. /\ reserved[l] + liability[l] =< Limit[l]
        /\ reserved[l] + observed[l] + estimated[l] + liability[l] =< Limit[l] + overrun[l]
    BY <1>13 DEF IInv, Covered, WithinLimit
  <2>2. QED
    BY <1>3, <1>4, <1>7, <1>8, <1>11, <1>13, <2>1 DEF SatAdd, Excess, SatSub
<1>14. Covered' /\ WithinLimit'
  BY <1>3, <1>6, <1>13 DEF IInv, Covered, WithinLimit, Limited
<1>15. QED
  BY <1>5, <1>12, <1>14 DEF IInv

\* Every step keeps the inductive invariant.
LEMMA IInvStep == IInv /\ [Next]_vars => IInv'
<1> SUFFICES ASSUME IInv, [Next]_vars
             PROVE  IInv'
  OBVIOUS
<1>1. TypeOK /\ HeldOK
  BY DEF IInv
<1>2. TypeOK' /\ HeldOK'
  BY <1>1, TypeStep, HeldStep
<1>3. ASSUME NEW a \in Attempts, Offer(a)
      PROVE  IInv'
  <2>1. pc[a] = "idle" /\ held[a] = {}
    BY <1>1, <1>3 DEF Offer, HeldOK, Running
  <2>2. UNCHANGED <<reserved, observed, estimated, liability, open, openUnits, overrun>>
    BY <1>3 DEF Offer, ledgerVars
  <2>3. ASSUME NEW b \in Attempts, NEW m \in Ledgers
        PROVE  /\ Holds(b, m)' <=> Holds(b, m)
               /\ Holds(b, m) => units'[b] = units[b]
    BY <1>1, <1>3, <2>1 DEF Offer, Holds, Running, TypeOK
  <2>4. QED
    BY <1>2, <2>2, <2>3, QuietStep
<1>4. ASSUME NEW a \in Attempts, ReserveRefused(a) \/ Hold(a) \/ End(a)
      PROVE  IInv'
  <2>1. UNCHANGED <<reserved, observed, estimated, liability, open, openUnits, overrun>>
    BY <1>4 DEF ReserveRefused, Hold, End, ledgerVars
  <2>2. ASSUME NEW b \in Attempts, NEW m \in Ledgers
        PROVE  /\ Holds(b, m)' <=> Holds(b, m)
               /\ Holds(b, m) => units'[b] = units[b]
    BY <1>1, <1>4 DEF ReserveRefused, AfterRefusal, Hold, End, Holds, Running, TypeOK
  <2>3. QED
    BY <1>2, <2>1, <2>2, QuietStep
<1>5. ASSUME NEW a \in Attempts, ReserveNext(a)
      PROVE  IInv'
  BY <1>2, <1>5, ReserveStep
<1>6. ASSUME NEW a \in Attempts, Unwind(a) \/ Withdraw(a)
      PROVE  IInv'
  <2>1. PICK l \in held[a], rest \in {"unwinding", "releasing"} : Release(a, l, rest)
    BY <1>6 DEF Unwind, Withdraw
  <2>2. Running(a)
    BY <1>6 DEF Unwind, Withdraw, Running
  <2>3. QED
    BY <1>2, <2>1, <2>2, ReleaseStep
<1>7. ASSUME NEW a \in Attempts, SettleNext(a)
      PROVE  IInv'
  BY <1>2, <1>7, SettleStep
<1>8. ASSUME NEW l \in Ledgers, Reconcile(l)
      PROVE  IInv'
  BY <1>2, <1>8, ReconcileStep
<1>9. CASE UNCHANGED vars
  <2>1. UNCHANGED <<reserved, observed, estimated, liability, open, openUnits, overrun>>
    BY <1>9 DEF vars, ledgerVars
  <2>2. ASSUME NEW b \in Attempts, NEW m \in Ledgers
        PROVE  /\ Holds(b, m)' <=> Holds(b, m)
               /\ Holds(b, m) => units'[b] = units[b]
    BY <1>9 DEF vars, attemptVars, Holds, Running
  <2>3. QED
    BY <1>2, <2>1, <2>2, QuietStep
<1>10. QED
  BY <1>3, <1>4, <1>5, <1>6, <1>7, <1>8, <1>9 DEF Next, Attempt, Over

\* The reserved units of every limited ledger are those of the attempts in
\* progress, whatever their interleaving over several ledgers
\* (DecisionCtx::reserve, release and Held).
THEOREM ReservationsAccounted == Spec => []ReservedAccounted
<1>1. IInv => ReservedAccounted
  BY DEF IInv
<1>2. QED
  BY <1>1, IInvInit, IInvStep, PTL DEF Spec

\* No interleaving of attempts commits more than a limited ledger's limit, but
\* for the excess adapters charged over their reservations (Ledger::reserve).
THEOREM LimitKept == Spec => []WithinLimit
<1>1. IInv => WithinLimit
  BY DEF IInv
<1>2. QED
  BY <1>1, IInvInit, IInvStep, PTL DEF Spec
-----------------------------------------------------------------------------
(* The summary.  Entries replaced under a repeated id are carried in        *)
(* strays, and charges reconciled beyond a reservation in late.             *)

\* What is reserved on a hard ledger is an enforceable bound.
BoundedOK ==
    \A a \in Attempts : Running(a) => \A l \in Draws[a] : Mode[l] = "hard" => bounded[a]

\* A hard ledger without a violation was charged beyond a reservation only late.
NoOverrun ==
    \A l \in Ledgers : Mode[l] = "hard" /\ violations[l] = 0 => overrun[l] = late[l]

SInv == BoundedOK /\ NoOverrun /\ LiabilityAccounted

\* New ledgers have no entry and no attempt that runs.
LEMMA SInvInit == Init => SInv
<1> SUFFICES ASSUME Init
             PROVE  SInv
  OBVIOUS
<1>1. \A l \in Ledgers : OwedUnits(l) = {} /\ open[l] = {}
  BY DEF Init, OwedUnits
<1>2. BoundedOK /\ NoOverrun
  BY <1>1 DEF Init, BoundedOK, NoOverrun, Running
<1>3. LiabilityAccounted
  <2>1. Cardinality({}) = 0
    BY FS_EmptySet
  <2>2. \A l \in Ledgers : Cardinality(OwedUnits(l)) = 0 /\ Cardinality(open[l]) = 0
    BY <1>1, <2>1
  <2>3. \A l \in Ledgers :
          liability[l] = 0 /\ strayUnits[l] = 0 /\ unknown[l] = 0 /\ strays[l] = 0
    BY DEF Init
  <2>4. QED
    BY <2>2, <2>3 DEF LiabilityAccounted
<1>4. QED
  BY <1>2, <1>3 DEF SInv

\* A step that changes no entry, no liability and no count of violations keeps
\* what the summary rests on.
LEMMA EntriesKept ==
    ASSUME SInv, UNCHANGED <<open, openUnits, liability, unknown, violations, overrun, late,
                             strays, strayUnits>>,
           BoundedOK'
    PROVE  SInv'
<1>1. \A l \in Ledgers : OwedUnits(l)' = OwedUnits(l)
  BY DEF OwedUnits
<1>2. NoOverrun' /\ LiabilityAccounted'
  BY <1>1 DEF SInv, NoOverrun, LiabilityAccounted, Limited
<1>3. QED
  BY <1>2 DEF SInv

\* Only an offer that every ledger accepts sets an attempt running.
LEMMA BoundedStep == TypeOK /\ BoundedOK /\ [Next]_vars => BoundedOK'
<1> USE LedgerAssumption
<1> SUFFICES ASSUME TypeOK, BoundedOK, [Next]_vars,
                    NEW b \in Attempts, Running(b)',
                    NEW l \in Draws[b], Mode[l] = "hard"
             PROVE  bounded'[b]
  BY DEF BoundedOK
<1>1. ASSUME NEW a \in Attempts, Offer(a), a = b
      PROVE  bounded'[b]
  <2>1. PICK bound \in Disclosures :
          /\ bounded' = [bounded EXCEPT ![a] = bound.kind = "bounded"]
          /\ pc' = [pc EXCEPT ![a] = IF \A m \in Draws[a] : Accepts(m, bound)
                                     THEN "reserving" ELSE "refused"]
    BY <1>1 DEF Offer
  <2>2. pc'[a] # "refused"
    BY <1>1 DEF Running
  <2>3. Accepts(l, bound)
    BY <1>1, <2>1, <2>2 DEF TypeOK
  <2>4. bound.kind = "bounded"
    BY <2>3 DEF Accepts
  <2>5. QED
    BY <1>1, <2>1, <2>4 DEF TypeOK
<1>2. ASSUME bounded'[b] = bounded[b], Running(b)
      PROVE  bounded'[b]
  BY <1>2 DEF BoundedOK
<1>3. ASSUME NEW a \in Attempts, Offer(a), a # b
      PROVE  bounded'[b]
  <2>1. bounded'[b] = bounded[b] /\ pc'[b] = pc[b]
    BY <1>3 DEF Offer, TypeOK
  <2>2. QED
    BY <1>2, <2>1 DEF Running
<1>4. ASSUME NEW a \in Attempts,
             \/ ReserveNext(a) \/ ReserveRefused(a) \/ Unwind(a)
             \/ Withdraw(a) \/ Hold(a) \/ End(a) \/ SettleNext(a)
      PROVE  bounded'[b]
  <2>1. bounded' = bounded
    BY <1>4 DEF ReserveNext, ReserveRefused, Unwind, Withdraw, Hold, End, SettleNext, Release
  <2>2. Running(a)
    BY <1>4 DEF ReserveNext, ReserveRefused, Unwind, Withdraw, Hold, End, SettleNext, Running
  <2>3. \A c \in Attempts \ {a} : pc'[c] = pc[c]
    BY <1>4 DEF ReserveNext, ReserveRefused, Unwind, Withdraw, Hold, End, SettleNext, Release,
                TypeOK
  <2>4. QED
    BY <1>2, <2>1, <2>2, <2>3 DEF Running
<1>5. ASSUME (\E m \in Ledgers : Reconcile(m)) \/ UNCHANGED vars
      PROVE  bounded'[b]
  <2>1. bounded' = bounded /\ pc' = pc
    BY <1>5 DEF Reconcile, vars, attemptVars
  <2>2. QED
    BY <1>2, <2>1 DEF Running
<1>6. QED
  BY <1>1, <1>3, <1>4, <1>5 DEF Next, Attempt, Over

\* Settling: an unknown charge is an entry of its own, or takes the place of the
\* one under its id; a known one above its bound is a violation.
LEMMA SettleTrue ==
    ASSUME IInv, SInv, BoundedOK', NEW a \in Attempts, SettleNext(a)
    PROVE  SInv'
<1> USE LedgerAssumption
<1>1. TypeOK /\ HeldOK
  BY DEF IInv
<1>2. PICK l \in held[a] :
        /\ Settle(a, l)
        /\ held' = [held EXCEPT ![a] = @ \ {l}]
        /\ pc' = [pc EXCEPT ![a] = IF held[a] = {l} THEN "done" ELSE "settling"]
  BY DEF SettleNext
<1> DEFINE c == charge[a]
           n == units[a]
           i == Id[a]
           old == openUnits[l][i]
           replaces == c.kind = "unknown" /\ i \in open[l]
<1>3. /\ l \in Ledgers /\ l \in Draws[a] /\ pc[a] = "settling" /\ Running(a)
      /\ n \in Nat /\ n =< MaxUnits /\ c.units \in Nat /\ i \in Ids
      /\ old \in Nat /\ old =< MaxUnits /\ openUnits[l] \in [Ids -> 0 .. MaxUnits]
      /\ c.kind \in {"observed", "estimated", "unknown"}
  BY <1>1, RecordTypes DEF SettleNext, TypeOK, HeldOK, Running
<1>4. /\ \A m \in Ledgers \ {l} :
           /\ liability'[m] = liability[m] /\ unknown'[m] = unknown[m]
           /\ violations'[m] = violations[m] /\ overrun'[m] = overrun[m]
           /\ open'[m] = open[m] /\ openUnits'[m] = openUnits[m]
      /\ late' = late
      /\ liability'[l] = IF c.kind = "unknown" THEN SatAdd(liability[l], n) ELSE liability[l]
      /\ unknown'[l] = IF c.kind = "unknown" THEN unknown[l] + 1 ELSE unknown[l]
      /\ violations'[l] = IF Violates(c, n, bounded[a]) THEN violations[l] + 1 ELSE violations[l]
      /\ overrun'[l] = IF c.kind = "unknown" THEN overrun[l] ELSE overrun[l] + Excess(c.units, n)
      /\ open'[l] = IF c.kind = "unknown" THEN open[l] \cup {i} ELSE open[l]
      /\ openUnits'[l] = IF c.kind = "unknown" THEN [openUnits[l] EXCEPT ![i] = n]
                                               ELSE openUnits[l]
  BY <1>1, <1>2, <1>3 DEF Settle, TypeOK
<1>5. /\ \A m \in Ledgers \ {l} : strays'[m] = strays[m] /\ strayUnits'[m] = strayUnits[m]
      /\ strays'[l] = IF replaces THEN strays[l] + 1 ELSE strays[l]
      /\ strayUnits'[l] = IF replaces THEN strayUnits[l] + old ELSE strayUnits[l]
      /\ strays[l] \in Nat /\ strayUnits[l] \in Nat
  BY <1>1, <1>2, <1>3 DEF Settle, TypeOK
<1> HIDE DEF c, n, i, old, replaces
<1>7. NoOverrun'
  <2>1. ASSUME Mode[l] = "hard", violations'[l] = 0
        PROVE  overrun'[l] = late'[l]
    <3>1. bounded[a]
      BY <1>3, <2>1 DEF SInv, BoundedOK
    <3>2. violations[l] \in Nat /\ overrun[l] \in Nat
      BY <1>1, <1>3 DEF TypeOK
    <3>3. violations[l] = 0 /\ ~Violates(c, n, bounded[a])
      BY <1>4, <2>1, <3>2
    <3>4. overrun[l] = late[l]
      BY <1>3, <2>1, <3>3 DEF SInv, NoOverrun
    <3>5. CASE c.kind = "unknown"
      BY <1>4, <3>4, <3>5
    <3>6. CASE c.kind # "unknown"
      <4>1. ~(c.units > n)
        BY <3>1, <3>3, <3>6 DEF Violates
      <4>2. Excess(c.units, n) = 0
        BY <1>3, <4>1 DEF Excess, SatSub
      <4>3. QED
        BY <1>4, <3>2, <3>4, <3>6, <4>2
    <3>7. QED
      BY <3>5, <3>6
  <2>2. QED
    BY <1>4, <2>1 DEF SInv, NoOverrun
<1>8. \A m \in Ledgers \ {l} : OwedUnits(m)' = OwedUnits(m)
  BY <1>4 DEF OwedUnits
<1>9. ASSUME Limited(l)
      PROVE  /\ liability'[l] = Cardinality(OwedUnits(l)') + strayUnits'[l]
             /\ unknown'[l] = Cardinality(open'[l]) + strays'[l]
  <2>1. /\ IsFiniteSet(OwedUnits(l)) /\ IsFiniteSet(open[l])
        /\ Cardinality(OwedUnits(l)) \in Nat /\ Cardinality(open[l]) \in Nat
        /\ liability[l] = Cardinality(OwedUnits(l)) + strayUnits[l]
        /\ unknown[l] = Cardinality(open[l]) + strays[l]
    <3>1. IsFiniteSet(open[l])
      BY <1>1, <1>3, FS_Subset DEF TypeOK
    <3>2. QED
      BY <1>3, <1>9, <3>1, HeldUnitsFinite, FS_CardinalityType DEF IInv, SInv, LiabilityAccounted
  <2>2. CASE c.kind # "unknown"
    BY <1>4, <1>5, <2>1, <2>2 DEF OwedUnits, replaces
  <2>3. CASE c.kind = "unknown"
    <3> DEFINE lost == IF i \in open[l] THEN old ELSE 0
               rest == OwedUnits(l) \ UnitsOf(i, lost)
    <3>1. lost \in Nat /\ UnitsOf(i, lost) \subseteq OwedUnits(l)
      BY <1>3 DEF OwedUnits, UnitsOf, old
    <3>2. /\ OwedUnits(l)' = rest \cup UnitsOf(i, n)
          /\ rest \cap UnitsOf(i, n) = {}
      BY <1>3, <1>4, <2>3 DEF OwedUnits, UnitsOf, old
    <3> HIDE DEF lost
    <3>3. /\ IsFiniteSet(rest)
          /\ Cardinality(rest) = Cardinality(OwedUnits(l)) - lost
          /\ lost =< Cardinality(OwedUnits(l))
      BY <2>1, <3>1, RemoveUnits
    <3>4. Cardinality(OwedUnits(l)') = Cardinality(OwedUnits(l)) - lost + n
      <4> HIDE DEF rest
      <4>1. Cardinality(rest \cup UnitsOf(i, n)) = Cardinality(rest) + n
        BY <1>3, <3>2, <3>3, AddUnits
      <4>2. QED
        BY <3>2, <3>3, <4>1
    <3>5. Holds(a, l)
      BY <1>2, <1>3 DEF Holds
    <3>6. n =< reserved[l]
      BY <1>3, <1>9, <3>5, HeldIsReserved DEF n
    <3>7. /\ reserved[l] \in Nat /\ liability[l] \in Nat /\ Limit[l] \in Nat /\ Limit[l] < Top
          /\ reserved[l] + liability[l] =< Limit[l]
      BY <1>1, <1>3, <1>9, LimitAssumption DEF TypeOK, IInv, Covered
    <3>8. liability'[l] = liability[l] + n
      BY <1>3, <1>4, <2>3, <3>6, <3>7 DEF SatAdd
    <3>9. strayUnits'[l] = strayUnits[l] + lost
      BY <1>5, <2>3 DEF lost, replaces
    <3>10. Cardinality(open'[l]) = Cardinality(open[l]) + IF i \in open[l] THEN 0 ELSE 1
      <4> DEFINE S == open[l]
      <4>1. IsFiniteSet(S) /\ Cardinality(S) \in Nat /\ open'[l] = S \cup {i}
        BY <1>4, <2>1, <2>3
      <4> HIDE DEF S
      <4>2. i \notin S => Cardinality(S \cup {i}) = Cardinality(S) + 1
        BY <4>1, FS_AddElement
      <4>3. ASSUME i \in S
            PROVE  Cardinality(S \cup {i}) = Cardinality(S)
        <5>1. S \cup {i} = S
          BY <4>3
        <5>2. QED
          BY <5>1, Zenon
      <4>4. Cardinality(S \cup {i}) = Cardinality(S) + IF i \in S THEN 0 ELSE 1
        BY <4>1, <4>2, <4>3
      <4>5. QED
        BY <4>1, <4>4 DEF S
    <3>11. liability'[l] = Cardinality(OwedUnits(l)') + strayUnits'[l]
      BY <1>3, <1>5, <2>1, <3>1, <3>3, <3>4, <3>8, <3>9
    <3>12. unknown'[l] = Cardinality(open'[l]) + strays'[l]
      BY <1>4, <1>5, <2>1, <2>3, <3>10 DEF replaces
    <3>13. QED
      BY <3>11, <3>12
  <2>4. QED
    BY <2>2, <2>3
<1>10. LiabilityAccounted'
  BY <1>4, <1>5, <1>8, <1>9 DEF SInv, LiabilityAccounted, Limited
<1>11. QED
  BY <1>7, <1>10 DEF SInv

\* Reconciling: the entry, its units and its count go together, and what it is
\* charged beyond them is late.
LEMMA ReconcileTrue ==
    ASSUME IInv, SInv, BoundedOK', NEW l \in Ledgers, Reconcile(l)
    PROVE  SInv'
<1> USE LedgerAssumption
<1>1. TypeOK
  BY DEF IInv
<1>2. PICK i \in open[l], u \in 0 .. MaxUnits :
        /\ open' = [open EXCEPT ![l] = Closed(l, i)]
        /\ liability' = [liability EXCEPT ![l] = SatSub(@, openUnits[l][i])]
        /\ unknown' = [unknown EXCEPT ![l] = SatSub(@, 1)]
        /\ overrun' = [overrun EXCEPT ![l] = @ + Excess(u, openUnits[l][i])]
        /\ late' = [late EXCEPT ![l] = @ + Excess(u, openUnits[l][i])]
  BY DEF Reconcile
<1>3. UNCHANGED <<violations, openUnits, strays, strayUnits>>
  BY DEF Reconcile, attemptVars
<1> DEFINE n == openUnits[l][i]
<1>4. /\ i \in Ids /\ n \in Nat /\ n =< MaxUnits
      /\ openUnits[l] \in [Ids -> 0 .. MaxUnits]
  BY <1>1 DEF TypeOK
<1>5. /\ \A m \in Ledgers \ {l} :
           /\ liability'[m] = liability[m] /\ unknown'[m] = unknown[m]
           /\ overrun'[m] = overrun[m] /\ late'[m] = late[m] /\ open'[m] = open[m]
      /\ liability'[l] = SatSub(liability[l], n)
      /\ unknown'[l] = SatSub(unknown[l], 1)
      /\ overrun'[l] = overrun[l] + Excess(u, n)
      /\ late'[l] = late[l] + Excess(u, n)
      /\ open'[l] = open[l] \ {i}
  BY <1>1, <1>2 DEF TypeOK, Closed
<1>8. NoOverrun'
  BY <1>3, <1>5 DEF SInv, NoOverrun
<1>9. /\ UnitsOf(i, n) \subseteq OwedUnits(l)
      /\ OwedUnits(l)' = OwedUnits(l) \ UnitsOf(i, n)
      /\ \A m \in Ledgers \ {l} : OwedUnits(m)' = OwedUnits(m)
  BY <1>3, <1>4, <1>5 DEF OwedUnits, UnitsOf
<1> HIDE DEF n
<1>10. ASSUME Limited(l)
       PROVE  /\ liability'[l] = Cardinality(OwedUnits(l)') + strayUnits'[l]
              /\ unknown'[l] = Cardinality(open'[l]) + strays'[l]
  <2>1. /\ liability[l] = Cardinality(OwedUnits(l)) + strayUnits[l]
        /\ unknown[l] = Cardinality(open[l]) + strays[l]
    BY <1>10 DEF SInv, LiabilityAccounted
  <2>2. /\ Cardinality(OwedUnits(l)') = Cardinality(OwedUnits(l)) - n
        /\ n =< Cardinality(OwedUnits(l)) /\ Cardinality(OwedUnits(l)) \in Nat
    <3>1. IsFiniteSet(OwedUnits(l)) /\ Cardinality(OwedUnits(l)) \in Nat
      BY HeldUnitsFinite, FS_CardinalityType
    <3>2. /\ OwedUnits(l)' = OwedUnits(l) \ UnitsOf(i, n)
          /\ UnitsOf(i, n) \subseteq OwedUnits(l) /\ n \in Nat
      BY <1>4, <1>9
    <3>3. /\ Cardinality(OwedUnits(l) \ UnitsOf(i, n)) = Cardinality(OwedUnits(l)) - n
          /\ n =< Cardinality(OwedUnits(l))
      BY <3>1, <3>2, RemoveUnits
    <3>4. QED
      BY <3>1, <3>2, <3>3
  <2>3. /\ liability[l] \in Nat /\ unknown[l] \in Nat
        /\ strays[l] \in Nat /\ strayUnits[l] \in Nat
    BY <1>1 DEF TypeOK
  <2>4. liability'[l] = Cardinality(OwedUnits(l)') + strayUnits'[l]
    BY <1>3, <1>4, <1>5, <2>1, <2>2, <2>3 DEF SatSub
  <2>5. IsFiniteSet(open[l])
    BY <1>1, FS_Subset DEF TypeOK
  <2>6. Cardinality(open'[l]) = Cardinality(open[l]) - 1
    <3> DEFINE S == open[l]
    <3>1. IsFiniteSet(S) /\ i \in S
      BY <2>5
    <3> HIDE DEF S
    <3>2. Cardinality(S \ {i}) = Cardinality(S) - 1
      BY <3>1, FS_RemoveElement
    <3>3. QED
      BY <1>5, <3>2 DEF S
  <2>7. Cardinality(open[l]) # 0 /\ Cardinality(open[l]) \in Nat
    BY <2>5, FS_EmptySet, FS_CardinalityType
  <2>8. unknown'[l] = Cardinality(open'[l]) + strays'[l]
    BY <1>3, <1>5, <2>1, <2>3, <2>6, <2>7 DEF SatSub
  <2>9. QED
    BY <2>4, <2>8
<1>11. LiabilityAccounted'
  <2> SUFFICES ASSUME NEW m \in Ledgers, Limited(m)
               PROVE  /\ liability'[m] = Cardinality(OwedUnits(m)') + strayUnits'[m]
                      /\ unknown'[m] = Cardinality(open'[m]) + strays'[m]
    BY DEF LiabilityAccounted, Limited
  <2>1. CASE m = l
    BY <1>10, <2>1
  <2>2. CASE m # l
    <3>1. /\ liability[m] = Cardinality(OwedUnits(m)) + strayUnits[m]
          /\ unknown[m] = Cardinality(open[m]) + strays[m]
      BY DEF SInv, LiabilityAccounted
    <3>2. /\ OwedUnits(m)' = OwedUnits(m) /\ open'[m] = open[m]
          /\ liability'[m] = liability[m] /\ unknown'[m] = unknown[m]
          /\ strays'[m] = strays[m] /\ strayUnits'[m] = strayUnits[m]
      BY <1>3, <1>5, <1>9, <2>2
    <3>3. QED
      BY <3>1, <3>2
  <2>3. QED
    BY <2>1, <2>2
<1>12. QED
  BY <1>8, <1>11 DEF SInv

\* Every step keeps what the summary rests on.
LEMMA SInvStep ==
    ASSUME IInv, SInv, [Next]_vars
    PROVE  SInv'
<1>1. TypeOK
  BY DEF IInv
<1>2. BoundedOK'
  BY <1>1, BoundedStep DEF SInv
<1>3. ASSUME NEW a \in Attempts,
             \/ Offer(a) \/ ReserveNext(a) \/ ReserveRefused(a) \/ Unwind(a)
             \/ Withdraw(a) \/ Hold(a) \/ End(a)
      PROVE  SInv'
  <2>1. UNCHANGED <<open, openUnits, liability, unknown, violations, overrun, late, strays,
                    strayUnits>>
    BY <1>3 DEF Offer, ReserveNext, ReserveRefused, Unwind, Withdraw, Hold, End, Release, ledgerVars
  <2>2. QED
    BY <1>2, <2>1, EntriesKept
<1>4. ASSUME NEW a \in Attempts, SettleNext(a)
      PROVE  SInv'
  BY <1>2, <1>4, SettleTrue
<1>5. ASSUME NEW l \in Ledgers, Reconcile(l)
      PROVE  SInv'
  BY <1>2, <1>5, ReconcileTrue
<1>6. CASE UNCHANGED vars
  <2>1. UNCHANGED <<open, openUnits, liability, unknown, violations, overrun, late, strays,
                    strayUnits>>
    BY <1>6 DEF vars, ledgerVars
  <2>2. QED
    BY <1>2, <2>1, EntriesKept
<1>7. QED
  BY <1>3, <1>4, <1>5, <1>6 DEF Next, Attempt, Over

\* What a summary says of a ledger is true at every step, whatever ids repeat and
\* whatever hosts reconcile: liability is what can still be reconciled and what
\* replaced entries left behind, and a cap called guaranteed was kept but for what
\* was reconciled beyond reservations (Ledger::summary).
THEOREM SummaryStaysTrue == Spec => []SummaryTrue
<1>1. IInv /\ SInv => SummaryTrue
  <2> SUFFICES ASSUME IInv, SInv
               PROVE  SummaryTrue
    OBVIOUS
  <2>1. ASSUME NEW l \in Ledgers, WithinGuaranteedCap(l)
        PROVE  reserved[l] + observed[l] + estimated[l] + liability[l] =< Limit[l] + late[l]
    <3>1. Limited(l) /\ overrun[l] = late[l]
      BY <2>1 DEF WithinGuaranteedCap, Limited, SInv, NoOverrun
    <3>2. QED
      BY <3>1 DEF IInv, WithinLimit
  <2>2. QED
    BY <2>1 DEF SummaryTrue, CapIsKept, IInv, SInv
<1>2. Init => IInv /\ SInv
  BY IInvInit, SInvInit
<1>3. IInv /\ SInv /\ [Next]_vars => (IInv /\ SInv)'
  BY IInvStep, SInvStep
<1>4. QED
  BY <1>1, <1>2, <1>3, PTL DEF Spec

-----------------------------------------------------------------------------
(* The memory tier of one namespace: for every policy, and every digest    *)
(* function.                                                               *)

\* Of a finite set of positions, the one that k of them do not exceed.
Below(T, k) == Cardinality({j \in T : j <= k})

\* Ranks follow the order of the positions, and each up to the size of the set
\* is the rank of one of them.
LEMMA Ranks ==
    ASSUME NEW n \in Nat, NEW T \in SUBSET (1..n)
    PROVE  /\ IsFiniteSet(T) /\ Cardinality(T) \in Nat
           /\ \A k \in T : Below(T, k) \in 1..Cardinality(T)
           /\ \A k, m \in T : k < m => Below(T, k) < Below(T, m)
           /\ \A r \in 1..Cardinality(T) : \E k \in T : Below(T, k) = r
<1>1. IsFiniteSet(T) /\ Cardinality(T) \in Nat
  <2>1. IsFiniteSet(1..n)
    BY FS_Interval
  <2>2. IsFiniteSet(T)
    BY <2>1, FS_Subset
  <2>3. QED
    BY <2>2, FS_CardinalityType
<1>2. ASSUME NEW k \in T
      PROVE  Below(T, k) \in 1..Cardinality(T)
  <2> DEFINE S == {j \in T : j <= k}
  <2>1. IsFiniteSet(S) /\ Cardinality(S) \in Nat /\ Cardinality(S) <= Cardinality(T)
    BY <1>1, FS_Subset, FS_CardinalityType
  <2>2. k \in S
    OBVIOUS
  <2>3. Cardinality(S) # 0
    BY <2>1, <2>2, FS_EmptySet
  <2> HIDE DEF S
  <2>4. Cardinality(S) \in 1..Cardinality(T)
    BY <1>1, <2>1, <2>3
  <2>5. QED
    BY <2>4 DEF S, Below
<1>3. ASSUME NEW k \in T, NEW m \in T, k < m
      PROVE  Below(T, k) < Below(T, m)
  <2> DEFINE S == {j \in T : j <= k}
             U == {j \in T : j <= m}
  <2>1. IsFiniteSet(U) /\ Cardinality(U) \in Nat /\ Cardinality(S) \in Nat
    BY <1>1, FS_Subset, FS_CardinalityType
  <2>2. S \in SUBSET U /\ S # U
    <3>1. k \in 1..n /\ m \in 1..n
      OBVIOUS
    <3>2. m \in Nat /\ k \in Nat /\ m <= m /\ ~(m <= k)
      BY <1>3, <3>1
    <3>3. m \in U /\ m \notin S
      BY <3>2
    <3>4. S \subseteq U
      <4>1. \A j \in T : j \in Nat
        OBVIOUS
      <4>2. \A j \in T : j <= k => j <= m
        BY <1>3, <3>2, <4>1
      <4>3. QED
        BY <4>2
    <3>5. QED
      BY <3>3, <3>4
  <2> HIDE DEF S, U
  <2>3. Cardinality(S) < Cardinality(U)
    BY <2>1, <2>2, FS_Subset
  <2>4. QED
    BY <2>3 DEF S, U, Below
<1>4. ASSUME NEW r \in 1..Cardinality(T)
      PROVE  \E k \in T : Below(T, k) = r
  <2> DEFINE f == [k \in T |-> Below(T, k)]
             C == 1..Cardinality(T)
  <2>1. f \in [T -> C]
    BY <1>2
  <2>2. \A k, m \in T : f[k] = f[m] => k = m
    <3> SUFFICES ASSUME NEW k \in T, NEW m \in T, Below(T, k) = Below(T, m)
                 PROVE  k = m
      OBVIOUS
    <3>1. Below(T, k) \in Nat /\ k \in Nat /\ m \in Nat
      BY <1>1, <1>2
    <3>2. QED
      BY <1>3, <3>1
  <2>3. f \in Injection(T, C)
    BY <2>1, <2>2 DEF Injection, IsInjective
  <2>4. IsFiniteSet(C) /\ Cardinality(C) = Cardinality(T)
    BY <1>1, FS_Interval
  <2> HIDE DEF C, f
  <2>5. f \in Surjection(T, C)
    BY <1>1, <2>3, <2>4, FS_Injection
  <2>6. PICK k \in T : f[k] = r
    BY <2>5 DEF Surjection, C
  <2>7. QED
    BY <2>6 DEF f
<1>5. QED
  BY <1>1, <1>2, <1>3, <1>4

\* The digests a queue has a live slot of.
LiveIn(es, q) == {q[j].id : j \in {n \in 1..Len(q) : Live(es, q[n])}}

Books == [Digests -> Entries \cup {None}]

\* What compaction leaves of a queue in order of admission: the live slots, one
\* for each digest, in that order.
LEMMA OnlyLiveKeeps ==
    ASSUME NEW es \in Books, NEW q \in Seq(Slots), Ordered(q)
    PROVE  LET r == OnlyLive(es, q)
           IN  /\ r \in Seq(Slots) /\ Ordered(r)
               /\ \A m \in 1..Len(r) : \E n \in 1..Len(q) : r[m] = q[n]
               /\ LiveIn(es, r) = LiveIn(es, q)
               /\ Len(r) = Cardinality(LiveIn(es, q))
<1> DEFINE kept == {n \in 1..Len(q) : Live(es, q[n])}
           Nth(m) == CHOOSE n \in kept : Cardinality({j \in kept : j <= n}) = m
           r == OnlyLive(es, q)
<1>1. Len(q) \in Nat /\ q \in [1..Len(q) -> Slots]
  OBVIOUS
<1>2. kept \in SUBSET (1..Len(q))
  OBVIOUS
<1>3. r = [m \in 1..Cardinality(kept) |-> q[Nth(m)]]
  BY DEF OnlyLive
<1> DEFINE c == Cardinality(kept)
<1>4. /\ IsFiniteSet(kept) /\ c \in Nat
      /\ \A k \in kept : Below(kept, k) \in 1..c
      /\ \A k, m \in kept : k < m => Below(kept, k) < Below(kept, m)
      /\ \A m \in 1..c : \E k \in kept : Below(kept, k) = m
  <2> HIDE DEF kept
  <2>1. QED
    BY <1>1, <1>2, Ranks
<1>5. ASSUME NEW m \in 1..c
      PROVE  Nth(m) \in kept /\ Below(kept, Nth(m)) = m
  <2>1. \E n \in kept : Below(kept, n) = m
    BY <1>4
  <2>2. \E n \in kept : Cardinality({j \in kept : j <= n}) = m
    BY <2>1 DEF Below
  <2>3. QED
    BY <2>2 DEF Below
<1>6. ASSUME NEW k \in kept
      PROVE  /\ Below(kept, k) \in 1..c
             /\ Nth(Below(kept, k)) = k
  <2>1. Below(kept, k) \in 1..c
    BY <1>4
  <2> DEFINE m == Below(kept, k)
  <2>2. Nth(m) \in kept /\ Below(kept, Nth(m)) = Below(kept, k)
    BY <1>5, <2>1
  <2>3. Nth(m) \in Nat /\ k \in Nat /\ Below(kept, k) \in Nat
    BY <1>2, <1>4, <2>1, <2>2
  <2>4. ~(Nth(m) < k) /\ ~(k < Nth(m))
    <3> HIDE DEF kept, Nth, m
    <3>1. QED
      BY <1>4, <1>6, <2>2, <2>3
  <2>5. QED
    <3> HIDE DEF kept, Nth
    <3>1. QED
      BY <2>1, <2>3, <2>4
<1> HIDE DEF Nth
<1>7. /\ r \in Seq(Slots) /\ Len(r) = c
      /\ \A m \in 1..c : r[m] = q[Nth(m)] /\ r[m] \in Slots /\ Nth(m) \in 1..Len(q)
  <2>1. \A m \in 1..c : Nth(m) \in 1..Len(q)
    BY <1>2, <1>5
  <2> HIDE DEF kept, r
  <2>2. r \in [1..c -> Slots]
    BY <1>1, <1>3, <2>1
  <2>3. r \in Seq(Slots) /\ Len(r) = c
    BY <1>4, <2>2
  <2>4. QED
    BY <1>1, <1>3, <2>1, <2>3
<1>8. \A a, b \in 1..c : a < b => Nth(a) < Nth(b)
  <2> SUFFICES ASSUME NEW a \in 1..c, NEW b \in 1..c, a < b
               PROVE  Nth(a) < Nth(b)
    OBVIOUS
  <2>1. /\ Nth(a) \in kept /\ Below(kept, Nth(a)) = a
        /\ Nth(b) \in kept /\ Below(kept, Nth(b)) = b
    BY <1>5
  <2>2. Nth(a) \in Nat /\ Nth(b) \in Nat
    BY <1>2, <2>1
  <2> HIDE DEF kept
  <2>3. ~(Nth(b) < Nth(a)) /\ Nth(a) # Nth(b)
    BY <1>4, <2>1
  <2>4. QED
    BY <2>2, <2>3
<1>9. Ordered(r)
  <2> SUFFICES ASSUME NEW a \in 1..c, NEW b \in 1..c, a < b
               PROVE  r[a].seq < r[b].seq
    BY <1>7 DEF Ordered
  <2>1. Nth(a) < Nth(b) /\ Nth(a) \in 1..Len(q) /\ Nth(b) \in 1..Len(q)
    BY <1>7, <1>8
  <2> HIDE DEF kept, r
  <2>2. QED
    BY <1>7, <2>1 DEF Ordered
<1>10. \A m \in 1..c : Live(es, r[m])
  BY <1>5, <1>7
<1>11. \A k \in kept : \E m \in 1..c : r[m] = q[k]
  BY <1>6, <1>7
<1>12. LiveIn(es, r) = LiveIn(es, q)
  <2>1. LiveIn(es, r) = {r[m].id : m \in 1..c}
    BY <1>7, <1>10 DEF LiveIn
  <2>2. LiveIn(es, q) = {q[k].id : k \in kept}
    BY DEF LiveIn
  <2>3. \A m \in 1..c : r[m] = q[Nth(m)] /\ Nth(m) \in kept
    BY <1>5, <1>7
  <2> HIDE DEF kept, r
  <2>4. ASSUME NEW d \in LiveIn(es, r)
        PROVE  d \in LiveIn(es, q)
    <3>1. PICK m \in 1..c : d = r[m].id
      BY <2>1
    <3>2. d = q[Nth(m)].id /\ Nth(m) \in kept
      BY <2>3, <3>1
    <3>3. QED
      BY <2>2, <3>2
  <2>5. ASSUME NEW d \in LiveIn(es, q)
        PROVE  d \in LiveIn(es, r)
    <3>1. PICK k \in kept : d = q[k].id
      BY <2>2
    <3>2. PICK m \in 1..c : r[m] = q[k]
      BY <1>11
    <3>3. QED
      BY <2>1, <3>1, <3>2
  <2>6. QED
    BY <2>4, <2>5
<1>13. c = Cardinality(LiveIn(es, q))
  <2> DEFINE f == [k \in kept |-> q[k].id]
             D == LiveIn(es, q)
  <2>1. D = {q[k].id : k \in kept}
    BY DEF LiveIn
  <2>2. ASSUME NEW k \in kept, NEW m \in kept, q[k].id = q[m].id
        PROVE  k = m
    <3>1. /\ q[k].seq = es[q[k].id].seq /\ q[m].seq = es[q[m].id].seq
          /\ k \in 1..Len(q) /\ m \in 1..Len(q)
      BY DEF Live
    <3>2. q[k].seq = q[m].seq /\ q[k] \in Slots /\ q[m] \in Slots
      BY <1>1, <2>2, <3>1
    <3>3. q[k].seq \in Nat /\ k \in Nat /\ m \in Nat
      BY <3>1, <3>2 DEF Slots
    <3>4. ~(k < m) /\ ~(m < k)
      BY <3>1, <3>2, <3>3 DEF Ordered
    <3>5. QED
      BY <3>3, <3>4
  <2> HIDE DEF kept
  <2>3. f \in Surjection(kept, D)
    BY <2>1 DEF Surjection
  <2>4. f \in Injection(kept, D)
    <3>1. f \in [kept -> D]
      BY <2>1
    <3>2. QED
      BY <2>2, <3>1 DEF Injection, IsInjective
  <2> HIDE DEF f, D
  <2>5. Cardinality(D) = Cardinality(kept)
    BY <1>4, <2>3, <2>4, FS_Surjection
  <2>6. QED
    BY <2>5 DEF D
<1>14. \A m \in 1..Len(r) : \E n \in 1..Len(q) : r[m] = q[n]
  BY <1>7
<1> HIDE DEF r, c, kept
<1>15. QED
  BY <1>7, <1>9, <1>12, <1>13, <1>14 DEF r

\* A queue in order of admission, of slots older than top, whose live slots are
\* those of the digests D.
Queue(es, top, q, D) ==
    /\ q \in Seq(Slots) /\ Ordered(q)
    /\ \A n \in 1..Len(q) : q[n].seq < top
    /\ LiveIn(es, q) = D

\* Compaction keeps a namespace's queue and bounds it.
LEMMA CompactedKeeps ==
    ASSUME NEW es \in Books, NEW top, NEW q, NEW D, Queue(es, top, q, D),
           D = {i \in Digests : es[i] # None}
    PROVE  /\ Queue(es, top, Compacted(es, q), D)
           /\ Len(Compacted(es, q)) <= 2 * Cardinality(D) + Slack
<1>1. /\ q \in Seq(Slots) /\ Ordered(q) /\ LiveIn(es, q) = D
      /\ \A n \in 1..Len(q) : q[n].seq < top
  BY DEF Queue
<1>2. Cardinality(D) \in Nat /\ Slack \in Nat /\ Len(q) \in Nat
  <2>1. IsFiniteSet(D)
    BY CacheAssumption, FS_Subset
  <2>2. QED
    BY <1>1, <2>1, FS_CardinalityType, CacheAssumption
<1>3. CASE Len(q) > 2 * Cardinality(D) + Slack
  <2>1. Compacted(es, q) = OnlyLive(es, q)
    BY <1>3 DEF Compacted
  <2> DEFINE r == OnlyLive(es, q)
  <2>2. /\ r \in Seq(Slots) /\ Ordered(r) /\ LiveIn(es, r) = D /\ Len(r) = Cardinality(D)
        /\ \A m \in 1..Len(r) : \E n \in 1..Len(q) : r[m] = q[n]
    BY <1>1, OnlyLiveKeeps
  <2> HIDE DEF r
  <2>3. Queue(es, top, r, D)
    BY <1>1, <2>2 DEF Queue
  <2>4. Len(r) <= 2 * Cardinality(D) + Slack
    BY <1>2, <2>2
  <2>5. QED
    BY <2>1, <2>3, <2>4 DEF r
<1>4. CASE ~(Len(q) > 2 * Cardinality(D) + Slack)
  <2>1. Compacted(es, q) = q
    BY <1>4 DEF Compacted
  <2>2. QED
    BY <1>2, <1>4, <2>1
<1>5. QED
  BY <1>3, <1>4

\* So does the compaction of a scope's queue, which a scope without bytes loses.
LEMMA ScopeCompactedKeeps ==
    ASSUME NEW es \in Books, NEW top, NEW q, NEW D, Queue(es, top, q, D), IsFiniteSet(D),
           NEW bytes, bytes = 0 => D = {}
    PROVE  /\ Queue(es, top, ScopeCompacted(es, q, bytes), D)
           /\ Len(ScopeCompacted(es, q, bytes)) <= Cardinality(D) + Slack
<1>1. /\ q \in Seq(Slots) /\ Ordered(q) /\ LiveIn(es, q) = D
      /\ \A n \in 1..Len(q) : q[n].seq < top
  BY DEF Queue
<1>2. Cardinality(D) \in Nat /\ Slack \in Nat /\ Len(q) \in Nat
  BY <1>1, FS_CardinalityType, CacheAssumption
<1>3. CASE bytes = 0
  <2>1. ScopeCompacted(es, q, bytes) = <<>> /\ D = {}
    BY <1>3 DEF ScopeCompacted
  <2>2. Queue(es, top, <<>>, {})
    BY DEF Queue, Ordered, LiveIn
  <2>3. Len(<<>>) = 0
    OBVIOUS
  <2>4. QED
    BY <1>2, <2>1, <2>2, <2>3
<1>4. CASE bytes # 0 /\ Len(q) > Slack
  <2>1. ScopeCompacted(es, q, bytes) = OnlyLive(es, q)
    BY <1>4 DEF ScopeCompacted
  <2> DEFINE r == OnlyLive(es, q)
  <2>2. /\ r \in Seq(Slots) /\ Ordered(r) /\ LiveIn(es, r) = D /\ Len(r) = Cardinality(D)
        /\ \A m \in 1..Len(r) : \E n \in 1..Len(q) : r[m] = q[n]
    BY <1>1, OnlyLiveKeeps
  <2> HIDE DEF r
  <2>3. Queue(es, top, r, D)
    BY <1>1, <2>2 DEF Queue
  <2>4. Len(r) <= Cardinality(D) + Slack
    BY <1>2, <2>2
  <2>5. QED
    BY <2>1, <2>3, <2>4 DEF r
<1>5. CASE bytes # 0 /\ ~(Len(q) > Slack)
  <2>1. ScopeCompacted(es, q, bytes) = q
    BY <1>5 DEF ScopeCompacted
  <2>2. QED
    BY <1>2, <1>5, <2>1
<1>6. QED
  BY <1>3, <1>4, <1>5

\* A queue without its head: shorter, in order, and short of that digest at most.
LEMMA PopKeeps ==
    ASSUME NEW es \in Books, NEW top, NEW q, NEW D, Queue(es, top, q, D), q # <<>>
    PROVE  LET i == Head(q).id
           IN  /\ Tail(q) \in Seq(Slots) /\ Len(Tail(q)) <= Len(q)
               /\ Live(es, Head(q)) => i \in D /\ es[i].seq = Head(q).seq
               /\ Queue(es, top, Tail(q), IF Live(es, Head(q)) THEN D \ {i} ELSE D)
               /\ \A n \in 1..Len(q) : n = 1 \/ Head(q).seq < q[n].seq
<1> DEFINE t == Tail(q)
           i == Head(q).id
<1>1. /\ q \in Seq(Slots) /\ Ordered(q) /\ LiveIn(es, q) = D
      /\ \A n \in 1..Len(q) : q[n].seq < top
  BY DEF Queue
<1>2. /\ t \in Seq(Slots) /\ Len(q) \in Nat \ {0} /\ Len(t) = Len(q) - 1 /\ Head(q) = q[1]
      /\ \A n \in 1..Len(t) : t[n] = q[n + 1] /\ n + 1 \in 1..Len(q)
      /\ \A n \in 1..Len(q) : q[n] \in Slots
  BY <1>1
<1> HIDE DEF t
<1>3. Ordered(t) /\ \A n \in 1..Len(t) : t[n].seq < top
  <2>1. \A n \in 1..Len(t) : t[n].seq < top
    BY <1>1, <1>2
  <2>2. ASSUME NEW a \in 1..Len(t), NEW b \in 1..Len(t), a < b
        PROVE  t[a].seq < t[b].seq
    <3>1. t[a] = q[a + 1] /\ t[b] = q[b + 1] /\ a + 1 \in 1..Len(q) /\ b + 1 \in 1..Len(q)
          /\ a + 1 < b + 1
      BY <1>2, <2>2
    <3>2. QED
      BY <1>1, <3>1 DEF Ordered
  <2>3. QED
    BY <2>1, <2>2 DEF Ordered
<1>4. \A n \in 1..Len(q) : n = 1 \/ Head(q).seq < q[n].seq
  <2> SUFFICES ASSUME NEW n \in 1..Len(q), n # 1
               PROVE  q[1].seq < q[n].seq
    BY <1>2
  <2>1. 1 \in 1..Len(q) /\ 1 < n
    BY <1>2
  <2>2. QED
    BY <1>1, <2>1 DEF Ordered
<1>5. LiveIn(es, q) = LiveIn(es, t) \cup (IF Live(es, q[1]) THEN {q[1].id} ELSE {})
  <2>1. \A n \in 1..Len(q) : n = 1 \/ (n - 1 \in 1..Len(t) /\ q[n] = t[n - 1])
    <3> SUFFICES ASSUME NEW n \in 1..Len(q), n # 1
                 PROVE  n - 1 \in 1..Len(t) /\ q[n] = t[n - 1]
      OBVIOUS
    <3>1. n - 1 \in 1..Len(t) /\ (n - 1) + 1 = n
      BY <1>2
    <3>2. QED
      BY <1>2, <3>1
  <2>2. 1 \in 1..Len(q)
    BY <1>2
  <2>3. ASSUME NEW d \in LiveIn(es, q)
        PROVE  d \in LiveIn(es, t) \/ (Live(es, q[1]) /\ d = q[1].id)
    <3>1. PICK n \in 1..Len(q) : Live(es, q[n]) /\ d = q[n].id
      BY DEF LiveIn
    <3>2. QED
      BY <2>1, <3>1 DEF LiveIn
  <2>4. ASSUME NEW d \in LiveIn(es, t)
        PROVE  d \in LiveIn(es, q)
    <3>1. PICK n \in 1..Len(t) : Live(es, t[n]) /\ d = t[n].id
      BY DEF LiveIn
    <3>2. QED
      BY <1>2, <3>1 DEF LiveIn
  <2>5. Live(es, q[1]) => q[1].id \in LiveIn(es, q)
    BY <2>2 DEF LiveIn
  <2>6. QED
    BY <2>3, <2>4, <2>5
<1>6. Live(es, q[1]) => q[1].id \notin LiveIn(es, t)
  <2> SUFFICES ASSUME Live(es, q[1]), NEW n \in 1..Len(t), Live(es, t[n]), t[n].id = q[1].id
               PROVE  FALSE
    BY DEF LiveIn
  <2>1. t[n].seq = q[1].seq
    BY DEF Live
  <2>2. t[n] = q[n + 1] /\ n + 1 \in 1..Len(q) /\ n + 1 # 1
    BY <1>2
  <2>3. q[1].seq < t[n].seq
    BY <1>2, <1>4, <2>2
  <2>4. q[1].seq \in Nat
    <3>1. 1 \in 1..Len(q)
      BY <1>2
    <3>2. QED
      BY <1>2, <3>1 DEF Slots
  <2>5. QED
    BY <2>1, <2>3, <2>4
<1>7. Live(es, q[1]) => q[1].id \in D /\ es[q[1].id].seq = q[1].seq
  BY <1>1, <1>5 DEF Live
<1>8. LiveIn(es, t) = IF Live(es, q[1]) THEN D \ {q[1].id} ELSE D
  BY <1>1, <1>5, <1>6
<1>9. Queue(es, top, t, IF Live(es, q[1]) THEN D \ {q[1].id} ELSE D)
  BY <1>2, <1>3, <1>8 DEF Queue
<1>10. Len(t) <= Len(q)
  BY <1>2
<1>11. QED
  BY <1>2, <1>4, <1>7, <1>9, <1>10 DEF t

\* Removing an entry makes its slots stale and no others.
LEMMA LiveWithout ==
    ASSUME NEW es \in Books, NEW i \in Digests, NEW q \in Seq(Slots)
    PROVE  LiveIn([es EXCEPT ![i] = None], q) = LiveIn(es, q) \ {i}
<1> DEFINE fs == [es EXCEPT ![i] = None]
<1>1. ASSUME NEW n \in 1..Len(q)
      PROVE  Live(fs, q[n]) <=> Live(es, q[n]) /\ q[n].id # i
  <2>1. q[n] \in Slots
    OBVIOUS
  <2>2. q[n].id \in Digests
    BY <2>1 DEF Slots
  <2>3. QED
    BY <2>2 DEF Live, Books
<1> HIDE DEF fs
<1>2. LiveIn(fs, q) = LiveIn(es, q) \ {i}
  BY <1>1 DEF LiveIn
<1>3. QED
  BY <1>2 DEF fs

\* An entry of the next number makes no slot live but one of that number.
LEMMA LiveWith ==
    ASSUME NEW es \in Books, NEW i \in Digests, es[i] = None, NEW top \in Nat,
           NEW e \in Entries, e.seq = top,
           NEW q, NEW D, Queue(es, top, q, D)
    PROVE  LET fs == [es EXCEPT ![i] = e]
           IN  /\ Queue(fs, top + 1, q, D)
               /\ Queue(fs, top + 1, Append(q, [id |-> i, seq |-> top]), D \cup {i})
<1> DEFINE fs == [es EXCEPT ![i] = e]
           x == [id |-> i, seq |-> top]
           p == Append(q, x)
<1>1. /\ q \in Seq(Slots) /\ Ordered(q) /\ LiveIn(es, q) = D
      /\ \A n \in 1..Len(q) : q[n].seq < top
  BY DEF Queue
<1>2. ASSUME NEW n \in 1..Len(q)
      PROVE  /\ Live(fs, q[n]) <=> Live(es, q[n])
             /\ q[n] \in Slots /\ q[n].seq \in Nat /\ q[n].seq < top /\ q[n].seq < top + 1
  <2>1. q[n] \in Slots /\ q[n].seq < top
    BY <1>1
  <2>2. q[n].id \in Digests /\ q[n].seq \in Nat
    BY <2>1 DEF Slots
  <2>3. q[n].seq # top /\ q[n].seq < top + 1
    BY <2>1, <2>2
  <2>4. CASE q[n].id = i
    <3>1. fs[q[n].id] = e /\ es[q[n].id] = None
      BY <2>2, <2>4 DEF Books
    <3>2. ~Live(es, q[n]) /\ ~Live(fs, q[n])
      <4> HIDE DEF fs
      <4>1. QED
        BY <2>3, <3>1 DEF Live
    <3>3. QED
      BY <2>1, <2>2, <2>3, <3>2
  <2>5. CASE q[n].id # i
    <3>1. fs[q[n].id] = es[q[n].id]
      BY <2>2, <2>5 DEF Books
    <3>2. QED
      BY <2>1, <2>2, <2>3, <3>1 DEF Live
  <2>6. QED
    BY <2>4, <2>5
<1>3. x \in Slots /\ e # None
  BY NoneAssumption DEF Slots
<1>4. Live(fs, x) /\ x.id = i /\ x.seq = top
  BY <1>3 DEF Live, Books
<1> HIDE DEF fs, x
<1>5. LiveIn(fs, q) = D
  BY <1>1, <1>2 DEF LiveIn
<1>6. Queue(fs, top + 1, q, D)
  BY <1>1, <1>2, <1>5 DEF Queue
<1>7. /\ p \in Seq(Slots) /\ Len(p) = Len(q) + 1 /\ Len(q) \in Nat
      /\ p[Len(q) + 1] = x /\ \A n \in 1..Len(q) : p[n] = q[n]
      /\ \A n \in 1..Len(p) : n \in 1..Len(q) \/ n = Len(q) + 1
  BY <1>1, <1>3
<1> HIDE DEF p
<1>8. Ordered(p)
  <2> SUFFICES ASSUME NEW a \in 1..Len(p), NEW b \in 1..Len(p), a < b
               PROVE  p[a].seq < p[b].seq
    BY DEF Ordered
  <2>1. a \in 1..Len(q) /\ p[a] = q[a]
    BY <1>7
  <2>2. CASE b = Len(q) + 1
    BY <1>2, <1>4, <1>7, <2>1, <2>2
  <2>3. CASE b \in 1..Len(q)
    BY <1>1, <1>7, <2>1, <2>3 DEF Ordered
  <2>4. QED
    BY <1>7, <2>2, <2>3
<1>9. \A n \in 1..Len(p) : p[n].seq < top + 1
  <2>1. top < top + 1
    OBVIOUS
  <2>2. QED
    BY <1>2, <1>4, <1>7, <2>1
<1>10. LiveIn(fs, p) = LiveIn(fs, q) \cup {i}
  <2>1. Len(q) + 1 \in 1..Len(p) /\ \A n \in 1..Len(q) : n \in 1..Len(p)
    BY <1>7
  <2>2. ASSUME NEW d \in LiveIn(fs, p)
        PROVE  d \in LiveIn(fs, q) \cup {i}
    <3>1. PICK n \in 1..Len(p) : Live(fs, p[n]) /\ d = p[n].id
      BY DEF LiveIn
    <3>2. QED
      BY <1>4, <1>7, <3>1 DEF LiveIn
  <2>3. ASSUME NEW d \in LiveIn(fs, q)
        PROVE  d \in LiveIn(fs, p)
    <3>1. PICK n \in 1..Len(q) : Live(fs, q[n]) /\ d = q[n].id
      BY DEF LiveIn
    <3>2. QED
      BY <1>7, <2>1, <3>1 DEF LiveIn
  <2>4. i \in LiveIn(fs, p)
    BY <1>4, <1>7, <2>1 DEF LiveIn
  <2>5. QED
    BY <2>2, <2>3, <2>4
<1>11. Queue(fs, top + 1, p, D \cup {i})
  BY <1>5, <1>7, <1>8, <1>9, <1>10 DEF Queue
<1>12. QED
  BY <1>6, <1>11 DEF fs, p, x

\* The bytes of the entries D of a book, as pairs.
BytesIn(es, D) == UNION {{i} \X (1..es[i].bytes) : i \in D}

\* Entries whose sizes the policy allows.
Sized(es, D) == \A i \in D : es[i].bytes \in 1..MaxEntryBytes

LEMMA BytesInPairs ==
    ASSUME NEW es, NEW D, NEW x
    PROVE  x \in BytesIn(es, D) <=> \E i \in D : x \in UnitsOf(i, es[i].bytes)
BY DEF BytesIn, UnitsOf

\* They are finitely many, and none only without entries.
LEMMA BytesFinite ==
    ASSUME NEW es, NEW D, IsFiniteSet(D), Sized(es, D)
    PROVE  /\ IsFiniteSet(BytesIn(es, D)) /\ Cardinality(BytesIn(es, D)) \in Nat
           /\ Cardinality(BytesIn(es, D)) = 0 <=> D = {}
<1> DEFINE B == BytesIn(es, D)
           T == 1..MaxEntryBytes
<1>1. IsFiniteSet(T)
  BY CacheAssumption, FS_Interval
<1>2. B \in SUBSET (D \X T)
  <2> SUFFICES ASSUME NEW x \in B
               PROVE  x \in D \X T
    OBVIOUS
  <2>1. PICK i \in D : x \in UnitsOf(i, es[i].bytes)
    BY BytesInPairs
  <2>2. es[i].bytes \in 1..MaxEntryBytes
    BY DEF Sized
  <2>3. 1..es[i].bytes \subseteq 1..MaxEntryBytes
    BY <2>2, CacheAssumption
  <2>4. QED
    BY <2>1, <2>3 DEF UnitsOf
<1> HIDE DEF B, T
<1>3. IsFiniteSet(D \X T)
  BY <1>1, FS_Product
<1>4. IsFiniteSet(B) /\ Cardinality(B) \in Nat
  BY <1>2, <1>3, FS_Subset, FS_CardinalityType
<1>5. B = {} <=> D = {}
  <2>1. ASSUME NEW i \in D
        PROVE  <<i, 1>> \in B
    <3>1. 1 \in 1..es[i].bytes
      BY CacheAssumption DEF Sized
    <3>2. <<i, 1>> \in UnitsOf(i, es[i].bytes)
      BY <3>1 DEF UnitsOf
    <3>3. QED
      BY <3>2, BytesInPairs DEF B
  <2>2. QED
    BY <2>1, BytesInPairs DEF B
<1>6. QED
  BY <1>4, <1>5, FS_EmptySet DEF B

\* A removal takes the bytes of its entry away.
LEMMA BytesWithout ==
    ASSUME NEW es \in Books, NEW i \in Digests, NEW D \in SUBSET Digests, Sized(es, D)
    PROVE  LET fs == [es EXCEPT ![i] = None]
           IN  /\ Sized(fs, D \ {i})
               /\ i \notin D => BytesIn(fs, D) = BytesIn(es, D)
               /\ i \in D =>
                    /\ es[i].bytes \in Nat
                    /\ Cardinality(BytesIn(fs, D \ {i})) = Cardinality(BytesIn(es, D)) - es[i].bytes
                    /\ es[i].bytes <= Cardinality(BytesIn(es, D))
<1> DEFINE fs == [es EXCEPT ![i] = None]
<1>1. \A j \in D \ {i} : fs[j] = es[j]
  BY DEF Books
<1> HIDE DEF fs
<1>2. Sized(fs, D \ {i})
  BY <1>1 DEF Sized
<1>3. ASSUME i \notin D
      PROVE  BytesIn(fs, D) = BytesIn(es, D)
  BY <1>1, <1>3 DEF BytesIn
<1>4. ASSUME i \in D
      PROVE  /\ es[i].bytes \in Nat
             /\ Cardinality(BytesIn(fs, D \ {i})) = Cardinality(BytesIn(es, D)) - es[i].bytes
             /\ es[i].bytes <= Cardinality(BytesIn(es, D))
  <2> DEFINE B == BytesIn(es, D)
             n == es[i].bytes
             C == BytesIn(fs, D \ {i})
  <2>1. n \in Nat
    BY <1>4, CacheAssumption DEF Sized
  <2>2. IsFiniteSet(B)
    <3>1. IsFiniteSet(D)
      BY CacheAssumption, FS_Subset
    <3>2. QED
      BY <3>1, BytesFinite
  <2>3. UnitsOf(i, n) \subseteq B
    BY <1>4, BytesInPairs
  <2>4. C = B \ UnitsOf(i, n)
    <3>1. ASSUME NEW x \in C
          PROVE  x \in B /\ x \notin UnitsOf(i, n)
      <4>1. PICK j \in D \ {i} : x \in UnitsOf(j, fs[j].bytes)
        BY <3>1, BytesInPairs
      <4>2. x \in UnitsOf(j, es[j].bytes) /\ j # i /\ j \in D
        BY <1>1, <4>1
      <4>3. x \in B
        BY <4>2, BytesInPairs
      <4>4. QED
        BY <4>2, <4>3 DEF UnitsOf
    <3>2. ASSUME NEW x \in B, x \notin UnitsOf(i, n)
          PROVE  x \in C
      <4>1. PICK j \in D : x \in UnitsOf(j, es[j].bytes)
        BY <3>2, BytesInPairs
      <4>2. j \in D \ {i} /\ x \in UnitsOf(j, fs[j].bytes)
        BY <1>1, <3>2, <4>1
      <4>3. QED
        BY <4>2, BytesInPairs
    <3>3. QED
      BY <3>1, <3>2
  <2> HIDE DEF B, C, n
  <2>5. Cardinality(C) = Cardinality(B) - n /\ n <= Cardinality(B)
    BY <2>1, <2>2, <2>3, <2>4, RemoveUnits
  <2>6. QED
    BY <2>1, <2>5 DEF B, C, n
<1>5. QED
  BY <1>2, <1>3, <1>4 DEF fs

\* An admission adds the bytes of its entry.
LEMMA BytesWith ==
    ASSUME NEW es \in Books, NEW i \in Digests, NEW D \in SUBSET Digests, Sized(es, D),
           i \notin D, NEW e, e.bytes \in 1..MaxEntryBytes
    PROVE  LET fs == [es EXCEPT ![i] = e]
           IN  /\ Sized(fs, D) /\ Sized(fs, D \cup {i})
               /\ BytesIn(fs, D) = BytesIn(es, D)
               /\ Cardinality(BytesIn(fs, D \cup {i})) = Cardinality(BytesIn(es, D)) + e.bytes
<1> DEFINE fs == [es EXCEPT ![i] = e]
           n == e.bytes
<1>1. fs[i] = e /\ \A j \in D : fs[j] = es[j]
  BY DEF Books
<1> HIDE DEF fs
<1>2. Sized(fs, D) /\ Sized(fs, D \cup {i})
  BY <1>1 DEF Sized
<1>3. BytesIn(fs, D) = BytesIn(es, D)
  BY <1>1 DEF BytesIn
<1> DEFINE B == BytesIn(es, D)
           C == BytesIn(fs, D \cup {i})
<1>4. n \in Nat
  BY CacheAssumption
<1>5. IsFiniteSet(B)
  <2>1. IsFiniteSet(D)
    BY CacheAssumption, FS_Subset
  <2>2. QED
    BY <2>1, BytesFinite
<1>6. C = B \cup UnitsOf(i, n)
  <2>1. ASSUME NEW x \in C
        PROVE  x \in B \cup UnitsOf(i, n)
    <3>1. PICK j \in D \cup {i} : x \in UnitsOf(j, fs[j].bytes)
      BY <2>1, BytesInPairs
    <3>2. CASE j = i
      BY <1>1, <3>1, <3>2
    <3>3. CASE j \in D
      <4>1. x \in UnitsOf(j, es[j].bytes)
        BY <1>1, <3>1, <3>3
      <4>2. QED
        BY <3>3, <4>1, BytesInPairs
    <3>4. QED
      BY <3>2, <3>3
  <2>2. ASSUME NEW x \in B
        PROVE  x \in C
    <3>1. PICK j \in D : x \in UnitsOf(j, es[j].bytes)
      BY <2>2, BytesInPairs
    <3>2. j \in D \cup {i} /\ x \in UnitsOf(j, fs[j].bytes)
      BY <1>1, <3>1
    <3>3. QED
      BY <3>2, BytesInPairs
  <2>3. ASSUME NEW x \in UnitsOf(i, n)
        PROVE  x \in C
    <3>1. i \in D \cup {i} /\ x \in UnitsOf(i, fs[i].bytes)
      BY <1>1, <2>3
    <3>2. QED
      BY <3>1, BytesInPairs
  <2>4. QED
    BY <2>1, <2>2, <2>3
<1>7. B \cap UnitsOf(i, n) = {}
  <2> SUFFICES ASSUME NEW x \in B, x \in UnitsOf(i, n)
               PROVE  FALSE
    OBVIOUS
  <2>1. PICK j \in D : x \in UnitsOf(j, es[j].bytes)
    BY BytesInPairs
  <2>2. QED
    BY <2>1 DEF UnitsOf
<1> HIDE DEF B, C, n
<1>8. Cardinality(C) = Cardinality(B) + n
  BY <1>4, <1>5, <1>6, <1>7, AddUnits
<1>9. QED
  BY <1>2, <1>3, <1>8 DEF fs, B, C, n

HeldIn(es) == {i \in Digests : es[i] # None}

ScopeIn(es, s) == {i \in HeldIn(es) : ScopeOf[es[i].key] = s}

\* The tier's structures, of slots older than top, kept to one another and to the
\* policy's bounds.
TierOf(es, f, sf, sb, tb, top) ==
    /\ es \in Books /\ Sized(es, HeldIn(es)) /\ top \in Nat
    /\ Queue(es, top, f, HeldIn(es))
    /\ Len(f) <= 2 * Cardinality(HeldIn(es)) + Slack
    /\ tb = Cardinality(BytesIn(es, HeldIn(es))) /\ tb <= MaxBytes
    /\ Cardinality(HeldIn(es)) <= MaxEntries
    /\ sf \in [Scopes -> Seq(Slots)] /\ sb \in [Scopes -> Nat]
    /\ \A s \in Scopes :
         /\ Queue(es, top, sf[s], ScopeIn(es, s))
         /\ Len(sf[s]) <= Cardinality(ScopeIn(es, s)) + Slack
         /\ sb[s] = Cardinality(BytesIn(es, ScopeIn(es, s))) /\ sb[s] <= MaxScopeBytes

Tier == TierOf(entries, fifo, scopeFifo, scopeBytes, totalBytes, nextSeq)

\* A scope's entries are held ones, and finitely many.
LEMMA ScopesWithin ==
    ASSUME NEW es \in Books, Sized(es, HeldIn(es))
    PROVE  /\ IsFiniteSet(HeldIn(es)) /\ Cardinality(HeldIn(es)) \in Nat
           /\ \A i \in HeldIn(es) : es[i] \in Entries /\ ScopeOf[es[i].key] \in Scopes
           /\ \A s \in Scopes :
                /\ ScopeIn(es, s) \in SUBSET HeldIn(es)
                /\ IsFiniteSet(ScopeIn(es, s)) /\ Cardinality(ScopeIn(es, s)) \in Nat
                /\ Sized(es, ScopeIn(es, s))
<1>1. HeldIn(es) \in SUBSET Digests
  BY DEF HeldIn
<1>2. IsFiniteSet(HeldIn(es)) /\ Cardinality(HeldIn(es)) \in Nat
  BY <1>1, CacheAssumption, FS_Subset, FS_CardinalityType
<1>3. \A i \in HeldIn(es) : es[i] \in Entries
  BY DEF HeldIn, Books
<1>4. \A i \in HeldIn(es) : ScopeOf[es[i].key] \in Scopes
  BY <1>3, CacheAssumption DEF Entries
<1>5. ASSUME NEW s \in Scopes
      PROVE  /\ ScopeIn(es, s) \in SUBSET HeldIn(es)
             /\ IsFiniteSet(ScopeIn(es, s)) /\ Cardinality(ScopeIn(es, s)) \in Nat
             /\ Sized(es, ScopeIn(es, s))
  <2>1. ScopeIn(es, s) \in SUBSET HeldIn(es)
    BY DEF ScopeIn
  <2>2. IsFiniteSet(ScopeIn(es, s)) /\ Cardinality(ScopeIn(es, s)) \in Nat
    BY <1>2, <2>1, FS_Subset, FS_CardinalityType
  <2>3. QED
    BY <2>1, <2>2 DEF Sized
<1>6. QED
  BY <1>2, <1>3, <1>4, <1>5

\* NamespaceState::remove, from queues that may have lost a slot of the entry
\* removed or stale slots, keeps the tier's structures to one another.
LEMMA RemoveKeeps ==
    ASSUME Tier, NEW i \in Held, NEW f, NEW sf, Remove(i, f, sf), nextSeq' = nextSeq,
           Queue(entries, nextSeq, f, LiveIn(entries, f)), LiveIn(entries, f) \ {i} = Held \ {i},
           sf \in [Scopes -> Seq(Slots)],
           \A s \in Scopes :
             /\ Queue(entries, nextSeq, sf[s], LiveIn(entries, sf[s]))
             /\ LiveIn(entries, sf[s]) \ {i} = OfScope(s) \ {i}
             /\ Len(sf[s]) <= Len(scopeFifo[s])
    PROVE  /\ Tier'
           /\ entries' = [entries EXCEPT ![i] = None]
           /\ Held' = Held \ {i}
           /\ \A s \in Scopes : scopeBytes'[s] <= scopeBytes[s]
<1> DEFINE e == entries[i]
           es == [entries EXCEPT ![i] = None]
           t == ScopeOf[e.key]
           n == e.bytes
           b == Minus(scopeBytes[t], n)
<1>1. /\ entries \in Books /\ Sized(entries, HeldIn(entries)) /\ nextSeq \in Nat
      /\ totalBytes = Cardinality(BytesIn(entries, HeldIn(entries))) /\ totalBytes <= MaxBytes
      /\ Cardinality(HeldIn(entries)) <= MaxEntries
      /\ scopeFifo \in [Scopes -> Seq(Slots)] /\ scopeBytes \in [Scopes -> Nat]
      /\ \A s \in Scopes :
           /\ Len(scopeFifo[s]) <= Cardinality(ScopeIn(entries, s)) + Slack
           /\ scopeBytes[s] = Cardinality(BytesIn(entries, ScopeIn(entries, s)))
           /\ scopeBytes[s] <= MaxScopeBytes
  BY DEF Tier, TierOf
<1>2. Held = HeldIn(entries) /\ \A s \in Scopes : OfScope(s) = ScopeIn(entries, s)
  BY DEF Held, HeldIn, OfScope, ScopeIn
<1>3. /\ IsFiniteSet(HeldIn(entries)) /\ Cardinality(HeldIn(entries)) \in Nat
      /\ \A j \in HeldIn(entries) : entries[j] \in Entries /\ ScopeOf[entries[j].key] \in Scopes
      /\ \A s \in Scopes :
           /\ ScopeIn(entries, s) \in SUBSET HeldIn(entries)
           /\ IsFiniteSet(ScopeIn(entries, s)) /\ Cardinality(ScopeIn(entries, s)) \in Nat
           /\ Sized(entries, ScopeIn(entries, s))
  BY <1>1, ScopesWithin
<1>4. i \in Digests /\ e \in Entries /\ t \in Scopes /\ i \in ScopeIn(entries, t)
      /\ \A s \in Scopes : s # t => i \notin ScopeIn(entries, s)
  BY <1>2, <1>3 DEF Held, ScopeIn
<1>5. /\ entries' = es /\ totalBytes' = Minus(totalBytes, n)
      /\ scopeBytes' = [scopeBytes EXCEPT ![t] = b]
      /\ fifo' = Compacted(es, f)
      /\ scopeFifo' = [sf EXCEPT ![t] = ScopeCompacted(es, sf[t], b)]
  BY DEF Remove, ScopeLess
<1>6. es \in Books
  BY <1>1 DEF Books
<1>7. HeldIn(es) = HeldIn(entries) \ {i} /\ \A s \in Scopes : ScopeIn(es, s) = ScopeIn(entries, s) \ {i}
  <2>1. HeldIn(es) = HeldIn(entries) \ {i}
    BY <1>1, <1>4 DEF HeldIn, Books
  <2>2. \A j \in HeldIn(entries) \ {i} : es[j] = entries[j]
    BY <1>1 DEF HeldIn, Books
  <2> HIDE DEF es
  <2>3. QED
    BY <2>1, <2>2 DEF ScopeIn
<1>7a. \A D \in SUBSET Digests : Sized(entries, D) =>
         /\ Sized(es, D \ {i})
         /\ i \notin D => BytesIn(es, D) = BytesIn(entries, D)
         /\ i \in D =>
              /\ n \in Nat
              /\ Cardinality(BytesIn(es, D \ {i})) = Cardinality(BytesIn(entries, D)) - n
              /\ n <= Cardinality(BytesIn(entries, D))
  BY <1>1, <1>4, BytesWithout
<1>7b. HeldIn(entries) \in SUBSET Digests /\ \A s \in Scopes : ScopeIn(entries, s) \in SUBSET Digests
  BY <1>3 DEF HeldIn
<1>7c. \A q \in Seq(Slots) : LiveIn(es, q) = LiveIn(entries, q) \ {i}
  BY <1>1, <1>4, LiveWithout
<1> HIDE DEF es, n, t
<1>8. /\ Sized(es, HeldIn(es)) /\ n \in Nat /\ n <= totalBytes
      /\ Cardinality(BytesIn(es, HeldIn(es))) = totalBytes - n
  BY <1>1, <1>2, <1>7, <1>7a, <1>7b
<1>9. /\ n <= scopeBytes[t]
      /\ Cardinality(BytesIn(es, ScopeIn(es, t))) = scopeBytes[t] - n
  <2>1. ScopeIn(es, t) = ScopeIn(entries, t) \ {i}
    BY <1>4, <1>7, Zenon
  <2>2. /\ ScopeIn(entries, t) \in SUBSET Digests /\ Sized(entries, ScopeIn(entries, t))
        /\ scopeBytes[t] = Cardinality(BytesIn(entries, ScopeIn(entries, t)))
    BY <1>1, <1>3, <1>4, <1>7b
  <2>3. QED
    BY <1>4, <1>7a, <2>1, <2>2
<1>10. \A s \in Scopes : s # t =>
         /\ ScopeIn(es, s) = ScopeIn(entries, s)
         /\ BytesIn(es, ScopeIn(es, s)) = BytesIn(entries, ScopeIn(entries, s))
  <2> SUFFICES ASSUME NEW s \in Scopes, s # t
               PROVE  /\ ScopeIn(es, s) = ScopeIn(entries, s)
                      /\ BytesIn(es, ScopeIn(es, s)) = BytesIn(entries, ScopeIn(entries, s))
    OBVIOUS
  <2>1. ScopeIn(es, s) = ScopeIn(entries, s) /\ i \notin ScopeIn(entries, s)
    <3>1. ScopeIn(es, s) = ScopeIn(entries, s) \ {i}
      BY <1>7, Zenon
    <3>2. i \notin ScopeIn(entries, s)
      BY <1>4, Zenon
    <3>3. QED
      BY <3>1, <3>2
  <2>2. ScopeIn(entries, s) \in SUBSET Digests /\ Sized(entries, ScopeIn(entries, s))
    BY <1>3, <1>7b
  <2>3. QED
    BY <1>7a, <2>1, <2>2
<1>11. totalBytes \in Nat /\ scopeBytes[t] \in Nat
  BY <1>1, <1>3, <1>4, BytesFinite
<1>12. totalBytes' = Cardinality(BytesIn(es, HeldIn(es))) /\ totalBytes' <= MaxBytes
  BY <1>1, <1>5, <1>8, <1>11, CacheAssumption DEF Minus
<1>13. b = Cardinality(BytesIn(es, ScopeIn(es, t))) /\ b \in Nat /\ b <= scopeBytes[t]
  BY <1>8, <1>9, <1>11 DEF Minus
<1>14. ASSUME NEW s \in Scopes
       PROVE  /\ Queue(es, nextSeq, sf[s], ScopeIn(es, s))
              /\ IsFiniteSet(ScopeIn(es, s)) /\ Cardinality(ScopeIn(es, s)) \in Nat
  <2>1. /\ sf[s] \in Seq(Slots) /\ Ordered(sf[s]) /\ \A m \in 1..Len(sf[s]) : sf[s][m].seq < nextSeq
        /\ LiveIn(entries, sf[s]) \ {i} = ScopeIn(entries, s) \ {i}
    BY <1>2 DEF Queue
  <2>2. LiveIn(es, sf[s]) = ScopeIn(es, s)
    BY <1>7, <1>7c, <2>1
  <2>3. IsFiniteSet(ScopeIn(es, s))
    <3>1. ScopeIn(es, s) = ScopeIn(entries, s) \ {i}
      BY <1>7, Zenon
    <3>2. IsFiniteSet(ScopeIn(entries, s))
      BY <1>3, Zenon
    <3>3. IsFiniteSet(ScopeIn(entries, s) \ {i})
      BY <3>2, FS_RemoveElement
    <3>4. QED
      BY <3>1, <3>3, Zenon
  <2>4. QED
    BY <2>1, <2>2, <2>3, FS_CardinalityType DEF Queue
<1>15. Queue(es, nextSeq, f, HeldIn(es))
  <2>1. /\ f \in Seq(Slots) /\ Ordered(f) /\ \A m \in 1..Len(f) : f[m].seq < nextSeq
        /\ LiveIn(entries, f) \ {i} = HeldIn(entries) \ {i}
    BY <1>2 DEF Queue
  <2>2. LiveIn(es, f) = HeldIn(es)
    BY <1>7, <1>7c, <2>1
  <2>3. QED
    BY <2>1, <2>2 DEF Queue
<1>16. Cardinality(HeldIn(es)) \in Nat /\ Cardinality(HeldIn(es)) <= MaxEntries
  <2>1. Cardinality(HeldIn(es)) = Cardinality(HeldIn(entries)) - 1
    BY <1>2, <1>3, <1>7, FS_RemoveElement
  <2>2. IsFiniteSet(HeldIn(es))
    BY <1>3, <1>7, FS_RemoveElement
  <2>3. QED
    BY <1>1, <1>3, <2>1, <2>2, FS_CardinalityType, CacheAssumption
<1> HIDE DEF b, e
<1>17. /\ Queue(es, nextSeq, fifo', HeldIn(es))
       /\ Len(fifo') <= 2 * Cardinality(HeldIn(es)) + Slack
  BY <1>5, <1>6, <1>15, CompactedKeeps DEF HeldIn
<1>18. b = 0 => ScopeIn(es, t) = {}
  <2>1. Sized(es, ScopeIn(es, t))
    BY <1>4, <1>6, <1>8, ScopesWithin
  <2>2. QED
    BY <1>4, <1>13, <1>14, <2>1, BytesFinite
<1>19. /\ Queue(es, nextSeq, ScopeCompacted(es, sf[t], b), ScopeIn(es, t))
       /\ Len(ScopeCompacted(es, sf[t], b)) <= Cardinality(ScopeIn(es, t)) + Slack
  BY <1>4, <1>6, <1>14, <1>18, ScopeCompactedKeeps
<1>20. scopeBytes' \in [Scopes -> Nat] /\ \A s \in Scopes : scopeBytes'[s] <= scopeBytes[s]
  BY <1>1, <1>4, <1>5, <1>13
<1>21. ASSUME NEW s \in Scopes
       PROVE  /\ Queue(es, nextSeq, scopeFifo'[s], ScopeIn(es, s))
              /\ Len(scopeFifo'[s]) <= Cardinality(ScopeIn(es, s)) + Slack
              /\ scopeBytes'[s] = Cardinality(BytesIn(es, ScopeIn(es, s)))
              /\ scopeBytes'[s] <= MaxScopeBytes
  <2>0. scopeBytes'[s] <= MaxScopeBytes
    <3>1. scopeBytes'[s] \in Nat /\ scopeBytes[s] \in Nat /\ MaxScopeBytes \in Nat
      BY <1>1, <1>20, CacheAssumption
    <3>2. QED
      BY <1>1, <1>20, <3>1
  <2>1. CASE s = t
    <3>1. scopeFifo'[s] = ScopeCompacted(es, sf[t], b) /\ scopeBytes'[s] = b
      BY <1>1, <1>4, <1>5, <2>1
    <3>2. QED
      BY <1>13, <1>19, <2>0, <2>1, <3>1
  <2>2. CASE s # t
    <3>1. scopeFifo'[s] = sf[s] /\ scopeBytes'[s] = scopeBytes[s]
      BY <1>1, <1>5, <2>2
    <3>2. /\ Len(sf[s]) <= Len(scopeFifo[s]) /\ Len(sf[s]) \in Nat /\ Len(scopeFifo[s]) \in Nat
          /\ Len(scopeFifo[s]) <= Cardinality(ScopeIn(entries, s)) + Slack
      BY <1>1
    <3>3. Len(sf[s]) <= Cardinality(ScopeIn(es, s)) + Slack
      <4>1. ScopeIn(es, s) = ScopeIn(entries, s)
        BY <1>10, <2>2
      <4>2. QED
        BY <1>3, <3>2, <4>1, CacheAssumption
    <3>4. scopeBytes'[s] = Cardinality(BytesIn(es, ScopeIn(es, s)))
      BY <1>1, <1>10, <2>2, <3>1
    <3>5. QED
      BY <1>14, <2>0, <3>1, <3>3, <3>4
  <2>3. QED
    BY <2>1, <2>2
<1>22. scopeFifo' \in [Scopes -> Seq(Slots)]
  <2>1. ScopeCompacted(es, sf[t], b) \in Seq(Slots)
    BY <1>19 DEF Queue
  <2>2. QED
    BY <1>5, <2>1
<1>23. TierOf(es, fifo', scopeFifo', scopeBytes', totalBytes', nextSeq)
  BY <1>1, <1>6, <1>8, <1>12, <1>16, <1>17, <1>20, <1>21, <1>22 DEF TierOf
<1>24. Tier'
  BY <1>5, <1>23 DEF Tier
<1>25. Held' = Held \ {i}
  BY <1>2, <1>5, <1>7 DEF Held, HeldIn
<1>26. QED
  BY <1>5, <1>20, <1>24, <1>25 DEF es

\* An insertion under way holds the lock, its digest is free, and once it is past
\* its scope's bound the scope has room for it.
OpOK ==
    \/ op = Idle
    \/ /\ op \in [at : {"scope", "total"}, key : Keys, bytes : 1..MaxEntryBytes]
       /\ entries[DigestOf[op.key]] = None /\ nextSeq < MaxInserts
       /\ op.at = "total" => scopeBytes[ScopeOf[op.key]] + op.bytes <= MaxScopeBytes
    \/ op \in [at : {"invalidate"}, scope : Scopes \cup {None}]

CacheInv ==
    /\ Tier /\ OpOK
    /\ nextSeq \in 0..MaxInserts /\ generation \in 0..MaxGeneration /\ now \in 0..MaxNow

\* What the tier's invariant says of the state's own definitions.
LEMMA TierFacts ==
    ASSUME Tier
    PROVE  /\ entries \in Books /\ Sized(entries, Held) /\ nextSeq \in Nat
           /\ Queue(entries, nextSeq, fifo, Held)
           /\ Len(fifo) <= 2 * Cardinality(Held) + Slack
           /\ totalBytes = Cardinality(BytesIn(entries, Held)) /\ totalBytes <= MaxBytes
           /\ totalBytes \in Nat
           /\ Cardinality(Held) \in Nat /\ Cardinality(Held) <= MaxEntries
           /\ IsFiniteSet(Held) /\ Held \in SUBSET Digests
           /\ scopeFifo \in [Scopes -> Seq(Slots)] /\ scopeBytes \in [Scopes -> Nat]
           /\ \A i \in Held : entries[i] \in Entries /\ ScopeOf[entries[i].key] \in Scopes
           /\ \A s \in Scopes :
                /\ Queue(entries, nextSeq, scopeFifo[s], OfScope(s))
                /\ Len(scopeFifo[s]) <= Cardinality(OfScope(s)) + Slack
                /\ scopeBytes[s] = Cardinality(BytesIn(entries, OfScope(s)))
                /\ scopeBytes[s] <= MaxScopeBytes
                /\ OfScope(s) \in SUBSET Held /\ IsFiniteSet(OfScope(s))
                /\ Cardinality(OfScope(s)) \in Nat /\ Sized(entries, OfScope(s))
<1>1. Held = HeldIn(entries) /\ \A s : OfScope(s) = ScopeIn(entries, s)
  BY DEF Held, HeldIn, OfScope, ScopeIn
<1>2. entries \in Books /\ Sized(entries, HeldIn(entries))
  BY DEF Tier, TierOf
<1>3. totalBytes \in Nat
  <2>1. IsFiniteSet(HeldIn(entries))
    BY <1>2, ScopesWithin
  <2>2. totalBytes = Cardinality(BytesIn(entries, HeldIn(entries)))
    BY DEF Tier, TierOf
  <2>3. QED
    BY <1>2, <2>1, <2>2, BytesFinite
<1>4. HeldIn(entries) \in SUBSET Digests
  BY DEF HeldIn
<1>5. /\ Queue(entries, nextSeq, fifo, HeldIn(entries))
      /\ nextSeq \in Nat
      /\ Len(fifo) <= 2 * Cardinality(HeldIn(entries)) + Slack
      /\ totalBytes = Cardinality(BytesIn(entries, HeldIn(entries))) /\ totalBytes <= MaxBytes
      /\ Cardinality(HeldIn(entries)) <= MaxEntries
      /\ scopeFifo \in [Scopes -> Seq(Slots)] /\ scopeBytes \in [Scopes -> Nat]
  BY DEF Tier, TierOf
<1>6. ASSUME NEW s \in Scopes
      PROVE  /\ Queue(entries, nextSeq, scopeFifo[s], OfScope(s))
             /\ Len(scopeFifo[s]) <= Cardinality(OfScope(s)) + Slack
             /\ scopeBytes[s] = Cardinality(BytesIn(entries, OfScope(s)))
             /\ scopeBytes[s] <= MaxScopeBytes
             /\ OfScope(s) \in SUBSET Held /\ IsFiniteSet(OfScope(s))
             /\ Cardinality(OfScope(s)) \in Nat /\ Sized(entries, OfScope(s))
  <2>1. OfScope(s) = ScopeIn(entries, s)
    BY <1>1
  <2>2. /\ Queue(entries, nextSeq, scopeFifo[s], ScopeIn(entries, s))
        /\ Len(scopeFifo[s]) <= Cardinality(ScopeIn(entries, s)) + Slack
        /\ scopeBytes[s] = Cardinality(BytesIn(entries, ScopeIn(entries, s)))
        /\ scopeBytes[s] <= MaxScopeBytes
    BY DEF Tier, TierOf
  <2>3. /\ ScopeIn(entries, s) \in SUBSET HeldIn(entries) /\ IsFiniteSet(ScopeIn(entries, s))
        /\ Cardinality(ScopeIn(entries, s)) \in Nat /\ Sized(entries, ScopeIn(entries, s))
    BY <1>2, ScopesWithin
  <2>4. QED
    BY <1>1, <2>1, <2>2, <2>3, Zenon
<1>7. /\ IsFiniteSet(HeldIn(entries)) /\ Cardinality(HeldIn(entries)) \in Nat
      /\ \A i \in HeldIn(entries) : entries[i] \in Entries /\ ScopeOf[entries[i].key] \in Scopes
  BY <1>2, ScopesWithin
<1>8. Held = HeldIn(entries)
  BY <1>1
<1>9. QED
  BY <1>2, <1>3, <1>4, <1>5, <1>6, <1>7, <1>8, Zenon

\* A removal that pops no slot.
LEMMA PlainRemove ==
    ASSUME Tier, NEW i \in Held, Remove(i, fifo, scopeFifo), nextSeq' = nextSeq
    PROVE  /\ Tier'
           /\ entries' = [entries EXCEPT ![i] = None]
           /\ Held' = Held \ {i}
           /\ \A s \in Scopes : scopeBytes'[s] <= scopeBytes[s]
<1>1. /\ Queue(entries, nextSeq, fifo, Held)
      /\ scopeFifo \in [Scopes -> Seq(Slots)]
      /\ \A s \in Scopes : Queue(entries, nextSeq, scopeFifo[s], OfScope(s))
  BY TierFacts
<1>2. /\ LiveIn(entries, fifo) = Held
      /\ \A s \in Scopes : LiveIn(entries, scopeFifo[s]) = OfScope(s)
  BY <1>1 DEF Queue
<1>3. Queue(entries, nextSeq, fifo, LiveIn(entries, fifo))
  BY <1>1, <1>2
<1>4. ASSUME NEW s \in Scopes
      PROVE  /\ Queue(entries, nextSeq, scopeFifo[s], LiveIn(entries, scopeFifo[s]))
             /\ LiveIn(entries, scopeFifo[s]) \ {i} = OfScope(s) \ {i}
             /\ Len(scopeFifo[s]) <= Len(scopeFifo[s])
  <2>1. Len(scopeFifo[s]) \in Nat
    BY <1>1
  <2>2. LiveIn(entries, scopeFifo[s]) = OfScope(s)
    BY <1>2, Zenon
  <2>3. Queue(entries, nextSeq, scopeFifo[s], OfScope(s))
    BY <1>1, Zenon
  <2>4. Len(scopeFifo[s]) <= Len(scopeFifo[s])
    BY <2>1
  <2>5. QED
    BY <2>2, <2>3, <2>4, Zenon
<1>5. LiveIn(entries, fifo) \ {i} = Held \ {i}
  BY <1>2
<1>6. QED
  BY <1>1, <1>3, <1>4, <1>5, RemoveKeeps

\* The oldest of a queue: its head, if live, is the entry of the least number.
LEMMA HeadOldest ==
    ASSUME NEW es \in Books, NEW top, NEW q, NEW D, Queue(es, top, q, D), q # <<>>,
           Live(es, Head(q))
    PROVE  \A j \in D : es[Head(q).id].seq <= es[j].seq
<1> SUFFICES ASSUME NEW j \in D
             PROVE  es[Head(q).id].seq <= es[j].seq
  OBVIOUS
<1>1. /\ q \in Seq(Slots) /\ LiveIn(es, q) = D
      /\ \A n \in 1..Len(q) : n = 1 \/ Head(q).seq < q[n].seq
      /\ es[Head(q).id].seq = Head(q).seq
  BY PopKeeps DEF Queue
<1>2. PICK n \in 1..Len(q) : Live(es, q[n]) /\ j = q[n].id
  BY <1>1 DEF LiveIn
<1>3. es[j].seq = q[n].seq /\ q[n] \in Slots /\ Head(q) = q[1] /\ q[1] \in Slots
  BY <1>1, <1>2 DEF Live
<1>4. q[n].seq \in Nat /\ q[1].seq \in Nat
  BY <1>3 DEF Slots
<1>5. QED
  BY <1>1, <1>3, <1>4

\* evict_oldest of a scope.
LEMMA EvictScopeKeeps ==
    ASSUME Tier, OpOK, EvictScope
    PROVE  /\ Tier'
           /\ \A i \in Digests : entries[i] = None => entries'[i] = None
           /\ \A i \in Evicted :
                /\ ScopeOf[entries[i].key] = ScopeOf[op.key]
                /\ \A j \in OfScope(ScopeOf[op.key]) : entries[i].seq <= entries[j].seq
<1> DEFINE s == ScopeOf[op.key]
           q == scopeFifo[s]
           rest == [scopeFifo EXCEPT ![s] = Tail(@)]
           i == Head(q).id
<1>1. op \in [at : {"scope", "total"}, key : Keys, bytes : 1..MaxEntryBytes] /\ s \in Scopes
  <2>1. op.at = "scope"
    BY DEF EvictScope
  <2>2. op # Idle /\ op \notin [at : {"invalidate"}, scope : Scopes \cup {None}]
    BY <2>1 DEF Idle
  <2>3. op \in [at : {"scope", "total"}, key : Keys, bytes : 1..MaxEntryBytes]
    BY <2>2 DEF OpOK
  <2>4. QED
    BY <2>3, CacheAssumption
<1>2. q # <<>> /\ nextSeq' = nextSeq
      /\ IF Live(entries, Head(q)) THEN Remove(i, fifo, rest)
         ELSE scopeFifo' = rest /\ UNCHANGED <<entries, fifo, scopeBytes, totalBytes>>
  BY DEF EvictScope
<1>3. /\ entries \in Books /\ nextSeq \in Nat /\ Queue(entries, nextSeq, fifo, Held)
      /\ scopeFifo \in [Scopes -> Seq(Slots)]
      /\ \A r \in Scopes :
           /\ Queue(entries, nextSeq, scopeFifo[r], OfScope(r))
           /\ Len(scopeFifo[r]) <= Cardinality(OfScope(r)) + Slack
           /\ Cardinality(OfScope(r)) \in Nat
           /\ OfScope(r) \in SUBSET Held
  BY TierFacts
<1>4. /\ Tail(q) \in Seq(Slots) /\ Len(Tail(q)) <= Len(q)
      /\ Live(entries, Head(q)) => i \in OfScope(s) /\ entries[i].seq = Head(q).seq
      /\ Queue(entries, nextSeq, Tail(q),
               IF Live(entries, Head(q)) THEN OfScope(s) \ {i} ELSE OfScope(s))
  <2>1. Queue(entries, nextSeq, q, OfScope(s))
    BY <1>1, <1>3
  <2> HIDE DEF q
  <2>2. QED
    BY <1>2, <1>3, <2>1, PopKeeps
<1>5. /\ rest \in [Scopes -> Seq(Slots)] /\ rest[s] = Tail(q)
      /\ \A r \in Scopes : r # s => rest[r] = scopeFifo[r]
  BY <1>1, <1>3, <1>4
<1>6. CASE Live(entries, Head(q))
  <2>1. Remove(i, fifo, rest) /\ i \in OfScope(s) /\ i \in Held
    BY <1>1, <1>2, <1>3, <1>4, <1>6
  <2>2. Queue(entries, nextSeq, fifo, LiveIn(entries, fifo)) /\ LiveIn(entries, fifo) \ {i} = Held \ {i}
    BY <1>3 DEF Queue
  <2>3. ASSUME NEW r \in Scopes
        PROVE  /\ Queue(entries, nextSeq, rest[r], LiveIn(entries, rest[r]))
               /\ LiveIn(entries, rest[r]) \ {i} = OfScope(r) \ {i}
               /\ Len(rest[r]) <= Len(scopeFifo[r])
    <3>1. CASE r = s
      <4>1. Queue(entries, nextSeq, Tail(q), OfScope(s) \ {i})
        BY <1>4, <1>6
      <4>2. LiveIn(entries, Tail(q)) = OfScope(s) \ {i}
        BY <4>1 DEF Queue
      <4>3. LiveIn(entries, Tail(q)) \ {i} = OfScope(s) \ {i}
        BY <4>2
      <4>4. Queue(entries, nextSeq, Tail(q), LiveIn(entries, Tail(q)))
        BY <4>1, <4>2, Zenon
      <4> HIDE DEF rest
      <4>5. QED
        BY <1>4, <1>5, <3>1, <4>3, <4>4
    <3>2. CASE r # s
      <4>1. rest[r] = scopeFifo[r] /\ Queue(entries, nextSeq, scopeFifo[r], OfScope(r))
        BY <1>3, <1>5, <3>2, Zenon
      <4>2. LiveIn(entries, scopeFifo[r]) = OfScope(r) /\ Len(scopeFifo[r]) \in Nat
        BY <4>1 DEF Queue
      <4> HIDE DEF rest
      <4>3. Len(scopeFifo[r]) <= Len(scopeFifo[r])
        BY <4>2
      <4>4. QED
        BY <4>1, <4>2, <4>3, Zenon
    <3>3. QED
      BY <3>1, <3>2
  <2> HIDE DEF rest, i
  <2>4. Tier' /\ entries' = [entries EXCEPT ![i] = None]
    BY <1>2, <1>5, <2>1, <2>2, <2>3, RemoveKeeps
  <2>5. \A j \in Digests : entries[j] = None => entries'[j] = None
    BY <1>3, <2>4 DEF Books
  <2>6. \A j \in Evicted : j = i
    BY <1>3, <2>4 DEF Evicted, Held, Books
  <2>7. ScopeOf[entries[i].key] = s
    BY <2>1 DEF OfScope
  <2>8. \A j \in OfScope(s) : entries[i].seq <= entries[j].seq
    <3>1. Queue(entries, nextSeq, q, OfScope(s))
      BY <1>1, <1>3
    <3> HIDE DEF q
    <3>2. QED
      BY <1>2, <1>3, <1>6, <3>1, HeadOldest DEF i
  <2>9. QED
    BY <2>4, <2>5, <2>6, <2>7, <2>8
<1>7. CASE ~Live(entries, Head(q))
  <2>1. scopeFifo' = rest /\ UNCHANGED <<entries, fifo, scopeBytes, totalBytes>>
    BY <1>2, <1>7
  <2>2. Queue(entries, nextSeq, Tail(q), OfScope(s))
    BY <1>4, <1>7
  <2>3. ASSUME NEW r \in Scopes
        PROVE  /\ Queue(entries, nextSeq, scopeFifo'[r], ScopeIn(entries, r))
               /\ Len(scopeFifo'[r]) <= Cardinality(ScopeIn(entries, r)) + Slack
    <3>0. OfScope(r) = ScopeIn(entries, r)
      BY DEF OfScope, ScopeIn, Held, HeldIn
    <3>1. CASE r = s
      <4>1. Len(Tail(q)) \in Nat /\ Len(q) \in Nat
        BY <1>1, <1>3, <1>4
      <4>2. Len(Tail(q)) <= Cardinality(OfScope(r)) + Slack
        <5>1. Len(q) <= Cardinality(OfScope(r)) + Slack /\ Cardinality(OfScope(r)) \in Nat
          BY <1>3, <3>1
        <5>2. Len(Tail(q)) <= Len(q) /\ Slack \in Nat
          BY <1>4, CacheAssumption
        <5> HIDE DEF q
        <5>3. QED
          BY <4>1, <5>1, <5>2
      <4> HIDE DEF rest
      <4>3. QED
        BY <1>5, <2>1, <2>2, <3>0, <3>1, <4>2
    <3>2. CASE r # s
      <4> HIDE DEF rest
      <4>1. scopeFifo'[r] = scopeFifo[r]
        BY <1>5, <2>1, <3>2
      <4>2. QED
        BY <1>3, <3>0, <4>1
    <3>3. QED
      BY <3>1, <3>2
  <2> HIDE DEF rest
  <2>4. TierOf(entries, fifo, scopeFifo', scopeBytes, totalBytes, nextSeq)
    BY <1>5, <2>1, <2>3 DEF Tier, TierOf
  <2>5. Tier'
    BY <1>2, <2>1, <2>4 DEF Tier
  <2>6. Evicted = {}
    BY <2>1 DEF Evicted, Held
  <2>7. QED
    BY <2>1, <2>5, <2>6
<1>8. QED
  BY <1>6, <1>7

\* evict_oldest of the namespace.
LEMMA EvictAnyKeeps ==
    ASSUME Tier, EvictAny
    PROVE  /\ Tier'
           /\ \A i \in Digests : entries[i] = None => entries'[i] = None
           /\ \A s \in Scopes : scopeBytes'[s] <= scopeBytes[s]
           /\ \A i \in Evicted : \A j \in Held : entries[i].seq <= entries[j].seq
<1> DEFINE i == Head(fifo).id
<1>2. fifo # <<>> /\ nextSeq' = nextSeq
      /\ IF Live(entries, Head(fifo)) THEN Remove(i, Tail(fifo), scopeFifo)
         ELSE fifo' = Tail(fifo) /\ UNCHANGED <<entries, scopeFifo, scopeBytes, totalBytes>>
  BY DEF EvictAny
<1>3. /\ entries \in Books /\ nextSeq \in Nat /\ Queue(entries, nextSeq, fifo, Held)
      /\ Len(fifo) <= 2 * Cardinality(Held) + Slack /\ Cardinality(Held) \in Nat
      /\ scopeFifo \in [Scopes -> Seq(Slots)] /\ scopeBytes \in [Scopes -> Nat]
      /\ \A r \in Scopes : Queue(entries, nextSeq, scopeFifo[r], OfScope(r))
  BY TierFacts
<1>4. /\ Tail(fifo) \in Seq(Slots) /\ Len(Tail(fifo)) <= Len(fifo)
      /\ Live(entries, Head(fifo)) => i \in Held /\ entries[i].seq = Head(fifo).seq
      /\ Queue(entries, nextSeq, Tail(fifo),
               IF Live(entries, Head(fifo)) THEN Held \ {i} ELSE Held)
  BY <1>2, <1>3, PopKeeps
<1>6. CASE Live(entries, Head(fifo))
  <2>1. Remove(i, Tail(fifo), scopeFifo) /\ i \in Held
    BY <1>2, <1>4, <1>6
  <2>2. /\ Queue(entries, nextSeq, Tail(fifo), LiveIn(entries, Tail(fifo)))
        /\ LiveIn(entries, Tail(fifo)) \ {i} = Held \ {i}
    <3>1. Queue(entries, nextSeq, Tail(fifo), Held \ {i})
      BY <1>4, <1>6
    <3>2. LiveIn(entries, Tail(fifo)) = Held \ {i}
      BY <3>1 DEF Queue
    <3>3. QED
      BY <3>1, <3>2
  <2>3. ASSUME NEW r \in Scopes
        PROVE  /\ Queue(entries, nextSeq, scopeFifo[r], LiveIn(entries, scopeFifo[r]))
               /\ LiveIn(entries, scopeFifo[r]) \ {i} = OfScope(r) \ {i}
               /\ Len(scopeFifo[r]) <= Len(scopeFifo[r])
    <3>1. Queue(entries, nextSeq, scopeFifo[r], OfScope(r))
      BY <1>3, Zenon
    <3>2. LiveIn(entries, scopeFifo[r]) = OfScope(r) /\ Len(scopeFifo[r]) \in Nat
      BY <3>1 DEF Queue
    <3>3. Len(scopeFifo[r]) <= Len(scopeFifo[r])
      BY <3>2
    <3>4. QED
      BY <3>1, <3>2, <3>3, Zenon
  <2> HIDE DEF i
  <2>4. /\ Tier' /\ entries' = [entries EXCEPT ![i] = None]
        /\ \A s \in Scopes : scopeBytes'[s] <= scopeBytes[s]
    BY <1>2, <1>3, <2>1, <2>2, <2>3, RemoveKeeps
  <2>5. \A j \in Digests : entries[j] = None => entries'[j] = None
    BY <1>3, <2>4 DEF Books
  <2>6. \A j \in Evicted : j = i
    BY <1>3, <2>4 DEF Evicted, Held, Books
  <2>8. \A j \in Held : entries[i].seq <= entries[j].seq
    BY <1>2, <1>3, <1>6, HeadOldest DEF i
  <2>9. QED
    BY <2>4, <2>5, <2>6, <2>8
<1>7. CASE ~Live(entries, Head(fifo))
  <2>1. fifo' = Tail(fifo) /\ UNCHANGED <<entries, scopeFifo, scopeBytes, totalBytes>>
    BY <1>2, <1>7
  <2>2. Queue(entries, nextSeq, Tail(fifo), HeldIn(entries))
    BY <1>4, <1>7 DEF Held, HeldIn
  <2>3. Len(Tail(fifo)) <= 2 * Cardinality(HeldIn(entries)) + Slack
    <3>1. Held = HeldIn(entries)
      BY DEF Held, HeldIn
    <3>2. Len(Tail(fifo)) \in Nat /\ Len(fifo) \in Nat
      BY <1>3, <1>4 DEF Queue
    <3>3. QED
      BY <1>3, <1>4, <3>1, <3>2, CacheAssumption
  <2>4. TierOf(entries, fifo', scopeFifo, scopeBytes, totalBytes, nextSeq)
    BY <2>1, <2>2, <2>3 DEF Tier, TierOf
  <2>5. Tier'
    BY <1>2, <2>1, <2>4 DEF Tier
  <2>6. Evicted = {}
    BY <2>1 DEF Evicted, Held
  <2>7. \A s \in Scopes : scopeBytes'[s] <= scopeBytes[s]
    BY <1>3, <2>1
  <2>8. QED
    BY <2>1, <2>5, <2>6, <2>7
<1>8. QED
  BY <1>6, <1>7

\* Without slots there are no entries, and no bytes.
LEMMA NothingQueued ==
    ASSUME Tier
    PROVE  /\ fifo = <<>> => Cardinality(Held) = 0 /\ totalBytes = 0
           /\ \A s \in Scopes : scopeFifo[s] = <<>> => scopeBytes[s] = 0
<1>1. LiveIn(entries, <<>>) = {}
  BY DEF LiveIn
<1>2. ASSUME fifo = <<>>
      PROVE  Cardinality(Held) = 0 /\ totalBytes = 0
  <2>1. /\ LiveIn(entries, fifo) = Held /\ totalBytes = Cardinality(BytesIn(entries, Held))
        /\ Sized(entries, Held) /\ IsFiniteSet(Held)
    BY TierFacts DEF Queue
  <2>2. Held = {}
    BY <1>1, <1>2, <2>1
  <2>3. QED
    BY <2>1, <2>2, BytesFinite, FS_EmptySet
<1>3. ASSUME NEW s \in Scopes, scopeFifo[s] = <<>>
      PROVE  scopeBytes[s] = 0
  <2>1. /\ Queue(entries, nextSeq, scopeFifo[s], OfScope(s))
        /\ scopeBytes[s] = Cardinality(BytesIn(entries, OfScope(s)))
        /\ Sized(entries, OfScope(s)) /\ IsFiniteSet(OfScope(s))
    BY TierFacts
  <2>2. LiveIn(entries, scopeFifo[s]) = OfScope(s)
    BY <2>1 DEF Queue
  <2>3. OfScope(s) = {}
    BY <1>1, <1>3, <2>2, Zenon
  <2>4. QED
    BY <2>1, <2>3, BytesFinite
<1>4. QED
  BY <1>2, <1>3

\* The admission: the entry's slots are the youngest of both queues.
LEMMA CommitKeeps ==
    ASSUME Tier, OpOK, Commit, nextSeq \in 0..MaxInserts, generation \in 0..MaxGeneration,
           now \in 0..MaxNow
    PROVE  Tier' /\ nextSeq' \in 0..MaxInserts
<1> DEFINE k == op.key
           i == DigestOf[k]
           t == ScopeOf[k]
           n == op.bytes
           e == [key |-> k, bytes |-> n, seq |-> nextSeq,
                 generation |-> generation, expires |-> now + Ttl]
           es == [entries EXCEPT ![i] = e]
           x == [id |-> i, seq |-> nextSeq]
<1>1. /\ op \in [at : {"scope", "total"}, key : Keys, bytes : 1..MaxEntryBytes]
      /\ entries[i] = None /\ nextSeq < MaxInserts
      /\ scopeBytes[t] + n <= MaxScopeBytes
  <2>1. op.at = "total"
    BY DEF Commit
  <2>2. op # Idle /\ op \notin [at : {"invalidate"}, scope : Scopes \cup {None}]
    BY <2>1 DEF Idle
  <2>3. QED
    BY <2>1, <2>2 DEF OpOK
<1>2. k \in Keys /\ i \in Digests /\ t \in Scopes /\ n \in 1..MaxEntryBytes /\ n \in Nat
      /\ n <= MaxBytes
  BY <1>1, CacheAssumption
<1>3. /\ entries' = es /\ scopeBytes' = [scopeBytes EXCEPT ![t] = @ + n]
      /\ totalBytes' = totalBytes + n /\ fifo' = Append(fifo, x)
      /\ scopeFifo' = [scopeFifo EXCEPT ![t] = Append(@, x)]
      /\ nextSeq' = nextSeq + 1
      /\ ~TooFull \/ fifo = <<>>
  BY DEF Commit
<1>4. /\ entries \in Books /\ Sized(entries, Held) /\ nextSeq \in Nat
      /\ Queue(entries, nextSeq, fifo, Held)
      /\ Len(fifo) <= 2 * Cardinality(Held) + Slack
      /\ totalBytes = Cardinality(BytesIn(entries, Held)) /\ totalBytes <= MaxBytes
      /\ totalBytes \in Nat /\ Cardinality(Held) \in Nat
      /\ IsFiniteSet(Held) /\ Held \in SUBSET Digests
      /\ scopeFifo \in [Scopes -> Seq(Slots)] /\ scopeBytes \in [Scopes -> Nat]
      /\ \A s \in Scopes :
           /\ Queue(entries, nextSeq, scopeFifo[s], OfScope(s))
           /\ Len(scopeFifo[s]) <= Cardinality(OfScope(s)) + Slack
           /\ scopeBytes[s] = Cardinality(BytesIn(entries, OfScope(s)))
           /\ scopeBytes[s] <= MaxScopeBytes
           /\ OfScope(s) \in SUBSET Held /\ IsFiniteSet(OfScope(s))
           /\ Cardinality(OfScope(s)) \in Nat /\ Sized(entries, OfScope(s))
  BY TierFacts
<1>5. e \in Entries /\ e.bytes = n /\ e.seq = nextSeq /\ e.key = k /\ e # None
  <2>1. generation \in Nat /\ now + Ttl \in Nat
    BY CacheAssumption
  <2>2. e \in Entries
    BY <1>2, <1>4, <2>1 DEF Entries
  <2>3. QED
    BY <2>2, NoneAssumption
<1>6. i \notin Held /\ \A s \in Scopes : i \notin OfScope(s)
  BY <1>1 DEF Held, OfScope
<1> HIDE DEF e
<1>7. es \in Books
  BY <1>2, <1>4, <1>5 DEF Books
<1>8. es[i] = e /\ \A j \in Digests : j # i => es[j] = entries[j]
  BY <1>2, <1>4 DEF Books
<1>9. \A q, D : Queue(entries, nextSeq, q, D) =>
         /\ Queue(es, nextSeq + 1, q, D)
         /\ Queue(es, nextSeq + 1, Append(q, x), D \cup {i})
  BY <1>1, <1>2, <1>4, <1>5, LiveWith
<1>10. \A D \in SUBSET Digests : Sized(entries, D) /\ i \notin D =>
         /\ Sized(es, D) /\ Sized(es, D \cup {i})
         /\ BytesIn(es, D) = BytesIn(entries, D)
         /\ Cardinality(BytesIn(es, D \cup {i})) = Cardinality(BytesIn(entries, D)) + n
  <2> SUFFICES ASSUME NEW D \in SUBSET Digests, Sized(entries, D), i \notin D
               PROVE  /\ Sized(es, D) /\ Sized(es, D \cup {i})
                      /\ BytesIn(es, D) = BytesIn(entries, D)
                      /\ Cardinality(BytesIn(es, D \cup {i})) = Cardinality(BytesIn(entries, D)) + n
    OBVIOUS
  <2>1. e.bytes \in 1..MaxEntryBytes /\ e.bytes = n
    BY <1>2, <1>5
  <2> HIDE DEF n, i
  <2>2. /\ Sized(es, D) /\ Sized(es, D \cup {i})
        /\ BytesIn(es, D) = BytesIn(entries, D)
        /\ Cardinality(BytesIn(es, D \cup {i})) = Cardinality(BytesIn(entries, D)) + e.bytes
    <3>1. e.bytes \in 1..MaxEntryBytes /\ i \in Digests /\ entries \in Books
      BY <1>2, <1>4, <2>1
    <3>2. QED
      BY <3>1, BytesWith
  <2> HIDE DEF es
  <2>3. QED
    BY <2>1, <2>2
<1> HIDE DEF es, x, i, t, n, k
<1>11. HeldIn(es) = Held \cup {i}
  BY <1>2, <1>5, <1>8 DEF HeldIn, Held
<1>12. ScopeIn(es, t) = OfScope(t) \cup {i}
  <2>1. \A j \in Held : j # i /\ es[j] = entries[j]
    BY <1>4, <1>6, <1>8
  <2>2. ScopeOf[es[i].key] = t
    BY <1>5, <1>8 DEF t
  <2>3. QED
    BY <1>11, <2>1, <2>2 DEF ScopeIn, OfScope
<1>13. \A s \in Scopes : s # t => ScopeIn(es, s) = OfScope(s)
  <2>1. \A j \in Held : j # i /\ es[j] = entries[j]
    BY <1>4, <1>6, <1>8
  <2>2. ScopeOf[es[i].key] = t
    BY <1>5, <1>8 DEF t
  <2>3. QED
    BY <1>11, <2>1, <2>2 DEF ScopeIn, OfScope
<1>14. Sized(es, HeldIn(es)) /\ totalBytes' = Cardinality(BytesIn(es, HeldIn(es)))
  <2>1. /\ Sized(es, Held \cup {i})
        /\ Cardinality(BytesIn(es, Held \cup {i})) = Cardinality(BytesIn(entries, Held)) + n
    BY <1>4, <1>6, <1>10
  <2>2. QED
    BY <1>3, <1>4, <1>11, <2>1
<1>15. Cardinality(Held) < MaxEntries /\ totalBytes' <= MaxBytes
  <2>1. CASE ~TooFull
    <3>1. ~(Cardinality(Held) >= MaxEntries) /\ ~(totalBytes + n > MaxBytes)
      BY <2>1 DEF TooFull, n
    <3>2. /\ totalBytes \in Nat /\ n \in Nat /\ Cardinality(Held) \in Nat
          /\ MaxEntries \in Nat /\ MaxBytes \in Nat
      BY <1>2, <1>4, CacheAssumption
    <3>3. QED
      BY <1>3, <3>1, <3>2
  <2>2. CASE fifo = <<>>
    BY <1>2, <1>3, <2>2, NothingQueued, CacheAssumption
  <2>3. QED
    BY <1>3, <2>1, <2>2
<1>16. Cardinality(HeldIn(es)) = Cardinality(Held) + 1
  <2>1. Cardinality(Held \cup {i}) = Cardinality(Held) + 1
    BY <1>4, <1>6, FS_AddElement
  <2>2. QED
    BY <1>11, <2>1, Zenon
<1>17. Cardinality(HeldIn(es)) <= MaxEntries
  BY <1>4, <1>15, <1>16, CacheAssumption
<1>18. Queue(es, nextSeq + 1, fifo', HeldIn(es)) /\ Len(fifo') <= 2 * Cardinality(HeldIn(es)) + Slack
  <2>1. Queue(es, nextSeq + 1, Append(fifo, x), Held \cup {i})
    BY <1>4, <1>9
  <2>2. Len(Append(fifo, x)) = Len(fifo) + 1 /\ Len(fifo) \in Nat
    BY <1>4 DEF Queue
  <2>3. QED
    BY <1>3, <1>4, <1>11, <1>16, <2>1, <2>2, CacheAssumption
<1>19. scopeBytes' \in [Scopes -> Nat]
  <2>1. scopeBytes \in [Scopes -> Nat] /\ n \in Nat /\ t \in Scopes
    BY <1>2, <1>4
  <2>2. scopeBytes' = [scopeBytes EXCEPT ![t] = @ + n]
    BY <1>3
  <2>3. scopeBytes[t] + n \in Nat
    BY <2>1
  <2>4. QED
    BY <2>1, <2>2, <2>3
<1>20. ASSUME NEW s \in Scopes
       PROVE  /\ Queue(es, nextSeq + 1, scopeFifo'[s], ScopeIn(es, s))
              /\ scopeFifo'[s] \in Seq(Slots)
              /\ Len(scopeFifo'[s]) <= Cardinality(ScopeIn(es, s)) + Slack
              /\ scopeBytes'[s] = Cardinality(BytesIn(es, ScopeIn(es, s)))
              /\ scopeBytes'[s] <= MaxScopeBytes
  <2>1. /\ Queue(entries, nextSeq, scopeFifo[s], OfScope(s))
        /\ Len(scopeFifo[s]) <= Cardinality(OfScope(s)) + Slack
        /\ scopeBytes[s] = Cardinality(BytesIn(entries, OfScope(s)))
        /\ scopeBytes[s] <= MaxScopeBytes
        /\ OfScope(s) \in SUBSET Digests /\ IsFiniteSet(OfScope(s))
        /\ Cardinality(OfScope(s)) \in Nat /\ Sized(entries, OfScope(s))
        /\ i \notin OfScope(s)
        /\ scopeFifo[s] \in Seq(Slots) /\ Len(scopeFifo[s]) \in Nat
    BY <1>4, <1>6
  <2>2. /\ Queue(es, nextSeq + 1, scopeFifo[s], OfScope(s))
        /\ Queue(es, nextSeq + 1, Append(scopeFifo[s], x), OfScope(s) \cup {i})
    BY <1>9, <2>1
  <2>3. /\ BytesIn(es, OfScope(s)) = BytesIn(entries, OfScope(s))
        /\ Cardinality(BytesIn(es, OfScope(s) \cup {i})) = Cardinality(BytesIn(entries, OfScope(s))) + n
    BY <1>10, <2>1
  <2>4. CASE s = t
    <3>1. scopeFifo'[s] = Append(scopeFifo[s], x) /\ scopeBytes'[s] = scopeBytes[s] + n
      BY <1>3, <1>4, <2>4
    <3>2. ScopeIn(es, s) = OfScope(s) \cup {i}
      BY <1>12, <2>4
    <3>3. Cardinality(OfScope(s) \cup {i}) = Cardinality(OfScope(s)) + 1
      BY <2>1, FS_AddElement
    <3>4. Len(Append(scopeFifo[s], x)) = Len(scopeFifo[s]) + 1
      BY <2>1
    <3>5. Len(Append(scopeFifo[s], x)) <= Cardinality(OfScope(s) \cup {i}) + Slack
      BY <2>1, <3>3, <3>4, CacheAssumption
    <3>6. Append(scopeFifo[s], x) \in Seq(Slots)
      BY <2>2 DEF Queue
    <3>7. scopeBytes[s] + n <= MaxScopeBytes
      BY <1>1, <2>4
    <3>8. QED
      BY <2>1, <2>2, <2>3, <3>1, <3>2, <3>5, <3>6, <3>7, Zenon
  <2>5. CASE s # t
    <3>1. scopeFifo'[s] = scopeFifo[s] /\ scopeBytes'[s] = scopeBytes[s]
      BY <1>3, <1>4, <2>5
    <3>2. ScopeIn(es, s) = OfScope(s)
      BY <1>13, <2>5, Zenon
    <3>3. QED
      BY <2>1, <2>2, <2>3, <3>1, <3>2, Zenon
  <2>6. QED
    BY <2>4, <2>5
<1>21. scopeFifo' \in [Scopes -> Seq(Slots)]
  <2>1. DOMAIN scopeFifo' = Scopes /\ scopeFifo' = [s \in Scopes |-> scopeFifo'[s]]
    BY <1>3, <1>4
  <2>2. QED
    BY <1>20, <2>1
<1>22. nextSeq + 1 \in Nat /\ nextSeq + 1 \in 0..MaxInserts
  BY <1>1, <1>4, CacheAssumption
<1>23. TierOf(es, fifo', scopeFifo', scopeBytes', totalBytes', nextSeq + 1)
  BY <1>7, <1>14, <1>15, <1>17, <1>18, <1>19, <1>20, <1>21, <1>22 DEF TierOf
<1>24. Tier'
  BY <1>3, <1>23 DEF Tier
<1>25. QED
  BY <1>3, <1>22, <1>24

LEMMA CacheInvInit == CacheInit => CacheInv
<1> SUFFICES ASSUME CacheInit
             PROVE  CacheInv
  OBVIOUS
<1>1. /\ entries = [i \in Digests |-> None] /\ fifo = <<>> /\ scopeFifo = [s \in Scopes |-> <<>>]
      /\ scopeBytes = [s \in Scopes |-> 0] /\ totalBytes = 0 /\ nextSeq = 0 /\ generation = 0
      /\ now = 0 /\ op = Idle
  BY DEF CacheInit
<1>2. HeldIn(entries) = {} /\ \A s : ScopeIn(entries, s) = {}
  BY <1>1 DEF HeldIn, ScopeIn
<1>3. BytesIn(entries, {}) = {} /\ Sized(entries, {})
  BY DEF BytesIn, Sized
<1>4. Cardinality({}) = 0
  BY FS_EmptySet
<1>5. Queue(entries, 0, <<>>, {}) /\ Len(<<>>) = 0 /\ <<>> \in Seq(Slots)
  BY DEF Queue, Ordered, LiveIn
<1>6. entries \in Books
  BY <1>1 DEF Books
<1>7. Tier
  <2>1. /\ Queue(entries, nextSeq, fifo, HeldIn(entries)) /\ Sized(entries, HeldIn(entries))
        /\ totalBytes = Cardinality(BytesIn(entries, HeldIn(entries)))
        /\ Cardinality(HeldIn(entries)) = 0 /\ Len(fifo) = 0 /\ nextSeq \in Nat
    BY <1>1, <1>2, <1>3, <1>4, <1>5
  <2>2. ASSUME NEW s \in Scopes
        PROVE  /\ Queue(entries, nextSeq, scopeFifo[s], ScopeIn(entries, s))
               /\ Len(scopeFifo[s]) = 0 /\ Cardinality(ScopeIn(entries, s)) = 0
               /\ scopeBytes[s] = Cardinality(BytesIn(entries, ScopeIn(entries, s)))
               /\ scopeBytes[s] = 0
    BY <1>1, <1>2, <1>3, <1>4, <1>5
  <2>3. scopeFifo \in [Scopes -> Seq(Slots)] /\ scopeBytes \in [Scopes -> Nat]
    BY <1>1, <1>5
  <2>4. /\ Len(fifo) <= 2 * Cardinality(HeldIn(entries)) + Slack /\ totalBytes <= MaxBytes
        /\ Cardinality(HeldIn(entries)) <= MaxEntries
    BY <1>1, <2>1, CacheAssumption
  <2>5. ASSUME NEW s \in Scopes
        PROVE  /\ Len(scopeFifo[s]) <= Cardinality(ScopeIn(entries, s)) + Slack
               /\ scopeBytes[s] <= MaxScopeBytes
    BY <2>2, CacheAssumption
  <2>6. QED
    BY <1>6, <2>1, <2>2, <2>3, <2>4, <2>5 DEF Tier, TierOf
<1>8. nextSeq \in 0..MaxInserts /\ generation \in 0..MaxGeneration /\ now \in 0..MaxNow
  BY <1>1, CacheAssumption
<1>9. QED
  BY <1>1, <1>7, <1>8 DEF CacheInv, OpOK

\* Where an operation that holds the lock has got to.
LEMMA OpAt ==
    ASSUME OpOK
    PROVE  /\ op = Idle => op.at = "idle"
           /\ op.at \in {"idle", "scope", "total", "invalidate"}
           /\ op.at \in {"scope", "total"} =>
                /\ op \in [at : {"scope", "total"}, key : Keys, bytes : 1..MaxEntryBytes]
                /\ entries[DigestOf[op.key]] = None /\ nextSeq < MaxInserts
                /\ op.at = "total" => scopeBytes[ScopeOf[op.key]] + op.bytes <= MaxScopeBytes
                /\ DigestOf[op.key] \in Digests /\ ScopeOf[op.key] \in Scopes
           /\ op.at = "invalidate" => op \in [at : {"invalidate"}, scope : Scopes \cup {None}]
<1>1. CASE op = Idle
  BY <1>1 DEF Idle
<1>2. CASE /\ op \in [at : {"scope", "total"}, key : Keys, bytes : 1..MaxEntryBytes]
           /\ entries[DigestOf[op.key]] = None /\ nextSeq < MaxInserts
           /\ op.at = "total" => scopeBytes[ScopeOf[op.key]] + op.bytes <= MaxScopeBytes
  <2>1. op.at \in {"scope", "total"} /\ op.key \in Keys
    BY <1>2
  <2>2. op # Idle
    BY <2>1 DEF Idle
  <2>3. DigestOf[op.key] \in Digests /\ ScopeOf[op.key] \in Scopes
    BY <2>1, CacheAssumption
  <2>4. QED
    BY <1>2, <2>1, <2>2, <2>3
<1>3. CASE op \in [at : {"invalidate"}, scope : Scopes \cup {None}]
  <2>1. op.at = "invalidate"
    BY <1>3
  <2>2. op # Idle
    BY <2>1 DEF Idle
  <2>3. QED
    BY <1>3, <2>1, <2>2
<1>4. QED
  BY <1>1, <1>2, <1>3 DEF OpOK

\* A step that leaves the tier's structures alone.
LEMMA TierKept ==
    ASSUME Tier, UNCHANGED <<state, nextSeq>>
    PROVE  Tier' /\ Evicted = {}
<1>1. UNCHANGED <<entries, fifo, scopeFifo, scopeBytes, totalBytes, nextSeq>>
  BY DEF state
<1>2. QED
  BY <1>1 DEF Tier, TierOf, Evicted, Held

LEMMA CacheInvStep == CacheInv /\ [CacheNext]_cacheVars => CacheInv'
<1> SUFFICES ASSUME CacheInv, [CacheNext]_cacheVars
             PROVE  CacheInv'
  OBVIOUS
<1>0. /\ Tier /\ OpOK /\ nextSeq \in 0..MaxInserts /\ generation \in 0..MaxGeneration
      /\ now \in 0..MaxNow /\ entries \in Books
      /\ scopeBytes \in [Scopes -> Nat]
  BY TierFacts DEF CacheInv
<1>1. ASSUME NEW k \in Keys, Lookup(k)
      PROVE  CacheInv'
  <2>1. /\ Remove(DigestOf[k], fifo, scopeFifo) /\ UNCHANGED <<nextSeq, generation, now, op>>
        /\ entries[DigestOf[k]] # None /\ op = Idle
    BY <1>1 DEF Lookup
  <2>2. DigestOf[k] \in Held
    BY <2>1, CacheAssumption DEF Held
  <2>3. Tier'
    BY <1>0, <2>1, <2>2, PlainRemove
  <2>4. OpOK'
    BY <2>1 DEF OpOK, Idle
  <2>5. QED
    BY <1>0, <2>1, <2>3, <2>4 DEF CacheInv
<1>2. ASSUME NEW k \in Keys, NEW bytes \in Sizes, NEW g \in 0..MaxGeneration, Insert(k, bytes, g)
      PROVE  CacheInv'
  <2> DEFINE i == DigestOf[k]
  <2>1. /\ op' = [at |-> "scope", key |-> k, bytes |-> bytes] /\ UNCHANGED <<nextSeq, generation, now>>
        /\ nextSeq < MaxInserts /\ bytes <= MaxEntryBytes /\ i \in Digests
        /\ IF entries[i] # None THEN Remove(i, fifo, scopeFifo) ELSE UNCHANGED state
    BY <1>2, CacheAssumption DEF Insert
  <2>2. Tier' /\ entries'[i] = None
    <3>1. CASE entries[i] # None
      <4>1. i \in Held /\ Remove(i, fifo, scopeFifo)
        BY <2>1, <3>1 DEF Held
      <4>2. Tier' /\ entries' = [entries EXCEPT ![i] = None]
        BY <1>0, <2>1, <4>1, PlainRemove
      <4>3. QED
        BY <1>0, <2>1, <4>2 DEF Books
    <3>2. CASE entries[i] = None
      <4>1. UNCHANGED state
        BY <2>1, <3>2
      <4>2. entries' = entries
        BY <4>1 DEF state
      <4>3. QED
        BY <1>0, <2>1, <3>2, <4>1, <4>2, TierKept
    <3>3. QED
      BY <3>1, <3>2
  <2>3. /\ op' \in [at : {"scope", "total"}, key : Keys, bytes : 1..MaxEntryBytes]
        /\ op'.at = "scope" /\ op'.key = k
    <3>1. bytes \in 1..MaxEntryBytes
      BY <2>1, CacheAssumption
    <3>2. QED
      BY <2>1, <3>1
  <2>4. OpOK'
    BY <2>1, <2>2, <2>3 DEF OpOK
  <2>5. QED
    BY <1>0, <2>1, <2>2, <2>4 DEF CacheInv
<1>3. CASE EvictScope
  <2>1. op.at = "scope" /\ UNCHANGED <<nextSeq, generation, now, op>>
    BY <1>3 DEF EvictScope
  <2>2. Tier' /\ \A i \in Digests : entries[i] = None => entries'[i] = None
    BY <1>0, <1>3, EvictScopeKeeps
  <2>3. OpOK'
    BY <1>0, <2>1, <2>2, OpAt DEF OpOK
  <2>4. QED
    BY <1>0, <2>1, <2>2, <2>3 DEF CacheInv
<1>4. CASE ScopeFits
  <2> DEFINE s == ScopeOf[op.key]
  <2>1. /\ op.at = "scope" /\ op' = [op EXCEPT !.at = "total"]
        /\ UNCHANGED <<state, nextSeq, generation, now>>
        /\ ~ScopeTooFull \/ scopeFifo[s] = <<>>
    BY <1>4 DEF ScopeFits
  <2>2. Tier' /\ entries' = entries /\ scopeBytes' = scopeBytes
    BY <1>0, <2>1, TierKept DEF state
  <2>3. /\ op \in [at : {"scope", "total"}, key : Keys, bytes : 1..MaxEntryBytes]
        /\ entries[DigestOf[op.key]] = None /\ nextSeq < MaxInserts /\ s \in Scopes
    BY <1>0, <2>1, OpAt
  <2>4. /\ op' \in [at : {"scope", "total"}, key : Keys, bytes : 1..MaxEntryBytes]
        /\ op'.key = op.key /\ op'.bytes = op.bytes
    BY <2>1, <2>3
  <2>5. scopeBytes[s] + op.bytes <= MaxScopeBytes
    <3>1. op.bytes \in 1..MaxEntryBytes /\ op.bytes \in Nat /\ scopeBytes[s] \in Nat
          /\ MaxScopeBytes \in Nat /\ MaxEntryBytes \in Nat /\ MaxEntryBytes <= MaxScopeBytes
      BY <1>0, <2>3, CacheAssumption
    <3>2. CASE ~ScopeTooFull
      BY <3>1, <3>2 DEF ScopeTooFull
    <3>3. CASE scopeFifo[s] = <<>>
      <4>1. scopeBytes[s] = 0
        BY <1>0, <2>3, <3>3, NothingQueued
      <4>2. QED
        BY <3>1, <4>1
    <3>4. QED
      BY <2>1, <3>2, <3>3
  <2>6. OpOK'
    BY <2>1, <2>2, <2>3, <2>4, <2>5 DEF OpOK
  <2>7. QED
    BY <1>0, <2>1, <2>2, <2>6 DEF CacheInv
<1>5. CASE EvictAny
  <2>1. op.at = "total" /\ UNCHANGED <<nextSeq, generation, now, op>>
    BY <1>5 DEF EvictAny
  <2>2. /\ Tier' /\ \A i \in Digests : entries[i] = None => entries'[i] = None
        /\ \A s \in Scopes : scopeBytes'[s] <= scopeBytes[s]
    BY <1>0, <1>5, EvictAnyKeeps
  <2>3. OpOK'
    <3> DEFINE s == ScopeOf[op.key]
    <3>1. /\ op \in [at : {"scope", "total"}, key : Keys, bytes : 1..MaxEntryBytes]
          /\ entries[DigestOf[op.key]] = None /\ DigestOf[op.key] \in Digests /\ s \in Scopes
          /\ nextSeq < MaxInserts /\ scopeBytes[s] + op.bytes <= MaxScopeBytes
      BY <1>0, <2>1, OpAt
    <3>2. scopeBytes' \in [Scopes -> Nat]
      BY <2>2 DEF Tier, TierOf
    <3>3. op.bytes \in Nat /\ scopeBytes[s] \in Nat /\ scopeBytes'[s] \in Nat /\ MaxScopeBytes \in Nat
      BY <1>0, <3>1, <3>2, CacheAssumption
    <3>4. scopeBytes'[s] + op.bytes <= MaxScopeBytes
      BY <2>2, <3>1, <3>3
    <3>5. QED
      BY <2>1, <2>2, <3>1, <3>4 DEF OpOK
  <2>4. QED
    BY <1>0, <2>1, <2>2, <2>3 DEF CacheInv
<1>6. CASE Commit
  <2>1. op' = Idle /\ UNCHANGED <<generation, now>>
    BY <1>6 DEF Commit
  <2>2. OpOK'
    BY <2>1 DEF OpOK, Idle
  <2>3. QED
    BY <1>0, <1>6, <2>1, <2>2, CommitKeeps DEF CacheInv
<1>7. ASSUME NEW s \in Scopes \cup {None}, Invalidate(s)
      PROVE  CacheInv'
  <2>1. /\ generation < MaxGeneration /\ generation' = generation + 1
        /\ op' = [at |-> "invalidate", scope |-> s] /\ UNCHANGED <<state, nextSeq, now>>
    BY <1>7 DEF Invalidate
  <2>2. OpOK'
    BY <2>1 DEF OpOK
  <2>3. generation' \in 0..MaxGeneration
    BY <1>0, <2>1, CacheAssumption
  <2>4. Tier'
    BY <1>0, <2>1, TierKept
  <2>5. QED
    BY <1>0, <2>1, <2>2, <2>3, <2>4 DEF CacheInv
<1>8. CASE RemoveSelected
  <2>1. op.at = "invalidate" /\ UNCHANGED <<nextSeq, generation, now, op>>
    BY <1>8 DEF RemoveSelected
  <2>2. PICK i \in Selected : Remove(i, fifo, scopeFifo)
    BY <1>8 DEF RemoveSelected
  <2>3. i \in Held
    BY DEF Selected
  <2>4. Tier'
    BY <1>0, <2>1, <2>2, <2>3, PlainRemove
  <2>5. OpOK'
    BY <1>0, <2>1, OpAt DEF OpOK
  <2>6. QED
    BY <1>0, <2>1, <2>4, <2>5 DEF CacheInv
<1>9. CASE Invalidated
  <2>1. op' = Idle /\ UNCHANGED <<state, nextSeq, generation, now>>
    BY <1>9 DEF Invalidated
  <2>2. OpOK'
    BY <2>1 DEF OpOK, Idle
  <2>3. Tier'
    BY <1>0, <2>1, TierKept
  <2>4. QED
    BY <1>0, <2>1, <2>2, <2>3 DEF CacheInv
<1>10. CASE Tick
  <2>1. op = Idle /\ now < MaxNow /\ now' = now + 1 /\ UNCHANGED <<state, nextSeq, generation, op>>
    BY <1>10 DEF Tick
  <2>2. OpOK'
    BY <2>1 DEF OpOK, Idle
  <2>3. now' \in 0..MaxNow
    BY <1>0, <2>1, CacheAssumption
  <2>4. Tier'
    BY <1>0, <2>1, TierKept
  <2>5. QED
    BY <1>0, <2>1, <2>2, <2>3, <2>4 DEF CacheInv
<1>11. CASE UNCHANGED cacheVars
  <2>1. UNCHANGED <<state, nextSeq, generation, now, op>>
    BY <1>11 DEF cacheVars
  <2>2. Tier'
    BY <1>0, <2>1, TierKept
  <2>3. OpOK'
    BY <1>0, <2>1 DEF OpOK, Idle, state
  <2>4. QED
    BY <1>0, <2>1, <2>2, <2>3 DEF CacheInv
<1>12. QED
  BY <1>1, <1>2, <1>3, <1>4, <1>5, <1>6, <1>7, <1>8, <1>9, <1>10, <1>11 DEF CacheNext

LEMMA CacheInvExact ==
    ASSUME CacheInv
    PROVE  BooksExact
<1>0. Tier /\ OpOK
  BY DEF CacheInv
<1>1. /\ entries \in Books /\ Queue(entries, nextSeq, fifo, Held)
      /\ Len(fifo) <= 2 * Cardinality(Held) + Slack
      /\ totalBytes = Cardinality(BytesIn(entries, Held)) /\ totalBytes <= MaxBytes
      /\ totalBytes \in Nat /\ Cardinality(Held) <= MaxEntries
      /\ scopeFifo \in [Scopes -> Seq(Slots)] /\ scopeBytes \in [Scopes -> Nat]
      /\ \A s \in Scopes :
           /\ Queue(entries, nextSeq, scopeFifo[s], OfScope(s))
           /\ Len(scopeFifo[s]) <= Cardinality(OfScope(s)) + Slack
           /\ scopeBytes[s] = Cardinality(BytesIn(entries, OfScope(s)))
           /\ scopeBytes[s] <= MaxScopeBytes
  BY <1>0, TierFacts
<1>2. CacheTypeOK
  <2>1. fifo \in Seq(Slots)
    BY <1>1 DEF Queue
  <2>2. op.at \in {"idle", "scope", "total", "invalidate"}
    BY <1>0, OpAt
  <2>3. QED
    BY <1>1, <2>1, <2>2 DEF CacheTypeOK, CacheInv, Books
<1>3. BytesExact
  BY <1>1 DEF BytesExact, BytesOf, BytesIn
<1>4. WithinBounds
  BY <1>1 DEF WithinBounds
<1>5. EveryEntryQueued
  <2>1. \A q : LiveIds(q) = LiveIn(entries, q)
    BY DEF LiveIds, LiveIn
  <2>2. LiveIds(fifo) = Held /\ Ordered(fifo)
    BY <1>1, <2>1 DEF Queue
  <2>3. ASSUME NEW s \in Scopes
        PROVE  LiveIds(scopeFifo[s]) = OfScope(s) /\ Ordered(scopeFifo[s])
    <3>1. Queue(entries, nextSeq, scopeFifo[s], OfScope(s))
      BY <1>1, Zenon
    <3>2. LiveIn(entries, scopeFifo[s]) = OfScope(s) /\ Ordered(scopeFifo[s])
      BY <3>1 DEF Queue
    <3>3. LiveIds(scopeFifo[s]) = LiveIn(entries, scopeFifo[s])
      BY <2>1, Zenon
    <3>4. QED
      BY <3>2, <3>3, Zenon
  <2>4. QED
    BY <2>2, <2>3 DEF EveryEntryQueued
<1>6. QueuesProportional
  BY <1>1 DEF QueuesProportional
<1>7. QED
  BY <1>2, <1>3, <1>4, <1>5, <1>6 DEF BooksExact

LEMMA SpecCacheInv == CacheSpec => []CacheInv
<1>1. QED
  BY CacheInvInit, CacheInvStep, PTL DEF CacheSpec

\* Through any sequence of lookups, admissions, evictions and invalidations, the
\* memory tier's byte counts are those of the entries it holds, for the namespace
\* and for each scope, within the policy's bounds between operations; every entry
\* has its live slot in both queues, which are in order of admission and stay
\* proportional to the entries (NamespaceState, insert_value, remove).
THEOREM TierBooksExact == CacheSpec => []BooksExact
<1>1. CacheInv => BooksExact
  BY CacheInvExact
<1>2. QED
  BY <1>1, SpecCacheInv, PTL

\* What an insertion removes under the scope's bound is the oldest of its own
\* scope, and under the namespace's bound the oldest of all (evict_oldest), though
\* the queues hold stale slots and are compacted.
THEOREM TierEvictsOldest == CacheSpec => EvictsOldest
<1>1. ASSUME CacheInv, [CacheNext]_cacheVars
      PROVE  [\A i \in Evicted :
                /\ op.at = "scope" =>
                     /\ ScopeOf[entries[i].key] = ScopeOf[op.key]
                     /\ \A j \in OfScope(ScopeOf[op.key]) : entries[i].seq <= entries[j].seq
                /\ op.at = "total" => \A j \in Held : entries[i].seq <= entries[j].seq]_cacheVars
  <2> DEFINE A == \A i \in Evicted :
                /\ op.at = "scope" =>
                     /\ ScopeOf[entries[i].key] = ScopeOf[op.key]
                     /\ \A j \in OfScope(ScopeOf[op.key]) : entries[i].seq <= entries[j].seq
                /\ op.at = "total" => \A j \in Held : entries[i].seq <= entries[j].seq
  <2>0. Tier /\ OpOK
    BY <1>1 DEF CacheInv
  <2>1. CASE UNCHANGED cacheVars
    BY <2>1
  <2>2. CASE EvictScope
    <3>1. op.at = "scope" /\ op.at # "total"
      BY <2>2 DEF EvictScope
    <3>2. A
      BY <2>0, <2>2, <3>1, EvictScopeKeeps
    <3>3. QED
      BY <3>2
  <2>3. CASE EvictAny
    <3>1. op.at = "total" /\ op.at # "scope"
      BY <2>3 DEF EvictAny
    <3>2. A
      BY <2>0, <2>3, <3>1, EvictAnyKeeps
    <3>3. QED
      BY <3>2
  <2>4. CASE ScopeFits
    <3>1. UNCHANGED <<state, nextSeq>>
      BY <2>4 DEF ScopeFits
    <3>2. Evicted = {}
      BY <2>0, <3>1, TierKept
    <3>3. QED
      BY <3>2
  <2>5. CASE Commit
    <3>1. Evicted = {}
      <4> DEFINE e == [key |-> op.key, bytes |-> op.bytes, seq |-> nextSeq,
                       generation |-> generation, expires |-> now + Ttl]
      <4>1. op.at = "total" /\ entries' = [entries EXCEPT ![DigestOf[op.key]] = e]
        BY <2>5 DEF Commit
      <4>2. entries[DigestOf[op.key]] = None /\ entries \in Books
        BY <2>0, <4>1, OpAt, TierFacts
      <4>3. \A j \in Held : j \in Digests /\ j # DigestOf[op.key]
        BY <4>2 DEF Held
      <4> HIDE DEF e
      <4>4. \A j \in Held : entries'[j] = entries[j] /\ entries[j] # None
        BY <4>1, <4>2, <4>3 DEF Books, Held
      <4>5. QED
        BY <4>4 DEF Evicted
    <3>2. QED
      BY <3>1
  <2>6. CASE op = Idle \/ op.at = "invalidate"
    <3>1. op.at # "scope" /\ op.at # "total"
      BY <2>0, <2>6, OpAt
    <3>2. QED
      BY <3>1
  <2>7. QED
    BY <1>1, <2>1, <2>2, <2>3, <2>4, <2>5, <2>6
       DEF CacheNext, Lookup, Insert, Invalidate, RemoveSelected, Invalidated, Tick
<1>2. QED
  BY <1>1, SpecCacheInv, PTL DEF CacheSpec, EvictsOldest

-----------------------------------------------------------------------------
(* The cancellation signal: for every number of signals and tasks, however *)
(* polls, children and raises interleave.                                  *)

\* The flag is up exactly when some raise() passed the swap.
FlagIsPhase == \A s \in Signals : raised[s] <=> phase[s] # "idle"

\* Who registers holds the mutex.
MutexHeld ==
    /\ \A t \in Tasks : poll[t] = "push" => lock[on[t]] = t
    /\ \A c \in Signals : born[c] = "push" => parent[c] \in Signals /\ lock[parent[c]] = c

\* Who holds the mutex saw the flag down inside it: the lists are not taken yet.
MutexBeforeTake ==
    \A s \in Signals : lock[s] # Nobody => phase[s] \in {"idle", "swapped"}

\* What was taken is pending only between the take and the return.
PendingWhileTaken ==
    \A s \in Signals : phase[s] # "taken" => toWake[s] = {} /\ toRaise[s] = {}

\* NoLostWake whether or not the signal is raised.
WakerKept ==
    \A t \in Tasks :
        poll[t] = "parked" /\ ~woken[t] =>
            \/ phase[on[t]] \in {"idle", "swapped"} /\ t \in wakers[on[t]]
            \/ t \in toWake[on[t]]

\* NoMissedChild whether or not the parent is raised.
ChildKept ==
    \A c \in Signals :
        born[c] = "live" /\ ~gone[c] /\ parent[c] # Nobody =>
            \/ raised[c]
            \/ phase[parent[c]] \in {"idle", "swapped"} /\ c \in children[parent[c]]
            \/ c \in toRaise[parent[c]]

\* What is registered as a child, or taken as one, is one.
Kinship ==
    \A s, c \in Signals :
        c \in children[s] \cup toRaise[s] => born[c] = "live" /\ parent[c] = s

\* A signal is raised only once it exists, and a late child has a raised parent.
RaisedExists ==
    \A c \in Signals :
        /\ raised[c] => born[c] \in {"late", "live"}
        /\ born[c] = "late" => parent[c] \in Signals /\ raised[parent[c]]

\* The inductive invariant.
SignalInv ==
    /\ SignalTypeOK /\ FlagIsPhase /\ MutexHeld /\ MutexBeforeTake /\ PendingWhileTaken
    /\ NothingAfterTake /\ WakerKept /\ ChildKept /\ Kinship /\ RaisedExists
    /\ RaisedFromAbove

\* A caller's raise() preserves the invariant: only the flag and the phase change.
LEMMA RaiseKeeps ==
    ASSUME SignalInv, NEW s \in Signals, Raise(s)
    PROVE  SignalInv'
<1>1. SignalTypeOK'
  BY DEF SignalInv, SignalTypeOK, Raise, HasHandle, Swaps, creating, tasks
<1>2. FlagIsPhase'
  BY DEF SignalInv, SignalTypeOK, FlagIsPhase, Raise, HasHandle, Swaps, creating, tasks
<1>3. MutexBeforeTake'
  BY DEF SignalInv, SignalTypeOK, MutexBeforeTake, FlagIsPhase, Raise, HasHandle, Swaps, creating,
         tasks
<1>4. PendingWhileTaken'
  BY DEF SignalInv, SignalTypeOK, PendingWhileTaken, FlagIsPhase, Raise, HasHandle, Swaps, creating,
         tasks
<1>5. NothingAfterTake'
  BY DEF SignalInv, SignalTypeOK, NothingAfterTake, MutexHeld, MutexBeforeTake, Raise, HasHandle,
         Swaps, creating, tasks
<1>6. WakerKept'
  BY DEF SignalInv, SignalTypeOK, WakerKept, PendingWhileTaken, MutexHeld, MutexBeforeTake,
         Raise, HasHandle, Swaps, creating, tasks
<1>7. ChildKept'
  BY DEF SignalInv, SignalTypeOK, ChildKept, FlagIsPhase, PendingWhileTaken, MutexHeld,
         MutexBeforeTake, Kinship, Raise, HasHandle, Swaps, creating, tasks
<1>8. RaisedExists'
  BY DEF SignalInv, SignalTypeOK, RaisedExists, Kinship, FlagIsPhase, Raise, HasHandle, Swaps,
         creating, tasks
<1>9. RaisedFromAbove'
  BY DEF SignalInv, SignalTypeOK, RaisedFromAbove, RaisedExists, Kinship, PendingWhileTaken,
         FlagIsPhase, Raise, HasHandle, Swaps, creating, tasks
<1>10. MutexHeld' /\ Kinship'
  BY DEF SignalInv, MutexHeld, Kinship, Raise, HasHandle, Swaps, creating, tasks
<1>11. QED
  BY <1>1, <1>2, <1>3, <1>4, <1>5, <1>6, <1>7, <1>8, <1>9, <1>10 DEF SignalInv

\* The take moves what is registered to what is pending, with the mutex free.
LEMMA TakeKeeps ==
    ASSUME SignalInv, NEW s \in Signals, Take(s)
    PROVE  SignalInv'
<1>1. SignalTypeOK'
  BY DEF SignalInv, SignalTypeOK, Take, creating, tasks
<1>2. FlagIsPhase'
  BY DEF SignalInv, SignalTypeOK, FlagIsPhase, Take, creating, tasks
<1>3. MutexBeforeTake'
  BY DEF SignalInv, SignalTypeOK, MutexBeforeTake, FlagIsPhase, Take, creating, tasks
<1>4. PendingWhileTaken'
  BY DEF SignalInv, SignalTypeOK, PendingWhileTaken, FlagIsPhase, Take, creating, tasks
<1>5. NothingAfterTake'
  BY DEF SignalInv, SignalTypeOK, NothingAfterTake, MutexHeld, MutexBeforeTake, Take, creating,
         tasks
<1>6. WakerKept'
  BY DEF SignalInv, SignalTypeOK, WakerKept, PendingWhileTaken, MutexHeld, MutexBeforeTake,
         Take, creating, tasks
<1>7. ChildKept'
  BY DEF SignalInv, SignalTypeOK, ChildKept, FlagIsPhase, PendingWhileTaken, MutexHeld,
         MutexBeforeTake, Kinship, Take, creating, tasks
<1>8. Kinship'
  BY DEF SignalInv, SignalTypeOK, Kinship, MutexHeld, Take, creating, tasks
<1>9. MutexHeld' /\ RaisedExists' /\ RaisedFromAbove'
  BY DEF SignalInv, MutexHeld, RaisedExists, RaisedFromAbove, Take, creating, tasks
<1>10. QED
  BY <1>1, <1>2, <1>3, <1>4, <1>5, <1>6, <1>7, <1>8, <1>9 DEF SignalInv

\* A pending waker is dropped from the list as its task is woken.
LEMMA WakeOneKeeps ==
    ASSUME SignalInv, NEW s \in Signals, NEW t \in Tasks, WakeOne(s, t)
    PROVE  SignalInv'
<1>1. SignalTypeOK'
  BY DEF SignalInv, SignalTypeOK, WakeOne, creating
<1>2. PendingWhileTaken'
  BY DEF SignalInv, SignalTypeOK, PendingWhileTaken, FlagIsPhase, WakeOne, creating
<1>3. WakerKept'
  BY DEF SignalInv, SignalTypeOK, WakerKept, PendingWhileTaken, MutexHeld, MutexBeforeTake,
         WakeOne, creating
<1>4. FlagIsPhase' /\ MutexHeld' /\ MutexBeforeTake' /\ NothingAfterTake' /\
      ChildKept' /\ Kinship' /\ RaisedExists' /\ RaisedFromAbove'
  BY DEF SignalInv, FlagIsPhase, MutexHeld, MutexBeforeTake, NothingAfterTake, ChildKept,
         Kinship, RaisedExists, RaisedFromAbove, WakeOne, creating
<1>5. QED
  BY <1>1, <1>2, <1>3, <1>4 DEF SignalInv

\* A pending child is dropped from the list as it is raised, by its parent.
LEMMA RaiseChildKeeps ==
    ASSUME SignalInv, NEW s \in Signals, NEW c \in Signals, RaiseChild(s, c)
    PROVE  SignalInv'
<1>1. SignalTypeOK'
  BY DEF SignalInv, SignalTypeOK, RaiseChild, Turn, Swaps, creating, tasks
<1>2. FlagIsPhase'
  BY DEF SignalInv, SignalTypeOK, FlagIsPhase, RaiseChild, Turn, Swaps, creating, tasks
<1>3. MutexBeforeTake'
  BY DEF SignalInv, SignalTypeOK, MutexBeforeTake, FlagIsPhase, RaiseChild, Turn, Swaps,
         creating, tasks
<1>4. PendingWhileTaken'
  BY DEF SignalInv, SignalTypeOK, PendingWhileTaken, FlagIsPhase, RaiseChild, Turn, Swaps,
         creating, tasks
<1>5. NothingAfterTake'
  BY DEF SignalInv, SignalTypeOK, NothingAfterTake, MutexHeld, MutexBeforeTake, RaiseChild,
         Turn, Swaps, creating, tasks
<1>6. WakerKept'
  BY DEF SignalInv, SignalTypeOK, WakerKept, PendingWhileTaken, MutexHeld, MutexBeforeTake,
         RaiseChild, Turn, Swaps, creating, tasks
<1>7. ChildKept'
  BY DEF SignalInv, SignalTypeOK, ChildKept, FlagIsPhase, PendingWhileTaken, MutexHeld,
         MutexBeforeTake, Kinship, RaiseChild, Turn, Swaps, creating, tasks
<1>8. Kinship'
  BY DEF SignalInv, SignalTypeOK, Kinship, MutexHeld, RaiseChild, Turn, Swaps, creating, tasks
<1>9. RaisedExists'
  BY DEF SignalInv, SignalTypeOK, RaisedExists, Kinship, FlagIsPhase, RaiseChild, Turn, Swaps,
         creating, tasks
<1>10. RaisedFromAbove'
  BY SignalAssumption DEF SignalInv, SignalTypeOK, RaisedFromAbove, RaisedExists, Kinship,
         PendingWhileTaken, FlagIsPhase, RaiseChild, Turn, Swaps, creating, tasks
<1>11. MutexHeld'
  BY DEF SignalInv, MutexHeld, RaiseChild, Turn, Swaps, creating, tasks
<1>12. QED
  BY <1>1, <1>2, <1>3, <1>4, <1>5, <1>6, <1>7, <1>8, <1>9, <1>10, <1>11 DEF SignalInv

\* A pending child that is skipped is gone or raised.
LEMMA SkipChildKeeps ==
    ASSUME SignalInv, NEW s \in Signals, NEW c \in Signals, SkipChild(s, c)
    PROVE  SignalInv'
<1>1. SignalTypeOK'
  BY DEF SignalInv, SignalTypeOK, SkipChild, Turn, creating, tasks
<1>2. PendingWhileTaken'
  BY DEF SignalInv, SignalTypeOK, PendingWhileTaken, FlagIsPhase, SkipChild, Turn, creating,
         tasks
<1>3. ChildKept'
  BY DEF SignalInv, SignalTypeOK, ChildKept, FlagIsPhase, PendingWhileTaken, MutexHeld,
         MutexBeforeTake, Kinship, SkipChild, Turn, creating, tasks
<1>4. Kinship'
  BY DEF SignalInv, SignalTypeOK, Kinship, MutexHeld, SkipChild, Turn, creating, tasks
<1>5. FlagIsPhase' /\ MutexHeld' /\ MutexBeforeTake' /\ NothingAfterTake' /\
      WakerKept' /\ RaisedExists' /\ RaisedFromAbove'
  BY DEF SignalInv, FlagIsPhase, MutexHeld, MutexBeforeTake, NothingAfterTake, WakerKept,
         RaisedExists, RaisedFromAbove, SkipChild, Turn, creating, tasks
<1>6. QED
  BY <1>1, <1>2, <1>3, <1>4, <1>5 DEF SignalInv

\* The return from a child's raise() touches no list.
LEMMA ChildRaisedKeeps ==
    ASSUME SignalInv, NEW s \in Signals, ChildRaised(s)
    PROVE  SignalInv'
<1>1. SignalTypeOK'
  BY DEF SignalInv, SignalTypeOK, ChildRaised, creating, tasks
<1>2. FlagIsPhase' /\ MutexHeld' /\ MutexBeforeTake' /\ PendingWhileTaken' /\
      NothingAfterTake' /\ WakerKept' /\ ChildKept' /\ Kinship' /\ RaisedExists' /\
      RaisedFromAbove'
  BY DEF SignalInv, FlagIsPhase, MutexHeld, MutexBeforeTake, PendingWhileTaken,
         NothingAfterTake, WakerKept, ChildKept, Kinship, RaisedExists,
         RaisedFromAbove, ChildRaised, creating, tasks
<1>3. QED
  BY <1>1, <1>2 DEF SignalInv

\* raise() returns with nothing pending; a late child exists from then on.
LEMMA ReturnsKeeps ==
    ASSUME SignalInv, NEW s \in Signals, Returns(s)
    PROVE  SignalInv'
<1>1. SignalTypeOK'
  BY DEF SignalInv, SignalTypeOK, Returns, tasks
<1>2. FlagIsPhase'
  BY DEF SignalInv, SignalTypeOK, FlagIsPhase, Returns, tasks
<1>3. MutexHeld'
  BY DEF SignalInv, SignalTypeOK, MutexHeld, Returns, tasks
<1>4. MutexBeforeTake'
  BY DEF SignalInv, SignalTypeOK, MutexBeforeTake, FlagIsPhase, Returns, tasks
<1>5. PendingWhileTaken'
  BY DEF SignalInv, SignalTypeOK, PendingWhileTaken, FlagIsPhase, Returns, tasks
<1>6. NothingAfterTake'
  BY DEF SignalInv, SignalTypeOK, NothingAfterTake, MutexHeld, MutexBeforeTake, Returns, tasks
<1>7. WakerKept'
  BY DEF SignalInv, SignalTypeOK, WakerKept, PendingWhileTaken, MutexHeld, MutexBeforeTake,
         Returns, tasks
<1>8. ChildKept'
  BY DEF SignalInv, SignalTypeOK, ChildKept, FlagIsPhase, PendingWhileTaken, MutexHeld,
         MutexBeforeTake, Kinship, Returns, tasks
<1>9. Kinship'
  BY DEF SignalInv, SignalTypeOK, Kinship, MutexHeld, Returns, tasks
<1>10. RaisedExists'
  BY DEF SignalInv, SignalTypeOK, RaisedExists, Kinship, FlagIsPhase, Returns, tasks
<1>11. RaisedFromAbove'
  BY DEF SignalInv, RaisedFromAbove, Returns, tasks
<1>12. QED
  BY <1>1, <1>2, <1>3, <1>4, <1>5, <1>6, <1>7, <1>8, <1>9, <1>10, <1>11 DEF SignalInv

\* child() takes the mutex only where it saw the flag down.
LEMMA ChildLockKeeps ==
    ASSUME SignalInv, NEW p \in Signals, NEW c \in Signals, ChildLock(p, c)
    PROVE  SignalInv'
<1>1. SignalTypeOK'
  <2>1. CASE raised[p]
    BY <2>1 DEF SignalInv, SignalTypeOK, ChildLock, raising, tasks
  <2>2. CASE ~raised[p]
    BY <2>2, SMTT(30) DEF SignalInv, SignalTypeOK, ChildLock, raising, tasks
  <2>3. QED
    BY <2>1, <2>2
<1>2. MutexHeld'
  BY SignalAssumption DEF SignalInv, SignalTypeOK, MutexHeld, ChildLock, HasHandle, raising, tasks
<1>3. MutexBeforeTake'
  BY DEF SignalInv, SignalTypeOK, MutexBeforeTake, FlagIsPhase, ChildLock, HasHandle, raising, tasks
<1>4. ChildKept'
  BY DEF SignalInv, SignalTypeOK, ChildKept, FlagIsPhase, PendingWhileTaken, MutexHeld,
         MutexBeforeTake, Kinship, ChildLock, HasHandle, raising, tasks
<1>5. Kinship'
  BY DEF SignalInv, SignalTypeOK, Kinship, MutexHeld, ChildLock, HasHandle, raising, tasks
<1>6. RaisedExists'
  BY DEF SignalInv, SignalTypeOK, RaisedExists, Kinship, FlagIsPhase, ChildLock, HasHandle, raising,
         tasks
<1>7. RaisedFromAbove'
  BY SignalAssumption, SMTT(30) DEF SignalInv, SignalTypeOK, RaisedFromAbove, RaisedExists, Kinship,
         PendingWhileTaken, FlagIsPhase, ChildLock, HasHandle, raising, tasks
<1>8. FlagIsPhase' /\ PendingWhileTaken' /\ NothingAfterTake' /\ WakerKept'
  BY DEF SignalInv, FlagIsPhase, PendingWhileTaken, NothingAfterTake, WakerKept,
         ChildLock, HasHandle, raising, tasks
<1>9. QED
  BY <1>1, <1>2, <1>3, <1>4, <1>5, <1>6, <1>7, <1>8 DEF SignalInv

\* child() registers before the lists are taken: it holds the mutex.
LEMMA ChildPushKeeps ==
    ASSUME SignalInv, NEW c \in Signals, ChildPush(c)
    PROVE  SignalInv'
<1>1. SignalTypeOK'
  BY DEF SignalInv, SignalTypeOK, MutexHeld, ChildPush, raising, tasks
<1>2. MutexHeld'
  BY SignalAssumption DEF SignalInv, SignalTypeOK, MutexHeld, ChildPush, raising, tasks
<1>3. MutexBeforeTake'
  BY DEF SignalInv, SignalTypeOK, MutexBeforeTake, FlagIsPhase, ChildPush, raising, tasks
<1>4. NothingAfterTake'
  BY SignalAssumption DEF SignalInv, SignalTypeOK, NothingAfterTake, MutexHeld,
         MutexBeforeTake, ChildPush, raising, tasks
<1>5. ChildKept'
  BY SignalAssumption DEF SignalInv, SignalTypeOK, ChildKept, FlagIsPhase, PendingWhileTaken,
         MutexHeld, MutexBeforeTake, Kinship, ChildPush, raising, tasks
<1>6. Kinship'
  BY DEF SignalInv, SignalTypeOK, Kinship, MutexHeld, ChildPush, raising, tasks
<1>7. RaisedExists'
  BY DEF SignalInv, SignalTypeOK, RaisedExists, Kinship, FlagIsPhase, ChildPush, raising, tasks
<1>8. FlagIsPhase' /\ PendingWhileTaken' /\ WakerKept' /\ RaisedFromAbove'
  BY DEF SignalInv, FlagIsPhase, PendingWhileTaken, WakerKept, RaisedFromAbove,
         ChildPush, raising, tasks
<1>9. QED
  BY <1>1, <1>2, <1>3, <1>4, <1>5, <1>6, <1>7, <1>8 DEF SignalInv

\* A late child is raised under a raised parent.
LEMMA ChildLateKeeps ==
    ASSUME SignalInv, NEW c \in Signals, ChildLate(c)
    PROVE  SignalInv'
<1>1. SignalTypeOK'
  BY DEF SignalInv, SignalTypeOK, ChildLate, Swaps, creating, tasks
<1>2. FlagIsPhase'
  BY DEF SignalInv, SignalTypeOK, FlagIsPhase, ChildLate, Swaps, creating, tasks
<1>3. MutexBeforeTake'
  BY DEF SignalInv, SignalTypeOK, MutexBeforeTake, FlagIsPhase, ChildLate, Swaps, creating,
         tasks
<1>4. PendingWhileTaken'
  BY DEF SignalInv, SignalTypeOK, PendingWhileTaken, FlagIsPhase, ChildLate, Swaps, creating,
         tasks
<1>5. NothingAfterTake'
  BY DEF SignalInv, SignalTypeOK, NothingAfterTake, MutexHeld, MutexBeforeTake, ChildLate,
         Swaps, creating, tasks
<1>6. WakerKept'
  BY DEF SignalInv, SignalTypeOK, WakerKept, PendingWhileTaken, MutexHeld, MutexBeforeTake,
         ChildLate, Swaps, creating, tasks
<1>7. ChildKept'
  BY DEF SignalInv, SignalTypeOK, ChildKept, FlagIsPhase, PendingWhileTaken, MutexHeld,
         MutexBeforeTake, Kinship, ChildLate, Swaps, creating, tasks
<1>8. RaisedExists'
  BY DEF SignalInv, SignalTypeOK, RaisedExists, Kinship, FlagIsPhase, ChildLate, Swaps,
         creating, tasks
<1>9. RaisedFromAbove'
  BY SignalAssumption DEF SignalInv, SignalTypeOK, RaisedFromAbove, RaisedExists, Kinship,
         PendingWhileTaken, FlagIsPhase, ChildLate, Swaps, creating, tasks
<1>10. MutexHeld' /\ Kinship'
  BY DEF SignalInv, MutexHeld, Kinship, ChildLate, Swaps, creating, tasks
<1>11. QED
  BY <1>1, <1>2, <1>3, <1>4, <1>5, <1>6, <1>7, <1>8, <1>9, <1>10 DEF SignalInv

\* A poll's first look at the flag registers nothing.
LEMMA PollKeeps ==
    ASSUME SignalInv, NEW t \in Tasks, NEW s \in Signals, Poll(t, s)
    PROVE  SignalInv'
<1>1. SignalTypeOK'
  BY DEF SignalInv, SignalTypeOK, Poll, HasHandle, raising, creating
<1>2. MutexHeld'
  BY DEF SignalInv, SignalTypeOK, MutexHeld, Poll, HasHandle, raising, creating
<1>3. WakerKept'
  BY DEF SignalInv, SignalTypeOK, WakerKept, PendingWhileTaken, MutexHeld, MutexBeforeTake,
         Poll, HasHandle, raising, creating
<1>4. FlagIsPhase' /\ MutexBeforeTake' /\ PendingWhileTaken' /\ NothingAfterTake' /\
      ChildKept' /\ Kinship' /\ RaisedExists' /\ RaisedFromAbove'
  BY DEF SignalInv, FlagIsPhase, MutexBeforeTake, PendingWhileTaken, NothingAfterTake,
         ChildKept, Kinship, RaisedExists, RaisedFromAbove, Poll, HasHandle, raising,
         creating
<1>5. QED
  BY <1>1, <1>2, <1>3, <1>4 DEF SignalInv

\* A poll takes the mutex only where it saw the flag down.
LEMMA PollLockKeeps ==
    ASSUME SignalInv, NEW t \in Tasks, PollLock(t)
    PROVE  SignalInv'
<1>1. SignalTypeOK'
  <2>1. CASE raised[on[t]]
    BY <2>1 DEF SignalInv, SignalTypeOK, PollLock, raising, creating
  <2>2. CASE ~raised[on[t]]
    BY <2>2 DEF SignalInv, SignalTypeOK, PollLock, raising, creating
  <2>3. QED
    BY <2>1, <2>2
<1>2. MutexHeld'
  BY SignalAssumption DEF SignalInv, SignalTypeOK, MutexHeld, PollLock, raising, creating
<1>3. MutexBeforeTake'
  BY DEF SignalInv, SignalTypeOK, MutexBeforeTake, FlagIsPhase, PollLock, raising, creating
<1>4. WakerKept'
  BY DEF SignalInv, SignalTypeOK, WakerKept, PendingWhileTaken, MutexHeld, MutexBeforeTake,
         PollLock, raising, creating
<1>5. FlagIsPhase' /\ PendingWhileTaken' /\ NothingAfterTake' /\ ChildKept' /\
      Kinship' /\ RaisedExists' /\ RaisedFromAbove'
  BY DEF SignalInv, FlagIsPhase, PendingWhileTaken, NothingAfterTake, ChildKept, Kinship,
         RaisedExists, RaisedFromAbove, PollLock, raising, creating
<1>6. QED
  BY <1>1, <1>2, <1>3, <1>4, <1>5 DEF SignalInv

\* A poll registers before the lists are taken: it holds the mutex.
LEMMA PollPushKeeps ==
    ASSUME SignalInv, NEW t \in Tasks, PollPush(t)
    PROVE  SignalInv'
<1>1. SignalTypeOK'
  BY DEF SignalInv, SignalTypeOK, PollPush, raising, creating
<1>2. MutexHeld'
  BY SignalAssumption DEF SignalInv, SignalTypeOK, MutexHeld, PollPush, raising, creating
<1>3. MutexBeforeTake'
  BY DEF SignalInv, SignalTypeOK, MutexBeforeTake, FlagIsPhase, PollPush, raising, creating
<1>4. NothingAfterTake'
  BY SignalAssumption DEF SignalInv, SignalTypeOK, NothingAfterTake, MutexHeld,
         MutexBeforeTake, PollPush, raising, creating
<1>5. WakerKept'
  BY SignalAssumption DEF SignalInv, SignalTypeOK, WakerKept, PendingWhileTaken, MutexHeld,
         MutexBeforeTake, PollPush, raising, creating
<1>6. FlagIsPhase' /\ PendingWhileTaken' /\ ChildKept' /\ Kinship' /\ RaisedExists'
      /\ RaisedFromAbove'
  BY DEF SignalInv, FlagIsPhase, PendingWhileTaken, ChildKept, Kinship, RaisedExists,
         RaisedFromAbove, PollPush, raising, creating
<1>7. QED
  BY <1>1, <1>2, <1>3, <1>4, <1>5, <1>6 DEF SignalInv

\* A task that stops waiting is owed no wake-up.
LEMMA LeaveKeeps ==
    ASSUME SignalInv, NEW t \in Tasks, Leave(t)
    PROVE  SignalInv'
<1>1. SignalTypeOK'
  BY DEF SignalInv, SignalTypeOK, Leave, raising, creating
<1>2. MutexHeld'
  BY DEF SignalInv, SignalTypeOK, MutexHeld, Leave, raising, creating
<1>3. WakerKept'
  BY DEF SignalInv, SignalTypeOK, WakerKept, PendingWhileTaken, MutexHeld, MutexBeforeTake,
         Leave, raising, creating
<1>4. FlagIsPhase' /\ MutexBeforeTake' /\ PendingWhileTaken' /\ NothingAfterTake' /\
      ChildKept' /\ Kinship' /\ RaisedExists' /\ RaisedFromAbove'
  BY DEF SignalInv, FlagIsPhase, MutexBeforeTake, PendingWhileTaken, NothingAfterTake,
         ChildKept, Kinship, RaisedExists, RaisedFromAbove, Leave, raising, creating
<1>5. QED
  BY <1>1, <1>2, <1>3, <1>4 DEF SignalInv

\* A dropped child is owed no raise.
LEMMA DropKeeps ==
    ASSUME SignalInv, NEW s \in Signals, Drop(s)
    PROVE  SignalInv'
<1>1. SignalTypeOK'
  BY DEF SignalInv, SignalTypeOK, Drop, HasHandle, raising, tasks
<1>2. ChildKept'
  BY DEF SignalInv, SignalTypeOK, ChildKept, FlagIsPhase, PendingWhileTaken, MutexHeld,
         MutexBeforeTake, Kinship, Drop, HasHandle, raising, tasks
<1>3. FlagIsPhase' /\ MutexHeld' /\ MutexBeforeTake' /\ PendingWhileTaken' /\
      NothingAfterTake' /\ WakerKept' /\ Kinship' /\ RaisedExists' /\
      RaisedFromAbove'
  BY DEF SignalInv, FlagIsPhase, MutexHeld, MutexBeforeTake, PendingWhileTaken,
         NothingAfterTake, WakerKept, Kinship, RaisedExists, RaisedFromAbove, Drop,
         HasHandle, raising, tasks
<1>4. QED
  BY <1>1, <1>2, <1>3 DEF SignalInv

\* Nothing is raised, registered or polled at first.
LEMMA InitSignalInv == SignalInit => SignalInv
<1> SUFFICES ASSUME SignalInit PROVE SignalInv
  OBVIOUS
<1>1. SignalTypeOK
  BY SignalAssumption DEF SignalInit, SignalTypeOK
<1>2. /\ FlagIsPhase /\ MutexHeld /\ MutexBeforeTake /\ PendingWhileTaken
      /\ NothingAfterTake /\ WakerKept
  BY DEF SignalInit, FlagIsPhase, MutexHeld, MutexBeforeTake, PendingWhileTaken,
         NothingAfterTake, WakerKept
<1>3. ChildKept /\ Kinship /\ RaisedExists /\ RaisedFromAbove
  BY DEF SignalInit, ChildKept, Kinship, RaisedExists, RaisedFromAbove
<1>4. QED
  BY <1>1, <1>2, <1>3 DEF SignalInv

\* Every step, and a stutter, preserves the invariant.
LEMMA NextSignalInv == SignalInv /\ [SignalNext]_signalVars => SignalInv'
<1> SUFFICES ASSUME SignalInv, [SignalNext]_signalVars PROVE SignalInv'
  OBVIOUS
<1>1. ASSUME NEW s \in Signals, Raise(s) PROVE SignalInv'
  BY <1>1, RaiseKeeps
<1>2. ASSUME NEW s \in Signals, RaiseStep(s) PROVE SignalInv'
  BY <1>2, TakeKeeps, WakeOneKeeps, RaiseChildKeeps, SkipChildKeeps, ChildRaisedKeeps,
     ReturnsKeeps DEF RaiseStep
<1>3. ASSUME NEW c \in Signals, Creates(c) PROVE SignalInv'
  BY <1>3, ChildPushKeeps, ChildLateKeeps DEF Creates
<1>4. ASSUME NEW s \in Signals, Drop(s) PROVE SignalInv'
  BY <1>4, DropKeeps
<1>5. ASSUME NEW p \in Signals, NEW c \in Signals, ChildLock(p, c) PROVE SignalInv'
  BY <1>5, ChildLockKeeps
<1>6. ASSUME NEW t \in Tasks, NEW s \in Signals, Poll(t, s) PROVE SignalInv'
  BY <1>6, PollKeeps
<1>7. ASSUME NEW t \in Tasks, Registers(t) PROVE SignalInv'
  BY <1>7, PollLockKeeps, PollPushKeeps DEF Registers
<1>8. ASSUME NEW t \in Tasks, Leave(t) PROVE SignalInv'
  BY <1>8, LeaveKeeps
<1>9. CASE UNCHANGED signalVars
  <2>1. SignalTypeOK' /\ FlagIsPhase' /\ MutexHeld' /\ MutexBeforeTake' /\ PendingWhileTaken'
    BY <1>9 DEF SignalInv, SignalTypeOK, FlagIsPhase, MutexHeld, MutexBeforeTake, PendingWhileTaken,
            signalVars, raising, creating, tasks
  <2>2. NothingAfterTake' /\ WakerKept' /\ ChildKept'
    BY <1>9 DEF SignalInv, NothingAfterTake, WakerKept, ChildKept, signalVars, raising, creating, tasks
  <2>3. Kinship' /\ RaisedExists' /\ RaisedFromAbove'
    BY <1>9 DEF SignalInv, Kinship, RaisedExists, RaisedFromAbove, signalVars, raising, creating, tasks
  <2>4. QED
    BY <2>1, <2>2, <2>3 DEF SignalInv
<1>10. QED
  BY <1>1, <1>2, <1>3, <1>4, <1>5, <1>6, <1>7, <1>8, <1>9 DEF SignalNext

\* The inductive invariant holds throughout.
LEMMA SpecSignalInv == SignalSpec => []SignalInv
  BY InitSignalInv, NextSignalInv, PTL DEF SignalSpec

\* Type correctness of the signals, for any number of them.
THEOREM SignalTypeCorrect == SignalSpec => []SignalTypeOK
<1>1. SignalInv => SignalTypeOK
  BY DEF SignalInv
<1>2. QED
  BY <1>1, SpecSignalInv, PTL

\* poll_raised loses no wake-up: the second look at the flag, inside the mutex that
\* raise() takes its lists under, is what this rests on.
THEOREM WakeNeverLost == SignalSpec => []NoLostWake
<1>1. SignalInv => NoLostWake
  BY DEF SignalInv, SignalTypeOK, WakerKept, FlagIsPhase, NoLostWake
<1>2. QED
  BY <1>1, SpecSignalInv, PTL

\* child() misses no raise: a child is registered before its parent's list is taken,
\* or is raised by its creator.
THEOREM ChildNeverMissed == SignalSpec => []NoMissedChild
<1>1. SignalInv => NoMissedChild
  BY DEF SignalInv, SignalTypeOK, ChildKept, FlagIsPhase, NoMissedChild
<1>2. QED
  BY <1>1, SpecSignalInv, PTL

\* A signal is raised by a caller or from above, never from below; and nothing is
\* registered where raise() would not find it.
THEOREM OnlyDownwards == SignalSpec => [](RaisedFromAbove /\ NothingAfterTake)
<1>1. SignalInv => RaisedFromAbove /\ NothingAfterTake
  BY DEF SignalInv
<1>2. QED
  BY <1>1, SpecSignalInv, PTL
=============================================================================
