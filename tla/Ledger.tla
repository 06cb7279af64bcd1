------------------------------- MODULE Ledger -------------------------------
(***************************************************************************)
(* Cost ledgers (crates/rustev-runtime/src/ledger.rs) and the reservation  *)
(* of one attempt on every ledger it draws from (DecisionCtx::reserve,     *)
(* release and hold, and Held, in driver.rs).                              *)
(*                                                                         *)
(* An attempt draws from its decision's ledger, from the ledger shared by  *)
(* all decisions if there is one, and from a generation step's ledger if   *)
(* it runs in one.  Each ledger operation takes that ledger's lock, so     *)
(* each is one action, and the operations of different attempts            *)
(* interleave between them.                                                *)
(***************************************************************************)
EXTENDS Integers, FiniteSets

CONSTANTS
    Attempts,     \* dispatched attempts, of any decision
    Ledgers,      \* ledgers, of any scope
    Kind,         \* the scope of a ledger: step, decision or shared
    Mode,         \* CostMode of a ledger: unlimited, hard or estimated
    Limit,        \* its limit
    Draws,        \* the ledgers an attempt draws from
    Ids,          \* attempt ids
    Id,           \* the id of an attempt
    MaxUnits,     \* bound on the units a call discloses or is charged
    Top           \* u64::MAX

ASSUME LedgerAssumption ==
    /\ IsFiniteSet(Attempts)
    /\ IsFiniteSet(Ids)
    /\ Kind \in [Ledgers -> {"step", "decision", "shared"}]
    /\ Mode \in [Ledgers -> {"unlimited", "hard", "estimated"}]
    /\ Limit \in [Ledgers -> Nat]
    /\ Draws \in [Attempts -> SUBSET Ledgers]
    /\ Id \in [Attempts -> Ids]
    /\ MaxUnits \in Nat
    /\ Top \in Nat
    /\ MaxUnits =< Top

\* A limit of u64::MAX is no limit: the saturated sum cannot exceed it.
ASSUME LimitAssumption == \A l \in Ledgers : Limit[l] < Top

\* An attempt draws from one ledger of each scope at most.
ASSUME ScopeAssumption ==
    \A a \in Attempts :
        /\ Draws[a] # {}
        /\ \A l, m \in Draws[a] : Kind[l] = Kind[m] => l = m

VARIABLES
    reserved,    \* State.reserved, per ledger
    observed,    \* State.observed
    estimated,   \* State.estimated
    liability,   \* State.liability
    violations,  \* State.bound_violations
    unknown,     \* State.unknown_attempts
    open,        \* the attempt ids in State.open
    openUnits,   \* the units State.open keeps for each of them
    pc,          \* where an attempt's task is
    held,        \* the ledgers its reservation sits on now
    units,       \* the units it reserves on each of them
    bounded,     \* the reservation is an enforceable bound
    charge,      \* the charge it is settled with
    overrun,     \* history: units charged beyond their reservations
    late,        \* history: the part of them a host reconciled
    strays,      \* history: unknown charges whose entry another replaced
    strayUnits   \* history: the units of those entries

ledgerVars == <<reserved, observed, estimated, liability, violations, unknown,
                open, openUnits, overrun, late, strays, strayUnits>>
attemptVars == <<pc, held, units, bounded, charge>>
vars == <<ledgerVars, attemptVars>>

Unknown == [kind |-> "unknown", units |-> 0]
Disclosures == [kind : {"bounded", "estimated"}, units : 0 .. MaxUnits] \cup {Unknown}
Charges == [kind : {"observed", "estimated"}, units : 0 .. MaxUnits] \cup {Unknown}

Limited(l) == Mode[l] # "unlimited"

Init ==
    /\ reserved = [l \in Ledgers |-> 0]
    /\ observed = [l \in Ledgers |-> 0]
    /\ estimated = [l \in Ledgers |-> 0]
    /\ liability = [l \in Ledgers |-> 0]
    /\ violations = [l \in Ledgers |-> 0]
    /\ unknown = [l \in Ledgers |-> 0]
    /\ open = [l \in Ledgers |-> {}]
    /\ openUnits = [l \in Ledgers |-> [i \in Ids |-> 0]]
    /\ pc = [a \in Attempts |-> "idle"]
    /\ held = [a \in Attempts |-> {}]
    /\ units = [a \in Attempts |-> 0]
    /\ bounded = [a \in Attempts |-> FALSE]
    /\ charge = [a \in Attempts |-> Unknown]
    /\ overrun = [l \in Ledgers |-> 0]
    /\ late = [l \in Ledgers |-> 0]
    /\ strays = [l \in Ledgers |-> 0]
    /\ strayUnits = [l \in Ledgers |-> 0]

-----------------------------------------------------------------------------
(* Arithmetic and the ledger's own decisions.                              *)

SatAdd(x, y) == IF x + y > Top THEN Top ELSE x + y
SatSub(x, y) == IF y > x THEN 0 ELSE x - y
Excess(x, y) == SatSub(x, y)

\* Ledger::units_for: which disclosures a mode accepts.
Accepts(l, bound) ==
    \/ bound.kind = "bounded"
    \/ bound.kind = "estimated" /\ Mode[l] # "hard"
    \/ Mode[l] = "unlimited"

\* What Ledger::reserve counts, liability left out.
Committed_no_liability(l) == SatAdd(SatAdd(reserved[l], observed[l]), estimated[l])

\* What Ledger::reserve counts against the limit.
Committed(l) ==
    SatAdd(SatAdd(SatAdd(reserved[l], observed[l]), estimated[l]), liability[l])

\* Ledger::reserve admits n more units.
Fits(l, n) == Limited(l) => SatAdd(Committed(l), n) =< Limit[l]

\* A charge above an enforceable bound, only when it was observed.
Violates_observed(c, n, b) == b /\ c.kind = "observed" /\ c.units > n

\* A charge above an enforceable bound contradicts it, observed or estimated.
Violates(c, n, b) == b /\ c.kind # "unknown" /\ c.units > n

-----------------------------------------------------------------------------
(* DecisionCtx::reserve.                                                   *)

\* The order reserve and release visit the ledgers in: step, decision, shared.
Rank(l) == CASE Kind[l] = "step" -> 1 [] Kind[l] = "decision" -> 2
             [] Kind[l] = "shared" -> 3

\* The order Held visits them in: decision, shared, step.
SettleRank(l) == CASE Kind[l] = "decision" -> 1 [] Kind[l] = "shared" -> 2
                   [] Kind[l] = "step" -> 3

\* An attempt id is in use by one attempt at a time: a running decision id
\* cannot be submitted again, a finished one can.
Running(a) == pc[a] \notin {"idle", "refused", "done"}

\* units_for on every ledger, before anything is reserved.
Offer(a) ==
    /\ pc[a] = "idle"
    /\ \A b \in Attempts : Id[b] = Id[a] => ~Running(b)
    /\ \E bound \in Disclosures :
         /\ units' = [units EXCEPT ![a] = bound.units]
         /\ bounded' = [bounded EXCEPT ![a] = bound.kind = "bounded"]
         /\ pc' = [pc EXCEPT ![a] =
                     IF \A l \in Draws[a] : Accepts(l, bound)
                     THEN "reserving" ELSE "refused"]
    /\ UNCHANGED <<ledgerVars, held, charge>>

\* The next ledger to reserve on.
NextToReserve(a, l) ==
    /\ l \in Draws[a] \ held[a]
    /\ \A m \in Draws[a] \ held[a] : Rank(l) =< Rank(m)

ReserveNext(a) ==
    /\ pc[a] = "reserving"
    /\ \E l \in Ledgers :
         /\ NextToReserve(a, l)
         /\ Fits(l, units[a])
         /\ reserved' = [reserved EXCEPT ![l] = SatAdd(@, units[a])]
         /\ held' = [held EXCEPT ![a] = @ \cup {l}]
         /\ pc' = [pc EXCEPT ![a] = IF held[a] \cup {l} = Draws[a]
                                    THEN "reserved" ELSE "reserving"]
    /\ UNCHANGED <<observed, estimated, liability, violations, unknown, open,
                   openUnits, overrun, late, strays, strayUnits, units, bounded, charge>>

\* What a refused reservation leaves to undo: nothing.
AfterRefusal_done(a) == "refused"

\* What a refused reservation leaves to undo: the ledgers reserved before.
AfterRefusal(a) == IF held[a] = {} THEN "refused" ELSE "unwinding"

ReserveRefused(a) ==
    /\ pc[a] = "reserving"
    /\ \E l \in Ledgers : NextToReserve(a, l) /\ ~Fits(l, units[a])
    /\ pc' = [pc EXCEPT ![a] = AfterRefusal(a)]
    /\ UNCHANGED <<ledgerVars, held, units, bounded, charge>>

\* Ledger::release on one ledger.
Release(a, l, rest) ==
    /\ reserved' = [reserved EXCEPT ![l] = SatSub(@, units[a])]
    /\ held' = [held EXCEPT ![a] = @ \ {l}]
    /\ pc' = [pc EXCEPT ![a] = IF held[a] = {l} THEN "refused" ELSE rest]
    /\ UNCHANGED <<observed, estimated, liability, violations, unknown, open,
                   openUnits, overrun, late, strays, strayUnits, units, bounded, charge>>

\* A refusal releases what was reserved, the latest first.
Unwind(a) ==
    /\ pc[a] = "unwinding"
    /\ \E l \in held[a] :
         /\ \A m \in held[a] : Rank(m) =< Rank(l)
         /\ Release(a, l, "unwinding")

\* DecisionCtx::release: an attempt that is not dispatched after all.
Withdraw(a) ==
    /\ pc[a] \in {"reserved", "releasing"}
    /\ \E l \in held[a] :
         /\ \A m \in held[a] : Rank(l) =< Rank(m)
         /\ Release(a, l, "releasing")

-----------------------------------------------------------------------------
(* Held and Runtime::reconcile.                                            *)

\* DecisionCtx::hold, immediately before dispatch.
Hold(a) ==
    /\ pc[a] = "reserved"
    /\ pc' = [pc EXCEPT ![a] = "dispatched"]
    /\ UNCHANGED <<ledgerVars, held, units, bounded, charge>>

\* The attempt reports a charge, or its future is dropped and Held's Drop
\* settles an unknown one.
End(a) ==
    /\ pc[a] = "dispatched"
    /\ \E c \in Charges : charge' = [charge EXCEPT ![a] = c]
    /\ pc' = [pc EXCEPT ![a] = "settling"]
    /\ UNCHANGED <<ledgerVars, held, units, bounded>>

\* Ledger::settle on one ledger.  An unknown charge under an id that has an open
\* entry, of an earlier decision, replaces the entry.
Settle(a, l) ==
    LET c == charge[a]
        n == units[a]
        replaces == c.kind = "unknown" /\ Id[a] \in open[l]
    IN
    /\ reserved' = [reserved EXCEPT ![l] = SatSub(@, n)]
    /\ observed' = [observed EXCEPT ![l] =
                      IF c.kind = "observed" THEN SatAdd(@, c.units) ELSE @]
    /\ estimated' = [estimated EXCEPT ![l] =
                      IF c.kind = "estimated" THEN SatAdd(@, c.units) ELSE @]
    /\ liability' = [liability EXCEPT ![l] =
                      IF c.kind = "unknown" THEN SatAdd(@, n) ELSE @]
    /\ violations' = [violations EXCEPT ![l] =
                      IF Violates(c, n, bounded[a]) THEN @ + 1 ELSE @]
    /\ unknown' = [unknown EXCEPT ![l] = IF c.kind = "unknown" THEN @ + 1 ELSE @]
    /\ open' = [open EXCEPT ![l] =
                  IF c.kind = "unknown" THEN @ \cup {Id[a]} ELSE @]
    /\ openUnits' = [openUnits EXCEPT ![l] =
                  IF c.kind = "unknown" THEN [@ EXCEPT ![Id[a]] = n] ELSE @]
    /\ overrun' = [overrun EXCEPT ![l] =
                  IF c.kind = "unknown" THEN @ ELSE @ + Excess(c.units, n)]
    /\ strays' = [strays EXCEPT ![l] = IF replaces THEN @ + 1 ELSE @]
    /\ strayUnits' = [strayUnits EXCEPT ![l] =
                  IF replaces THEN @ + openUnits[l][Id[a]] ELSE @]
    /\ late' = late

\* Held::settle, or Drop: each ledger in turn.
SettleNext(a) ==
    /\ pc[a] = "settling"
    /\ \E l \in held[a] :
         /\ \A m \in held[a] : SettleRank(l) =< SettleRank(m)
         /\ Settle(a, l)
         /\ held' = [held EXCEPT ![a] = @ \ {l}]
         /\ pc' = [pc EXCEPT ![a] = IF held[a] = {l} THEN "done" ELSE "settling"]
    /\ UNCHANGED <<units, bounded, charge>>

\* The entries left once i is reconciled.
Closed(l, i) == open[l] \ {i}

\* Runtime::reconcile: a host learns what an unknown charge was, whatever was
\* reserved for it.  Only the shared ledger outlives its decision.
Reconcile(l) ==
    /\ Kind[l] = "shared"
    /\ \E i \in open[l], n \in 0 .. MaxUnits :
         /\ open' = [open EXCEPT ![l] = Closed(l, i)]
         /\ liability' = [liability EXCEPT ![l] = SatSub(@, openUnits[l][i])]
         /\ unknown' = [unknown EXCEPT ![l] = SatSub(@, 1)]
         /\ observed' = [observed EXCEPT ![l] = SatAdd(@, n)]
         /\ overrun' = [overrun EXCEPT ![l] = @ + Excess(n, openUnits[l][i])]
         /\ late' = [late EXCEPT ![l] = @ + Excess(n, openUnits[l][i])]
    /\ UNCHANGED <<reserved, estimated, violations, openUnits, strays, strayUnits, attemptVars>>

-----------------------------------------------------------------------------
Attempt(a) ==
    \/ Offer(a) \/ ReserveNext(a) \/ ReserveRefused(a) \/ Unwind(a)
    \/ Withdraw(a) \/ Hold(a) \/ End(a) \/ SettleNext(a)

\* Every attempt is over: nothing more happens but reconciliation.
Over == (\A a \in Attempts : pc[a] \in {"refused", "done"}) /\ UNCHANGED vars

Next == (\E a \in Attempts : Attempt(a)) \/ (\E l \in Ledgers : Reconcile(l)) \/ Over

Spec == Init /\ [][Next]_vars

-----------------------------------------------------------------------------
(* Properties.                                                             *)

\* Type correctness of the ledgers and the attempts: every count stays within a
\* u64, which the saturating additions see to.
TypeOK ==
    /\ reserved \in [Ledgers -> 0 .. Top]
    /\ observed \in [Ledgers -> 0 .. Top]
    /\ estimated \in [Ledgers -> 0 .. Top]
    /\ liability \in [Ledgers -> 0 .. Top]
    /\ violations \in [Ledgers -> Nat]
    /\ unknown \in [Ledgers -> Nat]
    /\ open \in [Ledgers -> SUBSET Ids]
    /\ openUnits \in [Ledgers -> [Ids -> 0 .. MaxUnits]]
    /\ pc \in [Attempts -> {"idle", "refused", "reserving", "unwinding",
                            "reserved", "releasing", "dispatched", "settling",
                            "done"}]
    /\ held \in [Attempts -> SUBSET Ledgers]
    /\ units \in [Attempts -> 0 .. MaxUnits]
    /\ bounded \in [Attempts -> BOOLEAN]
    /\ charge \in [Attempts -> Charges]
    /\ overrun \in [Ledgers -> Nat]
    /\ late \in [Ledgers -> Nat]
    /\ strays \in [Ledgers -> Nat]
    /\ strayUnits \in [Ledgers -> Nat]

\* The units in progress on ledger l, one pair for each unit an attempt that
\* has not ended still holds there; their number is the sum of reservations.
Holds(a, l) == Running(a) /\ l \in held[a]
HeldUnits(l) ==
    {x \in Attempts \X (1 .. MaxUnits) : Holds(x[1], l) /\ x[2] =< units[x[1]]}

\* The units of the unknown charges ledger l keeps an entry for.
OwedUnits(l) ==
    {x \in Ids \X (1 .. MaxUnits) : x[1] \in open[l] /\ x[2] =< openUnits[l][x[1]]}

\* A limited ledger's reserved units are exactly those of the attempts in
\* progress, between any two steps of a reservation over several ledgers, its
\* refusal half way, its release and its settlement: nothing leaks, and the
\* saturating subtractions never hide a double release.
ReservedAccounted ==
    \A l \in Ledgers : Limited(l) => reserved[l] = Cardinality(HeldUnits(l))

\* Concurrent attempts never together commit more than a ledger's limit but
\* for what adapters charged beyond their reservations (Ledger::reserve;
\* ledger.rs:1-4).
WithinLimit ==
    \A l \in Ledgers : Limited(l) =>
        reserved[l] + observed[l] + estimated[l] + liability[l]
            =< Limit[l] + overrun[l]

\* A ledger that reports spend within a guaranteed cap has really stayed
\* within its limit (Ledger::summary), but for what hosts reconciled beyond what
\* was reserved, which Ledger::reconcile does not count as a violation.
WithinGuaranteedCap(l) == Mode[l] = "hard" /\ unknown[l] = 0 /\ violations[l] = 0
CapIsKept ==
    \A l \in Ledgers : WithinGuaranteedCap(l) =>
        reserved[l] + observed[l] + estimated[l] + liability[l] =< Limit[l] + late[l]

\* The liability a ledger reports is what its entries can still reconcile, and
\* what was left behind where an unknown charge replaced the entry of an earlier
\* one with its id; and so is its count of unknown charges (settle, reconcile).
LiabilityAccounted ==
    \A l \in Ledgers : Limited(l) =>
        /\ liability[l] = Cardinality(OwedUnits(l)) + strayUnits[l]
        /\ unknown[l] = Cardinality(open[l]) + strays[l]

\* What the spec says of the entries ("The shared ledger keeps one entry per
\* unreconciled unknown charge", 003 3.5.5): it does not where a decision id, and
\* with it an attempt id, is used again before the charge is reconciled.
OneEntryEach ==
    \A l \in Ledgers : Kind[l] = "shared" => unknown[l] = Cardinality(open[l])

\* What a summary reports of a ledger is true at every step, whatever ids come
\* again and whatever hosts reconcile: its liability is what is still owed, and a
\* guaranteed cap was kept but for late charges (summary).
SummaryTrue == TypeOK /\ CapIsKept /\ LiabilityAccounted
=============================================================================
