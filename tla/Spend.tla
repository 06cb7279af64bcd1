------------------------------- MODULE Spend -------------------------------
(***************************************************************************)
(* What a spend journal (crates/rustev-live/src/journal.rs) counts: the    *)
(* reservations of a book, their states, and the totals of a period and of *)
(* a live run. A book is a function from sequence numbers to reservations. *)
(* Module Journal keeps such a book in a file, module SpendBook says what  *)
(* its users rely on, module LiveRun uses it.                              *)
(***************************************************************************)
EXTENDS Naturals, FiniteSets

CONSTANTS Attempts,     \* the attempts that ask for a reservation
          RunAttempts,  \* those of the live run, which has a cap of its own
          Amounts,      \* the amounts asked for, in units
          Periods,      \* the periods that are counted separately
          Cap,          \* BudgetKind::cap
          RunCap,       \* LiveConfig::run_cap_units
          MaxCharge     \* bound on what a request may cost

ASSUME SpendAssumption == /\ IsFiniteSet(Attempts) /\ RunAttempts \subseteq Attempts
                          /\ Amounts \subseteq Nat
                          /\ Cap \in Nat /\ RunCap \in Nat /\ MaxCharge \in Nat

(* ResState. Only an observed and an estimated charge carry units.         *)
State(tag, units) == [tag |-> tag, units |-> units]
Outstanding == State("outstanding", 0)
Liability == State("liability", 0)
Unknown == State("unknown", 0)
Released == State("released", 0)

(* The state an attempt's charge settles a reservation to.                 *)
settled(charge, units) ==
  CASE charge = "observed" -> State("observed", units)
    [] charge = "estimated" -> State("estimated", units)
    [] OTHER -> Unknown

Res(a, p, u) == [attempt |-> a, period |-> p, units |-> u, state |-> Outstanding]

(* A book with the reservation s made, or changed, to r.                   *)
Put(b, s, r) == [t \in DOMAIN b \cup {s} |-> IF t = s THEN r ELSE b[t]]

(* What a reservation counts for: its charge once that is known, nothing   *)
(* once released, and otherwise all of it.                                 *)
Counted(r) == IF r.state.tag \in {"observed", "estimated"} THEN r.state.units
              ELSE IF r.state = Released THEN 0 ELSE r.units

(* The sum of a function's values: one cell for each unit of each value.   *)
Cells(f) == UNION {{s} \X (1..f[s]) : s \in DOMAIN f}
Total(f) == Cardinality(Cells(f))

InPeriod(b, p) == {s \in DOMAIN b : b[s].period = p}
InRun(b) == {s \in DOMAIN b : b[s].attempt \in RunAttempts}

totals_no_liability(b, p) ==
  Total([s \in {t \in InPeriod(b, p) : b[t].state # Liability} |-> Counted(b[s])])

(* SpendSummary::committed of totals: the period's reservations, settled,  *)
(* held as liability and outstanding.                                      *)
totals(b, p) == Total([s \in InPeriod(b, p) |-> Counted(b[s])])

(* The live run's reservations, in every period.                           *)
run_total(b) == Total([s \in InRun(b) |-> Counted(b[s])])

(* The units a period's observed and estimated charges exceed their        *)
(* reservations by: an estimate binds the reservation, not the provider.   *)
Excess(r) == IF Counted(r) > r.units THEN Counted(r) - r.units ELSE 0
Overrun(b, p) == Total([s \in InPeriod(b, p) |-> Excess(b[s])])
=============================================================================
