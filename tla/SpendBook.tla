----------------------------- MODULE SpendBook -----------------------------
(***************************************************************************)
(* What the users of a spend journal rely on, whatever its file goes       *)
(* through. A grant fits the budget and the run, and a granted reservation *)
(* is never lost: its attempt, period and units never change, and an       *)
(* outcome that was recorded stands. A reopened journal holds each of them *)
(* with what was last acknowledged, the unsettled ones as liability. It    *)
(* may hold more: an outcome whose record was not acknowledged, and as     *)
(* liability a reservation that was refused or cut short while it was      *)
(* being recorded; what was not acknowledged may come and go with every    *)
(* reopening, but never makes the book exceed its cap. Module Journal      *)
(* implements this.                                                        *)
(***************************************************************************)
EXTENDS Spend

CONSTANT MaxSeq         \* bound on the reservations of a behaviour

VARIABLES book,         \* sequence number -> reservation, as a process sees it
          acked,        \* the same, as acknowledged to the users
          up            \* a process holds the journal

bookVars == <<book, acked, up>>

WithinCap == \A p \in Periods : totals(book, p) <= Cap + Overrun(book, p)

BookInit == up = FALSE /\ WithinCap

Fits(a, p, u) == /\ totals(book, p) + u <= Cap
                 /\ a \in RunAttempts => run_total(book) + u <= RunCap

Grant(s, a, p, u) ==
  /\ up /\ s \notin DOMAIN book
  /\ book' = Put(book, s, Res(a, p, u))
  /\ acked' = Put(acked, s, Res(a, p, u))
  /\ UNCHANGED up /\ Fits(a, p, u)

Observations == {State("observed", u) : u \in 0..MaxCharge}
Outcomes == Observations \cup {State("estimated", u) : u \in 0..MaxCharge}
              \cup {Unknown, Released}

RecordOutcome(s, to) ==
  /\ up /\ s \in DOMAIN book
  /\ \/ book[s].state = Outstanding
     \/ book[s].state \in {Liability, Unknown} /\ to \in Observations
  /\ book' = [book EXCEPT ![s].state = to]
  /\ acked' = Put(acked, s, book'[s])
  /\ UNCHANGED up

End == up /\ up' = FALSE /\ UNCHANGED <<book, acked>>

(* What a later process may find of an acknowledged state.                 *)
After(st) == CASE st = Outstanding -> {Liability} \cup Outcomes
               [] st \in {Liability, Unknown} -> {st} \cup Observations
               [] OTHER -> {st}

Reopen ==
  /\ ~up /\ up' = TRUE /\ UNCHANGED acked
  /\ DOMAIN acked \subseteq DOMAIN book' /\ DOMAIN book' \subseteq 1..MaxSeq
  /\ \A s \in DOMAIN acked :
       /\ book'[s].state \in After(acked[s].state)
       /\ book'[s] = [acked[s] EXCEPT !.state = book'[s].state]
  /\ \A s \in DOMAIN book' \ DOMAIN acked : Counted(book'[s]) <= book'[s].units
  /\ WithinCap'

BookNext == \/ \E s \in 1..MaxSeq, a \in Attempts, p \in Periods, u \in Amounts :
                 Grant(s, a, p, u)
            \/ \E s \in 1..MaxSeq, to \in Outcomes : RecordOutcome(s, to)
            \/ End
            \/ Reopen

BookSpec == BookInit /\ [][BookNext]_bookVars
=============================================================================
