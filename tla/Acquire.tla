------------------------------- MODULE Acquire -------------------------------
(***************************************************************************)
(* Acquisition of pages on the decision's task                             *)
(* (crates/rustev-runtime/src/acquisition.rs, and its part of the loop of  *)
(* run_requests in driver.rs).                                             *)
(*                                                                         *)
(* A step of the plan asks its source for one page at a time; which page,  *)
(* or which tier, comes next is the core's choice.  Module Batch composes  *)
(* these steps with the requests of the same decision: one task polls all  *)
(* of them, so a step here runs from one await to the next, or to a call   *)
(* of the source's cost_bound, the authorizer or the spend gate, while     *)
(* which the clock and the caller move.                                    *)
(***************************************************************************)
EXTENDS Naturals, FiniteSets, FiniteSetsExt, SequencesExt

CONSTANTS
    Loads,         \* what the plan and its requests may fix
    SourcePermits, \* the concurrency of the source
    Limit,         \* the limit of the ledger the decisions share
    None           \* nothing yet

\* What a failed attempt may be retried for, and what a drive may find before
\* its first attempt.
Classes == {"transient", "overloaded", "timed_out"}
Finds == {"captured", "missing", "absent", "hit", "collision", "miss"}

ASSUME AcquireAssumption ==
    /\ SourcePermits \in Nat \ {0}
    /\ Limit \in Nat
    /\ \A l \in Loads :
        /\ {l.deadline, l.maxCalls} \cup l.units \cup l.charges \subseteq Nat
        /\ l.live \in BOOLEAN
        /\ \A s \in Range(l.acquires) :
            /\ {l.limits[s].width, l.limits[s].delay} \subseteq Nat
            /\ {l.limits[s].timeout, l.limits[s].attempts, l.limits[s].pages} \subseteq Nat \ {0}
            /\ l.limits[s].retryOn \subseteq Classes
            /\ l.limits[s].finds \subseteq Finds
            /\ {l.limits[s].widens, l.limits[s].acknowledges} \subseteq BOOLEAN

VARIABLES
    load,       \* what is fixed: the acquire steps in order and their limits, the
                \* requests, what adapters may disclose and charge
    now,        \* the clock
    cancel,     \* the decision's signal
    refused,    \* a screening refused the decision
    gone,       \* the decision's future was dropped
    looping,    \* run_requests is at the head of its loop
    ledger,     \* the shared ledger: this decision's part, and the others'
    acq,        \* the page each acquire step is at
    line,       \* Queue::waiting: listed pages not driven yet
    calls,      \* calls counted against max_calls
    source,     \* permits of the source: free, and held by other decisions
    gate        \* the spend gate: tickets held, and whether it refused for good

pages == <<acq, line, calls, source, gate>>

-----------------------------------------------------------------------------

AcquireSteps == Range(load.acquires)
Bounds(s) == load.limits[s]

\* Every step whose inputs are there has its first page pending in the core.
AcquireInit ==
    /\ acq = [s \in AcquireSteps |->
                [pc |-> "pending", page |-> 1, first |-> None, close |-> None, attempt |-> 0,
                 until |-> None, units |-> 0, charged |-> 0, owed |-> 0, end |-> None]]
    /\ line = <<>> /\ calls = 0
    /\ source = [free |-> SourcePermits, others |-> 0]
    /\ gate = [held |-> 0, stopped |-> FALSE]

At(pc) == {s \in AcquireSteps : acq[s].pc = pc}

\* Futures in `acquiring`.
Acquiring == {s \in AcquireSteps : acq[s].pc \notin {"pending", "waiting", "over"}}

\* Code of the source, the authorizer or the gate runs on the task.
Foreign == At("disclose") \cup At("spend")

Earlier(a, b) == IF a < b THEN a ELSE b

Committed == ledger.reserved + ledger.elsewhere + ledger.observed + ledger.liability

-----------------------------------------------------------------------------
(* The loop's part: list, expire_waiting, list again, admit.               *)

\* The window a page is listed with: one for the step, from its first page on.
Window_per_page(s) == Earlier(load.deadline, now + Bounds(s).width)
Window(s) ==
    IF acq[s].close # None THEN acq[s].close
    ELSE Earlier(load.deadline, now + Bounds(s).width)

\* The core's next page or tier of a step, or none.
NextPage(rec) == [rec EXCEPT !.pc = "pending", !.page = @ + 1, !.attempt = 0,
                             !.until = None, !.end = None]
NoPage(rec) == [rec EXCEPT !.pc = "over", !.attempt = 0, !.until = None, !.end = None]

\* What the core may list after a page, or after a failure: only a widening has
\* another tier to try.
MayGoOn(s, end) ==
    /\ acq[s].page < Bounds(s).pages
    /\ end = "page" \/ (end = "failed" /\ Bounds(s).widens)

\* Pages past their window, or withdrawn by the signal, leave the line: the
\* latter are not supplied.  `room` places are left by the requests.
ListAndAdmit(room) ==
    LET Pending(a) == SelectSeq(load.acquires, LAMBDA s : a[s].pc = "pending")
        List(a) == [s \in AcquireSteps |->
            IF a[s].pc # "pending" THEN a[s]
            ELSE [a[s] EXCEPT !.pc = "waiting", !.close = Window(s),
                              !.first = IF @ = None THEN now ELSE @]]
        listed == List(acq)
        inLine == line \o Pending(acq)
        Expired(s) == now >= listed[s].close \/ cancel
        expired == {s \in Range(inLine) : Expired(s)}
    IN \E on \in SUBSET {s \in expired : ~cancel /\ MayGoOn(s, "failed")} :
        LET supplied == [s \in AcquireSteps |->
                IF s \in on THEN NextPage(listed[s])
                ELSE IF s \in expired THEN NoPage(listed[s]) ELSE listed[s]]
            relisted == [s \in AcquireSteps |->
                IF s \in on THEN [supplied[s] EXCEPT !.pc = "waiting"] ELSE supplied[s]]
            queue == SelectSeq(inLine, LAMBDA s : ~Expired(s)) \o Pending(supplied)
            size == Earlier(room, Len(queue))
        IN /\ line' = SubSeq(queue, size + 1, Len(queue))
           /\ acq' = [s \in AcquireSteps |->
                IF s \in Range(SubSeq(queue, 1, size)) THEN [relisted[s] EXCEPT !.pc = "start"]
                ELSE relisted[s]]

-----------------------------------------------------------------------------
(* drive.                                                                  *)

\* The task is the futures': not at the head of the loop, not in foreign code.
Polled == ~looping /\ ~gone /\ Foreign = {}

Halted(s) == cancel \/ now >= acq[s].close
Halt == IF cancel THEN "none" ELSE "failed"

Ended(rec, end) == [rec EXCEPT !.pc = "ended", !.end = end, !.units = 0, !.until = None]
Ends(s, end) == acq' = [acq EXCEPT ![s] = Ended(@, end)]

GivePermit == source' = [source EXCEPT !.free = @ + 1]
Release(s) == ledger' = [ledger EXCEPT !.reserved = @ - acq[s].units]

\* A captured page, and a source or an operation that is absent, need no call:
\* they come before the signal and the window are looked at.
FoundAtOnce(s) ==
    /\ acq[s].pc = "start" /\ Polled
    /\ \E found \in Bounds(s).finds \cap {"captured", "missing", "absent"} :
        Ends(s, IF found = "captured" THEN "page" ELSE "failed")
    /\ UNCHANGED <<line, calls, source, gate, ledger>>

\* The signal and the window, then the page cache, then the first attempt.
Begin(s) ==
    /\ acq[s].pc = "start" /\ Polled
    /\ \E found \in Bounds(s).finds \cap {"hit", "collision", "miss"} :
        IF Halted(s) THEN Ends(s, Halt)
        ELSE IF found = "miss"
        THEN acq' = [acq EXCEPT ![s].pc = "acquire", ![s].attempt = 1]
        ELSE Ends(s, IF found = "hit" THEN "page" ELSE "failed")
    /\ UNCHANGED <<line, calls, source, gate, ledger>>

\* The permit is not this step's: there is none, or it goes to another waiter.
NoSourcePermit(s) == source.free = 0 \/ At("acquire") # {s}

SourceWaitEnds(s) ==
    /\ acq[s].pc = "acquire" /\ Polled
    /\ Halted(s) /\ NoSourcePermit(s)
    /\ Ends(s, Halt)
    /\ UNCHANGED <<line, calls, source, gate, ledger>>

\* The permit came: the checks after it, then cost_bound is called.
GetsSource(s) ==
    /\ acq[s].pc = "acquire" /\ Polled /\ source.free > 0
    /\ IF Halted(s) THEN Ends(s, Halt) /\ UNCHANGED source
       ELSE /\ acq' = [acq EXCEPT ![s].pc = "disclose"]
            /\ source' = [source EXCEPT !.free = @ - 1]
    /\ UNCHANGED <<line, calls, gate, ledger>>

\* An attempt that is sent, with the limit it runs under.
Sent(rec, s) == [rec EXCEPT !.pc = "running",
                            !.until = Earlier(rec.close, now + Bounds(s).timeout)]

CostBoundPanics(s) ==
    /\ acq[s].pc = "disclose" /\ ~gone
    /\ Ends(s, "failed") /\ GivePermit
    /\ UNCHANGED <<line, calls, gate, ledger>>

\* The reservation does not fit, or fits too late, or the calls are used up.
NotSent(s) ==
    /\ acq[s].pc = "disclose" /\ ~gone
    /\ \E u \in load.units :
        LET fits == Committed + u <= Limit
        IN /\ ~fits \/ Halted(s) \/ calls >= load.maxCalls
           /\ Ends(s, IF fits THEN Halt ELSE "failed")
    /\ GivePermit
    /\ UNCHANGED <<line, calls, gate, ledger>>

\* The call is counted before the gate is asked.
Reserves(s) ==
    /\ acq[s].pc = "disclose" /\ ~gone
    /\ ~Halted(s) /\ calls < load.maxCalls
    /\ \E u \in load.units :
        /\ Committed + u <= Limit
        /\ ledger' = [ledger EXCEPT !.reserved = @ + u]
        /\ LET rec == [acq[s] EXCEPT !.units = u] IN
           acq' = [acq EXCEPT ![s] = IF load.live THEN [rec EXCEPT !.pc = "spend"]
                                     ELSE Sent(rec, s)]
    /\ calls' = calls + 1
    /\ UNCHANGED <<line, source, gate>>

SpendRefused_unreleased(s) ==
    /\ acq[s].pc = "spend" /\ ~gone
    /\ \E stops \in BOOLEAN : gate' = [gate EXCEPT !.stopped = @ \/ stops]
    /\ Ends(s, "failed") /\ GivePermit
    /\ UNCHANGED <<line, calls, ledger>>

\* The authorizer refused, or the gate did: the latter is for good.
SpendRefused(s) ==
    /\ acq[s].pc = "spend" /\ ~gone
    /\ \E stops \in BOOLEAN : gate' = [gate EXCEPT !.stopped = @ \/ stops]
    /\ Ends(s, "failed") /\ GivePermit /\ Release(s)
    /\ UNCHANGED <<line, calls>>

\* The gate gave a ticket, which goes back when it came too late.
SpendHeld(s) ==
    /\ acq[s].pc = "spend" /\ ~gone /\ ~gate.stopped
    /\ IF Halted(s)
       THEN Ends(s, Halt) /\ GivePermit /\ Release(s) /\ UNCHANGED gate
       ELSE /\ acq' = [acq EXCEPT ![s] = Sent(@, s)]
            /\ gate' = [gate EXCEPT !.held = @ + 1]
            /\ UNCHANGED <<source, ledger>>
    /\ UNCHANGED <<line, calls>>

-----------------------------------------------------------------------------
(* attempt, and what drive makes of its end.                               *)

Unknown == None

\* The ledger once the reservations of some attempts are settled.
Settled(reserved, charge) ==
    IF charge = Unknown
    THEN [ledger EXCEPT !.reserved = @ - reserved, !.liability = @ + reserved]
    ELSE [ledger EXCEPT !.reserved = @ - reserved, !.observed = @ + charge]

\* The attempt of a step is over: permit, reservation and ticket are settled
\* with its charge, and the step goes on as `rec`.
Concluded(s, charge, rec) ==
    /\ GivePermit
    /\ ledger' = Settled(acq[s].units, charge)
    /\ gate' = IF load.live THEN [gate EXCEPT !.held = @ - 1] ELSE gate
    /\ acq' = [acq EXCEPT ![s] =
        IF charge = Unknown THEN [rec EXCEPT !.owed = @ + acq[s].units]
        ELSE [rec EXCEPT !.charged = @ + charge]]
    /\ UNCHANGED <<line, calls>>

\* A failure of a class the step retries, with time left for the delay, pauses;
\* any other ends the page.
Retried(s, class) ==
    LET at == now + Bounds(s).delay
    IN IF acq[s].attempt < Bounds(s).attempts /\ class \in Bounds(s).retryOn /\ at < acq[s].close
       THEN [acq[s] EXCEPT !.pc = "pause", !.until = at, !.units = 0]
       ELSE Ended(acq[s], "failed")

PageCharges == load.charges \cup {Unknown}

\* A report counts whenever it is there first, raised signal or not: a valid
\* page is supplied, any other end is a failure of some class.
SourceReports(s) ==
    /\ acq[s].pc = "running" /\ Polled
    /\ \E charge \in PageCharges :
        \/ Concluded(s, charge, Ended(acq[s], "page"))
        \/ \E class \in {"transient", "overloaded", "invalid", "denied", "permanent"} :
            Concluded(s, charge, Retried(s, class))

\* The source answers the raised signal: a charge counts only from a source
\* that acknowledges cancellation.
SourceAcknowledges(s) ==
    /\ acq[s].pc = "running" /\ Polled /\ cancel
    /\ \E charge \in (IF Bounds(s).acknowledges THEN PageCharges ELSE {Unknown}) :
        Concluded(s, charge, Ended(acq[s], "none"))

SourcePanics(s) ==
    /\ acq[s].pc = "running" /\ Polled
    /\ Concluded(s, Unknown, Ended(acq[s], "failed"))

\* The signal or the timer won; an acknowledging source is polled once more.
AttemptCut(s) ==
    /\ acq[s].pc = "running" /\ Polled
    /\ cancel \/ now >= acq[s].until
    /\ \E charge \in (IF Bounds(s).acknowledges THEN PageCharges ELSE {Unknown}) :
        Concluded(s, charge, IF Halted(s) THEN Ended(acq[s], Halt) ELSE Retried(s, "timed_out"))

\* The delay is over, or cut short by the signal.
Resumes(s) ==
    /\ acq[s].pc = "pause" /\ Polled
    /\ cancel \/ now >= acq[s].until
    /\ IF Halted(s) THEN Ends(s, Halt)
       ELSE acq' = [acq EXCEPT ![s].pc = "acquire", ![s].attempt = @ + 1, ![s].until = None]
    /\ UNCHANGED <<line, calls, source, gate, ledger>>

-----------------------------------------------------------------------------
(* What the loop takes.                                                    *)

\* Queue::supply.
PageReturns(s) ==
    /\ acq[s].pc = "ended" /\ Polled
    /\ \E more \in {FALSE, MayGoOn(s, acq[s].end)} :
        acq' = [acq EXCEPT ![s] = IF more THEN NextPage(@) ELSE NoPage(@)]
    /\ UNCHANGED <<line, calls, source, gate, ledger>>

\* The timer of the queued pages.
QueuedExpiry ==
    /\ Polled
    /\ \E s \in Range(line) : now >= acq[s].close
    /\ UNCHANGED <<pages, ledger>>

Works(s) ==
    \/ FoundAtOnce(s) \/ Begin(s) \/ SourceWaitEnds(s) \/ GetsSource(s)
    \/ CostBoundPanics(s) \/ NotSent(s) \/ Reserves(s) \/ SpendRefused(s) \/ SpendHeld(s)
    \/ SourceReports(s) \/ SourceAcknowledges(s) \/ SourcePanics(s) \/ AttemptCut(s) \/ Resumes(s)

\* Other decisions draw on the source.
OtherTakesSource ==
    /\ "source" \in load.contended /\ source.free > 0
    /\ source' = [source EXCEPT !.free = @ - 1, !.others = @ + 1]
    /\ UNCHANGED <<acq, line, calls, gate>>

OtherGivesSource ==
    /\ source.others > 0
    /\ source' = [source EXCEPT !.free = @ + 1, !.others = @ - 1]
    /\ UNCHANGED <<acq, line, calls, gate>>

-----------------------------------------------------------------------------
(* The acquisition's part of what module Batch states.                     *)

TotalOf(f) == MapThenSumSet(LAMBDA s : acq[s][f], AcquireSteps)

\* Every permit of the source and every ticket of the gate is where an attempt
\* says it is (acquisition.rs 281-364).
SourceExact ==
    /\ source.free + source.others + Cardinality(Foreign \cup At("running")) = SourcePermits
    /\ gate.held = IF load.live THEN Cardinality(At("running")) ELSE 0

\* An attempt runs no longer than its step's window, which opens when the
\* step's first page is listed and is not opened again by later pages, tiers or
\* attempts; the calls stay within the plan's ceiling (acquisition.rs 55-62,
\* 317-326).
WithinWindow ==
    /\ calls <= load.maxCalls
    /\ \A s \in At("running") :
        acq[s].until <= Earlier(load.deadline, acq[s].first + Bounds(s).width)
=============================================================================
