-------------------------------- MODULE Drive --------------------------------
(***************************************************************************)
(* The requests of one decision, driven to their end                       *)
(* (crates/rustev-runtime/src/driver.rs: run_requests, drive, attempt,     *)
(* await_attempt, judge_end; the authorizer and spend gate of live.rs and  *)
(* spend.rs on a live re-execution).                                       *)
(*                                                                         *)
(* The requests are polled on one task.  Between two awaits one of them    *)
(* calls foreign code up to three times (the adapter's cost disclosure,    *)
(* the authorizer, the spend gate): the clock may advance and the caller   *)
(* may cancel while it runs, but no other request moves.  The checks that  *)
(* follow such a call and the code up to the next one are one step.        *)
(* Shared calls, caches and batches are other modules' subject; a cost     *)
(* reservation is granted or refused as in module Ledger.                  *)
(***************************************************************************)
EXTENDS Naturals, FiniteSets

CONSTANTS
    Plans,   \* what the plan, its bindings and the caller may fix for a decision
    None     \* nothing yet

Classes == {"transient", "overloaded", "timed_out", "permanent", "adapter_fault",
            "invalid_output"}

\* How a request ends, and what is recorded of an attempt.
Outcomes == Classes \cup {"output", "cancelled", "deadline", "unavailable", "exhausted",
                         "withdrawn"}

AttemptRecord == [target : Nat, end : Outcomes, remote : {"finished", "continuing", "stopped"},
                  charge : {"known", "unknown"}]

ASSUME NoneAssumption == None \notin Outcomes /\ None \notin AttemptRecord

ASSUME DriveAssumption ==
    \A p \in Plans :
        /\ IsFiniteSet(p.requests) /\ p.screens \subseteq p.requests
        /\ p.maxParallel \in Nat \ {0} /\ p.lastTarget \in Nat \ {0}
        /\ p.permits \in Nat \ {0} /\ p.contended \subseteq 1..p.lastTarget
        /\ p.maxTries \in Nat \ {0} /\ p.delay \in Nat /\ p.timeout \in Nat \ {0}
        /\ p.deadline \in Nat
        /\ p.retryOn \subseteq Classes /\ p.fallbackOn \subseteq Classes
        /\ {p.live, p.hasGate} \subseteq BOOLEAN /\ (p.hasGate => p.live)
        /\ p.validFor \subseteq Nat
        /\ p.results \subseteq {"output", "malformed", "transient", "overloaded",
                              "permanent", "cancelled"}
        /\ p.charges \subseteq {"known", "unknown"}

VARIABLES
    plan,       \* what is fixed for this decision
    now,        \* the runtime's clock
    cancel,     \* the decision's signal: the caller's, or the withdrawal
    refused,    \* a screening refused the decision
    cancelled,  \* run_requests' flag: a request was left unsupplied
    free,       \* free permits of each target's backend
    others,     \* permits other decisions hold of it
    stopped,    \* the spend gate's first refusal, kept for the decision
    pc,         \* where each request is
    target,     \* the target it is at
    tries,      \* attempts made at that target
    until,      \* the time it waits for, or its authorization's last instant
    attempts,   \* attempts recorded
    last,       \* the last of them: its target, end, remote state and charge
    result,     \* how the request ended
    supplied,   \* what the core was given
    ledger,     \* reservations of each request: made, released, settled
    gate        \* tickets of each request: issued, released, settled

flags == <<refused, cancelled, stopped>>
books == <<ledger, gate>>
place == <<pc, target, tries, until>>
world == <<plan, now, cancel, others>>
vars == <<world, flags, free, place, attempts, last, result, supplied, books>>

-----------------------------------------------------------------------------

Requests == plan.requests        \* the requests the core lists
Screens == plan.screens          \* those whose outcome may refuse the decision
MaxParallel == plan.maxParallel  \* max_parallel_requests
LastTarget == plan.lastTarget    \* the targets of a step are 1..LastTarget
Permits == plan.permits          \* the concurrency of each target's backend
Contended == plan.contended      \* the targets whose backends other decisions use
MaxTries == plan.maxTries        \* retry.max_attempts
RetryOn == plan.retryOn          \* retry.on
FallbackOn == plan.fallbackOn    \* fallback_on
Delay == plan.delay              \* the delay before a retry
Timeout == plan.timeout          \* the attempt timeout
Deadline == plan.deadline        \* the decision's deadline
Live == plan.live                \* a live re-execution, with an authorizer?
HasGate == plan.hasGate          \* with a spend gate?
ValidFor == plan.validFor        \* how long an authorization may be valid
Results == plan.results          \* what an adapter may report
Charges == plan.charges          \* and for what charge

Target == 1..LastTarget

Retryable == {"transient", "overloaded", "timed_out"}

\* What an adapter reports.
Reports == [result : Results,
            ack : {"stopped", "unconfirmed", "not_requested"},
            remote : {"finished", "continuing"},
            charge : Charges]

NoBook == [made |-> 0, released |-> 0, settled |-> 0]

Init ==
    /\ plan \in Plans
    /\ now = 0 /\ cancel = FALSE
    /\ refused = FALSE /\ cancelled = FALSE /\ stopped = FALSE
    /\ free = [t \in Target |-> Permits]
    /\ others = [t \in Target |-> 0]
    /\ pc = [r \in Requests |-> "waiting"]
    /\ target = [r \in Requests |-> 1]
    /\ tries = [r \in Requests |-> 0]
    /\ until = [r \in Requests |-> 0]
    /\ attempts = [r \in Requests |-> 0]
    /\ last = [r \in Requests |-> None]
    /\ result = [r \in Requests |-> None]
    /\ supplied = [r \in Requests |-> None]
    /\ ledger = [r \in Requests |-> NoBook]
    /\ gate = [r \in Requests |-> NoBook]

InForeignCode == {r \in Requests : pc[r] \in {"disclose", "authorize", "gate"}}

\* One task polls the requests.
Turn(r) == InForeignCode \subseteq {r}

Active == {r \in Requests : pc[r] \notin {"waiting", "supplied", "dropped"}}

Count(book, r, which) == [book EXCEPT ![r][which] = @ + 1]

Took(r) == free' = [free EXCEPT ![target[r]] = @ - 1]

Gave(r) == free' = [free EXCEPT ![target[r]] = @ + 1]

\* Builder::stop and Builder::cancelled: the request's outcome is ready.
Goes(r, to) == pc' = [pc EXCEPT ![r] = to]

Ends(r, how) ==
    /\ Goes(r, "ended")
    /\ result' = [result EXCEPT ![r] = how]
    /\ until' = [until EXCEPT ![r] = 0]
    /\ UNCHANGED <<target, tries>>

LateFirst_late_only == IF now >= Deadline THEN "deadline" ELSE None

\* The two checks every early return makes, in the code's two orders.
LateFirst == IF now >= Deadline THEN "deadline" ELSE IF cancel THEN "cancelled" ELSE None

CancelFirst == IF cancel THEN "cancelled" ELSE IF now >= Deadline THEN "deadline" ELSE None

-----------------------------------------------------------------------------
(* To the point of dispatch.                                               *)

\* run_requests: a waiting request takes one of the parallel places.
Start(r) ==
    /\ Turn(r)
    /\ pc[r] = "waiting"
    /\ ~refused
    /\ Cardinality(Active) < MaxParallel
    /\ Goes(r, "top")
    /\ UNCHANGED <<world, flags, free, target, tries, until, attempts, last, result,
                   supplied, books>>

\* drive: no dispatch after a cancellation or at the deadline.
Top(r) ==
    /\ Turn(r)
    /\ pc[r] = "top"
    /\ IF CancelFirst # None
       THEN Ends(r, CancelFirst)
       ELSE Goes(r, "acquire") /\ UNCHANGED <<target, tries, until, result>>
    /\ UNCHANGED <<world, flags, free, attempts, last, supplied, books>>

\* LiveCtx::spend_refusal.
SpendRefusal == stopped

\* drive: the backend's permit, then the checks, and a live decision whose gate
\* refused once dispatches nothing more.
Acquired(r) ==
    /\ Turn(r)
    /\ pc[r] = "acquire"
    /\ free[target[r]] > 0
    /\ IF LateFirst # None
       THEN Ends(r, LateFirst) /\ UNCHANGED free
       ELSE IF SpendRefusal THEN Ends(r, "unavailable") /\ UNCHANGED free
       ELSE Goes(r, "disclose") /\ Took(r) /\ UNCHANGED <<target, tries, until, result>>
    /\ UNCHANGED <<world, flags, attempts, last, supplied, books>>

NotAcquired_cancelled(r) ==
    /\ Turn(r)
    /\ pc[r] = "acquire"
    /\ free[target[r]] = 0
    /\ cancel
    /\ Ends(r, CancelFirst)
    /\ UNCHANGED <<world, flags, free, attempts, last, supplied, books>>

\* drive: no permit in time.
NotAcquired(r) ==
    /\ Turn(r)
    /\ pc[r] = "acquire"
    /\ free[target[r]] = 0
    /\ CancelFirst # None
    /\ Ends(r, CancelFirst)
    /\ UNCHANGED <<world, flags, free, attempts, last, supplied, books>>

\* drive: is there a next target for this failure?
CanFallBack(r, class) == class \in FallbackOn /\ target[r] < LastTarget

FallsBack(r) ==
    /\ Goes(r, "top")
    /\ target' = [target EXCEPT ![r] = @ + 1]
    /\ tries' = [tries EXCEPT ![r] = 0]
    /\ until' = [until EXCEPT ![r] = 0]
    /\ UNCHANGED result

\* drive: the disclosure panicked.
DisclosurePanics(r) ==
    /\ pc[r] = "disclose"
    /\ IF CanFallBack(r, "adapter_fault") THEN FallsBack(r) ELSE Ends(r, "adapter_fault")
    /\ Gave(r)
    /\ UNCHANGED <<world, flags, attempts, last, supplied, books>>

\* drive: a ledger refuses the reservation.
ReserveRefused(r) ==
    /\ pc[r] = "disclose"
    /\ Ends(r, "exhausted")
    /\ Gave(r)
    /\ UNCHANGED <<world, flags, attempts, last, supplied, books>>

\* Dispatch at target t: the attempt waits no longer than this.
Limit == IF now + Timeout < Deadline THEN now + Timeout ELSE Deadline

\* Nothing was sent: the reservation and the permit go back.
Undone(r, how) ==
    /\ Ends(r, how)
    /\ ledger' = Count(ledger, r, "released")
    /\ Gave(r)

\* attempt: the call is made.
Dispatches(r) ==
    /\ Goes(r, "running")
    /\ until' = [until EXCEPT ![r] = Limit]
    /\ UNCHANGED <<target, result, free>>

\* drive: the disclosure answered and the ledgers granted it.
Reserves(r) ==
    /\ pc[r] = "disclose"
    /\ IF LateFirst # None
       THEN /\ Ends(r, LateFirst)
            /\ ledger' = Count(Count(ledger, r, "made"), r, "released")
            /\ Gave(r)
       ELSE /\ tries' = [tries EXCEPT ![r] = @ + 1]
            /\ ledger' = Count(ledger, r, "made")
            /\ IF Live
               THEN /\ Goes(r, "authorize")
                    /\ until' = [until EXCEPT ![r] = now]
                    /\ UNCHANGED <<target, result, free>>
               ELSE Dispatches(r)
    /\ UNCHANGED <<world, flags, attempts, last, supplied, gate>>

\* LiveCtx::authorize: anything but an allow for this request still valid now.
Unauthorized(r) ==
    /\ pc[r] = "authorize"
    /\ Undone(r, "unavailable")
    /\ UNCHANGED <<world, flags, attempts, last, supplied, gate>>

\* LiveCtx::authorize: allowed, valid from when it was asked.
Authorized(r, valid) ==
    /\ pc[r] = "authorize"
    /\ now < until[r] + valid
    /\ IF LateFirst # None
       THEN Undone(r, LateFirst)
       ELSE /\ IF HasGate
               THEN /\ Goes(r, "gate")
                    /\ until' = [until EXCEPT ![r] = @ + valid]
                    /\ UNCHANGED <<target, result, free>>
               ELSE Dispatches(r)
            /\ UNCHANGED <<tries, ledger>>
    /\ UNCHANGED <<world, flags, attempts, last, supplied, gate>>

\* LiveCtx::reserve_spend: the gate refuses, and so the decision's later attempts.
GateRefuses(r) ==
    /\ pc[r] = "gate"
    /\ stopped' = TRUE
    /\ Undone(r, "unavailable")
    /\ UNCHANGED <<world, refused, cancelled, attempts, last, supplied, gate>>

\* HeldSpend::release: nothing was sent, so the ticket goes back as well.
TicketBack(r) == Count(Count(gate, r, "made"), r, "released")

\* drive: the authorization ran out while the gate reserved.
Expired(r) == now >= until[r]

\* LiveCtx::reserve_spend and drive: a ticket, then the last checks.
GateReserves(r) ==
    LET why == IF LateFirst # None THEN LateFirst
               ELSE IF Expired(r) THEN "unavailable" ELSE None
    IN  /\ pc[r] = "gate"
        /\ ~stopped
        /\ IF why # None
           THEN /\ gate' = TicketBack(r)
                /\ Undone(r, why)
           ELSE /\ gate' = Count(gate, r, "made")
                /\ Dispatches(r)
                /\ UNCHANGED <<tries, ledger>>
        /\ UNCHANGED <<world, flags, attempts, last, supplied>>

-----------------------------------------------------------------------------
(* The attempt and what follows it.                                        *)

\* answered: what an adapter's answer to a raised signal establishes.
Answered(ack, charge) ==
    IF ack = "stopped" THEN [remote |-> "stopped", charge |-> charge]
    ELSE IF ack = "unconfirmed" THEN [remote |-> "continuing", charge |-> "unknown"]
    ELSE [remote |-> "finished", charge |-> charge]

Lost == [remote |-> "continuing", charge |-> "unknown"]

\* adapter_ended and judge_end: a malformed output fails validation, unless a
\* refusal already decided the request; so does an unasked cancellation.
Judged(res) ==
    CASE res = "malformed" -> IF refused THEN "output" ELSE "invalid_output"
      [] res = "cancelled" -> "adapter_fault"
      [] OTHER -> res

\* drive: is the failure retried at this target, within the deadline?
MayRetry(r, end) ==
    end \in Retryable \cap RetryOn /\ tries[r] < MaxTries /\ now + Delay < Deadline

\* judge_end, then drive: supply the output, stop, retry or fall back.
Proceeds(r, end) ==
    IF end \in {"output", "cancelled", "deadline"} THEN Ends(r, end)
    ELSE IF MayRetry(r, end)
    THEN /\ Goes(r, IF Delay > 0 THEN "pause" ELSE "top")
         /\ until' = [until EXCEPT ![r] = now + Delay]
         /\ UNCHANGED <<target, tries, result>>
    ELSE IF CanFallBack(r, end) THEN FallsBack(r)
    ELSE Ends(r, end)

\* drive: the attempt ended; its permit returns, the ledgers and the gate settle
\* its charge, it is recorded and judged.
Concludes(r, end, was) ==
    /\ Gave(r)
    /\ ledger' = Count(ledger, r, "settled")
    /\ gate' = IF HasGate THEN Count(gate, r, "settled") ELSE gate
    /\ attempts' = [attempts EXCEPT ![r] = @ + 1]
    /\ last' = [last EXCEPT ![r] = [target |-> target[r], end |-> end,
                                   remote |-> was.remote, charge |-> was.charge]]
    /\ Proceeds(r, end)
    /\ UNCHANGED <<world, flags, supplied>>

\* await_attempt: the adapter's own report, even as the signal is raised or the
\* time is up: a ready result wins.
Completes(r, rep) ==
    /\ Turn(r)
    /\ pc[r] = "running"
    /\ IF cancel /\ rep.result = "cancelled"
       THEN Concludes(r, "cancelled", Answered(rep.ack, rep.charge))
       ELSE Concludes(r, Judged(rep.result),
                      IF rep.remote = "continuing" /\ ~cancel THEN Lost
                      ELSE [remote |-> "finished", charge |-> rep.charge])

\* attempt, await_attempt: a panic while making or polling the call.
Panics(r) ==
    /\ Turn(r)
    /\ pc[r] = "running"
    /\ Concludes(r, "adapter_fault", Lost)

Why_no_timeout == IF cancel THEN "cancelled" ELSE "deadline"

\* await_attempt: cancelled, at the deadline or at the attempt's own limit.
Why == IF cancel THEN "cancelled" ELSE IF now >= Deadline THEN "deadline" ELSE "timed_out"

Interrupted(r) == Turn(r) /\ pc[r] = "running" /\ (cancel \/ now >= until[r])

\* await_attempt: the raised signal is answered at the one further poll; the
\* output is discarded, unless a refusal withdrew the request.
AnswersSignal(r, rep) ==
    /\ Interrupted(r)
    /\ Concludes(r, IF refused /\ rep.result \in {"output", "malformed"} THEN "output" ELSE Why,
                 Answered(rep.ack, rep.charge))

\* await_attempt: no answer at that poll, or a panic.
IgnoresSignal(r) ==
    /\ Interrupted(r)
    /\ Concludes(r, Why, Lost)

\* pause: the retry's delay, the timer first.
Resumes(r) ==
    /\ Turn(r)
    /\ pc[r] = "pause"
    /\ now >= until[r] \/ cancel
    /\ IF now >= until[r]
       THEN /\ Goes(r, "top")
            /\ until' = [until EXCEPT ![r] = 0]
            /\ UNCHANGED <<target, tries, result>>
       ELSE Ends(r, "cancelled")
    /\ UNCHANGED <<world, flags, free, attempts, last, supplied, books>>

-----------------------------------------------------------------------------
(* The decision.                                                           *)

\* run_requests: an outcome after a refusal is discarded.
Supply(r) == result[r] # "cancelled" /\ ~refused

\* run_requests: an outcome without a supply cancels the decision, unless a
\* refusal withdrew the request.
LeftOut(r) == ~refused

\* run_requests: the outcome goes to the core, whose screening may refuse the
\* decision and withdraw its other requests.
Supplies(r) ==
    /\ Turn(r)
    /\ pc[r] = "ended"
    /\ Goes(r, "supplied")
    /\ IF Supply(r)
       THEN /\ supplied' = [supplied EXCEPT ![r] = result[r]]
            /\ refused' \in BOOLEAN /\ (refused' => r \in Screens)
            /\ cancel' = (cancel \/ refused')
            /\ UNCHANGED <<cancelled, result>>
       ELSE /\ cancelled' = (cancelled \/ LeftOut(r))
            /\ result' = [result EXCEPT ![r] =
                            IF ~refused THEN @
                            ELSE IF attempts[r] = 0 THEN "withdrawn" ELSE "cancelled"]
            /\ UNCHANGED <<supplied, refused, cancel>>
    /\ UNCHANGED <<plan, now, others, free, stopped, target, tries, until, attempts, last, books>>

\* run_requests: after a refusal what still waits is withdrawn unsent.
Withdraws(r) ==
    /\ Turn(r)
    /\ pc[r] = "waiting"
    /\ refused
    /\ Goes(r, "supplied")
    /\ result' = [result EXCEPT ![r] = "withdrawn"]
    /\ UNCHANGED <<world, flags, free, target, tries, until, attempts, last, supplied, books>>

Running == {r \in Requests : pc[r] = "running"}

Drops_forgets(r) == ledger[r]

\* Held::drop: a dispatched attempt's reservation becomes a liability.
Drops(r) ==
    IF pc[r] = "running" THEN [ledger[r] EXCEPT !.settled = @ + 1] ELSE ledger[r]

\* The caller drops the decision's future at an await.
Drop ==
    /\ InForeignCode = {}
    /\ \E r \in Requests : pc[r] # "supplied"
    /\ \A r \in Requests : pc[r] # "dropped"
    /\ pc' = [r \in Requests |-> "dropped"]
    /\ until' = [r \in Requests |-> 0]
    /\ free' = [t \in Target |-> free[t] + Cardinality({r \in Running : target[r] = t})]
    /\ ledger' = [r \in Requests |-> Drops(r)]
    /\ gate' = [r \in Requests |-> IF HasGate /\ r \in Running
                                   THEN [gate[r] EXCEPT !.settled = @ + 1] ELSE gate[r]]
    /\ UNCHANGED <<world, flags, target, tries, attempts, last, result, supplied>>

Over == \A r \in Requests : pc[r] \in {"supplied", "dropped"}

Cancel ==
    /\ ~cancel /\ ~Over
    /\ cancel' = TRUE
    /\ UNCHANGED <<plan, now, others, flags, free, place, attempts, last, result, supplied, books>>

\* The clock stops at the deadline: nothing tells later times apart.
Tick ==
    /\ ~Over
    /\ now < Deadline
    /\ now' = now + 1
    /\ UNCHANGED <<plan, cancel, others, flags, free, place, attempts, last, result, supplied, books>>

\* External: another decision takes or returns a permit of a backend.
Elsewhere ==
    /\ ~Over
    /\ \E t \in Contended :
         \/ /\ free[t] > 0
            /\ free' = [free EXCEPT ![t] = @ - 1]
            /\ others' = [others EXCEPT ![t] = @ + 1]
         \/ /\ others[t] > 0
            /\ free' = [free EXCEPT ![t] = @ + 1]
            /\ others' = [others EXCEPT ![t] = @ - 1]
    /\ UNCHANGED <<plan, now, cancel, flags, place, attempts, last, result, supplied, books>>

Prepares(r) == Start(r) \/ Top(r) \/ Acquired(r) \/ NotAcquired(r)

Foreign(r) ==
    \/ DisclosurePanics(r) \/ ReserveRefused(r) \/ Reserves(r)
    \/ Unauthorized(r) \/ \E v \in ValidFor : Authorized(r, v)
    \/ GateRefuses(r) \/ GateReserves(r)

Attempt(r) ==
    \/ \E rep \in Reports : Completes(r, rep) \/ AnswersSignal(r, rep)
    \/ Panics(r) \/ IgnoresSignal(r)

Step(r) ==
    Prepares(r) \/ Foreign(r) \/ Attempt(r) \/ Resumes(r) \/ Supplies(r) \/ Withdraws(r)

Next == (\E r \in Requests : Step(r)) \/ Drop \/ Cancel \/ Tick \/ Elsewhere

Spec == Init /\ [][Next]_vars

AnyRequest == UNION {p.requests : p \in Plans}

\* The clock advances; foreign calls return; a task woken by its timer or signal
\* is polled.  Nothing makes an adapter answer, or another decision return a
\* permit.
Fairness ==
    /\ WF_vars(Tick)
    /\ \A r \in AnyRequest :
         /\ WF_vars(r \in Requests /\ (Prepares(r) \/ Resumes(r) \/ Supplies(r) \/ Withdraws(r)))
         /\ WF_vars(r \in Requests /\ Foreign(r))
         /\ WF_vars(r \in Requests /\ IgnoresSignal(r))

FairSpec == Spec /\ Fairness

-----------------------------------------------------------------------------
(* Properties.                                                             *)

Book == [made : Nat, released : Nat, settled : Nat]

\* Type correctness of the driver's state.
TypeOK ==
    /\ plan \in Plans /\ now \in 0..Deadline
    /\ {cancel, refused, cancelled, stopped} \subseteq BOOLEAN
    /\ free \in [Target -> Nat] /\ others \in [Target -> Nat]
    /\ pc \in [Requests -> {"waiting", "top", "acquire", "disclose", "authorize", "gate",
                            "running", "pause", "ended", "supplied", "dropped"}]
    /\ target \in [Requests -> Target]
    /\ tries \in [Requests -> 0..MaxTries]
    /\ until \in [Requests -> Nat]
    /\ attempts \in [Requests -> Nat]
    /\ ledger \in [Requests -> Book] /\ gate \in [Requests -> Book]

Holders(t) ==
    {r \in Requests : target[r] = t /\ pc[r] \in {"disclose", "authorize", "gate", "running"}}

\* A backend's permits are the free ones, those of other decisions and one for
\* each request between its acquisition and its attempt's end: no early return,
\* fallback, panic or drop leaks or doubles one.
PermitsExact ==
    \A t \in Target : free[t] + others[t] + Cardinality(Holders(t)) = Permits

Outstanding(book, r) == book[r].made - (book[r].released + book[r].settled)

\* Every reservation is released or settled exactly once, by the time the request
\* has ended or its future was dropped, and one is outstanding just while an
\* attempt is being authorized, gated or run.
ReservationsClosed ==
    \A r \in Requests :
        Outstanding(ledger, r) = IF pc[r] \in {"authorize", "gate", "running"} THEN 1 ELSE 0

\* The spend gate and the ledger agree: a ticket is settled exactly when the
\* attempt's reservation is, and released only with it (nothing was sent).
GateAgrees ==
    HasGate => \A r \in Requests :
        /\ Outstanding(gate, r) = IF pc[r] = "running" THEN 1 ELSE 0
        /\ gate[r].settled = ledger[r].settled
        /\ gate[r].released <= ledger[r].released

\* What may still run remotely is never refunded: an attempt recorded as possibly
\* continuing has an unknown charge, and each attempt sent was settled.
NeverRefunded ==
    \A r \in Requests :
        /\ last[r] # None /\ last[r].remote = "continuing" => last[r].charge = "unknown"
        /\ pc[r] # "dropped" => ledger[r].settled = attempts[r]

\* What a request holds is what its place says, in all three books: permits,
\* cost reservations and spend tickets; and nothing that was sent is refunded
\* (drive, Held, HeldSpend).
BooksExact ==
    TypeOK /\ PermitsExact /\ ReservationsClosed /\ GateAgrees /\ NeverRefunded

\* A request ends as its attempts did: with an output only if its last attempt
\* gave one, past the deadline only once it passed, and with a failure that could
\* still be handed to another target never.
EndsAsAttempted ==
    \A r \in Requests :
        /\ result[r] = "output" => last[r] # None /\ last[r].end = "output"
        /\ result[r] = "deadline" => now >= Deadline
        /\ result[r] = "cancelled" => cancel
        /\ result[r] \in FallbackOn => target[r] = LastTarget

\* The attempts of a request stay within its policy: the targets times the tries.
AttemptsBounded ==
    \A r \in Requests : attempts[r] <= LastTarget * MaxTries

\* The core sees a complete decision or a cancelled one: when no request is left,
\* each was supplied unless a screening refused or the decision is cancelled, and
\* what was withdrawn unsent has no attempt.
AllAnswered ==
    /\ (\A r \in Requests : pc[r] = "supplied") /\ ~cancelled
          => refused \/ \A r \in Requests : supplied[r] # None
    /\ \A r \in Requests : result[r] = "withdrawn" => attempts[r] = 0

\* Retries and fallbacks follow the step's policy, up to its limits and the last
\* target, and no further; and the core learns of every end (drive, judge_end,
\* run_requests).
WithinPolicy == EndsAsAttempted /\ AttemptsBounded /\ AllAnswered

\* An attempt sent late: past the deadline, after a cancellation it could see or,
\* under a spend gate, once its authorization has expired.
SentLate ==
    \E r \in Requests : /\ pc[r] # "running" /\ pc'[r] = "running"
                        /\ \/ now >= Deadline
                           \/ cancel
                           \/ pc[r] = "gate" /\ now >= until[r]

\* A reservation or a ticket given after the spend gate's first refusal.
SpendsStopped ==
    \E r \in Requests : /\ stopped
                        /\ \/ ledger'[r].made # ledger[r].made
                           \/ gate'[r].made # gate[r].made

\* Whatever foreign code did between the checks: nothing is sent late, and the
\* first refusal of the spend gate stops the decision's spending (drive).
NothingTooLate == [][~SentLate /\ ~SpendsStopped]_vars

\* Every request ends, though no adapter answers and no other decision returns a
\* permit.
EveryRequestEnds ==
    \A r \in AnyRequest : <>(r \in Requests => pc[r] \in {"supplied", "dropped"})
=============================================================================
