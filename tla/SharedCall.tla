----------------------------- MODULE SharedCall -----------------------------
(***************************************************************************)
(* Concurrent duplicate suppression in the runtime: the slot a shared      *)
(* external attempt lives in (crates/rustev-runtime/src/shared.rs) and     *)
(* the request that waits on it (share and Guard in driver.rs).            *)
(*                                                                         *)
(* A process is one request that reaches share(): it enters the registry   *)
(* once, and then its task polls the slot, leaves it, or is dropped.  A    *)
(* slot is named by the request that led it, so a slot's key and           *)
(* dispatched deadline are its leader's.  Every critical section of the    *)
(* code (one Mutex acquisition) is one action; the poll of the attempt     *)
(* itself, which happens outside the slot's lock, is an action between     *)
(* two critical sections.                                                  *)
(***************************************************************************)
EXTENDS Naturals, FiniteSets

CONSTANTS
    Requests,    \* the requests that share
    Keys,        \* request keys (017 request-level key material)
    Loads,       \* what the requests and their callers may be, as records of:
                 \*   keyOf:      the key of each request
                 \*   deadline:   the deadline of each request
                 \*   refusing:   requests whose plan's admission is `refuse`,
                 \*               not `execute_independent`
                 \*   leavers:    requests whose caller may cancel or whose
                 \*               deadline may pass
                 \*   droppers:   requests whose decision future may be dropped
                 \*   maxWaiters: max_waiters_per_call
    MaxSlots,    \* max_shared_calls
    NoSlot       \* no slot

ASSUME RequestsAssumption == IsFiniteSet(Requests) /\ NoSlot \notin Requests
ASSUME BoundsAssumption == MaxSlots \in Nat
ASSUME LoadsAssumption ==
    \A l \in Loads :
        /\ l.keyOf \in [Requests -> Keys]
        /\ l.deadline \in [Requests -> Nat]
        /\ l.refusing \subseteq Requests
        /\ l.leavers \subseteq Requests
        /\ l.droppers \subseteq Requests
        /\ l.maxWaiters \in Nat

VARIABLES
    load,      \* the load of this behaviour
    registry,  \* RegistryInner.slots: key -> the slot in flight
    attempt,   \* State.attempt.is_some(), per slot
    polling,   \* State.polling
    ended,     \* State.result.is_some()
    waiters,   \* the ids in State.waiters
    wakers,    \* the waiters whose last pending poll left a waker
    ticket,    \* the id of each waiter, which is its join order
    next,      \* State.next
    owner,     \* State.owner, the charge owner
    work,      \* the attempt's future: none, running, ready, done, dropped
    armed,     \* the attempt has seen a Broadcast waker
    signal,    \* Slot.signal has been raised
    slotOf,    \* the slot a request waits on
    pc,        \* where a request's task is
    woken,     \* the task is scheduled to be polled again
    wants,     \* the caller has cancelled or the deadline has passed
    sawOwner,  \* record.final_owner, as share() read it before it left
    settled    \* how the request's own reservation was settled

slotVars == <<attempt, polling, ended, waiters, wakers, ticket, next, owner>>
workVars == <<work, armed, signal>>
taskVars == <<slotOf, pc, woken, wants, sawOwner, settled>>
vars == <<load, registry, slotVars, workVars, taskVars>>

KeyOf == load.keyOf
Deadline == load.deadline
MaxWaiters == load.maxWaiters

Init ==
    /\ load \in Loads
    /\ registry = [k \in Keys |-> NoSlot]
    /\ attempt = [s \in Requests |-> FALSE]
    /\ polling = [s \in Requests |-> FALSE]
    /\ ended = [s \in Requests |-> FALSE]
    /\ waiters = [s \in Requests |-> {}]
    /\ wakers = [s \in Requests |-> {}]
    /\ ticket = [p \in Requests |-> 0]
    /\ next = [s \in Requests |-> 0]
    /\ owner = [s \in Requests |-> s]
    /\ work = [s \in Requests |-> "none"]
    /\ armed = [s \in Requests |-> FALSE]
    /\ signal = [s \in Requests |-> FALSE]
    /\ slotOf = [p \in Requests |-> NoSlot]
    /\ pc = [p \in Requests |-> "enter"]
    /\ woken = [p \in Requests |-> FALSE]
    /\ wants = [p \in Requests |-> FALSE]
    /\ sawOwner = [p \in Requests |-> FALSE]
    /\ settled = [p \in Requests |-> "no"]

-----------------------------------------------------------------------------
(* Helpers on the slot's state.                                            *)

\* The slots registered now: Registry::len.
InRegistry == {k \in Keys : registry[k] # NoSlot}

\* State::join, the id being ticket'[p]: the first waiter owns the charge.
Join(s, p) ==
    /\ ticket' = [ticket EXCEPT ![p] = next[s]]
    /\ next' = [next EXCEPT ![s] = @ + 1]
    /\ owner' = IF waiters[s] = {} THEN [owner EXCEPT ![s] = p] ELSE owner
    /\ waiters' = [waiters EXCEPT ![s] = @ \cup {p}]

\* The earliest of the waiters that remain once p is gone.
Earliest(s, p) ==
    CHOOSE q \in waiters[s] \ {p} :
        \A r \in waiters[s] \ {p} : ticket[q] =< ticket[r]

\* State::remove: in one step, the waiter goes and the charge passes on.
Remove(s, p) ==
    /\ waiters' = [waiters EXCEPT ![s] = @ \ {p}]
    /\ wakers' = [wakers EXCEPT ![s] = @ \ {p}]
    /\ owner' = IF owner[s] = p /\ waiters[s] # {p}
                THEN [owner EXCEPT ![s] = Earliest(s, p)]
                ELSE owner

\* Slot::retire that never happens.
Retire_never(s) == UNCHANGED registry

\* Slot::retire without the Arc::ptr_eq test.
Retire_by_key(s) == registry' = [registry EXCEPT ![KeyOf[s]] = NoSlot]

\* Slot::retire: out of the registry, unless a successor took the place.
Retire(s) ==
    registry' = IF registry[KeyOf[s]] = s
                THEN [registry EXCEPT ![KeyOf[s]] = NoSlot]
                ELSE registry

\* Nobody is woken.
Wake_none(set) == UNCHANGED woken

\* Wake every task in a set: the wakers are collected under the slot's lock.
Wake(set) == woken' = [p \in Requests |-> woken[p] \/ p \in set]

-----------------------------------------------------------------------------
(* Registry::enter, and the ways out of it that share() handles.           *)

\* An attempt a newcomer may join: in the slot, and not completed.
Joinable(s) == s # NoSlot /\ ~ended[s] /\ attempt[s]

\* There is room for a slot: one below max_slots, or one to replace.
HasRoom(k) ==
    MaxWaiters # 0 /\ (Cardinality(InRegistry) < MaxSlots \/ registry[k] # NoSlot)

\* `lead` runs, and the new slot replaces whatever the key held.
EnterLead(p) ==
    /\ pc[p] = "enter"
    /\ ~Joinable(registry[KeyOf[p]])
    /\ HasRoom(KeyOf[p])
    /\ registry' = [registry EXCEPT ![KeyOf[p]] = p]
    /\ attempt' = [attempt EXCEPT ![p] = TRUE]
    /\ work' = [work EXCEPT ![p] = "running"]
    /\ Join(p, p)
    /\ slotOf' = [slotOf EXCEPT ![p] = p]
    /\ pc' = [pc EXCEPT ![p] = "poll"]
    /\ UNCHANGED <<load, polling, ended, wakers, armed, signal,
                   woken, wants, sawOwner, settled>>

\* Join the attempt in flight; the request's own backend permit is dropped.
EnterJoin(p) ==
    LET s == registry[KeyOf[p]] IN
    /\ pc[p] = "enter"
    /\ Joinable(s)
    /\ Deadline[s] >= Deadline[p]
    /\ Cardinality(waiters[s]) < MaxWaiters
    /\ Join(s, p)
    /\ slotOf' = [slotOf EXCEPT ![p] = s]
    /\ pc' = [pc EXCEPT ![p] = "poll"]
    /\ UNCHANGED <<load, registry, attempt, polling, ended, wakers, workVars,
                   woken, wants, sawOwner, settled>>

\* Entered::Full or Ineligible: run alone, or be refused if the plan says so
\* and the deadline was not the only obstacle.
EnterApart(p) ==
    LET s == registry[KeyOf[p]]
        late == Joinable(s) /\ Deadline[s] < Deadline[p]
        crowded == Joinable(s) /\ ~late /\ Cardinality(waiters[s]) >= MaxWaiters
        full == ~Joinable(s) /\ ~HasRoom(KeyOf[p])
    IN
    /\ pc[p] = "enter"
    /\ late \/ crowded \/ full
    /\ settled' = [settled EXCEPT ![p] = IF p \in load.refusing /\ ~late
                                        THEN "zero" ELSE "own"]
    /\ pc' = [pc EXCEPT ![p] = "done"]
    /\ UNCHANGED <<load, registry, slotVars, workVars, slotOf, woken, wants, sawOwner>>

-----------------------------------------------------------------------------
(* Waiter::poll_attempt, called first in every poll of share()'s race.     *)

\* The task runs: it has just entered, or it was woken.
Runs(p) == pc[p] = "poll" \/ (pc[p] = "parked" /\ woken[p])

\* The result is there already.
PollTake(p) ==
    /\ Runs(p)
    /\ ended[slotOf[p]]
    /\ woken' = [woken EXCEPT ![p] = FALSE]
    /\ pc' = [pc EXCEPT ![p] = "took"]
    /\ UNCHANGED <<load, registry, slotVars, workVars, slotOf, wants, sawOwner, settled>>

\* Another waiter is polling: leave a waker and be pending.
PollWait(p) ==
    LET s == slotOf[p] IN
    /\ Runs(p)
    /\ ~ended[s]
    /\ polling[s]
    /\ wakers' = [wakers EXCEPT ![s] = @ \cup {p}]
    /\ woken' = [woken EXCEPT ![p] = FALSE]
    /\ pc' = [pc EXCEPT ![p] = "checks"]
    /\ UNCHANGED <<load, registry, attempt, polling, ended, waiters, ticket, next,
                   owner, workVars, slotOf, wants, sawOwner, settled>>

\* Take the attempt out of the slot, and unlock to poll it.
PollStart(p) ==
    LET s == slotOf[p] IN
    /\ Runs(p)
    /\ ~ended[s]
    /\ ~polling[s]
    /\ attempt' = [attempt EXCEPT ![s] = FALSE]
    /\ polling' = [polling EXCEPT ![s] = TRUE]
    /\ wakers' = [wakers EXCEPT ![s] = @ \cup {p}]
    /\ woken' = [woken EXCEPT ![p] = FALSE]
    /\ pc' = [pc EXCEPT ![p] = "polling"]
    /\ UNCHANGED <<load, registry, ended, waiters, ticket, next, owner, workVars,
                   slotOf, wants, sawOwner, settled>>

\* The attempt is polled, with no lock held: it answers if it can, and
\* otherwise keeps the Broadcast waker.
PollAttempt(p) ==
    LET s == slotOf[p] IN
    /\ pc[p] = "polling"
    /\ armed' = [armed EXCEPT ![s] = TRUE]
    /\ pc' = [pc EXCEPT ![p] = IF work[s] = "ready" THEN "ready" ELSE "pending"]
    /\ UNCHANGED <<load, registry, slotVars, work, signal, slotOf, woken, wants,
                   sawOwner, settled>>

\* It was pending: the attempt goes back into the slot.
PollPending(p) ==
    LET s == slotOf[p] IN
    /\ pc[p] = "pending"
    /\ attempt' = [attempt EXCEPT ![s] = TRUE]
    /\ polling' = [polling EXCEPT ![s] = FALSE]
    /\ pc' = [pc EXCEPT ![p] = "checks"]
    /\ UNCHANGED <<load, registry, ended, waiters, wakers, ticket, next, owner,
                   workVars, slotOf, woken, wants, sawOwner, settled>>

\* It answered: the result is every registered waiter's.
PollReady(p) ==
    LET s == slotOf[p] IN
    /\ pc[p] = "ready"
    /\ ended' = [ended EXCEPT ![s] = TRUE]
    /\ polling' = [polling EXCEPT ![s] = FALSE]
    /\ work' = [work EXCEPT ![s] = "done"]
    /\ pc' = [pc EXCEPT ![p] = "retire"]
    /\ UNCHANGED <<load, registry, attempt, waiters, wakers, ticket, next, owner,
                   armed, signal, slotOf, woken, wants, sawOwner, settled>>

\* The slot leaves the registry, and then every waker collected is woken.  A
\* waiter that registered a waker after the result was set took the result.
PollRetire(p) ==
    /\ pc[p] = "retire"
    /\ Retire(slotOf[p])
    /\ Wake(wakers[slotOf[p]])
    /\ pc' = [pc EXCEPT ![p] = "took"]
    /\ UNCHANGED <<load, slotVars, workVars, slotOf, wants, sawOwner, settled>>

\* The rest of share()'s race: the caller's signal and the deadline's timer.
Checks(p) ==
    /\ pc[p] = "checks"
    /\ pc' = [pc EXCEPT ![p] = IF wants[p] THEN "leave" ELSE "parked"]
    /\ UNCHANGED <<load, registry, slotVars, workVars, slotOf, woken, wants,
                   sawOwner, settled>>

\* Who pays for a completed attempt: the owner it ended with.
Share(s, p) == IF owner[s] = p THEN "charge" ELSE "zero"

\* share() took the result: it settles by the ownership the slot ended with.
Settle(p) ==
    /\ pc[p] = "took"
    /\ settled' = [settled EXCEPT ![p] = Share(slotOf[p], p)]
    /\ pc' = [pc EXCEPT ![p] = "done"]
    /\ UNCHANGED <<load, registry, slotVars, workVars, slotOf, woken, wants, sawOwner>>

-----------------------------------------------------------------------------
(* Leaving: share()'s Err arm and Waiter::leave.                           *)

\* record.final_owner = waiter.is_owner(), under a lock of its own.
ReadOwner(p) ==
    /\ pc[p] = "leave"
    /\ sawOwner' = [sawOwner EXCEPT ![p] = owner[slotOf[p]] = p]
    /\ pc' = [pc EXCEPT ![p] = "leaving"]
    /\ UNCHANGED <<load, registry, slotVars, workVars, slotOf, woken, wants, settled>>

\* Left::Completed: the result wins, with the ownership read before leaving.
LeaveCompleted(p) ==
    LET s == slotOf[p] IN
    /\ pc[p] = "leaving"
    /\ ended[s]
    /\ waiters' = [waiters EXCEPT ![s] = @ \ {p}]
    /\ wakers' = [wakers EXCEPT ![s] = @ \ {p}]
    /\ settled' = [settled EXCEPT ![p] = IF sawOwner[p] THEN "charge" ELSE "zero"]
    /\ pc' = [pc EXCEPT ![p] = "done"]
    /\ UNCHANGED <<load, registry, attempt, polling, ended, ticket, next, owner,
                   workVars, slotOf, woken, wants, sawOwner>>

\* No other waiter is registered.
IsLast(s, p) == waiters[s] = {p}

\* Left::Remained: nothing is raised, nothing is charged.
LeaveRemained(p) ==
    LET s == slotOf[p] IN
    /\ pc[p] = "leaving"
    /\ ~ended[s]
    /\ ~IsLast(s, p)
    /\ Remove(s, p)
    /\ settled' = [settled EXCEPT ![p] = "zero"]
    /\ pc' = [pc EXCEPT ![p] = "done"]
    /\ UNCHANGED <<load, registry, attempt, polling, ended, ticket, next,
                   workVars, slotOf, woken, wants, sawOwner>>

\* The last waiter takes the attempt out of the slot ...
LeaveLast(p) ==
    LET s == slotOf[p] IN
    /\ pc[p] = "leaving"
    /\ ~ended[s]
    /\ IsLast(s, p)
    /\ Remove(s, p)
    /\ attempt' = [attempt EXCEPT ![s] = FALSE]
    /\ pc' = [pc EXCEPT ![p] = "lastRetire"]
    /\ UNCHANGED <<load, registry, polling, ended, ticket, next,
                   workVars, slotOf, woken, wants, sawOwner, settled>>

\* ... retires the slot ...
LeaveRetire(p) ==
    /\ pc[p] = "lastRetire"
    /\ Retire(slotOf[p])
    /\ pc' = [pc EXCEPT ![p] = "lastPoll"]
    /\ UNCHANGED <<load, slotVars, workVars, slotOf, woken, wants, sawOwner, settled>>

\* An attempt that gave no answer is settled as free.
LastCost_free(answers) == IF answers THEN "charge" ELSE "zero"

\* The last waiter's settlement: the reported charge, or Charge::Unknown.
LastCost(answers) == IF answers THEN "charge" ELSE "liability"

\* ... raises the signal and polls once more: the attempt's own answer, or
\* the adapter's answer to the cancellation (Left::Answered), or no answer
\* and a reservation kept as liability (Left::Abandoned).
LastPoll(p) ==
    LET s == slotOf[p] IN
    /\ pc[p] = "lastPoll"
    /\ signal' = [signal EXCEPT ![s] = TRUE]
    /\ \E answers \in IF work[s] = "ready" THEN {TRUE} ELSE BOOLEAN :
         /\ work' = [work EXCEPT ![s] = IF answers THEN "done" ELSE "dropped"]
         /\ settled' = [settled EXCEPT ![p] = LastCost(answers)]
    /\ pc' = [pc EXCEPT ![p] = "done"]
    /\ UNCHANGED <<load, registry, slotVars, armed, slotOf, woken, wants, sawOwner>>

-----------------------------------------------------------------------------
(* Dropping the decision's future: Guard::drop and Waiter::release, which  *)
(* read and remove under one lock.  A future is dropped between polls.     *)

DropCompleted(p) ==
    LET s == slotOf[p] IN
    /\ p \in load.droppers
    /\ pc[p] = "parked"
    /\ ended[s]
    /\ waiters' = [waiters EXCEPT ![s] = @ \ {p}]
    /\ wakers' = [wakers EXCEPT ![s] = @ \ {p}]
    /\ settled' = [settled EXCEPT ![p] = Share(s, p)]
    /\ pc' = [pc EXCEPT ![p] = "done"]
    /\ UNCHANGED <<load, registry, attempt, polling, ended, ticket, next, owner,
                   workVars, slotOf, woken, wants, sawOwner>>

DropRemained(p) ==
    LET s == slotOf[p] IN
    /\ p \in load.droppers
    /\ pc[p] = "parked"
    /\ ~ended[s]
    /\ ~IsLast(s, p)
    /\ Remove(s, p)
    /\ settled' = [settled EXCEPT ![p] = "zero"]
    /\ pc' = [pc EXCEPT ![p] = "done"]
    /\ UNCHANGED <<load, registry, attempt, polling, ended, ticket, next,
                   workVars, slotOf, woken, wants, sawOwner>>

\* The attempt's future is dropped with the last waiter, its signal unraised.
DropLast(p) ==
    LET s == slotOf[p] IN
    /\ p \in load.droppers
    /\ pc[p] = "parked"
    /\ ~ended[s]
    /\ IsLast(s, p)
    /\ Remove(s, p)
    /\ attempt' = [attempt EXCEPT ![s] = FALSE]
    /\ work' = [work EXCEPT ![s] = "dropped"]
    /\ pc' = [pc EXCEPT ![p] = "dropRetire"]
    /\ UNCHANGED <<load, registry, polling, ended, ticket, next, armed, signal,
                   slotOf, woken, wants, sawOwner, settled>>

\* The slot is retired, and dropping the Held reservation makes it liability.
DropRetire(p) ==
    /\ pc[p] = "dropRetire"
    /\ Retire(slotOf[p])
    /\ settled' = [settled EXCEPT ![p] = "liability"]
    /\ pc' = [pc EXCEPT ![p] = "done"]
    /\ UNCHANGED <<load, slotVars, workVars, slotOf, woken, wants, sawOwner>>

-----------------------------------------------------------------------------
(* The environment.                                                        *)

\* The adapter's work is ready: it wakes the Broadcast waker it was given,
\* which wakes every registered waiter that left a waker.
AttemptReady(s) ==
    /\ work[s] = "running"
    /\ armed[s]
    /\ work' = [work EXCEPT ![s] = "ready"]
    /\ Wake(wakers[s])
    /\ UNCHANGED <<load, registry, slotVars, armed, signal, slotOf, pc, wants,
                   sawOwner, settled>>

\* The caller cancels, or the request's deadline passes: both wake its task.
CallerEvent(p) ==
    /\ p \in load.leavers
    /\ pc[p] \notin {"enter", "done"}
    /\ ~wants[p]
    /\ wants' = [wants EXCEPT ![p] = TRUE]
    /\ woken' = [woken EXCEPT ![p] = TRUE]
    /\ UNCHANGED <<load, registry, slotVars, workVars, slotOf, pc, sawOwner, settled>>

-----------------------------------------------------------------------------
Enter(p) == EnterLead(p) \/ EnterJoin(p) \/ EnterApart(p)

Poll(p) ==
    \/ PollTake(p) \/ PollWait(p) \/ PollStart(p) \/ PollAttempt(p)
    \/ PollPending(p) \/ PollReady(p) \/ PollRetire(p) \/ Checks(p)
    \/ Settle(p)

Leave(p) ==
    \/ ReadOwner(p) \/ LeaveCompleted(p) \/ LeaveRemained(p)
    \/ LeaveLast(p) \/ LeaveRetire(p) \/ LastPoll(p)

Drop(p) == DropCompleted(p) \/ DropRemained(p) \/ DropLast(p)

AllDone == \A p \in Requests : pc[p] = "done"

Terminated == AllDone /\ UNCHANGED vars

Next ==
    \/ \E p \in Requests :
         Enter(p) \/ Poll(p) \/ Leave(p) \/ Drop(p) \/ DropRetire(p)
         \/ AttemptReady(p) \/ CallerEvent(p)
    \/ Terminated

Spec == Init /\ [][Next]_vars

\* A caller's executor runs a task that is scheduled, and an adapter answers.
\* Nobody has to cancel, to time out or to drop a future.
Fairness == \A p \in Requests :
    WF_vars(Enter(p) \/ Poll(p) \/ Leave(p) \/ DropRetire(p)) /\ WF_vars(AttemptReady(p))

FairSpec == Spec /\ Fairness

-----------------------------------------------------------------------------
(* Properties.                                                             *)

\* Type correctness of the slots and of the requests that wait on them; a
\* waiter's ticket was given out by its slot (State::join).
TypeOK ==
    /\ load \in Loads
    /\ registry \in [Keys -> Requests \cup {NoSlot}]
    /\ attempt \in [Requests -> BOOLEAN]
    /\ polling \in [Requests -> BOOLEAN]
    /\ ended \in [Requests -> BOOLEAN]
    /\ waiters \in [Requests -> SUBSET Requests]
    /\ wakers \in [Requests -> SUBSET Requests]
    /\ ticket \in [Requests -> Nat]
    /\ next \in [Requests -> Nat]
    /\ owner \in [Requests -> Requests]
    /\ work \in [Requests -> {"none", "running", "ready", "done", "dropped"}]
    /\ armed \in [Requests -> BOOLEAN]
    /\ signal \in [Requests -> BOOLEAN]
    /\ slotOf \in [Requests -> Requests \cup {NoSlot}]
    /\ pc \in [Requests -> {"enter", "poll", "parked", "polling", "pending",
                           "ready", "retire", "checks", "took", "leave",
                           "leaving", "lastRetire", "lastPoll", "dropRetire",
                           "done"}]
    /\ woken \in [Requests -> BOOLEAN]
    /\ wants \in [Requests -> BOOLEAN]
    /\ sawOwner \in [Requests -> BOOLEAN]
    /\ settled \in [Requests -> {"no", "zero", "own", "charge", "liability"}]
    /\ \A s \in Requests : \A p \in waiters[s] : slotOf[p] = s /\ ticket[p] < next[s]

Waiting(s) == {p \in Requests : slotOf[p] = s}

\* The requests that pay for slot s: the charge it reported, or a liability.
Payers(s) == {p \in Waiting(s) : settled[p] \in {"charge", "liability"}}

Over(s) == Waiting(s) # {} /\ \A p \in Waiting(s) : pc[p] = "done"

\* An external attempt is paid for at most once, however its waiters complete,
\* leave, are dropped and hand the charge on (Share, State::remove; 044 3.2.4).
SingleCharge == \A s \in Requests : Cardinality(Payers(s)) =< 1

\* An attempt that was abandoned leaves exactly one liability, on its last
\* waiter (Left::Abandoned, Dropped::Last), so unknown spend is never lost.
AbandonedIsLiability ==
    \A s \in Requests : Over(s) /\ work[s] = "dropped" =>
        \E p \in Waiting(s) : settled[p] = "liability"

\* A completed attempt whose waiters are all gone was paid for, unless the
\* owner it ended with left between its two reads of the slot (is_owner, then
\* leave) and settled by the older one.
UnpaidOnlyByStaleRead ==
    \A s \in Requests : Over(s) /\ work[s] = "done" /\ Payers(s) = {} =>
        wants[owner[s]] /\ ~sawOwner[owner[s]] /\ settled[owner[s]] = "zero"

\* Which id the liability is kept under: the one the adapter was given, unless
\* the request that led the attempt was gone and had settled for nothing before
\* (Held keeps each request's own id).
UnderOwnId ==
    \A p \in Requests : settled[p] = "liability" /\ slotOf[p] # p =>
        settled[slotOf[p]] = "zero"

\* The charge of an external attempt ends on exactly one waiter, or as one
\* liability, but for that one stale read, and under the attempt's id, but for a
\* handoff: the four above together.
PaidOnce == SingleCharge /\ AbandonedIsLiability /\ UnpaidOnlyByStaleRead /\ UnderOwnId

\* The attempt's signal is raised only once nobody waits on it any more
\* (leave; 044 3.2.3 items 1 and 3).
SignalByLast == \A s \in Requests : signal[s] => waiters[s] = {}

\* No slot outlives its use: what the registry holds is in flight, or its last
\* user is about to retire it (Slot::retire).
NoLeak ==
    \A k \in Keys : registry[k] # NoSlot =>
        LET s == registry[k] IN
        \/ ~ended[s] /\ waiters[s] # {}
        \/ \E p \in Waiting(s) : pc[p] \in {"retire", "lastRetire", "dropRetire"}

\* Nobody joins an attempt that has completed or that its last waiter has
\* given up (enter; 044 3.2.1 item 2).
LateJoin ==
    \E s \in Requests :
        (ended[s] \/ (work[s] # "none" /\ waiters[s] = {})) /\ next'[s] # next[s]

\* A slot still in flight leaves the registry only to a successor: a retiring
\* slot never takes a successor's place away (Arc::ptr_eq in retire).
TakesAway ==
    \E k \in Keys : /\ registry[k] # NoSlot /\ registry'[k] = NoSlot
                    /\ ~ended[registry[k]] /\ waiters[registry[k]] # {}

\* What no step of the registry does, in whatever order waiters enter, leave and
\* retire: let a request join an attempt that is over, or retire a slot in use
\* in the place of a successor's (enter, retire).
SlotsApart == [][~LateJoin /\ ~TakesAway]_vars

\* The registry never holds more than max_shared_calls slots (enter).
RegistryBound == Cardinality(InRegistry) =< MaxSlots

\* The life of a slot, in every interleaving of its waiters: its state is well
\* typed, its signal is the last waiter's to raise, it leaves the registry when
\* it is used up, and the registry stays within its bound (enter, leave, retire).
SlotSound == TypeOK /\ SignalByLast /\ NoLeak /\ RegistryBound

Quiet == load.leavers = {} /\ load.droppers = {}

\* With no departures, every request that enters gets an answer: the wakes of
\* the attempt and of its completion reach a waiter that will poll
\* (poll_attempt, Broadcast).
Answered == \A p \in Requests : (pc[p] = "poll" /\ Quiet) ~> pc[p] = "done"

(* What the documentation says, and the code does not do. *)

\* "the waker given to the attempt wakes every waiter still registered, so the
\* departure of any waiter never strands it" (shared.rs:6-7): an attempt that
\* is ready has a waiter that is scheduled or running.
NeverStranded ==
    \A s \in Requests : work[s] = "ready" /\ waiters[s] # {} =>
        \E p \in waiters[s] : pc[p] # "parked" \/ woken[p]

\* "the waiter that owns the attempt when it ends settles the whole observed
\* charge against its reservation" (044 3.2.4 item 1).
OwnerPays ==
    \A s \in Requests : Over(s) /\ work[s] = "done" => Payers(s) # {}
====
