# TLA+ models of rustev

rustev compiles decision plans and runs them: a runtime admits decisions,
drives the semantic requests of each over backends that cost money and may
never answer, reuses results, accounts for every unit spent and hands a run
record to the host's evidence sink. This directory holds TLA+ models of the
parts of it that run concurrently or have to survive a crash, the TLC instances
that check them, and TLAPS proofs of the central results for every instance.

Paths below are relative to the repository; `rt/` abbreviates
`crates/rustev-runtime/src/`, `live/` `crates/rustev-live/src/`, and `serve/`
`integrations/rustev-serve/src/`.

## 1. The system

| Component | State | Operations | Hard behaviour |
| --- | --- | --- | --- |
| Shared calls (`rt/shared.rs`, `share` and `Guard` of `rt/driver.rs`) | a registry of slots; per slot the attempt's future, its result, waiters with wakers, the charge's owner | enter, poll, leave, drop, retire | several tasks poll one future; each operation is several critical sections; wakes, departures and successors race |
| Cost ledgers (`rt/ledger.rs`; `reserve`, `release`, `hold`, `Held` of `rt/driver.rs`) | reserved, observed, estimated, liability, open entries per ledger | reserve, release, settle, reconcile | an attempt reserves on up to three ledgers one by one; refusal half way; unknown charges reconciled later |
| Evidence sink (`rt/sink.rs`, `deliver` of `rt/lib.rs`) | bounded queue, worker, counters, tickets | deliver under three policies, worker loop | sinks that time out, panic or never answer; a stopping worker; dropped callers |
| Admission (`admit`, `run` of `rt/lib.rs`) | semaphore, queue count, live ids, counters | submit, wait, run, return, drop | grants that race deadlines and cancellations; drops at every await |
| Request driver (`rt/driver.rs`, `rt/wait.rs`) | per request: target, tries, permit, reservation; the decision's cancellation | start, acquire, disclose, authorize, gate, dispatch, retry, fall back, supply, withdraw | foreign code between checks; panics; timeouts; late answers; screening refusals |
| Live re-execution (`rt/live.rs`, `rt/spend.rs`) | the gate's tickets, first refusal | authorize, reserve_spend, settle, release | two books that must agree; expiring authorizations |
| Memory tier (`rt/optimization.rs`) | entries, two kinds of queues with stale slots, byte counts, generation | lookup, insert, evict, remove, invalidate | lazily deleted slots; digest collisions; saturating counts |
| Invalidation and persistent tier (`rt/lib.rs`, `rt/store.rs`, `rt/driver.rs`) | generations, marks, the store | invalidate, read, admit, write | a host's invalidation races reads, admissions and a slow or failing store |
| Cancellation signal (`crates/rustev-core/src/seams.rs`) | flag, mutex, wakers, weak children | raise, child, poll_raised | lock-free reads around a mutex |
| Micro-batching (`schedule_batches`, `drive_batch`, `conclude_batch` of `rt/driver.rs`) | per batch: candidates, admitted members and their reservations, the permit | cut a wave into batches, admit, dispatch, conclude | one charge for many members; members refused, missing or answered twice; early returns that owe several reservations |
| Spend journal (`live/journal.rs`) | a file of lines, the book replayed from it, a lock file | open, reserve, settle, release, reconcile, migrate | kills and power losses between write and sync, torn lines, failed appends, an interrupted rename |
| Live test runs (`live/run.rs`, `live/probe.rs`, `live/gate.rs`, `live/documents.rs`) | a checkpoint, case files, a report, all on disk; the run's states in memory | prepare, resume, probe, dispatch, save, report | which of the files a later process finds, and what it sends again |
| Server (`serve/service.rs`) | the window of retained decisions, a task for each, settlement tasks, the shutdown | decide, look up, cancel, settle, prune, shut down | replies, settlements, expiry and shutdown race for one entry; dropped transports; panics |
| Acquisition (`rt/acquisition.rs`, listed by the core's `acquisition_eval.rs`, `widening_eval.rs`) | per acquire step: the pending page, its window, the attempt; the queue, the calls counted, the source's permits | list, expire, admit, acquire, disclose, reserve, ask the gate, call, retry, supply | one window for all pages, tiers and retries; queued pages that expire; a gate that refuses between reservation and call; late or missing answers |
| Decision-result cache, generation (`rt/optimization.rs`, `rt/generation.rs`) | entries and replays; stream position | - | not modelled (section 6) |
| Core (`crates/rustev-core`), contract, surface, eval, cli | none between calls | pure functions over documents | out of scope but for the two seams above |
| Backends, remote HTTP, telemetry, bindings (`backends/`, `integrations/`) | the adapter's own | - | external parties of the models |

How they meet. `Runtime::run` takes a decision through admission, hands its
requests to `run_requests`, and delivers the record while it still holds its
admission permit. A request looks its key up in the memory tier, then in the
store, and otherwise goes to `drive`, which takes a backend permit, reserves on
the ledgers and dispatches an attempt, alone or by entering the shared-call
registry; requests of one wave whose backend declares them compatible go
through `drive_batch` together. The end of the attempt settles the reservation, and the output is
admitted to the tiers if the generation captured at the lookup still stands. A
`CancelSignal` runs through all of it: the caller's signal, a child for the
decision, one for each attempt. A live test run is a host of the runtime: its
spend gate journals each reservation before the request is sent. The server is
another: it runs each decision in a task of its own and retains the reply for
resubmissions.

What makes each part correct is stated by the properties in section 4. The
list of hazards these are for, each at its line, is in `PROJECT.json`.

## 2. Modules

| Module | Models | Proofs |
| --- | --- | --- |
| `SharedCall` | shared calls | `SharedCallProofs` |
| `Ledger` | cost ledgers | `GuardedProofs` |
| `EvidenceSink` | evidence delivery | |
| `Decide` (extends `EvidenceSink`) | admission and the life of a decision, composed with delivery | `DecideProofs` |
| `Invalidation` | both cache tiers, invalidation, admission of results, shared attempts | `InvalidationProofs` |
| `MemoryCache` | the memory tier of one namespace | `GuardedProofs` |
| `Drive` | the requests of one decision | `DriveProofs` |
| `Batch` | micro-batches within the requests of one decision | extends `Acquire` |
| `Acquire` | the pages one decision acquires, their queue and attempts | |
| `CancelSignal` | the cancellation signal | `GuardedProofs` |
| `Spend` | a reservation's states and what a book counts: constants and operators | |
| `SpendBook` | abstract: a book of reservations that outlives its processes | |
| `Journal` (extends `Spend`, implements `SpendBook`) | the spend journal and its file | `JournalProofs` |
| `LiveRun` (extends `SpendBook`) | a live run, its files and its recovery | `LiveRunProofs` |
| `Serve` | the server's decisions | `ServeProofs` |

`MC<Module>` gives a module's instances; the `.cfg` files choose the rest. What
a behaviour's environment fixes once (the plan of `Drive`, the load of
`SharedCall` and of `Batch`, the host of `Invalidation`, the traffic of
`Decide`, the kind of budget of `Journal`) is a variable that `Init` chooses from a constant set and no
step changes, so that one run covers several such environments. Definitions whose name has a suffix
(`Retire_by_key`, `LateGrant_kept`, ...) stand just above the definition they
vary: each is a plausible bug in it, and replacing the definition by it breaks
the property it is listed with in `PROJECT.json`.

### How state and actions correspond to the code

**Grain.** In the modules about multi-threaded state (`SharedCall`, `Ledger`,
`EvidenceSink`, `Decide`, `CancelSignal`, the memory part of `Invalidation`)
one action is one critical section or one atomic operation, with everything
else free to happen in between. In `Drive` the requests of a decision are
polled on one task, so an action runs from one await or call of foreign code to
the next; while foreign code runs only the clock and the caller move.
`Batch` has the same grain as `Drive`, `Serve` one action per section under its
lock or use of a `Notify`. In `Journal` and `LiveRun` one action is one
operation on a file, so that a crash falls between any two.
`MemoryCache` splits an operation that holds the lock into the iterations of
its loops, and excludes everything else while `op` is set.

**SharedCall.** A process is a request in `share`. A slot is named by the
request that led it. `EnterLead`, `EnterJoin` and `EnterApart` are
`Registry::enter` and what `share` does with a refusal; `PollTake`, `PollWait`,
`PollStart`, `PollAttempt`, `PollPending`, `PollReady`, `PollRetire` are
`poll_attempt` cut at its lock acquisitions, the poll of the attempt being
outside the lock; `Checks`, `ReadOwner` and the `Leave*` actions are the race
and the departure; the `Drop*` actions are `Guard::drop`. The adapter's future
(`AttemptReady`) and the caller's cancellation or timer (`CallerEvent`) are
external: the future becomes ready at any time after it was first polled and
wakes through the `Broadcast` waker it last saw.

**Ledger.** A process is one attempt. Each ledger operation is one action on
one ledger; the order in which the ledgers are visited is that of
`DecisionCtx::reserve` and of `Held`. u64 arithmetic saturates at `Top`.
`overrun`, `late`, `strays` and `strayUnits` are history: the units charged
beyond what was reserved, those of them a host reconciled later, and the open
entries (with their units) that a repeated id replaced.

**EvidenceSink, Decide.** `Deliver` and the actions after it are
`Runtime::deliver` under the policy of the runtime; `Take`, `Begin`,
`WorkerEnds`, `Resolve` the worker. tokio's channel and semaphore are external
and modelled by their documented behaviour: a reservation holds a slot, a
released permit goes to the oldest waiter. `Decide` adds `run`: the live set,
`admit`, the drop guards, and the write of the decision-cache entry after
delivery (`WritesEntry`, `DropWriting`). What lies between admission and the
record is one step with three endings (a record, an error, a drop).

**Invalidation.** One plan, hence one namespace, one request key per scope. A
stored output is represented by `known`, the set of invalidations called when
the work behind it began: an output is stale for an invalidation it does not
know. A store call is sent, takes effect and is answered in separate steps, or
fails. `host` says what the host and the plan do: whether there is a store, run
on several threads (`preemptive`) and share calls (`sharing`). Calls may always
overlap, and the owner of a shared call may always leave. `slips` is history:
which of the three things has happened that let a stale output through, a read
between an invalidation's new generation and its mark (`Between`), an answer
that clears the mark of a later call (`Overtakes`), an attempt older than an
invalidation that is handed on (`HandsOnOld`).

**MemoryCache.** Entries, the namespace's and the scopes' queues and the byte
counts are those of `NamespaceState`; the constant 16 of the compaction is the
parameter `Slack`. Two keys may have one digest.

**Drive.** `pc` follows a request from `waiting` through `top` (the checks at
the head of the loop), `acquire`, `disclose`, `authorize`, `gate`, `running`
and `pause` to `ended` and `supplied`. A cost reservation is granted or refused
nondeterministically, as module `Ledger` may. `Elsewhere` is other decisions
taking and returning permits of the same backends.

**Batch.** `Loop` is the head of `run_requests`: the wave, `Cut` and `Chunks`
the division into batches. `Start`, `Disclosed`, `WaitCancelled`,
`WaitExpires`, `TooLate`, `Dispatch` follow `drive_batch` to the send;
`Reported`, `Panics` and `GivesUpWaiting` are its ends, each through
`Conclude`. A batch is named by its first candidate. A request that runs alone
ends in one step: `Drive` is about those. An answer is a sequence of reports,
each under the id of some request, one of the `replies` of the load; `Collect`
files them as the map of `conclude_batch` does, and `Matched` is what a member
finds under its own id. `leaked` is a history variable, see section 4.
`AcquireWorks`, `PageTaken` and `QueueWakes` are the steps of `Acquire` on the
same task.

**Acquire.** `ListAndAdmit` is the part of the loop that lists the core's pending
pages, expires the queued ones, lists again and admits what the requests leave
room for: `Queue::list` and `expire_waiting`. `FoundAtOnce`, `Begin`,
`SourceWaitEnds`, `GetsSource`, `NotSent`, `Reserves`, `SpendRefused`,
`SpendHeld` follow `drive` to the call, `SourceReports`, `SourceAcknowledges`,
`SourcePanics`, `AttemptCut` the race of `attempt`, `Concluded` the settlement,
`Retried` and `Resumes` the retry, `PageReturns` is `Queue::supply`. Which page
or tier comes next is the core's choice, free up to `pages`; a page found in the
cache or in a live run's captures is one of `finds`; every step is ready at the
start and all use one source.

**Spend, SpendBook, Journal.** A book maps sequence numbers to reservations;
`totals` and `run_total` are what it counts of a period and of a run. A sum is
the number of (reservation, unit) pairs (`Total`); the code's
sums saturate at u64::MAX, which admission under the caps keeps far away.
`SpendBook` says what users may rely on: what was acknowledged is found again,
an outcome once recorded stays, what was outstanding becomes a liability or an
outcome that was being recorded, and what nobody acknowledged counts no more
than it asked for. `Journal` keeps `disk`, the file as processes see it, and
`images`, the files a power loss may leave: a successful sync leaves one, a
write adds its result, torn or whole; `unlinked` are the files the name may
stand for as long as the directory was not synced, which the code leaves out
where it cannot open the directory (`OpenHeaderSync`, `MigrateSync`). A file is
`split` if a line was torn inside a character, which only the ids of the
attempts `Wide` have. An adapter that estimates reports any amount; `told` is
the lesser of reservation and estimate, and `forgot` is history: a power loss
found the name without its file. `OpenLock` to `Opened` are `open` step by
step (lock, header, the cut of a torn last line, replay, migration by rename;
`OpenUnreadable` the refusal of a file that is no text),
`Reserve*`, `settle`, `release` and `reconcile*` the operations, each a write and
a sync that can fail. The refinement takes the book in memory for the abstract
one (`Book == INSTANCE SpendBook WITH book <- res`). A later successful sync is
taken to cover earlier writes whose own sync failed.

**LiveRun.** `items` is the checkpoint in memory, `cp` the one on disk,
`cpImages` what a power loss may leave of it, `files` and `unsafe` the case
files and those not yet durable. `Rename` and `DirSync` are the two halves of
`write_atomic`. `PrepareFresh`, `PrepareResume`, `Scan`, `ProbeEnds`, `Admit`,
`Collect`, `CaseSaved`, `ItemSaved`, `WriteReport` follow `prepare`, `execute` and
`dispatch`. A decision reserves, sends and settles at most one request; its
journal is `SpendBook`, extended by what a failed append may leave (`maybe`,
`tried`), and is taken not to be forgotten. Any operation on a file may fail in
any process (`Fault`). `anchored` says that `--out` would survive a power loss:
nothing syncs its parent directory, so it does not until it has survived one
(`OutStays`, `OutIsLost`). `lost` and `sentBy` are history: `--out` was lost, and
the processes that sent under an id.

**Serve.** A call is the transport's future and the task it spawns (`call`,
`task`), `settler` its settlement. `Resubmit`, `Refuse`, `Decide` are the locked
section of `decide_stream`, `RunRefused`, `RunDecides`, `Publish`,
`NotifyWaiters`, `Panic` the task, `Look` to `Settle` the settlement of queued
evidence, `Cancel*` the cancel with a wait, `BeginShutdown` to `EndFlush` the
shutdown. A reply's size is one unit, and `RESERVED` units if it carries the
record of a failed delivery. A task may also panic while it makes the reply,
when its settlement is already spawned (`serve/service.rs` 810-868): then the
settlement is `Orphaned`, and will write to whatever entry it finds under the id.

**CancelSignal.** The winner of a signal's swap runs the rest of `raise`, so
`phase`, `toWake`, `toRaise` and `inside` are kept per signal; `inside` is the
recursion into a child. Vectors whose order nothing depends on are sets, and a
task has one waker.

## 3. Fairness

Only weak fairness is assumed, and only of what the code or its executor
drives: a task that was woken is polled again, a timer that is due fires, code
that holds a lock goes on. Nothing makes a caller submit, cancel or drop, an
adapter or a sink answer, or another decision return a permit, except in
`SharedCall`, whose `Answered` is about the delivery of an answer and assumes
there is one (`AttemptReady`). `Drive` also assumes that the clock advances and that
foreign calls return, which the code cannot enforce either: a cost disclosure
that never returns blocks the decision's task. `Batch` assumes the same; an
adapter need not answer a batch, nor a source a call. `Journal` assumes a host that opens its
journal again after a crash and removes a lock file no process holds, as the
error tells it to; nothing is assumed of users, of the end of faults, or of
appends. `LiveRun` and `Serve` state no fairness: their properties are safety.
`CancelSignal` needs no
fairness of the mutex: on a raised signal a poll takes the lock at most once
more.

## 4. What is checked

### Passing runs

A property that gathers several is followed by its parts.

| Run | Bounds | What it shows |
| --- | --- | --- |
| `shared_call` | 3 requests, room for 1 slot; loads: one key, one that may leave and two that may be dropped, one of them with an earlier deadline; one key and no departures; two keys and two that may leave; two keys, one waiter a slot, two refusing plans | `PaidOnce` (`SingleCharge`, `AbandonedIsLiability`, `UnpaidOnlyByStaleRead`, `UnderOwnId`): an attempt is paid for at most once, and under the id it was sent with unless the charge was handed on; an abandoned one leaves a liability; a completed one goes unpaid in one way only, the stale read described below. `SlotSound` (`SignalByLast`, `NoLeak`, `RegistryBound`) and `SlotsApart` (nobody joins a completed attempt, no retirement takes a successor's place): the slot's life. `Answered` (liveness): with no departures everybody is answered |
| `ledger` | 3 attempts on a step's, two decisions' and the shared ledger, all cost modes, units up to 2, u64 of 5 values, two attempts of one id, late charges of any amount | `ReservedAccounted`, `WithinLimit`, `SummaryTrue` (`CapIsKept`, `LiabilityAccounted`): what a summary says is true but for `late` and `strays` |
| `decide` | 3 calls and a sink queue of 1, under four traffics: one permit, one place in the queue, two calls of one id, one call that may expire, be cancelled or dropped; two in line, one that may expire or be dropped while its entry is written; two at once under each delivery policy; an invalid id. A sink that need not answer and a worker that may stop | `QueueExact` (`QueueBounded`, `GaugeExact`), `VerdictHonest`: the evidence sink, which is handed a record once. `AdmissionExact` (`PermitsConserved`, `NoIdlePermit`, `QueueWithinBound`, `OneLiveCallPerId`), `EndsCountedOnce`: every exit gives back permit, place and id and is counted once, but for a drop while the entry is written; every counter of the sink is exact, and only a record whose worker stopped or whose caller left is in none (`Uncounted`). `EveryCallEnds` (liveness) |
| `invalidation` | 3 requests, a namespace and a scope call that may overlap; hosts: both tiers on one thread with requests of two scopes and the namespace call kept from the store; both on several threads with three requests of one key and the namespace call alone; with sharing, owners that may leave and the scope call kept from the store; the memory tier alone on several threads | `NeverServedStale`, `TiersFresh`: unless one of the three `slips` happened. `MarksFaithful` (`CompleteIsReconciled`, `UnavailableUntilReconciled`): unless an answer cleared a later call's mark |
| `memory_cache` | 4 keys, 3 digests, 2 scopes, sizes 1 to 3, 6 admissions | `BooksExact` (`BytesExact`, `WithinBounds`, `EveryEntryQueued`, `QueuesProportional`), `EvictsOldest` |
| `drive` | plans: 1 request, 2 targets, 2 tries, 4 instants, every report, a contended backend; 3 requests, 2 at a time on one permit, one of which screens; 2 live requests with authorizer and gate | `BooksExact` (`PermitsExact`, `ReservationsClosed`, `GateAgrees`, `NeverRefunded`), `WithinPolicy` (`EndsAsAttempted`, `AttemptsBounded`, `AllAnswered`), `NothingTooLate` (no `SentLate`, no `SpendsStopped`); `EveryRequestEnds` (liveness) |
| `batch` | 1 permit, a budget of 3, a deadline of 1; decisions: 3 requests in one batch with every report; 5 requests, 3 at a time, one of which screens; 2 batches that want one permit; the same with a request no batch may hold, while others draw on the ledger; a screening beside 2 acquire steps with 2 pages or tiers each, 2 at a time, 2 calls, a deadline of 2; a live decision with a gated and a captured step | `BooksExact` (`ReservationsExact`, `PermitsExact`, `SharesExact`, `SourceExact`): what a batch or a page reserves is given back on every path, with its permit and its ticket, and charges are recorded and shared exactly. `MembersApart`: a member ends with the one report under its own id, whatever the order of the reports and whoever else they name, and fails if it has none or several. `WavesBounded`: places, batch bounds, the call ceiling and the window of an acquire step (`WithinWindow`). `EveryRequestEnds` (liveness) |
| `cancel_signal` | a root, 2 descendants, 1 task | `NoLostWake`, `NoMissedChild`; `Reached` (`TaskReleased`, `ChildReached`; liveness) |
| `journal` | 2 attempts of a run and 1 from before the cap was raised, amounts 1 and 2, costs 1 and 3 (`MaxCharge` 4), caps 3, 2 (run) and 2 (old), both kinds of budget, 2 months, 1 failing operation, 1 crash, one attempt of a wide id | `NeverCountsLess`: until the journal is forgotten, on any file a crash may leave a journal that opens counts at least what was spent, but for charges beyond reservations and estimates. `CapHeld` likewise; `Reopenable`: without a failed append every such file opens, unless it ends inside a character. `ImplementsBook`: `Journal` implements `SpendBook`. `ReopensAgain` (liveness) |
| `live_run` | 2 items: both run at once and give an output unless a cap or the journal refuses; one is unavailable, or its plan refused, and the other ends in every way; 1 rerun, 2 processes, 1 crash, 1 failing operation | `OnceUnderOneId`: no two processes send under one id, unless `--out` was lost. `CompletedKept`: a durable checkpoint's completed items have durable case files. `ReportHonest`: a report says no more than a resumed run finds |
| `serve` | 2 decide calls over 2 ids, 1 cancel, a shutdown, window of 2 entries and 3 units | `WindowBounded`, `OneRunPerId`, `ExitHonest`, `NoLostWake`: unless a settlement is `Orphaned` |

The type invariants are parts of `SlotSound`, `SummaryTrue`, `QueueExact`,
`AdmissionExact`, `MarksFaithful` and the `BooksExact` of `MemoryCache` and
`Drive`; `CancelSignal`'s is proved.

Why the bounds are enough for what the runs are about. The races of the
shared-call slot, of the caches, of the ledgers and of the server's entries are
between two actors, with a third to hand a charge or a place to. The signal's
races are between one task and a raise, and its safety is proved for any number
of both. Queues and registries are of size 1 or 2, so that full, empty and
freed happen within a few steps. The ledger's `Top` is close enough to its
limits that saturation happens. `memory_cache` admits more entries than it
holds and more than `Slack` stale slots, so that eviction, compaction and reuse
of a digest all occur. The clocks of `Drive` are long enough for a timeout, a
retry and a fallback before the deadline, and for the deadline to fall into
each wait. In `Batch` a charge of 4 over three members leaves a remainder. In
`journal` one fault and one crash combine in either order, and the caps are
below what the attempts ask for together; in `live_run` the second process has
to cope with one crash and one failure, of the first or its own.

### Where the code and its documentation disagree

The run `shared_stranded` shows a property that a comment and a spec state and
the code does not keep, `NeverStranded`: an attempt wakes during its poll, before
another waiter has registered; the poller then leaves and nobody wakes that
waiter (`PROJECT.json` quotes the lines).

Eight more configurations do the same; they are kept for reproduction
(`tlc -config <Configuration> <module>` ends with the counterexample) and are no
part of the list of runs. The passing run of the module says how far the
property does hold.

| Configuration, module | Property | What the code does | What the repository says |
| --- | --- | --- | --- |
| `LedgerReuse.cfg`, `MCLedger` | `OneEntryEach` | an unknown charge under an attempt id that was used before replaces the open entry of the first, whose units stay in the liability (`rt/ledger.rs` 120) | "one entry per unreconciled unknown charge" (spec 003, 257-258) |
| `DecideLeft.cfg`, `MCDecide` | `DropIsAbandoned` | a call dropped while its decision-cache entry is written is not counted as abandoned (`rt/lib.rs` 1428) | "at any point after here, queued or admitted, counts as abandoned" (`rt/lib.rs` 1055-1056) |
| `InvalidationRace.cfg`, `MCInvalidation` | `Fresh` | between the new generation and the mark, another thread refills the memory tier from the store's stale entry (`rt/lib.rs` 851-860) | "a result captured earlier is never stored or served" (`rt/lib.rs` 744-746) |
| `InvalidationHeir.cfg`, `MCInvalidation` | `Fresh` | a request that joined an older attempt after an invalidation inherits it, and admits its output under its own, newer generation (`rt/driver.rs` 2148) | "a result arriving after invalidation is neither stored nor served to a later request" (spec 017, 46) |
| `InvalidationOvertaken.cfg`, `MCInvalidation` | `Awaited` | the answer to an earlier invalidation clears the mark of a later one of the same selection (`rt/lib.rs` 802-809) | "unavailable to the persistent tier until the store answers" (`rt/lib.rs` 772-774) |
| `JournalTorn.cfg`, `MCJournal` | `TornLineIsCut` | a line torn inside a character makes `read_to_string` fail, before the cut, at every later open (`live/journal.rs` 416) | "A final line without its newline was never completed: it is cut off at open" (`live/journal.rs` 31-32) |
| `JournalUnlinked.cfg`, `MCJournal` | `SentIsDurable` | the sync of a new journal's directory was skipped, and a power loss leaves no journal with what was sent (`live/journal.rs` 421-425) | "A reservation is durable before its request can be sent" (`live/journal.rs` 18-19) |
| `LiveRunLost.cfg`, `MCLiveRun` | `NothingSentWithout` | a power loss takes `--out`, whose parent was never synced (`live/run.rs` 364); the next run finds no checkpoint although requests were sent, and repeats the probe's id | "no checkpoint exists; nothing was sent" (`live/run.rs` 321) |

Two more can be reproduced by checking the named definition, which is kept in
its module for that, on the named instance:

- `OwnerPays` of `SharedCall` with the loads `MCDepartures`: ownership is read
  before `leave` and settles by a stale value (`rt/driver.rs` 2753; spec 044,
  365-366).
- `PanicReleases` of `Serve`: the entry of a decision task that panics is
  released in the transport's future, which may have been dropped; the entry
  then stays without a reply for ever (`serve/service.rs` 615-627; spec 042,
  3.7.2). A shutdown reports the id.

The others were met while modelling and are named exceptions of, or not claimed
by, the passing runs:

- A slot whose attempt is out for a poll cannot be joined, so a second slot of
  its key is led (`rt/shared.rs` 96-110). `RegistryBound` is about the registry,
  not about the attempts in flight (044, 3.2.2 item 3).
- The liability of a shared call that was handed on is kept under the id of the
  waiter that settles it (`rt/driver.rs` 2811), not under the id the backend
  was sent (044, 3.2.4 item 2). `UnderOwnId` excepts it.
- A reconciled charge above its bounded reservation is not recorded as a
  violation (`rt/ledger.rs` 127): `late` in `CapIsKept`.
- The `queued` gauge exceeds what can wait in the queue, as it is raised before
  the send and lowered after the receive (`rt/lib.rs` 1543): `GaugeExact` says
  what it counts.
- A record whose worker stopped, before it took the record or with it, is in no
  counter of the sink (`rt/lib.rs` 1528, 1548): `Uncounted`.
- An append that failed half way leaves a line that is no entry, or a second line
  of one sequence number, and the journal is refused by the next open
  (`live/journal.rs` 604): `Reopenable` and `ReopensAgain` are about journals
  whose appends did not fail.
- A settlement that outlives its panicked task may write to the entry of a later
  decision of the id (`serve/service.rs` 856-868): `Orphaned` in the properties
  of `Serve`.
- A decision dropped while a batch waits for its permit never releases what the
  members reserved (`rt/driver.rs` 1485), unlike the independent execution the
  comment at 1407-1410 equates it with: `leaked` in `ReservationsExact`.
- A charge above its reservation that was not yet in the file when the process
  died is found as a liability of the reservation only, and an estimate below the
  cost is all that is ever counted (`live/journal.rs` 636): `NeverCountsLess` and
  `CapHeld` except what was charged beyond a reservation or an estimate.
- A cancel with a wait looks its entry up by key again after the wait and may
  report the attempts of a later decision of the same id
  (`serve/service.rs` 925-934; 042, 3.6.4). The attempts of a reply are not
  modelled; the wait for a later decision is the exception in `NoLostWake`.
- A screening refusal while an acquisition is queued or in flight makes
  `run_requests` report a cancellation (`rt/acquisition.rs` 99, 118: the result
  is `NotSupplied`, and the decision's own signal is raised), so the call ends
  as cancelled (`rt/lib.rs` 1209) and not as refused (035, R-3). What
  `run_requests` returns is not a variable of `Batch`: no run is about it.
- A stream's `final` event is offered through the queue that drops events when
  full (`serve/stream.rs`; 042, 3.7.2): streams are not modelled.

## 5. What is proved

The theorems hold for every value of the constants that satisfies the module's
`ASSUME`s: any number of calls, requests, attempts, ledgers, signals and tasks,
any bound, any plan, load or traffic. Each proof module defines an inductive
invariant per component (`IInv`; `SInv`, `CacheInv` and `SignalInv` in
`GuardedProofs`, `RunInv` and `IdInv` in `LiveRunProofs`), which TLC checked first
on the instances of section 4, proves that it holds initially and that every
step preserves it, with one lemma per action, and derives the listed
properties. The same plan serves
all of them: what an action does is put as a frame (which element changes, and
which of its values), a lemma carries the invariant over to every element the
frame leaves alone, and the action's own lemma is about its own element.

**GuardedProofs** is about the three pieces of state that a mutex guards and that
no other component reaches into: the ledgers, the memory tier, the signals.

*Ledgers.* `TypeCorrect`, `ReservationsAccounted` (`ReservedAccounted`),
`LimitKept` (`WithinLimit`) and `SummaryStaysTrue` (`SummaryTrue`). Assumed: attempts and ids are finite, an
attempt draws from at most one ledger of each scope and from one at least, a
limit is below u64::MAX (at u64::MAX the saturated sum cannot exceed it), a
disclosed or charged amount fits a u64. `WithinLimit` is not inductive: that a
release or a settlement takes away what was added needs to know that what an
attempt holds is part of `reserved`, and that a reconciliation takes away a
liability that was counted. The invariant is
`IInv == TypeOK /\ HeldOK /\ ReservedAccounted /\ Covered /\ Owed /\ WithinLimit`.
Sums over attempts are cardinalities of sets of (attempt, unit) pairs
(`HeldUnits`, `OwedUnits`), so the finite-set library carries the arithmetic:
`AddUnits` and `RemoveUnits` say what one attempt more or less does to such a
set, `FitsExact` that a sum that fits a limit did not saturate, and one lemma
per ledger operation preserves `IInv`.

`SummaryStaysTrue` has no hypothesis of its own. An attempt id may repeat, as the
runtime keeps ids apart only among the decisions that run, and a host may
reconcile any amount: the units a repeated id leaves behind are `strayUnits`, and
what was reconciled beyond a reservation is `late`, and both are in the
statement. The strengthening is `SInv == BoundedOK /\ NoOverrun /\
LiabilityAccounted`: what is reserved on a hard ledger is an enforceable bound,
and a hard ledger without a violation was charged beyond a reservation by late
charges only.

*Memory tier.* `TierBooksExact` (`BooksExact`) and the action property
`TierEvictsOldest` (`EvictsOldest`), for any keys, digests (colliding ones
included), scopes, sizes and bounds. Assumed: finitely many keys, digests and
scopes, positive sizes, an entry's bound within the scope's and that within the
namespace's, room for one entry at least, and `None` neither a scope nor an
entry. `CacheInv` holds at every iteration of every loop, not only between
operations. `Tier` relates the entries to four books: bytes are cardinalities of
sets of (entry, byte) pairs (`BytesIn`), and `Queue` says of a queue and the
entries it is for that its numbers rise and that its live slots are those
entries', each once; stale slots are as many as compaction allows. The front of a queue
is then the oldest entry or stale, which is what both the eviction and the byte
counts rest on; `OpOK` says what an insertion under way has already made room
for. Queues are filtered as functions of their indices, so no induction over
them is needed.

*Signals.* `SignalTypeCorrect`, `WakeNeverLost` (`NoLostWake`),
`ChildNeverMissed` (`NoMissedChild`) and `OnlyDownwards` (`RaisedFromAbove`,
`NothingAfterTake`). Assumed: the root is a signal, signals and tasks are
different things. The strengthening says what the mutex is for:
`FlagIsPhase` (the flag is up exactly from the swap on), `MutexHeld` (who
registers holds the mutex), `MutexBeforeTake` (who holds it after a check of
the flag does so before the lists are taken), `PendingWhileTaken`,
`NothingAfterTake`, `WakerKept` and `ChildKept` (who is registered stays
registered until taken), `Kinship` and `RaisedExists`. One lemma per action
preserves their conjunction, `SignalInv`.

**DecideProofs** (`Decide` with `EvidenceSink`). `AdmissionStaysExact`,
`QueueStaysExact`, `VerdictStaysHonest`, `EndsStayCountedOnce`. Assumed: finitely
many decisions, counts of permits, places and slots that are naturals.
`PermitsConserved` and `QueueWithinBound` are not inductive alone: `LineOK` adds
that the line has nobody twice and only who waits, `BooksOK` that every permit is
free, assigned or held and every counter is a count of calls by phase. For the
sink `GaugesOK`, `RecordsOK`, `WorkerOK` and `CountsOK` say where a record is,
who will take it off the gauge and which counter has it, and `KeptOK` links the
two halves: who writes its entry has been delivered. The statement of
`EndsStayCountedOnce` names what is counted nowhere: a call that was dropped
while its entry was written, and the records of `Uncounted`. Counters are related to
cardinalities of sets of decisions (`CountIn`), and a move of one decision
shifts the counts by one (`PhaseMoves`).

**SharedCallProofs.** `SlotsStaySound`, `ChargesArePaidOnce` and the action
property `SlotsStayApart`. `IInv` says who is registered with a slot
(`WaiterOK`), that one of them at most polls (`PollerOK`), that the last to leave
is alone with it (`LastOK`), which of them owns the charge (`OwnerOK`), what the
attempt's state says of the settlements (`AttemptOK`) and what the registry holds
(`RegistryOK`). A new owner is the earliest waiter, which exists by the
well-foundedness of the naturals (`EarliestWaits`).

**ServeProofs.** `WindowStaysBounded`, `IdsRunOnce`, `ExitsStayHonest`,
`NoWakeIsLost`. Assumed besides the bounds: calls and cancels are different
things. Nothing is claimed once a settlement is `Orphaned`, which it then stays
(`OrphansStay`); until then `Whole` is the invariant. `Sound` says of each call which entry is its own while its task or its
settlement lives (`HeldOK`) and of each entry which call it is of (`EntryOK`).
The window's bytes are the cardinality of a set of (id, unit) pairs (`Units`), so
that inserting, publishing, settling and pruning are set operations.

**DriveProofs.** `BooksStayExact`, `PolicyIsKept` and the action property
`NothingIsTooLate`, for any plan: any number of requests, targets and tries, any
delays and deadline, with and without an authorizer and a spend gate. Assumed:
the error classes a policy names are classes, and `None` is neither a result nor
a record. `BookOK` says what a request holds at each place and that its books
follow its attempts, `EndOK` what its last attempt allows it to end with,
`TriesOK` that its attempts are those of the targets it has left and of its
tries at the present one; `TurnOK` who is in foreign code. The bound on attempts
is a product of targets and tries, carried by `Past`.

**InvalidationProofs.** `NothingStaleServed`, `TiersStayFresh`,
`MarksStayFaithful`, for any number of requests, scopes and calls, on every host:
any number of threads, overlapping calls, with and without a store and sharing.
The exceptions are events, not hosts: each of the three `slips` is shown to
happen by a configuration of section 4, and as long as none has happened nothing stale is
stored or served. The invariant speaks of
`Applied`, the calls the store has the effect of for certain. An entry of the
store knows all of them that cover its scope, an entry of the memory tier of the
current generation all that were called (`ScopeOK`); a request that may still
admit knows them too as long as its captured generations are the current ones
(`RequestOK`); both are claimed until a slip. `CallsOK` counts the
calls: the memory tier's generation is their number, a generation of the store
at most the number of those it carried out, and what a call has seen are calls
whose marks were set by then. `MarksFaithful` itself is claimed until an answer
clears the mark of a later call. `FlightOK` and `RunOK` say that a shared call's waiters are the
requests that run with it, its owner first. What no step takes back is `Onward`:
generations only rise, and one that did not rise has no new call applied to it.

**JournalProofs.** `StaysReopenable` (`Reopenable`), `NothingSpentIsForgotten`
(`NeverCountsLess`), `CapsStayHeld` (`CapHeld`) and the refinement
`ImplementsTheBook` (`ImplementsBook`), for any attempts, amounts, costs and
caps and any number of crashes, failing operations and skipped syncs of the
directory. The exceptions are in the statements: once a power loss left the name
without its file (`forgot`) nothing is claimed, and a file that ends inside a
character is not claimed to open. Assumed: finitely many
attempts, a reservation's bound is one of the amounts, a cost is at most
`MaxCharge`, the superseded cap is below the cap and a charge can reach it, and
the attempt from before the migration is none of the run's. None of the three
invariants is inductive, as a crash puts any of the files in `images` in the
place of `disk`: `FilesOK` therefore says of each of them what it would replay
to. That is `Holds`, a relation between a book and the users' `View` (what was
acknowledged, where each attempt is, what it asked for and spent): the book has
whatever was acknowledged, in that state or in one that may follow it (`Keeps`),
its outcomes are true (`Honest`), nothing was sent on what was not acknowledged
(`Extra`), and it fits the caps when every reservation counts for at most its
units (`Sound`, `Capped`). `MemOK` says the same of the book in memory and that
the file's is `Beside` it: at most one reservation more, and outcomes memory
does not know of. That is why a check against memory admits no reservation that
the file has no room for. `ReserveOK` and `OutcomeOK` are about a line that is
written and not yet synced. The lemmas about lines (`ReplaysAppend`,
`ReplayReserve`, `ReplayOutcome`, `ReplayMigrated`) say what one line more does
to a replay, so that no induction over the file is needed; sums are
cardinalities (`Total` of `Spend`), and `TotalCover` bounds one sum by two
others through an injection.

**LiveRunProofs.** `CompletedStaysKept` (`CompletedKept`), `ReportStaysHonest`
(`ReportHonest`) and `IdsStayApart` (`OnceUnderOneId`), for any number of items,
in flight, of processes, crashes and operations that fail in any of them.
`IdsStayApart` excepts the loss of `--out` (`lost`), and all three take the
journal to be a `SpendBook`, so not to be forgotten. Assumed: at least one item
and one in flight, the binding's bound is one of the amounts, and attempts are
pairs of a slot and a number. A power loss may put any of `cpImages` in the place
of the checkpoint, so the invariants speak of all of them. `RunInv` says that
each is the beginning of the file and the file the beginning of what the process
knows (`Disk`), that all of them agree between two writes that did not fail
(`Saved`), that what any of them calls completed has its case files for good
(`CasesKept`), and that no item is passed over or in two hands (`Worked`,
`Covered`); `Shape` says where the process may be writing what. `IdInv` adds the
book: what was sent is acknowledged there, and no surviving checkpoint counts
fewer reruns of its item (`SentKnown`); hence the id a pending item would be sent
under is this process's own (`OwnIds`), and so is the one each reservation was
made under (`OwnTickets`). The probe's number is the one after the largest in the
journal, which exists by the well-foundedness of the naturals (`MaxIs`). A
history is a sequence of states; its reruns are a cardinality (`Reruns`), which
prefixes only lower (`RerunsPrefix`).

Only model-checked: liveness, which the provers here do not reach, and the safety
of `Batch` with `Acquire`. There a wave is cut into batches, and a charge into
shares, by folds along sequences: that chunks are disjoint and within their
bounds, or that shares add up, is a statement about what a fold computes for
every input, which needs an induction over data.

## 6. What is not modelled

- The pure parts: compilation, evaluation, ranking, extraction, calibration,
  document formats, the surface, the command line, offline evaluation. They
  keep no state between calls, and most of the repository's lines are theirs:
  a model of them would be a second evaluator, not a state machine.
- Adapters, sinks, stores, authorizers and gates are external: they may
  answer, fail, panic or stay silent, each as the seam's types allow. So are
  the file system, the operating system and the clocks.
- In `Drive`: the path of a backend whose semaphore was closed, which nothing in
  the runtime closes, generation requests; likewise that path in `Batch` and of
  a source in `Acquire`, where requests and pages are not built or validated
  and a step's inputs are always there. In `Decide`: how an entry of the decision-result cache is made. In
  `Invalidation`: size limits and pruning of captured generations.
- In `LiveRun`: repeat reports, the pacing by `min_interval`, decisions of more
  than one attempt, a report lost in a power loss. In `Journal`: the documents
  of a bill; a line is matched to its reservation.
- In `Serve`: registration, streams and their progress events, health, the
  sources of invalidations, the pool for offline work, the counters of
  refusals, the difference between queued and running, and the HTTP transport.
- Poisoned mutexes: the code recovers the state, and no critical section
  modelled here can panic half way.

## 7. Plan

1. The decision-result cache (`rt/optimization.rs`, `mod decision`): replay,
   reservation of a key, write after delivery.
2. An abstract cache that never serves what an invalidation selected, with
   `Invalidation` shown to implement it until a slip; and
   `MemoryCache` as an implementation of a bounded map.
3. Generation beside the requests of `Drive`; steps of `Acquire` that become
   ready when others end, and several sources; the progress
   stream and the server's streams over it.
4. The remote HTTP backend's connections.
5. Proofs: `BooksExact`, `MembersApart` and `WavesBounded` of `Batch`, once chunks
   and shares are characterised without folds.
