-------------------------------- MODULE Batch --------------------------------
(***************************************************************************)
(* General batching of one decision's requests                             *)
(* (crates/rustev-runtime/src/driver.rs: the admission wave of             *)
(* run_requests, schedule_batches, drive_batch, allocate, conclude_batch). *)
(*                                                                         *)
(* One task polls everything here, so a step runs from one await to the    *)
(* next, or to a call of the adapter's batch_capability or cost_bound,     *)
(* while which the clock, the caller and other decisions move.  A request  *)
(* that runs alone is module Drive's subject: it takes a place in the wave *)
(* and ends in any way.  A batch is named by its first candidate.  The     *)
(* pages the decision acquires share its loop, its places and its ledger:  *)
(* module Acquire has their steps.                                         *)
(***************************************************************************)
EXTENDS Acquire

CONSTANT Permits     \* the concurrency of the backend

\* What an adapter may say of one member; an output that its check refuses is a
\* failure.
Results == {"output", "failed", "cancelled"}

ASSUME BatchAssumption ==
    /\ Permits \in Nat \ {0}
    /\ \A l \in Loads :
        /\ l.maxParallel \in Nat \ {0}
        /\ {l.maxMembers, l.maxBytes, l.maxWork} \subseteq Nat
        /\ l.contended \subseteq {"permits", "ledger", "source"}
        /\ \A reports \in l.replies : \A i \in DOMAIN reports : reports[i].result \in Results

VARIABLES
    waiting,    \* requests not started yet, in order
    alone,      \* requests driven by themselves
    batch,      \* the batches
    outcome,    \* how a request ended
    supplied,   \* what the core was given, or why nothing
    free,       \* free permits of the backend
    others,     \* permits other decisions hold
    leaked      \* history: units of a dropped batch that nothing releases

task == <<looping, waiting, alone, pages>>
world == <<load, now, cancel, refused, gone, others>>
requests == <<waiting, alone, batch, outcome, supplied, free, leaked>>
vars == <<world, looping, ledger, requests, pages>>

-----------------------------------------------------------------------------

Requests == Range(load.requests)
MaxParallel == load.maxParallel   \* max_parallel_requests

NoBatch == [cand |-> <<>>, left |-> <<>>, adm |-> <<>>, pc |-> "none", told |-> None]

\* The outcome of a request that made no attempt.
Unsent(why) ==
    [result |-> why, sent |-> FALSE, share |-> 0, link |-> 0, owner |-> FALSE]

Init ==
    /\ load \in Loads
    /\ now = 0 /\ cancel = FALSE /\ refused = FALSE /\ gone = FALSE
    /\ looping = TRUE
    /\ waiting = load.requests /\ alone = {}
    /\ batch = [r \in Requests |-> NoBatch]
    /\ outcome = [r \in Requests |-> None]
    /\ supplied = [r \in Requests |-> None]
    /\ free = Permits /\ others = 0
    /\ ledger = [reserved |-> 0, elsewhere |-> 0, observed |-> 0, liability |-> 0]
    /\ leaked = 0
    /\ AcquireInit

Live == {b \in Requests : batch[b].pc \notin {"none", "over"}}
Members(b) == Range(batch[b].cand)
Sum(f, S) == MapThenSumSet(LAMBDA r : f[r], S)

\* What the admitted candidates of a batch reserve together.
Total(adm) == FoldLeft(LAMBDA n, m : n + m.units, 0, adm)

-----------------------------------------------------------------------------
(* The admission wave.                                                     *)

InFlight_batches_as_one == Cardinality(alone) + Cardinality(Acquiring) + Cardinality(Live)

\* Members count against max_parallel_requests until their batch ends.
InFlight ==
    Cardinality(alone) + Cardinality(Acquiring)
    + Sum([b \in Requests |-> Len(batch[b].cand)], Live)

\* One group cut into chunks within every hard bound; what no batch may hold
\* is left to run alone.
Cut(group) ==
    LET Fits(s, r) == /\ Len(s.chunk) < load.maxMembers
                      /\ s.bytes + load.bytes[r] <= load.maxBytes
                      /\ s.work + load.work[r] <= load.maxWork
        Step(s, r) ==
            IF load.bytes[r] > load.maxBytes \/ load.work[r] > load.maxWork THEN s
            ELSE IF Fits(s, r)
            THEN [s EXCEPT !.chunk = Append(@, r), !.bytes = @ + load.bytes[r],
                           !.work = @ + load.work[r]]
            ELSE [done |-> s.done \cup {s.chunk}, chunk |-> <<r>>,
                  bytes |-> load.bytes[r], work |-> load.work[r]]
        cut == FoldLeft(Step, [done |-> {}, chunk |-> <<>>, bytes |-> 0, work |-> 0], group)
    IN cut.done \cup {cut.chunk}

\* schedule_batches: candidates grouped by declared compatibility (None: the
\* backend offers no batch for the request); a chunk of one runs alone.
Chunks(wave) ==
    LET groups == {load.group[r] : r \in Range(wave)} \ {None}
        Of(g) == SelectSeq(wave, LAMBDA r : load.group[r] = g)
    IN {c \in UNION {Cut(Of(g)) : g \in groups} : Len(c) >= 2}

\* A refused decision raises its own signal and withdraws the requests that
\* still wait; otherwise the wave takes what there is room for, and the queued
\* pages what it leaves.
Loop ==
    /\ looping /\ ~gone
    /\ LET room == IF InFlight >= MaxParallel THEN 0 ELSE MaxParallel - InFlight
           size == IF refused THEN 0 ELSE Earlier(room, Len(waiting))
           wave == SubSeq(waiting, 1, size)
           chunks == Chunks(wave)
           batched == UNION {Range(c) : c \in chunks}
       IN /\ batch' = [b \in Requests |->
                IF \E c \in chunks : Head(c) = b
                THEN [NoBatch EXCEPT !.cand = CHOOSE c \in chunks : Head(c) = b,
                                     !.pc = "start"]
                ELSE batch[b]]
          /\ alone' = alone \cup (Range(wave) \ batched)
          /\ waiting' = IF refused THEN <<>> ELSE SubSeq(waiting, size + 1, Len(waiting))
          /\ supplied' = IF refused
                         THEN [r \in Requests |-> IF r \in Range(waiting) THEN "withdrawn"
                                                  ELSE supplied[r]]
                         ELSE supplied
          /\ ListAndAdmit(room - size)
    /\ cancel' = (cancel \/ refused)
    /\ looping' = FALSE
    /\ UNCHANGED <<load, now, refused, gone, others, outcome, free, ledger, leaked, calls, source,
                   gate>>

\* A batch whose adapter is being asked holds the task.
Asked == {b \in Requests : batch[b].pc = "disclose"}
Turn(b) == Polled /\ Asked \subseteq {b}

-----------------------------------------------------------------------------
(* drive_batch.                                                            *)

Goes(b, rec) == batch' = [batch EXCEPT ![b] = rec]

Tell(S, why) == outcome' = [r \in Requests |-> IF r \in S THEN Unsent(why) ELSE outcome[r]]

Admitted(b) == {m.req : m \in Range(batch[b].adm)}

Late == IF now >= load.deadline THEN "deadline" ELSE None
Stopped == IF cancel THEN "cancelled" ELSE None

Start(b) ==
    /\ batch[b].pc = "start" /\ Turn(b)
    /\ LET why == IF cancel THEN Stopped ELSE Late IN
       IF why # None
       THEN Goes(b, [batch[b] EXCEPT !.pc = "ended"]) /\ Tell(Members(b), why)
       ELSE Goes(b, [batch[b] EXCEPT !.pc = "disclose", !.left = batch[b].cand]) /\ UNCHANGED outcome
    /\ UNCHANGED <<world, task, supplied, free, ledger, leaked>>

\* After the last disclosure: a batch needs two members.
Formed_unreleased(rec, reserved) ==
    IF rec.left # <<>> THEN <<rec, reserved>>
    ELSE IF Len(rec.adm) >= 2 THEN <<[rec EXCEPT !.pc = "acquire"], reserved>>
    ELSE <<[rec EXCEPT !.pc = IF rec.adm = <<>> THEN "ended" ELSE "single"], reserved>>

Formed(rec, reserved) ==
    IF rec.left # <<>> THEN <<rec, reserved>>
    ELSE IF Len(rec.adm) >= 2 THEN <<[rec EXCEPT !.pc = "acquire"], reserved>>
    ELSE <<[rec EXCEPT !.pc = IF rec.adm = <<>> THEN "ended" ELSE "single"],
           reserved - Total(rec.adm)>>

\* cost_bound returned for the next candidate, and its reservation.
Disclosed(b) ==
    /\ batch[b].pc = "disclose" /\ ~gone
    /\ \E u \in load.units :
        LET r == Head(batch[b].left)
            fits == Committed + u <= Limit
            rest == [batch[b] EXCEPT !.left = Tail(@)]
            formed == IF fits THEN Formed([rest EXCEPT !.adm = Append(@, [req |-> r, units |-> u])],
                                          ledger.reserved + u)
                      ELSE Formed(rest, ledger.reserved)
        IN /\ Goes(b, formed[1])
           /\ ledger' = [ledger EXCEPT !.reserved = formed[2]]
           /\ IF fits THEN UNCHANGED outcome ELSE Tell({r}, "budget")
    /\ UNCHANGED <<world, task, supplied, free, leaked>>

DisclosurePanics(b) ==
    /\ batch[b].pc = "disclose" /\ ~gone
    /\ LET r == Head(batch[b].left)
           formed == Formed([batch[b] EXCEPT !.left = Tail(@)], ledger.reserved)
       IN /\ Goes(b, formed[1])
          /\ ledger' = [ledger EXCEPT !.reserved = formed[2]]
          /\ Tell({r}, "failed")
    /\ UNCHANGED <<world, task, supplied, free, leaked>>

\* How a request that runs by itself may end.
AloneEnd == {"output", "failed"} \cup {w \in {Late, Stopped} : w # None}

\* The only admitted candidate runs alone, inside the batch's future.
SingleEnds(b) ==
    /\ batch[b].pc = "single" /\ Turn(b)
    /\ \E how \in AloneEnd : Tell(Admitted(b), how)
    /\ Goes(b, [batch[b] EXCEPT !.pc = "ended", !.adm = <<>>])
    /\ UNCHANGED <<world, task, supplied, free, ledger, leaked>>

\* Nothing is sent: release_all, and one outcome for every admitted member.
GiveUp(b, why) ==
    /\ Goes(b, [batch[b] EXCEPT !.pc = "ended", !.adm = <<>>])
    /\ ledger' = [ledger EXCEPT !.reserved = @ - Total(batch[b].adm)]
    /\ Tell(Admitted(b), why)
    /\ UNCHANGED free

\* The permit is not this batch's: there is none, or it goes to another waiter.
NoPermit(b) == free = 0 \/ \E c \in Requests \ {b} : batch[c].pc = "acquire"

WaitCancelled(b) ==
    /\ batch[b].pc = "acquire" /\ Turn(b)
    /\ cancel /\ NoPermit(b)
    /\ GiveUp(b, "cancelled")
    /\ UNCHANGED <<world, task, supplied, leaked>>

WaitExpires_never(b) == FALSE

WaitExpires(b) ==
    /\ batch[b].pc = "acquire" /\ Turn(b)
    /\ ~cancel /\ now >= load.deadline /\ NoPermit(b)
    /\ GiveUp(b, "deadline")
    /\ UNCHANGED <<world, task, supplied, leaked>>

\* The permit came, and the checks right before dispatch.
TooLate(b) ==
    /\ batch[b].pc = "acquire" /\ Turn(b) /\ free > 0
    /\ LET why == IF Late # None THEN Late ELSE Stopped IN why # None /\ GiveUp(b, why)
    /\ UNCHANGED <<world, task, supplied, leaked>>

Dispatch(b) ==
    /\ batch[b].pc = "acquire" /\ Turn(b) /\ free > 0
    /\ Late = None /\ ~cancel
    /\ Goes(b, [batch[b] EXCEPT !.pc = "running"])
    /\ free' = free - 1
    /\ UNCHANGED <<world, task, outcome, supplied, ledger, leaked>>

-----------------------------------------------------------------------------
(* conclude_batch.                                                         *)

\* Integer shares of a known charge, the remainder to the lowest indices.
Allocate(units, n) == [i \in 1..n |-> units \div n + IF i <= units % n THEN 1 ELSE 0]

\* The reports of one answer by the request whose attempt id they name: the
\* first is kept, and every later one turns the entry to a duplicate for good.
Nobody == [req |-> None, result |-> "missing"]

Named(reports) == {x.req : x \in Range(reports)}

Collect_removing(reports) ==
    FoldLeft(LAMBDA m, x : [m EXCEPT ![x.req] = IF @ = Nobody THEN x ELSE Nobody],
             [r \in Named(reports) \cup Requests |-> Nobody], reports)

Collect(reports) ==
    FoldLeft(LAMBDA m, x : [m EXCEPT ![x.req] = IF @ = Nobody THEN x
                                                ELSE [@ EXCEPT !.result = "duplicate"]],
             [r \in Named(reports) \cup Requests |-> Nobody], reports)

\* A member's end is what is filed under its own id; a report under any other id
\* (a member refused a reservation, another batch, nobody) is for none.
Matched(reports, r) ==
    LET filed == Collect(reports)[r].result
    IN IF filed \in {"missing", "duplicate"} THEN "failed" ELSE filed

Each(b, how) == [r \in Admitted(b) |-> how]

\* How a batch ended, for each member and on the ledger.  `charge` is a number
\* of units or Unknown.
Conclude(b, results, charge, told) ==
    LET adm == batch[b].adm
        n == Len(adm)
        total == Total(adm)
        shares == IF charge = Unknown THEN [i \in 1..n |-> 0] ELSE Allocate(charge, n)
    IN /\ Goes(b, [batch[b] EXCEPT !.pc = "ended", !.told = told])
       /\ outcome' = [r \in Requests |->
            IF r \notin Admitted(b) THEN outcome[r]
            ELSE LET i == CHOOSE i \in 1..n : adm[i].req = r
                 IN [result |-> results[r], sent |-> TRUE, share |-> shares[i],
                     link |-> IF charge = Unknown THEN total ELSE 0, owner |-> i = 1]]
       /\ ledger' = Settled(total, charge)
       /\ free' = free + 1
       /\ UNCHANGED <<world, task, supplied, leaked>>

\* The adapter's own end of the attempt: `raised` makes its "cancelled" a
\* cancellation, and otherwise a failure.
FromAdapter(how, raised) == IF how = "cancelled" /\ ~raised THEN "failed" ELSE how

\* The charge that counts: what was reported, or unknown where remote work may
\* go on.
Charges == load.charges \cup {Unknown}

\* A report is accepted when it is read before the signal or the timer, or
\* when a refused screening raised the signal.
Reported(b) ==
    /\ batch[b].pc = "running" /\ Turn(b)
    /\ \E charge \in Charges :
        \/ \E how \in {"failed", "cancelled"} :
            Conclude(b, Each(b, FromAdapter(how, cancel)), charge, None)
        \/ \E reports \in load.replies :
            Conclude(b, [r \in Admitted(b) |-> FromAdapter(Matched(reports, r), cancel)],
                     charge, reports)

\* infer_batch panicked, when called or when polled.
Panics(b) ==
    /\ batch[b].pc = "running" /\ Turn(b)
    /\ Conclude(b, Each(b, "failed"), Unknown, None)

\* The signal or the timer won: the signals are raised and the adapter polled
\* once more, for an answer that settles the charge or for none.
GivesUpWaiting(b) ==
    /\ batch[b].pc = "running" /\ Turn(b)
    /\ cancel \/ now >= load.deadline
    /\ \E charge \in Charges :
        Conclude(b, Each(b, IF cancel THEN "cancelled" ELSE "deadline"), charge, None)

-----------------------------------------------------------------------------
(* The loop takes what ended.                                              *)

\* What the core is given for an outcome; nothing once a screening refused.
Given(o) == IF refused THEN (IF o.sent THEN "not_supplied" ELSE "withdrawn")
            ELSE IF o.result = "cancelled" THEN "not_supplied" ELSE o.result

BatchReturns(b) ==
    /\ batch[b].pc = "ended" /\ Turn(b)
    /\ Goes(b, [batch[b] EXCEPT !.pc = "over", !.told = None])
    /\ supplied' = [r \in Requests |-> IF r \in Members(b) THEN Given(outcome[r])
                                       ELSE supplied[r]]
    /\ looping' = TRUE
    /\ UNCHANGED <<world, waiting, alone, outcome, free, ledger, leaked, pages>>

\* Only a request that is never batched may be a screening; what it is supplied
\* may refuse the decision, whose own signal is raised with it.
AloneReturns(r) ==
    /\ r \in alone /\ Polled /\ Asked = {}
    /\ \E how \in AloneEnd :
        /\ outcome' = [outcome EXCEPT ![r] = Unsent(how)]
        /\ supplied' = [supplied EXCEPT ![r] = Given(Unsent(how))]
        /\ \E no \in {FALSE, load.group[r] = None /\ how # "cancelled"} :
            /\ refused' = (refused \/ no)
            /\ cancel' = (cancel \/ no)
    /\ alone' = alone \ {r}
    /\ looping' = TRUE
    /\ UNCHANGED <<load, now, gone, others, waiting, batch, free, ledger, leaked, pages>>

\* The decision's pages move on while no adapter of a batch is being asked.
AcquireWorks(s) == Asked = {} /\ Works(s) /\ UNCHANGED <<world, looping, requests>>

PageTaken(s) ==
    /\ Asked = {} /\ PageReturns(s)
    /\ looping' = TRUE
    /\ UNCHANGED <<world, requests>>

QueueWakes ==
    /\ Asked = {} /\ QueuedExpiry
    /\ looping' = TRUE
    /\ UNCHANGED <<world, requests>>

-----------------------------------------------------------------------------
(* The environment.                                                        *)

Over ==
    /\ \A r \in Requests : supplied[r] # None
    /\ At("over") = AcquireSteps

CallerCancels ==
    /\ ~cancel /\ ~gone /\ ~Over
    /\ cancel' = TRUE
    /\ UNCHANGED <<load, now, refused, gone, others, task, batch, outcome, supplied, free,
                   ledger, leaked>>

Tick ==
    /\ now < load.deadline /\ now' = now + 1
    /\ UNCHANGED <<load, cancel, refused, gone, others, task, batch, outcome, supplied, free,
                   ledger, leaked>>

\* The decision's future is dropped at an await.  A dispatched batch or page is
\* settled as unknown and returns its permit and its ticket; a batch that waits
\* for its permit has nothing that returns what its members reserved.
Drop ==
    /\ ~Over /\ Polled /\ Asked = {}
    /\ gone' = TRUE
    /\ LET running == {b \in Requests : batch[b].pc = "running"}
           pending == {b \in Requests : batch[b].pc = "acquire"}
           totals == [b \in Requests |-> Total(batch[b].adm)]
       IN /\ ledger' = Settled(Sum(totals, running) + TotalOf("units"), Unknown)
          /\ leaked' = Sum(totals, pending)
          /\ free' = free + Cardinality(running)
    /\ batch' = [b \in Requests |-> NoBatch]
    /\ source' = [source EXCEPT !.free = @ + Cardinality(At("running"))]
    /\ gate' = [gate EXCEPT !.held = 0]
    /\ acq' = [s \in AcquireSteps |-> [NoPage(acq[s]) EXCEPT !.units = 0]]
    /\ line' = <<>>
    /\ UNCHANGED <<load, now, cancel, refused, others, looping, waiting, alone, outcome, supplied,
                   calls>>

OtherTakesPermit ==
    /\ "permits" \in load.contended /\ free > 0
    /\ free' = free - 1 /\ others' = others + 1
    /\ UNCHANGED <<load, now, cancel, refused, gone, task, batch, outcome, supplied, ledger, leaked>>

OtherGivesPermit ==
    /\ others > 0 /\ free' = free + 1 /\ others' = others - 1
    /\ UNCHANGED <<load, now, cancel, refused, gone, task, batch, outcome, supplied, ledger, leaked>>

OtherReserves ==
    /\ "ledger" \in load.contended /\ Committed < Limit
    /\ ledger' = [ledger EXCEPT !.elsewhere = @ + 1]
    /\ UNCHANGED <<world, task, batch, outcome, supplied, free, leaked>>

OtherReleases ==
    /\ ledger.elsewhere > 0
    /\ ledger' = [ledger EXCEPT !.elsewhere = @ - 1]
    /\ UNCHANGED <<world, task, batch, outcome, supplied, free, leaked>>

OtherSource ==
    /\ OtherTakesSource \/ OtherGivesSource
    /\ UNCHANGED <<world, looping, ledger, requests>>

Environment ==
    CallerCancels \/ Tick \/ Drop \/ OtherTakesPermit \/ OtherGivesPermit
    \/ OtherReserves \/ OtherReleases \/ OtherSource

Steps(b) ==
    \/ Start(b) \/ Disclosed(b) \/ DisclosurePanics(b) \/ SingleEnds(b)
    \/ WaitCancelled(b) \/ WaitExpires(b) \/ TooLate(b) \/ Dispatch(b)
    \/ Reported(b) \/ Panics(b) \/ GivesUpWaiting(b)
    \/ BatchReturns(b) \/ AloneReturns(b)

Next ==
    \/ Loop \/ QueueWakes
    \/ \E b \in Requests : Steps(b)
    \/ \E s \in AcquireSteps : AcquireWorks(s) \/ PageTaken(s)
    \/ Environment

\* The task goes on when it is woken; foreign code returns; time passes.  An
\* adapter need not answer: the timer ends that wait.
Fairness ==
    /\ WF_vars(Loop) /\ WF_vars(Tick) /\ WF_vars(QueueWakes)
    /\ \A b \in UNION {Range(l.requests) : l \in Loads} :
        /\ WF_vars(b \in Requests /\ (Start(b) \/ Disclosed(b) \/ DisclosurePanics(b)))
        /\ WF_vars(b \in Requests /\ (WaitCancelled(b) \/ WaitExpires(b) \/ TooLate(b)))
        /\ WF_vars(b \in Requests /\ GivesUpWaiting(b))
        /\ WF_vars(b \in Requests /\ (SingleEnds(b) \/ BatchReturns(b)))
        /\ WF_vars(b \in Requests /\ AloneReturns(b))
    /\ \A s \in UNION {Range(l.acquires) : l \in Loads} :
        /\ WF_vars(s \in AcquireSteps /\ acq[s].pc # "running" /\ AcquireWorks(s))
        /\ WF_vars(s \in AcquireSteps /\ acq[s].pc = "running" /\ Halted(s) /\ AcquireWorks(s))
        /\ WF_vars(s \in AcquireSteps /\ PageTaken(s))

Spec == Init /\ [][Next]_vars /\ Fairness

-----------------------------------------------------------------------------
(* Properties.                                                             *)

Running == {b \in Requests : batch[b].pc = "running"}

\* What the decision reserves is what its unsettled batches admitted, whatever
\* refused, panicked, expired or was cancelled on the way; only a batch dropped
\* while it waits for its permit leaves more (driver.rs 1455-1533, 1708).
ReservationsExact ==
    LET held == {b \in Requests : batch[b].pc \in {"disclose", "acquire", "running"}}
    IN ledger.reserved = Sum([b \in Requests |-> Total(batch[b].adm)], held)
                         + MapThenSumSet(LAMBDA s : acq[s].units, At("spend") \cup At("running"))
                         + leaked

\* Every permit is free, another decision's, or a dispatched batch's.
PermitsExact == free + others + Cardinality(Running) = Permits

\* The shares recorded with the members of a batch sum to what the ledger was
\* charged, each batch has one owner, and the liability the ledger keeps is the
\* one its members link (driver.rs 1667-1675, 1708-1716).
SharesExact ==
    ~gone =>
        LET sent == {r \in Requests : outcome[r] # None /\ outcome[r].sent}
            owners == {r \in sent : outcome[r].owner}
        IN /\ ledger.observed = Sum([r \in Requests |-> IF r \in sent THEN outcome[r].share ELSE 0],
                                    Requests) + TotalOf("charged")
           /\ ledger.liability = Sum([r \in Requests |-> IF r \in owners THEN outcome[r].link
                                                         ELSE 0], Requests) + TotalOf("owed")
           /\ \A b \in Requests : Members(b) \cap sent # {} =>
                /\ Cardinality(Members(b) \cap owners) = 1
                /\ Cardinality({outcome[r].link : r \in Members(b) \cap sent}) = 1

\* The decision's books are exact at every step of its batches: reservations,
\* permits, the charge and its shares (drive_batch, conclude_batch).
BooksExact == ReservationsExact /\ PermitsExact /\ SharesExact /\ SourceExact

\* Whatever order an adapter reports in, and whatever it leaves out, repeats (twice
\* or more often) or says of a request that is not the batch's, a member is given
\* the output, or the cancellation, that exactly one report under its id says, and
\* otherwise fails; no member's end depends on another's reports (conclude_batch).
MembersApart ==
    \A b \in Requests : batch[b].told # None =>
        \A r \in Admitted(b) :
            LET mine == {i \in DOMAIN batch[b].told : batch[b].told[i].req = r}
                only == {batch[b].told[i].result : i \in mine}
            IN /\ (outcome[r].result = "output") <=> (Cardinality(mine) = 1 /\ only = {"output"})
               /\ outcome[r].result = "cancelled" => Cardinality(mine) = 1 /\ only = {"cancelled"}
               /\ outcome[r].result \in Results

\* The requests under way never exceed max_parallel_requests, batches count by
\* their members, and each batch keeps every hard bound of the policy and holds
\* requests of one group (driver.rs 327-331, 1318-1376).
WavesBounded ==
    /\ Cardinality(alone \cup UNION {Members(b) : b \in Live}) + Cardinality(Acquiring)
       <= MaxParallel
    /\ WithinWindow
    /\ \A b \in Requests : batch[b].cand # <<>> =>
        /\ Len(batch[b].cand) \in 2..load.maxMembers
        /\ Sum(load.bytes, Members(b)) <= load.maxBytes
        /\ Sum(load.work, Members(b)) <= load.maxWork
        /\ Cardinality({load.group[r] : r \in Members(b)}) = 1

\* Every request of a decision that is not dropped is answered, whether the
\* batch waits for a permit another decision keeps or for an adapter that never
\* answers (driver.rs 1411-1664).
EveryRequestEnds == <>(gone \/ Over)
=============================================================================
