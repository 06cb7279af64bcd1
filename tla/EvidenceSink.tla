---------------------------- MODULE EvidenceSink ----------------------------
(***************************************************************************)
(* Evidence delivery (crates/rustev-runtime/src/sink.rs, and               *)
(* Runtime::deliver of lib.rs).  A decision that has its run record hands  *)
(* it to the sink under one of three policies: inline, or through a        *)
(* bounded queue to the one delivery worker, waiting for a slot or         *)
(* dropping the record.                                                    *)
(*                                                                         *)
(* Between two of its atomic operations (a counter, the channel, an await) *)
(* a decision and the worker can interleave with all the others, so each   *)
(* of those is a step here.  The channel is tokio's bounded mpsc: a slot   *)
(* is taken by a reservation or a send and freed when the worker takes the *)
(* record out.                                                             *)
(***************************************************************************)
EXTENDS Naturals, Sequences, FiniteSets

CONSTANTS
    Decisions,    \* the decisions; each builds at most one run record
    Policies,     \* the sink policies a runtime may be built with
    MaxPending,   \* slots of the delivery queue
    CanStop,      \* may the worker's task be stopped with its executor?
    NoJob         \* the worker holds no record

ASSUME SinkAssumption ==
    /\ IsFiniteSet(Decisions)
    /\ Policies \subseteq {"fail_decision", "backpressure", "drop_counted"}
    /\ MaxPending \in Nat \ {0}
    /\ CanStop \in BOOLEAN
    /\ NoJob \notin Decisions

VARIABLES
    policy,     \* the runtime's sink policy, which never changes
    dpc,        \* where each decision is in deliver
    outcome,    \* what deliver returned to each decision
    ticket,     \* what the delivery ticket of a queued record resolves to
    queue,      \* records waiting in the channel, oldest first
    worker,     \* the worker: where it is, its record and that one's result
    stats,      \* the in-memory counters
    handed,     \* how often each record was given to the sink
    received    \* records the sink has accepted and holds

sinkVars == <<policy, dpc, outcome, ticket, queue, worker, stats, handed, received>>

-----------------------------------------------------------------------------

(***************************************************************************)
(* How one call of the sink can end: a receipt, the sink's own error, a    *)
(* panic in it, or no answer within the timeout.                           *)
(***************************************************************************)
Answers == {"acknowledged", "error", "panic"}

Endings == Answers \cup {"timeout"}

Uncertain_only_panic(r) == r \in {"panic", "lost"}

\* DeliveryFailure::uncertain: the sink may hold the record all the same.
Uncertain(r) == r \in {"panic", "timeout", "lost"}

\* External, the sink: whether it holds the record after a call ended so.  It
\* keeps what it acknowledged and not what it refused; otherwise either.
Keeps(d, r) ==
    \/ /\ r # "error"
       /\ received' = received \cup {d}
    \/ /\ r # "acknowledged"
       /\ UNCHANGED received

\* deliver_once counts an ending; a timeout is counted as a failure too.
Counted(s, r) ==
    [s EXCEPT !.acknowledged = @ + (IF r = "acknowledged" THEN 1 ELSE 0),
              !.failed = @ + (IF r = "acknowledged" THEN 0 ELSE 1),
              !.timed_out = @ + (IF r = "timeout" THEN 1 ELSE 0)]

-----------------------------------------------------------------------------

SinkInit ==
    /\ policy \in Policies
    /\ dpc = [d \in Decisions |-> "idle"]
    /\ outcome = [d \in Decisions |-> "none"]
    /\ ticket = [d \in Decisions |-> "none"]
    /\ queue = <<>>
    /\ worker = [at |-> "recv", job |-> NoJob, result |-> "none"]
    /\ stats = [acknowledged |-> 0, failed |-> 0, timed_out |-> 0,
                dropped |-> 0, queued |-> 0, in_delivery |-> 0]
    /\ handed = [d \in Decisions |-> 0]
    /\ received = {}

Closed == worker.at = "stopped"

Reservations == {d \in Decisions : dpc[d] = "reserved"}

\* External, tokio's mpsc: a reservation holds a slot as a queued record does.
HasSlot == Len(queue) + Cardinality(Reservations) < MaxPending

\* deliver returns r to decision d.
Return(d, r) ==
    /\ dpc' = [dpc EXCEPT ![d] = "done"]
    /\ outcome' = [outcome EXCEPT ![d] = r]

(***************************************************************************)
(* Runtime::deliver, up to its first await or its first send.  Under       *)
(* drop_counted the gauge counts the record before the send is tried, so   *)
(* that the worker never subtracts what was not added.                     *)
(***************************************************************************)
Deliver(d) ==
    /\ dpc[d] = "idle"
    /\ \/ /\ policy = "fail_decision"
          /\ dpc' = [dpc EXCEPT ![d] = "inline"]
          /\ handed' = [handed EXCEPT ![d] = @ + 1]
          /\ UNCHANGED stats
       \/ /\ policy = "backpressure"
          /\ dpc' = [dpc EXCEPT ![d] = "reserve"]
          /\ UNCHANGED <<stats, handed>>
       \/ /\ policy = "drop_counted"
          /\ dpc' = [dpc EXCEPT ![d] = "try"]
          /\ stats' = [stats EXCEPT !.queued = @ + 1]
          /\ UNCHANGED handed
    /\ UNCHANGED <<policy, outcome, ticket, queue, worker, received>>

\* fail_decision: the sink answers, or panics, within the timeout.
InlineEnds(d, r) ==
    /\ dpc[d] = "inline"
    /\ Return(d, r)
    /\ stats' = Counted(stats, r)
    /\ Keeps(d, r)
    /\ UNCHANGED <<policy, ticket, queue, worker, handed>>

InlineAnswered(d) == \E r \in Answers : InlineEnds(d, r)

InlineTimeout(d) == InlineEnds(d, "timeout")

\* backpressure: a slot is reserved and the gauge counts the record.
Reserve(d) ==
    /\ dpc[d] = "reserve"
    /\ ~Closed
    /\ HasSlot
    /\ dpc' = [dpc EXCEPT ![d] = "reserved"]
    /\ stats' = [stats EXCEPT !.queued = @ + 1]
    /\ UNCHANGED <<policy, outcome, ticket, queue, worker, handed, received>>

\* backpressure: the record goes into the reserved slot.  A worker that
\* stopped since the reservation is not noticed.
Send(d) ==
    /\ dpc[d] = "reserved"
    /\ queue' = Append(queue, d)
    /\ ticket' = [ticket EXCEPT ![d] = "pending"]
    /\ Return(d, "queued")
    /\ UNCHANGED <<policy, worker, stats, handed, received>>

ReserveExpired_uncounted(d) ==
    /\ dpc[d] = "reserve"
    /\ ~Closed
    /\ ~HasSlot
    /\ Return(d, "no_slot")
    /\ UNCHANGED <<policy, ticket, queue, worker, handed, received, stats>>

\* backpressure: no slot within enqueue_timeout_ms; a slot that is free in the
\* poll that sees the expiry wins.
ReserveExpired(d) ==
    /\ dpc[d] = "reserve"
    /\ ~Closed
    /\ ~HasSlot
    /\ Return(d, "no_slot")
    /\ stats' = [stats EXCEPT !.failed = @ + 1]
    /\ UNCHANGED <<policy, ticket, queue, worker, handed, received>>

\* backpressure: the worker is gone.
ReserveStopped(d) ==
    /\ dpc[d] = "reserve"
    /\ Closed
    /\ Return(d, "stopped")
    /\ UNCHANGED <<policy, ticket, queue, worker, stats, handed, received>>

\* drop_counted: try_send finds a slot, a full queue or a closed channel.
TrySend(d) ==
    /\ dpc[d] = "try"
    /\ \/ /\ ~Closed
          /\ HasSlot
          /\ queue' = Append(queue, d)
          /\ ticket' = [ticket EXCEPT ![d] = "pending"]
          /\ Return(d, "queued")
       \/ /\ ~Closed
          /\ ~HasSlot
          /\ dpc' = [dpc EXCEPT ![d] = "full"]
          /\ UNCHANGED <<outcome, ticket, queue>>
       \/ /\ Closed
          /\ dpc' = [dpc EXCEPT ![d] = "closed"]
          /\ UNCHANGED <<outcome, ticket, queue>>
    /\ UNCHANGED <<policy, worker, stats, handed, received>>

Uncount_kept(d) ==
    /\ \/ /\ dpc[d] = "full"
          /\ stats' = [stats EXCEPT !.dropped = @ + 1]
          /\ Return(d, "dropped")
       \/ /\ dpc[d] = "closed"
          /\ stats' = [stats EXCEPT !.queued = @ - 1]
          /\ Return(d, "stopped")
    /\ UNCHANGED <<policy, ticket, queue, worker, handed, received>>

\* drop_counted: the gauge gives back the record that was not sent.
Uncount(d) ==
    /\ \/ /\ dpc[d] = "full"
          /\ stats' = [stats EXCEPT !.queued = @ - 1, !.dropped = @ + 1]
          /\ Return(d, "dropped")
       \/ /\ dpc[d] = "closed"
          /\ stats' = [stats EXCEPT !.queued = @ - 1]
          /\ Return(d, "stopped")
    /\ UNCHANGED <<policy, ticket, queue, worker, handed, received>>

(***************************************************************************)
(* The caller drops the decision's future at an await of deliver.  Nothing *)
(* is counted here; the sink may hold a record it was already given.       *)
(***************************************************************************)
DropDelivery(d) ==
    /\ \/ /\ dpc[d] = "inline"
          /\ Keeps(d, "lost")
       \/ /\ dpc[d] = "reserve"
          /\ UNCHANGED received
    /\ Return(d, "gone")
    /\ UNCHANGED <<policy, ticket, queue, worker, stats, handed>>

-----------------------------------------------------------------------------

\* worker: recv takes the oldest record out and frees its slot.
Take ==
    /\ worker.at = "recv"
    /\ queue # <<>>
    /\ worker' = [worker EXCEPT !.at = "taken", !.job = Head(queue)]
    /\ queue' = Tail(queue)
    /\ UNCHANGED <<policy, dpc, outcome, ticket, stats, handed, received>>

\* worker: the gauges move, and the sink is given the record.
Begin ==
    /\ worker.at = "taken"
    /\ worker' = [worker EXCEPT !.at = "deliver"]
    /\ stats' = [stats EXCEPT !.queued = @ - 1, !.in_delivery = @ + 1]
    /\ handed' = [handed EXCEPT ![worker.job] = @ + 1]
    /\ UNCHANGED <<policy, dpc, outcome, ticket, queue, received>>

WorkerEnds(r) ==
    /\ worker.at = "deliver"
    /\ worker' = [worker EXCEPT !.at = "answered", !.result = r]
    /\ stats' = Counted(stats, r)
    /\ Keeps(worker.job, r)
    /\ UNCHANGED <<policy, dpc, outcome, ticket, queue, handed>>

WorkerAnswered == \E r \in Answers : WorkerEnds(r)

WorkerTimeout_never == FALSE /\ UNCHANGED sinkVars

WorkerTimeout == WorkerEnds("timeout")

\* worker: the ticket resolves to the result, and the worker goes on.
Resolve ==
    /\ worker.at = "answered"
    /\ worker' = [worker EXCEPT !.at = "recv", !.job = NoJob, !.result = "none"]
    /\ stats' = [stats EXCEPT !.in_delivery = @ - 1]
    /\ ticket' = [ticket EXCEPT ![worker.job] = worker.result]
    /\ UNCHANGED <<policy, dpc, outcome, queue, handed, received>>

Queued == {queue[i] : i \in 1..Len(queue)}

(***************************************************************************)
(* External: the executor drops the worker's task at an await.  The        *)
(* channel closes, and the tickets of the records in it, and of the one in *)
(* delivery, resolve as "the delivery worker stopped".                     *)
(***************************************************************************)
Stop ==
    /\ CanStop
    /\ worker.at \in {"recv", "deliver"}
    /\ worker' = [worker EXCEPT !.at = "stopped"]
    /\ ticket' = [d \in Decisions |->
                    IF d \in Queued \/ d = worker.job THEN "lost" ELSE ticket[d]]
    /\ queue' = <<>>
    /\ \/ UNCHANGED received
       \/ /\ worker.at = "deliver"
          /\ received' = received \cup {worker.job}
    /\ UNCHANGED <<policy, dpc, outcome, stats, handed>>

Worker == Take \/ Begin \/ WorkerAnswered \/ WorkerTimeout \/ Resolve

\* The steps of deliver after its start.
Delivering(d) ==
    \/ InlineAnswered(d) \/ InlineTimeout(d)
    \/ Reserve(d) \/ Send(d) \/ ReserveExpired(d) \/ ReserveStopped(d)
    \/ TrySend(d) \/ Uncount(d)

-----------------------------------------------------------------------------

Results == Endings \cup {"lost", "none", "pending", "queued", "dropped",
                         "no_slot", "stopped", "gone"}

\* What finally became of a record, as its caller knows it.
Verdict(d) == IF outcome[d] = "queued" THEN ticket[d] ELSE outcome[d]

\* Type correctness of the state of deliver, the channel, worker and counters.
SinkTypeOK ==
    /\ policy \in Policies
    /\ dpc \in [Decisions -> {"idle", "inline", "reserve", "reserved", "try",
                              "full", "closed", "done"}]
    /\ outcome \in [Decisions -> Results]
    /\ ticket \in [Decisions -> Endings \cup {"none", "pending", "lost"}]
    /\ queue \in Seq(Decisions)
    /\ worker \in [at : {"recv", "taken", "deliver", "answered", "stopped"},
                   job : Decisions \cup {NoJob}, result : Endings \cup {"none"}]
    /\ stats \in [acknowledged : Nat, failed : Nat, timed_out : Nat, dropped : Nat,
                  queued : Nat, in_delivery : Nat]
    /\ handed \in [Decisions -> Nat]
    /\ received \in SUBSET Decisions

\* At most max_pending records wait for the worker: in the channel or in a slot
\* reserved for them, whichever policy fills it (sink.rs:2-3, "at most
\* `max_pending` records wait and one is in delivery").
QueueBounded == Len(queue) + Cardinality(Reservations) <= MaxPending

\* The caller is told the truth about the sink: a receipt only for a record it
\* holds, and a failure without `uncertain` only for one it does not hold, on
\* every path (inline, ticket, no slot, dropped, worker stopped).  And the sink
\* was given the record at most once, by the decision or by the worker: the
\* runtime never retries a delivery (sink.rs:3-4).
VerdictHonest ==
    \A d \in Decisions :
        /\ handed[d] <= 1
        /\ Verdict(d) = "acknowledged" => d \in received
        /\ /\ Verdict(d) \notin {"none", "pending", "acknowledged", "gone"}
           /\ ~Uncertain(Verdict(d))
           => d \notin received

\* The record the worker has an answer for but has not reported.
Answered(r) == {d \in Decisions : worker.at = "answered" /\ worker.job = d /\ worker.result = r}

\* The endings deliver counts nowhere: the worker was stopped before it took the
\* record (`Err(stopped())`) or with it (the ticket's "the delivery worker
\* stopped"), or the caller dropped the delivery.
Uncounted == {"stopped", "lost", "gone"}

\* acknowledged, failed and dropped are exactly the records that ended so,
\* whoever counted them and in whatever order, and timed_out is the part of
\* failed that timed out (deliver_once, deliver).  A record with any other final
\* word, in no counter, is one whose worker was stopped or whose caller left.
EachCountedOnce ==
    LET ended(rs) == {d \in Decisions : Verdict(d) \in rs}
                       \cup UNION {Answered(r) : r \in rs}
    IN  /\ stats.acknowledged = Cardinality(ended({"acknowledged"}))
        /\ stats.failed = Cardinality(ended({"error", "panic", "timeout", "no_slot"}))
        /\ stats.timed_out = Cardinality(ended({"timeout"}))
        /\ stats.dropped = Cardinality(ended({"dropped"}))
        /\ \A d \in Decisions : Verdict(d) \in Uncounted \ {"gone"} => Closed

\* The `queued` gauge never goes below what the worker will take off it, so its
\* fetch_sub never wraps: while the worker runs it counts exactly the records in
\* the channel, those about to enter or to be given up, and the one just taken.
GaugeExact ==
    ~Closed =>
        stats.queued = Len(queue)
            + Cardinality({d \in Decisions : dpc[d] \in {"reserved", "try", "full"}})
            + (IF worker.at = "taken" THEN 1 ELSE 0)

\* The channel and its gauge agree through every order of reservations, sends,
\* refusals, drops and receipts (deliver, worker).
QueueExact == SinkTypeOK /\ QueueBounded /\ GaugeExact
=============================================================================
