------------------------------- MODULE Decide -------------------------------
(***************************************************************************)
(* A call of Runtime::decide from submission to return                     *)
(* (crates/rustev-runtime/src/lib.rs, run and admit), composed with the    *)
(* evidence delivery of EvidenceSink: the live set that refuses an id      *)
(* already running, admission by max_in_flight permits behind a queue of   *)
(* max_queued places, the run itself, delivery while the permit is held,   *)
(* and the guards that release everything when the call returns, fails or  *)
(* is dropped by its caller at an await.                                   *)
(*                                                                         *)
(* What a run does between admission and its record (requests, generation, *)
(* caches) is one step with its three endings; Ledger and SharedCall model *)
(* parts of it.                                                            *)
(***************************************************************************)
EXTENDS EvidenceSink

CONSTANT
    Traffics   \* what the callers do, and the runtime's limits

ASSUME DecideAssumption ==
    \A t \in Traffics :
        /\ DOMAIN t.idOf = Decisions
        /\ t.invalid \cup t.expirable \cup t.cancellable \cup t.droppable
             \cup t.writing \subseteq Decisions
        /\ t.policies \subseteq Policies
        /\ t.maxInFlight \in Nat \ {0} /\ t.maxQueued \in Nat

VARIABLES
    traffic,    \* what is fixed for a behaviour
    phase,      \* where each call is
    permits,    \* free admission permits of the semaphore
    waiters,    \* calls in the semaphore's line, oldest first
    granted,    \* calls the semaphore has assigned a permit they have not seen
    queued,     \* the count of places taken in the admission queue
    live,       \* ids of the calls that hold a Live guard
    rejected,   \* counter of rejections
    abandoned,  \* counter of abandoned calls
    expired,    \* calls whose deadline has passed
    cancelled   \* calls whose caller has cancelled

callVars == <<traffic, phase, permits, waiters, granted, queued, live, rejected, abandoned,
              expired, cancelled>>

vars == <<callVars, sinkVars>>

IdOf == traffic.idOf                 \* the decision id of each call
Invalid == traffic.invalid           \* calls with an id or a snapshot that is refused
MaxInFlight == traffic.maxInFlight   \* admission permits
MaxQueued == traffic.maxQueued       \* places in the admission queue
Expirable == traffic.expirable       \* calls whose deadline may pass
Cancellable == traffic.cancellable   \* calls whose caller may cancel
Droppable == traffic.droppable       \* calls whose caller may drop the future
Writing == traffic.writing           \* calls whose judgment the persistent tier may keep

Ids == {IdOf[d] : d \in Decisions}

Ended == {"returned", "rejected", "failed", "dropped", "left"}

-----------------------------------------------------------------------------

Init ==
    /\ SinkInit
    /\ traffic \in Traffics /\ policy \in traffic.policies
    /\ phase = [d \in Decisions |-> "new"]
    /\ permits = MaxInFlight
    /\ waiters = <<>>
    /\ granted = {}
    /\ queued = 0
    /\ live = {}
    /\ rejected = 0
    /\ abandoned = 0
    /\ expired = {}
    /\ cancelled = {}

\* External, tokio's semaphore: a released permit goes to the oldest waiter.
PassOn(rest) ==
    IF waiters = <<>>
    THEN /\ permits' = permits + 1
         /\ granted' = rest
         /\ UNCHANGED waiters
    ELSE /\ granted' = rest \cup {Head(waiters)}
         /\ waiters' = Tail(waiters)
         /\ UNCHANGED permits

Release == PassOn(granted)

InLine == {waiters[i] : i \in 1..Len(waiters)}

\* External, tokio's semaphore: a waiter that is dropped leaves its place.
Without(s, d) ==
    LET i == CHOOSE i \in 1..Len(s) : s[i] = d
    IN  SubSeq(s, 1, i - 1) \o SubSeq(s, i + 1, Len(s))

\* The call ends; its Live guard takes the id out.
End(d, how) ==
    /\ phase' = [phase EXCEPT ![d] = how]
    /\ live' = live \ {IdOf[d]}

\* The reject closure: counted as rejected, and no longer as abandoned.
Reject(d) ==
    /\ End(d, "rejected")
    /\ rejected' = rejected + 1
    /\ UNCHANGED abandoned

\* A call refused before it has a Live guard leaves the live set alone.
Refused(d) ==
    /\ phase' = [phase EXCEPT ![d] = "rejected"]
    /\ rejected' = rejected + 1
    /\ UNCHANGED <<live, abandoned>>

(***************************************************************************)
(* run, up to admission: the id and the snapshot are checked, then the id  *)
(* enters the live set unless it is there.                                 *)
(***************************************************************************)
Submit(d) ==
    /\ phase[d] = "new"
    /\ \/ /\ d \in Invalid \/ IdOf[d] \in live
          /\ Refused(d)
       \/ /\ d \notin Invalid
          /\ IdOf[d] \notin live
          /\ live' = live \cup {IdOf[d]}
          /\ phase' = [phase EXCEPT ![d] = "submitted"]
          /\ UNCHANGED <<rejected, abandoned>>
    /\ UNCHANGED <<permits, waiters, granted, queued, expired, cancelled, traffic, sinkVars>>

\* admit: a free permit is taken at once.
TryAcquire(d) ==
    /\ phase[d] = "submitted"
    /\ IF permits > 0
       THEN /\ permits' = permits - 1
            /\ phase' = [phase EXCEPT ![d] = "running"]
       ELSE /\ phase' = [phase EXCEPT ![d] = "queueing"]
            /\ UNCHANGED permits
    /\ UNCHANGED <<waiters, granted, queued, live, rejected, abandoned, expired,
                   cancelled, traffic, sinkVars>>

\* admit: the compare-exchange loop takes a place in the queue, or the call is
\* overloaded, whatever has been released since its try.
Enqueue(d) ==
    /\ phase[d] = "queueing"
    /\ IF queued >= MaxQueued
       THEN Reject(d) /\ UNCHANGED queued
       ELSE /\ queued' = queued + 1
            /\ phase' = [phase EXCEPT ![d] = "waiting"]
            /\ UNCHANGED <<live, rejected, abandoned>>
    /\ UNCHANGED <<permits, waiters, granted, expired, cancelled, traffic, sinkVars>>

\* The first poll of acquire_owned takes a free permit or joins the line.
JoinLine(d) ==
    /\ phase[d] = "waiting"
    /\ d \notin granted
    /\ d \notin InLine
    /\ IF permits > 0
       THEN /\ permits' = permits - 1
            /\ granted' = granted \cup {d}
            /\ UNCHANGED waiters
       ELSE /\ waiters' = Append(waiters, d)
            /\ UNCHANGED <<permits, granted>>
    /\ UNCHANGED <<phase, queued, live, rejected, abandoned, expired, cancelled, traffic, sinkVars>>

\* admit: the wait ends with a permit before the deadline.
Admit(d) ==
    /\ d \in granted
    /\ d \notin expired
    /\ granted' = granted \ {d}
    /\ queued' = queued - 1
    /\ phase' = [phase EXCEPT ![d] = "running"]
    /\ UNCHANGED <<permits, waiters, live, rejected, abandoned, expired, cancelled, traffic, sinkVars>>

LateGrant_kept(d) ==
    /\ d \in granted
    /\ d \in expired
    /\ granted' = granted \ {d}
    /\ UNCHANGED <<permits, waiters>>
    /\ queued' = queued - 1
    /\ Reject(d)
    /\ UNCHANGED <<expired, cancelled, traffic, sinkVars>>

\* admit: the permit comes at or after the deadline and goes on to the next.
LateGrant(d) ==
    /\ d \in granted
    /\ d \in expired
    /\ PassOn(granted \ {d})
    /\ queued' = queued - 1
    /\ Reject(d)
    /\ UNCHANGED <<expired, cancelled, traffic, sinkVars>>

\* admit: cancelled, or past the deadline, while in line without a permit.
LeaveLine(d) ==
    /\ phase[d] = "waiting"
    /\ d \in InLine
    /\ d \in expired \cup cancelled
    /\ waiters' = Without(waiters, d)
    /\ queued' = queued - 1
    /\ Reject(d)
    /\ UNCHANGED <<permits, granted, expired, cancelled, traffic, sinkVars>>

\* run: judged or cancelled, the record is built and its delivery begins.
RunEnds(d) ==
    /\ phase[d] = "running"
    /\ phase' = [phase EXCEPT ![d] = "delivering"]
    /\ Deliver(d)
    /\ UNCHANGED <<permits, waiters, granted, queued, live, rejected, abandoned, expired,
                   cancelled, traffic>>

\* run: the generation stage fails on an invariant; no record is built, the
\* Abandon guard is still armed.
RunFails(d) ==
    /\ phase[d] = "running"
    /\ End(d, "failed")
    /\ Release
    /\ abandoned' = abandoned + 1
    /\ UNCHANGED <<queued, rejected, expired, cancelled, traffic, sinkVars>>

\* The delivery was accepted, so the judgment may be kept.
Accepted(d) == outcome[d] \in {"acknowledged", "queued", "dropped"}

\* run: the record is delivered, the Abandon guard is disarmed, and the
\* judgment's entry is written to the persistent store.
WritesEntry(d) ==
    /\ phase[d] = "delivering"
    /\ dpc[d] = "done"
    /\ d \in Writing /\ Accepted(d)
    /\ phase' = [phase EXCEPT ![d] = "writing"]
    /\ UNCHANGED <<permits, waiters, granted, queued, live, rejected, abandoned, expired,
                   cancelled, traffic, sinkVars>>

\* run: delivery is over, with or without a receipt, or the store has answered
\* or timed out, and the call returns.
Returns(d) ==
    /\ \/ phase[d] = "delivering" /\ dpc[d] = "done" /\ ~(d \in Writing /\ Accepted(d))
       \/ phase[d] = "writing"
    /\ End(d, "returned")
    /\ Release
    /\ UNCHANGED <<queued, rejected, abandoned, expired, cancelled, traffic, sinkVars>>

\* The caller drops the future in the admission queue.
DropWaiting(d) ==
    /\ phase[d] = "waiting"
    /\ d \in granted \cup InLine
    /\ IF d \in InLine
       THEN /\ waiters' = Without(waiters, d)
            /\ UNCHANGED <<permits, granted>>
       ELSE PassOn(granted \ {d})
    /\ queued' = queued - 1
    /\ UNCHANGED sinkVars

\* The caller drops the future at an await of the run or of its delivery.
DropRunning(d) ==
    /\ \/ /\ phase[d] = "running"
          /\ UNCHANGED sinkVars
       \/ /\ phase[d] = "delivering"
          /\ DropDelivery(d)
    /\ Release
    /\ UNCHANGED queued

\* The caller drops the future while the store is awaited: the call is not
\* counted as abandoned any more.
DropWriting(d) ==
    /\ phase[d] = "writing"
    /\ Release
    /\ End(d, "left")
    /\ UNCHANGED <<queued, abandoned, sinkVars>>

\* The guards of a dropped future release what it holds and count it.
Drop(d) ==
    /\ d \in Droppable
    /\ \/ /\ DropWaiting(d) \/ DropRunning(d)
          /\ End(d, "dropped")
          /\ abandoned' = abandoned + 1
       \/ DropWriting(d)
    /\ UNCHANGED <<rejected, expired, cancelled, traffic>>

Expire(d) ==
    /\ d \in Expirable \ expired
    /\ phase[d] \in {"submitted", "queueing", "waiting"}
    /\ expired' = expired \cup {d}
    /\ UNCHANGED <<phase, permits, waiters, granted, queued, live, rejected, abandoned,
                   cancelled, traffic, sinkVars>>

Cancel(d) ==
    /\ d \in Cancellable \ cancelled
    /\ phase[d] \in {"submitted", "queueing", "waiting"}
    /\ cancelled' = cancelled \cup {d}
    /\ UNCHANGED <<phase, permits, waiters, granted, queued, live, rejected, abandoned,
                   expired, traffic, sinkVars>>

Deliveries(d) == Delivering(d) /\ UNCHANGED callVars

Delivery == (Worker \/ Stop) /\ UNCHANGED callVars

\* Every step of a call that its task takes when polled.
Polled(d) ==
    \/ TryAcquire(d) \/ Enqueue(d) \/ JoinLine(d) \/ Admit(d) \/ LateGrant(d)
    \/ LeaveLine(d) \/ RunEnds(d) \/ RunFails(d) \/ WritesEntry(d) \/ Returns(d)

Next ==
    \/ \E d \in Decisions :
         Submit(d) \/ Polled(d) \/ Drop(d) \/ Expire(d) \/ Cancel(d) \/ Deliveries(d)
    \/ Delivery

Spec == Init /\ [][Next]_vars

\* The executor polls every task that can move, timers fire and every run ends,
\* which its deadline sees to.  Nothing makes the sink answer, a caller submit,
\* cancel or drop, or a run fail.
Fairness ==
    /\ \A d \in Decisions :
         /\ WF_vars(TryAcquire(d) \/ Enqueue(d) \/ JoinLine(d) \/ Admit(d)
                      \/ LateGrant(d) \/ LeaveLine(d) \/ RunEnds(d) \/ WritesEntry(d)
                      \/ Returns(d))
         /\ WF_vars((InlineTimeout(d) \/ Reserve(d) \/ Send(d) \/ ReserveExpired(d)
                      \/ ReserveStopped(d) \/ TrySend(d) \/ Uncount(d))
                      /\ UNCHANGED callVars)
    /\ WF_vars((Take \/ Begin \/ WorkerTimeout \/ Resolve) /\ UNCHANGED callVars)

FairSpec == Spec /\ Fairness

-----------------------------------------------------------------------------

\* Type correctness of the state of the calls and of admission.
TypeOK ==
    /\ traffic \in Traffics
    /\ phase \in [Decisions -> {"new", "submitted", "queueing", "waiting", "running",
                                "delivering", "writing"} \cup Ended]
    /\ permits \in 0..MaxInFlight
    /\ waiters \in Seq(Decisions)
    /\ granted \in SUBSET Decisions
    /\ queued \in Nat
    /\ live \in SUBSET Ids
    /\ rejected \in Nat /\ abandoned \in Nat
    /\ expired \in SUBSET Decisions /\ cancelled \in SUBSET Decisions

Holders == {d \in Decisions : phase[d] \in {"running", "delivering", "writing"}}

\* No admission permit is lost or made, whichever way a call leaves (returned,
\* failed, rejected with a permit in hand, dropped in line, running or while its
\* record is delivered); so at most max_in_flight calls ever run.
PermitsConserved ==
    permits + Cardinality(granted) + Cardinality(Holders) = MaxInFlight

\* A free permit never stands beside a call that waits in line for one.
NoIdlePermit == waiters # <<>> => permits = 0

\* The admission queue's count is the number of calls that wait, never more than
\* max_queued, through every interleaving of arrivals, grants, expiries and drops.
QueueWithinBound ==
    /\ queued = Cardinality({d \in Decisions : phase[d] = "waiting"})
    /\ queued <= MaxQueued

\* Two calls with one decision id are never both past submission and unended, so
\* the attempt ids made from it are unique; the id is free again once it ends.
OneLiveCallPerId ==
    LET past == {d \in Decisions : phase[d] \notin Ended \cup {"new"}}
    IN  /\ live = {IdOf[d] : d \in past}
        /\ \A d, e \in past : IdOf[d] = IdOf[e] => d = e

\* Admission's books are exact at every step of admit, run and their guards:
\* permits, the line, the count of the queue and the live ids.
AdmissionExact ==
    TypeOK /\ PermitsConserved /\ NoIdlePermit /\ QueueWithinBound /\ OneLiveCallPerId

\* rejected and abandoned are exactly the calls that ended so: abandoned the ones
\* that failed in generation or were dropped, except those dropped while their
\* entry is written, whose record had been accepted (DropIsAbandoned is what the
\* comment at the Abandon guard says).  So it is with the records (EachCountedOnce),
\* and one without a word because its caller left is a call dropped as abandoned:
\* nothing else goes uncounted while the worker runs.
EndsCountedOnce ==
    /\ EachCountedOnce
    /\ rejected = Cardinality({d \in Decisions : phase[d] = "rejected"})
    /\ abandoned = Cardinality({d \in Decisions : phase[d] \in {"failed", "dropped"}})
    /\ \A d \in Decisions : phase[d] = "left" => Accepted(d)
    /\ \A d \in Decisions : Verdict(d) = "gone" => phase[d] = "dropped"

\* What run's comment says of its Abandon guard (lib.rs:1055-1056, "Dropping this
\* future at any point after here, queued or admitted, counts as abandoned"): it
\* does not, once the guard is disarmed and the store is awaited.
DropIsAbandoned ==
    abandoned = Cardinality({d \in Decisions : phase[d] \in {"failed", "dropped", "left"}})

\* A submitted call ends even if nobody cancels, no deadline passes while it is
\* in line and the sink never answers: permits come round, through a delivery
\* queue that the worker empties by its timeout alone.  And a queued record's
\* ticket resolves, unless the worker is stopped.
EveryCallEnds ==
    /\ \A d \in Decisions : (phase[d] # "new") ~> (phase[d] \in Ended)
    /\ \A d \in Decisions : (outcome[d] = "queued") ~> (Closed \/ ticket[d] # "pending")
=============================================================================
