---------------------------- MODULE CancelSignal ----------------------------
(***************************************************************************)
(* The one-way cancellation signal with children                           *)
(* (crates/rustev-core/src/seams.rs: CancelSignal, Inner, State).          *)
(*                                                                         *)
(* A signal is an atomic flag, and a mutex over the wakers and the weak    *)
(* children to reach when it is raised.  The flag is swapped and read with *)
(* or without the mutex, always SeqCst, so threads interleave at each of   *)
(* those accesses.  The first swap of a signal runs the rest of raise, so  *)
(* that rest is kept per signal; a vector whose order nothing depends on   *)
(* is a set.                                                               *)
(***************************************************************************)
EXTENDS Naturals

CONSTANTS
    Signals,  \* all signals an instance may create
    Root,     \* the one that exists at first
    Tasks,    \* the tasks that wait, each with one waker
    Nobody    \* no signal, no lock holder

ASSUME SignalAssumption ==
    /\ Root \in Signals
    /\ Signals \cap Tasks = {}
    /\ Nobody \notin Signals \cup Tasks

VARIABLES
    raised,    \* Inner.raised
    lock,      \* who is inside Inner.state's mutex: a polling task, a new child
    wakers,    \* State.wakers
    children,  \* State.children
    born,      \* child(): how far each signal's creation is
    parent,    \* the signal it is a child of
    gone,      \* its last strong reference was dropped
    phase,     \* raise(): how far the winner of the swap is
    toWake,    \* wakers raise() took and has yet to wake
    toRaise,   \* children raise() took and has yet to raise
    inside,    \* the child whose raise() it is inside
    asked,     \* signals a caller raised itself
    poll,      \* each task's poll_raised()
    on,        \* the signal it polls
    woken      \* its waker was called since its last poll began

raising == <<raised, phase, toWake, toRaise, inside, asked>>
creating == <<born, parent, gone>>
tasks == <<poll, on, woken>>
signalVars == <<lock, wakers, children, raising, creating, tasks>>

-----------------------------------------------------------------------------

SignalInit ==
    /\ raised = [s \in Signals |-> FALSE]
    /\ lock = [s \in Signals |-> Nobody]
    /\ wakers = [s \in Signals |-> {}]
    /\ children = [s \in Signals |-> {}]
    /\ born = [s \in Signals |-> IF s = Root THEN "live" ELSE "unborn"]
    /\ parent = [s \in Signals |-> Nobody]
    /\ gone = [s \in Signals |-> FALSE]
    /\ phase = [s \in Signals |-> "idle"]
    /\ toWake = [s \in Signals |-> {}]
    /\ toRaise = [s \in Signals |-> {}]
    /\ inside = [s \in Signals |-> Nobody]
    /\ asked = {}
    /\ poll = [t \in Tasks |-> "idle"]
    /\ on = [t \in Tasks |-> Root]
    /\ woken = [t \in Tasks |-> FALSE]

\* A signal some caller holds a handle to.
HasHandle(s) == born[s] = "live" /\ ~gone[s]

-----------------------------------------------------------------------------
(* raise.                                                                  *)

\* The swap that finds the flag down.
Swaps(s) ==
    /\ ~raised[s]
    /\ raised' = [raised EXCEPT ![s] = TRUE]
    /\ phase' = [phase EXCEPT ![s] = "swapped"]

\* CancelSignal::raise by a caller; a second one returns at the swap.
Raise(s) ==
    /\ HasHandle(s)
    /\ Swaps(s)
    /\ asked' = asked \cup {s}
    /\ UNCHANGED <<lock, wakers, children, toWake, toRaise, inside, creating, tasks>>

\* raise: both vectors are taken under the mutex.
Take(s) ==
    /\ phase[s] = "swapped"
    /\ lock[s] = Nobody
    /\ phase' = [phase EXCEPT ![s] = "taken"]
    /\ toWake' = [toWake EXCEPT ![s] = wakers[s]]
    /\ toRaise' = [toRaise EXCEPT ![s] = children[s]]
    /\ wakers' = [wakers EXCEPT ![s] = {}]
    /\ children' = [children EXCEPT ![s] = {}]
    /\ UNCHANGED <<lock, raised, inside, asked, creating, tasks>>

\* raise: the mutex is free again; wake one taken waker.
WakeOne(s, t) ==
    /\ phase[s] = "taken"
    /\ t \in toWake[s]
    /\ toWake' = [toWake EXCEPT ![s] = @ \ {t}]
    /\ woken' = [woken EXCEPT ![t] = TRUE]
    /\ UNCHANGED <<lock, wakers, children, raised, phase, toRaise, inside, asked, creating,
                   poll, on>>

\* raise: the next child, after the wakers and the earlier children.
Turn(s, c) ==
    /\ phase[s] = "taken"
    /\ toWake[s] = {}
    /\ inside[s] = Nobody
    /\ c \in toRaise[s]

\* raise: a child that is still there and not yet raised; its raise() runs inside.
RaiseChild(s, c) ==
    /\ Turn(s, c)
    /\ ~gone[c]
    /\ Swaps(c)
    /\ toRaise' = [toRaise EXCEPT ![s] = @ \ {c}]
    /\ inside' = [inside EXCEPT ![s] = c]
    /\ UNCHANGED <<lock, wakers, children, toWake, asked, creating, tasks>>

SkipChild_returns(s, c) ==
    /\ Turn(s, c)
    /\ gone[c] \/ raised[c]
    /\ toRaise' = [toRaise EXCEPT ![s] = {}]
    /\ UNCHANGED <<lock, wakers, children, raised, phase, toWake, inside, asked, creating,
                   tasks>>

\* raise: a child that is gone, or whose swap finds the flag up.
SkipChild(s, c) ==
    /\ Turn(s, c)
    /\ gone[c] \/ raised[c]
    /\ toRaise' = [toRaise EXCEPT ![s] = @ \ {c}]
    /\ UNCHANGED <<lock, wakers, children, raised, phase, toWake, inside, asked, creating,
                   tasks>>

\* raise of the child returns.
ChildRaised(s) ==
    /\ inside[s] # Nobody
    /\ phase[inside[s]] = "done"
    /\ inside' = [inside EXCEPT ![s] = Nobody]
    /\ UNCHANGED <<lock, wakers, children, raised, phase, toWake, toRaise, asked, creating,
                   tasks>>

\* raise returns; so does a child() that raised its child itself.
Returns(s) ==
    /\ phase[s] = "taken"
    /\ toWake[s] = {} /\ toRaise[s] = {} /\ inside[s] = Nobody
    /\ phase' = [phase EXCEPT ![s] = "done"]
    /\ born' = [born EXCEPT ![s] = "live"]
    /\ UNCHANGED <<lock, wakers, children, raised, toWake, toRaise, inside, asked, parent,
                   gone, tasks>>

-----------------------------------------------------------------------------
(* child.                                                                  *)

ChildLock_unchecked(p, c) ==
    /\ HasHandle(p)
    /\ lock[p] = Nobody
    /\ born[c] = "unborn"
    /\ parent' = [parent EXCEPT ![c] = p]
    /\ lock' = [lock EXCEPT ![p] = c]
    /\ born' = [born EXCEPT ![c] = "push"]
    /\ UNCHANGED <<wakers, children, raising, gone, tasks>>

\* child: under the parent's mutex, is the parent raised?  If so the mutex is
\* released and the child is to be raised.
ChildLock(p, c) ==
    /\ HasHandle(p)
    /\ lock[p] = Nobody
    /\ born[c] = "unborn"
    /\ parent' = [parent EXCEPT ![c] = p]
    /\ IF raised[p]
       THEN born' = [born EXCEPT ![c] = "late"] /\ UNCHANGED lock
       ELSE born' = [born EXCEPT ![c] = "push"] /\ lock' = [lock EXCEPT ![p] = c]
    /\ UNCHANGED <<wakers, children, raising, gone, tasks>>

\* child: prune the children that are gone, and push.
ChildPush(c) ==
    /\ born[c] = "push"
    /\ children' = [children EXCEPT ![parent[c]] = {d \in @ : ~gone[d]} \cup {c}]
    /\ lock' = [lock EXCEPT ![parent[c]] = Nobody]
    /\ born' = [born EXCEPT ![c] = "live"]
    /\ UNCHANGED <<wakers, raising, parent, gone, tasks>>

\* child: the parent was raised already.
ChildLate(c) ==
    /\ born[c] = "late"
    /\ Swaps(c)
    /\ UNCHANGED <<lock, wakers, children, toWake, toRaise, inside, asked, creating, tasks>>

-----------------------------------------------------------------------------
(* poll_raised.                                                            *)

\* The flag, before the mutex.  A waiting task is polled once woken, and perhaps
\* for another reason.
Poll(t, s) ==
    /\ HasHandle(s)
    /\ poll[t] = "idle" \/ (poll[t] = "parked" /\ on[t] = s)
    /\ on' = [on EXCEPT ![t] = s]
    /\ woken' = [woken EXCEPT ![t] = FALSE]
    /\ poll' = [poll EXCEPT ![t] = IF raised[s] THEN "ready" ELSE "lock"]
    /\ UNCHANGED <<lock, wakers, children, raising, creating>>

PollLock_unchecked(t) ==
    /\ poll[t] = "lock"
    /\ lock[on[t]] = Nobody
    /\ poll' = [poll EXCEPT ![t] = "push"]
    /\ lock' = [lock EXCEPT ![on[t]] = t]
    /\ UNCHANGED <<wakers, children, raising, creating, on, woken>>

\* The flag again, under the mutex.
PollLock(t) ==
    /\ poll[t] = "lock"
    /\ lock[on[t]] = Nobody
    /\ IF raised[on[t]]
       THEN poll' = [poll EXCEPT ![t] = "ready"] /\ UNCHANGED lock
       ELSE poll' = [poll EXCEPT ![t] = "push"] /\ lock' = [lock EXCEPT ![on[t]] = t]
    /\ UNCHANGED <<wakers, children, raising, creating, on, woken>>

\* The waker is registered, unless it is there.
PollPush(t) ==
    /\ poll[t] = "push"
    /\ wakers' = [wakers EXCEPT ![on[t]] = @ \cup {t}]
    /\ lock' = [lock EXCEPT ![on[t]] = Nobody]
    /\ poll' = [poll EXCEPT ![t] = "parked"]
    /\ UNCHANGED <<children, raising, creating, on, woken>>

\* External: the task is done waiting, or drops the wait; its waker stays.
Leave(t) ==
    /\ poll[t] \in {"parked", "ready"}
    /\ poll' = [poll EXCEPT ![t] = "idle"]
    /\ UNCHANGED <<lock, wakers, children, raising, creating, on, woken>>

\* External: the last handle of a child is dropped; a poll, a child() or a raise()
\* of it holds one.
Drop(s) ==
    /\ s # Root
    /\ HasHandle(s)
    /\ lock[s] = Nobody
    /\ phase[s] \in {"idle", "done"}
    /\ \A t \in Tasks : on[t] = s => poll[t] = "idle"
    /\ gone' = [gone EXCEPT ![s] = TRUE]
    /\ UNCHANGED <<lock, wakers, children, raising, born, parent, tasks>>

RaiseStep(s) ==
    \/ Take(s) \/ (\E t \in Tasks : WakeOne(s, t))
    \/ (\E c \in Signals : RaiseChild(s, c) \/ SkipChild(s, c))
    \/ ChildRaised(s) \/ Returns(s)

Creates(c) == ChildPush(c) \/ ChildLate(c)

Registers(t) == PollLock(t) \/ PollPush(t)

SignalNext ==
    \/ \E s \in Signals : Raise(s) \/ RaiseStep(s) \/ Creates(s) \/ Drop(s)
    \/ \E p, c \in Signals : ChildLock(p, c)
    \/ \E t \in Tasks : (\E s \in Signals : Poll(t, s)) \/ Registers(t) \/ Leave(t)

SignalSpec == SignalInit /\ [][SignalNext]_signalVars

\* A woken task is polled again; threads inside the signal's code keep running.
\* The mutex need not be fair: once the flag is up nobody holds it for long.
SignalFairness ==
    /\ \A s \in Signals : WF_signalVars(RaiseStep(s)) /\ WF_signalVars(Creates(s))
    /\ \A t \in Tasks :
         /\ WF_signalVars(Registers(t))
         /\ WF_signalVars(woken[t] /\ poll[t] = "parked" /\ Poll(t, on[t]))

FairSignalSpec == SignalSpec /\ SignalFairness

-----------------------------------------------------------------------------
(* Properties.                                                             *)

\* Type correctness of the signals and the tasks.
SignalTypeOK ==
    /\ raised \in [Signals -> BOOLEAN]
    /\ lock \in [Signals -> Signals \cup Tasks \cup {Nobody}]
    /\ wakers \in [Signals -> SUBSET Tasks]
    /\ children \in [Signals -> SUBSET Signals]
    /\ born \in [Signals -> {"unborn", "push", "late", "live"}]
    /\ parent \in [Signals -> Signals \cup {Nobody}]
    /\ gone \in [Signals -> BOOLEAN]
    /\ phase \in [Signals -> {"idle", "swapped", "taken", "done"}]
    /\ toWake \in [Signals -> SUBSET Tasks]
    /\ toRaise \in [Signals -> SUBSET Signals]
    /\ inside \in [Signals -> Signals \cup {Nobody}]
    /\ asked \subseteq Signals
    /\ poll \in [Tasks -> {"idle", "lock", "push", "parked", "ready"}]
    /\ on \in [Tasks -> Signals]
    /\ woken \in [Tasks -> BOOLEAN]

\* No wake-up is lost: a task parked on a raised signal was woken since, or its
\* waker is still to be taken, or taken and still to be called, however its poll
\* raced with the raise.
NoLostWake ==
    \A t \in Tasks :
        poll[t] = "parked" /\ raised[on[t]] /\ ~woken[t] =>
            \/ phase[on[t]] = "swapped" /\ t \in wakers[on[t]]
            \/ t \in toWake[on[t]]

\* No child is missed: a child that exists while its parent is raised is raised,
\* or is still to be, however its creation raced with the raise.
NoMissedChild ==
    \A c \in Signals :
        born[c] = "live" /\ ~gone[c] /\ parent[c] # Nobody /\ raised[parent[c]] =>
            \/ raised[c]
            \/ phase[parent[c]] = "swapped" /\ c \in children[parent[c]]
            \/ c \in toRaise[parent[c]]

\* Cancellation goes down and never up: a raised signal was raised by a caller, or
\* its parent is raised.
RaisedFromAbove ==
    \A s \in Signals :
        raised[s] => s \in asked \/ (parent[s] # Nobody /\ raised[parent[s]])

\* Nothing is registered on a signal after its lists were taken, where nobody
\* would find it.
NothingAfterTake ==
    \A s \in Signals :
        phase[s] \in {"taken", "done"} => wakers[s] = {} /\ children[s] = {}

\* A task waiting on a raised signal is released.
TaskReleased ==
    \A t \in Tasks, s \in Signals :
        (poll[t] = "parked" /\ on[t] = s /\ raised[s]) ~> poll[t] \in {"ready", "idle"}

\* Raising a signal raises every child of it that is still there.
ChildReached ==
    \A s \in Signals :
        (parent[s] # Nobody /\ raised[parent[s]]) ~> (raised[s] \/ gone[s])

\* A raise gets through: to every child that is still there and to every task
\* that waits on a signal below (raise, poll_raised).
Reached == TaskReleased /\ ChildReached
=============================================================================
