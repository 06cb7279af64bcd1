-------------------------- MODULE SharedCallProofs --------------------------
(***************************************************************************)
(* What the registry of shared calls and the waiters of a slot keep for    *)
(* every number of requests, keys, slots and waiters, and every mix of     *)
(* callers that stay, leave and are dropped.                               *)
(***************************************************************************)
EXTENDS SharedCall, FiniteSetTheorems, NaturalsInduction, WellFoundedInduction, TLAPS

-----------------------------------------------------------------------------
(* The inductive invariant.                                                *)

\* Where a request is registered with its slot ...
InSlot == {"poll", "parked", "polling", "pending", "ready", "retire", "checks", "took",
           "leave", "leaving"}

\* ... where it has the attempt in its hands ...
Polls == {"polling", "pending", "ready"}

\* ... and where it was the last to leave and is not done.
Lasts == {"lastRetire", "lastPoll", "dropRetire"}

\* A request's own state: it has a slot once it has entered one, and a
\* settlement once it is done.
RequestOK ==
    \A p \in Requests :
        /\ pc[p] = "enter" => slotOf[p] = NoSlot
        /\ pc[p] \notin {"enter", "done"} => slotOf[p] # NoSlot
        /\ pc[p] = "done" <=> settled[p] # "no"
        /\ settled[p] = "own" => slotOf[p] = NoSlot
        /\ slotOf[p] = NoSlot => settled[p] \in {"no", "zero", "own"}
        /\ pc[p] \in {"leave", "leaving"} => wants[p]

\* A slot has its leader from the start; its waiters are the requests in it and,
\* once it has ended, those that took its result.
WaiterOK ==
    /\ \A p \in Requests : work[p] # "none" <=> slotOf[p] = p
    /\ \A p \in Requests : slotOf[p] # NoSlot =>
         /\ work[slotOf[p]] # "none"
         /\ pc[p] \in InSlot => p \in waiters[slotOf[p]]
         /\ p \in waiters[slotOf[p]] => pc[p] \in InSlot \/ (pc[p] = "done" /\ ended[slotOf[p]])
         /\ pc[p] \in {"retire", "took"} => ended[slotOf[p]]

\* One waiter at most has the attempt, and then the slot has it not.
PollerOK ==
    \A p \in Requests : pc[p] \in Polls =>
        /\ ~ended[slotOf[p]] /\ polling[slotOf[p]] /\ ~attempt[slotOf[p]]
        /\ \A q \in Requests : pc[q] \in Polls /\ slotOf[q] = slotOf[p] => q = p

\* The last waiter to leave a slot that has not ended, until and after it has paid.
Departing(p) ==
    /\ slotOf[p] # NoSlot /\ ~ended[slotOf[p]]
    /\ pc[p] \in Lasts \/ settled[p] \in {"charge", "liability"}

\* It is alone: everybody else has left for nothing.
LastOK ==
    \A p \in Requests : Departing(p) =>
        /\ waiters[slotOf[p]] = {}
        /\ \A q \in Requests \ {p} : slotOf[q] = slotOf[p] => settled[q] = "zero"

\* The charge: its owner waits while the slot is in flight, only the owner it
\* ended with pays, and a waiter that saw itself the owner still is.
OwnerOK ==
    /\ \A s \in Requests : ~ended[s] /\ waiters[s] # {} => owner[s] \in waiters[s]
    /\ \A p \in Requests : pc[p] = "leaving" /\ sawOwner[p] => owner[slotOf[p]] = p
    /\ \A p \in Requests : slotOf[p] # NoSlot /\ ended[slotOf[p]] =>
         /\ pc[p] \notin Lasts /\ settled[p] # "liability"
         /\ settled[p] = "charge" => owner[slotOf[p]] = p
    /\ \A s \in Requests : ended[s] =>
         /\ slotOf[owner[s]] = s
         /\ settled[owner[s]] \in {"no", "charge"}
              \/ (wants[owner[s]] /\ ~sawOwner[owner[s]] /\ settled[owner[s]] = "zero")

\* The attempt: in flight while somebody waits for it, and where it ended.
AttemptOK ==
    \A s \in Requests :
        /\ attempt[s] => ~ended[s] /\ waiters[s] # {}
        /\ work[s] = "none" => ~signal[s] /\ waiters[s] = {}
        /\ waiters[s] # {} /\ ~ended[s] => work[s] \in {"running", "ready"}
        /\ ended[s] => work[s] = "done"
        /\ signal[s] => waiters[s] = {}
        /\ work[s] = "done" /\ ~ended[s] =>
             \E p \in Requests : slotOf[p] = s /\ settled[p] = "charge"
        /\ work[s] = "dropped" =>
             \E p \in Requests :
                 slotOf[p] = s /\ (pc[p] = "dropRetire" \/ settled[p] = "liability")

\* The registry: a slot is under its own key, and somebody will retire it.
RegistryOK ==
    /\ IsFiniteSet(InRegistry) /\ RegistryBound
    /\ \A k \in Keys : registry[k] # NoSlot =>
         KeyOf[registry[k]] = k /\ work[registry[k]] # "none"
    /\ NoLeak

IInv ==
    /\ TypeOK /\ RequestOK /\ WaiterOK /\ PollerOK /\ LastOK /\ OwnerOK /\ AttemptOK
    /\ RegistryOK

-----------------------------------------------------------------------------
(* Every step keeps it.                                                    *)

\* A set of waiters has an earliest.
LEMMA EarliestWaits ==
    ASSUME NEW S, S # {}, NEW t, \A q \in S : t[q] \in Nat
    PROVE  \E q \in S : \A r \in S : t[q] =< t[r]
<1> DEFINE T == {t[q] : q \in S}
           R == OpToRel(<, Nat)
<1>1. T \subseteq Nat /\ T # {}
  OBVIOUS
<1>2. \A x, y \in Nat : y < x => <<y, x>> \in R
  BY DEF OpToRel
<1>3. IsWellFoundedOn(R, Nat)
  BY NatLessThanWellFounded
<1> HIDE DEF T, R
<1>4. PICK x \in T : \A y \in T : ~(<<y, x>> \in R)
  BY <1>1, <1>3, WFMin
<1>5. ASSUME NEW y \in T
      PROVE  x =< y
  <2>1. x \in Nat /\ y \in Nat
    BY <1>1
  <2>2. ~(y < x)
    BY <1>2, <1>4, <2>1
  <2>3. QED
    BY <2>1, <2>2
<1>6. QED
  BY <1>5 DEF T

\* A waiter that goes leaves the charge to one that stays.
LEMMA EarliestIn ==
    ASSUME TypeOK, NEW s \in Requests, NEW p, waiters[s] \ {p} # {}
    PROVE  Earliest(s, p) \in waiters[s] \ {p}
<1>1. \A q \in waiters[s] \ {p} : ticket[q] \in Nat
  BY DEF TypeOK
<1>2. \E q \in waiters[s] \ {p} : \A r \in waiters[s] \ {p} : ticket[q] =< ticket[r]
  BY <1>1, EarliestWaits
<1>3. QED
  BY <1>2 DEF Earliest

\* A step of one request.
Act(p) ==
    \/ Enter(p) \/ Poll(p) \/ Leave(p) \/ Drop(p) \/ DropRetire(p)
    \/ AttemptReady(p) \/ CallerEvent(p)

\* What is known of the slot a request leads ...
Leads(p) ==
    /\ slotOf[p] = NoSlot /\ work[p] = "none" /\ waiters[p] = {} /\ ~ended[p]
    /\ ~signal[p] /\ \A q \in Requests : slotOf[q] # p
    /\ slotOf'[p] = p /\ pc'[p] = "poll" /\ attempt'[p] = TRUE /\ work'[p] = "running"
    /\ waiters'[p] = {p} /\ owner'[p] = p
    /\ UNCHANGED <<polling, ended, signal, settled, wants, sawOwner>>
    /\ \A q \in Requests \ {p} : /\ slotOf'[q] = slotOf[q] /\ pc'[q] = pc[q]
                                 /\ attempt'[q] = attempt[q] /\ work'[q] = work[q]
                                 /\ waiters'[q] = waiters[q] /\ owner'[q] = owner[q]

LEMMA LeadFacts ==
    ASSUME IInv, NEW p \in Requests, EnterLead(p)
    PROVE  Leads(p)
<1>1. TypeOK /\ RequestOK /\ WaiterOK /\ AttemptOK
  BY DEF IInv
<1>2. slotOf[p] = NoSlot /\ work[p] = "none"
  BY <1>1, RequestsAssumption DEF EnterLead, RequestOK, WaiterOK
<1>3. \A q \in Requests : slotOf[q] # p
  BY <1>1, <1>2, RequestsAssumption DEF WaiterOK
<1>4. waiters[p] = {} /\ ~ended[p] /\ ~signal[p]
  BY <1>1, <1>2 DEF AttemptOK
<1>5. QED
  BY <1>1, <1>2, <1>3, <1>4 DEF Leads, EnterLead, Join, TypeOK

\* ... of the one it joins ...
Joins(p, s) ==
    /\ s \in Requests \ {p} /\ slotOf[p] = NoSlot /\ attempt[s] /\ ~ended[s]
    /\ waiters[s] # {} /\ work[s] # "none" /\ work[p] = "none" /\ pc[p] = "enter"
    /\ slotOf'[p] = s /\ pc'[p] = "poll" /\ waiters'[s] = waiters[s] \cup {p}
    /\ UNCHANGED <<owner, attempt, polling, ended, signal, settled, wants, sawOwner, work>>
    /\ \A q \in Requests \ {p} : slotOf'[q] = slotOf[q] /\ pc'[q] = pc[q]
    /\ \A q \in Requests \ {s} : waiters'[q] = waiters[q]

LEMMA JoinFacts ==
    ASSUME IInv, NEW p \in Requests, EnterJoin(p), NEW s, s = registry[KeyOf[p]]
    PROVE  Joins(p, s)
<1>1. TypeOK /\ RequestOK /\ WaiterOK /\ AttemptOK
  BY DEF IInv
<1>2. s \in Requests /\ attempt[s] /\ ~ended[s] /\ pc[p] = "enter"
  BY <1>1, LoadsAssumption DEF EnterJoin, Joinable, TypeOK, KeyOf
<1>3. waiters[s] # {} /\ work[s] # "none"
  BY <1>1, <1>2 DEF AttemptOK
<1>4. slotOf[p] = NoSlot /\ work[p] = "none"
  BY <1>1, <1>2, RequestsAssumption DEF RequestOK, WaiterOK
<1>5. /\ slotOf' = [slotOf EXCEPT ![p] = s] /\ pc' = [pc EXCEPT ![p] = "poll"]
      /\ waiters' = [waiters EXCEPT ![s] = @ \cup {p}] /\ owner' = owner
      /\ UNCHANGED <<attempt, polling, ended, signal, settled, wants, sawOwner, work>>
  BY <1>3 DEF EnterJoin, Join, workVars
<1>6. QED
  BY <1>1, <1>2, <1>3, <1>4, <1>5 DEF Joins, TypeOK

\* ... of the one whose attempt answered ...
Completes(p, s) ==
    /\ s \in Requests /\ s # NoSlot /\ ~ended[s] /\ ~attempt[s]
    /\ p \in waiters[s] /\ pc[p] = "ready" /\ owner[s] \in waiters[s]
    /\ ended'[s] = TRUE /\ work'[s] = "done" /\ pc'[p] = "retire"
    /\ \A x \in Requests \ {s} : ended'[x] = ended[x] /\ work'[x] = work[x]
    /\ \A x \in Requests \ {p} : pc'[x] = pc[x]
    /\ UNCHANGED <<attempt, waiters, owner, signal, slotOf, settled, wants, sawOwner>>

LEMMA ReadyFacts ==
    ASSUME IInv, NEW p \in Requests, PollReady(p), NEW s, s = slotOf[p]
    PROVE  Completes(p, s)
<1>1. TypeOK /\ RequestOK /\ WaiterOK /\ PollerOK /\ OwnerOK
  BY DEF IInv
<1>2. s \in Requests /\ s # NoSlot /\ ~ended[s] /\ ~attempt[s] /\ p \in waiters[s]
  BY <1>1, RequestsAssumption
     DEF TypeOK, PollReady, RequestOK, PollerOK, Polls, WaiterOK, InSlot
<1>3. owner[s] \in waiters[s]
  BY <1>1, <1>2 DEF OwnerOK
<1>4. QED
  BY <1>1, <1>2, <1>3 DEF Completes, PollReady, TypeOK

\* ... of the one it leaves to others ...
Departs(p, s) ==
    /\ s \in Requests /\ p \in waiters[s] /\ waiters[s] # {p} /\ ~ended[s]
    /\ settled[p] = "no" /\ pc[p] \in {"leaving", "parked"}
    /\ waiters' = [waiters EXCEPT ![s] = @ \ {p}]
    /\ wakers' = [wakers EXCEPT ![s] = @ \ {p}]
    /\ owner' = [owner EXCEPT ![s] = owner'[s]]
    /\ owner'[s] \in Requests
    /\ owner[s] = p => owner'[s] \in waiters[s] \ {p}
    /\ owner[s] # p => owner' = owner
    /\ settled' = [settled EXCEPT ![p] = "zero"] /\ pc' = [pc EXCEPT ![p] = "done"]
    /\ UNCHANGED <<load, registry, attempt, polling, ended, ticket, next, work, armed,
                   signal, slotOf, woken, wants, sawOwner>>

LEMMA RemainFacts ==
    ASSUME IInv, NEW p \in Requests, LeaveRemained(p) \/ DropRemained(p), NEW s, s = slotOf[p]
    PROVE  Departs(p, s)
<1>1. TypeOK /\ RequestOK /\ WaiterOK
  BY DEF IInv
<1>2. s \in Requests /\ pc[p] \in {"leaving", "parked"}
  BY <1>1 DEF LeaveRemained, DropRemained, TypeOK, RequestOK
<1>3. p \in waiters[s] /\ settled[p] = "no"
  BY <1>1, <1>2, RequestsAssumption DEF RequestOK, WaiterOK, InSlot
<1>4. /\ waiters[s] # {p} /\ ~ended[s] /\ waiters' = [waiters EXCEPT ![s] = @ \ {p}]
      /\ wakers' = [wakers EXCEPT ![s] = @ \ {p}]
      /\ owner' = IF owner[s] = p THEN [owner EXCEPT ![s] = Earliest(s, p)] ELSE owner
  BY DEF LeaveRemained, DropRemained, Remove, IsLast
<1>5. Earliest(s, p) \in waiters[s] \ {p}
  BY <1>1, <1>2, <1>3, <1>4, EarliestIn
<1>6. /\ settled' = [settled EXCEPT ![p] = "zero"] /\ pc' = [pc EXCEPT ![p] = "done"]
      /\ UNCHANGED <<load, registry, attempt, polling, ended, ticket, next, work, armed,
                     signal, slotOf, woken, wants, sawOwner>>
  BY DEF LeaveRemained, DropRemained, workVars
<1>7. /\ owner' = [owner EXCEPT ![s] = owner'[s]] /\ owner'[s] \in Requests
      /\ owner[s] = p => owner'[s] \in waiters[s] \ {p}
      /\ owner[s] # p => owner' = owner
  <2>1. owner[s] \in Requests /\ Earliest(s, p) \in Requests
    BY <1>1, <1>2, <1>5 DEF TypeOK
  <2>2. CASE owner[s] = p
    <3>1. owner' = [owner EXCEPT ![s] = Earliest(s, p)]
      BY <1>4, <2>2
    <3>2. owner'[s] = Earliest(s, p)
      BY <1>1, <1>2, <3>1 DEF TypeOK
    <3>3. QED
      BY <1>5, <2>1, <2>2, <3>1, <3>2
  <2>3. CASE owner[s] # p
    <3>1. owner' = owner
      BY <1>4, <2>3
    <3>2. owner = [owner EXCEPT ![s] = owner[s]]
      BY <1>1, <1>2 DEF TypeOK
    <3>3. QED
      BY <2>1, <2>3, <3>1, <3>2
  <2>4. QED
    BY <2>2, <2>3
<1>8. QED
  BY <1>2, <1>3, <1>4, <1>6, <1>7 DEF Departs

\* ... and of the one it is the last to leave.
Abandons(p, s) ==
    /\ s \in Requests /\ s # NoSlot /\ pc[p] = "lastPoll" /\ Departing(p)
    /\ ~ended[s] /\ waiters[s] = {}
    /\ \A x \in Requests \ {s} : work'[x] = work[x] /\ signal'[x] = signal[x]
    /\ \A x \in Requests \ {p} : pc'[x] = pc[x] /\ settled'[x] = settled[x]
    /\ settled'[p] \in {"charge", "liability"} /\ pc'[p] = "done"
    /\ work'[s] \in {"done", "dropped"} /\ (work'[s] = "done" <=> settled'[p] = "charge")
    /\ UNCHANGED <<attempt, ended, waiters, slotOf>>

LEMMA LastFacts ==
    ASSUME IInv, NEW p \in Requests, LastPoll(p), NEW s, s = slotOf[p]
    PROVE  Abandons(p, s)
<1>1. TypeOK /\ RequestOK /\ LastOK /\ OwnerOK
  BY DEF IInv
<1>2. s \in Requests /\ s # NoSlot /\ pc[p] = "lastPoll"
  BY <1>1, RequestsAssumption DEF LastPoll, TypeOK, RequestOK
<1>3. ~ended[s] /\ Departing(p) /\ waiters[s] = {}
  BY <1>1, <1>2 DEF Departing, Lasts, LastOK, OwnerOK
<1>4. PICK answers \in BOOLEAN :
        /\ work' = [work EXCEPT ![s] = IF answers THEN "done" ELSE "dropped"]
        /\ settled' = [settled EXCEPT ![p] = IF answers THEN "charge" ELSE "liability"]
  BY DEF LastPoll, LastCost
<1>5. /\ signal' = [signal EXCEPT ![s] = TRUE] /\ pc' = [pc EXCEPT ![p] = "done"]
      /\ UNCHANGED <<attempt, ended, waiters, slotOf>>
  BY DEF LastPoll, slotVars
<1>6. QED
  BY <1>1, <1>2, <1>3, <1>4, <1>5 DEF Abandons, TypeOK

\* Type correctness is kept.
LEMMA TypeStep == ASSUME IInv, NEW p \in Requests, Act(p) PROVE TypeOK'
<1>1. TypeOK /\ RequestOK /\ WaiterOK /\ PollerOK /\ LastOK /\ OwnerOK /\ AttemptOK
  BY DEF IInv
<1>2. /\ slotOf[p] # NoSlot => slotOf[p] \in Requests
      /\ pc[p] \notin {"enter", "done"} => slotOf[p] \in Requests
  BY <1>1 DEF TypeOK, RequestOK
<1>3. CASE EnterLead(p)
  BY <1>1, <1>2, <1>3, RequestsAssumption, LoadsAssumption
     DEF TypeOK, RequestOK, EnterLead, Join, Joinable, KeyOf, slotVars, workVars
<1>4. CASE EnterJoin(p)
  <2>1. PICK s : s = registry[KeyOf[p]]
    OBVIOUS
  <2>2. /\ s \in Requests
        /\ ticket' = [ticket EXCEPT ![p] = next[s]] /\ next' = [next EXCEPT ![s] = @ + 1]
        /\ owner' = IF waiters[s] = {} THEN [owner EXCEPT ![s] = p] ELSE owner
        /\ waiters' = [waiters EXCEPT ![s] = @ \cup {p}]
        /\ slotOf' = [slotOf EXCEPT ![p] = s] /\ pc' = [pc EXCEPT ![p] = "poll"]
    BY <1>1, <1>4, <2>1, RequestsAssumption, LoadsAssumption
       DEF TypeOK, EnterJoin, Join, Joinable, KeyOf
  <2>3. /\ UNCHANGED <<load, registry, attempt, polling, ended, wakers, work, armed, signal>>
        /\ UNCHANGED <<woken, wants, sawOwner, settled>>
    BY <1>4 DEF EnterJoin, workVars
  <2>4. /\ next[s] \in Nat /\ next[s] + 1 \in Nat /\ waiters[s] \cup {p} \in SUBSET Requests
    BY <1>1, <2>2 DEF TypeOK
  <2>5. /\ ticket' \in [Requests -> Nat] /\ next' \in [Requests -> Nat]
        /\ owner' \in [Requests -> Requests] /\ waiters' \in [Requests -> SUBSET Requests]
        /\ slotOf' \in [Requests -> Requests \cup {NoSlot}]
    BY <1>1, <2>2, <2>4 DEF TypeOK
  <2>6. pc[p] = "enter" /\ slotOf[p] = NoSlot
    BY <1>1, <1>4 DEF EnterJoin, RequestOK
  <2>7. ASSUME NEW x \in Requests, NEW q \in waiters'[x]
        PROVE  slotOf'[q] = x /\ ticket'[q] < next'[x]
    <3>1. CASE q = p /\ x = s
      BY <1>1, <2>2, <2>4, <3>1 DEF TypeOK
    <3>2. CASE ~(q = p /\ x = s)
      <4>1. q \in waiters[x] /\ q \in Requests
        BY <1>1, <2>2, <2>7, <3>2 DEF TypeOK
      <4>2. slotOf[q] = x /\ ticket[q] < next[x] /\ q # p
        BY <1>1, <2>6, <4>1, RequestsAssumption DEF TypeOK
      <4>3. ticket[q] \in Nat /\ next[x] \in Nat
        BY <1>1, <4>1 DEF TypeOK
      <4>4. ticket'[q] = ticket[q] /\ slotOf'[q] = slotOf[q]
        BY <1>1, <2>2, <4>1, <4>2 DEF TypeOK
      <4>5. next'[x] = next[x] \/ next'[x] = next[x] + 1
        BY <1>1, <2>2 DEF TypeOK
      <4>6. QED
        BY <4>2, <4>3, <4>4, <4>5
    <3>3. QED
      BY <3>1, <3>2
  <2>8. /\ load' \in Loads /\ registry' \in [Keys -> Requests \cup {NoSlot}]
        /\ pc' \in [Requests -> {"enter", "poll", "parked", "polling", "pending",
                                  "ready", "retire", "checks", "took", "leave",
                                  "leaving", "lastRetire", "lastPoll", "dropRetire", "done"}]
    BY <1>1, <2>2, <2>3 DEF TypeOK
  <2>9. QED
    BY <1>1, <2>3, <2>5, <2>7, <2>8 DEF TypeOK
<1>5. CASE PollWait(p)
  <2>1. slotOf[p] \in Requests /\ wakers[slotOf[p]] \cup {p} \in SUBSET Requests
    BY <1>1, <1>2, <1>5 DEF TypeOK, PollWait, Runs
  <2>2. wakers' \in [Requests -> SUBSET Requests]
    BY <1>1, <2>1, <1>5 DEF TypeOK, PollWait
  <2>3. QED
    BY <1>1, <2>2, <1>5 DEF TypeOK, PollWait, workVars
<1>6. CASE PollTake(p)
  BY <1>1, <1>2, <1>6, RequestsAssumption, LoadsAssumption
     DEF TypeOK, RequestOK, PollTake, Runs, slotVars, workVars
<1>7. CASE PollAttempt(p)
  BY <1>1, <1>2, <1>7, RequestsAssumption, LoadsAssumption
     DEF TypeOK, RequestOK, PollAttempt, slotVars, workVars
<1>8. CASE Checks(p)
  BY <1>1, <1>2, <1>8, RequestsAssumption, LoadsAssumption
     DEF TypeOK, RequestOK, Checks, slotVars, workVars
<1>9. CASE PollStart(p)
  BY <1>1, <1>2, <1>9, RequestsAssumption, LoadsAssumption
     DEF TypeOK, RequestOK, PollStart, Runs, slotVars, workVars
<1>10. CASE PollPending(p)
  BY <1>1, <1>2, <1>10, RequestsAssumption, LoadsAssumption
     DEF TypeOK, RequestOK, PollPending, slotVars, workVars
<1>11. CASE PollReady(p)
  BY <1>1, <1>2, <1>11, RequestsAssumption, LoadsAssumption
     DEF TypeOK, RequestOK, PollReady, slotVars, workVars
<1>12. CASE LeaveCompleted(p)
  <2>1. /\ slotOf[p] \in Requests /\ wakers[slotOf[p]] \ {p} \in SUBSET Requests
        /\ waiters[slotOf[p]] \ {p} \in SUBSET Requests
    BY <1>1, <1>2, <1>12 DEF TypeOK, LeaveCompleted
  <2>2. /\ wakers' \in [Requests -> SUBSET Requests]
        /\ waiters' \in [Requests -> SUBSET Requests]
        /\ \A x \in Requests : waiters'[x] \subseteq waiters[x]
    BY <1>1, <2>1, <1>12 DEF TypeOK, LeaveCompleted
  <2>3. QED
    BY <1>1, <2>2, <1>12 DEF TypeOK, LeaveCompleted, Share, workVars
<1>13. CASE DropCompleted(p)
  <2>1. /\ slotOf[p] \in Requests /\ wakers[slotOf[p]] \ {p} \in SUBSET Requests
        /\ waiters[slotOf[p]] \ {p} \in SUBSET Requests
    BY <1>1, <1>2, <1>13 DEF TypeOK, DropCompleted
  <2>2. /\ wakers' \in [Requests -> SUBSET Requests]
        /\ waiters' \in [Requests -> SUBSET Requests]
        /\ \A x \in Requests : waiters'[x] \subseteq waiters[x]
    BY <1>1, <2>1, <1>13 DEF TypeOK, DropCompleted
  <2>3. QED
    BY <1>1, <2>2, <1>13 DEF TypeOK, DropCompleted, Share, workVars
<1>14. CASE Settle(p)
  BY <1>1, <1>2, <1>14, RequestsAssumption, LoadsAssumption
     DEF TypeOK, RequestOK, Settle, Share, slotVars, workVars
<1>15. CASE EnterApart(p)
  BY <1>1, <1>2, <1>15, RequestsAssumption, LoadsAssumption
     DEF TypeOK, RequestOK, EnterApart, slotVars, workVars
<1>16. CASE ReadOwner(p)
  BY <1>1, <1>2, <1>16, RequestsAssumption, LoadsAssumption
     DEF TypeOK, RequestOK, ReadOwner, slotVars, workVars
<1>17. CASE CallerEvent(p)
  BY <1>1, <1>2, <1>17, RequestsAssumption, LoadsAssumption
     DEF TypeOK, RequestOK, CallerEvent, slotVars, workVars
<1>18. CASE AttemptReady(p)
  BY <1>1, <1>2, <1>18, RequestsAssumption, LoadsAssumption
     DEF TypeOK, RequestOK, AttemptReady, Wake, slotVars, workVars
<1>19. CASE LeaveRemained(p) \/ DropRemained(p)
  <2> DEFINE s == slotOf[p]
  <2>1. Departs(p, slotOf[p])
    BY <1>19, RemainFacts
  <2>2. /\ s \in Requests /\ owner'[s] \in Requests
        /\ waiters' = [waiters EXCEPT ![s] = @ \ {p}]
        /\ wakers' = [wakers EXCEPT ![s] = @ \ {p}]
        /\ owner' = [owner EXCEPT ![s] = owner'[s]]
        /\ settled' = [settled EXCEPT ![p] = "zero"] /\ pc' = [pc EXCEPT ![p] = "done"]
        /\ UNCHANGED <<load, registry, attempt, polling, ended, ticket, next, work, armed,
                       signal, slotOf, woken, wants, sawOwner>>
    BY <2>1 DEF Departs
  <2>3. waiters[s] \ {p} \in SUBSET Requests /\ wakers[s] \ {p} \in SUBSET Requests
    BY <1>1, <2>2 DEF TypeOK
  <2> HIDE DEF s
  <2>4. /\ waiters' \in [Requests -> SUBSET Requests]
        /\ wakers' \in [Requests -> SUBSET Requests] /\ owner' \in [Requests -> Requests]
        /\ \A x \in Requests : waiters'[x] \subseteq waiters[x]
    BY <1>1, <2>2, <2>3 DEF TypeOK
  <2>5. QED
    BY <1>1, <2>2, <2>4 DEF TypeOK
<1>20. CASE LeaveLast(p)
  <2>1. /\ slotOf[p] \in Requests /\ wakers[slotOf[p]] \ {p} \in SUBSET Requests
        /\ waiters[slotOf[p]] \ {p} \in SUBSET Requests
    BY <1>1, <1>2, <1>20 DEF TypeOK, LeaveLast
  <2>2. /\ wakers' \in [Requests -> SUBSET Requests]
        /\ waiters' \in [Requests -> SUBSET Requests]
        /\ owner' = owner /\ \A x \in Requests : waiters'[x] \subseteq waiters[x]
    BY <1>1, <2>1, <1>20 DEF TypeOK, LeaveLast, Remove, IsLast
  <2>3. QED
    BY <1>1, <2>2, <1>20 DEF TypeOK, LeaveLast, workVars
<1>21. CASE DropLast(p)
  <2>1. /\ slotOf[p] \in Requests /\ wakers[slotOf[p]] \ {p} \in SUBSET Requests
        /\ waiters[slotOf[p]] \ {p} \in SUBSET Requests
    BY <1>1, <1>2, <1>21 DEF TypeOK, DropLast
  <2>2. /\ wakers' \in [Requests -> SUBSET Requests]
        /\ waiters' \in [Requests -> SUBSET Requests]
        /\ owner' = owner /\ \A x \in Requests : waiters'[x] \subseteq waiters[x]
    BY <1>1, <2>1, <1>21 DEF TypeOK, DropLast, Remove, IsLast
  <2>3. QED
    BY <1>1, <2>2, <1>21 DEF TypeOK, DropLast, workVars
<1>22. CASE PollRetire(p)
  BY <1>1, <1>2, <1>22, RequestsAssumption, LoadsAssumption
     DEF TypeOK, RequestOK, PollRetire, Retire, Wake, KeyOf, slotVars, workVars
<1>23. CASE LeaveRetire(p)
  BY <1>1, <1>2, <1>23, RequestsAssumption, LoadsAssumption
     DEF TypeOK, RequestOK, LeaveRetire, Retire, KeyOf, slotVars, workVars
<1>24. CASE DropRetire(p)
  BY <1>1, <1>2, <1>24, RequestsAssumption, LoadsAssumption
     DEF TypeOK, RequestOK, DropRetire, Retire, KeyOf, slotVars, workVars
<1>25. CASE LastPoll(p)
  <2> DEFINE s == slotOf[p]
  <2>1. PICK answers \in BOOLEAN :
          /\ work' = [work EXCEPT ![s] = IF answers THEN "done" ELSE "dropped"]
          /\ settled' = [settled EXCEPT ![p] = IF answers THEN "charge" ELSE "liability"]
    BY <1>25 DEF LastPoll, LastCost
  <2>2. /\ s \in Requests /\ s # NoSlot /\ pc[p] = "lastPoll"
        /\ signal' = [signal EXCEPT ![s] = TRUE] /\ pc' = [pc EXCEPT ![p] = "done"]
        /\ UNCHANGED <<load, registry, attempt, polling, ended, waiters, wakers, ticket, next,
                       owner, armed, slotOf, woken, wants, sawOwner>>
    BY <1>2, <1>25, RequestsAssumption DEF LastPoll, slotVars
  <2>3. QED
    BY <1>1, <2>1, <2>2 DEF TypeOK
<1>26. QED
  BY <1>3, <1>4, <1>5, <1>6, <1>7, <1>8, <1>9, <1>10, <1>11, <1>12, <1>13, <1>14, <1>15,
     <1>16, <1>17, <1>18, <1>19, <1>20, <1>21, <1>22, <1>23, <1>24, <1>25
     DEF Act, Enter, Poll, Leave, Drop

\* A request has a slot from its entry and a settlement at its end.
LEMMA RequestStep == ASSUME IInv, NEW p \in Requests, Act(p) PROVE RequestOK'
<1>1. TypeOK /\ RequestOK /\ WaiterOK /\ PollerOK /\ LastOK /\ OwnerOK /\ AttemptOK
  BY DEF IInv
<1>2. /\ slotOf[p] # NoSlot => slotOf[p] \in Requests
      /\ pc[p] \notin {"enter", "done"} => slotOf[p] \in Requests
  BY <1>1 DEF TypeOK, RequestOK
<1>3. CASE EnterLead(p)
  BY <1>1, <1>2, <1>3, RequestsAssumption
     DEF RequestOK, EnterLead, Join, Joinable, KeyOf, slotVars, workVars, TypeOK
<1>4. CASE EnterJoin(p)
  BY <1>1, <1>2, <1>4, RequestsAssumption
     DEF RequestOK, EnterJoin, Join, Joinable, KeyOf, slotVars, workVars, TypeOK
<1>5. CASE PollTake(p) \/ PollWait(p) \/ PollAttempt(p) \/ Checks(p)
  BY <1>1, <1>2, <1>5, RequestsAssumption
     DEF RequestOK, PollTake, Runs, PollWait, PollAttempt, Checks, slotVars, workVars, TypeOK
<1>6. CASE PollStart(p) \/ PollPending(p)
  BY <1>1, <1>2, <1>6, RequestsAssumption
     DEF RequestOK, PollStart, Runs, PollPending, slotVars, workVars, TypeOK
<1>7. CASE PollReady(p)
  BY <1>1, <1>2, <1>7, RequestsAssumption
     DEF RequestOK, PollReady, slotVars, workVars, TypeOK
<1>8. CASE Settle(p) \/ LeaveCompleted(p) \/ DropCompleted(p)
  BY <1>1, <1>2, <1>8, RequestsAssumption
     DEF RequestOK, Settle, Share, LeaveCompleted, DropCompleted, slotVars, workVars, TypeOK
<1>9. CASE EnterApart(p) \/ ReadOwner(p) \/ CallerEvent(p) \/ AttemptReady(p)
  BY <1>1, <1>2, <1>9, RequestsAssumption
     DEF RequestOK, EnterApart, ReadOwner, CallerEvent, AttemptReady, Wake, slotVars,
         workVars, TypeOK
<1>10. CASE LeaveRemained(p) \/ DropRemained(p)
  BY <1>1, <1>2, <1>10, RequestsAssumption
     DEF RequestOK, LeaveRemained, Remove, IsLast, DropRemained, slotVars, workVars, TypeOK
<1>11. CASE LeaveLast(p) \/ DropLast(p)
  BY <1>1, <1>2, <1>11, RequestsAssumption
     DEF RequestOK, LeaveLast, Remove, IsLast, DropLast, slotVars, workVars, TypeOK
<1>12. CASE PollRetire(p) \/ LeaveRetire(p) \/ DropRetire(p)
  BY <1>1, <1>2, <1>12, RequestsAssumption
     DEF RequestOK, PollRetire, Retire, Wake, KeyOf, LeaveRetire, DropRetire, slotVars,
         workVars, TypeOK
<1>13. CASE LastPoll(p)
  BY <1>1, <1>2, <1>13, RequestsAssumption
     DEF RequestOK, LastPoll, LastCost, slotVars, workVars, TypeOK
<1>14. QED
  BY <1>3, <1>4, <1>5, <1>6, <1>7, <1>8, <1>9, <1>10, <1>11, <1>12, <1>13
     DEF Act, Enter, Poll, Leave, Drop

\* The waiters of a slot are kept exact.
LEMMA WaiterStep == ASSUME IInv, NEW p \in Requests, Act(p) PROVE WaiterOK'
<1>1. TypeOK /\ RequestOK /\ WaiterOK /\ PollerOK /\ LastOK /\ OwnerOK /\ AttemptOK
  BY DEF IInv
<1>2. /\ slotOf[p] # NoSlot => slotOf[p] \in Requests
      /\ pc[p] \notin {"enter", "done"} => slotOf[p] \in Requests
  BY <1>1 DEF TypeOK, RequestOK
<1>3. CASE EnterLead(p)
  BY <1>1, <1>2, <1>3, RequestsAssumption
     DEF WaiterOK, InSlot, LastOK, Departing, Lasts, RequestOK, AttemptOK, EnterLead, Join,
         Joinable, KeyOf, slotVars, workVars, TypeOK
<1>4. CASE EnterJoin(p)
  <2> DEFINE s == registry[KeyOf[p]]
  <2>1. Joins(p, s)
    BY <1>4, JoinFacts
  <2> HIDE DEF s
  <2>2. \A q \in Requests : work'[q] # "none" <=> slotOf'[q] = q
    BY <1>1, <2>1, RequestsAssumption DEF Joins, WaiterOK
  <2>3. ASSUME NEW q \in Requests \ {p}, slotOf'[q] # NoSlot
        PROVE  /\ slotOf[q] # NoSlot /\ slotOf'[q] = slotOf[q] /\ pc'[q] = pc[q]
               /\ slotOf[q] \in Requests
               /\ q \in waiters'[slotOf[q]] <=> q \in waiters[slotOf[q]]
    <3>1. slotOf'[q] = slotOf[q] /\ pc'[q] = pc[q] /\ slotOf[q] \in Requests
      BY <1>1, <2>1, <2>3 DEF Joins, TypeOK
    <3>2. QED
      BY <2>1, <2>3, <3>1 DEF Joins
  <2>4. QED
    BY <1>1, <2>1, <2>2, <2>3 DEF Joins, WaiterOK, InSlot
<1>5. CASE PollTake(p) \/ PollWait(p) \/ PollAttempt(p) \/ Checks(p)
  BY <1>1, <1>2, <1>5, RequestsAssumption
     DEF WaiterOK, InSlot, LastOK, Departing, Lasts, RequestOK, AttemptOK, PollTake, Runs,
         PollWait, PollAttempt, Checks, slotVars, workVars, TypeOK
<1>6. CASE PollStart(p) \/ PollPending(p)
  BY <1>1, <1>2, <1>6, RequestsAssumption
     DEF WaiterOK, InSlot, LastOK, Departing, Lasts, RequestOK, AttemptOK, PollStart, Runs,
         PollPending, slotVars, workVars, TypeOK
<1>7. CASE PollReady(p)
  BY <1>1, <1>2, <1>7, RequestsAssumption
     DEF WaiterOK, InSlot, LastOK, Departing, Lasts, RequestOK, AttemptOK, PollReady,
         slotVars, workVars, TypeOK
<1>8. CASE Settle(p)
  BY <1>1, <1>2, <1>8, RequestsAssumption
     DEF WaiterOK, InSlot, LastOK, Departing, Lasts, RequestOK, AttemptOK, Settle, Share,
         slotVars, workVars, TypeOK
<1>9. CASE LeaveCompleted(p)
  BY <1>1, <1>2, <1>9, RequestsAssumption
     DEF WaiterOK, InSlot, LastOK, Departing, Lasts, RequestOK, AttemptOK, LeaveCompleted,
         slotVars, workVars, TypeOK
<1>10. CASE DropCompleted(p)
  BY <1>1, <1>2, <1>10, RequestsAssumption
     DEF WaiterOK, InSlot, LastOK, Departing, Lasts, RequestOK, AttemptOK, DropCompleted,
         Share, slotVars, workVars, TypeOK
<1>11. CASE EnterApart(p) \/ ReadOwner(p) \/ CallerEvent(p) \/ AttemptReady(p)
  BY <1>1, <1>2, <1>11, RequestsAssumption
     DEF WaiterOK, InSlot, LastOK, Departing, Lasts, RequestOK, AttemptOK, EnterApart,
         ReadOwner, CallerEvent, AttemptReady, Wake, slotVars, workVars, TypeOK
<1>12. CASE LeaveRemained(p)
  BY <1>1, <1>2, <1>12, RequestsAssumption
     DEF WaiterOK, InSlot, LastOK, Departing, Lasts, RequestOK, AttemptOK, LeaveRemained,
         Remove, IsLast, slotVars, workVars, TypeOK
<1>13. CASE DropRemained(p)
  BY <1>1, <1>2, <1>13, RequestsAssumption
     DEF WaiterOK, InSlot, LastOK, Departing, Lasts, RequestOK, AttemptOK, DropRemained,
         Remove, IsLast, slotVars, workVars, TypeOK
<1>14. CASE LeaveLast(p) \/ DropLast(p)
  BY <1>1, <1>2, <1>14, RequestsAssumption
     DEF WaiterOK, InSlot, LastOK, Departing, Lasts, RequestOK, AttemptOK, LeaveLast, Remove,
         IsLast, DropLast, slotVars, workVars, TypeOK
<1>15. CASE PollRetire(p) \/ LeaveRetire(p) \/ DropRetire(p)
  BY <1>1, <1>2, <1>15, RequestsAssumption
     DEF WaiterOK, InSlot, LastOK, Departing, Lasts, RequestOK, AttemptOK, PollRetire, Retire,
         Wake, KeyOf, LeaveRetire, DropRetire, slotVars, workVars, TypeOK
<1>16. CASE LastPoll(p)
  BY <1>1, <1>2, <1>16, RequestsAssumption
     DEF WaiterOK, InSlot, LastOK, Departing, Lasts, RequestOK, AttemptOK, LastPoll, LastCost,
         slotVars, workVars, TypeOK
<1>17. QED
  BY <1>3, <1>4, <1>5, <1>6, <1>7, <1>8, <1>9, <1>10, <1>11, <1>12, <1>13, <1>14, <1>15, <1>16
     DEF Act, Enter, Poll, Leave, Drop

\* One waiter at most has the attempt.
LEMMA PollerStep == ASSUME IInv, NEW p \in Requests, Act(p) PROVE PollerOK'
<1>1. TypeOK /\ RequestOK /\ WaiterOK /\ PollerOK /\ LastOK /\ OwnerOK /\ AttemptOK
  BY DEF IInv
<1>2. /\ slotOf[p] # NoSlot => slotOf[p] \in Requests
      /\ pc[p] \notin {"enter", "done"} => slotOf[p] \in Requests
  BY <1>1 DEF TypeOK, RequestOK
<1>3. CASE EnterLead(p)
  <2>1. Leads(p)
    BY <1>3, LeadFacts
  <2>2. ASSUME NEW q \in Requests, pc'[q] \in Polls
        PROVE  q # p /\ pc[q] \in Polls /\ slotOf'[q] = slotOf[q] /\ slotOf[q] \in Requests \ {p}
    <3>1. q # p
      BY <2>1, <2>2 DEF Leads, Polls
    <3>2. pc[q] \in Polls /\ slotOf'[q] = slotOf[q] /\ slotOf[q] # p
      BY <2>1, <2>2, <3>1 DEF Leads
    <3>3. slotOf[q] # NoSlot
      BY <1>1, <3>2 DEF RequestOK, Polls
    <3>4. QED
      BY <1>1, <3>1, <3>2, <3>3 DEF TypeOK
  <2>3. QED
    BY <1>1, <2>2, <2>1 DEF Leads, PollerOK
<1>4. CASE EnterJoin(p)
  BY <1>1, <1>2, <1>4, RequestsAssumption, SMTT(30)
     DEF PollerOK, Polls, InSlot, WaiterOK, AttemptOK, EnterJoin, Join, Joinable, KeyOf,
         slotVars, workVars, TypeOK
<1>5. CASE PollTake(p) \/ PollWait(p) \/ PollAttempt(p) \/ Checks(p)
  BY <1>1, <1>2, <1>5, RequestsAssumption
     DEF PollerOK, Polls, InSlot, WaiterOK, AttemptOK, PollTake, Runs, PollWait, PollAttempt,
         Checks, slotVars, workVars, TypeOK
<1>6. CASE PollStart(p)
  <2> DEFINE s == slotOf[p]
  <2>1. /\ s \in Requests /\ ~ended[s] /\ ~polling[s] /\ ended' = ended /\ slotOf' = slotOf
        /\ attempt'[s] = FALSE /\ polling'[s] = TRUE /\ pc'[p] = "polling"
        /\ \A x \in Requests \ {s} : attempt'[x] = attempt[x] /\ polling'[x] = polling[x]
        /\ \A x \in Requests \ {p} : pc'[x] = pc[x]
    BY <1>1, <1>2, <1>6 DEF TypeOK, PollStart, Runs
  <2>2. \A q \in Requests : slotOf[q] = s => pc[q] \notin Polls
    BY <1>1, <2>1 DEF PollerOK
  <2>3. ASSUME NEW q \in Requests, pc'[q] \in Polls
        PROVE  q = p \/ (pc[q] \in Polls /\ slotOf[q] \in Requests \ {s})
    BY <1>1, <2>1, <2>2, <2>3 DEF TypeOK, RequestOK, Polls
  <2>4. QED
    BY <1>1, <2>1, <2>3 DEF PollerOK
<1>7. CASE PollPending(p)
  BY <1>1, <1>2, <1>7, RequestsAssumption
     DEF PollerOK, Polls, InSlot, WaiterOK, AttemptOK, PollPending, slotVars, workVars, TypeOK
<1>8. CASE PollReady(p)
  BY <1>1, <1>2, <1>8, RequestsAssumption
     DEF PollerOK, Polls, InSlot, WaiterOK, AttemptOK, PollReady, slotVars, workVars, TypeOK
<1>9. CASE Settle(p) \/ LeaveCompleted(p) \/ DropCompleted(p)
  BY <1>1, <1>2, <1>9, RequestsAssumption
     DEF PollerOK, Polls, InSlot, WaiterOK, AttemptOK, Settle, Share, LeaveCompleted,
         DropCompleted, slotVars, workVars, TypeOK
<1>10. CASE EnterApart(p) \/ ReadOwner(p) \/ CallerEvent(p) \/ AttemptReady(p)
  BY <1>1, <1>2, <1>10, RequestsAssumption
     DEF PollerOK, Polls, InSlot, WaiterOK, AttemptOK, EnterApart, ReadOwner, CallerEvent,
         AttemptReady, Wake, slotVars, workVars, TypeOK
<1>11. CASE LeaveRemained(p) \/ DropRemained(p)
  BY <1>1, <1>2, <1>11, RequestsAssumption
     DEF PollerOK, Polls, InSlot, WaiterOK, AttemptOK, LeaveRemained, Remove, IsLast,
         DropRemained, slotVars, workVars, TypeOK
<1>12. CASE LeaveLast(p)
  BY <1>1, <1>2, <1>12, RequestsAssumption
     DEF PollerOK, Polls, InSlot, WaiterOK, AttemptOK, LeaveLast, Remove, IsLast, slotVars,
         workVars, TypeOK
<1>13. CASE DropLast(p)
  BY <1>1, <1>2, <1>13, RequestsAssumption
     DEF PollerOK, Polls, InSlot, WaiterOK, AttemptOK, DropLast, Remove, IsLast, slotVars,
         workVars, TypeOK
<1>14. CASE PollRetire(p) \/ LeaveRetire(p) \/ DropRetire(p)
  BY <1>1, <1>2, <1>14, RequestsAssumption
     DEF PollerOK, Polls, InSlot, WaiterOK, AttemptOK, PollRetire, Retire, Wake, KeyOf,
         LeaveRetire, DropRetire, slotVars, workVars, TypeOK
<1>15. CASE LastPoll(p)
  BY <1>1, <1>2, <1>15, RequestsAssumption
     DEF PollerOK, Polls, InSlot, WaiterOK, AttemptOK, LastPoll, LastCost, slotVars, workVars,
         TypeOK
<1>16. QED
  BY <1>3, <1>4, <1>5, <1>6, <1>7, <1>8, <1>9, <1>10, <1>11, <1>12, <1>13, <1>14, <1>15
     DEF Act, Enter, Poll, Leave, Drop

\* The last to leave is alone.
LEMMA LastStep == ASSUME IInv, NEW p \in Requests, Act(p) PROVE LastOK'
<1>1. TypeOK /\ RequestOK /\ WaiterOK /\ PollerOK /\ LastOK /\ OwnerOK /\ AttemptOK
  BY DEF IInv
<1>2. /\ slotOf[p] # NoSlot => slotOf[p] \in Requests
      /\ pc[p] \notin {"enter", "done"} => slotOf[p] \in Requests
  BY <1>1 DEF TypeOK, RequestOK
<1>3. CASE EnterLead(p)
  BY <1>1, <1>2, <1>3, RequestsAssumption
     DEF LastOK, Departing, Lasts, WaiterOK, RequestOK, AttemptOK, EnterLead, Join, Joinable,
         KeyOf, slotVars, workVars, TypeOK
<1>4. CASE EnterJoin(p)
  BY <1>1, <1>2, <1>4, RequestsAssumption, SMTT(30)
     DEF LastOK, Departing, Lasts, WaiterOK, RequestOK, AttemptOK, EnterJoin, Join, Joinable,
         KeyOf, slotVars, workVars, TypeOK
<1>5. CASE PollTake(p) \/ PollWait(p) \/ PollAttempt(p) \/ Checks(p)
  BY <1>1, <1>2, <1>5, RequestsAssumption
     DEF LastOK, Departing, Lasts, WaiterOK, RequestOK, AttemptOK, PollTake, Runs, PollWait,
         PollAttempt, Checks, slotVars, workVars, TypeOK
<1>6. CASE PollStart(p) \/ PollPending(p)
  BY <1>1, <1>2, <1>6, RequestsAssumption
     DEF LastOK, Departing, Lasts, WaiterOK, RequestOK, AttemptOK, PollStart, Runs,
         PollPending, slotVars, workVars, TypeOK
<1>7. CASE PollReady(p)
  BY <1>1, <1>2, <1>7, RequestsAssumption
     DEF LastOK, Departing, Lasts, WaiterOK, RequestOK, AttemptOK, PollReady, slotVars,
         workVars, TypeOK
<1>8. CASE Settle(p)
  BY <1>1, <1>2, <1>8, RequestsAssumption
     DEF LastOK, Departing, Lasts, WaiterOK, RequestOK, AttemptOK, Settle, Share, slotVars,
         workVars, TypeOK
<1>9. CASE LeaveCompleted(p)
  BY <1>1, <1>2, <1>9, RequestsAssumption
     DEF LastOK, Departing, Lasts, WaiterOK, RequestOK, AttemptOK, LeaveCompleted, slotVars,
         workVars, TypeOK
<1>10. CASE DropCompleted(p)
  BY <1>1, <1>2, <1>10, RequestsAssumption
     DEF LastOK, Departing, Lasts, WaiterOK, RequestOK, AttemptOK, DropCompleted, Share,
         slotVars, workVars, TypeOK
<1>11. CASE EnterApart(p) \/ ReadOwner(p) \/ CallerEvent(p) \/ AttemptReady(p)
  BY <1>1, <1>2, <1>11, RequestsAssumption
     DEF LastOK, Departing, Lasts, WaiterOK, RequestOK, AttemptOK, EnterApart, ReadOwner,
         CallerEvent, AttemptReady, Wake, slotVars, workVars, TypeOK
<1>12. CASE LeaveRemained(p)
  BY <1>1, <1>2, <1>12, RequestsAssumption
     DEF LastOK, Departing, Lasts, WaiterOK, RequestOK, AttemptOK, LeaveRemained, Remove,
         IsLast, slotVars, workVars, TypeOK
<1>13. CASE DropRemained(p)
  BY <1>1, <1>2, <1>13, RequestsAssumption
     DEF LastOK, Departing, Lasts, WaiterOK, RequestOK, AttemptOK, DropRemained, Remove,
         IsLast, slotVars, workVars, TypeOK
<1>14. CASE LeaveLast(p)
  <2> DEFINE s == slotOf[p]
  <2>1. /\ s \in Requests /\ s # NoSlot /\ waiters[s] = {p} /\ ~ended[s] /\ waiters'[s] = {}
        /\ UNCHANGED <<slotOf, ended, settled>> /\ pc[p] \notin Lasts
        /\ \A x \in Requests \ {s} : waiters'[x] = waiters[x]
        /\ \A x \in Requests \ {p} : pc'[x] = pc[x]
    BY <1>1, <1>2, <1>14, RequestsAssumption DEF TypeOK, LeaveLast, Remove, IsLast, Lasts
  <2>2. \A q \in Requests \ {p} : slotOf[q] = s => ~Departing(q) /\ q \notin waiters[s]
    BY <1>1, <2>1 DEF LastOK
  <2>3. \A q \in Requests \ {p} : slotOf[q] = s => pc[q] = "done" /\ settled[q] = "zero"
    BY <1>1, <2>1, <2>2 DEF TypeOK, RequestOK, WaiterOK, Departing, InSlot, Lasts
  <2>4. \A q \in Requests : Departing(q)' => q = p \/ (Departing(q) /\ slotOf[q] # s)
    BY <2>1, <2>2 DEF Departing
  <2>5. ASSUME NEW q \in Requests, Departing(q)'
        PROVE  /\ waiters'[slotOf[q]] = {}
               /\ \A r \in Requests \ {q} : slotOf[r] = slotOf[q] => settled[r] = "zero"
    <3>1. CASE q = p
      BY <2>1, <2>3, <3>1
    <3>2. CASE q # p
      BY <1>1, <2>4, <2>5, <2>1, <3>2 DEF LastOK, Departing, TypeOK
    <3>3. QED
      BY <3>1, <3>2
  <2>6. QED
    BY <2>1, <2>5 DEF LastOK
<1>15. CASE DropLast(p)
  <2> DEFINE s == slotOf[p]
  <2>1. /\ s \in Requests /\ s # NoSlot /\ waiters[s] = {p} /\ ~ended[s] /\ waiters'[s] = {}
        /\ UNCHANGED <<slotOf, ended, settled>> /\ pc[p] \notin Lasts
        /\ \A x \in Requests \ {s} : waiters'[x] = waiters[x]
        /\ \A x \in Requests \ {p} : pc'[x] = pc[x]
    BY <1>1, <1>2, <1>15, RequestsAssumption DEF TypeOK, DropLast, Remove, IsLast, Lasts
  <2>2. \A q \in Requests \ {p} : slotOf[q] = s => ~Departing(q) /\ q \notin waiters[s]
    BY <1>1, <2>1 DEF LastOK
  <2>3. \A q \in Requests \ {p} : slotOf[q] = s => pc[q] = "done" /\ settled[q] = "zero"
    BY <1>1, <2>1, <2>2 DEF TypeOK, RequestOK, WaiterOK, Departing, InSlot, Lasts
  <2>4. \A q \in Requests : Departing(q)' => q = p \/ (Departing(q) /\ slotOf[q] # s)
    BY <2>1, <2>2 DEF Departing
  <2>5. ASSUME NEW q \in Requests, Departing(q)'
        PROVE  /\ waiters'[slotOf[q]] = {}
               /\ \A r \in Requests \ {q} : slotOf[r] = slotOf[q] => settled[r] = "zero"
    <3>1. CASE q = p
      BY <2>1, <2>3, <3>1
    <3>2. CASE q # p
      BY <1>1, <2>4, <2>5, <2>1, <3>2 DEF LastOK, Departing, TypeOK
    <3>3. QED
      BY <3>1, <3>2
  <2>6. QED
    BY <2>1, <2>5 DEF LastOK
<1>16. CASE DropRetire(p)
  <2> DEFINE s == slotOf[p]
  <2>1. /\ s \in Requests /\ s # NoSlot /\ pc[p] = "dropRetire" /\ pc'[p] = "done"
        /\ settled'[p] = "liability" /\ UNCHANGED <<waiters, ended, slotOf>>
        /\ \A x \in Requests \ {p} : pc'[x] = pc[x] /\ settled'[x] = settled[x]
    BY <1>1, <1>2, <1>16, RequestsAssumption DEF TypeOK, DropRetire, slotVars
  <2>2. \A q \in Requests : Departing(q)' => Departing(q)
    BY <2>1 DEF Departing, Lasts
  <2>3. \A q \in Requests : Departing(q) /\ q # p => slotOf[q] # s
    BY <1>1, <2>1 DEF LastOK, RequestOK
  <2>4. QED
    BY <1>1, <2>1, <2>2, <2>3 DEF LastOK
<1>17. CASE PollRetire(p) \/ LeaveRetire(p)
  BY <1>1, <1>2, <1>17, RequestsAssumption
     DEF LastOK, Departing, Lasts, WaiterOK, RequestOK, AttemptOK, PollRetire, Retire, Wake,
         KeyOf, LeaveRetire, slotVars, workVars, TypeOK
<1>18. CASE LastPoll(p)
  <2> DEFINE s == slotOf[p]
  <2>1. Abandons(p, slotOf[p])
    BY <1>18, LastFacts
  <2>2. \A q \in Requests : Departing(q)' => Departing(q)
    BY <2>1 DEF Abandons, Departing
  <2>3. \A q \in Requests : Departing(q) /\ q # p => slotOf[q] # s
    BY <1>1, <2>1 DEF Abandons, LastOK, RequestOK
  <2>4. QED
    BY <1>1, <2>2, <2>3, <2>1 DEF Abandons, LastOK
<1>19. QED
  BY <1>3, <1>4, <1>5, <1>6, <1>7, <1>8, <1>9, <1>10, <1>11, <1>12, <1>13, <1>14, <1>15,
     <1>16, <1>17, <1>18
     DEF Act, Enter, Poll, Leave, Drop

\* The charge has one owner.
LEMMA OwnerStep == ASSUME IInv, NEW p \in Requests, Act(p) PROVE OwnerOK'
<1>1. TypeOK /\ RequestOK /\ WaiterOK /\ PollerOK /\ LastOK /\ OwnerOK /\ AttemptOK
  BY DEF IInv
<1>2. /\ slotOf[p] # NoSlot => slotOf[p] \in Requests
      /\ pc[p] \notin {"enter", "done"} => slotOf[p] \in Requests
  BY <1>1 DEF TypeOK, RequestOK
<1>3. CASE EnterLead(p)
  BY <1>1, <1>2, <1>3, RequestsAssumption, SMTT(30)
     DEF OwnerOK, Lasts, LastOK, Departing, WaiterOK, InSlot, RequestOK, AttemptOK, EnterLead,
         Join, Joinable, KeyOf, slotVars, workVars, TypeOK
<1>4. CASE EnterJoin(p)
  <2> DEFINE s == registry[KeyOf[p]]
  <2>1. Joins(p, s)
    BY <1>4, JoinFacts
  <2> HIDE DEF s
  <2>2. settled[p] = "no"
    BY <1>1, <2>1 DEF Joins, RequestOK
  <2>3. \A x \in Requests : ~ended'[x] /\ waiters'[x] # {} => owner'[x] \in waiters'[x]
    BY <1>1, <2>1 DEF Joins, OwnerOK
  <2>4. \A q \in Requests : pc'[q] = "leaving" /\ sawOwner'[q] => owner'[slotOf'[q]] = q
    BY <1>1, <2>1 DEF Joins, OwnerOK
  <2>5. \A q \in Requests : slotOf'[q] # NoSlot /\ ended'[slotOf'[q]] =>
          /\ pc'[q] \notin Lasts /\ settled'[q] # "liability"
          /\ settled'[q] = "charge" => owner'[slotOf'[q]] = q
    BY <1>1, <2>1 DEF Joins, OwnerOK
  <2>6. \A x \in Requests : ended[x] => owner[x] # p /\ slotOf'[owner[x]] = slotOf[owner[x]]
    BY <1>1, <2>1, RequestsAssumption DEF Joins, OwnerOK, TypeOK
  <2>7. QED
    BY <1>1, <2>1, <2>3, <2>4, <2>5, <2>6 DEF Joins, OwnerOK
<1>5. CASE PollTake(p) \/ PollWait(p) \/ PollAttempt(p) \/ Checks(p)
  BY <1>1, <1>2, <1>5, RequestsAssumption
     DEF OwnerOK, Lasts, LastOK, Departing, WaiterOK, InSlot, RequestOK, AttemptOK, PollTake,
         Runs, PollWait, PollAttempt, Checks, slotVars, workVars, TypeOK
<1>6. CASE PollStart(p) \/ PollPending(p)
  BY <1>1, <1>2, <1>6, RequestsAssumption
     DEF OwnerOK, Lasts, LastOK, Departing, WaiterOK, InSlot, RequestOK, AttemptOK, PollStart,
         Runs, PollPending, slotVars, workVars, TypeOK
<1>7. CASE PollReady(p)
  <2> DEFINE s == slotOf[p]
  <2>1. Completes(p, slotOf[p])
    BY <1>7, ReadyFacts
  <2>2. slotOf[owner[s]] = s /\ settled[owner[s]] = "no"
    BY <1>1, <2>1 DEF Completes, TypeOK, WaiterOK, RequestOK, InSlot
  <2>3. \A q \in Requests : slotOf[q] = s =>
          pc[q] \notin Lasts /\ settled[q] \notin {"charge", "liability"}
    BY <1>1, <2>1 DEF Completes, LastOK, Departing
  <2>4. ASSUME NEW q \in Requests, slotOf[q] # NoSlot, ended'[slotOf[q]]
        PROVE  /\ pc'[q] \notin Lasts /\ settled[q] # "liability"
               /\ settled[q] = "charge" => owner[slotOf[q]] = q
    <3>1. CASE slotOf[q] = s
      BY <2>3, <3>1, <2>1 DEF Completes, Lasts
    <3>2. CASE slotOf[q] # s
      BY <1>1, <2>4, <3>2, <2>1 DEF Completes, OwnerOK, TypeOK
    <3>3. QED
      BY <3>1, <3>2
  <2>5. QED
    BY <1>1, <2>2, <2>4, <2>1 DEF Completes, OwnerOK
<1>8. CASE Settle(p)
  BY <1>1, <1>2, <1>8, RequestsAssumption
     DEF OwnerOK, Lasts, LastOK, Departing, WaiterOK, InSlot, RequestOK, AttemptOK, Settle,
         Share, slotVars, workVars, TypeOK
<1>9. CASE LeaveCompleted(p)
  BY <1>1, <1>2, <1>9, RequestsAssumption
     DEF OwnerOK, Lasts, LastOK, Departing, WaiterOK, InSlot, RequestOK, AttemptOK,
         LeaveCompleted, slotVars, workVars, TypeOK
<1>10. CASE DropCompleted(p)
  BY <1>1, <1>2, <1>10, RequestsAssumption
     DEF OwnerOK, Lasts, LastOK, Departing, WaiterOK, InSlot, RequestOK, AttemptOK,
         DropCompleted, Share, slotVars, workVars, TypeOK
<1>11. CASE EnterApart(p)
  BY <1>1, <1>2, <1>11, RequestsAssumption
     DEF OwnerOK, Lasts, LastOK, Departing, WaiterOK, InSlot, RequestOK, AttemptOK,
         EnterApart, slotVars, workVars, TypeOK
<1>12. CASE ReadOwner(p)
  BY <1>1, <1>2, <1>12, RequestsAssumption
     DEF OwnerOK, Lasts, LastOK, Departing, WaiterOK, InSlot, RequestOK, AttemptOK, ReadOwner,
         slotVars, workVars, TypeOK
<1>13. CASE CallerEvent(p)
  BY <1>1, <1>2, <1>13, RequestsAssumption
     DEF OwnerOK, Lasts, LastOK, Departing, WaiterOK, InSlot, RequestOK, AttemptOK,
         CallerEvent, slotVars, workVars, TypeOK
<1>14. CASE AttemptReady(p)
  BY <1>1, <1>2, <1>14, RequestsAssumption
     DEF OwnerOK, Lasts, LastOK, Departing, WaiterOK, InSlot, RequestOK, AttemptOK,
         AttemptReady, Wake, slotVars, workVars, TypeOK
<1>15. CASE LeaveRemained(p) \/ DropRemained(p)
  <2> DEFINE s == slotOf[p]
  <2>1. Departs(p, slotOf[p])
    BY <1>15, RemainFacts
  <2>2. /\ s \in Requests /\ ~ended[s]
        /\ owner[s] = p => owner'[s] \in waiters'[s]
        /\ owner[s] # p => owner'[s] = owner[s]
        /\ waiters'[s] = waiters[s] \ {p} /\ settled'[p] = "zero" /\ pc'[p] = "done"
        /\ \A x \in Requests \ {s} : waiters'[x] = waiters[x] /\ owner'[x] = owner[x]
        /\ \A x \in Requests \ {p} : settled'[x] = settled[x] /\ pc'[x] = pc[x]
        /\ UNCHANGED <<ended, slotOf, wants, sawOwner>>
    BY <1>1, <2>1 DEF Departs, TypeOK
  <2> HIDE DEF s
  <2>3. \A x \in Requests : ~ended'[x] /\ waiters'[x] # {} => owner'[x] \in waiters'[x]
    BY <1>1, <2>2 DEF OwnerOK
  <2>4. ASSUME NEW q \in Requests, slotOf[q] # NoSlot, ended[slotOf[q]]
        PROVE  q # p /\ slotOf[q] \in Requests \ {s}
    BY <1>1, <2>2, <2>4 DEF TypeOK, s
  <2>5. ASSUME NEW q \in Requests, pc'[q] = "leaving", sawOwner[q]
        PROVE  owner'[slotOf[q]] = q
    <3>1. q # p /\ pc[q] = "leaving" /\ slotOf[q] \in Requests
      BY <1>1, <2>2, <2>5 DEF TypeOK, RequestOK
    <3>2. owner[slotOf[q]] = q
      BY <1>1, <2>5, <3>1 DEF OwnerOK
    <3>3. QED
      BY <2>2, <3>1, <3>2
  <2>6. QED
    BY <1>1, <2>2, <2>3, <2>4, <2>5 DEF OwnerOK, TypeOK, s
<1>16. CASE LeaveLast(p) \/ DropLast(p)
  BY <1>1, <1>2, <1>16, RequestsAssumption
     DEF OwnerOK, Lasts, LastOK, Departing, WaiterOK, InSlot, RequestOK, AttemptOK, LeaveLast,
         Remove, IsLast, DropLast, slotVars, workVars, TypeOK
<1>17. CASE PollRetire(p) \/ LeaveRetire(p) \/ DropRetire(p)
  BY <1>1, <1>2, <1>17, RequestsAssumption, SMTT(30)
     DEF OwnerOK, Lasts, LastOK, Departing, WaiterOK, InSlot, RequestOK, AttemptOK,
         PollRetire, Retire, Wake, KeyOf, LeaveRetire, DropRetire, slotVars, workVars, TypeOK
<1>18. CASE LastPoll(p)
  BY <1>1, <1>2, <1>18, RequestsAssumption
     DEF OwnerOK, Lasts, LastOK, Departing, WaiterOK, InSlot, RequestOK, AttemptOK, LastPoll,
         LastCost, slotVars, workVars, TypeOK
<1>19. QED
  BY <1>3, <1>4, <1>5, <1>6, <1>7, <1>8, <1>9, <1>10, <1>11, <1>12, <1>13, <1>14, <1>15,
     <1>16, <1>17, <1>18
     DEF Act, Enter, Poll, Leave, Drop

\* The attempt is in flight while somebody waits for it.
LEMMA AttemptStep == ASSUME IInv, NEW p \in Requests, Act(p) PROVE AttemptOK'
<1>1. TypeOK /\ RequestOK /\ WaiterOK /\ PollerOK /\ LastOK /\ OwnerOK /\ AttemptOK
  BY DEF IInv
<1>2. /\ slotOf[p] # NoSlot => slotOf[p] \in Requests
      /\ pc[p] \notin {"enter", "done"} => slotOf[p] \in Requests
  BY <1>1 DEF TypeOK, RequestOK
<1>3. CASE EnterLead(p)
  <2>1. Leads(p)
    BY <1>3, LeadFacts
  <2>2. ASSUME NEW x \in Requests \ {p}, NEW q \in Requests, slotOf[q] = x
        PROVE  q # p /\ slotOf'[q] = x /\ settled'[q] = settled[q] /\ pc'[q] = pc[q]
    BY <2>2, <2>1, RequestsAssumption DEF Leads
  <2>3. QED
    BY <1>1, <2>2, <2>1 DEF Leads, AttemptOK
<1>4. CASE EnterJoin(p)
  <2> DEFINE s == registry[KeyOf[p]]
  <2>1. Joins(p, registry[KeyOf[p]])
    BY <1>4, JoinFacts
  <2>2. settled[p] = "no" /\ work[s] \in {"running", "ready"} /\ ~signal[s]
    BY <1>1, <2>1 DEF Joins, RequestOK, AttemptOK
  <2>3. \A q \in Requests : settled[q] # "no" \/ pc[q] = "dropRetire" =>
          q # p /\ slotOf'[q] = slotOf[q] /\ settled'[q] = settled[q] /\ pc'[q] = pc[q]
    BY <2>2, <2>1 DEF Joins
  <2>4. QED
    BY <1>1, <2>2, <2>3, <2>1 DEF Joins, AttemptOK
<1>5. CASE PollTake(p) \/ PollWait(p) \/ PollAttempt(p) \/ Checks(p)
  BY <1>1, <1>2, <1>5, RequestsAssumption
     DEF AttemptOK, WaiterOK, RequestOK, PollerOK, LastOK, Departing, PollTake, Runs,
         PollWait, PollAttempt, Checks, slotVars, workVars, TypeOK
<1>6. CASE PollPending(p)
  <2> DEFINE s == slotOf[p]
  <2>1. /\ s \in Requests /\ ~ended[s] /\ waiters[s] # {}
        /\ \A x \in Requests \ {s} : attempt'[x] = attempt[x]
        /\ \A x \in Requests \ {p} : pc'[x] = pc[x]
        /\ UNCHANGED <<ended, waiters, work, signal, slotOf, settled>> /\ pc[p] = "pending"
    BY <1>1, <1>2, <1>6, RequestsAssumption
       DEF TypeOK, PollPending, workVars, PollerOK, Polls, WaiterOK, InSlot
  <2>2. QED
    BY <1>1, <2>1 DEF AttemptOK
<1>7. CASE PollStart(p)
  BY <1>1, <1>2, <1>7, RequestsAssumption
     DEF AttemptOK, WaiterOK, RequestOK, PollerOK, LastOK, Departing, PollStart, Runs,
         slotVars, workVars, TypeOK
<1>8. CASE PollReady(p)
  <2>1. Completes(p, slotOf[p])
    BY <1>8, ReadyFacts
  <2>2. \A q \in Requests : pc[q] = "dropRetire" => pc'[q] = "dropRetire"
    BY <2>1 DEF Completes
  <2>3. QED
    BY <1>1, <2>2, <2>1 DEF Completes, AttemptOK
<1>9. CASE Settle(p) \/ LeaveCompleted(p) \/ DropCompleted(p)
  BY <1>1, <1>2, <1>9, RequestsAssumption, SMTT(30)
     DEF AttemptOK, WaiterOK, RequestOK, PollerOK, LastOK, Departing, Settle, Share,
         LeaveCompleted, DropCompleted, slotVars, workVars, TypeOK
<1>10. CASE EnterApart(p) \/ ReadOwner(p) \/ CallerEvent(p) \/ AttemptReady(p)
  BY <1>1, <1>2, <1>10, RequestsAssumption
     DEF AttemptOK, WaiterOK, RequestOK, PollerOK, LastOK, Departing, EnterApart, ReadOwner,
         CallerEvent, AttemptReady, Wake, slotVars, workVars, TypeOK
<1>11. CASE LeaveRemained(p) \/ DropRemained(p)
  <2> DEFINE s == slotOf[p]
  <2>1. Departs(p, s)
    BY <1>11, RemainFacts
  <2> HIDE DEF s
  <2>2. /\ s \in Requests /\ waiters'[s] # {} /\ waiters[s] # {}
        /\ \A x \in Requests \ {s} : waiters'[x] = waiters[x]
    BY <1>1, <2>1 DEF Departs, TypeOK
  <2>3. /\ \A x \in Requests \ {p} : settled'[x] = settled[x] /\ pc'[x] = pc[x]
        /\ pc[p] # "dropRetire" /\ settled[p] = "no"
        /\ attempt' = attempt /\ ended' = ended /\ work' = work /\ signal' = signal
        /\ slotOf' = slotOf
    BY <1>1, <2>1 DEF Departs, TypeOK
  <2>4. ASSUME NEW x \in Requests
        PROVE  waiters[x] = {} <=> waiters'[x] = {}
    BY <2>2
  <2>5. ASSUME NEW x \in Requests, NEW q \in Requests, slotOf[q] = x,
               settled[q] \in {"charge", "liability"} \/ pc[q] = "dropRetire"
        PROVE  slotOf'[q] = x /\ settled'[q] = settled[q] /\ pc'[q] = pc[q]
    BY <2>3, <2>5
  <2>6. QED
    BY <1>1, <2>3, <2>4, <2>5 DEF AttemptOK
<1>12. CASE LeaveLast(p) \/ DropLast(p)
  BY <1>1, <1>2, <1>12, RequestsAssumption
     DEF AttemptOK, WaiterOK, RequestOK, PollerOK, LastOK, Departing, LeaveLast, Remove,
         IsLast, DropLast, slotVars, workVars, TypeOK
<1>13. CASE PollRetire(p) \/ LeaveRetire(p) \/ DropRetire(p)
  BY <1>1, <1>2, <1>13, RequestsAssumption
     DEF AttemptOK, WaiterOK, RequestOK, PollerOK, LastOK, Departing, PollRetire, Retire,
         Wake, KeyOf, LeaveRetire, DropRetire, slotVars, workVars, TypeOK
<1>14. CASE LastPoll(p)
  <2> DEFINE s == slotOf[p]
  <2>1. Abandons(p, slotOf[p])
    BY <1>14, LastFacts
  <2>2. ASSUME NEW x \in Requests \ {s}
        PROVE  /\ UNCHANGED <<attempt[x], ended[x], waiters[x], work[x], signal[x]>>
               /\ \A q \in Requests : slotOf[q] = x => UNCHANGED <<slotOf[q], settled[q], pc[q]>>
    BY <2>1 DEF Abandons
  <2>3. /\ s \in Requests /\ ~attempt'[s] /\ waiters'[s] = {} /\ ~ended'[s]
        /\ work'[s] \in {"done", "dropped"} /\ (work'[s] = "done" <=> settled'[p] = "charge")
        /\ settled'[p] \in {"charge", "liability"}
    BY <1>1, <2>1 DEF Abandons, AttemptOK
  <2>4. \E q \in Requests : slotOf'[q] = s /\ settled'[q] = settled'[p]
    BY <2>1 DEF Abandons
  <2> HIDE DEF s
  <2>5. QED
    BY <1>1, <2>2, <2>3, <2>4 DEF AttemptOK
<1>15. QED
  BY <1>3, <1>4, <1>5, <1>6, <1>7, <1>8, <1>9, <1>10, <1>11, <1>12, <1>13, <1>14
     DEF Act, Enter, Poll, Leave, Drop

-----------------------------------------------------------------------------
(* The registry.                                                           *)

\* Where a request is about to take its slot out of the registry.
Retires == {"retire", "lastRetire", "dropRetire"}

\* A slot that is in flight, or that somebody is about to retire.
Kept(s) ==
    \/ ~ended[s] /\ waiters[s] # {}
    \/ \E p \in Requests : slotOf[p] = s /\ pc[p] \in Retires

LEMMA NoLeakIsKept ==
    /\ NoLeak <=> \A k \in Keys : registry[k] # NoSlot => Kept(registry[k])
    /\ NoLeak' <=> \A k \in Keys : registry'[k] # NoSlot => Kept(registry[k])'
  BY DEF NoLeak, Kept, Waiting, Retires

\* A step that leaves the registry alone.
LEMMA RegistryQuiet ==
    ASSUME IInv, UNCHANGED <<load, registry>>,
           \A s \in Requests : work[s] # "none" => work'[s] # "none",
           \A s \in Requests : work[s] # "none" /\ Kept(s) => Kept(s)'
    PROVE  RegistryOK'
<1>1. TypeOK /\ RegistryOK
  BY DEF IInv
<1>2. \A k \in Keys : registry[k] # NoSlot => registry[k] \in Requests
  BY <1>1 DEF TypeOK
<1>3. NoLeak'
  <2>1. ASSUME NEW k \in Keys, registry[k] # NoSlot
        PROVE  Kept(registry[k])'
    <3>1. registry[k] \in Requests /\ work[registry[k]] # "none" /\ Kept(registry[k])
      BY <1>1, <1>2, <2>1, NoLeakIsKept DEF RegistryOK
    <3>2. Kept(registry[k]) => Kept(registry[k])'
      <4>1. PICK s \in Requests : s = registry[k]
        BY <3>1
      <4>2. Kept(s) => Kept(s)'
        BY <3>1, <4>1
      <4>3. registry'[k] = s
        BY <4>1
      <4>4. QED
        BY <3>1, <4>1, <4>2, <4>3 DEF Kept
    <3>3. QED
      BY <3>1, <3>2
  <2>2. QED
    BY <2>1, NoLeakIsKept
<1>4. /\ InRegistry' = InRegistry
      /\ \A k \in Keys : KeyOf' = KeyOf
  BY DEF InRegistry, KeyOf
<1>5. \A k \in Keys : registry[k] # NoSlot =>
          KeyOf'[registry'[k]] = k /\ work'[registry'[k]] # "none"
  BY <1>1, <1>2, <1>4 DEF RegistryOK
<1>6. IsFiniteSet(InRegistry)' /\ RegistryBound'
  BY <1>1, <1>4 DEF RegistryOK, RegistryBound
<1>7. QED
  BY <1>3, <1>5, <1>6 DEF RegistryOK

\* The last user of a slot takes it out, and only it.
LEMMA RegistryRetires ==
    ASSUME IInv, NEW p \in Requests, pc[p] \in Retires, slotOf[p] \in Requests,
           Retire(slotOf[p]), pc' = [pc EXCEPT ![p] = pc'[p]],
           UNCHANGED <<load, work, ended, waiters, slotOf>>
    PROVE  RegistryOK'
<1> DEFINE s == slotOf[p]
<1>1. TypeOK /\ RegistryOK /\ \A q \in Requests \ {p} : pc'[q] = pc[q]
  BY DEF IInv, TypeOK
<1>2. KeyOf' = KeyOf /\ \A k \in Keys : registry[k] # NoSlot => registry[k] \in Requests
  BY <1>1 DEF TypeOK, KeyOf
<1>3. \A k \in Keys : /\ registry'[k] = NoSlot \/ registry'[k] = registry[k]
                      /\ registry[k] = s => registry'[k] = NoSlot
  <2>1. ASSUME NEW k \in Keys, registry[k] = s
        PROVE  KeyOf[s] = k
    BY <1>1, <1>2, <2>1, RequestsAssumption DEF RegistryOK
  <2>2. QED
    BY <1>1, <2>1 DEF Retire, TypeOK
<1>4. \A k \in Keys : registry'[k] # NoSlot =>
         /\ registry'[k] = registry[k] /\ registry[k] \in Requests \ {s}
         /\ Kept(registry[k]) /\ KeyOf[registry[k]] = k /\ work[registry[k]] # "none"
  BY <1>1, <1>2, <1>3, NoLeakIsKept DEF RegistryOK
<1>5. \A x \in Requests \ {s} : Kept(x) => Kept(x)'
  BY <1>1 DEF Kept
<1>6. NoLeak'
  <2>1. ASSUME NEW k \in Keys, registry'[k] # NoSlot
        PROVE  Kept(registry[k])'
    <3>1. PICK x \in Requests \ {s} : x = registry[k] /\ x = registry'[k]
      BY <1>4, <2>1
    <3>2. Kept(x)'
      BY <1>4, <1>5, <2>1, <3>1
    <3>3. QED
      BY <3>1, <3>2 DEF Kept
  <2>2. QED
    BY <2>1, NoLeakIsKept
<1>7. InRegistry' \subseteq InRegistry
  BY <1>4, RequestsAssumption DEF InRegistry
<1>8. IsFiniteSet(InRegistry') /\ Cardinality(InRegistry') =< Cardinality(InRegistry)
  BY <1>1, <1>7, FS_Subset DEF RegistryOK
<1>9. RegistryBound'
  <2>1. Cardinality(InRegistry) \in Nat /\ Cardinality(InRegistry') \in Nat
    BY <1>1, <1>8, FS_CardinalityType DEF RegistryOK
  <2>2. QED
    BY <1>1, <1>8, <2>1, BoundsAssumption DEF RegistryOK, RegistryBound
<1>10. QED
  BY <1>2, <1>4, <1>6, <1>8, <1>9 DEF RegistryOK

\* A new slot takes a free place or the one of a slot it replaces.
LEMMA RegistryLeads ==
    ASSUME IInv, NEW p \in Requests, EnterLead(p)
    PROVE  RegistryOK'
<1> DEFINE c == KeyOf[p]
<1>1. TypeOK /\ RegistryOK
  BY DEF IInv
<1>2. /\ slotOf[p] = NoSlot /\ work[p] = "none" /\ waiters[p] = {} /\ ~ended[p]
      /\ \A q \in Requests : slotOf[q] # p
  BY LeadFacts DEF Leads
<1>3. c \in Keys /\ KeyOf' = KeyOf
  BY <1>1, LoadsAssumption DEF TypeOK, KeyOf, EnterLead
<1>4. /\ registry'[c] = p /\ \A k \in Keys \ {c} : registry'[k] = registry[k]
      /\ waiters'[p] = {p} /\ \A x \in Requests \ {p} : waiters'[x] = waiters[x]
      /\ work'[p] = "running" /\ \A x \in Requests \ {p} : work'[x] = work[x]
      /\ pc'[p] = "poll" /\ \A q \in Requests \ {p} : pc'[q] = pc[q] /\ slotOf'[q] = slotOf[q]
      /\ ended' = ended /\ pc[p] = "enter"
  BY <1>1, <1>2, <1>3 DEF EnterLead, Join, TypeOK
<1>5. \A x \in Requests \ {p} : Kept(x) => Kept(x)'
  BY <1>2, <1>4 DEF Kept, Retires
<1>6. Kept(p)'
  BY <1>2, <1>4 DEF Kept
<1>7. \A k \in Keys : registry[k] # NoSlot =>
         /\ registry[k] \in Requests \ {p} /\ Kept(registry[k])
         /\ KeyOf[registry[k]] = k /\ work[registry[k]] # "none"
  BY <1>1, <1>2, NoLeakIsKept DEF TypeOK, RegistryOK
<1>8. NoLeak'
  <2>1. ASSUME NEW k \in Keys, registry'[k] # NoSlot
        PROVE  Kept(registry[k])'
    <3>1. PICK x \in Requests : x = registry'[k] /\ (x = p \/ x = registry[k])
      BY <1>4, <1>7, <2>1
    <3>2. Kept(x)'
      BY <1>4, <1>5, <1>6, <1>7, <2>1, <3>1
    <3>3. QED
      BY <3>1, <3>2 DEF Kept
  <2>2. QED
    BY <2>1, NoLeakIsKept
<1>9. InRegistry' = InRegistry \cup {c}
  BY <1>3, <1>4, RequestsAssumption DEF InRegistry
<1>10. /\ IsFiniteSet(InRegistry') /\ Cardinality(InRegistry) \in Nat
       /\ Cardinality(InRegistry') = IF c \in InRegistry THEN Cardinality(InRegistry)
                                     ELSE Cardinality(InRegistry) + 1
  BY <1>1, <1>9, FS_AddElement, FS_CardinalityType DEF RegistryOK
<1>11. c \in InRegistry \/ Cardinality(InRegistry) < MaxSlots
  BY <1>3 DEF EnterLead, HasRoom, InRegistry
<1>12. RegistryBound'
  BY <1>1, <1>10, <1>11, BoundsAssumption DEF RegistryOK, RegistryBound
<1>13. \A k \in Keys : registry'[k] # NoSlot =>
          KeyOf'[registry'[k]] = k /\ work'[registry'[k]] # "none"
  BY <1>3, <1>4, <1>7
<1>14. QED
  BY <1>8, <1>10, <1>12, <1>13 DEF RegistryOK

\* No slot outlives its use, and the registry stays within its bound.
LEMMA RegistryStep == ASSUME IInv, NEW p \in Requests, Act(p) PROVE RegistryOK'
<1>1. TypeOK /\ RequestOK /\ WaiterOK /\ PollerOK /\ LastOK /\ OwnerOK /\ AttemptOK
  BY DEF IInv
<1>2. /\ slotOf[p] # NoSlot => slotOf[p] \in Requests
      /\ pc[p] \notin {"enter", "done"} => slotOf[p] \in Requests
  BY <1>1 DEF TypeOK, RequestOK
<1>3. CASE \/ EnterApart(p) \/ PollTake(p) \/ PollWait(p) \/ PollStart(p) \/ PollAttempt(p)
           \/ PollPending(p) \/ Checks(p) \/ Settle(p) \/ ReadOwner(p) \/ LastPoll(p)
           \/ AttemptReady(p) \/ CallerEvent(p)
  <2>1. /\ UNCHANGED <<load, registry, ended, waiters, slotOf>>
        /\ \A x \in Requests : work[x] # "none" => work'[x] # "none"
        /\ \A q \in Requests : pc[q] \in Retires => pc'[q] = pc[q]
    <3>1. CASE LastPoll(p)
      BY <1>1, <3>1 DEF LastPoll, slotVars, TypeOK, Retires
    <3>2. CASE AttemptReady(p)
      BY <1>1, <3>2 DEF AttemptReady, slotVars, TypeOK
    <3>3. CASE EnterApart(p) \/ Checks(p) \/ Settle(p) \/ ReadOwner(p) \/ CallerEvent(p)
      BY <1>1, <3>3 DEF EnterApart, Checks, Settle, ReadOwner, CallerEvent, slotVars, workVars,
                        TypeOK, Retires
    <3>4. CASE PollTake(p) \/ PollWait(p) \/ PollStart(p) \/ PollAttempt(p) \/ PollPending(p)
      BY <1>1, <3>4 DEF PollTake, PollWait, PollStart, PollAttempt, PollPending, Runs, slotVars,
                        workVars, TypeOK, Retires
    <3>5. QED
      BY <1>3, <3>1, <3>2, <3>3, <3>4
  <2>2. \A x \in Requests : Kept(x) => Kept(x)'
    BY <2>1 DEF Kept
  <2>3. QED
    BY <2>1, <2>2, RegistryQuiet
<1>4. CASE EnterJoin(p)
  <2> DEFINE s == registry[KeyOf[p]]
  <2>1. /\ s \in Requests \ {p} /\ slotOf[p] = NoSlot
    BY <1>4, JoinFacts DEF Joins
  <2>2. /\ UNCHANGED <<load, registry, ended, work>>
        /\ \A x \in Requests : waiters[x] \subseteq waiters'[x]
        /\ pc[p] = "enter" /\ \A q \in Requests \ {p} : pc'[q] = pc[q] /\ slotOf'[q] = slotOf[q]
    BY <1>1, <1>4, <2>1 DEF EnterJoin, Join, workVars, TypeOK
  <2>3. \A x \in Requests : Kept(x) => Kept(x)'
    BY <2>2 DEF Kept, Retires
  <2>4. QED
    BY <2>2, <2>3, RegistryQuiet
<1>5. CASE PollReady(p) \/ LeaveLast(p) \/ DropLast(p)
  <2>1. /\ UNCHANGED <<load, registry, slotOf>> /\ pc'[p] \in Retires
        /\ \A x \in Requests : work[x] # "none" => work'[x] # "none"
        /\ \A q \in Requests \ {p} : pc'[q] = pc[q]
        /\ slotOf[p] \in Requests
        /\ \A x \in Requests \ {slotOf[p]} : waiters'[x] = waiters[x] /\ ended'[x] = ended[x]
        /\ pc[p] \notin Retires
    BY <1>1, <1>2, <1>5 DEF PollReady, LeaveLast, DropLast, Remove, workVars, TypeOK, Retires
  <2>2. \A x \in Requests : Kept(x) => Kept(x)'
    BY <2>1 DEF Kept
  <2>3. QED
    BY <2>1, <2>2, RegistryQuiet
<1>6. CASE LeaveCompleted(p) \/ DropCompleted(p) \/ LeaveRemained(p) \/ DropRemained(p)
  <2> DEFINE s == slotOf[p]
  <2>1. /\ UNCHANGED <<load, registry, ended, work, slotOf>> /\ pc[p] \in {"leaving", "parked"}
        /\ waiters' = [waiters EXCEPT ![s] = @ \ {p}]
        /\ (ended[s] \/ waiters[s] # {p}) /\ s \in Requests
        /\ pc' = [pc EXCEPT ![p] = "done"]
    BY <1>2, <1>6 DEF LeaveCompleted, DropCompleted, LeaveRemained, DropRemained, Remove, IsLast,
                      workVars
  <2>2. p \in waiters[s]
    BY <1>1, <1>2, <2>1, RequestsAssumption DEF WaiterOK, InSlot
  <2>3. /\ \A x \in Requests : ~ended[x] /\ waiters[x] # {} => waiters'[x] # {}
        /\ \A q \in Requests : pc[q] \in Retires => pc'[q] = pc[q]
    BY <1>1, <1>2, <2>1, <2>2 DEF TypeOK, Retires
  <2>4. \A x \in Requests : Kept(x) => Kept(x)'
    BY <2>1, <2>3 DEF Kept
  <2>5. QED
    BY <2>1, <2>4, RegistryQuiet
<1>7. CASE PollRetire(p) \/ LeaveRetire(p) \/ DropRetire(p)
  <2>1. /\ pc[p] \in Retires /\ slotOf[p] \in Requests /\ Retire(slotOf[p])
        /\ UNCHANGED <<load, work, ended, waiters, slotOf>>
    BY <1>2, <1>7 DEF PollRetire, LeaveRetire, DropRetire, Retires, slotVars, workVars
  <2>2. pc' = [pc EXCEPT ![p] = pc'[p]]
    BY <1>1, <1>7 DEF PollRetire, LeaveRetire, DropRetire, TypeOK
  <2>3. QED
    BY <2>1, <2>2, RegistryRetires
<1>8. QED
  BY <1>3, <1>4, <1>5, <1>6, <1>7, RegistryLeads DEF Act, Enter, Poll, Leave, Drop

-----------------------------------------------------------------------------
(* The theorems.                                                           *)

\* Nothing is shared at the start.
LEMMA Start == Init => IInv
<1> SUFFICES ASSUME Init
             PROVE  IInv
  OBVIOUS
<1>1. TypeOK
  BY DEF Init, TypeOK
<1>2. RequestOK /\ WaiterOK /\ PollerOK /\ LastOK
  BY RequestsAssumption DEF Init, RequestOK, WaiterOK, PollerOK, LastOK, Departing, Polls, Lasts,
                            InSlot
<1>3. OwnerOK /\ AttemptOK
  BY DEF Init, OwnerOK, AttemptOK
<1>4. RegistryOK
  <2>1. InRegistry = {}
    BY DEF Init, InRegistry
  <2>2. \A k \in Keys : registry[k] = NoSlot
    BY DEF Init
  <2>3. QED
    BY <2>1, <2>2, FS_EmptySet, BoundsAssumption DEF RegistryOK, RegistryBound, NoLeak
<1>5. QED
  BY <1>1, <1>2, <1>3, <1>4 DEF IInv

\* Every step of the specification keeps the invariant.
LEMMA Step == IInv /\ [Next]_vars => IInv'
<1> SUFFICES ASSUME IInv, [Next]_vars
             PROVE  IInv'
  OBVIOUS
<1>1. ASSUME NEW p \in Requests, Act(p)
      PROVE  IInv'
  BY <1>1, TypeStep, RequestStep, WaiterStep, PollerStep, LastStep, OwnerStep, AttemptStep,
     RegistryStep DEF IInv
<1>2. CASE UNCHANGED vars
  BY <1>2 DEF vars, slotVars, workVars, taskVars, IInv, TypeOK, RequestOK, WaiterOK, PollerOK,
              LastOK, Departing, OwnerOK, AttemptOK, RegistryOK, RegistryBound, InRegistry, KeyOf,
              NoLeak, Waiting
<1>3. QED
  BY <1>1, <1>2 DEF Next, Act, Terminated

\* The inductive invariant of the registry, its slots and their waiters.
THEOREM Inductive == Spec => []IInv
  BY Start, Step, PTL DEF Spec

\* A slot's signal is raised by its last waiter only, the slot leaves the
\* registry when it is used up, and the registry never holds more than
\* max_shared_calls, for every number of requests, keys and waiters and every
\* interleaving of entries, polls, departures and drops (enter, poll_attempt,
\* leave, release and retire of shared.rs).
THEOREM SlotsStaySound == Spec => []SlotSound
<1>1. IInv => SlotSound
  BY DEF IInv, AttemptOK, RegistryOK, SlotSound, SignalByLast
<1>2. QED
  BY <1>1, Inductive, PTL

\* The charge of an external attempt ends on one waiter at most, or as one
\* liability of its last waiter; it is unpaid only where the owner it ended with
\* settled by an older read, and a liability is under another id than the
\* adapter's only after a handoff (share of driver.rs, State::remove).
THEOREM ChargesArePaidOnce == Spec => []PaidOnce
<1>1. ASSUME IInv
      PROVE  PaidOnce
  <2>1. TypeOK /\ RequestOK /\ WaiterOK /\ LastOK /\ OwnerOK /\ AttemptOK
    BY <1>1 DEF IInv
  <2>2. SingleCharge
    <3>1. ASSUME NEW s \in Requests, NEW p \in Payers(s), NEW q \in Payers(s)
          PROVE  p = q
      <4>1. /\ p \in Requests /\ q \in Requests /\ slotOf[p] = s /\ slotOf[q] = s /\ s # NoSlot
            /\ settled[p] \in {"charge", "liability"} /\ settled[q] \in {"charge", "liability"}
        BY <3>1, RequestsAssumption DEF Payers, Waiting
      <4>2. CASE ended[s]
        BY <2>1, <4>1, <4>2 DEF OwnerOK
      <4>3. CASE ~ended[s]
        BY <2>1, <4>1, <4>3 DEF LastOK, Departing
      <4>4. QED
        BY <4>2, <4>3
    <3>2. ASSUME NEW s \in Requests
          PROVE  Cardinality(Payers(s)) =< 1
      <4>1. CASE Payers(s) = {}
        BY <4>1, FS_EmptySet
      <4>2. CASE Payers(s) # {}
        <5>1. PICK p \in Payers(s) : TRUE
          BY <4>2
        <5>2. Payers(s) = {p}
          BY <3>1, <5>1
        <5>3. QED
          BY <5>2, FS_Singleton
      <4>3. QED
        BY <4>1, <4>2
    <3>3. QED
      BY <3>2 DEF SingleCharge
  <2>3. AbandonedIsLiability
    BY <2>1 DEF AbandonedIsLiability, Over, Waiting, AttemptOK
  <2>4. UnpaidOnlyByStaleRead
    <3>1. ASSUME NEW s \in Requests, Over(s), work[s] = "done", Payers(s) = {}
          PROVE  wants[owner[s]] /\ ~sawOwner[owner[s]] /\ settled[owner[s]] = "zero"
      <4>1. ended[s]
        BY <2>1, <3>1 DEF AttemptOK, Payers, Waiting
      <4>2. owner[s] \in Requests /\ slotOf[owner[s]] = s /\ pc[owner[s]] = "done"
        BY <2>1, <3>1, <4>1 DEF OwnerOK, TypeOK, Over, Waiting
      <4>3. settled[owner[s]] \notin {"no", "charge"}
        BY <2>1, <3>1, <4>2 DEF RequestOK, Payers, Waiting
      <4>4. QED
        BY <2>1, <4>1, <4>3 DEF OwnerOK
    <3>2. QED
      BY <3>1 DEF UnpaidOnlyByStaleRead
  <2>5. UnderOwnId
    <3>1. ASSUME NEW p \in Requests, settled[p] = "liability", slotOf[p] # p
          PROVE  settled[slotOf[p]] = "zero"
      <4>1. slotOf[p] \in Requests /\ slotOf[p] # NoSlot /\ ~ended[slotOf[p]]
        BY <2>1, <3>1, ZenonT(60) DEF RequestOK, TypeOK, OwnerOK
      <4>2. slotOf[slotOf[p]] = slotOf[p]
        BY <2>1, <4>1 DEF WaiterOK
      <4>3. QED
        BY <2>1, <3>1, <4>1, <4>2 DEF LastOK, Departing
    <3>2. QED
      BY <3>1 DEF UnderOwnId
  <2>6. QED
    BY <2>2, <2>3, <2>4, <2>5 DEF PaidOnce
<1>2. QED
  BY <1>1, Inductive, PTL

\* No step lets a request join an attempt that is over, or retires a slot in use
\* in the place of a successor's (enter, and Arc::ptr_eq in retire).
THEOREM SlotsStayApart == Spec => SlotsApart
<1>1. ASSUME IInv, Next
      PROVE  ~LateJoin /\ ~TakesAway
  <2>1. TypeOK /\ RequestOK /\ WaiterOK /\ LastOK
    BY <1>1 DEF IInv
  <2>2. ASSUME NEW p \in Requests, Act(p)
        PROVE  ~LateJoin /\ ~TakesAway
    <3>1. CASE EnterLead(p)
      <4>1. /\ next' = [next EXCEPT ![p] = @ + 1]
            /\ registry' = [registry EXCEPT ![KeyOf[p]] = p]
        BY <3>1 DEF EnterLead, Join
      <4>2. work[p] = "none" /\ ~ended[p]
        BY <1>1, <3>1, LeadFacts DEF Leads
      <4>3. QED
        BY <2>1, <4>1, <4>2, RequestsAssumption DEF LateJoin, TakesAway, TypeOK
    <3>2. CASE EnterJoin(p)
      <4> DEFINE s == registry[KeyOf[p]]
      <4>1. s \in Requests /\ ~ended[s] /\ waiters[s] # {}
        BY <1>1, <3>2, JoinFacts DEF Joins
      <4>2. next' = [next EXCEPT ![s] = @ + 1] /\ registry' = registry
        BY <3>2 DEF EnterJoin, Join
      <4> HIDE DEF s
      <4>3. QED
        BY <2>1, <4>1, <4>2 DEF LateJoin, TakesAway, TypeOK
    <3>3. CASE PollRetire(p) \/ LeaveRetire(p) \/ DropRetire(p)
      <4>1. next' = next /\ Retire(slotOf[p]) /\ slotOf[p] \in Requests
        BY <2>1, <3>3 DEF PollRetire, LeaveRetire, DropRetire, slotVars, TypeOK, RequestOK
      <4>2. ended[slotOf[p]] \/ waiters[slotOf[p]] = {}
        BY <2>1, <3>3, <4>1, RequestsAssumption
           DEF PollRetire, LeaveRetire, DropRetire, WaiterOK, LastOK, Departing, Lasts
      <4>3. \A k \in Keys :
              registry[k] # NoSlot /\ registry'[k] = NoSlot => registry[k] = slotOf[p]
        BY <2>1, <4>1 DEF Retire, TypeOK
      <4>4. QED
        BY <4>1, <4>2, <4>3 DEF LateJoin, TakesAway
    <3>4. CASE UNCHANGED <<next, registry>>
      BY <3>4 DEF LateJoin, TakesAway
    <3>5. QED
      BY <2>2, <3>1, <3>2, <3>3, <3>4
         DEF Act, Enter, EnterApart, Poll, PollTake, PollWait, PollStart, PollAttempt, PollPending,
             PollReady, Checks, Settle, Leave, ReadOwner, LeaveCompleted, LeaveRemained, LeaveLast,
             LastPoll, Drop, DropCompleted, DropRemained, DropLast, AttemptReady, CallerEvent,
             slotVars
  <2>3. CASE Terminated
    BY <2>3 DEF Terminated, vars, slotVars, LateJoin, TakesAway
  <2>4. QED
    BY <1>1, <2>2, <2>3 DEF Next, Act
<1>2. QED
  BY <1>1, Inductive, PTL DEF Spec, SlotsApart
=============================================================================
