---------------------------- MODULE DriveProofs ----------------------------
(***************************************************************************)
(* What the driver of a decision's requests keeps for every plan: any      *)
(* number of requests and targets, any retry and fallback policy, any      *)
(* delays and deadlines, with and without an authorizer and a spend gate,  *)
(* and whatever the adapters answer.                                       *)
(***************************************************************************)
EXTENDS Drive, FiniteSetTheorems, TLAPS

-----------------------------------------------------------------------------
(* The inductive invariant.                                                *)

\* Where a request holds a permit, a reservation and a ticket.
Permitted(r) == pc[r] \in {"disclose", "authorize", "gate", "running"}
Reserved(r) == pc[r] \in {"authorize", "gate", "running"}

\* What the driver remembers of a request's attempts and end.
ResultsOK ==
    /\ last \in [Requests -> AttemptRecord \cup {None}]
    /\ result \in [Requests -> Outcomes \cup {None}]
    /\ supplied \in [Requests -> Outcomes \cup {None}]

\* One task: one request in foreign code, and none once the gate has refused.
TurnOK ==
    /\ \A q, r \in InForeignCode : q = r
    /\ stopped => InForeignCode = {}
    /\ \A r \in Requests : /\ pc[r] = "authorize" => Live
                           /\ pc[r] = "gate" => HasGate

\* The reservations and tickets of a request.
BookOK(r) ==
    /\ Reserved(r) => ledger[r].made = ledger[r].released + ledger[r].settled + 1
    /\ ~Reserved(r) => ledger[r].made = ledger[r].released + ledger[r].settled
    /\ HasGate =>
         /\ pc[r] = "running" => gate[r].made = gate[r].released + gate[r].settled + 1
         /\ pc[r] # "running" => gate[r].made = gate[r].released + gate[r].settled
         /\ gate[r].settled = ledger[r].settled /\ gate[r].released <= ledger[r].released
    /\ last[r] # None /\ last[r].remote = "continuing" => last[r].charge = "unknown"
    /\ pc[r] # "dropped" => ledger[r].settled = attempts[r]

\* How a request ends.
EndOK(r) ==
    /\ result[r] # None => pc[r] \in {"ended", "supplied", "dropped"}
    /\ pc[r] \in {"ended", "supplied"} => result[r] # None
    /\ result[r] = "output" => last[r] # None /\ last[r].end = "output"
    /\ result[r] = "deadline" => now >= Deadline
    /\ result[r] = "cancelled" => cancel
    /\ result[r] \in FallbackOn => target[r] = LastTarget
    /\ result[r] = "withdrawn" => attempts[r] = 0
    /\ pc[r] = "waiting" => attempts[r] = 0
    /\ pc[r] = "supplied" /\ ~cancelled /\ ~refused => supplied[r] # None

\* Its attempts: those at the targets it has left, and its tries at this one.
Past(r) == (target[r] - 1) * MaxTries

TriesOK(r) ==
    /\ attempts[r] <= Past(r) + tries[r]
    /\ Reserved(r) => attempts[r] < Past(r) + tries[r]
    /\ pc[r] \in {"waiting", "top", "acquire", "disclose", "pause"} => tries[r] < MaxTries

RequestOK(r) == BookOK(r) /\ EndOK(r) /\ TriesOK(r)

IInv ==
    /\ TypeOK /\ ResultsOK /\ TurnOK /\ PermitsExact
    /\ \A r \in Requests : RequestOK(r)
    /\ refused => cancel

-----------------------------------------------------------------------------
(* A step of one request.                                                  *)

Places == {"waiting", "top", "acquire", "disclose", "authorize", "gate", "running", "pause",
           "ended", "supplied", "dropped"}

\* Only r's part of the state changes, and the flags only rise.
Local(r) ==
    /\ UNCHANGED <<plan, now, others>>
    /\ pc' = [pc EXCEPT ![r] = pc'[r]] /\ target' = [target EXCEPT ![r] = target'[r]]
    /\ tries' = [tries EXCEPT ![r] = tries'[r]] /\ until' = [until EXCEPT ![r] = until'[r]]
    /\ attempts' = [attempts EXCEPT ![r] = attempts'[r]]
    /\ last' = [last EXCEPT ![r] = last'[r]]
    /\ result' = [result EXCEPT ![r] = result'[r]]
    /\ supplied' = [supplied EXCEPT ![r] = supplied'[r]]
    /\ ledger' = [ledger EXCEPT ![r] = ledger'[r]] /\ gate' = [gate EXCEPT ![r] = gate'[r]]
    /\ {cancel', refused', cancelled', stopped'} \subseteq BOOLEAN
    /\ cancel => cancel'
    /\ refused => refused'
    /\ cancelled => cancelled'
    /\ refused' => cancel'

\* The new values are of their types ...
TypedAt(r) ==
    /\ pc'[r] \in Places /\ target'[r] \in Target /\ tries'[r] \in 0..MaxTries
    /\ until'[r] \in Nat /\ attempts'[r] \in Nat /\ ledger'[r] \in Book /\ gate'[r] \in Book
    /\ last'[r] \in AttemptRecord \cup {None}
    /\ result'[r] \in Outcomes \cup {None} /\ supplied'[r] \in Outcomes \cup {None}

\* ... r was on its turn and keeps to it ...
TurnAt(r) ==
    /\ Turn(r)
    /\ stopped' => pc'[r] \notin {"disclose", "authorize", "gate"}
    /\ pc'[r] = "authorize" => Live
    /\ pc'[r] = "gate" => HasGate

\* ... and its permit is taken, given back or kept.
PermitAt(r) ==
    \/ Took(r) /\ free[target[r]] > 0 /\ ~Permitted(r) /\ Permitted(r)' /\ target'[r] = target[r]
    \/ Gave(r) /\ Permitted(r) /\ ~Permitted(r)'
    \/ /\ free' = free /\ (Permitted(r)' <=> Permitted(r))
       /\ Permitted(r) => target'[r] = target[r]

\* What the plan fixes.
LEMMA PlanIs ==
    ASSUME TypeOK
    PROVE  /\ IsFiniteSet(Requests) /\ Screens \subseteq Requests
           /\ MaxParallel \in Nat \ {0} /\ LastTarget \in Nat \ {0} /\ Permits \in Nat \ {0}
           /\ Contended \subseteq Target /\ MaxTries \in Nat \ {0} /\ Delay \in Nat
           /\ Timeout \in Nat \ {0} /\ Deadline \in Nat
           /\ RetryOn \subseteq Classes /\ FallbackOn \subseteq Classes
           /\ Live \in BOOLEAN /\ HasGate \in BOOLEAN /\ (HasGate => Live)
           /\ ValidFor \subseteq Nat /\ Charges \subseteq {"known", "unknown"}
           /\ Results \subseteq {"output", "malformed", "transient", "overloaded", "permanent",
                                 "cancelled"}
BY DriveAssumption
   DEF TypeOK, Requests, Screens, MaxParallel, LastTarget, Permits, Contended, Target, MaxTries,
       Delay, Timeout, Deadline, RetryOn, FallbackOn, Live, HasGate, ValidFor, Charges, Results

LEMMA PlanStays ==
    ASSUME plan' = plan
    PROVE  /\ UNCHANGED <<Requests, Screens, MaxParallel, LastTarget, Permits, Contended, Target>>
           /\ UNCHANGED <<MaxTries, RetryOn, FallbackOn, Delay, Timeout, Deadline, Live, HasGate>>
BY DEF Requests, Screens, MaxParallel, LastTarget, Permits, Contended, Target, MaxTries,
       Delay, Timeout, Deadline, RetryOn, FallbackOn, Live, HasGate

\* The holders of a permit, as one request moves.
LEMMA LocalPermits ==
    ASSUME TypeOK, PermitsExact, NEW r \in Requests, Local(r), TypedAt(r), PermitAt(r)
    PROVE  free' \in [Target -> Nat] /\ PermitsExact'
<1>1. /\ pc \in [Requests -> Places] /\ target \in [Requests -> Target]
      /\ free \in [Target -> Nat] /\ others \in [Target -> Nat] /\ target[r] \in Target
  BY DEF TypeOK, Places
<1>2. /\ Requests' = Requests /\ Target' = Target /\ Permits' = Permits /\ others' = others
      /\ IsFiniteSet(Requests)
  BY PlanIs, PlanStays DEF Local
<1>3. \A q \in Requests \ {r} : pc'[q] = pc[q] /\ target'[q] = target[q]
  BY <1>1 DEF Local
<1>4. ASSUME NEW t \in Target
      PROVE  /\ IsFiniteSet(Holders(t)) /\ Cardinality(Holders(t)) \in Nat
             /\ free[t] + others[t] + Cardinality(Holders(t)) = Permits
  <2>1. Holders(t) \subseteq Requests
    BY DEF Holders
  <2>2. QED
    BY <1>2, <2>1, FS_Subset, FS_CardinalityType DEF PermitsExact
<1>5. ASSUME NEW t \in Target
      PROVE  /\ free'[t] \in Nat
             /\ free'[t] + others[t] + Cardinality(Holders(t)') = Permits
  <2>1. free[t] \in Nat /\ others[t] \in Nat
    BY <1>1
  <2>2. CASE t = target[r] /\ Took(r) /\ free[t] > 0 /\ ~Permitted(r) /\ Permitted(r)'
             /\ target'[r] = target[r]
    <3>1. Holders(t)' = Holders(t) \cup {r} /\ r \notin Holders(t)
      BY <1>2, <1>3, <2>2 DEF Holders, Permitted
    <3>2. Cardinality(Holders(t)') = Cardinality(Holders(t)) + 1
      BY <1>4, <3>1, FS_AddElement
    <3>3. free'[t] = free[t] - 1
      BY <1>1, <2>2 DEF Took
    <3>4. QED
      BY <1>4, <2>1, <2>2, <3>2, <3>3
  <2>3. CASE t = target[r] /\ Gave(r) /\ Permitted(r) /\ ~Permitted(r)'
    <3>1. Holders(t)' = Holders(t) \ {r} /\ r \in Holders(t)
      BY <1>2, <1>3, <2>3 DEF Holders, Permitted
    <3>2. Cardinality(Holders(t)') = Cardinality(Holders(t)) - 1
      BY <1>4, <3>1, FS_RemoveElement
    <3>3. free'[t] = free[t] + 1
      BY <1>1, <2>3 DEF Gave
    <3>4. QED
      BY <1>4, <2>1, <3>2, <3>3
  <2>4. CASE free'[t] = free[t] /\ Holders(t)' = Holders(t)
    BY <1>4, <2>1, <2>4
  <2>5. ASSUME t # target[r], Took(r) \/ Gave(r), Permitted(r)' => target'[r] = target[r]
        PROVE  free'[t] = free[t] /\ Holders(t)' = Holders(t)
    <3>1. free'[t] = free[t]
      BY <1>1, <2>5 DEF Took, Gave
    <3>2. Holders(t)' = Holders(t)
      BY <1>2, <1>3, <2>5 DEF Holders, Permitted
    <3>3. QED
      BY <3>1, <3>2
  <2>6. ASSUME free' = free, Permitted(r)' <=> Permitted(r), Permitted(r) => target'[r] = target[r]
        PROVE  free'[t] = free[t] /\ Holders(t)' = Holders(t)
    BY <1>2, <1>3, <2>6 DEF Holders, Permitted
  <2>7. QED
    BY <2>2, <2>3, <2>4, <2>5, <2>6 DEF PermitAt
<1>6. free' \in [Target -> Nat]
  <2>1. DOMAIN free' = Target /\ free' = [t \in Target |-> free'[t]]
    BY <1>1 DEF PermitAt, Took, Gave
  <2>2. QED
    BY <1>5, <2>1
<1>7. QED
  BY <1>2, <1>5, <1>6 DEF PermitsExact

\* The other requests keep what they had.
LEMMA LocalOthers ==
    ASSUME TypeOK, ResultsOK, \A q \in Requests : RequestOK(q), NEW r \in Requests, Local(r),
           NEW q \in Requests \ {r}
    PROVE  RequestOK(q)'
<1>1. /\ pc'[q] = pc[q] /\ target'[q] = target[q] /\ tries'[q] = tries[q]
      /\ attempts'[q] = attempts[q] /\ last'[q] = last[q] /\ result'[q] = result[q]
      /\ supplied'[q] = supplied[q] /\ ledger'[q] = ledger[q] /\ gate'[q] = gate[q]
  BY DEF Local, TypeOK, ResultsOK
<1>2. /\ UNCHANGED <<LastTarget, MaxTries, FallbackOn, Deadline, HasGate, now>>
      /\ cancel => cancel'
      /\ refused => refused'
      /\ cancelled => cancelled'
  BY PlanStays DEF Local
<1>3. RequestOK(q)
  OBVIOUS
<1>4. BookOK(q)'
  BY <1>1, <1>2, <1>3 DEF RequestOK, BookOK, Reserved
<1>5. EndOK(q)'
  BY <1>1, <1>2, <1>3 DEF RequestOK, EndOK
<1>6. TriesOK(q)'
  BY <1>1, <1>2, <1>3 DEF RequestOK, TriesOK, Past, Reserved
<1>7. QED
  BY <1>4, <1>5, <1>6 DEF RequestOK

\* So a step of r is right where it is right for r.
LEMMA LocalStep ==
    ASSUME IInv, NEW r \in Requests, Local(r), TypedAt(r), TurnAt(r), PermitAt(r), RequestOK(r)'
    PROVE  IInv'
<1>1. TypeOK /\ ResultsOK /\ TurnOK /\ PermitsExact /\ \A q \in Requests : RequestOK(q)
  BY DEF IInv
<1>2. UNCHANGED <<Requests, Target, MaxTries, Deadline, Live, HasGate, plan, now, others>>
  BY PlanStays DEF Local
<1>3. free' \in [Target -> Nat] /\ PermitsExact'
  BY <1>1, LocalPermits
<1>4. TypeOK'
  <2>1. /\ pc' \in [Requests -> Places] /\ target' \in [Requests -> Target]
        /\ tries' \in [Requests -> 0..MaxTries] /\ until' \in [Requests -> Nat]
        /\ attempts' \in [Requests -> Nat]
        /\ ledger' \in [Requests -> Book] /\ gate' \in [Requests -> Book]
    BY <1>1 DEF TypeOK, Local, TypedAt, Places
  <2>2. {cancel', refused', cancelled', stopped'} \subseteq BOOLEAN
    BY DEF Local
  <2>3. QED
    BY <1>1, <1>2, <1>3, <2>1, <2>2 DEF TypeOK, Places
<1>5. ResultsOK'
  BY <1>1, <1>2 DEF ResultsOK, Local, TypedAt
<1>6. TurnOK'
  <2>1. \A q \in Requests \ {r} : pc'[q] = pc[q] /\ pc[q] \notin {"disclose", "authorize", "gate"}
    BY <1>1 DEF Local, TypeOK, TurnAt, Turn, InForeignCode
  <2>2. InForeignCode' \subseteq {r}
    BY <1>2, <2>1 DEF InForeignCode
  <2>3. stopped' => InForeignCode' = {}
    BY <2>2 DEF TurnAt, InForeignCode
  <2>4. QED
    BY <1>2, <2>1, <2>2, <2>3 DEF TurnOK, TurnAt
<1>7. \A q \in Requests : RequestOK(q)'
  BY <1>1, LocalOthers
<1>8. QED
  BY <1>2, <1>3, <1>4, <1>5, <1>6, <1>7 DEF IInv, Local

\* A request in foreign code is on its turn.
LEMMA TurnHolds ==
    ASSUME TurnOK, NEW r \in Requests, pc[r] \in {"disclose", "authorize", "gate"}
    PROVE  Turn(r) /\ ~stopped
BY DEF TurnOK, Turn, InForeignCode

-----------------------------------------------------------------------------
(* The books.                                                              *)

More(b, m, k, s) ==
    [made |-> b.made + m, released |-> b.released + k, settled |-> b.settled + s]

LEMMA Plus ==
    ASSUME NEW b \in Book
    PROVE  /\ b = More(b, 0, 0, 0)
           /\ [b EXCEPT !["made"] = @ + 1] = More(b, 1, 0, 0)
           /\ [b EXCEPT !["released"] = @ + 1] = More(b, 0, 1, 0)
           /\ [b EXCEPT !["settled"] = @ + 1] = More(b, 0, 0, 1)
<1>1. b.made \in Nat /\ b.released \in Nat /\ b.settled \in Nat
  BY DEF Book
<1>2. b = More(b, 0, 0, 0)
  <2>1. b = [made |-> b.made, released |-> b.released, settled |-> b.settled]
    BY DEF Book
  <2>2. b.made + 0 = b.made /\ b.released + 0 = b.released /\ b.settled + 0 = b.settled
    BY <1>1
  <2>3. QED
    BY <2>1, <2>2, Zenon DEF More
<1>3. [b EXCEPT !["made"] = @ + 1] = More(b, 1, 0, 0)
  <2>1. [b EXCEPT !.made = @ + 1] = More(b, 1, 0, 0)
    BY <1>1 DEF More, Book
  <2>2. QED
    BY <2>1
<1>4. [b EXCEPT !["released"] = @ + 1] = More(b, 0, 1, 0)
  <2>1. [b EXCEPT !.released = @ + 1] = More(b, 0, 1, 0)
    BY <1>1 DEF More, Book
  <2>2. QED
    BY <2>1
<1>5. [b EXCEPT !["settled"] = @ + 1] = More(b, 0, 0, 1)
  <2>1. [b EXCEPT !.settled = @ + 1] = More(b, 0, 0, 1)
    BY <1>1 DEF More, Book
  <2>2. QED
    BY <2>1
<1>6. QED
  BY <1>2, <1>3, <1>4, <1>5

LEMMA Counts ==
    ASSUME NEW R, NEW book \in [R -> Book], NEW r \in R
    PROVE  /\ book = [book EXCEPT ![r] = More(book[r], 0, 0, 0)]
           /\ Count(book, r, "made") = [book EXCEPT ![r] = More(book[r], 1, 0, 0)]
           /\ Count(book, r, "released") = [book EXCEPT ![r] = More(book[r], 0, 1, 0)]
           /\ Count(book, r, "settled") = [book EXCEPT ![r] = More(book[r], 0, 0, 1)]
           /\ Count(Count(book, r, "made"), r, "released")
                = [book EXCEPT ![r] = More(book[r], 1, 1, 0)]
<1> DEFINE b == book[r]
<1>1. b \in Book
  OBVIOUS
<1>2. /\ b = More(b, 0, 0, 0)
      /\ [b EXCEPT !["made"] = @ + 1] = More(b, 1, 0, 0)
      /\ [b EXCEPT !["released"] = @ + 1] = More(b, 0, 1, 0)
      /\ [b EXCEPT !["settled"] = @ + 1] = More(b, 0, 0, 1)
  BY <1>1, Plus
<1>3. book = [book EXCEPT ![r] = b]
  OBVIOUS
<1>4. \A w : Count(book, r, w) = [book EXCEPT ![r] = [b EXCEPT ![w] = @ + 1]]
  BY DEF Count
<1> DEFINE d == More(b, 1, 0, 0)
           c == [book EXCEPT ![r] = d]
<1>5. d \in Book /\ More(d, 0, 1, 0) = More(b, 1, 1, 0)
  BY <1>1 DEF More, Book
<1>6. [d EXCEPT !["released"] = @ + 1] = More(b, 1, 1, 0)
  BY <1>5, Plus
<1> HIDE DEF d
<1>7. Count(c, r, "released") = [book EXCEPT ![r] = More(b, 1, 1, 0)]
  <2>1. Count(c, r, "released") = [c EXCEPT ![r] = [c[r] EXCEPT !["released"] = @ + 1]]
    BY DEF Count
  <2>2. c[r] = d
    OBVIOUS
  <2>3. QED
    BY <1>6, <2>1, <2>2
<1>8. Count(book, r, "made") = c
  BY <1>2, <1>4 DEF d
<1>9. QED
  BY <1>2, <1>3, <1>4, <1>7, <1>8, ZenonT(60)

LEMMA MoreIs ==
    ASSUME NEW b \in Book, NEW m \in {0, 1}, NEW k \in {0, 1}, NEW s \in {0, 1}
    PROVE  /\ More(b, m, k, s) \in Book
           /\ More(b, m, k, s).made = b.made + m
           /\ More(b, m, k, s).released = b.released + k
           /\ More(b, m, k, s).settled = b.settled + s
BY DEF More, Book

-----------------------------------------------------------------------------
(* Requests that end before they have sent anything, and that go on.       *)

\* An outcome that may be r's.
MayEnd(r, how) ==
    /\ how \in Outcomes \ {"withdrawn"}
    /\ how = "deadline" => now >= Deadline
    /\ how = "cancelled" => cancel
    /\ how \in FallbackOn => target[r] = LastTarget

LEMMA Unsent ==
    ASSUME TypeOK
    PROVE  /\ \A r \in Requests : MayEnd(r, "unavailable") /\ MayEnd(r, "exhausted")
           /\ LateFirst # None => LateFirst \in {"deadline", "cancelled"}
           /\ CancelFirst # None => CancelFirst \in {"deadline", "cancelled"}
           /\ \A r \in Requests : LateFirst # None => MayEnd(r, LateFirst)
           /\ \A r \in Requests : CancelFirst # None => MayEnd(r, CancelFirst)
           /\ LateFirst = None => now < Deadline /\ ~cancel
<1>1. FallbackOn \subseteq Classes /\ now \in Nat /\ Deadline \in Nat
  BY PlanIs DEF TypeOK
<1>2. QED
  BY <1>1, NoneAssumption DEF MayEnd, Outcomes, Classes, LateFirst, CancelFirst

LEMMA Finishes ==
    ASSUME IInv, NEW r \in Requests, Turn(r), NEW how, how # "output", MayEnd(r, how), Ends(r, how),
           pc[r] \in {"top", "acquire", "disclose", "authorize", "gate", "pause"},
           UNCHANGED <<world, refused, cancelled, attempts, last, supplied>>,
           stopped' \in BOOLEAN,
           NEW m \in {0, 1}, NEW k \in {0, 1}, NEW g \in {0, 1},
           ledger' = [ledger EXCEPT ![r] = More(ledger[r], m, k, 0)],
           gate' = [gate EXCEPT ![r] = More(gate[r], g, g, 0)],
           Reserved(r) => m = 0 /\ k = 1, ~Reserved(r) => m = k, g <= k,
           Permitted(r) => Gave(r), ~Permitted(r) => free' = free
    PROVE  IInv'
<1>1. /\ TypeOK /\ ResultsOK /\ RequestOK(r) /\ (refused => cancel)
      /\ UNCHANGED <<MaxTries, HasGate, FallbackOn, LastTarget, Deadline>>
  BY PlanStays DEF IInv, world
<1>2. /\ pc'[r] = "ended" /\ result'[r] = how /\ target'[r] = target[r] /\ tries'[r] = tries[r]
      /\ until'[r] = 0 /\ attempts'[r] = attempts[r] /\ last'[r] = last[r]
      /\ ledger'[r] = More(ledger[r], m, k, 0) /\ gate'[r] = More(gate[r], g, g, 0)
  BY <1>1 DEF Ends, Goes, TypeOK, ResultsOK
<1>3. /\ ledger[r] \in Book /\ gate[r] \in Book /\ tries[r] \in 0..MaxTries /\ attempts[r] \in Nat
      /\ last[r] \in AttemptRecord \cup {None} /\ supplied[r] \in Outcomes \cup {None}
      /\ target[r] \in Target
  BY <1>1 DEF TypeOK, ResultsOK
<1>4. /\ ledger'[r] \in Book /\ gate'[r] \in Book
      /\ ledger'[r].made = ledger[r].made + m /\ ledger'[r].released = ledger[r].released + k
      /\ ledger'[r].settled = ledger[r].settled + 0
      /\ gate'[r].made = gate[r].made + g /\ gate'[r].released = gate[r].released + g
      /\ gate'[r].settled = gate[r].settled + 0
  BY <1>2, <1>3, MoreIs
<1>5. Local(r)
  BY <1>1, <1>2 DEF Local, Ends, Goes, world, TypeOK, ResultsOK
<1>6. TypedAt(r)
  BY <1>2, <1>3, <1>4 DEF TypedAt, MayEnd, Places
<1>7. TurnAt(r) /\ PermitAt(r)
  BY <1>2 DEF TurnAt, PermitAt, Permitted
<1>8. BookOK(r)'
  <2>1. /\ ledger[r].made \in Nat /\ ledger[r].released \in Nat /\ ledger[r].settled \in Nat
        /\ gate[r].made \in Nat /\ gate[r].released \in Nat /\ gate[r].settled \in Nat
    BY <1>3 DEF Book
  <2>2. QED
    BY <1>1, <1>2, <1>4, <2>1 DEF BookOK, RequestOK, Reserved
<1>9. EndOK(r)'
  BY <1>1, <1>2, NoneAssumption DEF EndOK, RequestOK, MayEnd, world
<1>10. TriesOK(r)'
  BY <1>1, <1>2 DEF TriesOK, RequestOK, Past, Reserved
<1>11. QED
  BY <1>5, <1>6, <1>7, <1>8, <1>9, <1>10, LocalStep DEF RequestOK

LEMMA Advances ==
    ASSUME IInv, NEW r \in Requests, Turn(r), NEW p,
           p \in {"top", "acquire", "disclose", "authorize", "gate", "running"}, Goes(r, p),
           pc[r] \in {"waiting", "top", "acquire", "disclose", "authorize", "gate", "pause"},
           UNCHANGED <<world, flags, target, attempts, last, result, supplied>>,
           NEW u \in Nat, until' = [until EXCEPT ![r] = u],
           NEW d \in {0, 1}, NEW g \in {0, 1},
           tries' = [tries EXCEPT ![r] = @ + d],
           ledger' = [ledger EXCEPT ![r] = More(ledger[r], d, 0, 0)],
           gate' = [gate EXCEPT ![r] = More(gate[r], g, 0, 0)],
           d = 1 => pc[r] = "disclose",
           p \in {"authorize", "gate", "running"} <=> d = 1 \/ Reserved(r),
           HasGate => (g = 1 <=> p = "running"),
           p \in {"disclose", "authorize", "gate"} => ~stopped,
           p = "authorize" => Live, p = "gate" => HasGate,
           p = "disclose" => Took(r) /\ free[target[r]] > 0 /\ ~Permitted(r),
           p # "disclose" => /\ free' = free
                             /\ Permitted(r) <=> p \in {"authorize", "gate", "running"}
    PROVE  IInv'
<1>1. /\ TypeOK /\ ResultsOK /\ RequestOK(r) /\ (refused => cancel)
      /\ UNCHANGED <<MaxTries, HasGate, FallbackOn, LastTarget, Deadline>> /\ MaxTries \in Nat
  BY PlanStays, PlanIs DEF IInv, world
<1>2. /\ ledger[r] \in Book /\ gate[r] \in Book /\ tries[r] \in 0..MaxTries /\ attempts[r] \in Nat
      /\ last[r] \in AttemptRecord \cup {None} /\ supplied[r] \in Outcomes \cup {None}
      /\ result[r] \in Outcomes \cup {None} /\ target[r] \in Target
  BY <1>1 DEF TypeOK, ResultsOK
<1>3. /\ pc'[r] = p /\ result'[r] = result[r] /\ target'[r] = target[r] /\ tries'[r] = tries[r] + d
      /\ until'[r] = u /\ attempts'[r] = attempts[r] /\ last'[r] = last[r]
      /\ supplied'[r] = supplied[r]
      /\ ledger'[r] = More(ledger[r], d, 0, 0) /\ gate'[r] = More(gate[r], g, 0, 0)
  BY <1>1 DEF Goes, TypeOK, ResultsOK
<1>4. /\ ledger'[r] \in Book /\ gate'[r] \in Book
      /\ ledger'[r].made = ledger[r].made + d /\ ledger'[r].released = ledger[r].released + 0
      /\ ledger'[r].settled = ledger[r].settled + 0
      /\ gate'[r].made = gate[r].made + g /\ gate'[r].released = gate[r].released + 0
      /\ gate'[r].settled = gate[r].settled + 0
  BY <1>2, <1>3, MoreIs
<1>5. Local(r)
  <2>1. tries' = [tries EXCEPT ![r] = tries'[r]]
    BY <1>1, <1>3 DEF TypeOK
  <2>2. QED
    BY <1>1, <1>3, <2>1 DEF Local, Goes, world, flags, TypeOK, ResultsOK
<1>6. tries'[r] \in 0..MaxTries
  BY <1>1, <1>2, <1>3 DEF RequestOK, TriesOK
<1>7. TypedAt(r)
  BY <1>2, <1>3, <1>4, <1>6 DEF TypedAt, Places
<1>8. TurnAt(r)
  BY <1>1, <1>3 DEF TurnAt, flags
<1>9. PermitAt(r)
  BY <1>3 DEF PermitAt, Permitted
<1>10. BookOK(r)'
  <2>1. /\ ledger[r].made \in Nat /\ ledger[r].released \in Nat /\ ledger[r].settled \in Nat
        /\ gate[r].made \in Nat /\ gate[r].released \in Nat /\ gate[r].settled \in Nat
    BY <1>2 DEF Book
  <2>2. QED
    BY <1>1, <1>3, <1>4, <2>1 DEF BookOK, RequestOK, Reserved
<1>11. EndOK(r)'
  BY <1>1, <1>3, NoneAssumption DEF EndOK, RequestOK, world, flags, Outcomes
<1>12. TriesOK(r)'
  <2>1. Past(r)' = Past(r) /\ Past(r) \in Int
    BY <1>1, <1>2, <1>3 DEF Past, Target
  <2>2. p \in {"top", "acquire", "disclose"} => d = 0 /\ tries[r] < MaxTries
    BY <1>1 DEF RequestOK, TriesOK, Reserved
  <2>3. d = 1 => tries[r] < MaxTries /\ ~Reserved(r)
    BY <1>1 DEF RequestOK, TriesOK, Reserved
  <2>4. QED
    BY <1>1, <1>2, <1>3, <2>1, <2>2, <2>3 DEF TriesOK, RequestOK, Reserved
<1>13. QED
  BY <1>5, <1>7, <1>8, <1>9, <1>10, <1>11, <1>12, LocalStep DEF RequestOK

\* The next call of an attempt that is under way, or its dispatch, with g tickets.
Passes(r, p, u, g) ==
    /\ Goes(r, p) /\ until' = [until EXCEPT ![r] = u]
    /\ UNCHANGED <<world, flags, target, attempts, last, result, supplied, tries, ledger, free>>
    /\ gate' = [gate EXCEPT ![r] = More(gate[r], g, 0, 0)]
    /\ HasGate => (g = 1 <=> p = "running")
    /\ p = "gate" => HasGate

LEMMA PassStep ==
    ASSUME IInv, NEW r \in Requests, Turn(r), ~stopped, pc[r] \in {"authorize", "gate"},
           NEW p \in {"gate", "running"}, NEW u \in Nat, NEW g \in {0, 1}, Passes(r, p, u, g),
           ledger = [ledger EXCEPT ![r] = More(ledger[r], 0, 0, 0)]
    PROVE  IInv'
<1>1. PICK d \in {0, 1} : d = 0
  OBVIOUS
<1>2. /\ tries' = [tries EXCEPT ![r] = @ + d]
      /\ ledger' = [ledger EXCEPT ![r] = More(ledger[r], d, 0, 0)]
  BY <1>1, PlanIs DEF IInv, TypeOK, Passes
<1>3. /\ Goes(r, p) /\ until' = [until EXCEPT ![r] = u] /\ free' = free
      /\ UNCHANGED <<world, flags, target, attempts, last, result, supplied>>
      /\ gate' = [gate EXCEPT ![r] = More(gate[r], g, 0, 0)]
      /\ HasGate => (g = 1 <=> p = "running")
      /\ p = "gate" => HasGate
  BY DEF Passes
<1>4. /\ d = 1 => pc[r] = "disclose"
      /\ p \in {"authorize", "gate", "running"} <=> d = 1 \/ Reserved(r)
      /\ Permitted(r) <=> p \in {"authorize", "gate", "running"}
  BY <1>1 DEF Permitted, Reserved
<1>5. QED
  BY <1>2, <1>3, <1>4, Advances DEF Permitted, Reserved

\* Books that a step leaves, or returns a reservation to.
LEMMA BooksAt ==
    ASSUME TypeOK, NEW r \in Requests
    PROVE  /\ ledger = [ledger EXCEPT ![r] = More(ledger[r], 0, 0, 0)]
           /\ gate = [gate EXCEPT ![r] = More(gate[r], 0, 0, 0)]
           /\ Count(ledger, r, "made") = [ledger EXCEPT ![r] = More(ledger[r], 1, 0, 0)]
           /\ Count(gate, r, "made") = [gate EXCEPT ![r] = More(gate[r], 1, 0, 0)]
           /\ Count(ledger, r, "released") = [ledger EXCEPT ![r] = More(ledger[r], 0, 1, 0)]
           /\ Count(ledger, r, "settled") = [ledger EXCEPT ![r] = More(ledger[r], 0, 0, 1)]
           /\ Count(gate, r, "settled") = [gate EXCEPT ![r] = More(gate[r], 0, 0, 1)]
           /\ Count(Count(ledger, r, "made"), r, "released")
                = [ledger EXCEPT ![r] = More(ledger[r], 1, 1, 0)]
           /\ TicketBack(r) = [gate EXCEPT ![r] = More(gate[r], 1, 1, 0)]
<1>1. ledger \in [Requests -> Book] /\ gate \in [Requests -> Book]
  BY DEF TypeOK
<1>2. /\ ledger = [ledger EXCEPT ![r] = More(ledger[r], 0, 0, 0)]
      /\ Count(ledger, r, "made") = [ledger EXCEPT ![r] = More(ledger[r], 1, 0, 0)]
      /\ Count(ledger, r, "released") = [ledger EXCEPT ![r] = More(ledger[r], 0, 1, 0)]
      /\ Count(ledger, r, "settled") = [ledger EXCEPT ![r] = More(ledger[r], 0, 0, 1)]
      /\ Count(Count(ledger, r, "made"), r, "released")
           = [ledger EXCEPT ![r] = More(ledger[r], 1, 1, 0)]
  BY <1>1, Counts
<1>3. /\ gate = [gate EXCEPT ![r] = More(gate[r], 0, 0, 0)]
      /\ Count(gate, r, "made") = [gate EXCEPT ![r] = More(gate[r], 1, 0, 0)]
      /\ Count(gate, r, "settled") = [gate EXCEPT ![r] = More(gate[r], 0, 0, 1)]
      /\ Count(Count(gate, r, "made"), r, "released")
           = [gate EXCEPT ![r] = More(gate[r], 1, 1, 0)]
  BY <1>1, Counts
<1>4. QED
  BY <1>2, <1>3, Zenon DEF TicketBack

LEMMA PrepareStep == ASSUME IInv, NEW r \in Requests, Prepares(r) \/ Resumes(r) PROVE IInv'
<1>1. TypeOK /\ TurnOK
  BY DEF IInv
<1>2. /\ ledger = [ledger EXCEPT ![r] = More(ledger[r], 0, 0, 0)]
      /\ gate = [gate EXCEPT ![r] = More(gate[r], 0, 0, 0)]
      /\ tries = [tries EXCEPT ![r] = @ + 0] /\ until = [until EXCEPT ![r] = until[r]]
      /\ until[r] \in Nat
  BY <1>1, BooksAt DEF TypeOK
<1>3. CASE Start(r)
  BY <1>2, <1>3, Advances DEF Start, Permitted, Reserved, books
<1>4. CASE Top(r)
  <2>1. CASE CancelFirst # None
    <3>1. MayEnd(r, CancelFirst) /\ CancelFirst # "output"
      BY <1>1, <2>1, Unsent
    <3>2. QED
      BY <1>2, <1>4, <2>1, <3>1, Finishes DEF Top, Permitted, Reserved, books, flags, TypeOK, IInv
  <2>2. CASE CancelFirst = None
    BY <1>2, <1>4, <2>2, Advances DEF Top, Permitted, Reserved, books
  <2>3. QED
    BY <2>1, <2>2
<1>5. ASSUME pc[r] = "acquire", Turn(r), NEW how, how # "output", MayEnd(r, how), Ends(r, how),
             UNCHANGED <<world, flags, free, attempts, last, supplied, books>>
      PROVE  IInv'
  BY <1>1, <1>2, <1>5, Finishes DEF Permitted, Reserved, books, flags, TypeOK
<1>6. CASE Acquired(r)
  <2>1. CASE LateFirst # None
    <3>1. MayEnd(r, LateFirst) /\ LateFirst # "output"
      BY <1>1, <2>1, Unsent
    <3>2. QED
      BY <1>5, <1>6, <2>1, <3>1 DEF Acquired
  <2>2. CASE LateFirst = None /\ stopped
    <3>1. MayEnd(r, "unavailable")
      BY <1>1, Unsent
    <3>2. QED
      BY <1>5, <1>6, <2>2, <3>1 DEF Acquired, SpendRefusal
  <2>3. CASE LateFirst = None /\ ~stopped
    BY <1>2, <1>6, <2>3, Advances DEF Acquired, SpendRefusal, Permitted, Reserved, books
  <2>4. QED
    BY <2>1, <2>2, <2>3
<1>7. CASE NotAcquired(r)
  <2>1. MayEnd(r, CancelFirst) /\ CancelFirst # "output"
    BY <1>1, <1>7, Unsent DEF NotAcquired
  <2>2. QED
    BY <1>5, <1>7, <2>1 DEF NotAcquired
<1>8. CASE Resumes(r)
  <2>1. CASE now >= until[r]
    BY <1>2, <1>8, <2>1, Advances DEF Resumes, Permitted, Reserved, books
  <2>2. CASE ~(now >= until[r])
    <3>1. MayEnd(r, "cancelled") /\ "cancelled" # "output"
      <4>1. cancel /\ FallbackOn \subseteq Classes
        BY <1>1, <1>8, <2>2, PlanIs DEF Resumes
      <4>2. QED
        BY <4>1 DEF MayEnd, Outcomes, Classes
    <3>2. QED
      BY <1>1, <1>2, <1>8, <2>2, <3>1, Finishes
         DEF Resumes, Permitted, Reserved, books, flags, TypeOK
  <2>3. QED
    BY <2>1, <2>2
<1>9. QED
  BY <1>3, <1>4, <1>6, <1>7, <1>8 DEF Prepares

\* A request falls back to the next target: with its tries there before it.
LEMMA NextTarget ==
    ASSUME TypeOK, NEW r \in Requests, NEW class, CanFallBack(r, class)
    PROVE  /\ target[r] + 1 \in Target
           /\ (target[r] + 1 - 1) * MaxTries = Past(r) + MaxTries /\ Past(r) \in Nat
<1>1. MaxTries \in Nat /\ LastTarget \in Nat /\ target[r] \in 1..LastTarget
  BY PlanIs DEF TypeOK, Target
<1>2. target[r] + 1 \in Target
  BY <1>1 DEF CanFallBack, Target
<1>3. \A t, m \in Nat : t >= 1 => (t + 1 - 1) * m = (t - 1) * m + m /\ (t - 1) * m \in Nat
  OBVIOUS
<1>4. QED
  BY <1>1, <1>2, <1>3 DEF Past

LEMMA UndoneStep ==
    ASSUME IInv, NEW r \in Requests, pc[r] \in {"authorize", "gate"}, NEW how, how # "output",
           MayEnd(r, how), Undone(r, how), stopped' \in BOOLEAN,
           gate' = gate \/ gate' = TicketBack(r),
           UNCHANGED <<world, refused, cancelled, attempts, last, supplied>>
    PROVE  IInv'
<1>1. TypeOK /\ Turn(r)
  BY TurnHolds DEF IInv
<1>2. ledger' = [ledger EXCEPT ![r] = More(ledger[r], 0, 1, 0)] /\ Gave(r) /\ Ends(r, how)
  BY <1>1, BooksAt DEF Undone
<1>3. PICK g \in {0, 1} : gate' = [gate EXCEPT ![r] = More(gate[r], g, g, 0)]
  BY <1>1, BooksAt
<1>4. Reserved(r) /\ Permitted(r) /\ g <= 1
  BY <1>3 DEF Reserved, Permitted
<1>5. QED
  BY <1>1, <1>2, <1>3, <1>4, Finishes

LEMMA DiscloseStep ==
    ASSUME IInv, NEW r \in Requests, ReserveRefused(r) \/ DisclosurePanics(r)
    PROVE  IInv'
<1>1. TypeOK /\ Turn(r) /\ ~stopped /\ pc[r] = "disclose"
  BY TurnHolds DEF IInv, ReserveRefused, DisclosurePanics
<1>2. /\ ledger = [ledger EXCEPT ![r] = More(ledger[r], 0, 0, 0)]
      /\ gate = [gate EXCEPT ![r] = More(gate[r], 0, 0, 0)]
  BY <1>1, BooksAt
<1>3. Gave(r) /\ UNCHANGED <<world, flags, attempts, last, supplied, books>>
  BY DEF ReserveRefused, DisclosurePanics
<1>4. ASSUME NEW how, how # "output", MayEnd(r, how), Ends(r, how)
      PROVE  IInv'
  BY <1>1, <1>2, <1>3, <1>4, Finishes DEF Reserved, Permitted, books, flags, TypeOK
<1>5. CASE ReserveRefused(r)
  <2>1. MayEnd(r, "exhausted")
    BY <1>1, Unsent
  <2>2. QED
    BY <1>4, <1>5, <2>1 DEF ReserveRefused
<1>6. CASE DisclosurePanics(r) /\ ~CanFallBack(r, "adapter_fault")
  <2>1. target[r] \in 1..LastTarget /\ LastTarget \in Nat
    BY <1>1, PlanIs DEF TypeOK, Target
  <2>2. MayEnd(r, "adapter_fault")
    BY <1>6, <2>1 DEF CanFallBack, MayEnd, Outcomes, Classes
  <2>3. QED
    BY <1>4, <1>6, <2>2 DEF DisclosurePanics
<1>7. CASE DisclosurePanics(r) /\ CanFallBack(r, "adapter_fault")
  <2>1. /\ ResultsOK /\ RequestOK(r) /\ (refused => cancel)
        /\ UNCHANGED <<MaxTries, HasGate, FallbackOn, LastTarget, Deadline>>
        /\ MaxTries \in Nat \ {0}
    BY <1>1, <1>3, PlanStays, PlanIs DEF IInv, world
  <2>2. /\ pc'[r] = "top" /\ target'[r] = target[r] + 1 /\ tries'[r] = 0 /\ until'[r] = 0
        /\ UNCHANGED <<result, attempts, last, supplied, ledger, gate>>
    BY <1>1, <1>3, <1>7 DEF DisclosurePanics, FallsBack, Goes, TypeOK, books
  <2>3. Local(r)
    BY <1>1, <1>2, <1>3, <1>7, <2>1, <2>2
       DEF Local, DisclosurePanics, FallsBack, Goes, world, flags, TypeOK, ResultsOK
  <2>4. TypedAt(r)
    BY <1>1, <1>7, <2>1, <2>2, NextTarget DEF TypedAt, Places, TypeOK, ResultsOK
  <2>5. TurnAt(r) /\ PermitAt(r)
    BY <1>1, <1>3, <2>2 DEF TurnAt, PermitAt, Permitted
  <2>6. BookOK(r)'
    BY <1>1, <2>1, <2>2 DEF BookOK, RequestOK, Reserved
  <2>7. EndOK(r)'
    <3>1. FallbackOn \subseteq Classes /\ result[r] = None
      BY <1>1, <2>1, PlanIs DEF RequestOK, EndOK
    <3>2. QED
      BY <1>1, <1>3, <2>1, <2>2, <3>1, NoneAssumption
         DEF EndOK, RequestOK, Outcomes, world, flags
  <2>8. TriesOK(r)'
    <3>1. /\ Past(r)' = Past(r) + MaxTries /\ Past(r) \in Nat /\ tries[r] \in Nat
          /\ attempts[r] \in Nat /\ attempts[r] <= Past(r) + tries[r] /\ tries[r] < MaxTries
      <4>1. /\ (target[r] + 1 - 1) * MaxTries = Past(r) + MaxTries /\ Past(r) \in Nat
        BY <1>1, <1>7, NextTarget
      <4>2. Past(r)' = (target[r] + 1 - 1) * MaxTries
        <5>1. target'[r] - 1 = target[r] + 1 - 1 /\ MaxTries' = MaxTries
          <6>1. target[r] \in Nat
            BY <1>1, PlanIs DEF TypeOK, Target
          <6>2. QED
            BY <2>1, <2>2, <6>1
        <5>2. QED
          BY <5>1, Zenon DEF Past
      <4>3. tries[r] \in Nat /\ attempts[r] \in Nat
        BY <1>1, <2>1 DEF TypeOK
      <4>4. attempts[r] <= Past(r) + tries[r] /\ tries[r] < MaxTries
        BY <1>1, <2>1 DEF RequestOK, TriesOK
      <4>5. QED
        BY <4>1, <4>2, <4>3, <4>4
    <3>2. QED
      BY <2>1, <2>2, <3>1 DEF TriesOK, Reserved
  <2>9. QED
    BY <2>3, <2>4, <2>5, <2>6, <2>7, <2>8, LocalStep DEF RequestOK
<1>8. QED
  BY <1>5, <1>6, <1>7

LEMMA ForeignStep == ASSUME IInv, NEW r \in Requests, Foreign(r) PROVE IInv'
<1>1. TypeOK /\ TurnOK
  BY DEF IInv
<1>2. /\ ledger = [ledger EXCEPT ![r] = More(ledger[r], 0, 0, 0)]
      /\ gate = [gate EXCEPT ![r] = More(gate[r], 0, 0, 0)]
      /\ tries = [tries EXCEPT ![r] = @ + 0] /\ tries[r] + 1 \in Nat /\ until[r] \in Nat
      /\ Count(ledger, r, "made") = [ledger EXCEPT ![r] = More(ledger[r], 1, 0, 0)]
      /\ Count(gate, r, "made") = [gate EXCEPT ![r] = More(gate[r], 1, 0, 0)]
      /\ Count(Count(ledger, r, "made"), r, "released")
           = [ledger EXCEPT ![r] = More(ledger[r], 1, 1, 0)]
  BY <1>1, BooksAt, PlanIs DEF TypeOK
<1>3. /\ now \in Nat /\ Limit \in Nat /\ (HasGate => Live) /\ ValidFor \subseteq Nat
      /\ stopped \in BOOLEAN
  BY <1>1, PlanIs DEF TypeOK, Limit
<1>4. LateFirst # None => MayEnd(r, LateFirst) /\ LateFirst # "output"
  BY <1>1, Unsent
<1>5. MayEnd(r, "unavailable")
  BY <1>1, Unsent
<1>6. CASE Reserves(r)
  <2>1. Turn(r) /\ ~stopped /\ pc[r] = "disclose"
    BY <1>1, <1>6, TurnHolds DEF Reserves
  <2>2. CASE LateFirst # None
    BY <1>2, <1>3, <1>4, <1>6, <2>1, <2>2, Finishes
       DEF Reserves, Permitted, Reserved, flags
  <2>3. CASE LateFirst = None /\ Live
    BY <1>2, <1>3, <1>6, <2>1, <2>3, Advances DEF Reserves, Permitted, Reserved
  <2>4. CASE LateFirst = None /\ ~Live
    BY <1>2, <1>3, <1>6, <2>1, <2>4, Advances DEF Reserves, Dispatches, Permitted, Reserved
  <2>5. QED
    BY <2>2, <2>3, <2>4
<1>7. CASE Unauthorized(r)
  BY <1>3, <1>5, <1>7, UndoneStep DEF Unauthorized, flags
<1>8. ASSUME NEW v \in ValidFor, Authorized(r, v)
      PROVE  IInv'
  <2>1. Turn(r) /\ ~stopped /\ pc[r] = "authorize" /\ v \in Nat
    BY <1>1, <1>3, <1>8, TurnHolds DEF Authorized
  <2>2. CASE LateFirst # None
    BY <1>3, <1>4, <1>8, <2>1, <2>2, UndoneStep DEF Authorized, flags
  <2>3. CASE LateFirst = None /\ HasGate
    <3>1. until' = [until EXCEPT ![r] = until[r] + v] /\ until[r] + v \in Nat
      BY <1>2, <1>8, <2>1, <2>3 DEF Authorized
    <3>2. /\ Goes(r, "gate") /\ UNCHANGED <<world, flags, target, attempts, last, result, supplied>>
          /\ free' = free /\ tries' = tries /\ ledger' = ledger /\ gate' = gate
      BY <1>8, <2>3 DEF Authorized
    <3>3. Passes(r, "gate", until[r] + v, 0)
      BY <1>2, <2>3, <3>1, <3>2 DEF Passes
    <3>4. QED
      BY <1>2, <2>1, <2>3, <3>1, <3>3, PassStep
  <2>4. CASE LateFirst = None /\ ~HasGate
    BY <1>2, <1>3, <1>8, <2>1, <2>4, Advances DEF Authorized, Dispatches, Permitted, Reserved
  <2>5. QED
    BY <2>2, <2>3, <2>4
<1>9. CASE GateRefuses(r)
  BY <1>3, <1>5, <1>9, UndoneStep DEF GateRefuses
<1>10. CASE GateReserves(r)
  <2>1. Turn(r) /\ ~stopped /\ pc[r] = "gate" /\ HasGate
    BY <1>1, <1>10, TurnHolds DEF GateReserves, TurnOK
  <2> DEFINE why == IF LateFirst # None THEN LateFirst
                    ELSE IF Expired(r) THEN "unavailable" ELSE None
  <2>2. CASE why # None
    <3>1. MayEnd(r, why) /\ why # "output"
      BY <1>4, <1>5, <2>2
    <3>2. /\ gate' = TicketBack(r) /\ Undone(r, why)
          /\ UNCHANGED <<world, flags, attempts, last, supplied>>
      BY <1>10, <2>2 DEF GateReserves
    <3> HIDE DEF why
    <3>3. QED
      BY <1>3, <2>1, <3>1, <3>2, UndoneStep DEF flags
  <2>3. CASE why = None
    <3>1. /\ gate' = Count(gate, r, "made") /\ Dispatches(r) /\ UNCHANGED <<tries, ledger>>
          /\ UNCHANGED <<world, flags, attempts, last, supplied>>
      BY <1>10, <2>3 DEF GateReserves
    <3>2. /\ Goes(r, "running") /\ until' = [until EXCEPT ![r] = Limit] /\ tries' = tries
          /\ ledger' = ledger /\ free' = free
          /\ UNCHANGED <<world, flags, target, attempts, last, result, supplied>>
      BY <3>1 DEF Dispatches
    <3>3. Passes(r, "running", Limit, 1)
      BY <1>2, <2>1, <3>1, <3>2 DEF Passes
    <3>4. QED
      BY <1>2, <1>3, <2>1, <3>3, PassStep
  <2>4. QED
    BY <2>2, <2>3
<1>11. QED
  BY <1>6, <1>7, <1>8, <1>9, <1>10, DiscloseStep DEF Foreign
-----------------------------------------------------------------------------
(* An attempt ends.                                                        *)

\* How an attempt may end, and what may be known of it then.
AttemptEnds(end, was) ==
    /\ end \in Outcomes \ {"withdrawn"}
    /\ end = "deadline" => now >= Deadline
    /\ end = "cancelled" => cancel
    /\ was.remote \in {"finished", "continuing", "stopped"} /\ was.charge \in {"known", "unknown"}
    /\ was.remote = "continuing" => was.charge = "unknown"

\* The policy decides among three: the request ends, tries again or falls back.
LEMMA ProceedsTo ==
    ASSUME IInv, NEW r \in Requests, pc[r] = "running", NEW end, NEW was, AttemptEnds(end, was),
           Proceeds(r, end)
    PROVE  /\ pc'[r] \in {"ended", "pause", "top"} /\ pc' = [pc EXCEPT ![r] = pc'[r]]
           /\ until'[r] \in Nat /\ until' = [until EXCEPT ![r] = until'[r]]
           /\ \/ pc'[r] = "ended" /\ result' = [result EXCEPT ![r] = end] /\ MayEnd(r, end)
                 /\ target' = target /\ tries' = tries
              \/ /\ pc'[r] # "ended" /\ result' = result
                 /\ target' = target /\ tries' = tries /\ tries[r] < MaxTries
              \/ /\ pc'[r] = "top" /\ result' = result /\ CanFallBack(r, end)
                 /\ target' = [target EXCEPT ![r] = @ + 1] /\ tries' = [tries EXCEPT ![r] = 0]
<1>1. /\ TypeOK /\ now \in Nat /\ Delay \in Nat /\ FallbackOn \subseteq Classes
      /\ target[r] \in 1..LastTarget /\ LastTarget \in Nat
      /\ pc \in [Requests -> Places] /\ until \in [Requests -> Nat]
  <2>1. TypeOK
    BY DEF IInv
  <2>2. Deadline \in Nat /\ Delay \in Nat /\ FallbackOn \subseteq Classes /\ LastTarget \in Nat
    BY <2>1, PlanIs
  <2>3. now \in Nat /\ target[r] \in 1..LastTarget
    BY <2>1, <2>2 DEF TypeOK, Target
  <2>4. pc \in [Requests -> Places] /\ until \in [Requests -> Nat]
    BY <2>1 DEF TypeOK, Places
  <2>5. QED
    BY <2>1, <2>2, <2>3, <2>4
<1>2. ASSUME NEW p, Goes(r, p)
      PROVE  pc'[r] = p /\ pc' = [pc EXCEPT ![r] = pc'[r]]
  BY <1>1, <1>2 DEF Goes
<1>3. ASSUME NEW u \in Nat, until' = [until EXCEPT ![r] = u]
      PROVE  until'[r] \in Nat /\ until' = [until EXCEPT ![r] = until'[r]]
  BY <1>1, <1>3
<1>4. CASE Ends(r, end) /\ MayEnd(r, end)
  BY <1>2, <1>3, <1>4 DEF Ends
<1>5. CASE end \in {"output", "cancelled", "deadline"}
  <2>1. MayEnd(r, end) /\ Ends(r, end)
    BY <1>1, <1>5 DEF MayEnd, AttemptEnds, Classes, Proceeds
  <2>2. QED
    BY <1>4, <2>1
<1>6. CASE end \notin {"output", "cancelled", "deadline"} /\ MayRetry(r, end)
  <2>1. /\ \E p \in {"pause", "top"} : Goes(r, p)
        /\ until' = [until EXCEPT ![r] = now + Delay] /\ now + Delay \in Nat
        /\ UNCHANGED <<target, tries, result>>
    BY <1>1, <1>6 DEF Proceeds
  <2>2. pc'[r] \in {"pause", "top"} /\ pc' = [pc EXCEPT ![r] = pc'[r]]
    BY <1>2, <2>1
  <2>3. tries[r] < MaxTries
    BY <1>6 DEF MayRetry
  <2>4. QED
    BY <1>3, <2>1, <2>2, <2>3
<1>7. CASE /\ end \notin {"output", "cancelled", "deadline"} /\ ~MayRetry(r, end)
           /\ CanFallBack(r, end)
  <2>1. FallsBack(r)
    BY <1>7 DEF Proceeds
  <2>2. QED
    BY <1>2, <1>3, <1>7, <2>1 DEF FallsBack
<1>8. CASE /\ end \notin {"output", "cancelled", "deadline"} /\ ~MayRetry(r, end)
           /\ ~CanFallBack(r, end)
  <2>1. MayEnd(r, end) /\ Ends(r, end)
    BY <1>1, <1>8 DEF MayEnd, AttemptEnds, Proceeds, CanFallBack
  <2>2. QED
    BY <1>4, <2>1
<1>9. QED
  BY <1>5, <1>6, <1>7, <1>8

LEMMA ConcludeStep ==
    ASSUME IInv, NEW r \in Requests, Turn(r), pc[r] = "running", NEW end, NEW was,
           AttemptEnds(end, was), Concludes(r, end, was)
    PROVE  IInv'
<1>1. /\ TypeOK /\ ResultsOK /\ RequestOK(r) /\ (refused => cancel) /\ FallbackOn \subseteq Classes
      /\ UNCHANGED <<MaxTries, HasGate, FallbackOn, LastTarget, Deadline>>
      /\ MaxTries \in Nat \ {0}
  BY PlanStays, PlanIs DEF IInv, Concludes, world
<1>2. /\ pc'[r] \in {"ended", "pause", "top"} /\ pc' = [pc EXCEPT ![r] = pc'[r]]
      /\ until'[r] \in Nat /\ until' = [until EXCEPT ![r] = until'[r]]
      /\ \/ pc'[r] = "ended" /\ result' = [result EXCEPT ![r] = end] /\ MayEnd(r, end)
            /\ target' = target /\ tries' = tries
         \/ /\ pc'[r] # "ended" /\ result' = result
            /\ target' = target /\ tries' = tries /\ tries[r] < MaxTries
         \/ /\ pc'[r] = "top" /\ result' = result /\ CanFallBack(r, end)
            /\ target' = [target EXCEPT ![r] = @ + 1] /\ tries' = [tries EXCEPT ![r] = 0]
  BY ProceedsTo DEF Concludes
<1>3. /\ ledger[r] \in Book /\ gate[r] \in Book /\ tries[r] \in 0..MaxTries /\ attempts[r] \in Nat
      /\ result[r] = None /\ supplied[r] \in Outcomes \cup {None} /\ target[r] \in Target
      /\ target[r] \in Nat
  BY <1>1, PlanIs, SMTT(30) DEF TypeOK, ResultsOK, RequestOK, EndOK, Target
<1>4. PICK s \in {0, 1} : /\ gate' = [gate EXCEPT ![r] = More(gate[r], 0, 0, s)]
                          /\ HasGate => s = 1
  BY <1>1, BooksAt DEF Concludes
<1>5. ledger' = [ledger EXCEPT ![r] = More(ledger[r], 0, 0, 1)]
  BY <1>1, BooksAt DEF Concludes
<1>6. /\ attempts' = [attempts EXCEPT ![r] = @ + 1] /\ attempts'[r] = attempts[r] + 1
      /\ UNCHANGED <<world, flags, supplied>> /\ Gave(r)
  BY <1>1 DEF Concludes, TypeOK
<1> DEFINE rec == [target |-> target[r], end |-> end, remote |-> was.remote, charge |-> was.charge]
<1>7. /\ last' = [last EXCEPT ![r] = rec] /\ last'[r] = rec
  BY <1>1 DEF Concludes, ResultsOK
<1>8. /\ rec \in AttemptRecord /\ rec # None /\ rec.end = end
      /\ rec.remote = "continuing" => rec.charge = "unknown"
  BY <1>3, NoneAssumption DEF AttemptRecord, AttemptEnds
<1> HIDE DEF rec
<1>9. /\ ledger'[r] \in Book /\ gate'[r] \in Book
      /\ ledger'[r].made = ledger[r].made + 0 /\ ledger'[r].released = ledger[r].released + 0
      /\ ledger'[r].settled = ledger[r].settled + 1
      /\ gate'[r].made = gate[r].made + 0 /\ gate'[r].released = gate[r].released + 0
      /\ gate'[r].settled = gate[r].settled + s
  <2>1. ledger'[r] = More(ledger[r], 0, 0, 1) /\ gate'[r] = More(gate[r], 0, 0, s)
    BY <1>1, <1>4, <1>5 DEF TypeOK
  <2>2. QED
    BY <1>3, <2>1, MoreIs
<1>10. /\ result'[r] \in {None, end}
       /\ (result'[r] = end => MayEnd(r, end) /\ target'[r] = target[r])
       /\ (pc'[r] = "ended" <=> result'[r] = end)
  BY <1>1, <1>2, <1>3, NoneAssumption DEF ResultsOK, TypeOK, MayEnd, AttemptEnds
<1>11. target'[r] \in Target /\ tries'[r] \in 0..MaxTries
  <2>1. CanFallBack(r, end) => target[r] + 1 \in Target
    BY <1>1, NextTarget
  <2>2. QED
    BY <1>1, <1>2, <1>3, <2>1 DEF TypeOK
<1>12. Local(r)
  <2>1. /\ target' = [target EXCEPT ![r] = target'[r]] /\ tries' = [tries EXCEPT ![r] = tries'[r]]
        /\ result' = [result EXCEPT ![r] = result'[r]]
    BY <1>1, <1>2 DEF TypeOK, ResultsOK
  <2>2. /\ ledger' = [ledger EXCEPT ![r] = ledger'[r]] /\ gate' = [gate EXCEPT ![r] = gate'[r]]
        /\ attempts' = [attempts EXCEPT ![r] = attempts'[r]]
        /\ last' = [last EXCEPT ![r] = last'[r]]
        /\ supplied' = [supplied EXCEPT ![r] = supplied'[r]]
    BY <1>1, <1>4, <1>5, <1>6, <1>7 DEF TypeOK, ResultsOK
  <2>3. QED
    BY <1>1, <1>2, <1>6, <2>1, <2>2 DEF Local, world, flags, TypeOK
<1>13. TypedAt(r)
  BY <1>2, <1>3, <1>6, <1>7, <1>8, <1>9, <1>10, <1>11 DEF TypedAt, Places, AttemptEnds
<1>14. TurnAt(r) /\ PermitAt(r)
  BY <1>2, <1>6 DEF TurnAt, PermitAt, Permitted
<1>15. BookOK(r)'
  <2>1. /\ ledger[r].made \in Nat /\ ledger[r].released \in Nat /\ ledger[r].settled \in Nat
        /\ gate[r].made \in Nat /\ gate[r].released \in Nat /\ gate[r].settled \in Nat
    BY <1>3 DEF Book
  <2>2. QED
    BY <1>1, <1>2, <1>4, <1>6, <1>7, <1>8, <1>9, <2>1 DEF BookOK, RequestOK, Reserved
<1>16. EndOK(r)'
  BY <1>1, <1>2, <1>3, <1>6, <1>7, <1>8, <1>10, NoneAssumption
     DEF EndOK, RequestOK, MayEnd, AttemptEnds, Outcomes, world, flags
<1>17. TriesOK(r)'
  <2>1. /\ attempts[r] + 1 <= Past(r) + tries[r] /\ tries[r] <= MaxTries /\ Past(r) \in Nat
    <3>1. Past(r) \in Nat
      <4>1. \A t, m \in Nat : t >= 1 => (t - 1) * m \in Nat
        OBVIOUS
      <4>2. QED
        BY <1>1, <1>3, <4>1 DEF Past, Target
    <3>2. QED
      BY <1>1, <1>3, <3>1 DEF RequestOK, TriesOK, Reserved
  <2>2. CASE target' = target /\ tries' = tries /\ (pc'[r] # "ended" => tries[r] < MaxTries)
    <3>1. Past(r)' = Past(r)
      BY <1>1, <2>2 DEF Past
    <3>2. QED
      BY <1>1, <1>2, <1>3, <1>6, <2>1, <2>2, <3>1 DEF TriesOK, Reserved
  <2>3. CASE /\ CanFallBack(r, end) /\ pc'[r] = "top"
             /\ target' = [target EXCEPT ![r] = @ + 1] /\ tries' = [tries EXCEPT ![r] = 0]
    <3>1. (target[r] + 1 - 1) * MaxTries = Past(r) + MaxTries
      BY <1>1, <2>3, NextTarget
    <3>2. target'[r] - 1 = target[r] + 1 - 1 /\ MaxTries' = MaxTries /\ tries'[r] = 0
      BY <1>1, <1>3, <2>3 DEF TypeOK
    <3>3. Past(r)' = (target[r] + 1 - 1) * MaxTries
      BY <3>2, Zenon DEF Past
    <3>4. QED
      BY <1>1, <1>3, <1>6, <2>1, <2>3, <3>1, <3>2, <3>3 DEF TriesOK, Reserved
  <2>4. QED
    BY <1>2, <2>2, <2>3
<1>18. QED
  BY <1>12, <1>13, <1>14, <1>15, <1>16, <1>17, LocalStep DEF RequestOK

LEMMA AttemptStep == ASSUME IInv, NEW r \in Requests, Attempt(r) PROVE IInv'
<1>1. /\ TypeOK /\ Charges \subseteq {"known", "unknown"} /\ now \in Nat /\ Deadline \in Nat
      /\ Results \subseteq {"output", "malformed", "transient", "overloaded", "permanent",
                            "cancelled"}
  BY PlanIs DEF IInv, TypeOK
<1>2. ASSUME NEW rep \in Reports
      PROVE  /\ rep.result \in Results /\ rep.charge \in {"known", "unknown"}
             /\ rep.ack \in {"stopped", "unconfirmed", "not_requested"}
  BY <1>1, <1>2 DEF Reports
<1>3. ASSUME NEW c \in {"known", "unknown"}, NEW ack, NEW end, end \in Outcomes \ {"withdrawn"},
             end = "deadline" => now >= Deadline, end = "cancelled" => cancel
      PROVE  /\ AttemptEnds(end, Lost) /\ AttemptEnds(end, Answered(ack, c))
             /\ AttemptEnds(end, [remote |-> "finished", charge |-> c])
  BY <1>3 DEF AttemptEnds, Lost, Answered
<1>4. /\ Why \in Outcomes \ {"withdrawn"} /\ (Why = "deadline" => now >= Deadline)
      /\ (Why = "cancelled" => cancel)
  BY DEF Why, Outcomes, Classes
<1>5. ASSUME NEW rep \in Reports, Completes(r, rep)
      PROVE  IInv'
  <2>1. CASE cancel /\ rep.result = "cancelled"
    <3>1. AttemptEnds("cancelled", Answered(rep.ack, rep.charge))
      BY <1>2, <1>3, <2>1 DEF Outcomes
    <3>2. QED
      BY <1>5, <2>1, <3>1, ConcludeStep DEF Completes
  <2>2. CASE ~(cancel /\ rep.result = "cancelled")
    <3>1. PICK end : end = Judged(rep.result)
      OBVIOUS
    <3>2. end \in Outcomes \ {"withdrawn", "deadline", "cancelled"}
      BY <1>1, <1>2, <3>1 DEF Judged, Outcomes, Classes
    <3>3. PICK was : was = IF rep.remote = "continuing" /\ ~cancel THEN Lost
                           ELSE [remote |-> "finished", charge |-> rep.charge]
      OBVIOUS
    <3>4. AttemptEnds(end, was)
      BY <1>2, <1>3, <3>2, <3>3
    <3>5. Turn(r) /\ pc[r] = "running" /\ Concludes(r, end, was)
      BY <1>5, <2>2, <3>1, <3>3 DEF Completes
    <3>6. QED
      BY <3>4, <3>5, ConcludeStep
  <2>3. QED
    BY <2>1, <2>2
<1>6. ASSUME NEW rep \in Reports, AnswersSignal(r, rep)
      PROVE  IInv'
  <2>1. PICK end : end = IF refused /\ rep.result \in {"output", "malformed"}
                         THEN "output" ELSE Why
    OBVIOUS
  <2>2. AttemptEnds(end, Answered(rep.ack, rep.charge))
    BY <1>2, <1>3, <1>4, <2>1 DEF Outcomes
  <2>3. Turn(r) /\ pc[r] = "running" /\ Concludes(r, end, Answered(rep.ack, rep.charge))
    BY <1>6, <2>1 DEF AnswersSignal, Interrupted
  <2>4. QED
    BY <2>2, <2>3, ConcludeStep
<1>7. CASE Panics(r)
  <2>1. AttemptEnds("adapter_fault", Lost)
    BY <1>3 DEF Outcomes, Classes
  <2>2. QED
    BY <1>7, <2>1, ConcludeStep DEF Panics
<1>8. CASE IgnoresSignal(r)
  <2>1. AttemptEnds(Why, Lost)
    BY <1>3, <1>4
  <2>2. QED
    BY <1>8, <2>1, ConcludeStep DEF IgnoresSignal, Interrupted
<1>9. QED
  BY <1>5, <1>6, <1>7, <1>8 DEF Attempt
-----------------------------------------------------------------------------
(* The decision.                                                           *)

LEMMA SupplyStep == ASSUME IInv, NEW r \in Requests, Supplies(r) \/ Withdraws(r) PROVE IInv'
<1>1. /\ TypeOK /\ ResultsOK /\ RequestOK(r) /\ (refused => cancel) /\ FallbackOn \subseteq Classes
      /\ {cancel, refused, cancelled, stopped} \subseteq BOOLEAN
  BY PlanIs DEF IInv, TypeOK
<1>2. /\ plan' = plan /\ now' = now /\ others' = others /\ free' = free /\ stopped' = stopped
      /\ UNCHANGED <<target, tries, until, attempts, last, ledger, gate>>
      /\ pc' = [pc EXCEPT ![r] = "supplied"] /\ Turn(r) /\ pc[r] \in {"waiting", "ended"}
  BY DEF Supplies, Withdraws, world, flags, books, Goes
<1>3. UNCHANGED <<MaxTries, HasGate, FallbackOn, LastTarget, Deadline, Live>>
  BY <1>2, PlanStays
<1>4. /\ pc'[r] = "supplied" /\ result[r] \in Outcomes \cup {None}
      /\ supplied[r] \in Outcomes \cup {None}
  BY <1>1, <1>2 DEF TypeOK, ResultsOK
<1>5. /\ {cancel', refused', cancelled', stopped'} \subseteq BOOLEAN
      /\ cancel => cancel'
      /\ refused => refused'
      /\ cancelled => cancelled'
      /\ refused' => cancel'
  BY <1>1, <1>2 DEF Supplies, Withdraws, world, flags, Supply
<1>6. /\ result' = [result EXCEPT ![r] = result'[r]]
      /\ supplied' = [supplied EXCEPT ![r] = supplied'[r]]
      /\ \/ /\ result'[r] = result[r] /\ supplied'[r] = result[r] /\ pc[r] = "ended"
         \/ /\ result'[r] = result[r] /\ supplied'[r] = supplied[r] /\ pc[r] = "ended" /\ cancelled'
         \/ /\ result'[r] = "withdrawn" /\ attempts[r] = 0
            /\ supplied'[r] = supplied[r] /\ refused'
         \/ /\ result'[r] = "cancelled" /\ refused'
            /\ supplied'[r] = supplied[r]
  <2>1. CASE Supplies(r) /\ Supply(r)
    BY <1>1, <2>1 DEF Supplies, ResultsOK
  <2>2. CASE Supplies(r) /\ ~Supply(r)
    <3>1. result' = [result EXCEPT ![r] = IF ~refused THEN @
                       ELSE IF attempts[r] = 0 THEN "withdrawn" ELSE "cancelled"]
      BY <2>2 DEF Supplies
    <3>2. /\ pc[r] = "ended" /\ UNCHANGED <<supplied, refused>>
          /\ cancelled' = (cancelled \/ LeftOut(r))
      BY <2>2 DEF Supplies
    <3>3. ~refused => cancelled'
      BY <3>2 DEF LeftOut
    <3>4. QED
      BY <1>1, <3>1, <3>2, <3>3 DEF ResultsOK
  <2>3. CASE Withdraws(r)
    <3>1. attempts[r] = 0
      BY <1>1, <2>3 DEF Withdraws, RequestOK, EndOK
    <3>2. QED
      BY <1>1, <2>3, <3>1 DEF Withdraws, ResultsOK, flags
  <2>4. QED
    BY <2>1, <2>2, <2>3
<1>7. Local(r)
  BY <1>1, <1>2, <1>4, <1>5, <1>6 DEF Local, TypeOK, ResultsOK
<1>8. TypedAt(r)
  BY <1>1, <1>2, <1>4, <1>6 DEF TypedAt, TypeOK, ResultsOK, Places, Outcomes
<1>9. TurnAt(r) /\ PermitAt(r)
  BY <1>2, <1>4 DEF TurnAt, PermitAt, Permitted
<1>10. BookOK(r)'
  BY <1>1, <1>2, <1>3, <1>4 DEF BookOK, RequestOK, Reserved
<1>11. EndOK(r)'
  <2>1. pc[r] = "ended" => result[r] # None
    BY <1>1 DEF RequestOK, EndOK
  <2>2. QED
    BY <1>1, <1>2, <1>3, <1>4, <1>5, <1>6, <2>1, NoneAssumption
       DEF EndOK, RequestOK, Outcomes, Classes
<1>12. TriesOK(r)'
  BY <1>1, <1>2, <1>3, <1>4 DEF TriesOK, RequestOK, Reserved, Past
<1>13. QED
  BY <1>7, <1>8, <1>9, <1>10, <1>11, <1>12, LocalStep DEF RequestOK

\* A step of the world around the requests: the clock, the signal, the backends.
LEMMA WorldStep ==
    ASSUME IInv, plan' = plan, UNCHANGED <<flags, place, attempts, last, result, supplied, books>>,
           now' \in 0..Deadline, now' >= now, cancel' \in BOOLEAN, cancel => cancel',
           free' \in [Target -> Nat], others' \in [Target -> Nat],
           \A t \in Target : free'[t] + others'[t] = free[t] + others[t]
    PROVE  IInv'
<1>1. TypeOK /\ ResultsOK /\ TurnOK /\ PermitsExact /\ \A r \in Requests : RequestOK(r)
  BY DEF IInv
<1>2. /\ UNCHANGED <<Requests, Target, Permits, MaxTries, HasGate, FallbackOn, LastTarget>>
      /\ UNCHANGED <<Deadline, Live>>
  BY PlanStays
<1>3. /\ UNCHANGED <<refused, cancelled, stopped, pc, target, tries, until, attempts, last>>
      /\ UNCHANGED <<result, supplied, ledger, gate>>
  BY DEF flags, place, books
<1>4. TypeOK' /\ ResultsOK' /\ TurnOK'
  BY <1>1, <1>2, <1>3 DEF TypeOK, ResultsOK, TurnOK, InForeignCode
<1>5. PermitsExact'
  <2>1. ASSUME NEW t \in Target
        PROVE  free'[t] + others'[t] + Cardinality(Holders(t)') = Permits
    <3>1. Holders(t)' = Holders(t)
      BY <1>2, <1>3 DEF Holders
    <3>2. free[t] + others[t] + Cardinality(Holders(t)) = Permits
      BY <1>1 DEF PermitsExact
    <3>3. QED
      BY <3>1, <3>2
  <2>2. QED
    BY <1>2, <2>1 DEF PermitsExact
<1>6. ASSUME NEW r \in Requests
      PROVE  RequestOK(r)'
  <2>1. RequestOK(r) /\ now \in Nat /\ now' \in Nat /\ Deadline \in Nat
    BY <1>1, PlanIs DEF TypeOK
  <2>2. BookOK(r)'
    BY <1>2, <1>3, <2>1 DEF RequestOK, BookOK, Reserved
  <2>3. EndOK(r)'
    BY <1>2, <1>3, <2>1 DEF RequestOK, EndOK
  <2>4. TriesOK(r)'
    BY <1>2, <1>3, <2>1 DEF RequestOK, TriesOK, Reserved, Past
  <2>5. QED
    BY <2>2, <2>3, <2>4 DEF RequestOK
<1>7. QED
  BY <1>2, <1>3, <1>4, <1>5, <1>6 DEF IInv

LEMMA AroundStep == ASSUME IInv, Cancel \/ Tick \/ Elsewhere \/ UNCHANGED vars PROVE IInv'
<1>1. /\ TypeOK /\ now \in 0..Deadline /\ Deadline \in Nat /\ cancel \in BOOLEAN
      /\ free \in [Target -> Nat] /\ others \in [Target -> Nat] /\ Contended \subseteq Target
  BY PlanIs DEF IInv, TypeOK
<1>2. CASE Cancel
  BY <1>1, <1>2, WorldStep DEF Cancel
<1>3. CASE Tick
  <2>1. now' \in 0..Deadline /\ now' >= now
    BY <1>1, <1>3 DEF Tick
  <2>2. QED
    BY <1>1, <1>3, <2>1, WorldStep DEF Tick
<1>4. CASE Elsewhere
  <2>1. /\ free' \in [Target -> Nat] /\ others' \in [Target -> Nat]
        /\ \A t \in Target : free'[t] + others'[t] = free[t] + others[t]
    BY <1>1, <1>4 DEF Elsewhere
  <2>2. QED
    BY <1>1, <1>4, <2>1, WorldStep DEF Elsewhere
<1>5. CASE UNCHANGED vars
  BY <1>1, <1>5, WorldStep DEF vars, world, flags, place, books
<1>6. QED
  BY <1>2, <1>3, <1>4, <1>5

\* The future is dropped: what was running is a liability, its permit returns.
LEMMA DropStep == ASSUME IInv, Drop PROVE IInv'
<1>1. /\ TypeOK /\ ResultsOK /\ TurnOK /\ PermitsExact /\ (refused => cancel)
      /\ \A r \in Requests : RequestOK(r)
  BY DEF IInv
<1>2. /\ UNCHANGED <<plan, now, cancel, others, refused, cancelled, stopped, target, tries>>
      /\ UNCHANGED <<attempts, last, result, supplied>>
  BY DEF Drop, world, flags
<1>3. /\ UNCHANGED <<Requests, Target, Permits, MaxTries, HasGate, FallbackOn, LastTarget>>
      /\ UNCHANGED <<Deadline, Live>> /\ IsFiniteSet(Requests)
  BY <1>1, <1>2, PlanStays, PlanIs
<1>4. \A r \in Requests : pc'[r] = "dropped" /\ until'[r] = 0
  BY DEF Drop
<1>5. \A r \in Requests : pc[r] \notin {"disclose", "authorize", "gate"}
  BY DEF Drop, InForeignCode
<1>6. ASSUME NEW t \in Target
      PROVE  free'[t] \in Nat /\ free'[t] + others'[t] + Cardinality(Holders(t)') = Permits
  <2>1. Holders(t) = {r \in Running : target[r] = t}
    BY <1>5 DEF Holders, Running
  <2>2. IsFiniteSet(Holders(t)) /\ Cardinality(Holders(t)) \in Nat
    <3>1. Holders(t) \subseteq Requests
      BY DEF Holders
    <3>2. QED
      BY <1>3, <3>1, FS_Subset, FS_CardinalityType
  <2>3. Holders(t)' = {}
    BY <1>3, <1>4 DEF Holders
  <2>4. Cardinality(Holders(t)') = 0
    BY <2>3, FS_EmptySet
  <2>5. free'[t] = free[t] + Cardinality(Holders(t))
    BY <2>1 DEF Drop
  <2>6. free[t] \in Nat /\ others[t] \in Nat /\ others'[t] = others[t]
    BY <1>1, <1>2 DEF TypeOK
  <2>7. free[t] + others[t] + Cardinality(Holders(t)) = Permits
    BY <1>1 DEF PermitsExact
  <2>8. QED
    BY <2>2, <2>4, <2>5, <2>6, <2>7
<1>7. PermitsExact' /\ free' \in [Target -> Nat]
  <2>1. free' = [t \in Target |-> free'[t]]
    BY DEF Drop
  <2>2. QED
    BY <1>3, <1>6, <2>1 DEF PermitsExact
<1>8. ASSUME NEW r \in Requests
      PROVE  \E s, g \in {0, 1} : /\ ledger'[r] = More(ledger[r], 0, 0, s)
                                  /\ gate'[r] = More(gate[r], 0, 0, g)
                                  /\ s = 1 <=> pc[r] = "running"
                                  /\ HasGate => g = s
  <2>1. ledger[r] \in Book /\ gate[r] \in Book
    BY <1>1 DEF TypeOK
  <2>2. \A b \in Book : b = More(b, 0, 0, 0) /\ [b EXCEPT !.settled = @ + 1] = More(b, 0, 0, 1)
    BY Plus
  <2>3. ledger'[r] = IF pc[r] = "running" THEN [ledger[r] EXCEPT !.settled = @ + 1] ELSE ledger[r]
    BY DEF Drop, Drops
  <2>4. gate'[r] = IF HasGate /\ pc[r] = "running"
                   THEN [gate[r] EXCEPT !.settled = @ + 1] ELSE gate[r]
    BY DEF Drop, Running
  <2>5. CASE pc[r] = "running" /\ HasGate
    BY <2>1, <2>2, <2>3, <2>4, <2>5
  <2>6. CASE pc[r] = "running" /\ ~HasGate
    BY <2>1, <2>2, <2>3, <2>4, <2>6
  <2>7. CASE pc[r] # "running"
    BY <2>1, <2>2, <2>3, <2>4, <2>7
  <2>8. QED
    BY <2>5, <2>6, <2>7
<1>9. ASSUME NEW r \in Requests
      PROVE  ledger'[r] \in Book /\ gate'[r] \in Book /\ BookOK(r)'
  <2>1. PICK s, g \in {0, 1} : /\ ledger'[r] = More(ledger[r], 0, 0, s)
                               /\ gate'[r] = More(gate[r], 0, 0, g)
                               /\ s = 1 <=> pc[r] = "running"
                               /\ HasGate => g = s
    BY <1>8
  <2>2. ledger[r] \in Book /\ gate[r] \in Book /\ RequestOK(r)
    BY <1>1 DEF TypeOK
  <2>3. /\ ledger'[r] \in Book /\ gate'[r] \in Book
        /\ ledger'[r].made = ledger[r].made + 0 /\ ledger'[r].released = ledger[r].released + 0
        /\ ledger'[r].settled = ledger[r].settled + s
        /\ gate'[r].made = gate[r].made + 0 /\ gate'[r].released = gate[r].released + 0
        /\ gate'[r].settled = gate[r].settled + g
    BY <2>1, <2>2, MoreIs
  <2>4. /\ ledger[r].made \in Nat /\ ledger[r].released \in Nat /\ ledger[r].settled \in Nat
        /\ gate[r].made \in Nat /\ gate[r].released \in Nat /\ gate[r].settled \in Nat
    BY <2>2 DEF Book
  <2>5. pc'[r] = "dropped" /\ last'[r] = last[r] /\ (Reserved(r) <=> pc[r] = "running")
    BY <1>2, <1>4, <1>5 DEF Reserved
  <2>6. BookOK(r)'
    BY <1>3, <2>1, <2>2, <2>3, <2>4, <2>5 DEF BookOK, RequestOK, Reserved
  <2>7. QED
    BY <2>3, <2>6
<1>10. TypeOK'
  <2>1. /\ pc' \in [Requests -> Places] /\ until' \in [Requests -> Nat]
    BY DEF Drop, Places
  <2>2. ledger' \in [Requests -> Book] /\ gate' \in [Requests -> Book]
    <3>1. /\ ledger' = [r \in Requests |-> ledger'[r]] /\ gate' = [r \in Requests |-> gate'[r]]
      BY DEF Drop
    <3>2. QED
      BY <1>9, <3>1
  <2>3. QED
    BY <1>1, <1>2, <1>3, <1>7, <2>1, <2>2 DEF TypeOK, Places
<1>11. ResultsOK' /\ TurnOK'
  BY <1>1, <1>2, <1>3, <1>4 DEF ResultsOK, TurnOK, InForeignCode
<1>12. ASSUME NEW r \in Requests
       PROVE  EndOK(r)' /\ TriesOK(r)'
  <2>1. RequestOK(r) /\ pc'[r] = "dropped"
    BY <1>1, <1>4
  <2>2. EndOK(r)'
    BY <1>2, <1>3, <2>1 DEF EndOK, RequestOK
  <2>3. TriesOK(r)'
    BY <1>2, <1>3, <2>1 DEF TriesOK, RequestOK, Reserved, Past
  <2>4. QED
    BY <2>2, <2>3
<1>13. QED
  BY <1>1, <1>2, <1>3, <1>7, <1>9, <1>10, <1>11, <1>12 DEF IInv, RequestOK

LEMMA InitOK == ASSUME Init PROVE IInv
<1>1. /\ plan \in Plans /\ now = 0 /\ cancel = FALSE /\ refused = FALSE
      /\ cancelled = FALSE /\ stopped = FALSE
  BY DEF Init
<1>2. /\ IsFiniteSet(Requests) /\ LastTarget \in Nat \ {0} /\ Permits \in Nat \ {0}
      /\ MaxTries \in Nat \ {0} /\ Deadline \in Nat
  BY <1>1, DriveAssumption DEF Requests, LastTarget, Permits, MaxTries, Deadline
<1>3. NoBook \in Book /\ NoBook.made = 0 /\ NoBook.released = 0 /\ NoBook.settled = 0
  BY DEF NoBook, Book
<1>4. 1 \in Target
  BY <1>2 DEF Target
<1>5. TypeOK
  <2>1. free \in [Target -> Nat] /\ others \in [Target -> Nat]
    BY <1>2 DEF Init
  <2>2. ledger \in [Requests -> Book] /\ gate \in [Requests -> Book]
    BY <1>3 DEF Init
  <2>3. /\ target \in [Requests -> Target] /\ tries \in [Requests -> 0..MaxTries]
        /\ now \in 0..Deadline
    BY <1>1, <1>2, <1>4 DEF Init
  <2>4. /\ until \in [Requests -> Nat] /\ attempts \in [Requests -> Nat]
        /\ pc \in [Requests -> Places]
    BY DEF Init, Places
  <2>5. QED
    BY <1>1, <2>1, <2>2, <2>3, <2>4 DEF TypeOK, Places
<1>6. ResultsOK
  BY DEF Init, ResultsOK
<1>7. TurnOK
  BY <1>1 DEF Init, TurnOK, InForeignCode
<1>8. PermitsExact
  <2>1. ASSUME NEW t \in Target
        PROVE  free[t] + others[t] + Cardinality(Holders(t)) = Permits
    <3>1. Holders(t) = {}
      BY DEF Init, Holders
    <3>2. Cardinality(Holders(t)) = 0
      BY <3>1, FS_EmptySet
    <3>3. QED
      BY <1>2, <3>2 DEF Init
  <2>2. QED
    BY <2>1 DEF PermitsExact
<1>9. ASSUME NEW r \in Requests
      PROVE  RequestOK(r)
  <2>1. /\ pc[r] = "waiting" /\ target[r] = 1 /\ tries[r] = 0 /\ attempts[r] = 0 /\ last[r] = None
        /\ result[r] = None /\ ledger[r] = NoBook /\ gate[r] = NoBook
    BY DEF Init
  <2>2. BookOK(r)
    BY <1>3, <2>1 DEF BookOK, Reserved
  <2>3. EndOK(r)
    <3>1. FallbackOn \subseteq Classes
      BY <1>5, PlanIs
    <3>2. QED
      BY <1>1, <2>1, <3>1, NoneAssumption DEF EndOK, Outcomes
  <2>4. TriesOK(r)
    <3>1. Past(r) = 0
      BY <1>2, <2>1 DEF Past
    <3>2. QED
      BY <1>2, <2>1, <3>1 DEF TriesOK, Reserved
  <2>5. QED
    BY <2>2, <2>3, <2>4 DEF RequestOK
<1>10. QED
  BY <1>1, <1>5, <1>6, <1>7, <1>8, <1>9 DEF IInv

-----------------------------------------------------------------------------
(* The theorems.                                                           *)

\* IInv is inductive: whatever the adapters and the other decisions do.
THEOREM Inductive == Spec => []IInv
<1>1. ASSUME IInv, [Next]_vars
      PROVE  IInv'
  <2>1. ASSUME NEW r \in Requests, Step(r)
        PROVE  IInv'
    BY <1>1, <2>1, PrepareStep, ForeignStep, AttemptStep, SupplyStep DEF Step
  <2>2. QED
    BY <1>1, <2>1, DropStep, AroundStep DEF Next
<1>2. QED
  BY <1>1, InitOK, PTL DEF Spec

\* For every plan: each permit, reservation and ticket a request takes is given
\* back, released or settled exactly once, and nothing that was sent is refunded
\* (drive, Held, HeldSpend).
THEOREM BooksStayExact == Spec => []BooksExact
<1>1. ASSUME IInv
      PROVE  BooksExact
  <2>1. TypeOK /\ PermitsExact /\ \A r \in Requests : BookOK(r)
    BY <1>1 DEF IInv, RequestOK
  <2>2. ASSUME NEW r \in Requests
        PROVE  /\ ledger[r].made \in Nat /\ ledger[r].released \in Nat /\ ledger[r].settled \in Nat
               /\ gate[r].made \in Nat /\ gate[r].released \in Nat /\ gate[r].settled \in Nat
    BY <2>1 DEF TypeOK, Book
  <2>3. ReservationsClosed
    BY <2>1, <2>2 DEF ReservationsClosed, Outstanding, BookOK, Reserved
  <2>4. GateAgrees
    BY <2>1, <2>2 DEF GateAgrees, Outstanding, BookOK
  <2>5. NeverRefunded
    BY <2>1 DEF NeverRefunded, BookOK
  <2>6. QED
    BY <2>1, <2>3, <2>4, <2>5 DEF BooksExact
<1>2. QED
  BY <1>1, Inductive, PTL

\* For every plan: retries and fallbacks keep to the step's policy, an end is what
\* the attempts were, and the core learns of every end (drive, run_requests).
THEOREM PolicyIsKept == Spec => []WithinPolicy
<1>1. ASSUME IInv
      PROVE  WithinPolicy
  <2>1. /\ TypeOK /\ MaxTries \in Nat /\ LastTarget \in Nat
        /\ \A r \in Requests : EndOK(r) /\ TriesOK(r)
    BY <1>1, PlanIs DEF IInv, RequestOK
  <2>2. EndsAsAttempted
    BY <2>1 DEF EndsAsAttempted, EndOK
  <2>3. ASSUME NEW r \in Requests
        PROVE  attempts[r] <= LastTarget * MaxTries
    <3>1. /\ target[r] \in 1..LastTarget /\ tries[r] \in 0..MaxTries /\ attempts[r] \in Nat
          /\ attempts[r] <= (target[r] - 1) * MaxTries + tries[r]
      BY <2>1 DEF TypeOK, Target, TriesOK, Past
    <3>2. \A t, n, m \in Nat : t >= 1 /\ t <= n => (t - 1) * m + m <= n * m /\ (t - 1) * m \in Nat
      <4>1. ASSUME NEW t \in Nat, NEW n \in Nat, NEW m \in Nat, t >= 1, t <= n
            PROVE  (t - 1) * m + m <= n * m /\ (t - 1) * m \in Nat
        <5>1. PICK k \in Nat : n = t + k
          <6>1. n - t \in Nat /\ n = t + (n - t)
            BY <4>1
          <6>2. QED
            BY <6>1
        <5>2. PICK j \in Nat : t = j + 1
          <6>1. t - 1 \in Nat /\ t = (t - 1) + 1
            BY <4>1
          <6>2. QED
            BY <6>1
        <5>3. n * m = j * m + m + k * m /\ j * m \in Nat /\ k * m \in Nat /\ t - 1 = j
          BY <5>1, <5>2
        <5>4. QED
          BY <5>3
      <4>2. QED
        BY <4>1
    <3>3. /\ (target[r] - 1) * MaxTries + MaxTries <= LastTarget * MaxTries
          /\ (target[r] - 1) * MaxTries \in Nat
      BY <2>1, <3>1, <3>2
    <3>4. LastTarget * MaxTries \in Nat
      BY <2>1
    <3>5. QED
      BY <2>1, <3>1, <3>3, <3>4
  <2>4. AllAnswered
    BY <2>1 DEF AllAnswered, EndOK
  <2>5. QED
    BY <2>2, <2>3, <2>4 DEF WithinPolicy, AttemptsBounded
<1>2. QED
  BY <1>1, Inductive, PTL

\* What the steps outside foreign code never do.
SendsNothing ==
    \A q \in Requests : /\ pc'[q] = "running" => pc[q] = "running"
                        /\ ledger'[q].made = ledger[q].made /\ gate'[q].made = gate[q].made

LEMMA Quiet ==
    ASSUME IInv, NEW r \in Requests,
           Prepares(r) \/ Attempt(r) \/ Resumes(r) \/ Supplies(r) \/ Withdraws(r)
    PROVE  SendsNothing
<1>1. /\ TypeOK /\ pc \in [Requests -> Places]
      /\ ledger \in [Requests -> Book] /\ gate \in [Requests -> Book]
  BY DEF IInv, TypeOK, Places
<1>2. ASSUME NEW p, p # "running", Goes(r, p), ledger' = ledger, gate' = gate
      PROVE  SendsNothing
  BY <1>1, <1>2 DEF SendsNothing, Goes
<1>3. CASE Prepares(r) \/ Resumes(r) \/ Supplies(r) \/ Withdraws(r)
  <2>1. ledger' = ledger /\ gate' = gate
    BY <1>3 DEF Prepares, Start, Top, Acquired, NotAcquired, Resumes, Supplies, Withdraws, books
  <2>2. \E p \in Places \ {"running"} : Goes(r, p)
    BY <1>3 DEF Prepares, Start, Top, Acquired, NotAcquired, Resumes, Supplies, Withdraws, Ends,
                Places
  <2>3. QED
    BY <1>2, <2>1, <2>2
<1>4. CASE Attempt(r)
  <2>1. PICK end, was : Concludes(r, end, was)
    BY <1>4 DEF Attempt, Completes, AnswersSignal, Panics, IgnoresSignal
  <2>2. \E p \in Places \ {"running"} : Goes(r, p)
    BY <2>1 DEF Concludes, Proceeds, Ends, FallsBack, Places
  <2>3. \A q \in Requests : pc'[q] = "running" => pc[q] = "running"
    BY <1>1, <2>2 DEF Goes
  <2>4. /\ ledger' = [ledger EXCEPT ![r] = More(ledger[r], 0, 0, 1)]
        /\ gate' = gate \/ gate' = [gate EXCEPT ![r] = More(gate[r], 0, 0, 1)]
    BY <1>1, <2>1, BooksAt DEF Concludes
  <2>5. \A b \in Book : More(b, 0, 0, 1).made = b.made
    BY DEF More, Book
  <2>6. \A q \in Requests : ledger'[q].made = ledger[q].made /\ gate'[q].made = gate[q].made
    BY <1>1, <2>4, <2>5
  <2>7. QED
    BY <2>3, <2>6 DEF SendsNothing
<1>5. QED
  BY <1>3, <1>4

LEMMA QuietAround ==
    ASSUME IInv, Drop \/ Cancel \/ Tick \/ Elsewhere
    PROVE  SendsNothing
<1>1. /\ pc \in [Requests -> Places]
      /\ ledger \in [Requests -> Book] /\ gate \in [Requests -> Book]
  BY DEF IInv, TypeOK, Places
<1>2. CASE Drop
  <2>1. \A b \in Book : [b EXCEPT !.settled = @ + 1].made = b.made
    BY DEF Book
  <2>2. \A q \in Requests : /\ pc'[q] = "dropped"
                            /\ ledger'[q] \in {ledger[q], [ledger[q] EXCEPT !.settled = @ + 1]}
                            /\ gate'[q] \in {gate[q], [gate[q] EXCEPT !.settled = @ + 1]}
    BY <1>2 DEF Drop, Drops
  <2>3. QED
    BY <1>1, <2>1, <2>2 DEF SendsNothing
<1>3. CASE Cancel \/ Tick \/ Elsewhere
  BY <1>3 DEF Cancel, Tick, Elsewhere, place, books, SendsNothing
<1>4. QED
  BY <1>2, <1>3

\* The steps of foreign code: an attempt is sent only past all checks.
LEMMA SendsInTime ==
    ASSUME IInv, NEW r \in Requests, Foreign(r)
    PROVE  /\ ~stopped
           /\ \A q \in Requests :
                pc[q] # "running" /\ pc'[q] = "running"
                  => now < Deadline /\ ~cancel /\ (pc[q] = "gate" => now < until[q])
<1>1. /\ TypeOK /\ TurnOK /\ pc \in [Requests -> Places] /\ now \in Nat
      /\ until \in [Requests -> Nat]
  <2>1. TypeOK /\ TurnOK
    BY DEF IInv
  <2>2. Deadline \in Nat
    BY <2>1, PlanIs
  <2>3. QED
    BY <2>1, <2>2 DEF TypeOK, Places
<1>2. ~stopped
  BY <1>1, TurnHolds
     DEF Foreign, DisclosurePanics, ReserveRefused, Reserves, Unauthorized, Authorized,
         GateRefuses, GateReserves
<1>3. ASSUME NEW p, p # "running", Goes(r, p)
      PROVE  \A q \in Requests : ~(pc[q] # "running" /\ pc'[q] = "running")
  BY <1>1, <1>3 DEF Goes
<1>4. ASSUME LateFirst = None, Dispatches(r), pc[r] = "gate" => ~Expired(r)
      PROVE  \A q \in Requests : pc[q] # "running" /\ pc'[q] = "running"
               => now < Deadline /\ ~cancel /\ (pc[q] = "gate" => now < until[q])
  <2>1. now < Deadline /\ ~cancel
    BY <1>1, <1>4, Unsent
  <2>2. pc[r] = "gate" => now < until[r]
    BY <1>1, <1>4 DEF Expired
  <2>3. \A q \in Requests \ {r} : pc'[q] = pc[q]
    BY <1>1, <1>4 DEF Dispatches, Goes
  <2>4. QED
    BY <2>1, <2>2, <2>3
<1>5. \/ \E p \in Places \ {"running"} : Goes(r, p)
      \/ LateFirst = None /\ Dispatches(r) /\ (pc[r] = "gate" => ~Expired(r))
  <2>1. CASE DisclosurePanics(r) \/ ReserveRefused(r)
    BY <2>1 DEF DisclosurePanics, ReserveRefused, FallsBack, Ends, Places
  <2>2. CASE Reserves(r)
    BY <2>2 DEF Reserves, Ends, Places
  <2>3. CASE Unauthorized(r) \/ GateRefuses(r)
    BY <2>3 DEF Unauthorized, GateRefuses, Undone, Ends, Places
  <2>4. ASSUME NEW v \in ValidFor, Authorized(r, v)
        PROVE  \/ \E p \in Places \ {"running"} : Goes(r, p)
               \/ LateFirst = None /\ Dispatches(r) /\ (pc[r] = "gate" => ~Expired(r))
    BY <2>4 DEF Authorized, Undone, Ends, Places
  <2>5. CASE GateReserves(r)
    BY <2>5, NoneAssumption DEF GateReserves, Undone, Ends, Places, Outcomes
  <2>6. QED
    BY <2>1, <2>2, <2>3, <2>4, <2>5 DEF Foreign
<1>6. QED
  BY <1>2, <1>3, <1>4, <1>5

\* For every plan: no attempt is sent past the deadline, after a cancellation or
\* on an expired authorization, whatever happened between the checks, and the
\* gate's first refusal is the end of the decision's spending (drive).
THEOREM NothingIsTooLate == Spec => NothingTooLate
<1>1. ASSUME IInv, [Next]_vars
      PROVE  [~SentLate /\ ~SpendsStopped]_vars
  <2>1. ASSUME SendsNothing
        PROVE  ~SentLate /\ ~SpendsStopped
    BY <2>1 DEF SendsNothing, SentLate, SpendsStopped
  <2>2. ASSUME NEW r \in Requests, Foreign(r)
        PROVE  ~SentLate /\ ~SpendsStopped
    <3>1. /\ ~stopped
          /\ \A q \in Requests :
               pc[q] # "running" /\ pc'[q] = "running"
                 => now < Deadline /\ ~cancel /\ (pc[q] = "gate" => now < until[q])
      BY <1>1, <2>2, SendsInTime
    <3>2. now \in Nat /\ Deadline \in Nat /\ \A q \in Requests : until[q] \in Nat
      <4>1. TypeOK
        BY <1>1 DEF IInv
      <4>2. QED
        BY <4>1, PlanIs DEF TypeOK
    <3>3. QED
      BY <3>1, <3>2 DEF SentLate, SpendsStopped
  <2>3. ASSUME NEW r \in Requests, Step(r)
        PROVE  ~SentLate /\ ~SpendsStopped
    BY <1>1, <2>1, <2>2, <2>3, Quiet DEF Step
  <2>4. QED
    BY <1>1, <2>1, <2>3, QuietAround DEF Next
<1>2. QED
  BY <1>1, Inductive, PTL DEF Spec, NothingTooLate
=============================================================================
