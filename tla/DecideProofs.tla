---------------------------- MODULE DecideProofs ----------------------------
(***************************************************************************)
(* What admission and the delivery of run records keep for every number of *)
(* calls, permits, places and slots, and for every mix of traffic.         *)
(***************************************************************************)
EXTENDS Decide, FiniteSetTheorems, SequenceTheorems, TLAPS

-----------------------------------------------------------------------------
(* Counting and sequences.                                                 *)

\* The number of members of S that f sends into P.
CountIn(S, f, P) == Cardinality({x \in S : f[x] \in P})

\* What one member adds to such a count.
In(x, P) == IF x \in P THEN 1 ELSE 0

\* Two functions differ at d at most.
SameBut(S, f, g, d) == \A x \in S \ {d} : g[x] = f[x]

\* Changing f at one member changes the count by what that member was and what
\* it becomes.
LEMMA MoveCount ==
    ASSUME NEW S, IsFiniteSet(S), NEW f, NEW g, NEW P, NEW d \in S,
           SameBut(S, f, g, d)
    PROVE  /\ CountIn(S, f, P) \in Nat
           /\ CountIn(S, g, P) \in Nat
           /\ CountIn(S, g, P) + In(f[d], P) = CountIn(S, f, P) + In(g[d], P)
<1> DEFINE A == {x \in S : f[x] \in P}
           B == {x \in S : g[x] \in P}
           C == A \ {d}
<1>1. IsFiniteSet(A) /\ Cardinality(A) \in Nat
  BY FS_Subset, FS_CardinalityType
<1>2. /\ IsFiniteSet(C) /\ Cardinality(C) \in Nat
      /\ Cardinality(C) = IF d \in A THEN Cardinality(A) - 1 ELSE Cardinality(A)
  BY <1>1, FS_RemoveElement, FS_CardinalityType
<1>3. d \in A <=> f[d] \in P
  OBVIOUS
<1>4. Cardinality(B) = Cardinality(C) + (IF g[d] \in P THEN 1 ELSE 0)
  <2>1. CASE g[d] \in P
    <3>1. B = C \cup {d} /\ d \notin C
      BY <2>1 DEF SameBut
    <3>2. QED
      BY <1>2, <2>1, <3>1, FS_AddElement
  <2>2. CASE g[d] \notin P
    <3>1. B = C
      BY <2>2 DEF SameBut
    <3> HIDE DEF B, C
    <3>2. QED
      BY <1>2, <2>2, <3>1
  <2>3. QED
    BY <2>1, <2>2
<1>5. CountIn(S, f, P) = Cardinality(A) /\ CountIn(S, g, P) = Cardinality(B)
  BY DEF CountIn
<1> HIDE DEF A, B, C
<1>6. QED
  BY <1>1, <1>2, <1>3, <1>4, <1>5 DEF In

\* The members of a sequence.
Members(s) == {s[i] : i \in 1..Len(s)}

\* No member of a sequence comes twice.
Distinct(s) == \A i, j \in 1..Len(s) : s[i] = s[j] => i = j

\* Appending a new member.
LEMMA AppendMembers ==
    ASSUME NEW S, NEW s \in Seq(S), NEW e \in S, e \notin Members(s), Distinct(s)
    PROVE  /\ Append(s, e) \in Seq(S) /\ Len(Append(s, e)) = Len(s) + 1
           /\ Members(Append(s, e)) = Members(s) \cup {e}
           /\ Distinct(Append(s, e))
  BY AppendProperties, LenProperties DEF Members, Distinct

\* Taking the oldest member out.
LEMMA TailMembers ==
    ASSUME NEW S, NEW s \in Seq(S), s # <<>>, Distinct(s)
    PROVE  /\ Tail(s) \in Seq(S) /\ Len(Tail(s)) = Len(s) - 1 /\ Len(s) >= 1
           /\ Head(s) \in S /\ Head(s) \in Members(s)
           /\ Members(Tail(s)) = Members(s) \ {Head(s)}
           /\ Distinct(Tail(s))
<1> DEFINE n == Len(s)
           t == Tail(s)
<1>1. /\ t \in Seq(S) /\ Len(t) = n - 1
      /\ \A i \in 1..(n - 1) : t[i] = s[i + 1]
  BY HeadTailProperties
<1>2. n \in Nat /\ n >= 1 /\ Head(s) = s[1] /\ s[1] \in S
  BY EmptySeq, LenProperties
<1>3. Members(t) \subseteq Members(s) \ {Head(s)}
  <2>1. ASSUME NEW i \in 1..(n - 1)
        PROVE  t[i] \in Members(s) /\ t[i] # Head(s)
    <3>1. t[i] = s[i + 1] /\ i + 1 \in 1..n /\ 1 \in 1..n /\ i + 1 # 1
      BY <1>1, <1>2
    <3>2. QED
      BY <1>2, <3>1 DEF Members, Distinct
  <2>2. QED
    BY <1>1, <2>1 DEF Members
<1>4. Members(s) \ {Head(s)} \subseteq Members(t)
  <2>1. ASSUME NEW i \in 1..n, s[i] # s[1]
        PROVE  s[i] \in Members(t)
    <3>1. i - 1 \in 1..(n - 1) /\ t[i - 1] = s[i]
      BY <1>1, <1>2, <2>1
    <3>2. QED
      BY <1>1, <3>1 DEF Members
  <2>2. QED
    BY <1>2, <2>1 DEF Members
<1>5. Distinct(t)
  <2>1. ASSUME NEW i \in 1..(n - 1), NEW j \in 1..(n - 1), t[i] = t[j]
        PROVE  i = j
    <3>1. i + 1 \in 1..n /\ j + 1 \in 1..n /\ s[i + 1] = s[j + 1]
      BY <1>1, <1>2, <2>1
    <3>2. QED
      BY <3>1 DEF Distinct
  <2>2. QED
    BY <1>1, <2>1 DEF Distinct
<1>6. Head(s) \in Members(s)
  BY <1>2 DEF Members
<1>7. QED
  BY <1>1, <1>2, <1>3, <1>4, <1>5, <1>6

\* Taking any member out of the line.
LEMMA WithoutMembers ==
    ASSUME NEW S, NEW s \in Seq(S), NEW d \in Members(s), Distinct(s)
    PROVE  /\ Without(s, d) \in Seq(S)
           /\ Members(Without(s, d)) = Members(s) \ {d}
           /\ Distinct(Without(s, d))
<1> DEFINE n == Len(s)
           k == CHOOSE i \in 1..n : s[i] = d
           a == SubSeq(s, 1, k - 1)
           b == SubSeq(s, k + 1, n)
           t == a \o b
<1>1. n \in Nat /\ \A i \in 1..n : s[i] \in S
  BY LenProperties, ElementOfSeq
<1>2. k \in 1..n /\ s[k] = d
  BY DEF Members
<1> HIDE DEF k
<1>3. /\ a \in Seq(S) /\ Len(a) = k - 1
      /\ \A i \in 1..(k - 1) : a[i] = s[i]
  <2>1. /\ a \in Seq(S) /\ Len(a) = IF 1 <= k - 1 THEN (k - 1) - 1 + 1 ELSE 0
        /\ \A i \in 1..((k - 1) - 1 + 1) : a[i] = s[1 + i - 1]
    <3>1. 1 \in Int /\ k - 1 \in Int /\ \A i \in 1..(k - 1) : s[i] \in S
      BY <1>1, <1>2
    <3>2. QED
      BY <3>1, SubSeqProperties
  <2>2. QED
    BY <1>2, <2>1
<1>4. /\ b \in Seq(S) /\ Len(b) = n - k
      /\ \A i \in 1..(n - k) : b[i] = s[k + i]
  <2>1. /\ b \in Seq(S) /\ Len(b) = IF k + 1 <= n THEN n - (k + 1) + 1 ELSE 0
        /\ \A i \in 1..(n - (k + 1) + 1) : b[i] = s[(k + 1) + i - 1]
    <3>1. n \in Int /\ k + 1 \in Int /\ \A i \in (k + 1)..n : s[i] \in S
      BY <1>1, <1>2
    <3>2. QED
      BY <3>1, SubSeqProperties
  <2>2. QED
    BY <1>1, <1>2, <2>1
<1> HIDE DEF a, b
<1>5. /\ t \in Seq(S) /\ Len(t) = n - 1
      /\ \A i \in 1..(n - 1) : t[i] = IF i <= k - 1 THEN s[i] ELSE s[i + 1]
  <2>1. /\ t \in Seq(S) /\ Len(t) = Len(a) + Len(b)
        /\ \A i \in 1..(Len(a) + Len(b)) : t[i] = IF i <= Len(a) THEN a[i] ELSE b[i - Len(a)]
    BY <1>3, <1>4, ConcatProperties
  <2>2. ASSUME NEW i \in 1..(n - 1)
        PROVE  t[i] = IF i <= k - 1 THEN s[i] ELSE s[i + 1]
    <3>1. t[i] = IF i <= k - 1 THEN a[i] ELSE b[i - (k - 1)]
      BY <1>1, <1>2, <1>3, <1>4, <2>1
    <3>2. CASE i <= k - 1
      BY <1>2, <1>3, <3>1, <3>2
    <3>3. CASE ~(i <= k - 1)
      <4>1. i - (k - 1) \in 1..(n - k) /\ k + (i - (k - 1)) = i + 1
        BY <1>1, <1>2, <3>3
      <4>2. QED
        BY <1>4, <3>1, <3>3, <4>1
    <3>4. QED
      BY <3>2, <3>3
  <2>3. QED
    BY <1>1, <1>2, <1>3, <1>4, <2>1, <2>2
<1> HIDE DEF t
<1>6. Members(t) \subseteq Members(s) \ {d}
  <2>1. ASSUME NEW i \in 1..(n - 1)
        PROVE  t[i] \in Members(s) /\ t[i] # d
    <3>1. \E j \in 1..n : j # k /\ t[i] = s[j]
      BY <1>1, <1>2, <1>5
    <3>2. QED
      BY <1>2, <3>1 DEF Members, Distinct
  <2>2. QED
    BY <1>5, <2>1 DEF Members
<1>7. Members(s) \ {d} \subseteq Members(t)
  <2>1. ASSUME NEW i \in 1..n, s[i] # d
        PROVE  \E j \in 1..(n - 1) : t[j] = s[i]
    <3>1. CASE i < k
      BY <1>1, <1>2, <1>5, <3>1
    <3>2. CASE i > k
      <4>1. i - 1 \in 1..(n - 1) /\ ~(i - 1 <= k - 1) /\ (i - 1) + 1 = i
        BY <1>1, <1>2, <3>2
      <4>2. t[i - 1] = s[i]
        BY <1>5, <4>1
      <4>3. QED
        BY <4>1, <4>2
    <3>3. QED
      BY <1>1, <1>2, <2>1, <3>1, <3>2
  <2>2. QED
    BY <1>5, <2>1 DEF Members
<1>8. Distinct(t)
  <2>1. ASSUME NEW i \in 1..(n - 1), NEW j \in 1..(n - 1), t[i] = t[j]
        PROVE  i = j
    <3> DEFINE old(x) == IF x <= k - 1 THEN x ELSE x + 1
    <3>1. old(i) \in 1..n /\ old(j) \in 1..n /\ s[old(i)] = s[old(j)]
      BY <1>1, <1>2, <1>5, <2>1
    <3>2. old(i) = old(j)
      BY <3>1 DEF Distinct
    <3>3. QED
      BY <1>1, <1>2, <3>2
  <2>2. QED
    BY <1>5, <2>1 DEF Distinct
<1>9. Without(s, d) = t
  BY DEF Without, t, a, b, k
<1>10. QED
  BY <1>5, <1>6, <1>7, <1>8, <1>9
-----------------------------------------------------------------------------
(* The inductive invariant of admission.                                   *)

\* The line: nobody is in it twice, who is in it or has been assigned a permit
\* waits, and nobody is both.
LineOK ==
    /\ Distinct(waiters)
    /\ \A d \in InLine \cup granted : phase[d] = "waiting"
    /\ InLine \cap granted = {}

Holding == {"running", "delivering", "writing"}

\* The books of admission, as counts of calls by phase: every permit is free,
\* assigned or held, every place in the queue is a waiting call's, and the
\* counters are the calls that ended so.
BooksOK ==
    /\ permits + Cardinality(granted) + CountIn(Decisions, phase, Holding) = MaxInFlight
    /\ queued = CountIn(Decisions, phase, {"waiting"}) /\ queued <= MaxQueued
    /\ rejected = CountIn(Decisions, phase, {"rejected"})
    /\ abandoned = CountIn(Decisions, phase, {"failed", "dropped"})

CallInv == TypeOK /\ BooksOK /\ NoIdlePermit /\ OneLiveCallPerId /\ LineOK

-----------------------------------------------------------------------------
(* The inductive invariant of delivery.                                    *)

\* The gauges: `queued` covers whatever will still be taken off it, with
\* nothing to spare while the worker runs; `in_delivery` is the one record.
Due == {"reserved", "try", "full", "closed"}

GaugesOK ==
    /\ LET due == Len(queue)
                    + CountIn(Decisions, dpc, Due)
                    + (IF worker.at = "taken" THEN 1 ELSE 0)
       IN  stats.queued >= due /\ (~Closed => stats.queued = due)
    /\ ~Closed => \A d \in Decisions : dpc[d] # "closed"
    /\ ~Closed => stats.in_delivery = IF worker.at \in {"deliver", "answered"} THEN 1 ELSE 0

\* Where a record can be: with its decision, in the channel, or with the worker.
RecordsOK ==
    /\ Distinct(queue)
    /\ \A d \in Queued : /\ outcome[d] = "queued" /\ ticket[d] = "pending"
                         /\ handed[d] = 0 /\ d \notin received
    /\ \A d \in Decisions : /\ dpc[d] # "done" => outcome[d] = "none" /\ d \notin received
                            /\ dpc[d] \notin {"inline", "done"} => handed[d] = 0
                            /\ outcome[d] # "queued" => ticket[d] = "none"

\* What the worker has in its hands.
WorkerOK ==
    /\ worker.at = "recv" => worker.job = NoJob
    /\ worker.at \in {"taken", "deliver", "answered"} =>
         /\ worker.job \in Decisions \ Queued
         /\ outcome[worker.job] = "queued" /\ ticket[worker.job] = "pending"
    /\ worker.at = "taken" => handed[worker.job] = 0
    /\ worker.at \in {"taken", "deliver"} => worker.job \notin received
    /\ worker.at = "answered" =>
         /\ worker.result \in Endings
         /\ worker.result = "acknowledged" => worker.job \in received
         /\ worker.result = "error" => worker.job \notin received

\* What became of each record, the answer the worker has not reported included.
Fate ==
    [d \in Decisions |-> IF worker.at = "answered" /\ worker.job = d
                         THEN worker.result ELSE Verdict(d)]

\* The counters of records with a final word (EachCountedOnce).
CountsOK ==
    /\ stats.acknowledged = CountIn(Decisions, Fate, {"acknowledged"})
    /\ stats.failed = CountIn(Decisions, Fate, {"error", "panic", "timeout", "no_slot"})
    /\ stats.timed_out = CountIn(Decisions, Fate, {"timeout"})
    /\ stats.dropped = CountIn(Decisions, Fate, {"dropped"})

SinkInv ==
    SinkTypeOK /\ QueueBounded /\ GaugesOK /\ RecordsOK /\ WorkerOK /\ VerdictHonest /\ CountsOK

\* A call past its delivery, as far as its guards are concerned, was accepted.
KeptOK ==
    \A d \in Decisions :
        phase[d] \in {"writing", "left"} => dpc[d] = "done" /\ Accepted(d)

\* A record in no counter: the worker is stopped, or its call was dropped.
UncountedOK ==
    \A d \in Decisions : /\ {outcome[d], ticket[d]} \cap {"stopped", "lost"} # {} => Closed
                         /\ outcome[d] = "gone" => phase[d] = "dropped"

IInv == CallInv /\ SinkInv /\ KeptOK /\ UncountedOK

-----------------------------------------------------------------------------
(* Admission keeps its invariant.                                          *)

\* Call d goes to phase q.
Moves(d, q) == traffic' = traffic /\ phase' = [phase EXCEPT ![d] = q]

\* A call that goes from one phase to another moves the counts.
LEMMA PhaseMoves ==
    ASSUME TypeOK, NEW d \in Decisions, NEW q, Moves(d, q), NEW P
    PROVE  /\ CountIn(Decisions, phase, P) \in Nat
           /\ CountIn(Decisions, phase', P) \in Nat
           /\ CountIn(Decisions, phase', P) + In(phase[d], P)
                = CountIn(Decisions, phase, P) + In(q, P)
<1>1. phase'[d] = q /\ \A x \in Decisions \ {d} : phase'[x] = phase[x]
  BY DEF TypeOK, Moves
<1>2. IsFiniteSet(Decisions) /\ SameBut(Decisions, phase, phase', d)
  BY <1>1, SinkAssumption DEF SameBut
<1>3. /\ CountIn(Decisions, phase, P) \in Nat
      /\ CountIn(Decisions, phase', P) \in Nat
      /\ CountIn(Decisions, phase', P) + In(phase[d], P)
           = CountIn(Decisions, phase, P) + In(phase'[d], P)
  BY <1>2, MoveCount
<1>4. QED
  BY <1>1, <1>3

\* The phases of a call that holds a Live guard.
Past == {"submitted", "queueing", "waiting", "running", "delivering", "writing"}

\* A call that moves on, or ends, keeps the live set exact.
LEMMA LiveMoves ==
    ASSUME TypeOK, OneLiveCallPerId,
           NEW d \in Decisions, phase[d] \in Past,
           NEW q \in Past \cup Ended, Moves(d, q),
           live' = IF q \in Past THEN live ELSE live \ {IdOf[d]}
    PROVE  OneLiveCallPerId'
<1> DEFINE past == {x \in Decisions : phase[x] \notin Ended \cup {"new"}}
           now == {x \in Decisions : phase'[x] \notin Ended \cup {"new"}}
<1>1. IdOf' = IdOf
  BY DEF IdOf, Moves
<1>2. /\ live = {IdOf[x] : x \in past}
      /\ \A x, y \in past : IdOf[x] = IdOf[y] => x = y
  BY DEF OneLiveCallPerId
<1>3. d \in past
  BY DEF Past, Ended
<1>4. now = IF q \in Past THEN past ELSE past \ {d}
  BY DEF TypeOK, Past, Ended, Moves
<1>5. live' = {IdOf[x] : x \in now}
  BY <1>2, <1>3, <1>4
<1>6. \A x, y \in now : IdOf[x] = IdOf[y] => x = y
  BY <1>2, <1>4
<1>7. QED
  BY <1>1, <1>5, <1>6 DEF OneLiveCallPerId

\* A released permit goes to the oldest waiter or is free again: one more is
\* free or assigned, and nobody comes into the line.
LEMMA PassOnKeeps ==
    ASSUME CallInv, NEW rest \in SUBSET granted, PassOn(rest)
    PROVE  /\ waiters' \in Seq(Decisions) /\ granted' \in SUBSET Decisions
           /\ permits' \in Nat /\ Cardinality(rest) \in Nat
           /\ permits' + Cardinality(granted') = permits + Cardinality(rest) + 1
           /\ NoIdlePermit'
           /\ Distinct(waiters')
           /\ InLine' \cap granted' = {}
           /\ InLine' \cup granted' \subseteq InLine \cup rest
<1>1. /\ IsFiniteSet(Decisions) /\ waiters \in Seq(Decisions) /\ granted \in SUBSET Decisions
      /\ permits \in Nat
  BY SinkAssumption, DecideAssumption DEF CallInv, TypeOK, MaxInFlight
<1>2. IsFiniteSet(rest) /\ Cardinality(rest) \in Nat
  BY <1>1, FS_Subset, FS_CardinalityType
<1>3. /\ Distinct(waiters) /\ InLine \cap granted = {} /\ NoIdlePermit
      /\ InLine = Members(waiters)
  BY DEF CallInv, LineOK, InLine, Members
<1>4. CASE waiters = <<>>
  <2>1. permits' = permits + 1 /\ granted' = rest /\ waiters' = waiters
    BY <1>4 DEF PassOn
  <2>2. InLine' = InLine
    BY <2>1 DEF InLine
  <2>3. QED
    BY <1>1, <1>2, <1>3, <1>4, <2>1, <2>2 DEF NoIdlePermit
<1>5. CASE waiters # <<>>
  <2>1. permits' = permits /\ granted' = rest \cup {Head(waiters)} /\ waiters' = Tail(waiters)
    BY <1>5 DEF PassOn
  <2>2. /\ Tail(waiters) \in Seq(Decisions) /\ Head(waiters) \in Decisions
        /\ Head(waiters) \in InLine
        /\ Members(Tail(waiters)) = InLine \ {Head(waiters)} /\ Distinct(Tail(waiters))
    BY <1>1, <1>3, <1>5, TailMembers
  <2>3. InLine' = InLine \ {Head(waiters)}
    BY <2>1, <2>2 DEF InLine, Members
  <2>4. Cardinality(granted') = Cardinality(rest) + 1
    <3>1. Head(waiters) \notin rest
      BY <1>3, <2>2
    <3>2. QED
      BY <1>2, <2>1, <3>1, FS_AddElement
  <2>5. permits = 0
    BY <1>3, <1>5 DEF NoIdlePermit
  <2>6. QED
    BY <1>1, <1>2, <1>3, <2>1, <2>2, <2>3, <2>4, <2>5 DEF NoIdlePermit
<1>6. QED
  BY <1>4, <1>5

\* The line after a step that call d is not in line after.
LineStep(d) ==
    /\ waiters' \in Seq(Decisions) /\ granted' \in SUBSET Decisions /\ permits' \in Nat
    /\ NoIdlePermit'
    /\ Distinct(waiters')
    /\ InLine' \cap granted' = {}
    /\ InLine' \cup granted' \subseteq (InLine \cup granted) \ {d}

\* What d held of the permits goes where its new phase says.
PermitStep(d, q) ==
    permits' + Cardinality(granted') + In(q, Holding)
      = permits + Cardinality(granted) + In(phase[d], Holding)

\* The queue and the two counters move with the phase.
CounterStep(d, q) ==
    /\ queued' + In(phase[d], {"waiting"}) = queued + In(q, {"waiting"})
    /\ queued' \in Int /\ queued' <= MaxQueued
    /\ rejected' = rejected + In(q, {"rejected"})
    /\ abandoned' = abandoned + In(q, {"failed", "dropped"})

\* A step of one call that moves everything its phase stands for keeps the
\* invariant of admission.
LEMMA CallMoves ==
    ASSUME CallInv, NEW d \in Decisions, phase[d] \notin Ended,
           NEW q \in Past \cup Ended, Moves(d, q),
           LineStep(d), PermitStep(d, q), CounterStep(d, q), OneLiveCallPerId',
           expired' \in SUBSET Decisions, cancelled' \in SUBSET Decisions
    PROVE  CallInv'
<1>1. /\ TypeOK /\ BooksOK /\ LineOK
      /\ MaxInFlight \in Nat /\ MaxQueued \in Nat
      /\ MaxInFlight' = MaxInFlight /\ MaxQueued' = MaxQueued /\ Ids' = Ids
  BY DecideAssumption DEF CallInv, TypeOK, MaxInFlight, MaxQueued, Ids, IdOf, Moves
<1> DEFINE h == CountIn(Decisions, phase, Holding)
           w == CountIn(Decisions, phase, {"waiting"})
           r == CountIn(Decisions, phase, {"rejected"})
           a == CountIn(Decisions, phase, {"failed", "dropped"})
<1>2. \A P : In(q, P) \in {0, 1} /\ In(phase[d], P) \in {0, 1}
  BY DEF In
<1>3. /\ h \in Nat /\ CountIn(Decisions, phase', Holding) \in Nat
      /\ CountIn(Decisions, phase', Holding) + In(phase[d], Holding) = h + In(q, Holding)
  BY <1>1, PhaseMoves
<1>4. /\ w \in Nat /\ CountIn(Decisions, phase', {"waiting"}) \in Nat
      /\ CountIn(Decisions, phase', {"waiting"}) + In(phase[d], {"waiting"})
           = w + In(q, {"waiting"})
  BY <1>1, PhaseMoves
<1>5. /\ r \in Nat /\ a \in Nat
      /\ CountIn(Decisions, phase', {"rejected"}) = r + In(q, {"rejected"})
      /\ CountIn(Decisions, phase', {"failed", "dropped"}) = a + In(q, {"failed", "dropped"})
  <2>1. In(phase[d], {"rejected"}) = 0 /\ In(phase[d], {"failed", "dropped"}) = 0
    BY DEF In, Ended
  <2>2. /\ r \in Nat /\ CountIn(Decisions, phase', {"rejected"}) \in Nat
        /\ CountIn(Decisions, phase', {"rejected"}) + In(phase[d], {"rejected"})
             = r + In(q, {"rejected"})
    BY <1>1, PhaseMoves
  <2>3. /\ a \in Nat /\ CountIn(Decisions, phase', {"failed", "dropped"}) \in Nat
        /\ CountIn(Decisions, phase', {"failed", "dropped"}) + In(phase[d], {"failed", "dropped"})
             = a + In(q, {"failed", "dropped"})
    BY <1>1, PhaseMoves
  <2>4. QED
    BY <1>2, <2>1, <2>2, <2>3
<1>6. /\ Cardinality(granted) \in Nat /\ Cardinality(granted') \in Nat
      /\ permits \in Nat /\ permits' \in Nat
  <2>1. /\ IsFiniteSet(Decisions) /\ granted \in SUBSET Decisions
        /\ granted' \in SUBSET Decisions
    BY <1>1, SinkAssumption DEF TypeOK, LineStep
  <2>2. QED
    BY <1>1, <2>1, FS_Subset, FS_CardinalityType DEF TypeOK, LineStep
<1>7. BooksOK'
  <2>1. permits' + Cardinality(granted') + CountIn(Decisions, phase', Holding) = MaxInFlight'
    BY <1>1, <1>2, <1>3, <1>6 DEF BooksOK, PermitStep
  <2>2. queued' = CountIn(Decisions, phase', {"waiting"}) /\ queued' <= MaxQueued'
    BY <1>1, <1>2, <1>4 DEF BooksOK, CounterStep
  <2>3. rejected' = CountIn(Decisions, phase', {"rejected"})
    BY <1>1, <1>5 DEF BooksOK, CounterStep
  <2>4. abandoned' = CountIn(Decisions, phase', {"failed", "dropped"})
    BY <1>1, <1>5 DEF BooksOK, CounterStep
  <2>5. QED
    BY <2>1, <2>2, <2>3, <2>4 DEF BooksOK
<1>8. LineOK'
  <2>1. \A x \in InLine' \cup granted' : x \in Decisions /\ x # d /\ phase[x] = "waiting"
    <3>1. InLine \cup granted \subseteq Decisions
      BY <1>1, ElementOfSeq DEF TypeOK, InLine
    <3>2. QED
      BY <1>1, <3>1 DEF LineOK, LineStep
  <2>2. \A x \in InLine' \cup granted' : phase'[x] = "waiting"
    BY <1>1, <2>1 DEF Moves, TypeOK
  <2>3. QED
    BY <2>2 DEF LineOK, LineStep
<1>9. TypeOK'
  <2>1. traffic' \in Traffics
    BY <1>1 DEF TypeOK, Moves
  <2>2. phase' \in [Decisions -> {"new", "submitted", "queueing", "waiting", "running",
                                  "delivering", "writing"} \cup Ended]
    BY <1>1 DEF TypeOK, Moves, Past
  <2>3. permits' \in 0..MaxInFlight'
    BY <1>1, <1>3, <1>6, <1>7 DEF BooksOK
  <2>4. queued' \in Nat /\ rejected' \in Nat /\ abandoned' \in Nat
    BY <1>2, <1>4, <1>5, <1>7 DEF BooksOK
  <2>5. live' \in SUBSET Ids'
    BY DEF OneLiveCallPerId, Ids
  <2>6. QED
    BY <2>1, <2>2, <2>3, <2>4, <2>5 DEF TypeOK, LineStep
<1>10. QED
  BY <1>7, <1>8, <1>9 DEF CallInv, LineStep

\* A call in line, or with a permit assigned, is a waiting call.
LEMMA LineFacts ==
    ASSUME CallInv
    PROVE  /\ permits \in Nat /\ waiters \in Seq(Decisions) /\ granted \in SUBSET Decisions
           /\ IsFiniteSet(granted) /\ Cardinality(granted) \in Nat
           /\ InLine = Members(waiters) /\ InLine \subseteq Decisions
           /\ Distinct(waiters) /\ InLine \cap granted = {} /\ NoIdlePermit
           /\ \A d \in InLine \cup granted : phase[d] = "waiting"
           /\ expired \in SUBSET Decisions /\ cancelled \in SUBSET Decisions
           /\ queued \in Nat /\ queued <= MaxQueued /\ MaxQueued \in Nat
<1>1. /\ TypeOK /\ LineOK /\ NoIdlePermit /\ BooksOK /\ IsFiniteSet(Decisions)
      /\ MaxInFlight \in Nat /\ MaxQueued \in Nat
  BY SinkAssumption, DecideAssumption DEF CallInv, TypeOK, MaxInFlight, MaxQueued
<1>2. permits \in Nat
  BY <1>1 DEF TypeOK
<1>3. IsFiniteSet(granted) /\ Cardinality(granted) \in Nat
  BY <1>1, FS_Subset, FS_CardinalityType DEF TypeOK
<1>4. InLine = Members(waiters) /\ InLine \subseteq Decisions
  BY <1>1, ElementOfSeq DEF TypeOK, InLine, Members
<1>5. QED
  BY <1>1, <1>2, <1>3, <1>4 DEF TypeOK, LineOK, BooksOK

\* A step that leaves the line alone.
LEMMA LineQuiet ==
    ASSUME CallInv, NEW d \in Decisions, phase[d] # "waiting",
           waiters' = waiters, granted' = granted,
           permits' \in Nat, permits' <= permits
    PROVE  LineStep(d)
<1>1. InLine' = InLine
  BY DEF InLine
<1>2. d \notin InLine \cup granted
  BY LineFacts
<1>3. NoIdlePermit'
  BY LineFacts DEF NoIdlePermit
<1>4. QED
  BY <1>1, <1>2, <1>3, LineFacts DEF LineStep

\* A call that runs gives its permit back.
LEMMA LineReleases ==
    ASSUME CallInv, NEW d \in Decisions, phase[d] \in Holding, Release, NEW q \in Ended
    PROVE  LineStep(d) /\ PermitStep(d, q)
<1>1. PassOn(granted)
  BY DEF Release
<1>2. d \notin InLine \cup granted
  BY LineFacts DEF Holding
<1>3. In(q, Holding) = 0 /\ In(phase[d], Holding) = 1
  BY DEF In, Holding, Ended
<1>4. LineStep(d)
  BY <1>1, <1>2, PassOnKeeps, LineFacts DEF LineStep
<1>5. /\ permits' \in Nat /\ permits' + Cardinality(granted') = permits + Cardinality(granted) + 1
      /\ Cardinality(granted') \in Nat
  <2>1. IsFiniteSet(Decisions) /\ granted' \in SUBSET Decisions
    BY <1>4, SinkAssumption DEF LineStep
  <2>2. QED
    BY <1>1, <2>1, PassOnKeeps, FS_Subset, FS_CardinalityType
<1>6. PermitStep(d, q)
  BY <1>3, <1>5, LineFacts DEF PermitStep
<1>7. QED
  BY <1>4, <1>6

\* A call that was assigned a permit passes it on.
LEMMA LinePasses ==
    ASSUME CallInv, NEW d \in granted, PassOn(granted \ {d}), NEW q \in Ended
    PROVE  LineStep(d) /\ PermitStep(d, q)
<1>1. phase[d] = "waiting" /\ d \notin InLine
  BY LineFacts
<1>2. In(q, Holding) = 0 /\ In(phase[d], Holding) = 0
  BY <1>1 DEF In, Holding, Ended
<1>3. granted \ {d} \in SUBSET granted
  OBVIOUS
<1>4. LineStep(d)
  BY <1>1, <1>3, PassOnKeeps, LineFacts DEF LineStep
<1>5. Cardinality(granted \ {d}) = Cardinality(granted) - 1
  BY LineFacts, FS_RemoveElement
<1>6. /\ permits' \in Nat /\ Cardinality(granted') \in Nat
      /\ permits' + Cardinality(granted') = permits + Cardinality(granted \ {d}) + 1
  <2>1. IsFiniteSet(Decisions) /\ granted' \in SUBSET Decisions
    BY <1>4, SinkAssumption DEF LineStep
  <2>2. QED
    BY <1>3, <2>1, PassOnKeeps, FS_Subset, FS_CardinalityType
<1>7. PermitStep(d, q)
  BY <1>2, <1>5, <1>6, LineFacts DEF PermitStep
<1>8. QED
  BY <1>4, <1>7

\* A call leaves the line without a permit.
LEMMA LineLeaves ==
    ASSUME CallInv, NEW d \in InLine, waiters' = Without(waiters, d),
           UNCHANGED <<permits, granted>>, NEW q \in Ended
    PROVE  LineStep(d) /\ PermitStep(d, q)
<1>1. phase[d] = "waiting" /\ d \notin granted /\ d \in Members(waiters)
  BY LineFacts
<1>2. In(q, Holding) = 0 /\ In(phase[d], Holding) = 0
  BY <1>1 DEF In, Holding, Ended
<1>3. /\ waiters' \in Seq(Decisions) /\ Members(waiters') = Members(waiters) \ {d}
      /\ Distinct(waiters')
  BY <1>1, LineFacts, WithoutMembers
<1>4. InLine' = InLine \ {d}
  BY <1>3, LineFacts DEF InLine, Members
<1>5. waiters # <<>>
  BY <1>1 DEF Members
<1>6. permits = 0 /\ permits' = 0 /\ NoIdlePermit'
  BY <1>5, LineFacts DEF NoIdlePermit
<1>7. LineStep(d)
  BY <1>1, <1>3, <1>4, <1>6, LineFacts DEF LineStep
<1>8. PermitStep(d, q)
  BY <1>2, LineFacts DEF PermitStep
<1>9. QED
  BY <1>7, <1>8

-----------------------------------------------------------------------------
(* One step of a call, by action.                                          *)

\* A submission: refused, or the id becomes live.
LEMMA SubmitKeeps ==
    ASSUME CallInv, NEW d \in Decisions, Submit(d)
    PROVE  CallInv'
<1>1. /\ phase[d] = "new" /\ phase[d] \notin Ended
      /\ UNCHANGED <<permits, waiters, granted, queued, expired, cancelled, traffic>>
  BY DEF Submit, Ended
<1>2. PICK q \in {"rejected", "submitted"} :
        /\ Moves(d, q)
        /\ rejected' = rejected + In(q, {"rejected"}) /\ abandoned' = abandoned
        /\ q = "rejected" => live' = live
        /\ q = "submitted" => IdOf[d] \notin live /\ live' = live \cup {IdOf[d]}
  <2>1. In("rejected", {"rejected"}) = 1 /\ In("submitted", {"rejected"}) = 0
    BY DEF In
  <2>2. rejected \in Nat
    BY DEF CallInv, TypeOK
  <2>3. QED
    BY <1>1, <2>1, <2>2 DEF Submit, Refused, Moves
<1>3. LineStep(d)
  BY <1>1, LineQuiet, LineFacts
<1>4. /\ In(q, Holding) = 0 /\ In(phase[d], Holding) = 0
      /\ In(q, {"waiting"}) = 0 /\ In(phase[d], {"waiting"}) = 0
      /\ In(q, {"failed", "dropped"}) = 0
  BY <1>1 DEF In, Holding
<1>5. PermitStep(d, q) /\ CounterStep(d, q)
  <2>1. abandoned \in Nat
    BY DEF CallInv, TypeOK
  <2>2. QED
    BY <1>1, <1>2, <1>4, <2>1, LineFacts DEF PermitStep, CounterStep
<1>6. OneLiveCallPerId'
  <2> DEFINE past == {x \in Decisions : phase[x] \notin Ended \cup {"new"}}
             now == {x \in Decisions : phase'[x] \notin Ended \cup {"new"}}
  <2>1. IdOf' = IdOf
    BY <1>1 DEF IdOf
  <2>2. /\ live = {IdOf[x] : x \in past}
        /\ \A x, y \in past : IdOf[x] = IdOf[y] => x = y
    BY DEF CallInv, OneLiveCallPerId
  <2>3. d \notin past /\ now = IF q = "submitted" THEN past \cup {d} ELSE past
    BY <1>1, <1>2 DEF CallInv, TypeOK, Ended, Moves
  <2>4. live' = {IdOf[x] : x \in now}
    BY <1>2, <2>2, <2>3
  <2>5. \A x, y \in now : IdOf[x] = IdOf[y] => x = y
    BY <1>2, <2>2, <2>3
  <2>6. QED
    BY <2>1, <2>4, <2>5 DEF OneLiveCallPerId
<1>7. q \in Past \cup Ended
  BY DEF Past, Ended
<1>8. QED
  BY <1>1, <1>2, <1>3, <1>5, <1>6, <1>7, CallMoves, LineFacts

\* A call that ends the way q keeps the live ids exact.
LEMMA EndLive ==
    ASSUME CallInv, NEW d \in Decisions, phase[d] \in Past, NEW q \in Ended,
           End(d, q), traffic' = traffic
    PROVE  OneLiveCallPerId' /\ Moves(d, q) /\ q \in Past \cup Ended
<1>1. Moves(d, q) /\ q \notin Past
  BY DEF End, Moves, Past, Ended
<1>2. QED
  BY <1>1, LiveMoves DEF CallInv, End

\* A call that moves on keeps its id live.
LEMMA OnLive ==
    ASSUME CallInv, NEW d \in Decisions, phase[d] \in Past, NEW q \in Past,
           phase' = [phase EXCEPT ![d] = q], live' = live, traffic' = traffic
    PROVE  OneLiveCallPerId' /\ Moves(d, q) /\ q \in Past \cup Ended
<1>1. Moves(d, q)
  BY DEF Moves
<1>2. QED
  BY <1>1, LiveMoves DEF CallInv

\* The try for a free permit.
LEMMA TryAcquireKeeps ==
    ASSUME CallInv, NEW d \in Decisions, TryAcquire(d)
    PROVE  CallInv'
<1>1. /\ phase[d] = "submitted" /\ phase[d] \in Past /\ phase[d] \notin Ended
      /\ UNCHANGED <<waiters, granted, queued, live, rejected, abandoned, expired,
                     cancelled, traffic>>
  BY DEF TryAcquire, Past, Ended
<1>2. PICK q \in {"running", "queueing"} :
        /\ phase' = [phase EXCEPT ![d] = q]
        /\ permits' \in Nat /\ permits' + In(q, Holding) = permits
  <2>1. In("running", Holding) = 1 /\ In("queueing", Holding) = 0
    BY DEF In, Holding
  <2>2. QED
    BY <2>1, LineFacts DEF TryAcquire
<1>3. /\ In(q, Holding) \in {0, 1} /\ In(phase[d], Holding) = 0
      /\ In(q, {"waiting"}) = 0 /\ In(phase[d], {"waiting"}) = 0
      /\ In(q, {"rejected"}) = 0 /\ In(q, {"failed", "dropped"}) = 0
  BY <1>1 DEF In, Holding
<1>4. LineStep(d)
  BY <1>1, <1>2, <1>3, LineQuiet, LineFacts
<1>5. PermitStep(d, q)
  BY <1>1, <1>2, <1>3, LineFacts DEF PermitStep
<1>6. CounterStep(d, q)
  <2>1. abandoned \in Nat /\ rejected \in Nat
    BY DEF CallInv, TypeOK
  <2>2. QED
    BY <1>1, <1>3, <2>1, LineFacts DEF CounterStep
<1>7. OneLiveCallPerId' /\ Moves(d, q) /\ q \in Past \cup Ended
  <2>1. q \in Past
    BY DEF Past
  <2>2. QED
    BY <1>1, <1>2, <2>1, OnLive
<1>8. QED
  BY <1>1, <1>4, <1>5, <1>6, <1>7, CallMoves, LineFacts

\* A place in the queue, or the rejection of an overloaded call.
LEMMA EnqueueKeeps ==
    ASSUME CallInv, NEW d \in Decisions, Enqueue(d)
    PROVE  CallInv'
<1>1. /\ phase[d] = "queueing" /\ phase[d] \in Past /\ phase[d] \notin Ended
      /\ UNCHANGED <<permits, waiters, granted, expired, cancelled, traffic>>
      /\ abandoned \in Nat /\ rejected \in Nat
  BY DEF Enqueue, Past, Ended, CallInv, TypeOK
<1>2. LineStep(d)
  BY <1>1, LineQuiet, LineFacts
<1>3. CASE queued >= MaxQueued
  <2>1. End(d, "rejected") /\ rejected' = rejected + 1 /\ UNCHANGED <<queued, abandoned>>
    BY <1>3 DEF Enqueue, Reject
  <2>2. "rejected" \in Ended
    BY DEF Ended
  <2>3. /\ In("rejected", Holding) = 0 /\ In(phase[d], Holding) = 0
        /\ In("rejected", {"waiting"}) = 0 /\ In(phase[d], {"waiting"}) = 0
        /\ In("rejected", {"rejected"}) = 1 /\ In("rejected", {"failed", "dropped"}) = 0
    BY <1>1 DEF In, Holding
  <2>4. PermitStep(d, "rejected") /\ CounterStep(d, "rejected")
    BY <1>1, <2>1, <2>3, LineFacts DEF PermitStep, CounterStep
  <2>5. OneLiveCallPerId' /\ Moves(d, "rejected") /\ "rejected" \in Past \cup Ended
    BY <1>1, <2>1, <2>2, EndLive
  <2>6. QED
    BY <1>1, <1>2, <2>4, <2>5, CallMoves, LineFacts
<1>4. CASE ~(queued >= MaxQueued)
  <2>1. /\ queued' = queued + 1 /\ phase' = [phase EXCEPT ![d] = "waiting"]
        /\ UNCHANGED <<live, rejected, abandoned>>
    BY <1>4 DEF Enqueue
  <2>2. "waiting" \in Past
    BY DEF Past
  <2>3. /\ In("waiting", Holding) = 0 /\ In(phase[d], Holding) = 0
        /\ In("waiting", {"waiting"}) = 1 /\ In(phase[d], {"waiting"}) = 0
        /\ In("waiting", {"rejected"}) = 0 /\ In("waiting", {"failed", "dropped"}) = 0
    BY <1>1 DEF In, Holding
  <2>4. PermitStep(d, "waiting") /\ CounterStep(d, "waiting")
    BY <1>1, <1>4, <2>1, <2>3, LineFacts DEF PermitStep, CounterStep
  <2>5. OneLiveCallPerId' /\ Moves(d, "waiting") /\ "waiting" \in Past \cup Ended
    BY <1>1, <2>1, <2>2, OnLive
  <2>6. QED
    BY <1>1, <1>2, <2>4, <2>5, CallMoves, LineFacts
<1>5. QED
  BY <1>3, <1>4

\* The first poll of the wait: a permit at once, or a place in the line.
LEMMA JoinLineKeeps ==
    ASSUME CallInv, NEW d \in Decisions, JoinLine(d)
    PROVE  CallInv'
<1>1. /\ phase[d] = "waiting" /\ d \notin granted /\ d \notin InLine
      /\ UNCHANGED <<phase, queued, live, rejected, abandoned, expired, cancelled, traffic>>
  BY DEF JoinLine
<1>2. /\ TypeOK /\ BooksOK /\ OneLiveCallPerId /\ LineOK
      /\ MaxInFlight \in Nat /\ MaxInFlight' = MaxInFlight /\ MaxQueued' = MaxQueued
      /\ Ids' = Ids /\ IdOf' = IdOf /\ CountIn(Decisions, phase, Holding) \in Nat
  <2>1. CountIn(Decisions, phase, Holding) \in Nat
    BY SinkAssumption, FS_Subset, FS_CardinalityType DEF CountIn
  <2>2. QED
    BY <1>1, <2>1, DecideAssumption
       DEF CallInv, TypeOK, MaxInFlight, MaxQueued, Ids, IdOf
<1>3. OneLiveCallPerId'
  BY <1>1, <1>2 DEF OneLiveCallPerId
<1>4. CASE permits > 0
  <2>1. permits' = permits - 1 /\ granted' = granted \cup {d} /\ waiters' = waiters
    BY <1>4 DEF JoinLine
  <2>2. Cardinality(granted') = Cardinality(granted) + 1
    BY <1>1, <2>1, LineFacts, FS_AddElement
  <2>3. BooksOK'
    BY <1>1, <1>2, <2>1, <2>2, LineFacts DEF BooksOK
  <2>4. InLine' = InLine
    BY <2>1 DEF InLine
  <2>5. LineOK' /\ NoIdlePermit'
    BY <1>1, <1>4, <2>1, <2>4, LineFacts DEF LineOK, NoIdlePermit
  <2>6. TypeOK'
    BY <1>1, <1>2, <1>4, <2>1 DEF TypeOK
  <2>7. QED
    BY <1>3, <2>3, <2>5, <2>6 DEF CallInv
<1>5. CASE ~(permits > 0)
  <2>1. permits' = permits /\ granted' = granted /\ waiters' = Append(waiters, d)
    BY <1>5 DEF JoinLine
  <2>2. /\ waiters' \in Seq(Decisions) /\ Distinct(waiters')
        /\ Members(waiters') = Members(waiters) \cup {d}
    BY <1>1, <2>1, LineFacts, AppendMembers
  <2>3. BooksOK'
    BY <1>1, <1>2, <2>1 DEF BooksOK
  <2>4. InLine' = InLine \cup {d}
    BY <2>2, LineFacts DEF InLine, Members
  <2>5. LineOK' /\ NoIdlePermit'
    BY <1>1, <1>5, <2>1, <2>2, <2>4, LineFacts DEF LineOK, NoIdlePermit
  <2>6. TypeOK'
    BY <1>1, <1>2, <2>1, <2>2 DEF TypeOK
  <2>7. QED
    BY <1>3, <2>3, <2>5, <2>6 DEF CallInv
<1>6. QED
  BY <1>4, <1>5

\* The permit arrives in time.
LEMMA AdmitKeeps ==
    ASSUME CallInv, NEW d \in Decisions, Admit(d)
    PROVE  CallInv'
<1>1. /\ d \in granted /\ granted' = granted \ {d} /\ queued' = queued - 1
      /\ phase' = [phase EXCEPT ![d] = "running"]
      /\ UNCHANGED <<permits, waiters, live, rejected, abandoned, expired, cancelled, traffic>>
      /\ abandoned \in Nat /\ rejected \in Nat
  BY DEF Admit, CallInv, TypeOK
<1>2. phase[d] = "waiting" /\ d \notin InLine /\ phase[d] \in Past /\ phase[d] \notin Ended
  BY <1>1, LineFacts DEF Past, Ended
<1>3. InLine' = InLine
  BY <1>1 DEF InLine
<1>4. LineStep(d)
  BY <1>1, <1>2, <1>3, LineFacts DEF LineStep, NoIdlePermit
<1>5. /\ In("running", Holding) = 1 /\ In(phase[d], Holding) = 0
      /\ In("running", {"waiting"}) = 0 /\ In(phase[d], {"waiting"}) = 1
      /\ In("running", {"rejected"}) = 0 /\ In("running", {"failed", "dropped"}) = 0
  BY <1>2 DEF In, Holding
<1>6. Cardinality(granted') = Cardinality(granted) - 1
  BY <1>1, LineFacts, FS_RemoveElement
<1>7. PermitStep(d, "running") /\ CounterStep(d, "running")
  BY <1>1, <1>5, <1>6, LineFacts DEF PermitStep, CounterStep
<1>8. OneLiveCallPerId' /\ Moves(d, "running") /\ "running" \in Past \cup Ended
  <2>1. "running" \in Past
    BY DEF Past
  <2>2. QED
    BY <1>1, <1>2, <2>1, OnLive
<1>9. QED
  BY <1>1, <1>2, <1>4, <1>7, <1>8, CallMoves, LineFacts

\* Any end of a call that gives back what it held and is counted.
LEMMA EndKeeps ==
    ASSUME CallInv, NEW d \in Decisions, phase[d] \in Past, NEW q \in Ended, End(d, q),
           LineStep(d), PermitStep(d, q),
           queued' = IF phase[d] = "waiting" THEN queued - 1 ELSE queued,
           rejected' = IF q = "rejected" THEN rejected + 1 ELSE rejected,
           abandoned' = IF q \in {"failed", "dropped"} THEN abandoned + 1 ELSE abandoned,
           UNCHANGED <<traffic, expired, cancelled>>
    PROVE  CallInv'
<1>1. OneLiveCallPerId' /\ Moves(d, q) /\ q \in Past \cup Ended /\ phase[d] \notin Ended
  BY EndLive DEF Past, Ended
<1>2. abandoned \in Nat /\ rejected \in Nat
  BY DEF CallInv, TypeOK
<1>3. In(q, {"waiting"}) = 0
  BY DEF In, Ended
<1>4. CounterStep(d, q)
  BY <1>2, <1>3, LineFacts DEF CounterStep, In
<1>5. QED
  BY <1>1, <1>4, CallMoves, LineFacts

\* A rejection in the queue, with a permit in hand or without one.
LEMMA RejectKeeps ==
    ASSUME CallInv, NEW d \in Decisions, LateGrant(d) \/ LeaveLine(d)
    PROVE  CallInv'
<1>1. "rejected" \in Ended /\ "rejected" \notin {"failed", "dropped"}
  BY DEF Ended
<1>2. /\ queued' = queued - 1 /\ End(d, "rejected") /\ rejected' = rejected + 1
      /\ abandoned' = abandoned /\ UNCHANGED <<traffic, expired, cancelled>>
  BY DEF LateGrant, LeaveLine, Reject
<1>3. d \in granted \cup InLine /\ phase[d] = "waiting" /\ phase[d] \in Past
  BY LineFacts DEF LateGrant, LeaveLine, Past
<1>4. LineStep(d) /\ PermitStep(d, "rejected")
  <2>1. CASE LateGrant(d)
    BY <1>1, <2>1, LinePasses DEF LateGrant
  <2>2. CASE LeaveLine(d)
    BY <1>1, <2>2, LineLeaves DEF LeaveLine
  <2>3. QED
    BY <2>1, <2>2
<1>5. QED
  BY <1>1, <1>2, <1>3, <1>4, EndKeeps

\* The run ends with a record, or the judgment's entry is written: the call
\* keeps its permit.
LEMMA RunKeeps ==
    ASSUME CallInv, NEW d \in Decisions, RunEnds(d) \/ WritesEntry(d)
    PROVE  CallInv'
<1>1. PICK q \in {"delivering", "writing"} : phase' = [phase EXCEPT ![d] = q]
  BY DEF RunEnds, WritesEntry
<1>2. /\ phase[d] \in {"running", "delivering"}
      /\ UNCHANGED <<permits, waiters, granted, queued, live, rejected, abandoned, expired,
                     cancelled, traffic>>
      /\ abandoned \in Nat /\ rejected \in Nat
  BY DEF RunEnds, WritesEntry, CallInv, TypeOK
<1>3. phase[d] \in Past /\ phase[d] \notin Ended /\ q \in Past
  BY <1>2 DEF Past, Ended
<1>4. /\ In(q, Holding) = 1 /\ In(phase[d], Holding) = 1
      /\ In(q, {"waiting"}) = 0 /\ In(phase[d], {"waiting"}) = 0
      /\ In(q, {"rejected"}) = 0 /\ In(q, {"failed", "dropped"}) = 0
  BY <1>2 DEF In, Holding
<1>5. LineStep(d)
  BY <1>2, LineQuiet, LineFacts
<1>6. PermitStep(d, q) /\ CounterStep(d, q)
  BY <1>2, <1>4, LineFacts DEF PermitStep, CounterStep
<1>7. OneLiveCallPerId' /\ Moves(d, q) /\ q \in Past \cup Ended
  BY <1>1, <1>2, <1>3, OnLive
<1>8. QED
  BY <1>2, <1>3, <1>5, <1>6, <1>7, CallMoves, LineFacts

\* The call fails or returns and its permit goes on.
LEMMA ReturnKeeps ==
    ASSUME CallInv, NEW d \in Decisions, RunFails(d) \/ Returns(d)
    PROVE  CallInv'
<1>1. PICK q \in {"failed", "returned"} :
        End(d, q) /\ abandoned' = IF q = "failed" THEN abandoned + 1 ELSE abandoned
  BY DEF RunFails, Returns
<1>2. /\ phase[d] \in Holding /\ phase[d] \in Past /\ phase[d] # "waiting" /\ q \in Ended
      /\ Release /\ UNCHANGED <<queued, rejected, expired, cancelled, traffic>>
  BY DEF RunFails, Returns, Holding, Past, Ended
<1>3. LineStep(d) /\ PermitStep(d, q)
  BY <1>2, LineReleases
<1>4. QED
  BY <1>1, <1>2, <1>3, EndKeeps

\* The caller drops the future wherever it waits.
LEMMA DropKeeps ==
    ASSUME CallInv, NEW d \in Decisions, Drop(d)
    PROVE  CallInv'
<1>1. "dropped" \in Ended /\ "left" \in Ended /\ Holding \subseteq Past
  BY DEF Ended, Holding, Past
<1>2. UNCHANGED <<rejected, expired, cancelled, traffic>>
  BY DEF Drop
<1>3. CASE DropWaiting(d) /\ End(d, "dropped") /\ abandoned' = abandoned + 1
  <2>1. phase[d] = "waiting" /\ phase[d] \in Past /\ queued' = queued - 1
    BY <1>3 DEF DropWaiting, Past
  <2>2. LineStep(d) /\ PermitStep(d, "dropped")
    <3>1. CASE d \in InLine
      BY <1>1, <1>3, <3>1, LineLeaves DEF DropWaiting
    <3>2. CASE d \notin InLine
      BY <1>1, <1>3, <3>2, LinePasses DEF DropWaiting
    <3>3. QED
      BY <3>1, <3>2
  <2>3. QED
    BY <1>1, <1>2, <1>3, <2>1, <2>2, EndKeeps
<1>4. CASE DropRunning(d) /\ End(d, "dropped") /\ abandoned' = abandoned + 1
  <2>1. phase[d] \in Holding /\ phase[d] # "waiting" /\ queued' = queued /\ Release
    BY <1>4 DEF DropRunning, Holding
  <2>2. LineStep(d) /\ PermitStep(d, "dropped")
    BY <1>1, <2>1, LineReleases
  <2>3. QED
    BY <1>1, <1>2, <1>4, <2>1, <2>2, EndKeeps
<1>5. CASE DropWriting(d)
  <2>1. /\ phase[d] \in Holding /\ phase[d] # "waiting" /\ Release /\ End(d, "left")
        /\ UNCHANGED <<queued, abandoned>>
    BY <1>5 DEF DropWriting, Holding
  <2>2. LineStep(d) /\ PermitStep(d, "left")
    BY <1>1, <2>1, LineReleases
  <2>3. QED
    BY <1>1, <1>2, <2>1, <2>2, EndKeeps
<1>6. QED
  BY <1>3, <1>4, <1>5 DEF Drop

\* Nothing has been admitted yet.
LEMMA CallInit == Init => CallInv
<1> SUFFICES ASSUME Init
             PROVE  CallInv
  OBVIOUS
<1>1. TypeOK
  BY DecideAssumption, EmptySeq DEF Init, TypeOK, MaxInFlight
<1>2. /\ CountIn(Decisions, phase, Holding) = 0 /\ CountIn(Decisions, phase, {"waiting"}) = 0
      /\ CountIn(Decisions, phase, {"rejected"}) = 0
      /\ CountIn(Decisions, phase, {"failed", "dropped"}) = 0
  <2>1. ASSUME NEW P, "new" \notin P
        PROVE  CountIn(Decisions, phase, P) = 0
    <3>1. {d \in Decisions : phase[d] \in P} = {}
      BY <2>1 DEF Init
    <3>2. QED
      BY <3>1, FS_EmptySet DEF CountIn
  <2>2. QED
    BY <2>1 DEF Holding
<1>3. BooksOK
  BY <1>1, <1>2, FS_EmptySet, DecideAssumption DEF Init, BooksOK, MaxInFlight, MaxQueued, TypeOK
<1>4. LineOK /\ NoIdlePermit
  BY EmptySeq DEF Init, LineOK, NoIdlePermit, InLine, Distinct
<1>5. OneLiveCallPerId
  BY DEF Init, OneLiveCallPerId
<1>6. QED
  BY <1>1, <1>3, <1>4, <1>5 DEF CallInv

\* Every step keeps the invariant of admission.
LEMMA CallStep == CallInv /\ [Next]_vars => CallInv'
<1> SUFFICES ASSUME CallInv, [Next]_vars
             PROVE  CallInv'
  OBVIOUS
<1>1. CASE UNCHANGED callVars
  BY <1>1 DEF callVars, CallInv, TypeOK, BooksOK, NoIdlePermit, OneLiveCallPerId, LineOK,
              InLine, Ids, IdOf, MaxInFlight, MaxQueued
<1>2. ASSUME NEW d \in Decisions, Expire(d) \/ Cancel(d)
      PROVE  CallInv'
  BY <1>2 DEF Expire, Cancel, CallInv, TypeOK, BooksOK, NoIdlePermit, OneLiveCallPerId, LineOK,
              InLine, Ids, IdOf, MaxInFlight, MaxQueued
<1>3. ASSUME NEW d \in Decisions, Polled(d)
      PROVE  CallInv'
  BY <1>3, TryAcquireKeeps, EnqueueKeeps, JoinLineKeeps, AdmitKeeps, RejectKeeps, RunKeeps,
     ReturnKeeps DEF Polled
<1>4. QED
  BY <1>1, <1>2, <1>3, SubmitKeeps, DropKeeps DEF Next, vars, Deliveries, Delivery

\* The counts are the cardinalities that the properties name.
LEMMA CallInvImplies == CallInv => AdmissionExact
<1> SUFFICES ASSUME CallInv
             PROVE  AdmissionExact
  OBVIOUS
<1>1. Cardinality(Holders) = CountIn(Decisions, phase, Holding)
  BY DEF Holders, Holding, CountIn
<1>2. {d \in Decisions : phase[d] = "waiting"} = {d \in Decisions : phase[d] \in {"waiting"}}
  OBVIOUS
<1>3. QED
  BY <1>1, <1>2 DEF CallInv, AdmissionExact, PermitsConserved, QueueWithinBound, BooksOK, CountIn

\* Admission's books are exact for every number of calls, permits and places:
\* no permit is lost or made, none idles beside a call in line, the queue's
\* count is the waiting calls and never above max_queued, and one call at most
\* is live under an id, however arrivals, grants, expiries, cancellations,
\* failures and drops interleave (admit, run and the guards of lib.rs).
THEOREM AdmissionStaysExact == Spec => []AdmissionExact
<1>1. Spec => []CallInv
  BY CallInit, CallStep, PTL DEF Spec
<1>2. QED
  BY <1>1, CallInvImplies, PTL

-----------------------------------------------------------------------------
(* Delivery keeps its invariant.                                           *)

\* What the state of delivery does in one step of the composition.
SinkStep ==
    \/ UNCHANGED sinkVars
    \/ \E d \in Decisions : Deliver(d) \/ DropDelivery(d) \/ Delivering(d)
    \/ Worker \/ Stop

\* Every step of a call either leaves delivery alone or is one of its steps.
LEMMA NextIsSinkStep == [Next]_vars => SinkStep
<1> SUFFICES ASSUME [Next]_vars
             PROVE  SinkStep
  OBVIOUS
<1>1. ASSUME NEW d \in Decisions, Submit(d) \/ Expire(d) \/ Cancel(d)
      PROVE  UNCHANGED sinkVars
  BY <1>1 DEF Submit, Expire, Cancel
<1>2. ASSUME NEW d \in Decisions, Polled(d)
      PROVE  Deliver(d) \/ UNCHANGED sinkVars
  BY <1>2 DEF Polled, TryAcquire, Enqueue, JoinLine, Admit, LateGrant, LeaveLine, RunEnds,
              RunFails, WritesEntry, Returns
<1>3. ASSUME NEW d \in Decisions, Drop(d)
      PROVE  DropDelivery(d) \/ UNCHANGED sinkVars
  BY <1>3 DEF Drop, DropWaiting, DropRunning, DropWriting
<1>4. UNCHANGED vars => UNCHANGED sinkVars
  BY DEF vars
<1>5. QED
  BY <1>1, <1>2, <1>3, <1>4 DEF Next, SinkStep, Deliveries, Delivery

\* The counters.
Stats == [acknowledged : Nat, failed : Nat, timed_out : Nat, dropped : Nat,
          queued : Nat, in_delivery : Nat]

\* Changes of the counters, by field.
LEMMA CountedFields ==
    ASSUME NEW s \in Stats, NEW r
    PROVE  /\ Counted(s, r) \in Stats
           /\ Counted(s, r).acknowledged = s.acknowledged + In(r, {"acknowledged"})
           /\ r \in Endings =>
                Counted(s, r).failed = s.failed + In(r, {"error", "panic", "timeout"})
           /\ Counted(s, r).timed_out = s.timed_out + In(r, {"timeout"})
           /\ Counted(s, r).dropped = s.dropped
           /\ Counted(s, r).queued = s.queued
           /\ Counted(s, r).in_delivery = s.in_delivery
<1> DEFINE a == s.acknowledged + (IF r = "acknowledged" THEN 1 ELSE 0)
           f == s.failed + (IF r = "acknowledged" THEN 0 ELSE 1)
           t == s.timed_out + (IF r = "timeout" THEN 1 ELSE 0)
<1>1. a \in Nat /\ f \in Nat /\ t \in Nat
  BY DEF Stats
<1>2. Counted(s, r) = [s EXCEPT !.acknowledged = a, !.failed = f, !.timed_out = t]
  BY DEF Counted, Stats
<1>3. /\ a = s.acknowledged + In(r, {"acknowledged"})
      /\ r \in Endings => f = s.failed + In(r, {"error", "panic", "timeout"})
      /\ t = s.timed_out + In(r, {"timeout"})
  BY DEF In, Endings, Answers, Stats
<1> HIDE DEF a, f, t
<1>4. QED
  BY <1>1, <1>2, <1>3 DEF Stats

\* The record not sent, and the record given to the sink.
LEMMA TwoFields ==
    ASSUME NEW s \in Stats, s.queued - 1 \in Nat
    PROVE  /\ [s EXCEPT !.queued = @ - 1, !.dropped = @ + 1] \in Stats
           /\ [s EXCEPT !.queued = @ - 1, !.in_delivery = @ + 1] \in Stats
<1> DEFINE q == s.queued - 1
           d == s.dropped + 1
           i == s.in_delivery + 1
<1>1. q \in Nat /\ d \in Nat /\ i \in Nat
  BY DEF Stats
<1>2. /\ [s EXCEPT !.queued = @ - 1, !.dropped = @ + 1] = [s EXCEPT !.queued = q, !.dropped = d]
      /\ [s EXCEPT !.queued = @ - 1, !.in_delivery = @ + 1]
           = [s EXCEPT !.queued = q, !.in_delivery = i]
  BY DEF Stats
<1> HIDE DEF q, d, i
<1>3. QED
  BY <1>1, <1>2 DEF Stats

\* A count over the decisions is a natural number.
LEMMA CountType == \A f, P : CountIn(Decisions, f, P) \in Nat
  BY SinkAssumption, FS_Subset, FS_CardinalityType DEF CountIn

\* Every step of delivery keeps the types; no counter is taken below zero.
LEMMA SinkTypes == SinkInv /\ SinkStep => SinkTypeOK'
<1> SUFFICES ASSUME SinkInv, SinkStep
             PROVE  SinkTypeOK'
  OBVIOUS
<1>1. SinkTypeOK /\ GaugesOK /\ WorkerOK /\ stats \in Stats
  BY DEF SinkInv, SinkTypeOK, Stats
<1> DEFINE due == CountIn(Decisions, dpc, Due)
<1>2. due \in Nat /\ Len(queue) \in Nat
  BY <1>1, CountType, LenProperties DEF SinkTypeOK
<1>3. CASE UNCHANGED sinkVars
  BY <1>1, <1>3 DEF sinkVars, SinkTypeOK
<1>4. ASSUME NEW d \in Decisions, Deliver(d)
      PROVE  SinkTypeOK'
  <2>1. stats' \in Stats
    BY <1>1, <1>4 DEF Deliver, Stats
  <2>2. handed' \in [Decisions -> Nat]
    <3>1. handed' = handed \/ handed' = [handed EXCEPT ![d] = @ + 1]
      BY <1>4 DEF Deliver
    <3>2. QED
      BY <1>1, <3>1 DEF SinkTypeOK
  <2>3. dpc' \in [Decisions -> {"idle", "inline", "reserve", "reserved", "try", "full",
                                "closed", "done"}]
    <3>1. \E q \in {"inline", "reserve", "try"} : dpc' = [dpc EXCEPT ![d] = q]
      BY <1>4 DEF Deliver
    <3>2. QED
      BY <1>1, <3>1 DEF SinkTypeOK
  <2>4. UNCHANGED <<policy, outcome, ticket, queue, worker, received>>
    BY <1>4 DEF Deliver
  <2>5. QED
    BY <1>1, <2>1, <2>2, <2>3, <2>4 DEF SinkTypeOK, Stats
<1>5. ASSUME NEW d \in Decisions, DropDelivery(d)
      PROVE  SinkTypeOK'
  BY <1>1, <1>5 DEF DropDelivery, Keeps, Return, SinkTypeOK, Results
<1>6. ASSUME NEW d \in Decisions, NEW r \in Endings, InlineEnds(d, r)
      PROVE  SinkTypeOK'
  <2>1. stats' \in Stats
    BY <1>1, <1>6, CountedFields DEF InlineEnds
  <2>2. QED
    BY <1>1, <1>6, <2>1 DEF InlineEnds, Keeps, Return, SinkTypeOK, Results, Stats
<1>7. ASSUME NEW d \in Decisions,
             Reserve(d) \/ ReserveExpired(d) \/ ReserveStopped(d)
      PROVE  SinkTypeOK'
  <2>1. stats' \in Stats
    BY <1>1, <1>7 DEF Reserve, ReserveExpired, ReserveStopped, Stats
  <2>2. QED
    BY <1>1, <1>7, <2>1, ZenonT(60) DEF Reserve, ReserveExpired, ReserveStopped, Return, SinkTypeOK, Results,
                            Stats
<1>8. ASSUME NEW d \in Decisions, Send(d) \/ TrySend(d)
      PROVE  SinkTypeOK'
  <2>1. Append(queue, d) \in Seq(Decisions)
    BY <1>1, AppendProperties DEF SinkTypeOK
  <2>2. QED
    BY <1>1, <1>8, <2>1 DEF Send, TrySend, Return, SinkTypeOK, Results
<1>9. ASSUME NEW d \in Decisions, Uncount(d)
      PROVE  SinkTypeOK'
  <2>1. due >= 1
    <3>1. d \in {x \in Decisions : dpc[x] \in Due}
      BY <1>9 DEF Uncount, Due
    <3>2. QED
      BY <1>2, <3>1, SinkAssumption, FS_Subset, FS_EmptySet DEF CountIn
  <2>2. stats.queued - 1 \in Nat
    BY <1>1, <1>2, <2>1 DEF GaugesOK, SinkTypeOK
  <2>3. QED
    <3>1. [stats EXCEPT !.queued = @ - 1] \in Stats
      BY <1>1, <2>2 DEF Stats
    <3>2. stats' \in Stats
      BY <1>1, <1>9, <2>2, <3>1, TwoFields DEF Uncount
    <3>3. QED
      BY <1>1, <1>9, <3>2 DEF Uncount, Return, SinkTypeOK, Results, Stats
<1>10. CASE Take
  BY <1>1, <1>10, HeadTailProperties DEF Take, SinkTypeOK
<1>11. CASE Begin
  <2>1. stats.queued - 1 \in Nat
    BY <1>1, <1>2, <1>11 DEF GaugesOK, SinkTypeOK, Begin
  <2>2. QED
    <3>1. stats' \in Stats
      BY <1>1, <1>11, <2>1, TwoFields DEF Begin
    <3>2. handed' \in [Decisions -> Nat]
      BY <1>1, <1>11 DEF Begin, SinkTypeOK, WorkerOK
    <3>3. worker' \in [at : {"recv", "taken", "deliver", "answered", "stopped"},
                       job : Decisions \cup {NoJob}, result : Endings \cup {"none"}]
      BY <1>1, <1>11 DEF Begin, SinkTypeOK
    <3>4. UNCHANGED <<policy, dpc, outcome, ticket, queue, received>>
      BY <1>11 DEF Begin
    <3>5. QED
      BY <1>1, <3>1, <3>2, <3>3, <3>4 DEF SinkTypeOK, Stats
<1>12. ASSUME NEW r \in Endings, WorkerEnds(r)
       PROVE  SinkTypeOK'
  <2>1. stats' \in Stats
    BY <1>1, <1>12, CountedFields DEF WorkerEnds
  <2>2. QED
    BY <1>1, <1>12, <2>1 DEF WorkerEnds, Keeps, SinkTypeOK, WorkerOK, Stats
<1>13. CASE Resolve
  <2>1. stats.in_delivery - 1 \in Nat
    BY <1>1, <1>13 DEF GaugesOK, Resolve, Closed
  <2>2. QED
    BY <1>1, <1>13, <2>1 DEF Resolve, SinkTypeOK, WorkerOK
<1>14. CASE Stop
  BY <1>1, <1>14, EmptySeq DEF Stop, SinkTypeOK, WorkerOK
<1>15. QED
  BY <1>3, <1>4, <1>5, <1>6, <1>7, <1>8, <1>9, <1>10, <1>11, <1>12, <1>13, <1>14
     DEF SinkStep, Delivering, Worker, InlineAnswered, InlineTimeout, WorkerAnswered,
         WorkerTimeout, Endings

\* What the channel holds after a record goes in or the oldest comes out.
LEMMA QueueMembers ==
    ASSUME SinkInv
    PROVE  /\ Queued = Members(queue) /\ Queued \subseteq Decisions /\ Distinct(queue)
           /\ \A d \in Decisions : dpc[d] # "done" => d \notin Queued /\ outcome[d] = "none"
           /\ \A d \in Decisions : d \notin Queued /\ queue' = Append(queue, d) =>
                Queued' = Queued \cup {d} /\ Distinct(queue') /\ Len(queue') = Len(queue) + 1
           /\ queue # <<>> /\ queue' = Tail(queue) =>
                /\ Queued' = Queued \ {Head(queue)} /\ Distinct(queue')
                /\ Head(queue) \in Queued /\ Len(queue') = Len(queue) - 1
           /\ queue' = queue => Queued' = Queued /\ Distinct(queue')
           /\ queue' = <<>> => Queued' = {} /\ Distinct(queue')
<1>1. SinkTypeOK /\ RecordsOK /\ queue \in Seq(Decisions)
  BY DEF SinkInv, SinkTypeOK
<1>2. Queued = Members(queue) /\ Queued \subseteq Decisions /\ Distinct(queue)
  BY <1>1, ElementOfSeq DEF Queued, Members, RecordsOK
<1>3. Queued' = Members(queue')
  BY DEF Queued, Members
<1>4. \A d \in Decisions : dpc[d] # "done" => d \notin Queued /\ outcome[d] = "none"
  BY <1>1 DEF RecordsOK
<1>5. \A d \in Decisions : d \notin Queued /\ queue' = Append(queue, d) =>
         Queued' = Queued \cup {d} /\ Distinct(queue') /\ Len(queue') = Len(queue) + 1
  BY <1>1, <1>2, <1>3, AppendMembers
<1>6. queue # <<>> /\ queue' = Tail(queue) =>
         /\ Queued' = Queued \ {Head(queue)} /\ Distinct(queue')
         /\ Head(queue) \in Queued /\ Len(queue') = Len(queue) - 1
  BY <1>1, <1>2, <1>3, TailMembers
<1>7. queue' = <<>> => Queued' = {} /\ Distinct(queue')
  BY <1>3, EmptySeq DEF Members, Distinct
<1>8. QED
  BY <1>2, <1>3, <1>4, <1>5, <1>6, <1>7

\* deliver returns r, which is not a ticket, to d; the sink may hold d's record.
Returned(d, r) ==
    /\ dpc[d] # "done" /\ r # "queued"
    /\ dpc' = [dpc EXCEPT ![d] = "done"] /\ outcome' = [outcome EXCEPT ![d] = r]
    /\ UNCHANGED <<ticket, queue, worker, handed>>
    /\ received' = received \/ (dpc[d] = "inline" /\ received' = received \cup {d})
    /\ r = "acknowledged" => d \in received'
    /\ r \in {"error", "no_slot", "stopped", "dropped"} => received' = received

\* The record of d goes into the channel.
Entered(d) ==
    /\ dpc[d] \in {"reserved", "try"}
    /\ dpc' = [dpc EXCEPT ![d] = "done"] /\ outcome' = [outcome EXCEPT ![d] = "queued"]
    /\ ticket' = [ticket EXCEPT ![d] = "pending"] /\ queue' = Append(queue, d)
    /\ UNCHANGED <<worker, handed, received>>

\* d moves inside deliver and nothing is known to it or to the sink.
Moved(d, q) ==
    /\ dpc[d] \notin {"inline", "done"}
    /\ dpc' = [dpc EXCEPT ![d] = q]
    /\ UNCHANGED <<outcome, ticket, queue, worker, received>>
    /\ \/ handed' = handed
       \/ dpc[d] = "idle" /\ q = "inline" /\ handed' = [handed EXCEPT ![d] = @ + 1]

\* What is known about each record after a step of its decision.
LEMMA DecisionSteps ==
    ASSUME SinkInv, NEW d \in Decisions
    PROVE  /\ Deliver(d) => \E q \in {"inline", "reserve", "try"} : Moved(d, q)
           /\ Reserve(d) => Moved(d, "reserved")
           /\ TrySend(d) => Entered(d) \/ Moved(d, "full") \/ Moved(d, "closed")
           /\ Send(d) => Entered(d)
           /\ DropDelivery(d) => Returned(d, "gone")
           /\ ReserveExpired(d) => Returned(d, "no_slot")
           /\ ReserveStopped(d) => Returned(d, "stopped")
           /\ Uncount(d) => Returned(d, "dropped") \/ Returned(d, "stopped")
           /\ \A r \in Endings : InlineEnds(d, r) => Returned(d, r)
<1>1. Deliver(d) => \E q \in {"inline", "reserve", "try"} : Moved(d, q)
  BY DEF Deliver, Moved
<1>2. Reserve(d) => Moved(d, "reserved")
  BY DEF Reserve, Moved
<1>3. TrySend(d) => Entered(d) \/ Moved(d, "full") \/ Moved(d, "closed")
  BY DEF TrySend, Entered, Moved, Return
<1>4. Send(d) => Entered(d)
  BY DEF Send, Entered, Return
<1>5. DropDelivery(d) => Returned(d, "gone")
  BY DEF DropDelivery, Keeps, Returned, Return
<1>6. ReserveExpired(d) => Returned(d, "no_slot")
  BY DEF ReserveExpired, Returned, Return
<1>7. ReserveStopped(d) => Returned(d, "stopped")
  BY DEF ReserveStopped, Returned, Return
<1>8. Uncount(d) => Returned(d, "dropped") \/ Returned(d, "stopped")
  BY DEF Uncount, Returned, Return
<1>9. \A r \in Endings : InlineEnds(d, r) => Returned(d, r)
  BY DEF InlineEnds, Keeps, Returned, Return, Endings, Answers
<1>10. QED
  BY <1>1, <1>2, <1>3, <1>4, <1>5, <1>6, <1>7, <1>8, <1>9

\* A step of one decision leaves every record where the worker and the channel
\* expect it.
LEMMA DecisionRecords ==
    ASSUME SinkInv, NEW d \in Decisions
    PROVE  /\ \A r : Returned(d, r) => RecordsOK' /\ WorkerOK'
           /\ Entered(d) => RecordsOK' /\ WorkerOK'
           /\ \A q \in {"inline", "reserve", "reserved", "try", "full", "closed"} :
                Moved(d, q) => RecordsOK' /\ WorkerOK'
<1>1. SinkTypeOK /\ RecordsOK /\ WorkerOK
  BY DEF SinkInv
<1>2. worker.at \in {"taken", "deliver", "answered"} /\ dpc[d] # "done" => worker.job # d
  BY <1>1 DEF RecordsOK, WorkerOK
<1>3. ASSUME NEW r, Returned(d, r)
      PROVE  RecordsOK' /\ WorkerOK'
  <2>1. /\ Queued' = Queued /\ Distinct(queue') /\ d \notin Queued /\ outcome[d] = "none"
        /\ Queued \subseteq Decisions
    BY <1>3, QueueMembers DEF Returned
  <2>2. /\ dpc'[d] = "done" /\ outcome'[d] = r /\ r # "queued"
        /\ \A x \in Decisions \ {d} : /\ dpc'[x] = dpc[x] /\ outcome'[x] = outcome[x]
                                      /\ x \in received' <=> x \in received
        /\ ticket' = ticket /\ handed' = handed /\ worker' = worker
    BY <1>1, <1>3 DEF Returned, SinkTypeOK
  <2>3. RecordsOK'
    BY <1>1, <2>1, <2>2 DEF RecordsOK
  <2>4. WorkerOK'
    BY <1>1, <1>2, <1>3, <2>1, <2>2 DEF WorkerOK, Returned
  <2>5. QED
    BY <2>3, <2>4
<1>4. ASSUME Entered(d)
      PROVE  RecordsOK' /\ WorkerOK'
  <2>1. /\ Queued' = Queued \cup {d} /\ Distinct(queue') /\ d \notin Queued
        /\ Queued \subseteq Decisions
    BY <1>4, QueueMembers DEF Entered
  <2>2. /\ dpc'[d] = "done" /\ outcome'[d] = "queued" /\ ticket'[d] = "pending"
        /\ \A x \in Decisions \ {d} : /\ dpc'[x] = dpc[x] /\ outcome'[x] = outcome[x]
                                      /\ ticket'[x] = ticket[x]
        /\ received' = received /\ handed' = handed /\ worker' = worker
        /\ dpc[d] \notin {"inline", "done"}
    BY <1>1, <1>4 DEF Entered, SinkTypeOK
  <2>3. RecordsOK'
    BY <1>1, <2>1, <2>2 DEF RecordsOK
  <2>4. WorkerOK'
    BY <1>1, <1>2, <2>1, <2>2 DEF WorkerOK
  <2>5. QED
    BY <2>3, <2>4
<1>5. ASSUME NEW q \in {"inline", "reserve", "reserved", "try", "full", "closed"}, Moved(d, q)
      PROVE  RecordsOK' /\ WorkerOK'
  <2>1. /\ Queued' = Queued /\ Distinct(queue') /\ d \notin Queued
        /\ Queued \subseteq Decisions
    BY <1>5, QueueMembers DEF Moved
  <2>2. /\ dpc'[d] = q /\ dpc[d] # "done"
        /\ \A x \in Decisions \ {d} : dpc'[x] = dpc[x] /\ handed'[x] = handed[x]
        /\ UNCHANGED <<outcome, ticket, queue, worker, received>>
    BY <1>1, <1>5 DEF Moved, SinkTypeOK
  <2>3. q # "inline" => handed'[d] = 0
    BY <1>1, <1>5 DEF Moved, SinkTypeOK, RecordsOK
  <2>4. RecordsOK'
    BY <1>1, <2>1, <2>2, <2>3 DEF RecordsOK
  <2>5. WorkerOK'
    BY <1>1, <1>2, <2>1, <2>2 DEF WorkerOK
  <2>6. QED
    BY <2>4, <2>5
<1>6. QED
  BY <1>3, <1>4, <1>5

\* A step of the worker, or its end, leaves every record where it should be.
LEMMA WorkerRecords ==
    ASSUME SinkInv, Worker \/ Stop
    PROVE  RecordsOK' /\ WorkerOK'
<1>1. SinkTypeOK /\ RecordsOK /\ WorkerOK
  BY DEF SinkInv
<1>2. CASE Take
  <2>1. /\ Queued' = Queued \ {Head(queue)} /\ Distinct(queue') /\ Head(queue) \in Queued
        /\ Queued \subseteq Decisions
    BY <1>2, QueueMembers DEF Take
  <2>2. /\ UNCHANGED <<dpc, outcome, ticket, handed, received>>
        /\ worker'.at = "taken" /\ worker'.job = Head(queue)
    BY <1>1, <1>2 DEF Take, SinkTypeOK
  <2>3. QED
    BY <1>1, <2>1, <2>2 DEF RecordsOK, WorkerOK
<1>3. CASE Begin
  <2>1. Queued' = Queued /\ Distinct(queue') /\ Queued \subseteq Decisions
    BY <1>3, QueueMembers DEF Begin
  <2>2. /\ UNCHANGED <<dpc, outcome, ticket, received>> /\ worker.at = "taken"
        /\ worker'.at = "deliver" /\ worker'.job = worker.job /\ worker.job \in Decisions
        /\ \A x \in Decisions \ {worker.job} : handed'[x] = handed[x]
    BY <1>1, <1>3 DEF Begin, SinkTypeOK, WorkerOK
  <2>3. dpc[worker.job] = "done" /\ worker.job \notin Queued
    BY <1>1, <2>2 DEF RecordsOK, WorkerOK
  <2>4. RecordsOK'
    BY <1>1, <2>1, <2>2, <2>3 DEF RecordsOK
  <2>5. WorkerOK'
    BY <1>1, <2>1, <2>2 DEF WorkerOK
  <2>6. QED
    BY <2>4, <2>5
<1>4. ASSUME NEW r \in Endings, WorkerEnds(r)
      PROVE  RecordsOK' /\ WorkerOK'
  <2>1. Queued' = Queued /\ Distinct(queue') /\ Queued \subseteq Decisions
    BY <1>4, QueueMembers DEF WorkerEnds
  <2>2. /\ UNCHANGED <<dpc, outcome, ticket, handed>> /\ worker.at = "deliver"
        /\ worker'.at = "answered" /\ worker'.job = worker.job /\ worker'.result = r
        /\ worker.job \in Decisions \ Queued
    BY <1>1, <1>4 DEF WorkerEnds, SinkTypeOK, WorkerOK
  <2>3. /\ \A x \in Decisions \ {worker.job} : x \in received' <=> x \in received
        /\ r = "acknowledged" => worker.job \in received'
        /\ r = "error" => worker.job \notin received'
    BY <1>1, <1>4 DEF WorkerEnds, Keeps, WorkerOK
  <2>4. dpc[worker.job] = "done"
    BY <1>1, <2>2 DEF RecordsOK, WorkerOK
  <2>5. RecordsOK'
    BY <1>1, <2>1, <2>2, <2>3, <2>4 DEF RecordsOK
  <2>6. WorkerOK'
    BY <1>1, <1>4, <2>1, <2>2, <2>3 DEF WorkerOK
  <2>7. QED
    BY <2>5, <2>6
<1>5. CASE Resolve
  <2>1. Queued' = Queued /\ Distinct(queue') /\ Queued \subseteq Decisions
    BY <1>5, QueueMembers DEF Resolve
  <2>2. /\ UNCHANGED <<dpc, outcome, handed, received>> /\ worker.at = "answered"
        /\ worker'.at = "recv" /\ worker'.job = NoJob
        /\ \A x \in Decisions \ {worker.job} : ticket'[x] = ticket[x]
    BY <1>1, <1>5 DEF Resolve, SinkTypeOK
  <2>3. worker.job \in Decisions \ Queued /\ outcome[worker.job] = "queued"
    BY <1>1, <2>2 DEF WorkerOK
  <2>4. RecordsOK'
    BY <1>1, <2>1, <2>2, <2>3 DEF RecordsOK
  <2>5. WorkerOK'
    BY <2>2 DEF WorkerOK
  <2>6. QED
    BY <2>4, <2>5
<1>6. CASE Stop
  <2>1. Queued' = {} /\ Distinct(queue') /\ Queued \subseteq Decisions
    BY <1>6, QueueMembers DEF Stop
  <2>2. /\ UNCHANGED <<dpc, outcome, handed>> /\ worker.at \in {"recv", "deliver"}
        /\ worker'.at = "stopped"
        /\ \A x \in Decisions :
             ticket'[x] = IF x \in Queued \/ x = worker.job THEN "lost" ELSE ticket[x]
    BY <1>1, <1>6 DEF Stop, SinkTypeOK
  <2>3. \A x \in Decisions : x \in Queued \/ x = worker.job => outcome[x] = "queued"
    BY <1>1, <2>2, SinkAssumption DEF RecordsOK, WorkerOK
  <2>4. \A x \in Decisions : dpc[x] # "done" => (x \in received' <=> x \in received)
    BY <1>1, <1>6, <2>3 DEF Stop, RecordsOK
  <2>5. RecordsOK'
    BY <1>1, <2>1, <2>2, <2>3, <2>4 DEF RecordsOK
  <2>6. WorkerOK'
    BY <2>2 DEF WorkerOK
  <2>7. QED
    BY <2>5, <2>6
<1>7. QED
  BY <1>2, <1>3, <1>4, <1>5, <1>6 DEF Worker, WorkerAnswered, WorkerTimeout, Endings

\* Records and worker stay as they should in every step.
LEMMA RecordsStep == SinkInv /\ SinkStep => RecordsOK' /\ WorkerOK'
<1> SUFFICES ASSUME SinkInv, SinkStep
             PROVE  RecordsOK' /\ WorkerOK'
  OBVIOUS
<1>1. CASE UNCHANGED sinkVars
  <2>1. Queued' = Queued /\ Distinct(queue')
    BY <1>1, QueueMembers DEF sinkVars
  <2>2. QED
    BY <1>1, <2>1 DEF sinkVars, SinkInv, RecordsOK, WorkerOK
<1>2. ASSUME NEW d \in Decisions, Deliver(d) \/ DropDelivery(d) \/ Delivering(d)
      PROVE  RecordsOK' /\ WorkerOK'
  <2>1. ASSUME NEW r \in Endings, InlineEnds(d, r)
        PROVE  RecordsOK' /\ WorkerOK'
    BY <2>1, DecisionSteps, DecisionRecords
  <2>2. CASE Deliver(d)
    BY <2>2, DecisionSteps, DecisionRecords
  <2>3. CASE DropDelivery(d) \/ ReserveExpired(d) \/ ReserveStopped(d) \/ Uncount(d)
    BY <2>3, DecisionSteps, DecisionRecords
  <2>4. CASE Reserve(d) \/ Send(d) \/ TrySend(d)
    BY <2>4, DecisionSteps, DecisionRecords
  <2>5. QED
    BY <1>2, <2>1, <2>2, <2>3, <2>4 DEF Delivering, InlineAnswered, InlineTimeout, Endings
<1>3. QED
  BY <1>1, <1>2, WorkerRecords DEF SinkStep

\* VerdictHonest, about one record.
Honest(d) ==
    /\ handed[d] <= 1
    /\ Verdict(d) = "acknowledged" => d \in received
    /\ Verdict(d) \notin {"none", "pending", "acknowledged", "gone", "panic", "timeout", "lost"}
         => d \notin received

\* VerdictHonest is Honest of every record.
LEMMA HonestAll == VerdictHonest <=> \A d \in Decisions : Honest(d)
  BY DEF VerdictHonest, Honest, Uncertain

\* A step that does not touch a record leaves its caller's word true.
LEMMA SameWord ==
    ASSUME VerdictHonest, NEW d \in Decisions,
           outcome'[d] = outcome[d], ticket'[d] = ticket[d], handed'[d] = handed[d],
           d \in received' <=> d \in received
    PROVE  Honest(d)'
  BY HonestAll DEF Honest, Verdict

\* Callers are told the truth after every step.
LEMMA HonestStep == SinkInv /\ SinkStep => VerdictHonest'
<1> SUFFICES ASSUME SinkInv, SinkStep, NEW x \in Decisions
             PROVE  Honest(x)'
  BY DEF VerdictHonest, Honest, Uncertain
<1>1. SinkTypeOK /\ RecordsOK /\ WorkerOK /\ VerdictHonest /\ Honest(x)
  BY HonestAll DEF SinkInv
<1>2. CASE UNCHANGED sinkVars
  BY <1>1, <1>2, SameWord DEF sinkVars
<1>3. ASSUME NEW d \in Decisions,
             NEW r \in Endings \cup {"gone", "no_slot", "stopped", "dropped"}, Returned(d, r)
      PROVE  Honest(x)'
  <2>1. CASE x # d
    BY <1>1, <1>3, <2>1, SameWord DEF Returned, SinkTypeOK
  <2>2. CASE x = d
    <3>1. outcome'[x] = r /\ r # "queued" /\ handed' = handed /\ x \notin received
      BY <1>1, <1>3, <2>2 DEF Returned, SinkTypeOK, RecordsOK
    <3>2. Verdict(x)' = r
      BY <3>1 DEF Verdict
    <3>3. QED
      BY <1>1, <1>3, <2>2, <3>1, <3>2 DEF Honest, Returned, Endings, Answers
  <2>3. QED
    BY <2>1, <2>2
<1>4. ASSUME NEW d \in Decisions, Entered(d)
      PROVE  Honest(x)'
  <2>1. CASE x # d
    BY <1>1, <1>4, <2>1, SameWord DEF Entered, SinkTypeOK
  <2>2. CASE x = d
    <3>1. Verdict(x)' = "pending" /\ handed' = handed
      BY <1>1, <1>4, <2>2 DEF Entered, Verdict, SinkTypeOK
    <3>2. QED
      BY <1>1, <3>1 DEF Honest
  <2>3. QED
    BY <2>1, <2>2
<1>5. ASSUME NEW d \in Decisions, NEW q, Moved(d, q)
      PROVE  Honest(x)'
  <2>1. CASE x # d
    BY <1>1, <1>5, <2>1, SameWord DEF Moved, SinkTypeOK
  <2>2. CASE x = d
    <3>1. handed[x] = 0 /\ handed'[x] <= 1 /\ Verdict(x)' = Verdict(x) /\ received' = received
      BY <1>1, <1>5, <2>2 DEF Moved, Verdict, SinkTypeOK, RecordsOK
    <3>2. QED
      BY <1>1, <3>1 DEF Honest
  <2>3. QED
    BY <2>1, <2>2
<1>6. CASE Take
  BY <1>1, <1>6, SameWord DEF Take
<1>7. CASE Begin
  <2>1. CASE x # worker.job
    BY <1>1, <1>7, <2>1, SameWord DEF Begin, SinkTypeOK
  <2>2. CASE x = worker.job
    <3>1. handed'[x] <= 1 /\ Verdict(x)' = Verdict(x) /\ received' = received
      BY <1>1, <1>7, <2>2 DEF Begin, Verdict, SinkTypeOK, WorkerOK
    <3>2. QED
      BY <1>1, <3>1 DEF Honest
  <2>3. QED
    BY <2>1, <2>2
<1>8. ASSUME NEW r \in Endings, WorkerEnds(r)
      PROVE  Honest(x)'
  <2>1. CASE x # worker.job
    BY <1>1, <1>8, <2>1, SameWord DEF WorkerEnds, Keeps
  <2>2. CASE x = worker.job
    <3>1. handed'[x] = handed[x] /\ Verdict(x)' = "pending"
      BY <1>1, <1>8, <2>2 DEF WorkerEnds, Verdict, WorkerOK
    <3>2. QED
      BY <1>1, <3>1 DEF Honest
  <2>3. QED
    BY <2>1, <2>2
<1>9. CASE Resolve
  <2>1. CASE x # worker.job
    BY <1>1, <1>9, <2>1, SameWord DEF Resolve, SinkTypeOK
  <2>2. CASE x = worker.job
    <3>1. handed'[x] = handed[x] /\ Verdict(x)' = worker.result /\ received' = received
      BY <1>1, <1>9, <2>2 DEF Resolve, Verdict, WorkerOK, SinkTypeOK
    <3>2. /\ worker.result \in Endings
          /\ worker.result = "acknowledged" => x \in received
          /\ worker.result = "error" => x \notin received
      BY <1>1, <1>9, <2>2 DEF Resolve, WorkerOK
    <3>3. QED
      BY <1>1, <3>1, <3>2 DEF Honest, Endings, Answers
  <2>3. QED
    BY <2>1, <2>2
<1>10. CASE Stop
  <2>1. CASE x \notin Queued /\ x # worker.job
    BY <1>1, <1>10, <2>1, SameWord DEF Stop
  <2>2. CASE x \in Queued \/ x = worker.job
    <3>1. worker.at \in {"recv", "deliver"}
      BY <1>10 DEF Stop
    <3>2. outcome[x] = "queued"
      BY <1>1, <2>2, <3>1, SinkAssumption DEF RecordsOK, WorkerOK
    <3>3. handed'[x] = handed[x] /\ Verdict(x)' = "lost"
      BY <1>10, <2>2, <3>2 DEF Stop, Verdict
    <3>4. QED
      BY <1>1, <3>3 DEF Honest
  <2>3. QED
    BY <2>1, <2>2
<1>11. ASSUME NEW d \in Decisions, Deliver(d) \/ DropDelivery(d) \/ Delivering(d)
       PROVE  Honest(x)'
  <2>1. ASSUME NEW r \in Endings, InlineEnds(d, r)
        PROVE  Honest(x)'
    BY <1>3, <2>1, DecisionSteps
  <2>2. CASE Deliver(d)
    BY <1>5, <2>2, DecisionSteps
  <2>3. CASE DropDelivery(d) \/ ReserveExpired(d) \/ ReserveStopped(d) \/ Uncount(d)
    BY <1>3, <2>3, DecisionSteps
  <2>4. CASE Reserve(d) \/ Send(d) \/ TrySend(d)
    BY <1>4, <1>5, <2>4, DecisionSteps
  <2>5. QED
    BY <1>11, <2>1, <2>2, <2>3, <2>4 DEF Delivering, InlineAnswered, InlineTimeout, Endings
<1>12. QED
  BY <1>2, <1>6, <1>7, <1>8, <1>9, <1>10, <1>11
     DEF SinkStep, Worker, WorkerAnswered, WorkerTimeout, Endings

\* The slots in use, as a count.
LEMMA SlotsCount ==
    /\ Cardinality(Reservations) = CountIn(Decisions, dpc, {"reserved"})
    /\ Cardinality(Reservations)' = CountIn(Decisions, dpc', {"reserved"})
<1>1. ASSUME NEW f
      PROVE  {d \in Decisions : f[d] = "reserved"} = {d \in Decisions : f[d] \in {"reserved"}}
  OBVIOUS
<1>2. QED
  BY <1>1 DEF Reservations, CountIn

\* d goes on to q in deliver, and the gauge and the n slots it takes go with it.
GaugeStep(d, q, n) ==
    /\ dpc' = [dpc EXCEPT ![d] = q] /\ worker' = worker
    /\ stats'.queued + Len(queue) + In(dpc[d], Due) = stats.queued + Len(queue') + In(q, Due)
    /\ stats'.in_delivery = stats.in_delivery
    /\ ~Closed => q # "closed"
    /\ n = 1 => HasSlot
    /\ Len(queue') + In(q, {"reserved"}) <= Len(queue) + In(dpc[d], {"reserved"}) + n

\* The counts of decisions by where they are in deliver.
LEMMA DpcMoves ==
    ASSUME SinkTypeOK, NEW d \in Decisions, NEW q, NEW n, GaugeStep(d, q, n), NEW P
    PROVE  /\ CountIn(Decisions, dpc, P) \in Nat /\ CountIn(Decisions, dpc', P) \in Nat
           /\ CountIn(Decisions, dpc', P) + In(dpc[d], P)
                = CountIn(Decisions, dpc, P) + In(q, P)
<1>1. dpc'[d] = q /\ \A x \in Decisions \ {d} : dpc'[x] = dpc[x]
  BY DEF SinkTypeOK, GaugeStep
<1>2. IsFiniteSet(Decisions) /\ SameBut(Decisions, dpc, dpc', d)
  BY <1>1, SinkAssumption DEF SameBut
<1>3. /\ CountIn(Decisions, dpc, P) \in Nat /\ CountIn(Decisions, dpc', P) \in Nat
      /\ CountIn(Decisions, dpc', P) + In(dpc[d], P)
           = CountIn(Decisions, dpc, P) + In(dpc'[d], P)
  BY <1>2, MoveCount
<1>4. QED
  BY <1>1, <1>3

\* A step of one decision moves the gauge and the slots with it.
LEMMA GaugeMoves ==
    ASSUME SinkInv, SinkTypeOK', NEW d \in Decisions, NEW q, NEW n \in {0, 1},
           GaugeStep(d, q, n)
    PROVE  GaugesOK' /\ QueueBounded'
<1>1. /\ SinkTypeOK /\ GaugesOK /\ QueueBounded /\ MaxPending \in Nat
      /\ Len(queue) \in Nat /\ Len(queue') \in Nat
      /\ stats.queued \in Nat /\ stats'.queued \in Nat
  BY SinkAssumption, LenProperties DEF SinkInv, SinkTypeOK
<1>2. /\ \A x \in Decisions \ {d} : dpc'[x] = dpc[x]
      /\ dpc'[d] = q /\ worker' = worker /\ (~Closed => q # "closed")
      /\ stats'.in_delivery = stats.in_delivery
  BY <1>1 DEF SinkTypeOK, GaugeStep
<1>3. /\ stats'.queued + Len(queue) + In(dpc[d], Due) = stats.queued + Len(queue') + In(q, Due)
      /\ n = 1 => HasSlot
      /\ Len(queue') + In(q, {"reserved"}) <= Len(queue) + In(dpc[d], {"reserved"}) + n
      /\ \A P : In(q, P) \in {0, 1} /\ In(dpc[d], P) \in {0, 1}
  BY DEF In, GaugeStep
<1>4. /\ CountIn(Decisions, dpc, Due) \in Nat /\ CountIn(Decisions, dpc', Due) \in Nat
      /\ CountIn(Decisions, dpc', Due) + In(dpc[d], Due)
           = CountIn(Decisions, dpc, Due) + In(q, Due)
  BY <1>1, DpcMoves
<1>5. /\ CountIn(Decisions, dpc, {"reserved"}) \in Nat
      /\ CountIn(Decisions, dpc', {"reserved"}) \in Nat
      /\ CountIn(Decisions, dpc', {"reserved"}) + In(dpc[d], {"reserved"})
           = CountIn(Decisions, dpc, {"reserved"}) + In(q, {"reserved"})
  BY <1>1, DpcMoves
<1>6. QueueBounded'
  <2>1. Len(queue) + CountIn(Decisions, dpc, {"reserved"}) + n <= MaxPending
    BY <1>1, <1>3, <1>5, SlotsCount DEF QueueBounded, HasSlot
  <2>2. /\ Len(queue') + In(q, {"reserved"}) <= Len(queue) + In(dpc[d], {"reserved"}) + n
        /\ In(q, {"reserved"}) \in {0, 1} /\ In(dpc[d], {"reserved"}) \in {0, 1}
    BY <1>3
  <2> HIDE DEF CountIn, In
  <2> DEFINE a == CountIn(Decisions, dpc, {"reserved"})
             b == CountIn(Decisions, dpc', {"reserved"})
             x == In(dpc[d], {"reserved"})
             y == In(q, {"reserved"})
             k == Len(queue)
             l == Len(queue')
  <2>3. /\ a \in Nat /\ b \in Nat /\ x \in {0, 1} /\ y \in {0, 1} /\ k \in Nat /\ l \in Nat
        /\ b + x = a + y /\ k + a + n <= MaxPending /\ l + y <= k + x + n
    BY <1>1, <1>5, <2>1, <2>2
  <2> HIDE DEF a, b, x, y, k, l
  <2>4. l + b <= MaxPending
    BY <1>1, <2>3
  <2>5. Len(queue') + CountIn(Decisions, dpc', {"reserved"}) <= MaxPending
    BY <2>4 DEF l, b
  <2>6. QED
    BY <2>5, SlotsCount DEF QueueBounded
<1>7. Closed' <=> Closed
  BY <1>2 DEF Closed
<1> DEFINE w == IF worker.at = "taken" THEN 1 ELSE 0
<1>8. /\ stats.queued >= Len(queue) + CountIn(Decisions, dpc, Due) + w
      /\ ~Closed => stats.queued = Len(queue) + CountIn(Decisions, dpc, Due) + w
      /\ w \in {0, 1}
  BY <1>1 DEF GaugesOK
<1> HIDE DEF w
<1>9. /\ stats'.queued >= Len(queue') + CountIn(Decisions, dpc', Due) + w
      /\ ~Closed => stats'.queued = Len(queue') + CountIn(Decisions, dpc', Due) + w
  <2> DEFINE s == stats.queued
             s2 == stats'.queued
             l == Len(queue)
             l2 == Len(queue')
             c == CountIn(Decisions, dpc, Due)
             c2 == CountIn(Decisions, dpc', Due)
             i == In(dpc[d], Due)
             j == In(q, Due)
  <2>1. /\ s \in Nat /\ s2 \in Nat /\ l \in Nat /\ l2 \in Nat /\ c \in Nat /\ c2 \in Nat
        /\ i \in Nat /\ j \in Nat /\ w \in Nat
        /\ s2 + l + i = s + l2 + j /\ c2 + i = c + j
        /\ s >= l + c + w /\ (~Closed => s = l + c + w)
    BY <1>1, <1>3, <1>4, <1>8
  <2> HIDE DEF s, s2, l, l2, c, c2, i, j
  <2>2. s2 >= l2 + c2 + w /\ (~Closed => s2 = l2 + c2 + w)
    BY <2>1
  <2>3. QED
    BY <2>2 DEF s2, l2, c2
<1>10. ~Closed => \A x \in Decisions : dpc'[x] # "closed"
  BY <1>1, <1>2 DEF GaugesOK
<1>11. ~Closed => stats'.in_delivery = IF worker.at \in {"deliver", "answered"} THEN 1 ELSE 0
  BY <1>1, <1>2 DEF GaugesOK
<1>12. GaugesOK'
  BY <1>2, <1>7, <1>9, <1>10, <1>11 DEF GaugesOK, w
<1>13. QED
  BY <1>6, <1>12

\* The gauges and the slots after a step of a decision.
LEMMA GaugesDecision ==
    ASSUME SinkInv, SinkTypeOK', NEW d \in Decisions,
           Deliver(d) \/ DropDelivery(d) \/ Delivering(d)
    PROVE  GaugesOK' /\ QueueBounded'
<1>1. /\ SinkTypeOK /\ GaugesOK /\ stats \in Stats /\ Len(queue) \in Nat /\ stats.queued \in Nat
      /\ d \notin Queued \/ dpc[d] = "done"
  BY QueueMembers, LenProperties DEF SinkInv, SinkTypeOK, Stats
<1>2. /\ \A x \in {"try", "reserved", "full", "closed"} : In(x, Due) = 1
      /\ \A x \in {"idle", "inline", "reserve", "done"} : In(x, Due) = 0
      /\ \A x \in {"idle", "inline", "reserve", "done", "try", "full", "closed"} :
           In(x, {"reserved"}) = 0
      /\ In("reserved", {"reserved"}) = 1
  BY DEF In, Due
<1>3. CASE Deliver(d)
  <2>1. PICK q \in {"inline", "reserve", "try"} :
          /\ dpc' = [dpc EXCEPT ![d] = q]
          /\ q # "try" => stats' = stats
          /\ q = "try" => stats' = [stats EXCEPT !.queued = @ + 1]
    BY <1>3 DEF Deliver
  <2>2. dpc[d] = "idle" /\ worker' = worker /\ queue' = queue
    BY <1>3 DEF Deliver
  <2>3. stats'.queued = stats.queued + In(q, Due) /\ stats'.in_delivery = stats.in_delivery
    BY <1>1, <1>2, <2>1 DEF Stats
  <2>4. stats'.queued + Len(queue) + In(dpc[d], Due) = stats.queued + Len(queue') + In(q, Due)
    BY <1>1, <1>2, <2>1, <2>2, <2>3
  <2>5. Len(queue') + In(q, {"reserved"}) <= Len(queue) + In(dpc[d], {"reserved"}) + 0
    BY <1>1, <1>2, <2>1, <2>2
  <2>6. GaugeStep(d, q, 0)
    BY <2>1, <2>2, <2>3, <2>4, <2>5 DEF GaugeStep
  <2>7. QED
    BY <2>6, GaugeMoves
<1>4. CASE \/ DropDelivery(d) \/ ReserveExpired(d) \/ ReserveStopped(d)
           \/ \E r \in Endings : InlineEnds(d, r)
  <2>1. /\ dpc[d] \in {"inline", "reserve"} /\ dpc' = [dpc EXCEPT ![d] = "done"]
        /\ UNCHANGED <<worker, queue>>
    BY <1>4 DEF DropDelivery, ReserveExpired, ReserveStopped, InlineEnds, Return
  <2>2. stats'.queued = stats.queued /\ stats'.in_delivery = stats.in_delivery
    BY <1>1, <1>4, CountedFields, SMTT(30)
       DEF DropDelivery, ReserveExpired, ReserveStopped, InlineEnds, Stats
  <2>3. stats'.queued + Len(queue) + In(dpc[d], Due) = stats.queued + Len(queue') + In("done", Due)
    BY <1>1, <1>2, <2>1, <2>2
  <2>4. Len(queue') + In("done", {"reserved"}) <= Len(queue) + In(dpc[d], {"reserved"}) + 0
    BY <1>1, <1>2, <2>1
  <2>5. GaugeStep(d, "done", 0)
    BY <2>1, <2>2, <2>3, <2>4 DEF GaugeStep
  <2>6. QED
    BY <2>5, GaugeMoves
<1>5. CASE Reserve(d)
  <2>1. /\ dpc[d] = "reserve" /\ dpc' = [dpc EXCEPT ![d] = "reserved"] /\ HasSlot
        /\ UNCHANGED <<worker, queue>>
    BY <1>5 DEF Reserve
  <2>2. stats'.queued = stats.queued + 1 /\ stats'.in_delivery = stats.in_delivery
    BY <1>1, <1>5 DEF Reserve, Stats
  <2>3. stats'.queued + Len(queue) + In(dpc[d], Due)
          = stats.queued + Len(queue') + In("reserved", Due)
    BY <1>1, <1>2, <2>1, <2>2
  <2>4. Len(queue') + In("reserved", {"reserved"}) <= Len(queue) + In(dpc[d], {"reserved"}) + 1
    BY <1>1, <1>2, <2>1
  <2>5. GaugeStep(d, "reserved", 1)
    BY <2>1, <2>2, <2>3, <2>4 DEF GaugeStep
  <2>6. QED
    BY <2>5, GaugeMoves
<1>6. CASE Entered(d) /\ stats' = stats /\ (dpc[d] = "try" => HasSlot)
  <2>1. /\ dpc[d] \in {"reserved", "try"} /\ dpc' = [dpc EXCEPT ![d] = "done"]
        /\ worker' = worker /\ Len(queue') = Len(queue) + 1
    BY <1>1, <1>6, QueueMembers DEF Entered
  <2>2. stats'.queued + Len(queue) + In(dpc[d], Due) = stats.queued + Len(queue') + In("done", Due)
    BY <1>1, <1>2, <1>6, <2>1
  <2>3. CASE dpc[d] = "reserved"
    <3>1. Len(queue') + In("done", {"reserved"}) <= Len(queue) + In(dpc[d], {"reserved"}) + 0
      BY <1>1, <1>2, <2>1, <2>3
    <3>2. GaugeStep(d, "done", 0)
      BY <1>6, <2>1, <2>2, <3>1 DEF GaugeStep
    <3>3. QED
      BY <3>2, GaugeMoves
  <2>4. CASE dpc[d] = "try"
    <3>1. Len(queue') + In("done", {"reserved"}) <= Len(queue) + In(dpc[d], {"reserved"}) + 1
      BY <1>1, <1>2, <2>1, <2>4
    <3>2. GaugeStep(d, "done", 1)
      BY <1>6, <2>1, <2>2, <2>4, <3>1 DEF GaugeStep
    <3>3. QED
      BY <3>2, GaugeMoves
  <2>5. QED
    BY <2>1, <2>3, <2>4
<1>7. ASSUME NEW q \in {"full", "closed"}, Moved(d, q), dpc[d] = "try", stats' = stats,
             ~Closed => q # "closed"
      PROVE  GaugesOK' /\ QueueBounded'
  <2>1. dpc' = [dpc EXCEPT ![d] = q] /\ worker' = worker /\ queue' = queue
    BY <1>7 DEF Moved
  <2>2. stats'.queued + Len(queue) + In(dpc[d], Due) = stats.queued + Len(queue') + In(q, Due)
    BY <1>1, <1>2, <1>7, <2>1
  <2>3. Len(queue') + In(q, {"reserved"}) <= Len(queue) + In(dpc[d], {"reserved"}) + 0
    BY <1>1, <1>2, <1>7, <2>1
  <2>4. GaugeStep(d, q, 0)
    BY <1>7, <2>1, <2>2, <2>3 DEF GaugeStep
  <2>5. QED
    BY <2>4, GaugeMoves
<1>8. CASE Send(d) \/ TrySend(d)
  <2>1. CASE Send(d)
    BY <1>6, <2>1, DecisionSteps DEF Send
  <2>2. CASE TrySend(d)
    BY <1>6, <1>7, <2>2 DEF TrySend, Entered, Moved, Return
  <2>3. QED
    BY <1>8, <2>1, <2>2
<1>9. CASE Uncount(d)
  <2>1. /\ dpc[d] \in {"full", "closed"} /\ dpc' = [dpc EXCEPT ![d] = "done"]
        /\ UNCHANGED <<worker, queue>>
    BY <1>9 DEF Uncount, Return
  <2>2. stats'.queued = stats.queued - 1 /\ stats'.in_delivery = stats.in_delivery
    BY <1>1, <1>9 DEF Uncount, Stats
  <2>3. stats'.queued + Len(queue) + In(dpc[d], Due) = stats.queued + Len(queue') + In("done", Due)
    BY <1>1, <1>2, <2>1, <2>2
  <2>4. Len(queue') + In("done", {"reserved"}) <= Len(queue) + In(dpc[d], {"reserved"}) + 0
    BY <1>1, <1>2, <2>1
  <2>5. GaugeStep(d, "done", 0)
    BY <2>1, <2>2, <2>3, <2>4 DEF GaugeStep
  <2>6. QED
    BY <2>5, GaugeMoves
<1>10. QED
  BY <1>3, <1>4, <1>5, <1>8, <1>9 DEF Delivering, InlineAnswered, InlineTimeout, Endings

\* The gauges and the slots after a step of the worker.
LEMMA GaugesWorker ==
    ASSUME SinkInv, SinkTypeOK', Worker \/ Stop
    PROVE  GaugesOK' /\ QueueBounded'
<1>1. /\ SinkTypeOK /\ GaugesOK /\ QueueBounded /\ MaxPending \in Nat /\ stats \in Stats
      /\ Len(queue) \in Nat /\ Len(queue') \in Nat
      /\ stats.queued \in Nat /\ stats'.queued \in Nat /\ dpc' = dpc
      /\ CountIn(Decisions, dpc, Due) \in Nat /\ CountIn(Decisions, dpc, {"reserved"}) \in Nat
  <2>1. dpc' = dpc
    BY DEF Worker, Stop, Take, Begin, WorkerAnswered, WorkerTimeout, WorkerEnds, Resolve
  <2>2. Len(queue) \in Nat /\ Len(queue') \in Nat
    BY LenProperties DEF SinkInv, SinkTypeOK
  <2>3. QED
    BY <2>1, <2>2, SinkAssumption, CountType DEF SinkInv, SinkTypeOK, Stats
<1>2. Len(queue') <= Len(queue) => QueueBounded'
  BY <1>1, SlotsCount DEF QueueBounded
<1>3. CASE Take
  <2>1. /\ Len(queue') = Len(queue) - 1 /\ stats' = stats
        /\ worker.at = "recv" /\ worker'.at = "taken"
    BY <1>1, <1>3, QueueMembers DEF Take, SinkTypeOK
  <2>2. GaugesOK'
    BY <1>1, <2>1 DEF GaugesOK, Closed
  <2>3. QED
    BY <1>1, <1>2, <2>1, <2>2
<1>4. CASE Begin
  <2>1. /\ queue' = queue /\ worker.at = "taken" /\ worker'.at = "deliver"
        /\ stats'.queued = stats.queued - 1 /\ stats'.in_delivery = stats.in_delivery + 1
    BY <1>1, <1>4 DEF Begin, SinkTypeOK, Stats
  <2>2. GaugesOK'
    BY <1>1, <2>1 DEF GaugesOK, Closed
  <2>3. QED
    BY <1>1, <1>2, <2>1, <2>2
<1>5. ASSUME NEW r \in Endings, WorkerEnds(r)
      PROVE  GaugesOK' /\ QueueBounded'
  <2>1. /\ queue' = queue /\ worker.at = "deliver" /\ worker'.at = "answered"
        /\ stats'.queued = stats.queued /\ stats'.in_delivery = stats.in_delivery
    BY <1>1, <1>5, CountedFields, SMTT(30) DEF WorkerEnds, SinkTypeOK
  <2>2. GaugesOK'
    BY <1>1, <2>1 DEF GaugesOK, Closed
  <2>3. QED
    BY <1>1, <1>2, <2>1, <2>2
<1>6. CASE Resolve
  <2>1. /\ queue' = queue /\ worker.at = "answered" /\ worker'.at = "recv"
        /\ stats'.queued = stats.queued /\ stats'.in_delivery = stats.in_delivery - 1
    BY <1>1, <1>6 DEF Resolve, SinkTypeOK, Stats
  <2>2. GaugesOK'
    BY <1>1, <2>1 DEF GaugesOK, Closed
  <2>3. QED
    BY <1>1, <1>2, <2>1, <2>2
<1>7. CASE Stop
  <2>1. /\ Len(queue') = 0 /\ worker.at \in {"recv", "deliver"} /\ worker'.at = "stopped"
        /\ stats' = stats
    BY <1>1, <1>7, EmptySeq DEF Stop, SinkTypeOK
  <2>2. GaugesOK'
    BY <1>1, <2>1 DEF GaugesOK, Closed
  <2>3. QED
    BY <1>1, <1>2, <2>1, <2>2
<1>8. QED
  BY <1>3, <1>4, <1>5, <1>6, <1>7 DEF Worker, WorkerAnswered, WorkerTimeout, Endings

-----------------------------------------------------------------------------
(* Every record with a final word is counted once.                         *)

\* The word on d's record becomes final, and nothing else is decided.
Final(d, r) ==
    /\ SameBut(Decisions, Fate, Fate', d)
    /\ Fate[d] \in {"none", "pending"} /\ Fate'[d] = r
    /\ stats'.acknowledged = stats.acknowledged + In(r, {"acknowledged"})
    /\ stats'.failed = stats.failed + In(r, {"error", "panic", "timeout", "no_slot"})
    /\ stats'.timed_out = stats.timed_out + In(r, {"timeout"})
    /\ stats'.dropped = stats.dropped + In(r, {"dropped"})

\* A final word is counted where it belongs.
LEMMA FinalCounted ==
    ASSUME SinkInv, NEW d \in Decisions, NEW r, Final(d, r)
    PROVE  CountsOK'
<1>1. \A P : In(r, P) \in {0, 1}
  BY DEF In
<1>2. ASSUME NEW P, "none" \notin P, "pending" \notin P
      PROVE  CountIn(Decisions, Fate', P) = CountIn(Decisions, Fate, P) + In(r, P)
  <2>1. IsFiniteSet(Decisions) /\ SameBut(Decisions, Fate, Fate', d)
    BY SinkAssumption DEF Final
  <2>2. In(Fate[d], P) = 0 /\ Fate'[d] = r
    BY <1>2 DEF Final, In
  <2> HIDE DEF Fate
  <2>3. /\ CountIn(Decisions, Fate, P) \in Nat /\ CountIn(Decisions, Fate', P) \in Nat
        /\ CountIn(Decisions, Fate', P) + In(Fate[d], P)
             = CountIn(Decisions, Fate, P) + In(Fate'[d], P)
    BY <2>1, MoveCount
  <2>4. QED
    BY <1>1, <2>2, <2>3
<1>3. CountsOK
  BY DEF SinkInv
<1>4. /\ CountIn(Decisions, Fate', {"acknowledged"})
           = CountIn(Decisions, Fate, {"acknowledged"}) + In(r, {"acknowledged"})
      /\ CountIn(Decisions, Fate', {"error", "panic", "timeout", "no_slot"})
           = CountIn(Decisions, Fate, {"error", "panic", "timeout", "no_slot"})
               + In(r, {"error", "panic", "timeout", "no_slot"})
      /\ CountIn(Decisions, Fate', {"timeout"})
           = CountIn(Decisions, Fate, {"timeout"}) + In(r, {"timeout"})
      /\ CountIn(Decisions, Fate', {"dropped"})
           = CountIn(Decisions, Fate, {"dropped"}) + In(r, {"dropped"})
  BY <1>2
<1>5. QED
  BY <1>3, <1>4 DEF CountsOK, Final

\* A step that decides nothing leaves the counts.
LEMMA NothingFinal ==
    ASSUME SinkInv,
           stats'.acknowledged = stats.acknowledged, stats'.failed = stats.failed,
           stats'.timed_out = stats.timed_out, stats'.dropped = stats.dropped,
           \A x \in Decisions :
               \/ Fate'[x] = Fate[x]
               \/ {Fate[x], Fate'[x]} \subseteq {"none", "pending", "lost", "gone", "stopped"}
    PROVE  CountsOK'
<1>1. ASSUME NEW P, P \cap {"none", "pending", "lost", "gone", "stopped"} = {}
      PROVE  CountIn(Decisions, Fate', P) = CountIn(Decisions, Fate, P)
  <2>1. \A x \in Decisions : Fate'[x] \in P <=> Fate[x] \in P
    BY <1>1
  <2>2. {x \in Decisions : Fate'[x] \in P} = {x \in Decisions : Fate[x] \in P}
    BY <2>1
  <2>3. QED
    BY <2>2 DEF CountIn
<1>2. /\ CountIn(Decisions, Fate', {"acknowledged"}) = CountIn(Decisions, Fate, {"acknowledged"})
      /\ CountIn(Decisions, Fate', {"error", "panic", "timeout", "no_slot"})
           = CountIn(Decisions, Fate, {"error", "panic", "timeout", "no_slot"})
      /\ CountIn(Decisions, Fate', {"timeout"}) = CountIn(Decisions, Fate, {"timeout"})
      /\ CountIn(Decisions, Fate', {"dropped"}) = CountIn(Decisions, Fate, {"dropped"})
  BY <1>1
<1>3. QED
  BY <1>2 DEF SinkInv, CountsOK

\* What became of each record, spelled out.
LEMMA FateIs ==
    /\ \A x \in Decisions :
         /\ worker.at = "answered" /\ worker.job = x => Fate[x] = worker.result
         /\ ~(worker.at = "answered" /\ worker.job = x) =>
              /\ outcome[x] = "queued" => Fate[x] = ticket[x]
              /\ outcome[x] # "queued" => Fate[x] = outcome[x]
    /\ \A x \in Decisions :
         /\ worker'.at = "answered" /\ worker'.job = x => Fate'[x] = worker'.result
         /\ ~(worker'.at = "answered" /\ worker'.job = x) =>
              /\ outcome'[x] = "queued" => Fate'[x] = ticket'[x]
              /\ outcome'[x] # "queued" => Fate'[x] = outcome'[x]
  BY DEF Fate, Verdict

\* The counts after a step of a decision.
LEMMA CountsDecision ==
    ASSUME SinkInv, NEW d \in Decisions, Deliver(d) \/ DropDelivery(d) \/ Delivering(d)
    PROVE  CountsOK'
<1>1. SinkTypeOK /\ RecordsOK /\ WorkerOK /\ stats \in Stats
  BY DEF SinkInv, SinkTypeOK, Stats
<1>2. dpc[d] # "done" => Fate[d] = "none" /\ outcome[d] = "none"
                          /\ ~(worker.at = "answered" /\ worker.job = d)
  BY <1>1, FateIs DEF RecordsOK, WorkerOK
<1>3. ASSUME NEW r, Returned(d, r)
      PROVE  /\ SameBut(Decisions, Fate, Fate', d) /\ Fate[d] = "none" /\ Fate'[d] = r
             /\ \A x \in Decisions \ {d} : Fate'[x] = Fate[x]
  <2>1. /\ outcome'[d] = r /\ r # "queued" /\ dpc[d] # "done"
        /\ \A x \in Decisions \ {d} : outcome'[x] = outcome[x]
        /\ ticket' = ticket /\ worker' = worker
    BY <1>1, <1>3 DEF Returned, SinkTypeOK
  <2>2. \A x \in Decisions \ {d} : Fate'[x] = Fate[x]
    BY <2>1, FateIs
  <2>3. Fate'[d] = r
    BY <1>2, <2>1, FateIs
  <2>4. QED
    BY <1>2, <2>1, <2>2, <2>3 DEF SameBut
<1>4. ASSUME NEW r \in Endings, InlineEnds(d, r)
      PROVE  CountsOK'
  <2>1. Returned(d, r)
    BY <1>4, DecisionSteps
  <2>2. stats' = Counted(stats, r)
    BY <1>4 DEF InlineEnds
  <2>3. In(r, {"error", "panic", "timeout"}) = In(r, {"error", "panic", "timeout", "no_slot"})
        /\ In(r, {"dropped"}) = 0
    BY DEF In, Endings, Answers
  <2>4. stats.dropped + 0 = stats.dropped
    BY <1>1 DEF Stats
  <2>5. Final(d, r)
    BY <1>1, <1>3, <2>1, <2>2, <2>3, <2>4, CountedFields DEF Final
  <2>6. QED
    BY <2>5, FinalCounted
<1>5. CASE ReserveExpired(d)
  <2>1. Returned(d, "no_slot")
    BY <1>5, DecisionSteps
  <2>2. /\ stats'.failed = stats.failed + 1 /\ stats'.acknowledged = stats.acknowledged + 0
        /\ stats'.timed_out = stats.timed_out + 0 /\ stats'.dropped = stats.dropped + 0
    BY <1>1, <1>5 DEF ReserveExpired, Stats
  <2>3. /\ In("no_slot", {"error", "panic", "timeout", "no_slot"}) = 1
        /\ In("no_slot", {"acknowledged"}) = 0
        /\ In("no_slot", {"timeout"}) = 0 /\ In("no_slot", {"dropped"}) = 0
    BY DEF In
  <2>4. Final(d, "no_slot")
    BY <1>3, <2>1, <2>2, <2>3 DEF Final
  <2>5. QED
    BY <2>4, FinalCounted
<1>6. CASE Uncount(d) /\ dpc[d] = "full"
  <2>1. Returned(d, "dropped")
    BY <1>6 DEF Uncount, Returned, Return
  <2>2. /\ stats'.failed = stats.failed + 0 /\ stats'.acknowledged = stats.acknowledged + 0
        /\ stats'.timed_out = stats.timed_out + 0 /\ stats'.dropped = stats.dropped + 1
    <3> DEFINE q == stats.queued - 1
               n == stats.dropped + 1
    <3>1. stats' = [stats EXCEPT !.queued = q, !.dropped = n]
      BY <1>1, <1>6 DEF Uncount, Stats
    <3> HIDE DEF q
    <3>2. QED
      BY <1>1, <3>1 DEF Stats
  <2>3. /\ In("dropped", {"error", "panic", "timeout", "no_slot"}) = 0
        /\ In("dropped", {"acknowledged"}) = 0
        /\ In("dropped", {"timeout"}) = 0 /\ In("dropped", {"dropped"}) = 1
    BY DEF In
  <2>4. Final(d, "dropped")
    BY <1>3, <2>1, <2>2, <2>3 DEF Final
  <2>5. QED
    BY <2>4, FinalCounted
<1> DEFINE quiet == /\ stats'.acknowledged = stats.acknowledged /\ stats'.failed = stats.failed
                    /\ stats'.timed_out = stats.timed_out /\ stats'.dropped = stats.dropped
<1>7. CASE DropDelivery(d) \/ ReserveStopped(d) \/ (Uncount(d) /\ dpc[d] = "closed")
  <2>1. Returned(d, "gone") \/ Returned(d, "stopped")
    BY <1>7, DecisionSteps DEF Uncount, Returned, Return
  <2>2. quiet
    BY <1>1, <1>7 DEF DropDelivery, ReserveStopped, Uncount, Stats
  <2>3. QED
    BY <1>3, <2>1, <2>2, NothingFinal
<1>8. CASE quiet /\ Entered(d)
  <2>1. /\ outcome'[d] = "queued" /\ ticket'[d] = "pending" /\ dpc[d] # "done"
        /\ \A x \in Decisions \ {d} : outcome'[x] = outcome[x] /\ ticket'[x] = ticket[x]
        /\ worker' = worker
    BY <1>1, <1>8 DEF Entered, SinkTypeOK
  <2>2. \A x \in Decisions \ {d} : Fate'[x] = Fate[x]
    BY <2>1, FateIs
  <2>3. Fate'[d] = "pending" /\ Fate[d] = "none"
    BY <1>2, <2>1, FateIs
  <2>4. QED
    BY <1>8, <2>2, <2>3, NothingFinal
<1>9. ASSUME NEW q, quiet, Moved(d, q)
      PROVE  CountsOK'
  <2>1. \A x \in Decisions : Fate'[x] = Fate[x]
    BY <1>9, FateIs DEF Moved
  <2>2. QED
    BY <1>9, <2>1, NothingFinal
<1>10. CASE Deliver(d) \/ Reserve(d) \/ Send(d) \/ TrySend(d)
  <2>1. quiet
    BY <1>1, <1>10 DEF Deliver, Reserve, Send, TrySend, Stats
  <2>2. Entered(d) \/ \E q : Moved(d, q)
    BY <1>10, DecisionSteps
  <2>3. QED
    BY <1>8, <1>9, <2>1, <2>2
<1>11. Uncount(d) => dpc[d] \in {"full", "closed"}
  BY DEF Uncount
<1>12. QED
  BY <1>4, <1>5, <1>6, <1>7, <1>10, <1>11
     DEF Delivering, InlineAnswered, InlineTimeout, Endings

\* The counts after a step of the worker.
LEMMA CountsWorker ==
    ASSUME SinkInv, Worker \/ Stop
    PROVE  CountsOK'
<1>1. SinkTypeOK /\ RecordsOK /\ WorkerOK /\ stats \in Stats
  BY DEF SinkInv, SinkTypeOK, Stats
<1> DEFINE quiet == /\ stats'.acknowledged = stats.acknowledged /\ stats'.failed = stats.failed
                    /\ stats'.timed_out = stats.timed_out /\ stats'.dropped = stats.dropped
<1>2. CASE Take \/ Begin
  <2>1. quiet
    BY <1>1, <1>2 DEF Take, Begin, Stats
  <2>2. /\ UNCHANGED <<outcome, ticket>> /\ worker.at # "answered" /\ worker'.at # "answered"
    BY <1>1, <1>2 DEF Take, Begin, SinkTypeOK
  <2>3. \A x \in Decisions : Fate'[x] = Fate[x]
    BY <2>2, FateIs
  <2>4. QED
    BY <2>1, <2>3, NothingFinal
<1>3. ASSUME NEW r \in Endings, WorkerEnds(r)
      PROVE  CountsOK'
  <2>1. /\ UNCHANGED <<outcome, ticket>> /\ worker.at = "deliver" /\ worker'.at = "answered"
        /\ worker'.job = worker.job /\ worker'.result = r /\ stats' = Counted(stats, r)
    BY <1>1, <1>3 DEF WorkerEnds, SinkTypeOK
  <2>2. worker.job \in Decisions /\ Fate[worker.job] = "pending" /\ Fate'[worker.job] = r
    BY <1>1, <2>1, FateIs DEF WorkerOK
  <2>3. \A x \in Decisions \ {worker.job} : Fate'[x] = Fate[x]
    BY <2>1, FateIs
  <2>4. In(r, {"error", "panic", "timeout"}) = In(r, {"error", "panic", "timeout", "no_slot"})
        /\ In(r, {"dropped"}) = 0
    BY DEF In, Endings, Answers
  <2>5. stats.dropped + 0 = stats.dropped
    BY <1>1 DEF Stats
  <2>6. SameBut(Decisions, Fate, Fate', worker.job)
    BY <2>3 DEF SameBut
  <2>7. Final(worker.job, r)
    BY <1>1, <2>1, <2>2, <2>4, <2>5, <2>6, CountedFields DEF Final
  <2>8. QED
    BY <2>2, <2>7, FinalCounted
<1>4. CASE Resolve
  <2>1. quiet
    BY <1>1, <1>4 DEF Resolve, Stats
  <2>2. /\ outcome' = outcome /\ worker.at = "answered" /\ worker'.at = "recv"
        /\ worker.job \in Decisions /\ outcome[worker.job] = "queued"
        /\ ticket'[worker.job] = worker.result
        /\ \A x \in Decisions \ {worker.job} : ticket'[x] = ticket[x]
    BY <1>1, <1>4 DEF Resolve, SinkTypeOK, WorkerOK
  <2>3. Fate'[worker.job] = Fate[worker.job]
    BY <2>2, FateIs
  <2>4. \A x \in Decisions \ {worker.job} : Fate'[x] = Fate[x]
    BY <2>2, FateIs
  <2>5. QED
    BY <2>1, <2>3, <2>4, NothingFinal
<1>5. CASE Stop
  <2>1. /\ UNCHANGED <<outcome, stats>> /\ worker'.at = "stopped"
        /\ worker.at \in {"recv", "deliver"}
        /\ \A x \in Decisions :
             ticket'[x] = IF x \in Queued \/ x = worker.job THEN "lost" ELSE ticket[x]
    BY <1>1, <1>5 DEF Stop, SinkTypeOK
  <2>2. \A x \in Decisions : x \in Queued \/ x = worker.job =>
            outcome[x] = "queued" /\ ticket[x] = "pending"
    BY <1>1, <2>1, SinkAssumption DEF RecordsOK, WorkerOK
  <2>3. ASSUME NEW x \in Decisions
        PROVE  \/ Fate'[x] = Fate[x]
               \/ {Fate[x], Fate'[x]} \subseteq {"none", "pending", "lost", "gone", "stopped"}
    <3>1. CASE x \in Queued \/ x = worker.job
      <4>1. Fate[x] = "pending" /\ Fate'[x] = "lost"
        BY <2>1, <2>2, <3>1, FateIs
      <4>2. QED
        BY <4>1
    <3>2. CASE ~(x \in Queued \/ x = worker.job)
      BY <2>1, <3>2, FateIs
    <3>3. QED
      BY <3>1, <3>2
  <2>4. QED
    BY <2>1, <2>3, NothingFinal
<1>6. QED
  BY <1>2, <1>3, <1>4, <1>5 DEF Worker, WorkerAnswered, WorkerTimeout, Endings

-----------------------------------------------------------------------------
(* The invariant of delivery, and what it implies.                         *)

\* Nothing has been delivered at the start.
LEMMA SinkStart == Init => SinkInv
<1> SUFFICES ASSUME Init
             PROVE  SinkInv
  OBVIOUS
<1>1. SinkInit
  BY DEF Init
<1>2. SinkTypeOK
  BY <1>1, EmptySeq DEF SinkInit, SinkTypeOK, Results, Endings, Answers
<1>3. Queued = {} /\ Distinct(queue) /\ Len(queue) = 0
  BY <1>1, EmptySeq DEF SinkInit, Queued, Distinct
<1>4. ASSUME NEW f, NEW P, \A d \in Decisions : f[d] \notin P
      PROVE  CountIn(Decisions, f, P) = 0
  <2>1. {d \in Decisions : f[d] \in P} = {}
    BY <1>4
  <2>2. QED
    BY <2>1, FS_EmptySet DEF CountIn
<1>5. \A d \in Decisions : dpc[d] = "idle" /\ outcome[d] = "none" /\ Fate[d] = "none"
  BY <1>1, FateIs DEF SinkInit
<1>6. CountIn(Decisions, dpc, Due) = 0 /\ CountIn(Decisions, dpc, {"reserved"}) = 0
  BY <1>4, <1>5 DEF Due
<1>7. QueueBounded
  BY <1>3, <1>6, SlotsCount, SinkAssumption DEF QueueBounded
<1>8. GaugesOK
  BY <1>1, <1>3, <1>5, <1>6 DEF GaugesOK, SinkInit, Closed
<1>9. RecordsOK /\ WorkerOK /\ VerdictHonest
  BY <1>1, <1>3 DEF SinkInit, RecordsOK, WorkerOK, VerdictHonest, Verdict
<1>10. CountsOK
  <2>1. /\ CountIn(Decisions, Fate, {"acknowledged"}) = 0
        /\ CountIn(Decisions, Fate, {"error", "panic", "timeout", "no_slot"}) = 0
        /\ CountIn(Decisions, Fate, {"timeout"}) = 0 /\ CountIn(Decisions, Fate, {"dropped"}) = 0
    BY <1>4, <1>5
  <2>2. QED
    BY <1>1, <2>1 DEF SinkInit, CountsOK
<1>11. QED
  BY <1>2, <1>7, <1>8, <1>9, <1>10 DEF SinkInv

\* Every step keeps the invariant of delivery.
LEMMA SinkKeeps == SinkInv /\ [Next]_vars => SinkInv'
<1> SUFFICES ASSUME SinkInv, SinkStep
             PROVE  SinkInv'
  BY NextIsSinkStep
<1>1. CASE UNCHANGED sinkVars
  BY <1>1 DEF sinkVars, SinkInv, SinkTypeOK, QueueBounded, Reservations, GaugesOK, Closed,
              RecordsOK, Queued, WorkerOK, VerdictHonest, Verdict, CountsOK, Fate
<1>2. SinkTypeOK' /\ RecordsOK' /\ WorkerOK' /\ VerdictHonest'
  BY SinkTypes, RecordsStep, HonestStep
<1>3. ~UNCHANGED sinkVars => GaugesOK' /\ QueueBounded' /\ CountsOK'
  BY <1>2, GaugesDecision, GaugesWorker, CountsDecision, CountsWorker DEF SinkStep
<1>4. QED
  BY <1>1, <1>2, <1>3 DEF SinkInv

\* The channel and its gauge agree: nothing is due that the gauge lacks.
LEMMA SinkInvQueue == SinkInv => QueueExact
<1> SUFFICES ASSUME SinkInv
             PROVE  QueueExact
  OBVIOUS
<1>1. SinkTypeOK /\ QueueBounded /\ GaugesOK
  BY DEF SinkInv
<1>2. ~Closed => {d \in Decisions : dpc[d] \in {"reserved", "try", "full"}}
                   = {d \in Decisions : dpc[d] \in Due}
  BY <1>1 DEF GaugesOK, Due
<1>3. GaugeExact
  BY <1>1, <1>2 DEF GaugesOK, GaugeExact, CountIn
<1>4. QED
  BY <1>1, <1>3 DEF QueueExact

\* The counts are those of the records with a final word.
LEMMA SinkInvCounts == SinkInv /\ UncountedOK => EachCountedOnce
<1> SUFFICES ASSUME SinkInv, UncountedOK
             PROVE  EachCountedOnce
  OBVIOUS
<1>1. WorkerOK /\ CountsOK
  BY DEF SinkInv
<1> DEFINE ended(rs) == {d \in Decisions : Verdict(d) \in rs} \cup UNION {Answered(r) : r \in rs}
<1>2. ASSUME NEW rs, "pending" \notin rs
      PROVE  Cardinality(ended(rs)) = CountIn(Decisions, Fate, rs)
  <2>1. ASSUME NEW d \in Decisions
        PROVE  d \in ended(rs) <=> Fate[d] \in rs
    <3>1. d \in UNION {Answered(r) : r \in rs}
            <=> worker.at = "answered" /\ worker.job = d /\ worker.result \in rs
      BY DEF Answered
    <3>2. worker.at = "answered" /\ worker.job = d => Verdict(d) = "pending"
      BY <1>1 DEF WorkerOK, Verdict
    <3>3. QED
      BY <1>2, <3>1, <3>2 DEF Fate
  <2>2. ended(rs) \subseteq Decisions
    BY DEF Answered
  <2>3. ended(rs) = {d \in Decisions : Fate[d] \in rs}
    BY <2>1, <2>2
  <2>4. QED
    BY <2>3 DEF CountIn
<1>3. /\ Cardinality(ended({"acknowledged"})) = CountIn(Decisions, Fate, {"acknowledged"})
      /\ Cardinality(ended({"error", "panic", "timeout", "no_slot"}))
           = CountIn(Decisions, Fate, {"error", "panic", "timeout", "no_slot"})
      /\ Cardinality(ended({"timeout"})) = CountIn(Decisions, Fate, {"timeout"})
      /\ Cardinality(ended({"dropped"})) = CountIn(Decisions, Fate, {"dropped"})
  BY <1>2
<1>4. \A d \in Decisions : Verdict(d) \in Uncounted \ {"gone"} => Closed
  <2>1. ASSUME NEW d \in Decisions, Verdict(d) \in {"stopped", "lost"}
        PROVE  Closed
    BY <2>1 DEF Verdict, UncountedOK
  <2>2. QED
    BY <2>1 DEF Uncounted
<1>5. QED
  BY <1>1, <1>3, <1>4 DEF CountsOK, EachCountedOnce

\* A call that its guards no longer count as abandoned was delivered.
LEMMA KeptSteps == CallInv /\ SinkInv /\ KeptOK /\ [Next]_vars => KeptOK'
<1> SUFFICES ASSUME CallInv, SinkInv, KeptOK, [Next]_vars, NEW e \in Decisions,
                    phase'[e] \in {"writing", "left"}
             PROVE  dpc'[e] = "done" /\ Accepted(e)'
  BY DEF KeptOK
<1>1. dpc[e] = "done" => dpc'[e] = "done" /\ outcome'[e] = outcome[e]
  <2>1. SinkStep /\ SinkTypeOK
    BY NextIsSinkStep DEF SinkInv
  <2>2. UNCHANGED sinkVars \/ Worker \/ Stop => UNCHANGED <<dpc, outcome>>
    BY DEF sinkVars, Worker, Stop, Take, Begin, WorkerAnswered, WorkerTimeout, WorkerEnds, Resolve
  <2>3. ASSUME NEW d \in Decisions, Deliver(d) \/ DropDelivery(d) \/ Delivering(d)
        PROVE  /\ dpc[d] # "done"
               /\ \A x \in Decisions \ {d} : dpc'[x] = dpc[x] /\ outcome'[x] = outcome[x]
    <3>1. /\ dpc[d] # "done"
          /\ \E q : dpc' = [dpc EXCEPT ![d] = q]
          /\ \E r : outcome' = [outcome EXCEPT ![d] = r] \/ outcome' = outcome
      BY <2>3 DEF Deliver, DropDelivery, Delivering, InlineAnswered, InlineTimeout, InlineEnds,
                  Reserve, Send, ReserveExpired, ReserveStopped, TrySend, Uncount, Return
    <3>2. QED
      BY <2>1, <3>1 DEF SinkTypeOK
  <2>4. QED
    BY <2>1, <2>2, <2>3 DEF SinkStep
<1>2. phase[e] \in {"writing", "left"} \/ WritesEntry(e)
  <2> DEFINE kept == {"writing", "left"}
  <2>1. phase \in [Decisions -> {"new", "submitted", "queueing", "waiting", "running",
                                "delivering", "writing"} \cup Ended]
    BY DEF CallInv, TypeOK
  <2>2. ASSUME NEW d \in Decisions, NEW q, phase' = [phase EXCEPT ![d] = q],
               q \notin kept \/ phase[d] \in kept \/ WritesEntry(d)
        PROVE  phase[e] \in kept \/ WritesEntry(e)
    BY <2>1, <2>2
  <2>3. ASSUME NEW d \in Decisions, Submit(d) \/ Polled(d) \/ Drop(d)
        PROVE  phase[e] \in kept \/ WritesEntry(e)
    <3>1. Submit(d) => \E q : phase' = [phase EXCEPT ![d] = q] /\ q \notin kept
      BY DEF Submit, Refused
    <3>2. Polled(d) => \/ phase' = phase
                       \/ \E q : /\ phase' = [phase EXCEPT ![d] = q]
                                 /\ q \notin kept \/ WritesEntry(d)
      <4>1. JoinLine(d) => phase' = phase
        BY DEF JoinLine
      <4>2. TryAcquire(d) \/ Enqueue(d) \/ Admit(d) \/ LateGrant(d) \/ LeaveLine(d) =>
              \E q : phase' = [phase EXCEPT ![d] = q] /\ q \notin kept
        BY DEF TryAcquire, Enqueue, Admit, LateGrant, LeaveLine, Reject, End
      <4>3. RunEnds(d) \/ RunFails(d) \/ Returns(d) =>
              \E q : phase' = [phase EXCEPT ![d] = q] /\ q \notin kept
        BY DEF RunEnds, RunFails, Returns, End
      <4>4. WritesEntry(d) => \E q : phase' = [phase EXCEPT ![d] = q]
        BY DEF WritesEntry
      <4>5. QED
        BY <4>1, <4>2, <4>3, <4>4 DEF Polled
    <3>3. Drop(d) => \E q : phase' = [phase EXCEPT ![d] = q] /\ (q \notin kept \/ phase[d] \in kept)
      BY DEF Drop, DropWriting, End
    <3>4. QED
      BY <2>2, <2>3, <3>1, <3>2, <3>3
  <2>4. UNCHANGED phase => phase[e] \in kept
    OBVIOUS
  <2>5. ASSUME NEW d \in Decisions, Expire(d) \/ Cancel(d) \/ Deliveries(d)
        PROVE  UNCHANGED phase
    BY <2>5 DEF Expire, Cancel, Deliveries, callVars
  <2>6. Delivery \/ UNCHANGED vars => UNCHANGED phase
    BY DEF Delivery, vars, callVars
  <2>7. QED
    BY <2>3, <2>4, <2>5, <2>6 DEF Next
<1>3. dpc[e] = "done" /\ Accepted(e)
  BY <1>2 DEF KeptOK, WritesEntry
<1>4. QED
  BY <1>1, <1>3 DEF Accepted

\* A stopped worker stays stopped, and a word that no counter has is given only
\* by a stopped worker or to a caller that leaves.
LEMMA UncountedSteps == SinkInv /\ CallInv /\ UncountedOK /\ [Next]_vars => UncountedOK'
<1> SUFFICES ASSUME SinkInv, CallInv, UncountedOK, [Next]_vars
             PROVE  UncountedOK'
  OBVIOUS
<1> DEFINE silent == {"stopped", "lost"}
<1>1. SinkStep /\ SinkTypeOK /\ GaugesOK /\ TypeOK
  BY NextIsSinkStep DEF SinkInv, CallInv
<1>2. Closed => Closed'
  BY <1>1 DEF SinkStep, Closed, Deliver, DropDelivery, Delivering, InlineAnswered,
              InlineTimeout, InlineEnds, Reserve, Send, ReserveExpired, ReserveStopped, TrySend,
              Uncount, Worker, Take, Begin, WorkerAnswered, WorkerTimeout, WorkerEnds, Resolve,
              Stop, sinkVars
<1>3. \A d \in Decisions : {outcome'[d], ticket'[d]} \cap silent # {} =>
            Closed' \/ {outcome[d], ticket[d]} \cap silent # {}
  <2>1. ASSUME NEW d \in Decisions, Deliver(d) \/ DropDelivery(d) \/ Delivering(d)
        PROVE  \A x \in Decisions : {outcome'[x], ticket'[x]} \cap silent # {} =>
                   Closed' \/ {outcome[x], ticket[x]} \cap silent # {}
    <3>1. \/ UNCHANGED <<outcome, ticket>>
          \/ \E r : /\ outcome' = [outcome EXCEPT ![d] = r]
                    /\ r \in silent => Closed'
                    /\ ticket' = ticket \/ ticket' = [ticket EXCEPT ![d] = "pending"]
      <4>1. Deliver(d) \/ Reserve(d) => UNCHANGED <<outcome, ticket>>
        BY DEF Deliver, Reserve
      <4>2. DropDelivery(d) \/ ReserveExpired(d) \/ Send(d) =>
              \E r \in {"gone", "no_slot", "queued"} :
                 /\ outcome' = [outcome EXCEPT ![d] = r]
                 /\ ticket' = ticket \/ ticket' = [ticket EXCEPT ![d] = "pending"]
        BY DEF DropDelivery, ReserveExpired, Send, Return
      <4>3. InlineAnswered(d) \/ InlineTimeout(d) =>
              \E r \in Endings : outcome' = [outcome EXCEPT ![d] = r] /\ ticket' = ticket
        BY DEF InlineAnswered, InlineTimeout, InlineEnds, Return, Endings
      <4>4. ReserveStopped(d) => /\ outcome' = [outcome EXCEPT ![d] = "stopped"]
                                 /\ ticket' = ticket /\ Closed
        BY DEF ReserveStopped, Return
      <4>5. Uncount(d) => \E r \in {"dropped", "stopped"} :
              /\ outcome' = [outcome EXCEPT ![d] = r] /\ ticket' = ticket
              /\ r = "stopped" => Closed
        BY <1>1 DEF Uncount, Return, GaugesOK
      <4>6. TrySend(d) => \/ UNCHANGED <<outcome, ticket>>
                          \/ /\ outcome' = [outcome EXCEPT ![d] = "queued"]
                             /\ ticket' = [ticket EXCEPT ![d] = "pending"]
        BY DEF TrySend, Return
      <4>7. QED
        BY <1>2, <2>1, <4>1, <4>2, <4>3, <4>4, <4>5, <4>6 DEF Delivering, Endings, Answers
    <3>2. QED
      BY <1>1, <3>1 DEF SinkTypeOK
  <2>2. ASSUME Worker
        PROVE  \A x \in Decisions : {outcome'[x], ticket'[x]} \cap silent # {} =>
                   Closed' \/ {outcome[x], ticket[x]} \cap silent # {}
    <3>1. outcome' = outcome
      BY <2>2 DEF Worker, Take, Begin, WorkerAnswered, WorkerTimeout, WorkerEnds, Resolve
    <3>2. \/ ticket' = ticket
          \/ ticket' = [ticket EXCEPT ![worker.job] = worker.result] /\ worker.at = "answered"
      BY <2>2 DEF Worker, Take, Begin, WorkerAnswered, WorkerTimeout, WorkerEnds, Resolve
    <3>3. worker.at = "answered" => worker.result \notin silent
      BY DEF SinkInv, WorkerOK, Endings, Answers
    <3>4. QED
      BY <1>1, <3>1, <3>2, <3>3 DEF SinkTypeOK
  <2>3. Stop => Closed'
    BY <1>1 DEF Stop, Closed, SinkTypeOK
  <2>4. QED
    BY <1>1, <2>1, <2>2, <2>3 DEF SinkStep, sinkVars
<1>4. ASSUME NEW x \in Decisions, outcome'[x] = "gone"
      PROVE  phase'[x] = "dropped"
  <2>1. phase[x] = "dropped" => phase'[x] = "dropped"
    <3>1. ASSUME NEW d \in Decisions, phase[d] # "dropped",
                 \E q : phase' = [phase EXCEPT ![d] = q]
          PROVE  phase[x] = "dropped" => phase'[x] = "dropped"
      BY <1>1, <3>1 DEF TypeOK
    <3>2. ASSUME NEW d \in Decisions, Submit(d) \/ Polled(d) \/ Drop(d)
          PROVE  phase' = phase \/ (phase[d] # "dropped" /\ \E q : phase' = [phase EXCEPT ![d] = q])
      <4>1. Submit(d) => phase[d] # "dropped" /\ \E q : phase' = [phase EXCEPT ![d] = q]
        BY DEF Submit, Refused
      <4>2. JoinLine(d) => phase' = phase
        BY DEF JoinLine
      <4>3. TryAcquire(d) \/ Enqueue(d) \/ Admit(d) \/ LateGrant(d) \/ LeaveLine(d) =>
              phase[d] # "dropped" /\ \E q : phase' = [phase EXCEPT ![d] = q]
        <5>1. d \in granted => phase[d] # "dropped"
          BY DEF CallInv, LineOK
        <5>2. QED
          BY <5>1 DEF TryAcquire, Enqueue, Admit, LateGrant, LeaveLine, Reject, End
      <4>4. RunEnds(d) \/ RunFails(d) \/ Returns(d) \/ WritesEntry(d) =>
              phase[d] # "dropped" /\ \E q : phase' = [phase EXCEPT ![d] = q]
        BY DEF RunEnds, RunFails, Returns, WritesEntry, End
      <4>5. Drop(d) => phase[d] # "dropped" /\ \E q : phase' = [phase EXCEPT ![d] = q]
        BY DEF Drop, DropWaiting, DropRunning, DropWriting, End
      <4>6. QED
        BY <3>2, <4>1, <4>2, <4>3, <4>4, <4>5 DEF Polled
    <3>3. ASSUME NEW d \in Decisions, Expire(d) \/ Cancel(d) \/ Deliveries(d)
          PROVE  UNCHANGED phase
      BY <3>3 DEF Expire, Cancel, Deliveries, callVars
    <3>4. Delivery \/ UNCHANGED vars => UNCHANGED phase
      BY DEF Delivery, vars, callVars
    <3>5. QED
      BY <3>1, <3>2, <3>3, <3>4 DEF Next
  <2>2. outcome[x] = "gone" \/ (\E d \in Decisions : Drop(d) /\ DropDelivery(d))
    <3>1. ASSUME NEW d \in Decisions, Delivering(d)
          PROVE  outcome[x] = "gone"
      <4>1. outcome' = outcome \/ \E r : outcome' = [outcome EXCEPT ![d] = r] /\ r # "gone"
        BY <3>1 DEF Delivering, InlineAnswered, InlineTimeout, InlineEnds, Reserve, Send,
                    ReserveExpired, ReserveStopped, TrySend, Uncount, Return, Answers
      <4>2. QED
        BY <1>1, <1>4, <4>1 DEF SinkTypeOK
    <3>2. Worker \/ Stop \/ UNCHANGED sinkVars => outcome' = outcome
      BY DEF Worker, Stop, Take, Begin, WorkerAnswered, WorkerTimeout, WorkerEnds, Resolve,
             sinkVars
    <3>3. \A d \in Decisions : Deliver(d) => outcome' = outcome
      BY DEF Deliver
    <3>4. ASSUME NEW d \in Decisions, Submit(d) \/ Polled(d)
          PROVE  Deliver(d) \/ UNCHANGED sinkVars
      BY <3>4 DEF Submit, Polled, TryAcquire, Enqueue, JoinLine, Admit, LateGrant, LeaveLine,
                  RunEnds, RunFails, WritesEntry, Returns, Refused
    <3>5. \A d \in Decisions : Drop(d) => DropDelivery(d) \/ UNCHANGED sinkVars
      BY DEF Drop, DropWaiting, DropRunning, DropWriting
    <3>6. \A d \in Decisions : Expire(d) \/ Cancel(d) => UNCHANGED sinkVars
      BY DEF Expire, Cancel
    <3>7. \A d \in Decisions : Deliveries(d) => Delivering(d)
      BY DEF Deliveries
    <3>8. Delivery => Worker \/ Stop
      BY DEF Delivery
    <3>9. UNCHANGED vars => UNCHANGED sinkVars
      BY DEF vars
    <3>10. QED
      BY <1>4, <3>1, <3>2, <3>3, <3>4, <3>5, <3>6, <3>7, <3>8, <3>9 DEF Next
  <2>3. ASSUME NEW d \in Decisions, Drop(d), DropDelivery(d), outcome[x] # "gone"
        PROVE  phase'[x] = "dropped"
    <3>1. x = d
      BY <1>1, <1>4, <2>3 DEF DropDelivery, Return, SinkTypeOK
    <3>2. phase' = [phase EXCEPT ![d] = "dropped"]
      <4>1. dpc' # dpc
        BY <1>1, <2>3 DEF DropDelivery, Return, SinkTypeOK
      <4>2. ~DropWriting(d)
        BY <4>1 DEF DropWriting, sinkVars
      <4>3. QED
        BY <2>3, <4>2 DEF Drop, End
    <3>3. QED
      BY <1>1, <3>1, <3>2 DEF TypeOK
  <2>4. QED
    BY <2>1, <2>2, <2>3 DEF UncountedOK
<1>5. QED
  BY <1>2, <1>3, <1>4 DEF UncountedOK

\* The inductive invariant of the composition.
THEOREM Inductive == Spec => []IInv
<1>1. Init => KeptOK /\ UncountedOK
  BY DEF Init, SinkInit, KeptOK, UncountedOK
<1>2. Init => IInv
  BY <1>1, CallInit, SinkStart DEF IInv
<1>3. IInv /\ [Next]_vars => IInv'
  BY CallStep, SinkKeeps, KeptSteps, UncountedSteps DEF IInv
<1>4. QED
  BY <1>2, <1>3, PTL DEF Spec

\* The channel never holds more than max_pending records and slots, and the
\* `queued` gauge counts exactly what the worker and the decisions will still
\* take off it, so no fetch_sub of deliver or worker wraps, for every number of
\* decisions and slots and each of the three policies.
THEOREM QueueStaysExact == Spec => []QueueExact
<1>1. IInv => QueueExact
  BY SinkInvQueue DEF IInv
<1>2. QED
  BY <1>1, Inductive, PTL

\* A receipt is only ever for a record the sink holds, a certain failure only
\* for one it does not, and no record is given to the sink twice, however the
\* inline call, the ticket, the timeout, the stop of the worker and the drop of
\* the caller interleave (deliver, deliver_once, worker).
THEOREM VerdictStaysHonest == Spec => []VerdictHonest
<1>1. IInv => VerdictHonest
  BY DEF IInv, SinkInv
<1>2. QED
  BY <1>1, Inductive, PTL

\* The counters of calls and of records are exactly the ones that ended so; a
\* record with a word that none of them counts had its worker stopped or its call
\* dropped as abandoned, and a call that ends and is neither returned nor counted
\* was dropped while its entry is written, its record accepted (the Abandon guard
\* of run, deliver, deliver_once).
THEOREM EndsStayCountedOnce == Spec => []EndsCountedOnce
<1>1. ASSUME IInv
      PROVE  EndsCountedOnce
  <2>1. EachCountedOnce
    BY <1>1, SinkInvCounts DEF IInv
  <2>2. {d \in Decisions : phase[d] = "rejected"} = {d \in Decisions : phase[d] \in {"rejected"}}
    OBVIOUS
  <2>3. /\ rejected = Cardinality({d \in Decisions : phase[d] = "rejected"})
        /\ abandoned = Cardinality({d \in Decisions : phase[d] \in {"failed", "dropped"}})
    BY <1>1, <2>2 DEF IInv, CallInv, BooksOK, CountIn
  <2>4. \A d \in Decisions : phase[d] = "left" => Accepted(d)
    BY <1>1 DEF IInv, KeptOK
  <2>5. \A d \in Decisions : Verdict(d) = "gone" => phase[d] = "dropped"
    <3>1. \A d \in Decisions : ticket[d] # "gone"
      BY <1>1 DEF IInv, SinkInv, SinkTypeOK, Endings, Answers
    <3>2. QED
      BY <1>1, <3>1 DEF Verdict, IInv, UncountedOK
  <2>6. QED
    BY <2>1, <2>3, <2>4, <2>5 DEF EndsCountedOnce
<1>2. QED
  BY <1>1, Inductive, PTL
=============================================================================
