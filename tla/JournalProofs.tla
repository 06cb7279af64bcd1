--------------------------- MODULE JournalProofs ---------------------------
(***************************************************************************)
(* What the spend journal keeps for every set of attempts, every cap and   *)
(* every sequence of appends, torn and failed writes, failed syncs, kills, *)
(* power losses and reopenings, and that it implements SpendBook.          *)
(***************************************************************************)
EXTENDS Journal, FiniteSetTheorems, FunctionTheorems, SequenceTheorems, NaturalsInduction,
        WellFoundedInduction, TLAPS

-----------------------------------------------------------------------------
(* Sums.                                                                   *)

\* A function that has a sum.
Summable(f) == IsFiniteSet(DOMAIN f) /\ \A s \in DOMAIN f : f[s] \in Nat

\* What a cell is.
LEMMA CellIs ==
    ASSUME NEW f, NEW c
    PROVE  c \in Cells(f) <=> \E s \in DOMAIN f : \E i \in 1..f[s] : c = <<s, i>>
  BY DEF Cells

\* The sum is a number.
LEMMA TotalType ==
    ASSUME NEW f, Summable(f)
    PROVE  IsFiniteSet(Cells(f)) /\ Total(f) \in Nat
<1> DEFINE S == {{s} \X (1..f[s]) : s \in DOMAIN f}
<1>1. IsFiniteSet(S)
  <2> DEFINE D == DOMAIN f
             g == [s \in D |-> {s} \X (1..f[s])]
  <2>1. g \in Surjection(D, S)
    BY DEF Surjection
  <2> HIDE DEF D, g, S
  <2>2. IsFiniteSet(D)
    BY DEF D, Summable
  <2>3. QED
    BY <2>1, <2>2, FS_Surjection
<1>2. ASSUME NEW s \in DOMAIN f
      PROVE  IsFiniteSet({s} \X (1..f[s]))
  <2>1. IsFiniteSet({s}) /\ f[s] \in Int
    BY FS_Singleton DEF Summable
  <2>2. IsFiniteSet(1..f[s])
    BY <2>1, FS_Interval
  <2>3. QED
    BY <2>1, <2>2, FS_Product
<1>3. IsFiniteSet(Cells(f))
  BY <1>1, <1>2, FS_UNION DEF Cells
<1>4. QED
  BY <1>3, FS_CardinalityType DEF Total

\* Two sums bound a third when each value is covered by the value of the one
\* at the same place and of the other at a place of its own.
LEMMA TotalCover ==
    ASSUME NEW f, Summable(f), NEW g, Summable(g), NEW h, Summable(h), NEW m,
           DOMAIN g = DOMAIN f,
           \A s \in DOMAIN f : f[s] > g[s] => m[s] \in DOMAIN h /\ f[s] <= g[s] + h[m[s]],
           \A s, t \in DOMAIN f : f[s] > g[s] /\ f[t] > g[t] /\ m[s] = m[t] => s = t
    PROVE  Total(f) <= Total(g) + Total(h)
<1> DEFINE low == Cells(f) \cap Cells(g)
           high == Cells(f) \ Cells(g)
<1>1. /\ IsFiniteSet(Cells(f)) /\ IsFiniteSet(Cells(g)) /\ IsFiniteSet(Cells(h))
      /\ Total(f) \in Nat /\ Total(g) \in Nat /\ Total(h) \in Nat
  BY TotalType
<1>2. IsFiniteSet(low) /\ Cardinality(low) \in Nat /\ Cardinality(low) <= Total(g)
  BY <1>1, FS_Intersection, FS_CardinalityType DEF Total
<1>3. IsFiniteSet(high) /\ Cardinality(high) = Total(f) - Cardinality(low)
  BY <1>1, FS_Difference DEF Total
<1>4. ASSUME NEW c \in high
      PROVE  /\ c[1] \in DOMAIN f /\ c[2] \in Nat /\ c = <<c[1], c[2]>>
             /\ c[2] > g[c[1]] /\ c[2] <= f[c[1]] /\ g[c[1]] \in Nat /\ f[c[1]] \in Nat
  <2>1. PICK s \in DOMAIN f : \E i \in 1..f[s] : c = <<s, i>>
    BY CellIs
  <2>2. PICK i \in 1..f[s] : c = <<s, i>>
    BY <2>1
  <2>3. f[s] \in Nat /\ g[s] \in Nat
    BY DEF Summable
  <2>4. i \notin 1..g[s]
    BY <2>2, CellIs
  <2>5. QED
    BY <2>2, <2>3, <2>4
<1> DEFINE to == [c \in high |-> <<m[c[1]], c[2] - g[c[1]]>>]
<1>5. ASSUME NEW c \in high
      PROVE  to[c] \in Cells(h)
  <2>1. m[c[1]] \in DOMAIN h /\ f[c[1]] <= g[c[1]] + h[m[c[1]]] /\ h[m[c[1]]] \in Nat
    BY <1>4 DEF Summable
  <2>2. c[2] - g[c[1]] \in 1..h[m[c[1]]]
    BY <1>4, <2>1
  <2>3. QED
    BY <2>1, <2>2, CellIs
<1>6. ASSUME NEW c \in high, NEW d \in high, to[c] = to[d]
      PROVE  c = d
  <2>1. m[c[1]] = m[d[1]] /\ c[2] - g[c[1]] = d[2] - g[d[1]]
    BY <1>6
  <2>2. f[c[1]] > g[c[1]] /\ f[d[1]] > g[d[1]]
    BY <1>4
  <2>3. c[1] = d[1]
    BY <1>4, <2>1, <2>2
  <2>4. c[2] = d[2]
    BY <1>4, <2>1, <2>3
  <2>5. QED
    BY <1>4, <2>3, <2>4
<1>7. to \in Injection(high, Cells(h))
  BY <1>5, <1>6, Fun_IsInj
<1> HIDE DEF low, high, to
<1>8. Cardinality(high) <= Total(h)
  BY <1>1, <1>7, FS_Injection DEF Total
<1>9. QED
  BY <1>1, <1>2, <1>3, <1>8

\* A sum of nothing.
LEMMA TotalZero ==
    ASSUME NEW f, \A s \in DOMAIN f : f[s] = 0
    PROVE  Total(f) = 0
<1>1. Cells(f) = {}
  BY CellIs
<1>2. QED
  BY <1>1, FS_EmptySet DEF Total

\* A sum bounds another when each value of that one has a place of its own.
LEMMA TotalInto ==
    ASSUME NEW f, Summable(f), NEW h, Summable(h), NEW m,
           \A s \in DOMAIN f : f[s] > 0 => m[s] \in DOMAIN h /\ f[s] <= h[m[s]],
           \A s, t \in DOMAIN f : f[s] > 0 /\ f[t] > 0 /\ m[s] = m[t] => s = t
    PROVE  Total(f) <= Total(h)
<1> DEFINE g == [s \in DOMAIN f |-> 0]
<1>1. Summable(g) /\ DOMAIN g = DOMAIN f /\ Total(g) = 0
  BY TotalZero DEF Summable
<1>2. \A s \in DOMAIN f : f[s] \in Nat /\ g[s] = 0
  BY DEF Summable
<1>3. \A s \in DOMAIN f : f[s] > g[s] => m[s] \in DOMAIN h /\ f[s] <= g[s] + h[m[s]]
  BY <1>2 DEF Summable
<1>4. \A s, t \in DOMAIN f : f[s] > g[s] /\ f[t] > g[t] /\ m[s] = m[t] => s = t
  BY <1>2
<1> HIDE DEF g
<1>5. Total(f) <= Total(g) + Total(h)
  BY <1>1, <1>3, <1>4, TotalCover
<1>6. QED
  BY <1>1, <1>5, TotalType

\* Smaller values, at fewer places, have no larger sum.
LEMMA TotalMono ==
    ASSUME NEW f, Summable(f), NEW h, Summable(h), DOMAIN f \subseteq DOMAIN h,
           \A s \in DOMAIN f : f[s] <= h[s]
    PROVE  Total(f) <= Total(h)
<1> DEFINE m == [s \in DOMAIN f |-> s]
<1>1. \A s \in DOMAIN f : m[s] = s
  OBVIOUS
<1> HIDE DEF m
<1>2. QED
  BY <1>1, TotalInto

\* One value more adds no more than itself.
LEMMA TotalPut ==
    ASSUME NEW f, Summable(f), NEW h, Summable(h), NEW x, NEW n \in Nat,
           DOMAIN f \subseteq DOMAIN h \cup {x}, \A s \in DOMAIN f \ {x} : f[s] <= h[s],
           x \in DOMAIN f => f[x] <= n
    PROVE  Total(f) <= Total(h) + n
<1> DEFINE new == {x} \X (1..n)
<1>1. IsFiniteSet(new) /\ Cardinality(new) = n
  <2>1. IsFiniteSet({x}) /\ Cardinality({x}) = 1
    BY FS_Singleton
  <2>2. IsFiniteSet(1..n) /\ Cardinality(1..n) = n
    BY FS_Interval
  <2>3. IsFiniteSet({x} \X (1..n)) /\ Cardinality({x} \X (1..n)) = 1 * n
    <3>1. PICK A, B : A = {x} /\ B = 1..n
      OBVIOUS
    <3>2. IsFiniteSet(A) /\ IsFiniteSet(B) /\ Cardinality(A) = 1 /\ Cardinality(B) = n
      BY <2>1, <2>2, <3>1
    <3>3. IsFiniteSet(A \X B) /\ Cardinality(A \X B) = Cardinality(A) * Cardinality(B)
      BY <3>2, FS_Product
    <3>4. QED
      BY <3>1, <3>2, <3>3
  <2>4. QED
    BY <2>3
<1>2. ASSUME NEW c \in Cells(f)
      PROVE  c \in Cells(h) \cup new
  <2>1. PICK s \in DOMAIN f : \E i \in 1..f[s] : c = <<s, i>>
    BY CellIs
  <2>2. PICK i \in 1..f[s] : c = <<s, i>>
    BY <2>1
  <2>3. f[s] \in Nat /\ (s \in DOMAIN h => h[s] \in Nat)
    BY DEF Summable
  <2>4. CASE s = x
    <3>1. i \in 1..n
      BY <2>3, <2>4
    <3>2. QED
      BY <2>2, <2>4, <3>1
  <2>5. CASE s # x
    <3>1. s \in DOMAIN h /\ i \in 1..h[s]
      BY <2>3, <2>5
    <3>2. QED
      BY <2>2, <3>1, CellIs
  <2>6. QED
    BY <2>4, <2>5
<1> HIDE DEF new
<1>3. IsFiniteSet(Cells(h)) /\ Total(h) \in Nat
  BY TotalType
<1>4. /\ IsFiniteSet(Cells(h) \cup new)
      /\ Cardinality(Cells(h) \cup new) = Total(h) + n - Cardinality(Cells(h) \cap new)
  BY <1>1, <1>3, FS_Union DEF Total
<1>5. Cardinality(Cells(h) \cap new) \in Nat
  BY <1>3, FS_Intersection, FS_CardinalityType
<1>6. Cardinality(Cells(f)) <= Cardinality(Cells(h) \cup new) /\ Cardinality(Cells(f)) \in Nat
  BY <1>2, <1>4, FS_Subset, FS_CardinalityType
<1>7. Cardinality(Cells(h) \cup new) \in Nat
  BY <1>4, FS_CardinalityType
<1>8. QED
  BY <1>3, <1>4, <1>5, <1>6, <1>7 DEF Total

-----------------------------------------------------------------------------
(* Lines and what they replay to.                                          *)

\* A bounded set of numbers has a largest.
LEMMA MaxIs ==
    ASSUME NEW n \in Nat, NEW S, S \subseteq 0..n, S # {}
    PROVE  Max(S) \in S /\ \A y \in S : y <= Max(S)
<1> DEFINE T == {n - x : x \in S}
           R == OpToRel(<, Nat)
<1>1. T \subseteq Nat /\ T # {}
  <2>1. \A x \in S : x \in 0..n
    OBVIOUS
  <2>2. \A x \in S : n - x \in Nat
    BY <2>1
  <2>3. QED
    BY <2>2
<1>2. \A x, y \in Nat : y < x => <<y, x>> \in R
  BY DEF OpToRel
<1>3. IsWellFoundedOn(R, Nat)
  BY NatLessThanWellFounded
<1> HIDE DEF R
<1>4. PICK x \in T : \A y \in T : ~(<<y, x>> \in R)
  <2> HIDE DEF T
  <2>1. QED
    BY <1>1, <1>3, WFMin
<1>5. PICK z \in S : x = n - z
  OBVIOUS
<1>6. ASSUME NEW y \in S
      PROVE  z >= y
  <2>1. n - y \in T /\ n - y \in Nat /\ x \in Nat
    BY <1>1
  <2>2. ~(n - y < x)
    BY <1>2, <1>4, <2>1
  <2>3. QED
    BY <1>5, <2>1, <2>2
<1>7. \E v \in S : \A y \in S : v >= y
  BY <1>6
<1>8. Max(S) \in S /\ \A y \in S : Max(S) >= y
  BY <1>7 DEF Max
<1>9. QED
  BY <1>8

\* The numbers of the reservations in the lines.
Seqs(ls) == {ls[i].seq : i \in Reserves(ls)}

LEMMA ReplayedDomain == ASSUME NEW ls PROVE DOMAIN Replayed(ls) = Seqs(ls)
  BY DEF Replayed, Seqs

\* What a line more changes.
LEMMA EntriesAppend ==
    ASSUME NEW L, NEW ls \in Seq(L), ls # <<>>, NEW l \in L
    PROVE  LET ms == Append(ls, l) IN
           /\ Len(ls) \in Nat \ {0} /\ Len(ms) = Len(ls) + 1
           /\ Entries(ms) = Entries(ls) \cup {Len(ls) + 1} /\ Len(ls) + 1 \notin Entries(ls)
           /\ ms[1] = ls[1] /\ \A i \in Entries(ls) : ms[i] = ls[i]
           /\ ms[Len(ls) + 1] = l
           /\ \A i \in Entries(ls) : i \in Nat /\ 2 <= i /\ i <= Len(ls)
<1>1. Len(ls) \in Nat /\ Len(ls) # 0
  BY LenProperties, EmptySeq
<1>2. /\ Len(Append(ls, l)) = Len(ls) + 1 /\ Append(ls, l)[Len(ls) + 1] = l
      /\ \A i \in 1..Len(ls) : Append(ls, l)[i] = ls[i]
  BY AppendProperties
<1>3. QED
  BY <1>1, <1>2 DEF Entries

LEMMA ReservesAppend ==
    ASSUME NEW L, NEW ls \in Seq(L), ls # <<>>, NEW l \in L
    PROVE  LET ms == Append(ls, l) IN
           Reserves(ms) = IF l.op = "reserve" THEN Reserves(ls) \cup {Len(ls) + 1}
                          ELSE Reserves(ls)
  BY EntriesAppend DEF Reserves

\* Which lines a replay accepts one after the other.
LEMMA ReplaysAppend ==
    ASSUME NEW L, NEW ls \in Seq(L), ls # <<>>, NEW l \in L
    PROVE  Replays(Append(ls, l)) <=>
             /\ Replays(ls) /\ l.op # "garbage"
             /\ l.op = "reserve" => l.seq \notin Seqs(ls)
             /\ l.op # "reserve" => l.seq \in Seqs(ls)
<1> DEFINE ms == Append(ls, l)
           n == Len(ls) + 1
<1>1. /\ Len(ls) > 0 /\ Len(ms) > 0 /\ ms[1] = ls[1] /\ n \in Nat
      /\ Entries(ms) = Entries(ls) \cup {n} /\ n \notin Entries(ls)
      /\ ms[n] = l /\ \A i \in Entries(ls) : ms[i] = ls[i] /\ i \in Nat /\ i < n
  BY EntriesAppend
<1>2. /\ Reserves(ls) \subseteq Entries(ls) /\ (\A i \in Reserves(ls) : ls[i].op = "reserve")
      /\ l.op = "reserve" => Reserves(ms) = Reserves(ls) \cup {n}
      /\ l.op # "reserve" => Reserves(ms) = Reserves(ls)
  <2>1. Reserves(ms) = IF l.op = "reserve" THEN Reserves(ls) \cup {n} ELSE Reserves(ls)
    BY ReservesAppend
  <2>2. Reserves(ls) \subseteq Entries(ls) /\ (\A i \in Reserves(ls) : ls[i].op = "reserve")
    BY DEF Reserves
  <2>3. QED
    BY <2>1, <2>2
<1> HIDE DEF ms, n
<1>3. ASSUME Replays(ms)
      PROVE  /\ Replays(ls) /\ l.op # "garbage"
             /\ l.op = "reserve" => l.seq \notin Seqs(ls)
             /\ l.op # "reserve" => l.seq \in Seqs(ls)
  <2>1. Replays(ls)
    <3>1. ASSUME NEW i \in Entries(ls)
          PROVE  /\ ls[i].op # "garbage"
                 /\ ls[i].op = "reserve" => \A j \in Reserves(ls) : ls[j].seq = ls[i].seq => j = i
                 /\ ls[i].op # "reserve" => \E j \in Reserves(ls) : j < i /\ ls[j].seq = ls[i].seq
      <4>1. /\ ms[i].op # "garbage"
            /\ ms[i].op = "reserve" => \A j \in Reserves(ms) : ms[j].seq = ms[i].seq => j = i
            /\ ms[i].op # "reserve" => \E j \in Reserves(ms) : j < i /\ ms[j].seq = ms[i].seq
        BY <1>1, <1>3 DEF Replays
      <4>2. \A j \in Reserves(ms) : j \in Reserves(ls) \/ j = n
        BY <1>2
      <4>3. ~(n < i)
        BY <1>1
      <4>4. Reserves(ls) \subseteq Reserves(ms) /\ \A j \in Reserves(ls) : ms[j] = ls[j]
        BY <1>1, <1>2
      <4>5. ms[i] = ls[i]
        BY <1>1
      <4>6. ASSUME ls[i].op # "reserve"
            PROVE  \E j \in Reserves(ls) : j < i /\ ls[j].seq = ls[i].seq
        <5>1. PICK j \in Reserves(ms) : j < i /\ ms[j].seq = ms[i].seq
          BY <4>1, <4>5, <4>6
        <5>2. j \in Reserves(ls)
          <6>1. j # n
            BY <5>1, <1>1
          <6>2. QED
            BY <4>2, <6>1
        <5>3. QED
          BY <4>4, <4>5, <5>1, <5>2
      <4>7. QED
        BY <4>1, <4>4, <4>5, <4>6
    <3>2. QED
      BY <1>1, <1>3, <3>1 DEF Replays
  <2>2. /\ l.op # "garbage"
        /\ l.op = "reserve" => \A j \in Reserves(ms) : ms[j].seq = l.seq => j = n
        /\ l.op # "reserve" => \E j \in Reserves(ms) : j < n /\ ms[j].seq = l.seq
    <3>1. n \in Entries(ms) /\ ms[n] = l
      BY <1>1
    <3>2. QED
      BY <1>3, <3>1 DEF Replays
  <2>3. QED
    BY <1>1, <1>2, <2>1, <2>2 DEF Seqs
<1>4. ASSUME Replays(ls), l.op # "garbage", l.op = "reserve" => l.seq \notin Seqs(ls),
             l.op # "reserve" => l.seq \in Seqs(ls)
      PROVE  Replays(ms)
  <2>1. ASSUME NEW i \in Entries(ms)
        PROVE  /\ ms[i].op # "garbage"
               /\ ms[i].op = "reserve" => \A j \in Reserves(ms) : ms[j].seq = ms[i].seq => j = i
               /\ ms[i].op # "reserve" => \E j \in Reserves(ms) : j < i /\ ms[j].seq = ms[i].seq
    <3>1. Reserves(ls) \subseteq Reserves(ms) /\ \A j \in Reserves(ls) : ms[j] = ls[j] /\ j < n
      BY <1>1, <1>2
    <3>2. CASE i = n
      BY <1>1, <1>2, <1>4, <3>1, <3>2 DEF Seqs
    <3>3. CASE i \in Entries(ls)
      <4>1. /\ ls[i].op # "garbage" /\ ms[i] = ls[i]
            /\ ls[i].op = "reserve" => \A j \in Reserves(ls) : ls[j].seq = ls[i].seq => j = i
            /\ ls[i].op # "reserve" => \E j \in Reserves(ls) : j < i /\ ls[j].seq = ls[i].seq
        BY <1>1, <1>4, <3>3 DEF Replays
      <4>2. ASSUME ls[i].op = "reserve", NEW j \in Reserves(ms), ms[j].seq = ls[i].seq
            PROVE  j = i
        <5>1. i \in Reserves(ls)
          BY <3>3, <4>2 DEF Reserves
        <5>2. j \in Reserves(ls)
          <6>1. CASE j = n
            BY <1>1, <1>2, <1>4, <4>2, <5>1, <6>1 DEF Seqs
          <6>2. QED
            BY <1>2, <6>1
        <5>3. QED
          BY <3>1, <4>1, <4>2, <5>2
      <4>3. QED
        BY <3>1, <4>1, <4>2
    <3>4. QED
      BY <1>1, <3>2, <3>3
  <2>2. QED
    BY <1>1, <1>4, <2>1 DEF Replays
<1>5. QED
  BY <1>3, <1>4 DEF ms

\* The line that made a reservation is the only one.
Origin(ls, s) == ls[CHOOSE i \in Reserves(ls) : ls[i].seq = s]

LEMMA OriginIs ==
    ASSUME NEW ls, Replays(ls), NEW i \in Reserves(ls), NEW s, ls[i].seq = s
    PROVE  Origin(ls, s) = ls[i]
<1>1. i \in Entries(ls) /\ ls[i].op = "reserve"
  BY DEF Reserves
<1>2. \A j \in Reserves(ls) : ls[j].seq = s => j = i
  BY <1>1 DEF Replays
<1>3. (CHOOSE j \in Reserves(ls) : ls[j].seq = s) = i
  BY <1>2
<1>4. QED
  BY <1>3 DEF Origin

\* The lines about a reservation; the last one says its state.
About(ls, s) == {i \in Entries(ls) : ls[i].seq = s}

LEMMA StateIs ==
    ASSUME NEW ls, NEW s, NEW n, n = Max(About(ls, s))
    PROVE  StateOf(ls, s) = IF ls[n].op = "reserve" THEN Outstanding ELSE ls[n].to
  BY DEF StateOf, About

\* A line changes the state of its own reservation, and of no other.
LEMMA StateAppend ==
    ASSUME NEW L, NEW ls \in Seq(L), ls # <<>>, NEW l \in L
    PROVE  LET ms == Append(ls, l) IN
           /\ \A s \in Seqs(ls) : s # l.seq => StateOf(ms, s) = StateOf(ls, s)
           /\ StateOf(ms, l.seq) = IF l.op = "reserve" THEN Outstanding ELSE l.to
<1> DEFINE ms == Append(ls, l)
           n == Len(ls) + 1
<1>1. /\ n \in Nat /\ Entries(ms) = Entries(ls) \cup {n} /\ n \notin Entries(ls)
      /\ ms[n] = l /\ \A i \in Entries(ls) : ms[i] = ls[i] /\ i \in 0..n /\ i < n
  BY EntriesAppend
<1>2. ASSUME NEW s \in Seqs(ls), s # l.seq
      PROVE  StateOf(ms, s) = StateOf(ls, s)
  <2>1. About(ms, s) = About(ls, s)
    BY <1>1, <1>2 DEF About
  <2>2. About(ls, s) # {} /\ About(ls, s) \subseteq 0..n
    BY <1>1, <1>2 DEF Seqs, Reserves, About
  <2>3. PICK S : S = About(ls, s)
    OBVIOUS
  <2>4. Max(S) \in S
    BY <1>1, <2>2, <2>3, MaxIs
  <2>5. PICK k : k = Max(S)
    OBVIOUS
  <2>6. ms[k] = ls[k]
    BY <1>1, <2>3, <2>4, <2>5 DEF About
  <2>7. k = Max(About(ms, s)) /\ k = Max(About(ls, s))
    BY <2>1, <2>3, <2>5
  <2>8. StateOf(ms, s) = IF ms[k].op = "reserve" THEN Outstanding ELSE ms[k].to
    BY <2>7, StateIs
  <2>9. StateOf(ls, s) = IF ls[k].op = "reserve" THEN Outstanding ELSE ls[k].to
    BY <2>7, StateIs
  <2>10. QED
    BY <2>6, <2>8, <2>9
<1>3. StateOf(ms, l.seq) = IF l.op = "reserve" THEN Outstanding ELSE l.to
  <2>1. PICK S : S = About(ms, l.seq)
    OBVIOUS
  <2>2. n \in S /\ S \subseteq 0..n
    BY <1>1, <2>1 DEF About
  <2>3. Max(S) \in S /\ \A y \in S : y <= Max(S)
    BY <1>1, <2>2, MaxIs
  <2>4. PICK k : k = Max(S)
    OBVIOUS
  <2>5. k \in 0..n /\ n <= k
    BY <2>2, <2>3, <2>4
  <2>6. k = n
    BY <1>1, <2>5
  <2>7. n = Max(About(ms, l.seq))
    BY <2>1, <2>4, <2>6
  <2>8. StateOf(ms, l.seq) = IF ms[n].op = "reserve" THEN Outstanding ELSE ms[n].to
    BY <2>7, StateIs
  <2>9. QED
    BY <1>1, <2>8
<1>4. QED
  BY <1>2, <1>3

\* What the replay holds under a number.
At(ls, s) == [Res(Origin(ls, s).attempt, Origin(ls, s).period, Origin(ls, s).units)
                EXCEPT !.state = Found(StateOf(ls, s))]

LEMMA ReplayedFun == ASSUME NEW ls PROVE Replayed(ls) = [s \in Seqs(ls) |-> Replayed(ls)[s]]
<1>1. \E f : Replayed(ls) = [s \in Seqs(ls) |-> f[s]]
  <2> DEFINE f == [s \in Seqs(ls) |-> At(ls, s)]
  <2>1. Replayed(ls) = f
    BY DEF Replayed, Seqs, Origin, At
  <2>2. f = [s \in Seqs(ls) |-> f[s]]
    OBVIOUS
  <2>3. QED
    BY <2>1, <2>2
<1>2. QED
  BY <1>1

LEMMA ReplayedAt ==
    ASSUME NEW ls, NEW s \in Seqs(ls)
    PROVE  /\ s \in DOMAIN Replayed(ls)
           /\ Replayed(ls)[s] = At(ls, s)
  BY DEF Replayed, Seqs, Origin, At

LEMMA OriginAppend ==
    ASSUME NEW L, NEW ls \in Seq(L), ls # <<>>, NEW l \in L, Replays(Append(ls, l))
    PROVE  /\ \A s \in Seqs(ls) : Origin(Append(ls, l), s) = Origin(ls, s)
           /\ l.op = "reserve" => Origin(Append(ls, l), l.seq) = l
<1> DEFINE ms == Append(ls, l)
           n == Len(ls) + 1
<1>1. ms[n] = l /\ \A i \in Entries(ls) : ms[i] = ls[i]
  BY EntriesAppend
<1>2. Reserves(ms) = IF l.op = "reserve" THEN Reserves(ls) \cup {n} ELSE Reserves(ls)
  BY ReservesAppend
<1>3. Replays(ls) /\ Replays(ms) /\ Reserves(ls) \subseteq Entries(ls)
  BY ReplaysAppend DEF Reserves
<1> HIDE DEF ms, n
<1>4. ASSUME NEW s \in Seqs(ls)
      PROVE  Origin(ms, s) = Origin(ls, s)
  <2>1. PICK i \in Reserves(ls) : ls[i].seq = s
    BY DEF Seqs
  <2>2. i \in Reserves(ms) /\ ms[i] = ls[i]
    BY <1>1, <1>2, <1>3
  <2>3. Origin(ls, s) = ls[i]
    BY <1>3, <2>1, OriginIs
  <2>4. Origin(ms, s) = ms[i]
    BY <1>3, <2>1, <2>2, OriginIs
  <2>5. QED
    BY <2>2, <2>3, <2>4
<1>5. ASSUME l.op = "reserve"
      PROVE  Origin(ms, l.seq) = l
  <2>1. n \in Reserves(ms) /\ ms[n].seq = l.seq
    BY <1>1, <1>2, <1>5
  <2>2. QED
    BY <1>1, <1>3, <2>1, OriginIs
<1>6. QED
  BY <1>4, <1>5 DEF ms

\* A reservation recorded: one more in the book, as a liability.
Reserved(b, c, s, r) ==
    /\ s \notin DOMAIN b /\ DOMAIN c = DOMAIN b \cup {s} /\ (\A t \in DOMAIN b : c[t] = b[t])
    /\ c[s] = [r EXCEPT !.state = Liability]

\* An outcome recorded: the state of one reservation, and nothing else.
Recorded(b, c, s, st) ==
    /\ s \in DOMAIN b /\ DOMAIN c = DOMAIN b /\ (\A t \in DOMAIN b \ {s} : c[t] = b[t])
    /\ c[s] = [b[s] EXCEPT !.state = st]

LEMMA ReplayReserve ==
    ASSUME NEW L, NEW ls \in Seq(L), ls # <<>>, NEW s, NEW p, NEW a, NEW u,
           Reserve(s, p, a, u) \in L, Replays(Append(ls, Reserve(s, p, a, u)))
    PROVE  /\ Replays(ls)
           /\ Reserved(Replayed(ls), Replayed(Append(ls, Reserve(s, p, a, u))), s, Res(a, p, u))
<1> DEFINE l == Reserve(s, p, a, u)
           ms == Append(ls, l)
<1>1. l.op = "reserve" /\ l.seq = s /\ l.attempt = a /\ l.period = p /\ l.units = u
  BY DEF Reserve
<1> HIDE DEF l
<1>2. l \in L /\ Replays(ms)
  BY DEF l
<1>3. Replays(ls) /\ s \notin Seqs(ls)
  BY <1>1, <1>2, ReplaysAppend
<1>4. Seqs(ms) = Seqs(ls) \cup {s}
  <2>1. Reserves(ms) = Reserves(ls) \cup {Len(ls) + 1}
    BY <1>1, <1>2, ReservesAppend
  <2>2. ms[Len(ls) + 1] = l /\ \A i \in Reserves(ls) : ms[i] = ls[i]
    BY <1>2, EntriesAppend DEF Reserves
  <2>3. QED
    <3>1. PICK R, n : R = Reserves(ls) /\ n = Len(ls) + 1
      OBVIOUS
    <3>2. /\ Reserves(ms) = R \cup {n} /\ ms[n].seq = s
          /\ \A i \in R : ms[i].seq = ls[i].seq
      BY <1>1, <2>1, <2>2, <3>1
    <3>3. \A y : y \in Seqs(ms) <=> \E i \in R \cup {n} : y = ms[i].seq
      BY <3>2 DEF Seqs
    <3>4. \A y : y \in Seqs(ls) <=> \E i \in R : y = ls[i].seq
      BY <3>1 DEF Seqs
    <3>5. \A y : (\E i \in R \cup {n} : y = ms[i].seq) <=> (\E i \in R : y = ls[i].seq) \/ y = s
      BY <3>2
    <3>6. \A y : y \in Seqs(ms) <=> y \in Seqs(ls) \/ y = s
      BY <3>3, <3>4, <3>5
    <3>7. QED
      BY <3>6
<1>5. /\ \A t \in Seqs(ls) : Origin(ms, t) = Origin(ls, t) /\ StateOf(ms, t) = StateOf(ls, t)
      /\ Origin(ms, s) = l /\ StateOf(ms, s) = Outstanding
  BY <1>1, <1>2, <1>3, OriginAppend, StateAppend
<1>6. ASSUME NEW t \in Seqs(ls)
      PROVE  Replayed(ms)[t] = Replayed(ls)[t]
  <2>1. t \in Seqs(ms) /\ Origin(ms, t) = Origin(ls, t) /\ StateOf(ms, t) = StateOf(ls, t)
    BY <1>4, <1>5
  <2>2. Replayed(ls)[t] = At(ls, t) /\ Replayed(ms)[t] = At(ms, t)
    BY <2>1, ReplayedAt
  <2>3. QED
    BY <2>1, <2>2 DEF At
<1>7. Replayed(ms)[s] = [Res(a, p, u) EXCEPT !.state = Liability]
  <2>1. s \in Seqs(ms)
    BY <1>4
  <2>2. Replayed(ms)[s] = At(ms, s)
    BY <2>1, ReplayedAt
  <2>3. QED
    BY <1>1, <1>5, <2>2 DEF At, Found
<1>8. DOMAIN Replayed(ms) = DOMAIN Replayed(ls) \cup {s}
  BY <1>4, ReplayedDomain
<1>9. QED
  BY <1>3, <1>6, <1>7, <1>8, ReplayedDomain DEF Reserved, l

LEMMA ReplayOutcome ==
    ASSUME NEW L, NEW ls \in Seq(L), ls # <<>>, NEW l \in L, l.op # "reserve",
           Replays(Append(ls, l))
    PROVE  /\ Replays(ls)
           /\ Recorded(Replayed(ls), Replayed(Append(ls, l)), l.seq, Found(l.to))
<1> DEFINE ms == Append(ls, l)
           s == l.seq
<1>1. Replays(ls) /\ s \in Seqs(ls)
  BY ReplaysAppend
<1>2. Seqs(ms) = Seqs(ls)
  <2>1. Reserves(ms) = Reserves(ls)
    BY ReservesAppend
  <2>2. \A i \in Reserves(ls) : ms[i] = ls[i]
    BY EntriesAppend DEF Reserves
  <2>3. QED
    BY <2>1, <2>2 DEF Seqs
<1>3. /\ \A t \in Seqs(ls) : Origin(ms, t) = Origin(ls, t)
      /\ \A t \in Seqs(ls) \ {s} : StateOf(ms, t) = StateOf(ls, t)
      /\ StateOf(ms, s) = l.to
  BY <1>1, OriginAppend, StateAppend
<1> HIDE DEF s, ms
<1>4. ASSUME NEW t \in Seqs(ls) \ {s}
      PROVE  Replayed(ms)[t] = Replayed(ls)[t]
  <2>1. t \in Seqs(ms) /\ Origin(ms, t) = Origin(ls, t) /\ StateOf(ms, t) = StateOf(ls, t)
    BY <1>2, <1>3
  <2>2. Replayed(ls)[t] = At(ls, t) /\ Replayed(ms)[t] = At(ms, t)
    BY <2>1, ReplayedAt
  <2>3. QED
    BY <2>1, <2>2 DEF At
<1>5. Replayed(ms)[s] = [Replayed(ls)[s] EXCEPT !.state = Found(l.to)]
  <2>1. PICK o : o = Origin(ls, s)
    OBVIOUS
  <2>2. Replayed(ls)[s] = [Res(o.attempt, o.period, o.units) EXCEPT !.state = Found(StateOf(ls, s))]
    BY <1>1, <2>1, ReplayedAt DEF At
  <2>3. Replayed(ms)[s] = [Res(o.attempt, o.period, o.units) EXCEPT !.state = Found(l.to)]
    BY <1>1, <1>2, <1>3, <2>1, ReplayedAt DEF At
  <2>4. QED
    BY <2>2, <2>3 DEF Res
<1>6. DOMAIN Replayed(ms) = DOMAIN Replayed(ls)
  BY <1>2, ReplayedDomain
<1>7. QED
  BY <1>1, <1>4, <1>5, <1>6, ReplayedDomain DEF Recorded, s, ms

\* No line makes a file replay that did not.
LEMMA ReplayGarbage ==
    ASSUME NEW L, NEW ls \in Seq(L), ls # <<>>, Garbage \in L
    PROVE  ~Replays(Append(ls, Garbage))
  BY ReplaysAppend DEF Garbage

\* A file of a header alone holds nothing.
LEMMA ReplayHeader ==
    ASSUME NEW cap
    PROVE  Replays(<<Header(cap)>>) /\ DOMAIN Replayed(<<Header(cap)>>) = {}
<1>1. Entries(<<Header(cap)>>) = {}
  BY DEF Entries
<1>2. Reserves(<<Header(cap)>>) = {}
  BY <1>1 DEF Reserves
<1>3. QED
  BY <1>1, <1>2 DEF Replays, Replayed, Header

\* The header plays no part in the book.
LEMMA ReplayMigrated ==
    ASSUME NEW L, NEW ls \in Seq(L), Replays(ls), NEW l \in L, l.op = "header",
           NEW ms, ms = [ls EXCEPT ![1] = l]
    PROVE  ms \in Seq(L) /\ ms # <<>> /\ Replays(ms) /\ Replayed(ms) = Replayed(ls)
<1>1. Len(ls) \in Nat \ {0} /\ DOMAIN ls = 1..Len(ls) /\ ls \in [1..Len(ls) -> L]
  BY LenProperties DEF Replays
<1>2. ms \in [1..Len(ls) -> L]
  BY <1>1
<1>3. ms \in Seq(L) /\ Len(ms) = Len(ls)
  BY <1>1, <1>2
<1>4. ms # <<>> /\ ms[1] = l /\ \A i \in 2..Len(ls) : ms[i] = ls[i]
  BY <1>1, <1>3
<1>5. Entries(ms) = Entries(ls) /\ \A i \in Entries(ls) : ms[i] = ls[i]
  BY <1>3, <1>4 DEF Entries
<1>6. Reserves(ms) = Reserves(ls) /\ \A i \in Reserves(ls) : ms[i] = ls[i]
  BY <1>5 DEF Reserves
<1>7. Replays(ms)
  <2>1. Len(ms) > 0 /\ ms[1].op = "header"
    BY <1>1, <1>3, <1>4
  <2>2. QED
    <3>1. ASSUME NEW i \in Entries(ls)
          PROVE  /\ ms[i].op # "garbage"
                 /\ ms[i].op = "reserve" => \A j \in Reserves(ls) : ms[j].seq = ms[i].seq => j = i
                 /\ ms[i].op # "reserve" => \E j \in Reserves(ls) : j < i /\ ms[j].seq = ms[i].seq
      <4>1. /\ ls[i].op # "garbage" /\ ms[i] = ls[i]
            /\ ls[i].op = "reserve" => \A j \in Reserves(ls) : ls[j].seq = ls[i].seq => j = i
            /\ ls[i].op # "reserve" => \E j \in Reserves(ls) : j < i /\ ls[j].seq = ls[i].seq
        BY <1>5 DEF Replays
      <4>2. QED
        BY <1>6, <4>1
    <3>2. \A i \in Entries(ms) :
            /\ ms[i].op # "garbage"
            /\ ms[i].op = "reserve" => \A j \in Reserves(ms) : ms[j].seq = ms[i].seq => j = i
            /\ ms[i].op # "reserve" => \E j \in Reserves(ms) : j < i /\ ms[j].seq = ms[i].seq
      <4>1. Entries(ms) = Entries(ls) /\ Reserves(ms) = Reserves(ls)
        BY <1>5, <1>6
      <4>2. QED
        BY <3>1, <4>1
    <3>3. QED
      BY <2>1, <3>2 DEF Replays
<1>8. Seqs(ms) = Seqs(ls)
  BY <1>6 DEF Seqs
<1>9. ASSUME NEW s \in Seqs(ls)
      PROVE  Replayed(ms)[s] = Replayed(ls)[s]
  <2>1. PICK i \in Reserves(ls) : ls[i].seq = s
    BY DEF Seqs
  <2>2. Origin(ls, s) = ls[i]
    BY <2>1, OriginIs
  <2>3. Origin(ms, s) = ms[i] /\ ms[i] = ls[i]
    <3>1. i \in Reserves(ms) /\ ms[i] = ls[i]
      BY <1>6
    <3>2. QED
      BY <1>7, <2>1, <3>1, OriginIs
  <2>4. PICK S : S = About(ls, s)
    OBVIOUS
  <2>5. S = About(ms, s)
    BY <1>5, <2>4 DEF About
  <2>6. S # {} /\ S \subseteq 0..Len(ls)
    BY <1>1, <2>1, <2>4 DEF Reserves, Entries, About
  <2>7. PICK k : k = Max(S)
    OBVIOUS
  <2>8. k \in S
    BY <1>1, <2>6, <2>7, MaxIs
  <2>9. ms[k] = ls[k]
    BY <1>5, <2>4, <2>8 DEF About
  <2>10. StateOf(ms, s) = StateOf(ls, s)
    <3>1. \A ks : k = Max(About(ks, s)) =>
                    StateOf(ks, s) = IF ks[k].op = "reserve" THEN Outstanding ELSE ks[k].to
      BY StateIs
    <3>2. k = Max(About(ms, s)) /\ k = Max(About(ls, s))
      BY <2>4, <2>5, <2>7
    <3>3. QED
      BY <2>9, <3>1, <3>2
  <2>11. s \in Seqs(ms) /\ Origin(ms, s) = Origin(ls, s)
    BY <1>8, <2>2, <2>3
  <2>12. Replayed(ls)[s] = At(ls, s) /\ Replayed(ms)[s] = At(ms, s)
    BY <2>11, ReplayedAt
  <2>13. QED
    BY <2>10, <2>11, <2>12 DEF At
<1>10. Replayed(ms) = Replayed(ls)
  <2>1. \A s \in Seqs(ls) : Replayed(ms)[s] = Replayed(ls)[s]
    BY <1>9
  <2>2. DOMAIN Replayed(ms) = Seqs(ls) /\ DOMAIN Replayed(ls) = Seqs(ls)
    BY <1>8, ReplayedDomain
  <2>3. /\ Replayed(ms) = [s \in Seqs(ms) |-> Replayed(ms)[s]]
        /\ Replayed(ls) = [s \in Seqs(ls) |-> Replayed(ls)[s]]
    BY ReplayedFun
  <2>4. QED
    BY <1>8, <2>1, <2>3
<1>11. QED
  BY <1>3, <1>4, <1>7, <1>10

-----------------------------------------------------------------------------
(* The inductive invariant.                                                *)

States == {Outstanding, Liability} \cup Book!Outcomes

Reservation == [attempt : Attempts, period : Periods, units : Nat, state : States]

\* What a reservation counts for, up to the units reserved.
Capped(r) == IF Counted(r) > r.units THEN r.units ELSE Counted(r)

PeriodFits(b, p) == Total([s \in InPeriod(b, p) |-> Capped(b[s])]) <= Cap
RunFits(b) == Total([s \in InRun(b) |-> Capped(b[s])]) <= RunCap

\* A book within its caps, with one reservation for an attempt.
Sound(b) ==
    /\ DOMAIN b \subseteq 1..MaxSeq /\ \A s \in DOMAIN b : b[s] \in Reservation
    /\ \A s, t \in DOMAIN b : b[s].attempt = b[t].attempt => s = t
    /\ (\A p \in Periods : PeriodFits(b, p)) /\ RunFits(b)

\* What the users know: what was acknowledged to them, where they are, what
\* they reserved and what they spent, and whose reservation is being recorded.
View == [acked |-> acked, fate |-> fate, per |-> per, told |-> told, spent |-> spent,
         writing |-> IF op.then = "reserve" THEN {op.who} ELSE {}]

Same(r, q) == r.attempt = q.attempt /\ r.period = q.period /\ r.units = q.units

\* A book has what was acknowledged, or what may have followed it.
Keeps(b, v) ==
    /\ DOMAIN v.acked \subseteq DOMAIN b
    /\ \A s \in DOMAIN v.acked :
         /\ Same(b[s], v.acked[s])
         /\ b[s].state = v.acked[s].state \/ b[s].state \in Book!After(v.acked[s].state)

\* A reservation says the truth about its attempt.
Honest(r, v) ==
    LET a == r.attempt IN
    /\ r.period = v.per[a] /\ v.fate[a] # "new"
    /\ r.state.tag = "observed" => r.state.units = v.spent[a]
    /\ r.state.tag = "estimated" => v.told[a] <= r.state.units
    /\ r.state = Released => v.spent[a] = 0
    /\ r.state \notin {Outstanding, Liability} => v.fate[a] = "gone"
    /\ v.spent[a] > 0 \/ v.fate[a] \in {"held", "sent"} => v.told[a] <= r.units
    /\ v.fate[a] = "asking" => a \in v.writing

\* Nothing is sent on a reservation that was not acknowledged.
Extra(r, v) ==
    /\ v.spent[r.attempt] = 0 /\ v.fate[r.attempt] \in {"asking", "gone"}
    /\ r.state.tag # "estimated"

Holds(b, v) ==
    /\ Sound(b) /\ Keeps(b, v)
    /\ \A s \in DOMAIN b : Honest(b[s], v) /\ (s \notin DOMAIN v.acked => Extra(b[s], v))

\* A file, once a process opens it.
LinesOK(ls, v) ==
    /\ ls = <<>> => DOMAIN v.acked = {}
    /\ Replays(ls) => /\ Holds(Replayed(ls), v)
                      /\ \A s \in DOMAIN Replayed(ls) : Replayed(ls)[s].state # Outstanding

Present == images \cup {disk}
FilesOK == \A f \in Present : LinesOK(f.lines, View)
Readable == ~failed => \A f \in Present : Mendable(f)

\* An attempt that holds a reservation has it in memory and acknowledged; one
\* that has spent had it acknowledged.
ClientOK(a) ==
    /\ fate[a] \in {"new", "asking", "held"} => spent[a] = 0
    /\ fate[a] \in {"asking", "held", "sent"} => up
    /\ fate[a] \in {"held", "sent"} =>
         /\ ticket[a] \in DOMAIN res /\ ticket[a] \in DOMAIN acked
         /\ res[ticket[a]].attempt = a
    /\ spent[a] > 0 => \E s \in DOMAIN acked : acked[s].attempt = a

\* The book of a file beside the book in memory: one reservation more at most,
\* and outcomes that memory has not.
Beside(b, r, n) ==
    /\ DOMAIN r \subseteq DOMAIN b /\ DOMAIN b \subseteq DOMAIN r \cup {n}
    /\ \A s \in DOMAIN r : Same(b[s], r[s]) /\ b[s].state \in Book!After(r[s].state)

Numbered(r, n, v) ==
    \A s \in DOMAIN r : s < n /\ (r[s].state # Outstanding => v.fate[r[s].attempt] = "gone")

MemOK ==
    up => /\ Holds(res, View) /\ Numbered(res, next_seq, View) /\ disk.lines # <<>>
          /\ Replays(disk.lines) => Beside(Replayed(disk.lines), res, next_seq)
          /\ ~failed => /\ Replays(disk.lines) /\ ~disk.torn /\ ~disk.split
                        /\ op.then # "reserve" => DOMAIN Replayed(disk.lines) = DOMAIN res

\* The reservation that is being recorded fits, and the file has it.
ReserveOK ==
    op.then = "reserve" =>
      /\ up /\ op.who \in Attempts /\ op.units \in Amounts /\ fate[op.who] = "asking"
      /\ next_seq \in 1..MaxSeq
      /\ totals(res, per[op.who]) + op.units <= Cap
      /\ op.who \in RunAttempts => run_total(res) + op.units <= RunCap
      /\ \A s \in DOMAIN res : res[s].attempt # op.who
      /\ Replays(disk.lines) =>
           /\ next_seq \in DOMAIN Replayed(disk.lines)
           /\ Replayed(disk.lines)[next_seq]
                = [Res(op.who, per[op.who], op.units) EXCEPT !.state = Liability]

\* The outcome that is being recorded is one the reservation may have, it is
\* true, and the file has it.
Due(st, to) ==
    \/ st = Outstanding /\ to \in Book!Outcomes
    \/ st \in {Liability, Unknown} /\ to \in Book!Observations
Tells(a, to, v) ==
    /\ v.fate[a] = "gone" /\ (to.tag = "observed" => to.units = v.spent[a])
    /\ to.tag = "estimated" => v.told[a] <= to.units
    /\ to = Released => v.spent[a] = 0
OutcomeOK ==
    op.then = "outcome" =>
      /\ up /\ op.seq \in DOMAIN res /\ Due(res[op.seq].state, op.to)
      /\ Tells(res[op.seq].attempt, op.to, View)
      /\ op.to.tag = "estimated" => op.seq \in DOMAIN acked
      /\ Replays(disk.lines) => Replayed(disk.lines)[op.seq].state = op.to

\* While a journal is being opened nobody has it, and the file ends whole.
OpenOK ==
    /\ op.then \in {"read", "header", "cut", "replay", "renamed"} => ~up
    /\ op.then \in {"header", "cut", "replay", "renamed"} => ~disk.torn /\ ~disk.split
    /\ op.then = "header" => DOMAIN acked = {}

Lines ==
    {Garbage, Header(Cap), Header(OldCap)}
      \cup {Reserve(s, p, a, u) : s \in 1..MaxSeq, p \in Periods, a \in Attempts, u \in Amounts}
      \cup [op : {"settle", "reconcile", "release"}, seq : 1..MaxSeq, to : Book!Outcomes]
Files == [lines : Seq(Lines), torn : BOOLEAN, split : BOOLEAN]

TypeOK ==
    /\ kind \in Kinds /\ month \in Periods
    /\ disk \in Files /\ images \subseteq Files
    /\ up \in BOOLEAN /\ failed \in BOOLEAN /\ next_seq \in Nat \ {0}
    /\ fate \in [Attempts -> {"new", "asking", "held", "sent", "gone"}]
    /\ per \in [Attempts -> Periods] /\ ticket \in [Attempts -> Nat]
    /\ told \in [Attempts -> Nat] /\ spent \in [Attempts -> 0..MaxCharge]
    /\ DOMAIN acked \subseteq 1..MaxSeq /\ \A s \in DOMAIN acked : acked[s] \in Reservation

IInv ==
    /\ TypeOK /\ FilesOK /\ Readable /\ MemOK /\ ReserveOK /\ OutcomeOK /\ OpenOK
    /\ (\A a \in Attempts : ClientOK(a)) /\ WithinCaps

-----------------------------------------------------------------------------
(* States, reservations and books.                                         *)

\* Outcomes are neither Outstanding nor Liability.
LEMMA OutcomeIs ==
    /\ \A st \in Book!Outcomes :
         /\ st # Outstanding /\ st # Liability /\ st \in States
         /\ st.tag \in {"observed", "estimated"} => st.units \in Nat
         /\ st.tag \in {"observed", "estimated"} \/ st = Unknown \/ st = Released
    /\ \A st \in Book!Observations : st \in Book!Outcomes /\ st.tag = "observed"
    /\ Unknown \in Book!Outcomes /\ Released \in Book!Outcomes
    /\ Unknown # Released /\ Unknown # Outstanding /\ Liability # Outstanding
    /\ Released # Outstanding /\ Released # Liability /\ Unknown # Liability
    /\ \A st \in {Outstanding, Liability, Unknown, Released} :
         st.tag \notin {"observed", "estimated"}
  BY DEF States, Book!Outcomes, Book!Observations, Book!State, Book!Unknown, Book!Released,
         State, Outstanding, Liability, Unknown, Released

LEMMA ChargeIs ==
    ASSUME NEW n \in 0..MaxCharge
    PROVE  /\ State("observed", n) \in Book!Observations
           /\ State("estimated", n) \in Book!Outcomes
           /\ State("observed", n) = [tag |-> "observed", units |-> n]
           /\ State("estimated", n) = [tag |-> "estimated", units |-> n]
  BY DEF Book!Outcomes, Book!Observations, Book!State, State

\* What may follow a state.
LEMMA AfterIs ==
    ASSUME NEW st \in States, NEW x \in Book!After(st)
    PROVE  /\ x \in States /\ x # Outstanding
           /\ \/ st = Outstanding
              \/ st \in {Liability, Unknown} /\ (x = st \/ x \in Book!Observations)
              \/ st \notin {Outstanding, Liability, Unknown} /\ x = st
<1>1. CASE st = Outstanding
  <2>1. x \in {Liability} \cup Book!Outcomes
    BY <1>1 DEF Book!After, Book!Outstanding, Book!Liability, Book!Unknown, Book!State,
                Outstanding, Liability, Unknown, State
  <2>2. QED
    BY <1>1, <2>1, OutcomeIs DEF States
<1>2. CASE st \in {Liability, Unknown}
  <2>1. x \in {st} \cup Book!Observations
    BY <1>2 DEF Book!After, Book!Outstanding, Book!Liability, Book!Unknown, Book!State,
                Outstanding, Liability, Unknown, State
  <2>2. QED
    BY <1>2, <2>1, OutcomeIs DEF States
<1>3. CASE st \notin {Outstanding, Liability, Unknown}
  <2>1. x = st
    BY <1>3 DEF Book!After, Book!Outstanding, Book!Liability, Book!Unknown, Book!State,
                Outstanding, Liability, Unknown, State
  <2>2. QED
    BY <1>3, <2>1
<1>4. QED
  BY <1>1, <1>2, <1>3

LEMMA AfterHas ==
    /\ \A st : st # Outstanding => st \in Book!After(st)
    /\ Liability \in Book!After(Outstanding) /\ Book!Outcomes \subseteq Book!After(Outstanding)
    /\ Book!Observations \subseteq Book!After(Liability)
    /\ Book!Observations \subseteq Book!After(Unknown)
<1>1. Liability \in Book!After(Outstanding) /\ Book!Outcomes \subseteq Book!After(Outstanding)
  BY DEF Book!After, Book!Outstanding, Book!Liability, Book!Unknown, Book!State,
         Outstanding, Liability, Unknown, State
<1>2. ASSUME NEW st \in {Liability, Unknown}
      PROVE  st \in Book!After(st) /\ Book!Observations \subseteq Book!After(st)
  BY DEF Book!After, Book!Outstanding, Book!Liability, Book!Unknown, Book!State,
         Outstanding, Liability, Unknown, State
<1>3. ASSUME NEW st, st \notin {Outstanding, Liability, Unknown}
      PROVE  st \in Book!After(st)
  BY <1>3 DEF Book!After, Book!Outstanding, Book!Liability, Book!Unknown, Book!State,
         Outstanding, Liability, Unknown, State
<1>4. QED
  BY <1>1, <1>2, <1>3

\* What a reservation counts for.
LEMMA CountedIs ==
    ASSUME NEW r \in Reservation
    PROVE  /\ Counted(r) \in Nat /\ Capped(r) \in Nat /\ Excess(r) \in Nat /\ r.units \in Nat
           /\ Capped(r) <= r.units /\ Capped(r) <= Counted(r) /\ Counted(r) = Capped(r) + Excess(r)
           /\ r.state \in {Outstanding, Liability, Unknown} =>
                Counted(r) = r.units /\ Capped(r) = r.units
           /\ r.state.tag \in {"observed", "estimated"} => Counted(r) = r.state.units
<1>1. r.units \in Nat /\ r.state \in States
  BY DEF Reservation
<1>2. r.state.tag \in {"observed", "estimated"} => r.state.units \in Nat
  BY <1>1, OutcomeIs DEF States
<1>3. r.state \in {Outstanding, Liability, Unknown} =>
        r.state.tag \notin {"observed", "estimated"} /\ r.state # Released
  BY OutcomeIs
<1>4. /\ Counted(r) \in Nat
      /\ r.state \in {Outstanding, Liability, Unknown} => Counted(r) = r.units
      /\ r.state.tag \in {"observed", "estimated"} => Counted(r) = r.state.units
  BY <1>1, <1>2, <1>3 DEF Counted
<1>5. QED
  BY <1>1, <1>4 DEF Capped, Excess

\* A reservation in a later state counts for no more, up to its units.
LEMMA CappedAfter ==
    ASSUME NEW q \in Reservation, NEW r \in Reservation, Same(r, q),
           r.state \in Book!After(q.state)
    PROVE  Capped(r) <= Counted(q)
<1>1. q.state \in States
  BY DEF Reservation
<1>2. CASE q.state \in {Outstanding, Liability, Unknown}
  BY <1>2, CountedIs DEF Same
<1>3. CASE q.state \notin {Outstanding, Liability, Unknown}
  <2>1. r.state = q.state
    BY <1>1, <1>3, AfterIs
  <2>2. Capped(r) <= Counted(r) /\ Counted(r) = Counted(q)
    BY <2>1, CountedIs DEF Same, Counted
  <2>3. QED
    BY <2>2
<1>4. QED
  BY <1>2, <1>3

\* The sums of a book are sums.
LEMMA BookSums ==
    ASSUME NEW b, Sound(b), NEW S, S \subseteq DOMAIN b
    PROVE  /\ Summable([s \in S |-> Counted(b[s])]) /\ Summable([s \in S |-> Capped(b[s])])
           /\ Summable([s \in S |-> Excess(b[s])])
<1>1. IsFiniteSet(S)
  <2>1. IsFiniteSet(1..MaxSeq)
    BY JournalAssumption, FS_Interval
  <2>2. S \subseteq 1..MaxSeq
    BY DEF Sound
  <2>3. QED
    BY <2>1, <2>2, FS_Subset
<1>2. \A s \in S : Counted(b[s]) \in Nat /\ Capped(b[s]) \in Nat /\ Excess(b[s]) \in Nat
  BY CountedIs DEF Sound
<1>3. QED
  BY <1>1, <1>2 DEF Summable

\* A book remains sound when an outcome is recorded.
LEMMA RecordSound ==
    ASSUME NEW b, Sound(b), NEW c, NEW s, NEW to \in States, Recorded(b, c, s, to),
           Capped(c[s]) <= Capped(b[s])
    PROVE  Sound(c)
<1>1. /\ s \in DOMAIN b /\ DOMAIN c = DOMAIN b /\ (\A t \in DOMAIN b \ {s} : c[t] = b[t])
      /\ c[s] = [b[s] EXCEPT !.state = to]
  BY DEF Recorded
<1>2. \A t \in DOMAIN b : b[t] \in Reservation
  BY DEF Sound
<1>3. \A t \in DOMAIN b : c[t] \in Reservation /\ Same(c[t], b[t])
  <2>1. c[s] \in Reservation /\ Same(c[s], b[s])
    BY <1>1, <1>2 DEF Reservation, Same
  <2>2. QED
    BY <1>1, <1>2, <2>1 DEF Same
<1>4. \A t \in DOMAIN b : Capped(c[t]) <= Capped(b[t]) /\ Capped(c[t]) \in Nat
  <2>1. ASSUME NEW t \in DOMAIN b
        PROVE  Capped(c[t]) <= Capped(b[t]) /\ Capped(c[t]) \in Nat
    <3>1. Capped(c[t]) \in Nat /\ Capped(b[t]) \in Nat
      BY <1>2, <1>3, CountedIs
    <3>2. QED
      BY <1>1, <3>1
  <2>2. QED
    BY <2>1
<1>5. /\ \A p : InPeriod(c, p) = InPeriod(b, p)
      /\ InRun(c) = InRun(b)
  BY <1>1, <1>3 DEF InPeriod, InRun, Same
<1>6. ASSUME NEW S, S \subseteq DOMAIN b
      PROVE  /\ Total([t \in S |-> Capped(c[t])]) <= Total([t \in S |-> Capped(b[t])])
             /\ Total([t \in S |-> Capped(c[t])]) \in Nat
             /\ Total([t \in S |-> Capped(b[t])]) \in Nat
  <2>1. PICK f : f = [t \in S |-> Capped(c[t])]
    OBVIOUS
  <2>2. PICK h : h = [t \in S |-> Capped(b[t])]
    OBVIOUS
  <2>3. Summable(h)
    BY <1>6, <2>2, BookSums
  <2>4. DOMAIN f = S /\ DOMAIN h = S /\ \A t \in S : f[t] = Capped(c[t]) /\ h[t] = Capped(b[t])
    BY <2>1, <2>2
  <2>5. Summable(f)
    BY <1>4, <1>6, <2>3, <2>4 DEF Summable
  <2>6. Total(f) <= Total(h) /\ Total(f) \in Nat /\ Total(h) \in Nat
    BY <1>4, <1>6, <2>3, <2>4, <2>5, TotalMono, TotalType
  <2>7. QED
    BY <2>1, <2>2, <2>6
<1>7. ASSUME NEW p \in Periods
      PROVE  PeriodFits(c, p)
  <2>1. InPeriod(b, p) \subseteq DOMAIN b /\ PeriodFits(b, p)
    BY DEF InPeriod, Sound
  <2>2. QED
    BY <1>5, <1>6, <2>1, SpendAssumption DEF PeriodFits
<1>8. RunFits(c)
  <2>1. InRun(b) \subseteq DOMAIN b /\ RunFits(b)
    BY DEF InRun, Sound
  <2>2. QED
    BY <1>5, <1>6, <2>1, SpendAssumption DEF RunFits
<1>9. QED
  BY <1>1, <1>3, <1>7, <1>8 DEF Sound, Same

\* A book remains sound when a reservation that fits is added. The fit is that
\* of the book in memory.
LEMMA ReserveSound ==
    ASSUME NEW b, Sound(b), NEW q, Sound(q), DOMAIN q = DOMAIN b,
           \A t \in DOMAIN b : Same(b[t], q[t]) /\ Capped(b[t]) <= Counted(q[t]),
           NEW c, NEW s \in 1..MaxSeq, s \notin DOMAIN b, DOMAIN c = DOMAIN b \cup {s},
           \A t \in DOMAIN b : c[t] = b[t], c[s] \in Reservation,
           \A t \in DOMAIN b : b[t].attempt # c[s].attempt,
           totals(q, c[s].period) + c[s].units <= Cap,
           c[s].attempt \in RunAttempts => run_total(q) + c[s].units <= RunCap
    PROVE  Sound(c)
<1>1. \A t \in DOMAIN b : b[t] \in Reservation /\ q[t] \in Reservation
  BY DEF Sound
<1>2. Capped(c[s]) \in Nat /\ Capped(c[s]) <= c[s].units /\ c[s].units \in Nat
  BY CountedIs
<1>3. \A t \in DOMAIN c : c[t] \in Reservation /\ Capped(c[t]) \in Nat
  BY <1>1, CountedIs
<1>4. IsFiniteSet(DOMAIN c)
  <2>1. IsFiniteSet(1..MaxSeq)
    BY JournalAssumption, FS_Interval
  <2>2. DOMAIN c \subseteq 1..MaxSeq
    BY DEF Sound
  <2>3. QED
    BY <2>1, <2>2, FS_Subset
<1>5. ASSUME NEW S, S \subseteq DOMAIN c, s \in S
      PROVE  LET h == [t \in S \ {s} |-> Counted(q[t])] IN
             Total([t \in S |-> Capped(c[t])]) <= Total(h) + c[s].units
  <2>1. PICK f : f = [t \in S |-> Capped(c[t])]
    OBVIOUS
  <2>2. PICK h : h = [t \in S \ {s} |-> Counted(q[t])]
    OBVIOUS
  <2>3. DOMAIN f = S /\ DOMAIN h = S \ {s} /\ (\A t \in S : f[t] = Capped(c[t]))
        /\ (\A t \in S \ {s} : h[t] = Counted(q[t]))
    BY <2>1, <2>2
  <2>4. Summable(f)
    BY <1>3, <1>4, <1>5, <2>3, FS_Subset DEF Summable
  <2>5. Summable(h)
    <3>1. S \ {s} \subseteq DOMAIN q
      BY <1>5
    <3>2. QED
      BY <2>2, <3>1, BookSums
  <2>6. \A t \in DOMAIN f \ {s} : f[t] <= h[t]
    BY <1>5, <2>3
  <2>7. Total(f) <= Total(h) + c[s].units
    BY <1>2, <1>5, <2>3, <2>4, <2>5, <2>6, TotalPut
  <2>8. QED
    BY <2>1, <2>2, <2>7
<1>6. ASSUME NEW S, S \subseteq DOMAIN b
      PROVE  [t \in S |-> Capped(c[t])] = [t \in S |-> Capped(b[t])]
  BY <1>6
<1>7. ASSUME NEW p \in Periods
      PROVE  PeriodFits(c, p)
  <2>1. CASE c[s].period = p
    <3>1. InPeriod(c, p) \subseteq DOMAIN c /\ s \in InPeriod(c, p)
      BY <2>1 DEF InPeriod
    <3>2. InPeriod(c, p) \ {s} = InPeriod(q, p)
      BY <2>1 DEF InPeriod, Same
    <3>3. Total([t \in InPeriod(c, p) |-> Capped(c[t])]) <= totals(q, p) + c[s].units
      BY <1>5, <3>1, <3>2 DEF totals
    <3>4. totals(q, p) \in Nat
      <4>1. InPeriod(q, p) \subseteq DOMAIN q
        BY DEF InPeriod
      <4>2. QED
        BY <4>1, BookSums, TotalType DEF totals
    <3>5. Total([t \in InPeriod(c, p) |-> Capped(c[t])]) \in Nat
      <4>1. Summable([t \in InPeriod(c, p) |-> Capped(c[t])])
        BY <1>3, <1>4, <3>1, FS_Subset DEF Summable
      <4>2. QED
        BY <4>1, TotalType
    <3>6. QED
      BY <1>2, <2>1, <3>3, <3>4, <3>5, SpendAssumption DEF PeriodFits
  <2>2. CASE c[s].period # p
    <3>1. InPeriod(c, p) = InPeriod(b, p) /\ InPeriod(b, p) \subseteq DOMAIN b
      BY <2>2 DEF InPeriod
    <3>2. PeriodFits(b, p)
      BY DEF Sound
    <3>3. QED
      BY <1>6, <3>1, <3>2 DEF PeriodFits
  <2>3. QED
    BY <2>1, <2>2
<1>8. RunFits(c)
  <2>1. CASE c[s].attempt \in RunAttempts
    <3>1. InRun(c) \subseteq DOMAIN c /\ s \in InRun(c)
      BY <2>1 DEF InRun
    <3>2. InRun(c) \ {s} = InRun(q)
      BY <2>1 DEF InRun, Same
    <3>3. Total([t \in InRun(c) |-> Capped(c[t])]) <= run_total(q) + c[s].units
      BY <1>5, <3>1, <3>2 DEF run_total
    <3>4. run_total(q) \in Nat
      <4>1. InRun(q) \subseteq DOMAIN q
        BY DEF InRun
      <4>2. QED
        BY <4>1, BookSums, TotalType DEF run_total
    <3>5. Total([t \in InRun(c) |-> Capped(c[t])]) \in Nat
      <4>1. Summable([t \in InRun(c) |-> Capped(c[t])])
        BY <1>3, <1>4, <3>1, FS_Subset DEF Summable
      <4>2. QED
        BY <4>1, TotalType
    <3>6. QED
      BY <1>2, <2>1, <3>3, <3>4, <3>5, SpendAssumption DEF RunFits
  <2>2. CASE c[s].attempt \notin RunAttempts
    <3>1. InRun(c) = InRun(b) /\ InRun(b) \subseteq DOMAIN b
      BY <2>2 DEF InRun
    <3>2. RunFits(b)
      BY DEF Sound
    <3>3. QED
      BY <1>6, <3>1, <3>2 DEF RunFits
  <2>3. QED
    BY <2>1, <2>2
<1>9. ASSUME NEW x \in DOMAIN c, NEW y \in DOMAIN c, c[x].attempt = c[y].attempt
      PROVE  x = y
  BY <1>9 DEF Sound
<1>10. DOMAIN c \subseteq 1..MaxSeq
  BY DEF Sound
<1>11. QED
  BY <1>3, <1>7, <1>8, <1>9, <1>10 DEF Sound

\* The users' book is kept when a reservation is added that one of them is
\* waiting for.
LEMMA ReserveHolds ==
    ASSUME NEW b, NEW v, Holds(b, v), NEW c, Sound(c), NEW s, s \notin DOMAIN b,
           DOMAIN c = DOMAIN b \cup {s}, \A t \in DOMAIN b : c[t] = b[t],
           c[s].state \in {Outstanding, Liability}, NEW a, a = c[s].attempt,
           v.fate[a] = "asking", a \in v.writing, v.spent[a] = 0, v.per[a] = c[s].period
    PROVE  Holds(c, v)
<1>1. Keeps(c, v)
  BY DEF Holds, Keeps
<1>2. Honest(c[s], v) /\ Extra(c[s], v)
  BY OutcomeIs DEF Honest, Extra
<1>3. \A t \in DOMAIN c : Honest(c[t], v) /\ (t \notin DOMAIN v.acked => Extra(c[t], v))
  BY <1>2 DEF Holds
<1>4. QED
  BY <1>1, <1>3 DEF Holds

\* Steps of the users that leave every reservation true.
NoMore(x, y) == x = y \/ (x \in Nat /\ y \in Nat /\ x <= y)
Still(a, v, w) ==
    /\ w.per[a] = v.per[a] /\ w.spent[a] = v.spent[a] /\ NoMore(w.told[a], v.told[a])
    /\ w.fate[a] \in {v.fate[a], "gone"}
    /\ w.fate[a] = "asking" /\ a \in v.writing => a \in w.writing

Calm(v, w) == w.acked = v.acked /\ \A a \in Attempts : v.fate[a] # "new" => Still(a, v, w)

LEMMA HoldsCalm ==
    ASSUME NEW b, NEW v, NEW w, Holds(b, v), Calm(v, w)
    PROVE  Holds(b, w)
<1>1. Keeps(b, w)
  BY DEF Holds, Keeps, Calm
<1>2. ASSUME NEW s \in DOMAIN b
      PROVE  Honest(b[s], w) /\ (s \notin DOMAIN w.acked => Extra(b[s], w))
  <2>1. PICK a : a = b[s].attempt
    OBVIOUS
  <2>2. Honest(b[s], v) /\ (s \notin DOMAIN v.acked => Extra(b[s], v)) /\ b[s] \in Reservation
    BY DEF Holds, Sound
  <2>3. a \in Attempts /\ v.fate[a] # "new"
    BY <2>1, <2>2 DEF Reservation, Honest
  <2>4. Still(a, v, w) /\ w.acked = v.acked
    BY <2>3 DEF Calm
  <2>5. Honest(b[s], w)
    <3>1. /\ b[s].units \in Nat
          /\ b[s].state.tag = "estimated" => b[s].state.units \in Nat
      BY <2>2, CountedIs, OutcomeIs DEF Reservation, States
    <3>2. QED
      BY <2>1, <2>2, <2>4, <3>1 DEF Honest, Still, NoMore
  <2>6. QED
    BY <2>1, <2>2, <2>4, <2>5 DEF Extra, Still
<1>3. QED
  BY <1>1, <1>2 DEF Holds

LEMMA LinesCalm ==
    ASSUME NEW ls, NEW v, NEW w, LinesOK(ls, v), Calm(v, w)
    PROVE  LinesOK(ls, w)
<1>1. w.acked = v.acked
  BY DEF Calm
<1>2. QED
  BY <1>1, HoldsCalm DEF LinesOK

\* A request is sent on a reservation that is held.
Sends(v, w, a) ==
    /\ w.acked = v.acked /\ w.per = v.per /\ w.told = v.told /\ w.writing = v.writing
    /\ v.fate[a] = "held" /\ w.fate[a] = "sent"
    /\ \A x \in Attempts \ {a} : w.fate[x] = v.fate[x] /\ w.spent[x] = v.spent[x]

LEMMA HoldsSent ==
    ASSUME NEW b, NEW v, NEW w, NEW a, Holds(b, v), Sends(v, w, a)
    PROVE  Holds(b, w)
<1>1. Keeps(b, w)
  BY DEF Holds, Keeps, Sends
<1>2. ASSUME NEW s \in DOMAIN b
      PROVE  Honest(b[s], w) /\ (s \notin DOMAIN w.acked => Extra(b[s], w))
  <2>1. /\ Honest(b[s], v) /\ (s \notin DOMAIN v.acked => Extra(b[s], v)) /\ w.acked = v.acked
        /\ b[s].attempt \in Attempts
    BY DEF Holds, Sound, Reservation, Sends
  <2>2. CASE b[s].attempt = a
    <3>1. b[s].state \in {Outstanding, Liability}
      BY <2>1, <2>2 DEF Honest, Sends
    <3>2. b[s].state.tag \notin {"observed", "estimated"} /\ b[s].state # Released
      BY <3>1, OutcomeIs
    <3>3. Honest(b[s], w)
      BY <2>1, <2>2, <3>1, <3>2 DEF Honest, Sends
    <3>4. s \in DOMAIN w.acked
      BY <2>1, <2>2 DEF Extra, Sends
    <3>5. QED
      BY <3>3, <3>4
  <2>3. CASE b[s].attempt # a
    BY <2>1, <2>3 DEF Honest, Extra, Sends
  <2>4. QED
    BY <2>2, <2>3
<1>3. QED
  BY <1>1, <1>2 DEF Holds

LEMMA LinesSent ==
    ASSUME NEW ls, NEW v, NEW w, NEW a, LinesOK(ls, v), Sends(v, w, a)
    PROVE  LinesOK(ls, w)
<1>1. w.acked = v.acked
  BY DEF Sends
<1>2. QED
  BY <1>1, HoldsSent DEF LinesOK

\* A reservation is acknowledged to the attempt that asked for it.
Grants(v, w, s, r) ==
    /\ w.per = v.per /\ w.spent = v.spent /\ v.writing = {r.attempt}
    /\ v.fate[r.attempt] = "asking" /\ w.fate[r.attempt] = "held" /\ w.told[r.attempt] = r.units
    /\ r.units \in Nat
    /\ \A x \in Attempts \ {r.attempt} : w.fate[x] = v.fate[x] /\ w.told[x] = v.told[x]
    /\ s \notin DOMAIN v.acked /\ r.state = Outstanding
    /\ DOMAIN w.acked = DOMAIN v.acked \cup {s} /\ w.acked[s] = r
    /\ \A t \in DOMAIN v.acked : w.acked[t] = v.acked[t]

LEMMA HoldsGranted ==
    ASSUME NEW b, NEW v, NEW w, NEW s \in DOMAIN b, NEW r, Holds(b, v), Grants(v, w, s, r),
           Same(b[s], r), b[s].state \in {Outstanding, Liability}
    PROVE  Holds(b, w)
<1>1. Keeps(b, w)
  <2>1. Keeps(b, v)
    BY DEF Holds
  <2>2. b[s].state = w.acked[s].state \/ b[s].state \in Book!After(w.acked[s].state)
    BY AfterHas DEF Grants
  <2>3. QED
    BY <2>1, <2>2 DEF Keeps, Grants
<1>2. ASSUME NEW t \in DOMAIN b
      PROVE  Honest(b[t], w) /\ (t \notin DOMAIN w.acked => Extra(b[t], w))
  <2>1. /\ Honest(b[t], v) /\ (t \notin DOMAIN v.acked => Extra(b[t], v))
        /\ b[t].attempt \in Attempts
    BY DEF Holds, Sound, Reservation
  <2>2. CASE t = s
    <3>1. b[s].state.tag \notin {"observed", "estimated"} /\ b[s].state # Released
      BY OutcomeIs
    <3>2. QED
      BY <2>1, <2>2, <3>1 DEF Honest, Grants, Same
  <2>3. CASE t # s
    <3>1. b[t].attempt # r.attempt
      BY <2>3 DEF Holds, Sound, Same
    <3>2. QED
      BY <2>1, <2>3, <3>1 DEF Honest, Extra, Grants
  <2>4. QED
    BY <2>2, <2>3
<1>3. QED
  BY <1>1, <1>2 DEF Holds

\* An outcome is recorded that is true and that may follow what was acknowledged.
LEMMA RecordHolds ==
    ASSUME NEW b, NEW v, Holds(b, v), NEW c, NEW s, NEW to \in Book!Outcomes,
           Recorded(b, c, s, to), Tells(b[s].attempt, to, v), Capped(c[s]) <= Capped(b[s]),
           s \in DOMAIN v.acked => to \in Book!After(v.acked[s].state),
           to.tag = "estimated" => s \in DOMAIN v.acked
    PROVE  Holds(c, v)
<1>1. to \in States /\ to # Outstanding /\ to # Liability
  BY OutcomeIs
<1>2. Sound(c)
  BY <1>1, RecordSound DEF Holds
<1>3. /\ s \in DOMAIN b /\ DOMAIN c = DOMAIN b /\ (\A t \in DOMAIN b \ {s} : c[t] = b[t])
      /\ b[s] \in Reservation /\ c[s] = [b[s] EXCEPT !.state = to]
  BY DEF Recorded, Holds, Sound
<1>4. Same(c[s], b[s]) /\ c[s].state = to
  BY <1>3 DEF Same, Reservation
<1>5. Keeps(c, v)
  <2>1. ASSUME NEW t \in DOMAIN v.acked
        PROVE  /\ Same(c[t], v.acked[t])
               /\ c[t].state = v.acked[t].state \/ c[t].state \in Book!After(v.acked[t].state)
    <3>1. /\ Same(b[t], v.acked[t]) /\ t \in DOMAIN b
          /\ b[t].state = v.acked[t].state \/ b[t].state \in Book!After(v.acked[t].state)
      BY DEF Holds, Keeps
    <3>2. CASE t = s
      BY <1>4, <3>1, <3>2 DEF Same
    <3>3. CASE t # s
      BY <1>3, <3>1, <3>3
    <3>4. QED
      BY <3>2, <3>3
  <2>2. QED
    BY <1>3, <2>1 DEF Holds, Keeps
<1>6. Honest(b[s], v) /\ (s \notin DOMAIN v.acked => Extra(b[s], v))
  BY <1>3 DEF Holds
<1>7. Honest(c[s], v) /\ (s \notin DOMAIN v.acked => Extra(c[s], v))
  BY <1>1, <1>4, <1>6 DEF Honest, Extra, Same, Tells
<1>8. QED
  BY <1>2, <1>3, <1>5, <1>7 DEF Holds

\* A recorded outcome is acknowledged.
Acks(v, w, s, r) ==
    /\ w.per = v.per /\ w.spent = v.spent /\ w.fate = v.fate /\ w.told = v.told
    /\ w.writing = v.writing
    /\ DOMAIN w.acked = DOMAIN v.acked \cup {s} /\ w.acked[s] = r
    /\ \A t \in DOMAIN v.acked \ {s} : w.acked[t] = v.acked[t]

LEMMA HoldsAcked ==
    ASSUME NEW b, NEW v, NEW w, NEW s \in DOMAIN b, NEW r, Holds(b, v), Acks(v, w, s, r),
           Same(b[s], r), b[s].state = r.state
    PROVE  Holds(b, w)
<1>1. Keeps(b, w)
  BY DEF Holds, Keeps, Acks
<1>2. ASSUME NEW t \in DOMAIN b
      PROVE  Honest(b[t], w) /\ (t \notin DOMAIN w.acked => Extra(b[t], w))
  <2>1. Honest(b[t], v) /\ (t \notin DOMAIN v.acked => Extra(b[t], v))
    BY DEF Holds
  <2>2. QED
    BY <2>1 DEF Honest, Extra, Acks
<1>3. QED
  BY <1>1, <1>2 DEF Holds

-----------------------------------------------------------------------------
(* What was spent, and what a book counts.                                 *)

OfIn(v, p) == {a \in Attempts : v.per[a] = p}
AboveIn(v, a) == IF v.spent[a] > v.told[a] THEN v.spent[a] - v.told[a] ELSE 0
SpentIn(v, p) == Total([a \in OfIn(v, p) |-> v.spent[a]])
BeyondIn(v, p) == Total([a \in OfIn(v, p) |-> AboveIn(v, a)])
CapIn(v) == /\ \A p \in Periods : SpentIn(v, p) <= Cap + BeyondIn(v, p)
            /\ Total([a \in RunAttempts |-> v.spent[a] - AboveIn(v, a)]) <= RunCap

\* What a view is when it is the view of a state.
Proper(v) ==
    /\ v.spent \in [Attempts -> Nat] /\ v.told \in [Attempts -> Nat]
    /\ \A a \in Attempts : v.spent[a] > 0 => \E s \in DOMAIN v.acked : v.acked[s].attempt = a

\* Each attempt that has spent has a reservation of its own in the book, which
\* counts for what was spent, up to what was asked for.
LEMMA ReservationCovers ==
    ASSUME NEW b, NEW v, Holds(b, v), Proper(v), NEW a \in Attempts, v.spent[a] > AboveIn(v, a)
    PROVE  \E s \in DOMAIN b :
             /\ b[s].attempt = a /\ b[s].period = v.per[a]
             /\ v.spent[a] <= AboveIn(v, a) + Counted(b[s])
             /\ v.spent[a] <= AboveIn(v, a) + Capped(b[s])
<1>1. v.spent[a] \in Nat /\ v.told[a] \in Nat /\ AboveIn(v, a) \in Nat /\ v.spent[a] > 0
  BY DEF Proper, AboveIn
<1>2. PICK s \in DOMAIN v.acked : v.acked[s].attempt = a
  BY <1>1 DEF Proper
<1>3. s \in DOMAIN b /\ b[s].attempt = a
  BY <1>2 DEF Holds, Keeps, Same
<1>4. Honest(b[s], v) /\ b[s] \in Reservation
  BY <1>3 DEF Holds, Sound
<1>5. b[s].period = v.per[a] /\ v.told[a] <= b[s].units /\ b[s].units \in Nat
  BY <1>1, <1>3, <1>4 DEF Honest, Reservation
<1>6. /\ Counted(b[s]) \in Nat /\ Capped(b[s]) \in Nat
      /\ b[s].state \in {Outstanding, Liability, Unknown} =>
                Counted(b[s]) = b[s].units /\ Capped(b[s]) = b[s].units
      /\ b[s].state.tag \in {"observed", "estimated"} => Counted(b[s]) = b[s].state.units
  BY <1>4, CountedIs
<1>7. Counted(b[s]) = v.spent[a] \/ Counted(b[s]) >= v.told[a]
  <2>1. b[s].state \in States /\ b[s].state # Released
    BY <1>1, <1>3, <1>4 DEF Honest, Reservation
  <2>2. \/ b[s].state \in {Outstanding, Liability, Unknown}
        \/ b[s].state.tag \in {"observed", "estimated"}
    BY <2>1, OutcomeIs DEF States
  <2>3. QED
    BY <1>3, <1>4, <1>5, <1>6, <2>2 DEF Honest
<1>8. /\ v.spent[a] <= AboveIn(v, a) + Counted(b[s])
      /\ v.spent[a] <= AboveIn(v, a) + Capped(b[s])
  BY <1>1, <1>5, <1>6, <1>7 DEF AboveIn, Capped
<1>9. QED
  BY <1>3, <1>5, <1>8

\* So the book counts what was spent, and what was spent is within the caps.
LEMMA BookCovers ==
    ASSUME NEW b, NEW v, Holds(b, v), Proper(v)
    PROVE  /\ \A p : totals(b, p) + BeyondIn(v, p) >= SpentIn(v, p)
           /\ CapIn(v)
<1> DEFINE m == [a \in Attempts |-> CHOOSE s : s \in DOMAIN b /\ b[s].attempt = a]
<1>1. \A a \in Attempts : v.spent[a] \in Nat /\ v.told[a] \in Nat /\ AboveIn(v, a) \in Nat
  BY DEF Proper, AboveIn
<1>2. ASSUME NEW a \in Attempts, v.spent[a] > AboveIn(v, a)
      PROVE  /\ m[a] \in DOMAIN b /\ b[m[a]].attempt = a /\ b[m[a]].period = v.per[a]
             /\ v.spent[a] <= AboveIn(v, a) + Counted(b[m[a]])
             /\ v.spent[a] <= AboveIn(v, a) + Capped(b[m[a]])
  <2>1. PICK s \in DOMAIN b :
             /\ b[s].attempt = a /\ b[s].period = v.per[a]
             /\ v.spent[a] <= AboveIn(v, a) + Counted(b[s])
             /\ v.spent[a] <= AboveIn(v, a) + Capped(b[s])
    BY <1>2, ReservationCovers
  <2>2. m[a] \in DOMAIN b /\ b[m[a]].attempt = a
    BY <2>1
  <2>3. m[a] = s
    BY <2>1, <2>2 DEF Holds, Sound
  <2>4. QED
    BY <2>1, <2>3
<1> HIDE DEF m
<1>3. ASSUME NEW A, A \subseteq Attempts
      PROVE  /\ Summable([a \in A |-> v.spent[a]]) /\ Summable([a \in A |-> AboveIn(v, a)])
             /\ Summable([a \in A |-> v.spent[a] - AboveIn(v, a)])
  <2>1. IsFiniteSet(A)
    BY <1>3, SpendAssumption, FS_Subset
  <2>2. \A a \in A : /\ v.spent[a] \in Nat /\ AboveIn(v, a) \in Nat
                     /\ v.spent[a] - AboveIn(v, a) \in Nat
    BY <1>1, <1>3 DEF AboveIn
  <2>3. QED
    BY <2>1, <2>2 DEF Summable
<1>4. ASSUME NEW p
      PROVE  /\ totals(b, p) + BeyondIn(v, p) >= SpentIn(v, p)
             /\ SpentIn(v, p) <= BeyondIn(v, p) + Total([s \in InPeriod(b, p) |-> Capped(b[s])])
             /\ SpentIn(v, p) \in Nat /\ BeyondIn(v, p) \in Nat /\ totals(b, p) \in Nat
             /\ Total([s \in InPeriod(b, p) |-> Capped(b[s])]) \in Nat
  <2>1. PICK f : f = [a \in OfIn(v, p) |-> v.spent[a]]
    OBVIOUS
  <2>2. PICK g : g = [a \in OfIn(v, p) |-> AboveIn(v, a)]
    OBVIOUS
  <2>3. PICK h : h = [s \in InPeriod(b, p) |-> Counted(b[s])]
    OBVIOUS
  <2>4. PICK k : k = [s \in InPeriod(b, p) |-> Capped(b[s])]
    OBVIOUS
  <2>5. OfIn(v, p) \subseteq Attempts /\ InPeriod(b, p) \subseteq DOMAIN b /\ Sound(b)
    BY DEF OfIn, InPeriod, Holds
  <2>6. Summable(f) /\ Summable(g) /\ Summable(h) /\ Summable(k)
    BY <1>3, <2>1, <2>2, <2>3, <2>4, <2>5, BookSums
  <2>7. /\ DOMAIN f = OfIn(v, p) /\ DOMAIN g = OfIn(v, p)
        /\ DOMAIN h = InPeriod(b, p) /\ DOMAIN k = InPeriod(b, p)
        /\ \A a \in OfIn(v, p) : f[a] = v.spent[a] /\ g[a] = AboveIn(v, a)
        /\ \A s \in InPeriod(b, p) : h[s] = Counted(b[s]) /\ k[s] = Capped(b[s])
    BY <2>1, <2>2, <2>3, <2>4
  <2>8. ASSUME NEW a \in OfIn(v, p), v.spent[a] > AboveIn(v, a)
        PROVE  m[a] \in InPeriod(b, p)
    BY <1>2, <2>8 DEF OfIn, InPeriod
  <2>9. \A a, x \in DOMAIN f : f[a] > g[a] /\ f[x] > g[x] /\ m[a] = m[x] => a = x
    BY <1>2, <2>5, <2>7
  <2>10. \A a \in DOMAIN f : f[a] > g[a] => m[a] \in DOMAIN h /\ f[a] <= g[a] + h[m[a]]
    BY <1>2, <2>5, <2>7, <2>8
  <2>11. \A a \in DOMAIN f : f[a] > g[a] => m[a] \in DOMAIN k /\ f[a] <= g[a] + k[m[a]]
    BY <1>2, <2>5, <2>7, <2>8
  <2>12. Total(f) <= Total(g) + Total(h)
    BY <2>6, <2>7, <2>9, <2>10, TotalCover
  <2>13. Total(f) <= Total(g) + Total(k)
    BY <2>6, <2>7, <2>9, <2>11, TotalCover
  <2>14. Total(f) \in Nat /\ Total(g) \in Nat /\ Total(h) \in Nat /\ Total(k) \in Nat
    BY <2>6, TotalType
  <2>15. Total(h) + Total(g) >= Total(f)
    BY <2>12, <2>14
  <2>16. QED
    BY <2>1, <2>2, <2>3, <2>4, <2>13, <2>14, <2>15 DEF SpentIn, BeyondIn, totals
<1>5. \A p : totals(b, p) + BeyondIn(v, p) >= SpentIn(v, p)
  BY <1>4
<1>6. ASSUME NEW p \in Periods
      PROVE  SpentIn(v, p) <= Cap + BeyondIn(v, p)
  <2>1. Total([s \in InPeriod(b, p) |-> Capped(b[s])]) <= Cap
    BY DEF Holds, Sound, PeriodFits
  <2>2. QED
    BY <1>4, <2>1, SpendAssumption
<1>7. Total([a \in RunAttempts |-> v.spent[a] - AboveIn(v, a)]) <= RunCap
  <2>1. PICK f : f = [a \in RunAttempts |-> v.spent[a] - AboveIn(v, a)]
    OBVIOUS
  <2>2. PICK k : k = [s \in InRun(b) |-> Capped(b[s])]
    OBVIOUS
  <2>3. RunAttempts \subseteq Attempts /\ InRun(b) \subseteq DOMAIN b /\ Sound(b)
    BY SpendAssumption DEF InRun, Holds
  <2>4. Summable(f) /\ Summable(k)
    BY <1>3, <2>1, <2>2, <2>3, BookSums
  <2>5. /\ DOMAIN f = RunAttempts /\ DOMAIN k = InRun(b)
        /\ \A a \in RunAttempts : f[a] = v.spent[a] - AboveIn(v, a)
        /\ \A s \in InRun(b) : k[s] = Capped(b[s])
    BY <2>1, <2>2
  <2>6. ASSUME NEW a \in RunAttempts, f[a] > 0
        PROVE  /\ m[a] \in InRun(b) /\ b[m[a]].attempt = a /\ f[a] <= k[m[a]]
    <3>1. a \in Attempts /\ v.spent[a] > AboveIn(v, a)
      BY <1>1, <2>3, <2>5, <2>6
    <3>2. m[a] \in InRun(b) /\ b[m[a]].attempt = a
      BY <1>2, <3>1 DEF InRun
    <3>3. Capped(b[m[a]]) \in Nat
      BY <2>4, <2>5, <3>2 DEF Summable
    <3>4. QED
      BY <1>1, <1>2, <2>5, <3>1, <3>2, <3>3
  <2>7. \A a \in DOMAIN f : f[a] > 0 => m[a] \in DOMAIN k /\ f[a] <= k[m[a]]
    BY <2>5, <2>6
  <2>8. \A a, x \in DOMAIN f : f[a] > 0 /\ f[x] > 0 /\ m[a] = m[x] => a = x
    BY <2>5, <2>6
  <2>9. Total(f) <= Total(k)
    BY <2>4, <2>7, <2>8, TotalInto
  <2>10. Total(k) <= RunCap
    BY <2>2 DEF Holds, Sound, RunFits
  <2>11. QED
    BY <2>1, <2>4, <2>9, <2>10, TotalType, SpendAssumption
<1>8. QED
  BY <1>5, <1>6, <1>7 DEF CapIn

\* The same of the view of the state.
LEMMA CapOfView == WithinCaps <=> CapIn(View)
  BY DEF WithinCaps, CapIn, View, Spent, Beyond, Of, Above, SpentIn, BeyondIn, OfIn, AboveIn

LEMMA CapOfNextView == WithinCaps' <=> CapIn(View')
  BY DEF WithinCaps, CapIn, View, Spent, Beyond, Of, Above, SpentIn, BeyondIn, OfIn, AboveIn

LEMMA CapStands == ASSUME WithinCaps, UNCHANGED <<per, told, spent>> PROVE WithinCaps'
  BY DEF WithinCaps, Spent, Beyond, Of, Above

-----------------------------------------------------------------------------
(* Files.                                                                  *)

LEMMA FileIs ==
    ASSUME NEW f \in Files
    PROVE  /\ f.lines \in Seq(Lines) /\ f.torn \in BOOLEAN /\ f.split \in BOOLEAN
           /\ Cut(f) \in Files /\ Cut(f).lines = f.lines /\ ~Cut(f).torn /\ Cut(f).split = f.split
<1>1. f.lines \in Seq(Lines) /\ f.torn \in BOOLEAN /\ f.split \in BOOLEAN
  BY DEF Files
<1>2. /\ Cut(f) \in Files /\ Cut(f).lines = f.lines /\ ~Cut(f).torn /\ Cut(f).split = f.split
  BY <1>1 DEF Files, Cut, File
<1>3. QED
  BY <1>1, <1>2

LEMMA TornIs ==
    ASSUME NEW f \in Files, NEW l
    PROVE  \A g \in Torn(f, l) : g \in Files /\ g.lines = f.lines /\ g.torn
<1> SUFFICES ASSUME NEW g \in Torn(f, l) PROVE g \in Files /\ g.lines = f.lines /\ g.torn
  OBVIOUS
<1>1. f.lines \in Seq(Lines) /\ f.split \in BOOLEAN
  BY FileIs
<1>2. PICK s \in {f.split, TRUE} : g = [lines |-> f.lines, torn |-> TRUE, split |-> s]
  BY DEF Torn, File
<1>3. QED
  BY <1>1, <1>2 DEF Files

LEMMA WrittenIs ==
    ASSUME NEW f \in Files, NEW l \in Lines
    PROVE  /\ Written(f, l) \in Files /\ ~Written(f, l).torn /\ Written(f, l).lines # <<>>
           /\ Written(f, l).split = f.split
           /\ f.torn => Written(f, l).lines = Append(f.lines, Garbage)
           /\ ~f.torn => Written(f, l).lines = Append(f.lines, l)
<1>1. f.lines \in Seq(Lines) /\ f.torn \in BOOLEAN /\ f.split \in BOOLEAN
  BY FileIs
<1>2. Garbage \in Lines
  BY DEF Lines
<1>3. PICK k \in Lines : k = IF f.torn THEN Garbage ELSE l
  BY <1>1, <1>2
<1>4. Append(f.lines, k) \in Seq(Lines) /\ Append(f.lines, k) # <<>>
  BY <1>1, AppendProperties
<1>5. Written(f, l) = [lines |-> Append(f.lines, k), torn |-> FALSE, split |-> f.split]
  BY <1>3 DEF Written, File
<1>6. QED
  BY <1>1, <1>3, <1>4, <1>5 DEF Files

LEMMA HeaderLine == Header(Cap) \in Lines /\ Header(OldCap) \in Lines /\ Header(Cap).op = "header"
  BY DEF Lines, Header

\* A book of nothing, when nothing was acknowledged.
LEMMA EmptyHolds ==
    ASSUME NEW b, NEW v, DOMAIN b = {}, DOMAIN v.acked = {}
    PROVE  Holds(b, v)
<1>1. \A p : InPeriod(b, p) = {}
  BY DEF InPeriod
<1>2. InRun(b) = {}
  BY DEF InRun
<1>3. ASSUME NEW S, S = {}
      PROVE  Total([s \in S |-> Capped(b[s])]) = 0
  <2>1. PICK f : f = [s \in S |-> Capped(b[s])]
    OBVIOUS
  <2>2. \A s \in DOMAIN f : f[s] = 0
    BY <1>3, <2>1
  <2>3. QED
    BY <2>1, <2>2, TotalZero
<1>4. \A p \in Periods : PeriodFits(b, p)
  BY <1>1, <1>3, SpendAssumption DEF PeriodFits
<1>5. RunFits(b)
  <2>1. Total([s \in InRun(b) |-> Capped(b[s])]) = 0
    BY <1>2, <1>3
  <2>2. QED
    BY <2>1, SpendAssumption DEF RunFits
<1>6. QED
  BY <1>4, <1>5 DEF Holds, Sound, Keeps

LEMMA HeaderOK ==
    ASSUME NEW v, DOMAIN v.acked = {}, NEW cap
    PROVE  LinesOK(<<Header(cap)>>, v)
  BY ReplayHeader, EmptyHolds DEF LinesOK

-----------------------------------------------------------------------------
(* Opening.                                                                *)

\* No reservation is being recorded while nobody has the journal.
LEMMA ViewIs ==
    /\ View.acked = acked /\ View.fate = fate /\ View.per = per /\ View.told = told
    /\ View.spent = spent
    /\ op.then = "reserve" => View.writing = {op.who}
    /\ op.then # "reserve" => View.writing = {}
  BY DEF View

LEMMA NextViewIs ==
    /\ View'.acked = acked' /\ View'.fate = fate' /\ View'.per = per' /\ View'.told = told'
    /\ View'.spent = spent'
    /\ op'.then = "reserve" => View'.writing = {op'.who}
    /\ op'.then # "reserve" => View'.writing = {}
  BY DEF View

\* What a step does that neither makes the journal open nor touches what the
\* users know.
Frozen == UNCHANGED <<acked, fate, per, ticket, told, spent, res, next_seq, kind>>

LEMMA FrozenTypes ==
    ASSUME TypeOK, Frozen, month' \in Periods, disk' \in Files, images' \subseteq Files,
           up' \in BOOLEAN, failed' \in BOOLEAN
    PROVE  TypeOK'
  BY DEF TypeOK, Frozen

LEMMA OpeningKeeps ==
    ASSUME IInv, ~up, ~up', Frozen, month' = month, op'.then \notin {"reserve", "outcome"},
           up' \in BOOLEAN, disk' \in Files, images' \subseteq Files, failed' \in BOOLEAN,
           \A f \in images' \cup {disk'} : LinesOK(f.lines, View),
           ~failed' => \A f \in images' \cup {disk'} : Mendable(f),
           op'.then \in {"header", "cut", "replay", "renamed"} => ~disk'.torn /\ ~disk'.split,
           op'.then = "header" => DOMAIN acked = {}
    PROVE  IInv'
<1>1. TypeOK'
  BY FrozenTypes DEF IInv, TypeOK
<1>2. View' = View
  BY DEF IInv, ReserveOK, View, Frozen
<1>3. FilesOK' /\ Readable'
  BY <1>2 DEF FilesOK, Readable, Present
<1>4. MemOK' /\ ReserveOK' /\ OutcomeOK' /\ OpenOK'
  BY DEF MemOK, ReserveOK, OutcomeOK, OpenOK, Frozen
<1>5. \A a \in Attempts : ClientOK(a)'
  BY DEF IInv, ClientOK, Frozen
<1>6. WithinCaps'
  BY CapStands DEF IInv, Frozen
<1>7. QED
  BY <1>1, <1>3, <1>4, <1>5, <1>6 DEF IInv

LEMMA OpeningStep ==
    ASSUME IInv,
           \/ OpenLock \/ OpenHeader \/ OpenHeaderSync \/ OpenUnreadable
           \/ OpenCut \/ OpenCutSync \/ OpenRead \/ OpenRefused \/ Migrate \/ MigrateSync \/ RemoveLock
    PROVE  IInv'
<1>1. /\ up' = up /\ month' = month /\ Frozen
      /\ ~up /\ op'.then \notin {"reserve", "outcome"}
  <2>1. CASE OpenLock \/ RemoveLock
    BY <2>1 DEF OpenLock, RemoveLock, Idle, Frozen, memVars, clientVars, envVars
  <2>2. CASE OpenHeader \/ OpenHeaderSync
    <3>1. op.then \in {"read", "header"} /\ UNCHANGED <<memVars, clientVars, envVars>>
      BY <2>2 DEF OpenHeader, OpenHeaderSync, Syncs, SyncFails
    <3>2. op' \in {[then |-> "header"], [then |-> "replay"], [then |-> "nothing"]}
      BY <2>2 DEF OpenHeader, OpenHeaderSync, Write, OpenFails, Idle
    <3>3. QED
      BY <3>1, <3>2 DEF IInv, OpenOK, Frozen, memVars, clientVars, envVars
  <2>3. CASE OpenCut \/ OpenCutSync \/ OpenRead \/ OpenRefused \/ OpenUnreadable
    BY <2>3 DEF IInv, OpenOK, OpenUnreadable, OpenCut, OpenCutSync, OpenRead, OpenRefused, OpenFails, Idle,
                Frozen, memVars, clientVars, envVars
  <2>4. CASE Migrate \/ MigrateSync
    BY <2>4 DEF IInv, OpenOK, Migrate, MigrateSync, OpenFails, Idle, Frozen, memVars, clientVars,
                envVars
  <2>5. QED
    BY <2>1, <2>2, <2>3, <2>4
<1>2. /\ TypeOK /\ FilesOK /\ Readable /\ disk \in Files /\ images \subseteq Files
      /\ failed \in BOOLEAN /\ up \in BOOLEAN
  BY DEF IInv, TypeOK
<1>3. ASSUME failed' = failed \/ failed' = TRUE, disk' \in Files, images' \subseteq Files,
             \A f \in images' \cup {disk'} : \E g \in Present :
               f.lines = g.lines /\ (f.split /\ ~f.torn => g.split /\ ~g.torn),
             op'.then \in {"header", "cut", "replay", "renamed"} => ~disk'.torn /\ ~disk'.split,
             op'.then # "header"
      PROVE  IInv'
  <2>1. \A f \in images' \cup {disk'} : LinesOK(f.lines, View)
    BY <1>2, <1>3 DEF FilesOK
  <2>2. ~failed' => \A f \in images' \cup {disk'} : Mendable(f)
    BY <1>2, <1>3 DEF Readable, Mendable
  <2>3. QED
    BY <1>1, <1>2, <1>3, <2>1, <2>2, OpeningKeeps
<1>4. CASE OpenLock \/ RemoveLock \/ OpenRead \/ OpenRefused \/ OpenUnreadable
  <2>1. /\ disk' = disk /\ images' = images /\ failed' = failed /\ op'.then # "header"
        /\ op'.then \in {"header", "cut", "replay", "renamed"} => ~disk.torn /\ ~disk.split
    BY <1>4 DEF OpenLock, RemoveLock, OpenRead, OpenRefused, OpenUnreadable, OpenFails, Idle, fileVars
  <2>2. QED
    BY <1>2, <1>3, <2>1 DEF Present
<1>5. CASE OpenHeader
  <2>1. CASE Write(Header(Cap), [then |-> "header"])
    <3>1. /\ disk = [lines |-> <<>>, torn |-> FALSE, split |-> FALSE] /\ failed' = failed
          /\ disk' = Written(disk, Header(Cap))
          /\ images' = images \cup Torn(disk, Header(Cap)) \cup {disk'}
      BY <1>5, <2>1 DEF OpenHeader, Write, File, Empty
    <3>2. /\ disk' \in Files /\ ~disk'.torn /\ disk'.lines = Append(disk.lines, Header(Cap))
          /\ ~disk'.split
          /\ \A g \in Torn(disk, Header(Cap)) : g \in Files /\ g.lines = disk.lines /\ g.torn
      BY <1>2, <3>1, WrittenIs, TornIs, HeaderLine
    <3>3. disk'.lines = <<Header(Cap)>> /\ disk.lines = <<>>
      BY <3>1, <3>2
    <3>4. DOMAIN View.acked = {}
      BY <1>2, <3>3 DEF FilesOK, Present, LinesOK
    <3>5. LinesOK(disk'.lines, View) /\ Replays(disk'.lines)
      BY <3>3, <3>4, HeaderOK, ReplayHeader
    <3>6. \A f \in images' \cup {disk'} : LinesOK(f.lines, View)
      BY <1>2, <3>1, <3>2, <3>5 DEF FilesOK, Present
    <3>7. ~failed' => \A f \in images' \cup {disk'} : Mendable(f)
      BY <1>2, <3>1, <3>2, <3>3, <3>5 DEF Readable, Mendable, Present
    <3>8. images' \subseteq Files
      BY <1>2, <3>1, <3>2
    <3>9. QED
      BY <1>1, <1>2, <3>1, <3>2, <3>4, <3>6, <3>7, <3>8, ViewIs, OpeningKeeps
  <2>2. CASE WriteFails(Header(Cap)) /\ OpenFails
    <3>1. /\ failed' = TRUE /\ disk' \in {disk} \cup Torn(disk, Header(Cap))
          /\ images' = images \cup {disk'}
          /\ op'.then = "nothing"
      BY <2>2 DEF WriteFails, OpenFails, Idle
    <3>2. disk' \in Files /\ disk'.lines = disk.lines /\ (disk' = disk \/ disk'.torn)
      BY <1>2, <3>1, TornIs
    <3>3. images' \subseteq Files /\ images' \cup {disk'} = images \cup {disk'}
      BY <1>2, <3>1, <3>2
    <3>4. QED
      BY <1>2, <1>3, <3>1, <3>2, <3>3 DEF Present
  <2>3. QED
    BY <1>5, <2>1, <2>2 DEF OpenHeader
<1>6. CASE OpenHeaderSync \/ OpenCutSync \/ MigrateSync
  <2>1. /\ disk' = disk /\ ~disk.torn /\ ~disk.split /\ (failed' = failed \/ failed' = TRUE)
        /\ op'.then # "header"
    <3>1. op.then \in {"header", "cut", "renamed"} /\ disk' = disk
      BY <1>6 DEF OpenHeaderSync, OpenCutSync, MigrateSync, Syncs, SyncFails, fileVars
    <3>2. failed' = failed \/ failed' = TRUE
      BY <1>6 DEF OpenHeaderSync, OpenCutSync, MigrateSync, Syncs, SyncFails
    <3>3. op' = [then |-> "replay"] \/ op' = [then |-> "nothing"]
      BY <1>6 DEF OpenHeaderSync, OpenCutSync, MigrateSync, OpenFails, Idle
    <3>4. QED
      BY <3>1, <3>2, <3>3 DEF IInv, OpenOK
  <2>2. CASE images' \subseteq images \cup {disk}
    BY <1>2, <1>3, <2>1, <2>2 DEF Present
  <2>3. CASE op.then = "header" /\ images' = {disk, Empty}
    <3>1. Empty \in Files /\ Empty.lines = <<>> /\ ~Empty.split
      BY DEF Empty, File, Files
    <3>2. DOMAIN View.acked = {}
      BY <2>3, ViewIs DEF IInv, OpenOK
    <3>3. LinesOK(Empty.lines, View) /\ Mendable(Empty)
      BY <3>1, <3>2 DEF LinesOK, Replays, Mendable
    <3>4. images' \subseteq Files /\ images' \cup {disk'} = {disk, Empty}
      BY <1>2, <2>1, <2>3, <3>1
    <3>5. \A f \in images' \cup {disk'} : LinesOK(f.lines, View)
      BY <1>2, <3>3, <3>4 DEF FilesOK, Present
    <3>6. ~failed' => \A f \in images' \cup {disk'} : Mendable(f)
      BY <1>2, <2>1, <3>3, <3>4 DEF Readable, Present
    <3>7. QED
      BY <1>1, <1>2, <2>1, <3>4, <3>5, <3>6, OpeningKeeps
  <2>4. QED
    BY <1>6, <2>2, <2>3 DEF OpenHeaderSync, OpenCutSync, MigrateSync, Syncs, SyncFails, fileVars
<1>7. CASE OpenCut
  <2>1. /\ disk' = Cut(disk) /\ images' = images \cup {disk'} /\ failed' = failed
        /\ ~disk.split /\ op'.then # "header"
    BY <1>7 DEF OpenCut
  <2>2. QED
    BY <1>2, <1>3, <2>1, FileIs DEF Present
<1>8. CASE Migrate
  <2>1. CASE disk' = [disk EXCEPT !.lines[1] = Header(Cap)] /\ images' = images \cup {disk'}
    <3>1. PICK ms : ms = [disk.lines EXCEPT ![1] = Header(Cap)]
      OBVIOUS
    <3>2. /\ Replays(disk.lines) /\ disk.lines \in Seq(Lines) /\ failed' = failed
          /\ ~disk.torn /\ ~disk.split /\ op'.then # "header"
      BY <1>2, <1>8, FileIs DEF Migrate, IInv, OpenOK, OpenFails, Idle
    <3>3. ms \in Seq(Lines) /\ ms # <<>> /\ Replays(ms) /\ Replayed(ms) = Replayed(disk.lines)
      BY <3>1, <3>2, HeaderLine, ReplayMigrated
    <3>4. disk' = [lines |-> ms, torn |-> FALSE, split |-> FALSE]
      BY <1>2, <2>1, <3>1, <3>2 DEF Files
    <3>5. disk' \in Files /\ ~disk'.torn /\ ~disk'.split /\ disk'.lines = ms
      BY <3>3, <3>4 DEF Files
    <3>6. LinesOK(disk.lines, View)
      BY <1>2 DEF FilesOK, Present
    <3>7. LinesOK(ms, View)
      BY <3>2, <3>3, <3>6 DEF LinesOK
    <3>8. \A f \in images' \cup {disk'} : LinesOK(f.lines, View)
      BY <1>2, <2>1, <3>5, <3>7 DEF FilesOK, Present
    <3>9. ~failed' => \A f \in images' \cup {disk'} : Mendable(f)
      BY <1>2, <2>1, <3>2, <3>3, <3>5 DEF Readable, Mendable, Present
    <3>10. images' \subseteq Files
      BY <1>2, <2>1, <3>5
    <3>11. QED
      BY <1>1, <1>2, <3>2, <3>5, <3>8, <3>9, <3>10, OpeningKeeps
  <2>2. CASE UNCHANGED fileVars /\ OpenFails
    <3>1. disk' = disk /\ images' = images /\ failed' = failed /\ op'.then = "nothing"
      BY <1>8, <2>2 DEF Migrate, OpenFails, Idle, fileVars
    <3>2. QED
      BY <1>2, <1>3, <3>1 DEF Present
  <2>3. QED
    BY <1>8, <2>1, <2>2 DEF Migrate
<1>9. QED
  BY <1>4, <1>5, <1>6, <1>7, <1>8

\* The journal is open: the book in memory is the replay of the file.
LEMMA OpenedStep == ASSUME IInv, Opened PROVE IInv'
<1>1. /\ up' = TRUE /\ op' = Idle /\ res' = Replayed(disk.lines) /\ op.then = "replay"
      /\ next_seq' = NextSeq(disk.lines) /\ Replays(disk.lines)
      /\ UNCHANGED <<disk, images, acked, fate, per, ticket, told, spent, kind, month, failed>>
  BY DEF Opened, fileVars, clientVars, envVars
<1>2. ~up /\ ~disk.torn /\ ~disk.split
  BY <1>1 DEF IInv, OpenOK
<1>3. disk \in Files /\ images \subseteq Files /\ disk.lines \in Seq(Lines) /\ disk.lines # <<>>
  <2>1. disk \in Files /\ images \subseteq Files
    BY DEF IInv, TypeOK
  <2>2. QED
    BY <1>1, <2>1, FileIs DEF Replays
<1>4. PICK b : b = Replayed(disk.lines)
  OBVIOUS
<1>5. PICK v : v = View
  OBVIOUS
<1>6. View' = v
  BY <1>1, <1>5 DEF View, Idle
<1>7. Holds(b, v) /\ \A s \in DOMAIN b : b[s].state # Outstanding
  BY <1>1, <1>4, <1>5 DEF IInv, FilesOK, Present, LinesOK
<1>8. DOMAIN b = Seqs(disk.lines) /\ DOMAIN b \subseteq 1..MaxSeq
  BY <1>4, <1>7, ReplayedDomain DEF Holds, Sound
<1>9. next_seq' \in Nat \ {0} /\ \A s \in DOMAIN b : s < next_seq'
  <2>1. PICK S : S = {0} \cup Seqs(disk.lines)
    OBVIOUS
  <2>2. S \subseteq 0..MaxSeq /\ S # {} /\ MaxSeq \in Nat
    BY <1>8, <2>1, JournalAssumption
  <2>3. Max(S) \in S /\ \A y \in S : y <= Max(S)
    BY <2>2, MaxIs
  <2>4. next_seq' = Max(S) + 1
    BY <1>1, <2>1 DEF NextSeq, Seqs
  <2>5. PICK n : n = Max(S)
    OBVIOUS
  <2>6. n \in Nat
    <3>1. n \in 0..MaxSeq
      BY <2>2, <2>3, <2>5
    <3>2. QED
      BY <3>1
  <2>7. \A s \in DOMAIN b : s \in S /\ s \in Nat /\ s <= n
    BY <1>8, <2>1, <2>3, <2>5
  <2>8. QED
    BY <2>4, <2>5, <2>6, <2>7
<1>10. TypeOK'
  <2>1. TypeOK
    BY DEF IInv
  <2>2. QED
    BY <1>1, <1>9, <2>1 DEF TypeOK
<1>11. FilesOK' /\ Readable'
  BY <1>1, <1>5, <1>6 DEF IInv, FilesOK, Readable, Present
<1>12. Numbered(b, next_seq', v)
  <2>1. ASSUME NEW s \in DOMAIN b
        PROVE  v.fate[b[s].attempt] = "gone"
    <3>1. PICK a : a = b[s].attempt
      OBVIOUS
    <3>2. a \in Attempts /\ Honest(b[s], v)
      BY <1>7, <3>1 DEF Holds, Sound, Reservation
    <3>3. v.fate[a] # "new"
      BY <3>1, <3>2 DEF Honest
    <3>4. v.fate = fate
      BY <1>5, ViewIs
    <3>5. fate[a] \notin {"asking", "held", "sent"}
      BY <1>2, <3>2 DEF IInv, ClientOK
    <3>6. fate[a] \in {"new", "asking", "held", "sent", "gone"}
      BY <3>2 DEF IInv, TypeOK
    <3>7. QED
      BY <3>1, <3>3, <3>4, <3>5, <3>6
  <2>2. QED
    BY <1>9, <2>1 DEF Numbered
<1>13. Beside(b, b, next_seq')
  BY <1>7, AfterHas DEF Beside, Same
<1>14. MemOK'
  BY <1>1, <1>2, <1>3, <1>4, <1>6, <1>7, <1>12, <1>13 DEF MemOK
<1>15. ReserveOK' /\ OutcomeOK' /\ OpenOK'
  BY <1>1 DEF ReserveOK, OutcomeOK, OpenOK, Idle
<1>16. ASSUME NEW a \in Attempts PROVE ClientOK(a)'
  <2>1. ClientOK(a)
    BY DEF IInv
  <2>2. QED
    BY <1>1, <1>2, <2>1 DEF ClientOK
<1>17. WithinCaps'
  BY <1>1, CapStands DEF IInv
<1>18. QED
  BY <1>10, <1>11, <1>14, <1>15, <1>16, <1>17 DEF IInv

-----------------------------------------------------------------------------
(* Steps of the users while the journal is open.                           *)

LEMMA ProperNext == ASSUME TypeOK', \A a \in Attempts : ClientOK(a)' PROVE Proper(View')
<1>1. PICK w : w = View'
  OBVIOUS
<1>2. w.acked = acked' /\ w.spent = spent' /\ w.told = told'
  BY <1>1, NextViewIs
<1>3. spent' \in [Attempts -> Nat] /\ told' \in [Attempts -> Nat]
  <2>1. spent' \in [Attempts -> 0..MaxCharge] /\ told' \in [Attempts -> Nat]
    BY DEF TypeOK
  <2>2. 0..MaxCharge \subseteq Nat
    BY SpendAssumption
  <2>3. QED
    BY <2>1, <2>2
<1>4. \A a \in Attempts : spent'[a] > 0 => \E s \in DOMAIN acked' : acked'[s].attempt = a
  BY DEF ClientOK
<1>5. QED
  BY <1>1, <1>2, <1>3, <1>4 DEF Proper

LEMMA CapWhenOpen ==
    ASSUME TypeOK', \A a \in Attempts : ClientOK(a)', NEW b, Holds(b, View') PROVE WithinCaps'
<1>1. PICK w : w = View'
  OBVIOUS
<1>2. Proper(w) /\ Holds(b, w)
  BY <1>1, ProperNext
<1>3. CapIn(w)
  BY <1>2, BookCovers
<1>4. QED
  BY <1>1, <1>3, CapOfNextView

LEMMA LiveStep ==
    ASSUME IInv, up, UNCHANGED <<disk, images, up, res, next_seq, acked, failed, op>>,
           \A ls : LinesOK(ls, View) => LinesOK(ls, View'), Holds(res, View'),
           \A a \in Attempts : fate[a] = "gone" => fate'[a] = "gone" /\ spent'[a] = spent[a],
           op.then = "reserve" => fate'[op.who] = "asking" /\ per'[op.who] = per[op.who],
           told' = told, TypeOK', \A a \in Attempts : ClientOK(a)'
    PROVE  IInv'
<1>1. \A s \in DOMAIN res : res[s].attempt \in Attempts
  BY DEF IInv, MemOK, Holds, Sound, Reservation
<1>2. FilesOK' /\ Readable'
  BY DEF IInv, FilesOK, Readable, Present
<1>3. Numbered(res, next_seq, View')
  <2>1. Numbered(res, next_seq, View)
    BY DEF IInv, MemOK
  <2>2. QED
    BY <1>1, <2>1, ViewIs, NextViewIs DEF Numbered
<1>4. MemOK'
  BY <1>3 DEF IInv, MemOK
<1>5. ReserveOK'
  BY DEF IInv, ReserveOK
<1>6. OutcomeOK'
  <2>1. ASSUME op.then = "outcome"
        PROVE  Tells(res[op.seq].attempt, op.to, View')
    <3>1. Tells(res[op.seq].attempt, op.to, View) /\ res[op.seq].attempt \in Attempts
      BY <1>1, <2>1 DEF IInv, OutcomeOK
    <3>2. QED
      BY <3>1, ViewIs, NextViewIs DEF Tells
  <2>2. QED
    BY <2>1 DEF IInv, OutcomeOK
<1>7. OpenOK'
  BY DEF IInv, OpenOK
<1>8. WithinCaps'
  BY CapWhenOpen
<1>9. QED
  BY <1>2, <1>4, <1>5, <1>6, <1>7, <1>8 DEF IInv

LEMMA AskStep == ASSUME IInv, NEW a \in Attempts, ReserveAsk(a) \/ ReserveRefuse(a) PROVE IInv'
<1>1. /\ up /\ UNCHANGED <<disk, images, up, res, next_seq, acked, failed, op>>
      /\ UNCHANGED <<kind, month, ticket, told, spent>>
      /\ \/ fate[a] = "new" /\ fate' = [fate EXCEPT ![a] = "asking"]
            /\ per' = [per EXCEPT ![a] = Period]
         \/ fate[a] = "asking" /\ fate' = [fate EXCEPT ![a] = "gone"] /\ per' = per /\ op = Idle
  BY DEF ReserveAsk, ReserveRefuse, fileVars, memVars, envVars
<1>2. Period \in Periods
  BY JournalAssumption DEF IInv, TypeOK, Period
<1>3. TypeOK /\ up \in BOOLEAN
  BY DEF IInv, TypeOK
<1>4. /\ fate' \in [Attempts -> {"new", "asking", "held", "sent", "gone"}]
      /\ per' \in [Attempts -> Periods]
  BY <1>1, <1>2, <1>3 DEF TypeOK
<1>5. TypeOK'
  BY <1>1, <1>3, <1>4 DEF TypeOK
<1>6. /\ \A x \in Attempts \ {a} : fate'[x] = fate[x] /\ per'[x] = per[x]
      /\ fate[a] = "new" => fate'[a] = "asking"
      /\ fate[a] # "new" => fate'[a] = "gone" /\ fate[a] = "asking" /\ per'[a] = per[a] /\ op = Idle
  BY <1>1, <1>3 DEF TypeOK
<1>7. ASSUME NEW x \in Attempts PROVE ClientOK(x)'
  <2>1. ClientOK(x)
    BY DEF IInv
  <2>2. QED
    BY <1>1, <1>6, <2>1 DEF ClientOK
<1>8. op.then = "reserve" => op.who \in Attempts /\ fate[op.who] = "asking" /\ op # Idle
  BY DEF IInv, ReserveOK, Idle
<1>9. Calm(View, View')
  <2>1. View'.writing = View.writing
    BY <1>1 DEF View
  <2>2. ASSUME NEW x \in Attempts, fate[x] # "new"
        PROVE  Still(x, View, View')
    BY <1>1, <1>6, <2>1, <2>2, ViewIs, NextViewIs DEF Still, NoMore
  <2>3. QED
    BY <1>1, <2>2, ViewIs, NextViewIs DEF Calm
<1>10. Holds(res, View') /\ \A ls : LinesOK(ls, View) => LinesOK(ls, View')
  <2>1. PICK v, w : v = View /\ w = View'
    OBVIOUS
  <2>2. Holds(res, v)
    BY <1>1, <2>1 DEF IInv, MemOK
  <2>3. Calm(v, w)
    BY <1>9, <2>1
  <2>4. QED
    BY <2>1, <2>2, <2>3, HoldsCalm, LinesCalm
<1>11. QED
  BY <1>1, <1>5, <1>6, <1>7, <1>8, <1>10, LiveStep

LEMMA MonthStep == ASSUME IInv, NextMonth PROVE IInv'
<1>1. /\ UNCHANGED <<disk, images, up, res, next_seq, acked, fate, per, ticket, told, spent>>
      /\ UNCHANGED <<kind, op, failed>> /\ month' \in Periods
  BY DEF NextMonth, fileVars, memVars, clientVars
<1>2. View' = View
  BY <1>1 DEF View
<1>3. TypeOK' /\ FilesOK' /\ Readable' /\ MemOK'
  BY <1>1, <1>2 DEF IInv, TypeOK, FilesOK, Readable, Present, MemOK
<1>4. ReserveOK' /\ OutcomeOK' /\ OpenOK' /\ \A a \in Attempts : ClientOK(a)'
  BY <1>1, <1>2 DEF IInv, ReserveOK, OutcomeOK, OpenOK, ClientOK
<1>5. WithinCaps'
  BY <1>1, CapStands DEF IInv
<1>6. QED
  BY <1>3, <1>4, <1>5 DEF IInv

LEMMA SendStep == ASSUME IInv, NEW a \in Attempts, NEW c \in Costs, Send(a, c) PROVE IInv'
<1>1. /\ up /\ UNCHANGED <<disk, images, up, res, next_seq, acked, failed, op>>
      /\ UNCHANGED <<kind, month, ticket, told, per>>
      /\ fate[a] = "held" /\ fate' = [fate EXCEPT ![a] = "sent"] /\ spent' = [spent EXCEPT ![a] = c]
  BY DEF Send, fileVars, memVars, envVars
<1>2. TypeOK /\ c \in 0..MaxCharge
  BY JournalAssumption DEF IInv
<1>3. TypeOK'
  BY <1>1, <1>2 DEF TypeOK
<1>4. /\ \A x \in Attempts \ {a} : fate'[x] = fate[x] /\ spent'[x] = spent[x]
      /\ fate'[a] = "sent"
  BY <1>1, <1>2 DEF TypeOK
<1>5. Holds(res, View) /\ ClientOK(a)
  BY <1>1 DEF IInv, MemOK
<1>6. \E s \in DOMAIN acked : acked[s].attempt = a
  <2>1. ticket[a] \in DOMAIN acked /\ res[ticket[a]].attempt = a
    BY <1>1, <1>5 DEF ClientOK
  <2>2. Same(res[ticket[a]], acked[ticket[a]])
    BY <1>5, <2>1, ViewIs DEF Holds, Keeps
  <2>3. QED
    BY <2>1, <2>2 DEF Same
<1>7. ASSUME NEW x \in Attempts PROVE ClientOK(x)'
  <2>1. ClientOK(x)
    BY DEF IInv
  <2>2. CASE x = a
    BY <1>1, <1>4, <1>6, <2>1, <2>2 DEF ClientOK
  <2>3. CASE x # a
    BY <1>1, <1>4, <2>1, <2>3 DEF ClientOK
  <2>4. QED
    BY <2>2, <2>3
<1>8. op.then = "reserve" => op.who \in Attempts /\ fate[op.who] = "asking"
  BY DEF IInv, ReserveOK
<1>9. Sends(View, View', a)
  <2>1. View'.writing = View.writing
    BY <1>1 DEF View
  <2>2. QED
    BY <1>1, <1>4, <2>1, ViewIs, NextViewIs DEF Sends
<1>10. Holds(res, View') /\ \A ls : LinesOK(ls, View) => LinesOK(ls, View')
  <2>1. PICK v, w : v = View /\ w = View'
    OBVIOUS
  <2>2. Holds(res, v) /\ Sends(v, w, a)
    BY <1>5, <1>9, <2>1
  <2>3. QED
    BY <2>1, <2>2, HoldsSent, LinesSent
<1>11. QED
  BY <1>1, <1>3, <1>4, <1>7, <1>8, <1>10, LiveStep

-----------------------------------------------------------------------------
(* An append.                                                              *)

\* A write or a sync fails: memory forgets the operation, whatever the file has.
LEMMA FailStep ==
    ASSUME IInv, up, up', op'.then = "nothing", failed', failed' \in BOOLEAN, up' \in BOOLEAN,
           disk' \in Files, images' \subseteq Files, disk'.lines = disk.lines,
           \A f \in images' \cup {disk'} : \E g \in Present : f.lines = g.lines,
           UNCHANGED <<res, next_seq, acked, per, ticket, spent, kind, month>>,
           told' \in [Attempts -> Nat], \A a \in Attempts : NoMore(told'[a], told[a]),
           fate' \in [Attempts -> {"new", "asking", "held", "sent", "gone"}],
           \A a \in Attempts : fate'[a] \in {fate[a], "gone"},
           op.then = "reserve" => fate'[op.who] = "gone"
    PROVE  IInv'
<1>1. TypeOK'
  BY DEF IInv, TypeOK
<1>2. Calm(View, View')
  <2>1. ASSUME NEW a \in Attempts, fate[a] # "new"
        PROVE  Still(a, View, View')
    <3>1. a \in View.writing => fate'[a] = "gone"
      BY ViewIs
    <3>2. QED
      BY <3>1, ViewIs, NextViewIs DEF Still
  <2>2. QED
    BY <2>1, ViewIs, NextViewIs DEF Calm
<1>3. PICK v, w : v = View /\ w = View'
  OBVIOUS
<1>4. Holds(res, v) /\ Calm(v, w) /\ Numbered(res, next_seq, v)
  BY <1>2, <1>3 DEF IInv, MemOK
<1>5. Holds(res, w) /\ \A ls : LinesOK(ls, v) => LinesOK(ls, w)
  BY <1>4, HoldsCalm, LinesCalm
<1>6. FilesOK' /\ Readable'
  BY <1>3, <1>5 DEF IInv, FilesOK, Readable, Present
<1>7. Numbered(res, next_seq, w)
  <2>1. \A s \in DOMAIN res : res[s].attempt \in Attempts
    BY <1>4 DEF Holds, Sound, Reservation
  <2>2. QED
    BY <1>3, <1>4, <2>1, ViewIs, NextViewIs DEF Numbered
<1>8. MemOK'
  BY <1>3, <1>5, <1>7 DEF IInv, MemOK
<1>9. ReserveOK' /\ OutcomeOK' /\ OpenOK'
  BY DEF ReserveOK, OutcomeOK, OpenOK
<1>10. ASSUME NEW a \in Attempts PROVE ClientOK(a)'
  <2>1. ClientOK(a)
    BY DEF IInv
  <2>2. fate'[a] \in {fate[a], "gone"}
    OBVIOUS
  <2>3. QED
    BY <2>1, <2>2 DEF ClientOK
<1>11. WithinCaps'
  BY <1>1, <1>3, <1>5, <1>10, CapWhenOpen
<1>12. QED
  BY <1>1, <1>6, <1>8, <1>9, <1>10, <1>11 DEF IInv

\* What a file replays to, beside the book in memory.
Backed(b, v, r, n) ==
    Holds(b, v) /\ Beside(b, r, n) /\ \A t \in DOMAIN b : b[t].state # Outstanding
Free(b, a) == \A t \in DOMAIN b : b[t].attempt # a
Booked(b, n, a, p, u) ==
    n \in DOMAIN b /\ b[n] = [Res(a, p, u) EXCEPT !.state = Liability]

\* The line of a reservation that fits.
LEMMA ReserveLine ==
    ASSUME NEW ls \in Seq(Lines), ls # <<>>, NEW v, NEW r, Holds(r, v), NEW n \in 1..MaxSeq,
           NEW a \in Attempts, NEW u \in Amounts, NEW p \in Periods,
           Replays(ls) => Backed(Replayed(ls), v, r, n) /\ Free(Replayed(ls), a),
           n \notin DOMAIN r, totals(r, p) + u <= Cap,
           a \in RunAttempts => run_total(r) + u <= RunCap,
           v.fate[a] = "asking", a \in v.writing, v.spent[a] = 0, v.per[a] = p,
           NEW ms, ms = Append(ls, Reserve(n, p, a, u)), Replays(ms)
    PROVE  Backed(Replayed(ms), v, r, n) /\ Booked(Replayed(ms), n, a, p, u)
<1>1. Reserve(n, p, a, u) \in Lines
  BY DEF Lines
<1>2. Replays(ls) /\ Reserved(Replayed(ls), Replayed(ms), n, Res(a, p, u))
  BY <1>1, ReplayReserve
<1>3. PICK b, c : b = Replayed(ls) /\ c = Replayed(ms)
  OBVIOUS
<1>4. /\ Holds(b, v) /\ Beside(b, r, n) /\ Reserved(b, c, n, Res(a, p, u))
      /\ \A t \in DOMAIN b : b[t].attempt # a /\ b[t].state # Outstanding
  BY <1>2, <1>3 DEF Backed, Free
<1>5. /\ n \notin DOMAIN b /\ DOMAIN c = DOMAIN b \cup {n} /\ (\A t \in DOMAIN b : c[t] = b[t])
      /\ c[n] = [Res(a, p, u) EXCEPT !.state = Liability]
  BY <1>4 DEF Reserved
<1>6. c[n] = [attempt |-> a, period |-> p, units |-> u, state |-> Liability]
  BY <1>5 DEF Res
<1>7. c[n] \in Reservation
  BY <1>6, SpendAssumption DEF Reservation, States
<1>8. DOMAIN r = DOMAIN b /\ Sound(b) /\ Sound(r)
  BY <1>4, <1>5 DEF Beside, Holds
<1>9. \A t \in DOMAIN b : Same(b[t], r[t]) /\ Capped(b[t]) <= Counted(r[t])
  BY <1>4, <1>8, CappedAfter DEF Beside, Sound
<1>10. Sound(c)
  <2>1. c[n].period = p /\ c[n].units = u /\ c[n].attempt = a
    BY <1>6
  <2>2. QED
    BY <1>4, <1>5, <1>7, <1>8, <1>9, <2>1, ReserveSound
<1>11. Holds(c, v)
  BY <1>4, <1>5, <1>6, <1>10, ReserveHolds
<1>12. Beside(c, r, n)
  BY <1>4, <1>5 DEF Beside
<1>13. \A t \in DOMAIN c : c[t].state # Outstanding
  BY <1>4, <1>5, <1>6, OutcomeIs
<1>14. QED
  BY <1>3, <1>5, <1>11, <1>12, <1>13 DEF Backed, Booked

\* The checks of a reservation, against the book in memory.
LEMMA ChecksFit ==
    ASSUME IInv, up, NEW a \in Attempts, ~RunCapExceeded(a, Bound(a)), ~OverCap(per[a], Bound(a))
    PROVE  /\ totals(res, per[a]) + Bound(a) <= Cap
           /\ a \in RunAttempts => run_total(res) + Bound(a) <= RunCap
<1>1. PICK u : u = Bound(a)
  OBVIOUS
<1>2. u \in Nat /\ Cap \in Nat /\ RunCap \in Nat
  BY <1>1, SpendAssumption, JournalAssumption
<1>3. Sound(res)
  BY DEF IInv, MemOK, Holds
<1>4. PICK t, k : t = totals(res, per[a]) /\ k = run_total(res)
  OBVIOUS
<1>5. t \in Nat /\ k \in Nat
  BY <1>3, <1>4, BookSums, TotalType DEF totals, run_total, InPeriod, InRun
<1>6. a \in RunAttempts => ~(k > RunCap) /\ ~(u > RunCap - k)
  BY <1>1, <1>4 DEF RunCapExceeded
<1>7. ~(t + u > Cap)
  BY <1>1, <1>4 DEF OverCap
<1>8. t + u <= Cap /\ (a \in RunAttempts => k + u <= RunCap)
  BY <1>2, <1>5, <1>6, <1>7
<1>9. QED
  BY <1>1, <1>4, <1>8

LEMMA ReserveWriteStep == ASSUME IInv, NEW a \in Attempts, ReserveWrite(a) PROVE IInv'
<1>1. /\ up /\ op = Idle /\ fate[a] = "asking" /\ next_seq <= MaxSeq
      /\ ~RunCapExceeded(a, Bound(a)) /\ ~OverCap(per[a], Bound(a))
      /\ UNCHANGED <<up, res, next_seq, acked, per, ticket, told, spent, kind, month>>
  BY DEF ReserveWrite, memVars, envVars
<1>2. TypeOK /\ disk \in Files /\ images \subseteq Files
  BY DEF IInv, TypeOK
<1>3. CASE WriteFails(Reserve(next_seq, per[a], a, Bound(a)))
             /\ fate' = [fate EXCEPT ![a] = "gone"] /\ UNCHANGED op
  <2>1. /\ failed' = TRUE /\ images' = images \cup {disk'}
        /\ disk' \in {disk} \cup Torn(disk, Reserve(next_seq, per[a], a, Bound(a)))
        /\ op'.then = "nothing" /\ op.then = "nothing"
    BY <1>1, <1>3 DEF WriteFails, Idle
  <2>2. disk' \in Files /\ disk'.lines = disk.lines /\ images' \subseteq Files
    BY <1>2, <2>1, TornIs
  <2>3. \A f \in images' \cup {disk'} : \E g \in Present : f.lines = g.lines
    BY <2>1, <2>2 DEF Present
  <2>4. /\ fate' \in [Attempts -> {"new", "asking", "held", "sent", "gone"}]
        /\ \A x \in Attempts : fate'[x] \in {fate[x], "gone"}
    BY <1>2, <1>3 DEF TypeOK
  <2>6. told' \in [Attempts -> Nat] /\ \A x \in Attempts : NoMore(told'[x], told[x])
    BY <1>1, <1>2 DEF TypeOK, NoMore
  <2>5. QED
    BY <1>1, <1>2, <2>1, <2>2, <2>3, <2>4, <2>6, FailStep DEF TypeOK
<1>4. ASSUME Write(Reserve(next_seq, per[a], a, Bound(a)),
                   [then |-> "reserve", who |-> a, units |-> Bound(a)]),
             UNCHANGED fate
      PROVE  IInv'
  <2>1. PICK n, p, u, l : /\ n = next_seq /\ p = per[a] /\ u = Bound(a)
                          /\ l = Reserve(next_seq, per[a], a, Bound(a))
    OBVIOUS
  <2>2. /\ n \in 1..MaxSeq /\ p \in Periods /\ u \in Amounts /\ l = Reserve(n, p, a, u)
        /\ l \in Lines
    <3>1. n \in 1..MaxSeq /\ p \in Periods /\ u \in Amounts
      BY <1>1, <1>2, <2>1, JournalAssumption DEF TypeOK
    <3>2. l = Reserve(n, p, a, u)
      BY <2>1
    <3>3. QED
      BY <3>1, <3>2 DEF Lines
  <2>3. /\ disk' = Written(disk, l) /\ images' = images \cup Torn(disk, l) \cup {disk'}
        /\ op' = [then |-> "reserve", who |-> a, units |-> u] /\ failed' = failed
    BY <1>4, <2>1 DEF Write
  <2>4. op'.then = "reserve" /\ op'.who = a /\ op'.units = u /\ op.then = "nothing"
    BY <1>1, <2>3 DEF Idle
  <2>5. /\ disk' \in Files /\ ~disk'.torn /\ disk'.lines # <<>> /\ disk'.split = disk.split
        /\ disk.torn => disk'.lines = Append(disk.lines, Garbage)
        /\ ~disk.torn => disk'.lines = Append(disk.lines, l)
        /\ (\A g \in Torn(disk, l) : g \in Files /\ g.lines = disk.lines /\ g.torn)
        /\ disk.lines \in Seq(Lines)
    <3>1. /\ disk' \in Files /\ ~disk'.torn /\ disk'.lines # <<>> /\ disk'.split = disk.split
          /\ disk.torn => disk'.lines = Append(disk.lines, Garbage)
          /\ ~disk.torn => disk'.lines = Append(disk.lines, l)
      BY <1>2, <2>2, <2>3, WrittenIs
    <3>2. \A g \in Torn(disk, l) : g \in Files /\ g.lines = disk.lines /\ g.torn
      BY <1>2, TornIs
    <3>3. disk.lines \in Seq(Lines)
      BY <1>2, FileIs
    <3>4. QED
      BY <3>1, <3>2, <3>3
  <2>6. TypeOK'
    BY <1>1, <1>2, <1>4, <2>3, <2>5 DEF TypeOK
  <2>7. PICK v, w : v = View /\ w = View'
    OBVIOUS
  <2>8. /\ v.acked = acked /\ v.fate = fate /\ v.per = per /\ v.told = told /\ v.spent = spent
        /\ v.writing = {} /\ w.acked = acked /\ w.fate = fate /\ w.per = per /\ w.told = told
        /\ w.spent = spent /\ w.writing = {a}
    BY <1>1, <1>4, <2>4, <2>7, ViewIs, NextViewIs
  <2>9. Calm(v, w)
    BY <2>8 DEF Calm, Still, NoMore
  <2>10. /\ Holds(res, v) /\ Numbered(res, n, v) /\ disk.lines # <<>>
         /\ Replays(disk.lines) => Beside(Replayed(disk.lines), res, n)
         /\ ~failed => /\ Replays(disk.lines) /\ ~disk.torn /\ ~disk.split
                       /\ DOMAIN Replayed(disk.lines) = DOMAIN res
    BY <1>1, <2>1, <2>4, <2>7 DEF IInv, MemOK
  <2>11. LinesOK(disk.lines, v) /\ LinesOK(disk.lines, w) /\ Holds(res, w)
    BY <2>7, <2>9, <2>10, HoldsCalm, LinesCalm DEF IInv, FilesOK, Present
  <2>12. ASSUME NEW b, Holds(b, v)
         PROVE  \A t \in DOMAIN b : b[t].attempt # a
    BY <1>1, <2>8, <2>12 DEF Holds, Honest
  <2>13. totals(res, p) + u <= Cap /\ (a \in RunAttempts => run_total(res) + u <= RunCap)
    BY <1>1, <2>1, ChecksFit
  <2>14. n \notin DOMAIN res
    BY <2>2, <2>10 DEF Numbered
  <2>15. spent[a] = 0
    BY <1>1 DEF IInv, ClientOK
  <2>16. ASSUME Replays(disk'.lines)
         PROVE  /\ ~disk.torn /\ Backed(Replayed(disk'.lines), w, res, n)
                /\ Booked(Replayed(disk'.lines), n, a, p, u)
    <3>1. Garbage \in Lines
      BY DEF Lines
    <3>2. ~disk.torn
      BY <2>5, <2>10, <2>16, <3>1, ReplayGarbage
    <3>3. PICK ms : ms = disk'.lines
      OBVIOUS
    <3>4. ms = Append(disk.lines, Reserve(n, p, a, u)) /\ Replays(ms)
      BY <2>2, <2>5, <2>16, <3>2, <3>3
    <3>5. PICK ls, r : ls = disk.lines /\ r = res
      OBVIOUS
    <3>6. Replays(ls) => Backed(Replayed(ls), w, r, n) /\ Free(Replayed(ls), a)
      BY <2>10, <2>11, <2>12, <3>5 DEF LinesOK, Backed, Free
    <3>7. w.fate[a] = "asking" /\ a \in w.writing /\ w.spent[a] = 0 /\ w.per[a] = p
      BY <1>1, <2>1, <2>8, <2>15
    <3>8. ls \in Seq(Lines) /\ ls # <<>> /\ Holds(r, w) /\ n \notin DOMAIN r
      BY <2>5, <2>10, <2>11, <2>14, <3>5
    <3>9. totals(r, p) + u <= Cap /\ (a \in RunAttempts => run_total(r) + u <= RunCap)
      BY <2>13, <3>5
    <3>10. ms = Append(ls, Reserve(n, p, a, u)) /\ Replays(ms)
      BY <3>4, <3>5
    <3>11. Backed(Replayed(ms), w, r, n) /\ Booked(Replayed(ms), n, a, p, u)
      BY <2>2, <3>6, <3>7, <3>8, <3>9, <3>10, ReserveLine
    <3>12. QED
      BY <3>2, <3>3, <3>5, <3>11
  <2>17. ~failed => Replays(disk'.lines)
    <3>1. ASSUME ~failed
          PROVE  Replays(Append(disk.lines, l))
      <4>1. l.op = "reserve" /\ l.seq = n
        BY <2>2 DEF Reserve
      <4>2. n \notin Seqs(disk.lines) /\ Replays(disk.lines)
        BY <2>10, <2>14, <3>1, ReplayedDomain
      <4>3. QED
        BY <2>2, <2>5, <2>10, <4>1, <4>2, ReplaysAppend
    <3>2. QED
      BY <2>5, <2>10, <3>1
  <2>18. FilesOK'
    <3>1. LinesOK(disk'.lines, w)
      BY <2>5, <2>16 DEF LinesOK, Backed
    <3>2. \A f \in images \cup {disk} : LinesOK(f.lines, w)
      BY <2>7, <2>9, LinesCalm DEF IInv, FilesOK, Present
    <3>3. QED
      BY <2>3, <2>5, <2>7, <3>1, <3>2 DEF FilesOK, Present
  <2>19. Readable'
    BY <2>3, <2>5, <2>10, <2>17 DEF IInv, Readable, Mendable, Present
  <2>20. MemOK'
    <3>1. Numbered(res, n, w)
      BY <2>8, <2>10 DEF Numbered
    <3>2. QED
      BY <1>1, <2>1, <2>3, <2>4, <2>5, <2>7, <2>10, <2>11, <2>16, <2>17, <3>1 DEF MemOK, Backed
  <2>21. ReserveOK'
    BY <1>1, <1>4, <2>1, <2>2, <2>4, <2>10, <2>12, <2>13, <2>16 DEF ReserveOK, Booked
  <2>22. OutcomeOK' /\ OpenOK'
    BY <2>4 DEF OutcomeOK, OpenOK
  <2>23. \A x \in Attempts : ClientOK(x)'
    BY <1>1, <1>4 DEF IInv, ClientOK
  <2>24. WithinCaps'
    BY <1>1, CapStands DEF IInv
  <2>25. QED
    BY <2>6, <2>18, <2>19, <2>20, <2>21, <2>22, <2>23, <2>24 DEF IInv
<1>5. QED
  BY <1>3, <1>4 DEF ReserveWrite

\* What may follow a state that may follow another.
LEMMA DueAfter ==
    ASSUME NEW st \in States, NEW x, x = st \/ x \in Book!After(st), NEW to, Due(x, to)
    PROVE  /\ to \in Book!After(st) /\ to \in Book!Outcomes
           /\ x \in {Outstanding, Liability, Unknown}
<1>1. /\ to \in Book!Outcomes /\ x \in {Outstanding, Liability, Unknown}
      /\ x = Outstanding \/ to \in Book!Observations
  BY OutcomeIs DEF Due
<1>2. CASE x = st
  BY <1>1, <1>2, AfterHas
<1>3. CASE x \in Book!After(st)
  <2>1. x # Outstanding /\ to \in Book!Observations
    BY <1>1, <1>3, AfterIs
  <2>2. x \notin Book!Observations
    BY <1>1, OutcomeIs
  <2>3. st \in {Outstanding, Liability, Unknown}
    BY <1>1, <1>3, <2>2, AfterIs
  <2>4. QED
    BY <1>1, <2>1, <2>3, AfterHas
<1>4. QED
  BY <1>1, <1>2, <1>3

\* A reservation that memory still waits for is a liability to the file.
Owed(b, r, s) == r[s].state = Outstanding => b[s].state = Liability
Acknowledged(v) == \A t \in DOMAIN v.acked : v.acked[t] \in Reservation

Recordable(l, r, v) ==
    /\ l.op # "reserve" /\ l.seq \in DOMAIN r
    /\ Due(r[l.seq].state, l.to) /\ Tells(r[l.seq].attempt, l.to, v)
    /\ l.to.tag = "estimated" => l.seq \in DOMAIN v.acked
Noted(c, b, l) == DOMAIN c = DOMAIN b /\ c[l.seq].state = l.to

\* The line of an outcome.
LEMMA OutcomeLine ==
    ASSUME NEW ls \in Seq(Lines), ls # <<>>, NEW v, Acknowledged(v), NEW r, Holds(r, v), NEW n,
           NEW l \in Lines, Recordable(l, r, v),
           Replays(ls) => Backed(Replayed(ls), v, r, n) /\ Owed(Replayed(ls), r, l.seq),
           Replays(Append(ls, l))
    PROVE  /\ Backed(Replayed(Append(ls, l)), v, r, n)
           /\ Noted(Replayed(Append(ls, l)), Replayed(ls), l)
<1>ms. PICK ms, s : ms = Append(ls, l) /\ s = l.seq
  OBVIOUS
<1>ok. /\ s \in DOMAIN r /\ l.op # "reserve"
      /\ Due(r[s].state, l.to) /\ Tells(r[s].attempt, l.to, v) /\ Replays(ms)
  BY <1>ms DEF Recordable
<1> USE <1>ms, <1>ok
<1>1. PICK to : to = l.to
  OBVIOUS
<1>2. r[s] \in Reservation /\ r[s].state \in States
  BY DEF Holds, Sound, Reservation
<1>3. /\ to \in Book!Outcomes /\ to \in Book!After(r[s].state)
      /\ r[s].state \in {Outstanding, Liability, Unknown}
  BY <1>1, <1>2, DueAfter
<1>4. to # Outstanding /\ Found(to) = to
  BY <1>3, OutcomeIs DEF Found
<1>5. Replays(ls) /\ Recorded(Replayed(ls), Replayed(ms), s, to)
  BY <1>1, <1>4, ReplayOutcome
<1>6. PICK b, c : b = Replayed(ls) /\ c = Replayed(ms)
  OBVIOUS
<1>7. /\ Holds(b, v) /\ Beside(b, r, n) /\ Recorded(b, c, s, to)
      /\ \A t \in DOMAIN b : b[t].state # Outstanding
      /\ r[s].state = Outstanding => b[s].state = Liability
  BY <1>5, <1>6 DEF Backed, Owed
<1>8. /\ s \in DOMAIN b /\ DOMAIN c = DOMAIN b /\ (\A t \in DOMAIN b \ {s} : c[t] = b[t])
      /\ c[s] = [b[s] EXCEPT !.state = to]
  BY <1>7 DEF Recorded
<1>9. /\ b[s] \in Reservation /\ Honest(b[s], v) /\ Same(b[s], r[s])
      /\ b[s].state \in Book!After(r[s].state)
  BY <1>7, <1>8 DEF Holds, Sound, Beside
<1>10. Same(c[s], b[s]) /\ c[s].state = to /\ c[s] \in Reservation
  <2>1. to \in States
    BY <1>3, OutcomeIs
  <2>2. QED
    BY <1>8, <1>9, <2>1 DEF Same, Reservation
<1>11. Capped(c[s]) <= Capped(b[s])
  <2>1. /\ b[s].units \in Nat /\ c[s].units = b[s].units /\ Capped(c[s]) \in Nat
        /\ Capped(c[s]) <= c[s].units
    BY <1>9, <1>10, CountedIs DEF Same
  <2>2. CASE b[s].state \in {Outstanding, Liability, Unknown}
    BY <1>9, <2>1, <2>2, CountedIs
  <2>3. CASE b[s].state \notin {Outstanding, Liability, Unknown}
    <3>1. r[s].state # Outstanding
      BY <1>7, <2>3
    <3>2. b[s].state \in Book!Observations
      BY <1>2, <1>3, <1>9, <2>3, <3>1, AfterIs
    <3>3. to \in Book!Observations
      BY <1>1, <1>3, <3>1 DEF Due
    <3>4. b[s].state.tag = "observed" /\ to.tag = "observed"
      BY <3>2, <3>3, OutcomeIs
    <3>5. b[s].state.units = to.units
      BY <1>1, <1>9, <3>4 DEF Honest, Tells, Same
    <3>6. Counted(c[s]) = Counted(b[s])
      BY <1>10, <3>4, <3>5 DEF Counted
    <3>7. Capped(c[s]) = Capped(b[s])
      BY <2>1, <3>6 DEF Capped
    <3>8. QED
      BY <2>1, <3>7
  <2>4. QED
    BY <2>2, <2>3
<1>12. s \in DOMAIN v.acked => to \in Book!After(v.acked[s].state)
  <2>1. ASSUME s \in DOMAIN v.acked
        PROVE  to \in Book!After(v.acked[s].state)
    <3>1. v.acked[s].state \in States
      BY <2>1 DEF Reservation, Acknowledged
    <3>2. r[s].state = v.acked[s].state \/ r[s].state \in Book!After(v.acked[s].state)
      BY <2>1 DEF Holds, Keeps
    <3>3. QED
      BY <1>1, <3>1, <3>2, DueAfter
  <2>2. QED
    BY <2>1
<1>13. Tells(b[s].attempt, to, v)
  BY <1>1, <1>9 DEF Same
<1>14. Holds(c, v)
  <2>1. to.tag = "estimated" => s \in DOMAIN v.acked
    BY <1>1 DEF Recordable
  <2>2. QED
    BY <1>3, <1>7, <1>11, <1>12, <1>13, <2>1, RecordHolds
<1>15. Beside(c, r, n)
  <2>1. ASSUME NEW t \in DOMAIN r
        PROVE  Same(c[t], r[t]) /\ c[t].state \in Book!After(r[t].state)
    <3>1. Same(b[t], r[t]) /\ b[t].state \in Book!After(r[t].state) /\ t \in DOMAIN b
      BY <1>7 DEF Beside
    <3>2. CASE t = s
      BY <1>3, <1>10, <3>1, <3>2 DEF Same
    <3>3. CASE t # s
      BY <1>8, <3>1, <3>3
    <3>4. QED
      BY <3>2, <3>3
  <2>2. QED
    BY <1>7, <1>8, <2>1 DEF Beside
<1>16. \A t \in DOMAIN c : c[t].state # Outstanding
  BY <1>4, <1>7, <1>8, <1>10
<1>17. QED
  BY <1>1, <1>6, <1>8, <1>10, <1>14, <1>15, <1>16 DEF Backed, Noted

\* settle, release and the two reconciliations.
LEMMA OutcomeWrite ==
    ASSUME IInv, NEW s, s \in DOMAIN res, NEW l \in Lines, l.op \notin {"reserve", "garbage"},
           l.seq = s, Outcome(s, l), Due(res[s].state, l.to),
           UNCHANGED <<memVars, envVars, per, ticket, spent>>,
           told' \in [Attempts -> Nat], \A a \in Attempts : NoMore(told'[a], told[a]),
           fate' \in [Attempts -> {"new", "asking", "held", "sent", "gone"}],
           \A a \in Attempts : fate'[a] \in {fate[a], "gone"}, fate'[res[s].attempt] = "gone",
           res[s].state = Outstanding => fate[res[s].attempt] \in {"held", "sent"},
           l.to.tag = "observed" => l.to.units = spent[res[s].attempt],
           l.to.tag = "estimated" => s \in DOMAIN acked /\ told'[res[s].attempt] <= l.to.units,
           l.to = Released => spent[res[s].attempt] = 0
    PROVE  IInv'
<1>1. /\ up /\ op = Idle
      /\ UNCHANGED <<up, res, next_seq, acked, per, ticket, spent, kind, month>>
  BY DEF Outcome, memVars, envVars
<1>2. TypeOK /\ disk \in Files /\ images \subseteq Files
  BY DEF IInv, TypeOK
<1>3. CASE WriteFails(l) /\ UNCHANGED op
  <2>1. /\ failed' = TRUE /\ disk' \in {disk} \cup Torn(disk, l) /\ images' = images \cup {disk'}
        /\ op'.then = "nothing" /\ op.then = "nothing"
    BY <1>1, <1>3 DEF WriteFails, Idle
  <2>2. disk' \in Files /\ disk'.lines = disk.lines /\ images' \subseteq Files
    BY <1>2, <2>1, TornIs
  <2>3. \A f \in images' \cup {disk'} : \E g \in Present : f.lines = g.lines
    BY <2>1, <2>2 DEF Present
  <2>4. QED
    BY <1>1, <1>2, <2>1, <2>2, <2>3, FailStep DEF TypeOK
<1>4. ASSUME Write(l, [then |-> "outcome", seq |-> s, to |-> l.to])
      PROVE  IInv'
  <2>1. PICK n, to : n = next_seq /\ to = l.to
    OBVIOUS
  <2>3. /\ disk' = Written(disk, l) /\ images' = images \cup Torn(disk, l) \cup {disk'}
        /\ op' = [then |-> "outcome", seq |-> s, to |-> to] /\ failed' = failed
    BY <1>4, <2>1 DEF Write
  <2>4. op'.then = "outcome" /\ op'.seq = s /\ op'.to = to /\ op.then = "nothing"
    BY <1>1, <2>3 DEF Idle
  <2>5. /\ disk' \in Files /\ ~disk'.torn /\ disk'.lines # <<>> /\ disk'.split = disk.split
        /\ disk.torn => disk'.lines = Append(disk.lines, Garbage)
        /\ ~disk.torn => disk'.lines = Append(disk.lines, l)
        /\ (\A g \in Torn(disk, l) : g \in Files /\ g.lines = disk.lines /\ g.torn)
        /\ disk.lines \in Seq(Lines)
    <3>1. /\ disk' \in Files /\ ~disk'.torn /\ disk'.lines # <<>> /\ disk'.split = disk.split
          /\ disk.torn => disk'.lines = Append(disk.lines, Garbage)
          /\ ~disk.torn => disk'.lines = Append(disk.lines, l)
      BY <1>2, <2>3, WrittenIs
    <3>2. \A g \in Torn(disk, l) : g \in Files /\ g.lines = disk.lines /\ g.torn
      BY <1>2, TornIs
    <3>3. disk.lines \in Seq(Lines)
      BY <1>2, FileIs
    <3>4. QED
      BY <3>1, <3>2, <3>3
  <2>6. TypeOK'
    BY <1>1, <1>2, <2>3, <2>5 DEF TypeOK
  <2>7. PICK v, w : v = View /\ w = View'
    OBVIOUS
  <2>8. /\ v.acked = acked /\ v.fate = fate /\ v.per = per /\ v.told = told /\ v.spent = spent
        /\ v.writing = {} /\ w.acked = acked /\ w.fate = fate' /\ w.per = per /\ w.told = told'
        /\ w.spent = spent /\ w.writing = {}
    BY <1>1, <2>4, <2>7, ViewIs, NextViewIs
  <2>9. Calm(v, w)
    BY <2>8 DEF Calm, Still
  <2>10. /\ Holds(res, v) /\ Numbered(res, n, v) /\ disk.lines # <<>>
         /\ Replays(disk.lines) => Beside(Replayed(disk.lines), res, n)
         /\ ~failed => /\ Replays(disk.lines) /\ ~disk.torn /\ ~disk.split
                       /\ DOMAIN Replayed(disk.lines) = DOMAIN res
    BY <1>1, <2>1, <2>4, <2>7 DEF IInv, MemOK
  <2>11. LinesOK(disk.lines, v) /\ LinesOK(disk.lines, w) /\ Holds(res, w)
    BY <2>7, <2>9, <2>10, HoldsCalm, LinesCalm DEF IInv, FilesOK, Present
  <2>12. Tells(res[s].attempt, to, w)
    BY <2>1, <2>8 DEF Tells
  <2>13. ASSUME Replays(disk.lines), res[s].state = Outstanding
         PROVE  Replayed(disk.lines)[s].state = Liability
    <3>1. PICK b : b = Replayed(disk.lines)
      OBVIOUS
    <3>2. Holds(b, v) /\ b[s].state # Outstanding /\ s \in DOMAIN b /\ Same(b[s], res[s])
      BY <2>10, <2>11, <2>13, <3>1 DEF LinesOK, Beside
    <3>3. Honest(b[s], v) /\ v.fate[b[s].attempt] \in {"held", "sent"}
      BY <2>8, <2>13, <3>2 DEF Holds, Same
    <3>4. b[s].state \in {Outstanding, Liability}
      BY <3>3 DEF Honest
    <3>5. QED
      BY <3>1, <3>2, <3>4
  <2>14. Acknowledged(w)
    BY <1>2, <2>8 DEF TypeOK, Acknowledged
  <2>15. ASSUME Replays(disk'.lines)
         PROVE  /\ ~disk.torn /\ Backed(Replayed(disk'.lines), w, res, n)
                /\ DOMAIN Replayed(disk'.lines) = DOMAIN Replayed(disk.lines)
                /\ Replayed(disk'.lines)[s].state = to
    <3>1. Garbage \in Lines
      BY DEF Lines
    <3>2. ~disk.torn
      BY <2>5, <2>10, <2>15, <3>1, ReplayGarbage
    <3>3. PICK ms, ls, r : ms = disk'.lines /\ ls = disk.lines /\ r = res
      OBVIOUS
    <3>4. ms = Append(ls, l) /\ Replays(ms) /\ ls \in Seq(Lines) /\ ls # <<>> /\ Holds(r, w)
      BY <2>5, <2>10, <2>11, <2>15, <3>2, <3>3
    <3>5. Replays(ls) => Backed(Replayed(ls), w, r, n) /\ Owed(Replayed(ls), r, s)
      BY <2>10, <2>11, <2>13, <3>3 DEF LinesOK, Backed, Owed
    <3>6. Recordable(l, r, w)
      BY <2>1, <2>8, <2>12, <3>3 DEF Recordable
    <3>7. /\ Backed(Replayed(Append(ls, l)), w, r, n)
          /\ Noted(Replayed(Append(ls, l)), Replayed(ls), l)
      BY <2>14, <3>4, <3>5, <3>6, OutcomeLine
    <3>8. QED
      BY <2>1, <3>2, <3>3, <3>4, <3>7 DEF Noted
  <2>17. ~failed => Replays(disk'.lines)
    <3>1. ASSUME ~failed
          PROVE  Replays(Append(disk.lines, l))
      <4>1. s \in Seqs(disk.lines) /\ Replays(disk.lines)
        BY <2>10, <3>1, ReplayedDomain
      <4>2. QED
        BY <2>5, <2>10, <4>1, ReplaysAppend
    <3>2. QED
      BY <2>5, <2>10, <3>1
  <2>18. FilesOK'
    <3>1. LinesOK(disk'.lines, w)
      BY <2>5, <2>15 DEF LinesOK, Backed
    <3>2. \A f \in images \cup {disk} : LinesOK(f.lines, w)
      BY <2>7, <2>9, LinesCalm DEF IInv, FilesOK, Present
    <3>3. QED
      BY <2>3, <2>5, <2>7, <3>1, <3>2 DEF FilesOK, Present
  <2>19. Readable'
    BY <2>3, <2>5, <2>10, <2>17 DEF IInv, Readable, Mendable, Present
  <2>20. MemOK'
    <3>1. Numbered(res, n, w)
      <4>1. \A t \in DOMAIN res : res[t].attempt \in Attempts
        BY <2>10 DEF Holds, Sound, Reservation
      <4>2. QED
        BY <2>8, <2>10, <4>1 DEF Numbered
    <3>2. QED
      BY <1>1, <2>1, <2>3, <2>4, <2>5, <2>7, <2>10, <2>11, <2>15, <2>17, <3>1 DEF MemOK, Backed
  <2>21. OutcomeOK'
    BY <1>1, <2>1, <2>4, <2>7, <2>12, <2>15 DEF OutcomeOK
  <2>22. ReserveOK' /\ OpenOK'
    BY <2>4 DEF ReserveOK, OpenOK
  <2>23. ASSUME NEW x \in Attempts PROVE ClientOK(x)'
    <3>1. ClientOK(x) /\ fate'[x] \in {fate[x], "gone"}
      BY DEF IInv
    <3>2. QED
      BY <1>1, <3>1 DEF ClientOK
  <2>24. WithinCaps'
    BY <1>1, <2>6, <2>7, <2>11, <2>23, CapWhenOpen
  <2>25. QED
    BY <2>6, <2>18, <2>19, <2>20, <2>21, <2>22, <2>23, <2>24 DEF IInv
<1>5. QED
  BY <1>3, <1>4 DEF Outcome

\* The outcomes the users record.
LEMMA SettleStep ==
    ASSUME IInv, NEW a \in Attempts,
           NEW c \in {"observed", "estimated", "unknown"}, NEW e \in 0..MaxCharge,
           settle(a, c, e) \/ release(a)
    PROVE  IInv'
<1>1. PICK s : s = ticket[a]
  OBVIOUS
<1> DEFINE units == IF c = "observed" THEN spent[a] ELSE e
<1>2. PICK l : l = IF fate[a] = "sent" THEN Settle(s, settled(c, units)) ELSE Release(s)
  OBVIOUS
<1>3. /\ fate[a] \in {"held", "sent"} /\ res[s].state = Outstanding /\ Outcome(s, l)
      /\ fate' = [fate EXCEPT ![a] = "gone"]
      /\ UNCHANGED <<memVars, envVars, per, ticket, spent>>
      /\ \/ told' = told /\ (c # "estimated" \/ fate[a] = "held")
         \/ c = "estimated" /\ told' = [told EXCEPT ![a] = IF e < @ THEN e ELSE @]
  <2>1. CASE release(a)
    BY <1>1, <1>2, <2>1 DEF release
  <2>2. CASE settle(a, c, e)
    <3>1. /\ fate[a] = "sent" /\ res[s].state = Outstanding
          /\ fate' = [fate EXCEPT ![a] = "gone"]
          /\ UNCHANGED <<memVars, envVars, per, ticket, spent>>
          /\ told' = [told EXCEPT ![a] = IF c = "estimated" /\ e < @ THEN e ELSE @]
          /\ Outcome(s, Settle(s, settled(c, units)))
      BY <1>1, <2>2 DEF settle
    <3>2. c # "estimated" => told' = told
      BY <3>1 DEF IInv, TypeOK
    <3>3. QED
      BY <1>2, <3>1, <3>2
  <2>3. QED
    BY <2>1, <2>2
<1>4. TypeOK /\ ClientOK(a) /\ up
  BY <1>3 DEF IInv, Outcome
<1>5. s \in DOMAIN res /\ s \in DOMAIN acked /\ res[s].attempt = a /\ s \in 1..MaxSeq
  <2>1. s \in DOMAIN res /\ s \in DOMAIN acked /\ res[s].attempt = a
    BY <1>1, <1>3, <1>4 DEF ClientOK
  <2>2. DOMAIN res \subseteq 1..MaxSeq
    BY <1>4 DEF IInv, MemOK, Holds, Sound
  <2>3. QED
    BY <2>1, <2>2
<1>6. spent[a] \in 0..MaxCharge /\ (fate[a] = "held" => spent[a] = 0)
  BY <1>4 DEF TypeOK, ClientOK
<1>7. PICK to : to = IF fate[a] = "sent" THEN settled(c, units) ELSE Released
  OBVIOUS
<1>14. /\ told' \in [Attempts -> Nat] /\ \A x \in Attempts : NoMore(told'[x], told[x])
       /\ fate[a] = "sent" /\ c = "estimated" => told'[a] <= e
  <2>1. told \in [Attempts -> Nat] /\ e \in Nat
    BY <1>4, SpendAssumption DEF TypeOK
  <2>2. QED
    BY <1>3, <2>1 DEF NoMore
<1>8. /\ to \in Book!Outcomes
      /\ to.tag = "observed" => to.units = spent[a]
      /\ to.tag = "estimated" => told'[a] <= to.units
      /\ to = Released => spent[a] = 0
  <2>1. CASE fate[a] = "sent" /\ c = "observed"
    <3>1. to = State("observed", spent[a])
      BY <1>7, <2>1 DEF settled
    <3>2. to = [tag |-> "observed", units |-> spent[a]] /\ to \in Book!Outcomes
      BY <1>6, <3>1, ChargeIs, OutcomeIs
    <3>3. to # Released
      BY <3>2 DEF Released, State
    <3>4. QED
      BY <3>2, <3>3
  <2>2. CASE fate[a] = "sent" /\ c = "estimated"
    <3>1. to = State("estimated", e)
      BY <1>7, <2>2 DEF settled
    <3>2. to = [tag |-> "estimated", units |-> e] /\ to \in Book!Outcomes
      BY <3>1, ChargeIs
    <3>3. to # Released
      BY <3>2 DEF Released, State
    <3>4. QED
      BY <1>14, <2>2, <3>2, <3>3
  <2>3. CASE fate[a] = "sent" /\ c = "unknown"
    <3>1. to = Unknown
      BY <1>7, <2>3 DEF settled
    <3>2. QED
      BY <3>1, OutcomeIs
  <2>4. CASE fate[a] = "held"
    <3>1. to = Released /\ spent[a] = 0
      BY <1>6, <1>7, <2>4
    <3>2. QED
      BY <3>1, OutcomeIs
  <2>5. QED
    BY <1>3, <2>1, <2>2, <2>3, <2>4
<1>9. /\ l = [op |-> IF fate[a] = "sent" THEN "settle" ELSE "release", seq |-> s, to |-> to]
  BY <1>2, <1>7 DEF Settle, Release
<1>10. l \in Lines /\ l.op \notin {"reserve", "garbage"} /\ l.seq = s /\ l.to = to
  BY <1>5, <1>8, <1>9 DEF Lines
<1>11. Due(res[s].state, l.to)
  BY <1>3, <1>8, <1>10 DEF Due
<1>12. /\ fate' \in [Attempts -> {"new", "asking", "held", "sent", "gone"}]
       /\ (\A x \in Attempts : fate'[x] \in {fate[x], "gone"}) /\ fate'[a] = "gone"
  BY <1>3, <1>4 DEF TypeOK
<1>13. QED
  BY <1>3, <1>5, <1>8, <1>10, <1>11, <1>12, <1>14, OutcomeWrite

LEMMA ReconcileStep ==
    ASSUME IInv, NEW s \in 1..MaxSeq, NEW p, reconcile(s) \/ reconcile_billing(s, p)
    PROVE  IInv'
<1>1. PICK a : a = res[s].attempt
  OBVIOUS
<1>2. PICK to, l : to = State("observed", spent[a]) /\ l = Reconcile(s, to)
  OBVIOUS
<1>3. /\ s \in DOMAIN res /\ res[s].state \in {Liability, Unknown} /\ Outcome(s, l)
      /\ UNCHANGED <<memVars, clientVars, envVars>> /\ up
  BY <1>1, <1>2 DEF reconcile, reconcile_billing, Reconcilable, Outcome
<1>4. TypeOK /\ Holds(res, View) /\ Numbered(res, next_seq, View)
  BY <1>3 DEF IInv, MemOK
<1>5. a \in Attempts /\ fate[a] = "gone"
  <2>1. a \in Attempts
    BY <1>1, <1>3, <1>4 DEF Holds, Sound, Reservation
  <2>2. res[s].state # Outstanding
    BY <1>3, OutcomeIs
  <2>3. QED
    BY <1>1, <1>3, <1>4, <2>1, <2>2, ViewIs DEF Numbered
<1>6. spent[a] \in 0..MaxCharge
  BY <1>4, <1>5 DEF TypeOK
<1>7. to = [tag |-> "observed", units |-> spent[a]] /\ to \in Book!Observations
  BY <1>2, <1>6, ChargeIs
<1>8. to \in Book!Outcomes /\ to # Released
  BY <1>7, OutcomeIs DEF Released, State
<1>9. l = [op |-> "reconcile", seq |-> s, to |-> to]
  BY <1>2 DEF Reconcile
<1>10. l \in Lines /\ l.op \notin {"reserve", "garbage"} /\ l.seq = s /\ l.to = to
  BY <1>8, <1>9 DEF Lines
<1>11. Due(res[s].state, l.to)
  BY <1>3, <1>7, <1>10 DEF Due
<1>12. /\ UNCHANGED <<memVars, envVars, per, ticket, told, spent, fate>>
       /\ told' \in [Attempts -> Nat] /\ \A x \in Attempts : NoMore(told'[x], told[x])
  BY <1>3, <1>4 DEF clientVars, TypeOK, NoMore
<1>13. /\ fate' \in [Attempts -> {"new", "asking", "held", "sent", "gone"}]
       /\ (\A x \in Attempts : fate'[x] \in {fate[x], "gone"}) /\ fate'[a] = "gone"
  BY <1>4, <1>5, <1>12 DEF TypeOK
<1>14. res[s].state # Outstanding
  BY <1>3, OutcomeIs
<1>15. /\ l.to.tag = "observed" /\ l.to.units = spent[a]
       /\ l.to # Released
  BY <1>7, <1>8, <1>10
<1>16. QED
  BY <1>1, <1>3, <1>10, <1>11, <1>12, <1>13, <1>14, <1>15, OutcomeWrite

-----------------------------------------------------------------------------
(* A sync, and the end of a process.                                       *)

\* The book in memory takes the reservation that is being recorded.
LEMMA GrantedHolds ==
    ASSUME NEW b, NEW v, Holds(b, v), NEW n \in 1..MaxSeq, n \notin DOMAIN b,
           NEW a \in Attempts, NEW p \in Periods, NEW u \in Amounts, Free(b, a),
           totals(b, p) + u <= Cap, a \in RunAttempts => run_total(b) + u <= RunCap,
           v.fate[a] = "asking", a \in v.writing, v.spent[a] = 0, v.per[a] = p
    PROVE  Holds(Put(b, n, Res(a, p, u)), v)
<1>1. PICK c, r : c = Put(b, n, Res(a, p, u)) /\ r = Res(a, p, u)
  OBVIOUS
<1>2. DOMAIN c = DOMAIN b \cup {n} /\ c[n] = r /\ \A t \in DOMAIN b : c[t] = b[t]
  BY <1>1 DEF Put
<1>3. /\ r = [attempt |-> a, period |-> p, units |-> u, state |-> Outstanding]
      /\ r \in Reservation
  BY <1>1, SpendAssumption DEF Res, Reservation, States
<1>4. r.attempt = a /\ r.period = p /\ r.units = u /\ r.state = Outstanding
  BY <1>3
<1>5. Sound(b) /\ \A t \in DOMAIN b : Same(b[t], b[t]) /\ Capped(b[t]) <= Counted(b[t])
  BY CountedIs DEF Holds, Sound, Same
<1>6. \A t \in DOMAIN b : b[t].attempt # c[n].attempt
  BY <1>2, <1>4 DEF Free
<1>7. Sound(c)
  BY <1>2, <1>3, <1>4, <1>5, <1>6, ReserveSound
<1>8. Holds(c, v)
  BY <1>2, <1>4, <1>7, ReserveHolds
<1>9. QED
  BY <1>1, <1>8

LEMMA ReserveSyncStep == ASSUME IInv, ReserveSync PROVE IInv'
<1>1. /\ op.then = "reserve" /\ op' = Idle /\ UNCHANGED <<disk, up, per, spent, kind, month>>
      /\ op'.then = "nothing"
  BY DEF ReserveSync, Syncs, SyncFails, fileVars, envVars, Idle
<1>2. PICK a, n, p, u : a = op.who /\ n = next_seq /\ p = per[op.who] /\ u = op.units
  OBVIOUS
<1>3. TypeOK /\ disk \in Files /\ images \subseteq Files /\ up \in BOOLEAN
  BY DEF IInv, TypeOK
<1>4. /\ up /\ a \in Attempts /\ u \in Amounts /\ fate[a] = "asking" /\ n \in 1..MaxSeq
      /\ totals(res, p) + u <= Cap /\ (a \in RunAttempts => run_total(res) + u <= RunCap)
      /\ (\A s \in DOMAIN res : res[s].attempt # a) /\ p \in Periods
      /\ Replays(disk.lines) => Booked(Replayed(disk.lines), n, a, p, u)
  BY <1>1, <1>2, <1>3 DEF IInv, ReserveOK, TypeOK, Booked
<1>5. CASE SyncFails("reserve") /\ fate' = [fate EXCEPT ![op.who] = "gone"]
             /\ UNCHANGED <<next_seq, res, acked, ticket, told>>
  <2>1. failed' = TRUE /\ images' = images
    BY <1>5 DEF SyncFails, fileVars
  <2>2. \A f \in images' \cup {disk'} : \E g \in Present : f.lines = g.lines
    BY <1>1, <2>1 DEF Present
  <2>3. /\ fate' \in [Attempts -> {"new", "asking", "held", "sent", "gone"}]
        /\ \A x \in Attempts : fate'[x] \in {fate[x], "gone"}
        /\ fate'[op.who] = "gone"
    BY <1>2, <1>3, <1>4, <1>5 DEF TypeOK
  <2>5. told' \in [Attempts -> Nat] /\ \A x \in Attempts : NoMore(told'[x], told[x])
    BY <1>1, <1>3, <1>5 DEF TypeOK, NoMore
  <2>4. QED
    BY <1>1, <1>3, <1>4, <1>5, <2>1, <2>2, <2>3, <2>5, FailStep
<1>6. ASSUME Syncs("reserve"), next_seq' = next_seq + 1,
             res' = Put(res, next_seq, Res(op.who, per[op.who], op.units)),
             acked' = Put(acked, next_seq, res'[next_seq]),
             ticket' = [ticket EXCEPT ![op.who] = next_seq],
             told' = [told EXCEPT ![op.who] = op.units],
             fate' = [fate EXCEPT ![op.who] = "held"]
      PROVE  IInv'
  <2>1. PICK r : r = Res(a, p, u)
    OBVIOUS
  <2>2. /\ r = [attempt |-> a, period |-> p, units |-> u, state |-> Outstanding]
        /\ r \in Reservation /\ u \in Nat
    BY <1>4, <2>1, SpendAssumption DEF Res, Reservation, States
  <2>3. r.attempt = a /\ r.period = p /\ r.units = u /\ r.state = Outstanding
    BY <2>2
  <2>4. /\ images' = {disk} /\ failed' = failed /\ next_seq' = n + 1
        /\ res' = Put(res, n, r)
    BY <1>2, <1>6, <2>1 DEF Syncs
  <2>5. /\ DOMAIN res' = DOMAIN res \cup {n} /\ res'[n] = r
        /\ \A t \in DOMAIN res \ {n} : res'[t] = res[t]
    BY <2>4 DEF Put
  <2>6. acked' = Put(acked, n, r)
    BY <1>2, <1>6, <2>5
  <2>7. /\ DOMAIN acked' = DOMAIN acked \cup {n} /\ acked'[n] = r
        /\ \A t \in DOMAIN acked \ {n} : acked'[t] = acked[t]
    BY <2>6 DEF Put
  <2>8. /\ fate' \in [Attempts -> {"new", "asking", "held", "sent", "gone"}]
        /\ ticket' \in [Attempts -> Nat] /\ told' \in [Attempts -> Nat]
        /\ fate'[a] = "held" /\ ticket'[a] = n /\ told'[a] = u
        /\ \A x \in Attempts \ {a} :
             fate'[x] = fate[x] /\ ticket'[x] = ticket[x] /\ told'[x] = told[x]
    BY <1>2, <1>3, <1>4, <1>6, <2>2 DEF TypeOK
  <2>9. TypeOK'
    <3>1. DOMAIN acked' \subseteq 1..MaxSeq /\ \A s \in DOMAIN acked' : acked'[s] \in Reservation
      BY <1>3, <1>4, <2>2, <2>7 DEF TypeOK
    <3>2. next_seq' \in Nat \ {0}
      BY <1>4, <2>4
    <3>3. QED
      BY <1>1, <1>3, <2>4, <2>8, <3>1, <3>2 DEF TypeOK
  <2>10. PICK v, w : v = View /\ w = View'
    OBVIOUS
  <2>11. /\ v.acked = acked /\ v.fate = fate /\ v.per = per /\ v.told = told /\ v.spent = spent
         /\ v.writing = {a} /\ w.acked = acked' /\ w.fate = fate' /\ w.per = per
         /\ w.told = told' /\ w.spent = spent
    BY <1>1, <1>2, <2>10, ViewIs, NextViewIs
  <2>12. /\ Holds(res, v) /\ Numbered(res, n, v) /\ disk.lines # <<>>
         /\ Replays(disk.lines) => Beside(Replayed(disk.lines), res, n)
         /\ ~failed => Replays(disk.lines) /\ ~disk.torn /\ ~disk.split
    BY <1>2, <1>4, <2>10 DEF IInv, MemOK
  <2>13. n \notin DOMAIN res /\ n \notin DOMAIN acked /\ DOMAIN acked \subseteq DOMAIN res
    <3>1. n \notin DOMAIN res
      BY <1>4, <2>12 DEF Numbered
    <3>2. DOMAIN acked \subseteq DOMAIN res
      BY <2>11, <2>12 DEF Holds, Keeps
    <3>3. QED
      BY <3>1, <3>2
  <2>14. Grants(v, w, n, r)
    BY <1>4, <2>3, <2>7, <2>8, <2>11, <2>13 DEF Grants
  <2>15. spent[a] = 0
    BY <1>4 DEF IInv, ClientOK
  <2>16. Holds(res', w)
    <3>1. PICK b : b = res
      OBVIOUS
    <3>2. Holds(b, v) /\ n \notin DOMAIN b /\ Free(b, a)
      BY <1>4, <2>12, <2>13, <3>1 DEF Free
    <3>3. totals(b, p) + u <= Cap /\ (a \in RunAttempts => run_total(b) + u <= RunCap)
      BY <1>4, <3>1
    <3>4. v.fate[a] = "asking" /\ a \in v.writing /\ v.spent[a] = 0 /\ v.per[a] = p
      BY <1>2, <1>4, <2>11, <2>15
    <3>5. Holds(Put(b, n, Res(a, p, u)), v)
      BY <1>4, <3>2, <3>3, <3>4, GrantedHolds
    <3>6. PICK c : c = Put(b, n, Res(a, p, u))
      OBVIOUS
    <3>7. Holds(c, v) /\ n \in DOMAIN c /\ Same(c[n], r) /\ c[n].state \in {Outstanding, Liability}
      BY <2>1, <2>3, <3>5, <3>6 DEF Same, Put
    <3>8. Holds(c, w)
      BY <2>14, <3>7, HoldsGranted
    <3>9. QED
      BY <2>1, <2>4, <3>1, <3>6, <3>8
  <2>17. ASSUME Replays(disk.lines)
         PROVE  /\ Holds(Replayed(disk.lines), w)
                /\ \A s \in DOMAIN Replayed(disk.lines) :
                     Replayed(disk.lines)[s].state # Outstanding
                /\ Beside(Replayed(disk.lines), res', n + 1)
                /\ DOMAIN Replayed(disk.lines) = DOMAIN res'
    <3>1. PICK b : b = Replayed(disk.lines)
      OBVIOUS
    <3>2. Holds(b, v) /\ \A s \in DOMAIN b : b[s].state # Outstanding
      BY <2>10, <2>17, <3>1 DEF IInv, FilesOK, Present, LinesOK
    <3>3. Beside(b, res, n) /\ Booked(b, n, a, p, u)
      BY <1>4, <2>12, <2>17, <3>1
    <3>4. n \in DOMAIN b /\ b[n] = [r EXCEPT !.state = Liability]
      BY <2>1, <3>3 DEF Booked
    <3>5. b[n] = [attempt |-> a, period |-> p, units |-> u, state |-> Liability]
      BY <2>2, <3>4
    <3>6. Same(b[n], r) /\ b[n].state = Liability
      BY <2>3, <3>5 DEF Same
    <3>7. Holds(b, w)
      BY <2>14, <3>2, <3>4, <3>6, HoldsGranted
    <3>8. DOMAIN b = DOMAIN res'
      BY <2>5, <3>3, <3>4 DEF Beside
    <3>9. ASSUME NEW s \in DOMAIN res'
          PROVE  Same(b[s], res'[s]) /\ b[s].state \in Book!After(res'[s].state)
      <4>1. CASE s = n
        BY <2>3, <2>5, <3>6, <4>1, AfterHas
      <4>2. CASE s # n
        BY <2>5, <3>3, <4>2 DEF Beside
      <4>3. QED
        BY <4>1, <4>2
    <3>10. Beside(b, res', n + 1)
      BY <3>8, <3>9 DEF Beside
    <3>11. QED
      BY <3>1, <3>2, <3>7, <3>8, <3>10
  <2>18. FilesOK' /\ Readable'
    <3>1. LinesOK(disk.lines, w)
      BY <2>12, <2>17 DEF LinesOK
    <3>2. QED
      BY <1>1, <2>4, <2>10, <2>12, <3>1 DEF FilesOK, Readable, Mendable, Present
  <2>19. Numbered(res', n + 1, w)
    <3>1. ASSUME NEW s \in DOMAIN res'
          PROVE  s < n + 1 /\ (res'[s].state # Outstanding => w.fate[res'[s].attempt] = "gone")
      <4>1. CASE s = n
        BY <1>4, <2>3, <2>5, <4>1
      <4>2. CASE s # n
        <5>1. s \in DOMAIN res /\ res'[s] = res[s] /\ s \in 1..MaxSeq
          BY <2>5, <2>12, <4>2 DEF Holds, Sound
        <5>2. s < n /\ (res[s].state # Outstanding => fate[res[s].attempt] = "gone")
          BY <2>11, <2>12, <5>1 DEF Numbered
        <5>3. res[s].attempt \in Attempts \ {a}
          BY <1>4, <2>12, <5>1 DEF Holds, Sound, Reservation
        <5>4. s < n + 1
          BY <1>4, <5>1, <5>2
        <5>5. QED
          BY <2>8, <2>11, <5>1, <5>2, <5>3, <5>4
      <4>3. QED
        BY <4>1, <4>2
    <3>2. QED
      BY <3>1 DEF Numbered
  <2>20. MemOK'
    BY <1>1, <2>4, <2>10, <2>12, <2>16, <2>17, <2>19 DEF MemOK
  <2>21. ReserveOK' /\ OutcomeOK' /\ OpenOK'
    BY <1>1 DEF ReserveOK, OutcomeOK, OpenOK
  <2>22. ASSUME NEW x \in Attempts PROVE ClientOK(x)'
    <3>1. ClientOK(x)
      BY DEF IInv
    <3>2. \A t \in DOMAIN acked : t \in DOMAIN acked' /\ acked'[t] = acked[t]
      BY <2>7, <2>13
    <3>3. \A t \in DOMAIN res : t \in DOMAIN res' /\ res'[t] = res[t]
      BY <2>5, <2>13
    <3>4. CASE x = a
      BY <1>1, <1>4, <2>3, <2>5, <2>7, <2>8, <2>15, <3>4 DEF ClientOK
    <3>5. CASE x # a
      BY <1>1, <2>8, <3>1, <3>2, <3>3, <3>5 DEF ClientOK
    <3>6. QED
      BY <3>4, <3>5
  <2>23. WithinCaps'
    BY <2>9, <2>10, <2>16, <2>22, CapWhenOpen
  <2>24. QED
    BY <2>9, <2>18, <2>20, <2>21, <2>22, <2>23 DEF IInv
<1>7. QED
  BY <1>5, <1>6 DEF ReserveSync

LEMMA OutcomeSyncStep == ASSUME IInv, OutcomeSync PROVE IInv'
<1>1. /\ op.then = "outcome" /\ op' = Idle /\ op'.then = "nothing"
      /\ UNCHANGED <<disk, up, next_seq, fate, per, ticket, told, spent, kind, month>>
  BY DEF OutcomeSync, Syncs, SyncFails, fileVars, clientVars, envVars, Idle
<1>2. PICK s, to, n : s = op.seq /\ to = op.to /\ n = next_seq
  OBVIOUS
<1>3. TypeOK /\ disk \in Files /\ images \subseteq Files /\ up \in BOOLEAN
  BY DEF IInv, TypeOK
<1>4. /\ up /\ s \in DOMAIN res /\ Due(res[s].state, to) /\ Tells(res[s].attempt, to, View)
      /\ to.tag = "estimated" => s \in DOMAIN acked
      /\ Replays(disk.lines) => Replayed(disk.lines)[s].state = to
  BY <1>1, <1>2 DEF IInv, OutcomeOK
<1>5. CASE SyncFails("outcome") /\ UNCHANGED <<res, acked>>
  <2>1. failed' = TRUE /\ images' = images
    BY <1>5 DEF SyncFails, fileVars
  <2>2. \A f \in images' \cup {disk'} : \E g \in Present : f.lines = g.lines
    BY <1>1, <2>1 DEF Present
  <2>3. /\ fate' \in [Attempts -> {"new", "asking", "held", "sent", "gone"}]
        /\ \A x \in Attempts : fate'[x] \in {fate[x], "gone"}
    BY <1>1, <1>3 DEF TypeOK
  <2>5. told' \in [Attempts -> Nat] /\ \A x \in Attempts : NoMore(told'[x], told[x])
    BY <1>1, <1>3, <1>5 DEF TypeOK, NoMore
  <2>4. QED
    BY <1>1, <1>3, <1>4, <1>5, <2>1, <2>2, <2>3, <2>5, FailStep
<1>6. ASSUME Syncs("outcome"), res' = [res EXCEPT ![op.seq].state = op.to],
             acked' = Put(acked, op.seq, res'[op.seq])
      PROVE  IInv'
  <2>1. images' = {disk} /\ failed' = failed
    BY <1>6 DEF Syncs
  <2>2. PICK v, w : v = View /\ w = View'
    OBVIOUS
  <2>3. /\ Holds(res, v) /\ Numbered(res, n, v) /\ disk.lines # <<>>
        /\ Replays(disk.lines) => Beside(Replayed(disk.lines), res, n)
        /\ ~failed => /\ Replays(disk.lines) /\ ~disk.torn /\ ~disk.split
                      /\ DOMAIN Replayed(disk.lines) = DOMAIN res
    BY <1>1, <1>2, <1>4, <2>2 DEF IInv, MemOK
  <2>4. PICK r, q : r = res /\ q = res'
    OBVIOUS
  <2>5. q = [r EXCEPT ![s] = [r[s] EXCEPT !.state = to]]
    BY <1>2, <1>6, <2>4
  <2>6. r[s] \in Reservation /\ r[s].state \in States /\ s \in 1..MaxSeq
    BY <1>4, <2>3, <2>4 DEF Holds, Sound, Reservation
  <2>7. /\ DOMAIN q = DOMAIN r /\ (\A t \in DOMAIN r \ {s} : q[t] = r[t])
        /\ q[s] = [r[s] EXCEPT !.state = to]
    BY <1>4, <2>4, <2>5
  <2>8. /\ to \in Book!Outcomes /\ to \in Book!After(r[s].state)
        /\ r[s].state \in {Outstanding, Liability, Unknown}
    BY <1>4, <2>4, <2>6, DueAfter
  <2>9. to \in States /\ to # Outstanding
    BY <2>8, OutcomeIs
  <2>10. Same(q[s], r[s]) /\ q[s].state = to /\ q[s] \in Reservation
    BY <2>6, <2>7, <2>9 DEF Same, Reservation
  <2>11. Recorded(r, q, s, to)
    BY <1>4, <2>4, <2>7 DEF Recorded
  <2>12. Capped(q[s]) <= Capped(r[s])
    <3>1. r[s].units \in Nat /\ Capped(r[s]) = r[s].units
      BY <2>6, <2>8, CountedIs
    <3>2. Capped(q[s]) <= q[s].units /\ q[s].units = r[s].units
      BY <2>10, CountedIs DEF Same
    <3>3. QED
      BY <3>1, <3>2
  <2>13. /\ v.acked = acked /\ v.fate = fate /\ v.per = per /\ v.told = told /\ v.spent = spent
         /\ v.writing = {} /\ w.acked = acked' /\ w.fate = fate /\ w.per = per
         /\ w.told = told /\ w.spent = spent /\ w.writing = {}
    BY <1>1, <2>2, ViewIs, NextViewIs
  <2>14. s \in DOMAIN v.acked => to \in Book!After(v.acked[s].state)
    <3>1. ASSUME s \in DOMAIN v.acked
          PROVE  to \in Book!After(v.acked[s].state)
      <4>1. v.acked[s].state \in States
        BY <1>3, <2>13, <3>1 DEF TypeOK, Reservation
      <4>2. r[s].state = v.acked[s].state \/ r[s].state \in Book!After(v.acked[s].state)
        BY <2>3, <2>4, <3>1 DEF Holds, Keeps
      <4>3. QED
        BY <1>4, <2>4, <4>1, <4>2, DueAfter
    <3>2. QED
      BY <3>1
  <2>15. Holds(q, v)
    BY <1>4, <2>2, <2>3, <2>4, <2>8, <2>11, <2>12, <2>13, <2>14, RecordHolds
  <2>16. acked' = Put(acked, s, q[s])
    BY <1>2, <1>6, <2>4
  <2>17. /\ DOMAIN acked' = DOMAIN acked \cup {s} /\ acked'[s] = q[s]
         /\ \A t \in DOMAIN acked \ {s} : acked'[t] = acked[t]
    BY <2>16 DEF Put
  <2>18. Acks(v, w, s, q[s])
    BY <2>13, <2>17 DEF Acks
  <2>19. Holds(q, w)
    <3>1. s \in DOMAIN q /\ Same(q[s], q[s])
      BY <1>4, <2>4, <2>7 DEF Same
    <3>2. QED
      BY <2>15, <2>18, <3>1, HoldsAcked
  <2>20. TypeOK'
    <3>1. DOMAIN acked' \subseteq 1..MaxSeq /\ \A t \in DOMAIN acked' : acked'[t] \in Reservation
      BY <1>3, <2>6, <2>10, <2>17 DEF TypeOK
    <3>2. QED
      BY <1>1, <1>3, <2>1, <3>1 DEF TypeOK
  <2>21. ASSUME Replays(disk.lines)
         PROVE  /\ Holds(Replayed(disk.lines), w) /\ Beside(Replayed(disk.lines), q, n)
                /\ \A t \in DOMAIN Replayed(disk.lines) :
                     Replayed(disk.lines)[t].state # Outstanding
    <3>1. PICK b : b = Replayed(disk.lines)
      OBVIOUS
    <3>2. Holds(b, v) /\ \A t \in DOMAIN b : b[t].state # Outstanding
      BY <2>2, <2>21, <3>1 DEF IInv, FilesOK, Present, LinesOK
    <3>3. Beside(b, r, n) /\ b[s].state = to
      BY <1>4, <2>3, <2>4, <2>21, <3>1
    <3>4. s \in DOMAIN b /\ Same(b[s], q[s])
      BY <1>4, <2>4, <2>10, <3>3 DEF Beside, Same
    <3>5. Holds(b, w)
      BY <2>10, <2>18, <3>2, <3>3, <3>4, HoldsAcked
    <3>6. ASSUME NEW t \in DOMAIN q
          PROVE  Same(b[t], q[t]) /\ b[t].state \in Book!After(q[t].state)
      <4>1. CASE t = s
        BY <2>9, <2>10, <3>3, <3>4, <4>1, AfterHas
      <4>2. CASE t # s
        BY <2>7, <3>3, <4>2 DEF Beside
      <4>3. QED
        BY <4>1, <4>2
    <3>7. Beside(b, q, n)
      BY <2>7, <3>3, <3>6 DEF Beside
    <3>8. QED
      BY <3>1, <3>2, <3>5, <3>7
  <2>22. FilesOK' /\ Readable'
    <3>1. LinesOK(disk.lines, w)
      BY <2>3, <2>21 DEF LinesOK
    <3>2. QED
      BY <1>1, <2>1, <2>2, <2>3, <3>1 DEF FilesOK, Readable, Mendable, Present
  <2>23. Numbered(q, n, w)
    <3>1. ASSUME NEW t \in DOMAIN q
          PROVE  t < n /\ (q[t].state # Outstanding => w.fate[q[t].attempt] = "gone")
      <4>1. CASE t = s
        <5>1. w.fate[q[t].attempt] = "gone"
          BY <1>4, <2>2, <2>4, <2>10, <2>13, <4>1 DEF Tells, Same
        <5>2. QED
          BY <2>3, <2>4, <2>7, <5>1 DEF Numbered
      <4>2. CASE t # s
        BY <2>3, <2>4, <2>7, <2>13, <4>2 DEF Numbered
      <4>3. QED
        BY <4>1, <4>2
    <3>2. QED
      BY <3>1 DEF Numbered
  <2>24. MemOK'
    BY <1>1, <1>2, <2>1, <2>2, <2>3, <2>4, <2>7, <2>19, <2>21, <2>23 DEF MemOK
  <2>25. ReserveOK' /\ OutcomeOK' /\ OpenOK'
    BY <1>1 DEF ReserveOK, OutcomeOK, OpenOK
  <2>26. ASSUME NEW x \in Attempts PROVE ClientOK(x)'
    <3>1. ClientOK(x)
      BY DEF IInv
    <3>2. \A t \in DOMAIN acked : t \in DOMAIN acked' /\ acked'[t].attempt = acked[t].attempt
      <4>1. s \in DOMAIN acked => acked[s].attempt = r[s].attempt
        BY <2>3, <2>4, <2>13 DEF Holds, Keeps, Same
      <4>2. QED
        BY <2>10, <2>17, <4>1 DEF Same
    <3>3. \A t \in DOMAIN res : t \in DOMAIN res' /\ res'[t].attempt = res[t].attempt
      BY <2>4, <2>7, <2>10 DEF Same
    <3>4. QED
      BY <1>1, <3>1, <3>2, <3>3 DEF ClientOK
  <2>27. WithinCaps'
    BY <1>1, CapStands DEF IInv
  <2>28. QED
    BY <2>20, <2>22, <2>24, <2>25, <2>26, <2>27 DEF IInv
<1>7. QED
  BY <1>5, <1>6 DEF OutcomeSync

\* The process ends, by itself or not.
LEMMA EndStep == ASSUME IInv, Close \/ Crash, ~forgot' PROVE IInv'
<1>1. /\ ~up' /\ up' \in BOOLEAN /\ op'.then = "nothing"
      /\ UNCHANGED <<res, next_seq, acked, per, ticket, told, spent, kind, month, failed>>
      /\ disk' \in images \cup {disk} /\ images' \subseteq images \cup {disk}
  <2>1. CASE Close
    BY <2>1 DEF Close, Idle, fileVars, clientVars, envVars
  <2>2. CASE Crash
    <3>1. /\ up' = FALSE /\ op' = Idle
          /\ UNCHANGED <<res, next_seq, acked, per, ticket, told, spent, kind, month, failed>>
      BY <2>2 DEF Crash
    <3>2. disk' \in images \cup {disk} /\ images' \subseteq images \cup {disk}
      BY <2>2 DEF Crash, PowerLoss, fileVars
    <3>3. QED
      BY <3>1, <3>2 DEF Idle
  <2>3. QED
    BY <2>1, <2>2
<1>2. TypeOK
  BY DEF IInv
<1>3. /\ fate' \in [Attempts -> {"new", "asking", "held", "sent", "gone"}]
      /\ \A a \in Attempts : /\ fate'[a] \in {fate[a], "gone"}
                             /\ fate'[a] \notin {"asking", "held", "sent"}
                             /\ fate'[a] = "new" => fate[a] = "new"
  <2>1. CASE Close
    <3>1. fate' = fate /\ \A a \in Attempts : fate[a] \notin {"asking", "held", "sent"}
      BY <2>1 DEF Close, Working, clientVars
    <3>2. QED
      BY <1>2, <3>1 DEF TypeOK
  <2>2. CASE Crash
    <3>1. fate' = [a \in Attempts |->
                     IF fate[a] \in {"asking", "held", "sent"} THEN "gone" ELSE fate[a]]
      BY <2>2 DEF Crash, Working
    <3>2. QED
      BY <1>2, <3>1 DEF TypeOK
  <2>3. QED
    BY <2>1, <2>2
<1>4. TypeOK'
  BY <1>1, <1>2, <1>3 DEF TypeOK
<1>5. Calm(View, View')
  <2>1. ASSUME NEW a \in Attempts
        PROVE  Still(a, View, View')
    BY <1>1, <1>3, ViewIs, NextViewIs DEF Still, NoMore
  <2>2. QED
    BY <1>1, <2>1, ViewIs, NextViewIs DEF Calm
<1>6. FilesOK' /\ Readable'
  <2>1. PICK v, w : v = View /\ w = View'
    OBVIOUS
  <2>2. \A f \in images \cup {disk} : LinesOK(f.lines, w)
    BY <1>5, <2>1, LinesCalm DEF IInv, FilesOK, Present
  <2>3. images' \cup {disk'} \subseteq images \cup {disk}
    BY <1>1
  <2>4. QED
    BY <1>1, <2>1, <2>2, <2>3 DEF IInv, FilesOK, Readable, Present
<1>7. MemOK' /\ ReserveOK' /\ OutcomeOK' /\ OpenOK'
  BY <1>1 DEF MemOK, ReserveOK, OutcomeOK, OpenOK
<1>8. ASSUME NEW a \in Attempts PROVE ClientOK(a)'
  <2>1. ClientOK(a)
    BY DEF IInv
  <2>2. QED
    BY <1>1, <1>3, <2>1 DEF ClientOK
<1>9. WithinCaps'
  BY <1>1, CapStands DEF IInv
<1>10. QED
  BY <1>4, <1>6, <1>7, <1>8, <1>9 DEF IInv

-----------------------------------------------------------------------------
(* The invariant.                                                          *)

\* The old file holds its one reservation, as a liability.
LEMMA OldHolds ==
    ASSUME NEW u \in Amounts, u <= OldCap, NEW b, b = Replayed(OldLines(u)), NEW v, v.acked = b,
           v.per[Old] = 0, v.fate[Old] = "gone", v.spent[Old] = u, v.told[Old] = u
    PROVE  /\ OldLines(u) \in Seq(Lines) /\ OldLines(u) # <<>> /\ Replays(OldLines(u))
           /\ DOMAIN b = {1} /\ b[1].attempt = Old /\ b[1].state = Liability
           /\ b[1] \in Reservation /\ Holds(b, v)
<1>1. PICK ls, l : ls = <<Header(OldCap)>> /\ l = Reserve(1, 0, Old, u)
  OBVIOUS
<1>2. Old \in Attempts /\ Old \notin RunAttempts /\ 0 \in Periods /\ 1 \in 1..MaxSeq /\ u \in Nat
  BY JournalAssumption, SpendAssumption
<1>3. ls \in Seq(Lines) /\ ls # <<>> /\ l \in Lines
  <2>1. l \in Lines
    BY <1>1, <1>2 DEF Lines
  <2>2. QED
    BY <1>1, <2>1, HeaderLine
<1>4. OldLines(u) = Append(ls, l)
  BY <1>1 DEF OldLines
<1>5. Append(ls, l) \in Seq(Lines) /\ Append(ls, l) # <<>>
  BY <1>3, AppendProperties
<1>6. Replays(ls) /\ DOMAIN Replayed(ls) = {}
  BY <1>1, ReplayHeader
<1>7. Replays(Append(ls, l))
  <2>1. l.op = "reserve" /\ Seqs(ls) = {}
    BY <1>1, <1>6, ReplayedDomain DEF Reserve
  <2>2. QED
    BY <1>3, <1>6, <2>1, ReplaysAppend
<1>8. Reserved(Replayed(ls), b, 1, Res(Old, 0, u))
  BY <1>1, <1>3, <1>4, <1>7, ReplayReserve
<1>9. DOMAIN b = {1} /\ b[1] = [Res(Old, 0, u) EXCEPT !.state = Liability]
  BY <1>6, <1>8 DEF Reserved
<1>10. b[1] = [attempt |-> Old, period |-> 0, units |-> u, state |-> Liability]
  BY <1>9 DEF Res
<1>11. b[1] \in Reservation
  BY <1>2, <1>10 DEF Reservation, States
<1>12. Capped(b[1]) = u /\ Capped(b[1]) \in Nat /\ b[1].state = Liability
  BY <1>10, <1>11, CountedIs
<1>13. ASSUME NEW S, S \subseteq {1}
       PROVE  Total([s \in S |-> Capped(b[s])]) <= Cap
  <2>1. PICK f, h : f = [s \in S |-> Capped(b[s])] /\ h = [s \in {} |-> 0]
    OBVIOUS
  <2>2. IsFiniteSet(S) /\ IsFiniteSet({})
    BY <1>13, FS_Singleton, FS_EmptySet, FS_Subset
  <2>3. Summable(f) /\ Summable(h) /\ DOMAIN f = S /\ DOMAIN h = {}
    BY <1>12, <1>13, <2>1, <2>2 DEF Summable
  <2>4. 1 \in DOMAIN f => f[1] <= u
    BY <1>2, <1>12, <2>1, <2>3
  <2>5. Total(f) <= Total(h) + u
    BY <1>2, <1>13, <2>3, <2>4, TotalPut
  <2>6. Total(h) = 0
    BY <2>3, TotalZero
  <2>7. Total(f) \in Nat
    BY <2>3, TotalType
  <2>8. QED
    BY <1>2, <2>1, <2>5, <2>6, <2>7, JournalAssumption, SpendAssumption
<1>14. \A p \in Periods : PeriodFits(b, p)
  BY <1>9, <1>13 DEF PeriodFits, InPeriod
<1>15. RunFits(b)
  <2>1. PICK f : f = [s \in InRun(b) |-> Capped(b[s])]
    OBVIOUS
  <2>2. InRun(b) = {}
    BY <1>2, <1>9, <1>10 DEF InRun
  <2>3. Total(f) = 0
    BY <2>1, <2>2, TotalZero
  <2>4. QED
    BY <2>1, <2>3, SpendAssumption DEF RunFits
<1>16. Sound(b)
  BY <1>2, <1>9, <1>11, <1>14, <1>15 DEF Sound
<1>17. Keeps(b, v)
  BY <1>9 DEF Keeps, Same
<1>18. Honest(b[1], v)
  BY <1>2, <1>10, <1>12, OutcomeIs DEF Honest
<1>19. QED
  BY <1>4, <1>5, <1>7, <1>9, <1>10, <1>11, <1>16, <1>17, <1>18 DEF Holds

LEMMA InitHolds == Init => IInv
<1> SUFFICES ASSUME Init PROVE IInv
  OBVIOUS
<1>1. /\ kind \in Kinds /\ month = 1 /\ images = {disk} /\ acked = res /\ up = FALSE
      /\ fate = [a \in Attempts |-> IF a = Old THEN "gone" ELSE "new"] /\ spent = told
      /\ next_seq = 1 /\ op = Idle /\ per = [a \in Attempts |-> 0]
      /\ ticket = [a \in Attempts |-> 0] /\ failed = FALSE /\ op.then = "nothing"
  BY DEF Init, Idle
<1>2. PICK torn \in BOOLEAN :
        \/ disk = File(<<>>, torn, FALSE) /\ res = <<>> /\ told = [a \in Attempts |-> 0]
        \/ \E u \in {x \in Amounts : x <= OldCap} :
             /\ disk = File(OldLines(u), torn, FALSE) /\ res = Replayed(disk.lines)
             /\ told = [a \in Attempts |-> IF a = Old THEN u ELSE 0]
  BY DEF Init
<1>3. PICK v : v = View
  OBVIOUS
<1>4. v.acked = acked /\ v.fate = fate /\ v.per = per /\ v.told = told /\ v.spent = told
  BY <1>1, <1>3, ViewIs
<1>5. 0 \in Periods /\ 1 \in Periods /\ Old \in Attempts /\ MaxCharge \in Nat
  BY JournalAssumption, SpendAssumption
<1>6. ASSUME NEW ls \in Seq(Lines), disk = [lines |-> ls, torn |-> torn, split |-> FALSE],
             DOMAIN acked \subseteq 1..MaxSeq, \A s \in DOMAIN acked : acked[s] \in Reservation,
             told \in [Attempts -> Nat], told \in [Attempts -> 0..MaxCharge],
             \A a \in Attempts :
               told[a] > 0 => a = Old /\ \E s \in DOMAIN acked : acked[s].attempt = Old,
             LinesOK(ls, v), Replays(ls) \/ ls = <<>>, NEW b, Holds(b, v)
      PROVE  IInv
  <2>1. disk \in Files /\ disk.lines = ls
    BY <1>6 DEF Files
  <2>2. TypeOK
    <3>1. /\ fate \in [Attempts -> {"new", "asking", "held", "sent", "gone"}]
          /\ per \in [Attempts -> Periods] /\ ticket \in [Attempts -> Nat]
      BY <1>1, <1>5
    <3>2. /\ kind \in Kinds /\ month \in Periods /\ images \subseteq Files
          /\ next_seq \in Nat \ {0}
      BY <1>1, <1>5, <2>1
    <3>3. spent \in [Attempts -> 0..MaxCharge]
      BY <1>1, <1>6
    <3>4. up \in BOOLEAN /\ failed \in BOOLEAN
      BY <1>1
    <3>5. QED
      BY <1>6, <2>1, <3>1, <3>2, <3>3, <3>4 DEF TypeOK
  <2>3. FilesOK /\ Readable
    BY <1>1, <1>3, <1>6, <2>1 DEF FilesOK, Readable, Mendable, Present
  <2>4. MemOK /\ ReserveOK /\ OutcomeOK /\ OpenOK
    BY <1>1 DEF MemOK, ReserveOK, OutcomeOK, OpenOK
  <2>5. ASSUME NEW a \in Attempts PROVE ClientOK(a)
    <3>1. told[a] \in Nat /\ fate[a] \in {"new", "gone"} /\ (fate[a] = "new" => a # Old)
      BY <1>1, <1>6
    <3>2. fate[a] = "new" => spent[a] = 0
      BY <1>1, <1>6, <3>1
    <3>3. QED
      BY <1>1, <1>6, <3>1, <3>2 DEF ClientOK
  <2>6. WithinCaps
    <3>1. Proper(v)
      BY <1>4, <1>6 DEF Proper
    <3>2. CapIn(v)
      BY <1>6, <3>1, BookCovers
    <3>3. QED
      BY <1>3, <3>2, CapOfView
  <2>7. QED
    BY <2>2, <2>3, <2>4, <2>5, <2>6 DEF IInv
<1>7. CASE disk = File(<<>>, torn, FALSE) /\ res = <<>> /\ told = [a \in Attempts |-> 0]
  <2>1. <<>> \in Seq(Lines) /\ disk = [lines |-> <<>>, torn |-> torn, split |-> FALSE]
    BY <1>7 DEF File
  <2>2. DOMAIN acked = {}
    BY <1>1, <1>7
  <2>3. Holds(<<>>, v)
    BY <1>4, <2>2, EmptyHolds
  <2>4. LinesOK(<<>>, v)
    BY <1>4, <2>2 DEF LinesOK, Replays
  <2>5. /\ told \in [Attempts -> Nat] /\ told \in [Attempts -> 0..MaxCharge]
        /\ \A a \in Attempts : ~(told[a] > 0)
    BY <1>5, <1>7
  <2>6. QED
    BY <1>6, <2>1, <2>2, <2>3, <2>4, <2>5
<1>8. ASSUME NEW u \in {x \in Amounts : x <= OldCap}, disk = File(OldLines(u), torn, FALSE),
             res = Replayed(disk.lines), told = [a \in Attempts |-> IF a = Old THEN u ELSE 0]
      PROVE  IInv
  <2>1. PICK b, ls : b = res /\ ls = OldLines(u)
    OBVIOUS
  <2>2. disk = [lines |-> ls, torn |-> torn, split |-> FALSE] /\ b = Replayed(ls)
    BY <1>8, <2>1 DEF File
  <2>3. /\ v.acked = b /\ v.per[Old] = 0 /\ v.fate[Old] = "gone" /\ v.spent[Old] = u
        /\ v.told[Old] = u
    BY <1>1, <1>4, <1>5, <1>8, <2>1
  <2>4. /\ ls \in Seq(Lines) /\ ls # <<>> /\ Replays(ls) /\ DOMAIN b = {1} /\ b[1].attempt = Old
        /\ b[1].state = Liability /\ b[1] \in Reservation /\ Holds(b, v)
    <3>1. u \in Amounts /\ u <= OldCap /\ b = Replayed(OldLines(u))
      BY <2>1, <2>2
    <3>2. QED
      BY <2>1, <2>3, <3>1, OldHolds
  <2>5. LinesOK(ls, v)
    BY <2>2, <2>4, OutcomeIs DEF LinesOK
  <2>6. /\ told \in [Attempts -> Nat] /\ told \in [Attempts -> 0..MaxCharge]
        /\ \A a \in Attempts : told[a] > 0 => a = Old
    <3>1. u \in Nat /\ u \in 0..MaxCharge
      BY <1>8, JournalAssumption, SpendAssumption
    <3>2. QED
      BY <1>5, <1>8, <3>1
  <2>7. /\ DOMAIN acked \subseteq 1..MaxSeq /\ (\A s \in DOMAIN acked : acked[s] \in Reservation)
        /\ \E s \in DOMAIN acked : acked[s].attempt = Old
    BY <1>1, <2>1, <2>4, JournalAssumption
  <2>8. QED
    BY <1>6, <2>2, <2>4, <2>5, <2>6, <2>7
<1>9. QED
  BY <1>2, <1>7, <1>8

LEMMA StutterHolds == ASSUME IInv, UNCHANGED vars PROVE IInv'
<1>1. UNCHANGED <<disk, images, up, res, next_seq, acked, fate, per, ticket, told, spent,
                  kind, month, op, failed>>
  BY DEF vars, fileVars, memVars, clientVars, envVars
<1>2. View' = View
  BY <1>1 DEF View
<1>3. TypeOK' /\ FilesOK' /\ Readable' /\ MemOK'
  BY <1>1, <1>2 DEF IInv, TypeOK, FilesOK, Readable, Present, MemOK
<1>4. ReserveOK' /\ OutcomeOK' /\ OpenOK' /\ \A a \in Attempts : ClientOK(a)'
  BY <1>1, <1>2 DEF IInv, ReserveOK, OutcomeOK, OpenOK, ClientOK
<1>5. WithinCaps'
  BY <1>1, CapStands DEF IInv
<1>6. QED
  BY <1>3, <1>4, <1>5 DEF IInv

LEMMA NextHolds == IInv /\ [Next]_vars /\ ~forgot' => IInv'
<1> SUFFICES ASSUME IInv, [Next]_vars, ~forgot' PROVE IInv'
  OBVIOUS
<1>1. CASE Opening \/ RemoveLock
  BY <1>1, OpeningStep, OpenedStep DEF Opening
<1>2. ASSUME NEW a \in Attempts, ReserveAsk(a) \/ ReserveRefuse(a) \/ ReserveWrite(a) \/ release(a)
      PROVE  IInv'
  <2>1. CASE release(a)
    <3>1. PICK c \in {"observed", "estimated", "unknown"} : TRUE
      OBVIOUS
    <3>2. QED
      BY <2>1, <3>1, SpendAssumption, SettleStep
  <2>2. QED
    BY <1>2, <2>1, AskStep, ReserveWriteStep
<1>3. ASSUME NEW a \in Attempts, NEW c \in Costs, Send(a, c) PROVE IInv'
  BY <1>3, SendStep
<1>4. ASSUME NEW a \in Attempts, NEW c \in {"observed", "estimated", "unknown"},
             NEW e \in Costs, settle(a, c, e)
      PROVE  IInv'
  BY <1>4, JournalAssumption, SettleStep
<1>5. ASSUME NEW s \in 1..MaxSeq, NEW p, reconcile(s) \/ reconcile_billing(s, p)
      PROVE  IInv'
  BY <1>5, ReconcileStep
<1>6. CASE ReserveSync \/ OutcomeSync
  BY <1>6, ReserveSyncStep, OutcomeSyncStep
<1>7. CASE Close \/ Crash
  BY <1>7, EndStep
<1>8. CASE NextMonth
  BY <1>8, MonthStep
<1>9. CASE UNCHANGED vars
  BY <1>9, StutterHolds
<1>10. QED
  BY <1>1, <1>2, <1>3, <1>4, <1>5, <1>6, <1>7, <1>8, <1>9 DEF Next

\* A journal that was forgotten stays so: only a power loss changes forgot.
LEMMA ForgotStays == [Next]_vars /\ forgot => forgot'
<1> SUFFICES ASSUME [Next]_vars, forgot PROVE forgot'
  OBVIOUS
<1>1. CASE Opening
  <2>1. CASE OpenLock \/ OpenHeader \/ OpenHeaderSync \/ OpenUnreadable
    BY <2>1 DEF OpenLock, OpenHeader, OpenHeaderSync, OpenUnreadable, dirVars
  <2>2. CASE OpenCut \/ OpenCutSync \/ OpenRead \/ OpenRefused
    BY <2>2 DEF OpenCut, OpenCutSync, OpenRead, OpenRefused, dirVars
  <2>3. CASE Migrate \/ MigrateSync \/ Opened
    BY <2>3 DEF Migrate, MigrateSync, Opened, dirVars
  <2>4. QED
    BY <1>1, <2>1, <2>2, <2>3 DEF Opening
<1>2. ASSUME NEW a \in Attempts, ReserveAsk(a) \/ ReserveRefuse(a) \/ ReserveWrite(a) \/ release(a)
      PROVE  forgot'
  BY <1>2 DEF ReserveAsk, ReserveRefuse, ReserveWrite, release, dirVars
<1>3. ASSUME NEW a \in Attempts, NEW c \in Costs, Send(a, c) PROVE forgot'
  BY <1>3 DEF Send, dirVars
<1>4. ASSUME NEW a \in Attempts, NEW c \in {"observed", "estimated", "unknown"},
             NEW e \in Costs, settle(a, c, e)
      PROVE  forgot'
  BY <1>4 DEF settle, dirVars
<1>5. ASSUME NEW s \in 1..MaxSeq, NEW p, reconcile(s) \/ reconcile_billing(s, p)
      PROVE  forgot'
  BY <1>5 DEF reconcile, reconcile_billing, dirVars
<1>6. CASE ReserveSync \/ OutcomeSync \/ Close \/ NextMonth \/ RemoveLock
  BY <1>6 DEF ReserveSync, OutcomeSync, Close, NextMonth, RemoveLock, dirVars
<1>7. CASE Crash
  BY <1>7 DEF Crash, PowerLoss, dirVars
<1>8. CASE UNCHANGED vars
  BY <1>8 DEF vars, dirVars
<1>9. QED
  BY <1>1, <1>2, <1>3, <1>4, <1>5, <1>6, <1>7, <1>8 DEF Next

Kept == ~forgot => IInv

LEMMA Invariance == Spec => []Kept
<1>1. Init => Kept
  BY InitHolds DEF Kept
<1>2. Kept /\ [Next]_vars => Kept'
  BY NextHolds, ForgotStays DEF Kept
<1>3. QED
  BY <1>1, <1>2, PTL DEF Spec

(* As long as no append has failed, a process can open whatever file a     *)
(* crash, a power loss or an interrupted migration left it (journal.rs,    *)
(* SpendJournal::open), unless its last line ends inside a character: the  *)
(* torn last line is the only thing to repair.                             *)
THEOREM StaysReopenable == Spec => []Reopenable
<1>1. Kept => Reopenable
  BY DEF Kept, IInv, Readable, Reopenable, Present
<1>2. QED
  BY <1>1, Invariance, PTL

LEMMA CountsEnough == Kept => NeverCountsLess
<1> SUFFICES ASSUME IInv, NEW p \in Periods
             PROVE  /\ up => totals(res, p) + Beyond(p) >= Spent(p)
                    /\ \A f \in images \cup {disk} : Replays(f.lines) =>
                         totals(Replayed(f.lines), p) + Beyond(p) >= Spent(p)
  BY DEF NeverCountsLess, Kept
<1>1. PICK v : v = View
  OBVIOUS
<1>2. Proper(v)
  <2>1. v.acked = acked /\ v.spent = spent /\ v.told = told
    BY <1>1, ViewIs
  <2>2. spent \in [Attempts -> 0..MaxCharge] /\ told \in [Attempts -> Nat]
    BY DEF IInv, TypeOK
  <2>3. 0..MaxCharge \subseteq Nat
    BY SpendAssumption
  <2>4. spent \in [Attempts -> Nat]
    BY <2>2, <2>3
  <2>5. \A a \in Attempts : spent[a] > 0 => \E s \in DOMAIN acked : acked[s].attempt = a
    BY DEF IInv, ClientOK
  <2>6. QED
    BY <2>1, <2>2, <2>4, <2>5 DEF Proper
<1>3. Beyond(p) = BeyondIn(v, p) /\ Spent(p) = SpentIn(v, p)
  BY <1>1 DEF View, Spent, Beyond, Of, Above, SpentIn, BeyondIn, OfIn, AboveIn
<1>4. ASSUME NEW b, Holds(b, v)
      PROVE  totals(b, p) + Beyond(p) >= Spent(p)
  BY <1>2, <1>3, <1>4, BookCovers
<1>5. up => Holds(res, v)
  BY <1>1 DEF IInv, MemOK
<1>6. \A f \in images \cup {disk} : Replays(f.lines) => Holds(Replayed(f.lines), v)
  BY <1>1 DEF IInv, FilesOK, Present, LinesOK
<1>7. QED
  BY <1>4, <1>5, <1>6

(* Every failure errs toward counting more (journal.rs, the module         *)
(* documentation): the book in memory and the replay of every file that    *)
(* may be found count at least what the requests of a period cost, but for *)
(* what a provider charged beyond a reservation or beyond its estimate,    *)
(* until a power loss makes a directory that was not synced forget the     *)
(* journal.                                                                *)
THEOREM NothingSpentIsForgotten == Spec => []NeverCountsLess
  BY Invariance, CountsEnough, PTL

(* The period's cap and the run's cap hold over all processes, crashes,    *)
(* failed writes and reopenings, whatever the attempts, the caps and the   *)
(* costs (reserve_checked), as long as the journal is not forgotten.       *)
THEOREM CapsStayHeld == Spec => []CapHeld
<1>1. Kept => CapHeld
  BY DEF Kept, IInv, CapHeld
<1>2. QED
  BY <1>1, Invariance, PTL

-----------------------------------------------------------------------------
(* Journal implements SpendBook.                                           *)

LEMMA BookTerms ==
    ASSUME NEW b
    PROVE  /\ \A p : Book!totals(b, p) = totals(b, p) /\ Book!Overrun(b, p) = Overrun(b, p)
           /\ Book!run_total(b) = run_total(b)
<1>1. \A f : Book!Total(f) = Total(f)
  <2>1. ASSUME NEW f PROVE Book!Cells(f) = Cells(f)
    BY DEF Book!Cells, Cells
  <2>2. ASSUME NEW f PROVE Book!Total(f) = Cardinality(Cells(f))
    BY <2>1 DEF Book!Total, Book!Cardinality, Cardinality
  <2>3. QED
    BY <2>2 DEF Total
<1>2. \A r : Book!Counted(r) = Counted(r)
  BY DEF Book!Counted, Counted, Book!Released, Released, Book!State, State
<1>3. \A r : Book!Excess(r) = Excess(r)
  BY <1>2 DEF Book!Excess, Excess
<1>4. (\A p : Book!InPeriod(b, p) = InPeriod(b, p)) /\ Book!InRun(b) = InRun(b)
  BY DEF Book!InPeriod, InPeriod, Book!InRun, InRun
<1>5. ASSUME NEW p PROVE Book!totals(b, p) = totals(b, p)
  BY <1>1, <1>2, <1>4 DEF Book!totals, totals
<1>6. ASSUME NEW p PROVE Book!Overrun(b, p) = Overrun(b, p)
  BY <1>1, <1>3, <1>4 DEF Book!Overrun, Overrun
<1>7. Book!run_total(b) = run_total(b)
  BY <1>1, <1>2, <1>4 DEF Book!run_total, run_total
<1>8. QED
  BY <1>5, <1>6, <1>7

LEMMA BookMakes ==
    /\ \A a, p, u : Book!Res(a, p, u) = Res(a, p, u)
    /\ \A b, s, r : Book!Put(b, s, r) = Put(b, s, r)
    /\ \A r : Book!Counted(r) = Counted(r)
    /\ Book!Outstanding = Outstanding /\ Book!Liability = Liability /\ Book!Unknown = Unknown
  BY DEF Book!Res, Res, Book!Put, Put, Book!Counted, Counted, Book!Released, Released, Book!State,
         State, Book!Outstanding, Outstanding, Book!Liability, Liability, Book!Unknown, Unknown

\* A sound book is within the cap, but for what was charged beyond reservations.
LEMMA SoundWithin ==
    ASSUME NEW b, Sound(b), NEW p \in Periods
    PROVE  totals(b, p) <= Cap + Overrun(b, p)
<1>1. PICK f, g, h : /\ f = [s \in InPeriod(b, p) |-> Counted(b[s])]
                     /\ g = [s \in InPeriod(b, p) |-> Excess(b[s])]
                     /\ h = [s \in InPeriod(b, p) |-> Capped(b[s])]
  OBVIOUS
<1>2. InPeriod(b, p) \subseteq DOMAIN b
  BY DEF InPeriod
<1>3. Summable(f) /\ Summable(g) /\ Summable(h)
  BY <1>1, <1>2, BookSums
<1>4. \A s \in DOMAIN f : f[s] = g[s] + h[s] /\ s \in DOMAIN h
  BY <1>1, <1>2, CountedIs DEF Sound
<1>5. PICK m : m = [s \in DOMAIN f |-> s]
  OBVIOUS
<1>6. \A s \in DOMAIN f : m[s] = s
  BY <1>5
<1>7. DOMAIN g = DOMAIN f /\ \A s \in DOMAIN f : f[s] <= g[s] + h[s]
  BY <1>1, <1>3, <1>4 DEF Summable
<1>8. Total(f) <= Total(g) + Total(h)
  <2>1. \A s \in DOMAIN f : f[s] > g[s] => m[s] \in DOMAIN h /\ f[s] <= g[s] + h[m[s]]
    BY <1>4, <1>6, <1>7
  <2>2. \A s, t \in DOMAIN f : f[s] > g[s] /\ f[t] > g[t] /\ m[s] = m[t] => s = t
    BY <1>6
  <2>3. QED
    BY <1>3, <1>7, <2>1, <2>2, TotalCover
<1>9. Total(h) <= Cap
  BY <1>1 DEF Sound, PeriodFits
<1>10. Total(f) \in Nat /\ Total(g) \in Nat /\ Total(h) \in Nat
  BY <1>3, TotalType
<1>11. Total(f) <= Cap + Total(g)
  BY <1>8, <1>9, <1>10, SpendAssumption
<1>12. QED
  BY <1>1, <1>11 DEF totals, Overrun

\* What was not acknowledged counts for no more than it reserved.
LEMMA ExtraWithin ==
    ASSUME NEW r \in Reservation, NEW v, Honest(r, v), Extra(r, v)
    PROVE  Counted(r) <= r.units
<1>1. r.units \in Nat /\ r.state \in States
  BY DEF Reservation
<1>2. CASE r.state.tag \in {"observed", "estimated"}
  BY <1>1, <1>2 DEF Honest, Extra, Counted
<1>3. CASE r.state.tag \notin {"observed", "estimated"}
  BY <1>1, <1>3 DEF Counted
<1>4. QED
  BY <1>2, <1>3

LEMMA InitBook == Init => Book!BookInit
<1> SUFFICES ASSUME Init PROVE Book!BookInit
  OBVIOUS
<1>1. up = FALSE
  BY DEF Init
<1>2. PICK b : b = res
  OBVIOUS
<1>3. Sound(b)
  <2>1. CASE res = <<>>
    <3>1. PICK v : v = [acked |-> <<>>]
      OBVIOUS
    <3>2. DOMAIN b = {} /\ DOMAIN v.acked = {}
      BY <1>2, <2>1, <3>1
    <3>3. QED
      BY <3>2, EmptyHolds DEF Holds
  <2>2. ASSUME NEW u \in {x \in Amounts : x <= OldCap}, res = Replayed(OldLines(u))
        PROVE  Sound(b)
    <3>1. PICK v : v = [acked |-> b, per |-> [a \in {Old} |-> 0], fate |-> [a \in {Old} |-> "gone"],
                        spent |-> [a \in {Old} |-> u], told |-> [a \in {Old} |-> u]]
      OBVIOUS
    <3>2. /\ v.acked = b /\ v.per[Old] = 0 /\ v.fate[Old] = "gone" /\ v.spent[Old] = u
          /\ v.told[Old] = u
      BY <3>1
    <3>3. QED
      BY <1>2, <2>2, <3>2, OldHolds DEF Holds
  <2>3. \/ res = <<>>
        \/ \E u \in {x \in Amounts : x <= OldCap} : res = Replayed(OldLines(u))
    BY DEF Init, File
  <2>4. QED
    BY <2>1, <2>2, <2>3
<1>4. \A p \in Periods : totals(b, p) <= Cap + Overrun(b, p)
  BY <1>3, SoundWithin
<1>5. QED
  BY <1>1, <1>2, <1>4, BookTerms DEF Book!BookInit, Book!WithinCap

LEMMA OpenedReopens == ASSUME IInv, Opened PROVE Book!Reopen
<1>1. /\ up' = TRUE /\ op.then = "replay" /\ res' = Replayed(disk.lines) /\ Replays(disk.lines)
      /\ acked' = acked
  BY DEF Opened
<1>2. ~up
  BY <1>1 DEF IInv, OpenOK
<1>3. PICK b, v : b = Replayed(disk.lines) /\ v = View
  OBVIOUS
<1>4. Holds(b, v) /\ (\A s \in DOMAIN b : b[s].state # Outstanding) /\ v.acked = acked
  BY <1>1, <1>3, ViewIs DEF IInv, FilesOK, Present, LinesOK
<1>5. DOMAIN acked \subseteq DOMAIN b /\ DOMAIN b \subseteq 1..MaxSeq
  BY <1>4 DEF Holds, Keeps, Sound
<1>6. ASSUME NEW s \in DOMAIN acked
      PROVE  /\ b[s].state \in Book!After(acked[s].state)
             /\ b[s] = [acked[s] EXCEPT !.state = b[s].state]
  <2>1. /\ Same(b[s], acked[s]) /\ s \in DOMAIN b
        /\ b[s].state = acked[s].state \/ b[s].state \in Book!After(acked[s].state)
    BY <1>4, <1>5 DEF Holds, Keeps
  <2>2. b[s].state \in Book!After(acked[s].state)
    BY <1>4, <2>1, AfterHas
  <2>3. b[s] \in Reservation /\ acked[s] \in Reservation
    BY <1>4, <2>1 DEF Holds, Sound, IInv, TypeOK
  <2>4. b[s] = [acked[s] EXCEPT !.state = b[s].state]
    BY <2>1, <2>3 DEF Same, Reservation
  <2>5. QED
    BY <2>2, <2>4
<1>7. \A s \in DOMAIN b \ DOMAIN acked : Counted(b[s]) <= b[s].units
  BY <1>4, ExtraWithin DEF Holds, Sound
<1>8. \A p \in Periods : totals(b, p) <= Cap + Overrun(b, p)
  BY <1>4, SoundWithin DEF Holds
<1>9. Book!WithinCap'
  BY <1>1, <1>3, <1>8, BookTerms DEF Book!WithinCap
<1>10. QED
  BY <1>1, <1>2, <1>3, <1>5, <1>6, <1>7, <1>9, BookMakes DEF Book!Reopen

LEMMA ReserveGrants ==
    ASSUME IInv, ReserveSync PROVE Book!BookNext \/ UNCHANGED <<res, acked, up>>
<1>1. CASE UNCHANGED <<res, acked>>
  BY <1>1 DEF ReserveSync
<1>2. ASSUME Syncs("reserve"), res' = Put(res, next_seq, Res(op.who, per[op.who], op.units)),
             acked' = Put(acked, next_seq, res'[next_seq])
      PROVE  Book!BookNext
  <2>1. PICK s, a, p, u : s = next_seq /\ a = op.who /\ p = per[op.who] /\ u = op.units
    OBVIOUS
  <2>2. op.then = "reserve" /\ up' = up
    BY <1>2 DEF ReserveSync, Syncs
  <2>3. /\ up /\ a \in Attempts /\ u \in Amounts /\ s \in 1..MaxSeq /\ totals(res, p) + u <= Cap
        /\ a \in RunAttempts => run_total(res) + u <= RunCap
    BY <2>1, <2>2 DEF IInv, ReserveOK
  <2>4. p \in Periods
    BY <2>1, <2>3 DEF IInv, TypeOK
  <2>5. s \notin DOMAIN res
    BY <2>1, <2>3 DEF IInv, MemOK, Numbered
  <2>6. res' = Put(res, s, Res(a, p, u))
    BY <1>2, <2>1
  <2>7. res'[s] = Res(a, p, u)
    BY <2>6 DEF Put
  <2>8. acked' = Put(acked, s, Res(a, p, u))
    BY <1>2, <2>1, <2>7
  <2>9. Book!Fits(a, p, u)
    BY <2>3, BookTerms DEF Book!Fits
  <2>10. Book!Grant(s, a, p, u)
    BY <2>2, <2>3, <2>5, <2>6, <2>8, <2>9, BookMakes DEF Book!Grant
  <2>11. QED
    BY <2>3, <2>4, <2>10 DEF Book!BookNext
<1>3. QED
  BY <1>1, <1>2 DEF ReserveSync

LEMMA OutcomeRecords ==
    ASSUME IInv, OutcomeSync PROVE Book!BookNext \/ UNCHANGED <<res, acked, up>>
<1>1. CASE UNCHANGED <<res, acked>>
  BY <1>1 DEF OutcomeSync
<1>2. ASSUME Syncs("outcome"), res' = [res EXCEPT ![op.seq].state = op.to],
             acked' = Put(acked, op.seq, res'[op.seq])
      PROVE  Book!BookNext
  <2>1. PICK s, to : s = op.seq /\ to = op.to
    OBVIOUS
  <2>2. op.then = "outcome" /\ up' = up
    BY <1>2 DEF OutcomeSync, Syncs
  <2>3. up /\ s \in DOMAIN res /\ Due(res[s].state, to)
    BY <2>1, <2>2 DEF IInv, OutcomeOK
  <2>4. s \in 1..MaxSeq
    BY <2>3 DEF IInv, MemOK, Holds, Sound
  <2>5. /\ to \in Book!Outcomes
        /\ \/ res[s].state = Outstanding
           \/ res[s].state \in {Liability, Unknown} /\ to \in Book!Observations
    BY <2>3, OutcomeIs DEF Due
  <2>6. res' = [res EXCEPT ![s].state = to] /\ acked' = Put(acked, s, res'[s])
    BY <1>2, <2>1
  <2>7. Book!RecordOutcome(s, to)
    BY <2>2, <2>3, <2>5, <2>6, BookMakes DEF Book!RecordOutcome
  <2>8. QED
    BY <2>4, <2>5, <2>7 DEF Book!BookNext
<1>3. QED
  BY <1>1, <1>2 DEF OutcomeSync

LEMMA EndEnds ==
    ASSUME IInv, Close \/ Crash PROVE Book!BookNext \/ UNCHANGED <<res, acked, up>>
<1>1. up' = FALSE /\ UNCHANGED <<res, acked>>
  BY DEF Close, Crash
<1>2. up \in BOOLEAN
  BY DEF IInv, TypeOK
<1>3. CASE up
  BY <1>1, <1>3 DEF Book!BookNext, Book!End
<1>4. CASE ~up
  BY <1>1, <1>2, <1>4
<1>5. QED
  BY <1>3, <1>4

LEMMA BookSteps == Kept /\ [Next]_vars => [forgot' \/ Book!BookNext]_(Book!bookVars)
<1> SUFFICES ASSUME IInv, [Next]_vars PROVE Book!BookNext \/ UNCHANGED <<res, acked, up>>
  BY ForgotStays DEF Book!bookVars, Kept
<1>1. CASE UNCHANGED vars
  BY <1>1 DEF vars, memVars
<1>2. CASE Opened
  BY <1>2, OpenedReopens DEF Book!BookNext
<1>3. CASE OpenLock \/ OpenHeader \/ OpenHeaderSync \/ OpenUnreadable \/ OpenCut \/ OpenCutSync
             \/ OpenRead
  BY <1>3 DEF OpenLock, OpenHeader, OpenHeaderSync, OpenUnreadable, OpenCut, OpenCutSync, OpenRead,
              memVars
<1>4. CASE OpenRefused \/ Migrate \/ MigrateSync \/ RemoveLock \/ NextMonth
  BY <1>4 DEF OpenRefused, Migrate, MigrateSync, RemoveLock, NextMonth, memVars
<1>5. ASSUME NEW a \in Attempts, ReserveAsk(a) \/ ReserveRefuse(a) \/ ReserveWrite(a) \/ release(a)
      PROVE  UNCHANGED <<res, acked, up>>
  BY <1>5 DEF ReserveAsk, ReserveRefuse, ReserveWrite, release, memVars
<1>6. ASSUME NEW a \in Attempts, NEW c, NEW e, Send(a, c) \/ settle(a, c, e)
      PROVE  UNCHANGED <<res, acked, up>>
  BY <1>6 DEF Send, settle, memVars
<1>7. ASSUME NEW s, NEW p, reconcile(s) \/ reconcile_billing(s, p)
      PROVE  UNCHANGED <<res, acked, up>>
  BY <1>7 DEF reconcile, reconcile_billing, memVars
<1>8. CASE ReserveSync \/ OutcomeSync \/ Close \/ Crash
  BY <1>8, ReserveGrants, OutcomeRecords, EndEnds
<1>9. QED
  BY <1>1, <1>2, <1>3, <1>4, <1>5, <1>6, <1>7, <1>8 DEF Next, Opening

(* The journal is a SpendBook to its users (SpendJournal and its file, in  *)
(* journal.rs): what was acknowledged survives every crash and power loss, *)
(* a reopened journal holds it or a later outcome of it, and what was not  *)
(* acknowledged never makes the book exceed its cap. The one exception is  *)
(* named in the statement: a power loss on a directory that was not synced *)
(* may leave no journal, or the one from before a migration.               *)
THEOREM ImplementsTheBook == Spec => ImplementsBook
  BY InitBook, BookSteps, Invariance, PTL DEF Spec, ImplementsBook
=============================================================================
