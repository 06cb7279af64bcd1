--------------------------- MODULE LiveRunProofs ---------------------------
(***************************************************************************)
(* What a live run and its recovery keep for every dataset, every binding  *)
(* and every number of processes, crashes and failing writes.              *)
(***************************************************************************)
EXTENDS LiveRun, FiniteSetTheorems, SequenceTheorems, NaturalsInduction, WellFoundedInduction,
        TLAPS

-----------------------------------------------------------------------------
(* Histories.                                                              *)

LEMMA PrefixIs ==
  ASSUME NEW S, NEW s \in Seq(S), NEW t \in Seq(S)
  PROVE  IsPrefix(s, t) <=> Len(s) <= Len(t) /\ \A n \in 1..Len(s) : s[n] = t[n]
<1>1. Len(s) \in Nat /\ Len(t) \in Nat
  OBVIOUS
<1>2. SubSeq(s, 1, Len(s)) = [n \in 1..Len(s) |-> s[n]]
  BY <1>1
<1>3. ASSUME Len(s) <= Len(t)
      PROVE  SubSeq(t, 1, Len(s)) = [n \in 1..Len(s) |-> t[n]]
  BY <1>1, <1>3
<1>4. QED
  BY <1>1, <1>2, <1>3 DEF IsPrefix

LEMMA PrefixTrans ==
  ASSUME NEW S, NEW r \in Seq(S), NEW s \in Seq(S), NEW t \in Seq(S),
         IsPrefix(r, s), IsPrefix(s, t)
  PROVE  IsPrefix(r, t)
<1>1. /\ Len(r) <= Len(s) /\ Len(s) <= Len(t)
      /\ \A n \in 1..Len(r) : r[n] = s[n]
      /\ \A n \in 1..Len(s) : s[n] = t[n]
  BY PrefixIs
<1>2. Len(r) \in Nat /\ Len(s) \in Nat /\ Len(t) \in Nat
  OBVIOUS
<1>3. Len(r) <= Len(t) /\ \A n \in 1..Len(r) : r[n] = t[n]
  BY <1>1, <1>2
<1>4. QED
  BY <1>3, PrefixIs

LEMMA PrefixRefl ==
  ASSUME NEW S, NEW s \in Seq(S)
  PROVE  IsPrefix(s, s)
<1>1. Len(s) <= Len(s)
  OBVIOUS
<1>2. QED
  BY <1>1, PrefixIs

LEMMA PrefixAppend ==
  ASSUME NEW S, NEW s \in Seq(S), NEW x \in S
  PROVE  IsPrefix(s, Append(s, x))
<1>1. Append(s, x) \in Seq(S) /\ Len(Append(s, x)) = Len(s) + 1 /\ Len(s) \in Nat
      /\ \A n \in 1..Len(s) : s[n] = Append(s, x)[n]
  OBVIOUS
<1>2. Len(s) <= Len(Append(s, x))
  BY <1>1
<1>3. QED
  BY <1>1, <1>2, PrefixIs

(* The reruns of a history are counted, and only a rerun adds one.         *)
LEMMA RerunsNat ==
  ASSUME NEW S, NEW h \in Seq(S)
  PROVE  /\ IsFiniteSet({n \in DOMAIN h : h[n] = "rerun"})
         /\ Reruns(h) \in Nat
<1>1. IsFiniteSet(1..Len(h)) /\ DOMAIN h = 1..Len(h)
  <2>1. Len(h) \in Nat
    OBVIOUS
  <2>2. QED
    BY <2>1, FS_Interval
<1>2. IsFiniteSet({n \in DOMAIN h : h[n] = "rerun"})
  BY <1>1, FS_Subset
<1>3. QED
  BY <1>2, FS_CardinalityType DEF Reruns

LEMMA RerunsAppend ==
  ASSUME NEW S, NEW h \in Seq(S), NEW x \in S
  PROVE  Reruns(Append(h, x)) = IF x = "rerun" THEN Reruns(h) + 1 ELSE Reruns(h)
<1> DEFINE g == Append(h, x)
           A == {n \in DOMAIN h : h[n] = "rerun"}
           B == {n \in DOMAIN g : g[n] = "rerun"}
           m == Len(h) + 1
<1>1. /\ DOMAIN h = 1..Len(h) /\ DOMAIN g = 1..m /\ Len(h) \in Nat
      /\ g[m] = x /\ \A n \in 1..Len(h) : g[n] = h[n]
  OBVIOUS
<1>2. IsFiniteSet(A) /\ Cardinality(A) \in Nat
  BY RerunsNat, FS_CardinalityType
<1>3. m \notin A /\ m \in 1..m /\ \A n \in 1..m : n = m \/ n \in 1..Len(h)
  BY <1>1
<1>4. \A n \in 1..Len(h) : n \in 1..m
  BY <1>1
<1> HIDE DEF g, m
<1>5. CASE x = "rerun"
  <2>1. B = A \cup {m}
    BY <1>1, <1>3, <1>4, <1>5
  <2> HIDE DEF A, B
  <2>2. Cardinality(A \cup {m}) = Cardinality(A) + 1
    BY <1>2, <1>3, FS_AddElement
  <2>3. QED
    BY <1>5, <2>1, <2>2 DEF Reruns, A, B, g
<1>6. CASE x # "rerun"
  <2>1. B = A
    BY <1>1, <1>3, <1>4, <1>6
  <2>2. QED
    BY <1>6, <2>1 DEF Reruns, g
<1>7. QED
  BY <1>5, <1>6

LEMMA RerunsPrefix ==
  ASSUME NEW S, NEW g \in Seq(S), NEW h \in Seq(S), IsPrefix(g, h)
  PROVE  Reruns(g) <= Reruns(h)
<1> DEFINE A == {n \in DOMAIN g : g[n] = "rerun"}
           B == {n \in DOMAIN h : h[n] = "rerun"}
<1>1. /\ DOMAIN g = 1..Len(g) /\ DOMAIN h = 1..Len(h) /\ Len(g) \in Nat /\ Len(h) \in Nat
      /\ Len(g) <= Len(h) /\ \A n \in 1..Len(g) : g[n] = h[n]
  BY PrefixIs
<1>2. \A n \in 1..Len(g) : n \in 1..Len(h)
  BY <1>1
<1>3. A \in SUBSET B
  BY <1>1, <1>2
<1>4. IsFiniteSet(B)
  BY RerunsNat
<1> HIDE DEF A, B
<1>5. Cardinality(A) <= Cardinality(B)
  BY <1>3, <1>4, FS_Subset
<1>6. QED
  BY <1>5 DEF A, B, Reruns

(* The states an item passes through. A completed one is its last.         *)
Words == {"pending", "rerun", "interrupted", "completed", "refused", "unavailable"}
Final(h) == \A n \in 1..Len(h) : h[n] = "completed" => n = Len(h)
Hist == {h \in Seq(Words) : h # <<>> /\ Final(h)}
Histories == [Items -> Hist]

Extends(x, y) == \A i \in Items : IsPrefix(x[i], y[i])

Kinds == {"live", "run", "case"}
FilesOf(i, k) == {<<i, k, x>> : x \in Kinds}

(* The writes under way: a save of the checkpoint, of a case, the report.  *)
Saving(then) == [then : {then}, todo : {<<CheckpointFile>>, <<>>}, renamed : BOOLEAN]
Reporting == [then : {"report"}, todo : {<<RunFile>>, <<>>}, renamed : BOOLEAN]
Rest(i, k) == {<<<<i, k, "live">>, <<i, k, "run">>, <<i, k, "case">>>>,
               <<<<i, k, "run">>, <<i, k, "case">>>>, <<<<i, k, "case">>>>, <<>>}
CaseOf(i) == [then : {"case"}, slot : {i}, result : {"output", "source", "spend+source"},
              renamed : BOOLEAN, todo : Rest(i, rerun(i))]
SavingCase == UNION {CaseOf(i) : i \in Items}
InCase(i) == io.then = "case" /\ io.slot = i

DecStates == {"none", "running", "held", "sent", "ended"}
Places == {"down", "prepare", "open", "scan", "probe", "dispatch", "report", "ending"}

(* Where the process is, and what it may be writing there.                 *)
Shape ==
  /\ pc \in Places /\ next \in 1..(N + 1) /\ error \in BOOLEAN /\ given \in Given
  /\ dec \in [Slots -> DecStates]
  /\ IF pc = "down" THEN items = NoFile ELSE items \in Histories
  /\ \/ Quiet /\ pc # "prepare"
     \/ pc = "prepare" /\ io \in Saving("prepare")
     \/ pc = "scan" /\ io \in Saving("scan")
     \/ pc = "dispatch" /\ (io \in Saving("item") \/ io \in SavingCase)
     \/ pc = "report" /\ io \in Reporting
  /\ pc \notin {"dispatch", "ending"} => ~error
  /\ pc \notin {"dispatch", "report", "ending"} => next = 1

(* Whatever a power loss leaves of the checkpoint is the beginning of the  *)
(* file, and the file the beginning of what the process knows.             *)
Disk ==
  /\ cp \in cpImages /\ (cp = NoFile => cpImages = {NoFile}) /\ (~dir => cp = NoFile)
  /\ \A image \in cpImages : image = NoFile \/ (image \in Histories /\ Extends(image, cp))
  /\ pc # "down" => dir /\ (cp # NoFile => Extends(cp, items))
  /\ report # NoFile => report.items \in Histories

(* Between two writes that did not fail, what the process knows is what    *)
(* every power loss leaves.                                                *)
Saved ==
  /\ pc = "open" \/ (pc = "scan" /\ Quiet) => cp = items
  /\ io.then \in {"prepare", "scan", "item"} =>
       /\ io.renamed \/ io.todo = <<>> => cp = items
       /\ io.todo = <<>> => cpImages = {items}
  /\ pc = "probe" => cpImages = {items}
  /\ pc \in {"dispatch", "report"} /\ ~error /\ io.then # "item" => cpImages = {items}

Kept(x) == \A i \in Items : Last(x[i]) = "completed" => FilesOf(i, Reruns(x[i])) \subseteq files \ unsafe

Todo(td) == {td[n] : n \in 1..Len(td)}

(* The files of a case being saved that are no longer to be written are on *)
(* the disk for good.                                                      *)
CasesKept ==
  /\ \A image \in cpImages : image = NoFile \/ Kept(image)
  /\ pc # "down" => Kept(items)
  /\ io.then = "case" =>
       /\ FilesOf(io.slot, rerun(io.slot)) \ Todo(io.todo) \subseteq files \ unsafe
       /\ io.renamed /\ io.todo # <<>> => Head(io.todo) \in files

(* An item in the hands of a decision, or of the save of its case, is      *)
(* pending, and nothing else is done with it.                              *)
Worked ==
  /\ \A i \in Items : dec[i] # "none" => pc \in {"dispatch", "ending"} /\ pending(items[i])
  /\ pc = "dispatch" => \A i \in Items : i >= next => dec[i] = "none"
  /\ io.then = "case" => pending(items[io.slot]) /\ dec[io.slot] = "none"

(* No item is passed over.                                                 *)
Covered ==
  /\ pc \in {"dispatch", "report"} /\ ~error =>
       \A i \in Items : i < next => ~pending(items[i]) \/ dec[i] # "none" \/ InCase(i)
  /\ pc = "report" /\ status = "evaluated" => next > N

RunInv == Shape /\ Disk /\ Saved /\ CasesKept /\ Worked /\ Covered /\ ReportHonest

LEMMA ItemsFacts ==
  /\ N \in Nat \ {0} /\ 1 \in Items /\ 0 \notin Items
  /\ \A i \in Items : i \in Slots /\ i \in Nat /\ 1 <= i /\ i <= N
  /\ \A s \in Slots : s \in Items \/ s = 0
BY LiveAssumption DEF Items, Slots

LEMMA HistFacts ==
  ASSUME NEW h \in Hist
  PROVE  /\ h \in Seq(Words) /\ Len(h) \in Nat \ {0} /\ Last(h) \in Words
         /\ \A n \in 1..Len(h) : h[n] = "completed" => n = Len(h)
<1>1. h \in Seq(Words) /\ h # <<>> /\ Final(h)
  BY DEF Hist
<1>2. Len(h) \in Nat \ {0}
  BY <1>1
<1>3. Last(h) \in Words
  BY <1>1, <1>2 DEF Last
<1>4. QED
  BY <1>1, <1>2, <1>3 DEF Final

LEMMA HistAppend ==
  ASSUME NEW h \in Hist, Last(h) # "completed", NEW x \in Words
  PROVE  /\ Append(h, x) \in Hist /\ Last(Append(h, x)) = x
         /\ IsPrefix(h, Append(h, x))
         /\ Reruns(Append(h, x)) = IF x = "rerun" THEN Reruns(h) + 1 ELSE Reruns(h)
         /\ Reruns(h) \in Nat
<1> DEFINE g == Append(h, x)
<1>1. h \in Seq(Words) /\ Len(h) \in Nat \ {0} /\ \A n \in 1..Len(h) : h[n] = "completed" => n = Len(h)
  BY HistFacts
<1>2. /\ g \in Seq(Words) /\ Len(g) = Len(h) + 1 /\ g # <<>> /\ g[Len(h) + 1] = x
      /\ \A n \in 1..Len(h) : g[n] = h[n]
  BY <1>1
<1>3. h[Len(h)] # "completed" /\ Len(h) \in 1..Len(h)
  BY <1>1 DEF Last
<1> HIDE DEF g
<1>4. Final(g)
  <2> SUFFICES ASSUME NEW n \in 1..Len(g), g[n] = "completed"
               PROVE  n = Len(g)
    BY DEF Final
  <2>1. n \in 1..Len(h) \/ n = Len(h) + 1
    BY <1>1, <1>2
  <2>2. n \notin 1..Len(h)
    BY <1>1, <1>2, <1>3
  <2>3. QED
    BY <1>2, <2>1, <2>2
<1>5. g \in Hist /\ Last(g) = x
  BY <1>2, <1>4 DEF Hist, Last
<1>6. QED
  BY <1>1, <1>5, PrefixAppend, RerunsAppend, RerunsNat DEF g

(* A history before one that did not complete did not complete.            *)
LEMMA NotCompleted ==
  ASSUME NEW g \in Hist, NEW h \in Hist, IsPrefix(g, h), Last(h) # "completed"
  PROVE  Last(g) # "completed"
<1>1. /\ g \in Seq(Words) /\ h \in Seq(Words)
      /\ Len(g) \in Nat \ {0} /\ Len(h) \in Nat \ {0}
      /\ \A n \in 1..Len(h) : h[n] = "completed" => n = Len(h)
  BY HistFacts
<1>2. Len(g) <= Len(h) /\ \A n \in 1..Len(g) : g[n] = h[n]
  BY <1>1, PrefixIs
<1>3. Len(g) \in 1..Len(g) /\ Len(g) \in 1..Len(h)
  BY <1>1, <1>2
<1>4. QED
  BY <1>1, <1>2, <1>3 DEF Last

LEMMA HistoriesFacts ==
  ASSUME NEW x \in Histories
  PROVE  x # NoFile /\ \A i \in Items : x[i] \in Hist /\ x[i] \in Seq(Words)
<1>1. \A i \in Items : x[i] \in Hist /\ x[i] \in Seq(Words)
  BY HistFacts DEF Histories
<1>2. DOMAIN x = Items /\ 1 \in Items
  BY ItemsFacts DEF Histories
<1>3. DOMAIN NoFile = {}
  BY DEF NoFile
<1>4. QED
  BY <1>1, <1>2, <1>3

LEMMA ExtendsFacts ==
  /\ \A x \in Histories : Extends(x, x)
  /\ \A x, y, z \in Histories : Extends(x, y) /\ Extends(y, z) => Extends(x, z)
<1>1. ASSUME NEW x \in Histories
      PROVE  Extends(x, x)
  BY HistoriesFacts, PrefixRefl DEF Extends
<1>2. ASSUME NEW x \in Histories, NEW y \in Histories, NEW z \in Histories,
             Extends(x, y), Extends(y, z)
      PROVE  Extends(x, z)
  <2> SUFFICES ASSUME NEW i \in Items
               PROVE  IsPrefix(x[i], z[i])
    BY DEF Extends
  <2>1. x[i] \in Seq(Words) /\ y[i] \in Seq(Words) /\ z[i] \in Seq(Words)
    BY HistoriesFacts
  <2>2. IsPrefix(x[i], y[i]) /\ IsPrefix(y[i], z[i])
    BY <1>2 DEF Extends
  <2>3. QED
    BY <2>1, <2>2, PrefixTrans
<1>3. QED
  BY <1>1, <1>2

LEMMA PushFacts ==
  ASSUME items \in Histories, NEW i \in Items, Last(items[i]) # "completed", NEW st \in Words, Push(i, st)
  PROVE  /\ items' \in Histories /\ Extends(items, items')
         /\ Last(items'[i]) = st
         /\ Reruns(items'[i]) = IF st = "rerun" THEN Reruns(items[i]) + 1 ELSE Reruns(items[i])
         /\ \A j \in Items : j # i => items'[j] = items[j]
<1>1. /\ items[i] \in Hist /\ Append(items[i], st) \in Hist /\ Last(Append(items[i], st)) = st
      /\ IsPrefix(items[i], Append(items[i], st))
      /\ Reruns(Append(items[i], st)) = IF st = "rerun" THEN Reruns(items[i]) + 1 ELSE Reruns(items[i])
  BY HistAppend, HistoriesFacts
<1>2. items' = [items EXCEPT ![i] = Append(items[i], st)] /\ items \in [Items -> Hist]
  BY DEF Push, Histories
<1>3. /\ items' \in [Items -> Hist] /\ items'[i] = Append(items[i], st)
      /\ \A j \in Items : j # i => items'[j] = items[j]
  BY <1>1, <1>2
<1>4. Extends(items, items')
  <2> SUFFICES ASSUME NEW j \in Items
               PROVE  IsPrefix(items[j], items'[j])
    BY DEF Extends
  <2>1. CASE j = i
    BY <1>1, <1>3, <2>1
  <2>2. CASE j # i
    BY <1>3, <2>2, HistoriesFacts, PrefixRefl
  <2>3. QED
    BY <2>1, <2>2
<1>5. QED
  BY <1>1, <1>3, <1>4 DEF Histories

(* The write under way tells where the process is.                         *)
LEMMA IoAt ==
  ASSUME Shape
  PROVE  /\ Quiet <=> io.then = "nothing"
         /\ io.then \in {"nothing", "prepare", "scan", "item", "case", "report"}
         /\ pc = "prepare" <=> io.then = "prepare"
         /\ \A x \in {"prepare", "scan", "item"} : io.then = x => io \in Saving(x)
         /\ io.then = "scan" => pc = "scan"
         /\ io.then \in {"item", "case"} => pc = "dispatch"
         /\ io.then = "case" => io.slot \in Items /\ io \in CaseOf(io.slot)
         /\ io.then = "report" => pc = "report" /\ io \in Reporting
<1>1. CASE Quiet /\ pc # "prepare"
  BY <1>1 DEF Quiet
<1>2. CASE pc = "prepare" /\ io \in Saving("prepare")
  BY <1>2 DEF Quiet, Saving
<1>3. CASE pc = "scan" /\ io \in Saving("scan")
  BY <1>3 DEF Quiet, Saving
<1>4. CASE pc = "dispatch" /\ io \in Saving("item")
  BY <1>4 DEF Quiet, Saving
<1>5. CASE pc = "dispatch" /\ io \in SavingCase
  <2>1. PICK i \in Items : io \in CaseOf(i)
    BY <1>5 DEF SavingCase
  <2>2. io.then = "case" /\ io.slot = i
    BY <2>1 DEF CaseOf
  <2>3. ~Quiet
    BY <2>2 DEF Quiet
  <2>4. QED
    BY <1>5, <2>1, <2>2, <2>3
<1>6. CASE pc = "report" /\ io \in Reporting
  BY <1>6 DEF Quiet, Reporting
<1>7. QED
  BY <1>1, <1>2, <1>3, <1>4, <1>5, <1>6 DEF Shape

-----------------------------------------------------------------------------
(* The run: every step keeps RunInv.                                       *)

(* What a step that leaves the files alone keeps.                          *)
LEMMA FilesKept ==
  ASSUME RunInv, UNCHANGED <<diskVars, items>>, pc = "down" <=> pc' = "down"
  PROVE  /\ Disk' /\ ReportHonest'
         /\ \A image \in cpImages' : image = NoFile \/ Kept(image)'
         /\ pc' # "down" => Kept(items)'
<1>1. UNCHANGED <<dir, cp, cpImages, files, unsafe, report>>
  BY DEF diskVars
<1>2. Disk'
  BY <1>1 DEF RunInv, Disk
<1>3. ReportHonest'
  BY <1>1 DEF RunInv, ReportHonest
<1>4. QED
  BY <1>1, <1>2, <1>3 DEF RunInv, CasesKept, Kept

(* Steps of the decisions alone.                                           *)
LEMMA DecStep ==
  ASSUME RunInv, UNCHANGED <<diskVars, runVars, given, pc, io>>,
         dec' \in [Slots -> DecStates],
         \A i \in Items : dec'[i] # "none" => dec[i] # "none",
         pc = "ending" \/ \A i \in Items : dec[i] # "none" => dec'[i] # "none"
  PROVE  RunInv'
<1>1. UNCHANGED <<dir, cp, cpImages, files, unsafe, report, items, next, status, error, resume, given, pc, io>>
  BY DEF diskVars, runVars
<1>2. /\ Disk' /\ ReportHonest'
      /\ \A image \in cpImages' : image = NoFile \/ Kept(image)'
      /\ pc' # "down" => Kept(items)'
  BY <1>1, FilesKept
<1>3. Shape'
  <2>1. SavingCase' = SavingCase /\ Quiet' = Quiet
    BY <1>1 DEF SavingCase, CaseOf, rerun, Quiet
  <2>2. QED
    BY <1>1, <2>1 DEF RunInv, Shape
<1>4. Saved'
  BY <1>1 DEF RunInv, Saved, Quiet
<1>5. CasesKept'
  BY <1>1, <1>2 DEF RunInv, CasesKept, rerun
<1>6. Worked'
  <2>1. \A i \in Items : dec'[i] # "none" => pc' \in {"dispatch", "ending"} /\ pending(items'[i])
    BY <1>1 DEF RunInv, Worked
  <2>2. pc' = "dispatch" => \A i \in Items : i >= next' => dec'[i] = "none"
    BY <1>1 DEF RunInv, Worked
  <2>3. io'.then = "case" => pending(items'[io'.slot]) /\ dec'[io'.slot] = "none"
    <3>1. Shape
      BY DEF RunInv
    <3>2. io.then = "case" => io.slot \in Items
      BY <3>1, IoAt
    <3>3. QED
      BY <1>1, <3>2 DEF RunInv, Worked
  <2>4. QED
    BY <2>1, <2>2, <2>3 DEF Worked
<1>7. Covered'
  <2>1. CASE pc = "ending"
    BY <1>1, <2>1 DEF Covered
  <2>2. CASE pc # "ending"
    BY <1>1, <2>2 DEF RunInv, Covered, InCase
  <2>3. QED
    BY <2>1, <2>2
<1>8. QED
  BY <1>2, <1>3, <1>4, <1>5, <1>6, <1>7 DEF RunInv

(* Nothing remains of a process but its files, less what a power loss took. *)
LEMMA ForgetKeeps ==
  ASSUME RunInv, Forget, UNCHANGED diskVars \/ OutStays \/ OutIsLost
  PROVE  RunInv'
<1>1. /\ pc' = "down" /\ items' = NoFile /\ next' = 1 /\ status' = "evaluated" /\ error' = FALSE
      /\ dec' = [s \in Slots |-> "none"] /\ io' = [then |-> "nothing"] /\ given' = given
  BY DEF Forget
<1>2. Shape'
  <2>1. 1 \in 1..(N + 1)
    BY ItemsFacts
  <2>2. given' \in Given
    BY <1>1 DEF RunInv, Shape
  <2>3. Quiet' /\ io'.then = "nothing"
    BY <1>1 DEF Quiet
  <2>4. dec' \in [Slots -> DecStates]
    BY <1>1 DEF DecStates
  <2>5. QED
    BY <1>1, <2>1, <2>2, <2>3, <2>4 DEF Shape, Places
<1>3. io'.then = "nothing"
  BY <1>1
<1>4. Saved' /\ Covered'
  BY <1>1, <1>3 DEF Saved, Covered
<1>5. Worked'
  <2>1. \A i \in Items : dec'[i] = "none"
    BY <1>1, ItemsFacts
  <2>2. QED
    BY <1>1, <1>3, <2>1 DEF Worked
<1>6. /\ cp \in cpImages /\ (cp = NoFile => cpImages = {NoFile}) /\ (~dir => cp = NoFile)
      /\ \A image \in cpImages : image = NoFile \/ (image \in Histories /\ Extends(image, cp))
      /\ \A image \in cpImages : image = NoFile \/ Kept(image)
  BY DEF RunInv, Disk, CasesKept
<1>7. CASE UNCHANGED diskVars
  <2>1. Disk'
    BY <1>1, <1>6, <1>7 DEF RunInv, Disk, diskVars
  <2>2. CasesKept'
    BY <1>1, <1>3, <1>6, <1>7 DEF CasesKept, Kept, diskVars
  <2>3. ReportHonest'
    BY <1>7 DEF RunInv, ReportHonest, diskVars
  <2>4. QED
    BY <1>2, <1>4, <1>5, <2>1, <2>2, <2>3 DEF RunInv
<1>8. CASE OutStays
  <2>0. /\ cp' \in cpImages /\ cpImages' = {cp'} /\ dir' = dir /\ report' = report
        /\ files \ unsafe \subseteq files' \ unsafe'
    BY <1>8 DEF OutStays
  <2>1. Disk'
    <3>1. (~dir' => cp' = NoFile) /\ (report' # NoFile => report'.items \in Histories)
      BY <1>6, <2>0 DEF RunInv, Disk
    <3>2. cp' = NoFile \/ (cp' \in Histories /\ Extends(cp', cp'))
      BY <1>6, <2>0, ExtendsFacts
    <3>3. QED
      BY <1>1, <2>0, <3>1, <3>2 DEF Disk
  <2>2. CasesKept'
    <3>1. \A image : Kept(image) => Kept(image)'
      BY <2>0 DEF Kept
    <3>2. QED
      BY <1>1, <1>3, <1>6, <2>0, <3>1 DEF CasesKept
  <2>3. ReportHonest'
    BY <2>0 DEF RunInv, ReportHonest
  <2>4. QED
    BY <1>2, <1>4, <1>5, <2>1, <2>2, <2>3 DEF RunInv
<1>9. CASE OutIsLost
  <2>1. cp' = NoFile /\ cpImages' = {NoFile} /\ dir' = FALSE /\ report' = NoFile
    BY <1>9 DEF OutIsLost
  <2>2. Disk' /\ CasesKept' /\ ReportHonest'
    BY <1>1, <1>3, <2>1 DEF Disk, CasesKept, ReportHonest
  <2>3. QED
    BY <1>2, <1>4, <1>5, <2>2 DEF RunInv
<1>10. QED
  BY <1>7, <1>8, <1>9

(* prepare.                                                                *)
LEMMA PrepareFreshKeeps ==
  ASSUME RunInv, PrepareFresh
  PROVE  RunInv'
<1>1. /\ ~dir /\ pc = "down" /\ dir' = TRUE /\ items' = [i \in Items |-> <<"pending">>]
      /\ pc' = "prepare" /\ io' = Checkpoint("prepare")
      /\ UNCHANGED <<cp, cpImages, files, unsafe, report, given, next, status, error, dec>>
  BY DEF PrepareFresh, Begin, decVars
<1>2. cp = NoFile /\ cpImages = {NoFile}
  BY <1>1 DEF RunInv, Disk
<1>3. report = NoFile
  <2>1. \A image \in cpImages : image = NoFile
    BY <1>2
  <2>2. QED
    BY <1>2, <2>1, ItemsFacts DEF RunInv, ReportHonest
<1>4. <<"pending">> \in Hist /\ Last(<<"pending">>) = "pending"
  BY DEF Hist, Final, Words, Last
<1>5. items' \in Histories /\ \A i \in Items : Last(items'[i]) = "pending"
  BY <1>1, <1>4 DEF Histories
<1>6. io' \in Saving("prepare") /\ io'.then = "prepare" /\ io'.todo = <<CheckpointFile>> /\ io'.renamed = FALSE
  BY <1>1 DEF Saving, Checkpoint
<1>7. <<CheckpointFile>> # <<>>
  OBVIOUS
<1>8. Shape'
  BY <1>1, <1>5, <1>6 DEF RunInv, Shape, Places
<1>9. Disk' /\ ReportHonest'
  BY <1>1, <1>2, <1>3 DEF Disk, ReportHonest
<1>10. Saved'
  BY <1>1, <1>6, <1>7 DEF Saved
<1>11. CasesKept'
  BY <1>1, <1>2, <1>5, <1>6 DEF CasesKept, Kept
<1>12. \A i \in Items : dec[i] = "none"
  BY <1>1 DEF RunInv, Worked
<1>13. Worked' /\ Covered'
  BY <1>1, <1>6, <1>12 DEF Worked, Covered
<1>14. QED
  BY <1>8, <1>9, <1>10, <1>11, <1>13 DEF RunInv

LEMMA PrepareResumeKeeps ==
  ASSUME RunInv, PrepareResume
  PROVE  RunInv'
<1>1. /\ cp # NoFile /\ pc = "down" /\ items' = cp /\ pc' = "open"
      /\ UNCHANGED <<dir, cp, cpImages, files, unsafe, report, given, next, status, error, dec, io>>
  BY DEF PrepareResume, Begin, decVars
<1>2. cp \in Histories /\ Kept(cp) /\ cp \in cpImages
  BY <1>1 DEF RunInv, Disk, CasesKept
<1>3. Quiet /\ io.then = "nothing"
  BY <1>1, IoAt DEF RunInv, Shape
<1>4. Shape'
  BY <1>1, <1>2, <1>3 DEF RunInv, Shape, Places, Quiet
<1>5. Disk'
  BY <1>1, <1>2, ExtendsFacts DEF RunInv, Disk
<1>6. Saved'
  BY <1>1, <1>3 DEF Saved
<1>7. CasesKept'
  BY <1>1, <1>2, <1>3 DEF RunInv, CasesKept, Kept
<1>8. \A i \in Items : dec[i] = "none"
  BY <1>1 DEF RunInv, Worked
<1>9. Worked' /\ Covered'
  BY <1>1, <1>3, <1>8 DEF Worked, Covered
<1>10. ReportHonest'
  BY <1>1 DEF RunInv, ReportHonest
<1>11. QED
  BY <1>4, <1>5, <1>6, <1>7, <1>9, <1>10 DEF RunInv

LEMMA RemoveOutKeeps ==
  ASSUME RunInv, RemoveOut
  PROVE  RunInv'
<1>1. /\ pc = "down" /\ cp = NoFile /\ dir' = FALSE /\ cpImages' = {NoFile}
      /\ UNCHANGED <<cp, files, unsafe, report, items, next, status, error, dec, given, pc, io>>
  BY DEF RemoveOut, runVars, decVars
<1>2. cpImages = {NoFile}
  BY <1>1 DEF RunInv, Disk
<1>3. Quiet /\ io.then = "nothing"
  BY <1>1, IoAt DEF RunInv, Shape
<1>4. Shape'
  BY <1>1, <1>3 DEF RunInv, Shape, Quiet
<1>5. Disk' /\ Saved'
  BY <1>1, <1>2, <1>3 DEF RunInv, Disk, Saved
<1>6. CasesKept' /\ ReportHonest'
  BY <1>1, <1>2, <1>3 DEF RunInv, CasesKept, ReportHonest
<1>7. Worked' /\ Covered'
  BY <1>1, <1>3 DEF RunInv, Worked, Covered
<1>8. QED
  BY <1>4, <1>5, <1>6, <1>7 DEF RunInv

(* From the first save of the checkpoint to the marking.                   *)
LEMMA PreparedKeeps ==
  ASSUME RunInv, Prepared \/ OpenJournal
  PROVE  RunInv'
<1>1. /\ UNCHANGED <<diskVars, items, next, status, error, dec, given>>
      /\ pc \in {"prepare", "open"} /\ pc' \in {"open", "scan"} /\ Quiet' /\ io'.then = "nothing"
      /\ cp = items
  <2>1. CASE Prepared
    <3>1. io.then = "prepare" /\ io.todo = <<>> /\ io' = [then |-> "nothing"] /\ pc' = "open"
          /\ UNCHANGED <<diskVars, items, next, status, error, dec, given>>
      BY <2>1 DEF Prepared, Wrote, IoDone, runVars, decVars
    <3>2. pc = "prepare" /\ cp = items
      BY <3>1, IoAt DEF RunInv, Saved
    <3>3. QED
      BY <3>1, <3>2 DEF Quiet
  <2>2. CASE OpenJournal
    <3>1. pc = "open" /\ pc' = "scan"
          /\ UNCHANGED <<diskVars, items, next, status, error, dec, given, io>>
      BY <2>2 DEF OpenJournal, runVars, decVars
    <3>2. Quiet /\ cp = items
      BY <3>1 DEF RunInv, Shape, Saved
    <3>3. QED
      BY <3>1, <3>2 DEF Quiet
  <2>3. QED
    BY <2>1, <2>2
<1>2. /\ Disk' /\ ReportHonest'
      /\ \A image \in cpImages' : image = NoFile \/ Kept(image)'
      /\ pc' # "down" => Kept(items)'
  BY <1>1, FilesKept
<1>3. Shape'
  BY <1>1 DEF RunInv, Shape, Places
<1>4. Saved'
  BY <1>1 DEF Saved, diskVars
<1>5. CasesKept'
  BY <1>1, <1>2 DEF CasesKept
<1>6. Worked' /\ Covered'
  BY <1>1 DEF RunInv, Worked, Covered
<1>7. QED
  BY <1>2, <1>3, <1>4, <1>5, <1>6 DEF RunInv

(* What the marking does to a history.                                     *)
LEMMA ScanOf ==
  ASSUME NEW h \in Hist, NEW id, NEW ri \in BOOLEAN
  PROVE  LET g == Again(Interrupted(h, id), ri)
         IN  /\ g \in Hist /\ IsPrefix(h, g)
             /\ Last(g) = "completed" => g = h
             /\ pending(g) => (g = h /\ ~Reserved(id)) \/ Reruns(g) = Reruns(h) + 1
<1> DEFINE f == Interrupted(h, id)
           g == Again(f, ri)
<1>1. h \in Seq(Words) /\ Reruns(h) \in Nat
  BY HistFacts, RerunsNat
<1>2. f \in Hist /\ f \in Seq(Words) /\ IsPrefix(h, f) /\ Reruns(f) = Reruns(h) /\ Last(f) \in Words
      /\ \/ f = h /\ (pending(h) => ~Reserved(id))
         \/ pending(h) /\ Last(f) = "interrupted"
  <2>1. CASE pending(h) /\ Reserved(id)
    <3>1. f = Append(h, "interrupted")
      BY <2>1 DEF Interrupted
    <3>2. Last(h) # "completed" /\ "interrupted" \in Words
      BY <2>1 DEF pending, Words
    <3>3. /\ Append(h, "interrupted") \in Hist /\ Last(Append(h, "interrupted")) = "interrupted"
          /\ IsPrefix(h, Append(h, "interrupted")) /\ Reruns(Append(h, "interrupted")) = Reruns(h)
      BY <3>2, HistAppend
    <3>4. QED
      BY <2>1, <3>1, <3>2, <3>3, HistFacts
  <2>2. CASE ~(pending(h) /\ Reserved(id))
    <3>1. f = h
      BY <2>2 DEF Interrupted
    <3> HIDE DEF f
    <3>2. QED
      BY <1>1, <2>2, <3>1, HistFacts, PrefixRefl
  <2>3. QED
    BY <2>1, <2>2
<1> HIDE DEF f
<1>3. CASE Last(f) = "interrupted" /\ ri
  <2> DEFINE x == IF Reruns(f) + 1 > MaxRerun THEN "refused" ELSE "rerun"
  <2>1. g = Append(f, x)
    BY <1>3 DEF Again
  <2>2. x \in Words /\ x \in {"refused", "rerun"}
    BY DEF Words
  <2> HIDE DEF x, g
  <2>3. /\ Append(f, x) \in Hist /\ Last(Append(f, x)) = x /\ IsPrefix(f, Append(f, x))
        /\ Reruns(Append(f, x)) = IF x = "rerun" THEN Reruns(f) + 1 ELSE Reruns(f)
    BY <1>2, <1>3, <2>2, HistAppend
  <2>4. g \in Hist /\ g \in Seq(Words) /\ IsPrefix(f, g) /\ Last(g) = x
    BY <2>1, <2>3, HistFacts
  <2>5. IsPrefix(h, g)
    BY <1>1, <1>2, <2>4, PrefixTrans
  <2>6. pending(g) => Reruns(g) = Reruns(h) + 1
    BY <1>2, <2>1, <2>2, <2>3 DEF pending
  <2>7. Last(g) # "completed"
    BY <2>2, <2>4
  <2>8. QED
    BY <2>4, <2>5, <2>6, <2>7 DEF g, f
<1>4. CASE ~(Last(f) = "interrupted" /\ ri)
  <2>1. g = f
    BY <1>4 DEF Again
  <2>2. Last(f) = "interrupted" => ~pending(f) /\ Last(f) # "completed"
    BY DEF pending
  <2> HIDE DEF g
  <2>3. QED
    BY <1>2, <2>1, <2>2 DEF g, f
<1>5. QED
  BY <1>3, <1>4

LEMMA ScanKeeps ==
  ASSUME RunInv, Scan
  PROVE  RunInv'
<1>1. /\ pc = "scan" /\ Quiet /\ io' = Checkpoint("scan")
      /\ UNCHANGED <<dir, cp, cpImages, files, unsafe, report, next, status, error, dec, given, pc>>
  BY DEF Scan, diskVars, decVars
<1>2. PICK ri \in BOOLEAN :
        items' = [i \in Items |-> Again(Interrupted(items[i], <<i, rerun(i)>>), ri)]
  BY DEF Scan
<1>3. items \in Histories /\ cp = items
  BY <1>1 DEF RunInv, Shape, Saved
<1>4. ASSUME NEW i \in Items
      PROVE  /\ items'[i] \in Hist /\ IsPrefix(items[i], items'[i])
             /\ Last(items'[i]) = "completed" => items'[i] = items[i]
  <2>1. items[i] \in Hist /\ items'[i] = Again(Interrupted(items[i], <<i, rerun(i)>>), ri)
    BY <1>2, <1>3, HistoriesFacts
  <2>2. QED
    BY <2>1, ScanOf
<1>5. items' \in Histories /\ Extends(items, items')
  BY <1>2, <1>4 DEF Histories, Extends
<1>6. io' \in Saving("scan") /\ io'.then = "scan" /\ io'.todo = <<CheckpointFile>> /\ io'.renamed = FALSE
  BY <1>1 DEF Saving, Checkpoint
<1>7. <<CheckpointFile>> # <<>>
  OBVIOUS
<1>8. Shape'
  BY <1>1, <1>5, <1>6 DEF RunInv, Shape
<1>9. Disk'
  BY <1>1, <1>3, <1>5 DEF RunInv, Disk
<1>10. Saved'
  <2>1. ~Quiet'
    BY <1>6 DEF Quiet
  <2>2. QED
    BY <1>1, <1>6, <1>7, <2>1 DEF Saved
<1>11. CasesKept'
  <2>1. Kept(items)
    BY <1>1 DEF RunInv, CasesKept
  <2>2. Kept(items)'
    BY <1>1, <1>4, <2>1 DEF Kept
  <2>3. QED
    BY <1>1, <1>6, <2>2 DEF RunInv, CasesKept, Kept
<1>12. Worked' /\ Covered'
  BY <1>1, <1>6 DEF RunInv, Worked, Covered
<1>13. ReportHonest'
  BY <1>1 DEF RunInv, ReportHonest
<1>14. QED
  BY <1>8, <1>9, <1>10, <1>11, <1>12, <1>13 DEF RunInv

LEMMA ScannedKeeps ==
  ASSUME RunInv, Scanned
  PROVE  RunInv'
<1>1. /\ UNCHANGED <<diskVars, items, next, status, error, given>> /\ io' = [then |-> "nothing"]
      /\ io.then = "scan"
      /\ \/ pc' = "probe" /\ io.todo = <<>> /\ dec' = [dec EXCEPT ![0] = "running"]
         \/ pc' = "ending" /\ dec' = dec
  BY DEF Scanned, Wrote, Failed, IoDone, runVars
<1>2. pc = "scan" /\ (pc' = "probe" => cpImages = {items})
  BY <1>1, IoAt DEF RunInv, Saved
<1>3. /\ Disk' /\ ReportHonest'
      /\ \A image \in cpImages' : image = NoFile \/ Kept(image)'
      /\ pc' # "down" => Kept(items)'
  BY <1>1, <1>2, FilesKept
<1>4. Quiet' /\ io'.then = "nothing"
  BY <1>1 DEF Quiet
<1>5. dec' \in [Slots -> DecStates] /\ \A i \in Items : dec'[i] = dec[i] /\ dec[i] = "none"
  <2>1. \A i \in Items : dec[i] = "none" /\ i # 0 /\ i \in Slots
    BY <1>2, ItemsFacts DEF RunInv, Worked
  <2>2. dec \in [Slots -> DecStates] /\ "running" \in DecStates
    BY DEF RunInv, Shape, DecStates
  <2>3. QED
    BY <1>1, <2>1, <2>2
<1>6. Shape'
  BY <1>1, <1>2, <1>4, <1>5 DEF RunInv, Shape, Places
<1>7. Saved'
  BY <1>1, <1>2, <1>4 DEF Saved, diskVars
<1>8. CasesKept'
  BY <1>3, <1>4 DEF CasesKept
<1>9. Worked' /\ Covered'
  BY <1>1, <1>4, <1>5 DEF Worked, Covered
<1>10. QED
  BY <1>3, <1>6, <1>7, <1>8, <1>9 DEF RunInv

(* What is left to write of a case.                                        *)
LEMMA RestFacts ==
  ASSUME NEW i \in Items, NEW k, NEW td \in Rest(i, k)
  PROVE  /\ td = <<>> => Todo(td) = {}
         /\ td # <<>> => /\ Head(td) \in FilesOf(i, k) /\ Tail(td) \in Rest(i, k)
                         /\ Todo(td) = {Head(td)} \cup Todo(Tail(td))
                         /\ Head(td) \notin {CheckpointFile, RunFile}
<1> DEFINE a == <<i, k, "live">>
           b == <<i, k, "run">>
           c == <<i, k, "case">>
<1>1. td \in {<<a, b, c>>, <<b, c>>, <<c>>, <<>>}
  BY DEF Rest
<1>2. {a, b, c} \subseteq FilesOf(i, k)
  BY DEF FilesOf, Kinds
<1>3. CheckpointFile \notin {a, b, c} /\ RunFile \notin {a, b, c}
  <2>1. a[1] = i /\ b[1] = i /\ c[1] = i /\ i # 0
    BY ItemsFacts
  <2>2. CheckpointFile[1] = 0 /\ RunFile[1] = 0
    BY DEF CheckpointFile, RunFile
  <2>3. QED
    BY <2>1, <2>2
<1> HIDE DEF a, b, c
<1>4. Todo(<<>>) = {}
  BY DEF Todo
<1>5. Todo(<<c>>) = {c}
  <2>1. Len(<<c>>) = 1 /\ 1..1 = {1} /\ <<c>>[1] = c
    OBVIOUS
  <2>2. QED
    BY <2>1 DEF Todo
<1>6. Todo(<<b, c>>) = {b, c}
  <2>1. Len(<<b, c>>) = 2 /\ 1..2 = {1, 2} /\ <<b, c>>[1] = b /\ <<b, c>>[2] = c
    OBVIOUS
  <2>2. QED
    BY <2>1 DEF Todo
<1>7. Todo(<<a, b, c>>) = {a, b, c}
  <2>1. Len(<<a, b, c>>) = 3 /\ 1..3 = {1, 2, 3}
        /\ <<a, b, c>>[1] = a /\ <<a, b, c>>[2] = b /\ <<a, b, c>>[3] = c
    OBVIOUS
  <2>2. QED
    BY <2>1 DEF Todo
<1>8. /\ Head(<<a, b, c>>) = a /\ Tail(<<a, b, c>>) = <<b, c>>
      /\ Head(<<b, c>>) = b /\ Tail(<<b, c>>) = <<c>>
      /\ Head(<<c>>) = c /\ Tail(<<c>>) = <<>>
  OBVIOUS
<1>9. <<b, c>> \in Rest(i, k) /\ <<c>> \in Rest(i, k) /\ <<>> \in Rest(i, k)
  BY DEF Rest, a, b, c
<1>10. CASE td = <<>>
  BY <1>4, <1>10
<1>11. CASE td = <<c>>
  BY <1>2, <1>3, <1>4, <1>5, <1>8, <1>9, <1>11
<1>12. CASE td = <<b, c>>
  BY <1>2, <1>3, <1>5, <1>6, <1>8, <1>9, <1>12
<1>13. CASE td = <<a, b, c>>
  BY <1>2, <1>3, <1>6, <1>7, <1>8, <1>9, <1>13
<1>14. QED
  BY <1>1, <1>10, <1>11, <1>12, <1>13

LEMMA FilesApart ==
  ASSUME NEW i \in Items, NEW j \in Items, i # j, NEW k, NEW m, NEW x \in FilesOf(i, k)
  PROVE  x \notin FilesOf(j, m)
<1>1. x[1] = i
  BY DEF FilesOf
<1>2. \A y \in FilesOf(j, m) : y[1] = j
  BY DEF FilesOf
<1>3. QED
  BY <1>1, <1>2

LEMMA TodoHead ==
  /\ Head(<<CheckpointFile>>) = CheckpointFile /\ Tail(<<CheckpointFile>>) = <<>>
  /\ Head(<<RunFile>>) = RunFile /\ Tail(<<RunFile>>) = <<>>
  /\ RunFile # CheckpointFile
<1>1. RunFile[3] = "live-run" /\ CheckpointFile[3] = "checkpoint"
  BY DEF RunFile, CheckpointFile
<1>2. QED
  BY <1>1

(* write_atomic: the rename.                                               *)
LEMMA RenameKeeps ==
  ASSUME RunInv, Rename
  PROVE  RunInv'
<1>1. /\ ~Quiet /\ io.todo # <<>> /\ ~io.renamed /\ io' = [io EXCEPT !.renamed = TRUE]
      /\ UNCHANGED <<dir, items, next, status, error, dec, given, pc>>
      /\ Shape
  BY DEF Rename, runVars, decVars, RunInv
<1>2. io.then \in {"prepare", "scan", "item", "case", "report"} /\ pc # "down"
  BY <1>1, IoAt DEF Shape
<1>3. items \in Histories /\ dir
  BY <1>2 DEF RunInv, Shape, Disk
<1>4. CASE io.then \in {"prepare", "scan", "item"}
  <2>1. io \in Saving(io.then)
    <3>1. CASE io.then = "prepare"
      BY <1>1, <3>1, IoAt
    <3>2. CASE io.then = "scan"
      BY <1>1, <3>2, IoAt
    <3>3. CASE io.then = "item"
      BY <1>1, <3>3, IoAt
    <3>4. QED
      BY <1>4, <3>1, <3>2, <3>3
  <2>2. io.todo = <<CheckpointFile>>
    BY <1>1, <2>1 DEF Saving
  <2>3. cp' = items /\ cpImages' = cpImages \cup {items} /\ UNCHANGED <<files, unsafe, report>>
    BY <2>2, TodoHead DEF Rename
  <2>4. io' \in Saving(io.then) /\ io'.then = io.then /\ io'.todo # <<>>
    BY <1>1, <2>1 DEF Saving
  <2>5. Shape'
    <3>1. \/ io.then = "prepare" /\ pc = "prepare"
          \/ io.then = "scan" /\ pc = "scan"
          \/ io.then = "item" /\ pc = "dispatch"
      BY <1>1, <1>4, IoAt
    <3>2. QED
      BY <1>1, <2>4, <3>1 DEF Shape
  <2>6. Disk'
    <3>1. ASSUME NEW image \in cpImages'
          PROVE  image = NoFile \/ (image \in Histories /\ Extends(image, items))
      <4>1. CASE image = items
        BY <1>3, <4>1, ExtendsFacts
      <4>2. CASE image \in cpImages
        <5>1. image = NoFile \/ (image \in Histories /\ Extends(image, cp) /\ cp # NoFile)
          BY <4>2 DEF RunInv, Disk
        <5>2. cp # NoFile => cp \in Histories /\ Extends(cp, items)
          BY <1>2 DEF RunInv, Disk
        <5>3. QED
          BY <1>3, <5>1, <5>2, ExtendsFacts
      <4>3. QED
        BY <2>3, <3>1, <4>1, <4>2
    <3>2. items # NoFile /\ Extends(items, items)
      BY <1>3, HistoriesFacts, ExtendsFacts
    <3>3. report' # NoFile => report'.items \in Histories
      BY <2>3 DEF RunInv, Disk
    <3>4. QED
      BY <1>1, <1>3, <2>3, <3>1, <3>2, <3>3 DEF Disk
  <2>7. Saved'
    <3>1. ~Quiet' /\ pc # "probe" /\ pc # "report" /\ pc # "open"
          /\ (pc = "dispatch" => io.then = "item")
      <4>1. io'.then # "nothing"
        BY <1>4, <2>4
      <4>2. QED
        BY <1>1, <1>4, <4>1, IoAt DEF Quiet
    <3>2. QED
      BY <1>1, <2>3, <2>4, <3>1 DEF Saved
  <2>8. CasesKept'
    <3>1. \A image \in cpImages' : image = NoFile \/ Kept(image)
      BY <1>2, <2>3 DEF RunInv, CasesKept
    <3>2. Kept(items)
      BY <1>2 DEF RunInv, CasesKept
    <3>3. io'.then # "case"
      BY <1>4, <2>4
    <3>4. QED
      BY <1>1, <2>3, <3>1, <3>2, <3>3 DEF CasesKept, Kept
  <2>9. Worked' /\ Covered'
    BY <1>1, <1>4, <2>4 DEF RunInv, Worked, Covered, InCase
  <2>10. ReportHonest'
    <3> SUFFICES ASSUME report # NoFile, NEW i \in Items
                 PROVE  IsPrefix(report.items[i], items[i])
      <4>1. items # NoFile
        BY <1>3, HistoriesFacts
      <4>2. QED
        BY <2>3, <4>1 DEF RunInv, ReportHonest
    <3>1. cp # NoFile /\ IsPrefix(report.items[i], cp[i]) /\ cp \in Histories
          /\ IsPrefix(cp[i], items[i]) /\ report.items \in Histories
      BY <1>2 DEF RunInv, ReportHonest, Disk, Extends
    <3>2. report.items[i] \in Seq(Words) /\ cp[i] \in Seq(Words) /\ items[i] \in Seq(Words)
      BY <1>3, <3>1, HistoriesFacts
    <3>3. QED
      BY <3>1, <3>2, PrefixTrans
  <2>11. QED
    BY <2>5, <2>6, <2>7, <2>8, <2>9, <2>10 DEF RunInv
<1>5. CASE io.then = "report"
  <2>1. io \in Reporting /\ pc = "report"
    BY <1>1, <1>5, IoAt
  <2>2. io.todo = <<RunFile>>
    BY <1>1, <2>1 DEF Reporting
  <2>3. report' = [status |-> status, items |-> items] /\ UNCHANGED <<cp, cpImages, files, unsafe>>
    BY <2>2, TodoHead DEF Rename
  <2>4. io' \in Reporting /\ io'.then = "report"
    BY <1>1, <2>1 DEF Reporting
  <2>5. Shape'
    BY <1>1, <2>1, <2>4 DEF Shape
  <2>6. cpImages = {items} /\ ~error
    BY <1>5, <2>1 DEF RunInv, Shape, Saved
  <2>7. Disk'
    BY <1>1, <1>3, <2>3 DEF RunInv, Disk
  <2>8. Saved'
    BY <1>1, <2>1, <2>3, <2>4, <2>6 DEF Saved
  <2>9. CasesKept'
    BY <1>1, <2>3, <2>4 DEF RunInv, CasesKept, Kept
  <2>10. Worked' /\ Covered'
    BY <1>1, <1>5, <2>4 DEF RunInv, Worked, Covered, InCase
  <2>11. ReportHonest'
    <3> SUFFICES ASSUME NEW i \in Items
                 PROVE  /\ items # NoFile /\ IsPrefix(items[i], items[i])
                        /\ status = "evaluated" => ~pending(items[i])
      BY <2>3, <2>6 DEF ReportHonest
    <3>1. items # NoFile /\ IsPrefix(items[i], items[i])
      BY <1>3, HistoriesFacts, PrefixRefl
    <3>2. ASSUME status = "evaluated"
          PROVE  ~pending(items[i])
      <4>1. next > N /\ next \in Nat /\ i \in Nat /\ i <= N /\ N \in Nat
        BY <2>1, <3>2, ItemsFacts DEF RunInv, Covered, Shape
      <4>2. i < next
        BY <4>1
      <4>3. dec[i] = "none" /\ ~InCase(i)
        BY <1>5, <2>1 DEF RunInv, Worked, InCase
      <4>4. QED
        BY <2>1, <2>6, <4>2, <4>3 DEF RunInv, Covered
    <3>3. QED
      BY <3>1, <3>2
  <2>12. QED
    BY <2>5, <2>7, <2>8, <2>9, <2>10, <2>11 DEF RunInv
<1>6. CASE io.then = "case"
  <2> DEFINE i == io.slot
             k == rerun(i)
             x == Head(io.todo)
  <2>1. i \in Items /\ io \in CaseOf(i) /\ pc = "dispatch"
    BY <1>1, <1>6, IoAt
  <2>2. io.todo \in Rest(i, k)
    BY <2>1 DEF CaseOf
  <2>3. x \in FilesOf(i, k) /\ Todo(io.todo) = {x} \cup Todo(Tail(io.todo))
        /\ x \notin {CheckpointFile, RunFile}
    BY <1>1, <2>1, <2>2, RestFacts
  <2>4. files' = files \cup {x} /\ unsafe' = unsafe \cup {x} /\ UNCHANGED <<cp, cpImages, report>>
    BY <2>3 DEF Rename
  <2>5. /\ io' \in CaseOf(i) /\ io'.then = "case" /\ io'.slot = i /\ io'.todo = io.todo
        /\ io'.renamed = TRUE
    BY <1>1, <2>1 DEF CaseOf
  <2>6. Shape'
    <3>1. SavingCase' = SavingCase
      BY <1>1 DEF SavingCase, CaseOf, rerun
    <3>2. io' \in SavingCase
      BY <2>1, <2>5 DEF SavingCase
    <3>3. QED
      BY <1>1, <2>1, <3>1, <3>2 DEF Shape
  <2>7. Disk' /\ ReportHonest'
    BY <1>1, <2>4 DEF RunInv, Disk, ReportHonest
  <2>8. Saved'
    <3>1. cpImages = {items} \/ error
      BY <1>6, <2>1 DEF RunInv, Saved
    <3>2. QED
      BY <1>1, <2>1, <2>4, <2>5, <3>1 DEF Saved
  <2>9. pending(items[i]) /\ dec[i] = "none"
    BY <1>6 DEF RunInv, Worked
  <2>10. Last(items[i]) # "completed"
    BY <2>9 DEF pending
  <2>11. ASSUME NEW image \in Histories, Extends(image, items), Kept(image)
         PROVE  Kept(image)'
    <3> SUFFICES ASSUME NEW j \in Items, Last(image[j]) = "completed"
                 PROVE  FilesOf(j, Reruns(image[j])) \subseteq files' \ unsafe'
      BY DEF Kept
    <3>1. j # i
      <4>1. image[i] \in Hist /\ items[i] \in Hist /\ IsPrefix(image[i], items[i])
        BY <1>3, <2>1, <2>11, HistoriesFacts DEF Extends
      <4>2. Last(image[i]) # "completed"
        BY <2>10, <4>1, NotCompleted
      <4>3. QED
        BY <4>2
    <3>2. x \notin FilesOf(j, Reruns(image[j]))
      BY <2>1, <2>3, <3>1, FilesApart
    <3>3. FilesOf(j, Reruns(image[j])) \subseteq files \ unsafe
      BY <2>11 DEF Kept
    <3>4. QED
      BY <2>4, <3>2, <3>3
  <2>12. CasesKept'
    <3>1. ASSUME NEW image \in cpImages, image # NoFile
          PROVE  Kept(image)'
      <4>1. image \in Histories /\ Extends(image, cp) /\ cp \in Histories /\ Extends(cp, items) /\ Kept(image)
        BY <1>2, <3>1 DEF RunInv, Disk, CasesKept
      <4>2. Extends(image, items)
        BY <1>3, <4>1, ExtendsFacts
      <4>3. QED
        BY <2>11, <4>1, <4>2
    <3>2. Kept(items)'
      <4>1. Kept(items) /\ Extends(items, items)
        BY <1>2, <1>3, ExtendsFacts DEF RunInv, CasesKept
      <4>2. \A j \in Items : Last(items[j]) = "completed" =>
              FilesOf(j, Reruns(items[j])) \subseteq files' \ unsafe'
        <5> SUFFICES ASSUME NEW j \in Items, Last(items[j]) = "completed"
                     PROVE  FilesOf(j, Reruns(items[j])) \subseteq files' \ unsafe'
          OBVIOUS
        <5>1. j # i
          BY <2>10
        <5>2. x \notin FilesOf(j, Reruns(items[j]))
          BY <2>1, <2>3, <5>1, FilesApart
        <5>3. FilesOf(j, Reruns(items[j])) \subseteq files \ unsafe
          BY <4>1 DEF Kept
        <5>4. QED
          BY <2>4, <5>2, <5>3
      <4>3. QED
        BY <1>1, <4>2 DEF Kept
    <3>3. FilesOf(i, k) \ Todo(io.todo) \subseteq files \ unsafe
      BY <1>6 DEF RunInv, CasesKept
    <3>4. FilesOf(i, k) \ Todo(io.todo) \subseteq files' \ unsafe'
      BY <2>3, <2>4, <3>3
    <3>5. rerun(i)' = k
      BY <1>1, <2>5 DEF rerun
    <3>6. x \in files'
      BY <2>4
    <3> HIDE DEF k, x
    <3>7. /\ \A image \in cpImages' : image = NoFile \/ Kept(image)'
          /\ FilesOf(io'.slot, rerun(i)') \ Todo(io'.todo) \subseteq files' \ unsafe'
          /\ Head(io'.todo) \in files'
      BY <2>4, <2>5, <3>1, <3>4, <3>5, <3>6 DEF x
    <3>8. rerun(io.slot)' = rerun(i)'
      BY DEF rerun
    <3>9. QED
      BY <3>2, <3>7, <3>8 DEF CasesKept
  <2>13. Worked' /\ Covered'
    BY <1>1, <1>6, <2>5 DEF RunInv, Worked, Covered, InCase
  <2>14. QED
    BY <2>6, <2>7, <2>8, <2>12, <2>13 DEF RunInv
<1>7. QED
  BY <1>2, <1>4, <1>5, <1>6

(* write_atomic: the sync of the directory.                                *)
LEMMA DirSyncKeeps ==
  ASSUME RunInv, DirSync
  PROVE  RunInv'
<1>1. /\ ~Quiet /\ io.todo # <<>> /\ io.renamed /\ io' = [io EXCEPT !.todo = Tail(@), !.renamed = FALSE]
      /\ UNCHANGED <<dir, cp, files, report, items, next, status, error, dec, given, pc>>
      /\ Shape
  BY DEF DirSync, runVars, decVars, RunInv
<1>2. io.then \in {"prepare", "scan", "item", "case", "report"} /\ pc # "down"
  BY <1>1, IoAt DEF Shape
<1>3. items \in Histories /\ dir
  BY <1>2 DEF RunInv, Shape, Disk
<1>4. ASSUME cpImages' = {cp}, unsafe' = unsafe, io'.then # "case", io.then # "case"
      PROVE  Disk' /\ CasesKept' /\ ReportHonest' /\ Worked' /\ Covered'
  <2>1. cp \in cpImages
    BY DEF RunInv, Disk
  <2>2. Disk'
    BY <1>1, <1>4, <2>1 DEF RunInv, Disk
  <2>3. CasesKept'
    BY <1>1, <1>4, <2>1 DEF RunInv, CasesKept, Kept
  <2>4. ReportHonest'
    BY <1>1, <1>4, <2>1 DEF RunInv, ReportHonest
  <2>5. Worked' /\ Covered'
    BY <1>1, <1>4 DEF RunInv, Worked, Covered, InCase
  <2>6. QED
    BY <2>2, <2>3, <2>4, <2>5
<1>5. CASE io.then \in {"prepare", "scan", "item"}
  <2>1. io \in Saving(io.then)
    <3>1. CASE io.then = "prepare"
      BY <1>1, <3>1, IoAt
    <3>2. CASE io.then = "scan"
      BY <1>1, <3>2, IoAt
    <3>3. CASE io.then = "item"
      BY <1>1, <3>3, IoAt
    <3>4. QED
      BY <1>5, <3>1, <3>2, <3>3
  <2>2. io.todo = <<CheckpointFile>>
    BY <1>1, <2>1 DEF Saving
  <2>3. cpImages' = {cp} /\ unsafe' = unsafe
    BY <2>2, TodoHead DEF DirSync
  <2>4. io' \in Saving(io.then) /\ io'.then = io.then
    BY <1>1, <2>1, <2>2, TodoHead DEF Saving
  <2>5. \/ io.then = "prepare" /\ pc = "prepare"
        \/ io.then = "scan" /\ pc = "scan"
        \/ io.then = "item" /\ pc = "dispatch"
    BY <1>1, <1>5, IoAt
  <2>6. Shape'
    BY <1>1, <2>4, <2>5 DEF Shape
  <2>7. cp = items
    BY <1>1, <1>5 DEF RunInv, Saved
  <2>8. Saved'
    <3>1. ~Quiet'
      <4>1. io'.then # "nothing"
        BY <1>5, <2>4
      <4>2. QED
        BY <4>1 DEF Quiet
    <3>2. QED
      BY <1>1, <2>3, <2>4, <2>5, <2>7, <3>1 DEF Saved
  <2>9. QED
    BY <1>4, <1>5, <2>3, <2>4, <2>6, <2>8 DEF RunInv
<1>6. CASE io.then = "report"
  <2>1. io \in Reporting /\ pc = "report"
    BY <1>1, <1>6, IoAt
  <2>2. io.todo = <<RunFile>>
    BY <1>1, <2>1 DEF Reporting
  <2>3. cpImages' = {cp} /\ unsafe' = unsafe
    BY <2>2, TodoHead DEF DirSync
  <2>4. io' \in Reporting /\ io'.then = "report"
    BY <1>1, <2>1, <2>2, TodoHead DEF Reporting
  <2>5. Shape'
    BY <1>1, <2>1, <2>4 DEF Shape
  <2>6. cpImages = {items} /\ cp \in cpImages
    BY <1>6, <2>1 DEF RunInv, Shape, Saved, Disk
  <2>7. Saved'
    BY <1>1, <2>1, <2>3, <2>4, <2>6 DEF Saved
  <2>8. QED
    BY <1>4, <1>6, <2>3, <2>4, <2>5, <2>7 DEF RunInv
<1>7. CASE io.then = "case"
  <2> DEFINE i == io.slot
             k == rerun(i)
             x == Head(io.todo)
  <2>1. i \in Items /\ io \in CaseOf(i) /\ pc = "dispatch"
    BY <1>1, <1>7, IoAt
  <2>2. io.todo \in Rest(i, k)
    BY <2>1 DEF CaseOf
  <2>3. x \in FilesOf(i, k) /\ Todo(io.todo) = {x} \cup Todo(Tail(io.todo))
        /\ x \notin {CheckpointFile, RunFile} /\ Tail(io.todo) \in Rest(i, k)
    BY <1>1, <2>1, <2>2, RestFacts
  <2>4. unsafe' = {} /\ UNCHANGED cpImages
    BY <2>3 DEF DirSync
  <2>5. /\ io' \in CaseOf(i) /\ io'.then = "case" /\ io'.slot = i /\ io'.todo = Tail(io.todo)
        /\ io'.renamed = FALSE
    BY <1>1, <2>1, <2>3 DEF CaseOf
  <2>6. Shape'
    <3>1. SavingCase' = SavingCase
      BY <1>1 DEF SavingCase, CaseOf, rerun
    <3>2. io' \in SavingCase
      BY <2>1, <2>5 DEF SavingCase
    <3>3. QED
      BY <1>1, <2>1, <3>1, <3>2 DEF Shape
  <2>7. Disk' /\ ReportHonest'
    BY <1>1, <2>4 DEF RunInv, Disk, ReportHonest
  <2>8. Saved'
    <3>1. cpImages = {items} \/ error
      BY <1>7, <2>1 DEF RunInv, Saved
    <3>2. QED
      BY <1>1, <2>1, <2>4, <2>5, <3>1 DEF Saved
  <2>9. CasesKept'
    <3>1. files \ unsafe \subseteq files' \ unsafe'
      BY <1>1, <2>4
    <3>2. \A image : Kept(image) => \A j \in Items : Last(image[j]) = "completed" =>
            FilesOf(j, Reruns(image[j])) \subseteq files' \ unsafe'
      BY <3>1 DEF Kept
    <3>3. \A image \in cpImages' : image = NoFile \/ Kept(image)'
      BY <2>4, <3>2 DEF RunInv, CasesKept, Kept
    <3>4. Kept(items)'
      BY <1>1, <1>2, <3>2 DEF RunInv, CasesKept, Kept
    <3>5. FilesOf(i, k) \ Todo(io.todo) \subseteq files \ unsafe /\ x \in files
      BY <1>1, <1>7 DEF RunInv, CasesKept
    <3>6. FilesOf(i, k) \ Todo(Tail(io.todo)) \subseteq files' \ unsafe'
      BY <1>1, <2>3, <2>4, <3>5
    <3>7. rerun(i)' = k
      BY <1>1, <2>5 DEF rerun
    <3> HIDE DEF k, x
    <3>8. FilesOf(io'.slot, rerun(i)') \ Todo(io'.todo) \subseteq files' \ unsafe'
      BY <2>5, <3>6, <3>7
    <3>9. rerun(io.slot)' = rerun(i)'
      BY DEF rerun
    <3>10. QED
      BY <2>5, <3>3, <3>4, <3>8, <3>9 DEF CasesKept
  <2>10. Worked' /\ Covered'
    BY <1>1, <1>7, <2>5 DEF RunInv, Worked, Covered, InCase
  <2>11. QED
    BY <2>6, <2>7, <2>8, <2>9, <2>10 DEF RunInv
<1>8. QED
  BY <1>2, <1>5, <1>6, <1>7

(* The probe's end.                                                        *)
LEMMA ProbeEndsKeeps ==
  ASSUME RunInv, NEW probe_only \in BOOLEAN, ProbeEnds(probe_only)
  PROVE  RunInv'
<1>1. /\ pc = "probe" /\ Quiet /\ dec' = [dec EXCEPT ![0] = "none"]
      /\ UNCHANGED <<diskVars, items, next, given, io>>
      /\ \/ /\ pc' = (IF status' = "evaluated" THEN "dispatch" ELSE "report") /\ UNCHANGED error
         \/ pc' = "ending" /\ error' = TRUE
  BY DEF ProbeEnds, Clear
<1>2. next = 1 /\ ~error /\ cpImages = {items} /\ dec \in [Slots -> DecStates] /\ error \in BOOLEAN
  BY <1>1 DEF RunInv, Shape, Saved
<1>3. io.then = "nothing"
  BY <1>1, IoAt DEF RunInv
<1>4. \A i \in Items : dec[i] = "none" /\ i # 0 /\ i \in Slots /\ ~(i < 1)
  <2>1. \A i \in Items : dec[i] = "none"
    BY <1>1 DEF RunInv, Worked
  <2>2. QED
    BY <2>1, ItemsFacts
<1>5. dec' \in [Slots -> DecStates] /\ \A i \in Items : dec'[i] = "none"
  <2>1. "none" \in DecStates
    BY DEF DecStates
  <2>2. QED
    BY <1>1, <1>2, <1>4, <2>1
<1>6. /\ Disk' /\ ReportHonest'
      /\ \A image \in cpImages' : image = NoFile \/ Kept(image)'
      /\ pc' # "down" => Kept(items)'
  BY <1>1, FilesKept
<1>7. Quiet'
  BY <1>1 DEF Quiet
<1>8. Shape'
  <2>1. pc' \in {"dispatch", "report", "ending"} /\ error' \in BOOLEAN /\ (pc' = "report" => ~error')
    <3>1. CASE pc' = "ending" /\ error' = TRUE
      BY <3>1
    <3>2. CASE pc' = (IF status' = "evaluated" THEN "dispatch" ELSE "report") /\ error' = error
      BY <1>2, <3>2
    <3>3. QED
      BY <1>1, <3>1, <3>2
  <2>2. items \in Histories /\ given \in Given /\ next \in 1..(N + 1)
    BY <1>1 DEF RunInv, Shape
  <2>3. QED
    BY <1>1, <1>5, <1>7, <2>1, <2>2 DEF Shape, Places
<1>9. Saved'
  BY <1>1, <1>2, <1>3 DEF Saved, diskVars
<1>10. CasesKept'
  BY <1>1, <1>3, <1>6 DEF CasesKept
<1>11. Worked'
  BY <1>1, <1>3, <1>5 DEF Worked
<1>12. Covered'
  BY <1>1, <1>2, <1>4 DEF Covered
<1>13. QED
  BY <1>6, <1>8, <1>9, <1>10, <1>11, <1>12 DEF RunInv

(* dispatch: an item's state is recorded, and its checkpoint is to be saved. *)
LEMMA PushKeeps ==
  ASSUME RunInv, pc = "dispatch", UNCHANGED <<diskVars, given, error, pc>>,
         NEW i \in Items, pending(items[i]), NEW st \in Words \ {"pending", "rerun"},
         Push(i, st), io' = Checkpoint("item"), io.then = "nothing" \/ InCase(i),
         st = "completed" => FilesOf(i, rerun(i)) \subseteq files \ unsafe,
         dec' \in [Slots -> DecStates], dec'[i] = "none",
         \A j \in Items : j # i => dec'[j] = dec[j],
         next' \in 1..(N + 1), next <= next', \A j \in Items : j < next' => j < next \/ j = i
  PROVE  RunInv'
<1>1. UNCHANGED <<dir, cp, cpImages, files, unsafe, report, given, error, pc>>
  BY DEF diskVars
<1>2. items \in Histories
  BY DEF RunInv, Shape
<1>3. Last(items[i]) # "completed" /\ st \in Words
  BY DEF pending
<1>4. /\ items' \in Histories /\ Extends(items, items') /\ Last(items'[i]) = st
      /\ Reruns(items'[i]) = Reruns(items[i])
      /\ \A j \in Items : j # i => items'[j] = items[j]
  BY <1>2, <1>3, PushFacts
<1>5. io' \in Saving("item") /\ io'.then = "item" /\ io'.todo = <<CheckpointFile>> /\ io'.renamed = FALSE
  BY DEF Saving, Checkpoint
<1>6. <<CheckpointFile>> # <<>>
  OBVIOUS
<1>7. ~pending(items'[i])
  BY <1>4 DEF pending
<1>8. Shape'
  BY <1>1, <1>4, <1>5 DEF RunInv, Shape
<1>9. Disk'
  <2>1. cp # NoFile => Extends(cp, items')
    <3>1. cp # NoFile => cp \in Histories /\ Extends(cp, items)
      BY DEF RunInv, Disk
    <3>2. QED
      BY <1>2, <1>4, <3>1, ExtendsFacts
  <2>2. QED
    BY <1>1, <2>1 DEF RunInv, Disk
<1>10. Saved'
  BY <1>1, <1>5, <1>6 DEF Saved
<1>11. CasesKept'
  <2>1. ASSUME NEW j \in Items, Last(items'[j]) = "completed"
        PROVE  FilesOf(j, Reruns(items'[j])) \subseteq files \ unsafe
    <3>1. CASE j = i
      BY <1>4, <2>1, <3>1 DEF rerun
    <3>2. CASE j # i
      BY <1>4, <2>1, <3>2 DEF RunInv, CasesKept, Kept
    <3>3. QED
      BY <3>1, <3>2
  <2>2. Kept(items)'
    BY <1>1, <2>1 DEF Kept
  <2>3. \A image \in cpImages' : image = NoFile \/ Kept(image)'
    BY <1>1 DEF RunInv, CasesKept, Kept
  <2>4. QED
    BY <1>5, <2>2, <2>3 DEF CasesKept
<1>12. Worked'
  <2>1. ASSUME NEW j \in Items, dec'[j] # "none"
        PROVE  pc' \in {"dispatch", "ending"} /\ pending(items'[j])
    <3>1. j # i /\ dec[j] # "none"
      BY <2>1
    <3>2. QED
      BY <1>1, <1>4, <3>1 DEF RunInv, Worked
  <2>2. ASSUME NEW j \in Items, j >= next'
        PROVE  dec'[j] = "none"
    <3>1. j >= next
      BY <2>2, ItemsFacts DEF RunInv, Shape
    <3>2. QED
      BY <3>1 DEF RunInv, Worked
  <2>3. QED
    BY <1>5, <2>1, <2>2 DEF Worked
<1>13. Covered'
  <2>1. ASSUME NEW j \in Items, j < next', ~error'
        PROVE  ~pending(items'[j]) \/ dec'[j] # "none"
    <3>1. CASE j = i
      BY <1>7, <3>1
    <3>2. CASE j # i
      <4>1. j < next /\ ~InCase(j) /\ ~error
        BY <1>1, <2>1, <3>2 DEF InCase
      <4>2. QED
        BY <1>4, <3>2, <4>1 DEF RunInv, Covered
    <3>3. QED
      BY <3>1, <3>2
  <2>2. QED
    BY <1>1, <2>1 DEF Covered
<1>14. ReportHonest'
  BY <1>1 DEF RunInv, ReportHonest
<1>15. QED
  BY <1>8, <1>9, <1>10, <1>11, <1>12, <1>13, <1>14 DEF RunInv

LEMMA NextFacts ==
  ASSUME Shape, next <= N
  PROVE  /\ next \in Items /\ next + 1 \in 1..(N + 1) /\ next <= next + 1
         /\ \A j \in Items : j < next + 1 => j < next \/ j = next
BY ItemsFacts DEF Shape, Items

LEMMA SetAsideKeeps ==
  ASSUME RunInv, SetAside
  PROVE  RunInv'
<1>1. /\ pc = "dispatch" /\ Quiet /\ next <= N /\ pending(items[next])
      /\ given[next] # "runs" /\ Push(next, given[next])
      /\ next' = next + 1 /\ io' = Checkpoint("item")
      /\ UNCHANGED <<diskVars, given, error, pc, dec>> /\ Shape
  BY DEF SetAside, Loop, decVars, RunInv
<1>2. /\ next \in Items /\ next' \in 1..(N + 1) /\ next <= next'
      /\ \A j \in Items : j < next' => j < next \/ j = next
  BY <1>1, NextFacts
<1>3. given[next] \in {"unavailable", "refused"}
  <2>1. given \in [1..N -> {"runs", "unavailable", "refused"}]
    BY <1>1, LiveAssumption DEF Shape
  <2>2. given[next] \in {"runs", "unavailable", "refused"}
    BY <1>2, <2>1 DEF Items
  <2>3. QED
    BY <1>1, <2>2
<1>4. given[next] \in Words \ {"pending", "rerun"} /\ given[next] # "completed"
  BY <1>3 DEF Words
<1>5. io.then = "nothing" /\ dec' \in [Slots -> DecStates]
  BY <1>1, IoAt DEF Shape
<1>6. dec'[next] = "none"
  <2>1. next >= next
    BY <1>2, ItemsFacts
  <2>2. QED
    BY <1>1, <1>2, <2>1 DEF RunInv, Worked
<1>7. QED
  BY <1>1, <1>2, <1>4, <1>5, <1>6, PushKeeps

(* dispatch: steps that leave the files and the states of the items alone. *)
LEMMA LoopKeeps ==
  ASSUME RunInv, pc = "dispatch", UNCHANGED <<diskVars, items, given, error, pc, io>>,
         io.then = "nothing",
         next' \in 1..(N + 1), next <= next', dec' \in [Slots -> DecStates],
         \A j \in Items : dec'[j] # "none" => dec[j] # "none" \/ (pending(items[j]) /\ j < next'),
         \A j \in Items : j < next' => (dec[j] # "none" => dec'[j] # "none"),
         \A j \in Items : j < next' => j < next \/ ~pending(items[j]) \/ dec'[j] # "none"
  PROVE  RunInv'
<1>1. UNCHANGED <<dir, cp, cpImages, files, unsafe, report, items, given, error, pc, io>>
  BY DEF diskVars
<1>2. /\ Disk' /\ ReportHonest'
      /\ \A image \in cpImages' : image = NoFile \/ Kept(image)'
      /\ pc' # "down" => Kept(items)'
  BY FilesKept
<1>3. Quiet /\ Quiet'
  BY <1>1, IoAt DEF RunInv, Quiet
<1>4. Shape'
  BY <1>1, <1>3 DEF RunInv, Shape
<1>5. Saved'
  BY <1>1, <1>3 DEF RunInv, Saved
<1>6. CasesKept'
  BY <1>1, <1>2 DEF CasesKept
<1>7. Worked'
  <2>1. ASSUME NEW j \in Items, dec'[j] # "none"
        PROVE  pc' \in {"dispatch", "ending"} /\ pending(items'[j])
    BY <1>1, <2>1 DEF RunInv, Worked
  <2>2. ASSUME NEW j \in Items, j >= next'
        PROVE  dec'[j] = "none"
    <3>1. j >= next /\ ~(j < next')
      BY <2>2, ItemsFacts DEF RunInv, Shape
    <3>2. QED
      BY <3>1 DEF RunInv, Worked
  <2>3. QED
    BY <1>1, <2>1, <2>2 DEF Worked
<1>8. Covered'
  <2>1. ASSUME NEW j \in Items, j < next', ~error'
        PROVE  ~pending(items'[j]) \/ dec'[j] # "none"
    <3>1. ~InCase(j) /\ ~error
      BY <1>1, <2>1 DEF InCase
    <3>2. QED
      BY <1>1, <2>1, <3>1 DEF RunInv, Covered
  <2>2. QED
    BY <1>1, <2>1 DEF Covered
<1>9. QED
  BY <1>2, <1>4, <1>5, <1>6, <1>7, <1>8 DEF RunInv

LEMMA SkipAdmitObserveKeeps ==
  ASSUME RunInv, Skip \/ Admit \/ Observe
  PROVE  RunInv'
<1>1. /\ Shape /\ dec \in [Slots -> DecStates] /\ next \in 1..(N + 1) /\ next <= next
      /\ \A j \in Items : j \in Slots
  BY ItemsFacts DEF RunInv, Shape
<1>2. CASE Skip
  <2>1. /\ pc = "dispatch" /\ Quiet /\ next <= N /\ ~pending(items[next]) /\ next' = next + 1
        /\ UNCHANGED <<diskVars, items, given, error, pc, io, dec>>
    BY <1>2 DEF Skip, Loop, decVars
  <2>2. io.then = "nothing"
    BY <1>1, <2>1, IoAt
  <2>3. /\ next \in Items /\ next' \in 1..(N + 1) /\ next <= next'
        /\ \A j \in Items : j < next' => j < next \/ j = next
    BY <1>1, <2>1, NextFacts
  <2>4. \A j \in Items : j < next' => j < next \/ ~pending(items[j]) \/ dec'[j] # "none"
    BY <2>1, <2>3
  <2>5. QED
    BY <1>1, <2>1, <2>2, <2>3, <2>4, LoopKeeps
<1>3. CASE Admit
  <2>1. /\ pc = "dispatch" /\ Quiet /\ next <= N /\ pending(items[next]) /\ next' = next + 1
        /\ dec' = [dec EXCEPT ![next] = "running"]
        /\ UNCHANGED <<diskVars, items, given, error, pc, io>>
    BY <1>3 DEF Admit, Loop
  <2>2. io.then = "nothing"
    BY <1>1, <2>1, IoAt
  <2>3. /\ next \in Items /\ next' \in 1..(N + 1) /\ next <= next'
        /\ \A j \in Items : j < next' => j < next \/ j = next
    BY <1>1, <2>1, NextFacts
  <2>4. /\ dec' \in [Slots -> DecStates] /\ dec'[next] = "running"
        /\ \A j \in Items : j # next => dec'[j] = dec[j]
    <3>1. "running" \in DecStates
      BY DEF DecStates
    <3>2. QED
      BY <1>1, <2>1, <2>3, <3>1
  <2>5. next < next'
    BY <1>1, <2>1
  <2>6. \A j \in Items : j < next' => j < next \/ ~pending(items[j]) \/ dec'[j] # "none"
    BY <2>3, <2>4
  <2>7. \A j \in Items : dec'[j] # "none" => dec[j] # "none" \/ (pending(items[j]) /\ j < next')
    BY <2>1, <2>3, <2>4, <2>5
  <2>8. \A j \in Items : j < next' => (dec[j] # "none" => dec'[j] # "none")
    BY <2>3, <2>4
  <2>9. QED
    BY <1>1, <2>1, <2>2, <2>3, <2>4, <2>6, <2>7, <2>8, LoopKeeps
<1>4. CASE Observe
  <2>1. /\ pc = "dispatch" /\ Quiet
        /\ UNCHANGED <<diskVars, items, given, error, pc, io, dec, next>>
    BY <1>4 DEF Observe, decVars
  <2>2. io.then = "nothing"
    BY <1>1, <2>1, IoAt
  <2>3. QED
    BY <1>1, <2>1, <2>2, LoopKeeps
<1>5. QED
  BY <1>2, <1>3, <1>4

LEMMA CollectKeeps ==
  ASSUME RunInv, NEW i \in Items, Collect(i)
  PROVE  RunInv'
<1>1. /\ pc = "dispatch" /\ Quiet /\ dec[i] = "ended" /\ dec' = [dec EXCEPT ![i] = "none"]
      /\ UNCHANGED <<diskVars, next, error, given, pc>> /\ Shape
  BY DEF Collect, Clear, RunInv
<1>2. io.then = "nothing" /\ pending(items[i]) /\ items \in Histories
  BY <1>1, IoAt DEF RunInv, Worked, Shape
<1>3. /\ dec' \in [Slots -> DecStates] /\ dec'[i] = "none" /\ dec \in [Slots -> DecStates]
      /\ \A j \in Items : j # i => dec'[j] = dec[j]
  <2>1. dec \in [Slots -> DecStates] /\ "none" \in DecStates /\ i \in Slots
    BY <1>1, ItemsFacts DEF Shape, DecStates
  <2>2. QED
    BY <1>1, <2>1, ItemsFacts
<1>4. next' \in 1..(N + 1) /\ next <= next' /\ \A j \in Items : j < next' => j < next \/ j = i
  BY <1>1 DEF Shape
<1>5. ASSUME NEW st \in {"refused", "interrupted"}, Push(i, st), io' = Checkpoint("item")
      PROVE  RunInv'
  <2>1. st \in Words \ {"pending", "rerun"} /\ st # "completed"
    BY DEF Words
  <2>2. QED
    BY <1>1, <1>2, <1>3, <1>4, <1>5, <2>1, PushKeeps
<1>6. ASSUME NEW r \in {"output", "source", "spend+source"},
             io' = CaseFiles(i, rerun(i), r, "case"), items' = items
      PROVE  RunInv'
  <2>1. UNCHANGED <<dir, cp, cpImages, files, unsafe, report, next, error, given, pc, items>>
    BY <1>1, <1>6 DEF diskVars
  <2>2. /\ Disk' /\ ReportHonest'
        /\ \A image \in cpImages' : image = NoFile \/ Kept(image)'
        /\ pc' # "down" => Kept(items)'
    BY <1>1, <1>6, FilesKept
  <2>3. /\ io'.then = "case" /\ io'.slot = i /\ io'.renamed = FALSE
        /\ io'.todo = <<<<i, rerun(i), "live">>, <<i, rerun(i), "run">>, <<i, rerun(i), "case">>>>
        /\ io' \in CaseOf(i)
    BY <1>6 DEF CaseFiles, CaseOf, Rest
  <2>4. Shape'
    <3>1. SavingCase' = SavingCase
      BY <2>1 DEF SavingCase, CaseOf, rerun
    <3>2. io' \in SavingCase
      BY <2>3 DEF SavingCase
    <3>3. QED
      BY <1>1, <1>3, <2>1, <3>1, <3>2 DEF Shape
  <2>5. Saved'
    <3>1. error \/ cpImages = {items}
      BY <1>1, <1>2 DEF RunInv, Saved
    <3>2. QED
      BY <1>1, <2>1, <2>3, <3>1 DEF Saved
  <2>6. CasesKept'
    <3>1. FilesOf(i, rerun(i)) \subseteq Todo(io'.todo)
      <4> DEFINE a == <<i, rerun(i), "live">>
                 b == <<i, rerun(i), "run">>
                 c == <<i, rerun(i), "case">>
      <4>1. FilesOf(i, rerun(i)) = {a, b, c}
        BY DEF FilesOf, Kinds
      <4>2. io'.todo = <<a, b, c>>
        BY <2>3
      <4> HIDE DEF a, b, c
      <4>3. 1 \in 1..Len(<<a, b, c>>) /\ 2 \in 1..Len(<<a, b, c>>) /\ 3 \in 1..Len(<<a, b, c>>)
            /\ <<a, b, c>>[1] = a /\ <<a, b, c>>[2] = b /\ <<a, b, c>>[3] = c
        OBVIOUS
      <4>4. a \in Todo(<<a, b, c>>) /\ b \in Todo(<<a, b, c>>) /\ c \in Todo(<<a, b, c>>)
        BY <4>3 DEF Todo
      <4>5. QED
        BY <4>1, <4>2, <4>4
    <3>2. rerun(i)' = rerun(i)
      BY <2>1 DEF rerun
    <3>3. FilesOf(io'.slot, rerun(i)') \ Todo(io'.todo) \subseteq files' \ unsafe'
      BY <2>3, <3>1, <3>2
    <3>4. rerun(io.slot)' = rerun(i)'
      BY <2>3 DEF rerun
    <3>5. QED
      BY <1>1, <2>1, <2>2, <2>3, <3>3, <3>4 DEF CasesKept
  <2>7. Worked'
    BY <1>1, <1>2, <1>3, <2>1, <2>3 DEF RunInv, Worked
  <2>8. Covered'
    <3>1. ASSUME NEW j \in Items, j < next', ~error'
          PROVE  ~pending(items'[j]) \/ dec'[j] # "none" \/ InCase(j)'
      <4>1. CASE j = i
        BY <2>3, <4>1 DEF InCase
      <4>2. CASE j # i
        <5>1. ~InCase(j)
          BY <1>2 DEF InCase
        <5>2. QED
          BY <1>1, <1>3, <2>1, <3>1, <4>2, <5>1 DEF RunInv, Covered
      <4>3. QED
        BY <4>1, <4>2
    <3>2. QED
      BY <1>1, <2>1, <3>1 DEF Covered
  <2>9. QED
    BY <2>2, <2>4, <2>5, <2>6, <2>7, <2>8 DEF RunInv
<1>7. \/ /\ result[i] \in {"output", "source", "spend+source"}
         /\ io' = CaseFiles(i, rerun(i), result[i], "case") /\ items' = items
      \/ Push(i, "refused") /\ io' = Checkpoint("item")
      \/ Push(i, "interrupted") /\ io' = Checkpoint("item")
  BY DEF Collect
<1>8. QED
  BY <1>5, <1>6, <1>7

LEMMA CaseSavedKeeps ==
  ASSUME RunInv, CaseSaved
  PROVE  RunInv'
<1> DEFINE i == io.slot
           st == IF io.result = "output" THEN "completed" ELSE "refused"
<1>1. /\ io.then = "case" /\ io.todo = <<>> /\ Push(i, st) /\ io' = Checkpoint("item")
      /\ UNCHANGED <<diskVars, next, error, given, pc, dec>> /\ Shape
  BY DEF CaseSaved, Wrote, decVars, RunInv
<1>2. i \in Items /\ pc = "dispatch"
  BY <1>1, IoAt
<1>3. pending(items[i]) /\ dec[i] = "none"
  BY <1>1 DEF RunInv, Worked
<1>4. FilesOf(i, rerun(i)) \subseteq files \ unsafe
  <2>1. Todo(io.todo) = {}
    BY <1>1 DEF Todo
  <2>2. QED
    BY <1>1, <2>1 DEF RunInv, CasesKept
<1>5. st \in Words \ {"pending", "rerun"}
  BY DEF Words
<1>6. InCase(i)
  BY <1>1 DEF InCase
<1>7. /\ dec' \in [Slots -> DecStates] /\ next' \in 1..(N + 1) /\ next <= next'
      /\ \A j \in Items : j < next' => j < next \/ j = i
  BY <1>1 DEF Shape
<1> HIDE DEF i, st
<1>8. QED
  BY <1>1, <1>2, <1>3, <1>4, <1>5, <1>6, <1>7, PushKeeps

(* The write of a case or of an item's state ends, or fails.               *)
LEMMA WriteEndsKeeps ==
  ASSUME RunInv, CaseFails \/ ItemSaved \/ Reported
  PROVE  RunInv'
<1>1. /\ UNCHANGED <<diskVars, items, next, dec, given, status>> /\ io' = [then |-> "nothing"]
      /\ Shape
  BY DEF CaseFails, ItemSaved, Reported, IoDone, decVars, RunInv
<1>2. \/ pc = "dispatch" /\ pc' = "dispatch" /\ error' = TRUE
      \/ pc = "dispatch" /\ pc' = "dispatch" /\ error' = error /\ io.then = "item" /\ io.todo = <<>>
      \/ pc \in {"dispatch", "report"} /\ pc' = "ending" /\ error' \in BOOLEAN
  <2>1. CASE CaseFails
    <3>1. io.then = "case" /\ error' = TRUE /\ pc' \in {pc, "ending"}
      BY <2>1 DEF CaseFails, Failed
    <3>2. QED
      BY <1>1, <3>1, IoAt
  <2>2. CASE ItemSaved
    <3>1. /\ io.then = "item" /\ pc' = pc
          /\ (io.todo = <<>> /\ error' = error) \/ error' = TRUE
      BY <2>2 DEF ItemSaved, Wrote, Failed
    <3>2. QED
      BY <1>1, <3>1, IoAt
  <2>3. CASE Reported
    <3>1. io.then = "report" /\ pc' = "ending" /\ (error' = error \/ error' = TRUE)
      BY <2>3 DEF Reported, Wrote, Failed
    <3>2. error \in BOOLEAN
      BY <1>1 DEF Shape
    <3>3. QED
      BY <1>1, <3>1, <3>2, IoAt
  <2>4. QED
    BY <2>1, <2>2, <2>3
<1>3. pc # "down" /\ pc' \in {"dispatch", "ending"} /\ pc \in {"dispatch", "report"}
  BY <1>2
<1>4. io'.then = "nothing" /\ Quiet'
  BY <1>1 DEF Quiet
<1>5. /\ Disk' /\ ReportHonest'
      /\ \A image \in cpImages' : image = NoFile \/ Kept(image)'
      /\ pc' # "down" => Kept(items)'
  BY <1>1, <1>3, FilesKept
<1>6. error' \in BOOLEAN
  BY <1>1, <1>2 DEF Shape
<1>7. Shape'
  BY <1>1, <1>3, <1>4, <1>6 DEF Shape, Places
<1>8. pc' = "dispatch" /\ ~error' => ~error /\ io.then = "item" /\ cpImages = {items}
  <2>1. CASE pc' = "dispatch" /\ error' = TRUE
    BY <2>1
  <2>2. CASE error' = error /\ io.then = "item" /\ io.todo = <<>>
    BY <2>2 DEF RunInv, Saved
  <2>3. CASE pc' = "ending"
    BY <2>3
  <2>4. QED
    BY <1>2, <2>1, <2>2, <2>3
<1>9. Saved'
  BY <1>1, <1>3, <1>4, <1>8 DEF Saved, diskVars
<1>10. CasesKept'
  BY <1>3, <1>4, <1>5 DEF CasesKept
<1>11. Worked'
  <2>1. pc' = "dispatch" => pc = "dispatch"
    BY <1>2
  <2>2. QED
    BY <1>1, <1>3, <1>4, <2>1 DEF RunInv, Worked
<1>12. Covered'
  BY <1>1, <1>3, <1>8 DEF RunInv, Covered, InCase
<1>13. QED
  BY <1>5, <1>7, <1>9, <1>10, <1>11, <1>12 DEF RunInv

LEMMA LeaveKeeps ==
  ASSUME RunInv, Leave
  PROVE  RunInv'
<1>1. /\ pc = "dispatch" /\ Quiet /\ Work = {} /\ (next > N \/ Stopped)
      /\ status' = (IF raised /\ status = "evaluated" THEN "interrupted" ELSE status)
      /\ pc' = (IF error THEN "ending" ELSE "report")
      /\ UNCHANGED <<diskVars, items, next, error, dec, given, io>> /\ Shape
  BY DEF Leave, Loop, decVars, RunInv
<1>2. io.then = "nothing" /\ Quiet' /\ io' = io /\ error \in BOOLEAN
  BY <1>1, IoAt DEF Quiet, Shape
<1>3. \A i \in Items : dec[i] = "none"
  BY <1>1 DEF Work
<1>4. /\ Disk' /\ ReportHonest'
      /\ \A image \in cpImages' : image = NoFile \/ Kept(image)'
      /\ pc' # "down" => Kept(items)'
  BY <1>1, FilesKept
<1>5. pc' \in {"report", "ending"} /\ (pc' = "report" => ~error)
  BY <1>1
<1>6. Shape'
  <2>1. /\ items \in Histories /\ next \in 1..(N + 1) /\ given \in Given /\ dec \in [Slots -> DecStates]
    BY <1>1 DEF Shape
  <2>2. QED
    BY <1>1, <1>2, <1>5, <2>1 DEF Shape, Places
<1>7. Saved'
  <2>1. ~error => cpImages = {items}
    BY <1>1, <1>2 DEF RunInv, Saved
  <2>2. QED
    BY <1>1, <1>2, <1>5, <2>1 DEF Saved, diskVars
<1>8. CasesKept'
  BY <1>2, <1>4, <1>5 DEF CasesKept
<1>9. Worked'
  BY <1>1, <1>2, <1>3, <1>5 DEF Worked
<1>10. Covered'
  <2>1. pc' = "report" /\ status' = "evaluated" => ~Stopped
    BY <1>1, <1>5 DEF Stopped
  <2>2. \A i \in Items : ~InCase(i)
    BY <1>2 DEF InCase
  <2>3. ~error => \A i \in Items : i < next => ~pending(items[i]) \/ dec[i] # "none"
    BY <1>1, <2>2 DEF RunInv, Covered
  <2>4. QED
    BY <1>1, <1>5, <2>1, <2>3 DEF Covered
<1>11. QED
  BY <1>4, <1>6, <1>7, <1>8, <1>9, <1>10 DEF RunInv

LEMMA WriteReportKeeps ==
  ASSUME RunInv, WriteReport
  PROVE  RunInv'
<1>1. /\ pc = "report" /\ Quiet /\ io' = Report("report")
      /\ UNCHANGED <<diskVars, items, next, status, error, dec, given, pc>> /\ Shape
  BY DEF WriteReport, runVars, decVars, RunInv
<1>2. io' \in Reporting /\ io'.then = "report" /\ ~Quiet' /\ io.then = "nothing"
  BY <1>1, IoAt DEF Report, Reporting, Quiet
<1>3. /\ Disk' /\ ReportHonest'
      /\ \A image \in cpImages' : image = NoFile \/ Kept(image)'
      /\ pc' # "down" => Kept(items)'
  BY <1>1, FilesKept
<1>4. Shape'
  BY <1>1, <1>2 DEF Shape
<1>5. Saved'
  BY <1>1, <1>2 DEF RunInv, Saved, diskVars
<1>6. CasesKept' /\ Worked' /\ Covered'
  BY <1>1, <1>2, <1>3 DEF RunInv, CasesKept, Worked, Covered, InCase
<1>7. QED
  BY <1>3, <1>4, <1>5, <1>6 DEF RunInv

(* The decisions, in the runtime, and their drop.                          *)
LEMMA DecideKeeps ==
  ASSUME RunInv, NEW s \in Slots, Decide(s) \/ DropWork(s)
  PROVE  RunInv'
<1>1. dec \in [Slots -> DecStates]
  BY DEF RunInv, Shape
<1>2. CASE Decide(s)
  <2>1. /\ UNCHANGED <<diskVars, runVars, given, pc, io>> /\ dec[s] \in {"running", "held", "sent"}
        /\ \E x \in {"ended", "held", "sent"} : dec' = [dec EXCEPT ![s] = x]
    <3>1. CASE \E r \in Results(given, s) : NoRequest(s, r)
      BY <3>1 DEF NoRequest, Ends, Untouched
    <3>2. CASE Reserve(s)
      BY <3>2 DEF Reserve, Untouched
    <3>3. CASE ReserveRefused(s)
      BY <3>3 DEF ReserveRefused, Ends, Untouched
    <3>4. CASE Send(s)
      BY <3>4 DEF Send, Untouched
    <3>5. CASE \E to \in Charges \cup {Released}, r \in Results(given, s) : Settles(s, to, r)
      BY <3>5 DEF Settles, Ends, Untouched
    <3>6. QED
      BY <1>2, <3>1, <3>2, <3>3, <3>4, <3>5 DEF Decide
  <2>2. PICK x \in {"ended", "held", "sent"} : dec' = [dec EXCEPT ![s] = x]
    BY <2>1
  <2>3. x \in DecStates /\ x # "none"
    BY DEF DecStates
  <2>4. dec' \in [Slots -> DecStates] /\ \A i \in Items : dec'[i] # "none" <=> dec[i] # "none"
    BY <1>1, <2>1, <2>2, <2>3, ItemsFacts
  <2>5. QED
    BY <2>1, <2>4, DecStep
<1>3. CASE DropWork(s)
  <2>1. /\ UNCHANGED <<diskVars, runVars, given, pc, io>> /\ pc = "ending"
        /\ dec' = [dec EXCEPT ![s] = "none"]
    BY <1>3 DEF DropWork, Clear
  <2>2. "none" \in DecStates
    BY DEF DecStates
  <2>3. dec' \in [Slots -> DecStates] /\ \A i \in Items : dec'[i] # "none" => dec[i] # "none"
    BY <1>1, <2>1, <2>2, ItemsFacts
  <2>4. QED
    BY <2>1, <2>3, DecStep
<1>4. QED
  BY <1>2, <1>3

LEMMA RunInvInit ==
  ASSUME Init
  PROVE  RunInv
<1>1. /\ given \in Given /\ dir = FALSE /\ cp = NoFile /\ cpImages = {NoFile}
      /\ files = {} /\ unsafe = {} /\ report = NoFile /\ pc = "down" /\ items = NoFile /\ next = 1
      /\ dec = [s \in Slots |-> "none"] /\ error = FALSE /\ io = [then |-> "nothing"]
  BY DEF Init
<1>2. Quiet /\ io.then = "nothing" /\ 1 \in 1..(N + 1)
  BY <1>1, ItemsFacts DEF Quiet
<1>3. dec \in [Slots -> DecStates] /\ \A i \in Items : dec[i] = "none"
  BY <1>1, ItemsFacts DEF DecStates
<1>4. Shape
  BY <1>1, <1>2, <1>3 DEF Shape, Places
<1>5. Disk /\ Saved /\ CasesKept /\ Worked /\ Covered /\ ReportHonest
  BY <1>1, <1>2, <1>3 DEF Disk, Saved, CasesKept, Worked, Covered, ReportHonest
<1>6. QED
  BY <1>4, <1>5 DEF RunInv

LEMMA RunInvStep ==
  ASSUME RunInv, [Next]_vars
  PROVE  RunInv'
<1>1. dec \in [Slots -> DecStates]
  BY DEF RunInv, Shape
<1>2. CASE Rename \/ DirSync
  BY <1>2, RenameKeeps, DirSyncKeeps
<1>3. CASE Prepared \/ OpenJournal \/ Scan \/ Scanned
  BY <1>3, PreparedKeeps, ScanKeeps, ScannedKeeps
<1>4. CASE PrepareFails \/ OpenRefused \/ Exit
  <2>1. Forget /\ UNCHANGED diskVars
    BY <1>4 DEF PrepareFails, OpenRefused, Exit
  <2>2. QED
    BY <2>1, ForgetKeeps
<1>5. CASE \E probe_only \in BOOLEAN : ProbeEnds(probe_only)
  BY <1>5, ProbeEndsKeeps
<1>6. CASE Skip \/ SetAside \/ Admit \/ Observe
  BY <1>6, SkipAdmitObserveKeeps, SetAsideKeeps
<1>7. CASE CaseSaved \/ CaseFails \/ ItemSaved \/ Reported
  BY <1>7, CaseSavedKeeps, WriteEndsKeeps
<1>8. CASE Leave \/ WriteReport
  BY <1>8, LeaveKeeps, WriteReportKeeps
<1>9. CASE \E s \in Slots : Decide(s) \/ DropWork(s)
  BY <1>9, DecideKeeps
<1>10. CASE \E i \in Items : Collect(i)
  BY <1>10, CollectKeeps
<1>11. CASE PrepareFresh \/ PrepareResume \/ RemoveOut
  BY <1>11, PrepareFreshKeeps, PrepareResumeKeeps, RemoveOutKeeps
<1>12. CASE Raise \/ Over \/ UNCHANGED vars
  <2>1. UNCHANGED <<diskVars, runVars, given, pc, io, dec>>
    BY <1>12 DEF Raise, Over, vars, decVars
  <2>2. QED
    BY <1>1, <2>1, DecStep
<1>13. CASE Crash
  BY <1>13, ForgetKeeps DEF Crash, Kill
<1>14. QED
  BY <1>2, <1>3, <1>4, <1>5, <1>6, <1>7, <1>8, <1>9, <1>10, <1>11, <1>12, <1>13 DEF Next, Step

(* Whatever is killed, lost or fails to be written, what a checkpoint that *)
(* survives a power loss calls completed has its three case files, and     *)
(* they survive too: save_case precedes the save of the state, and the     *)
(* cases' directory is synced in between.                                  *)
THEOREM CompletedStaysKept == Spec => []CompletedKept
<1>1. Init => RunInv
  BY RunInvInit
<1>2. RunInv /\ [Next]_vars => RunInv'
  BY RunInvStep
<1>3. RunInv => CompletedKept
  BY DEF RunInv, CasesKept, Kept, FilesOf, Kinds, CompletedKept
<1>4. QED
  BY <1>1, <1>2, <1>3, PTL DEF Spec

(* A report never says more than a resumed run will find: the history it   *)
(* was made from is the beginning of every checkpoint that may survive,    *)
(* and a run reported as evaluated left no item pending.                   *)
THEOREM ReportStaysHonest == Spec => []ReportHonest
<1>1. Init => RunInv
  BY RunInvInit
<1>2. RunInv /\ [Next]_vars => RunInv'
  BY RunInvStep
<1>3. RunInv => ReportHonest
  BY DEF RunInv
<1>4. QED
  BY <1>1, <1>2, <1>3, PTL DEF Spec

-----------------------------------------------------------------------------
(* Reservations and ids.                                                   *)

IsRes(r) == r = [attempt |-> r.attempt, period |-> r.period, units |-> r.units, state |-> r.state]

(* What was acknowledged is in the book of the process that holds it.      *)
Book ==
  /\ \A s \in DOMAIN acked : IsRes(acked[s])
  /\ \A s \in DOMAIN book : IsRes(book[s])
  /\ up => \A s \in DOMAIN acked : s \in DOMAIN book /\ book[s].attempt = acked[s].attempt
  /\ up <=> pc \in {"scan", "probe", "dispatch", "report", "ending"}

Known == {acked[s].attempt : s \in DOMAIN acked} \cup {book[s].attempt : s \in DOMAIN book} \cup maybe

(* There is always a number after the largest the journal holds.           *)
Bounded == \E b \in Nat : \A d \in Known : d \in Slots \X Nat /\ d[2] <= b

(* An id is one process's. Before a process that does not resume, nothing  *)
(* was sent.                                                               *)
SentOnce ==
  /\ sentBy \in [Attempts -> SUBSET (0..starts)] /\ starts \in Nat
  /\ \A d \in Attempts : \E p \in 0..starts : sentBy[d] \subseteq {p}
  /\ pc # "down" /\ ~resume => \A d \in Attempts : sentBy[d] \subseteq {starts}

(* What was sent is in the journal, and no checkpoint that may survive     *)
(* counts fewer reruns.                                                    *)
SentKnown ==
  \A d \in Attempts : sentBy[d] # {} =>
    /\ \E s \in DOMAIN acked : acked[s].attempt = d
    /\ NoFile \notin cpImages
    /\ d[1] \in Items => \A image \in cpImages : d[2] <= Reruns(image[d[1]])

SameReruns ==
  pc \in {"probe", "dispatch"} =>
    /\ NoFile \notin cpImages
    /\ \A image \in cpImages, i \in Items : Reruns(image[i]) = Reruns(items[i])

(* The id under which a pending item is sent is this process's.            *)
Own(d) == d \in Attempts => sentBy[d] \subseteq {starts}
OwnIds ==
  pc \in {"probe", "dispatch"} \/ (pc = "scan" /\ ~Quiet) =>
    \A i \in Items : pending(items[i]) => Own(<<i, rerun(i)>>)

(* So is the one under which a decision reserved.                          *)
OwnTicket(s) ==
  /\ up /\ tkt[s] \in DOMAIN acked
  /\ acked[tkt[s]].attempt = <<s, IF s = 0 THEN acked[tkt[s]].attempt[2] ELSE rerun(s)>>
  /\ Own(acked[tkt[s]].attempt)
Holds(s) == dec[s] \in {"held", "sent"}
OwnTickets == DOMAIN tkt = Slots /\ \A s \in Slots : Holds(s) => OwnTicket(s)

IdInv == Book /\ Bounded /\ SentOnce /\ SentKnown /\ SameReruns /\ OwnIds /\ OwnTickets

(* A bounded set of numbers has a largest.                                 *)
LEMMA MaxIs ==
  ASSUME NEW n \in Nat, NEW S, S \subseteq 0..n, S # {}
  PROVE  Max(S) \in S /\ \A y \in S : y <= Max(S)
<1> DEFINE T == {n - x : x \in S}
           R == OpToRel(<, Nat)
<1>1. T \subseteq Nat /\ T # {}
  <2>1. \A x \in S : x \in 0..n
    OBVIOUS
  <2>2. \A x \in S : n - x \in Nat
    BY <2>1
  <2>3. QED
    BY <2>2
<1>2. \A x, y \in Nat : y < x => <<y, x>> \in R
  BY DEF OpToRel
<1>3. IsWellFoundedOn(R, Nat)
  BY NatLessThanWellFounded
<1> HIDE DEF R
<1>4. PICK x \in T : \A y \in T : ~(<<y, x>> \in R)
  <2> HIDE DEF T
  <2>1. QED
    BY <1>1, <1>3, WFMin
<1>5. PICK z \in S : x = n - z
  OBVIOUS
<1>6. ASSUME NEW y \in S
      PROVE  z >= y
  <2>1. n - y \in T /\ n - y \in Nat /\ x \in Nat
    BY <1>1
  <2>2. ~(n - y < x)
    BY <1>2, <1>4, <2>1
  <2>3. QED
    BY <1>5, <2>1, <2>2
<1>7. Max(S) \in S /\ \A y \in S : Max(S) >= y
  BY <1>6 DEF Max
<1>8. QED
  BY <1>7

LEMMA RerunIs ==
  ASSUME items \in Histories, NEW i \in Items
  PROVE  rerun(i) \in Nat
<1>1. items[i] \in Seq(Words)
  BY HistoriesFacts
<1>2. QED
  BY <1>1, RerunsNat DEF rerun

LEMMA ResFacts ==
  ASSUME NEW r, IsRes(r), NEW st
  PROVE  LET q == [r EXCEPT !.state = st]
         IN  IsRes(q) /\ q.attempt = r.attempt
<1> DEFINE q == [r EXCEPT !.state = st]
<1>1. PICK a, p, u, x : r = [attempt |-> a, period |-> p, units |-> u, state |-> x]
  BY DEF IsRes
<1>2. q = [attempt |-> a, period |-> p, units |-> u, state |-> st]
  BY <1>1
<1>3. q.attempt = a /\ q.period = p /\ q.units = u /\ q.state = st /\ r.attempt = a
  BY <1>1, <1>2
<1> HIDE DEF q
<1>4. QED
  BY <1>2, <1>3 DEF IsRes, q

(* The number of a resumed run's probe is none the journal knows.          *)
LEMMA ProbeNumber ==
  ASSUME Bounded
  PROVE  /\ probe_seq \in Nat
         /\ \A s \in DOMAIN book : book[s].attempt # <<0, probe_seq + 1>>
<1> DEFINE A == {book[s].attempt : s \in DOMAIN book}
           S == {0} \cup {d[2] : d \in A \cap ({0} \X Nat)}
<1>1. PICK b \in Nat : \A d \in Known : d \in Slots \X Nat /\ d[2] <= b
  BY DEF Bounded
<1>2. \A d \in A : d[2] <= b
  BY <1>1 DEF Known
<1>3. \A d \in A \cap ({0} \X Nat) : d[2] \in 0..b
  <2> HIDE DEF A
  <2>1. QED
    BY <1>2
<1>4. S \subseteq 0..b /\ S # {}
  <2> HIDE DEF A
  <2>1. 0 \in 0..b
    OBVIOUS
  <2>2. QED
    BY <1>3, <2>1
<1>5. Max(S) \in S /\ \A y \in S : y <= Max(S)
  <2> HIDE DEF S
  <2>1. QED
    BY <1>4, MaxIs
<1>6. probe_seq = Max(S)
  BY DEF probe_seq
<1>7. probe_seq \in 0..b /\ \A y \in S : y <= probe_seq
  BY <1>4, <1>5, <1>6
<1>8. probe_seq \in Nat /\ probe_seq + 1 \in Nat /\ ~(probe_seq + 1 <= probe_seq)
  BY <1>7
<1>9. ASSUME NEW s \in DOMAIN book, book[s].attempt = <<0, probe_seq + 1>>
      PROVE  FALSE
  <2> DEFINE d == <<0, probe_seq + 1>>
  <2>1. d \in A /\ d \in {0} \X Nat /\ d[2] = probe_seq + 1
    BY <1>8, <1>9
  <2>2. probe_seq + 1 \in S
    <3> HIDE DEF A, d
    <3>1. QED
      BY <2>1
  <2>3. QED
    BY <1>7, <1>8, <2>2
<1>10. QED
  BY <1>8, <1>9

LEMMA BoundedKept ==
  ASSUME Bounded, NEW id \in Slots \X Nat, Known' \subseteq Known \cup {id}
  PROVE  Bounded'
<1>1. PICK b \in Nat : \A d \in Known : d \in Slots \X Nat /\ d[2] <= b
  BY DEF Bounded
<1>2. id[2] \in Nat
  OBVIOUS
<1>3. b + id[2] \in Nat /\ id[2] <= b + id[2]
  BY <1>2
<1>4. \A d \in Known : d[2] \in Nat /\ d[2] <= b + id[2]
  <2>1. \A d \in Known : d[2] \in Nat /\ d[2] <= b
    BY <1>1
  <2>2. QED
    BY <1>2, <2>1
<1>5. \A d \in Known' : d \in Slots \X Nat /\ d[2] <= b + id[2]
  BY <1>1, <1>3, <1>4
<1>6. QED
  BY <1>3, <1>5 DEF Bounded

LEMMA BoundedSame ==
  ASSUME Bounded, Known' \subseteq Known
  PROVE  Bounded'
BY DEF Bounded

(* Steps that send nothing and begin no process.                           *)
LEMMA IdKept ==
  ASSUME RunInv, IdInv, Book', Bounded',
         \A s \in DOMAIN acked : s \in DOMAIN acked' /\ acked'[s].attempt = acked[s].attempt,
         UNCHANGED <<sentBy, starts>>, DOMAIN tkt' = Slots,
         pc' # "down" /\ ~resume' => pc # "down" /\ ~resume,
         cpImages' \subseteq cpImages,
         pc' # "down" => \A i \in Items : /\ Reruns(items'[i]) = Reruns(items[i])
                                          /\ pending(items'[i]) => pending(items[i]),
         pc' \in {"probe", "dispatch"} => pc \in {"probe", "dispatch"},
         pc' = "scan" /\ ~Quiet' => pc = "scan" /\ ~Quiet,
         \A s \in Slots : Holds(s)' => \/ OwnTicket(s)'
                                       \/ Holds(s) /\ tkt'[s] = tkt[s] /\ up' /\ pc' # "down"
  PROVE  IdInv'
<1>1. SentOnce'
  BY DEF IdInv, SentOnce
<1>2. SentKnown'
  <2> SUFFICES ASSUME NEW d \in Attempts, sentBy[d] # {}
               PROVE  /\ \E s \in DOMAIN acked' : acked'[s].attempt = d
                      /\ NoFile \notin cpImages'
                      /\ d[1] \in Items => \A image \in cpImages' : d[2] <= Reruns(image[d[1]])
    BY DEF SentKnown
  <2>1. /\ \E s \in DOMAIN acked : acked[s].attempt = d
        /\ NoFile \notin cpImages
        /\ d[1] \in Items => \A image \in cpImages : d[2] <= Reruns(image[d[1]])
    BY DEF IdInv, SentKnown
  <2>2. QED
    BY <2>1
<1>3. SameReruns'
  BY DEF IdInv, SameReruns
<1>4. OwnIds'
  <2> SUFFICES ASSUME pc' \in {"probe", "dispatch"} \/ (pc' = "scan" /\ ~Quiet'),
                      NEW i \in Items, pending(items'[i])
               PROVE  <<i, Reruns(items'[i])>> \in Attempts =>
                        sentBy'[<<i, Reruns(items'[i])>>] \subseteq {starts'}
    BY DEF OwnIds, Own, rerun
  <2>1. Reruns(items'[i]) = Reruns(items[i]) /\ pending(items[i])
    OBVIOUS
  <2>2. Own(<<i, Reruns(items[i])>>)
    BY <2>1 DEF IdInv, OwnIds, rerun
  <2>3. QED
    BY <2>1, <2>2 DEF Own
<1>5. OwnTickets'
  <2> SUFFICES ASSUME NEW s \in Slots, Holds(s), tkt'[s] = tkt[s], up', pc' # "down"
               PROVE  OwnTicket(s)'
    BY DEF OwnTickets
  <2>1. /\ tkt[s] \in DOMAIN acked
        /\ acked[tkt[s]].attempt = <<s, IF s = 0 THEN acked[tkt[s]].attempt[2] ELSE rerun(s)>>
        /\ Own(acked[tkt[s]].attempt)
    BY DEF IdInv, OwnTickets, OwnTicket
  <2>2. tkt'[s] \in DOMAIN acked' /\ acked'[tkt'[s]].attempt = acked[tkt[s]].attempt
    BY <2>1
  <2>3. s # 0 => rerun(s)' = rerun(s)
    BY ItemsFacts DEF rerun
  <2>4. acked'[tkt'[s]].attempt \in Attempts => sentBy'[acked'[tkt'[s]].attempt] \subseteq {starts'}
    BY <2>1, <2>2 DEF Own
  <2>5. QED
    BY <2>1, <2>2, <2>3, <2>4 DEF OwnTicket, Own
<1>6. QED
  BY <1>1, <1>2, <1>3, <1>4, <1>5 DEF IdInv

(* Those that leave the journal alone.                                     *)
LEMMA JournalKept ==
  ASSUME IdInv, UNCHANGED <<book, acked, maybe>>,
         up' <=> pc' \in {"scan", "probe", "dispatch", "report", "ending"},
         up' => up
  PROVE  /\ Book' /\ Bounded'
         /\ \A s \in DOMAIN acked : s \in DOMAIN acked' /\ acked'[s].attempt = acked[s].attempt
<1>1. Book'
  BY DEF IdInv, Book
<1>2. Bounded'
  <2>1. Known' = Known
    BY DEF Known
  <2>2. QED
    BY <2>1, BoundedSame DEF IdInv
<1>3. QED
  BY <1>1, <1>2

LEMMA IdStill ==
  ASSUME RunInv, IdInv, UNCHANGED <<bookVars, maybe, sentBy, starts, resume>>, DOMAIN tkt' = Slots,
         pc = "down" <=> pc' = "down",
         pc \in {"prepare", "open"} <=> pc' \in {"prepare", "open"}, pc' \in Places,
         cpImages' \subseteq cpImages,
         pc' # "down" => \A i \in Items : /\ Reruns(items'[i]) = Reruns(items[i])
                                          /\ pending(items'[i]) => pending(items[i]),
         pc' \in {"probe", "dispatch"} => pc \in {"probe", "dispatch"},
         pc' = "scan" /\ ~Quiet' => pc = "scan" /\ ~Quiet,
         \A s \in Slots : Holds(s)' => Holds(s) /\ tkt'[s] = tkt[s]
  PROVE  IdInv'
<1>1. UNCHANGED <<book, acked, up>>
  BY DEF bookVars
<1>2. up <=> pc \in {"scan", "probe", "dispatch", "report", "ending"}
  BY DEF IdInv, Book
<1>3. pc \in Places
  BY DEF RunInv, Shape
<1>4. up' <=> pc' \in {"scan", "probe", "dispatch", "report", "ending"}
  BY <1>1, <1>2, <1>3 DEF Places
<1>5. /\ Book' /\ Bounded'
      /\ \A s \in DOMAIN acked : s \in DOMAIN acked' /\ acked'[s].attempt = acked[s].attempt
  BY <1>1, <1>4, JournalKept
<1>6. ASSUME NEW s \in Slots, Holds(s)'
      PROVE  Holds(s) /\ tkt'[s] = tkt[s] /\ up' /\ pc' # "down"
  <2>1. Holds(s) /\ tkt'[s] = tkt[s]
    BY <1>6
  <2>2. up
    BY <2>1 DEF IdInv, OwnTickets, OwnTicket
  <2>3. QED
    BY <1>1, <1>4, <2>1, <2>2
<1>7. QED
  BY <1>5, <1>6, IdKept

(* Steps that leave the decisions alone too.                               *)
LEMMA IdStillAll ==
  ASSUME RunInv, IdInv, UNCHANGED <<bookVars, maybe, sentBy, starts, resume, dec, tkt, items>>,
         pc = "down" <=> pc' = "down",
         pc \in {"prepare", "open"} <=> pc' \in {"prepare", "open"}, pc' \in Places,
         cpImages' \subseteq cpImages,
         pc' \in {"probe", "dispatch"} => pc \in {"probe", "dispatch"},
         pc' = "scan" /\ ~Quiet' => pc = "scan" /\ ~Quiet
  PROVE  IdInv'
<1>1. DOMAIN tkt' = Slots
  BY DEF IdInv, OwnTickets
<1>2. \A s \in Slots : Holds(s)' => Holds(s) /\ tkt'[s] = tkt[s]
  BY DEF Holds
<1>3. QED
  BY <1>1, <1>2, IdStill

LEMMA ClearKeeps ==
  ASSUME RunInv, IdInv, NEW s \in Slots, Clear(s)
  PROVE  DOMAIN tkt' = Slots /\ \A t \in Slots : Holds(t)' => Holds(t) /\ tkt'[t] = tkt[t]
<1>1. dec \in [Slots -> DecStates] /\ DOMAIN tkt = Slots
  BY DEF RunInv, Shape, IdInv, OwnTickets
<1>2. dec' = [dec EXCEPT ![s] = "none"] /\ tkt' = [tkt EXCEPT ![s] = 0]
  BY DEF Clear
<1>3. ASSUME NEW t \in Slots, Holds(t)'
      PROVE  Holds(t) /\ tkt'[t] = tkt[t]
  <2>1. dec'[t] \in {"held", "sent"}
    BY <1>3 DEF Holds
  <2>2. t # s
    BY <1>1, <1>2, <2>1
  <2>3. QED
    BY <1>1, <1>2, <2>1, <2>2 DEF Holds
<1>4. QED
  BY <1>1, <1>2, <1>3

(* Pushing a state that is no rerun.                                       *)
LEMMA PushReruns ==
  ASSUME items \in Histories, NEW i \in Items, pending(items[i]),
         NEW st \in Words \ {"pending", "rerun"}, Push(i, st)
  PROVE  \A j \in Items : /\ Reruns(items'[j]) = Reruns(items[j])
                          /\ pending(items'[j]) => pending(items[j])
<1>1. Last(items[i]) # "completed" /\ st \in Words
  BY DEF pending
<1>2. /\ Last(items'[i]) = st /\ Reruns(items'[i]) = Reruns(items[i])
      /\ \A j \in Items : j # i => items'[j] = items[j]
  BY <1>1, PushFacts
<1>3. QED
  BY <1>2

LEMMA IdForgotten ==
  ASSUME RunInv, IdInv, Forget, UNCHANGED <<book, acked, maybe, starts>>, up' = FALSE,
         cpImages' \subseteq cpImages
  PROVE  IdInv'
<1>1. pc' = "down" /\ dec' = [s \in Slots |-> "none"] /\ tkt' = [s \in Slots |-> 0] /\ sentBy' = sentBy
  BY DEF Forget
<1>2. /\ Book' /\ Bounded'
      /\ \A s \in DOMAIN acked : s \in DOMAIN acked' /\ acked'[s].attempt = acked[s].attempt
  BY <1>1, JournalKept
<1>3. DOMAIN tkt' = Slots /\ \A s \in Slots : ~Holds(s)'
  BY <1>1 DEF Holds
<1>4. QED
  BY <1>1, <1>2, <1>3, IdKept

LEMMA ForgetIds ==
  ASSUME RunInv, IdInv, PrepareFails \/ OpenRefused \/ Exit \/ Crash, ~lost'
  PROVE  IdInv'
<1>1. Forget /\ UNCHANGED <<book, acked, maybe, starts>>
  BY DEF PrepareFails, OpenRefused, Exit, Crash, Failed, Fault, End, bookVars, recVars, boundVars
<1>2. up' = FALSE
  <2>1. CASE PrepareFails
    <3>1. io.then = "prepare" /\ up' = up
      BY <2>1 DEF PrepareFails, Failed, bookVars
    <3>2. pc = "prepare"
      BY <3>1, IoAt DEF RunInv
    <3>3. QED
      BY <3>1, <3>2 DEF IdInv, Book
  <2>2. CASE OpenRefused
    BY <2>2 DEF OpenRefused, bookVars, IdInv, Book
  <2>3. CASE Exit \/ Crash
    BY <2>3 DEF Exit, End, Crash
  <2>4. QED
    BY <2>1, <2>2, <2>3
<1>3. cpImages' \subseteq cpImages
  BY DEF PrepareFails, OpenRefused, Exit, Crash, Kill, OutStays, OutIsLost, diskVars
<1>4. QED
  BY <1>1, <1>2, <1>3, IdForgotten

(* Writes, and what follows them.                                          *)
LEMMA WriteIds ==
  ASSUME RunInv, IdInv,
         \/ DirSync \/ Prepared \/ CaseFails \/ ItemSaved \/ Leave \/ WriteReport \/ Reported
         \/ RemoveOut \/ Raise \/ Over \/ UNCHANGED vars \/ Skip \/ Observe
  PROVE  IdInv'
<1>0. Shape /\ pc \in Places
  BY DEF RunInv, Shape
<1>1. UNCHANGED <<bookVars, maybe, sentBy, starts, resume, dec, tkt, items>>
  BY DEF DirSync, Prepared, CaseFails, ItemSaved, Leave, WriteReport, Reported, RemoveOut, Raise, Over,
         Skip, Observe, vars, runVars, decVars, recVars, boundVars, Failed, Fault
<1>2. cpImages' \subseteq cpImages
  <2>1. CASE DirSync
    BY <2>1 DEF DirSync, RunInv, Disk
  <2>2. CASE RemoveOut
    BY <2>2 DEF RemoveOut, RunInv, Disk
  <2>3. CASE \/ Prepared \/ CaseFails \/ ItemSaved \/ Leave \/ WriteReport \/ Reported
             \/ Raise \/ Over \/ UNCHANGED vars \/ Skip \/ Observe
    BY <2>3 DEF Prepared, CaseFails, ItemSaved, Leave, WriteReport, Reported, Raise, Over, Skip, Observe,
                vars, diskVars
  <2>4. QED
    BY <2>1, <2>2, <2>3
<1>3. CASE Prepared
  <2>1. io.then = "prepare" /\ pc' = "open"
    BY <1>3 DEF Prepared, Wrote
  <2>2. pc = "prepare"
    BY <1>0, <2>1, IoAt
  <2>3. pc' \in Places
    BY <2>1 DEF Places
  <2>4. QED
    BY <1>1, <1>2, <2>1, <2>2, <2>3, IdStillAll
<1>4. CASE CaseFails \/ ItemSaved \/ Leave \/ Reported
  <2>1. /\ pc \in {"dispatch", "report"} /\ pc' \in {"dispatch", "report", "ending"}
        /\ pc' = "dispatch" => pc = "dispatch"
    <3>1. CASE Leave
      BY <3>1 DEF Leave, Loop
    <3>2. CASE CaseFails
      <4>1. io.then = "case" /\ pc' \in {pc, "ending"}
        BY <3>2 DEF CaseFails, Failed
      <4>2. QED
        BY <1>0, <4>1, IoAt
    <3>3. CASE ItemSaved
      <4>1. io.then = "item" /\ pc' = pc
        BY <3>3 DEF ItemSaved, Wrote, Failed
      <4>2. QED
        BY <1>0, <4>1, IoAt
    <3>4. CASE Reported
      <4>1. io.then = "report" /\ pc' = "ending"
        BY <3>4 DEF Reported, Wrote, Failed
      <4>2. QED
        BY <1>0, <4>1, IoAt
    <3>5. QED
      BY <1>4, <3>1, <3>2, <3>3, <3>4
  <2>2. pc' \in Places
    BY <2>1 DEF Places
  <2>3. QED
    BY <1>1, <1>2, <2>1, <2>2, IdStillAll
<1>5. CASE DirSync \/ WriteReport \/ RemoveOut \/ Raise \/ Over \/ UNCHANGED vars \/ Skip \/ Observe
  <2>1. pc' = pc
    BY <1>5 DEF DirSync, WriteReport, RemoveOut, Raise, Over, vars, Skip, Observe
  <2>2. pc' = "scan" /\ ~Quiet' => ~Quiet
    <3>1. CASE DirSync
      BY <3>1 DEF DirSync
    <3>2. CASE WriteReport
      BY <2>1, <3>2 DEF WriteReport
    <3>3. CASE RemoveOut \/ Raise \/ Over \/ UNCHANGED vars \/ Skip \/ Observe
      BY <3>3 DEF RemoveOut, Raise, Over, vars, Skip, Observe, Quiet
    <3>4. QED
      BY <1>5, <3>1, <3>2, <3>3
  <2>3. QED
    BY <1>0, <1>1, <1>2, <2>1, <2>2, IdStillAll
<1>6. QED
  BY <1>3, <1>4, <1>5

LEMMA DispatchIds ==
  ASSUME RunInv, IdInv, \/ SetAside \/ CaseSaved \/ Admit
                        \/ \E i \in Items : Collect(i)
                        \/ \E probe_only \in BOOLEAN : ProbeEnds(probe_only)
  PROVE  IdInv'
<1>0. /\ Shape /\ pc \in Places /\ DOMAIN tkt = Slots /\ dec \in [Slots -> DecStates]
      /\ \A i \in Items : i \in Slots
  BY ItemsFacts DEF RunInv, Shape, IdInv, OwnTickets
<1>1. UNCHANGED <<bookVars, maybe, sentBy, starts, resume, cpImages>>
  BY DEF SetAside, CaseSaved, Admit, Collect, ProbeEnds, runVars, decVars, recVars, boundVars, diskVars,
         Fault
<1>2. CASE SetAside
  <2>1. /\ pc = "dispatch" /\ pc' = pc /\ next <= N /\ pending(items[next])
        /\ given[next] # "runs" /\ Push(next, given[next]) /\ UNCHANGED <<dec, tkt>>
    BY <1>2 DEF SetAside, Loop, decVars
  <2>2. next \in Items /\ items \in Histories
    BY <1>0, <2>1, NextFacts DEF Shape
  <2>3. given[next] \in Words \ {"pending", "rerun"}
    <3>1. given \in [1..N -> {"runs", "unavailable", "refused"}]
      BY <1>0, LiveAssumption DEF Shape
    <3>2. given[next] \in {"runs", "unavailable", "refused"}
      BY <2>2, <3>1 DEF Items
    <3>3. QED
      BY <2>1, <3>2 DEF Words
  <2>4. \A j \in Items : /\ Reruns(items'[j]) = Reruns(items[j])
                         /\ pending(items'[j]) => pending(items[j])
    BY <2>1, <2>2, <2>3, PushReruns
  <2>5. \A s \in Slots : Holds(s)' => Holds(s) /\ tkt'[s] = tkt[s]
    BY <2>1 DEF Holds
  <2>6. QED
    BY <1>0, <1>1, <2>1, <2>4, <2>5, IdStill
<1>3. CASE CaseSaved
  <2> DEFINE i == io.slot
             st == IF io.result = "output" THEN "completed" ELSE "refused"
  <2>1. io.then = "case" /\ Push(i, st) /\ pc' = pc /\ UNCHANGED <<dec, tkt>>
    BY <1>3 DEF CaseSaved, Wrote, decVars
  <2>2. i \in Items /\ pc = "dispatch" /\ items \in Histories
    BY <1>0, <2>1, IoAt DEF Shape
  <2>3. pending(items[i])
    BY <2>1 DEF RunInv, Worked
  <2>4. st \in Words \ {"pending", "rerun"}
    BY DEF Words
  <2> HIDE DEF i, st
  <2>5. \A j \in Items : /\ Reruns(items'[j]) = Reruns(items[j])
                         /\ pending(items'[j]) => pending(items[j])
    BY <2>1, <2>2, <2>3, <2>4, PushReruns
  <2>6. \A s \in Slots : Holds(s)' => Holds(s) /\ tkt'[s] = tkt[s]
    BY <2>1 DEF Holds
  <2>7. QED
    BY <1>0, <1>1, <2>1, <2>2, <2>5, <2>6, IdStill
<1>4. CASE Admit
  <2>1. /\ pc = "dispatch" /\ pc' = pc /\ UNCHANGED <<items, tkt>>
        /\ dec' = [dec EXCEPT ![next] = "running"]
    BY <1>4 DEF Admit, Loop
  <2>2. \A s \in Slots : Holds(s)' => Holds(s) /\ tkt'[s] = tkt[s]
    BY <1>0, <2>1 DEF Holds
  <2>3. QED
    BY <1>0, <1>1, <2>1, <2>2, IdStill
<1>5. ASSUME NEW i \in Items, Collect(i)
      PROVE  IdInv'
  <2>1. pc = "dispatch" /\ pc' = pc /\ dec[i] = "ended" /\ Clear(i)
    BY <1>5 DEF Collect
  <2>2. DOMAIN tkt' = Slots /\ \A t \in Slots : Holds(t)' => Holds(t) /\ tkt'[t] = tkt[t]
    BY <1>0, <2>1, ClearKeeps
  <2>3. items \in Histories /\ pending(items[i])
    BY <2>1 DEF RunInv, Shape, Worked
  <2>4. items' = items \/ \E st \in {"refused", "interrupted"} : Push(i, st)
    BY <1>5 DEF Collect
  <2>5. \A j \in Items : /\ Reruns(items'[j]) = Reruns(items[j])
                         /\ pending(items'[j]) => pending(items[j])
    <3>1. CASE items' = items
      BY <3>1
    <3>2. ASSUME NEW st \in {"refused", "interrupted"}, Push(i, st)
          PROVE  \A j \in Items : /\ Reruns(items'[j]) = Reruns(items[j])
                                  /\ pending(items'[j]) => pending(items[j])
      <4>1. st \in Words \ {"pending", "rerun"}
        BY DEF Words
      <4>2. QED
        BY <2>3, <3>2, <4>1, PushReruns
    <3>3. QED
      BY <2>4, <3>1, <3>2
  <2>6. QED
    BY <1>0, <1>1, <2>1, <2>2, <2>5, IdStill
<1>6. ASSUME NEW probe_only \in BOOLEAN, ProbeEnds(probe_only)
      PROVE  IdInv'
  <2>1. pc = "probe" /\ pc' \in {"dispatch", "report", "ending"} /\ Clear(0) /\ items' = items
    BY <1>6 DEF ProbeEnds
  <2>2. 0 \in Slots
    BY ItemsFacts DEF Slots
  <2>3. DOMAIN tkt' = Slots /\ \A t \in Slots : Holds(t)' => Holds(t) /\ tkt'[t] = tkt[t]
    BY <2>1, <2>2, ClearKeeps
  <2>4. pc' \in Places
    BY <2>1 DEF Places
  <2>5. QED
    BY <1>1, <2>1, <2>3, <2>4, IdStill
<1>7. QED
  BY <1>2, <1>3, <1>4, <1>5, <1>6

(* A checkpoint that extends another counts no fewer reruns.               *)
LEMMA ExtendsReruns ==
  ASSUME NEW x \in Histories, NEW y \in Histories, Extends(x, y), NEW i \in Items
  PROVE  Reruns(x[i]) <= Reruns(y[i]) /\ Reruns(x[i]) \in Nat /\ Reruns(y[i]) \in Nat
<1>1. x[i] \in Seq(Words) /\ y[i] \in Seq(Words) /\ IsPrefix(x[i], y[i])
  BY HistoriesFacts DEF Extends
<1>2. QED
  BY <1>1, RerunsPrefix, RerunsNat

LEMMA RenameIds ==
  ASSUME RunInv, IdInv, Rename
  PROVE  IdInv'
<1>0. Shape /\ pc \in Places /\ DOMAIN tkt = Slots
  BY DEF RunInv, Shape, IdInv, OwnTickets
<1>1. /\ ~Quiet /\ UNCHANGED <<bookVars, maybe, sentBy, starts, resume, dec, tkt, items, pc>>
  BY DEF Rename, runVars, decVars, recVars, boundVars
<1>2. cpImages' = cpImages \/ cpImages' = cpImages \cup {items}
  BY DEF Rename
<1>3. CASE cpImages' = cpImages
  BY <1>0, <1>1, <1>3, IdStillAll
<1>4. CASE cpImages' = cpImages \cup {items}
  <2>1. pc # "down" /\ items \in Histories /\ items # NoFile
    <3>1. pc # "down"
      BY <1>0, <1>1 DEF Shape
    <3>2. QED
      BY <1>0, <3>1, HistoriesFacts DEF Shape
  <2>2. UNCHANGED <<book, acked, up>>
    BY <1>1 DEF bookVars
  <2>3. Book' /\ Bounded'
    <3>1. up' <=> pc' \in {"scan", "probe", "dispatch", "report", "ending"}
      BY <1>1, <2>2 DEF IdInv, Book
    <3>2. QED
      BY <1>1, <2>2, <3>1, JournalKept
  <2>4. SentOnce'
    BY <1>1 DEF IdInv, SentOnce
  <2>5. SentKnown'
    <3> SUFFICES ASSUME NEW d \in Attempts, sentBy[d] # {}
                 PROVE  /\ \E s \in DOMAIN acked : acked[s].attempt = d
                        /\ NoFile \notin cpImages'
                        /\ d[1] \in Items => \A image \in cpImages' : d[2] <= Reruns(image[d[1]])
      BY <1>1, <2>2 DEF SentKnown
    <3>1. /\ \E s \in DOMAIN acked : acked[s].attempt = d
          /\ NoFile \notin cpImages
          /\ d[1] \in Items => \A image \in cpImages : d[2] <= Reruns(image[d[1]])
      BY DEF IdInv, SentKnown
    <3>2. cp \in cpImages /\ cp \in Histories /\ Extends(cp, items)
      BY <2>1, <3>1 DEF RunInv, Disk
    <3>3. ASSUME d[1] \in Items
          PROVE  d[2] <= Reruns(items[d[1]])
      <4>1. d[2] <= Reruns(cp[d[1]])
        BY <3>1, <3>2, <3>3
      <4>2. /\ Reruns(cp[d[1]]) <= Reruns(items[d[1]])
            /\ Reruns(cp[d[1]]) \in Nat /\ Reruns(items[d[1]]) \in Nat
        BY <2>1, <3>2, <3>3, ExtendsReruns
      <4>3. d[2] \in Nat
        BY LiveAssumption
      <4>4. QED
        BY <4>1, <4>2, <4>3
    <3>4. QED
      BY <1>4, <2>1, <3>1, <3>3
  <2>6. SameReruns'
    BY <1>1, <1>4, <2>1 DEF IdInv, SameReruns
  <2>7. OwnIds'
    BY <1>1 DEF IdInv, OwnIds, Own, rerun
  <2>8. OwnTickets'
    BY <1>1, <2>2 DEF IdInv, OwnTickets, OwnTicket, Holds, Own, rerun
  <2>9. QED
    BY <2>3, <2>4, <2>5, <2>6, <2>7, <2>8 DEF IdInv
<1>5. QED
  BY <1>2, <1>3, <1>4

(* A process begins.                                                       *)
LEMMA BeginIds ==
  ASSUME RunInv, IdInv, PrepareFresh \/ PrepareResume
  PROVE  IdInv'
<1>1. /\ pc = "down" /\ starts' = starts + 1 /\ pc' \in {"prepare", "open"}
      /\ UNCHANGED <<bookVars, maybe, cpImages, sentBy, dec, tkt>>
  BY DEF PrepareFresh, PrepareResume, Begin, recVars, decVars
<1>2. UNCHANGED <<book, acked, up>> /\ ~up
  BY <1>1 DEF bookVars, IdInv, Book
<1>3. /\ Book' /\ Bounded'
      /\ \A s \in DOMAIN acked : s \in DOMAIN acked' /\ acked'[s].attempt = acked[s].attempt
  BY <1>1, <1>2, JournalKept
<1>4. starts \in Nat /\ starts' \in Nat /\ \A p \in 0..starts : p \in 0..starts'
  BY <1>1 DEF IdInv, SentOnce
<1>5. ~resume' => \A d \in Attempts : sentBy[d] = {}
  <2> SUFFICES ASSUME ~resume', NEW d \in Attempts, sentBy[d] # {}
               PROVE  FALSE
    OBVIOUS
  <2>1. ~dir
    BY DEF PrepareFresh, PrepareResume
  <2>2. NoFile \in cpImages
    BY <2>1 DEF RunInv, Disk
  <2>3. QED
    BY <2>2 DEF IdInv, SentKnown
<1>6. SentOnce'
  <2>1. sentBy' \in [Attempts -> SUBSET (0..starts')]
    <3>1. sentBy \in [Attempts -> SUBSET (0..starts)]
      BY DEF IdInv, SentOnce
    <3>2. SUBSET (0..starts) \subseteq SUBSET (0..starts')
      BY <1>4
    <3>3. QED
      BY <1>1, <3>1, <3>2
  <2>2. \A d \in Attempts : \E p \in 0..starts' : sentBy'[d] \subseteq {p}
    BY <1>1, <1>4 DEF IdInv, SentOnce
  <2>3. QED
    BY <1>1, <1>4, <1>5, <2>1, <2>2 DEF SentOnce
<1>7. SentKnown'
  BY <1>1, <1>2 DEF IdInv, SentKnown
<1>8. SameReruns' /\ OwnIds'
  BY <1>1 DEF SameReruns, OwnIds
<1>9. OwnTickets'
  <2>1. \A s \in Slots : ~Holds(s)
    BY <1>2 DEF IdInv, OwnTickets, OwnTicket
  <2>2. QED
    BY <1>1, <2>1 DEF IdInv, OwnTickets, Holds
<1>10. QED
  BY <1>3, <1>6, <1>7, <1>8, <1>9 DEF IdInv

LEMMA OpenIds ==
  ASSUME RunInv, IdInv, OpenJournal
  PROVE  IdInv'
<1>1. /\ pc = "open" /\ ~up /\ up' = TRUE /\ acked' = acked /\ pc' = "scan"
      /\ UNCHANGED <<cpImages, resume, items, sentBy, starts, dec, tkt, maybe, io>>
  BY DEF OpenJournal, Reopen, diskVars, runVars, decVars, recVars, boundVars
<1>2. PICK found \in {f \in [DOMAIN acked -> UNION {Finds(s) : s \in DOMAIN acked}] :
                       \A s \in DOMAIN acked : f[s] \in Finds(s)},
           more \in {{}} \cup {{d} : d \in maybe} :
        book' = [s \in DOMAIN acked \cup {Number(d) : d \in more} |->
                   IF s \in DOMAIN acked THEN [acked[s] EXCEPT !.state = found[s]]
                   ELSE [Res(CHOOSE d \in more : TRUE, 0, Bound) EXCEPT !.state = Liability]]
  BY DEF OpenJournal
<1>3. \A s \in DOMAIN acked : IsRes(acked[s])
  BY DEF IdInv, Book
<1>4. ASSUME NEW s \in DOMAIN acked
      PROVE  s \in DOMAIN book' /\ IsRes(book'[s]) /\ book'[s].attempt = acked[s].attempt
  <2>1. s \in DOMAIN book' /\ book'[s] = [acked[s] EXCEPT !.state = found[s]]
    BY <1>2
  <2>2. QED
    BY <1>3, <2>1, ResFacts
<1>5. ASSUME NEW s \in DOMAIN book', s \notin DOMAIN acked
      PROVE  IsRes(book'[s]) /\ book'[s].attempt \in maybe
  <2> DEFINE a == CHOOSE d \in more : TRUE
             r == Res(a, 0, Bound)
  <2>1. book'[s] = [r EXCEPT !.state = Liability] /\ more # {}
    BY <1>2, <1>5
  <2>2. a \in more /\ more \subseteq maybe
    BY <2>1
  <2> HIDE DEF a
  <2>3. IsRes(r) /\ r.attempt = a
    BY DEF IsRes, Res
  <2> HIDE DEF r
  <2>4. QED
    BY <2>1, <2>2, <2>3, ResFacts
<1>6. Book'
  BY <1>1, <1>3, <1>4, <1>5 DEF Book
<1>7. Bounded'
  <2>1. \A s \in DOMAIN book' : book'[s].attempt \in Known
    BY <1>4, <1>5 DEF Known
  <2>2. Known' \subseteq Known
    BY <1>1, <2>1 DEF Known
  <2>3. QED
    BY <2>2, BoundedSame DEF IdInv
<1>8. Quiet'
  BY <1>1 DEF RunInv, Shape, Quiet
<1>9. DOMAIN tkt' = Slots /\ \A s \in Slots : ~Holds(s)'
  <2>1. \A s \in Slots : ~Holds(s)
    BY <1>1 DEF IdInv, OwnTickets, OwnTicket
  <2>2. QED
    BY <1>1, <2>1 DEF IdInv, OwnTickets, Holds
<1>10. QED
  BY <1>1, <1>6, <1>7, <1>8, <1>9, IdKept

(* The marking gives no pending item an id that was sent under.            *)
LEMMA ScanIds ==
  ASSUME RunInv, IdInv, Scan
  PROVE  IdInv'
<1>1. /\ pc = "scan" /\ Quiet /\ pc' = pc
      /\ UNCHANGED <<bookVars, cpImages, resume, sentBy, starts, dec, tkt, maybe>>
  BY DEF Scan, diskVars, decVars, recVars, boundVars
<1>2. PICK ri \in BOOLEAN :
        items' = [i \in Items |-> Again(Interrupted(items[i], <<i, rerun(i)>>), ri)]
  BY DEF Scan
<1>3. items \in Histories /\ cp = items /\ cp \in cpImages
  BY <1>1 DEF RunInv, Shape, Saved, Disk
<1>4. UNCHANGED <<book, acked, up>> /\ up
  BY <1>1 DEF bookVars, IdInv, Book
<1>5. Book' /\ Bounded'
  BY <1>1, <1>4, JournalKept
<1>6. SentOnce' /\ SentKnown'
  BY <1>1, <1>4 DEF IdInv, SentOnce, SentKnown
<1>7. SameReruns'
  BY <1>1 DEF SameReruns
<1>8. ASSUME NEW i \in Items, pending(items'[i]), NEW d \in Attempts, d = <<i, Reruns(items'[i])>>
      PROVE  sentBy[d] = {}
  <2>1. items[i] \in Hist /\ items'[i] = Again(Interrupted(items[i], <<i, rerun(i)>>), ri)
    BY <1>2, <1>3, HistoriesFacts
  <2>2. \/ items'[i] = items[i] /\ ~Reserved(<<i, rerun(i)>>)
        \/ Reruns(items'[i]) = Reruns(items[i]) + 1
    BY <1>8, <2>1, ScanOf
  <2>3. d[1] = i /\ d[2] = Reruns(items'[i]) /\ Reruns(items[i]) \in Nat
    BY <1>3, <1>8, RerunIs DEF rerun
  <2>4. SUFFICES ASSUME sentBy[d] # {}
                 PROVE  FALSE
    OBVIOUS
  <2>5. PICK s \in DOMAIN acked : acked[s].attempt = d
    BY <2>4 DEF IdInv, SentKnown
  <2>6. s \in DOMAIN book /\ book[s].attempt = d
    BY <1>4, <2>5 DEF IdInv, Book
  <2>7. d[2] <= Reruns(items[i])
    BY <1>3, <2>3, <2>4 DEF IdInv, SentKnown
  <2>8. items'[i] # items[i] \/ Reserved(<<i, rerun(i)>>)
    BY <1>8, <2>6 DEF Reserved, rerun
  <2>9. QED
    BY <2>2, <2>3, <2>7, <2>8
<1>9. OwnIds'
  <2> SUFFICES ASSUME NEW i \in Items, pending(items'[i]), <<i, Reruns(items'[i])>> \in Attempts
               PROVE  sentBy'[<<i, Reruns(items'[i])>>] \subseteq {starts'}
    BY DEF OwnIds, Own, rerun
  <2>1. QED
    BY <1>1, <1>8
<1>10. OwnTickets'
  <2>1. \A s \in Slots : Holds(s) => s = 0
    BY <1>1, ItemsFacts DEF RunInv, Worked, Holds
  <2>2. QED
    BY <1>1, <1>4, <2>1 DEF IdInv, OwnTickets, OwnTicket, Holds, Own
<1>11. QED
  BY <1>5, <1>6, <1>7, <1>9, <1>10 DEF IdInv

LEMMA ScannedIds ==
  ASSUME RunInv, IdInv, Scanned
  PROVE  IdInv'
<1>0. Shape /\ DOMAIN tkt = Slots /\ dec \in [Slots -> DecStates]
  BY DEF RunInv, Shape, IdInv, OwnTickets
<1>1. /\ UNCHANGED <<bookVars, cpImages, items, resume, tkt, sentBy, starts, maybe>>
      /\ io.then = "scan"
      /\ \/ pc' = "probe" /\ io.todo = <<>> /\ dec' = [dec EXCEPT ![0] = "running"]
         \/ pc' = "ending" /\ dec' = dec
  BY DEF Scanned, Wrote, Failed, Fault, diskVars, runVars, recVars, boundVars
<1>2. pc = "scan" /\ ~Quiet /\ (pc' = "probe" => cpImages = {items}) /\ items \in Histories
  BY <1>0, <1>1, IoAt DEF RunInv, Saved, Shape
<1>3. UNCHANGED <<book, acked, up>> /\ up
  BY <1>1, <1>2 DEF bookVars, IdInv, Book
<1>4. Book' /\ Bounded'
  BY <1>1, <1>3, JournalKept
<1>5. SentOnce' /\ SentKnown'
  BY <1>1, <1>2, <1>3 DEF IdInv, SentOnce, SentKnown
<1>6. SameReruns'
  BY <1>1, <1>2, HistoriesFacts DEF SameReruns
<1>7. OwnIds'
  BY <1>1, <1>2 DEF IdInv, OwnIds, Own, rerun
<1>8. OwnTickets'
  <2>1. \A s \in Slots : Holds(s)' => Holds(s)
    BY <1>0, <1>1 DEF Holds
  <2>2. QED
    BY <1>1, <1>3, <2>1 DEF IdInv, OwnTickets, OwnTicket, Own, rerun
<1>9. QED
  BY <1>4, <1>5, <1>6, <1>7, <1>8 DEF IdInv

(* The id a decision reserves under is this process's.                     *)
LEMMA IdIs ==
  ASSUME RunInv, IdInv, NEW s \in Slots, Polled(s), dec[s] = "running"
  PROVE  /\ Id(s) \in Slots \X Nat /\ Id(s)[2] \in Nat
         /\ Id(s) = <<s, IF s = 0 THEN Id(s)[2] ELSE rerun(s)>>
         /\ Own(Id(s))
<1>1. pc = (IF s = 0 THEN "probe" ELSE "dispatch")
  BY DEF Polled
<1>2. up
  BY <1>1 DEF IdInv, Book
<1>3. CASE s # 0
  <2>1. s \in Items /\ s > 0 /\ pc = "dispatch"
    BY <1>1, <1>3, ItemsFacts
  <2>2. Id(s) = <<s, rerun(s)>>
    BY <2>1 DEF Id
  <2>3. rerun(s) \in Nat
    BY <2>1, RerunIs DEF RunInv, Shape
  <2>4. pending(items[s])
    BY <2>1 DEF RunInv, Worked
  <2>5. Own(<<s, rerun(s)>>)
    BY <2>1, <2>4 DEF IdInv, OwnIds
  <2>6. QED
    BY <1>3, <2>2, <2>3, <2>5
<1>4. CASE s = 0
  <2> DEFINE n == IF resume THEN probe_seq + 1 ELSE 0
  <2>1. Id(s) = <<0, n>>
    BY <1>4 DEF Id
  <2>2. /\ probe_seq \in Nat
        /\ \A t \in DOMAIN book : book[t].attempt # <<0, probe_seq + 1>>
    BY ProbeNumber DEF IdInv
  <2>3. n \in Nat
    BY <2>2
  <2>4. Own(<<0, n>>)
    <3>1. CASE ~resume
      BY <1>1, <1>4, <3>1 DEF IdInv, SentOnce, Own
    <3>2. CASE resume
      <4> SUFFICES ASSUME <<0, n>> \in Attempts, sentBy[<<0, n>>] # {}
                   PROVE  FALSE
        BY DEF Own
      <4>1. PICK t \in DOMAIN acked : acked[t].attempt = <<0, n>>
        BY DEF IdInv, SentKnown
      <4>2. t \in DOMAIN book /\ book[t].attempt = <<0, n>>
        BY <1>2, <4>1 DEF IdInv, Book
      <4>3. QED
        BY <2>2, <3>2, <4>2
    <3>3. QED
      BY <3>1, <3>2
  <2> HIDE DEF n
  <2>5. QED
    BY <1>4, <2>1, <2>3, <2>4
<1>5. QED
  BY <1>3, <1>4

LEMMA ReserveIds ==
  ASSUME RunInv, IdInv, NEW s \in Slots, Reserve(s)
  PROVE  IdInv'
<1> DEFINE id == Id(s)
           n == Number(Id(s))
           r == Res(id, 0, Bound)
<1>1. /\ Polled(s) /\ dec[s] = "running" /\ up /\ up' = up /\ n \notin DOMAIN book
      /\ book' = Put(book, n, r) /\ acked' = Put(acked, n, r)
      /\ dec' = [dec EXCEPT ![s] = "held"] /\ tkt' = [tkt EXCEPT ![s] = n]
      /\ UNCHANGED <<cpImages, items, resume, pc, io, sentBy, starts, maybe>>
  BY DEF Reserve, Grant, Untouched, diskVars, runVars, recVars, boundVars
<1>2. /\ id \in Slots \X Nat /\ id = <<s, IF s = 0 THEN id[2] ELSE rerun(s)>> /\ Own(id)
  BY <1>1, IdIs
<1>3. IsRes(r) /\ r.attempt = id
  BY DEF IsRes, Res
<1>4. DOMAIN tkt = Slots /\ dec \in [Slots -> DecStates] /\ pc # "down"
  <2>1. pc # "down"
    BY <1>1 DEF IdInv, Book
  <2>2. QED
    BY <2>1 DEF RunInv, Shape, IdInv, OwnTickets
<1> HIDE DEF id, n, r
<1>5. /\ DOMAIN book' = DOMAIN book \cup {n} /\ book'[n] = r
      /\ \A t \in DOMAIN book : t # n => book'[t] = book[t]
      /\ DOMAIN acked' = DOMAIN acked \cup {n} /\ acked'[n] = r
      /\ \A t \in DOMAIN acked : t # n => acked'[t] = acked[t]
  BY <1>1 DEF Put
<1>6. /\ \A t \in DOMAIN acked : IsRes(acked[t]) /\ t \in DOMAIN book /\ book[t].attempt = acked[t].attempt
      /\ \A t \in DOMAIN book : IsRes(book[t])
      /\ up <=> pc \in {"scan", "probe", "dispatch", "report", "ending"}
  BY <1>1 DEF IdInv, Book
<1>7. n \notin DOMAIN acked
  BY <1>1, <1>6
<1>8. Book'
  <2>1. ASSUME NEW t \in DOMAIN acked'
        PROVE  IsRes(acked'[t]) /\ t \in DOMAIN book' /\ book'[t].attempt = acked'[t].attempt
    BY <1>1, <1>3, <1>5, <1>6, <1>7
  <2>2. ASSUME NEW t \in DOMAIN book'
        PROVE  IsRes(book'[t])
    BY <1>3, <1>5, <1>6
  <2>3. QED
    BY <1>1, <1>6, <2>1, <2>2 DEF Book
<1>9. Bounded'
  <2>1. \A t \in DOMAIN acked' : acked'[t].attempt \in Known \cup {id}
    BY <1>3, <1>5 DEF Known
  <2>2. \A t \in DOMAIN book' : book'[t].attempt \in Known \cup {id}
    BY <1>3, <1>5 DEF Known
  <2>3. Known' \subseteq Known \cup {id}
    BY <1>1, <2>1, <2>2 DEF Known
  <2>4. QED
    BY <1>2, <2>3, BoundedKept DEF IdInv
<1>10. \A t \in DOMAIN acked : t \in DOMAIN acked' /\ acked'[t].attempt = acked[t].attempt
  BY <1>5, <1>7
<1>11. ASSUME NEW t \in Slots, Holds(t)'
       PROVE  \/ OwnTicket(t)'
              \/ Holds(t) /\ tkt'[t] = tkt[t] /\ up' /\ pc' # "down"
  <2>1. CASE t = s
    <3>1. tkt'[s] = n /\ n \in DOMAIN acked' /\ acked'[n].attempt = id
      BY <1>1, <1>3, <1>4, <1>5
    <3>2. s # 0 => rerun(s)' = rerun(s)
      BY <1>1 DEF rerun
    <3>3. id \in Attempts => sentBy'[id] \subseteq {starts'}
      BY <1>1, <1>2 DEF Own
    <3>4. OwnTicket(s)'
      BY <1>1, <1>2, <3>1, <3>2, <3>3 DEF OwnTicket, Own
    <3>5. QED
      BY <2>1, <3>4
  <2>2. CASE t # s
    BY <1>1, <1>4, <1>11, <2>2 DEF Holds
  <2>3. QED
    BY <2>1, <2>2
<1>12. DOMAIN tkt' = Slots /\ (~Quiet' => ~Quiet)
  BY <1>1, <1>4 DEF Quiet
<1>13. QED
  BY <1>1, <1>4, <1>8, <1>9, <1>10, <1>11, <1>12, IdKept

(* A request is sent under the id of its reservation.                      *)
LEMMA SendIds ==
  ASSUME RunInv, IdInv, NEW s \in Slots, Send(s)
  PROVE  IdInv'
<1> DEFINE e == acked[tkt[s]].attempt
<1>1. /\ Polled(s) /\ dec[s] = "held" /\ dec' = [dec EXCEPT ![s] = "sent"]
      /\ sentBy' = [sentBy EXCEPT ![book[tkt[s]].attempt] = @ \cup {starts}]
      /\ UNCHANGED <<bookVars, cpImages, items, resume, pc, io, starts, maybe, tkt>>
  BY DEF Send, Untouched, diskVars, runVars, recVars, boundVars
<1>2. UNCHANGED <<book, acked, up>>
  BY <1>1 DEF bookVars
<1>3. Holds(s)
  BY <1>1 DEF Holds
<1>4. /\ up /\ tkt[s] \in DOMAIN acked
      /\ e = <<s, IF s = 0 THEN e[2] ELSE rerun(s)>> /\ Own(e)
  BY <1>3 DEF IdInv, OwnTickets, OwnTicket
<1>5. book[tkt[s]].attempt = e
  BY <1>4 DEF IdInv, Book
<1>6. pc \in {"probe", "dispatch"}
  BY <1>1 DEF Polled
<1>7. /\ sentBy \in [Attempts -> SUBSET (0..starts)] /\ starts \in Nat /\ starts \in 0..starts
      /\ sentBy' = [sentBy EXCEPT ![e] = sentBy[e] \cup {starts}]
  <2>1. sentBy \in [Attempts -> SUBSET (0..starts)] /\ starts \in Nat
    BY DEF IdInv, SentOnce
  <2> HIDE DEF e
  <2>2. QED
    BY <1>1, <1>5, <2>1
<1> HIDE DEF e
<1>8. /\ \A d \in Attempts : d # e => sentBy'[d] = sentBy[d]
      /\ e \in Attempts => sentBy'[e] = {starts}
      /\ sentBy' \in [Attempts -> SUBSET (0..starts)]
  <2>1. e \in Attempts => sentBy[e] \cup {starts} = {starts}
    BY <1>4 DEF Own
  <2>2. QED
    BY <1>7, <2>1
<1>9. \A d : Own(d) => (d \in Attempts => sentBy'[d] \subseteq {starts'})
  BY <1>1, <1>8 DEF Own
<1>10. Book' /\ Bounded'
  <2>1. up' <=> pc' \in {"scan", "probe", "dispatch", "report", "ending"}
    BY <1>1, <1>2 DEF IdInv, Book
  <2>2. QED
    BY <1>1, <1>2, <2>1, JournalKept
<1>11. SentOnce'
  <2>1. \A d \in Attempts : \E p \in 0..starts : sentBy'[d] \subseteq {p}
    BY <1>7, <1>8 DEF IdInv, SentOnce
  <2>2. pc' # "down" /\ ~resume' => \A d \in Attempts : sentBy'[d] \subseteq {starts}
    BY <1>1, <1>8 DEF IdInv, SentOnce
  <2>3. QED
    BY <1>1, <1>7, <1>8, <2>1, <2>2 DEF SentOnce
<1>12. NoFile \notin cpImages /\ \A image \in cpImages, i \in Items : Reruns(image[i]) = Reruns(items[i])
  BY <1>6 DEF IdInv, SameReruns
<1>13. SentKnown'
  <2> SUFFICES ASSUME NEW d \in Attempts, sentBy'[d] # {}
               PROVE  /\ \E t \in DOMAIN acked : acked[t].attempt = d
                      /\ d[1] \in Items => \A image \in cpImages : d[2] <= Reruns(image[d[1]])
    BY <1>1, <1>2, <1>12 DEF SentKnown
  <2>1. CASE d = e
    <3>1. \E t \in DOMAIN acked : acked[t].attempt = d
      BY <1>4, <2>1 DEF e
    <3>2. ASSUME d[1] \in Items, NEW image \in cpImages
          PROVE  d[2] <= Reruns(image[d[1]])
      <4>1. d[1] = s /\ s # 0
        BY <1>4, <2>1, <3>2, ItemsFacts
      <4>2. d[2] = rerun(s) /\ rerun(s) = Reruns(items[s])
        BY <1>4, <2>1, <4>1 DEF rerun
      <4>3. Reruns(image[s]) = Reruns(items[s])
        BY <1>12, <3>2, <4>1
      <4>4. Reruns(items[s]) \in Nat
        <5>1. items \in Histories /\ s \in Items
          BY <1>6, <3>2, <4>1 DEF RunInv, Shape
        <5>2. QED
          BY <5>1, RerunIs DEF rerun
      <4>5. QED
        BY <4>1, <4>2, <4>3, <4>4
    <3>3. QED
      BY <3>1, <3>2
  <2>2. CASE d # e
    BY <1>8, <2>2 DEF IdInv, SentKnown
  <2>3. QED
    BY <2>1, <2>2
<1>14. SameReruns'
  BY <1>1 DEF IdInv, SameReruns
<1>15. OwnIds'
  <2> SUFFICES ASSUME pc \in {"probe", "dispatch"} \/ (pc = "scan" /\ ~Quiet),
                      NEW i \in Items, pending(items[i]), <<i, rerun(i)>> \in Attempts
               PROVE  sentBy'[<<i, rerun(i)>>] \subseteq {starts'}
    BY <1>1 DEF OwnIds, Own, rerun, Quiet
  <2>1. Own(<<i, rerun(i)>>)
    BY DEF IdInv, OwnIds
  <2>2. QED
    BY <1>9, <2>1
<1>16. OwnTickets'
  <2>1. dec \in [Slots -> DecStates] /\ DOMAIN tkt' = Slots
    BY <1>1 DEF RunInv, Shape, IdInv, OwnTickets
  <2>2. ASSUME NEW t \in Slots, Holds(t)'
        PROVE  OwnTicket(t)'
    <3>1. Holds(t)
      BY <1>1, <1>3, <2>1, <2>2 DEF Holds
    <3>2. /\ up /\ tkt[t] \in DOMAIN acked /\ Own(acked[tkt[t]].attempt)
          /\ acked[tkt[t]].attempt = <<t, IF t = 0 THEN acked[tkt[t]].attempt[2] ELSE rerun(t)>>
      BY <3>1 DEF IdInv, OwnTickets, OwnTicket
    <3>3. acked[tkt[t]].attempt \in Attempts => sentBy'[acked[tkt[t]].attempt] \subseteq {starts'}
      BY <1>9, <3>2
    <3>4. QED
      BY <1>1, <1>2, <3>2, <3>3 DEF OwnTicket, Own, rerun
  <2>3. QED
    BY <2>1, <2>2 DEF OwnTickets
<1>17. QED
  BY <1>10, <1>11, <1>13, <1>14, <1>15, <1>16 DEF IdInv

(* The outcome of a reservation leaves its id alone.                       *)
LEMMA OutcomeKeeps ==
  ASSUME IdInv, NEW s \in Slots, Holds(s), NEW to, RecordOutcome(tkt[s], to), UNCHANGED <<maybe, pc>>
  PROVE  /\ Book' /\ Bounded'
         /\ \A t \in DOMAIN acked : t \in DOMAIN acked' /\ acked'[t].attempt = acked[t].attempt
<1> DEFINE n == tkt[s]
<1>1. /\ up /\ up' = up /\ n \in DOMAIN book
      /\ book' = [book EXCEPT ![n].state = to] /\ acked' = Put(acked, n, book'[n])
  BY DEF RecordOutcome
<1>2. /\ \A t \in DOMAIN acked : IsRes(acked[t]) /\ t \in DOMAIN book /\ book[t].attempt = acked[t].attempt
      /\ \A t \in DOMAIN book : IsRes(book[t])
      /\ up <=> pc \in {"scan", "probe", "dispatch", "report", "ending"}
      /\ n \in DOMAIN acked
  BY <1>1 DEF IdInv, Book, OwnTickets, OwnTicket
<1> HIDE DEF n
<1>3. /\ DOMAIN book' = DOMAIN book /\ book'[n] = [book[n] EXCEPT !.state = to]
      /\ \A t \in DOMAIN book : t # n => book'[t] = book[t]
  BY <1>1
<1>4. IsRes(book'[n]) /\ book'[n].attempt = book[n].attempt
  BY <1>1, <1>2, <1>3, ResFacts
<1>5. /\ DOMAIN acked' = DOMAIN acked \cup {n} /\ acked'[n] = book'[n]
      /\ \A t \in DOMAIN acked : t # n => acked'[t] = acked[t]
  BY <1>1 DEF Put
<1>6. ASSUME NEW t \in DOMAIN book
      PROVE  IsRes(book'[t]) /\ book'[t].attempt = book[t].attempt
  BY <1>2, <1>3, <1>4
<1>7. ASSUME NEW t \in DOMAIN acked
      PROVE  IsRes(acked'[t]) /\ acked'[t].attempt = acked[t].attempt
  BY <1>2, <1>4, <1>5
<1>8. DOMAIN acked' = DOMAIN acked
  BY <1>2, <1>5
<1>9. Book'
  <2>1. ASSUME NEW t \in DOMAIN acked'
        PROVE  IsRes(acked'[t]) /\ t \in DOMAIN book' /\ book'[t].attempt = acked'[t].attempt
    BY <1>2, <1>3, <1>6, <1>7, <1>8
  <2>2. ASSUME NEW t \in DOMAIN book'
        PROVE  IsRes(book'[t])
    BY <1>3, <1>6
  <2>3. QED
    BY <1>1, <1>2, <2>1, <2>2 DEF Book
<1>10. Bounded'
  <2>1. \A t \in DOMAIN acked' : acked'[t].attempt \in Known
    BY <1>7, <1>8 DEF Known
  <2>2. \A t \in DOMAIN book' : book'[t].attempt \in Known
    BY <1>3, <1>6 DEF Known
  <2>3. Known' \subseteq Known
    BY <2>1, <2>2 DEF Known
  <2>4. QED
    BY <2>3, BoundedSame DEF IdInv
<1>11. QED
  BY <1>7, <1>8, <1>9, <1>10

(* Decisions that end, and those that are dropped.                         *)
LEMMA EndsIds ==
  ASSUME RunInv, IdInv, NEW s \in Slots,
         \/ \E r \in Results(given, s) : NoRequest(s, r)
         \/ ReserveRefused(s)
         \/ \E to \in Charges \cup {Released}, r \in Results(given, s) : Settles(s, to, r)
         \/ DropWork(s)
  PROVE  IdInv'
<1>0. DOMAIN tkt = Slots /\ dec \in [Slots -> DecStates] /\ pc \in Places
      /\ (up <=> pc \in {"scan", "probe", "dispatch", "report", "ending"})
  BY DEF RunInv, Shape, IdInv, OwnTickets, Book
<1>1. UNCHANGED <<cpImages, items, resume, pc, io, sentBy, starts>>
  BY DEF NoRequest, ReserveRefused, Settles, Records, DropWork, Untouched, diskVars, runVars, boundVars, Fault
<1>2. ASSUME Book', Bounded',
             \A t \in DOMAIN acked : t \in DOMAIN acked' /\ acked'[t].attempt = acked[t].attempt
      PROVE  IdInv'
  <2>1. DOMAIN tkt' = Slots /\ \A t \in Slots : Holds(t)' => Holds(t) /\ tkt'[t] = tkt[t]
    <3>1. CASE DropWork(s)
      BY <3>1, ClearKeeps DEF DropWork
    <3>2. CASE dec' = [dec EXCEPT ![s] = "ended"] /\ tkt' = tkt
      BY <1>0, <3>2 DEF Holds
    <3>3. QED
      BY <3>1, <3>2 DEF NoRequest, ReserveRefused, Settles, Ends
  <2>2. ASSUME NEW t \in Slots, Holds(t)'
        PROVE  Holds(t) /\ tkt'[t] = tkt[t] /\ up' /\ pc' # "down"
    <3>1. Holds(t) /\ tkt'[t] = tkt[t]
      BY <2>1, <2>2
    <3>2. up
      BY <3>1 DEF IdInv, OwnTickets, OwnTicket
    <3>3. up'
      BY <1>0, <1>1, <1>2, <3>2 DEF Book
    <3>4. QED
      BY <1>0, <1>1, <3>1, <3>2, <3>3
  <2>3. ~Quiet' => ~Quiet
    BY <1>1 DEF Quiet
  <2>4. QED
    BY <1>1, <1>2, <2>1, <2>2, <2>3, IdKept
<1>3. CASE UNCHANGED <<bookVars, maybe>>
  <2>1. UNCHANGED <<book, acked, up, maybe>>
    BY <1>3 DEF bookVars
  <2>2. QED
    BY <1>0, <1>1, <1>2, <2>1, JournalKept
<1>4. CASE Holds(s) /\ maybe' = maybe /\ \E to : RecordOutcome(tkt[s], to)
  <2>1. PICK to : RecordOutcome(tkt[s], to)
    BY <1>4
  <2>2. QED
    BY <1>1, <1>2, <1>4, <2>1, OutcomeKeeps
<1>5. CASE ReserveRefused(s)
  <2>1. /\ Polled(s) /\ dec[s] = "running" /\ UNCHANGED bookVars
        /\ maybe' = maybe \/ maybe' = maybe \cup {Id(s)}
    BY <1>5 DEF ReserveRefused, recVars
  <2>2. UNCHANGED <<book, acked, up>>
    BY <2>1 DEF bookVars
  <2>3. Id(s) \in Slots \X Nat
    BY <2>1, IdIs
  <2>4. Known' \subseteq Known \cup {Id(s)}
    BY <2>1, <2>2 DEF Known
  <2>5. Bounded'
    BY <2>3, <2>4, BoundedKept DEF IdInv
  <2>6. Book'
    BY <1>1, <2>2 DEF IdInv, Book
  <2>7. QED
    BY <1>2, <2>2, <2>5, <2>6
<1>6. CASE \E r \in Results(given, s) : NoRequest(s, r)
  BY <1>3, <1>6 DEF NoRequest, recVars
<1>7. ASSUME NEW to \in Charges \cup {Released}, NEW r \in Results(given, s), Settles(s, to, r)
      PROVE  IdInv'
  <2>1. Holds(s)
    BY <1>7 DEF Settles, Holds
  <2>2. (RecordOutcome(tkt[s], to) /\ maybe' = maybe) \/ UNCHANGED <<bookVars, maybe>>
    BY <1>7 DEF Settles, Records, recVars
  <2>3. QED
    BY <1>3, <1>4, <2>1, <2>2
<1>8. CASE DropWork(s)
  <2>1. maybe' = maybe
    BY <1>8 DEF DropWork, recVars
  <2>2. CASE dec[s] \in {"held", "sent"}
    <3>1. RecordOutcome(tkt[s], IF dec[s] = "sent" THEN Unknown ELSE Released)
      BY <1>8, <2>2 DEF DropWork
    <3>2. QED
      BY <1>4, <2>1, <2>2, <3>1 DEF Holds
  <2>3. CASE dec[s] \notin {"held", "sent"}
    BY <1>3, <1>8, <2>1, <2>3 DEF DropWork
  <2>4. QED
    BY <2>2, <2>3
<1>9. QED
  BY <1>5, <1>6, <1>7, <1>8

LEMMA IdInvInit ==
  ASSUME Init
  PROVE  IdInv
<1>1. /\ book = <<>> /\ acked = <<>> /\ up = FALSE /\ pc = "down" /\ cpImages = {NoFile}
      /\ dec = [s \in Slots |-> "none"] /\ tkt = [s \in Slots |-> 0] /\ maybe = {}
      /\ sentBy = [d \in Attempts |-> {}] /\ starts = 0
  BY DEF Init, BookInit
<1>2. DOMAIN book = {} /\ DOMAIN acked = {}
  BY <1>1
<1>3. Book
  BY <1>1, <1>2 DEF Book
<1>4. Bounded
  <2>1. Known = {}
    BY <1>1, <1>2 DEF Known
  <2>2. 0 \in Nat
    OBVIOUS
  <2>3. QED
    BY <2>1, <2>2 DEF Bounded
<1>5. SentOnce
  <2>1. 0 \in Nat /\ 0 \in 0..0
    OBVIOUS
  <2>2. QED
    BY <1>1, <2>1 DEF SentOnce
<1>6. SentKnown /\ SameReruns /\ OwnIds
  BY <1>1 DEF SentKnown, SameReruns, OwnIds
<1>7. OwnTickets
  BY <1>1 DEF OwnTickets, Holds
<1>8. QED
  BY <1>3, <1>4, <1>5, <1>6, <1>7 DEF IdInv

LEMMA IdInvStep ==
  ASSUME RunInv, IdInv, [Next]_vars, ~lost'
  PROVE  IdInv'
<1>1. CASE Rename
  BY <1>1, RenameIds
<1>2. CASE OpenJournal \/ Scan \/ Scanned
  BY <1>2, OpenIds, ScanIds, ScannedIds
<1>3. CASE PrepareFails \/ OpenRefused \/ Exit \/ Crash
  BY <1>3, ForgetIds
<1>4. CASE \/ SetAside \/ CaseSaved \/ Admit
           \/ \E i \in Items : Collect(i)
           \/ \E probe_only \in BOOLEAN : ProbeEnds(probe_only)
  BY <1>4, DispatchIds
<1>5. CASE \/ DirSync \/ Prepared \/ CaseFails \/ ItemSaved \/ Leave \/ WriteReport \/ Reported
           \/ RemoveOut \/ Raise \/ Over \/ UNCHANGED vars \/ Skip \/ Observe
  BY <1>5, WriteIds
<1>6. ASSUME NEW s \in Slots, Decide(s) \/ DropWork(s)
      PROVE  IdInv'
  BY <1>6, ReserveIds, SendIds, EndsIds DEF Decide
<1>7. CASE PrepareFresh \/ PrepareResume
  BY <1>7, BeginIds
<1>8. QED
  BY <1>1, <1>2, <1>3, <1>4, <1>5, <1>6, <1>7 DEF Next, Step

LEMMA LostStays == ASSUME [Next]_vars, lost PROVE lost'
<1>1. CASE Rename \/ DirSync \/ PrepareFresh \/ PrepareResume \/ RemoveOut
  BY <1>1 DEF Rename, DirSync, PrepareFresh, PrepareResume, Begin, RemoveOut
<1>2. CASE Prepared \/ PrepareFails \/ OpenJournal \/ OpenRefused \/ Scan \/ Scanned \/ Exit
  BY <1>2 DEF Prepared, PrepareFails, OpenJournal, OpenRefused, Scan, Scanned, Exit, diskVars
<1>3. CASE Skip \/ SetAside \/ Admit \/ Observe \/ CaseSaved \/ CaseFails \/ ItemSaved
  BY <1>3 DEF Skip, SetAside, Admit, Observe, CaseSaved, CaseFails, ItemSaved, diskVars
<1>4. CASE Leave \/ WriteReport \/ Reported \/ Raise \/ Over \/ UNCHANGED vars
  BY <1>4 DEF Leave, WriteReport, Reported, Raise, Over, vars, diskVars
<1>5. ASSUME NEW s \in Slots, Decide(s) \/ DropWork(s) PROVE lost'
  BY <1>5 DEF Decide, NoRequest, Reserve, ReserveRefused, Send, Settles, DropWork, Untouched, diskVars
<1>6. ASSUME NEW i \in Items, Collect(i) PROVE lost'
  BY <1>6 DEF Collect, diskVars
<1>7. ASSUME NEW p \in BOOLEAN, ProbeEnds(p) PROVE lost'
  BY <1>7 DEF ProbeEnds, diskVars
<1>8. CASE Crash
  BY <1>8 DEF Crash, Kill, OutStays, OutIsLost, diskVars
<1>9. QED
  BY <1>1, <1>2, <1>3, <1>4, <1>5, <1>6, <1>7, <1>8 DEF Next, Step

(* A decision id is used by one process: whatever is killed, lost or fails *)
(* to be saved, in whichever process, a later process that sends for the   *)
(* same item, or probes the same binding, does so under an id nothing was  *)
(* sent under before. The one exception is in the statement: a power loss  *)
(* that takes --out, whose parent directory run.rs never syncs.            *)
THEOREM IdsStayApart == Spec => []OnceUnderOneId
<1> DEFINE Ids == ~lost => IdInv
<1>1. Init => RunInv /\ Ids
  BY RunInvInit, IdInvInit
<1>2. RunInv /\ Ids /\ [Next]_vars => RunInv' /\ Ids'
  BY RunInvStep, IdInvStep, LostStays
<1>3. RunInv /\ Ids => OnceUnderOneId
  <2> SUFFICES ASSUME IdInv, NEW d \in Attempts
               PROVE  Cardinality(sentBy[d]) <= 1
    BY DEF OnceUnderOneId
  <2>1. PICK p \in 0..starts : sentBy[d] \subseteq {p}
    BY DEF IdInv, SentOnce
  <2>2. IsFiniteSet({p}) /\ Cardinality({p}) = 1
    BY FS_Singleton
  <2>3. IsFiniteSet(sentBy[d]) /\ Cardinality(sentBy[d]) <= Cardinality({p})
    BY <2>1, <2>2, FS_Subset
  <2>4. QED
    BY <2>2, <2>3
<1>4. QED
  BY <1>1, <1>2, <1>3, PTL DEF Spec
=============================================================================
