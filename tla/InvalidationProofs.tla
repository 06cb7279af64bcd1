------------------------- MODULE InvalidationProofs -------------------------
(***************************************************************************)
(* What invalidation keeps for any number of requests, scopes and calls on *)
(* every host, several threads, overlapping calls and attempts handed on   *)
(* included, as long as none of the three steps `slips` records was taken. *)
(***************************************************************************)
EXTENDS Invalidation, FiniteSetTheorems, SequenceTheorems, TLAPS

-----------------------------------------------------------------------------
(* The inductive invariant.                                                *)

Selections == Scopes \cup {All}
Gens == Nat \X Nat
MemoryEntry == [gen : Nat, known : Known]
StoreEntry == [gens : Gens, known : Known]
StoreAnswer == [entry : StoreEntry \cup {None}, gens : Gens]

Shapes ==
    /\ host \in Hosts
    /\ memory \in [gen : Nat, entries : [Scopes -> MemoryEntry \cup {None}]]
    /\ store \in [gens : [Selections -> Nat], entries : [Scopes -> StoreEntry \cup {None}]]
    /\ marks \subseteq Selections
    /\ slot \in [Scopes -> Flight \cup {None}]
    /\ dpc \in [Decisions -> {"new", "lookup", "check", "get", "got", "dispatch", "running",
                              "admit", "write", "put", "served", "end"}]
    /\ captured \in [Decisions -> Nat]
    /\ generations \in [Decisions -> Gens \cup {None}]
    /\ read \in [Decisions -> StoreAnswer \cup {None}]
    /\ result \in [Decisions -> Known \cup {None}]
    /\ settled \in [Decisions -> Known]
    /\ ipc \in [Invalidations -> {"idle", "mark", "store", "invalidated", "done", "failed"}]
    /\ seen \in [Invalidations -> Known]
    /\ slips \subseteq {"read", "answer", "heir"}

\* The calls whose effect the store has for certain: those it has answered for,
\* and those of a call it has carried out and not answered.
Applied ==
    reconciled \cup {j \in Invalidations :
        \E i \in Invalidations : /\ ipc[i] = "invalidated" /\ j \in seen[i]
                                 /\ Covers(Target[i], Target[j])}

\* Calls that may have advanced the store's generation of a selection.
Advanced(t) ==
    {i \in Invalidations : Target[i] = t /\ ipc[i] \in {"invalidated", "done", "failed"}}

\* The memory generation counts the calls; what a call has seen was called.
CallsOK ==
    /\ memory.gen = Cardinality(Called)
    /\ \A t \in Selections : store.gens[t] <= Cardinality(Advanced(t))
    /\ reconciled \subseteq Called /\ complete \subseteq Returned
    /\ \A i \in Invalidations :
         /\ seen[i] \subseteq Called /\ \A j \in seen[i] : j = i \/ ipc[j] # "mark"
         /\ ~HasStore => ipc[i] \in {"idle", "done"}

\* A tier's entry of the current generation, or any of the store, was made after
\* every call it has the effect of, as long as no step slipped.
ScopeOK(s) ==
    /\ memory.entries[s] # None =>
         /\ memory.entries[s].gen <= memory.gen
         /\ Clean /\ memory.entries[s].gen = memory.gen =>
              Covering(Called, s) \subseteq memory.entries[s].known
    /\ Clean /\ store.entries[s] # None =>
         Covering(Applied, s) \subseteq store.entries[s].known
    /\ ~HasStore => store.entries[s] = None

\* A shared call's waiters are the requests that run with it, its owner first.
FlightOK(s) ==
    slot[s] # None =>
        LET ws == slot[s].waiters IN
        /\ Sharing /\ Len(ws) > 0
        /\ \A j, k \in 1..Len(ws) : ws[j] = ws[k] => j = k
        /\ \A j \in 1..Len(ws) : /\ dpc[ws[j]] = "running" /\ ScopeOf[ws[j]] = s
                                 /\ result[ws[j]] = slot[s].known

\* The requests whose output may be admitted.
Owns(d) ==
    \/ dpc[d] \in {"admit", "write", "put"}
    \/ dpc[d] = "running" /\ (Sharing => slot[ScopeOf[d]].waiters[1] = d)

RunOK(d) ==
    dpc[d] = "running" /\ Sharing =>
        slot[ScopeOf[d]] # None /\ \E j \in 1..Len(slot[ScopeOf[d]].waiters) :
                                      slot[ScopeOf[d]].waiters[j] = d

RequestOK(d) ==
    LET s == ScopeOf[d] IN
    /\ dpc[d] # "new" => s \in Scopes
    /\ captured[d] <= memory.gen
    /\ settled[d] \subseteq Covering(Returned, s)
    /\ Clean /\ dpc[d] = "get" =>
         /\ settled[d] \subseteq reconciled
         /\ captured[d] = memory.gen => Covering(Called, s) \subseteq reconciled
    /\ dpc[d] = "got" =>
         /\ read[d] \in StoreAnswer
         /\ read[d].gens[1] <= store.gens[All] /\ read[d].gens[2] <= store.gens[s]
         /\ Clean /\ read[d].entry # None =>
              /\ settled[d] \subseteq read[d].entry.known
              /\ captured[d] = memory.gen => Covering(Called, s) \subseteq read[d].entry.known
    /\ dpc[d] = "served" => result[d] \in Known /\ (Clean => settled[d] \subseteq result[d])
    /\ generations[d] # None => /\ s \in Scopes
                                /\ generations[d][1] <= store.gens[All]
                                /\ generations[d][2] <= store.gens[s]
    /\ Owns(d) =>
         /\ result[d] \in Known
         /\ Clean /\ captured[d] = memory.gen => Called \subseteq result[d]
         /\ Clean /\ generations[d] # None /\ generations[d] = GensOf(s) =>
              Covering(Applied, s) \subseteq result[d]
    /\ dpc[d] \in {"write", "put"} => generations[d] # None
    /\ ~HasStore => dpc[d] \notin {"check", "get", "got", "write", "put"} /\ generations[d] = None

IInv ==
    /\ Shapes /\ CallsOK
    /\ UnavailableUntilReconciled /\ CompleteIsReconciled
    /\ \A s \in Scopes : ScopeOK(s) /\ FlightOK(s)
    /\ \A d \in Decisions : RequestOK(d) /\ RunOK(d)

-----------------------------------------------------------------------------
(* What no step takes back.                                                *)

LEMMA HostIs ==
    ASSUME Shapes
    PROVE  /\ ScopeOf \in [Decisions -> Scopes \cup {None}]
           /\ HasStore \in BOOLEAN /\ Sharing \in BOOLEAN /\ Preemptive \in BOOLEAN
BY InvalidationAssumption
   DEF Shapes, HasStore, Preemptive, Sharing, ScopeOf

Onward ==
    /\ host' = host /\ slips \subseteq slips'
    /\ Returned \subseteq Returned' /\ reconciled \subseteq reconciled'
    /\ memory'.gen \in Nat /\ memory'.gen >= memory.gen
    /\ memory'.gen = memory.gen => Called' = Called
    /\ \A t \in Selections : store'.gens[t] \in Nat /\ store'.gens[t] >= store.gens[t]
    /\ \A s \in Scopes : store'.gens[All] = store.gens[All] /\ store'.gens[s] = store.gens[s]
                           => Covering(Applied', s) \subseteq Covering(Applied, s)

LEMMA RequestKeeps ==
    ASSUME Shapes, NEW d \in Decisions, RequestOK(d), Onward, Owns(d)' => Owns(d),
           dpc'[d] = dpc[d], captured'[d] = captured[d], generations'[d] = generations[d],
           read'[d] = read[d], result'[d] = result[d], settled'[d] = settled[d]
    PROVE  RequestOK(d)'
<1> DEFINE s == ScopeOf[d]
<1>0. Clean' => Clean
  BY DEF Onward, Clean
<1>1. /\ ScopeOf' = ScopeOf /\ HasStore' = HasStore /\ Sharing' = Sharing
  BY DEF Onward, ScopeOf, HasStore, Sharing
<1>2. /\ captured[d] \in Nat /\ memory.gen \in Nat /\ memory'.gen \in Nat
      /\ memory'.gen >= memory.gen
      /\ memory'.gen = memory.gen => Called' = Called
  BY DEF Shapes, Onward
<1>3. captured[d] = memory'.gen /\ captured[d] <= memory.gen => captured[d] = memory.gen
                                                             /\ Called' = Called
  BY <1>2
<1>4. /\ dpc[d] # "new" => s \in Scopes
      /\ captured[d] <= memory.gen
      /\ settled[d] \subseteq Covering(Returned, s)
  BY DEF RequestOK
<1>5. /\ captured[d] <= memory'.gen
      /\ settled[d] \subseteq Covering(Returned', s)
      /\ captured[d] = memory'.gen => captured[d] = memory.gen /\ Called' = Called
  BY <1>2, <1>3, <1>4 DEF Onward, Covering
<1>6. Clean' /\ dpc[d] = "get" =>
         /\ settled[d] \subseteq reconciled'
         /\ captured[d] = memory'.gen => Covering(Called', s) \subseteq reconciled'
  BY <1>0, <1>5 DEF RequestOK, Onward
<1>7. \A t \in Selections : /\ store.gens[t] \in Nat /\ store'.gens[t] \in Nat
                            /\ store'.gens[t] >= store.gens[t]
  BY DEF Shapes, Onward
<1>8. dpc[d] = "got" =>
         /\ read[d] \in StoreAnswer
         /\ read[d].gens[1] <= store'.gens[All] /\ read[d].gens[2] <= store'.gens[s]
         /\ Clean' /\ read[d].entry # None =>
              /\ settled[d] \subseteq read[d].entry.known
              /\ captured[d] = memory'.gen => Covering(Called', s) \subseteq read[d].entry.known
  <2>1. HAVE dpc[d] = "got"
  <2>2. /\ read[d] \in StoreAnswer /\ s \in Scopes
        /\ read[d].gens[1] <= store.gens[All] /\ read[d].gens[2] <= store.gens[s]
        /\ Clean /\ read[d].entry # None =>
              /\ settled[d] \subseteq read[d].entry.known
              /\ captured[d] = memory.gen => Covering(Called, s) \subseteq read[d].entry.known
    BY <2>1 DEF RequestOK
  <2>3. read[d].gens[1] \in Nat /\ read[d].gens[2] \in Nat
    BY <2>2 DEF StoreAnswer, Gens
  <2>4. read[d].gens[1] <= store'.gens[All] /\ read[d].gens[2] <= store'.gens[s]
    BY <1>7, <2>2, <2>3 DEF Selections
  <2>5. QED
    BY <1>0, <1>5, <2>2, <2>4
<1>9. generations[d] # None =>
         /\ s \in Scopes
         /\ generations[d][1] \in Nat /\ generations[d][2] \in Nat
         /\ generations[d][1] <= store.gens[All] /\ generations[d][2] <= store.gens[s]
         /\ generations[d][1] <= store'.gens[All] /\ generations[d][2] <= store'.gens[s]
  <2>1. HAVE generations[d] # None
  <2>2. generations[d] \in Gens
    BY <2>1 DEF Shapes
  <2>3. generations[d][1] \in Nat /\ generations[d][2] \in Nat
    BY <2>2 DEF Gens
  <2>4. s \in Scopes /\ generations[d][1] <= store.gens[All] /\ generations[d][2] <= store.gens[s]
    BY <2>1 DEF RequestOK
  <2>5. QED
    BY <1>7, <2>3, <2>4 DEF Selections
<1>10. Owns(d) =>
         /\ result[d] \in Known
         /\ Clean' /\ captured[d] = memory'.gen => Called' \subseteq result[d]
         /\ Clean' /\ generations[d] # None /\ generations[d] = <<store'.gens[All], store'.gens[s]>> =>
              Covering(Applied', s) \subseteq result[d]
  <2>1. HAVE Owns(d)
  <2>2. /\ result[d] \in Known
        /\ Clean /\ captured[d] = memory.gen => Called \subseteq result[d]
        /\ Clean /\ generations[d] # None /\ generations[d] = <<store.gens[All], store.gens[s]>> =>
              Covering(Applied, s) \subseteq result[d]
    BY <2>1 DEF RequestOK, GensOf
  <2>3. ASSUME Clean', generations[d] # None, generations[d] = <<store'.gens[All], store'.gens[s]>>
        PROVE  Covering(Applied', s) \subseteq result[d]
    <3>1. store'.gens[All] = store.gens[All] /\ store'.gens[s] = store.gens[s] /\ s \in Scopes
      BY <1>7, <1>9, <2>3 DEF Selections
    <3>2. Covering(Applied', s) \subseteq Covering(Applied, s)
      BY <3>1 DEF Onward
    <3>3. QED
      BY <1>0, <2>2, <2>3, <3>1, <3>2
  <2>4. QED
    BY <1>0, <1>5, <2>2, <2>3
<1>11. QED
  BY <1>0, <1>1, <1>4, <1>5, <1>6, <1>8, <1>9, <1>10 DEF RequestOK, Covering, GensOf

LEMMA ScopeKeeps ==
    ASSUME Shapes, NEW s \in Scopes, ScopeOK(s), Onward,
           memory'.entries[s] \in {memory.entries[s], None},
           store'.entries[s] \in {store.entries[s], None},
           store'.entries[s] # None => store'.gens[All] = store.gens[All]
                                       /\ store'.gens[s] = store.gens[s]
    PROVE  ScopeOK(s)'
<1>0. Clean' => Clean
  BY DEF Onward, Clean
<1>1. HasStore' = HasStore
  BY DEF Onward, HasStore
<1>2. memory.gen \in Nat /\ memory'.gen \in Nat
  BY DEF Shapes, Onward
<1>3. memory.entries[s] # None => memory.entries[s].gen \in Nat
  BY DEF Shapes, MemoryEntry
<1>4. memory'.entries[s] # None =>
         /\ memory'.entries[s].gen <= memory'.gen
         /\ Clean' /\ memory'.entries[s].gen = memory'.gen =>
              Covering(Called', s) \subseteq memory'.entries[s].known
  BY <1>0, <1>2, <1>3 DEF ScopeOK, Onward
<1>5. Clean' /\ store'.entries[s] # None => Covering(Applied', s) \subseteq store'.entries[s].known
  BY <1>0 DEF ScopeOK, Onward
<1>6. QED
  BY <1>1, <1>4, <1>5 DEF ScopeOK, Covering

-----------------------------------------------------------------------------
(* The steps of an invalidation.                                           *)

\* The requests and the shared calls stay as they are.
LEMMA RequestsStay ==
    ASSUME Shapes, \A d \in Decisions : RequestOK(d) /\ RunOK(d),
           \A s \in Scopes : FlightOK(s), Onward,
           UNCHANGED <<slot, dpc, captured, generations, read, result, settled>>
    PROVE  /\ \A d \in Decisions : RequestOK(d)' /\ RunOK(d)'
           /\ \A s \in Scopes : FlightOK(s)'
<1>1. ScopeOf' = ScopeOf /\ Sharing' = Sharing
  BY DEF Onward, ScopeOf, Sharing
<1>2. \A d \in Decisions : Owns(d)' <=> Owns(d)
  BY <1>1 DEF Owns
<1>3. \A d \in Decisions : RequestOK(d)'
  BY <1>2, RequestKeeps
<1>4. \A d \in Decisions : RunOK(d)'
  BY <1>1 DEF RunOK
<1>5. \A s \in Scopes : FlightOK(s)'
  BY <1>1 DEF FlightOK
<1>6. QED
  BY <1>3, <1>4, <1>5

LEMMA Finite ==
    /\ IsFiniteSet(Called) /\ Cardinality(Called) \in Nat
    /\ \A t \in Selections : IsFiniteSet(Advanced(t)) /\ Cardinality(Advanced(t)) \in Nat
<1>1. Called \subseteq Invalidations /\ IsFiniteSet(Invalidations)
  BY InvalidationAssumption DEF Called
<1>2. \A t \in Selections : Advanced(t) \subseteq Invalidations
  BY DEF Advanced
<1>3. QED
  BY <1>1, <1>2, FS_Subset, FS_CardinalityType

\* A step of a call that takes nothing back, keeps the calls' own invariants and
\* only removes entries: the removed ones are those whose generations advance.
CallStep ==
    /\ Onward /\ Shapes' /\ CallsOK'
    /\ UnavailableUntilReconciled' /\ CompleteIsReconciled'
    /\ \A s \in Scopes :
         /\ memory'.entries[s] \in {memory.entries[s], None}
         /\ store'.entries[s] \in {store.entries[s], None}
         /\ store'.entries[s] # None => store'.gens[All] = store.gens[All]
                                        /\ store'.gens[s] = store.gens[s]
    /\ UNCHANGED <<slot, dpc, captured, generations, read, result, settled>>

LEMMA CallStepKeeps ==
    ASSUME IInv, CallStep
    PROVE  IInv'
<1>1. /\ Shapes /\ Onward
      /\ \A s \in Scopes : ScopeOK(s) /\ FlightOK(s)
      /\ \A d \in Decisions : RequestOK(d) /\ RunOK(d)
      /\ UNCHANGED <<slot, dpc, captured, generations, read, result, settled>>
  BY DEF IInv, CallStep
<1>2. /\ \A d \in Decisions : RequestOK(d)' /\ RunOK(d)'
      /\ \A s \in Scopes : FlightOK(s)'
  BY <1>1, RequestsStay
<1>3. \A s \in Scopes : ScopeOK(s)'
  BY <1>1, ScopeKeeps DEF CallStep
<1>4. QED
  BY <1>2, <1>3 DEF IInv, CallStep

\* What a call's own step leaves alone.
LEMMA CallShapes ==
    ASSUME Shapes, UNCHANGED decVars,
           memory' \in [gen : Nat, entries : [Scopes -> MemoryEntry \cup {None}]],
           store' \in [gens : [Selections -> Nat], entries : [Scopes -> StoreEntry \cup {None}]],
           marks' \subseteq Selections, seen' \in [Invalidations -> Known],
           slips' \subseteq {"read", "answer", "heir"},
           ipc' \in [Invalidations -> {"idle", "mark", "store", "invalidated", "done", "failed"}]
    PROVE  Shapes'
BY DEF Shapes, decVars

LEMMA CallKeeps ==
    ASSUME IInv, NEW i \in Invalidations, Call(i)
    PROVE  IInv'
<1>1. /\ Shapes /\ CallsOK
      /\ UnavailableUntilReconciled /\ CompleteIsReconciled
  BY DEF IInv
<1>2. /\ ipc[i] = "idle"
      /\ memory'.gen = memory.gen + 1
      /\ \A s \in Scopes : memory'.entries[s] \in {memory.entries[s], None}
      /\ memory' \in [gen : Nat, entries : [Scopes -> MemoryEntry \cup {None}]]
      /\ UNCHANGED <<store, marks, reconciled, complete, slips>>
      /\ UNCHANGED decVars
      /\ host' = host /\ HasStore' = HasStore
  BY <1>1 DEF Call, Forget, Shapes, decVars, HasStore
<1>3. /\ ipc' = [ipc EXCEPT ![i] = IF HasStore THEN "mark" ELSE "done"]
      /\ seen' = [seen EXCEPT ![i] = {j \in Called : ipc[j] # "mark"} \cup {i}]
      /\ ipc \in [Invalidations -> {"idle", "mark", "store", "invalidated", "done", "failed"}]
      /\ seen \in [Invalidations -> Known]
      /\ Called \subseteq Invalidations
  BY <1>1 DEF Call, Shapes, Called
<1>4. /\ ipc'[i] = IF HasStore THEN "mark" ELSE "done"
      /\ \A k \in Invalidations : k # i => ipc'[k] = ipc[k] /\ seen'[k] = seen[k]
      /\ seen'[i] = {j \in Called : ipc[j] # "mark"} \cup {i}
      /\ ipc' \in [Invalidations -> {"idle", "mark", "store", "invalidated", "done", "failed"}]
      /\ seen' \in [Invalidations -> Known]
  BY <1>3 DEF Known
<1>5. Shapes'
  BY <1>1, <1>2, <1>4, CallShapes DEF Shapes
<1>6. /\ Called' = Called \cup {i} /\ i \notin Called
      /\ Returned' = IF HasStore THEN Returned ELSE Returned \cup {i}
      /\ i \notin Returned
  BY <1>2, <1>4 DEF Called, Returned
<1>7. Applied' = Applied
  BY <1>2, <1>4 DEF Applied
<1>8. Onward
  BY <1>1, <1>2, <1>6, <1>7 DEF Onward, Shapes, Selections
<1>9. CallsOK'
  <2>1. memory'.gen = Cardinality(Called')
    <3>1. Cardinality(Called \cup {i}) = Cardinality(Called) + 1
      BY <1>6, Finite, FS_AddElement
    <3>2. memory.gen = Cardinality(Called)
      BY <1>1 DEF CallsOK
    <3>3. QED
      BY <1>2, <1>6, <3>1, <3>2
  <2>2. ASSUME NEW t \in Selections
        PROVE  store'.gens[t] <= Cardinality(Advanced(t)')
    <3>1. Advanced(t) \subseteq Advanced(t)' /\ Advanced(t)' \subseteq Invalidations
      BY <1>2, <1>4 DEF Advanced
    <3>2. IsFiniteSet(Advanced(t)')
      BY <3>1, FS_Subset, InvalidationAssumption
    <3>3. /\ Cardinality(Advanced(t)) <= Cardinality(Advanced(t)')
          /\ Cardinality(Advanced(t)) \in Nat /\ Cardinality(Advanced(t)') \in Nat
      BY <3>1, <3>2, Finite, FS_Subset, FS_CardinalityType
    <3>4. store.gens[t] <= Cardinality(Advanced(t)) /\ store.gens[t] \in Nat
      BY <1>1 DEF CallsOK, Shapes
    <3>5. QED
      BY <1>2, <3>3, <3>4
  <2>3. reconciled' \subseteq Called' /\ complete' \subseteq Returned'
    BY <1>1, <1>2, <1>6 DEF CallsOK
  <2>4. \A k \in Invalidations :
          /\ seen'[k] \subseteq Called' /\ \A j \in seen'[k] : j = k \/ ipc'[j] # "mark"
          /\ ~HasStore => ipc'[k] \in {"idle", "done"}
    BY <1>1, <1>3, <1>4, <1>6 DEF CallsOK
  <2>6. QED
    BY <1>2, <2>1, <2>2, <2>3, <2>4 DEF CallsOK
<1>11. UnavailableUntilReconciled'
  <2>1. SUFFICES ASSUME HasStore, "answer" \notin slips,
                        NEW k \in Called' \ reconciled', ipc'[k] # "mark"
                 PROVE  Target[k] \in marks' \/ All \in marks'
    BY <1>2 DEF UnavailableUntilReconciled, Awaited
  <2>2. k \in Called \ reconciled /\ ipc[k] # "mark"
    BY <1>2, <1>4, <1>6, <2>1 DEF Called
  <2>3. QED
    BY <1>1, <1>2, <2>1, <2>2 DEF UnavailableUntilReconciled, Awaited
<1>12. CompleteIsReconciled'
  BY <1>1, <1>2, <1>4, <1>6 DEF CompleteIsReconciled, CallsOK, Returned
<1>13. CallStep
  BY <1>2, <1>5, <1>8, <1>9, <1>11, <1>12 DEF CallStep, decVars
<1>14. QED
  BY <1>13, CallStepKeeps

\* What a call's later steps share: they come only with a store, and only the
\* call's own place changes.
LEMMA LaterStep ==
    ASSUME IInv, NEW i \in Invalidations, ipc[i] \in {"mark", "store", "invalidated"},
           NEW at \in {"store", "invalidated", "done", "failed"},
           ipc' = [ipc EXCEPT ![i] = at], UNCHANGED decVars, seen' = seen
    PROVE  /\ HasStore /\ HasStore' /\ host' = host
           /\ ipc'[i] = at /\ \A k \in Invalidations : k # i => ipc'[k] = ipc[k]
           /\ ipc' \in [Invalidations ->
                          {"idle", "mark", "store", "invalidated", "done", "failed"}]
           /\ Called' = Called /\ i \in Called
           /\ Returned' = IF at \in {"done", "failed"} THEN Returned \cup {i} ELSE Returned
           /\ i \notin Returned
           /\ \A k \in Invalidations :
                  seen'[k] \subseteq Called' /\ \A j \in seen'[k] : j = k \/ ipc'[j] # "mark"
<1>1. /\ ipc \in [Invalidations -> {"idle", "mark", "store", "invalidated", "done", "failed"}]
      /\ CallsOK
  BY DEF IInv, Shapes
<1>2. host' = host /\ HasStore' = HasStore /\ dpc' = dpc
  BY DEF decVars, HasStore
<1>3. HasStore
  BY <1>1 DEF CallsOK
<1>4. ipc'[i] = at /\ \A k \in Invalidations : k # i => ipc'[k] = ipc[k]
  BY <1>1
<1>5. ipc' \in [Invalidations -> {"idle", "mark", "store", "invalidated", "done", "failed"}]
  BY <1>1
<1>6. /\ Called' = Called /\ i \in Called
      /\ Returned' = IF at \in {"done", "failed"} THEN Returned \cup {i} ELSE Returned
      /\ i \notin Returned
  BY <1>4 DEF Called, Returned
<1>7. \A k \in Invalidations :
          seen'[k] \subseteq Called' /\ \A j \in seen'[k] : j = k \/ ipc'[j] # "mark"
  BY <1>1, <1>4, <1>6 DEF CallsOK, Called
<1>8. QED
  BY <1>2, <1>3, <1>4, <1>5, <1>6, <1>7

LEMMA AdvancedStays ==
    ASSUME NEW t \in Selections, NEW i \in Invalidations,
           ipc'[i] \in {"invalidated", "done", "failed"} \/ i \notin Advanced(t),
           \A k \in Invalidations : k # i => ipc'[k] = ipc[k]
    PROVE  /\ Cardinality(Advanced(t)') \in Nat
           /\ Cardinality(Advanced(t)) <= Cardinality(Advanced(t)')
<1>1. Advanced(t) \subseteq Advanced(t)' /\ Advanced(t)' \subseteq Invalidations
  BY DEF Advanced
<1>2. IsFiniteSet(Advanced(t)')
  BY <1>1, FS_Subset, InvalidationAssumption
<1>3. QED
  BY <1>1, <1>2, FS_Subset, FS_CardinalityType

LEMMA MarkKeeps ==
    ASSUME IInv, NEW i \in Invalidations, Mark(i)
    PROVE  IInv'
<1>1. /\ Shapes /\ CallsOK
      /\ UnavailableUntilReconciled /\ CompleteIsReconciled
  BY DEF IInv
<1>2. PICK at : at = IF i \in host.memoryOnly THEN "done" ELSE "store"
  OBVIOUS
<1>3. /\ ipc[i] = "mark" /\ marks' = marks \cup {Target[i]}
      /\ ipc' = [ipc EXCEPT ![i] = at] /\ at \in {"done", "store"}
      /\ UNCHANGED <<memory, store, seen, reconciled, complete, slips>> /\ UNCHANGED decVars
  BY <1>2 DEF Mark
<1>4. /\ HasStore /\ HasStore' /\ host' = host
      /\ ipc'[i] = at /\ \A k \in Invalidations : k # i => ipc'[k] = ipc[k]
      /\ ipc' \in [Invalidations -> {"idle", "mark", "store", "invalidated", "done", "failed"}]
      /\ Called' = Called /\ i \in Called
      /\ Returned' = IF at \in {"done", "failed"} THEN Returned \cup {i} ELSE Returned
      /\ \A k \in Invalidations :
             seen'[k] \subseteq Called' /\ \A j \in seen'[k] : j = k \/ ipc'[j] # "mark"
  BY <1>3, LaterStep
<1>5. marks' \subseteq Selections
  BY <1>1, <1>3, InvalidationAssumption DEF Shapes, Selections
<1>6. Shapes'
  BY <1>1, <1>3, <1>4, <1>5, CallShapes DEF Shapes
<1>7. Applied' = Applied
  BY <1>3, <1>4 DEF Applied
<1>8. Onward
  BY <1>1, <1>3, <1>4, <1>7 DEF Onward, Shapes, Selections
<1>9. CallsOK'
  <2>1. ASSUME NEW t \in Selections
        PROVE  store'.gens[t] <= Cardinality(Advanced(t)')
    <3>1. i \notin Advanced(t)
      BY <1>3 DEF Advanced
    <3>2. Cardinality(Advanced(t)') \in Nat /\ Cardinality(Advanced(t)) <= Cardinality(Advanced(t)')
      BY <1>4, <3>1, AdvancedStays
    <3>3. store.gens[t] <= Cardinality(Advanced(t)) /\ store.gens[t] \in Nat
      BY <1>1 DEF CallsOK, Shapes
    <3>4. QED
      BY <1>3, <3>2, <3>3, Finite
  <2>2. QED
    BY <1>1, <1>3, <1>4, <2>1 DEF CallsOK
<1>10. UnavailableUntilReconciled'
  BY <1>1, <1>3, <1>4 DEF UnavailableUntilReconciled, Awaited
<1>11. CompleteIsReconciled'
  BY <1>1, <1>3 DEF CompleteIsReconciled
<1>12. CallStep
  BY <1>3, <1>4, <1>6, <1>8, <1>9, <1>10, <1>11 DEF CallStep, decVars
<1>13. QED
  BY <1>12, CallStepKeeps

LEMMA StoreInvalidatesKeeps ==
    ASSUME IInv, NEW i \in Invalidations, StoreInvalidates(i)
    PROVE  IInv'
<1>1. /\ Shapes /\ CallsOK
      /\ UnavailableUntilReconciled /\ CompleteIsReconciled
      /\ Target[i] \in Selections
  BY InvalidationAssumption DEF IInv, Selections
<1>2. /\ ipc[i] = "store"
      /\ ipc' = [ipc EXCEPT ![i] = "invalidated"]
      /\ store' = [gens |-> [store.gens EXCEPT ![Target[i]] = @ + 1],
                   entries |-> [s \in Scopes |->
                                IF Covers(Target[i], s) THEN None ELSE store.entries[s]]]
      /\ UNCHANGED <<memory, marks, seen, reconciled, complete, slips>> /\ UNCHANGED decVars
  BY DEF StoreInvalidates
<1>3. /\ HasStore /\ HasStore' /\ host' = host
      /\ ipc'[i] = "invalidated" /\ \A k \in Invalidations : k # i => ipc'[k] = ipc[k]
      /\ ipc' \in [Invalidations -> {"idle", "mark", "store", "invalidated", "done", "failed"}]
      /\ Called' = Called /\ i \in Called
      /\ Returned' = Returned
      /\ i \notin Returned
      /\ \A k \in Invalidations :
             seen'[k] \subseteq Called' /\ \A j \in seen'[k] : j = k \/ ipc'[j] # "mark"
  <2>1. PICK at \in {"store", "invalidated", "done", "failed"} : at = "invalidated"
    OBVIOUS
  <2>2. QED
    BY <1>2, <2>1, LaterStep
<1>4. /\ store.gens \in [Selections -> Nat]
      /\ store.entries \in [Scopes -> StoreEntry \cup {None}]
      /\ store' \in [gens : [Selections -> Nat], entries : [Scopes -> StoreEntry \cup {None}]]
  BY <1>1, <1>2 DEF Shapes
<1>5. /\ store'.gens[Target[i]] = store.gens[Target[i]] + 1
      /\ \A t \in Selections : t # Target[i] => store'.gens[t] = store.gens[t]
      /\ \A t \in Selections : store'.gens[t] \in Nat /\ store'.gens[t] >= store.gens[t]
      /\ \A s \in Scopes :
           store'.entries[s] = IF Covers(Target[i], s) THEN None ELSE store.entries[s]
  BY <1>1, <1>2, <1>4
<1>6. Shapes'
  BY <1>1, <1>2, <1>3, <1>4, CallShapes DEF Shapes
<1>7. Applied' = Applied \cup {j \in seen[i] : Covers(Target[i], Target[j])}
  <2>1. seen[i] \subseteq Invalidations
    BY <1>1 DEF Shapes, Known
  <2>2. QED
    BY <1>2, <1>3, <2>1 DEF Applied
<1>8. \A s \in Scopes : store'.gens[All] = store.gens[All] /\ store'.gens[s] = store.gens[s]
                          => Covering(Applied', s) \subseteq Covering(Applied, s)
  <2>1. SUFFICES ASSUME NEW s \in Scopes, store'.gens[All] = store.gens[All],
                        store'.gens[s] = store.gens[s]
                 PROVE  Covering(Applied', s) \subseteq Covering(Applied, s)
    OBVIOUS
  <2>2. Target[i] # All /\ Target[i] # s
    BY <1>1, <1>4, <1>5, <2>1 DEF Selections
  <2>3. QED
    BY <1>7, <2>2 DEF Covering, Covers
<1>9. Onward
  BY <1>1, <1>2, <1>3, <1>5, <1>8 DEF Onward, Shapes
<1>10. CallsOK'
  <2>1. ASSUME NEW t \in Selections
        PROVE  store'.gens[t] <= Cardinality(Advanced(t)')
    <3>1. /\ store.gens[t] <= Cardinality(Advanced(t)) /\ store.gens[t] \in Nat
          /\ Cardinality(Advanced(t)) \in Nat
      BY <1>1, Finite DEF CallsOK, Shapes
    <3>2. CASE t = Target[i]
      <4>1. Advanced(t)' = Advanced(t) \cup {i} /\ i \notin Advanced(t)
        BY <1>2, <1>3, <3>2 DEF Advanced
      <4>2. Cardinality(Advanced(t) \cup {i}) = Cardinality(Advanced(t)) + 1
        BY <4>1, Finite, FS_AddElement
      <4>3. QED
        BY <1>5, <3>1, <3>2, <4>1, <4>2
    <3>3. CASE t # Target[i]
      <4>1. Advanced(t)' = Advanced(t)
        BY <1>2, <1>3, <3>3 DEF Advanced
      <4>2. QED
        BY <1>5, <3>1, <3>3, <4>1
    <3>4. QED
      BY <3>2, <3>3
  <2>2. QED
    BY <1>1, <1>2, <1>3, <2>1 DEF CallsOK
<1>11. UnavailableUntilReconciled'
  BY <1>1, <1>2, <1>3 DEF UnavailableUntilReconciled, Awaited
<1>12. CompleteIsReconciled'
  BY <1>1, <1>2 DEF CompleteIsReconciled
<1>13. \A s \in Scopes : /\ store'.entries[s] \in {store.entries[s], None}
                         /\ store'.entries[s] # None => store'.gens[All] = store.gens[All]
                                                        /\ store'.gens[s] = store.gens[s]
  BY <1>5 DEF Covers, Selections
<1>14. CallStep
  BY <1>2, <1>3, <1>6, <1>9, <1>10, <1>11, <1>12, <1>13 DEF CallStep, decVars
<1>15. QED
  BY <1>14, CallStepKeeps

LEMMA StoreAnswersKeeps ==
    ASSUME IInv, NEW i \in Invalidations, StoreAnswers(i)
    PROVE  IInv'
<1>1. /\ Shapes /\ CallsOK
      /\ UnavailableUntilReconciled /\ CompleteIsReconciled
  BY DEF IInv
<1>2. /\ ipc[i] = "invalidated"
      /\ ipc' = [ipc EXCEPT ![i] = "done"]
      /\ marks' = Unmarked(Target[i])
      /\ complete' = IF IsComplete(Target[i]) THEN complete \cup {i} ELSE complete
      /\ reconciled' = reconciled \cup {j \in seen[i] : Covers(Target[i], Target[j])}
      /\ slips' = IF Overtakes(i) THEN slips \cup {"answer"} ELSE slips
      /\ UNCHANGED <<memory, store, seen>> /\ UNCHANGED decVars
  BY DEF StoreAnswers
<1>3. /\ HasStore /\ HasStore' /\ host' = host
      /\ ipc'[i] = "done" /\ \A k \in Invalidations : k # i => ipc'[k] = ipc[k]
      /\ ipc' \in [Invalidations -> {"idle", "mark", "store", "invalidated", "done", "failed"}]
      /\ Called' = Called /\ i \in Called
      /\ Returned' = Returned \cup {i}
      /\ i \notin Returned
      /\ \A k \in Invalidations :
             seen'[k] \subseteq Called' /\ \A j \in seen'[k] : j = k \/ ipc'[j] # "mark"
  <2>1. PICK at \in {"store", "invalidated", "done", "failed"} : at = "done"
    OBVIOUS
  <2>2. QED
    BY <1>2, <2>1, LaterStep
<1>4. marks' \subseteq Selections
  BY <1>1, <1>2 DEF Shapes, Unmarked
<1>5. Shapes'
  BY <1>1, <1>2, <1>3, <1>4, CallShapes DEF Shapes
<1>6. Applied' \subseteq Applied
  <2>1. seen[i] \subseteq Invalidations
    BY <1>1 DEF Shapes, Known
  <2>2. QED
    BY <1>2, <1>3, <2>1 DEF Applied
<1>7. Onward
  BY <1>1, <1>2, <1>3, <1>6 DEF Onward, Shapes, Selections, Covering
<1>8. CallsOK'
  <2>1. ASSUME NEW t \in Selections
        PROVE  store'.gens[t] <= Cardinality(Advanced(t)')
    <3>1. Cardinality(Advanced(t)') \in Nat /\ Cardinality(Advanced(t)) <= Cardinality(Advanced(t)')
      BY <1>3, AdvancedStays
    <3>2. store.gens[t] <= Cardinality(Advanced(t)) /\ store.gens[t] \in Nat
      BY <1>1 DEF CallsOK, Shapes
    <3>3. QED
      BY <1>2, <3>1, <3>2, Finite
  <2>2. reconciled' \subseteq Called' /\ complete' \subseteq Returned'
    BY <1>1, <1>2, <1>3 DEF CallsOK
  <2>3. QED
    BY <1>1, <1>2, <1>3, <2>1, <2>2 DEF CallsOK
<1>9. "answer" \notin slips' =>
         /\ ~Overtakes(i) /\ "answer" \notin slips
         /\ \A j \in Called \ reconciled :
              ipc[j] # "mark" => Target[j] \in marks \/ All \in marks
  BY <1>1, <1>2, <1>3 DEF UnavailableUntilReconciled, Awaited
<1>10. UnavailableUntilReconciled'
  <2>1. SUFFICES ASSUME "answer" \notin slips', NEW k \in Called \ reconciled',
                        ipc'[k] # "mark"
                 PROVE  Target[k] \in marks' \/ All \in marks'
    BY <1>3 DEF UnavailableUntilReconciled, Awaited
  <2>2. k \in Called \ reconciled /\ ipc[k] # "mark" /\ k \in Invalidations
    BY <1>2, <1>3, <2>1 DEF Called
  <2>3. ~Covers(Target[i], Target[k])
    BY <1>2, <1>9, <2>1, <2>2 DEF Overtakes
  <2>4. QED
    BY <1>2, <1>9, <2>1, <2>2, <2>3 DEF Unmarked, Covers
<1>11. CompleteIsReconciled'
  <2>1. SUFFICES ASSUME "answer" \notin slips'
                 PROVE  \A k \in complete' :
                          {j \in seen[k] : Covers(Target[k], Target[j])
                                           \/ Covers(Target[j], Target[k])}
                            \subseteq reconciled'
    BY <1>2 DEF CompleteIsReconciled
  <2>2. ASSUME NEW k \in complete', k # i
        PROVE  {j \in seen[k] : Covers(Target[k], Target[j]) \/ Covers(Target[j], Target[k])}
                 \subseteq reconciled'
    BY <1>1, <1>2, <1>9, <2>1, <2>2 DEF CompleteIsReconciled
  <2>3. ASSUME IsComplete(Target[i]), NEW j \in seen[i],
               Covers(Target[i], Target[j]) \/ Covers(Target[j], Target[i])
        PROVE  j \in reconciled'
    <3>1. CASE Covers(Target[i], Target[j])
      BY <1>2, <2>3, <3>1
    <3>2. CASE ~Covers(Target[i], Target[j])
      <4>1. Target[j] = All /\ Target[i] # All
        BY <2>3, <3>2 DEF Covers
      <4>2. All \notin marks
        BY <2>3, <4>1 DEF IsComplete, Unmarked
      <4>3. j \in Called /\ ipc[j] # "mark"
        BY <1>1, <1>2, <1>3 DEF CallsOK
      <4>4. QED
        BY <1>2, <1>9, <2>1, <4>1, <4>2, <4>3
    <3>3. QED
      BY <3>1, <3>2
  <2>4. i \notin complete
    BY <1>1, <1>3 DEF CallsOK
  <2>5. QED
    BY <1>2, <2>2, <2>3, <2>4
<1>12. CallStep
  BY <1>2, <1>3, <1>5, <1>7, <1>8, <1>10, <1>11 DEF CallStep, decVars
<1>13. QED
  BY <1>12, CallStepKeeps

LEMMA StoreFailsKeeps ==
    ASSUME IInv, NEW i \in Invalidations, StoreFails(i)
    PROVE  IInv'
<1>1. /\ Shapes /\ CallsOK
      /\ UnavailableUntilReconciled /\ CompleteIsReconciled
  BY DEF IInv
<1>2. /\ ipc[i] \in {"store", "invalidated"}
      /\ ipc' = [ipc EXCEPT ![i] = "failed"]
      /\ UNCHANGED <<memory, store, marks, seen, reconciled, complete, slips>>
      /\ UNCHANGED decVars
  BY DEF StoreFails
<1>3. /\ HasStore /\ HasStore' /\ host' = host
      /\ ipc'[i] = "failed" /\ \A k \in Invalidations : k # i => ipc'[k] = ipc[k]
      /\ ipc' \in [Invalidations -> {"idle", "mark", "store", "invalidated", "done", "failed"}]
      /\ Called' = Called /\ i \in Called
      /\ Returned' = Returned \cup {i}
      /\ i \notin Returned
      /\ \A k \in Invalidations :
             seen'[k] \subseteq Called' /\ \A j \in seen'[k] : j = k \/ ipc'[j] # "mark"
  <2>1. PICK at \in {"store", "invalidated", "done", "failed"} : at = "failed"
    OBVIOUS
  <2>2. QED
    BY <1>2, <2>1, LaterStep
<1>4. Shapes'
  BY <1>1, <1>2, <1>3, CallShapes DEF Shapes
<1>5. Applied' \subseteq Applied
  BY <1>2, <1>3 DEF Applied
<1>6. Onward
  BY <1>1, <1>2, <1>3, <1>5 DEF Onward, Shapes, Selections, Covering
<1>7. CallsOK'
  <2>1. ASSUME NEW t \in Selections
        PROVE  store'.gens[t] <= Cardinality(Advanced(t)')
    <3>1. Cardinality(Advanced(t)') \in Nat /\ Cardinality(Advanced(t)) <= Cardinality(Advanced(t)')
      BY <1>3, AdvancedStays
    <3>2. store.gens[t] <= Cardinality(Advanced(t)) /\ store.gens[t] \in Nat
      BY <1>1 DEF CallsOK, Shapes
    <3>3. QED
      BY <1>2, <3>1, <3>2, Finite
  <2>2. QED
    BY <1>1, <1>2, <1>3, <2>1 DEF CallsOK
<1>8. UnavailableUntilReconciled'
  BY <1>1, <1>2, <1>3 DEF UnavailableUntilReconciled, Awaited
<1>9. CompleteIsReconciled'
  BY <1>1, <1>2 DEF CompleteIsReconciled
<1>10. CallStep
  BY <1>2, <1>3, <1>4, <1>6, <1>7, <1>8, <1>9 DEF CallStep, decVars
<1>11. QED
  BY <1>10, CallStepKeeps

-----------------------------------------------------------------------------
(* The steps of a request.                                                 *)

\* The calls, and how far each tier has advanced, stay as they are.
Steady ==
    /\ UNCHANGED invVars /\ marks' = marks /\ slips \subseteq slips'
    /\ memory'.gen = memory.gen /\ store'.gens = store.gens

LEMMA SteadyKeeps ==
    ASSUME IInv, Steady
    PROVE  /\ Onward /\ CallsOK' /\ UnavailableUntilReconciled' /\ CompleteIsReconciled'
           /\ Called' = Called /\ Returned' = Returned /\ Applied' = Applied
           /\ HasStore' = HasStore /\ Sharing' = Sharing /\ ScopeOf' = ScopeOf
           /\ reconciled' = reconciled /\ memory'.gen = memory.gen
           /\ store'.gens = store.gens /\ \A s \in Scopes : GensOf(s)' = GensOf(s)
           /\ memory.gen \in Nat /\ store.gens \in [Selections -> Nat]
           /\ Returned \subseteq Called /\ Applied \subseteq Called
           /\ reconciled \subseteq Applied /\ (Clean' => Clean)
<1>1. /\ host' = host /\ ipc' = ipc /\ seen' = seen /\ reconciled' = reconciled
      /\ complete' = complete /\ marks' = marks /\ slips \subseteq slips'
      /\ memory'.gen = memory.gen /\ store'.gens = store.gens
      /\ memory.gen \in Nat /\ store.gens \in [Selections -> Nat]
  BY DEF IInv, Shapes, Steady, invVars
<1>2. /\ Called' = Called /\ Returned' = Returned /\ Applied' = Applied
      /\ HasStore' = HasStore /\ Sharing' = Sharing /\ ScopeOf' = ScopeOf
      /\ \A s \in Scopes : GensOf(s)' = GensOf(s)
      /\ \A t \in Selections : Advanced(t)' = Advanced(t)
  BY <1>1 DEF Called, Returned, Applied, HasStore, Sharing, ScopeOf, GensOf, Advanced
<1>3. Onward
  BY <1>1, <1>2 DEF Onward
<1>4. CallsOK'
  BY <1>1, <1>2 DEF IInv, CallsOK
<1>5. UnavailableUntilReconciled' /\ CompleteIsReconciled'
  BY <1>1, <1>2 DEF IInv, UnavailableUntilReconciled, Awaited, CompleteIsReconciled
<1>6. Returned \subseteq Called /\ reconciled \subseteq Applied
  BY DEF Returned, Called, Applied
<1>7. Applied \subseteq Called
  BY DEF Applied, IInv, CallsOK
<1>8. Clean' => Clean
  BY <1>1 DEF Clean
<1>9. QED
  BY <1>1, <1>2, <1>3, <1>4, <1>5, <1>6, <1>7, <1>8

\* A request's place and values stay as they are.
Same(q) ==
    /\ dpc'[q] = dpc[q] /\ captured'[q] = captured[q] /\ generations'[q] = generations[q]
    /\ read'[q] = read[q] /\ result'[q] = result[q] /\ settled'[q] = settled[q]

\* A step of one request alone, outside a shared call.  Each scope keeps its
\* entries or loses them, unless its new ones are as they should be.
QuietStep(d) ==
    /\ Steady /\ Shapes' /\ slot' = slot
    /\ dpc[d] # "running" /\ dpc'[d] # "running"
    /\ \A q \in Decisions : q # d => Same(q)
    /\ \A s \in Scopes : \/ /\ memory'.entries[s] \in {memory.entries[s], None}
                            /\ store'.entries[s] \in {store.entries[s], None}
                         \/ ScopeOK(s)'
    /\ RequestOK(d)'

LEMMA QuietStepKeeps ==
    ASSUME IInv, NEW d \in Decisions, QuietStep(d)
    PROVE  IInv'
<1>1. /\ Shapes /\ CallsOK
      /\ \A s \in Scopes : ScopeOK(s) /\ FlightOK(s)
      /\ \A q \in Decisions : RequestOK(q) /\ RunOK(q)
  BY DEF IInv
<1>2. /\ Steady /\ Shapes' /\ slot' = slot
      /\ dpc[d] # "running" /\ dpc'[d] # "running"
      /\ \A q \in Decisions : q # d => Same(q)
      /\ RequestOK(d)'
  BY DEF QuietStep
<1>3. /\ Onward /\ CallsOK' /\ UnavailableUntilReconciled' /\ CompleteIsReconciled'
      /\ HasStore' = HasStore /\ Sharing' = Sharing /\ ScopeOf' = ScopeOf
      /\ store'.gens = store.gens
  BY <1>2, SteadyKeeps
<1>6. \A s \in Scopes : ScopeOK(s)'
  BY <1>1, <1>3, ScopeKeeps DEF QuietStep
<1>7. \A q \in Decisions : RequestOK(q)'
  <2>1. SUFFICES ASSUME NEW q \in Decisions, q # d PROVE RequestOK(q)'
    BY <1>2
  <2>2. Same(q)
    BY <1>2, <2>1
  <2>3. Owns(q)' => Owns(q)
    BY <1>2, <1>3, <2>2 DEF Owns, Same
  <2>4. QED
    BY <1>1, <1>3, <2>2, <2>3, RequestKeeps DEF Same
<1>8. \A q \in Decisions : RunOK(q)'
  BY <1>1, <1>2, <1>3 DEF RunOK, Same
<1>9. \A s \in Scopes : FlightOK(s)'
  <2>1. SUFFICES ASSUME NEW s \in Scopes, slot[s] # None PROVE FlightOK(s)'
    BY <1>2 DEF FlightOK
  <2>2. slot[s].waiters \in Seq(Decisions)
    BY <1>1, <2>1 DEF Shapes, Flight
  <2>3. /\ Sharing /\ Len(slot[s].waiters) > 0
        /\ \A j, k \in 1..Len(slot[s].waiters) :
             slot[s].waiters[j] = slot[s].waiters[k] => j = k
        /\ \A j \in 1..Len(slot[s].waiters) :
             /\ dpc[slot[s].waiters[j]] = "running" /\ ScopeOf[slot[s].waiters[j]] = s
             /\ result[slot[s].waiters[j]] = slot[s].known
    BY <1>1, <2>1 DEF FlightOK
  <2>4. \A j \in 1..Len(slot[s].waiters) :
           slot[s].waiters[j] \in Decisions /\ Same(slot[s].waiters[j])
    BY <1>2, <2>2, <2>3
  <2>5. 1 \in 1..Len(slot[s].waiters)
    BY <2>2, <2>3
  <2>6. QED
    BY <1>2, <1>3, <2>3, <2>4, <2>5 DEF FlightOK, Same
<1>10. QED
  BY <1>2, <1>3, <1>6, <1>7, <1>8, <1>9 DEF IInv

\* What is known of a request and its scope when it takes a quiet step.
LEMMA RequestIs ==
    ASSUME IInv, NEW d \in Decisions, dpc[d] # "new"
    PROVE  /\ Shapes /\ RequestOK(d) /\ ScopeOf[d] \in Scopes
           /\ ScopeOK(ScopeOf[d]) /\ FlightOK(ScopeOf[d])
           /\ captured[d] \in Nat /\ memory.gen \in Nat
           /\ result[d] \in Known \cup {None} /\ settled[d] \in Known
           /\ memory.entries \in [Scopes -> MemoryEntry \cup {None}]
           /\ store.entries \in [Scopes -> StoreEntry \cup {None}]
<1>1. Shapes /\ RequestOK(d) /\ ScopeOf[d] \in Scopes
  BY DEF IInv, RequestOK
<1>2. ScopeOK(ScopeOf[d]) /\ FlightOK(ScopeOf[d])
  BY <1>1 DEF IInv
<1>3. QED
  BY <1>1, <1>2 DEF Shapes

LEMMA CaptureKeeps ==
    ASSUME IInv, NEW d \in Decisions, Capture(d)
    PROVE  IInv'
<1>1. /\ dpc[d] = "new" /\ ScopeOf[d] # None
      /\ captured' = [captured EXCEPT ![d] = memory.gen]
      /\ settled' = [settled EXCEPT ![d] = Covering(Returned, ScopeOf[d])]
      /\ dpc' = [dpc EXCEPT ![d] = "lookup"]
      /\ UNCHANGED <<memory, store, marks, slot, generations, read, result, slips>>
      /\ UNCHANGED invVars
  BY DEF Capture, Goto
<1>2. Shapes /\ RequestOK(d)
  BY DEF IInv
<1>3. Steady
  BY <1>1 DEF Steady
<1>4. ScopeOf[d] \in Scopes
  BY <1>1, <1>2, HostIs
<1>5. Covering(Returned, ScopeOf[d]) \in Known
  BY DEF Covering, Returned, Known
<1>6. Shapes'
  BY <1>1, <1>2, <1>5 DEF Shapes, invVars
<1>7. /\ dpc'[d] = "lookup" /\ captured'[d] = memory.gen /\ generations'[d] = generations[d]
      /\ settled'[d] = Covering(Returned, ScopeOf[d])
      /\ \A q \in Decisions : q # d => Same(q)
  BY <1>1, <1>2 DEF Shapes, Same
<1>8. RequestOK(d)'
  BY <1>2, <1>3, <1>4, <1>7, SteadyKeeps DEF RequestOK, Owns, Covering
<1>9. QuietStep(d)
  BY <1>1, <1>3, <1>6, <1>7, <1>8 DEF QuietStep
<1>10. QED
  BY <1>9, QuietStepKeeps

LEMMA LookupKeeps ==
    ASSUME IInv, NEW d \in Decisions, Lookup(d)
    PROVE  IInv'
<1> DEFINE s == ScopeOf[d]
           e == memory.entries[s]
           hit == e # None /\ e.gen = memory.gen
           at == IF hit THEN "served" ELSE IF HasStore THEN "check" ELSE "dispatch"
<1>1. /\ dpc[d] = "lookup" /\ dpc' = [dpc EXCEPT ![d] = at]
      /\ result' = IF hit THEN [result EXCEPT ![d] = e.known] ELSE result
      /\ memory' = IF hit THEN memory ELSE [memory EXCEPT !.entries[s] = None]
      /\ UNCHANGED <<store, marks, slot, captured, generations, read, settled, slips>>
      /\ UNCHANGED invVars
  BY DEF Lookup, Goto
<1>2. /\ Shapes /\ RequestOK(d) /\ s \in Scopes /\ ScopeOK(s)
      /\ memory.entries \in [Scopes -> MemoryEntry \cup {None}]
  BY <1>1, RequestIs
<1>3. /\ memory' \in [gen : Nat, entries : [Scopes -> MemoryEntry \cup {None}]]
      /\ memory'.gen = memory.gen
      /\ \A x \in Scopes : memory'.entries[x] \in {memory.entries[x], None}
  BY <1>1, <1>2 DEF Shapes
<1>4. Steady
  BY <1>1, <1>3 DEF Steady
<1>5. hit => e.known \in Known /\ (Clean => Covering(Called, s) \subseteq e.known)
  BY <1>2 DEF MemoryEntry, ScopeOK
<1>6. at \in {"served", "check", "dispatch"}
  OBVIOUS
<1>7. Shapes'
  <2>1. /\ dpc' \in [Decisions -> {"new", "lookup", "check", "get", "got", "dispatch", "running",
                                   "admit", "write", "put", "served", "end"}]
        /\ result' \in [Decisions -> Known \cup {None}]
    BY <1>1, <1>2, <1>5, <1>6 DEF Shapes
  <2>2. QED
    BY <1>1, <1>2, <1>3, <2>1 DEF Shapes, invVars
<1>8. /\ dpc'[d] = at /\ (hit => result'[d] = e.known)
      /\ \A q \in Decisions : q # d => Same(q)
  BY <1>1, <1>2 DEF Shapes, Same
<1>9. settled[d] \subseteq Covering(Called, s)
  <2>1. settled[d] \subseteq Covering(Returned, s)
    BY <1>2 DEF RequestOK
  <2>2. Returned \subseteq Called
    BY <1>4, SteadyKeeps
  <2>3. QED
    BY <2>1, <2>2 DEF Covering
<1>10. at = "check" => HasStore
  OBVIOUS
<1>11. at = "served" => hit
  OBVIOUS
<1> HIDE DEF at, hit, e
<1>12. RequestOK(d)'
  BY <1>1, <1>2, <1>4, <1>5, <1>6, <1>8, <1>9, <1>10, <1>11, SteadyKeeps
     DEF RequestOK, Owns, Covering
<1>13. QuietStep(d)
  BY <1>1, <1>3, <1>4, <1>6, <1>7, <1>8, <1>12 DEF QuietStep
<1>14. QED
  BY <1>13, QuietStepKeeps

LEMMA CheckMarkKeeps ==
    ASSUME IInv, NEW d \in Decisions, CheckMark(d)
    PROVE  IInv'
<1> DEFINE s == ScopeOf[d]
           at == IF Unavailable(s) THEN "dispatch" ELSE "get"
<1>1. /\ dpc[d] = "check" /\ dpc' = [dpc EXCEPT ![d] = at]
      /\ UNCHANGED <<memory, store, marks, slot, captured, generations, read, result, settled>>
      /\ UNCHANGED invVars
      /\ slips' = IF ~Unavailable(s) /\ Between(d) THEN slips \cup {"read"} ELSE slips
  BY DEF CheckMark, Goto
<1>2. Shapes /\ RequestOK(d) /\ s \in Scopes
  BY <1>1, RequestIs
<1>3. Steady
  BY <1>1 DEF Steady
<1>4. at \in {"dispatch", "get"}
  OBVIOUS
<1>5. Shapes'
  BY <1>1, <1>2, <1>4 DEF Shapes, invVars
<1>6. dpc'[d] = at /\ \A q \in Decisions : q # d => Same(q)
  BY <1>1, <1>2 DEF Shapes, Same
<1>7. HasStore
  BY <1>1, <1>2 DEF RequestOK
<1>8. ASSUME Clean', at = "get", NEW i \in Called, Covers(Target[i], s), ipc[i] # "mark"
      PROVE  i \in reconciled
  <2>1. ~Unavailable(s) /\ "answer" \notin slips
    BY <1>1, <1>8 DEF Clean
  <2>2. i \notin reconciled => Target[i] \in marks \/ All \in marks
    BY <1>7, <1>8, <2>1 DEF IInv, UnavailableUntilReconciled, Awaited
  <2>3. QED
    BY <1>8, <2>1, <2>2 DEF Unavailable, Covers
<1>9. Clean' /\ at = "get" /\ captured[d] = memory.gen => Covering(Called, s) \subseteq reconciled
  <2>1. SUFFICES ASSUME Clean', at = "get", captured[d] = memory.gen,
                        NEW i \in Called, Covers(Target[i], s)
                 PROVE  i \in reconciled
    BY DEF Covering
  <2>2. ~Unavailable(s)
    BY <2>1
  <2>3. ~Between(d)
    BY <1>1, <2>1, <2>2 DEF Clean
  <2>4. QED
    BY <1>8, <2>1, <2>3 DEF Between
<1>10. Clean' /\ at = "get" => settled[d] \subseteq reconciled
  <2>1. settled[d] \subseteq Covering(Returned, s)
    BY <1>2 DEF RequestOK
  <2>2. \A i \in Returned : i \in Called /\ ipc[i] # "mark"
    BY DEF Returned, Called
  <2>3. QED
    BY <1>8, <2>1, <2>2 DEF Covering
<1> HIDE DEF at
<1>11. RequestOK(d)'
  BY <1>1, <1>2, <1>3, <1>4, <1>6, <1>7, <1>9, <1>10, SteadyKeeps
     DEF RequestOK, Owns, Covering
<1>12. QuietStep(d)
  BY <1>1, <1>3, <1>4, <1>5, <1>6, <1>11 DEF QuietStep
<1>13. QED
  BY <1>12, QuietStepKeeps

LEMMA StoreGetsKeeps ==
    ASSUME IInv, NEW d \in Decisions, StoreGets(d)
    PROVE  IInv'
<1> DEFINE s == ScopeOf[d]
<1>1. PICK a : a = [entry |-> store.entries[s], gens |-> GensOf(s)]
  OBVIOUS
<1>2. /\ dpc[d] = "get" /\ dpc' = [dpc EXCEPT ![d] = "got"]
      /\ read' = [read EXCEPT ![d] = a]
      /\ UNCHANGED <<memory, store, marks, slot, captured, generations, result, settled, slips>>
      /\ UNCHANGED invVars
  BY <1>1 DEF StoreGets, Goto
<1>3. /\ Shapes /\ RequestOK(d) /\ s \in Scopes /\ ScopeOK(s)
      /\ store.entries \in [Scopes -> StoreEntry \cup {None}]
  BY <1>2, RequestIs
<1>4. Steady
  BY <1>2 DEF Steady
<1>5. store.gens[All] \in Nat /\ store.gens[s] \in Nat
  BY <1>3 DEF Shapes, Selections
<1>6. /\ a \in StoreAnswer
      /\ a.entry = store.entries[s] /\ a.gens[1] = store.gens[All] /\ a.gens[2] = store.gens[s]
  BY <1>1, <1>3, <1>5 DEF StoreAnswer, Gens, GensOf
<1>7. Shapes'
  BY <1>2, <1>3, <1>6 DEF Shapes, invVars
<1>8. dpc'[d] = "got" /\ read'[d] = a /\ \A q \in Decisions : q # d => Same(q)
  BY <1>2, <1>3 DEF Shapes, Same
<1>9. Clean /\ a.entry # None =>
         /\ settled[d] \subseteq a.entry.known
         /\ captured[d] = memory.gen => Covering(Called, s) \subseteq a.entry.known
  <2>1. HAVE Clean /\ a.entry # None
  <2>2. Covering(Applied, s) \subseteq a.entry.known
    BY <1>6, <1>3, <2>1 DEF ScopeOK
  <2>3. reconciled \subseteq Applied
    BY <1>4, SteadyKeeps
  <2>4. /\ settled[d] \subseteq reconciled /\ settled[d] \subseteq Covering(Returned, s)
        /\ captured[d] = memory.gen => Covering(Called, s) \subseteq reconciled
    BY <1>2, <1>3, <2>1 DEF RequestOK
  <2>5. QED
    BY <2>2, <2>3, <2>4 DEF Covering
<1>10. RequestOK(d)'
  BY <1>2, <1>3, <1>4, <1>5, <1>6, <1>8, <1>9, SteadyKeeps DEF RequestOK, Owns, Covering
<1>11. QuietStep(d)
  BY <1>2, <1>4, <1>7, <1>8, <1>10 DEF QuietStep
<1>12. QED
  BY <1>11, QuietStepKeeps

LEMMA GetFailsKeeps ==
    ASSUME IInv, NEW d \in Decisions, GetFails(d)
    PROVE  IInv'
<1>1. /\ dpc[d] \in {"get", "got"} /\ dpc' = [dpc EXCEPT ![d] = "dispatch"]
      /\ read' = [read EXCEPT ![d] = None]
      /\ UNCHANGED <<memory, store, marks, slot, captured, generations, result, settled, slips>>
      /\ UNCHANGED invVars
  BY DEF GetFails, Goto
<1>2. Shapes /\ RequestOK(d)
  BY <1>1, RequestIs
<1>3. Steady
  BY <1>1 DEF Steady
<1>4. Shapes'
  BY <1>1, <1>2 DEF Shapes, invVars
<1>5. dpc'[d] = "dispatch" /\ \A q \in Decisions : q # d => Same(q)
  BY <1>1, <1>2 DEF Shapes, Same
<1>6. RequestOK(d)'
  BY <1>1, <1>2, <1>3, <1>5, SteadyKeeps DEF RequestOK, Owns, Covering
<1>7. QuietStep(d)
  BY <1>1, <1>3, <1>4, <1>5, <1>6 DEF QuietStep
<1>8. QED
  BY <1>7, QuietStepKeeps

\* An admission to the memory tier leaves it fresh when the output is.
LEMMA InsertKeeps ==
    ASSUME IInv, Steady, NEW s \in Scopes, NEW g \in Nat, NEW known \in Known,
           Clean /\ g = memory.gen => Covering(Called, s) \subseteq known,
           memory' = Inserted(g, s, known), store' = store
    PROVE  /\ memory' \in [gen : Nat, entries : [Scopes -> MemoryEntry \cup {None}]]
           /\ \A x \in Scopes : \/ memory'.entries[x] = memory.entries[x]
                                \/ ScopeOK(x)'
<1>1. /\ memory \in [gen : Nat, entries : [Scopes -> MemoryEntry \cup {None}]]
      /\ ScopeOK(s)
  BY DEF IInv, Shapes
<1>2. PICK e : e = [gen |-> memory.gen, known |-> known]
  OBVIOUS
<1>3. e \in MemoryEntry /\ e.gen = memory.gen /\ e.known = known
  BY <1>1, <1>2 DEF MemoryEntry
<1>4. CASE g # memory.gen
  BY <1>1, <1>4 DEF Inserted
<1>5. CASE g = memory.gen
  <2>1. memory' = [memory EXCEPT !.entries[s] = e]
    BY <1>2, <1>5 DEF Inserted
  <2>2. /\ memory' \in [gen : Nat, entries : [Scopes -> MemoryEntry \cup {None}]]
        /\ memory'.entries[s] = e
        /\ \A x \in Scopes : x # s => memory'.entries[x] = memory.entries[x]
    BY <1>1, <1>3, <2>1
  <2>3. /\ memory'.gen = memory.gen /\ memory.gen \in Nat /\ Called' = Called
        /\ Applied' = Applied /\ HasStore' = HasStore
    BY SteadyKeeps
  <2>4. ScopeOK(s)'
    BY <1>1, <1>3, <1>5, <2>2, <2>3 DEF ScopeOK, Covering, Clean, Steady
  <2>5. QED
    BY <2>2, <2>4
<1>6. QED
  BY <1>4, <1>5

LEMMA GetAnsweredKeeps ==
    ASSUME IInv, NEW d \in Decisions, GetAnswered(d)
    PROVE  IInv'
<1> DEFINE s == ScopeOf[d]
           e == read[d].entry
           hit == e # None /\ e.gens = read[d].gens
           at == IF hit THEN "served" ELSE "dispatch"
<1>1. /\ dpc[d] = "got" /\ dpc' = [dpc EXCEPT ![d] = at]
      /\ generations' = [generations EXCEPT ![d] = read[d].gens]
      /\ read' = [read EXCEPT ![d] = None]
      /\ result' = IF hit THEN [result EXCEPT ![d] = e.known] ELSE result
      /\ memory' = IF hit THEN Inserted(captured[d], s, e.known) ELSE memory
      /\ UNCHANGED <<store, marks, slot, captured, settled, slips>>
      /\ UNCHANGED invVars
  BY DEF GetAnswered, Goto
<1>2. /\ Shapes /\ RequestOK(d) /\ s \in Scopes /\ captured[d] \in Nat
  BY <1>1, RequestIs
<1>3. /\ read[d] \in StoreAnswer /\ e \in StoreEntry \cup {None} /\ read[d].gens \in Gens
      /\ read[d].gens[1] <= store.gens[All] /\ read[d].gens[2] <= store.gens[s]
      /\ Clean /\ e # None =>
           /\ settled[d] \subseteq e.known
           /\ captured[d] = memory.gen => Covering(Called, s) \subseteq e.known
  BY <1>1, <1>2 DEF RequestOK, StoreAnswer
<1>4. hit => /\ e.known \in Known /\ (Clean => settled[d] \subseteq e.known)
             /\ Clean /\ captured[d] = memory.gen => Covering(Called, s) \subseteq e.known
  BY <1>3 DEF StoreEntry
<1>5. memory'.gen = memory.gen
  BY <1>1, <1>2 DEF Inserted, Shapes
<1>6. Steady
  BY <1>1, <1>5 DEF Steady
<1>7. /\ memory' \in [gen : Nat, entries : [Scopes -> MemoryEntry \cup {None}]]
      /\ \A x \in Scopes : memory'.entries[x] = memory.entries[x] \/ ScopeOK(x)'
  <2>1. CASE hit
    <3>1. PICK g, k : g = captured[d] /\ k = e.known
      OBVIOUS
    <3>2. /\ g \in Nat /\ k \in Known /\ memory' = Inserted(g, s, k) /\ store' = store
          /\ Clean /\ g = memory.gen => Covering(Called, s) \subseteq k
      BY <1>1, <1>2, <1>4, <2>1, <3>1
    <3>3. QED
      BY <1>2, <1>6, <3>2, InsertKeeps
  <2>2. CASE ~hit
    BY <1>1, <1>2, <2>2 DEF Shapes
  <2>3. QED
    BY <2>1, <2>2
<1>8. at \in {"served", "dispatch"} /\ (at = "served" => hit)
  OBVIOUS
<1>9. Shapes'
  <2>1. /\ dpc' \in [Decisions -> {"new", "lookup", "check", "get", "got", "dispatch", "running",
                                   "admit", "write", "put", "served", "end"}]
        /\ result' \in [Decisions -> Known \cup {None}]
        /\ generations' \in [Decisions -> Gens \cup {None}]
        /\ read' \in [Decisions -> StoreAnswer \cup {None}]
    BY <1>1, <1>2, <1>3, <1>4, <1>8 DEF Shapes
  <2>2. QED
    BY <1>1, <1>2, <1>7, <2>1 DEF Shapes, invVars
<1>10. /\ dpc'[d] = at /\ (hit => result'[d] = e.known)
       /\ generations'[d] = read[d].gens
       /\ captured'[d] = captured[d] /\ settled'[d] = settled[d]
       /\ \A q \in Decisions : q # d => Same(q)
  BY <1>1, <1>2 DEF Shapes, Same
<1>11. HasStore
  BY <1>1, <1>2 DEF RequestOK
<1> HIDE DEF at, hit, e
<1>12. RequestOK(d)'
  BY <1>2, <1>3, <1>4, <1>6, <1>8, <1>10, <1>11, SteadyKeeps DEF RequestOK, Owns, Covering
<1>13. QuietStep(d)
  BY <1>1, <1>6, <1>7, <1>8, <1>9, <1>10, <1>12 DEF QuietStep
<1>14. QED
  BY <1>13, QuietStepKeeps

LEMMA AdmitKeeps ==
    ASSUME IInv, NEW d \in Decisions, Admit(d)
    PROVE  IInv'
<1> DEFINE s == ScopeOf[d]
           at == IF generations[d] # None THEN "write" ELSE "end"
<1>1. /\ dpc[d] = "admit" /\ dpc' = [dpc EXCEPT ![d] = at]
      /\ memory' = Inserted(captured[d], s, result[d])
      /\ UNCHANGED <<store, marks, slot, captured, generations, read, result, settled, slips>>
      /\ UNCHANGED invVars
  BY DEF Admit, Goto
<1>2. /\ Shapes /\ RequestOK(d) /\ s \in Scopes /\ captured[d] \in Nat
  BY <1>1, RequestIs
<1>3. memory'.gen = memory.gen
  BY <1>1, <1>2 DEF Inserted, Shapes
<1>4. Steady
  BY <1>1, <1>3 DEF Steady
<1>5. Owns(d)
  BY <1>1 DEF Owns
<1>6. result[d] \in Known /\ (Clean /\ captured[d] = memory.gen => Called \subseteq result[d])
  BY <1>2, <1>5 DEF RequestOK
<1>7. /\ memory' \in [gen : Nat, entries : [Scopes -> MemoryEntry \cup {None}]]
      /\ \A x \in Scopes : memory'.entries[x] = memory.entries[x] \/ ScopeOK(x)'
  <2>1. PICK g, k : g = captured[d] /\ k = result[d]
    OBVIOUS
  <2>2. /\ g \in Nat /\ k \in Known /\ memory' = Inserted(g, s, k) /\ store' = store
        /\ Clean /\ g = memory.gen => Covering(Called, s) \subseteq k
    BY <1>1, <1>2, <1>6, <2>1 DEF Covering
  <2>3. QED
    BY <1>2, <1>4, <2>2, InsertKeeps
<1>8. at \in {"write", "end"} /\ (at = "write" => generations[d] # None)
  OBVIOUS
<1>9. Shapes'
  BY <1>1, <1>2, <1>7, <1>8 DEF Shapes, invVars
<1>10. dpc'[d] = at /\ \A q \in Decisions : q # d => Same(q)
  BY <1>1, <1>2 DEF Shapes, Same
<1> HIDE DEF at
<1>11. RequestOK(d)'
  BY <1>1, <1>2, <1>4, <1>5, <1>8, <1>10, SteadyKeeps DEF RequestOK, Owns, Covering
<1>12. QuietStep(d)
  BY <1>1, <1>4, <1>7, <1>8, <1>9, <1>10, <1>11 DEF QuietStep
<1>13. QED
  BY <1>12, QuietStepKeeps

LEMMA CheckWriteKeeps ==
    ASSUME IInv, NEW d \in Decisions, CheckWrite(d)
    PROVE  IInv'
<1> DEFINE at == IF Unavailable(ScopeOf[d]) THEN "end" ELSE "put"
<1>1. /\ dpc[d] = "write" /\ dpc' = [dpc EXCEPT ![d] = at]
      /\ UNCHANGED <<memory, store, marks, slot, captured, generations, read, result, settled,
                     slips>>
      /\ UNCHANGED invVars
  BY DEF CheckWrite, Goto
<1>2. Shapes /\ RequestOK(d) /\ ScopeOf[d] \in Scopes
  BY <1>1, RequestIs
<1>3. Steady
  BY <1>1 DEF Steady
<1>4. at \in {"end", "put"}
  OBVIOUS
<1>5. Shapes'
  BY <1>1, <1>2, <1>4 DEF Shapes, invVars
<1>6. dpc'[d] = at /\ \A q \in Decisions : q # d => Same(q)
  BY <1>1, <1>2 DEF Shapes, Same
<1> HIDE DEF at
<1>7. RequestOK(d)'
  BY <1>1, <1>2, <1>3, <1>4, <1>6, SteadyKeeps DEF RequestOK, Owns, Covering
<1>8. QuietStep(d)
  BY <1>1, <1>3, <1>4, <1>5, <1>6, <1>7 DEF QuietStep
<1>9. QED
  BY <1>8, QuietStepKeeps

LEMMA StorePutsKeeps ==
    ASSUME IInv, NEW d \in Decisions, StorePuts(d)
    PROVE  IInv'
<1>0. PICK s : s = ScopeOf[d]
  OBVIOUS
<1> DEFINE free == generations[d] = GensOf(s) /\ store.entries[s] = None
<1>1. PICK e : e = [gens |-> GensOf(s), known |-> result[d]]
  OBVIOUS
<1>2. /\ dpc[d] = "put" /\ dpc' = [dpc EXCEPT ![d] = "end"]
      /\ store' = IF free THEN [store EXCEPT !.entries[s] = e] ELSE store
      /\ UNCHANGED <<memory, marks, slot, captured, generations, read, result, settled, slips>>
      /\ UNCHANGED invVars
  BY <1>0, <1>1 DEF StorePuts, Goto
<1>3. Shapes /\ RequestOK(d) /\ s \in Scopes /\ ScopeOK(s)
  BY <1>0, <1>2, RequestIs
<1>4. Owns(d) /\ generations[d] # None /\ HasStore
  BY <1>2, <1>3 DEF Owns, RequestOK
<1>5. result[d] \in Known /\ (Clean /\ free => Covering(Applied, s) \subseteq result[d])
  BY <1>0, <1>3, <1>4 DEF RequestOK
<1>6. e \in StoreEntry /\ e.known = result[d]
  BY <1>1, <1>3, <1>5 DEF StoreEntry, GensOf, Gens, Shapes, Selections
<1>7. /\ store' \in [gens : [Selections -> Nat], entries : [Scopes -> StoreEntry \cup {None}]]
      /\ store'.gens = store.gens
      /\ store'.entries[s] = IF free THEN e ELSE store.entries[s]
      /\ \A x \in Scopes : x # s => store'.entries[x] = store.entries[x]
  BY <1>2, <1>3, <1>6 DEF Shapes
<1>8. Steady
  BY <1>2, <1>7 DEF Steady
<1>9. Shapes'
  BY <1>2, <1>3, <1>7 DEF Shapes, invVars
<1>10. dpc'[d] = "end" /\ \A q \in Decisions : q # d => Same(q)
  BY <1>2, <1>3 DEF Shapes, Same
<1> HIDE DEF free
<1>11. ScopeOK(s)'
  BY <1>2, <1>3, <1>4, <1>5, <1>6, <1>7, <1>8, SteadyKeeps DEF ScopeOK, Covering
<1>12. RequestOK(d)'
  BY <1>2, <1>3, <1>8, <1>10, SteadyKeeps DEF RequestOK, Owns, Covering
<1>13. QuietStep(d)
  BY <1>2, <1>7, <1>8, <1>9, <1>10, <1>11, <1>12 DEF QuietStep
<1>14. QED
  BY <1>13, QuietStepKeeps

-----------------------------------------------------------------------------
(* The steps of a shared call.                                             *)

\* Without takes one position out and keeps the others in their order.
LEMMA WithoutIs ==
    ASSUME NEW S, NEW ws \in Seq(S), NEW d, \E j \in 1..Len(ws) : ws[j] = d
    PROVE  /\ Without(ws, d) \in Seq(S) /\ Len(Without(ws, d)) = Len(ws) - 1
           /\ \E k \in 1..Len(ws) :
                /\ ws[k] = d
                /\ \A i \in 1..(Len(ws) - 1) :
                     Without(ws, d)[i] = IF i <= k - 1 THEN ws[i] ELSE ws[i + 1]
<1> DEFINE n == Len(ws)
           k == CHOOSE i \in 1..n : ws[i] = d
           a == SubSeq(ws, 1, k - 1)
           b == SubSeq(ws, k + 1, n)
           t == a \o b
<1>1. n \in Nat /\ \A i \in 1..n : ws[i] \in S
  BY LenProperties, ElementOfSeq
<1>2. k \in 1..n /\ ws[k] = d
  OBVIOUS
<1> HIDE DEF k
<1>3. /\ a \in Seq(S) /\ Len(a) = k - 1
      /\ \A i \in 1..(k - 1) : a[i] = ws[i]
  <2>1. /\ a \in Seq(S) /\ Len(a) = IF 1 <= k - 1 THEN (k - 1) - 1 + 1 ELSE 0
        /\ \A i \in 1..((k - 1) - 1 + 1) : a[i] = ws[1 + i - 1]
    <3>1. 1 \in Int /\ k - 1 \in Int /\ \A i \in 1..(k - 1) : ws[i] \in S
      BY <1>1, <1>2
    <3>2. QED
      BY <3>1, SubSeqProperties
  <2>2. QED
    BY <1>2, <2>1
<1>4. /\ b \in Seq(S) /\ Len(b) = n - k
      /\ \A i \in 1..(n - k) : b[i] = ws[k + i]
  <2>1. /\ b \in Seq(S) /\ Len(b) = IF k + 1 <= n THEN n - (k + 1) + 1 ELSE 0
        /\ \A i \in 1..(n - (k + 1) + 1) : b[i] = ws[(k + 1) + i - 1]
    <3>1. n \in Int /\ k + 1 \in Int /\ \A i \in (k + 1)..n : ws[i] \in S
      BY <1>1, <1>2
    <3>2. QED
      BY <3>1, SubSeqProperties
  <2>2. QED
    BY <1>1, <1>2, <2>1
<1> HIDE DEF a, b
<1>5. /\ t \in Seq(S) /\ Len(t) = n - 1
      /\ \A i \in 1..(n - 1) : t[i] = IF i <= k - 1 THEN ws[i] ELSE ws[i + 1]
  <2>1. /\ t \in Seq(S) /\ Len(t) = Len(a) + Len(b)
        /\ \A i \in 1..(Len(a) + Len(b)) : t[i] = IF i <= Len(a) THEN a[i] ELSE b[i - Len(a)]
    BY <1>3, <1>4, ConcatProperties
  <2>2. ASSUME NEW i \in 1..(n - 1)
        PROVE  t[i] = IF i <= k - 1 THEN ws[i] ELSE ws[i + 1]
    <3>1. t[i] = IF i <= k - 1 THEN a[i] ELSE b[i - (k - 1)]
      BY <1>1, <1>2, <1>3, <1>4, <2>1
    <3>2. CASE i <= k - 1
      BY <1>2, <1>3, <3>1, <3>2
    <3>3. CASE ~(i <= k - 1)
      <4>1. i - (k - 1) \in 1..(n - k) /\ k + (i - (k - 1)) = i + 1
        BY <1>1, <1>2, <3>3
      <4>2. QED
        BY <1>4, <3>1, <3>3, <4>1
    <3>4. QED
      BY <3>2, <3>3
  <2>3. QED
    BY <1>1, <1>2, <1>3, <1>4, <2>1, <2>2
<1>6. Without(ws, d) = t
  BY DEF Without, t, a, b, k
<1>7. QED
  BY <1>2, <1>5, <1>6

\* A step that changes the shared call of one scope alone.
SharedStep(s) ==
    /\ Steady /\ Shapes'
    /\ memory' = memory /\ store' = store
    /\ \A x \in Scopes : x # s => slot'[x] = slot[x]
    /\ \A q \in Decisions :
         \/ Same(q) /\ (Owns(q)' => Owns(q))
         \/ RequestOK(q)'
    /\ \A q \in Decisions : ScopeOf[q] # s => Same(q)
    /\ FlightOK(s)'
    /\ \A q \in Decisions : ScopeOf[q] = s => RunOK(q)'

LEMMA SharedStepKeeps ==
    ASSUME IInv, NEW s \in Scopes, SharedStep(s)
    PROVE  IInv'
<1>1. /\ Shapes /\ CallsOK
      /\ \A x \in Scopes : ScopeOK(x) /\ FlightOK(x)
      /\ \A q \in Decisions : RequestOK(q) /\ RunOK(q)
  BY DEF IInv
<1>2. /\ Steady /\ Shapes' /\ memory' = memory /\ store' = store
      /\ \A x \in Scopes : x # s => slot'[x] = slot[x]
      /\ \A q \in Decisions : ScopeOf[q] # s => Same(q)
  BY DEF SharedStep
<1>3. /\ Onward /\ CallsOK' /\ UnavailableUntilReconciled' /\ CompleteIsReconciled'
      /\ HasStore' = HasStore /\ Sharing' = Sharing /\ ScopeOf' = ScopeOf
  BY <1>2, SteadyKeeps
<1>6. \A x \in Scopes : ScopeOK(x)'
  BY <1>1, <1>2, <1>3, ScopeKeeps
<1>7. \A q \in Decisions : RequestOK(q)'
  <2>1. SUFFICES ASSUME NEW q \in Decisions, Same(q), Owns(q)' => Owns(q) PROVE RequestOK(q)'
    BY DEF SharedStep
  <2>2. QED
    BY <1>1, <1>3, <2>1, RequestKeeps DEF Same
<1>8. \A q \in Decisions : RunOK(q)'
  <2>1. SUFFICES ASSUME NEW q \in Decisions, ScopeOf[q] # s PROVE RunOK(q)'
    BY DEF SharedStep
  <2>2. dpc[q] # "new" => ScopeOf[q] \in Scopes
    BY <1>1 DEF RequestOK
  <2>3. QED
    BY <1>1, <1>2, <1>3, <2>1, <2>2 DEF RunOK, Same
<1>9. \A x \in Scopes : FlightOK(x)'
  <2>1. SUFFICES ASSUME NEW x \in Scopes, x # s PROVE FlightOK(x)'
    BY DEF SharedStep
  <2>2. slot'[x] = slot[x]
    BY <1>2, <2>1
  <2>3. CASE slot[x] = None
    BY <2>2, <2>3 DEF FlightOK
  <2>4. CASE slot[x] # None
    <3>1. slot[x].waiters \in Seq(Decisions)
      BY <1>1, <2>4 DEF Shapes, Flight
    <3>2. /\ Sharing /\ Len(slot[x].waiters) > 0
          /\ \A j, k \in 1..Len(slot[x].waiters) :
               slot[x].waiters[j] = slot[x].waiters[k] => j = k
          /\ \A j \in 1..Len(slot[x].waiters) :
               /\ dpc[slot[x].waiters[j]] = "running" /\ ScopeOf[slot[x].waiters[j]] = x
               /\ result[slot[x].waiters[j]] = slot[x].known
      BY <1>1, <2>4 DEF FlightOK
    <3>3. \A j \in 1..Len(slot[x].waiters) : Same(slot[x].waiters[j])
      BY <1>2, <2>1, <3>1, <3>2
    <3>4. 1 \in 1..Len(slot[x].waiters)
      BY <3>1, <3>2
    <3>5. QED
      BY <1>3, <2>2, <3>2, <3>3, <3>4 DEF FlightOK, Same
  <2>5. QED
    BY <2>3, <2>4
<1>10. QED
  BY <1>2, <1>3, <1>6, <1>7, <1>8, <1>9 DEF IInv

LEMMA DispatchKeeps ==
    ASSUME IInv, NEW d \in Decisions, Dispatch(d)
    PROVE  IInv'
<1>1. PICK s : s = ScopeOf[d]
  OBVIOUS
<1>2. dpc[d] = "dispatch"
  BY DEF Dispatch
<1>3. /\ Shapes /\ RequestOK(d) /\ s \in Scopes /\ FlightOK(s)
  BY <1>1, <1>2, RequestIs
<1>4. \A q \in Decisions : RunOK(q)
  BY DEF IInv
<1>5. /\ dpc' = [dpc EXCEPT ![d] = "running"]
      /\ UNCHANGED <<memory, store, marks, captured, generations, read, settled, slips>>
      /\ UNCHANGED invVars
  BY DEF Dispatch, Goto
<1>6. Steady
  BY <1>5 DEF Steady
<1>7. /\ Called' = Called /\ Applied' = Applied /\ Returned' = Returned
      /\ HasStore' = HasStore /\ Sharing' = Sharing /\ ScopeOf' = ScopeOf
      /\ reconciled' = reconciled /\ memory'.gen = memory.gen /\ store'.gens = store.gens
      /\ \A x \in Scopes : GensOf(x)' = GensOf(x)
      /\ Applied \subseteq Called
  BY <1>6, SteadyKeeps
<1>8. /\ dpc'[d] = "running" /\ \A q \in Decisions : q # d => dpc'[q] = dpc[q]
      /\ \A q \in Decisions : captured'[q] = captured[q] /\ generations'[q] = generations[q]
                              /\ read'[q] = read[q] /\ settled'[q] = settled[q]
  BY <1>3, <1>5 DEF Shapes
<1>9. CASE Sharing /\ slot[s] # None
  <2>1. PICK ws : ws = slot[s].waiters
    OBVIOUS
  <2>2. PICK f : f = [slot[s] EXCEPT !.waiters = Append(ws, d)]
    OBVIOUS
  <2>3. slot' = [slot EXCEPT ![s] = f] /\ result' = [result EXCEPT ![d] = slot[s].known]
    BY <1>1, <1>3, <1>9, <2>1, <2>2 DEF Dispatch, Shapes
  <2>4. slot[s] \in Flight /\ ws \in Seq(Decisions)
    BY <1>3, <1>9, <2>1 DEF Shapes, Flight
  <2>5. /\ f \in Flight /\ f.known = slot[s].known /\ f.waiters = Append(ws, d)
    <3>1. PICK v : v = Append(ws, d)
      OBVIOUS
    <3>2. v \in Seq(Decisions)
      BY <2>4, <3>1
    <3>3. f = [slot[s] EXCEPT !.waiters = v]
      BY <2>2, <3>1
    <3>4. QED
      BY <2>4, <3>1, <3>2, <3>3 DEF Flight
  <2>6. /\ Len(f.waiters) = Len(ws) + 1 /\ f.waiters[Len(ws) + 1] = d
        /\ \A j \in 1..Len(ws) : f.waiters[j] = ws[j]
        /\ Len(ws) \in Nat
    BY <2>4, <2>5
  <2>7. /\ Len(ws) > 0
        /\ \A j, k \in 1..Len(ws) : ws[j] = ws[k] => j = k
        /\ \A j \in 1..Len(ws) : /\ dpc[ws[j]] = "running" /\ ScopeOf[ws[j]] = s
                                 /\ result[ws[j]] = slot[s].known
    BY <1>3, <1>9, <2>1 DEF FlightOK
  <2>8. \A j \in 1..Len(ws) : ws[j] \in Decisions /\ ws[j] # d
    BY <1>2, <2>4, <2>7
  <2>9. slot'[s] = f /\ \A x \in Scopes : x # s => slot'[x] = slot[x]
    BY <1>3, <2>3 DEF Shapes
  <2>9a. slot[s].known \in Known
    BY <2>4 DEF Flight
  <2>9b. result'[d] = slot[s].known /\ \A q \in Decisions : q # d => result'[q] = result[q]
    BY <1>3, <2>3 DEF Shapes
  <2>10. Shapes'
    BY <1>3, <1>5, <2>3, <2>5, <2>9a DEF Shapes, invVars
  <2>11. 1 \in 1..Len(ws) /\ f.waiters[1] = ws[1] /\ ws[1] # d
    BY <2>6, <2>7, <2>8
  <2>12. FlightOK(s)'
    <3>1. \A j, k \in 1..Len(f.waiters) : f.waiters[j] = f.waiters[k] => j = k
      BY <2>6, <2>7, <2>8
    <3>2. \A j \in 1..Len(f.waiters) :
            dpc'[f.waiters[j]] = "running" /\ ScopeOf[f.waiters[j]] = s
      BY <1>1, <1>8, <2>6, <2>7, <2>8
    <3>3. /\ \A j \in 1..Len(f.waiters) : result'[f.waiters[j]] = f.known
          /\ Len(f.waiters) > 0
      BY <2>5, <2>6, <2>7, <2>8, <2>9b
    <3>4. QED
      BY <1>7, <1>9, <2>9, <3>1, <3>2, <3>3 DEF FlightOK
  <2>13. ASSUME NEW q \in Decisions, ScopeOf[q] = s
         PROVE  RunOK(q)'
    <3>1. SUFFICES ASSUME dpc'[q] = "running"
                   PROVE  \E j \in 1..Len(f.waiters) : f.waiters[j] = q
      BY <1>7, <2>5, <2>9, <2>13, InvalidationAssumption DEF RunOK
    <3>2. CASE q = d
      BY <2>6, <3>2
    <3>3. CASE q # d
      <4>1. \E j \in 1..Len(ws) : ws[j] = q
        BY <1>4, <1>8, <1>9, <2>1, <2>13, <3>1, <3>3 DEF RunOK
      <4>2. QED
        BY <2>6, <4>1
    <3>4. QED
      BY <3>2, <3>3
  <2>14. RequestOK(d)'
    <3>1. ~Owns(d)'
      BY <1>1, <1>7, <1>8, <1>9, <2>9, <2>11 DEF Owns
    <3>2. Clean' => Clean
      BY <1>5 DEF Clean
    <3>3. QED
      BY <1>1, <1>3, <1>7, <1>8, <3>1, <3>2 DEF RequestOK, Covering
  <2>15. ASSUME NEW q \in Decisions, q # d
         PROVE  Same(q) /\ (Owns(q)' => Owns(q))
    <3>1. Same(q)
      BY <1>8, <2>15, <2>9b DEF Same
    <3>2. dpc[q] # "new" => ScopeOf[q] \in Scopes
      BY DEF IInv, RequestOK
    <3>3. QED
      BY <1>7, <2>1, <2>9, <2>11, <3>1, <3>2 DEF Owns, Same
  <2>16. SharedStep(s)
    BY <1>1, <1>5, <1>6, <1>8, <2>9, <2>10, <2>12, <2>13, <2>14, <2>15 DEF SharedStep
  <2>17. QED
    BY <1>3, <2>16, SharedStepKeeps
<1>10. CASE ~(Sharing /\ slot[s] # None)
  <2>1. PICK f : f = [known |-> Called, waiters |-> <<d>>]
    OBVIOUS
  <2>2. /\ result' = [result EXCEPT ![d] = Called]
        /\ slot' = IF Sharing THEN [slot EXCEPT ![s] = f] ELSE slot
    BY <1>1, <1>10, <2>1 DEF Dispatch
  <2>3. Called \in Known
    BY DEF Called, Known
  <2>4. /\ f \in Flight /\ f.known = Called /\ f.waiters = <<d>>
        /\ Len(f.waiters) = 1 /\ f.waiters[1] = d
    BY <2>1, <2>3 DEF Flight
  <2>5. Shapes'
    BY <1>3, <1>5, <2>2, <2>3, <2>4 DEF Shapes, invVars
  <2>6. /\ slot'[s] = IF Sharing THEN f ELSE slot[s]
        /\ \A x \in Scopes : x # s => slot'[x] = slot[x]
        /\ result'[d] = Called /\ \A q \in Decisions : q # d => result'[q] = result[q]
    BY <1>3, <2>2 DEF Shapes
  <2>7. ~Sharing => slot[s] = None
    BY <1>3 DEF FlightOK
  <2>8. FlightOK(s)'
    BY <1>1, <1>7, <1>8, <2>4, <2>6, <2>7 DEF FlightOK
  <2>9. \A q \in Decisions : q # d /\ ScopeOf[q] = s /\ Sharing => dpc[q] # "running"
    BY <1>4, <1>10 DEF RunOK
  <2>10. ASSUME NEW q \in Decisions, ScopeOf[q] = s
         PROVE  RunOK(q)'
    BY <1>7, <1>8, <2>4, <2>6, <2>9, <2>10, InvalidationAssumption DEF RunOK
  <2>11. ASSUME NEW q \in Decisions, q # d
         PROVE  Same(q) /\ (Owns(q)' => Owns(q))
    <3>1. Same(q)
      BY <1>8, <2>6, <2>11 DEF Same
    <3>2. dpc[q] # "new" => ScopeOf[q] \in Scopes
      BY DEF IInv, RequestOK
    <3>3. QED
      BY <1>7, <2>2, <2>6, <2>9, <2>11, <3>1, <3>2 DEF Owns, Same
  <2>12. RequestOK(d)'
    <3>1. Covering(Applied, s) \subseteq Called
      BY <1>7 DEF Covering
    <3>2. Clean' => Clean
      BY <1>5 DEF Clean
    <3>3. QED
      BY <1>1, <1>3, <1>7, <1>8, <2>3, <2>6, <3>1, <3>2 DEF RequestOK, Covering
  <2>13. SharedStep(s)
    BY <1>1, <1>5, <1>6, <1>8, <2>5, <2>6, <2>8, <2>10, <2>11, <2>12 DEF SharedStep
  <2>14. QED
    BY <1>3, <2>13, SharedStepKeeps
<1>11. QED
  BY <1>9, <1>10

LEMMA LeaveKeeps ==
    ASSUME IInv, NEW d \in Decisions, Leave(d)
    PROVE  IInv'
<1>1. PICK s : s = ScopeOf[d]
  OBVIOUS
<1>2. dpc[d] = "running" /\ Sharing
  BY DEF Leave
<1>3. /\ Shapes /\ RequestOK(d) /\ s \in Scopes /\ FlightOK(s)
  BY <1>1, <1>2, RequestIs
<1>4. \A q \in Decisions : RunOK(q)
  BY DEF IInv
<1>5. PICK ws : ws = slot[s].waiters
  OBVIOUS
<1>6. PICK rest : rest = Without(ws, d)
  OBVIOUS
<1>7. PICK f : f = [slot[s] EXCEPT !.waiters = rest]
  OBVIOUS
<1>8. /\ dpc' = [dpc EXCEPT ![d] = "end"] /\ result' = [result EXCEPT ![d] = None]
      /\ slips' = IF HandsOnOld(d, rest) THEN slips \cup {"heir"} ELSE slips
      /\ slot' = [slot EXCEPT ![s] = IF rest = <<>> THEN None ELSE f]
      /\ UNCHANGED <<memory, store, marks, captured, generations, read, settled>>
      /\ UNCHANGED invVars
  BY <1>1, <1>3, <1>5, <1>6, <1>7 DEF Leave, Goto, Shapes
<1>9. Steady
  BY <1>8 DEF Steady
<1>10. /\ Called' = Called /\ Applied' = Applied /\ Returned' = Returned
       /\ HasStore' = HasStore /\ Sharing' = Sharing /\ ScopeOf' = ScopeOf
       /\ reconciled' = reconciled /\ memory'.gen = memory.gen /\ store'.gens = store.gens
       /\ \A x \in Scopes : GensOf(x)' = GensOf(x)
  BY <1>9, SteadyKeeps
<1>11. /\ dpc'[d] = "end" /\ \A q \in Decisions : q # d => Same(q)
       /\ \A q \in Decisions : captured'[q] = captured[q] /\ generations'[q] = generations[q]
                               /\ read'[q] = read[q] /\ settled'[q] = settled[q]
  BY <1>3, <1>8 DEF Shapes, Same
<1>12. slot[s] # None /\ \E j \in 1..Len(ws) : ws[j] = d
  BY <1>1, <1>2, <1>4, <1>5 DEF RunOK
<1>13. slot[s] \in Flight /\ ws \in Seq(Decisions)
  BY <1>3, <1>5, <1>12 DEF Shapes, Flight
<1>14. /\ Len(ws) > 0 /\ Len(ws) \in Nat
       /\ \A j, k \in 1..Len(ws) : ws[j] = ws[k] => j = k
       /\ \A j \in 1..Len(ws) : /\ dpc[ws[j]] = "running" /\ ScopeOf[ws[j]] = s
                                /\ result[ws[j]] = slot[s].known
  BY <1>3, <1>5, <1>12, <1>13 DEF FlightOK
<1>15. rest \in Seq(Decisions) /\ Len(rest) = Len(ws) - 1
  BY <1>6, <1>12, <1>13, WithoutIs
<1>16. PICK k \in 1..Len(ws) :
         /\ ws[k] = d
         /\ \A i \in 1..(Len(ws) - 1) : rest[i] = IF i <= k - 1 THEN ws[i] ELSE ws[i + 1]
  <2>1. \E k \in 1..Len(ws) :
          /\ ws[k] = d
          /\ \A i \in 1..(Len(ws) - 1) :
               Without(ws, d)[i] = IF i <= k - 1 THEN ws[i] ELSE ws[i + 1]
    BY <1>12, <1>13, WithoutIs
  <2>2. QED
    BY <1>6, <2>1
<1>17. f \in Flight /\ f.known = slot[s].known /\ f.waiters = rest
  BY <1>7, <1>13, <1>15 DEF Flight
<1>18. /\ slot'[s] = IF rest = <<>> THEN None ELSE f
       /\ \A x \in Scopes : x # s => slot'[x] = slot[x]
  BY <1>3, <1>8 DEF Shapes
<1>19. Shapes'
  BY <1>3, <1>8, <1>17 DEF Shapes, invVars
<1>20. RequestOK(d)'
  BY <1>1, <1>2, <1>3, <1>10, <1>11 DEF RequestOK, Owns, Covering
<1>20a. Clean' => Clean /\ ~HandsOnOld(d, rest)
  BY <1>8 DEF Clean
<1>21. \A q \in Decisions : dpc[q] # "new" => ScopeOf[q] \in Scopes
  BY DEF IInv, RequestOK
<1>22. \A q \in Decisions : q # d /\ ScopeOf[q] = s /\ dpc[q] = "running" =>
         \E j \in 1..Len(rest) : rest[j] = q
  <2>1. SUFFICES ASSUME NEW q \in Decisions, q # d, ScopeOf[q] = s, dpc[q] = "running"
                 PROVE  \E j \in 1..Len(rest) : rest[j] = q
    OBVIOUS
  <2>2. PICK j \in 1..Len(ws) : ws[j] = q
    BY <1>2, <1>4, <1>5, <2>1 DEF RunOK
  <2>3. j # k
    BY <1>16, <2>1, <2>2
  <2>4. CASE j < k
    <3>1. j \in 1..(Len(ws) - 1) /\ j <= k - 1
      BY <1>14, <2>4
    <3>2. QED
      BY <1>15, <1>16, <2>2, <3>1
  <2>5. CASE j > k
    <3>1. j - 1 \in 1..(Len(ws) - 1) /\ ~(j - 1 <= k - 1) /\ (j - 1) + 1 = j
      BY <1>14, <2>5
    <3>2. QED
      BY <1>15, <1>16, <2>2, <3>1
  <2>6. QED
    BY <2>3, <2>4, <2>5
<1>23. CASE rest = <<>>
  <2>1. \A q \in Decisions : q # d /\ ScopeOf[q] = s => dpc[q] # "running"
    BY <1>22, <1>23
  <2>2. FlightOK(s)'
    BY <1>18, <1>23 DEF FlightOK
  <2>3. ASSUME NEW q \in Decisions, ScopeOf[q] = s
        PROVE  RunOK(q)'
    BY <1>11, <2>1, <2>3 DEF RunOK, Same
  <2>4. ASSUME NEW q \in Decisions, q # d
        PROVE  Owns(q)' => Owns(q)
    BY <1>10, <1>11, <1>18, <1>21, <2>1, <2>4 DEF Owns, Same
  <2>5. SharedStep(s)
    BY <1>1, <1>8, <1>9, <1>11, <1>18, <1>19, <1>20, <2>2, <2>3, <2>4 DEF SharedStep
  <2>6. QED
    BY <1>3, <2>5, SharedStepKeeps
<1>24. CASE rest # <<>>
  <2>1. Len(rest) > 0
    BY <1>15, <1>24, EmptySeq
  <2>2. rest[1] \in Decisions /\ 1 \in 1..Len(rest)
    BY <1>15, <2>1
  <2>3. 1 \in 1..Len(ws) /\ ws[1] \in Decisions /\ (ws[1] # d => rest[1] = ws[1])
    <3>1. 1 \in 1..(Len(ws) - 1) /\ 1 \in 1..Len(ws)
      BY <1>14, <1>15, <2>1
    <3>2. k # 1 => 1 <= k - 1
      BY <1>16
    <3>3. QED
      BY <1>13, <1>16, <3>1, <3>2
  <2>4. \A j \in 1..Len(rest) :
          \E i \in 1..Len(ws) : i # k /\ rest[j] = ws[i] /\ i = IF j <= k - 1 THEN j ELSE j + 1
    BY <1>14, <1>15, <1>16
  <2>5. slot'[s] = f
    BY <1>18, <1>24
  <2>6. FlightOK(s)'
    <3>1. \A i, j \in 1..Len(rest) : rest[i] = rest[j] => i = j
      <4>1. SUFFICES ASSUME NEW i \in 1..Len(rest), NEW j \in 1..Len(rest), rest[i] = rest[j]
                     PROVE  i = j
        OBVIOUS
      <4>2. PICK a \in 1..Len(ws) : rest[i] = ws[a] /\ a = IF i <= k - 1 THEN i ELSE i + 1
        BY <2>4
      <4>3. PICK b \in 1..Len(ws) : rest[j] = ws[b] /\ b = IF j <= k - 1 THEN j ELSE j + 1
        BY <2>4
      <4>4. a = b
        BY <1>14, <4>1, <4>2, <4>3
      <4>5. QED
        BY <1>15, <4>2, <4>3, <4>4
    <3>2. \A j \in 1..Len(rest) : /\ dpc'[rest[j]] = "running" /\ ScopeOf[rest[j]] = s
                                  /\ result'[rest[j]] = slot[s].known
      <4>1. SUFFICES ASSUME NEW j \in 1..Len(rest)
                     PROVE  /\ dpc'[rest[j]] = "running" /\ ScopeOf[rest[j]] = s
                            /\ result'[rest[j]] = slot[s].known
        OBVIOUS
      <4>2. PICK i \in 1..Len(ws) : i # k /\ rest[j] = ws[i]
        BY <2>4
      <4>3. ws[i] # d /\ ws[i] \in Decisions
        BY <1>13, <1>14, <1>16, <4>2
      <4>4. QED
        BY <1>11, <1>14, <4>2, <4>3 DEF Same
    <3>3. QED
      BY <1>2, <1>10, <1>17, <2>1, <2>5, <3>1, <3>2 DEF FlightOK
  <2>7. ASSUME NEW q \in Decisions, ScopeOf[q] = s
        PROVE  RunOK(q)'
    <3>1. SUFFICES ASSUME dpc'[q] = "running" PROVE \E j \in 1..Len(rest) : rest[j] = q
      BY <1>10, <1>17, <2>5, <2>7, InvalidationAssumption DEF RunOK
    <3>2. QED
      BY <1>11, <1>22, <2>7, <3>1 DEF Same
  <2>8. ASSUME NEW q \in Decisions, q # d, Owns(q)', ~Owns(q)
        PROVE  RequestOK(q)'
    <3>1. Same(q) /\ RequestOK(q) /\ (dpc[q] # "new" => ScopeOf[q] \in Scopes)
      BY <1>11, <1>21, <2>8 DEF IInv
    <3>2. dpc[q] = "running" /\ ScopeOf[q] = s /\ rest[1] = q
      BY <1>2, <1>10, <1>17, <1>18, <2>5, <2>8, <3>1 DEF Owns, Same
    <3>3. ws[1] = d
      BY <1>2, <1>5, <2>3, <2>8, <3>2 DEF Owns
    <3>4. result'[q] = slot[s].known
      <4>1. result[q] = slot[s].known
        <5>1. PICK j \in 1..Len(ws) : ws[j] = q
          BY <1>2, <1>4, <1>5, <3>2 DEF RunOK
        <5>2. QED
          BY <1>14, <5>1
      <4>2. QED
        BY <3>1, <4>1 DEF Same
    <3>5. slot[s].known \in Known
      BY <1>13 DEF Flight
    <3>6. Clean' => slot[s].known = Called
      <4>1. Head(ws) = d
        BY <1>13, <1>14, <3>3
      <4>2. QED
        BY <1>1, <1>5, <1>24, <1>20a, <4>1 DEF HandsOnOld
    <3>7. Applied \subseteq Called
      BY <1>9, SteadyKeeps
    <3>8. QED
      BY <1>10, <3>1, <3>2, <3>4, <3>5, <3>6, <3>7 DEF RequestOK, Same, Covering
  <2>9. SharedStep(s)
    BY <1>1, <1>8, <1>9, <1>11, <1>18, <1>19, <1>20, <2>6, <2>7, <2>8 DEF SharedStep
  <2>10. QED
    BY <1>3, <2>9, SharedStepKeeps
<1>25. QED
  BY <1>23, <1>24

LEMMA CompletesKeeps ==
    ASSUME IInv, NEW d \in Decisions, Completes(d)
    PROVE  IInv'
<1>1. PICK s : s = ScopeOf[d]
  OBVIOUS
<1>2. dpc[d] = "running"
  BY DEF Completes
<1>3. /\ Shapes /\ RequestOK(d) /\ s \in Scopes /\ FlightOK(s)
  BY <1>1, <1>2, RequestIs
<1>4. \A q \in Decisions : RunOK(q) /\ RequestOK(q)
  BY DEF IInv
<1>5. PICK W : W = Waiters(d)
  OBVIOUS
<1>6. PICK known : known = slot[s].known
  OBVIOUS
<1>7. /\ Sharing => Head(slot[s].waiters) = d
      /\ dpc' = [w \in Decisions |-> IF w = d THEN "admit"
                                     ELSE IF w \in W THEN "end" ELSE dpc[w]]
      /\ slot' = [slot EXCEPT ![s] = None]
      /\ UNCHANGED <<memory, store, marks, captured, generations, read, result, settled, slips>>
      /\ UNCHANGED invVars
  BY <1>1, <1>5 DEF Completes
<1>8. Steady
  BY <1>7 DEF Steady
<1>9. /\ Called' = Called /\ Applied' = Applied /\ Returned' = Returned
      /\ HasStore' = HasStore /\ Sharing' = Sharing /\ ScopeOf' = ScopeOf
      /\ reconciled' = reconciled /\ memory'.gen = memory.gen /\ store'.gens = store.gens
      /\ \A x \in Scopes : GensOf(x)' = GensOf(x)
      /\ Clean' => Clean
  BY <1>8, SteadyKeeps
<1>10. Sharing =>
         /\ slot[s] # None /\ known \in Known /\ slot[s].waiters[1] = d /\ result[d] = known
         /\ \A q \in Decisions : q \in W => dpc[q] = "running" /\ ScopeOf[q] = s
         /\ \A q \in Decisions : dpc[q] = "running" /\ ScopeOf[q] = s => q \in W
  <2>1. HAVE Sharing
  <2>2. slot[s] # None
    BY <1>1, <1>2, <1>4, <2>1 DEF RunOK
  <2>3. slot[s] \in Flight /\ known \in Known /\ slot[s].waiters \in Seq(Decisions)
    BY <1>3, <1>6, <2>2 DEF Shapes, Flight
  <2>4. W = {slot[s].waiters[j] : j \in 1..Len(slot[s].waiters)}
    BY <1>1, <1>5, <2>1 DEF Waiters
  <2>5. /\ Len(slot[s].waiters) > 0
        /\ \A j \in 1..Len(slot[s].waiters) :
             /\ dpc[slot[s].waiters[j]] = "running" /\ ScopeOf[slot[s].waiters[j]] = s
             /\ result[slot[s].waiters[j]] = slot[s].known
    BY <1>3, <2>2 DEF FlightOK
  <2>6. slot[s].waiters[1] = d
    BY <1>7, <2>1, <2>3, <2>5
  <2>7. \A q \in Decisions : dpc[q] = "running" /\ ScopeOf[q] = s => q \in W
    BY <1>4, <2>1, <2>4 DEF RunOK
  <2>8. QED
    BY <1>6, <2>2, <2>3, <2>4, <2>5, <2>6, <2>7
<1>11. ~Sharing => slot[s] = None /\ W = {d}
  BY <1>3, <1>5 DEF FlightOK, Waiters
<1>12. Owns(d) /\ (Sharing => d \in W)
  BY <1>1, <1>2, <1>10 DEF Owns
<1>13. /\ dpc'[d] = "admit" /\ result'[d] = result[d]
       /\ \A q \in Decisions : q # d /\ q \in W => dpc'[q] = "end"
       /\ \A q \in Decisions : q # d /\ q \notin W => Same(q)
       /\ \A q \in Decisions : captured'[q] = captured[q] /\ generations'[q] = generations[q]
                               /\ read'[q] = read[q] /\ settled'[q] = settled[q]
       /\ slot'[s] = None /\ \A x \in Scopes : x # s => slot'[x] = slot[x]
  BY <1>3, <1>7, <1>10, <1>11, <1>12 DEF Shapes, Same
<1>14. Shapes'
  <2>1. /\ dpc' \in [Decisions -> {"new", "lookup", "check", "get", "got", "dispatch", "running",
                                   "admit", "write", "put", "served", "end"}]
        /\ result' \in [Decisions -> Known \cup {None}]
        /\ slot' \in [Scopes -> Flight \cup {None}]
    BY <1>3, <1>7, <1>10 DEF Shapes
  <2>2. QED
    BY <1>3, <1>7, <2>1 DEF Shapes, invVars
<1>15. RequestOK(d)'
  BY <1>1, <1>2, <1>3, <1>9, <1>12, <1>13 DEF RequestOK, Owns, Covering
<1>16. ASSUME NEW q \in Decisions, q # d, q \in W
       PROVE  RequestOK(q)'
  <2>1. dpc[q] = "running" /\ ScopeOf[q] = s
    BY <1>10, <1>11, <1>16
  <2>2. RequestOK(q) /\ dpc'[q] = "end"
    BY <1>4, <1>13, <1>16
  <2>3. /\ captured'[q] = captured[q] /\ generations'[q] = generations[q]
        /\ settled'[q] = settled[q]
    BY <1>13
  <2>4. QED
    BY <1>3, <1>9, <2>1, <2>2, <2>3 DEF RequestOK, Owns, Covering
<1>17. ASSUME NEW q \in Decisions, q # d, q \notin W
       PROVE  Same(q) /\ (Owns(q)' => Owns(q))
  <2>1. Same(q)
    BY <1>13, <1>17
  <2>2. dpc[q] # "new" => ScopeOf[q] \in Scopes
    BY <1>4 DEF RequestOK
  <2>3. QED
    BY <1>9, <1>10, <1>13, <1>17, <2>1, <2>2 DEF Owns, Same
<1>18. FlightOK(s)'
  BY <1>13 DEF FlightOK
<1>19. ASSUME NEW q \in Decisions, ScopeOf[q] = s
       PROVE  RunOK(q)'
  <2>1. Sharing => dpc'[q] # "running"
    BY <1>10, <1>13, <1>17, <1>19 DEF Same
  <2>2. QED
    BY <1>9, <2>1 DEF RunOK
<1>20. \A q \in Decisions : ScopeOf[q] # s => Same(q)
  BY <1>1, <1>10, <1>11, <1>13
<1>21. SharedStep(s)
  BY <1>7, <1>8, <1>13, <1>14, <1>15, <1>16, <1>17, <1>18, <1>19, <1>20 DEF SharedStep
<1>22. QED
  BY <1>3, <1>21, SharedStepKeeps

-----------------------------------------------------------------------------
(* The theorems.                                                           *)

LEMMA InitInv ==
    ASSUME Init
    PROVE  IInv
<1>1. /\ ScopeOf \in [Decisions -> Scopes \cup {None}]
      /\ HasStore \in BOOLEAN /\ Sharing \in BOOLEAN
  BY InvalidationAssumption DEF Init, ScopeOf, HasStore, Sharing
<1>2. /\ Called = {} /\ Returned = {} /\ Applied = {}
      /\ reconciled = {} /\ complete = {}
  BY DEF Init, Called, Returned, Applied
<1>3. /\ memory.gen = 0 /\ memory.entries = [s \in Scopes |-> None]
      /\ store.gens = [t \in Selections |-> 0] /\ store.entries = [s \in Scopes |-> None]
  BY DEF Init, Selections
<1>4. Shapes
  BY DEF Init, Shapes, Selections, Known
<1>5. CallsOK
  <2>1. Cardinality(Called) = 0
    BY <1>2, FS_EmptySet
  <2>2. QED
    BY <1>2, <1>3, <2>1, Finite DEF CallsOK, Init
<1>6. UnavailableUntilReconciled /\ CompleteIsReconciled
  BY <1>2 DEF UnavailableUntilReconciled, Awaited, CompleteIsReconciled
<1>7. \A s \in Scopes : ScopeOK(s) /\ FlightOK(s)
  BY <1>3 DEF ScopeOK, FlightOK, Init
<1>8. \A d \in Decisions : RequestOK(d) /\ RunOK(d)
  BY <1>3 DEF RequestOK, RunOK, Owns, Init
<1>9. QED
  BY <1>4, <1>5, <1>6, <1>7, <1>8 DEF IInv

LEMMA NextInv ==
    ASSUME IInv, [Next]_vars
    PROVE  IInv'
<1>1. ASSUME NEW i \in Invalidations,
             Call(i) \/ Mark(i) \/ StoreInvalidates(i) \/ StoreAnswers(i) \/ StoreFails(i)
      PROVE  IInv'
  BY <1>1, CallKeeps, MarkKeeps, StoreInvalidatesKeeps, StoreAnswersKeeps, StoreFailsKeeps
<1>2. ASSUME NEW d \in Decisions,
             \/ Capture(d) \/ Lookup(d) \/ CheckMark(d) \/ StoreGets(d) \/ GetFails(d)
             \/ GetAnswered(d) \/ Dispatch(d) \/ Leave(d) \/ Completes(d) \/ Admit(d)
             \/ CheckWrite(d) \/ StorePuts(d)
      PROVE  IInv'
  BY <1>2, CaptureKeeps, LookupKeeps, CheckMarkKeeps, StoreGetsKeeps, GetFailsKeeps,
     GetAnsweredKeeps, DispatchKeeps, LeaveKeeps, CompletesKeeps, AdmitKeeps,
     CheckWriteKeeps, StorePutsKeeps
<1>3. CASE UNCHANGED vars
  <2>1. Steady
    BY <1>3 DEF vars, Steady, invVars
  <2>2. Shapes'
    BY <1>3 DEF vars, IInv, Shapes
  <2>3. CallStep
    BY <1>3, <2>1, <2>2, SteadyKeeps DEF vars, CallStep
  <2>4. QED
    BY <2>3, CallStepKeeps
<1>4. QED
  BY <1>1, <1>2, <1>3 DEF Next

\* Every reachable state satisfies the inductive invariant.
THEOREM Inductive ==
    Spec => []IInv
<1>1. Init => IInv
  BY InitInv
<1>2. IInv /\ [Next]_vars => IInv'
  BY NextInv
<1>3. QED
  BY <1>1, <1>2, PTL DEF Spec

\* What a request was served holds for every invalidation that had returned when
\* it began, from either tier (driver.rs, cache_lookup and persistent_read), on
\* every host and unless a step that `slips` names came before.
THEOREM NothingStaleServed ==
    Spec => []NeverServedStale
<1>1. IInv => NeverServedStale
  BY DEF IInv, RequestOK, NeverServedStale, Clean
<1>2. QED
  BY <1>1, Inductive, PTL

\* No tier holds an output it would serve that a returned invalidation was to
\* remove, whatever was admitted late (lib.rs and optimization.rs, insert_value),
\* on every host and unless a step that `slips` names came before.
THEOREM TiersStayFresh ==
    Spec => []TiersFresh
<1>1. ASSUME IInv PROVE TiersFresh
  <2>1. Returned \subseteq Called
    BY DEF Returned, Called
  <2>2. SUFFICES ASSUME Clean, NEW s \in Scopes
                 PROVE  /\ memory.entries[s] # None /\ memory.entries[s].gen = memory.gen =>
                             Covering(Returned, s) \subseteq memory.entries[s].known
                        /\ store.entries[s] # None /\ ~Unavailable(s) =>
                             Covering(Returned, s) \subseteq store.entries[s].known
    BY DEF TiersFresh, Fresh
  <2>3. ScopeOK(s)
    BY <1>1 DEF IInv
  <2>4. memory.entries[s] # None /\ memory.entries[s].gen = memory.gen =>
          Covering(Returned, s) \subseteq memory.entries[s].known
    BY <2>1, <2>2, <2>3 DEF ScopeOK, Covering
  <2>5. ASSUME store.entries[s] # None, ~Unavailable(s)
        PROVE  Covering(Returned, s) \subseteq store.entries[s].known
    <3>1. HasStore
      BY <2>3, <2>5 DEF ScopeOK
    <3>2. Covering(Returned, s) \subseteq reconciled
      <4>1. SUFFICES ASSUME NEW i \in Returned, Covers(Target[i], s)
                     PROVE  i \in reconciled
        BY DEF Covering
      <4>2. i \in Called /\ ipc[i] # "mark"
        BY <4>1 DEF Returned, Called
      <4>3. i \notin reconciled => Target[i] \in marks \/ All \in marks
        BY <1>1, <2>2, <3>1, <4>2 DEF IInv, UnavailableUntilReconciled, Awaited, Clean
      <4>4. QED
        BY <2>5, <4>1, <4>3 DEF Unavailable, Covers
    <3>3. reconciled \subseteq Applied
      BY DEF Applied
    <3>4. QED
      BY <2>2, <2>3, <2>5, <3>2, <3>3 DEF ScopeOK, Covering
  <2>6. QED
    BY <2>4, <2>5
<1>2. QED
  BY <1>1, Inductive, PTL

\* The marks name every selection the store has not answered for, and a call that
\* returned complete left none (lib.rs, invalidate_memory and invalidate), on every
\* host and unless an answer has cleared the mark of a later call.
THEOREM MarksStayFaithful ==
    Spec => []MarksFaithful
<1>1. ASSUME IInv PROVE MarksFaithful
  <2>1. Shapes /\ CallsOK
    BY <1>1 DEF IInv
  <2>2. Cardinality(Called) <= Cardinality(Invalidations) /\ Cardinality(Invalidations) \in Nat
    <3>1. Called \subseteq Invalidations
      BY DEF Called
    <3>2. QED
      BY <3>1, FS_Subset, FS_CardinalityType, InvalidationAssumption
  <2>3. \A t \in Selections : Cardinality(Advanced(t)) <= Cardinality(Invalidations)
    <3>1. \A t \in Selections : Advanced(t) \subseteq Invalidations
      BY DEF Advanced
    <3>2. QED
      BY <3>1, FS_Subset, InvalidationAssumption
  <2>4. memory.gen \in 0..Cardinality(Invalidations)
    BY <2>1, <2>2 DEF Shapes, CallsOK
  <2>5. store.gens \in [Selections -> 0..Cardinality(Invalidations)]
    <3>1. \A t \in Selections : store.gens[t] \in 0..Cardinality(Invalidations)
      <4>1. SUFFICES ASSUME NEW t \in Selections
                     PROVE  store.gens[t] \in 0..Cardinality(Invalidations)
        OBVIOUS
      <4>2. /\ store.gens[t] \in Nat /\ store.gens[t] <= Cardinality(Advanced(t))
            /\ Cardinality(Advanced(t)) \in Nat
            /\ Cardinality(Advanced(t)) <= Cardinality(Invalidations)
        BY <2>1, <2>3, Finite DEF Shapes, CallsOK
      <4>3. QED
        BY <2>2, <4>2
    <3>2. QED
      BY <2>1, <3>1 DEF Shapes
  <2>6. ASSUME NEW s \in Scopes, memory.entries[s] # None
        PROVE  memory.entries[s] \in [gen : 0..memory.gen, known : Known]
    <3>1. /\ memory.entries[s] \in MemoryEntry /\ memory.gen \in Nat
          /\ memory.entries[s].gen <= memory.gen
      BY <1>1, <2>1, <2>6 DEF Shapes, IInv, ScopeOK
    <3>2. QED
      BY <3>1 DEF MemoryEntry
  <2>7. ASSUME NEW d \in Decisions
        PROVE  /\ captured[d] \in 0..memory.gen
               /\ result[d] = None \/ result[d] \in Known
    BY <1>1, <2>1 DEF Shapes, IInv, RequestOK
  <2>8. TypeOK
    <3>1. /\ host \in Hosts /\ marks \subseteq Scopes \cup {All}
          /\ dpc \in [Decisions -> {"new", "lookup", "check", "get", "got", "dispatch", "running",
                                    "admit", "write", "put", "served", "end"}]
          /\ ipc \in [Invalidations ->
                        {"idle", "mark", "store", "invalidated", "done", "failed"}]
          /\ reconciled \subseteq Called /\ complete \subseteq Returned
          /\ slips \subseteq {"read", "answer", "heir"}
      BY <2>1 DEF Shapes, CallsOK, Selections
    <3>2. store.gens \in [Scopes \cup {All} -> 0..Cardinality(Invalidations)]
      BY <2>5 DEF Selections
    <3>3. QED
      BY <2>4, <2>6, <2>7, <3>1, <3>2 DEF TypeOK
  <2>9. QED
    BY <1>1, <2>8 DEF MarksFaithful, IInv
<1>2. QED
  BY <1>1, Inductive, PTL
=============================================================================
