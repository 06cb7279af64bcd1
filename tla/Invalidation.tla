---------------------------- MODULE Invalidation ----------------------------
(***************************************************************************)
(* Invalidation of reusable results against the requests that read and     *)
(* write them (crates/rustev-runtime/src: Runtime::invalidate and          *)
(* invalidate_memory of lib.rs, the memory tier of optimization.rs, the    *)
(* persistent tier of store.rs and persistent_read, admit_to_cache and     *)
(* drive of driver.rs).                                                    *)
(*                                                                         *)
(* One plan, hence one namespace; one request key per authorized scope; a  *)
(* store call is sent, takes effect in the store and is answered, in three *)
(* steps or with a failure.  What a stored output is worth is the set of   *)
(* invalidations that had been called when the work behind it began, kept  *)
(* with it as `known`.                                                     *)
(***************************************************************************)
EXTENDS Naturals, Sequences, FiniteSets

CONSTANTS
    Decisions,      \* decisions, each with one request
    Invalidations,  \* calls of invalidate, invalidate_plan and invalidate_scope
    Scopes,         \* authorized scopes
    Target,         \* what each call selects: a scope, or All
    All,            \* the namespace as a selection
    None,           \* no entry, nothing captured
    Hosts           \* the hosts the code may run in, as records of:
                    \*   scopeOf:    the scope of each decision, None of one not submitted
                    \*   calls:      the invalidations it makes
                    \*   memoryOnly: the calls that do not go to the store
                    \*   store:      there is a persistent tier
                    \*   sharing:    the plan shares calls in flight
                    \*   preemptive: calls run on several threads

Known == SUBSET Invalidations

\* A shared call in flight: what its output will be worth, and who waits for it.
Flight == [known : Known, waiters : Seq(Decisions)]

ASSUME InvalidationAssumption ==
    /\ IsFiniteSet(Decisions) /\ IsFiniteSet(Invalidations) /\ IsFiniteSet(Scopes)
    /\ Decisions \cap Invalidations = {} /\ None \notin Flight
    /\ All \notin Scopes
    /\ Target \in [Invalidations -> Scopes \cup {All}]
    /\ None \notin Scopes
    /\ Hosts \subseteq [scopeOf : [Decisions -> Scopes \cup {None}],
                      calls : SUBSET Invalidations, memoryOnly : SUBSET Invalidations,
                      store : BOOLEAN, sharing : BOOLEAN, preemptive : BOOLEAN]

VARIABLES
    host,        \* the host of this behaviour
    memory,      \* memory tier: the namespace generation and the entries
    store,       \* persistent tier: generations by selection, and the entries
    marks,       \* selections awaiting their store invalidation
    slot,        \* the shared call in flight for each scope's key
    dpc,         \* where each request is
    captured,    \* the memory generation each request captured
    generations, \* the store generations each request captured
    read,        \* what the store's answer to each request carries
    result,      \* the output each request has or waits for, as its `known`
    settled,     \* calls that had returned when the request began
    ipc,         \* where each invalidation call is
    seen,        \* each call, and the calls whose mark was set when it was made
    reconciled,  \* calls the store has answered for, by theirs or a later call
    complete,    \* the calls that returned complete
    slips        \* history: the kinds of steps after which a stale output may be kept

vars == <<host, memory, store, marks, slot, dpc, captured, generations, read, result,
          settled, ipc, seen, reconciled, complete, slips>>

decVars == <<host, slot, dpc, captured, generations, read, result, settled>>
invVars == <<host, ipc, seen, reconciled, complete>>

-----------------------------------------------------------------------------

Covers(t, s) == t = All \/ t = s

Called == {i \in Invalidations : ipc[i] # "idle"}

Returned == {i \in Invalidations : ipc[i] \in {"done", "failed"}}

Covering(is, s) == {i \in is : Covers(Target[i], s)}

ScopeOf == host.scopeOf
HasStore == host.store
Sharing == host.sharing
Preemptive == host.preemptive

Init ==
    /\ host \in Hosts
    /\ memory = [gen |-> 0, entries |-> [s \in Scopes |-> None]]
    /\ store = [gens |-> [t \in Scopes \cup {All} |-> 0],
                entries |-> [s \in Scopes |-> None]]
    /\ marks = {}
    /\ slot = [s \in Scopes |-> None]
    /\ dpc = [d \in Decisions |-> "new"]
    /\ captured = [d \in Decisions |-> 0]
    /\ generations = [d \in Decisions |-> None]
    /\ read = [d \in Decisions |-> None]
    /\ result = [d \in Decisions |-> None]
    /\ settled = [d \in Decisions |-> {}]
    /\ ipc = [i \in Invalidations |-> "idle"]
    /\ seen = [i \in Invalidations |-> {}]
    /\ reconciled = {}
    /\ complete = {}
    /\ slips = {}

(***************************************************************************)
(* On one thread the code between two awaits is one block: a call is in    *)
(* one between the memory tier and its mark, a request between its capture *)
(* and its store call.                                                     *)
(***************************************************************************)
InBlock == {i \in Invalidations : ipc[i] = "mark"}
             \cup {d \in Decisions : dpc[d] \in {"lookup", "check"}}

Turn(x) == Preemptive \/ InBlock \subseteq {x}

-----------------------------------------------------------------------------
(* Invalidation.                                                           *)

Forget_same_generation(t) ==
    memory' = [gen |-> memory.gen,
               entries |-> [s \in Scopes |->
                              IF Covers(t, s) THEN None ELSE memory.entries[s]]]

\* Optimizer::invalidate: the generation advances, then the selected go.
Forget(t) ==
    memory' = [gen |-> memory.gen + 1,
               entries |-> [s \in Scopes |->
                              IF Covers(t, s) THEN None ELSE memory.entries[s]]]

\* invalidate_memory: the memory tier, under its own lock.
Call(i) ==
    /\ Turn(i)
    /\ ipc[i] = "idle"
    /\ i \in host.calls
    /\ Forget(Target[i])
    /\ seen' = [seen EXCEPT ![i] = {j \in Called : ipc[j] # "mark"} \cup {i}]
    /\ ipc' = [ipc EXCEPT ![i] = IF HasStore THEN "mark" ELSE "done"]
    /\ UNCHANGED <<store, marks, decVars, reconciled, complete, slips>>

\* invalidate_memory: then the mark, under another; a synchronous call returns.
Mark(i) ==
    /\ ipc[i] = "mark"
    /\ marks' = marks \cup {Target[i]}
    /\ ipc' = [ipc EXCEPT ![i] = IF i \in host.memoryOnly THEN "done" ELSE "store"]
    /\ UNCHANGED <<memory, store, decVars, seen, reconciled, complete, slips>>

\* External, RuntimeStore::invalidate: the selected generation advances and its
\* entries become unreadable, atomically.
StoreInvalidates(i) ==
    /\ Turn(i)
    /\ ipc[i] = "store"
    /\ store' = [gens |-> [store.gens EXCEPT ![Target[i]] = @ + 1],
                 entries |-> [s \in Scopes |->
                                IF Covers(Target[i], s) THEN None ELSE store.entries[s]]]
    /\ ipc' = [ipc EXCEPT ![i] = "invalidated"]
    /\ UNCHANGED <<memory, marks, decVars, seen, reconciled, complete, slips>>

\* A namespace covers every scope in it; a scope's answer clears its own mark.
Unmarked(t) == IF t = All THEN {} ELSE marks \ {t}

IsComplete_always(t) == TRUE

\* A scope stays unavailable while its namespace awaits its own answer.
IsComplete(t) == All \notin Unmarked(t)

\* The answer clears the mark of a call that was made while it was awaited, and
\* that the store has not answered for.
Overtakes(i) ==
    \E j \in Called \ (seen[i] \cup reconciled) :
        ipc[j] # "mark" /\ Covers(Target[i], Target[j])

\* Runtime::invalidate: the store's answer clears the mark.
StoreAnswers(i) ==
    /\ Turn(i)
    /\ ipc[i] = "invalidated"
    /\ marks' = Unmarked(Target[i])
    /\ complete' = IF IsComplete(Target[i]) THEN complete \cup {i} ELSE complete
    /\ reconciled' = reconciled \cup {j \in seen[i] : Covers(Target[i], Target[j])}
    /\ ipc' = [ipc EXCEPT ![i] = "done"]
    /\ slips' = IF Overtakes(i) THEN slips \cup {"answer"} ELSE slips
    /\ UNCHANGED <<memory, store, decVars, seen>>

\* Runtime::invalidate: the store fails, before or after it did the work, or
\* the caller drops the call; the mark stays.
StoreFails(i) ==
    /\ Turn(i)
    /\ ipc[i] \in {"store", "invalidated"}
    /\ ipc' = [ipc EXCEPT ![i] = "failed"]
    /\ UNCHANGED <<memory, store, marks, decVars, seen, reconciled, complete, slips>>

-----------------------------------------------------------------------------
(* A request of a decision.                                                *)

\* Inner::persistent_unavailable.
Unavailable(s) == All \in marks \/ s \in marks

\* The store generations a read of scope s is given, atomically with the entry.
GensOf(s) == <<store.gens[All], store.gens[s]>>

Goto(d, at) == dpc' = [dpc EXCEPT ![d] = at]

\* cache_lookup: the generation is captured before the lookup.
Capture(d) ==
    /\ Turn(d)
    /\ dpc[d] = "new"
    /\ ScopeOf[d] # None
    /\ captured' = [captured EXCEPT ![d] = memory.gen]
    /\ settled' = [settled EXCEPT ![d] = Covering(Returned, ScopeOf[d])]
    /\ Goto(d, "lookup")
    /\ UNCHANGED <<memory, store, marks, slot, generations, read, result, slips,
                   invVars>>

\* lookup_entry: an entry of the current generation is served, one of an earlier
\* generation is removed.
Lookup(d) ==
    LET s == ScopeOf[d]
        e == memory.entries[s]
        hit == e # None /\ e.gen = memory.gen
    IN  /\ dpc[d] = "lookup"
        /\ IF hit
           THEN /\ result' = [result EXCEPT ![d] = e.known]
                /\ Goto(d, "served")
                /\ UNCHANGED memory
           ELSE /\ memory' = [memory EXCEPT !.entries[s] = None]
                /\ Goto(d, IF HasStore THEN "check" ELSE "dispatch")
                /\ UNCHANGED result
        /\ UNCHANGED <<store, marks, slot, captured, generations, read, settled, slips, invVars>>

\* A call has advanced the generation this request captured, and not set its mark.
Between(d) ==
    /\ captured[d] = memory.gen
    /\ \E i \in Called : ipc[i] = "mark" /\ Covers(Target[i], ScopeOf[d])

\* persistent_read: no read, and no later write, of an unavailable selection.
CheckMark(d) ==
    /\ dpc[d] = "check"
    /\ Goto(d, IF Unavailable(ScopeOf[d]) THEN "dispatch" ELSE "get")
    /\ slips' = IF ~Unavailable(ScopeOf[d]) /\ Between(d) THEN slips \cup {"read"} ELSE slips
    /\ UNCHANGED <<memory, store, marks, slot, captured, generations, read, result,
                   settled, invVars>>

\* External, RuntimeStore::get: the entry and the generations, atomically.
StoreGets(d) ==
    /\ Turn(d)
    /\ dpc[d] = "get"
    /\ read' = [read EXCEPT ![d] = [entry |-> store.entries[ScopeOf[d]],
                                    gens |-> GensOf(ScopeOf[d])]]
    /\ Goto(d, "got")
    /\ UNCHANGED <<memory, store, marks, slot, captured, generations, result, settled,
                   slips, invVars>>

\* store_call: a failure, the deadline or a cancellation; nothing is captured.
GetFails(d) ==
    /\ Turn(d)
    /\ dpc[d] \in {"get", "got"}
    /\ read' = [read EXCEPT ![d] = None]
    /\ Goto(d, "dispatch")
    /\ UNCHANGED <<memory, store, marks, slot, captured, generations, result, settled,
                   slips, invVars>>

Inserted_any(g, s, known) ==
    [memory EXCEPT !.entries[s] = [gen |-> memory.gen, known |-> known]]

\* insert_value: refused unless the captured generation is still the current
\* one; an equivalent entry is replaced.
Inserted(g, s, known) ==
    IF g = memory.gen
    THEN [memory EXCEPT !.entries[s] = [gen |-> memory.gen, known |-> known]]
    ELSE memory

\* persistent_read: the generations are captured, and an entry written under
\* them is served and admitted to the memory tier.
GetAnswered(d) ==
    LET s == ScopeOf[d]
        e == read[d].entry
        hit == e # None /\ e.gens = read[d].gens
    IN  /\ Turn(d)
        /\ dpc[d] = "got"
        /\ generations' = [generations EXCEPT ![d] = read[d].gens]
        /\ read' = [read EXCEPT ![d] = None]
        /\ IF hit
           THEN /\ memory' = Inserted(captured[d], s, e.known)
                /\ result' = [result EXCEPT ![d] = e.known]
                /\ Goto(d, "served")
           ELSE /\ Goto(d, "dispatch")
                /\ UNCHANGED <<memory, result>>
        /\ UNCHANGED <<store, marks, slot, captured, settled, slips, invVars>>

\* drive, share: the attempt is dispatched, or the one in flight for the key is
\* joined.  The slot lists its waiters, the owner first.
Dispatch(d) ==
    LET s == ScopeOf[d]
    IN  /\ Turn(d)
        /\ dpc[d] = "dispatch"
        /\ IF Sharing /\ slot[s] # None
           THEN /\ slot' = [slot EXCEPT ![s].waiters = Append(@, d)]
                /\ result' = [result EXCEPT ![d] = slot[s].known]
           ELSE /\ result' = [result EXCEPT ![d] = Called]
                /\ slot' = IF Sharing
                           THEN [slot EXCEPT ![s] = [known |-> Called, waiters |-> <<d>>]]
                           ELSE slot
        /\ Goto(d, "running")
        /\ UNCHANGED <<memory, store, marks, captured, generations, read, settled, slips, invVars>>

Without(ws, d) ==
    LET i == CHOOSE i \in 1..Len(ws) : ws[i] = d
    IN  SubSeq(ws, 1, i - 1) \o SubSeq(ws, i + 1, Len(ws))

\* The waiter d owns an attempt that others wait for and that began before a call.
HandsOnOld(d, rest) ==
    LET f == slot[ScopeOf[d]]
    IN  Head(f.waiters) = d /\ rest # <<>> /\ f.known # Called

\* A waiter leaves; the attempt and its ownership go on with the next, which will
\* admit the output under the generations it captured itself.
Leave(d) ==
    LET s == ScopeOf[d]
        rest == Without(slot[s].waiters, d)
    IN  /\ Turn(d)
        /\ Sharing
        /\ dpc[d] = "running"
        /\ slot' = [slot EXCEPT ![s] = IF rest = <<>> THEN None
                                       ELSE [@ EXCEPT !.waiters = rest]]
        /\ slips' = IF HandsOnOld(d, rest) THEN slips \cup {"heir"} ELSE slips
        /\ result' = [result EXCEPT ![d] = None]
        /\ Goto(d, "end")
        /\ UNCHANGED <<memory, store, marks, captured, generations, read, settled, invVars>>

Waiters(d) ==
    IF Sharing THEN {slot[ScopeOf[d]].waiters[j] : j \in 1..Len(slot[ScopeOf[d]].waiters)}
    ELSE {d}

\* The attempt ends with an output, which every waiter receives; the owner goes
\* on to admit it, the others have no attempt of their own and admit nothing.
Completes(d) ==
    LET s == ScopeOf[d]
    IN  /\ Turn(d)
        /\ dpc[d] = "running"
        /\ Sharing => Head(slot[s].waiters) = d
        /\ dpc' = [w \in Decisions |->
                     IF w = d THEN "admit"
                     ELSE IF w \in Waiters(d) THEN "end" ELSE dpc[w]]
        /\ slot' = [slot EXCEPT ![s] = None]
        /\ UNCHANGED <<memory, store, marks, captured, generations, read, result, settled,
                       slips, invVars>>

\* admit_to_cache: the memory tier at once; a persistent write is queued when
\* the store's generations were captured.
Admit(d) ==
    /\ Turn(d)
    /\ dpc[d] = "admit"
    /\ memory' = Inserted(captured[d], ScopeOf[d], result[d])
    /\ Goto(d, IF generations[d] # None THEN "write" ELSE "end")
    /\ UNCHANGED <<store, marks, slot, captured, generations, read, result, settled, slips, invVars>>

\* put_entry: nothing is written to an unavailable selection.
CheckWrite(d) ==
    /\ Turn(d)
    /\ dpc[d] = "write"
    /\ Goto(d, IF Unavailable(ScopeOf[d]) THEN "end" ELSE "put")
    /\ UNCHANGED <<memory, store, marks, slot, captured, generations, read, result,
                   settled, slips, invVars>>

\* External, RuntimeStore::put: stored if the captured generations still hold
\* and no other writer was first.
StorePuts(d) ==
    LET s == ScopeOf[d]
    IN  /\ Turn(d)
        /\ dpc[d] = "put"
        /\ store' = IF generations[d] = GensOf(s) /\ store.entries[s] = None
                    THEN [store EXCEPT !.entries[s] = [gens |-> GensOf(s), known |-> result[d]]]
                    ELSE store
        /\ Goto(d, "end")
        /\ UNCHANGED <<memory, marks, slot, captured, generations, read, result, settled,
                       slips, invVars>>

Next ==
    \/ \E i \in Invalidations :
         Call(i) \/ Mark(i) \/ StoreInvalidates(i) \/ StoreAnswers(i) \/ StoreFails(i)
    \/ \E d \in Decisions :
         \/ Capture(d) \/ Lookup(d) \/ CheckMark(d) \/ StoreGets(d) \/ GetFails(d)
         \/ GetAnswered(d) \/ Dispatch(d) \/ Leave(d) \/ Completes(d) \/ Admit(d)
         \/ CheckWrite(d) \/ StorePuts(d)

Spec == Init /\ [][Next]_vars

-----------------------------------------------------------------------------

\* Type correctness of the tiers, the requests and the calls.
TypeOK ==
    /\ host \in Hosts
    /\ memory.gen \in 0..Cardinality(Invalidations)
    /\ \A s \in Scopes :
         memory.entries[s] = None
           \/ memory.entries[s] \in [gen : 0..memory.gen, known : Known]
    /\ store.gens \in [Scopes \cup {All} -> 0..Cardinality(Invalidations)]
    /\ marks \subseteq Scopes \cup {All}
    /\ dpc \in [Decisions -> {"new", "lookup", "check", "get", "got", "dispatch", "running",
                              "admit", "write", "put", "served", "end"}]
    /\ \A d \in Decisions : captured[d] \in 0..memory.gen
    /\ \A d \in Decisions : result[d] = None \/ result[d] \in Known
    /\ ipc \in [Invalidations -> {"idle", "mark", "store", "invalidated", "done", "failed"}]
    /\ reconciled \subseteq Called /\ complete \subseteq Returned
    /\ slips \subseteq {"read", "answer", "heir"}

\* No step of the kinds that can leave a stale output behind has been taken: a
\* request read the persistent tier between a call's new generation and its mark
\* ("read"), an answer cleared a later call's mark ("answer"), or an attempt older
\* than a call was handed on ("heir").
Clean == slips = {}

\* A request that began after an invalidation returned, in whatever way, is
\* never given a stored output whose work began before that invalidation was
\* called, from either tier and through any delay of the store, unless a step
\* that `slips` names came before.
NeverServedStale ==
    Clean => \A d \in Decisions : dpc[d] = "served" => settled[d] \subseteq result[d]

\* Once an invalidation has returned, no tier holds an output it would serve
\* whose work began before the call (lib.rs:744-746, "a result captured earlier
\* is never stored or served").
Fresh ==
    \A s \in Scopes :
        LET m == memory.entries[s]
            p == store.entries[s]
        IN  /\ m # None /\ m.gen = memory.gen => Covering(Returned, s) \subseteq m.known
            /\ p # None /\ ~Unavailable(s) => Covering(Returned, s) \subseteq p.known

\* Both tiers are fresh unless a step that `slips` names came before: every other
\* late admission is refused or unreadable.
TiersFresh == Clean => Fresh

\* A selection is unavailable to the persistent tier from its call's mark until
\* the store has answered for it (lib.rs:772-774, "The selection is unavailable to
\* the persistent tier until the store answers; a failure leaves it unavailable,
\* and a later call reconciles it").
Awaited ==
    HasStore =>
        \A i \in Called \ reconciled :
            ipc[i] # "mark" => Target[i] \in marks \/ All \in marks

\* A selection awaits its answer, except once an earlier call's answer has cleared
\* the mark of a later one.
UnavailableUntilReconciled == "answer" \notin slips => Awaited

\* A call that returns complete leaves no earlier call that covers any of its
\* selection without the store's answer (lib.rs, InvalidationResult::complete),
\* with the same exception.
CompleteIsReconciled ==
    "answer" \notin slips =>
        \A i \in complete :
            {j \in seen[i] : Covers(Target[i], Target[j]) \/ Covers(Target[j], Target[i])}
                \subseteq reconciled

\* The marks say what the store still has to answer for, while it is awaited and
\* after it has answered (lib.rs, invalidate_memory and invalidate).
MarksFaithful == TypeOK /\ UnavailableUntilReconciled /\ CompleteIsReconciled
=============================================================================
