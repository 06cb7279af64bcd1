----------------------------- MODULE MemoryCache -----------------------------
(***************************************************************************)
(* The memory tier of one cache namespace                                  *)
(* (crates/rustev-runtime/src/optimization.rs, NamespaceState and the      *)
(* Optimizer's lookup, insert and invalidate): entries under byte and      *)
(* entry bounds, evicted oldest first through two queues whose slots are   *)
(* deleted lazily.                                                         *)
(*                                                                         *)
(* Every operation holds the one lock; its loops are steps here, and while *)
(* one runs nothing else can.  An entry is found by the digest of its key, *)
(* and two keys may have one digest.  The constant 16 of the compaction is *)
(* the parameter Slack.                                                    *)
(***************************************************************************)
EXTENDS Naturals, Sequences, FiniteSets

CONSTANTS
    Keys,           \* request keys (the key material)
    Digests,        \* key ids
    DigestOf,       \* the id of each key
    Scopes,         \* authorized scopes
    ScopeOf,        \* the scope of each key
    Sizes,          \* sizes an entry can have, in bytes
    MaxEntryBytes,  \* the policy's bounds
    MaxScopeBytes,
    MaxBytes,
    MaxEntries,
    Ttl,            \* the policy's time to live
    Slack,          \* stale slots tolerated before a queue is compacted
    MaxInserts,     \* bound on the admissions of an instance
    MaxGeneration,  \* bound on its invalidations
    MaxNow,         \* bound on its clock
    None            \* no entry, no operation

\* What the compiler's validation of a policy guarantees, and a digest is a
\* function of the key.
ASSUME CacheAssumption ==
    /\ IsFiniteSet(Keys) /\ IsFiniteSet(Digests) /\ IsFiniteSet(Scopes)
    /\ DigestOf \in [Keys -> Digests]
    /\ ScopeOf \in [Keys -> Scopes]
    /\ Sizes \subseteq Nat \ {0}
    /\ MaxEntryBytes \in Nat /\ MaxScopeBytes \in Nat /\ MaxBytes \in Nat
    /\ MaxEntryBytes <= MaxScopeBytes /\ MaxScopeBytes <= MaxBytes
    /\ MaxEntries \in Nat \ {0}
    /\ Ttl \in Nat /\ Slack \in Nat
    /\ MaxInserts \in Nat /\ MaxGeneration \in Nat /\ MaxNow \in Nat
    /\ None \notin Scopes

VARIABLES
    entries,     \* the entry under each digest, or None
    fifo,        \* slots of the namespace, oldest first
    scopeFifo,   \* slots of each scope, oldest first
    scopeBytes,  \* bytes counted for each scope
    totalBytes,  \* bytes counted for the namespace
    nextSeq,     \* the next admission sequence number
    generation,  \* the namespace generation
    now,         \* the runtime's clock
    op           \* the operation that holds the lock

state == <<entries, fifo, scopeFifo, scopeBytes, totalBytes>>
cacheVars == <<state, nextSeq, generation, now, op>>

-----------------------------------------------------------------------------

Held == {i \in Digests : entries[i] # None}

Idle == [at |-> "idle"]

CacheInit ==
    /\ entries = [i \in Digests |-> None]
    /\ fifo = <<>>
    /\ scopeFifo = [s \in Scopes |-> <<>>]
    /\ scopeBytes = [s \in Scopes |-> 0]
    /\ totalBytes = 0
    /\ nextSeq = 0
    /\ generation = 0
    /\ now = 0
    /\ op = Idle

\* NamespaceState::live: a slot is stale once its entry was removed or replaced.
Live(es, slot) == es[slot.id] # None /\ es[slot.id].seq = slot.seq

\* The live slots of a queue, in its order (VecDeque::retain).
OnlyLive(es, q) ==
    LET kept == {n \in 1..Len(q) : Live(es, q[n])}
        Nth(m) == CHOOSE n \in kept : Cardinality({j \in kept : j <= n}) = m
    IN  [m \in 1..Cardinality(kept) |-> q[Nth(m)]]

Minus(m, n) == IF m >= n THEN m - n ELSE 0

\* The namespace queue is compacted when stale slots dominate it.
Compacted(es, q) ==
    IF Len(q) > 2 * Cardinality({i \in Digests : es[i] # None}) + Slack
    THEN OnlyLive(es, q) ELSE q

ScopeCompacted_drops(es, q, bytes) == IF bytes = 0 \/ Len(q) > Slack THEN <<>> ELSE q

\* A scope's queue is dropped with its last entry, and compacted past Slack.
ScopeCompacted(es, q, bytes) ==
    IF bytes = 0 THEN <<>>
    ELSE IF Len(q) > Slack THEN OnlyLive(es, q) ELSE q

\* Bytes left to a scope, saturating.
ScopeLess(s, e) == Minus(scopeBytes[s], e.bytes)

\* NamespaceState::remove, from queues f and sf that a pop may have shortened.
Remove(i, f, sf) ==
    LET e == entries[i]
        s == ScopeOf[e.key]
        es == [entries EXCEPT ![i] = None]
    IN  /\ entries' = es
        /\ totalBytes' = Minus(totalBytes, e.bytes)
        /\ scopeBytes' = [scopeBytes EXCEPT ![s] = ScopeLess(s, e)]
        /\ fifo' = Compacted(es, f)
        /\ scopeFifo' = [sf EXCEPT ![s] = ScopeCompacted(es, @, ScopeLess(s, e))]

-----------------------------------------------------------------------------
(* Lookup.                                                                 *)

\* lookup_entry: a hit and a collision change nothing; an entry past its time or
\* of an earlier generation is removed.
Lookup(k) ==
    LET i == DigestOf[k]
        e == entries[i]
    IN  /\ op = Idle
        /\ e # None
        /\ e.key = k
        /\ e.expires <= now \/ e.generation # generation
        /\ Remove(i, fifo, scopeFifo)
        /\ UNCHANGED <<nextSeq, generation, now, op>>

-----------------------------------------------------------------------------
(* Insert.                                                                 *)

\* insert_value: refused if the entry is too large, the generation moved since
\* the request captured it or the digest is another key's; an equivalent entry
\* is removed first.  A refusal changes nothing.
Insert(k, bytes, captured) ==
    LET i == DigestOf[k]
    IN  /\ op = Idle
        /\ nextSeq < MaxInserts
        /\ bytes <= MaxEntryBytes
        /\ captured = generation
        /\ entries[i] # None => entries[i].key = k
        /\ IF entries[i] # None THEN Remove(i, fifo, scopeFifo) ELSE UNCHANGED state
        /\ op' = [at |-> "scope", key |-> k, bytes |-> bytes]
        /\ UNCHANGED <<nextSeq, generation, now>>

ScopeTooFull == scopeBytes[ScopeOf[op.key]] + op.bytes > MaxScopeBytes

TooFull == Cardinality(Held) >= MaxEntries \/ totalBytes + op.bytes > MaxBytes

\* evict_oldest of the inserting scope: one slot, and its entry if it is live.
EvictScope ==
    LET s == ScopeOf[op.key]
        slot == Head(scopeFifo[s])
        rest == [scopeFifo EXCEPT ![s] = Tail(@)]
    IN  /\ op.at = "scope"
        /\ ScopeTooFull
        /\ scopeFifo[s] # <<>>
        /\ IF Live(entries, slot)
           THEN Remove(slot.id, fifo, rest)
           ELSE /\ scopeFifo' = rest
                /\ UNCHANGED <<entries, fifo, scopeBytes, totalBytes>>
        /\ UNCHANGED <<nextSeq, generation, now, op>>

ScopeFits ==
    /\ op.at = "scope"
    /\ ~ScopeTooFull \/ scopeFifo[ScopeOf[op.key]] = <<>>
    /\ op' = [op EXCEPT !.at = "total"]
    /\ UNCHANGED <<state, nextSeq, generation, now>>

EvictAny_newest ==
    LET slot == fifo[Len(fifo)]
        rest == SubSeq(fifo, 1, Len(fifo) - 1)
    IN  /\ op.at = "total"
        /\ TooFull
        /\ fifo # <<>>
        /\ IF Live(entries, slot)
           THEN Remove(slot.id, rest, scopeFifo)
           ELSE /\ fifo' = rest
                /\ UNCHANGED <<entries, scopeFifo, scopeBytes, totalBytes>>
        /\ UNCHANGED <<nextSeq, generation, now, op>>

\* evict_oldest of the namespace.
EvictAny ==
    LET slot == Head(fifo)
    IN  /\ op.at = "total"
        /\ TooFull
        /\ fifo # <<>>
        /\ IF Live(entries, slot)
           THEN Remove(slot.id, Tail(fifo), scopeFifo)
           ELSE /\ fifo' = Tail(fifo)
                /\ UNCHANGED <<entries, scopeFifo, scopeBytes, totalBytes>>
        /\ UNCHANGED <<nextSeq, generation, now, op>>

\* The entry is admitted, with a slot in both queues.
Commit ==
    LET k == op.key
        s == ScopeOf[k]
        slot == [id |-> DigestOf[k], seq |-> nextSeq]
    IN  /\ op.at = "total"
        /\ ~TooFull \/ fifo = <<>>
        /\ entries' = [entries EXCEPT ![slot.id] =
                         [key |-> k, bytes |-> op.bytes, seq |-> nextSeq,
                          generation |-> generation, expires |-> now + Ttl]]
        /\ scopeBytes' = [scopeBytes EXCEPT ![s] = @ + op.bytes]
        /\ totalBytes' = totalBytes + op.bytes
        /\ fifo' = Append(fifo, slot)
        /\ scopeFifo' = [scopeFifo EXCEPT ![s] = Append(@, slot)]
        /\ nextSeq' = nextSeq + 1
        /\ op' = Idle
        /\ UNCHANGED <<generation, now>>

-----------------------------------------------------------------------------
(* Invalidation.                                                           *)

\* Optimizer::invalidate of the namespace (s = None) or a scope: the generation
\* advances, then every selected entry is removed.
Invalidate(s) ==
    /\ op = Idle
    /\ generation < MaxGeneration
    /\ generation' = generation + 1
    /\ op' = [at |-> "invalidate", scope |-> s]
    /\ UNCHANGED <<state, nextSeq, now>>

Selected ==
    {i \in Held : op.scope = None \/ ScopeOf[entries[i].key] = op.scope}

RemoveSelected ==
    /\ op.at = "invalidate"
    /\ \E i \in Selected : Remove(i, fifo, scopeFifo)
    /\ UNCHANGED <<nextSeq, generation, now, op>>

Invalidated ==
    /\ op.at = "invalidate"
    /\ Selected = {}
    /\ op' = Idle
    /\ UNCHANGED <<state, nextSeq, generation, now>>

Tick ==
    /\ op = Idle
    /\ now < MaxNow
    /\ now' = now + 1
    /\ UNCHANGED <<state, nextSeq, generation, op>>

CacheNext ==
    \/ \E k \in Keys : Lookup(k)
    \/ \E k \in Keys, b \in Sizes, g \in 0..MaxGeneration : Insert(k, b, g)
    \/ EvictScope \/ ScopeFits \/ EvictAny \/ Commit
    \/ \E s \in Scopes \cup {None} : Invalidate(s)
    \/ RemoveSelected \/ Invalidated
    \/ Tick

CacheSpec == CacheInit /\ [][CacheNext]_cacheVars

-----------------------------------------------------------------------------

Slots == [id : Digests, seq : Nat]

Entries == [key : Keys, bytes : Nat, seq : Nat, generation : Nat, expires : Nat]

\* No entry is not one.
ASSUME NoneAssumption == None \notin Entries

\* Type correctness of the namespace's state.
CacheTypeOK ==
    /\ entries \in [Digests -> Entries \cup {None}]
    /\ fifo \in Seq(Slots)
    /\ scopeFifo \in [Scopes -> Seq(Slots)]
    /\ scopeBytes \in [Scopes -> Nat]
    /\ totalBytes \in Nat
    /\ nextSeq \in 0..MaxInserts
    /\ generation \in 0..MaxGeneration
    /\ now \in 0..MaxNow
    /\ op.at \in {"idle", "scope", "total", "invalidate"}

\* Pairs of an entry of D and a unit it counts: as many as D has bytes.
BytesOf(D) == UNION {{i} \X (1..entries[i].bytes) : i \in D}

OfScope(s) == {i \in Held : ScopeOf[entries[i].key] = s}

\* The byte counts are those of the entries held, for the namespace and for each
\* scope, so no saturating subtraction ever hides a difference.
BytesExact ==
    /\ totalBytes = Cardinality(BytesOf(Held))
    /\ \A s \in Scopes : scopeBytes[s] = Cardinality(BytesOf(OfScope(s)))

\* Between operations the entries are within the policy's bounds: an eviction
\* never gives up (a queue run empty) with the new entry still not fitting.
WithinBounds ==
    op = Idle =>
        /\ totalBytes <= MaxBytes
        /\ Cardinality(Held) <= MaxEntries
        /\ \A s \in Scopes : scopeBytes[s] <= MaxScopeBytes

LiveIds(q) == {q[j].id : j \in {n \in 1..Len(q) : Live(entries, q[n])}}

Ordered(q) == \A a, b \in 1..Len(q) : a < b => q[a].seq < q[b].seq

\* Lazy deletion never loses an entry: each has its live slot in the namespace's
\* queue and in its scope's, and both queues are in order of admission.
EveryEntryQueued ==
    /\ LiveIds(fifo) = Held
    /\ \A s \in Scopes : LiveIds(scopeFifo[s]) = OfScope(s)
    /\ Ordered(fifo)
    /\ \A s \in Scopes : Ordered(scopeFifo[s])

\* The queues stay proportional to the entries: at most one stale slot per live
\* entry and Slack more in the namespace's queue, at most Slack in a scope's.
QueuesProportional ==
    /\ Len(fifo) <= 2 * Cardinality(Held) + Slack
    /\ \A s \in Scopes : Len(scopeFifo[s]) <= Cardinality(OfScope(s)) + Slack

\* The books of the namespace are exact at every removal, and within the policy's
\* bounds between operations; and lazy deletion neither loses the slot of a live
\* entry nor lets the queues grow, through any sequence of admissions and
\* removals (insert_value, remove, invalidate).
BooksExact ==
    CacheTypeOK /\ BytesExact /\ WithinBounds /\ EveryEntryQueued /\ QueuesProportional

Evicted == {i \in Held : entries'[i] = None}

\* An insertion evicts the oldest: under the scope's bound the oldest of its own
\* scope only, under the namespace's the oldest of all.
EvictsOldest ==
    [][\A i \in Evicted :
         /\ op.at = "scope" =>
              /\ ScopeOf[entries[i].key] = ScopeOf[op.key]
              /\ \A j \in OfScope(ScopeOf[op.key]) : entries[i].seq <= entries[j].seq
         /\ op.at = "total" => \A j \in Held : entries[i].seq <= entries[j].seq]_cacheVars
=============================================================================
