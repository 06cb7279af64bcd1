--------------------------- MODULE MCInvalidation ---------------------------
(* Invalidation on small instances: a namespace call i1 and a scope call i2. *)
EXTENDS Invalidation, TLC

CONSTANTS i1, i2, s1, s2, d1, d2, d3

MCTarget == [i \in Invalidations |-> IF i = i1 THEN All ELSE s1]
MCSymmetry == Permutations({d1, d2})

Together == [d \in Decisions |-> s1]

\* Both tiers, one thread, requests of two scopes; the namespace call leaves the
\* store for later.
Stored ==
    [scopeOf |-> [Together EXCEPT ![d3] = s2],
     calls |-> Invalidations, memoryOnly |-> {i1},
     store |-> TRUE, sharing |-> FALSE, preemptive |-> FALSE]

\* Three requests of one key on several threads and a namespace call that goes to
\* the store.
Crowded == [Stored EXCEPT !.scopeOf = Together, !.calls = {i1}, !.memoryOnly = {},
                          !.preemptive = TRUE]

\* Shared calls of one key; the scope call leaves the store for later.
Shared == [Stored EXCEPT !.scopeOf = [Together EXCEPT ![d3] = None],
                         !.memoryOnly = {i2}, !.sharing = TRUE]

\* The memory tier alone, on several threads.
Memory == [Stored EXCEPT !.memoryOnly = {}, !.store = FALSE, !.preemptive = TRUE]

MCHosts == {Stored, Crowded, Shared, Memory}

\* Both calls go to the store.
MCOvertaken == {[Stored EXCEPT !.scopeOf = [Together EXCEPT ![d3] = None],
                               !.memoryOnly = {}]}

\* Both tiers on several threads, one call.
MCRace == {Crowded}

\* Shared calls and the memory tier, one call.
MCHandoff == {[Shared EXCEPT !.calls = {i1}, !.store = FALSE]}
=============================================================================
