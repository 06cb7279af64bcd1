---------------------------- MODULE MCSharedCall ----------------------------
(* SharedCall on small loads: three requests.                              *)
EXTENDS SharedCall

CONSTANTS r1, r2, r3, k1, k2

\* One key, the third request with less time: one may leave, the others be
\* dropped.
Crowd ==
    [keyOf |-> [p \in Requests |-> k1],
     deadline |-> [p \in Requests |-> IF p = r3 THEN 1 ELSE 2],
     refusing |-> {}, leavers |-> {r1}, droppers |-> Requests \ {r1},
     maxWaiters |-> 3]

\* Nobody leaves or is dropped.
Calm == [Crowd EXCEPT !.leavers = {}, !.droppers = {}]

\* Two keys and one waiter a slot: requests run alone or are refused.
Tight == [Crowd EXCEPT !.keyOf = [p \in Requests |-> IF p = r3 THEN k2 ELSE k1],
                       !.maxWaiters = 1, !.refusing = {r1, r3},
                       !.leavers = {r1}, !.droppers = {r2}]

\* Two requests of a key that may both leave, and a third of another key.
Pair == [Crowd EXCEPT !.keyOf = Tight.keyOf, !.leavers = {r1, r2}, !.droppers = {r3}]

MCLoads == {Crowd, Calm, Tight, Pair}

\* The first request may leave, and nothing else may happen to the callers.
MCDeparture == {[Crowd EXCEPT !.leavers = {r1}, !.droppers = {}]}

\* Every request may leave.
MCDepartures == {[Crowd EXCEPT !.leavers = Requests, !.droppers = {}]}
=============================================================================
