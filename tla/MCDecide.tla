------------------------------ MODULE MCDecide ------------------------------
(* Decide under four loads of three calls.                                  *)
EXTENDS Decide, TLC

CONSTANTS d1, d2, d3, a, b, c

\* One permit and one place in the queue; two calls of one id; one call may be
\* cancelled, expire or be dropped.
Crowded ==
    [idOf |-> (d1 :> a @@ d2 :> a @@ d3 :> b), invalid |-> {},
     maxInFlight |-> 1, maxQueued |-> 1,
     expirable |-> {d3}, cancellable |-> {d3}, droppable |-> {d3},
     writing |-> {}, policies |-> {"backpressure"}]

\* Two calls run at once, so that their deliveries meet, and nobody queues.
AtOnce ==
    [idOf |-> (d1 :> a @@ d2 :> b @@ d3 :> b), invalid |-> {},
     maxInFlight |-> 2, maxQueued |-> 0,
     expirable |-> {}, cancellable |-> {}, droppable |-> {d1},
     writing |-> {}, policies |-> Policies]

\* Two calls in line, one of which may expire or be dropped, also while
\* its entry is written; inline delivery.
InLineTwo ==
    [Crowded EXCEPT !.idOf = (d1 :> a @@ d2 :> b @@ d3 :> c), !.maxQueued = 2,
                    !.expirable = {d2}, !.cancellable = {}, !.droppable = {d2},
                    !.writing = {d2}, !.policies = {"fail_decision"}]

\* A call with an invalid id.
Refusing == [InLineTwo EXCEPT !.invalid = {d3}]

MCTraffics == {Crowded, InLineTwo, AtOnce, Refusing}
=============================================================================
