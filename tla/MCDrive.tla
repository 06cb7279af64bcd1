------------------------------- MODULE MCDrive -------------------------------
(* Drive on three small plans.                                              *)
EXTENDS Drive

\* One request, two targets, every report; others use the first backend.
Alone ==
    [requests |-> {"q1"}, screens |-> {"q1"}, maxParallel |-> 1,
     lastTarget |-> 2, permits |-> 1, contended |-> {1},
     maxTries |-> 2, retryOn |-> {"transient", "timed_out"},
     fallbackOn |-> {"timed_out", "invalid_output", "adapter_fault"},
     delay |-> 1, timeout |-> 1, deadline |-> 4,
     live |-> FALSE, hasGate |-> FALSE, validFor |-> {},
     results |-> {"output", "malformed", "transient", "overloaded", "permanent", "cancelled"},
     charges |-> {"known", "unknown"}]

\* Three requests, two at a time; the first may refuse the decision.
Screened ==
    [Alone EXCEPT !.requests = {"q1", "q2", "q3"}, !.maxParallel = 2,
                  !.lastTarget = 1, !.contended = {},
                  !.maxTries = 1, !.delay = 0, !.deadline = 1,
                  !.results = {"output", "transient"}, !.charges = {"known"}]

\* A live re-execution of two requests with a spend gate.
Gated ==
    [Alone EXCEPT !.requests = {"q1", "q2"}, !.screens = {}, !.maxParallel = 2,
                  !.lastTarget = 1, !.permits = 2, !.contended = {},
                  !.delay = 0, !.deadline = 2, !.maxTries = 2,
                  !.live = TRUE, !.hasGate = TRUE, !.validFor = {1, 2},
                  !.results = {"output", "transient"}, !.charges = {"known"}]

MCPlans == {Alone, Screened, Gated}
=============================================================================
