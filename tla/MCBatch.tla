------------------------------- MODULE MCBatch -------------------------------
(* Batch on six small decisions.                                            *)
EXTENDS Batch

Says(r, result) == [req |-> r, result |-> result]

\* What an adapter may answer a batch of two: both in either order, one of them,
\* one twice, both and a third.
Replies(a, b, other) ==
    {<<>>, <<Says(b, "output"), Says(a, "output")>>, <<Says(a, "failed"), Says(b, "output")>>,
     <<Says(other, "output"), Says(a, "cancelled"), Says(b, "output")>>,
     <<Says(a, "output"), Says(b, "output"), Says(a, "output")>>, <<Says(b, "output")>>}

\* Three requests of one group that fit one batch; every report.
Full ==
    [requests |-> <<"q1", "q2", "q3">>, group |-> [r \in {"q1", "q2", "q3"} |-> "g"],
     bytes |-> [r \in {"q1", "q2", "q3"} |-> 1], work |-> [r \in {"q1", "q2", "q3"} |-> 1],
     maxMembers |-> 3, maxBytes |-> 3, maxWork |-> 3, charges |-> {4},
     units |-> {1, 2}, contended |-> {"permits"}, maxParallel |-> 3,
     replies |->
        UNION {[1..n -> {Says(r, "output") : r \in {"q1", "q2", "stray"}}] : n \in 0..3}
        \cup {<<Says("q3", x), Says("q1", y), Says("q2", z)>> : x, y, z \in Results}]

\* Five requests, three at a time: the second is never batched and may refuse
\* the decision, the first and the third fill a batch by their work, the others
\* come later.
Screened ==
    [requests |-> <<"q1", "q2", "q3", "q4", "q5">>,
     group |-> [r \in {"q1", "q2", "q3", "q4", "q5"} |-> IF r = "q2" THEN None ELSE "g"],
     bytes |-> [r \in {"q1", "q2", "q3", "q4", "q5"} |-> 1],
     work |-> [r \in {"q1", "q2", "q3", "q4", "q5"} |-> IF r = "q3" THEN 2 ELSE 1],
     maxMembers |-> 3, maxBytes |-> 4, maxWork |-> 3, charges |-> {0},
     units |-> {1}, contended |-> {}, maxParallel |-> 3, replies |-> Replies("q1", "q3", "q4")]

\* Four requests of two groups make two batches that want one permit.
Pairs ==
    [requests |-> <<"q1", "q2", "q3", "q4">>,
     group |-> [r \in {"q1", "q2", "q3", "q4"} |-> IF r \in {"q1", "q3"} THEN "g" ELSE "h"],
     bytes |-> [r \in {"q1", "q2", "q3", "q4"} |-> 1],
     work |-> [r \in {"q1", "q2", "q3", "q4"} |-> 1],
     maxMembers |-> 2, maxBytes |-> 2, maxWork |-> 2, charges |-> {1},
     units |-> {1}, contended |-> {}, maxParallel |-> 4,
     replies |-> Replies("q1", "q3", "q2") \cup Replies("q2", "q4", "q1")]

\* The same, with a request too big for any batch, while other decisions draw
\* on the ledger.
TooBig == [Pairs EXCEPT !.bytes = [@ EXCEPT !["q4"] = 3], !.contended = {"ledger"}]

NoSteps ==
    [acquires |-> <<>>, limits |-> <<>>, maxCalls |-> 0, live |-> FALSE, deadline |-> 1]

\* A screening that may refuse beside two acquire steps, two at a time: the
\* first has two pages and retries, the second is a widening with two tiers and
\* a shorter window; the calls run out.
Paged ==
    [requests |-> <<"q1">>, group |-> [r \in {"q1"} |-> None],
     bytes |-> [r \in {"q1"} |-> 1], work |-> [r \in {"q1"} |-> 1],
     maxMembers |-> 1, maxBytes |-> 1, maxWork |-> 1, charges |-> {1},
     units |-> {1}, contended |-> {}, maxParallel |-> 2, replies |-> {},
     acquires |-> <<"a", "b">>, maxCalls |-> 2, live |-> FALSE, deadline |-> 2,
     limits |-> [s \in {"a", "b"} |->
        [width |-> IF s = "a" THEN 2 ELSE 1, delay |-> 0, timeout |-> 1,
         attempts |-> IF s = "a" THEN 2 ELSE 1, pages |-> 2,
         retryOn |-> {"transient", "timed_out"},
         finds |-> IF s = "a" THEN {"miss"} ELSE {"hit", "collision", "miss"},
         widens |-> s = "b", acknowledges |-> s = "a"]]]

\* A live decision: one step calls the source behind the gate and retries after
\* a delay, the other has captured pages; other decisions use the source.
Gated ==
    [Paged EXCEPT
        !.requests = <<>>, !.live = TRUE, !.maxCalls = 3, !.contended = {"source"}, !.units = {1, 2},
        !.limits = [s \in {"a", "b"} |->
            [width |-> 2, delay |-> 1, timeout |-> 2, attempts |-> 2, pages |-> 2,
             retryOn |-> {"overloaded"},
             finds |-> IF s = "a" THEN {"miss"} ELSE {"captured", "missing", "absent"},
             widens |-> FALSE, acknowledges |-> s = "b"]]]

MCLoads == {l @@ NoSteps : l \in {Full, Screened, Pairs, TooBig}} \cup {Paged, Gated}
=============================================================================
