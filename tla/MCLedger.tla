------------------------------ MODULE MCLedger ------------------------------
(* Small instances of Ledger for TLC.                                      *)
EXTENDS Ledger

\* Three decisions, one of them a generation step with a ledger of its own, and
\* the ledger they share.
MCLedgers == {"step", "d1", "d2", "d3", "shared"}
MCKind == [l \in MCLedgers |->
             CASE l = "step" -> "step" [] l = "shared" -> "shared" [] OTHER -> "decision"]
MCMode == [l \in MCLedgers |-> CASE l = "d1" -> "estimated" [] l \in {"d2", "d3"} -> "unlimited"
                                 [] OTHER -> "hard"]
MCLimit == [l \in MCLedgers |-> IF l = "shared" THEN 3 ELSE 2]
MCDraws == [a \in Attempts |-> CASE a = 1 -> {"step", "d1", "shared"}
                                 [] a = 2 -> {"d2", "shared"} [] a = 3 -> {"d3", "shared"}]
\* The third decision runs under the id of the second.
MCId == [a \in Attempts |-> IF a = 1 THEN 1 ELSE 2]
=============================================================================
