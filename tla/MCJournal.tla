----------------------------- MODULE MCJournal -----------------------------
(* Instances of Journal: attempts of a live run and of another user of the *)
(* journal, and one of the time before the cap was raised. Period 0 is the *)
(* testing budget's only period, 1 and 2 are months.                       *)
EXTENDS Journal

CONSTANTS r1, r2, h
MCAttempts == {r1, r2, h}
MCRun == {r1, r2}
MCWide == {r2}
MCBound(a) == IF a = r2 THEN 2 ELSE 1
MCKinds == {"testing", "production"}
MCPeriods == 0..2
=============================================================================
