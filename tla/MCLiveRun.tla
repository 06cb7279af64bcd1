----------------------------- MODULE MCLiveRun -----------------------------
(* Instances of LiveRun: the attempts are the items' ids and the probe's.  *)
EXTENDS LiveRun

MCAttempts == (0..N) \X (0..MaxStarts)
MCPeriods == {0}
MCCharges == {State("observed", 0)}
MCBoth == <<"runs", "runs">>
MCGiven == {MCBoth, <<"runs", "unavailable">>, <<"refused", "runs">>}
MCResults(g, s) ==
  {"output"} \cup IF g = MCBoth THEN {} ELSE {"source", "cancelled"}
=============================================================================
