------------------------------ MODULE MCServe ------------------------------
(* Instances of Serve. Calls and ids are interchangeable.                  *)
EXTENDS Serve, TLC
CONSTANTS c1, c2, k1, i1, i2
MCCalls == {c1, c2}
MCCancels == {k1}
MCIds == {i1, i2}
MCSymmetry == Permutations(MCCalls) \cup Permutations(MCIds)
=============================================================================
