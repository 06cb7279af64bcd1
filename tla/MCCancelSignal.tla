--------------------------- MODULE MCCancelSignal ---------------------------
(* CancelSignal on a root, two descendants and a task.                      *)
EXTENDS CancelSignal
=============================================================================
