--------------------------- MODULE MCSpeculative ----------------------------
(* Two searches, so that a task can outlive its own.                       *)
EXTENDS Speculative

=============================================================================
