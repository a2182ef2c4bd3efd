----------------------------- MODULE MCEvalCache ----------------------------
(* Two workers on one slot, two colliding positions; payload stores may    *)
(* overtake the claim.                                                     *)
EXTENDS EvalCache
=============================================================================
