---------------------------- MODULE MCRootSplit -----------------------------
(* Two helpers and three moves.  Scores at, inside and above the window, so *)
(* that alpha may rise once between a probe and its advice.                 *)
EXTENDS RootSplit
=============================================================================
