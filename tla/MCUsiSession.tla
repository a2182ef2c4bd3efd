---------------------------- MODULE MCUsiSession ----------------------------
(* UsiSession for TLC.  Three questions allow a question that replaces one *)
(* that replaced another; a generation more or less is a position or       *)
(* usinewgame between them or a ponderhit that restarts the search.        *)
EXTENDS UsiSession

=============================================================================
