--------------------------- MODULE MCMatchRunner ---------------------------
(* Two games over paths that are empty or hold a complete earlier match.   *)
EXTENDS MatchRunner

OldTrials == <<Trial("earlier", 1, "E1Win", FALSE), Trial("earlier", 2, "E2Win", FALSE)>>

MCEarlier ==
  {EmptyDisk,
   [EmptyDisk EXCEPT !.trials = OldTrials,
                     !.summary = Summary("complete", OldTrials, {})]}
=============================================================================
