------------------------- MODULE MCWorkerIterations -------------------------
(* Two helpers and the main worker.  The hint channel, with workers that   *)
(* may outlive two further invocations, after which generations wrap; the  *)
(* retirement, with two moves, and with one move over two invocations.     *)
EXTENDS WorkerIterations

MCSkew == [w \in Workers |-> IF w = 1 THEN 1 ELSE 0]

MCConfigs ==
  {[hint |-> TRUE, retire |-> FALSE, joins |-> FALSE, max_depth |-> 2,
    moves |-> {1}, gos |-> 3],
   [hint |-> FALSE, retire |-> TRUE, joins |-> TRUE, max_depth |-> 3,
    moves |-> {1, 2}, gos |-> 1],
   [hint |-> FALSE, retire |-> TRUE, joins |-> TRUE, max_depth |-> 3,
    moves |-> {1}, gos |-> 2]}
=============================================================================
