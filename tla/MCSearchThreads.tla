-------------------------- MODULE MCSearchThreads ---------------------------
(* What the threads of a search share besides the table: a slot of the     *)
(* evaluation cache and the budget.  The two have no variable in common,   *)
(* so that an invariant of one holds in their composition if it holds      *)
(* while the other rests at its start.  Each behaviour moves one of them.  *)
(*                                                                         *)
(* Three workers and two positions on the slot; an owner and two helpers   *)
(* on the budget, in every kind of invocation: with and without a deadline,*)
(* a node limit, passes, batches and, in plain ones, a watchdog.           *)
EXTENDS EvalCache, Budget, TLC

VARIABLE moving

allVars == <<vars, budgetVars, moving>>

Symmetry ==
  Permutations(Threads) \cup Permutations(Hashes) \cup Permutations(Helpers)

MCModes ==
  {m \in [cooperative : BOOLEAN, timed : BOOLEAN, capped : BOOLEAN,
          tune : BOOLEAN, watchdog : BOOLEAN] :
     /\ m.watchdog => m.timed /\ ~m.cooperative
     /\ m.tune => m.cooperative /\ m.timed}

InitThreads ==
  /\ moving \in {"cache", "budget"}
  /\ Init
  /\ BudgetInit
  /\ moving = "cache" => mode = CHOOSE m \in Modes : TRUE

NextThreads ==
  \/ moving = "cache" /\ Next /\ UNCHANGED <<budgetVars, moving>>
  \/ moving = "budget" /\ BudgetNext /\ UNCHANGED <<vars, moving>>

SpecThreads == InitThreads /\ [][NextThreads]_allVars
=============================================================================
