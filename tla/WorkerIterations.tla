-------------------------- MODULE WorkerIterations --------------------------
(***************************************************************************)
(* The iterative-deepening loop of the LazySMP workers as far as it uses   *)
(* the channels they share: the root hint and the retirement of helpers    *)
(* (search.rs, search_with_history_inner), and the start of an invocation  *)
(* (lazy_smp.rs).  What a root search finds is left open.                  *)
(***************************************************************************)
EXTENDS RootHint, HelperRetirement

CONSTANTS
  Configs,         \* flags of a searcher, and the position's root moves
  Skew             \* depth skew of each worker

ASSUME IndicesAssumption == Workers = Indices /\ Moves = RootMoves
ASSUME SkewAssumption == Skew \in [Workers -> Nat]

(* `joins`: the caller waits for the workers before it begins the next     *)
(* invocation, as LazySmpSearcher does.  The hint channel has to be right  *)
(* without that, too.  `gos` is a bound: the invocations.                  *)
ASSUME ConfigsAssumption ==
  /\ Configs \subseteq [hint : BOOLEAN, retire : BOOLEAN, joins : BOOLEAN,
                        max_depth : Nat, moves : SUBSET Moves, gos : Nat]
  /\ \A config \in Configs : config.retire => config.joins

VARIABLES
  config,
  begun,           \* the workers that this invocation has started
  place,           \* where each worker is
  go,              \* history: the invocation of each worker
  token,           \* root_hint_generation
  depth,           \* the current iteration
  best,            \* best_move
  previous,        \* retirement_previous
  hint             \* root_hint of the current root search of the main worker

loopVars == <<place, go, token, depth, best, previous, hint>>
vars == <<channelVars, retirementVars, config, begun, loopVars>>

NoHint == Empty(0)

Init ==
  /\ ChannelInit
  /\ RetirementInit
  /\ config \in Configs
  /\ begun = Workers
  /\ place = [w \in Workers |-> "idle"]
  /\ go = [w \in Workers |-> 0]
  /\ token = [w \in Workers |-> 0]
  /\ depth = [w \in Workers |-> 0]
  /\ best = [w \in Workers |-> 0]
  /\ previous = [w \in Workers |-> 0]
  /\ hint = NoHint
-----------------------------------------------------------------------------
Idle(w) == place[w] = "idle" /\ pending[w] = None

(* The token to be handed out is not one that a worker still holds: joined *)
(* workers hold none, and others may outlive GENERATION_MASK - 1 calls.    *)
NotHeld(g) == \A w \in Workers : Idle(w) \/ token[w] # g

MayBegin ==
  /\ begun = Workers
  /\ sequence < config.gos
  /\ config.joins => \A w \in Workers : Idle(w)
  /\ NotHeld(GenerationOf(sequence + 1))

(* try_search_with_history_and_root_hint_effectiveness: the registry is    *)
(* reset, then the channel.                                                *)
Begin ==
  /\ MayBegin
  /\ BeginGo
  /\ Reset
  /\ begun' = {}
  /\ UNCHANGED <<config, loopVars>>

BeginStep ==
  /\ ResetCounter \/ ResetSlot
  /\ UNCHANGED <<retirementVars, config, begun, loopVars>>

(* A worker starts with the generation in the slot.  One that has outlived *)
(* its invocation keeps the old one and is not started again.              *)
Start(w) ==
  /\ resetting = -1
  /\ w \notin begun
  /\ begun' = begun \cup {w}
  /\ IF Idle(w)
     THEN /\ place' = [place EXCEPT ![w] = "between"]
          /\ go' = [go EXCEPT ![w] = sequence]
          /\ token' = [token EXCEPT ![w] = slot.generation]
          /\ depth' = [depth EXCEPT ![w] = Skew[w]]
          /\ best' = [best EXCEPT ![w] = 0]
          /\ previous' = [previous EXCEPT ![w] = 0]
          /\ UNCHANGED hint
     ELSE UNCHANGED loopVars
  /\ UNCHANGED <<channelVars, retirementVars, config>>

GoTo(w, there) == place' = [place EXCEPT ![w] = there]

(* The worker returns from its search.                                     *)
Return(w) ==
  /\ place' = [place EXCEPT ![w] = "idle"]
  /\ depth' = [depth EXCEPT ![w] = 0]
  /\ best' = [best EXCEPT ![w] = 0]
  /\ previous' = [previous EXCEPT ![w] = 0]
  /\ hint' = IF w = 0 THEN NoHint ELSE hint
  /\ UNCHANGED <<go, token>>

(* The head of the loop: the next iteration, or the depth limit.           *)
NextIteration(w) ==
  /\ place[w] = "between"
  /\ pending[w] = None
  /\ depth[w] < config.max_depth
  /\ depth' = [depth EXCEPT ![w] = @ + 1]
  /\ GoTo(w, IF w = 0 /\ config.hint THEN "reading" ELSE "searching")
  /\ UNCHANGED <<channelVars, retirementVars, config, begun, go, token, best, previous, hint>>

Leave(w) ==
  /\ place[w] \in {"between", "searching"}
  /\ pending[w] = None
  /\ Return(w)
  /\ UNCHANGED <<channelVars, retirementVars, config, begun>>

(* move_at_least, by the main worker before a root search.                 *)
ReadHint(w) ==
  /\ place[w] = "reading"
  /\ hint' = IF Eligible(token[w], depth[w]) THEN slot ELSE NoHint
  /\ IF slot.move = 0
     THEN UNCHANGED pending
     ELSE Increment(w, IF Eligible(token[w], depth[w]) THEN "eligible_reads"
                                                       ELSE "stale_reads", token[w])
  /\ GoTo(w, "ordering")
  /\ UNCHANGED <<sequence, resetting, slot, counter, offered, settled, changes>>
  /\ UNCHANGED <<retirementVars, config, begun, go, token, depth, best, previous>>

(* apply_root_hint: counted if it changes the order, which it does unless  *)
(* the hint is the first move already or not in the list.                  *)
OrderMoves(w) ==
  /\ place[w] = "ordering"
  /\ pending[w] = None
  /\ \/ hint # NoHint /\ Increment(w, "applied", token[w])
     \/ UNCHANGED pending
  /\ GoTo(w, "searching")
  /\ UNCHANGED <<sequence, resetting, slot, counter, offered, settled, changes>>
  /\ UNCHANGED <<retirementVars, config, begun, go, token, depth, best, previous, hint>>

(* root_hint_retry::refresh, after a failed aspiration pass: the hint is   *)
(* looked at again without being counted.                                  *)
RefreshHint(w) ==
  /\ place[w] = "searching" /\ w = 0 /\ config.hint
  /\ pending[w] = None
  /\ Eligible(token[w], depth[w])
  /\ hint # slot
  /\ hint' = slot
  /\ UNCHANGED <<channelVars, retirementVars, config, begun, place, go, token, depth, best, previous>>

(* An iteration completes.  The hint is published only for an exact one.   *)
Complete(w, move, exact) ==
  /\ place[w] = "searching"
  /\ pending[w] = None
  /\ best' = [best EXCEPT ![w] = move]
  /\ hint' = IF w = 0 THEN NoHint ELSE hint
  /\ GoTo(w, IF exact /\ config.retire THEN "completing" ELSE "between")
  /\ IF exact /\ config.hint /\ w # 0
     THEN Publish(w, go[w], token[w], depth[w], move)
     ELSE UNCHANGED channelVars
  /\ UNCHANGED <<retirementVars, config, begun, go, token, depth, previous>>

(* HelperRetirement::completed: the progress, then the decision.           *)
ReportProgress(w) ==
  /\ place[w] = "completing"
  /\ pending[w] = None
  /\ Completed(w, depth[w], best[w], previous[w] = best[w])
  /\ previous' = [previous EXCEPT ![w] = best[w]]
  /\ GoTo(w, "reported")
  /\ UNCHANGED <<channelVars, config, begun, go, token, depth, best, hint>>

Stay(w) ==
  /\ place[w] = "reported"
  /\ GoTo(w, "between")
  /\ UNCHANGED <<channelVars, retirementVars, config, begun, go, token, depth, best, previous, hint>>

StartDeciding(w) ==
  /\ place[w] = "reported"
  /\ Decide(w)
  /\ GoTo(w, "deciding")
  /\ UNCHANGED <<channelVars, config, begun, go, token, depth, best, previous, hint>>

Survey(w) ==
  /\ place[w] = "deciding"
  /\ RetirementStep(w)
  /\ UNCHANGED <<channelVars, config, begun, loopVars>>

FinishDeciding(w) ==
  /\ place[w] = "deciding"
  /\ ~Deciding(w)
  /\ Resolve(w)
  /\ IF Retires(w)
     THEN Return(w)
     ELSE GoTo(w, "between") /\ UNCHANGED <<go, token, depth, best, previous, hint>>
  /\ UNCHANGED <<channelVars, config, begun>>

Call(w) ==
  /\ ChannelStep(w)
  /\ UNCHANGED <<retirementVars, config, begun, loopVars>>

LoopStep(w) ==
  \/ NextIteration(w) \/ Leave(w)
  \/ ReadHint(w) \/ OrderMoves(w) \/ RefreshHint(w)
  \/ \E move \in config.moves, exact \in BOOLEAN : Complete(w, move, exact)
  \/ ReportProgress(w) \/ Stay(w) \/ StartDeciding(w) \/ Survey(w) \/ FinishDeciding(w)
  \/ Call(w)

Next ==
  \/ Begin \/ BeginStep
  \/ \E w \in Workers : Start(w) \/ LoopStep(w)

Spec == Init /\ [][Next]_vars
-----------------------------------------------------------------------------
(* A hint that orders the moves of the main worker was published in the    *)
(* main worker's own invocation, by a helper at least as deep; a main      *)
(* worker that is late never takes up a hint of the next invocation.       *)
UsesOwnHints ==
  hint # NoHint =>
    /\ hint.generation = token[0]
    /\ hint.depth >= depth[0]
    /\ HasRun /\ go[0] = sequence => hint \in offered
=============================================================================
