-------------------------- MODULE HelperRetirement --------------------------
(***************************************************************************)
(* HelperRetirement of search/helper_retirement.rs: after a completed exact*)
(* iteration a helper publishes its progress and stops if a helper that is *)
(* ahead of it agrees on the move.  The progress of a worker is one atomic *)
(* word; the helpers decide without a lock.                                *)
(***************************************************************************)
EXTENDS Integers

CONSTANTS
  NumWorkers,      \* workers 0 .. NumWorkers - 1; 0 is the main worker
  RootMoves,       \* moves a completed iteration may prefer
  MIN_ITERATIONS,  \* 3 in the code
  LEAD             \* 2 in the code

ASSUME NumWorkersAssumption == NumWorkers \in Nat \ {0}
ASSUME RootMovesAssumption == RootMoves \subseteq Nat \ {0}
ASSUME LeadAssumption == MIN_ITERATIONS \in Nat /\ LEAD \in Nat \ {0}

Indices == 0 .. NumWorkers - 1

VARIABLES
  progress,        \* depth, move and stability of the last exact iteration
  iterations,      \* completed exact iterations
  retired,
  survey,          \* where a deciding helper is in the list of the others
  completions      \* history: the stable progress of helpers in this invocation

retirementVars == <<progress, iterations, retired, survey, completions>>

Nothing == [depth |-> 0, move |-> 0, stable |-> FALSE]
Progress == [depth : Nat, move : RootMoves \cup {0}, stable : BOOLEAN]

NotDeciding == [next |-> NumWorkers, open |-> FALSE, leader |-> 0, of |-> Nothing]

RetirementInit ==
  /\ progress = [w \in Indices |-> Nothing]
  /\ iterations = [w \in Indices |-> 0]
  /\ retired = [w \in Indices |-> FALSE]
  /\ survey = [w \in Indices |-> NotDeciding]
  /\ completions = {}
-----------------------------------------------------------------------------
(* Mutant of Reset: the retirements of the last invocation stay.           *)
ResetKeepsRetired ==
  /\ progress' = [w \in Indices |-> Nothing]
  /\ iterations' = [w \in Indices |-> 0]
  /\ completions' = {}
  /\ UNCHANGED <<retired, survey>>

Reset ==
  /\ progress' = [w \in Indices |-> Nothing]
  /\ iterations' = [w \in Indices |-> 0]
  /\ retired' = [w \in Indices |-> FALSE]
  /\ completions' = {}
  /\ UNCHANGED survey

(* completed, up to its first early return.                                *)
Completed(w, depth, move, stable) ==
  LET done == [depth |-> depth, move |-> move, stable |-> stable] IN
  /\ progress' = [progress EXCEPT ![w] = done]
  /\ completions' = IF w # 0 /\ stable THEN completions \cup {[by |-> w, done |-> done]} ELSE completions
  /\ iterations' = [iterations EXCEPT ![w] = @ + 1]
  /\ UNCHANGED <<retired, survey>>

MayRetire(w) ==
  w # 0 /\ progress[w].stable /\ iterations[w] >= MIN_ITERATIONS

(* The sampled contributions are enough and low, so the search for the     *)
(* deepest helper begins; otherwise the call ends here.                    *)
Decide(w) ==
  /\ MayRetire(w)
  /\ survey' = [survey EXCEPT ![w] = [NotDeciding EXCEPT !.next = 1]]
  /\ UNCHANGED <<progress, iterations, retired, completions>>

Deciding(w) == survey[w].next < NumWorkers

(* filter: the flag is loaded before the progress.                         *)
LookAtFlag(w) ==
  /\ Deciding(w) /\ ~survey[w].open
  /\ LET i == survey[w].next
     IN survey' = [survey EXCEPT ![w] =
                     [next |-> IF retired[i] THEN i + 1 ELSE i, open |-> ~retired[i],
                      leader |-> @.leader, of |-> @.of]]
  /\ UNCHANGED <<progress, iterations, retired, completions>>

(* max_by_key (depth, Reverse(index)): the first of the deepest.           *)
LookAtProgress(w) ==
  /\ Deciding(w) /\ survey[w].open
  /\ LET i == survey[w].next
         ahead == survey[w].leader = 0 \/ progress[i].depth > survey[w].of.depth
     IN survey' = [survey EXCEPT ![w] =
                     [next |-> i + 1, open |-> FALSE,
                      leader |-> IF ahead THEN i ELSE @.leader,
                      of |-> IF ahead THEN progress[i] ELSE @.of]]
  /\ UNCHANGED <<progress, iterations, retired, completions>>

(* Mutant of Yielding: whatever the leader prefers.                        *)
YieldingToAny(w, leader, of) ==
  /\ leader # w
  /\ of.depth >= progress[w].depth + LEAD

(* The helper w stops behind the leader it found.                          *)
Yielding(w, leader, of) ==
  /\ leader # w
  /\ of.depth >= progress[w].depth + LEAD
  /\ of.move = progress[w].move
  /\ of.stable

Retires(w) ==
  /\ survey[w].leader # 0
  /\ Yielding(w, survey[w].leader, survey[w].of)

(* `survey` is past the end and the leader is known.                       *)
Resolve(w) ==
  /\ retired' = [retired EXCEPT ![w] = Retires(w)]
  /\ survey' = [survey EXCEPT ![w] = NotDeciding]
  /\ UNCHANGED <<progress, iterations, completions>>

RetirementStep(w) == LookAtFlag(w) \/ LookAtProgress(w)
-----------------------------------------------------------------------------
(* A helper stops only behind another one that in this invocation has      *)
(* completed an iteration LEAD deeper with the same stable move.           *)
RetiresBehindALeader ==
  \A w \in Indices : retired[w] =>
    \E c \in completions :
      /\ c.by # w
      /\ c.done.depth >= progress[w].depth + LEAD
      /\ c.done.move = progress[w].move

(* However the decisions of several helpers overlap, whoever stops leaves  *)
(* one ahead of itself, so that the deepest helper always goes on.         *)
DeepestGoesOn ==
  \A w \in Indices : retired[w] =>
    \E v \in Indices \ {0} : progress[v].depth >= progress[w].depth + LEAD
=============================================================================
