------------------------------- MODULE Budget -------------------------------
(***************************************************************************)
(* The budget of one search invocation (crates/sekirei-core/src/budget.rs) *)
(* and the budgets of the participants of its cooperative passes, which    *)
(* are children of it.  A plain invocation has several threads that tick   *)
(* the budget itself; in a cooperative one the owner does so between the   *)
(* passes, and in a pass every participant ticks a child of its own.       *)
(*                                                                         *)
(* In builds with the `tune` feature a child may report its nodes in       *)
(* batches.  T_COOP_BUDGET_BATCH is read whenever a child is made and may  *)
(* be set while a search runs, so that each child chooses for itself.      *)
(*                                                                         *)
(* should_abort reads flags that nobody clears within an invocation: all   *)
(* of them reading false is as good as reading them together at the first  *)
(* load, and one reading true as reading them at the last.  It is a step.  *)
(* Whatever a thread searches, it may tick again or leave after any tick.  *)
(***************************************************************************)
EXTENDS Naturals, FiniteSets

CONSTANTS
  Helpers,         \* helper threads of a pass, pool threads of a plain search
  Main,            \* the thread that owns the invocation
  Batch,           \* COOPERATIVE_BATCH_NODES
  PollEvery,       \* nodes of the root between two readings of the clock, 0x1000
  NodeLimit,       \* node_limit, where there is one
  Modes,           \* the kinds of invocation
  MaxNodes,        \* bound: ticks of an invocation
  MaxPasses        \* bound: passes of an invocation

ASSUME HelpersAssumption == IsFiniteSet(Helpers) /\ Main \notin Helpers
ASSUME BoundsAssumption ==
  /\ {Batch, PollEvery, NodeLimit} \subseteq Nat \ {0}
  /\ {MaxNodes, MaxPasses} \subseteq Nat
ASSUME ModesAssumption ==
  Modes \subseteq
    {m \in [cooperative : BOOLEAN, timed : BOOLEAN, capped : BOOLEAN,
            tune : BOOLEAN, watchdog : BOOLEAN] :
       m.watchdog => m.timed /\ ~m.cooperative}

Tickers == Helpers \cup {Main}

VARIABLES
  mode,            \* what kind of invocation it is
  phase,           \* "alone", or "pass" while the children exist, or "over"
  passes,          \* how many passes began
  nodes,           \* nodes of the root budget
  abort,           \* abort of the root budget
  external,        \* external_abort of the root budget
  expired,         \* the root's clock has passed its time limit
  at,              \* where each thread is
  own,             \* nodes of each participant's child
  batched,         \* whether the child has a BatchAccounting
  reported,        \* its reported prefix
  cancel,          \* external_abort of the helpers' children
  charged,         \* history: ticks of the whole invocation
  granted,         \* history: ticks that returned false, under a node limit
  late             \* history: ticks begun after the deadline, no flag up

rootVars  == <<nodes, abort>>
childVars == <<own, batched, reported>>
worldVars == <<external, expired, cancel>>
countVars == <<charged, granted, late>>
passVars  == <<mode, phase, passes>>
budgetVars == <<rootVars, childVars, worldVars, countVars, passVars, at>>

Nothing == [p \in Tickers |-> 0]

(* The threads of a plain search meet no pass: they are all at the root.   *)
BudgetInit ==
  /\ mode \in Modes
  /\ phase = "alone"
  /\ passes = 0
  /\ nodes = 0
  /\ abort = FALSE
  /\ external = FALSE
  /\ expired = FALSE
  /\ at = [p \in Tickers |-> IF p = Main \/ ~mode.cooperative THEN "free"
                                                              ELSE "out"]
  /\ own = Nothing
  /\ batched = [p \in Tickers |-> FALSE]
  /\ reported = Nothing
  /\ cancel = FALSE
  /\ charged = 0
  /\ granted = 0
  /\ late = 0

MoveTo(p, where) == at' = [at EXCEPT ![p] = where]

RootStops     == abort \/ external
ShouldAbort(p) == RootStops \/ (phase = "pass" /\ p # Main /\ cancel)

(* Mutant of Eligible: a node limit does not exclude batches.              *)
EligibleUnderLimit == mode.timed

(* cooperative_child_with_batch: a child of a root with a deadline and     *)
(* without a node limit, if the parameter says so.                         *)
Eligible == mode.timed /\ ~mode.capped
MayBatch == IF mode.tune /\ Eligible THEN BOOLEAN ELSE {FALSE}
-----------------------------------------------------------------------------
(* tick *)

BeginTick ==
  /\ charged < MaxNodes
  /\ charged' = charged + 1
  /\ late' = IF expired /\ ~abort THEN late + 1 ELSE late
  /\ UNCHANGED granted

(* The tests behind the increment: the cap first, then every PollEvery     *)
(* nodes the clock.                                                        *)
AfterCount(n) ==
  IF mode.capped /\ n >= NodeLimit THEN "latch"
  ELSE IF mode.timed /\ n % PollEvery = 0 THEN "poll"
  ELSE "answer"

CountAtRoot(p) ==
  /\ nodes' = nodes + 1
  /\ MoveTo(p, AfterCount(nodes'))
  /\ UNCHANGED abort

TickRoot(p) ==
  /\ phase = "alone"
  /\ at[p] = "free"
  /\ BeginTick
  /\ CountAtRoot(p)
  /\ UNCHANGED <<childVars, worldVars, passVars>>

(* A child counts for itself first.                                        *)
TickChild(p) ==
  /\ phase = "pass"
  /\ at[p] = "free"
  /\ BeginTick
  /\ own' = [own EXCEPT ![p] = @ + 1]
  /\ MoveTo(p, IF ~batched[p] THEN "parent"
             ELSE IF own'[p] % Batch = 0 THEN "report"
             ELSE "answer")
  /\ UNCHANGED <<rootVars, batched, reported, worldVars, passVars>>

TickParent(p) ==
  /\ at[p] = "parent"
  /\ CountAtRoot(p)
  /\ UNCHANGED <<childVars, worldVars, countVars, passVars>>

Latch(p) ==
  /\ at[p] = "latch"
  /\ abort' = TRUE
  /\ MoveTo(p, "answer")
  /\ UNCHANGED <<nodes, childVars, worldVars, countVars, passVars>>

(* The clock is read, and the flag of the root raised if it has run out:   *)
(* tick on the root, poll_parent_deadline on a batched child.              *)
PollClock == abort' = (abort \/ (mode.timed /\ expired))

Poll(p) ==
  /\ at[p] = "poll"
  /\ PollClock
  /\ MoveTo(p, "answer")
  /\ UNCHANGED <<nodes, childVars, worldVars, countVars, passVars>>

(* Mutant of ReportPrefix: the whole local count goes to the parent.       *)
ReportWholeCount(p) ==
  /\ reported' = [reported EXCEPT ![p] = own[p]]
  /\ nodes' = nodes + own[p]

(* report_batch_prefix: reported is raised to the local count, the         *)
(* difference goes to the parent.  A child has one thread, which alone     *)
(* touches the prefix.                                                     *)
ReportPrefix(p) ==
  /\ reported' = [reported EXCEPT ![p] = own[p]]
  /\ nodes' = nodes + (own[p] - reported[p])

Report(p) ==
  /\ at[p] = "report"
  /\ ReportPrefix(p)
  /\ MoveTo(p, "poll")
  /\ UNCHANGED <<abort, own, batched, worldVars, countVars, passVars>>

(* Mutant of Answer: what a child has seen it leaves in the root's flag.   *)
AnswerAndLatch(p) ==
  /\ at[p] = "answer"
  /\ abort' = (abort \/ ShouldAbort(p))
  /\ granted' = IF mode.capped /\ ~ShouldAbort(p) THEN granted + 1 ELSE granted
  /\ MoveTo(p, "free")
  /\ UNCHANGED <<nodes, childVars, worldVars, charged, late, passVars>>

Answer(p) ==
  /\ at[p] = "answer"
  /\ granted' = IF mode.capped /\ ~ShouldAbort(p) THEN granted + 1 ELSE granted
  /\ MoveTo(p, "free")
  /\ UNCHANGED <<rootVars, childVars, worldVars, charged, late, passVars>>

Tick(p) ==
  \/ TickRoot(p) \/ TickChild(p) \/ TickParent(p)
  \/ Latch(p) \/ Report(p) \/ Poll(p) \/ Answer(p)
-----------------------------------------------------------------------------
(* A pass *)

NewChildren(ps) ==
  /\ own' = [p \in Tickers |-> IF p \in ps THEN 0 ELSE own[p]]
  /\ reported' = [p \in Tickers |-> IF p \in ps THEN 0 ELSE reported[p]]
  /\ \E b \in [ps -> MayBatch] :
       batched' = [p \in Tickers |-> IF p \in ps THEN b[p] ELSE batched[p]]

(* search: the child of the owner, whose own cancel flag is never raised.  *)
BeginPass ==
  /\ mode.cooperative
  /\ phase = "alone"
  /\ at[Main] = "free"
  /\ passes < MaxPasses
  /\ phase' = "pass"
  /\ passes' = passes + 1
  /\ cancel' = FALSE
  /\ NewChildren({Main})
  /\ UNCHANGED <<rootVars, external, expired, countVars, mode, at>>

(* The helpers' children, before the owner's first move or after it, unless*)
(* the root has stopped.  A job that never starts leaves like any other.   *)
Dispatch ==
  /\ phase = "pass"
  /\ at[Main] = "free"
  /\ \A h \in Helpers : at[h] = "out"
  /\ ~RootStops
  /\ NewChildren(Helpers)
  /\ at' = [p \in Tickers |-> "free"]
  /\ UNCHANGED <<rootVars, worldVars, countVars, passVars>>

(* The generation is stopped: a cut-off, a panic, the end of the pass.     *)
Cancel ==
  /\ phase = "pass"
  /\ cancel' = TRUE
  /\ UNCHANGED <<rootVars, childVars, external, expired, countVars, passVars, at>>

Joined(p) == p = Main => \A h \in Helpers : at[h] \in {"out", "left"}

(* Mutant of FinishJob: the tail of the last batch is not reported.        *)
FinishUnreported(p) ==
  /\ phase = "pass"
  /\ at[p] = "free"
  /\ Joined(p)
  /\ MoveTo(p, IF batched[p] THEN "lastPoll" ELSE "left")
  /\ UNCHANGED <<rootVars, childVars, worldVars, countVars, passVars>>

(* finish_cooperative_job, from the guard of the job or the accounting of  *)
(* the owner, on return and on unwind.  The guards that follow it find     *)
(* `finished` set.  What follows the report is another step.               *)
FinishJob(p) ==
  /\ phase = "pass"
  /\ at[p] = "free"
  /\ Joined(p)
  /\ IF batched[p]
       THEN ReportPrefix(p) /\ MoveTo(p, "lastPoll")
       ELSE MoveTo(p, "left") /\ UNCHANGED <<nodes, reported>>
  /\ UNCHANGED <<abort, own, batched, worldVars, countVars, passVars>>

(* Mutant of LeaveJob: a job that ends does not look at the clock.         *)
LeaveUnpolled(p) ==
  /\ at[p] = "lastPoll"
  /\ MoveTo(p, "left")
  /\ UNCHANGED <<rootVars, childVars, worldVars, countVars, passVars>>

(* Then the lease publishes completion.                                    *)
LeaveJob(p) ==
  /\ at[p] = "lastPoll"
  /\ PollClock
  /\ MoveTo(p, "left")
  /\ UNCHANGED <<nodes, childVars, worldVars, countVars, passVars>>

(* The children are dropped.                                               *)
EndPass ==
  /\ phase = "pass"
  /\ at[Main] = "left"
  /\ phase' = "alone"
  /\ at' = [p \in Tickers |-> IF p = Main THEN "free" ELSE "out"]
  /\ own' = Nothing
  /\ reported' = Nothing
  /\ batched' = [p \in Tickers |-> FALSE]
  /\ UNCHANGED <<rootVars, worldVars, countVars, mode, passes>>

Return ==
  /\ phase = "alone"
  /\ \A p \in Tickers : at[p] \in {"free", "out"}
  /\ phase' = "over"
  /\ UNCHANGED <<rootVars, childVars, worldVars, countVars, mode, passes, at>>

Pass == BeginPass \/ Dispatch \/ Cancel \/ EndPass \/ Return
-----------------------------------------------------------------------------
(* The world: a stop from outside, the clock, and the watchdog, which only *)
(* SpeculativeSearcher starts.                                             *)

StopSearch ==
  /\ ~external
  /\ phase # "over"
  /\ external' = TRUE
  /\ UNCHANGED <<rootVars, childVars, expired, cancel, countVars, passVars, at>>

Expire ==
  /\ mode.timed
  /\ ~expired
  /\ phase # "over"
  /\ expired' = TRUE
  /\ UNCHANGED <<rootVars, childVars, external, cancel, countVars, passVars, at>>

WatchdogFires ==
  /\ mode.watchdog
  /\ expired
  /\ ~abort
  /\ abort' = TRUE
  /\ UNCHANGED <<nodes, childVars, worldVars, countVars, passVars, at>>

(* The budget outlives the search, for the watchdog.                       *)
Over == phase = "over" /\ UNCHANGED budgetVars

BudgetNext ==
  \/ \E p \in Tickers : Tick(p) \/ FinishJob(p) \/ LeaveJob(p)
  \/ Pass
  \/ StopSearch \/ Expire \/ WatchdogFires
  \/ Over

BudgetSpec == BudgetInit /\ [][BudgetNext]_budgetVars
-----------------------------------------------------------------------------
(* Properties *)

At(where) == {p \in Tickers : at[p] = where}

(* What the children of a pass may hold back: up to a batch where a report *)
(* is under way, one node less elsewhere, and without batches one node for *)
(* each tick under way.  Outside of a pass that is nothing.                *)
HeldBack ==
  LET inBatches == {p \in Tickers : phase = "pass" /\ batched[p]
                                     /\ at[p] \notin {"out", "left"}}
  IN Cardinality(At("parent") \cup At("report"))
       + Cardinality(inBatches) * (Batch - 1)

(* The root never counts a node that was not ticked and lacks at most what *)
(* running children hold back; between the passes and after the search it  *)
(* has counted each node once, whichever children reported in batches and  *)
(* whenever they left (comments of BatchAccounting).                       *)
NodesAreCharged == nodes <= charged /\ charged <= nodes + HeldBack

(* Under a node limit fewer nodes are searched than the limit says,        *)
(* whichever threads tick and through which budgets: the tick that reaches *)
(* it, and each one that overtakes it before the flag is up, is refused.   *)
CapIsExact == mode.capped => granted < NodeLimit

(* Once the deadline has passed and while no flag is up, few nodes begin:  *)
(* less than PollEvery at the root, less than a batch for each batched     *)
(* child, and no pass ends without its batched children having looked at   *)
(* the clock.  A thread about to raise the flag may be delayed; nobody     *)
(* raises it in its place.                                                 *)
DeadlineIsSeen ==
  LET raising == At("latch") \cup At("poll") \cup At("lastPoll")
  IN mode.timed /\ expired /\ ~abort /\ raising = {} =>
       late <= (PollEvery - 1) + HeldBack

(* The flag of the root is raised for the node limit or the deadline only: *)
(* a cancelled helper never latches it (comment of cooperative_child).     *)
AbortHasCause ==
  abort => (mode.capped /\ nodes >= NodeLimit) \/ (mode.timed /\ expired)

(* The flag of an invocation goes up when a limit is reached, in time, and *)
(* for no other reason.                                                    *)
LimitsHold == CapIsExact /\ DeadlineIsSeen /\ AbortHasCause
=============================================================================
