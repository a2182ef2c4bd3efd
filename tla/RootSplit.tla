----------------------------- MODULE RootSplit ------------------------------
(***************************************************************************)
(* One pass of the cooperative root search of search/root_split.rs.  The   *)
(* main worker owns every accepted score; helpers claim root moves, probe  *)
(* them with a null window above the alpha they saw, and publish the fail  *)
(* highs as advice, which the main worker searches again.                  *)
(*                                                                         *)
(* A move has one true value.  A search of it that is not aborted returns  *)
(* a bound on the right side of its window; a reduced one may also fail    *)
(* low on a good move, and `pruned` remembers the moves lost that way.     *)
(***************************************************************************)
EXTENDS Integers, FiniteSets

CONSTANTS
  Helpers,         \* the helper threads
  NumMoves,        \* length of the ordered root moves
  Scores,          \* bound: the values a move may have
  Lo, Hi,          \* the window of the pass
  Quota,           \* COOP_PRESTART_CAP
  CanPanic,        \* helper probes may unwind
  None

ASSUME WindowAssumption == Lo \in Int /\ Hi \in Int /\ Lo < Hi
ASSUME ScoresAssumption == Scores \subseteq Int /\ None \notin Int
ASSUME CountsAssumption ==
  NumMoves \in Nat \ {0} /\ Quota \in Nat /\ CanPanic \in BOOLEAN

Moves == 0 .. NumMoves - 1

(* What the parameters COOP_* select: prestart_mode excludes the others.   *)
(* COOP_HELPER_LMR is not told apart: in the ordinary mode any probe may be*)
(* a reduced one.                                                          *)
Modes ==
  [prestart : {TRUE}, capped : BOOLEAN, drain : {FALSE}, priority : {FALSE}]
    \cup
  [prestart : {FALSE}, capped : {FALSE}, drain : BOOLEAN, priority : BOOLEAN]

VARIABLES
  mode,            \* the parameters of the invocation
  value,           \* the true value of each move
  stopped,         \* should_abort of the invocation's budget
  \* Generation and PrestartGate
  cancel, alpha, next, advice, pending, quota,
  \* helpers
  helper,          \* where each helper is
  token,           \* its park token
  task,            \* the move it probes
  snapshot,        \* alpha_snapshot of that task
  \* main worker
  main,            \* where it is
  phase,           \* the caller of confirm_ready
  scan,            \* the index that confirm_ready looks at next
  current,         \* the move it searches
  best, searched,  \* of MainResult
  verdict,         \* how the pass ended
  pruned           \* history: moves dropped after a reduced search

configVars == <<mode, value>>
helperVars == <<helper, task, snapshot>>
resultVars == <<alpha, best, searched>>
vars == <<configVars, stopped, cancel, next, advice, pending, quota, helperVars,
          token, main, phase, scan, current, resultVars, verdict, pruned>>

Init ==
  /\ mode \in Modes
  /\ value \in [Moves -> Scores]
  /\ stopped = FALSE
  /\ cancel = FALSE
  /\ alpha = Lo
  /\ next = 1
  /\ advice = [m \in Moves |-> None]
  /\ pending = TRUE
  /\ quota = Quota
  /\ helper = [h \in Helpers |-> "idle"]
  /\ token = [h \in Helpers |-> FALSE]
  /\ task = [h \in Helpers |-> 0]
  /\ snapshot = [h \in Helpers |-> Lo]
  /\ main = "begin"
  /\ phase = "loop"
  /\ scan = 1
  /\ current = 0
  /\ best = None
  /\ searched = {}
  /\ verdict = "none"
  /\ pruned = {}

(* Generation::stop: parked helpers are woken along with the cancellation. *)
Cancel ==
  /\ cancel' = TRUE
  /\ token' = IF mode.capped THEN [h \in Helpers |-> TRUE] ELSE token

CancelIf(condition) ==
  IF condition THEN Cancel ELSE UNCHANGED <<cancel, token>>

(* The deadline, the node limit, or the caller's stop.                     *)
Stop ==
  /\ ~stopped
  /\ main # "done"
  /\ stopped' = TRUE
  /\ UNCHANGED <<configVars, cancel, next, advice, pending, quota, helperVars,
                 token, main, phase, scan, current, resultVars, verdict, pruned>>
-----------------------------------------------------------------------------
(* Helpers: run_helper_with_lease and GateWaitAccounting::claim.           *)
HelperFrame ==
  UNCHANGED <<configVars, stopped, main, phase, scan, current, resultVars, verdict>>

Move(h, place) == helper' = [helper EXCEPT ![h] = place]

Forget(h) ==
  /\ task' = [task EXCEPT ![h] = 0]
  /\ snapshot' = [snapshot EXCEPT ![h] = Lo]

(* The head of the while loop.                                             *)
Continue(h) ==
  /\ helper[h] = "ready"
  /\ Move(h, IF stopped \/ cancel THEN "finished" ELSE "claim")
  /\ UNCHANGED <<cancel, next, advice, pending, quota, token, task, snapshot, pruned>>
  /\ HelperFrame

(* Generation::claim.  An index past the end is no task.                   *)
ClaimNext(h) ==
  /\ task' = [task EXCEPT ![h] = IF next < NumMoves THEN next ELSE @]
  /\ snapshot' = [snapshot EXCEPT ![h] = IF next < NumMoves THEN alpha ELSE @]
  /\ next' = IF next < NumMoves THEN next + 1 ELSE next
  /\ Move(h, IF next < NumMoves THEN "probing" ELSE "finished")

GateShut == mode.capped /\ pending

(* Mutant of Claim: the quota is not looked at.                            *)
ClaimPastQuota(h) ==
  /\ helper[h] = "claim"
  /\ \/ /\ cancel
        /\ Move(h, "finished")
        /\ UNCHANGED <<next, task, snapshot>>
     \/ ~cancel /\ ClaimNext(h)
  /\ UNCHANGED <<cancel, advice, pending, quota, token, pruned>>
  /\ HelperFrame

Claim(h) ==
  /\ helper[h] = "claim"
  /\ \/ /\ cancel
        /\ Move(h, "finished")
        /\ UNCHANGED <<next, quota, task, snapshot>>
     \/ /\ ~cancel /\ ~GateShut
        /\ ClaimNext(h)
        /\ UNCHANGED quota
     \/ /\ ~cancel /\ GateShut /\ quota > 0      \* try_reserve_initial
        /\ quota' = quota - 1
        /\ ClaimNext(h)
     \/ /\ ~cancel /\ GateShut /\ quota = 0
        /\ Move(h, "recheck")
        /\ UNCHANGED <<next, quota, task, snapshot>>
  /\ UNCHANGED <<cancel, advice, pending, token, pruned>>
  /\ HelperFrame

(* The predicate is tested once more before the thread parks.              *)
Recheck(h) ==
  /\ helper[h] = "recheck"
  /\ Move(h, IF cancel \/ ~pending THEN "claim" ELSE "parked")
  /\ UNCHANGED <<cancel, next, advice, pending, quota, token, task, snapshot, pruned>>
  /\ HelperFrame

(* park() returns at once when there is a token, which it consumes.        *)
Wake(h) ==
  /\ helper[h] = "parked"
  /\ token[h]
  /\ token' = [token EXCEPT ![h] = FALSE]
  /\ Move(h, "claim")
  /\ UNCHANGED <<cancel, next, advice, pending, quota, task, snapshot, pruned>>
  /\ HelperFrame

(* It may also return for no reason.                                       *)
SpuriousWake(h) ==
  /\ helper[h] = "parked"
  /\ Move(h, "claim")
  /\ UNCHANGED <<cancel, next, advice, pending, quota, token, task, snapshot, pruned>>
  /\ HelperFrame

(* helper_probe returns: aborted, a fail low, or a fail high.  With        *)
(* COOP_HELPER_LMR the fail low may be that of a reduced search.           *)
ProbeReturns(h) ==
  /\ helper[h] = "probing"
  /\ \/ /\ stopped \/ cancel
        /\ Move(h, "finished") /\ Forget(h)
        /\ UNCHANGED pruned
     \/ /\ ~(stopped \/ cancel) /\ value[task[h]] > snapshot[h]
        /\ Move(h, "publishing")
        /\ UNCHANGED <<task, snapshot, pruned>>
     \/ /\ ~(stopped \/ cancel) /\ value[task[h]] > snapshot[h] /\ ~mode.prestart
        /\ pruned' = pruned \cup {task[h]}
        /\ Move(h, "ready") /\ Forget(h)
     \/ /\ ~(stopped \/ cancel) /\ value[task[h]] <= snapshot[h]
        /\ Move(h, "ready") /\ Forget(h)
        /\ UNCHANGED pruned
  /\ UNCHANGED <<cancel, next, advice, pending, quota, token>>
  /\ HelperFrame

(* Generation::publish: the score is a lower bound above the snapshot.     *)
Publish(h) ==
  /\ helper[h] = "publishing"
  /\ \/ cancel /\ UNCHANGED advice
     \/ /\ ~cancel
        /\ \E score \in Scores :
             /\ snapshot[h] < score /\ score <= value[task[h]]
             /\ advice' = [advice EXCEPT ![task[h]] = score]
  /\ Move(h, "ready") /\ Forget(h)
  /\ UNCHANGED <<cancel, next, pending, quota, token, pruned>>
  /\ HelperFrame

(* A probe unwinds: the lease cancels the pass, and the executor is lost.  *)
Panic(h) ==
  /\ CanPanic
  /\ helper[h] = "probing"
  /\ Cancel
  /\ Move(h, "dead") /\ Forget(h)
  /\ UNCHANGED <<next, advice, pending, quota, pruned>>
  /\ HelperFrame

HelperStep(h) ==
  \/ Continue(h)
  \/ Claim(h)
  \/ Recheck(h)
  \/ Wake(h)
  \/ ProbeReturns(h)
  \/ Publish(h)
-----------------------------------------------------------------------------
(* The main worker: search, search_prestart, run_main, confirm_ready.      *)
Done == {"finished", "dead"}
HelpersFinished == \A h \in Helpers : helper[h] \in Done   \* helper_finished

(* A thread that could not be created counts as finished.                  *)
Dispatch ==
  \E spawned \in SUBSET Helpers :
    helper' = [h \in Helpers |-> IF h \in spawned THEN "ready" ELSE "finished"]

(* MainResult::accept.                                                     *)
Accept(m) ==
  /\ searched' = searched \cup {m}
  /\ alpha' = IF value[m] > alpha THEN value[m] ELSE alpha
  /\ best' = IF value[m] > alpha THEN m ELSE best

MainFrame == UNCHANGED <<configVars, stopped, task, snapshot>>

StartScan(caller) == main' = "scan" /\ phase' = caller /\ scan' = 1

Begin ==
  /\ main = "begin"
  /\ \/ /\ mode.prestart /\ stopped
        /\ main' = "done"
        /\ verdict' = "aborted"
        /\ UNCHANGED helper
     \/ /\ mode.prestart /\ ~stopped
        /\ Dispatch
        /\ main' = "first"
        /\ UNCHANGED verdict
     \/ /\ ~mode.prestart
        /\ main' = "first"
        /\ UNCHANGED <<helper, verdict>>
  /\ UNCHANGED <<cancel, token, next, advice, pending, quota, phase, scan, current,
                 resultVars, pruned>>
  /\ MainFrame

(* The first move returns in the ordinary mode: only now are there helpers.*)
FirstReturns ==
  /\ main = "first"
  /\ ~mode.prestart
  /\ IF stopped
       THEN /\ main' = "done"
            /\ verdict' = "aborted"
            /\ UNCHANGED <<helper, phase, scan, resultVars>>
       ELSE /\ Accept(0)
            /\ IF alpha' < Hi /\ NumMoves > 1
                 THEN Dispatch /\ StartScan("loop")
                 ELSE main' = "finish" /\ UNCHANGED <<helper, phase, scan>>
            /\ UNCHANGED verdict
  /\ UNCHANGED <<cancel, token, next, advice, pending, quota, current, pruned>>
  /\ MainFrame

(* Mutant of OpenGate: the gate is opened without waking anybody.          *)
OpenGateQuietly == pending' = FALSE /\ UNCHANGED <<cancel, token>>

(* PrestartGate::open.                                                     *)
OpenGate ==
  /\ pending' = FALSE
  /\ token' = IF mode.capped THEN [h \in Helpers |-> TRUE] ELSE token
  /\ UNCHANGED cancel

(* It returns in the prestart mode, where the helpers are already at work. *)
PrestartFirstReturns ==
  /\ main = "first"
  /\ mode.prestart
  /\ IF stopped THEN UNCHANGED resultVars ELSE Accept(0)
  /\ IF stopped \/ alpha' >= Hi \/ cancel
       THEN Cancel /\ main' = "join" /\ UNCHANGED <<pending, phase, scan>>
       ELSE OpenGate /\ StartScan("loop")
  /\ UNCHANGED <<helper, next, advice, quota, current, verdict, pruned>>
  /\ MainFrame

(* Where confirm_ready returns to.                                         *)
AfterScan ==
  CASE phase = "loop"  -> "claim"
    [] phase = "drain" -> "drain"
    [] OTHER           -> "finish"

Enough == alpha >= Hi \/ stopped

ScanFrame ==
  /\ UNCHANGED <<helper, next, pending, quota, phase, pruned, verdict>>
  /\ MainFrame

(* confirm_ready gives up: beta is reached, or the search is aborted.      *)
ScanStops ==
  /\ main = "scan"
  /\ Enough
  /\ Cancel
  /\ main' = AfterScan
  /\ UNCHANGED <<advice, scan, current, resultVars>>
  /\ ScanFrame

(* Mutant of Take: the slot stays ready.                                   *)
TakeAndKeep(m) == UNCHANGED advice /\ current' = m /\ main' = "confirm"

(* Generation::take: the advice is consumed.                               *)
Take(m) ==
  /\ advice' = [advice EXCEPT ![m] = None]
  /\ current' = m
  /\ main' = "confirm"

(* One ascending scan of the slots.                                        *)
ScanSlot ==
  /\ main = "scan"
  /\ ~Enough /\ ~mode.priority
  /\ \/ scan >= NumMoves /\ main' = AfterScan /\ UNCHANGED <<advice, scan, current>>
     \/ /\ scan < NumMoves
        /\ scan' = scan + 1
        /\ IF advice[scan] # None
             THEN Take(scan)
             ELSE UNCHANGED <<advice, current, main>>
  /\ UNCHANGED <<cancel, token, resultVars>>
  /\ ScanFrame

(* priority_choice: the highest ready score, the first of equals.          *)
HighestAdvice ==
  {m \in Moves : /\ advice[m] # None
                 /\ \A k \in Moves : advice[k] # None =>
                      advice[k] < advice[m] \/ (advice[k] = advice[m] /\ m <= k)}

ScanPriority ==
  /\ main = "scan"
  /\ ~Enough /\ mode.priority
  /\ \/ /\ \A m \in Moves : advice[m] = None
        /\ main' = AfterScan
        /\ UNCHANGED <<advice, current>>
     \/ \E m \in HighestAdvice : Take(m)
  /\ UNCHANGED <<cancel, token, scan, resultVars>>
  /\ ScanFrame

(* confirm_one: advice is searched again with the latest alpha, in full.   *)
ConfirmReturns ==
  /\ main = "confirm"
  /\ IF stopped
       THEN Cancel /\ main' = AfterScan /\ UNCHANGED resultVars
       ELSE Accept(current) /\ main' = "scan" /\ UNCHANGED <<cancel, token>>
  /\ UNCHANGED <<advice, scan, current>>
  /\ ScanFrame

AfterLoop == IF mode.drain THEN "drain" ELSE "join"

(* run_main: a move of its own, or the end of its loop.                    *)
MainClaims ==
  /\ main = "claim"
  /\ IF Enough \/ cancel \/ next >= NumMoves
       THEN /\ CancelIf(Enough)
            /\ main' = AfterLoop
            /\ UNCHANGED <<next, current>>
       ELSE /\ next' = next + 1
            /\ current' = next
            /\ main' = "scout"
            /\ UNCHANGED <<cancel, token>>
  /\ UNCHANGED <<helper, advice, pending, quota, phase, scan, resultVars, verdict,
                 pruned>>
  /\ MainFrame

(* The scout and its re-searches; root LMR may drop a move after a reduced *)
(* scout has failed low.                                                   *)
ScoutReturns ==
  /\ main = "scout"
  /\ IF stopped
       THEN UNCHANGED <<resultVars, pruned>>
       ELSE \/ Accept(current) /\ UNCHANGED pruned
            \/ /\ value[current] > alpha
               /\ pruned' = pruned \cup {current}
               /\ searched' = searched \cup {current}
               /\ UNCHANGED <<alpha, best>>
  /\ StartScan("loop")
  /\ UNCHANGED <<cancel, token, helper, next, advice, pending, quota, current, verdict>>
  /\ MainFrame

(* drain_while_waiting: recv_timeout returns after a millisecond at most.  *)
Drain ==
  /\ main = "drain"
  /\ CancelIf(~HelpersFinished /\ Enough)
  /\ IF HelpersFinished \/ Enough
       THEN main' = "join" /\ UNCHANGED <<phase, scan>>
       ELSE StartScan("drain")
  /\ UNCHANGED <<helper, next, advice, pending, quota, current, resultVars, verdict,
                 pruned>>
  /\ MainFrame

(* Mutant of Joined: nobody waits for the helpers.                         *)
JoinedEarly == TRUE

Joined == HelpersFinished

(* Every completion is collected before a failed helper is reported.       *)
Join ==
  /\ main = "join"
  /\ Joined
  /\ IF \E h \in Helpers : helper[h] = "dead"
       THEN /\ Cancel
            /\ main' = "done"
            /\ verdict' = "panicked"
            /\ UNCHANGED <<phase, scan>>
       ELSE /\ StartScan("final")
            /\ UNCHANGED <<cancel, token, verdict>>
  /\ UNCHANGED <<helper, next, advice, pending, quota, current, resultVars, pruned>>
  /\ MainFrame

(* finish_root: what is returned, and with which bound it is stored.       *)
Finish ==
  /\ main = "finish"
  /\ Cancel
  /\ main' = "done"
  /\ verdict' = CASE stopped                  -> "aborted"
                  [] ~stopped /\ best = None  -> "low"
                  [] ~stopped /\ best # None /\ alpha >= Hi -> "lower"
                  [] OTHER                    -> "exact"
  /\ UNCHANGED <<helper, next, advice, pending, quota, phase, scan, current,
                 resultVars, pruned>>
  /\ MainFrame

MainStep ==
  \/ Begin
  \/ FirstReturns
  \/ PrestartFirstReturns
  \/ ScanStops
  \/ ScanSlot
  \/ ScanPriority
  \/ ConfirmReturns
  \/ MainClaims
  \/ ScoutReturns
  \/ Drain
  \/ Join
  \/ Finish

Terminated ==
  /\ main = "done"
  /\ \A h \in Helpers : helper[h] \in Done \cup {"idle"}
  /\ UNCHANGED vars

Next ==
  \/ MainStep
  \/ \E h \in Helpers : HelperStep(h) \/ SpuriousWake(h) \/ Panic(h)
  \/ Stop
  \/ Terminated

Spec == Init /\ [][Next]_vars

(* Searches are finite, threads are scheduled, and a thread with a park    *)
(* token wakes.  Nothing makes park return without one.                    *)
FairSpec ==
  /\ Spec
  /\ WF_vars(MainStep)
  /\ \A h \in Helpers : WF_vars(HelperStep(h))
-----------------------------------------------------------------------------
HelperPlaces == {"idle", "ready", "claim", "recheck", "parked", "probing",
                 "publishing", "finished", "dead"}
MainPlaces == {"begin", "first", "scan", "confirm", "claim", "scout", "drain",
               "join", "finish", "done"}
Verdicts == {"none", "aborted", "panicked", "low", "lower", "exact"}

TypeOK ==
  /\ mode \in Modes /\ value \in [Moves -> Scores]
  /\ stopped \in BOOLEAN /\ cancel \in BOOLEAN /\ pending \in BOOLEAN
  /\ alpha \in Scores \cup {Lo}
  /\ next \in 1 .. NumMoves
  /\ quota \in 0 .. Quota
  /\ advice \in [Moves -> Scores \cup {None}]
  /\ helper \in [Helpers -> HelperPlaces]
  /\ token \in [Helpers -> BOOLEAN]
  /\ task \in [Helpers -> Moves]
  /\ snapshot \in [Helpers -> Scores \cup {Lo}]
  /\ main \in MainPlaces
  /\ phase \in {"loop", "drain", "final"}
  /\ scan \in 1 .. NumMoves
  /\ current \in Moves
  /\ best \in Moves \cup {None}
  /\ searched \subseteq Moves /\ pruned \subseteq Moves
  /\ verdict \in Verdicts

(* What the pass returns, and stores as the root entry, is what a search   *)
(* of all the moves by one thread would find: an exact score is the value  *)
(* of the best move and no move is better, a fail low leaves no better     *)
(* move unseen, and a beta cut is a true one; apart from moves a reduced   *)
(* search has dropped.  So no move that a helper claimed is lost between   *)
(* its probe, its advice, the last scan and a cancellation.                *)
VerdictHolds ==
  /\ verdict = "exact" =>
       /\ alpha = value[best] /\ Lo < alpha /\ alpha < Hi
       /\ \A m \in Moves \ pruned : value[m] <= alpha
  /\ verdict = "lower" => alpha = value[best] /\ alpha >= Hi
  /\ verdict = "low" => \A m \in Moves \ pruned : value[m] <= Lo

(* "each publication is still taken at most once": the main worker settles *)
(* no move twice, whether it claimed the move or took advice about it.     *)
Settles == main \in {"scout", "confirm"} /\ main' = "scan" /\ ~stopped

SettledOnce == [][Settles => current \notin searched]_vars

(* Until the first move has returned helpers start Quota tasks at most.    *)
GateHolds == mode.capped /\ pending => next - 1 <= Quota

(* No helper runs on when the pass has returned: the next pass may reuse   *)
(* the threads, and nothing reaches a Generation that is dropped (the      *)
(* assertion in its Drop).                                                 *)
HelpersGone ==
  main = "done" => \A h \in Helpers : helper[h] \in Done \cup {"idle"}

(* The pass returns: nobody stays parked, and the main worker waits for    *)
(* nobody who does not finish.                                             *)
PassReturns == <>(main = "done")
=============================================================================
