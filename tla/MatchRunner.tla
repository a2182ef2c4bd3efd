---------------------------- MODULE MatchRunner ----------------------------
(***************************************************************************)
(* main.rs of the match runner: the games of a match between two engine    *)
(* processes.  A game begins with a barrier that drains the channels; an   *)
(* engine at fault is replaced before the next game; every file is written *)
(* before the result line is printed, because a wrapper may kill the       *)
(* runner as soon as it sees that line.                                    *)
(***************************************************************************)
EXTENDS EngineLink, MatchEvidence

CONSTANTS
  NumGames,   \* games scheduled
  MaxMoves,   \* --max-moves
  Earlier     \* disks an earlier run over the same paths may have left

ASSUME ScheduleAssumption == NumGames \in Nat \ {0} /\ MaxMoves \in Nat \ {0}
ASSUME EarlierAssumption == Earlier \subseteq Disks

VARIABLES
  pc,         \* what the runner does next
  at,         \* the engine it does it with; in a game, the mover
  game,       \* 0 until both engines are initialised
  ply,
  answers,    \* history: the games whose go was answered, in this game
  result,     \* outcome and reason of the game that has ended
  scores,     \* the trials so far
  invalid,    \* invalid_games
  faulted,    \* history: processes that ended a game by a fault
  disk,
  published   \* games whose result line was printed

gameVars == <<at, game, ply, answers>>
resultVars == <<result, scores, invalid, faulted, disk, published>>
vars == <<linkVars, pc, gameVars, resultVars>>

NoResult == [outcome |-> "Draw", reason |-> "none"]

Init ==
  /\ LinkInit
  /\ pc = "launch" /\ at = "e1" /\ game = 0 /\ ply = 0 /\ answers = <<>>
  /\ result = NoResult /\ scores = <<>> /\ invalid = {} /\ faulted = {}
  /\ disk \in Earlier /\ published = {}

(* Mutant of Abort: the other engine is left to the operating system.      *)
AbortOne ==
  /\ Kill({at})
  /\ pc' = "done"
  /\ UNCHANGED <<process, launched, commands, channel, search, elapsed>>
  /\ UNCHANGED <<gameVars, resultVars>>

(* Every way out but the last: fatal_protocol_error, fatal_evidence_error, *)
(* and the failures of the first launches.                                 *)
Abort ==
  /\ Kill(Engines)
  /\ pc' = "done"
  /\ UNCHANGED <<process, launched, commands, channel, search, elapsed>>
  /\ UNCHANGED <<gameVars, resultVars>>

Goto(next) == pc' = next /\ UNCHANGED <<gameVars, resultVars>>
-----------------------------------------------------------------------------
(* launch_and_init                                                         *)

Launch ==
  /\ pc = "launch"
  /\ \/ Spawn(at) /\ Goto("usiok")
     \/ Abort

Initialized ==
  /\ UNCHANGED <<ply, answers, resultVars>>
  /\ IF game > 0 THEN pc' = "kifu" /\ UNCHANGED <<at, game>>
     ELSE IF at = "e1" THEN pc' = "launch" /\ at' = "e2" /\ UNCHANGED game
     ELSE pc' = "open" /\ at' = "e1" /\ game' = 1

(* The loops of initialize: `usi' is answered by usiok and the options, the *)
(* options by their acknowledgements and readyok.                          *)
AwaitUsiok ==
  /\ pc = "usiok" /\ LineWaits(at)
  /\ \/ /\ Line(at).is # "usiok"
        /\ Receive(at) /\ KeepDeadline /\ Goto("usiok")
        /\ UNCHANGED <<process, alive, launched, commands, search>>
     \/ /\ Line(at).is = "usiok" /\ Line(at).ok /\ Running(at)
        /\ Receive(at) /\ Write(at, Command("options", 0))
        /\ elapsed' = 0 /\ Goto("readyok")
        /\ UNCHANGED <<process, alive, launched, search>>
     \/ /\ Line(at).is = "usiok" /\ ~(Line(at).ok /\ Running(at))
        /\ Abort

AwaitReadyok ==
  /\ pc = "readyok" /\ LineWaits(at)
  /\ \/ /\ Line(at).is # "readyok"
        /\ Receive(at) /\ KeepDeadline /\ Goto("readyok")
        /\ UNCHANGED <<process, alive, launched, commands, search>>
     \/ /\ Line(at).is = "readyok" /\ Line(at).ok
        /\ Receive(at) /\ KeepDeadline /\ Initialized
        /\ UNCHANGED <<process, alive, launched, commands, search>>
     \/ /\ Line(at).is = "readyok" /\ ~Line(at).ok
        /\ Abort

(* An engine that is silent or gone: in the handshake and at the barrier   *)
(* the whole run ends.                                                     *)
EngineLost ==
  /\ pc \in {"usiok", "readyok", "barrier"}
  /\ TimedOut \/ Disconnected(at)
  /\ Abort
-----------------------------------------------------------------------------
(* run_game                                                                *)

(* begin_new_game: stop, usinewgame, isready.                              *)
OpenGame ==
  /\ pc = "open"
  /\ \/ /\ Running(at)
        /\ Write(at, Command("isready", 0))
        /\ elapsed' = 0 /\ Goto("barrier")
        /\ UNCHANGED <<process, alive, launched, channel, search>>
     \/ ~Running(at) /\ Abort

(* Mutant of EndsBarrier: the first line the engine prints will do.        *)
EndsBarrierAny(line) == TRUE

(* Every line before readyok is stale and discarded.                       *)
EndsBarrier(line) == line.is = "readyok"

(* Past both barriers the opening says which color, and with it which      *)
(* engine, moves first.                                                    *)
Barrier ==
  /\ pc = "barrier" /\ LineWaits(at)
  /\ Receive(at) /\ KeepDeadline
  /\ UNCHANGED <<process, alive, launched, commands, search, game, resultVars>>
  /\ \/ /\ ~EndsBarrier(Line(at))
        /\ UNCHANGED <<pc, at, ply, answers>>
     \/ /\ EndsBarrier(Line(at)) /\ at = "e1"
        /\ pc' = "open" /\ at' = "e2" /\ UNCHANGED <<ply, answers>>
     \/ /\ EndsBarrier(Line(at)) /\ at = "e2"
        /\ pc' = "go" /\ at' \in Engines /\ ply' = 0 /\ UNCHANGED answers

(* run_game returns to the loop of main.                                   *)
EndGame(outcome, reason) ==
  /\ pc' = "gameover"
  /\ result' = [outcome |-> outcome, reason |-> reason]
  /\ UNCHANGED <<at, game, ply, scores, invalid, disk, published>>

WinFor(e) == IF e = "e1" THEN "E1Win" ELSE "E2Win"

(* A failed go is journalled; a journal that cannot be written is fatal.   *)
FailGo(reason) ==
  \/ /\ EndGame(WinFor(Opponent(at)), reason)
     /\ faulted' = faulted \cup {process[at]}
     /\ UNCHANGED <<linkVars, answers>>
  \/ Abort

Go ==
  /\ pc = "go"
  /\ \/ /\ Running(at)
        /\ Write(at, Command("go", game))
        /\ elapsed' = 0 /\ Goto("move")
        /\ UNCHANGED <<process, alive, launched, channel, search>>
     \/ ~Running(at) /\ FailGo("EngineError")

NoMove ==
  /\ pc = "move"
  /\ \/ TimedOut /\ FailGo("TimeForfeit")
     \/ Disconnected(at) /\ FailGo("EngineError")
     \/ LineWaits(at) /\ Line(at).is = "bestmove" /\ FailGo("EngineError")

OtherLine ==
  /\ pc = "move" /\ LineWaits(at) /\ Line(at).is # "bestmove"
  /\ Receive(at) /\ KeepDeadline /\ Goto("move")
  /\ UNCHANGED <<process, alive, launched, commands, search>>

(* The bestmove this go waits for.  What it is worth - no move at all,     *)
(* late by the Fischer clock, a resignation, a claim, illegal, legal - is  *)
(* for the runner to find out; any of it may be the case.                  *)
Answered == pc = "move" /\ LineWaits(at) /\ Line(at).is = "bestmove"

TakeAnswer ==
  /\ Receive(at) /\ KeepDeadline
  /\ answers' = Append(answers, Line(at).game)
  /\ UNCHANGED <<process, alive, launched, commands, search>>

LastAnswer ==
  /\ Answered /\ TakeAnswer
  /\ \/ /\ \E reason \in {"ClockLoss", "Resign", "IllegalMove"} :
             /\ EndGame(WinFor(Opponent(at)), reason)
             /\ faulted' = faulted \cup
                  (IF reason = "IllegalMove" THEN {process[at]} ELSE {})
     \/ EndGame(WinFor(at), "Win") /\ UNCHANGED faulted

(* A line that already waits behind a legal move is fatal.                 *)
Stray == Answered /\ Tail(channel[at]) # <<>> /\ Abort

MoveOn ==
  /\ Answered /\ Tail(channel[at]) = <<>> /\ TakeAnswer
  /\ \/ /\ ply + 1 < MaxMoves
        /\ pc' = "go" /\ at' = Opponent(at) /\ ply' = ply + 1
        /\ UNCHANGED <<game, resultVars>>
     \/ /\ ply + 1 = MaxMoves
        /\ EndGame("Draw", "MaxMoves") /\ UNCHANGED faulted
     \/ /\ EndGame("Draw", "Repetition") /\ UNCHANGED faulted
     \/ /\ \E e \in Engines : EndGame(WinFor(e), "PerpetualCheck")
        /\ UNCHANGED faulted
-----------------------------------------------------------------------------
(* The loop of main.                                                       *)

Faults == {"IllegalMove", "EngineError", "TimeForfeit"}

Invalidates(reason) == reason \in Faults

(* notify_gameover and the list of invalid games.                          *)
NotifyGameover ==
  /\ pc = "gameover"
  /\ invalid' = IF Invalidates(result.reason) \/ \E e \in Engines : ~Running(e)
                THEN invalid \cup {game} ELSE invalid
  /\ pc' = IF result.reason \in Faults
           THEN "retire" ELSE "kifu"
  /\ UNCHANGED <<linkVars, gameVars, result, scores, faulted, disk, published>>

AtFault(outcome) == IF outcome = "E2Win" THEN "e1" ELSE "e2"

Retire ==
  /\ pc = "retire"
  /\ Kill({AtFault(result.outcome)})
  /\ pc' = "launch" /\ at' = AtFault(result.outcome)
  /\ UNCHANGED <<process, launched, commands, channel, search, elapsed>>
  /\ UNCHANGED <<game, ply, answers, resultVars>>

(* Mutant of Unwritten: a write that fails is only reported.               *)
Reported ==
  /\ UNCHANGED <<linkVars, gameVars, resultVars>>
  /\ pc' = CASE pc = "kifu" -> "csa" [] pc = "csa" -> "trials"
             [] OTHER -> "publish"

(* fatal_evidence_error                                                    *)
Unwritten == Abort

Written(next, file) ==
  /\ disk' = file /\ pc' = next
  /\ UNCHANGED <<linkVars, gameVars, result, scores, invalid, faulted, published>>

(* The kifu, after the game was scored.                                    *)
WriteKifu ==
  /\ pc = "kifu"
  /\ \/ /\ scores' = Append(scores, Trial("this", game, result.outcome, result.reason \in Faults))
        /\ disk' = [disk EXCEPT !.kifu = @ \cup {game}]
        /\ pc' = "csa"
        /\ UNCHANGED <<linkVars, gameVars, result, invalid, faulted, published>>
     \/ Unwritten

WriteCsa ==
  /\ pc = "csa"
  /\ \/ result.reason \notin Labelled /\ Goto("trials") /\ UNCHANGED linkVars
     \/ /\ result.reason \in Labelled
        /\ \/ Written("trials", [disk EXCEPT !.csa = @ \cup {game}])
           \/ Unwritten

Status == IF game > NumGames THEN "complete" ELSE "running"

(* persist_result_snapshot: the trials, then the summary.                  *)
PersistTrials ==
  /\ pc = "trials"
  /\ Written("summary", WriteTrials(disk, scores)) \/ Unwritten

PersistSummary ==
  /\ pc = "summary"
  /\ \/ Written(IF Status = "complete" THEN "quit" ELSE "manifest",
                [disk EXCEPT !.summary = Summary(Status, scores, invalid)])
     \/ Unwritten

(* persist_csa_manifest: after the summary in a game, before it at the end. *)
PersistManifest ==
  /\ pc = "manifest"
  /\ \/ Written(IF Status = "complete" THEN "trials" ELSE "publish",
                [disk EXCEPT !.manifest = Len(scores)])
     \/ Unwritten

(* The result line, and the next game.                                     *)
Publish ==
  /\ pc = "publish"
  /\ published' = published \cup {game}
  /\ game' = game + 1 /\ at' = "e1" /\ answers' = <<>>
  /\ pc' = IF game < NumGames THEN "open" ELSE "manifest"
  /\ result' = NoResult
  /\ UNCHANGED <<linkVars, ply, scores, invalid, faulted, disk>>

(* Drop of the handles, the second first: quit, and a kill after a grace.  *)
Quit ==
  /\ pc = "quit"
  /\ elapsed' = 0 /\ pc' = "reap"
  /\ at' = IF at = "e1" THEN "e2" ELSE "e1"
  /\ UNCHANGED <<process, alive, launched, commands, channel, search>>
  /\ UNCHANGED <<game, ply, answers, resultVars>>

Reap ==
  /\ pc = "reap"
  /\ ~Running(at) \/ TimedOut
  /\ Kill({at})
  /\ Goto(IF at = "e2" THEN "quit" ELSE "done")
  /\ UNCHANGED <<process, launched, commands, channel, search, elapsed>>
-----------------------------------------------------------------------------
(* Time passes while the runner waits.                                     *)
Tick ==
  /\ pc \in {"usiok", "readyok", "barrier", "move", "reap"}
  /\ elapsed < Budget
  /\ elapsed' = elapsed + 1
  /\ UNCHANGED <<process, alive, launched, commands, channel, search>>
  /\ UNCHANGED <<pc, gameVars, resultVars>>

Runner ==
  \/ Launch \/ AwaitUsiok \/ AwaitReadyok \/ EngineLost
  \/ OpenGame \/ Barrier \/ Go \/ NoMove \/ OtherLine \/ LastAnswer \/ Stray \/ MoveOn
  \/ NotifyGameover \/ Retire \/ WriteKifu \/ WriteCsa \/ PersistTrials
  \/ PersistSummary \/ PersistManifest \/ Publish \/ Quit \/ Reap

(* Between these points the runner does not look at an engine, and what    *)
(* the engines do there can as well be done at the next of them.           *)
Looking == {"usiok", "readyok", "open", "barrier", "go", "move", "gameover", "reap"}

Environment ==
  /\ pc \in Looking
  /\ \E e \in Engines : Engine(e)
  /\ UNCHANGED <<pc, gameVars, resultVars>>

Next == Runner \/ Tick \/ Environment

Spec == Init /\ [][Next]_vars

(* The runner runs and time passes; an engine owes nothing.                *)
FairSpec == Spec /\ WF_vars(Runner) /\ WF_vars(Tick)
-----------------------------------------------------------------------------
Reasons == Faults \cup {"none", "ClockLoss", "Resign", "Win", "MaxMoves", "Repetition",
                       "PerpetualCheck"}

Places == Looking \cup {"launch", "retire", "kifu", "csa", "trials", "summary",
                       "manifest", "publish", "quit", "done"}

TypeOK ==
  /\ launched \in Nat
  /\ process \in [Engines -> 0 .. launched] /\ alive \subseteq 1 .. launched
  /\ commands \in [Engines -> Seq(Commands)] /\ channel \in [Engines -> Seq(Lines)]
  /\ search \in [Engines -> [game : Nat, answers : Nat]]
  /\ elapsed \in 0 .. Budget
  /\ pc \in Places /\ at \in Engines
  /\ game \in 0 .. NumGames + 1 /\ ply \in 0 .. MaxMoves /\ answers \in Seq(Nat)
  /\ result \in [outcome : Outcomes, reason : Reasons]
  /\ scores \in Seq(TrialRecords)
  /\ invalid \subseteq 1 .. NumGames /\ faulted \subseteq 0 .. launched
  /\ disk \in Disks /\ published \subseteq 1 .. NumGames

(* No game carries over into the next: every bestmove that was applied, or *)
(* that ended a game, answers a go of this very game, however often and    *)
(* however late the engines answer; and a process whose move was illegal,  *)
(* or that did not answer, is not asked for a move again.                  *)
NothingCarriesOver ==
  /\ \A i \in DOMAIN answers : answers[i] = game
  /\ pc = "move" => process[at] \notin faulted

(* A published result is on disk, whenever the runner is killed: its kifu, *)
(* its trial, a summary and a manifest that count it.                      *)
PublishedIsOnDisk ==
  \A g \in published :
    /\ g \in disk.kifu
    /\ \E i \in DOMAIN disk.trials : disk.trials[i].run = "this" /\ disk.trials[i].game = g
    /\ disk.summary.tally = Tally(disk.trials) \/ Len(disk.trials) > g
    /\ disk.manifest >= g

(* What the gate accepts, at any instant, is one run: all its games, none  *)
(* of them ended by an engine fault.                                       *)
GateReadsOneCleanRun ==
  GateAccepts(disk) =>
    /\ Len(disk.trials) = NumGames
    /\ \A i \in DOMAIN disk.trials :
         /\ disk.trials[i].run = disk.trials[1].run
         /\ ~disk.trials[i].fault

(* However the run ends, no engine process is left behind.                 *)
NoOrphans ==
  /\ alive \subseteq {process[e] : e \in Engines}
  /\ pc = "done" => alive = {}

(* The match ends, whatever the engines print or fail to print.            *)
MatchEnds == <>(pc = "done")
=============================================================================
