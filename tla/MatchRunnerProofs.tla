------------------------- MODULE MatchRunnerProofs -------------------------
(***************************************************************************)
(* Proofs about the match runner, for any number of games and moves, any   *)
(* deadline, any number of answers an engine gives to one go, and whatever *)
(* an earlier run has left on disk.                                        *)
(*                                                                         *)
(* No game carries over because a barrier that is passed leaves the link   *)
(* silent: a readyok is the last line an engine prints until it is written *)
(* to again (Awaiting).  A published result is on disk because each place  *)
(* between the end of a game and its result line has one more file that    *)
(* contains the game (Evidence).                                           *)
(*                                                                         *)
(* The gate is not misled because the complete status is the last thing a  *)
(* match writes: before it stands the earlier summary (Kept) or one that   *)
(* says the match is running (Unfinished), after it every trial that ended *)
(* in a fault is on its list (FaultsNoted, Finished).                      *)
(***************************************************************************)
EXTENDS MatchRunner, FiniteSetTheorems, TLAPS

Preparing == {"launch", "usiok", "readyok"}
Recording == {"csa", "trials", "summary", "manifest", "publish"}

(* Which game the runner is in at each place.                              *)
Phase ==
  /\ pc \in Preparing => game <= NumGames
  /\ pc \in {"open", "barrier", "go", "move", "gameover", "retire", "kifu", "csa",
             "publish"} => game \in 1 .. NumGames
  /\ pc \in {"trials", "summary", "manifest"} => game >= 1
  /\ pc \in {"trials", "summary", "manifest"} /\ game > NumGames => at = "e1"
  /\ pc \in {"quit", "reap"} => game = NumGames + 1

(* Which processes run.                                                    *)
Owned ==
  /\ alive \subseteq {process[e] : e \in Engines}
  /\ pc = "done" => alive = {}
  /\ pc = "launch" => process[at] \notin alive
  /\ game = 0 /\ at = "e1" => process["e2"] = 0
  /\ pc = "quit" /\ at = "e2" => process["e2"] \notin alive
  /\ pc = "reap" /\ at = "e1" => process["e2"] \notin alive

(* An engine at fault is gone before anything is asked of it.              *)
Fit ==
  /\ pc # "done" /\ ~(pc = "launch" /\ game = 0 /\ at = "e1")
       => process["e1"] # process["e2"]
  /\ pc = "launch" => process[Opponent(at)] \notin faulted
  /\ pc \in {"gameover", "retire"} /\ result.reason \in Faults
       => process[Opponent(AtFault(result.outcome))] \notin faulted
  /\ pc = "retire" => result.reason \in Faults
  /\ pc = "gameover" /\ result.reason \notin Faults
       => \A e \in Engines : process[e] \notin faulted
  /\ pc \notin {"launch", "gameover", "retire", "done"}
       => \A e \in Engines : process[e] \notin faulted

(* Nothing but answers and information is under way.                       *)
Loose(e) ==
  /\ \A i \in DOMAIN commands[e] : commands[e][i].name = "go"
  /\ \A i \in DOMAIN channel[e] : channel[e][i].is \notin {"usiok", "readyok"}

(* And all of it belongs to this game.                                     *)
Current(e) ==
  /\ Loose(e)
  /\ \A i \in DOMAIN commands[e] : commands[e][i].game = game
  /\ \A i \in DOMAIN channel[e] : channel[e][i].is = "bestmove" => channel[e][i].game = game
  /\ search[e].answers > 0 => search[e].game = game

Silent(e) == commands[e] = <<>> /\ channel[e] = <<>> /\ search[e].answers = 0

Unread(e, request) ==
  /\ Len(commands[e]) >= 1
  /\ commands[e][Len(commands[e])].name = request
  /\ \A i \in 1 .. Len(commands[e]) - 1 : commands[e][i].name = "go"
  /\ request # "isready" => Len(commands[e]) = 1 /\ search[e].answers = 0
  /\ \A i \in DOMAIN channel[e] : channel[e][i].is \notin {"usiok", "readyok"}

Replied(e, reply) ==
  /\ commands[e] = <<>> /\ search[e].answers = 0
  /\ channel[e] # <<>>
  /\ channel[e][Len(channel[e])].is = reply
  /\ \A i \in 1 .. Len(channel[e]) - 1 : channel[e][i].is \notin {"usiok", "readyok"}

Gone(e) ==
  /\ ~Running(e)
  /\ \A i \in DOMAIN channel[e] : channel[e][i].is \notin {"usiok", "readyok"}

Awaiting(e, request, reply) == Unread(e, request) \/ Replied(e, reply) \/ Gone(e)

(* The state of the two links at each place.                               *)
Talk ==
  /\ pc = "usiok" => Awaiting(at, "usi", "usiok")
  /\ pc = "readyok" => Awaiting(at, "options", "readyok")
  /\ pc = "barrier" => Awaiting(at, "isready", "readyok")
  /\ pc \in Preparing \cup {"open", "barrier"} => Loose(Opponent(at))
  /\ pc \in {"open", "barrier"} /\ at = "e2" => Silent("e1")
  /\ pc \in {"go", "move"} => \A e \in Engines : Current(e)
  /\ pc \notin Preparing \cup {"barrier", "done"} => \A e \in Engines : Loose(e)

Answers ==
  /\ game = 0 => answers = <<>>
  /\ \A i \in DOMAIN answers : answers[i] = game

(* What is on disk at each place.                                          *)
Evidence ==
  /\ \A i \in DOMAIN scores : scores[i].run = "this" /\ scores[i].game = i
  /\ pc # "done" =>
       /\ published = 1 .. game - 1
       /\ Len(scores) = IF pc \in Recording /\ game <= NumGames THEN game
                        ELSE IF game = 0 THEN 0 ELSE game - 1
  /\ pc \in Recording /\ game <= NumGames => game \in disk.kifu
  /\ pc \in {"summary", "manifest", "publish"} \/ (pc # "done" /\ game > NumGames)
       => disk.trials = scores
  /\ pc \in {"manifest", "publish"} /\ game <= NumGames => disk.summary.tally = Tally(scores)
  /\ pc = "publish" => disk.manifest = Len(scores)
-----------------------------------------------------------------------------
(* Steps of the engines, and all that the other variables see of them.     *)
LEMMA EngineFrame ==
  ASSUME Environment
  PROVE  /\ UNCHANGED <<process, launched, elapsed, pc, gameVars, resultVars>>
         /\ alive' \subseteq alive
         /\ pc \in Looking
  BY DEF Environment, Engine, Hear, Answer, Chatter, Exit, Kill

(* Every way to leave the match early.                                     *)
LEMMA AbortFrame ==
  ASSUME Abort
  PROVE  /\ pc' = "done"
         /\ alive' = alive \ {process["e1"], process["e2"]}
         /\ UNCHANGED <<process, launched, commands, channel, search, elapsed, gameVars,
                        resultVars>>
  BY DEF Abort, Kill, Engines

LEMMA TallyType ==
  ASSUME NEW s \in Seq(TrialRecords)
  PROVE  Tally(s) \in [Outcomes -> Nat]
<1>1. ASSUME NEW o \in Outcomes
      PROVE  Cardinality({i \in DOMAIN s : s[i].outcome = o}) \in Nat
  <2>1. IsFiniteSet(1 .. Len(s))
    BY FS_Interval
  <2>2. {i \in DOMAIN s : s[i].outcome = o} \subseteq 1 .. Len(s)
    OBVIOUS
  <2>3. QED
    BY <2>1, <2>2, FS_Subset, FS_CardinalityType
<1>2. QED
  BY <1>1 DEF Tally

LEMMA InitType == Init => TypeOK
<1> SUFFICES ASSUME Init PROVE TypeOK
  OBVIOUS
<1> USE DEF Init, LinkInit, gameVars, resultVars
<1>1. search \in [Engines -> [game : Nat, answers : Nat]]
  BY DEF Idle
<1>2. disk \in Disks
  BY EarlierAssumption
<1>3. result \in [outcome : Outcomes, reason : Reasons]
  BY DEF NoResult, Outcomes, Reasons
<1>4. QED
  BY <1>1, <1>2, <1>3, BudgetAssumption, ScheduleAssumption
     DEF TypeOK, Places, Engines

(* The variables of the links.                                             *)
LinkType ==
  /\ launched \in Nat
  /\ process \in [Engines -> 0 .. launched] /\ alive \subseteq 1 .. launched
  /\ commands \in [Engines -> Seq(Commands)] /\ channel \in [Engines -> Seq(Lines)]
  /\ search \in [Engines -> [game : Nat, answers : Nat]]
  /\ elapsed \in 0 .. Budget

LEMMA EngineType ==
  ASSUME TypeOK, NEW e \in Engines, Engine(e)
  PROVE  LinkType'
<1> USE DEF TypeOK, LinkType
<1>1. CASE Hear(e)
  <2>1. Head(commands[e]) \in Commands /\ Tail(commands[e]) \in Seq(Commands)
    BY <1>1 DEF Hear
  <2>2. commands' \in [Engines -> Seq(Commands)]
    BY <1>1, <2>1 DEF Hear
  <2>3. \A advertised \in BOOLEAN : UsiOk(advertised) \in Lines /\ ReadyOk(advertised) \in Lines
    BY DEF UsiOk, ReadyOk, Lines
  <2>4. \A line \in Lines : Prints(e, line) => channel' \in [Engines -> Seq(Lines)]
    BY DEF Prints
  <2>5. channel' \in [Engines -> Seq(Lines)]
    BY <1>1, <2>3, <2>4 DEF Hear
  <2>6. search' \in [Engines -> [game : Nat, answers : Nat]]
    <3>1. Idle \in [game : Nat, answers : Nat]
      BY DEF Idle
    <3>2. [game |-> Head(commands[e]).game, answers |-> MaxAnswers]
            \in [game : Nat, answers : Nat]
      BY <2>1, AnswersAssumption DEF Commands
    <3>3. \A s \in [game : Nat, answers : Nat] :
            search' = [search EXCEPT ![e] = s] => search' \in [Engines -> [game : Nat, answers : Nat]]
      OBVIOUS
    <3>4. QED
      BY <1>1, <3>1, <3>2, <3>3 DEF Hear
  <2>7. QED
    BY <1>1, <2>2, <2>5, <2>6 DEF Hear
<1>2. CASE Answer(e)
  <2>1. BestMove(search[e].game) \in Lines
    BY DEF BestMove, Lines
  <2>2. channel' \in [Engines -> Seq(Lines)]
    BY <1>2, <2>1 DEF Answer, Prints
  <2>3. search' \in [Engines -> [game : Nat, answers : Nat]]
    <3>1. search[e].answers - 1 \in Nat /\ search[e].game \in Nat
      BY <1>2 DEF Answer
    <3>2. [game |-> search[e].game, answers |-> search[e].answers - 1]
            \in [game : Nat, answers : Nat]
      BY <3>1
    <3>3. \A s \in [game : Nat, answers : Nat] :
            search' = [search EXCEPT ![e] = s] => search' \in [Engines -> [game : Nat, answers : Nat]]
      OBVIOUS
    <3>4. QED
      BY <1>2, <3>2, <3>3 DEF Answer
  <2>4. QED
    BY <1>2, <2>2, <2>3 DEF Answer
<1>3. CASE Chatter(e)
  <2>1. channel' = [channel EXCEPT ![e] = Append(channel[e], Info)]
    BY <1>3 DEF Chatter, Prints
  <2>2. Info \in Lines
    BY DEF Lines
  <2>3. channel' \in [Engines -> Seq(Lines)]
    BY <2>1, <2>2
  <2>4. QED
    BY <1>3, <2>3 DEF Chatter
<1>4. CASE Exit(e)
  <2>1. Idle \in [game : Nat, answers : Nat]
    BY DEF Idle
  <2>2. <<>> \in Seq(Commands)
    OBVIOUS
  <2>3. search' \in [Engines -> [game : Nat, answers : Nat]]
    BY <1>4, <2>1 DEF Exit
  <2>4. commands' \in [Engines -> Seq(Commands)]
    BY <1>4, <2>2 DEF Exit
  <2>5. QED
    BY <1>4, <2>3, <2>4 DEF Exit, Kill
<1>5. QED
  BY <1>1, <1>2, <1>3, <1>4 DEF Engine

LEMMA StepPhase == TypeOK /\ Phase /\ [Next]_vars => Phase'
<1> SUFFICES ASSUME TypeOK, Phase, [Next]_vars PROVE Phase'
  OBVIOUS
<1>0. NumGames \in Nat \ {0} /\ game \in 0 .. NumGames + 1 /\ at \in Engines
  BY ScheduleAssumption DEF TypeOK
<1> USE <1>0 DEF Phase, Preparing
<1>1. CASE Environment \/ UNCHANGED vars
  BY <1>1, EngineFrame DEF gameVars, vars
<1>2. CASE Tick
  BY <1>2 DEF Tick, gameVars
<1>3. CASE Abort
  BY <1>3, AbortFrame
<1>4. CASE Runner /\ ~Abort
  <2> USE <1>4 DEF Goto, gameVars, Engines, FailGo, EndGame
  <2>1. CASE Launch \/ AwaitUsiok \/ EngineLost
    BY <2>1 DEF Launch, AwaitUsiok, EngineLost
  <2>8. CASE AwaitReadyok
    <3>1. CASE Goto("readyok")
      BY <2>8, <3>1 DEF AwaitReadyok
    <3>2. CASE Initialized
      BY <2>8, <3>2 DEF AwaitReadyok, Initialized
    <3>3. QED
      BY <2>8, <3>1, <3>2 DEF AwaitReadyok
  <2>2. CASE OpenGame \/ Barrier \/ Go \/ NoMove \/ OtherLine
    BY <2>2 DEF OpenGame, Barrier, Go, NoMove, OtherLine
  <2>3. CASE LastAnswer \/ Stray \/ MoveOn
    BY <2>3 DEF LastAnswer, Stray, MoveOn, Answered
  <2>4. CASE NotifyGameover
    <3>1. pc = "gameover" /\ pc' \in {"retire", "kifu"} /\ game' = game
      BY <2>4 DEF NotifyGameover
    <3>2. QED
      BY <3>1
  <2>9. CASE Retire
    BY <2>9 DEF Retire
  <2>5. CASE WriteKifu \/ WriteCsa \/ PersistTrials
    BY <2>5 DEF WriteKifu, WriteCsa, PersistTrials, Written, Unwritten
  <2>10. CASE PersistSummary \/ PersistManifest
    <3>1. Status = "complete" <=> game > NumGames
      BY DEF Status
    <3>2. QED
      BY <2>10, <3>1 DEF PersistSummary, PersistManifest, Written, Unwritten
  <2>6. CASE Publish
    BY <2>6 DEF Publish
  <2>7. CASE Quit \/ Reap
    BY <2>7 DEF Quit, Reap
  <2>11. QED
    BY <2>1, <2>2, <2>3, <2>4, <2>5, <2>6, <2>7, <2>8, <2>9, <2>10 DEF Runner
<1>5. QED
  BY <1>1, <1>2, <1>3, <1>4 DEF Next

LEMMA LinkFrame ==
  ASSUME TypeOK, UNCHANGED <<process, launched, commands, channel, search>>,
         alive' \subseteq alive, elapsed' \in 0 .. Budget
  PROVE  LinkType'
  BY DEF TypeOK, LinkType

LEMMA ReceiveType ==
  ASSUME TypeOK, NEW e \in Engines, LineWaits(e)
  PROVE  /\ Line(e) \in Lines
         /\ Tail(channel[e]) \in Seq(Lines)
         /\ Receive(e) => channel' \in [Engines -> Seq(Lines)]
<1>1. channel[e] \in Seq(Lines) /\ channel[e] # <<>>
  BY DEF TypeOK, LineWaits
<1>2. Head(channel[e]) \in Lines /\ Tail(channel[e]) \in Seq(Lines)
  BY <1>1
<1>3. QED
  BY <1>2 DEF Receive, Line, TypeOK

LEMMA WriteType ==
  ASSUME TypeOK, NEW e \in Engines, NEW command \in Commands, Write(e, command)
  PROVE  commands' \in [Engines -> Seq(Commands)]
  BY DEF Write, TypeOK

LEMMA SpawnType ==
  ASSUME TypeOK, NEW e \in Engines, Spawn(e)
  PROVE  LinkType'
<1>1. <<Command("usi", 0)>> \in Seq(Commands)
  BY DEF Command, Commands
<1>2. commands' \in [Engines -> Seq(Commands)]
  BY <1>1 DEF Spawn, TypeOK
<1>3. Idle \in [game : Nat, answers : Nat]
  BY DEF Idle
<1>4. search' \in [Engines -> [game : Nat, answers : Nat]]
  BY <1>3 DEF Spawn, TypeOK
<1>5. channel' \in [Engines -> Seq(Lines)]
  BY DEF Spawn, TypeOK
<1>6. /\ launched' \in Nat
      /\ process' \in [Engines -> 0 .. launched'] /\ alive' \subseteq 1 .. launched'
  <2>1. launched \in Nat /\ launched' = launched + 1
    BY DEF Spawn, TypeOK
  <2>2. process' \in [Engines -> 0 .. launched + 1]
    <3>1. process \in [Engines -> 0 .. launched + 1]
      BY <2>1, 0 .. launched \subseteq 0 .. launched + 1 DEF TypeOK
    <3>2. QED
      BY <2>1, <3>1 DEF Spawn
  <2>3. alive' \subseteq 1 .. launched + 1
    BY <2>1 DEF Spawn, TypeOK
  <2>4. QED
    BY <2>1, <2>2, <2>3
<1>7. QED
  BY <1>2, <1>4, <1>5, <1>6, BudgetAssumption DEF LinkType, Spawn

LEMMA RunnerLinkType == TypeOK /\ Phase /\ Runner => LinkType'
<1> SUFFICES ASSUME TypeOK, Phase, Runner PROVE LinkType'
  OBVIOUS
<1>1. at \in Engines /\ game \in Nat
  BY ScheduleAssumption DEF TypeOK
<1>2. CASE Abort
  BY <1>2, AbortFrame, LinkFrame DEF TypeOK
<1>3. CASE UNCHANGED linkVars
  BY <1>3, LinkFrame DEF linkVars, TypeOK
<1>4. CASE Launch /\ ~Abort
  BY <1>1, <1>4, SpawnType DEF Launch
<1>5. ASSUME LineWaits(at), Receive(at), elapsed' \in 0 .. Budget,
             UNCHANGED <<process, alive, launched, search>>,
             commands' \in [Engines -> Seq(Commands)]
      PROVE  LinkType'
  BY <1>1, <1>5, ReceiveType DEF LinkType, TypeOK
<1>6. ASSUME UNCHANGED <<process, alive, launched, channel, search>>, elapsed' = 0,
             commands' \in [Engines -> Seq(Commands)]
      PROVE  LinkType'
  BY <1>1, <1>6, BudgetAssumption DEF LinkType, TypeOK
<1>7. Command("options", 0) \in Commands /\ Command("isready", 0) \in Commands
        /\ Command("go", game) \in Commands
  BY <1>1 DEF Command, Commands
<1>8. commands \in [Engines -> Seq(Commands)] /\ elapsed \in 0 .. Budget
  BY DEF TypeOK
<1>9. CASE AwaitUsiok /\ ~Abort
  BY <1>1, <1>5, <1>7, <1>8, <1>9, WriteType, BudgetAssumption DEF AwaitUsiok, KeepDeadline
<1>10. CASE AwaitReadyok /\ ~Abort
  BY <1>1, <1>5, <1>8, <1>10 DEF AwaitReadyok, KeepDeadline
<1>11. CASE (OpenGame \/ Go) /\ ~Abort
  BY <1>1, <1>3, <1>6, <1>7, <1>11, WriteType DEF OpenGame, Go, FailGo
<1>12. CASE Barrier \/ OtherLine
  BY <1>5, <1>8, <1>12 DEF Barrier, OtherLine, KeepDeadline
<1>13. CASE LastAnswer \/ MoveOn
  BY <1>5, <1>8, <1>13 DEF LastAnswer, MoveOn, TakeAnswer, Answered, KeepDeadline
<1>14. CASE Retire \/ Reap \/ Quit
  <2>1. UNCHANGED <<process, launched, commands, channel, search>> /\ alive' \subseteq alive
    BY <1>14 DEF Retire, Reap, Quit, Kill
  <2>2. elapsed' \in 0 .. Budget
    BY <1>8, <1>14, BudgetAssumption DEF Retire, Reap, Quit
  <2>3. QED
    BY <2>1, <2>2, LinkFrame
<1>15. CASE (EngineLost \/ NoMove \/ Stray) /\ ~Abort
  BY <1>3, <1>15 DEF EngineLost, NoMove, Stray, FailGo
<1>16. CASE (NotifyGameover \/ WriteKifu \/ WriteCsa \/ PersistTrials \/ PersistSummary
               \/ PersistManifest \/ Publish) /\ ~Abort
  BY <1>3, <1>16 DEF NotifyGameover, WriteKifu, WriteCsa, PersistTrials, PersistSummary,
                     PersistManifest, Publish, Written, Unwritten
<1>17. QED
  BY <1>2, <1>4, <1>9, <1>10, <1>11, <1>12, <1>13, <1>14, <1>15, <1>16 DEF Runner

(* The other variables.                                                    *)
RestType ==
  /\ pc \in Places /\ at \in Engines
  /\ game \in 0 .. NumGames + 1 /\ ply \in 0 .. MaxMoves /\ answers \in Seq(Nat)
  /\ result \in [outcome : Outcomes, reason : Reasons]
  /\ scores \in Seq(TrialRecords)
  /\ invalid \subseteq 1 .. NumGames /\ faulted \subseteq 0 .. launched
  /\ disk \in Disks /\ published \subseteq 1 .. NumGames

LEMMA RunnerRestType == TypeOK /\ Phase /\ Runner => RestType'
<1> SUFFICES ASSUME TypeOK, Phase, Runner PROVE RestType'
  OBVIOUS
<1>0. /\ RestType /\ LinkType'
      /\ launched \in Nat /\ launched' \in Nat /\ launched <= launched'
      /\ \A e \in Engines : process[e] \in 0 .. launched
      /\ NumGames \in Nat \ {0} /\ MaxMoves \in Nat \ {0}
  <2>1. RestType /\ launched \in Nat /\ \A e \in Engines : process[e] \in 0 .. launched
    BY DEF TypeOK, RestType
  <2>2. LinkType'
    BY RunnerLinkType
  <2>3. launched' \in {launched, launched + 1}
    BY DEF Runner, Launch, AwaitUsiok, AwaitReadyok, EngineLost, OpenGame, Barrier, Go, NoMove,
           OtherLine, LastAnswer, Stray, MoveOn, NotifyGameover, Retire, WriteKifu, WriteCsa,
           PersistTrials, PersistSummary, PersistManifest, Publish, Quit, Reap, Abort, Spawn,
           FailGo, TakeAnswer, Written, Unwritten, linkVars
  <2>4. QED
    BY <2>1, <2>2, <2>3, ScheduleAssumption
<1>1. ASSUME UNCHANGED <<answers, result, scores, invalid, faulted, disk, published>>,
             pc' \in Places, at' \in Engines, game' \in 0 .. NumGames + 1,
             ply' \in 0 .. MaxMoves
      PROVE  RestType'
  BY <1>0, <1>1 DEF RestType
<1>2. ASSUME pc' \in Places, UNCHANGED <<gameVars, resultVars>>
      PROVE  RestType'
  BY <1>0, <1>1, <1>2 DEF gameVars, resultVars, RestType
<1>3. CASE Abort
  BY <1>2, <1>3, AbortFrame DEF Places
<1>4. CASE (Launch \/ AwaitUsiok \/ EngineLost \/ OpenGame \/ OtherLine \/ Stray \/ Reap)
             /\ ~Abort
  BY <1>2, <1>4 DEF Launch, AwaitUsiok, EngineLost, OpenGame, OtherLine, Stray, Reap, Goto,
                    Places, Looking
<1>5. CASE AwaitReadyok
  <2>1. CASE Goto("readyok")
    BY <1>2, <2>1 DEF Goto, Places, Looking
  <2>2. CASE Initialized
    <3>1. pc' \in Places /\ at' \in Engines /\ game' \in 0 .. NumGames + 1
      BY <1>0, <2>2 DEF Initialized, Places, Looking, Engines, RestType
    <3>2. QED
      BY <1>0, <1>1, <2>2, <3>1 DEF Initialized, resultVars, RestType
  <2>3. QED
    BY <1>3, <1>5, <2>1, <2>2 DEF AwaitReadyok
<1>6. CASE Barrier
  <2>1. pc' \in Places /\ at' \in Engines /\ game' = game /\ ply' \in 0 .. MaxMoves
    BY <1>0, <1>6 DEF Barrier, Places, Looking, Engines, RestType
  <2>2. QED
    BY <1>0, <1>1, <1>6, <2>1 DEF Barrier, resultVars, RestType
<1>7. ASSUME NEW outcome \in Outcomes, NEW reason \in Reasons, EndGame(outcome, reason),
             answers' \in Seq(Nat), faulted' \subseteq 0 .. launched
      PROVE  RestType'
  <2>1. result' \in [outcome : Outcomes, reason : Reasons]
    BY <1>7 DEF EndGame
  <2>2. QED
    BY <1>0, <1>7, <2>1 DEF EndGame, RestType, Places, Looking
<1>8. \A e \in Engines : WinFor(e) \in Outcomes /\ Opponent(e) \in Engines
  BY DEF WinFor, Outcomes, Opponent, Engines
<1>9. CASE (Go \/ NoMove) /\ ~Abort
  <2>1. CASE \E reason \in {"TimeForfeit", "EngineError"} : FailGo(reason)
    <3>1. PICK reason \in {"TimeForfeit", "EngineError"} : FailGo(reason)
      BY <2>1
    <3>2. EndGame(WinFor(Opponent(at)), reason) /\ answers' = answers
            /\ faulted' = faulted \cup {process[at]}
      BY <1>9, <3>1 DEF FailGo
    <3>3. reason \in Reasons
      BY DEF Reasons, Faults
    <3>4. faulted' \subseteq 0 .. launched
      BY <1>0, <3>2 DEF RestType
    <3>5. QED
      BY <1>0, <1>7, <1>8, <3>2, <3>3, <3>4 DEF RestType
  <2>2. CASE Goto("move")
    BY <1>2, <2>2 DEF Goto, Places, Looking
  <2>3. QED
    BY <1>9, <2>1, <2>2 DEF Go, NoMove
<1>10. ASSUME Answered, TakeAnswer PROVE answers' \in Seq(Nat)
  <2>1. Line(at) \in Lines /\ Line(at).is = "bestmove"
    BY <1>0, <1>10, ReceiveType DEF Answered, RestType
  <2>2. Line(at).game \in Nat
    BY <2>1 DEF Lines, Info
  <2>3. QED
    BY <1>0, <1>10, <2>2 DEF TakeAnswer, RestType
<1>11. CASE LastAnswer
  <2>1. CASE EndGame(WinFor(at), "Win") /\ UNCHANGED faulted
    BY <1>0, <1>7, <1>8, <1>10, <1>11, <2>1 DEF LastAnswer, Reasons, RestType
  <2>2. ASSUME NEW reason \in {"ClockLoss", "Resign", "IllegalMove"},
               EndGame(WinFor(Opponent(at)), reason),
               faulted' = faulted \cup (IF reason = "IllegalMove" THEN {process[at]} ELSE {})
        PROVE  RestType'
    <3>1. reason \in Reasons
      BY DEF Reasons, Faults
    <3>2. faulted' \subseteq 0 .. launched
      BY <1>0, <2>2 DEF RestType
    <3>3. QED
      BY <1>0, <1>7, <1>8, <1>10, <1>11, <2>2, <3>1, <3>2 DEF LastAnswer, RestType
  <2>3. QED
    BY <1>11, <2>1, <2>2 DEF LastAnswer
<1>12. CASE MoveOn
  <2>1. answers' \in Seq(Nat)
    BY <1>10, <1>12 DEF MoveOn
  <2>2. CASE ply + 1 < MaxMoves /\ pc' = "go" /\ at' = Opponent(at) /\ ply' = ply + 1
               /\ UNCHANGED <<game, resultVars>>
    BY <1>0, <1>8, <2>1, <2>2 DEF RestType, resultVars, Places, Looking
  <2>3. CASE UNCHANGED faulted /\ (\/ EndGame("Draw", "MaxMoves")
                                   \/ EndGame("Draw", "Repetition")
                                   \/ \E e \in Engines : EndGame(WinFor(e), "PerpetualCheck"))
    BY <1>0, <1>7, <1>8, <2>1, <2>3 DEF RestType, Reasons, Outcomes
  <2>4. QED
    BY <1>12, <2>2, <2>3 DEF MoveOn
<1>13. CASE NotifyGameover
  <2>1. invalid' \subseteq 1 .. NumGames
    BY <1>0, <1>13 DEF NotifyGameover, RestType, Phase
  <2>2. pc' \in {"retire", "kifu"}
    BY <1>13 DEF NotifyGameover
  <2>3. QED
    BY <1>0, <1>13, <2>1, <2>2 DEF NotifyGameover, RestType, gameVars, Places, Looking
<1>14. CASE Retire
  BY <1>0, <1>1, <1>14 DEF Retire, resultVars, RestType, Places, Looking, AtFault, Engines
<1>15. CASE Publish
  <2>1. published' \subseteq 1 .. NumGames /\ game' \in 0 .. NumGames + 1
    BY <1>0, <1>15 DEF Publish, RestType, Phase
  <2>2. result' \in [outcome : Outcomes, reason : Reasons]
    BY <1>15 DEF Publish, NoResult, Outcomes, Reasons
  <2>3. pc' \in Places /\ at' \in Engines /\ answers' = <<>>
    BY <1>15 DEF Publish, Places, Looking, Engines
  <2>4. QED
    BY <1>0, <1>15, <2>1, <2>2, <2>3 DEF Publish, RestType
<1>16. CASE Quit
  BY <1>0, <1>1, <1>16 DEF Quit, resultVars, RestType, Places, Looking, Engines
<1>17. ASSUME UNCHANGED <<linkVars, gameVars, result, invalid, faulted, published>>,
              pc' \in Places, scores' \in Seq(TrialRecords), disk' \in Disks
       PROVE  RestType'
  BY <1>0, <1>17 DEF RestType, gameVars, linkVars
<1>18. scores \in Seq(TrialRecords) /\ disk \in Disks /\ game \in Nat
  BY <1>0 DEF RestType
<1>19. CASE WriteKifu /\ ~Abort
  <2>1. [disk EXCEPT !.kifu = disk.kifu \cup {game}] \in Disks
    BY <1>18 DEF Disks
  <2>2. Trial("this", game, result.outcome, result.reason \in Faults) \in TrialRecords
    <3>1. (result.reason \in Faults) \in BOOLEAN
      OBVIOUS
    <3>2. result.outcome \in Outcomes
      BY <1>0 DEF RestType
    <3>3. QED
      BY <1>18, <3>1, <3>2 DEF Trial, TrialRecords
  <2>3. Append(scores, Trial("this", game, result.outcome, result.reason \in Faults))
          \in Seq(TrialRecords)
    BY <1>18, <2>2
  <2>4. QED
    BY <1>17, <1>19, <2>1, <2>3 DEF WriteKifu, Unwritten, Places
<1>20. ASSUME NEW next \in Places, NEW file \in Disks, Written(next, file)
       PROVE  RestType'
  BY <1>17, <1>18, <1>20 DEF Written
<1>21. CASE WriteCsa /\ ~Abort
  <2>1. [disk EXCEPT !.csa = disk.csa \cup {game}] \in Disks
    BY <1>18 DEF Disks
  <2>2. "trials" \in Places
    BY DEF Places
  <2>3. QED
    BY <1>2, <1>20, <1>21, <2>1, <2>2 DEF WriteCsa, Unwritten, Goto
<1>22. CASE PersistTrials /\ ~Abort
  <2>1. WriteTrials(disk, scores) \in Disks
    BY <1>18 DEF Disks, WriteTrials
  <2>2. "summary" \in Places
    BY DEF Places
  <2>3. QED
    BY <1>20, <1>22, <2>1, <2>2 DEF PersistTrials, Unwritten
<1>23. CASE PersistSummary /\ ~Abort
  <2>1. Summary(Status, scores, invalid)
          \in [status : {"none", "running", "complete"}, tally : [Outcomes -> Nat],
              invalid : SUBSET Nat]
    <3>1. invalid \in SUBSET Nat
      BY <1>0 DEF RestType
    <3>2. Status \in {"running", "complete"}
      BY DEF Status
    <3>3. Tally(scores) \in [Outcomes -> Nat]
      BY <1>18, TallyType
    <3>4. QED
      BY <3>1, <3>2, <3>3 DEF Summary
  <2>2. [disk EXCEPT !.summary = Summary(Status, scores, invalid)] \in Disks
    BY <1>18, <2>1 DEF Disks
  <2>3. "quit" \in Places /\ "manifest" \in Places
    BY DEF Places
  <2>4. QED
    BY <1>20, <1>23, <2>2, <2>3 DEF PersistSummary, Unwritten
<1>24. CASE PersistManifest /\ ~Abort
  <2>0. Len(scores) \in Nat
    BY <1>18
  <2>1. [disk EXCEPT !.manifest = Len(scores)] \in Disks
    BY <1>18, <2>0 DEF Disks
  <2>2. "trials" \in Places /\ "publish" \in Places
    BY DEF Places
  <2>3. QED
    BY <1>20, <1>24, <2>1, <2>2 DEF PersistManifest, Unwritten
<1>25. QED
  BY <1>3, <1>4, <1>5, <1>6, <1>9, <1>11, <1>12, <1>13, <1>14, <1>15, <1>16, <1>19, <1>21,
     <1>22, <1>23, <1>24 DEF Runner

LEMMA StepType == TypeOK /\ Phase /\ [Next]_vars => TypeOK'
<1> SUFFICES ASSUME TypeOK, Phase, [Next]_vars PROVE TypeOK'
  OBVIOUS
<1>1. LinkType' /\ RestType' => TypeOK'
  BY DEF LinkType, RestType, TypeOK
<1>2. CASE UNCHANGED vars
  BY <1>2 DEF vars, linkVars, gameVars, resultVars, TypeOK
<1>3. CASE Environment
  <2>1. UNCHANGED <<launched, pc, gameVars, resultVars>>
    BY <1>3, EngineFrame
  <2>2. RestType'
    BY <2>1 DEF RestType, TypeOK, gameVars, resultVars
  <2>3. LinkType'
    BY <1>3, EngineType DEF Environment
  <2>4. QED
    BY <1>1, <2>2, <2>3
<1>4. CASE Tick
  <2>1. elapsed' \in 0 .. Budget
    BY <1>4, BudgetAssumption DEF Tick, TypeOK
  <2>2. LinkType'
    BY <1>4, <2>1, LinkFrame DEF Tick
  <2>3. RestType'
    BY <1>4 DEF Tick, RestType, TypeOK, gameVars, resultVars
  <2>4. QED
    BY <1>1, <2>2, <2>3
<1>5. CASE Runner
  BY <1>1, <1>5, RunnerLinkType, RunnerRestType
<1>6. QED
  BY <1>2, <1>3, <1>4, <1>5 DEF Next

Base == TypeOK /\ Phase

LEMMA StepBase == Base /\ [Next]_vars => Base'
  BY StepType, StepPhase DEF Base

LEMMA InitBase == Init => Base
<1>1. Init => Phase
  BY ScheduleAssumption DEF Init, Phase, Preparing
<1>2. QED
  BY <1>1, InitType DEF Base

LEMMA BaseHolds == Spec => []Base
  BY InitBase, StepBase, PTL DEF Spec

(* Every variable of the runner, the links and the disk keeps its type,    *)
(* for any number of games, moves and relaunches.                          *)
THEOREM TypeCorrect == Spec => []TypeOK
<1>1. Base => TypeOK
  BY DEF Base
<1>2. QED
  BY <1>1, BaseHolds, PTL
-----------------------------------------------------------------------------
(* Engine processes.                                                       *)
LEMMA InitOwned == Init => Owned
  BY DEF Init, LinkInit, Owned, Engines

(* The places that lead to the reaping of the engines are reached with     *)
(* `at' as the handles are dropped: the second engine first.               *)
LEMMA StepOwned == Base /\ Owned /\ [Next]_vars => Owned'
<1> SUFFICES ASSUME Base, Owned, [Next]_vars PROVE Owned'
  OBVIOUS
<1>0. /\ at \in Engines /\ game \in 0 .. NumGames + 1 /\ NumGames \in Nat \ {0} /\ Phase
      /\ launched \in Nat /\ alive \subseteq 1 .. launched
      /\ process \in [Engines -> 0 .. launched]
  BY ScheduleAssumption DEF Base, TypeOK
<1> USE <1>0 DEF Owned
<1>1. CASE UNCHANGED vars
  BY <1>1 DEF vars, linkVars, gameVars, resultVars
<1>2. CASE Environment
  BY <1>2, EngineFrame DEF gameVars, Looking
<1>3. CASE Tick
  BY <1>3 DEF Tick, gameVars
<1>4. CASE Abort
  BY <1>4, AbortFrame DEF gameVars, Engines
<1>5. CASE Launch /\ ~Abort
  <2>1. /\ process' = [process EXCEPT ![at] = launched + 1]
        /\ alive' = alive \cup {launched + 1}
        /\ pc = "launch" /\ pc' = "usiok" /\ at' = at /\ game' = game
    BY <1>5 DEF Launch, Spawn, Goto, gameVars
  <2>2. alive' \subseteq {process'[e] : e \in Engines}
    BY <2>1 DEF Engines
  <2>3. game' = 0 /\ at' = "e1" => process'["e2"] = 0
    BY <2>1 DEF Engines
  <2>4. QED
    BY <2>1, <2>2, <2>3
<1>6. CASE Retire
  <2>1. /\ alive' = alive \ {process[AtFault(result.outcome)]}
        /\ pc' = "launch" /\ at' = AtFault(result.outcome)
        /\ UNCHANGED <<process, game>> /\ game \in 1 .. NumGames
    BY <1>6 DEF Retire, Kill, Phase
  <2>2. alive' \subseteq {process'[e] : e \in Engines}
    BY <2>1
  <2>3. process'[at'] \notin alive' /\ game' # 0
    BY <2>1
  <2>4. QED
    BY <2>1, <2>2, <2>3
<1>7. CASE Reap
  <2>1. /\ alive' = alive \ {process[at]}
        /\ pc = "reap" /\ pc' = (IF at = "e2" THEN "quit" ELSE "done")
        /\ UNCHANGED <<process, game, at>>
    BY <1>7 DEF Reap, Kill, Goto, gameVars
  <2>2. CASE at = "e1"
    BY <2>1, <2>2 DEF Engines
  <2>3. CASE at = "e2"
    BY <2>1, <2>3 DEF Engines
  <2>4. QED
    BY <2>2, <2>3 DEF Engines
<1>8. ASSUME UNCHANGED <<process, alive, launched, at>>, game' = game,
             pc' \notin {"done", "launch", "quit", "reap"}
      PROVE  Owned'
  BY <1>8
<1>9. CASE (AwaitUsiok \/ EngineLost \/ OpenGame \/ Go \/ NoMove \/ OtherLine \/ LastAnswer
              \/ Stray) /\ ~Abort
  <2>1. UNCHANGED <<at, game>> /\ pc' \notin {"done", "launch", "quit", "reap"}
    BY <1>9 DEF AwaitUsiok, EngineLost, OpenGame, Go, NoMove, OtherLine, LastAnswer, Stray,
                FailGo, EndGame, Goto, gameVars
  <2>2. UNCHANGED <<process, alive, launched>>
    BY <1>9 DEF AwaitUsiok, EngineLost, OpenGame, Go, NoMove, OtherLine, LastAnswer, Stray,
                FailGo, TakeAnswer, linkVars
  <2>3. QED
    BY <1>8, <2>1, <2>2
<1>10. CASE AwaitReadyok /\ ~Abort
  <2>1. UNCHANGED <<process, alive, launched>> /\ pc = "readyok"
    BY <1>10 DEF AwaitReadyok
  <2>2. CASE Goto("readyok")
    BY <1>8, <2>1, <2>2 DEF Goto, gameVars
  <2>3. CASE Initialized /\ game > 0
    BY <1>8, <2>1, <2>3 DEF Initialized
  <2>4. CASE Initialized /\ game = 0 /\ at = "e1"
    BY <2>1, <2>4 DEF Initialized
  <2>5. CASE Initialized /\ game = 0 /\ at = "e2"
    BY <2>1, <2>5 DEF Initialized
  <2>6. QED
    BY <1>10, <2>2, <2>3, <2>4, <2>5 DEF AwaitReadyok, Engines
<1>11. CASE Barrier \/ MoveOn
  <2>1. game \in 1 .. NumGames /\ game' = game
          /\ pc' \notin {"done", "launch", "quit", "reap"}
    BY <1>11 DEF Barrier, MoveOn, Answered, EndGame, Phase
  <2>2. UNCHANGED <<process, alive, launched>>
    BY <1>11 DEF Barrier, MoveOn, TakeAnswer
  <2>3. QED
    BY <2>1, <2>2
<1>12. CASE (NotifyGameover \/ WriteKifu \/ WriteCsa \/ PersistTrials) /\ ~Abort
  <2>1. UNCHANGED <<at, game>> /\ pc' \notin {"done", "launch", "quit", "reap"}
    BY <1>12 DEF NotifyGameover, WriteKifu, WriteCsa, PersistTrials, Written, Unwritten, Goto,
                 gameVars
  <2>2. UNCHANGED <<process, alive, launched>>
    BY <1>12 DEF NotifyGameover, WriteKifu, WriteCsa, PersistTrials, Written, Unwritten,
                 linkVars
  <2>3. QED
    BY <1>8, <2>1, <2>2
<1>13. CASE (PersistSummary \/ PersistManifest) /\ ~Abort
  <2>1. UNCHANGED <<process, alive, launched>>
    BY <1>13 DEF PersistSummary, PersistManifest, Written, Unwritten, linkVars
  <2>2. UNCHANGED <<at, game>> /\ pc' \notin {"done", "launch", "reap"}
    BY <1>13 DEF PersistSummary, PersistManifest, Written, Unwritten, gameVars
  <2>3. pc' = "quit" => at = "e1"
    BY <1>13 DEF PersistSummary, PersistManifest, Written, Unwritten, Status, Phase
  <2>4. QED
    BY <2>1, <2>2, <2>3
<1>14. CASE Publish
  BY <1>14 DEF Publish, linkVars, Phase
<1>15. CASE Quit
  <2>1. /\ pc = "quit" /\ pc' = "reap" /\ at' = (IF at = "e1" THEN "e2" ELSE "e1")
        /\ UNCHANGED <<process, alive, game>> /\ game = NumGames + 1
    BY <1>15 DEF Quit, Phase
  <2>2. QED
    BY <2>1 DEF Engines
<1>16. QED
  BY <1>1, <1>2, <1>3, <1>4, <1>5, <1>6, <1>7, <1>9, <1>10, <1>11, <1>12, <1>13, <1>14, <1>15
     DEF Next, Runner

(* However the run ends - a failed launch, a failed handshake, a protocol  *)
(* error, a file that cannot be written, or the last game - no engine      *)
(* process is left behind, and none is forgotten when it is replaced.      *)
THEOREM NoEngineIsLeftBehind == Spec => []NoOrphans
<1>1. Base /\ Owned /\ [Next]_vars => (Base /\ Owned)'
  BY StepBase, StepOwned
<1>2. Owned => NoOrphans
  BY DEF Owned, NoOrphans
<1>3. QED
  BY InitBase, InitOwned, <1>1, <1>2, PTL DEF Spec
-----------------------------------------------------------------------------
(* Engines at fault.                                                       *)
LEMMA InitFit == Init => Fit
  BY DEF Init, LinkInit, Fit, NoResult, Faults, Engines

LEMMA Opponents ==
  /\ \A e \in Engines : Opponent(e) \in Engines /\ Opponent(e) # e
  /\ \A e, f \in Engines : f = e \/ f = Opponent(e)
  /\ \A e \in Engines : AtFault(WinFor(Opponent(e))) = e
  BY DEF Opponent, Engines, AtFault, WinFor

LEMMA StepFit == Base /\ Fit /\ [Next]_vars => Fit'
<1> SUFFICES ASSUME Base, Fit, [Next]_vars PROVE Fit'
  OBVIOUS
<1>0. /\ at \in Engines /\ game \in 0 .. NumGames + 1 /\ NumGames \in Nat \ {0} /\ Phase
      /\ launched \in Nat /\ process \in [Engines -> 0 .. launched]
      /\ faulted \subseteq 0 .. launched
  BY ScheduleAssumption DEF Base, TypeOK
<1> USE <1>0 DEF Fit
<1>1. CASE UNCHANGED vars
  BY <1>1 DEF vars, linkVars, gameVars, resultVars
<1>2. CASE Environment
  BY <1>2, EngineFrame DEF gameVars, resultVars
<1>3. CASE Tick
  BY <1>3 DEF Tick, gameVars, resultVars
<1>4. CASE Abort
  BY <1>4, AbortFrame
(* A place where both engines are fit, after another one.                  *)
<1>5. ASSUME pc \notin {"launch", "gameover", "retire", "done"},
             pc' \notin {"launch", "gameover", "retire"},
             UNCHANGED <<process, faulted>>
      PROVE  Fit'
  BY <1>5
<1>6. ASSUME pc \in {"go", "move"}, NEW reason \in Reasons,
             EndGame(WinFor(Opponent(at)), reason), UNCHANGED process,
             faulted' = faulted \cup (IF reason \in Faults THEN {process[at]} ELSE {})
      PROVE  Fit'
  <2>1. pc' = "gameover" /\ result'.reason = reason
          /\ result'.outcome = WinFor(Opponent(at))
    BY <1>6 DEF EndGame
  <2>2. process["e1"] # process["e2"] /\ \A e \in Engines : process[e] \notin faulted
    BY <1>6
  <2>3. CASE reason \in Faults
    <3>1. faulted' = faulted \cup {process[at]} /\ AtFault(result'.outcome) = at
      BY <1>6, <2>1, <2>3, Opponents
    <3>2. process[Opponent(at)] \notin faulted'
      BY <2>2, <3>1, Opponents DEF Engines
    <3>3. QED
      BY <1>6, <2>1, <2>2, <2>3, <3>1, <3>2
  <2>4. CASE reason \notin Faults
    BY <1>6, <2>1, <2>2, <2>4
  <2>5. QED
    BY <2>3, <2>4
<1>7. ASSUME pc = "move", UNCHANGED <<process, faulted>>, NEW outcome, NEW reason,
             EndGame(outcome, reason), reason \notin Faults
      PROVE  Fit'
  BY <1>7 DEF EndGame
<1>8. CASE Launch /\ ~Abort
  <2>1. /\ process' = [process EXCEPT ![at] = launched + 1]
        /\ pc = "launch" /\ pc' = "usiok" /\ at' = at /\ game' = game /\ faulted' = faulted
    BY <1>8 DEF Launch, Spawn, Goto, gameVars, resultVars
  <2>2. launched + 1 \notin faulted /\ \A e \in Engines : process[e] # launched + 1
    OBVIOUS
  <2>3. process'["e1"] # process'["e2"]
    BY <2>1, <2>2 DEF Engines
  <2>4. \A e \in Engines : process'[e] \notin faulted
    BY <2>1, <2>2, Opponents
  <2>5. QED
    BY <2>1, <2>3, <2>4
<1>9. CASE (AwaitUsiok \/ EngineLost \/ OpenGame \/ Barrier \/ OtherLine \/ Stray) /\ ~Abort
  BY <1>5, <1>9 DEF AwaitUsiok, EngineLost, OpenGame, Barrier, OtherLine, Stray, Goto,
                    resultVars
<1>10. CASE AwaitReadyok /\ ~Abort
  <2>1. pc = "readyok" /\ process' = process /\ faulted' = faulted
    BY <1>10 DEF AwaitReadyok, Goto, Initialized, resultVars
  <2>2. CASE pc' # "launch"
    BY <1>5, <1>10, <2>1, <2>2 DEF AwaitReadyok, Goto, Initialized
  <2>3. CASE pc' = "launch"
    <3>1. at' = "e2" /\ game' = game
      BY <1>10, <2>3 DEF AwaitReadyok, Goto, Initialized
    <3>2. process["e1"] # process["e2"] /\ process["e1"] \notin faulted
      BY <2>1 DEF Engines
    <3>3. Opponent("e2") = "e1"
      BY DEF Opponent
    <3>4. QED
      BY <2>1, <2>3, <3>1, <3>2, <3>3
  <2>4. QED
    BY <2>2, <2>3
<1>11. CASE (Go \/ NoMove) /\ ~Abort
  <2>1. CASE Goto("move") /\ pc = "go" /\ process' = process
    BY <1>5, <2>1 DEF Goto, resultVars
  <2>2. CASE \E reason \in {"TimeForfeit", "EngineError"} : FailGo(reason)
    <3>1. PICK reason \in {"TimeForfeit", "EngineError"} : FailGo(reason)
      BY <2>2
    <3>2. reason \in Reasons /\ reason \in Faults
      BY DEF Reasons, Faults
    <3>3. EndGame(WinFor(Opponent(at)), reason) /\ process' = process
            /\ faulted' = faulted \cup {process[at]} /\ pc \in {"go", "move"}
      BY <1>11, <3>1 DEF FailGo, linkVars, Go, NoMove
    <3>4. QED
      BY <1>6, <3>2, <3>3
  <2>3. QED
    BY <1>11, <2>1, <2>2 DEF Go, NoMove
<1>12. CASE LastAnswer
  <2>1. pc = "move" /\ process' = process
    BY <1>12 DEF LastAnswer, Answered, TakeAnswer
  <2>2. CASE EndGame(WinFor(at), "Win") /\ UNCHANGED faulted
    BY <1>7, <2>1, <2>2 DEF Faults
  <2>3. ASSUME NEW reason \in {"ClockLoss", "Resign", "IllegalMove"},
               EndGame(WinFor(Opponent(at)), reason),
               faulted' = faulted \cup (IF reason = "IllegalMove" THEN {process[at]} ELSE {})
        PROVE  Fit'
    <3>1. reason \in Reasons /\ (reason \in Faults <=> reason = "IllegalMove")
      BY DEF Reasons, Faults
    <3>2. QED
      BY <1>6, <2>1, <2>3, <3>1
  <2>4. QED
    BY <1>12, <2>2, <2>3 DEF LastAnswer
<1>13. CASE MoveOn
  <2>1. pc = "move" /\ process' = process /\ faulted' = faulted
    BY <1>13 DEF MoveOn, Answered, TakeAnswer, resultVars
  <2>2. CASE pc' = "go"
    BY <1>5, <2>1, <2>2
  <2>3. CASE \E outcome : \E reason \in {"MaxMoves", "Repetition", "PerpetualCheck"} :
               EndGame(outcome, reason)
    BY <1>7, <2>1, <2>3 DEF Faults
  <2>4. QED
    BY <1>13, <2>2, <2>3 DEF MoveOn
<1>14. CASE NotifyGameover
  BY <1>14, Opponents DEF NotifyGameover, linkVars
<1>15. CASE Retire
  <2>1. /\ pc = "retire" /\ pc' = "launch" /\ at' = AtFault(result.outcome)
        /\ UNCHANGED <<process, game, result, faulted>> /\ game \in 1 .. NumGames
    BY <1>15 DEF Retire, resultVars, Phase
  <2>2. QED
    BY <2>1
<1>16. CASE (WriteKifu \/ WriteCsa \/ PersistTrials \/ PersistSummary \/ PersistManifest
               \/ Publish \/ Quit \/ Reap) /\ ~Abort
  <2>1. process' = process /\ faulted' = faulted
    BY <1>16 DEF WriteKifu, WriteCsa, PersistTrials, PersistSummary, PersistManifest, Publish,
                 Quit, Reap, Written, Unwritten, Goto, linkVars, resultVars
  <2>2. pc \notin {"launch", "gameover", "retire", "done"}
          /\ pc' \notin {"launch", "gameover", "retire"}
    BY <1>16 DEF WriteKifu, WriteCsa, PersistTrials, PersistSummary, PersistManifest, Publish,
                 Quit, Reap, Written, Unwritten, Goto
  <2>3. QED
    BY <1>5, <2>1, <2>2
<1>17. QED
  BY <1>1, <1>2, <1>3, <1>4, <1>8, <1>9, <1>10, <1>11, <1>12, <1>13, <1>14, <1>15, <1>16
     DEF Next, Runner
-----------------------------------------------------------------------------
(* The links.  First what an engine can do to the states of its link.      *)
Replies == {"usiok", "readyok"}
Requests == {"usi", "options", "isready"}

LEMMA LinkTypes ==
  ASSUME TypeOK, NEW e \in Engines
  PROVE  /\ commands[e] \in Seq(Commands) /\ channel[e] \in Seq(Lines)
         /\ search[e] \in [game : Nat, answers : Nat]
         /\ commands \in [Engines -> Seq(Commands)] /\ channel \in [Engines -> Seq(Lines)]
         /\ search \in [Engines -> [game : Nat, answers : Nat]]
  BY DEF TypeOK

(* Another engine's link is not touched.                                   *)
LEMMA OtherLink ==
  ASSUME TypeOK, NEW e \in Engines, NEW f \in Engines, e # f, Engine(f)
  PROVE  /\ commands'[e] = commands[e] /\ channel'[e] = channel[e] /\ search'[e] = search[e]
         /\ process'[e] = process[e] /\ (~Running(e) => ~Running(e)')
<1> USE LinkTypes
<1>1. CASE Hear(f)
  <2>1. channel' = channel \/ \E line : channel' = [channel EXCEPT ![f] = Append(@, line)]
    BY <1>1 DEF Hear, Prints
  <2>2. search' = search \/ \E s : search' = [search EXCEPT ![f] = s]
    BY <1>1 DEF Hear
  <2>3. QED
    BY <1>1, <2>1, <2>2 DEF Hear, Running
<1>2. CASE Answer(f)
  BY <1>2 DEF Answer, Prints, Running
<1>3. CASE Chatter(f)
  BY <1>3 DEF Chatter, Prints, Running
<1>4. CASE Exit(f)
  BY <1>4 DEF Exit, Kill, Running
<1>5. QED
  BY <1>1, <1>2, <1>3, <1>4 DEF Engine

(* What an engine's own step does to its link.                             *)
Reads(e) ==
  /\ commands[e] # <<>> /\ commands'[e] = Tail(commands[e])
  /\ \/ /\ Head(commands[e]).name = "usi"
        /\ \E line : line.is = "usiok" /\ channel'[e] = Append(channel[e], line)
        /\ search'[e] = search[e]
     \/ /\ Head(commands[e]).name = "options"
        /\ \E line : line.is = "readyok" /\ channel'[e] = Append(channel[e], line)
        /\ search'[e] = search[e]
     \/ /\ Head(commands[e]).name = "isready"
        /\ \E line : line.is = "readyok" /\ channel'[e] = Append(channel[e], line)
        /\ search'[e].answers = 0
     \/ /\ Head(commands[e]).name = "go"
        /\ channel'[e] = channel[e] /\ search'[e].game = Head(commands[e]).game

Says(e) ==
  /\ commands'[e] = commands[e]
  /\ search[e].answers > 0 \/ commands[e] # <<>>
  /\ search'[e].game = search[e].game
  /\ search'[e].answers \in Nat /\ (search'[e].answers > 0 => search[e].answers > 0)
  /\ \E line : /\ channel'[e] = Append(channel[e], line)
               /\ line.is \in {"bestmove", "info"}
               /\ line.is = "bestmove" => search[e].answers > 0 /\ line.game = search[e].game

Dies(e) ==
  /\ commands'[e] = <<>> /\ channel'[e] = channel[e] /\ search'[e].answers = 0
  /\ ~Running(e)'

LEMMA OwnLink ==
  ASSUME TypeOK, NEW e \in Engines, Engine(e)
  PROVE  /\ Running(e) /\ process'[e] = process[e]
         /\ Reads(e) \/ Says(e) \/ Dies(e)
<1> USE LinkTypes
<1>1. CASE Hear(e)
  <2>1. \A b \in BOOLEAN : UsiOk(b).is = "usiok" /\ ReadyOk(b).is = "readyok"
    BY DEF UsiOk, ReadyOk
  <2>2. \A line : Prints(e, line) => channel'[e] = Append(channel[e], line)
    BY DEF Prints
  <2>3. commands[e] # <<>> /\ commands'[e] = Tail(commands[e]) /\ Running(e)
          /\ process'[e] = process[e]
    BY <1>1 DEF Hear
  <2>4. CASE Head(commands[e]).name = "usi"
    BY <1>1, <2>1, <2>2, <2>3, <2>4 DEF Hear, Reads
  <2>5. CASE Head(commands[e]).name = "options"
    BY <1>1, <2>1, <2>2, <2>3, <2>5 DEF Hear, Reads
  <2>6. CASE Head(commands[e]).name = "isready"
    <3>1. search'[e] = Idle
      BY <1>1, <2>6 DEF Hear
    <3>2. search'[e].answers = 0
      BY <3>1 DEF Idle
    <3>3. channel'[e] = Append(channel[e], ReadyOk(TRUE))
      BY <1>1, <2>2, <2>6 DEF Hear
    <3>4. QED
      BY <2>1, <2>3, <2>6, <3>2, <3>3 DEF Reads
  <2>7. CASE Head(commands[e]).name = "go"
    <3>1. search' = [search EXCEPT ![e] = [game |-> Head(commands[e]).game,
                                           answers |-> MaxAnswers]]
      BY <1>1, <2>7 DEF Hear
    <3>2. search'[e].game = Head(commands[e]).game
      BY <3>1
    <3>3. channel' = channel
      BY <1>1, <2>7 DEF Hear
    <3>4. QED
      BY <2>3, <2>7, <3>2, <3>3 DEF Reads
  <2>8. QED
    BY <1>1, <2>3, <2>4, <2>5, <2>6, <2>7 DEF Hear
<1>2. CASE Answer(e)
  <2>1. channel'[e] = Append(channel[e], BestMove(search[e].game))
    BY <1>2 DEF Answer, Prints
  <2>2. BestMove(search[e].game).is = "bestmove"
          /\ BestMove(search[e].game).game = search[e].game
    BY DEF BestMove
  <2>3. search'[e].game = search[e].game /\ search[e].answers > 0
    BY <1>2 DEF Answer
  <2>4. QED
    BY <1>2, <2>1, <2>2, <2>3 DEF Answer, Says
<1>3. CASE Chatter(e)
  <2>1. channel'[e] = Append(channel[e], Info)
    BY <1>3 DEF Chatter, Prints
  <2>2. Info.is = "info"
    BY DEF Info
  <2>3. QED
    BY <1>3, <2>1, <2>2 DEF Chatter, Says
<1>4. CASE Exit(e)
  <2>1. search'[e] = Idle
    BY <1>4 DEF Exit
  <2>2. process' = process /\ alive' = alive \ {process[e]}
    BY <1>4 DEF Exit, Kill
  <2>3. QED
    BY <1>4, <2>1, <2>2 DEF Exit, Dies, Idle, Running
<1>5. QED
  BY <1>1, <1>2, <1>3, <1>4 DEF Engine

LEMMA TailFacts ==
  ASSUME NEW S, NEW s \in Seq(S), Len(s) >= 1
  PROVE  /\ s # <<>> /\ Head(s) = s[1] /\ 1 \in DOMAIN s
         /\ Tail(s) \in Seq(S) /\ Len(Tail(s)) = Len(s) - 1
         /\ \A i \in 1 .. Len(s) - 1 : Tail(s)[i] = s[i + 1]
         /\ Len(s) = 1 => Tail(s) = <<>>
         /\ Len(s) = 1 \/ Len(s) > 1
<1>1. Len(s) \in Nat /\ DOMAIN s = 1 .. Len(s)
  OBVIOUS
<1>2. s # <<>> /\ Head(s) = s[1] /\ 1 \in DOMAIN s
  BY <1>1
<1>3. Tail(s) \in Seq(S) /\ Len(Tail(s)) = Len(s) - 1
  BY <1>2
<1>4. \A i \in 1 .. Len(s) - 1 : Tail(s)[i] = s[i + 1]
  BY <1>2
<1>5. Len(s) = 1 => Tail(s) = <<>>
  <2>1. \A q \in Seq(S) : Len(q) = 0 => q = <<>>
    OBVIOUS
  <2>2. Len(s) = 1 => Len(Tail(s)) = 0
    BY <1>1, <1>3
  <2>3. Tail(s) \in Seq(S)
    BY <1>3
  <2>4. SUFFICES ASSUME Len(s) = 1 PROVE Tail(s) = <<>>
    OBVIOUS
  <2>5. QED
    BY ONLY <2>1, <2>2, <2>3, <2>4
<1>6. Len(s) = 1 \/ Len(s) > 1
  BY <1>1
<1>7. QED
  BY <1>2, <1>3, <1>4, <1>5, <1>6

LEMMA AppendFacts ==
  ASSUME NEW S, NEW s \in Seq(S), NEW x
  PROVE  /\ Append(s, x) # <<>> /\ DOMAIN Append(s, x) = 1 .. Len(s) + 1
         /\ Len(Append(s, x)) = Len(s) + 1 /\ Append(s, x)[Len(s) + 1] = x
         /\ \A i \in 1 .. Len(s) : Append(s, x)[i] = s[i]
         /\ DOMAIN s = 1 .. Len(s) /\ Len(s) \in Nat
  OBVIOUS

(* The engine that is asked: its link goes from unread to replied, or it   *)
(* dies.                                                                   *)
LEMMA AskedEngine ==
  ASSUME NEW e, commands[e] \in Seq(Commands), channel[e] \in Seq(Lines),
         search[e].answers \in Nat,
         NEW request \in Requests, NEW reply,
         reply = (IF request = "usi" THEN "usiok" ELSE "readyok"),
         Unread(e, request), Reads(e) \/ Says(e) \/ Dies(e)
  PROVE  Awaiting(e, request, reply)'
<1> DEFINE s == commands[e]
           c == channel[e]
<1>1. Len(s) >= 1 /\ \A i \in DOMAIN c : c[i].is \notin {"usiok", "readyok"}
  BY DEF Unread
<1>2. /\ s # <<>> /\ Head(s) = s[1]
      /\ Len(Tail(s)) = Len(s) - 1
      /\ \A i \in 1 .. Len(s) - 1 : Tail(s)[i] = s[i + 1]
      /\ Len(s) = 1 => Tail(s) = <<>>
      /\ Len(s) = 1 \/ Len(s) > 1
  BY <1>1, TailFacts
<1>3. \A x : /\ Append(c, x) # <<>> /\ DOMAIN Append(c, x) = 1 .. Len(c) + 1
             /\ Len(Append(c, x)) = Len(c) + 1 /\ Append(c, x)[Len(c) + 1] = x
             /\ \A i \in 1 .. Len(c) : Append(c, x)[i] = c[i]
  BY AppendFacts
<1>4. DOMAIN c = 1 .. Len(c) /\ Len(c) \in Nat /\ Len(s) \in Nat
  OBVIOUS
<1>5. CASE Reads(e) /\ Len(s) = 1
  <2>1. Head(s).name = request /\ commands'[e] = <<>>
    BY <1>2, <1>5 DEF Unread, Reads
  <2>2. PICK line : line.is = reply /\ channel'[e] = Append(c, line)
    BY <1>5, <2>1 DEF Reads, Requests
  <2>3. search'[e].answers = 0
    BY <1>5, <2>1 DEF Reads, Requests, Unread
  <2>4. /\ channel'[e] # <<>> /\ channel'[e][Len(channel'[e])].is = reply
        /\ \A i \in 1 .. Len(channel'[e]) - 1 : channel'[e][i].is \notin {"usiok", "readyok"}
    BY <1>1, <1>3, <1>4, <2>2
  <2>5. QED
    BY <2>1, <2>3, <2>4 DEF Replied, Awaiting
<1>6. CASE Reads(e) /\ Len(s) > 1
  <2>1. s[1].name = "go" /\ request = "isready"
    BY <1>4, <1>6 DEF Unread
  <2>2. commands'[e] = Tail(s) /\ channel'[e] = c
    BY <1>2, <1>6, <2>1 DEF Reads
  <2>3. Tail(s)[Len(s) - 1] = s[Len(s)]
    BY <1>2, <1>4, <1>6
  <2>4. Tail(s)[Len(s) - 1].name = request
    BY <2>3 DEF Unread
  <2>5. \A i \in 1 .. Len(s) - 2 : Tail(s)[i].name = "go"
    <3>1. TAKE i \in 1 .. Len(s) - 2
    <3>2. Tail(s)[i] = s[i + 1] /\ i + 1 \in 1 .. Len(s) - 1
      BY <1>2, <1>4
    <3>3. QED
      BY <3>2 DEF Unread
  <2>6. Unread(e, request)'
    <3>1. Len(Tail(s)) >= 1 /\ Len(Tail(s)) - 1 = Len(s) - 2
      BY <1>2, <1>4, <1>6
    <3>2. QED
      BY <1>1, <1>2, <2>1, <2>2, <2>4, <2>5, <3>1 DEF Unread
  <2>7. QED
    BY <2>6 DEF Awaiting
<1>7. CASE Says(e)
  <2>1. PICK line : line.is \in {"bestmove", "info"} /\ channel'[e] = Append(c, line)
    BY <1>7 DEF Says
  <2>2. \A i \in DOMAIN channel'[e] : channel'[e][i].is \notin {"usiok", "readyok"}
    BY <1>1, <1>3, <1>4, <2>1
  <2>3. request # "isready" => search'[e].answers = 0
    BY <1>7 DEF Says, Unread
  <2>4. QED
    BY <1>7, <2>2, <2>3 DEF Says, Unread, Awaiting
<1>8. CASE Dies(e)
  BY <1>1, <1>8 DEF Dies, Awaiting, Gone
<1>9. QED
  BY <1>2, <1>5, <1>6, <1>7, <1>8

LEMMA EngineTalk ==
  ASSUME TypeOK, NEW f \in Engines, Engine(f), game' = game, NEW e \in Engines
  PROVE  /\ Loose(e) => Loose(e)'
         /\ Current(e) => Current(e)'
         /\ Silent(e) => Silent(e)'
         /\ \A request \in Requests, reply \in Replies :
              /\ reply = (IF request = "usi" THEN "usiok" ELSE "readyok")
              /\ Awaiting(e, request, reply)
              => Awaiting(e, request, reply)'
<1> USE LinkTypes
<1>0. /\ commands[e] \in Seq(Commands) /\ channel[e] \in Seq(Lines)
      /\ Len(commands[e]) \in Nat /\ Len(channel[e]) \in Nat
  OBVIOUS
<1>1. CASE e # f
  <2>1. /\ commands'[e] = commands[e] /\ channel'[e] = channel[e] /\ search'[e] = search[e]
        /\ process'[e] = process[e] /\ (~Running(e) => ~Running(e)')
    BY <1>1, OtherLink
  <2>2. QED
    BY <2>1 DEF Loose, Current, Silent, Awaiting, Unread, Replied, Gone
<1>2. CASE e = f
  <2>1. /\ Running(e) /\ process'[e] = process[e]
        /\ Reads(e) \/ Says(e) \/ Dies(e)
    BY <1>2, OwnLink
  <2>2. ASSUME Loose(e) PROVE Loose(e)'
    <3>1. CASE Reads(e)
      <4>1. Head(commands[e]).name = "go"
        BY <2>2, <3>1 DEF Reads, Loose
      <4>2. QED
        BY <2>2, <3>1, <4>1 DEF Reads, Loose
    <3>2. CASE Says(e)
      BY <2>2, <3>2 DEF Says, Loose
    <3>3. CASE Dies(e)
      BY <2>2, <3>3 DEF Dies, Loose
    <3>4. QED
      BY <2>1, <3>1, <3>2, <3>3
  <2>3. ASSUME Current(e) PROVE Current(e)'
    <3>0. Loose(e) /\ Loose(e)'
      BY <2>2, <2>3 DEF Current
    <3>1. CASE Reads(e)
      <4>1. Head(commands[e]).name = "go" /\ Head(commands[e]).game = game
        BY <2>3, <3>0, <3>1 DEF Reads, Loose, Current
      <4>2. QED
        BY <2>3, <3>0, <3>1, <4>1 DEF Reads, Current
    <3>2. CASE Says(e)
      BY <2>3, <3>0, <3>2 DEF Says, Current
    <3>3. CASE Dies(e)
      BY <2>3, <3>0, <3>3 DEF Dies, Current
    <3>4. QED
      BY <2>1, <3>1, <3>2, <3>3
  <2>4. ASSUME Silent(e) PROVE Silent(e)'
    BY <2>1, <2>4 DEF Silent, Reads, Says, Dies
  <2>5. ASSUME NEW request \in Requests, NEW reply \in Replies,
               reply = (IF request = "usi" THEN "usiok" ELSE "readyok"),
               Awaiting(e, request, reply)
        PROVE  Awaiting(e, request, reply)'
    <3>0. \A line : line.is \in {"bestmove", "info"} => line.is \notin {"usiok", "readyok"}
      OBVIOUS
    <3>1. CASE Gone(e)
      BY <2>1, <3>1 DEF Gone
    <3>2. CASE Replied(e, reply)
      <4>1. Dies(e)
        BY <2>1, <3>2 DEF Replied, Reads, Says
      <4>2. Replied(e, reply)'
        BY <3>2, <4>1 DEF Replied, Dies
      <4>3. QED
        BY <4>2 DEF Awaiting
    <3>3. CASE Unread(e, request)
      BY <2>1, <2>5, <3>3, AskedEngine
    <3>4. QED
      BY <2>5, <3>1, <3>2, <3>3 DEF Awaiting
  <2>6. QED
    BY <2>2, <2>3, <2>4, <2>5
<1>3. QED
  BY <1>1, <1>2

(* What the runner does to a link.                                         *)
LEMMA SameLinks ==
  ASSUME UNCHANGED <<process, commands, channel, search>>, alive' \subseteq alive,
         NEW e \in Engines
  PROVE  /\ Loose(e) => Loose(e)'
         /\ Current(e) /\ game' = game => Current(e)'
         /\ Silent(e) => Silent(e)'
         /\ \A request, reply : Awaiting(e, request, reply) => Awaiting(e, request, reply)'
  BY DEF Loose, Current, Silent, Awaiting, Unread, Replied, Gone, Running

(* The runner deals with one engine at a time.                             *)
LEMMA UnaskedLink ==
  ASSUME NEW e \in Engines, commands'[e] = commands[e], channel'[e] = channel[e],
         search'[e] = search[e]
  PROVE  /\ Loose(e) => Loose(e)'
         /\ Current(e) /\ game' = game => Current(e)'
         /\ Silent(e) => Silent(e)'
  BY DEF Loose, Current, Silent

LEMMA SilentLink ==
  ASSUME NEW e
  PROVE  Silent(e) => Loose(e) /\ (search[e].answers = 0 => Current(e))
  BY DEF Silent, Loose, Current

(* A line other than the awaited reply is dropped; with the reply nothing  *)
(* is left on the link.                                                    *)
LEMMA LineReceived ==
  ASSUME NEW e, channel[e] \in Seq(Lines), LineWaits(e), channel'[e] = Tail(channel[e]),
         search'[e] = search[e], UNCHANGED <<process, alive>>
  PROVE  /\ commands'[e] = commands[e] /\ game' = game /\ Current(e) => Current(e)'
         /\ Current(e) /\ Line(e).is = "bestmove" => Line(e).game = game
         /\ \A request, reply :
              /\ Awaiting(e, request, reply) /\ Line(e).is # reply
              /\ commands'[e] = commands[e]
              => Awaiting(e, request, reply)'
         /\ \A request : \A reply \in Replies :
              Awaiting(e, request, reply) /\ Line(e).is = reply
              => /\ commands[e] = <<>> /\ channel'[e] = <<>> /\ search'[e].answers = 0
<1> DEFINE c == channel[e]
<1>1. Len(c) >= 1
  BY DEF LineWaits
<1>2. /\ Line(e) = c[1] /\ Len(Tail(c)) = Len(c) - 1
      /\ \A i \in 1 .. Len(c) - 1 : Tail(c)[i] = c[i + 1]
      /\ Len(c) = 1 => Tail(c) = <<>>
      /\ Len(c) = 1 \/ Len(c) > 1
      /\ Tail(c) \in Seq(Lines)
  BY <1>1, TailFacts DEF Line
<1>3. Len(c) \in Nat /\ DOMAIN c = 1 .. Len(c) /\ DOMAIN Tail(c) = 1 .. Len(c) - 1
  BY <1>2
<1>4. \A i \in DOMAIN Tail(c) : i + 1 \in DOMAIN c /\ Tail(c)[i] = c[i + 1]
  BY <1>2, <1>3
<1>5. 1 \in DOMAIN c
  BY <1>1, <1>3
<1>6. ASSUME Current(e), commands'[e] = commands[e], game' = game PROVE Current(e)'
  BY <1>4, <1>6 DEF Current, Loose
<1>7. ASSUME Current(e), Line(e).is = "bestmove" PROVE Line(e).game = game
  BY <1>2, <1>5, <1>7 DEF Current
<1>8. ASSUME NEW request, NEW reply, Awaiting(e, request, reply), Line(e).is # reply,
             commands'[e] = commands[e]
      PROVE  Awaiting(e, request, reply)'
  <2>1. CASE Unread(e, request)
    BY <1>4, <1>8, <2>1 DEF Unread, Awaiting
  <2>2. CASE Gone(e)
    BY <1>4, <2>2 DEF Gone, Running, Awaiting
  <2>3. CASE Replied(e, reply)
    <3>1. Len(c) > 1
      BY <1>2, <1>8, <2>3 DEF Replied
    <3>2. Tail(c) # <<>> /\ Tail(c)[Len(c) - 1] = c[Len(c)]
      <4>1. 1 \in DOMAIN Tail(c) /\ DOMAIN <<>> = {}
        BY <1>3, <3>1
      <4>2. Len(c) - 1 \in 1 .. Len(c) - 1 /\ (Len(c) - 1) + 1 = Len(c)
        BY <1>3, <3>1
      <4>3. Tail(c)[Len(c) - 1] = c[Len(c)]
        BY <1>2, <4>2
      <4>4. QED
        BY ONLY <4>1, <4>3
    <3>3. \A i \in 1 .. Len(c) - 2 : i + 1 \in 1 .. Len(c) - 1 /\ Tail(c)[i] = c[i + 1]
      BY <1>2, <1>3
    <3>4. Len(Tail(c)) - 1 = Len(c) - 2 /\ Len(Tail(c)) = Len(c) - 1
      BY <1>2, <1>3
    <3>5. Replied(e, reply)'
      BY <1>8, <2>3, <3>2, <3>3, <3>4 DEF Replied
    <3>6. QED
      BY <3>5 DEF Awaiting
  <2>4. QED
    BY <1>8, <2>1, <2>2, <2>3 DEF Awaiting
<1>9. ASSUME NEW request, NEW reply \in Replies, Awaiting(e, request, reply),
             Line(e).is = reply
      PROVE  commands[e] = <<>> /\ channel'[e] = <<>> /\ search'[e].answers = 0
  <2>1. ~Unread(e, request) /\ ~Gone(e)
    BY <1>2, <1>5, <1>9 DEF Unread, Gone, Replies
  <2>2. Replied(e, reply)
    BY <1>9, <2>1 DEF Awaiting
  <2>3. Len(c) = 1
    BY <1>2, <1>3, <1>9, <2>2 DEF Replied, Replies
  <2>4. QED
    BY <1>2, <2>2, <2>3 DEF Replied
<1>10. QED
  BY <1>6, <1>7, <1>8, <1>9

LEMMA CommandWritten ==
  ASSUME NEW e, commands[e] \in Seq(Commands), NEW command, Running(e),
         commands'[e] = Append(commands[e], command)
  PROVE  /\ /\ Loose(e) /\ channel'[e] = channel[e] /\ command.name = "isready"
            => Unread(e, "isready")'
         /\ /\ commands[e] = <<>> /\ channel'[e] = <<>> /\ search'[e].answers = 0
            => Unread(e, command.name)'
         /\ /\ Current(e) /\ channel'[e] = channel[e] /\ search'[e] = search[e]
            /\ command = Command("go", game) /\ game' = game
            => Current(e)'
<1> DEFINE s == commands[e]
<1>1. /\ DOMAIN Append(s, command) = 1 .. Len(s) + 1
      /\ Len(Append(s, command)) = Len(s) + 1 /\ Append(s, command)[Len(s) + 1] = command
      /\ \A i \in 1 .. Len(s) : Append(s, command)[i] = s[i]
      /\ DOMAIN s = 1 .. Len(s) /\ Len(s) \in Nat
  BY AppendFacts
<1>2. ASSUME Loose(e), channel'[e] = channel[e], command.name = "isready"
      PROVE  Unread(e, "isready")'
  BY <1>1, <1>2 DEF Loose, Unread
<1>3. ASSUME s = <<>>, channel'[e] = <<>>, search'[e].answers = 0
      PROVE  Unread(e, command.name)'
  <2>1. Len(s) = 0
    BY <1>3
  <2>2. QED
    BY <1>1, <1>3, <2>1 DEF Unread
<1>4. ASSUME Current(e), channel'[e] = channel[e], search'[e] = search[e],
             command = Command("go", game), game' = game
      PROVE  Current(e)'
  <2>1. command.name = "go" /\ command.game = game
    BY <1>4 DEF Command
  <2>2. \A i \in DOMAIN Append(s, command) :
          Append(s, command)[i].name = "go" /\ Append(s, command)[i].game = game
    BY <1>1, <1>4, <2>1 DEF Current, Loose
  <2>3. QED
    BY <1>4, <2>2 DEF Current, Loose
<1>5. QED
  BY <1>2, <1>3, <1>4

LEMMA InitTalk == Init => Talk
  BY DEF Init, LinkInit, Talk, Loose, Preparing, Opponent, Engines

(* What every place after a step asks of the links.                        *)
LEMMA StepTalk == Base /\ Talk /\ [Next]_vars => Talk'
<1> SUFFICES ASSUME Base, Talk, [Next]_vars PROVE Talk'
  OBVIOUS
<1>a. at \in Engines /\ TypeOK /\ Phase
  BY DEF Base, TypeOK
<1>b. PICK a \in Engines : a = at
  BY <1>a
<1>c. PICK o \in Engines : o = Opponent(at)
  BY <1>a DEF Engines, Opponent
<1>0. /\ TypeOK /\ Phase /\ a = at /\ o = Opponent(at) /\ o # a
      /\ \A e \in Engines : e = a \/ e = o
      /\ commands[a] \in Seq(Commands) /\ channel[a] \in Seq(Lines)
      /\ commands \in [Engines -> Seq(Commands)] /\ channel \in [Engines -> Seq(Lines)]
      /\ search \in [Engines -> [game : Nat, answers : Nat]]
  <2>1. o # a /\ \A e \in Engines : e = a \/ e = o
    BY <1>a, <1>b, <1>c DEF Engines, Opponent
  <2>2. QED
    BY <1>a, <1>b, <1>c, <2>1, LinkTypes
<1> USE <1>0 DEF Preparing
<1>1. CASE UNCHANGED vars
  <2>1. UNCHANGED <<process, commands, channel, search, alive, game, pc, at>>
    BY <1>1 DEF vars, linkVars, gameVars
  <2>2. QED
    BY <2>1, SameLinks DEF Talk, Engines
<1>2. CASE Environment
  <2>1. PICK f \in Engines : Engine(f)
    BY <1>2 DEF Environment
  <2>2. UNCHANGED <<pc, at, game>>
    BY <1>2, EngineFrame DEF gameVars
  <2>3. \A e \in Engines :
          /\ Loose(e) => Loose(e)'
          /\ Current(e) => Current(e)'
          /\ Silent(e) => Silent(e)'
          /\ Awaiting(e, "usi", "usiok") => Awaiting(e, "usi", "usiok")'
          /\ Awaiting(e, "options", "readyok") => Awaiting(e, "options", "readyok")'
          /\ Awaiting(e, "isready", "readyok") => Awaiting(e, "isready", "readyok")'
    BY <2>1, <2>2, EngineTalk DEF Requests, Replies
  <2>4. QED
    BY <2>2, <2>3 DEF Talk, Engines
<1>3. CASE Tick
  <2>1. UNCHANGED <<process, commands, channel, search, alive, game, pc, at>>
    BY <1>3 DEF Tick, gameVars
  <2>2. QED
    BY <2>1, SameLinks DEF Talk, Engines
<1>4. CASE Abort
  BY <1>4, AbortFrame DEF Talk
(* A place that trusts nothing, after a step that reads and writes nothing. *)
<1>5. ASSUME UNCHANGED <<process, commands, channel, search>>, alive' \subseteq alive,
             pc \notin Preparing \cup {"barrier", "done"},
             \/ pc' \notin Preparing \cup {"open", "barrier", "go", "move"}
             \/ pc' = "launch"
             \/ pc' = "open" /\ at' = "e1"
      PROVE  Talk'
  <2>1. \A e \in Engines : Loose(e)'
    BY <1>5, SameLinks DEF Talk
  <2>2. at' = "e1" => Opponent(at') \in Engines
    BY DEF Opponent, Engines
  <2>3. Opponent(at') \in Engines
    BY DEF Opponent, Engines
  <2>4. QED
    BY <1>5, <2>1, <2>3 DEF Talk
<1>6. CASE Launch /\ ~Abort
  <2>1. /\ pc = "launch" /\ pc' = "usiok" /\ at' = at /\ game' = game
        /\ commands' = [commands EXCEPT ![a] = <<Command("usi", 0)>>]
        /\ channel' = [channel EXCEPT ![a] = <<>>]
        /\ search' = [search EXCEPT ![a] = Idle]
    BY <1>6 DEF Launch, Spawn, Goto, gameVars
  <2>2. commands'[a] = <<Command("usi", 0)>> /\ channel'[a] = <<>> /\ search'[a] = Idle
    BY <2>1, LinkTypes
  <2>3. Unread(a, "usi")'
    <3>1. Command("usi", 0).name = "usi" /\ Idle.answers = 0
      BY DEF Command, Idle
    <3>2. QED
      BY <2>1, <2>2, <3>1 DEF Unread
  <2>4. Loose(o)'
    <3>1. /\ commands'[o] = commands[o]
          /\ channel'[o] = channel[o]
      BY <2>1, LinkTypes
    <3>2. QED
      BY <2>1, <3>1 DEF Talk, Loose
  <2>5. QED
    BY <2>1, <2>3, <2>4 DEF Talk, Awaiting
(* One engine was read from or written to; the other was not.              *)
<1>7. ASSUME UNCHANGED search,
             commands' = commands \/ \E command : Write(a, command),
             channel' = channel \/ Receive(a)
      PROVE  /\ Loose(o) => Loose(o)'
             /\ Current(o) /\ game' = game => Current(o)'
             /\ Silent(o) => Silent(o)'
  <2>1. commands'[o] = commands[o]
    BY <1>7, LinkTypes DEF Write
  <2>2. channel'[o] = channel[o]
    BY <1>7, LinkTypes DEF Receive
  <2>3. search' = search
    BY <1>7
  <2>4. QED
    BY <2>1, <2>2, <2>3, UnaskedLink
<1>8. ASSUME NEW command, Write(a, command)
      PROVE  commands'[a] = Append(commands[a], command)
  BY <1>8, LinkTypes DEF Write
<1>9. ASSUME LineWaits(a), Receive(a), UNCHANGED <<process, alive, search>>
      PROVE  /\ commands' = commands /\ game' = game /\ Current(a) => Current(a)'
             /\ commands' = commands /\ Awaiting(a, "usi", "usiok") /\ Line(a).is # "usiok"
                => Awaiting(a, "usi", "usiok")'
             /\ commands' = commands /\ Awaiting(a, "options", "readyok")
                  /\ Line(a).is # "readyok"
                => Awaiting(a, "options", "readyok")'
             /\ commands' = commands /\ Awaiting(a, "isready", "readyok")
                  /\ Line(a).is # "readyok"
                => Awaiting(a, "isready", "readyok")'
             /\ \/ Awaiting(a, "usi", "usiok") /\ Line(a).is = "usiok"
                \/ Awaiting(a, "options", "readyok") /\ Line(a).is = "readyok"
                \/ Awaiting(a, "isready", "readyok") /\ Line(a).is = "readyok"
                => commands[a] = <<>> /\ channel'[a] = <<>> /\ search'[a].answers = 0
  <2>1. channel'[a] = Tail(channel[a]) /\ search'[a] = search[a]
          /\ (commands' = commands => commands'[a] = commands[a])
    BY <1>9 DEF Receive
  <2>2. process' = process /\ alive' = alive
    BY <1>9
  <2>3. "usiok" \in Replies /\ "readyok" \in Replies
    BY DEF Replies
  <2>4. /\ commands'[a] = commands[a] /\ game' = game /\ Current(a) => Current(a)'
        /\ \A request, reply :
             /\ Awaiting(a, request, reply) /\ Line(a).is # reply
             /\ commands'[a] = commands[a]
             => Awaiting(a, request, reply)'
        /\ \A request : \A reply \in Replies :
             Awaiting(a, request, reply) /\ Line(a).is = reply
             => /\ commands[a] = <<>> /\ channel'[a] = <<>> /\ search'[a].answers = 0
    BY <1>9, <2>1, <2>2, LineReceived
  <2>5. QED
    BY <2>1, <2>3, <2>4
<1>10. CASE AwaitUsiok /\ ~Abort
  <2>1. /\ pc = "usiok" /\ LineWaits(a) /\ Receive(a) /\ at' = at
        /\ UNCHANGED <<process, alive, search, game>>
        /\ Awaiting(a, "usi", "usiok") /\ Loose(o)
    BY <1>10 DEF AwaitUsiok, Goto, gameVars, Talk
  <2>2. Loose(o)'
    BY <1>7, <1>10, <2>1 DEF AwaitUsiok
  <2>3. CASE Line(a).is # "usiok"
    <3>1. commands' = commands /\ pc' = "usiok"
      BY <1>10, <2>3 DEF AwaitUsiok, Goto
    <3>2. Awaiting(a, "usi", "usiok")'
      BY <1>9, <2>1, <2>3, <3>1
    <3>3. QED
      BY <2>1, <2>2, <3>1, <3>2 DEF Talk
  <2>4. CASE Line(a).is = "usiok"
    <3>1. Write(a, Command("options", 0)) /\ Running(a) /\ pc' = "readyok"
      BY <1>10, <2>4 DEF AwaitUsiok, Goto
    <3>2. commands[a] = <<>> /\ channel'[a] = <<>> /\ search'[a].answers = 0
      BY <1>9, <2>1, <2>4
    <3>3. Command("options", 0).name = "options"
      BY DEF Command
    <3>4. Unread(a, "options")'
      BY <1>8, <3>1, <3>2, <3>3, CommandWritten
    <3>5. QED
      BY <2>1, <2>2, <3>1, <3>4 DEF Talk, Awaiting
  <2>5. QED
    BY <2>3, <2>4
<1>11. CASE AwaitReadyok /\ ~Abort
  <2>1. /\ pc = "readyok" /\ LineWaits(a) /\ Receive(a)
        /\ UNCHANGED <<process, alive, commands, search>>
        /\ Awaiting(a, "options", "readyok") /\ Loose(o)
    BY <1>11 DEF AwaitReadyok, Talk
  <2>2. Loose(o)'
    BY <1>7, <2>1
  <2>3. CASE Line(a).is # "readyok"
    <3>1. pc' = "readyok" /\ at' = at /\ game' = game
      BY <1>11, <2>3 DEF AwaitReadyok, Goto, gameVars
    <3>2. Awaiting(a, "options", "readyok")'
      BY <1>9, <2>1, <2>3, <3>1
    <3>3. QED
      BY <2>1, <2>2, <3>1, <3>2 DEF Talk
  <2>4. CASE Line(a).is = "readyok"
    <3>1. Initialized
      BY <1>11, <2>4 DEF AwaitReadyok
    <3>2. commands[a] = <<>> /\ channel'[a] = <<>> /\ search'[a].answers = 0
      BY <1>9, <2>1, <2>4
    <3>3. Loose(a)' /\ Silent(a)'
      BY <2>1, <3>2 DEF Loose, Silent
    <3>4. \A e \in Engines : Loose(e)'
      BY <2>2, <3>3
    <3>5. \/ pc' = "kifu"
          \/ at = "e1" /\ pc' = "launch" /\ at' = "e2"
          \/ pc' = "open" /\ at' = "e1"
      BY <3>1 DEF Initialized
    <3>6. Opponent(at') \in Engines
      BY DEF Opponent, Engines
    <3>7. QED
      BY <3>4, <3>5, <3>6 DEF Talk
  <2>5. QED
    BY <2>3, <2>4
<1>12. CASE OpenGame /\ ~Abort
  <2>1. /\ pc = "open" /\ pc' = "barrier" /\ at' = at /\ game' = game
        /\ Write(a, Command("isready", 0)) /\ Running(a)
        /\ UNCHANGED <<process, alive, channel, search>>
    BY <1>12 DEF OpenGame, Goto, gameVars
  <2>2. Command("isready", 0).name = "isready"
    BY DEF Command
  <2>3. Unread(a, "isready")'
    BY <1>8, <2>1, <2>2, CommandWritten DEF Talk
  <2>4. Loose(o)' /\ (at = "e2" => Silent("e1")')
    <3>1. at = "e2" => o = "e1"
      BY DEF Opponent
    <3>2. QED
      BY <1>7, <2>1, <3>1 DEF Talk
  <2>5. QED
    BY <2>1, <2>3, <2>4 DEF Talk, Awaiting
<1>13. CASE Barrier
  <2>1. /\ pc = "barrier" /\ LineWaits(a) /\ Receive(a)
        /\ UNCHANGED <<process, alive, commands, search, game>>
        /\ Awaiting(a, "isready", "readyok") /\ Loose(o)
        /\ at = "e2" => Silent("e1")
    BY <1>13 DEF Barrier, Talk
  <2>2. Loose(o)' /\ (at = "e2" => Silent("e1")')
    <3>1. at = "e2" => o = "e1"
      BY DEF Opponent
    <3>2. QED
      BY <1>7, <2>1, <3>1
  <2>3. CASE ~EndsBarrier(Line(a))
    <3>1. pc' = "barrier" /\ at' = at
      BY <1>13, <2>1, <2>3 DEF Barrier
    <3>2. Awaiting(a, "isready", "readyok")'
      BY <1>9, <2>1, <2>3 DEF EndsBarrier
    <3>3. QED
      BY <2>2, <3>1, <3>2 DEF Talk
  <2>4. CASE EndsBarrier(Line(a))
    <3>1. Silent(a)'
      BY <1>9, <2>1, <2>4 DEF EndsBarrier, Silent
    <3>2. CASE at = "e1"
      <4>1. pc' = "open" /\ at' = "e2"
        BY <1>13, <2>4, <3>2 DEF Barrier
      <4>2. Loose("e1")' /\ Loose("e2")'
        BY <2>2, <3>1, <3>2 DEF Silent, Loose, Opponent
      <4>3. QED
        BY <3>1, <3>2, <4>1, <4>2 DEF Talk, Engines, Opponent
    <3>3. CASE at = "e2"
      <4>1. pc' = "go"
        BY <1>13, <2>4, <3>3 DEF Barrier
      <4>2. \A e \in Engines : Silent(e)'
        BY <2>2, <3>1, <3>3 DEF Engines
      <4>3. \A e \in Engines : Current(e)' /\ Loose(e)'
        BY <4>2 DEF Silent, Current, Loose
      <4>4. QED
        BY <4>1, <4>3 DEF Talk
    <3>4. QED
      BY <3>2, <3>3 DEF Engines
  <2>5. QED
    BY <2>3, <2>4
<1>14. CASE (Go \/ NoMove) /\ ~Abort
  <2>1. CASE UNCHANGED linkVars
    <3>1. UNCHANGED <<process, commands, channel, search, alive>>
      BY <2>1 DEF linkVars
    <3>2. pc \in {"go", "move"} /\ pc' = "gameover"
      <4>1. ~(pc = "go" /\ Running(a) /\ Write(a, Command("go", game)))
        <5>1. commands[a] # Append(commands[a], Command("go", game))
          BY AppendFacts
        <5>2. commands' = commands
          BY <3>1
        <5>3. QED
          BY <1>8, <5>1, <5>2
      <4>2. QED
        BY <1>14, <4>1 DEF Go, NoMove, FailGo, EndGame
    <3>3. QED
      BY <1>5, <3>1, <3>2
  <2>2. CASE pc = "go" /\ Write(a, Command("go", game)) /\ Goto("move") /\ Running(a)
               /\ UNCHANGED <<process, alive, channel, search>>
    <3>1. pc' = "move" /\ game' = game /\ \A e \in Engines : Current(e)
      BY <2>2 DEF Goto, gameVars, Talk
    <3>2. Current(a)'
      BY <1>8, <2>2, <3>1, CommandWritten
    <3>3. Current(o)'
      BY <1>7, <2>2, <3>1
    <3>4. \A e \in Engines : Current(e)' /\ Loose(e)'
      BY <3>2, <3>3 DEF Current
    <3>5. QED
      BY <3>1, <3>4 DEF Talk
  <2>3. QED
    BY <1>14, <2>1, <2>2 DEF Go, NoMove, FailGo
<1>15. CASE OtherLine \/ LastAnswer \/ MoveOn
  <2>1. /\ pc = "move" /\ LineWaits(a) /\ Receive(a)
        /\ UNCHANGED <<process, alive, commands, search, game>>
        /\ \A e \in Engines : Current(e)
    BY <1>15 DEF OtherLine, LastAnswer, MoveOn, Answered, TakeAnswer, EndGame, Goto, gameVars,
                 Talk
  <2>2. Current(a)'
    BY <1>9, <2>1
  <2>3. Current(o)'
    BY <1>7, <2>1
  <2>4. \A e \in Engines : Current(e)' /\ Loose(e)'
    BY <2>2, <2>3 DEF Current
  <2>5. pc' \in {"go", "move", "gameover"}
    BY <1>15 DEF OtherLine, LastAnswer, MoveOn, EndGame, Goto
  <2>6. QED
    BY <2>4, <2>5 DEF Talk
<1>16. CASE (NotifyGameover \/ Retire \/ WriteKifu \/ WriteCsa \/ PersistTrials
               \/ PersistSummary \/ PersistManifest \/ Publish \/ Quit \/ Reap) /\ ~Abort
  <2>1. UNCHANGED <<process, commands, channel, search>> /\ alive' \subseteq alive
    BY <1>16 DEF NotifyGameover, Retire, WriteKifu, WriteCsa, PersistTrials, PersistSummary,
                 PersistManifest, Publish, Quit, Reap, Written, Unwritten, Goto, linkVars, Kill
  <2>2. pc \notin Preparing \cup {"barrier", "done"}
    BY <1>16 DEF NotifyGameover, Retire, WriteKifu, WriteCsa, PersistTrials, PersistSummary,
                 PersistManifest, Publish, Quit, Reap
  <2>3. \/ pc' \notin Preparing \cup {"open", "barrier", "go", "move"}
        \/ pc' = "launch"
        \/ pc' = "open" /\ at' = "e1"
    BY <1>16 DEF NotifyGameover, Retire, WriteKifu, WriteCsa, PersistTrials, PersistSummary,
                 PersistManifest, Publish, Quit, Reap, Written, Unwritten, Goto
  <2>4. QED
    BY <1>5, <2>1, <2>2, <2>3
<1>17. CASE (EngineLost \/ Stray) /\ ~Abort
  BY <1>17 DEF EngineLost, Stray
<1>18. QED
  BY <1>1, <1>2, <1>3, <1>4, <1>6, <1>10, <1>11, <1>12, <1>13, <1>14, <1>15, <1>16, <1>17
     DEF Next, Runner

LEMMA InitAnswers == Init => Answers
  BY DEF Init, Answers

LEMMA StepAnswers == Base /\ Talk /\ Answers /\ [Next]_vars => Answers'
<1> SUFFICES ASSUME Base, Talk, Answers, [Next]_vars PROVE Answers'
  OBVIOUS
<1>0. at \in Engines /\ game \in 0 .. NumGames + 1 /\ answers \in Seq(Nat) /\ Phase
  BY DEF Base, TypeOK
<1>1. CASE UNCHANGED <<game, answers>>
  BY <1>1 DEF Answers
<1>2. CASE Environment
  BY <1>1, <1>2, EngineFrame DEF gameVars
<1>3. CASE Abort
  BY <1>1, <1>3, AbortFrame DEF gameVars
<1>4. CASE LastAnswer \/ MoveOn
  <2>1. /\ pc = "move" /\ LineWaits(at) /\ Line(at).is = "bestmove" /\ Receive(at)
        /\ answers' = Append(answers, Line(at).game) /\ game' = game
        /\ UNCHANGED <<process, alive, commands, search>>
    BY <1>4 DEF LastAnswer, MoveOn, Answered, TakeAnswer, EndGame
  <2>2. game \in 1 .. NumGames
    BY <1>0, <2>1 DEF Phase
  <2>3. Current(at)
    BY <1>0, <2>1 DEF Talk
  <2>4. PICK e \in Engines : e = at
    BY <1>0
  <2>5. channel[e] \in Seq(Lines) /\ channel'[e] = Tail(channel[e])
    BY <2>1, <2>4 DEF Base, TypeOK, Receive
  <2>6. Line(e).game = game
    BY <2>1, <2>3, <2>4, <2>5, LineReceived
  <2>7. \A i \in DOMAIN answers' : \/ i \in DOMAIN answers /\ answers'[i] = answers[i]
                              \/ answers'[i] = game
    BY <1>0, <2>1, <2>4, <2>6, AppendFacts
  <2>8. QED
    BY <2>1, <2>2, <2>7 DEF Answers
<1>5. CASE AwaitReadyok /\ ~Abort
  <2>1. CASE Goto("readyok")
    BY <1>1, <2>1 DEF Goto, gameVars
  <2>2. CASE Initialized
    BY <1>0, <2>2 DEF Initialized, Answers
  <2>3. QED
    BY <1>5, <2>1, <2>2 DEF AwaitReadyok
<1>6. CASE Publish
  <2>1. answers' = <<>>
    BY <1>6 DEF Publish
  <2>2. QED
    BY <2>1 DEF Answers
<1>7. CASE (Launch \/ AwaitUsiok \/ EngineLost \/ OpenGame \/ Barrier \/ Go \/ NoMove
              \/ OtherLine \/ Stray \/ NotifyGameover \/ Retire \/ WriteKifu \/ WriteCsa
              \/ PersistTrials \/ PersistSummary \/ PersistManifest \/ Quit \/ Reap)
             /\ ~Abort
  <2>1. UNCHANGED <<game, answers>>
    BY <1>7 DEF Launch, AwaitUsiok, EngineLost, OpenGame, Barrier, Go, NoMove, OtherLine,
                Stray, NotifyGameover, Retire, WriteKifu, WriteCsa, PersistTrials,
                PersistSummary, PersistManifest, Quit, Reap, Written, Unwritten, Goto,
                FailGo, EndGame, gameVars
  <2>2. QED
    BY <1>1, <2>1
<1>8. CASE Tick \/ UNCHANGED vars
  BY <1>1, <1>8 DEF Tick, vars, gameVars
<1>9. QED
  BY <1>2, <1>3, <1>4, <1>5, <1>6, <1>7, <1>8 DEF Next, Runner

(* However late, however often and in whatever order the engines print,    *)
(* every bestmove the runner takes answers a go of the game being played,  *)
(* and an engine at fault is replaced before it is asked for another move. *)
THEOREM GamesAreSeparate == Spec => []NothingCarriesOver
<1>1. Init => Fit /\ Talk /\ Answers
  BY InitFit, InitTalk, InitAnswers
<1>2. Base /\ Fit /\ Talk /\ Answers /\ [Next]_vars => (Fit /\ Talk /\ Answers)'
  BY StepFit, StepTalk, StepAnswers
<1>3. Base /\ Fit /\ Answers => NothingCarriesOver
  BY DEF Base, TypeOK, Fit, Answers, NothingCarriesOver
<1>4. QED
  BY <1>1, <1>2, <1>3, BaseHolds, PTL DEF Spec
-----------------------------------------------------------------------------
(* The disk.                                                               *)
LEMMA InitEvidence == Init => Evidence /\ PublishedIsOnDisk
  BY ScheduleAssumption DEF Init, Evidence, PublishedIsOnDisk, Recording

LEMMA StepEvidence == Base /\ Evidence /\ [Next]_vars => Evidence'
<1> SUFFICES ASSUME Base, Evidence, [Next]_vars PROVE Evidence'
  OBVIOUS
<1>0. /\ game \in 0 .. NumGames + 1 /\ NumGames \in Nat \ {0} /\ Phase
      /\ scores \in Seq(TrialRecords) /\ disk \in Disks
  BY ScheduleAssumption DEF Base, TypeOK
<1> USE <1>0 DEF Evidence, Recording
<1>1. CASE UNCHANGED <<pc, game, scores, disk, published>>
  BY <1>1
<1>2. CASE Environment
  BY <1>1, <1>2, EngineFrame DEF gameVars, resultVars
<1>3. CASE Abort
  BY <1>3, AbortFrame DEF resultVars
<1>4. CASE Tick \/ UNCHANGED vars
  BY <1>1, <1>4 DEF Tick, vars, gameVars, resultVars
(* Within a game and around the launches nothing is written.               *)
<1>5. ASSUME UNCHANGED <<scores, disk, published, game>>,
             pc \notin Recording \cup {"done", "quit", "reap"},
             pc' \notin Recording \cup {"done", "quit", "reap"}
      PROVE  Evidence'
  BY <1>5
<1>6. CASE (Launch \/ AwaitUsiok \/ EngineLost \/ OpenGame \/ Barrier \/ Go \/ NoMove
              \/ OtherLine \/ LastAnswer \/ Stray \/ MoveOn \/ NotifyGameover \/ Retire)
             /\ ~Abort
  <2>1. UNCHANGED <<scores, disk, published, game>>
    BY <1>6 DEF Launch, AwaitUsiok, EngineLost, OpenGame, Barrier, Go, NoMove, OtherLine,
                LastAnswer, Stray, MoveOn, NotifyGameover, Retire, Goto, TakeAnswer,
                FailGo, EndGame, gameVars, resultVars
  <2>2. pc \notin Recording \cup {"done", "quit", "reap"}
          /\ pc' \notin Recording \cup {"done", "quit", "reap"}
    BY <1>6 DEF Launch, AwaitUsiok, EngineLost, OpenGame, Barrier, Go, NoMove, OtherLine,
                LastAnswer, Stray, MoveOn, NotifyGameover, Retire, Goto, Answered, FailGo,
                EndGame
  <2>3. QED
    BY <1>5, <2>1, <2>2
<1>7. CASE AwaitReadyok /\ ~Abort
  <2>1. CASE Goto("readyok")
    BY <1>5, <1>7, <2>1 DEF AwaitReadyok, Goto, gameVars, resultVars
  <2>2. CASE Initialized
    <3>1. pc = "readyok" /\ UNCHANGED <<scores, disk, published>>
      BY <1>7, <2>2 DEF AwaitReadyok, Initialized, resultVars
    <3>2. CASE game' = game
      BY <1>5, <2>2, <3>1, <3>2 DEF Initialized
    <3>3. CASE game' # game
      <4>1. game = 0 /\ game' = 1 /\ pc' = "open"
        BY <2>2, <3>3 DEF Initialized
      <4>2. QED
        BY <3>1, <4>1
    <3>4. QED
      BY <3>2, <3>3
  <2>3. QED
    BY <1>7, <2>1, <2>2 DEF AwaitReadyok
<1>8. CASE WriteKifu /\ ~Abort
  <2>1. /\ pc = "kifu" /\ pc' = "csa" /\ game' = game /\ published' = published
        /\ disk' = [disk EXCEPT !.kifu = @ \cup {game}]
    BY <1>8 DEF WriteKifu, Unwritten, gameVars
  <2>2. PICK t : scores' = Append(scores, t) /\ t.run = "this" /\ t.game = game
    BY <1>8 DEF WriteKifu, Unwritten, Trial
  <2>3. game \in 1 .. NumGames /\ Len(scores) = game - 1
    BY <2>1 DEF Phase
  <2>4. /\ Len(scores') = game
        /\ \A i \in DOMAIN scores' : scores'[i].run = "this" /\ scores'[i].game = i
    <3>1. /\ DOMAIN scores' = 1 .. Len(scores) + 1 /\ Len(scores') = Len(scores) + 1
          /\ scores'[Len(scores) + 1] = t
          /\ \A i \in 1 .. Len(scores) : scores'[i] = scores[i]
          /\ DOMAIN scores = 1 .. Len(scores)
      BY <2>2, AppendFacts
    <3>2. QED
      BY <2>2, <2>3, <3>1
  <2>5. game \in disk'.kifu
    BY <2>1 DEF Disks
  <2>6. QED
    BY <2>1, <2>3, <2>4, <2>5
<1>9. CASE WriteCsa /\ ~Abort
  <2>1. pc = "csa" /\ pc' = "trials" /\ UNCHANGED <<scores, published, game>>
    BY <1>9 DEF WriteCsa, Written, Unwritten, Goto, gameVars, resultVars
  <2>2. disk'.kifu = disk.kifu
    BY <1>9 DEF WriteCsa, Written, Unwritten, Goto, resultVars, Disks
  <2>3. game \in 1 .. NumGames
    BY <2>1 DEF Phase
  <2>4. QED
    BY <2>1, <2>2, <2>3
<1>10. CASE PersistTrials /\ ~Abort
  <2>1. /\ pc = "trials" /\ pc' = "summary" /\ UNCHANGED <<scores, published, game>>
        /\ disk' = [disk EXCEPT !.trials = scores]
    BY <1>10 DEF PersistTrials, Written, Unwritten, WriteTrials, gameVars
  <2>2. disk'.kifu = disk.kifu /\ disk'.trials = scores
    BY <2>1 DEF Disks
  <2>3. QED
    BY <2>1, <2>2
<1>11. CASE PersistSummary /\ ~Abort
  <2>1. /\ pc = "summary" /\ UNCHANGED <<scores, published, game>>
        /\ disk' = [disk EXCEPT !.summary = Summary(Status, scores, invalid)]
        /\ pc' = IF Status = "complete" THEN "quit" ELSE "manifest"
    BY <1>11 DEF PersistSummary, Written, Unwritten, gameVars
  <2>2. /\ disk'.kifu = disk.kifu /\ disk'.trials = disk.trials
        /\ disk'.summary = Summary(Status, scores, invalid)
    BY <2>1 DEF Disks
  <2>3. disk'.summary.tally = Tally(scores)
    BY <2>2 DEF Summary
  <2>4. pc' = IF game > NumGames THEN "quit" ELSE "manifest"
    BY <2>1 DEF Status
  <2>5. QED
    BY <2>1, <2>2, <2>3, <2>4
<1>12. CASE PersistManifest /\ ~Abort
  <2>1. /\ pc = "manifest" /\ UNCHANGED <<scores, published, game>>
        /\ disk' = [disk EXCEPT !.manifest = Len(scores)]
        /\ pc' = IF Status = "complete" THEN "trials" ELSE "publish"
    BY <1>12 DEF PersistManifest, Written, Unwritten, gameVars
  <2>2. /\ disk'.kifu = disk.kifu /\ disk'.trials = disk.trials
        /\ disk'.summary = disk.summary /\ disk'.manifest = Len(scores)
    BY <2>1 DEF Disks
  <2>3. pc' = IF game > NumGames THEN "trials" ELSE "publish"
    BY <2>1 DEF Status
  <2>4. QED
    BY <2>1, <2>2, <2>3
<1>13. CASE Publish
  <2>1. /\ pc = "publish" /\ game' = game + 1 /\ published' = published \cup {game}
        /\ UNCHANGED <<scores, disk>>
        /\ pc' = IF game < NumGames THEN "open" ELSE "manifest"
    BY <1>13 DEF Publish
  <2>2. game \in 1 .. NumGames
    BY <2>1 DEF Phase
  <2>3. published' = 1 .. game' - 1
    BY <2>1, <2>2
  <2>4. QED
    BY <2>1, <2>2, <2>3
<1>14. CASE (Quit \/ Reap) /\ ~Abort
  BY <1>14 DEF Quit, Reap, Goto, gameVars, resultVars, Phase
<1>15. QED
  BY <1>2, <1>3, <1>4, <1>6, <1>7, <1>8, <1>9, <1>10, <1>11, <1>12, <1>13, <1>14
     DEF Next, Runner

LEMMA StepPublished ==
  Base /\ Evidence /\ PublishedIsOnDisk /\ [Next]_vars => PublishedIsOnDisk'
<1> SUFFICES ASSUME Base, Evidence, PublishedIsOnDisk, [Next]_vars PROVE PublishedIsOnDisk'
  OBVIOUS
<1>0. /\ game \in 0 .. NumGames + 1 /\ NumGames \in Nat \ {0} /\ Phase
      /\ scores \in Seq(TrialRecords) /\ disk \in Disks /\ published \subseteq 1 .. NumGames
  BY ScheduleAssumption DEF Base, TypeOK
<1> USE <1>0
<1>1. CASE UNCHANGED <<disk, published>>
  BY <1>1 DEF PublishedIsOnDisk
<1>2. CASE Environment \/ Abort \/ Tick \/ UNCHANGED vars
  <2>1. UNCHANGED resultVars
    BY <1>2, EngineFrame, AbortFrame DEF Tick, vars, resultVars
  <2>2. QED
    BY <1>1, <2>1 DEF resultVars
<1>3. CASE (Launch \/ AwaitUsiok \/ AwaitReadyok \/ EngineLost \/ OpenGame \/ Barrier \/ Go
              \/ NoMove \/ OtherLine \/ LastAnswer \/ Stray \/ MoveOn \/ NotifyGameover
              \/ Retire \/ Quit \/ Reap) /\ ~Abort
  <2>1. UNCHANGED <<disk, published>>
    BY <1>3 DEF Launch, AwaitUsiok, AwaitReadyok, Initialized, EngineLost, OpenGame, Barrier,
                Go, NoMove, OtherLine, LastAnswer, Stray, MoveOn, NotifyGameover, Retire, Quit,
                Reap, Goto, TakeAnswer, FailGo, EndGame, resultVars
  <2>2. QED
    BY <1>1, <2>1
(* A file grows, and the others stay.                                      *)
<1>4. ASSUME published' = published, disk.kifu \subseteq disk'.kifu,
             UNCHANGED <<disk.trials, disk.summary, disk.manifest>>
      PROVE  PublishedIsOnDisk'
  BY <1>4 DEF PublishedIsOnDisk
<1>5. CASE (WriteKifu \/ WriteCsa) /\ ~Abort
  <2>1. published' = published
    BY <1>5 DEF WriteKifu, WriteCsa, Written, Unwritten, Goto, resultVars
  <2>2. disk.kifu \subseteq disk'.kifu /\ UNCHANGED <<disk.trials, disk.summary, disk.manifest>>
    BY <1>5 DEF WriteKifu, WriteCsa, Written, Unwritten, Goto, resultVars, Disks
  <2>3. QED
    BY <1>4, <2>1, <2>2
(* What the trials of this run hold once they are written.                 *)
<1>6. ASSUME pc \in {"trials", "summary", "manifest", "publish"}, NEW g \in 1 .. game - 1
      PROVE  /\ g <= Len(scores)
             /\ game <= NumGames => Len(scores) = game
             /\ \E i \in DOMAIN scores : scores[i].run = "this" /\ scores[i].game = g
  <2>1. Len(scores) = IF game <= NumGames THEN game ELSE game - 1
    BY <1>6 DEF Evidence, Recording, Phase
  <2>2. g \in DOMAIN scores
    BY <2>1
  <2>3. QED
    BY <2>1, <2>2 DEF Evidence
<1>7. CASE PersistTrials /\ ~Abort
  <2>1. /\ pc = "trials" /\ published' = published
        /\ disk' = [disk EXCEPT !.trials = scores]
    BY <1>7 DEF PersistTrials, Written, Unwritten, WriteTrials
  <2>2. /\ disk'.kifu = disk.kifu /\ disk'.trials = scores /\ disk'.summary = disk.summary
        /\ disk'.manifest = disk.manifest
    BY <2>1 DEF Disks
  <2>3. published = 1 .. game - 1
    BY <2>1 DEF Evidence
  <2>4. CASE game <= NumGames
    <3>1. \A g \in published : Len(scores) > g
      BY <1>6, <2>1, <2>3, <2>4
    <3>2. QED
      BY <1>6, <2>1, <2>2, <2>3, <3>1 DEF PublishedIsOnDisk
  <2>5. CASE game > NumGames
    <3>1. disk.trials = scores
      BY <2>1, <2>5 DEF Evidence
    <3>2. QED
      BY <1>4, <2>1, <2>2, <3>1
  <2>6. QED
    BY <2>4, <2>5
<1>8. CASE PersistSummary /\ ~Abort
  <2>1. /\ pc = "summary" /\ published' = published
        /\ disk' = [disk EXCEPT !.summary = Summary(Status, scores, invalid)]
    BY <1>8 DEF PersistSummary, Written, Unwritten
  <2>2. /\ disk'.kifu = disk.kifu /\ disk'.trials = disk.trials
        /\ disk'.manifest = disk.manifest
        /\ disk'.summary = Summary(Status, scores, invalid)
    BY <2>1 DEF Disks
  <2>3. disk'.summary.tally = Tally(disk'.trials)
    BY <2>1, <2>2 DEF Summary, Evidence
  <2>4. QED
    BY <2>1, <2>2, <2>3 DEF PublishedIsOnDisk
<1>9. CASE PersistManifest /\ ~Abort
  <2>1. /\ pc = "manifest" /\ published' = published
        /\ disk' = [disk EXCEPT !.manifest = Len(scores)]
    BY <1>9 DEF PersistManifest, Written, Unwritten
  <2>2. /\ disk'.kifu = disk.kifu /\ disk'.trials = disk.trials
        /\ disk'.summary = disk.summary /\ disk'.manifest = Len(scores)
    BY <2>1 DEF Disks
  <2>3. published = 1 .. game - 1
    BY <2>1 DEF Evidence
  <2>4. \A g \in published : disk'.manifest >= g
    BY <1>6, <2>1, <2>2, <2>3
  <2>5. QED
    BY <2>1, <2>2, <2>4 DEF PublishedIsOnDisk
<1>10. CASE Publish
  <2>1. pc = "publish" /\ published' = published \cup {game} /\ disk' = disk
    BY <1>10 DEF Publish
  <2>2. game \in 1 .. NumGames
    BY <2>1 DEF Phase
  <2>3. /\ game \in disk.kifu /\ disk.trials = scores /\ Len(scores) = game
        /\ disk.summary.tally = Tally(scores) /\ disk.manifest = Len(scores)
    BY <2>1, <2>2 DEF Evidence, Recording
  <2>4. \E i \in DOMAIN scores : scores[i].run = "this" /\ scores[i].game = game
    <3>1. game \in DOMAIN scores
      BY <2>2, <2>3
    <3>2. QED
      BY <3>1 DEF Evidence
  <2>5. QED
    BY <2>1, <2>2, <2>3, <2>4 DEF PublishedIsOnDisk
<1>11. QED
  BY <1>2, <1>3, <1>5, <1>7, <1>8, <1>9, <1>10 DEF Next, Runner

(* Whenever the runner is killed, every result it has printed is on disk:  *)
(* the kifu, the trial, and a summary and a manifest that count the game.  *)
THEOREM ResultsAreDurable == Spec => []PublishedIsOnDisk
<1>1. Init => Evidence /\ PublishedIsOnDisk
  BY InitEvidence
<1>2. Base /\ Evidence /\ PublishedIsOnDisk /\ [Next]_vars
        => (Evidence /\ PublishedIsOnDisk)'
  BY StepEvidence, StepPublished
<1>3. QED
  BY <1>1, <1>2, BaseHolds, PTL DEF Spec
-----------------------------------------------------------------------------
(* What the gate reads.                                                    *)

(* A fault is listed in the summary before its game is scored.             *)
FaultsNoted ==
  /\ game = 0 => result.reason = "none"
  /\ pc \in Preparing \cup {"retire", "kifu"} /\ result.reason \in Faults => game \in invalid
  /\ \A i \in DOMAIN scores : scores[i].fault => i \in invalid

(* Until this run replaces it, the summary is that of the earlier run, and *)
(* so are the trials but for those of the first game.                      *)
Kept ==
  \E d \in Earlier :
    disk.summary = d.summary /\ (disk.trials = d.trials \/ Len(disk.trials) = 1)

Unfinished == disk.summary.status = "running"

Finished ==
  /\ disk.summary.status = "complete"
  /\ Len(disk.trials) = NumGames
  /\ \A i \in DOMAIN disk.trials :
       /\ disk.trials[i].run = "this"
       /\ disk.trials[i].fault => i \in disk.summary.invalid

Summarized == game > 1 \/ pc \in {"manifest", "publish"}

Readable ==
  /\ Kept \/ Unfinished \/ Finished
  /\ pc # "done" /\ ~Summarized => Kept
  /\ pc \notin {"quit", "reap", "done"} /\ Summarized => Unfinished

LEMMA NoFaultYet == "none" \notin Faults
BY DEF Faults

LEMMA StepFaults == Base /\ Evidence /\ FaultsNoted /\ [Next]_vars => FaultsNoted'
<1> SUFFICES ASSUME Base, Evidence, FaultsNoted, [Next]_vars PROVE FaultsNoted'
  OBVIOUS
<1>0. game \in 0 .. NumGames + 1 /\ NumGames \in Nat \ {0} /\ Phase
  BY ScheduleAssumption DEF Base, TypeOK
<1> USE <1>0 DEF FaultsNoted
<1>1. CASE UNCHANGED <<game, result, scores, invalid>>
             /\ (pc' \in Preparing \cup {"retire", "kifu"} =>
                   pc \in Preparing \cup {"retire", "kifu"})
  BY <1>1
<1>2. CASE Abort
  BY <1>1, <1>2, AbortFrame DEF gameVars, resultVars, Preparing
<1>3. CASE Environment
  BY <1>1, <1>3, EngineFrame DEF gameVars, resultVars
<1>4. CASE Tick \/ UNCHANGED vars
  BY <1>1, <1>4 DEF Tick, vars, gameVars, resultVars
<1>5. CASE (Launch \/ AwaitUsiok \/ EngineLost \/ OpenGame \/ Barrier \/ OtherLine \/ Stray
              \/ Retire \/ WriteCsa \/ PersistTrials \/ PersistSummary \/ PersistManifest
              \/ Quit \/ Reap) /\ ~Abort
  <2>1. UNCHANGED <<game, result, scores, invalid>>
    BY <1>5 DEF Launch, AwaitUsiok, EngineLost, OpenGame, Barrier, OtherLine, Stray, Retire,
       WriteCsa, PersistTrials, PersistSummary, PersistManifest, Quit, Reap, Written,
       Unwritten, Goto, gameVars, resultVars
  <2>2. pc' \in Preparing \cup {"retire", "kifu"} => pc \in Preparing \cup {"retire", "kifu"}
    BY <1>5 DEF Launch, AwaitUsiok, EngineLost, OpenGame, Barrier, OtherLine, Stray, Retire,
       WriteCsa, PersistTrials, PersistSummary, PersistManifest, Quit, Reap, Written,
       Unwritten, Goto, Preparing
  <2>3. QED
    BY <1>1, <2>1, <2>2
<1>6. CASE AwaitReadyok /\ ~Abort
  <2>1. /\ pc = "readyok" /\ UNCHANGED <<result, scores, invalid>>
        /\ game' = game \/ (game = 0 /\ game' = 1)
        /\ game = 0 => result.reason = "none"
    BY <1>6 DEF AwaitReadyok, Initialized, Goto, gameVars, resultVars
  <2>2. CASE game' = game
    BY <2>1, <2>2 DEF Preparing
  <2>3. CASE game = 0 /\ game' = 1
    BY <2>1, <2>3, NoFaultYet
  <2>4. QED
    BY <2>1, <2>2, <2>3
<1>7. CASE (Go \/ NoMove \/ LastAnswer \/ MoveOn) /\ ~Abort
  <2>1. /\ pc \in {"go", "move"} /\ pc' \in {"go", "move", "gameover"}
        /\ UNCHANGED <<game, scores, invalid>>
    BY <1>7 DEF Go, NoMove, LastAnswer, MoveOn, Goto, Answered, TakeAnswer, FailGo, EndGame,
       gameVars, resultVars
  <2>2. game # 0
    BY <2>1 DEF Phase
  <2>3. QED
    BY <2>1, <2>2 DEF Preparing
<1>8. CASE NotifyGameover
  <2>1. /\ pc = "gameover" /\ UNCHANGED <<game, result, scores>> /\ invalid \subseteq invalid'
        /\ result.reason \in Faults => game \in invalid'
    BY <1>8 DEF NotifyGameover, Invalidates, gameVars
  <2>2. QED
    BY <2>1
<1>9. CASE WriteKifu /\ ~Abort
  <2>1. /\ pc = "kifu" /\ pc' = "csa" /\ UNCHANGED <<game, result, invalid>>
        /\ scores' = Append(scores, Trial("this", game, result.outcome, result.reason \in Faults))
    BY <1>9 DEF WriteKifu, Unwritten, gameVars
  <2> DEFINE t == Trial("this", game, result.outcome, result.reason \in Faults)
  <2>2. game \in 1 .. NumGames /\ Len(scores) = game - 1 /\ scores \in Seq(TrialRecords)
    BY <2>1 DEF Phase, Evidence, Recording, Base, TypeOK
  <2>3. t.fault => game \in invalid
    BY <2>1 DEF Trial
  <2> HIDE DEF t
  <2>4. /\ DOMAIN scores' = 1 .. Len(scores) + 1 /\ scores'[Len(scores) + 1] = t
        /\ \A i \in 1 .. Len(scores) : scores'[i] = scores[i]
        /\ DOMAIN scores = 1 .. Len(scores)
    BY <2>1, <2>2, AppendFacts DEF t
  <2>5. \A i \in DOMAIN scores' : scores'[i].fault => i \in invalid
    BY <2>2, <2>3, <2>4
  <2>6. QED
    BY <2>1, <2>2, <2>5 DEF Preparing
<1>10. CASE Publish
  <2>1. /\ pc' \in {"open", "manifest"} /\ UNCHANGED <<scores, invalid>>
        /\ result'.reason = "none"
    BY <1>10 DEF Publish, NoResult
  <2>2. QED
    BY <2>1 DEF Preparing
<1>11. QED
  BY <1>2, <1>3, <1>4, <1>5, <1>6, <1>7, <1>8, <1>9, <1>10 DEF Next, Runner

LEMMA StepReadable == Base /\ Evidence /\ FaultsNoted /\ Readable /\ [Next]_vars => Readable'
<1> SUFFICES ASSUME Base, Evidence, FaultsNoted, Readable, [Next]_vars PROVE Readable'
  OBVIOUS
<1>0. /\ game \in 0 .. NumGames + 1 /\ NumGames \in Nat \ {0} /\ Phase
      /\ scores \in Seq(TrialRecords) /\ disk \in Disks
  BY ScheduleAssumption DEF Base, TypeOK
<1>1. ASSUME disk'.trials = disk.trials, disk'.summary = disk.summary
      PROVE  /\ Kept => Kept'
             /\ Unfinished => Unfinished'
             /\ Finished => Finished'
  BY <1>1 DEF Kept, Unfinished, Finished
<1>2. ASSUME disk'.trials = disk.trials, disk'.summary = disk.summary,
             \/ pc' = "done"
             \/ pc # "done" /\ (Summarized' <=> Summarized)
                  /\ (pc \in {"quit", "reap"} => pc' \in {"quit", "reap"})
      PROVE  Readable'
  <2>1. Kept' \/ Unfinished' \/ Finished'
    BY <1>1, <1>2 DEF Readable
  <2>2. CASE pc' = "done"
    BY <2>1, <2>2 DEF Readable
  <2>3. CASE pc' # "done"
    <3>1. /\ pc # "done" /\ (Summarized' <=> Summarized)
          /\ (pc \in {"quit", "reap"} => pc' \in {"quit", "reap"})
      BY <1>2, <2>3
    <3>2. ~Summarized' => Kept'
      BY <1>1, <1>2, <3>1 DEF Readable
    <3>3. pc' \notin {"quit", "reap", "done"} /\ Summarized' => Unfinished'
      BY <1>1, <1>2, <3>1 DEF Readable
    <3>4. QED
      BY <2>1, <3>2, <3>3 DEF Readable
  <2>4. QED
    BY <2>2, <2>3
<1>3. CASE Abort
  BY <1>2, <1>3, AbortFrame DEF resultVars
<1>4. CASE Environment \/ Tick \/ UNCHANGED vars
  <2>1. UNCHANGED <<pc, game, disk>>
    BY <1>4, EngineFrame DEF Tick, vars, gameVars, resultVars
  <2>2. QED
    BY <1>2, <2>1 DEF Summarized
<1>5. CASE (Launch \/ AwaitUsiok \/ EngineLost \/ OpenGame \/ Barrier \/ Go \/ NoMove
              \/ OtherLine \/ LastAnswer \/ Stray \/ MoveOn \/ NotifyGameover \/ Retire)
             /\ ~Abort
  <2>1. UNCHANGED <<disk, game>>
    BY <1>5 DEF Launch, AwaitUsiok, EngineLost, OpenGame, Barrier, Go, NoMove, OtherLine,
                LastAnswer, Stray, MoveOn, NotifyGameover, Retire, Goto, TakeAnswer,
                FailGo, EndGame, gameVars, resultVars
  <2>2. /\ pc \notin {"done", "quit", "reap", "manifest", "publish"}
        /\ pc' \notin {"manifest", "publish"}
    BY <1>5 DEF Launch, AwaitUsiok, EngineLost, OpenGame, Barrier, Go, NoMove, OtherLine,
                LastAnswer, Stray, MoveOn, NotifyGameover, Retire, Goto, Answered, FailGo,
                EndGame
  <2>3. QED
    BY <1>2, <2>1, <2>2 DEF Summarized
<1>6. CASE AwaitReadyok /\ ~Abort
  <2>1. /\ pc = "readyok" /\ disk' = disk /\ pc' \in {"readyok", "kifu", "launch", "open"}
        /\ game' = game \/ (game = 0 /\ game' = 1)
    <3>1. CASE Goto("readyok")
      BY <1>6, <3>1 DEF AwaitReadyok, Goto, gameVars, resultVars
    <3>2. CASE Initialized
      <4>1. pc = "readyok" /\ disk' = disk
        BY <1>6, <3>2 DEF AwaitReadyok, Initialized, resultVars
      <4>2. /\ pc' \in {"kifu", "launch", "open"}
            /\ game' = game \/ (~(game > 0) /\ game' = 1)
        BY <3>2 DEF Initialized
      <4>3. QED
        BY <1>0, <4>1, <4>2
    <3>3. QED
      BY <1>6, <3>1, <3>2 DEF AwaitReadyok
  <2>2. Summarized' <=> Summarized
    BY <1>0, <2>1 DEF Summarized
  <2>3. QED
    BY <1>2, <2>1, <2>2
<1>7. CASE (WriteKifu \/ WriteCsa) /\ ~Abort
  <2>1. /\ pc \in {"kifu", "csa"} /\ pc' \in {"csa", "trials"} /\ game' = game
        /\ \/ disk' = disk \/ disk' = [disk EXCEPT !.kifu = @ \cup {game}]
           \/ disk' = [disk EXCEPT !.csa = @ \cup {game}]
    BY <1>7 DEF WriteKifu, WriteCsa, Written, Unwritten, Goto, gameVars, resultVars
  <2>2. disk'.trials = disk.trials /\ disk'.summary = disk.summary
    BY <1>0, <2>1 DEF Disks
  <2>3. QED
    BY <1>2, <2>1, <2>2 DEF Summarized
<1>8. CASE PersistTrials /\ ~Abort
  <2>1. /\ pc = "trials" /\ pc' = "summary" /\ game' = game
        /\ disk' = [disk EXCEPT !.trials = scores]
    BY <1>8 DEF PersistTrials, Written, Unwritten, WriteTrials, gameVars
  <2>2. disk'.summary = disk.summary /\ disk'.trials = scores
    BY <1>0, <2>1 DEF Disks
  <2>3. game >= 1 /\ (game = 1 => Len(scores) = 1)
    <3>1. game >= 1
      BY <1>0, <2>1 DEF Phase
    <3>2. game <= NumGames => Len(scores) = game
      BY <2>1 DEF Evidence, Recording
    <3>3. game = 1 => game <= NumGames
      BY <1>0
    <3>4. QED
      BY <3>1, <3>2, <3>3
  <2>4. CASE game > 1
    <3>1. Summarized /\ Summarized' /\ Unfinished
      BY <2>1, <2>4 DEF Summarized, Readable
    <3>2. QED
      BY <2>1, <2>2, <3>1 DEF Readable, Unfinished
  <2>5. CASE game = 1
    <3>1. ~Summarized /\ ~Summarized' /\ Kept
      BY <2>1, <2>5 DEF Summarized, Readable
    <3>2. Kept'
      BY <2>2, <2>3, <2>5, <3>1 DEF Kept
    <3>3. QED
      BY <3>1, <3>2 DEF Readable
  <2>6. QED
    BY <1>0, <2>3, <2>4, <2>5
<1>9. CASE PersistSummary /\ ~Abort
  <2>1. /\ pc = "summary" /\ UNCHANGED <<scores, game, invalid>>
        /\ disk' = [disk EXCEPT !.summary = Summary(Status, scores, invalid)]
        /\ pc' = IF Status = "complete" THEN "quit" ELSE "manifest"
    BY <1>9 DEF PersistSummary, Written, Unwritten, gameVars
  <2>2. /\ disk'.trials = scores /\ disk'.summary = Summary(Status, scores, invalid)
    BY <1>0, <2>1 DEF Disks, Evidence
  <2>3. disk'.summary.status = Status /\ disk'.summary.invalid = invalid
    BY <2>2 DEF Summary
  <2>4. CASE game <= NumGames
    <3>1. Status = "running" /\ pc' = "manifest"
      BY <1>0, <2>1, <2>4 DEF Status
    <3>2. QED
      BY <2>3, <3>1 DEF Readable, Unfinished, Summarized
  <2>5. CASE game > NumGames
    <3>1. Status = "complete" /\ pc' = "quit" /\ game > 1
      BY <1>0, <2>1, <2>5 DEF Status
    <3>2. Len(scores) = NumGames
      BY <1>0, <2>1, <2>5 DEF Evidence, Recording
    <3>3. Finished'
      BY <2>2, <2>3, <3>1, <3>2 DEF Finished, FaultsNoted, Evidence
    <3>4. QED
      BY <2>1, <3>1, <3>3 DEF Readable, Summarized
  <2>6. QED
    BY <1>0, <2>4, <2>5
<1>10. CASE PersistManifest /\ ~Abort
  <2>1. /\ pc = "manifest" /\ game' = game
        /\ disk' = [disk EXCEPT !.manifest = Len(scores)]
        /\ pc' = IF game > NumGames THEN "trials" ELSE "publish"
    BY <1>10 DEF PersistManifest, Written, Unwritten, Status, gameVars
  <2>2. disk'.trials = disk.trials /\ disk'.summary = disk.summary
    BY <1>0, <2>1 DEF Disks
  <2>3. Summarized /\ Summarized'
    BY <1>0, <2>1 DEF Summarized
  <2>4. QED
    BY <1>2, <2>1, <2>2, <2>3
<1>11. CASE Publish
  <2>1. /\ pc = "publish" /\ game' = game + 1 /\ disk' = disk /\ pc' \in {"open", "manifest"}
    BY <1>11 DEF Publish
  <2>2. game \in 1 .. NumGames
    BY <1>0, <2>1 DEF Phase
  <2>3. Summarized /\ Summarized'
    BY <2>1, <2>2 DEF Summarized
  <2>4. QED
    BY <1>2, <2>1, <2>3
<1>12. CASE (Quit \/ Reap) /\ ~Abort
  <2>1. /\ pc \in {"quit", "reap"} /\ pc' \in {"quit", "reap", "done"} /\ UNCHANGED <<game, disk>>
    BY <1>12 DEF Quit, Reap, Goto, gameVars, resultVars
  <2>2. QED
    BY <1>2, <2>1 DEF Summarized
<1>13. QED
  BY <1>3, <1>4, <1>5, <1>6, <1>7, <1>8, <1>9, <1>10, <1>11, <1>12 DEF Next, Runner

OneCleanRun(trials) ==
  /\ Len(trials) = NumGames
  /\ \A i \in DOMAIN trials : trials[i].run = trials[1].run /\ ~trials[i].fault

(* The gate accepts, at whatever instant the runner is killed, nothing but *)
(* one run without an engine fault - if it would not accept anything else  *)
(* of what was there before, and no earlier match of a single game was     *)
(* finished over the same paths: the trials of the first game of this run  *)
(* stand beside the earlier summary for a moment, and the counts of the    *)
(* two agree when each is of one game with the same outcome.               *)
THEOREM GateIsNotMisled ==
  ASSUME \A d \in Earlier :
           /\ GateAccepts(d) => OneCleanRun(d.trials)
           /\ Complete(d) =>
                \A s \in Seq(TrialRecords) : Len(s) = 1 => d.summary.tally # Tally(s)
  PROVE  Spec => []GateReadsOneCleanRun
<1>1. Init => Evidence /\ FaultsNoted /\ Readable
  <2> SUFFICES ASSUME Init PROVE FaultsNoted /\ Readable
    BY InitEvidence
  <2>1. FaultsNoted
    BY NoFaultYet DEF Init, FaultsNoted, NoResult
  <2>2. Readable
    BY DEF Init, Readable, Kept, Summarized
  <2>3. QED
    BY <2>1, <2>2
<1>2. Base /\ Evidence /\ FaultsNoted /\ Readable /\ [Next]_vars
        => (Evidence /\ FaultsNoted /\ Readable)'
  BY StepEvidence, StepFaults, StepReadable
<1>3. Base /\ Readable => GateReadsOneCleanRun
  <2> SUFFICES ASSUME Base, Readable, GateAccepts(disk) PROVE OneCleanRun(disk.trials)
    BY DEF GateReadsOneCleanRun, OneCleanRun
  <2>1. /\ disk.summary.status = "complete" /\ disk.summary.invalid = {}
        /\ disk.summary.tally = Tally(disk.trials)
    BY DEF GateAccepts, Complete, CountsAgree
  <2>2. disk.trials \in Seq(TrialRecords)
    BY DEF Base, TypeOK, Disks
  <2>3. CASE Kept
    <3>1. PICK d \in Earlier :
            disk.summary = d.summary /\ (disk.trials = d.trials \/ Len(disk.trials) = 1)
      BY <2>3 DEF Kept
    <3>2. CASE disk.trials = d.trials
      <4>1. GateAccepts(d)
        BY <2>1, <3>1, <3>2 DEF GateAccepts, Complete, CountsAgree
      <4>2. QED
        BY <3>1, <3>2, <4>1
    <3>3. CASE Len(disk.trials) = 1
      <4>1. Complete(d)
        BY <2>1, <3>1 DEF Complete
      <4>2. QED
        BY <2>1, <2>2, <3>1, <3>3, <4>1
    <3>4. QED
      BY <3>1, <3>2, <3>3
  <2>4. CASE Unfinished
    BY <2>1, <2>4 DEF Unfinished
  <2>5. CASE Finished
    <3>1. NumGames >= 1
      BY ScheduleAssumption
    <3>2. 1 \in DOMAIN disk.trials
      BY <2>2, <2>5, <3>1, ScheduleAssumption DEF Finished
    <3>3. QED
      BY <2>1, <2>5, <3>2 DEF Finished, OneCleanRun
  <2>6. QED
    BY <2>3, <2>4, <2>5 DEF Readable
<1>4. QED
  BY <1>1, <1>2, <1>3, BaseHolds, PTL DEF Spec
=============================================================================
