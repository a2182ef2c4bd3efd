----------------------------- MODULE EngineLink -----------------------------
(***************************************************************************)
(* engine.rs of the match runner: two USI engine processes, the commands   *)
(* written to them, and the lines a reader thread puts into a channel so   *)
(* that every read has an absolute deadline.                               *)
(*                                                                         *)
(* The engine processes are external.  They may answer late, twice or not  *)
(* at all, print information at any time and die at any time; what they    *)
(* are trusted with is that nothing of a search follows the `readyok' of a *)
(* later `isready'.  Commands no answer depends on (position, stop,        *)
(* usinewgame, gameover) are only modelled by whether they can be written. *)
(***************************************************************************)
EXTENDS Integers, Sequences

CONSTANTS
  Budget,       \* clock ticks until the deadline of any wait
  MaxLines,     \* bound: unsolicited lines only enter a channel this short
  MaxAnswers    \* how many bestmoves a faulty engine may print for one go

ASSUME BudgetAssumption == Budget \in Nat \ {0}
ASSUME AnswersAssumption == MaxAnswers \in Nat

Engines == {"e1", "e2"}
Opponent(e) == IF e = "e1" THEN "e2" ELSE "e1"

VARIABLES
  process,   \* process[e]: the process behind the handle of e, 0 before launch
  alive,     \* the processes that run
  launched,  \* processes launched so far
  commands,  \* commands[e]: written and not yet read by the engine
  channel,   \* channel[e]: lines printed and not yet received
  search,    \* search[e]: the go the engine may still answer, and how often
  elapsed    \* ticks of the current wait

linkVars == <<process, alive, launched, commands, channel, search, elapsed>>

Idle == [game |-> 0, answers |-> 0]

LinkInit ==
  /\ process = [e \in Engines |-> 0]
  /\ alive = {}
  /\ launched = 0
  /\ commands = [e \in Engines |-> <<>>]
  /\ channel = [e \in Engines |-> <<>>]
  /\ search = [e \in Engines |-> Idle]
  /\ elapsed = 0

Running(e) == process[e] \in alive
-----------------------------------------------------------------------------
(* What the runner does to a link.                                         *)

Command(name, game) == [name |-> name, game |-> game]

Write(e, command) == commands' = [commands EXCEPT ![e] = Append(@, command)]

(* launch and the first command of initialize.  The handle is replaced,    *)
(* and with it the channel.                                                *)
Spawn(e) ==
  /\ launched' = launched + 1
  /\ process' = [process EXCEPT ![e] = launched + 1]
  /\ alive' = alive \cup {launched + 1}
  /\ commands' = [commands EXCEPT ![e] = <<Command("usi", 0)>>]
  /\ channel' = [channel EXCEPT ![e] = <<>>]
  /\ search' = [search EXCEPT ![e] = Idle]
  /\ elapsed' = 0

Kill(S) == alive' = alive \ {process[e] : e \in S}

(* recv_line_until: the next line, the deadline, or the end of the pipe.   *)
LineWaits(e) == elapsed < Budget /\ channel[e] # <<>>
Line(e) == Head(channel[e])
Receive(e) == channel' = [channel EXCEPT ![e] = Tail(@)]

(* Mutant of KeepDeadline: every received line starts the wait again, as   *)
(* with recv_timeout(timeout) in the loop.                                 *)
RestartDeadline == elapsed' = 0

(* The deadline is an instant computed before the loop.                    *)
KeepDeadline == elapsed' = elapsed

TimedOut == elapsed = Budget
Disconnected(e) == elapsed < Budget /\ ~Running(e) /\ channel[e] = <<>>
-----------------------------------------------------------------------------
(* The engine processes.                                                   *)

Prints(e, line) == channel' = [channel EXCEPT ![e] = Append(@, line)]

UsiOk(advertised) == [is |-> "usiok", ok |-> advertised]
ReadyOk(acknowledged) == [is |-> "readyok", ok |-> acknowledged]
BestMove(game) == [is |-> "bestmove", game |-> game]
Info == [is |-> "info"]

(* Reads one command; `options' are the setoptions and isready of the      *)
(* handshake.  Answering isready ends what was being searched.             *)
Hear(e) ==
  /\ Running(e) /\ commands[e] # <<>>
  /\ commands' = [commands EXCEPT ![e] = Tail(@)]
  /\ LET command == Head(commands[e]) IN
       \/ /\ command.name = "usi"
          /\ \E advertised \in BOOLEAN : Prints(e, UsiOk(advertised))
          /\ UNCHANGED search
       \/ /\ command.name = "options"
          /\ \E acknowledged \in BOOLEAN : Prints(e, ReadyOk(acknowledged))
          /\ UNCHANGED search
       \/ /\ command.name = "isready"
          /\ Prints(e, ReadyOk(TRUE))
          /\ search' = [search EXCEPT ![e] = Idle]
       \/ /\ command.name = "go"
          /\ search' = [search EXCEPT ![e] =
                          [game |-> command.game, answers |-> MaxAnswers]]
          /\ UNCHANGED channel
  /\ UNCHANGED <<process, alive, launched, elapsed>>

Answer(e) ==
  /\ Running(e) /\ search[e].answers > 0
  /\ Prints(e, BestMove(search[e].game))
  /\ search' = [search EXCEPT ![e] =
                  [game |-> search[e].game, answers |-> search[e].answers - 1]]
  /\ UNCHANGED <<process, alive, launched, commands, elapsed>>

Chatter(e) ==
  /\ Running(e) /\ (search[e].answers > 0 \/ commands[e] # <<>>)
  /\ Len(channel[e]) < MaxLines
  /\ Prints(e, Info)
  /\ UNCHANGED <<process, alive, launched, commands, search, elapsed>>

Exit(e) ==
  /\ Running(e)
  /\ Kill({e})
  /\ commands' = [commands EXCEPT ![e] = <<>>]
  /\ search' = [search EXCEPT ![e] = Idle]
  /\ UNCHANGED <<process, launched, channel, elapsed>>

Commands == [name : {"usi", "options", "isready", "go"}, game : Nat]
Lines == [is : {"usiok", "readyok"}, ok : BOOLEAN] \cup [is : {"bestmove"}, game : Nat]
           \cup {Info}

Engine(e) == Hear(e) \/ Answer(e) \/ Chatter(e) \/ Exit(e)
=============================================================================
