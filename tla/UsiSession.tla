----------------------------- MODULE UsiSession -----------------------------
(***************************************************************************)
(* The USI front end: the command loop of crates/sekirei-usi/src/main.rs,  *)
(* the lifecycle helpers of session.rs and the one search worker they      *)
(* spawn, abort and join.                                                  *)
(*                                                                         *)
(* Two kinds of threads share `search_generation`, the backend's abort     *)
(* flag and `ponder_result`: the loop, which reads a command and handles   *)
(* it, and a worker, which searches, compares its generation and then      *)
(* prints or retains its result.  A worker is named by the generation it   *)
(* was spawned with.  Every atomic access a worker can race with is a step *)
(* of its own; what the loop does after it has joined the worker is one    *)
(* step, because no other thread is left.                                  *)
(*                                                                         *)
(* `suppress_bm` is never stored true anywhere in the program, so the test *)
(* of it always fails and it has no variable here.                         *)
(***************************************************************************)
EXTENDS Naturals

CONSTANTS
  MaxQuestion,     \* bound: number of `go` commands the GUI sends
  MaxGeneration    \* bound: value of search_generation before `quit`

ASSUME BoundsAssumption == MaxQuestion \in Nat /\ MaxGeneration \in Nat

Questions   == 1 .. MaxQuestion
Generations == 1 .. MaxGeneration
None        == 0                        \* Option::None of a worker
GoCommands  == {"go timed", "go infinite", "go ponder"}
(* Mutants of Invalidating: position only aborts; stop invalidates too.    *)
InvalidatingForgetsPosition == {"usinewgame", "quit"}
InvalidatingAndStop == {"position", "usinewgame", "quit", "stop"}
Invalidating == {"position", "usinewgame", "quit"}
Commands    == GoCommands \cup {"position", "usinewgame", "quit", "setoption",
                                "isready", "stop", "ponderhit"}

VARIABLES
  generation,      \* search_generation
  abort,           \* the abort flag of the current backend
  searchAbort,     \* search_abort is Some
  handle,          \* search_handle: the worker not yet joined, or None
  activePonder,    \* active_ponder
  ponderArgs,      \* ponder_go_args is Some
  ponderResult,    \* ponder_result: whose result is retained, or None
  evalLoaded,      \* loaded_eval_file is Some
  backend,         \* flips whenever searcher, TT or evaluator is replaced
  main,            \* where the loop is
  cmd,             \* the command it handles, or handled last
  completed,       \* ponderhit's `completed`
  worker,          \* where each worker is
  result,          \* its search ran to the end, or was cut off
  question,        \* the `go` it answers
  limited,         \* its search has a time limit
  ponders,         \* its closure was built with `pondering`
  asked,           \* number of `go` commands accepted
  current,         \* the one not superseded, or 0
  answers          \* bestmove lines printed for each of them

loopVars     == <<searchAbort, handle, activePonder, ponderArgs, evalLoaded,
                  backend, main, cmd, completed>>
workerVars   == <<worker, result, question, limited, ponders>>
questionVars == <<asked, current, answers>>
vars == <<generation, abort, ponderResult, loopVars, workerVars, questionVars>>

(* A worker that has been spawned and has not left its closure.            *)
Alive(g) == g \in Generations /\ worker[g] \notin {"none", "exited"}

(* Mutant of Joinable: an option that rebuilds the searcher does not join.  *)
JoinableForOptions == Alive(handle) => cmd = "setoption"
(* JoinHandle::join returns at once without a worker or after its exit.    *)
Joinable == ~Alive(handle)

(* Mutant of IsFinished: ponderhit takes any worker for a finished one.    *)
IsFinishedAssumed == handle # None
(* JoinHandle::is_finished of the worker in search_handle, if there is one *)
IsFinished == handle # None /\ ~Alive(handle)

Init ==
  /\ generation = 0
  /\ abort = FALSE
  /\ searchAbort = FALSE
  /\ handle = None
  /\ activePonder = FALSE
  /\ ponderArgs = FALSE
  /\ ponderResult = None
  /\ evalLoaded \in BOOLEAN      \* weights may be named on the command line
  /\ backend = 0
  /\ main = "idle"
  /\ cmd = "usinewgame"
  /\ completed = FALSE
  /\ worker = [g \in Generations |-> "none"]
  /\ result = [g \in Generations |-> "none"]
  /\ question = [g \in Generations |-> 0]
  /\ limited = [g \in Generations |-> FALSE]
  /\ ponders = [g \in Generations |-> FALSE]
  /\ asked = 0
  /\ current = 0
  /\ answers = [q \in Questions |-> 0]
-----------------------------------------------------------------------------
(* The command loop.  Receiving a command runs the handler up to its call  *)
(* of abort_and_join: an invalidating one bumps the generation first, and  *)
(* ponderhit samples is_finished first.  A ponderhit without a ponder      *)
(* search, an isready with nothing to load and the options that leave the  *)
(* searcher alone change no state and are left out.                        *)
Receivable(c) ==
  /\ c \in GoCommands => asked < MaxQuestion /\ generation < MaxGeneration
  /\ c \in {"position", "usinewgame"} => generation < MaxGeneration
  /\ c = "ponderhit" => activePonder /\ generation < MaxGeneration
  /\ c = "isready" => ~evalLoaded

Receive(c) ==
  /\ main = "idle"
  /\ Receivable(c)
  /\ main' = "abort"
  /\ cmd' = c
  /\ generation' = IF c \in Invalidating THEN generation + 1 ELSE generation
  /\ completed' = (c = "ponderhit" /\ IsFinished)
  /\ UNCHANGED <<abort, ponderResult, searchAbort, handle, activePonder,
                 ponderArgs, evalLoaded, backend, workerVars, questionVars>>

(* Mutant of RequestAbort: the flag is taken but not raised.               *)
RequestAbortSilently ==
  /\ main = "abort"
  /\ main' = "join"
  /\ searchAbort' = FALSE
  /\ UNCHANGED <<generation, abort, ponderResult, handle, activePonder,
                 ponderArgs, evalLoaded, backend, cmd, completed, workerVars,
                 questionVars>>

(* abort_and_join, first half: take search_abort and raise it.             *)
RequestAbort ==
  /\ main = "abort"
  /\ main' = "join"
  /\ abort' = (abort \/ searchAbort)
  /\ searchAbort' = FALSE
  /\ UNCHANGED <<generation, ponderResult, handle, activePonder, ponderArgs,
                 evalLoaded, backend, cmd, completed, workerVars,
                 questionVars>>

(* abort_and_join, second half: the join has returned.  Every handler      *)
(* below continues from here in one step.                                  *)
Joined(c) ==
  /\ main = "join"
  /\ cmd = c
  /\ Joinable
  /\ UNCHANGED <<cmd, completed>>

(* reset_abort_flag, abort_flag and spawn_search_thread.                   *)
Spawn(g, q, hasLimit, pondering) ==
  /\ abort' = FALSE
  /\ searchAbort' = TRUE
  /\ handle' = g
  /\ worker' = [worker EXCEPT ![g] = "searching"]
  /\ question' = [question EXCEPT ![g] = q]
  /\ limited' = [limited EXCEPT ![g] = hasLimit]
  /\ ponders' = [ponders EXCEPT ![g] = pondering]
  /\ UNCHANGED result
-----------------------------------------------------------------------------
Go(c) ==
  LET pondering == c = "go ponder" IN
  /\ Joined(c)
  /\ main' = "idle"
  /\ activePonder' = pondering
  /\ ponderResult' = None
  /\ ponderArgs' = pondering
  /\ generation' = generation + 1
  /\ asked' = asked + 1
  /\ current' = asked + 1
  /\ \/ /\ Spawn(generation + 1, asked + 1, c = "go timed", pondering)
        /\ UNCHANGED answers
     \/ \* the opening book answers and `continue`s
        /\ ~pondering
        /\ answers' = [answers EXCEPT ![asked + 1] = @ + 1]
        /\ handle' = None
        /\ UNCHANGED <<abort, searchAbort, workerVars>>
  /\ UNCHANGED <<evalLoaded, backend>>

(* `position` (its parse error leaves the board, but the old question is   *)
(* gone either way) and `usinewgame`, which also clears the TT.            *)
Supersede(c) ==
  /\ Joined(c)
  /\ main' = "idle"
  /\ handle' = None
  /\ activePonder' = FALSE
  /\ ponderArgs' = FALSE
  /\ ponderResult' = None
  /\ current' = 0
  /\ backend' = IF c = "usinewgame" THEN 1 - backend ELSE backend
  /\ UNCHANGED <<generation, abort, searchAbort, evalLoaded, workerVars,
                 asked, answers>>

(* `quit` or the end of input: the process returns from main.              *)
Quit ==
  /\ Joined("quit")
  /\ main' = "exited"
  /\ handle' = None
  /\ current' = 0
  /\ UNCHANGED <<generation, abort, searchAbort, activePonder, ponderArgs,
                 ponderResult, evalLoaded, backend, workerVars, asked,
                 answers>>

(* An option that rebuilds the searcher: the new one has its own flag.     *)
SetOption ==
  /\ Joined("setoption")
  /\ main' = "idle"
  /\ handle' = None
  /\ backend' = 1 - backend
  /\ abort' = FALSE
  /\ UNCHANGED <<generation, searchAbort, activePonder, ponderArgs,
                 ponderResult, evalLoaded, workerVars, questionVars>>

(* isready with an EvalFile not yet loaded; a failed load changes nothing. *)
IsReady ==
  /\ Joined("isready")
  /\ main' = "idle"
  /\ handle' = None
  /\ \/ evalLoaded' = TRUE /\ backend' = 1 - backend /\ abort' = FALSE
     \/ UNCHANGED <<evalLoaded, backend, abort>>
  /\ UNCHANGED <<generation, searchAbort, activePonder, ponderArgs,
                 ponderResult, workerVars, questionVars>>
-----------------------------------------------------------------------------
(* emit_search_result of a retained result, by the loop.                   *)
EmitRetained ==
  /\ answers' = [answers EXCEPT ![question[ponderResult]] = @ + 1]
  /\ ponderResult' = None

Stop ==
  /\ Joined("stop")
  /\ main' = "idle"
  /\ handle' = None
  /\ activePonder' = FALSE
  /\ ponderArgs' = FALSE
  /\ IF activePonder /\ ponderResult # None
       THEN EmitRetained
       ELSE UNCHANGED <<answers, ponderResult>>
  /\ UNCHANGED <<generation, abort, searchAbort, evalLoaded, backend,
                 workerVars, asked, current>>

(* A completed ponder search answers; otherwise its partial result is      *)
(* discarded and the same question is searched again with its real limits. *)
PonderhitAnswers ==
  /\ Joined("ponderhit")
  /\ completed
  /\ ponderResult # None
  /\ main' = "idle"
  /\ handle' = None
  /\ activePonder' = FALSE
  /\ ponderArgs' = FALSE
  /\ EmitRetained
  /\ UNCHANGED <<generation, abort, searchAbort, evalLoaded, backend,
                 workerVars, asked, current>>

PonderhitRestarts ==
  /\ Joined("ponderhit")
  /\ ~(completed /\ ponderResult # None)
  /\ main' = "idle"
  /\ activePonder' = FALSE
  /\ ponderArgs' = FALSE
  /\ ponderResult' = None
  /\ IF ponderArgs
       THEN /\ generation' = generation + 1
            /\ \E hasLimit \in BOOLEAN :
                 Spawn(generation + 1, current, hasLimit, FALSE)
       ELSE /\ handle' = None
            /\ UNCHANGED <<generation, abort, searchAbort, workerVars>>
  /\ UNCHANGED <<evalLoaded, backend, questionVars>>
-----------------------------------------------------------------------------
(* The worker.  Its search may end by itself (limits, mate, book of        *)
(* repetitions) and ends early once the abort flag is up; the flag is      *)
(* polled, so both remain possible after it is raised.                     *)
EndSearch(g, how) ==
  /\ worker[g] = "searching"
  /\ worker' = [worker EXCEPT ![g] = "finished"]
  /\ result' = [result EXCEPT ![g] = how]
  /\ UNCHANGED <<generation, abort, ponderResult, loopVars, question, limited,
                 ponders, questionVars>>

Complete(g) == EndSearch(g, "complete")
CutOff(g)   == abort /\ EndSearch(g, "partial")

(* Mutant of CheckGeneration: fetch_add's old value names the worker.      *)
CheckPreviousGeneration(g) ==
  /\ worker[g] = "finished"
  /\ worker' = [worker EXCEPT ![g] = IF generation + 1 = g THEN "current"
                                                           ELSE "leaving"]
  /\ UNCHANGED <<generation, abort, ponderResult, loopVars, result, question,
                 limited, ponders, questionVars>>

(* search_generation.load: the worker decides, and acts on it later.       *)
CheckGeneration(g) ==
  /\ worker[g] = "finished"
  /\ worker' = [worker EXCEPT ![g] = IF generation = g THEN "current"
                                                       ELSE "leaving"]
  /\ UNCHANGED <<generation, abort, ponderResult, loopVars, result, question,
                 limited, ponders, questionVars>>

(* A ponder worker stores its result for the loop.                         *)
Retain(g) ==
  /\ worker[g] = "current"
  /\ ponders[g]
  /\ worker' = [worker EXCEPT ![g] = "leaving"]
  /\ ponderResult' = g
  /\ UNCHANGED <<generation, abort, loopVars, result, question, limited,
                 ponders, questionVars>>

(* Mutant of Publish: a ponder worker prints like any other.               *)
PublishWhilePondering(g) ==
  /\ worker[g] = "current"
  /\ worker' = [worker EXCEPT ![g] = "leaving"]
  /\ answers' = [answers EXCEPT ![question[g]] = @ + 1]
  /\ UNCHANGED <<generation, abort, ponderResult, loopVars, result, question,
                 limited, ponders, asked, current>>

(* emit_search_result by the worker: the bestmove line goes out.           *)
Publish(g) ==
  /\ worker[g] = "current"
  /\ ~ponders[g]
  /\ worker' = [worker EXCEPT ![g] = "leaving"]
  /\ answers' = [answers EXCEPT ![question[g]] = @ + 1]
  /\ UNCHANGED <<generation, abort, ponderResult, loopVars, result, question,
                 limited, ponders, asked, current>>

(* The closure has returned; only now does is_finished say so.             *)
Exit(g) ==
  /\ worker[g] = "leaving"
  /\ worker' = [worker EXCEPT ![g] = "exited"]
  /\ UNCHANGED <<generation, abort, ponderResult, loopVars, result, question,
                 limited, ponders, questionVars>>
-----------------------------------------------------------------------------
Handle ==
  \/ \E c \in GoCommands : Go(c)
  \/ \E c \in {"position", "usinewgame"} : Supersede(c)
  \/ Quit
  \/ SetOption
  \/ IsReady
  \/ Stop
  \/ PonderhitAnswers
  \/ PonderhitRestarts

Work(g) ==
  \/ Complete(g)
  \/ CutOff(g)
  \/ CheckGeneration(g)
  \/ Retain(g)
  \/ Publish(g)
  \/ Exit(g)

(* After main returns nothing happens; everywhere else a state without a   *)
(* step would be a session that hangs.                                     *)
Terminated == main = "exited" /\ UNCHANGED vars

Next ==
  \/ \E c \in Commands : Receive(c)
  \/ RequestAbort
  \/ Handle
  \/ \E g \in Generations : Work(g)
  \/ Terminated

Spec == Init /\ [][Next]_vars

(* The scheduler runs the loop inside a handler and the worker outside its *)
(* search.  A search polls the abort flag, and stops at its own limit when *)
(* it has one; nothing forces an unlimited search to end, nor the GUI to   *)
(* send a command.                                                         *)
Fairness ==
  /\ WF_vars(RequestAbort)
  /\ WF_vars(Handle)
  /\ \A g \in Generations :
       /\ WF_vars(CutOff(g))
       /\ WF_vars(limited[g] /\ Complete(g))
       /\ WF_vars(CheckGeneration(g) \/ Retain(g) \/ Publish(g) \/ Exit(g))

FairSpec == Spec /\ Fairness
-----------------------------------------------------------------------------
(* Every variable has its type; only a ponder worker's result is retained, *)
(* and search_abort is Some only while search_handle is.                   *)
LoopTypeOK ==
  /\ abort \in BOOLEAN
  /\ searchAbort \in BOOLEAN
  /\ activePonder \in BOOLEAN
  /\ ponderArgs \in BOOLEAN
  /\ evalLoaded \in BOOLEAN
  /\ backend \in {0, 1}
  /\ main \in {"idle", "abort", "join", "exited"}
  /\ cmd \in Commands
  /\ completed \in BOOLEAN
WorkerTypeOK ==
  /\ generation \in 0 .. MaxGeneration + 1
  /\ handle \in Generations \cup {None}
  /\ worker \in [Generations -> {"none", "searching", "finished", "current",
                                 "leaving", "exited"}]
  /\ result \in [Generations -> {"none", "complete", "partial"}]
  /\ question \in [Generations -> Questions \cup {0}]
  /\ limited \in [Generations -> BOOLEAN]
  /\ ponders \in [Generations -> BOOLEAN]
QuestionTypeOK ==
  /\ asked \in Questions \cup {0}
  /\ current \in Questions \cup {0}
  /\ answers \in [Questions -> Nat]
TypeOK ==
  /\ LoopTypeOK
  /\ WorkerTypeOK
  /\ QuestionTypeOK
  /\ ponderResult \in {None} \cup {g \in Generations : ponders[g]}
  /\ searchAbort => handle # None

(* There is one search in flight and the loop holds its handle: no path    *)
(* through the handlers leaks a worker or starts a second one beside it.   *)
SingleWorker == \A g \in Generations : Alive(g) => handle = g

(* No `go` receives two bestmove lines, whoever prints them.               *)
AtMostOneAnswer == \A q \in Questions : answers[q] <= 1

(* Between two commands an unanswered question is never forgotten: a       *)
(* worker that will print it is under way with the live generation, or,    *)
(* while pondering, one that will retain it or a result already retained.  *)
(* So after `stop` or a rebuilding option an ordinary `go` has its         *)
(* bestmove out before the next command is answered.                       *)
WorkerOwes(pondering) ==
  /\ handle # None
  /\ handle = generation
  /\ worker[handle] \in {"searching", "finished", "current"}
  /\ question[handle] = current
  /\ ponders[handle] = pondering
NoSilentEngine ==
  main = "idle" /\ current # 0 /\ answers[current] = 0 =>
    IF activePonder
      THEN \/ WorkerOwes(TRUE)
           \/ ponderResult # None /\ question[ponderResult] = current
      ELSE WorkerOwes(FALSE)

(* A search that is still running when position, usinewgame or quit        *)
(* arrives is neither printed nor retained, however late it finishes.      *)
NothingPublishedAfterInvalidation ==
  [][\A g \in Generations :
       worker[g] = "finished" /\ worker'[g] = "current" =>
         ~(main # "idle" /\ cmd \in {"position", "usinewgame", "quit"})]_vars

(* ponderhit answers only from a ponder search that ran to its end, never  *)
(* from the partial result its own abort produced.                         *)
PonderhitAnswersComplete ==
  [][main = "join" /\ main' = "idle" /\ cmd = "ponderhit"
       /\ answers' # answers => result[ponderResult] = "complete"]_vars

(* The searcher, its transposition table and the process-wide evaluator    *)
(* are replaced or cleared only while no worker can observe them.          *)
SharedStateQuiescent ==
  [][backend' # backend => \A g \in Generations : ~Alive(g)]_vars

(* The session implements what UsiAnswers promises the GUI.                *)
Mode ==
  CASE current = 0 -> "none"
    [] current # 0 /\ answers[current] > 0 -> "answered"
    [] current # 0 /\ answers[current] = 0 /\ activePonder -> "pondering"
    [] OTHER -> "thinking"
Promise == INSTANCE UsiAnswers WITH mode <- Mode
ImplementsUsiAnswers == Promise!Spec

(* Every handler returns: the worker it aborts always reaches its exit, so *)
(* neither stop nor quit can hang behind `go infinite`.                    *)
HandlersReturn == main \in {"abort", "join"} ~> main \in {"idle", "exited"}

(* A `go` whose search has a limit is answered without any further command *)
(* unless a later command withdraws or replaces the question.              *)
LimitedGoIsAnswered ==
  \A q \in Questions :
    (current = q /\ ~activePonder /\ handle # None /\ limited[handle]
       /\ question[handle] = q) ~> (answers[q] = 1 \/ current # q)

=============================================================================
