-------------------------- MODULE UsiSessionProofs --------------------------
(***************************************************************************)
(* Safety of the USI session for every number of questions and             *)
(* generations.  The invariant IInv is the conjunction of the named parts  *)
(* below; each lemma shows that a step preserves one of them, action by    *)
(* action, from the parts it rests on.                                     *)
(***************************************************************************)
EXTENDS UsiSession, TLAPS

(* What Receive has checked still holds when the handler continues, and    *)
(* search_abort is Some exactly while a worker can still be aborted.       *)
LoopInv ==
  /\ generation > MaxGeneration => main # "idle" /\ cmd = "quit"
  /\ main \in {"abort", "join"} =>
       /\ cmd \in GoCommands =>
            asked < MaxQuestion /\ generation < MaxGeneration
       /\ cmd = "ponderhit" => activePonder /\ generation < MaxGeneration
       /\ completed => cmd = "ponderhit"
  /\ searchAbort <=> main \in {"idle", "abort"} /\ handle # None
  /\ main = "exited" => handle = None
  /\ ponderArgs <=> activePonder

(* The worker in search_handle was spawned, under a generation that is     *)
(* still live unless the command being handled has invalidated it.         *)
HandleInv ==
  /\ handle # None => worker[handle] # "none"
  /\ handle <= generation
  /\ main \in {"abort", "join"} /\ cmd \in Invalidating => handle < generation

(* The worker can still print or retain.                                   *)
Busy(g) == worker[g] \in {"searching", "finished", "current"}

(* A busy worker searches the current question, which is the newest one    *)
(* and still unanswered, and it ponders exactly while the loop does; a     *)
(* retained result is the current question's too.                          *)
PendingInv ==
  /\ current \in {0, asked}
  /\ \A q \in Questions : q > asked => answers[q] = 0
  /\ \A g \in Generations :
       Busy(g) => /\ question[g] = current
                  /\ current # 0
                  /\ answers[current] = 0
                  /\ ponders[g] <=> activePonder
  /\ ponderResult # None /\ main # "exited" =>
       activePonder /\ question[ponderResult] = current
  /\ activePonder /\ main # "exited" => current # 0 /\ answers[current] = 0

(* The abort flag goes up only when search_abort is taken, so a worker     *)
(* that was not yet asked to stop has no partial result; what ponderhit    *)
(* found finished before it raised the flag is therefore complete.         *)
PartialInv ==
  /\ searchAbort => ~abort
  /\ searchAbort /\ worker[handle] # "searching" => result[handle] = "complete"
  /\ handle # None /\ ponderResult # None => ponderResult = handle
  /\ completed /\ main \in {"abort", "join"} =>
       /\ handle # None
       /\ worker[handle] = "exited"
       /\ result[handle] = "complete"

(* NoSilentEngine carried through the handlers that do not withdraw the    *)
(* question: until they have joined the worker, it still owes the answer.  *)
OwedInv ==
  \/ main = "exited"
  \/ main \in {"abort", "join"} /\ cmd \in Invalidating
  \/ current = 0
  \/ answers[current] # 0
  \/ ~activePonder /\ WorkerOwes(FALSE)
  \/ activePonder /\ WorkerOwes(TRUE)
  \/ activePonder /\ ponderResult # None /\ question[ponderResult] = current

IInv ==
  /\ TypeOK
  /\ LoopInv
  /\ SingleWorker
  /\ HandleInv
  /\ AtMostOneAnswer
  /\ PendingInv
  /\ PartialInv
  /\ OwedInv
-----------------------------------------------------------------------------
USE BoundsAssumption DEF Questions, Generations, None, loopVars, workerVars,
      questionVars

(* Type correctness, which rests on what Receive has checked.              *)
LEMMA LoopTypeInductive == LoopTypeOK /\ [Next]_vars => LoopTypeOK'
<1> SUFFICES ASSUME LoopTypeOK, [Next]_vars PROVE LoopTypeOK'
  OBVIOUS
<1> USE DEF LoopTypeOK
<1>1. ASSUME NEW c \in Commands, Receive(c) PROVE LoopTypeOK'
  BY <1>1 DEF Receive
<1>2. CASE RequestAbort
  BY <1>2 DEF RequestAbort
<1>3. ASSUME NEW c \in GoCommands, Go(c) PROVE LoopTypeOK'
  BY <1>3 DEF Go, Joined, Spawn
<1>4. ASSUME NEW c \in {"position", "usinewgame"}, Supersede(c)
      PROVE  LoopTypeOK'
  <2>1. backend' \in {0, 1}
    BY <1>4 DEF Supersede
  <2>2. QED
    BY <1>4, <2>1 DEF Supersede, Joined
<1>5. CASE Quit
  BY <1>5 DEF Quit, Joined
<1>6. CASE SetOption
  <2>1. backend' \in {0, 1}
    BY <1>6 DEF SetOption
  <2>2. QED
    BY <1>6, <2>1 DEF SetOption, Joined
<1>7. CASE IsReady
  <2>1. backend' \in {0, 1}
    BY <1>7 DEF IsReady
  <2>2. QED
    BY <1>7, <2>1 DEF IsReady, Joined
<1>8. CASE Stop
  BY <1>8 DEF Stop, Joined
<1>9. CASE PonderhitAnswers
  BY <1>9 DEF PonderhitAnswers, Joined
<1>10. CASE PonderhitRestarts
  BY <1>10 DEF PonderhitRestarts, Joined, Spawn
<1>11. ASSUME NEW g \in Generations, Work(g) PROVE LoopTypeOK'
  BY <1>11 DEF Work, Complete, CutOff, EndSearch, CheckGeneration, Retain,
               Publish, Exit
<1>12. CASE UNCHANGED vars
  BY <1>12 DEF vars
<1>13. QED
  BY <1>1, <1>2, <1>3, <1>4, <1>5, <1>6, <1>7, <1>8, <1>9, <1>10, <1>11,
     <1>12 DEF Next, Handle, Terminated

(* A spawned worker has the types of a worker.                             *)
LEMMA SpawnType ==
  ASSUME TypeOK, NEW q \in Questions \cup {0}, NEW hasLimit \in BOOLEAN,
         NEW pondering \in BOOLEAN, generation < MaxGeneration,
         Spawn(generation + 1, q, hasLimit, pondering),
         generation' = generation + 1
  PROVE  /\ WorkerTypeOK'
         /\ handle' # None
<1> DEFINE g == generation + 1
<1>1. g \in Generations
  BY DEF TypeOK, WorkerTypeOK
<1>2. /\ worker' = [worker EXCEPT ![g] = "searching"]
      /\ question' = [question EXCEPT ![g] = q]
      /\ limited' = [limited EXCEPT ![g] = hasLimit]
      /\ ponders' = [ponders EXCEPT ![g] = pondering]
      /\ result' = result
      /\ handle' = g
      /\ generation' = g
  BY DEF Spawn
<1> HIDE DEF g
<1>3. QED
  BY <1>1, <1>2 DEF TypeOK, WorkerTypeOK

(* Counting one more answer keeps the type of the counters.                *)
LEMMA CountType ==
  ASSUME NEW S, NEW f \in [S -> Nat], NEW x
  PROVE  [f EXCEPT ![x] = @ + 1] \in [S -> Nat]
<1>1. CASE x \in S
  <2>1. f[x] + 1 \in Nat
    BY <1>1
  <2>2. QED
    BY <1>1, <2>1
<1>2. CASE x \notin S
  BY <1>2
<1>3. QED
  BY <1>1, <1>2

(* What each step of a worker changes.                                     *)
LEMMA WorkType ==
  ASSUME TypeOK, NEW g \in Generations, Work(g)
  PROVE  /\ WorkerTypeOK'
         /\ QuestionTypeOK'
         /\ ponderResult' \in {ponderResult, g}
         /\ ponderResult' = g => ponders[g] \/ ponderResult = g
<1> USE DEF TypeOK, WorkerTypeOK, QuestionTypeOK
<1>1. CASE Complete(g) \/ CutOff(g) \/ CheckGeneration(g) \/ Exit(g)
  BY <1>1 DEF Complete, CutOff, EndSearch, CheckGeneration, Exit
<1>2. CASE Retain(g)
  BY <1>2 DEF Retain
<1>3. CASE Publish(g)
  <2>1. answers' \in [Questions -> Nat]
    BY <1>3, CountType DEF Publish
  <2>2. QuestionTypeOK'
    BY <1>3, <2>1 DEF Publish
  <2>3. QED
    BY <1>3, <2>2 DEF Publish
<1>4. QED
  BY <1>1, <1>2, <1>3 DEF Work

LEMMA TypeInductive == TypeOK /\ LoopInv /\ [Next]_vars => TypeOK'
<1> SUFFICES ASSUME TypeOK, LoopInv, [Next]_vars PROVE TypeOK'
  OBVIOUS
<1> USE DEF TypeOK, WorkerTypeOK, QuestionTypeOK
<1>0. LoopTypeOK'
  BY LoopTypeInductive
<1>1. ASSUME NEW c \in Commands, Receive(c) PROVE TypeOK'
  <2>1. generation' \in 0 .. MaxGeneration + 1
    BY <1>1 DEF Receive, Receivable, LoopInv, Invalidating
  <2>2. QED
    BY <1>0, <1>1, <2>1 DEF Receive
<1>2. CASE RequestAbort
  BY <1>0, <1>2 DEF RequestAbort
<1>3. main = "join" => ~searchAbort
  BY DEF LoopInv
<1>4. ASSUME NEW c \in GoCommands, Go(c) PROVE TypeOK'
  <2>0. main = "join" /\ cmd = c
    BY <1>4 DEF Go, Joined
  <2>1. asked + 1 \in Questions /\ generation < MaxGeneration
    BY <2>0 DEF LoopInv
  <2>2. generation' = generation + 1
    BY <1>4 DEF Go
  <2>3. WorkerTypeOK' /\ (searchAbort' => handle' # None)
    <3>1. CASE Spawn(generation + 1, asked + 1, c = "go timed", c = "go ponder")
      BY <2>1, <2>2, <3>1, SpawnType
    <3>2. CASE UNCHANGED <<searchAbort, workerVars>> /\ handle' = None
      BY <1>3, <2>0, <2>1, <2>2, <3>2
    <3>3. QED
      BY <1>4, <3>1, <3>2 DEF Go
  <2>4. answers' \in [Questions -> Nat]
    <3>1. CASE answers' = answers
      BY <3>1
    <3>2. CASE answers' = [answers EXCEPT ![asked + 1] = @ + 1]
      BY <3>2, CountType
    <3>3. QED
      BY <1>4, <3>1, <3>2 DEF Go
  <2>5. QED
    BY <1>0, <1>4, <2>1, <2>3, <2>4 DEF Go
<1>5. ASSUME NEW c \in {"position", "usinewgame"}, Supersede(c) PROVE TypeOK'
  BY <1>0, <1>3, <1>5 DEF Supersede, Joined
<1>6. CASE Quit
  BY <1>0, <1>3, <1>6 DEF Quit, Joined
<1>7. CASE SetOption
  BY <1>0, <1>3, <1>7 DEF SetOption, Joined
<1>8. CASE IsReady
  BY <1>0, <1>3, <1>8 DEF IsReady, Joined
<1>9. CASE Stop \/ PonderhitAnswers
  <2>1. ponderResult' \in {ponderResult, None}
    BY <1>9 DEF Stop, PonderhitAnswers, EmitRetained
  <2>2. answers' \in [Questions -> Nat]
    <3>1. CASE answers' = answers
      BY <3>1
    <3>2. CASE answers' = [answers EXCEPT ![question[ponderResult]] = @ + 1]
      BY <3>2, CountType
    <3>3. QED
      BY <1>9, <3>1, <3>2 DEF Stop, PonderhitAnswers, EmitRetained
  <2>3. UNCHANGED <<generation, searchAbort, workerVars, asked, current>>
        /\ handle' = None /\ main = "join"
    BY <1>9 DEF Stop, PonderhitAnswers, Joined
  <2>4. QED
    BY <1>0, <1>3, <2>1, <2>2, <2>3
<1>10. CASE PonderhitRestarts
  <2>1. generation < MaxGeneration
    BY <1>10 DEF PonderhitRestarts, Joined, LoopInv
  <2>2. CASE ponderArgs
    <3>1. PICK hasLimit \in BOOLEAN :
            /\ generation' = generation + 1
            /\ Spawn(generation + 1, current, hasLimit, FALSE)
      BY <1>10, <2>2 DEF PonderhitRestarts
    <3>2. WorkerTypeOK' /\ handle' # None
      BY <2>1, <3>1, SpawnType
    <3>3. QED
      BY <1>0, <1>10, <3>2 DEF PonderhitRestarts
  <2>3. CASE ~ponderArgs
    BY <1>0, <1>3, <1>10, <2>3 DEF PonderhitRestarts, Joined
  <2>4. QED
    BY <2>2, <2>3
<1>11. ASSUME NEW g \in Generations, Work(g) PROVE TypeOK'
  <2>1. UNCHANGED <<ponders, searchAbort, handle>>
    BY <1>11 DEF Work, Complete, CutOff, EndSearch, CheckGeneration, Retain,
                 Publish, Exit
  <2>2. QED
    BY <1>0, <1>11, <2>1, WorkType
<1>12. CASE UNCHANGED vars
  BY <1>12, <1>0 DEF vars
<1>13. QED
  BY <1>1, <1>2, <1>4, <1>5, <1>6, <1>7, <1>8, <1>9, <1>10, <1>11,
     <1>12 DEF Next, Handle, Terminated
-----------------------------------------------------------------------------
(* A step of a worker moves it on and leaves the loop's own state alone.   *)
LEMMA WorkFrame ==
  ASSUME TypeOK, NEW g \in Generations, Work(g)
  PROVE  /\ UNCHANGED <<generation, abort, loopVars, question, limited, ponders,
                        asked, current>>
         /\ Alive(g)
         /\ worker' = [worker EXCEPT ![g] = worker'[g]]
         /\ worker'[g] \in {"finished", "current", "leaving", "exited"}
<1>1. CASE Complete(g) \/ CutOff(g)
  BY <1>1 DEF Complete, CutOff, EndSearch, Alive, TypeOK, WorkerTypeOK
<1>2. CASE CheckGeneration(g)
  BY <1>2 DEF CheckGeneration, Alive, TypeOK, WorkerTypeOK
<1>3. CASE Retain(g)
  BY <1>3 DEF Retain, Alive, TypeOK, WorkerTypeOK
<1>4. CASE Publish(g)
  BY <1>4 DEF Publish, Alive, TypeOK, WorkerTypeOK
<1>5. CASE Exit(g)
  BY <1>5 DEF Exit, Alive, TypeOK, WorkerTypeOK
<1>6. QED
  BY <1>1, <1>2, <1>3, <1>4, <1>5 DEF Work

(* Once a handler has joined, no worker is left.                           *)
LEMMA NobodyAlive ==
  ASSUME SingleWorker, Joinable, NEW g
  PROVE  ~Alive(g)
BY DEF SingleWorker, Joinable, Alive

LEMMA LoopInductive == TypeOK /\ LoopInv /\ [Next]_vars => LoopInv'
<1> SUFFICES ASSUME TypeOK, LoopInv, [Next]_vars PROVE LoopInv'
  OBVIOUS
<1> USE DEF LoopInv, TypeOK, LoopTypeOK, WorkerTypeOK, QuestionTypeOK
<1>1. ASSUME NEW c \in Commands, Receive(c) PROVE LoopInv'
  <2>1. /\ main = "idle" /\ main' = "abort"
        /\ generation' = generation \/ generation' = generation + 1
        /\ cmd' = c
        /\ UNCHANGED <<searchAbort, handle, asked, activePonder, ponderArgs>>
    BY <1>1 DEF Receive
  <2>2. generation' > MaxGeneration => cmd' = "quit"
    BY <1>1, <2>1 DEF Receive, Receivable, Invalidating
  <2>3. /\ c \in GoCommands => asked < MaxQuestion /\ generation < MaxGeneration
        /\ c = "ponderhit" => activePonder /\ generation < MaxGeneration
    BY <1>1 DEF Receive, Receivable
  <2>4. c \in GoCommands \cup {"ponderhit"} => generation' = generation
    BY <1>1 DEF Receive, Invalidating, GoCommands
  <2>5. completed' => c = "ponderhit"
    BY <1>1 DEF Receive
  <2>6. QED
    BY <2>1, <2>2, <2>3, <2>4, <2>5
<1>2. CASE RequestAbort
  BY <1>2 DEF RequestAbort
<1>3. ASSUME NEW c \in GoCommands, Go(c) PROVE LoopInv'
  <2>1. main = "join" /\ cmd = c
    BY <1>3 DEF Go, Joined
  <2>2. generation < MaxGeneration /\ ~searchAbort
    BY <2>1
  <2>3. searchAbort' <=> handle' # None
    <3>1. CASE searchAbort' = TRUE /\ handle' = generation + 1
      BY <3>1
    <3>2. CASE searchAbort' = searchAbort /\ handle' = None
      BY <2>2, <3>2
    <3>3. QED
      BY <1>3, <3>1, <3>2 DEF Go, Spawn
  <2>4. /\ main' = "idle"
        /\ generation' = generation + 1
        /\ ponderArgs' <=> activePonder'
    BY <1>3 DEF Go
  <2>5. QED
    BY <2>2, <2>3, <2>4
<1>4. ASSUME NEW c \in {"position", "usinewgame"}, Supersede(c) PROVE LoopInv'
  BY <1>4 DEF Supersede, Joined, GoCommands
<1>5. CASE Quit
  BY <1>5 DEF Quit, Joined
<1>6. CASE SetOption
  BY <1>6 DEF SetOption, Joined
<1>7. CASE IsReady
  BY <1>7 DEF IsReady, Joined
<1>8. CASE Stop
  BY <1>8 DEF Stop, Joined
<1>9. CASE PonderhitAnswers
  BY <1>9 DEF PonderhitAnswers, Joined
<1>10. CASE PonderhitRestarts
  <2>1. generation < MaxGeneration
    BY <1>10 DEF PonderhitRestarts, Joined
  <2>2. searchAbort' <=> handle' # None
    BY <1>10, <2>1 DEF PonderhitRestarts, Joined, Spawn
  <2>3. QED
    BY <1>10, <2>1, <2>2 DEF PonderhitRestarts, Joined
<1>11. ASSUME NEW g \in Generations, Work(g) PROVE LoopInv'
  <2>1. UNCHANGED <<generation, loopVars, asked>>
    BY <1>11, WorkFrame
  <2>2. QED
    BY <2>1
<1>12. CASE UNCHANGED vars
  BY <1>12 DEF vars
<1>13. QED
  BY <1>1, <1>2, <1>3, <1>4, <1>5, <1>6, <1>7, <1>8, <1>9, <1>10, <1>11,
     <1>12 DEF Next, Handle, Terminated

(* No second worker: a search is only spawned after the join.              *)
LEMMA SingleInductive ==
  TypeOK /\ LoopInv /\ SingleWorker /\ [Next]_vars => SingleWorker'
<1> SUFFICES ASSUME TypeOK, LoopInv, SingleWorker, [Next]_vars,
                    NEW h \in Generations, Alive(h)'
             PROVE  handle' = h
  BY DEF SingleWorker
<1> USE DEF Alive
<1>1. CASE UNCHANGED <<worker, handle>>
  BY <1>1 DEF SingleWorker
<1>2. ASSUME NEW c \in GoCommands, Go(c) PROVE handle' = h
  <2>1. ~Alive(h)
    BY <1>2, NobodyAlive DEF Go, Joined
  <2>2. /\ worker' = [worker EXCEPT ![generation + 1] = "searching"]
        /\ handle' = generation + 1
    BY <1>2, <2>1 DEF Go, Spawn
  <2>3. QED
    BY <2>1, <2>2 DEF TypeOK, WorkerTypeOK
<1>3. CASE PonderhitRestarts
  <2>1. ~Alive(h)
    BY <1>3, NobodyAlive DEF PonderhitRestarts, Joined
  <2>2. /\ worker' = [worker EXCEPT ![generation + 1] = "searching"]
        /\ handle' = generation + 1
    BY <1>3, <2>1 DEF PonderhitRestarts, Spawn
  <2>3. QED
    BY <2>1, <2>2 DEF TypeOK, WorkerTypeOK
<1>4. CASE Joinable /\ UNCHANGED worker
  BY <1>4, NobodyAlive
<1>5. ASSUME NEW g \in Generations, Work(g) PROVE handle' = h
  <2>1. handle = g /\ handle' = handle
    BY <1>5, WorkFrame DEF SingleWorker, loopVars
  <2>2. h # g => Alive(h)
    BY <1>5, WorkFrame DEF TypeOK, WorkerTypeOK
  <2>3. QED
    BY <2>1, <2>2 DEF SingleWorker
<1>6. ASSUME NEW c \in {"position", "usinewgame"}, Supersede(c)
      PROVE  Joinable /\ UNCHANGED worker
  BY <1>6 DEF Supersede, Joined
<1>7. CASE Quit \/ SetOption \/ IsReady \/ Stop \/ PonderhitAnswers
  BY <1>4, <1>7 DEF Quit, SetOption, IsReady, Stop, PonderhitAnswers, Joined
<1>8. ASSUME NEW c \in Commands, Receive(c) PROVE UNCHANGED <<worker, handle>>
  BY <1>8 DEF Receive
<1>9. CASE RequestAbort \/ UNCHANGED vars
  BY <1>1, <1>9 DEF RequestAbort, vars
<1>10. QED
  BY <1>1, <1>2, <1>3, <1>4, <1>5, <1>6, <1>7, <1>8, <1>9
     DEF Next, Handle, Terminated

(* What a spawn leaves behind.                                             *)
LEMMA SpawnEffect ==
  ASSUME TypeOK, generation < MaxGeneration, NEW q, NEW hasLimit, NEW pondering,
         Spawn(generation + 1, q, hasLimit, pondering)
  PROVE  /\ handle' = generation + 1
         /\ handle' \in Generations
         /\ worker'[handle'] = "searching"
         /\ question'[handle'] = q
         /\ ponders'[handle'] = pondering
         /\ abort' = FALSE
<1>1. generation + 1 \in Generations
  BY DEF TypeOK, WorkerTypeOK
<1>2. QED
  BY <1>1 DEF Spawn, TypeOK, WorkerTypeOK

(* What a handler that has joined the worker does about it: drop its       *)
(* handle, or spawn another one.                                           *)
Drops ==
  /\ main = "join"
  /\ main' \in {"idle", "exited"}
  /\ Joinable
  /\ handle' = None
  /\ UNCHANGED <<searchAbort, workerVars>>
  /\ generation' \in {generation, generation + 1}
Spawns(q, pondering) ==
  /\ main = "join"
  /\ main' = "idle"
  /\ Joinable
  /\ generation < MaxGeneration
  /\ generation' = generation + 1
  /\ \E hasLimit \in BOOLEAN : Spawn(generation + 1, q, hasLimit, pondering)
  /\ ponderResult' = None
  /\ activePonder' = pondering

LEMMA SpawnsEffect ==
  ASSUME TypeOK, NEW q, NEW pondering, Spawns(q, pondering)
  PROVE  /\ handle' = generation'
         /\ handle' # None
         /\ worker'[handle'] = "searching"
         /\ question'[handle'] = q
         /\ ponders'[handle'] = pondering
         /\ abort' = FALSE
<1>1. PICK hasLimit \in BOOLEAN : Spawn(generation + 1, q, hasLimit, pondering)
  BY DEF Spawns
<1>2. generation < MaxGeneration /\ generation' = generation + 1
  BY DEF Spawns
<1>3. generation \in Nat
  BY DEF TypeOK, WorkerTypeOK
<1>4. /\ handle' = generation + 1
      /\ worker'[handle'] = "searching"
      /\ question'[handle'] = q
      /\ ponders'[handle'] = pondering
      /\ abort' = FALSE
  BY <1>1, <1>2, SpawnEffect, Zenon
<1>5. handle' = generation' /\ handle' # None
  BY <1>2, <1>3, <1>4
<1>6. QED
  BY <1>4, <1>5, Zenon

(* A book move drops the handle, every other `go` spawns.                  *)
LEMMA GoClassified ==
  ASSUME LoopInv, NEW c \in GoCommands, Go(c)
  PROVE  \/ Spawns(asked + 1, c = "go ponder") /\ answers' = answers
         \/ /\ Drops
            /\ c # "go ponder"
            /\ answers' = [answers EXCEPT ![asked + 1] = @ + 1]
<1>1. main = "join" /\ cmd = c /\ Joinable
  BY DEF Go, Joined
<1>2. generation < MaxGeneration
  BY <1>1 DEF LoopInv
<1>3. /\ generation' = generation + 1
      /\ main' = "idle"
      /\ ponderResult' = None
      /\ activePonder' = (c = "go ponder")
      /\ \/ /\ Spawn(generation + 1, asked + 1, c = "go timed", c = "go ponder")
            /\ answers' = answers
         \/ /\ handle' = None
            /\ UNCHANGED <<searchAbort, workerVars>>
            /\ c # "go ponder"
            /\ answers' = [answers EXCEPT ![asked + 1] = @ + 1]
  BY DEF Go
<1>4. QED
  BY <1>1, <1>2, <1>3 DEF Drops, Spawns

LEMMA HandlersClassified ==
  ASSUME LoopInv
  PROVE  /\ \A c \in {"position", "usinewgame"} : Supersede(c) => Drops
         /\ Quit \/ SetOption \/ IsReady \/ Stop \/ PonderhitAnswers => Drops
         /\ PonderhitRestarts => Spawns(current, FALSE)
<1>2. ASSUME NEW c \in {"position", "usinewgame"}, Supersede(c) PROVE Drops
  BY <1>2 DEF Supersede, Joined, Drops
<1>3. ASSUME Quit \/ SetOption \/ IsReady \/ Stop \/ PonderhitAnswers
      PROVE  Drops
  BY <1>3 DEF Quit, SetOption, IsReady, Stop, PonderhitAnswers, Joined, Drops
<1>4. ASSUME PonderhitRestarts PROVE Spawns(current, FALSE)
  <2>1. main = "join" /\ cmd = "ponderhit" /\ Joinable
    BY <1>4 DEF PonderhitRestarts, Joined
  <2>2. generation < MaxGeneration /\ ponderArgs
    BY <2>1 DEF LoopInv
  <2>3. QED
    BY <1>4, <2>1, <2>2 DEF PonderhitRestarts, Spawns
<1>5. QED
  BY <1>2, <1>3, <1>4

LEMMA Classified ==
  ASSUME LoopInv, [Next]_vars
  PROVE  \/ \E c \in Commands : Receive(c)
         \/ RequestAbort
         \/ Drops
         \/ \E c \in GoCommands : Go(c) /\ Spawns(asked + 1, c = "go ponder")
         \/ PonderhitRestarts /\ Spawns(current, FALSE)
         \/ \E g \in Generations : Work(g)
         \/ UNCHANGED vars
<1>1. Handle => \/ Drops
                \/ \E c \in GoCommands : Go(c) /\ Spawns(asked + 1, c = "go ponder")
                \/ PonderhitRestarts /\ Spawns(current, FALSE)
  BY GoClassified, HandlersClassified DEF Handle
<1>2. QED
  BY <1>1 DEF Next, Terminated

LEMMA HandleInductive ==
  /\ TypeOK /\ LoopInv /\ SingleWorker /\ HandleInv
  /\ [Next]_vars
  => HandleInv'
<1> SUFFICES ASSUME TypeOK, LoopInv, SingleWorker, HandleInv, [Next]_vars
             PROVE  HandleInv'
  OBVIOUS
<1> USE DEF HandleInv
<1>0. generation \in Nat /\ handle \in Nat
  BY DEF TypeOK, WorkerTypeOK
<1>1. ASSUME NEW c \in Commands, Receive(c) PROVE HandleInv'
  BY <1>0, <1>1 DEF Receive
<1>2. CASE RequestAbort
  BY <1>2 DEF RequestAbort
<1>3. CASE Drops
  BY <1>0, <1>3 DEF Drops
<1>4. ASSUME NEW q, NEW pondering, Spawns(q, pondering) PROVE HandleInv'
  <2>1. handle' = generation' /\ worker'[handle'] = "searching"
    BY <1>4, SpawnsEffect
  <2>2. QED
    BY <1>0, <1>4, <2>1 DEF Spawns
<1>5. ASSUME NEW g \in Generations, Work(g) PROVE HandleInv'
  <2>1. UNCHANGED <<generation, handle, main, cmd>> /\ handle = g
    BY <1>5, WorkFrame DEF SingleWorker, loopVars
  <2>2. worker'[g] # "none"
    BY <1>5, WorkFrame
  <2>3. QED
    BY <2>1, <2>2
<1>6. CASE UNCHANGED vars
  BY <1>6 DEF vars
<1>7. QED
  BY <1>1, <1>2, <1>3, <1>4, <1>5, <1>6, Classified

LEMMA PartialInductive ==
  /\ TypeOK /\ LoopInv /\ SingleWorker /\ HandleInv /\ PartialInv
  /\ [Next]_vars
  => PartialInv'
<1> SUFFICES ASSUME TypeOK, LoopInv, SingleWorker, HandleInv, PartialInv,
                    [Next]_vars
             PROVE  PartialInv'
  OBVIOUS
<1> USE DEF PartialInv
<1>1. ASSUME NEW c \in Commands, Receive(c) PROVE PartialInv'
  <2>1. /\ main = "idle"
        /\ main' = "abort"
        /\ UNCHANGED <<abort, searchAbort, handle, worker, result, ponderResult>>
        /\ completed' => IsFinished
    BY <1>1 DEF Receive, workerVars
  <2>2. IsFinished => /\ handle # None
                      /\ worker[handle] = "exited"
                      /\ result[handle] = "complete"
    <3>1. SUFFICES ASSUME IsFinished
                   PROVE  handle # None /\ worker[handle] = "exited"
                            /\ result[handle] = "complete"
      OBVIOUS
    <3>2. handle # None /\ worker[handle] = "exited"
      BY <3>1 DEF IsFinished, Alive, HandleInv, TypeOK, WorkerTypeOK
    <3>3. searchAbort
      BY <2>1, <3>2 DEF LoopInv
    <3>4. QED
      BY <3>2, <3>3
  <2>3. QED
    BY <2>1, <2>2
<1>2. CASE RequestAbort
  <2>1. /\ main = "abort"
        /\ searchAbort' = FALSE
        /\ UNCHANGED <<handle, worker, result, ponderResult, completed>>
    BY <1>2 DEF RequestAbort, workerVars
  <2>2. QED
    BY <2>1
<1>3. CASE Drops
  <2>1. ~searchAbort
    BY <1>3 DEF Drops, LoopInv
  <2>2. QED
    BY <1>3, <2>1 DEF Drops
<1>4. ASSUME NEW q, NEW pondering, Spawns(q, pondering) PROVE PartialInv'
  <2>1. worker'[handle'] = "searching" /\ abort' = FALSE
    BY <1>4, SpawnsEffect
  <2>2. QED
    BY <1>4, <2>1 DEF Spawns
<1>5. ASSUME NEW g \in Generations, Work(g) PROVE PartialInv'
  <2>1. /\ UNCHANGED <<abort, searchAbort, handle, main, completed>>
        /\ handle = g
        /\ Alive(g)
    BY <1>5, WorkFrame DEF SingleWorker, loopVars
  <2>2. ~(completed /\ main \in {"abort", "join"})
    BY <2>1 DEF Alive
  <2>3. ponderResult' \in {ponderResult, g}
    BY <1>5, WorkType
  <2>4. searchAbort => result'[g] = "complete"
    <3>1. CASE Complete(g)
      BY <3>1 DEF Complete, EndSearch, TypeOK, WorkerTypeOK
    <3>2. CASE CutOff(g)
      BY <3>2 DEF CutOff
    <3>3. CASE worker[g] # "searching" /\ UNCHANGED result
      BY <2>1, <3>3
    <3>4. QED
      BY <1>5, <3>1, <3>2, <3>3 DEF Work, CheckGeneration, Retain, Publish, Exit
  <2>5. QED
    BY <2>1, <2>2, <2>3, <2>4
<1>6. CASE UNCHANGED vars
  BY <1>6 DEF vars
<1>7. QED
  BY <1>1, <1>2, <1>3, <1>4, <1>5, <1>6, Classified

(* Once the worker has been joined nobody is busy; after a spawn only the  *)
(* new worker is.                                                          *)
LEMMA BusyIsHandle ==
  ASSUME SingleWorker, NEW g \in Generations, Busy(g)
  PROVE  handle = g
BY DEF SingleWorker, Busy, Alive

LEMMA PendingInductive ==
  /\ TypeOK /\ LoopInv /\ SingleWorker /\ AtMostOneAnswer /\ PendingInv
  /\ [Next]_vars
  => AtMostOneAnswer' /\ PendingInv'
<1> SUFFICES ASSUME TypeOK, LoopInv, SingleWorker, AtMostOneAnswer, PendingInv,
                    [Next]_vars
             PROVE  AtMostOneAnswer' /\ PendingInv'
  OBVIOUS
<1>0. TypeOK' /\ SingleWorker'
  BY TypeInductive, SingleInductive
<1>a. \A g \in Generations : Busy(g)' => handle' = g
  BY <1>0 DEF SingleWorker, Busy, Alive
<1>t. /\ answers \in [Questions -> Nat]
      /\ answers' \in [Questions -> Nat]
      /\ asked \in Nat
      /\ asked <= MaxQuestion
      /\ current \in Nat
      /\ ponderResult # None => ponderResult \in Generations
  BY <1>0 DEF TypeOK, QuestionTypeOK
<1>b. Drops => \A g \in Generations : ~Busy(g)'
  BY NobodyAlive DEF Drops, workerVars, Busy, Alive
<1> USE DEF AtMostOneAnswer, PendingInv
<1>1. ASSUME NEW c \in Commands, Receive(c) PROVE AtMostOneAnswer' /\ PendingInv'
  BY <1>1 DEF Receive, Busy
<1>2. CASE RequestAbort
  BY <1>2 DEF RequestAbort, Busy
<1>3. ASSUME NEW c \in GoCommands, Go(c) PROVE AtMostOneAnswer' /\ PendingInv'
  <2>1. /\ main = "join" /\ main' = "idle"
        /\ asked' = asked + 1
        /\ current' = asked + 1
        /\ ponderResult' = None
    BY <1>3 DEF Go, Joined
  <2>6. activePonder' <=> c = "go ponder"
    BY <1>3 DEF Go
  <2>2. asked + 1 \in Questions /\ answers[asked + 1] = 0
    <3>1. asked < MaxQuestion
      BY <1>3 DEF Go, Joined, LoopInv
    <3>2. QED
      BY <3>1 DEF TypeOK, QuestionTypeOK
  <2>3. CASE Spawns(asked + 1, c = "go ponder") /\ answers' = answers
    <3>0. answers' = answers
      BY <2>3
    <3>1. question'[handle'] = asked + 1
      BY <2>3, SpawnsEffect
    <3>2. ponders'[handle'] <=> activePonder'
      BY <2>3, <2>6, SpawnsEffect
    <3>3. AtMostOneAnswer'
      BY <2>3
    <3>4. \A q \in Questions : q > asked' => answers'[q] = 0
      BY <1>t, <2>1, <3>0
    <3>5. \A g \in Generations :
             Busy(g)' => /\ question'[g] = current'
                         /\ current' # 0
                         /\ answers'[current'] = 0
                         /\ ponders'[g] <=> activePonder'
      BY <1>a, <1>t, <2>1, <2>2, <3>0, <3>1, <3>2
    <3>6. activePonder' => current' # 0 /\ answers'[current'] = 0
      BY <1>t, <2>1, <2>2, <3>0
    <3>7. QED
      BY <1>t, <2>1, <3>3, <3>4, <3>5, <3>6
  <2>4. CASE /\ Drops
             /\ c # "go ponder"
             /\ answers' = [answers EXCEPT ![asked + 1] = @ + 1]
    <3>0. answers' = [answers EXCEPT ![asked + 1] = @ + 1]
      BY <2>4
    <3>1. /\ answers'[asked + 1] = 1
          /\ \A q \in Questions : q # asked + 1 => answers'[q] = answers[q]
      BY <1>t, <2>2, <3>0
    <3>2. \A g \in Generations : ~Busy(g)'
      BY <1>b, <2>4
    <3>3. ~activePonder'
      BY <2>4, <2>6
    <3>4. AtMostOneAnswer'
      BY <1>t, <3>1
    <3>5. \A q \in Questions : q > asked' => answers'[q] = 0
      BY <1>t, <2>1, <3>1
    <3>6. QED
      BY <1>t, <2>1, <3>2, <3>3, <3>4, <3>5
  <2>5. QED
    BY <1>3, <2>3, <2>4, GoClassified
<1>4. CASE PonderhitRestarts
  <2>0. Spawns(current, FALSE)
    BY <1>4, HandlersClassified
  <2>1. activePonder
    BY <1>4 DEF PonderhitRestarts, Joined, LoopInv
  <2>2. current \in 1 .. asked /\ answers[current] = 0
    BY <2>0, <2>1 DEF Spawns, TypeOK, QuestionTypeOK
  <2>3. question'[handle'] = current
    BY <2>0, SpawnsEffect
  <2>4. ~ponders'[handle'] /\ ~activePonder' /\ ponderResult' = None
    BY <1>4, <2>0, SpawnsEffect DEF PonderhitRestarts
  <2>5. UNCHANGED <<asked, current, answers>>
    BY <1>4 DEF PonderhitRestarts, questionVars
  <2>6. QED
    BY <1>a, <2>2, <2>3, <2>4, <2>5
<1>5. ASSUME NEW c \in {"position", "usinewgame"}, Supersede(c)
      PROVE  AtMostOneAnswer' /\ PendingInv'
  <2>1. \A g \in Generations : ~Busy(g)'
    BY <1>b, <1>5, HandlersClassified
  <2>2. /\ UNCHANGED <<asked, answers>>
        /\ current' = 0
        /\ ponderResult' = None
        /\ ~activePonder'
    BY <1>5 DEF Supersede
  <2>3. QED
    BY <1>t, <2>1, <2>2
<1>6. CASE Quit \/ SetOption \/ IsReady
  <2>1. \A g \in Generations : ~Busy(g)'
    BY <1>b, <1>6, HandlersClassified
  <2>2. /\ UNCHANGED <<asked, answers, ponderResult, activePonder, question>>
        /\ current' \in {0, current}
        /\ main' # "exited" => current' = current
        /\ main = "join"
    BY <1>6 DEF Quit, SetOption, IsReady, Joined, questionVars, workerVars
  <2>3. QED
    BY <1>t, <2>1, <2>2
<1>7. CASE Stop \/ PonderhitAnswers
  <2>1. \A g \in Generations : ~Busy(g)'
    BY <1>b, <1>7, HandlersClassified
  <2>2. UNCHANGED <<asked, current>> /\ ~activePonder'
    BY <1>7 DEF Stop, PonderhitAnswers
  <2>3. CASE ponderResult = None /\ UNCHANGED <<answers, ponderResult>>
    BY <1>t, <2>1, <2>2, <2>3
  <2>4. CASE ponderResult # None /\ EmitRetained
    <3>0. main = "join"
      BY <1>7 DEF Stop, PonderhitAnswers, Joined
    <3>1. /\ question[ponderResult] = current
          /\ current \in 1 .. asked
          /\ answers[current] = 0
      BY <1>t, <2>4, <3>0
    <3>2. /\ answers' = [answers EXCEPT ![question[ponderResult]] = @ + 1]
          /\ ponderResult' = None
      BY <2>4 DEF EmitRetained
    <3>3. QED
      BY <1>t, <2>1, <2>2, <3>1, <3>2
  <2>5. ponderResult # None => activePonder
    BY <1>7 DEF Stop, PonderhitAnswers, Joined
  <2>6. QED
    BY <1>7, <2>3, <2>4, <2>5 DEF Stop, PonderhitAnswers
<1>8. ASSUME NEW g \in Generations, Work(g)
      PROVE  AtMostOneAnswer' /\ PendingInv'
  <2>1. /\ UNCHANGED <<question, ponders, asked, current, activePonder, main>>
        /\ \A h \in Generations : Busy(h)' => h = g
    BY <1>a, <1>8, WorkFrame DEF SingleWorker, loopVars
  <2>2. CASE Complete(g) \/ CutOff(g) \/ CheckGeneration(g) \/ Exit(g)
    <3>1. UNCHANGED <<answers, ponderResult>> /\ (Busy(g)' => Busy(g))
      BY <2>2 DEF Complete, CutOff, EndSearch, CheckGeneration, Exit, Busy,
                  TypeOK, WorkerTypeOK
    <3>2. \A h \in Generations : Busy(h)' => Busy(h)
      BY <2>1, <3>1
    <3>3. QED
      BY <2>1, <3>1, <3>2
  <2>3. CASE Retain(g)
    <3>1. /\ UNCHANGED answers
          /\ ponderResult' = g
          /\ ponders[g]
          /\ Busy(g)
          /\ ~Busy(g)'
      BY <2>3 DEF Retain, Busy, TypeOK, WorkerTypeOK
    <3>2. activePonder /\ question[g] = current
      BY <3>1
    <3>3. \A h \in Generations : ~Busy(h)'
      BY <2>1, <3>1
    <3>4. QED
      BY <2>1, <3>1, <3>2, <3>3
  <2>4. CASE Publish(g)
    <3>1. /\ answers' = [answers EXCEPT ![question[g]] = @ + 1]
          /\ ponderResult' = ponderResult
          /\ ~ponders[g]
          /\ Busy(g)
          /\ ~Busy(g)'
      BY <2>4 DEF Publish, Busy, TypeOK, WorkerTypeOK
    <3>2. ~activePonder
      BY <3>1
    <3>3. main # "exited" => ponderResult = None
      BY <3>2
    <3>4. question[g] = current /\ current \in 1 .. asked /\ answers[current] = 0
      BY <1>t, <3>1
    <3>5. /\ answers'[current] = 1
          /\ \A q \in Questions : q # current => answers'[q] = answers[q]
      BY <1>t, <3>1, <3>4
    <3>6. \A h \in Generations : ~Busy(h)'
      BY <2>1, <3>1
    <3>7. QED
      BY <1>t, <2>1, <3>1, <3>2, <3>3, <3>4, <3>5, <3>6
  <2>5. QED
    BY <1>8, <2>2, <2>3, <2>4 DEF Work
<1>9. CASE UNCHANGED vars
  BY <1>9 DEF vars, Busy
<1>10. QED
  BY <1>1, <1>2, <1>3, <1>4, <1>5, <1>6, <1>7, <1>8, <1>9
     DEF Next, Handle, Terminated

LEMMA OwedInductive ==
  /\ TypeOK /\ LoopInv /\ SingleWorker /\ PendingInv /\ PartialInv /\ OwedInv
  /\ [Next]_vars
  => OwedInv'
<1> SUFFICES ASSUME TypeOK, LoopInv, SingleWorker, PendingInv, PartialInv,
                    OwedInv, [Next]_vars
             PROVE  OwedInv'
  OBVIOUS
<1> USE DEF OwedInv, WorkerOwes
<1>t. /\ answers \in [Questions -> Nat]
      /\ current # 0 => current \in Questions
  BY DEF TypeOK, QuestionTypeOK
<1>o. Joinable => ~WorkerOwes(TRUE) /\ ~WorkerOwes(FALSE)
  BY DEF Joinable, Alive, TypeOK, WorkerTypeOK
<1>1. ASSUME NEW c \in Commands, Receive(c) PROVE OwedInv'
  <2>1. /\ main = "idle" /\ main' = "abort" /\ cmd' = c
        /\ c \notin Invalidating => generation' = generation
        /\ UNCHANGED <<handle, worker, question, ponders, activePonder,
                       ponderResult, current, answers>>
    BY <1>1 DEF Receive, workerVars
  <2>2. QED
    BY <2>1
<1>2. CASE RequestAbort
  BY <1>2 DEF RequestAbort, workerVars
<1>3. ASSUME NEW c \in GoCommands, Go(c) PROVE OwedInv'
  <2>1. current' = asked + 1 /\ (activePonder' <=> c = "go ponder")
    BY <1>3 DEF Go
  <2>2. CASE Spawns(asked + 1, c = "go ponder")
    <3>1. /\ handle' = generation'
          /\ handle' # None
          /\ worker'[handle'] = "searching"
          /\ question'[handle'] = asked + 1
      BY <2>2, SpawnsEffect
    <3>2. ponders'[handle'] = (c = "go ponder")
      BY <2>2, SpawnsEffect, Zenon
    <3>3. QED
      BY <2>1, <3>1, <3>2
  <2>3. CASE answers' = [answers EXCEPT ![asked + 1] = @ + 1]
    <3>0. main = "join" /\ cmd = c
      BY <1>3 DEF Go, Joined
    <3>1. asked + 1 \in Questions
      BY <3>0 DEF LoopInv, TypeOK, QuestionTypeOK
    <3>2. answers'[asked + 1] # 0
      BY <1>t, <2>3, <3>1
    <3>3. QED
      BY <2>1, <3>2
  <2>4. QED
    BY <1>3, <2>2, <2>3, GoClassified
<1>4. CASE PonderhitRestarts
  <2>1. Spawns(current, FALSE)
    BY <1>4, HandlersClassified
  <2>2. /\ handle' = generation'
        /\ handle' # None
        /\ worker'[handle'] = "searching"
        /\ question'[handle'] = current
    BY <2>1, SpawnsEffect
  <2>5. ponders'[handle'] = FALSE
    BY <2>1, SpawnsEffect, Zenon
  <2>3. current' = current /\ ~activePonder'
    BY <1>4 DEF PonderhitRestarts
  <2>4. QED
    BY <2>2, <2>3, <2>5
<1>5. ASSUME NEW c \in {"position", "usinewgame"}, Supersede(c) PROVE OwedInv'
  BY <1>5 DEF Supersede
<1>6. CASE Quit
  BY <1>6 DEF Quit
<1>7. CASE SetOption \/ IsReady
  <2>1. /\ main = "join"
        /\ cmd \notin Invalidating
        /\ Joinable
        /\ UNCHANGED <<question, activePonder, ponderResult, current, answers>>
    BY <1>7 DEF SetOption, IsReady, Joined, Invalidating
  <2>2. QED
    BY <1>o, <2>1
<1>8. CASE Stop \/ PonderhitAnswers
  <2>1. /\ main = "join"
        /\ cmd \notin Invalidating
        /\ Joinable
        /\ UNCHANGED <<question, current>>
    BY <1>8 DEF Stop, PonderhitAnswers, Joined, Invalidating
  <2>2. activePonder /\ ponderResult # None => EmitRetained
    BY <1>8 DEF Stop, PonderhitAnswers
  <2>3. answers' = answers \/ EmitRetained
    BY <1>8 DEF Stop, PonderhitAnswers
  <2>4. EmitRetained =>
          answers' = [answers EXCEPT ![question[ponderResult]] = @ + 1]
    BY DEF EmitRetained
  <2>5. current # 0 /\ answers[current] # 0 => answers'[current] # 0
    BY <1>t, <2>3, <2>4
  <2>6. current # 0 /\ question[ponderResult] = current /\ EmitRetained
          => answers'[current] # 0
    BY <1>t, <2>4
  <2>7. QED
    BY <1>o, <2>1, <2>2, <2>5, <2>6
<1>9. ASSUME NEW g \in Generations, Work(g) PROVE OwedInv'
  <2>1. /\ UNCHANGED <<generation, handle, question, ponders, activePonder,
                       current, main, cmd>>
        /\ handle = g
    BY <1>9, WorkFrame DEF SingleWorker, loopVars
  <2>2. CASE Complete(g) \/ CutOff(g)
    <3>1. /\ worker'[g] = "finished"
          /\ worker[g] = "searching"
          /\ UNCHANGED <<answers, ponderResult>>
      BY <2>2 DEF Complete, CutOff, EndSearch, TypeOK, WorkerTypeOK
    <3>2. QED
      BY <2>1, <3>1
  <2>3. CASE CheckGeneration(g)
    <3>1. /\ generation = g => worker'[g] = "current"
          /\ UNCHANGED <<answers, ponderResult>>
      BY <2>3 DEF CheckGeneration, TypeOK, WorkerTypeOK
    <3>2. QED
      BY <2>1, <3>1
  <2>4. CASE Retain(g)
    <3>1. ponders[g] /\ answers' = answers /\ ponderResult' = g
      BY <2>4 DEF Retain
    <3>2. ponderResult # None => ponderResult = g
      BY <2>1 DEF PartialInv
    <3>3. QED
      BY <2>1, <3>1, <3>2
  <2>5. CASE Publish(g)
    <3>1. /\ ~ponders[g]
          /\ Busy(g)
          /\ answers' = [answers EXCEPT ![question[g]] = @ + 1]
      BY <2>5 DEF Publish, Busy
    <3>2. ~activePonder
      BY <3>1 DEF PendingInv
    <3>3. current # 0 /\ (answers[current] # 0 \/ question[g] = current)
            => answers'[current] # 0
      BY <1>t, <3>1
    <3>4. QED
      BY <2>1, <3>2, <3>3
  <2>6. CASE Exit(g)
    <3>1. worker[g] = "leaving" /\ UNCHANGED <<answers, ponderResult>>
      BY <2>6 DEF Exit
    <3>2. QED
      BY <2>1, <3>1
  <2>7. QED
    BY <1>9, <2>2, <2>3, <2>4, <2>5, <2>6 DEF Work
<1>10. CASE UNCHANGED vars
  BY <1>10 DEF vars, workerVars
<1>11. QED
  BY <1>1, <1>2, <1>3, <1>4, <1>5, <1>6, <1>7, <1>8, <1>9, <1>10
     DEF Next, Handle, Terminated
-----------------------------------------------------------------------------
LEMMA InitIInv == Init => IInv
<1> SUFFICES ASSUME Init PROVE IInv
  OBVIOUS
<1> USE DEF Init
<1>1. TypeOK
  <2>1. LoopTypeOK
    BY DEF LoopTypeOK, Commands, Invalidating
  <2>2. WorkerTypeOK
    BY DEF WorkerTypeOK
  <2>3. QuestionTypeOK
    BY DEF QuestionTypeOK
  <2>4. QED
    BY <2>1, <2>2, <2>3 DEF TypeOK
<1>2. LoopInv /\ HandleInv /\ PartialInv /\ OwedInv
  BY DEF LoopInv, HandleInv, PartialInv, OwedInv
<1>3. SingleWorker /\ AtMostOneAnswer /\ PendingInv
  BY DEF SingleWorker, Alive, AtMostOneAnswer, PendingInv, Busy
<1>4. QED
  BY <1>1, <1>2, <1>3 DEF IInv

LEMMA StepIInv == IInv /\ [Next]_vars => IInv'
BY TypeInductive, LoopInductive, SingleInductive, HandleInductive,
   PendingInductive, PartialInductive, OwedInductive DEF IInv

(* The inductive invariant holds throughout every session.                 *)
THEOREM Invariance == Spec => []IInv
BY InitIInv, StepIInv, PTL DEF Spec

(* Type correctness for every bound.                                       *)
THEOREM TypeCorrect == Spec => []TypeOK
BY Invariance, PTL DEF IInv

(* abort_and_join never leaves a worker behind: at most one is alive and   *)
(* it is the one in search_handle.                                         *)
THEOREM OneWorker == Spec => []SingleWorker
BY Invariance, PTL DEF IInv

(* No `go` is answered by two bestmove lines.                              *)
THEOREM OneAnswer == Spec => []AtMostOneAnswer
BY Invariance, PTL DEF IInv

(* While the loop waits for a command an unanswered question is owed by a  *)
(* live worker or retained.                                                *)
THEOREM NeverSilent == Spec => []NoSilentEngine
<1>1. IInv => NoSilentEngine
  BY DEF IInv, OwedInv, NoSilentEngine, PendingInv
<1>2. QED
  BY <1>1, Invariance, PTL

(* position, usinewgame and quit silence the search still running.         *)
THEOREM InvalidationSilences == Spec => NothingPublishedAfterInvalidation
<1>1. IInv /\ [Next]_vars =>
        [\A g \in Generations :
           worker[g] = "finished" /\ worker'[g] = "current" =>
             ~(main # "idle" /\ cmd \in {"position", "usinewgame", "quit"})]_vars
  <2> SUFFICES ASSUME IInv, [Next]_vars, NEW g \in Generations,
                      worker[g] = "finished", worker'[g] = "current",
                      main # "idle", cmd \in Invalidating
               PROVE  FALSE
    BY DEF Invalidating
  <2>1. Alive(g)
    BY DEF Alive
  <2>2. handle = g /\ ~Joinable
    BY <2>1 DEF IInv, SingleWorker, Joinable
  <2>3. main \in {"abort", "join"} /\ handle < generation
    BY <2>2 DEF IInv, TypeOK, LoopTypeOK, LoopInv, HandleInv
  <2>4. \E h \in Generations : Work(h)
    BY <2>2, <2>3, Classified
       DEF IInv, Receive, RequestAbort, Drops, Spawns, vars, workerVars
  <2>5. PICK h \in Generations : Work(h)
    BY <2>4
  <2>6. h = g
    BY <2>2, <2>5, WorkFrame DEF IInv, SingleWorker
  <2>7. worker'[g] = IF generation = g THEN "current" ELSE "leaving"
    BY <2>5, <2>6 DEF Work, Complete, CutOff, EndSearch, CheckGeneration,
                      Retain, Publish, Exit, IInv, TypeOK, WorkerTypeOK
  <2>8. QED
    BY <2>2, <2>3, <2>7 DEF IInv, TypeOK, WorkerTypeOK
<1>2. QED
  BY <1>1, Invariance, PTL DEF Spec, NothingPublishedAfterInvalidation

(* The searcher, the TT and the evaluator change only while no worker is   *)
(* alive to see it.                                                        *)
THEOREM Quiescence == Spec => SharedStateQuiescent
<1>1. IInv /\ [Next]_vars =>
        [backend' # backend => \A g \in Generations : ~Alive(g)]_vars
  <2> SUFFICES ASSUME IInv, [Next]_vars, backend' # backend,
                      NEW g \in Generations
               PROVE  ~Alive(g)
    OBVIOUS
  <2>1. CASE \/ \E c \in {"position", "usinewgame"} : Supersede(c)
             \/ SetOption
             \/ IsReady
    BY <2>1, NobodyAlive DEF IInv, Supersede, SetOption, IsReady, Joined
  <2>2. ASSUME NEW h \in Generations, Work(h) PROVE FALSE
    BY <2>2, WorkFrame DEF IInv, loopVars
  <2>3. QED
    BY <2>1, <2>2 DEF Next, Receive, RequestAbort, Handle, Go, Quit, Stop,
       PonderhitAnswers, PonderhitRestarts, Terminated, vars, loopVars
<1>2. QED
  BY <1>1, Invariance, PTL DEF Spec, SharedStateQuiescent

(* ponderhit prints a retained result only if its search ran to the end.   *)
THEOREM PonderhitComplete == Spec => PonderhitAnswersComplete
<1>1. IInv /\ [Next]_vars =>
        [main = "join" /\ main' = "idle" /\ cmd = "ponderhit"
           /\ answers' # answers => result[ponderResult] = "complete"]_vars
  <2> SUFFICES ASSUME IInv, [Next]_vars, main = "join", main' = "idle",
                      cmd = "ponderhit", answers' # answers
               PROVE  result[ponderResult] = "complete"
    OBVIOUS
  <2>1. ASSUME NEW h \in Generations, Work(h) PROVE FALSE
    BY <2>1, WorkFrame DEF IInv, loopVars
  <2>2. PonderhitAnswers
    BY <2>1 DEF Next, Receive, RequestAbort, Handle, Go, Supersede, Quit, Stop,
       SetOption, IsReady, PonderhitRestarts, Joined, Terminated, vars,
       GoCommands
  <2>3. QED
    BY <2>2 DEF PonderhitAnswers, IInv, PartialInv
<1>2. QED
  BY <1>1, Invariance, PTL DEF Spec, PonderhitAnswersComplete
-----------------------------------------------------------------------------
(* The refinement.  Every step of the session is a step of UsiAnswers or   *)
(* leaves what the GUI can see alone.                                      *)
Unseen == UNCHANGED <<asked, current, answers, activePonder>>

LEMMA UnseenStutters == Unseen => UNCHANGED <<asked, Mode, answers>>
BY DEF Unseen, Mode

LEMMA ModeFacts ==
  ASSUME TypeOK
  PROVE  /\ current = 0 => Mode = "none"
         /\ current # 0 /\ answers[current] # 0 => Mode = "answered"
         /\ current # 0 /\ answers[current] = 0 /\ activePonder =>
              Mode = "pondering"
         /\ current # 0 /\ answers[current] = 0 /\ ~activePonder =>
              Mode = "thinking"
<1>1. current # 0 => answers[current] \in Nat
  BY DEF TypeOK, QuestionTypeOK
<1>2. QED
  BY <1>1 DEF Mode

LEMMA StepRefines == IInv /\ [Next]_vars => [Promise!Next]_(Promise!vars)
<1> SUFFICES ASSUME IInv, [Next]_vars
             PROVE  Promise!Next \/ UNCHANGED <<asked, Mode, answers>>
  BY DEF Promise!vars
<1>0. TypeOK /\ LoopInv /\ SingleWorker /\ PendingInv /\ OwedInv /\ PartialInv
  BY DEF IInv
<1>1. IInv' /\ TypeOK'
  BY StepIInv DEF IInv
<1>t. /\ answers \in [Questions -> Nat]
      /\ asked \in Nat
      /\ asked <= MaxQuestion
      /\ current \in {0, asked}
  BY <1>0 DEF TypeOK, QuestionTypeOK, PendingInv
<1>p. /\ current = 0 => Mode = "none"
      /\ current # 0 /\ answers[current] # 0 => Mode = "answered"
      /\ current # 0 /\ answers[current] = 0 /\ activePonder => Mode = "pondering"
      /\ current # 0 /\ answers[current] = 0 /\ ~activePonder => Mode = "thinking"
  BY <1>0, ModeFacts
<1>q. /\ current' = 0 => Mode' = "none"
      /\ current' # 0 /\ answers'[current'] # 0 => Mode' = "answered"
      /\ current' # 0 /\ answers'[current'] = 0 /\ activePonder' =>
           Mode' = "pondering"
      /\ current' # 0 /\ answers'[current'] = 0 /\ ~activePonder' =>
           Mode' = "thinking"
  <2>1. current' # 0 => answers'[current'] \in Nat
    BY <1>1 DEF TypeOK, QuestionTypeOK
  <2>2. QED
    BY <2>1 DEF Mode
<1>o. Joinable => ~WorkerOwes(TRUE) /\ ~WorkerOwes(FALSE)
  BY <1>0 DEF WorkerOwes, Joinable, Alive, TypeOK, WorkerTypeOK
<1>2. ASSUME NEW c \in GoCommands, Go(c) PROVE Promise!Ask
  <2>1. main = "join" /\ cmd = c /\ Joinable
    BY <1>2 DEF Go, Joined
  <2>2. asked < MaxQuestion /\ cmd \notin Invalidating
    BY <1>0, <2>1 DEF LoopInv, GoCommands, Invalidating
  <2>3. asked + 1 \in Questions /\ answers[asked + 1] = 0
    BY <1>0, <1>t, <2>2 DEF PendingInv
  <2>4. Mode # "thinking"
    BY <1>0, <1>o, <1>p, <2>1, <2>2 DEF OwedInv, PendingInv
  <2>5. asked' = asked + 1 /\ current' = asked + 1
    BY <1>2 DEF Go
  <2>6. CASE answers' = answers
    <3>1. Mode' \in {"thinking", "pondering"}
      BY <1>q, <1>t, <2>3, <2>5, <2>6
    <3>2. QED
      BY <2>3, <2>4, <2>5, <2>6, <3>1 DEF Promise!Ask
  <2>7. CASE answers' = [answers EXCEPT ![asked + 1] = @ + 1]
    <3>1. answers' = [answers EXCEPT ![asked + 1] = 1]
      BY <1>t, <2>3, <2>7
    <3>2. Mode' = "answered"
      BY <1>q, <1>t, <2>3, <2>5, <3>1
    <3>3. QED
      BY <2>3, <2>4, <2>5, <3>1, <3>2 DEF Promise!Ask
  <2>8. QED
    BY <1>0, <1>2, <2>6, <2>7, GoClassified
<1>3. ASSUME \/ \E c \in {"position", "usinewgame"} : Supersede(c)
             \/ Quit
      PROVE  Promise!Withdraw
  <2>1. current' = 0 /\ UNCHANGED <<asked, answers>>
    BY <1>3 DEF Supersede, Quit
  <2>2. QED
    BY <1>q, <2>1 DEF Promise!Withdraw
<1>4. ASSUME Stop \/ PonderhitAnswers PROVE Promise!AnswerPonder \/ Unseen
  <2>1. /\ main = "join"
        /\ cmd \notin Invalidating
        /\ Joinable
        /\ UNCHANGED <<asked, current>>
        /\ ~activePonder'
    BY <1>4 DEF Stop, PonderhitAnswers, Joined, Invalidating
  <2>2. CASE activePonder
    <3>1. current = asked /\ current \in Questions /\ answers[current] = 0
      BY <1>0, <1>t, <2>1, <2>2 DEF PendingInv
    <3>2. ponderResult # None /\ question[ponderResult] = current
      <4>1. ~WorkerOwes(TRUE)
        BY <1>o, <2>1, Zenon
      <4>2. main # "exited" /\ current # 0
        BY <2>1, <3>1
      <4>3. QED
        BY <1>0, <2>1, <2>2, <3>1, <4>1, <4>2, Zenon DEF OwedInv
    <3>3. answers' = [answers EXCEPT ![asked] = @ + 1]
      BY <1>4, <2>2, <3>1, <3>2 DEF Stop, PonderhitAnswers, EmitRetained
    <3>4. answers'[current'] # 0
      BY <1>t, <2>1, <3>1, <3>3
    <3>5. Mode = "pondering" /\ Mode' = "answered"
      BY <1>p, <1>q, <2>1, <2>2, <3>1, <3>4
    <3>6. QED
      BY <2>1, <3>3, <3>5 DEF Promise!AnswerPonder
  <2>3. CASE ~activePonder
    <3>1. ponderResult = None
      BY <1>0, <2>1, <2>3 DEF PendingInv
    <3>2. QED
      BY <1>0, <1>4, <2>1, <2>3, <3>1
         DEF Stop, PonderhitAnswers, Unseen, TypeOK, LoopTypeOK
  <2>4. QED
    BY <2>2, <2>3
<1>5. ASSUME PonderhitRestarts PROVE Promise!Hit
  <2>1. /\ main = "join"
        /\ activePonder
        /\ ~activePonder'
        /\ UNCHANGED <<asked, current, answers>>
    BY <1>0, <1>5 DEF PonderhitRestarts, Joined, LoopInv, questionVars
  <2>2. current # 0 /\ answers[current] = 0
    BY <1>0, <2>1 DEF PendingInv
  <2>3. QED
    BY <1>p, <1>q, <2>1, <2>2 DEF Promise!Hit
<1>6. ASSUME NEW g \in Generations, Work(g) PROVE Promise!Answer \/ Unseen
  <2>1. UNCHANGED <<question, asked, current, activePonder>>
    BY <1>0, <1>6, WorkFrame DEF loopVars
  <2>2. CASE Publish(g)
    <3>1. /\ ~ponders[g]
          /\ Busy(g)
          /\ answers' = [answers EXCEPT ![question[g]] = @ + 1]
      BY <2>2 DEF Publish, Busy
    <3>2. /\ ~activePonder
          /\ question[g] = current
          /\ current = asked
          /\ current \in Questions
          /\ answers[current] = 0
      BY <1>0, <1>t, <3>1 DEF PendingInv
    <3>3. answers'[current'] # 0
      BY <1>t, <2>1, <3>1, <3>2
    <3>4. Mode = "thinking" /\ Mode' = "answered"
      BY <1>p, <1>q, <2>1, <3>2, <3>3
    <3>5. QED
      BY <2>1, <3>1, <3>2, <3>4 DEF Promise!Answer
  <2>3. CASE ~Publish(g)
    BY <1>6, <2>1, <2>3 DEF Work, Complete, CutOff, EndSearch, CheckGeneration,
                            Retain, Exit, Unseen, questionVars
  <2>4. QED
    BY <2>2, <2>3
<1>7. ASSUME \/ \E c \in Commands : Receive(c)
             \/ RequestAbort
             \/ SetOption
             \/ IsReady
             \/ UNCHANGED vars
      PROVE  Unseen
  BY <1>7 DEF Receive, RequestAbort, SetOption, IsReady, vars, loopVars,
              questionVars, Unseen
<1>8. QED
  BY <1>2, <1>3, <1>4, <1>5, <1>6, <1>7, UnseenStutters
     DEF Next, Handle, Terminated, Promise!Next

(* The session implements UsiAnswers: one answer, to the newest question   *)
(* only, never while pondering, and never lost.                            *)
THEOREM Implements == Spec => ImplementsUsiAnswers
<1>1. Init => Promise!Init
  BY DEF Init, Promise!Init, Mode
<1>2. QED
  BY <1>1, StepRefines, Invariance, PTL DEF Spec, ImplementsUsiAnswers, Promise!Spec
=============================================================================
