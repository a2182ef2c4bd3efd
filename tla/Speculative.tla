---------------------------- MODULE Speculative -----------------------------
(***************************************************************************)
(* Speculative search: the foreground loop of SpeculativeSearcher          *)
(* (crates/sekirei-core/src/search.rs) and the background tasks of         *)
(* speculative.rs that it spawns, promotes and aborts.  Foreground and     *)
(* tasks run on one pool, which search_with_history installs itself on.    *)
(*                                                                         *)
(* A task is a recursion over nodes.  Its calls return a whole value, or   *)
(* the meaningless 0 of an aborted call; after every call the caller tests *)
(* the flags again before it uses the value and stores its own.  The test  *)
(* is task_abort || budget.abort || external_abort, read one after the     *)
(* other.  The first two are never cleared, so that both reading false is  *)
(* as good as both reading false when the first is read: they are one      *)
(* step.  external_abort is cleared by the next `go`: a second step.       *)
(*                                                                         *)
(* How many moves a node has is left open: a task may search on as long as *)
(* no flag stops it.  The results that `poll` reads only count hits; they  *)
(* are left out.                                                           *)
(***************************************************************************)
EXTENDS Naturals, FiniteSets

CONSTANTS
  MaxSearches,     \* bound: number of `go` commands
  MaxDepth,        \* bound: iterations of one search (config.max_depth)
  MaxFrames,       \* bound: recursion depth of a task
  Moves,           \* the candidates of policy::top_n
  None

ASSUME MovesAssumption == IsFiniteSet(Moves) /\ None \notin Moves
ASSUME BoundsAssumption ==
  /\ MaxSearches \in Nat
  /\ {MaxDepth, MaxFrames} \subseteq Nat \ {0}

Searches == 1 .. MaxSearches
Tasks    == Searches \X (1 .. MaxDepth) \X Moves
NoTask   == <<0, 0, None>>

(* Threads of spec_pool: one for the foreground, one for each candidate.   *)
PoolThreads == Cardinality(Moves) + 1

VARIABLES
  foreground,      \* where the search loop is
  search,          \* which `go` it serves
  depth,           \* its iteration
  stolen,          \* the task it executes while it waits for a split, or NoTask
  external,        \* external_abort of the searcher
  latched,         \* abort of each search's budget
  taskAbort,       \* task_abort of each task
  task,            \* where each task is
  frames,          \* depth of its recursion
  partial,         \* history: a call in it returned the 0 of an abort
  late             \* history: its stores since a flag of its own went up

mainVars == <<foreground, search, depth, stolen>>
flagVars == <<external, latched, taskAbort>>
taskVars == <<task, frames, partial, late>>
vars     == <<mainVars, flagVars, taskVars>>

Init ==
  /\ foreground = "idle"
  /\ search = 0
  /\ depth = 0
  /\ stolen = NoTask
  /\ external = FALSE
  /\ latched = [s \in Searches |-> FALSE]
  /\ taskAbort = [t \in Tasks |-> FALSE]
  /\ task = [t \in Tasks |-> "none"]
  /\ frames = [t \in Tasks |-> 0]
  /\ partial = [t \in Tasks |-> FALSE]
  /\ late = [t \in Tasks |-> 0]

Latched(t) == taskAbort[t] \/ latched[t[1]]
Stopped(t) == Latched(t) \/ external

Running == {t \in Tasks : task[t] \notin {"none", "queued", "done"}}
Blocked == stolen # NoTask /\ stolen \in Running
(* Threads in use: the foreground's, and one per task it has not stolen.   *)
Busy    == Cardinality(Running \ {stolen}) + (IF foreground \in {"idle", "install"}
                                                THEN 0 ELSE 1)
-----------------------------------------------------------------------------
(* The foreground.                                                         *)

(* `go`: reset_abort_flag, then a search on the pool with its own budget.  *)
Go ==
  /\ foreground = "idle"
  /\ search < MaxSearches
  /\ search' = search + 1
  /\ external' = FALSE
  /\ foreground' = "install"
  /\ depth' = 0
  /\ UNCHANGED <<stolen, latched, taskAbort, taskVars>>

(* spec_pool.install: some thread of the pool takes the search.            *)
Install ==
  /\ foreground = "install"
  /\ Busy < PoolThreads
  /\ foreground' = "iterate"
  /\ UNCHANGED <<search, depth, stolen, flagVars, taskVars>>

(* The next iteration: SpecGroup::spawn, then root_search.                 *)
Iterate ==
  /\ foreground = "iterate"
  /\ depth < MaxDepth
  /\ depth' = depth + 1
  /\ foreground' = "root"
  /\ task' = [t \in Tasks |-> IF t[1] = search /\ t[2] = depth + 1
                                THEN "queued" ELSE task[t]]
  /\ UNCHANGED <<search, stolen, flagVars, frames, partial, late>>

(* root_search returns.  Unless it was stopped, the winner's task is taken *)
(* out of the group; dropping the group aborts the tasks left in it.       *)
RootDone ==
  LET timedOut == latched[search] \/ external
  IN
  /\ foreground = "root"
  /\ ~Blocked
  /\ \E winner \in IF timedOut THEN {None} ELSE Moves \cup {None} :
       taskAbort' = [t \in Tasks |-> taskAbort[t] \/
                       (t[1] = search /\ t[2] = depth /\ t[3] # winner)]
  /\ foreground' \in IF timedOut \/ depth = MaxDepth THEN {"finish"}
                                                     ELSE {"iterate", "finish"}
  /\ UNCHANGED <<search, depth, stolen, external, latched, taskVars>>

(* Mutant of Finish: the budget is not latched on the way out.             *)
FinishUnlatched ==
  /\ foreground = "finish"
  /\ foreground' = "idle"
  /\ UNCHANGED <<search, depth, stolen, flagVars, taskVars>>

(* state.budget.abort_now(), and the result is returned.                   *)
Finish ==
  /\ foreground = "finish"
  /\ foreground' = "idle"
  /\ latched' = [latched EXCEPT ![search] = TRUE]
  /\ UNCHANGED <<search, depth, stolen, external, taskAbort, taskVars>>

(* A stop from the USI loop; the watchdog of a search, or its node limit.  *)
Stop ==
  /\ ~external
  /\ external' = TRUE
  /\ UNCHANGED <<mainVars, latched, taskAbort, taskVars>>

Watchdog ==
  /\ foreground \notin {"idle", "install"}
  /\ ~latched[search]
  /\ latched' = [latched EXCEPT ![search] = TRUE]
  /\ UNCHANGED <<mainVars, external, taskAbort, taskVars>>
-----------------------------------------------------------------------------
(* A task, from the pool's queue.                                          *)
Place(t, where) == task' = [task EXCEPT ![t] = where]

(* The first test of the closure; a capture of the king ends it as well.   *)
Begin(t) ==
  /\ task[t] = "queued"
  /\ \/ Place(t, "done") /\ UNCHANGED frames
     \/ /\ ~Stopped(t)
        /\ Place(t, "node")
        /\ frames' = [frames EXCEPT ![t] = 1]
  /\ UNCHANGED <<flagVars, foreground, search, depth, partial, late>>

(* An idle thread of the pool takes it, ...                                *)
Start(t) == Busy < PoolThreads /\ Begin(t) /\ UNCHANGED stolen

(* ... or the thread of the foreground does, while it waits for the others *)
(* at a split of its own: "parallel iterators will operate within that     *)
(* threadpool", and a waiting worker executes what is queued.              *)
Steal(t) ==
  /\ foreground = "root"
  /\ ~Blocked
  /\ Begin(t)
  /\ stolen' = t

(* spec_alpha_beta returns to its caller, or to the closure.               *)
Leave(t) ==
  /\ frames' = [frames EXCEPT ![t] = @ - 1]
  /\ Place(t, IF frames[t] = 1 THEN "done" ELSE "recheck")

(* Its first test.                                                         *)
NodeAborts(t) ==
  /\ task[t] = "node"
  /\ Stopped(t)
  /\ partial' = [partial EXCEPT ![t] = TRUE]
  /\ Leave(t)
  /\ UNCHANGED <<mainVars, flagVars, late>>

(* A leaf, a hit in the table, or mate.                                    *)
NodeReturns(t) ==
  /\ task[t] = "node"
  /\ ~Stopped(t)
  /\ Leave(t)
  /\ UNCHANGED <<mainVars, flagVars, partial, late>>

(* The call for its first move; depth 0 has none.                          *)
Descend(t) ==
  /\ task[t] = "node"
  /\ ~Stopped(t)
  /\ frames[t] < MaxFrames
  /\ frames' = [frames EXCEPT ![t] = @ + 1]
  /\ UNCHANGED <<mainVars, flagVars, task, partial, late>>

(* Mutants of Recheck: nothing is tested after a call; only the latched    *)
(* flags are, and a stop is overlooked.                                    *)
RecheckSkipped(t) ==
  /\ task[t] = "recheck"
  /\ Place(t, "store")
  /\ UNCHANGED <<mainVars, flagVars, frames, partial, late>>
RecheckLatchedOnly(t) ==
  /\ task[t] = "recheck"
  /\ \/ /\ Latched(t)
        /\ partial' = [partial EXCEPT ![t] = TRUE]
        /\ Leave(t)
     \/ ~Latched(t) /\ Place(t, "store") /\ UNCHANGED <<frames, partial>>
  /\ UNCHANGED <<mainVars, flagVars, late>>

(* Back in the caller: task_abort and budget.abort, ...                    *)
Recheck(t) ==
  /\ task[t] = "recheck"
  /\ \/ /\ Latched(t)
        /\ partial' = [partial EXCEPT ![t] = TRUE]
        /\ Leave(t)
     \/ ~Latched(t) /\ Place(t, "recheck external") /\ UNCHANGED <<frames, partial>>
  /\ UNCHANGED <<mainVars, flagVars, late>>

(* ... then external_abort.  A value that passes is used: for a store, or  *)
(* for the next move, whose call tests the flags again first.              *)
RecheckExternal(t) ==
  /\ task[t] = "recheck external"
  /\ \/ external /\ partial' = [partial EXCEPT ![t] = TRUE] /\ Leave(t)
     \/ ~external /\ Place(t, "store") /\ UNCHANGED <<frames, partial>>
     \/ /\ ~external
        /\ Place(t, "node")
        /\ frames' = [frames EXCEPT ![t] = @ + 1]
        /\ UNCHANGED partial
  /\ UNCHANGED <<mainVars, flagVars, late>>

(* state.tt.store, after a cutoff or the last move.                        *)
Store(t) ==
  /\ task[t] = "store"
  /\ late' = [late EXCEPT ![t] = IF Latched(t) /\ @ < 2 THEN @ + 1 ELSE @]
  /\ Leave(t)
  /\ UNCHANGED <<mainVars, flagVars, partial>>

TaskStep(t) ==
  \/ NodeAborts(t)
  \/ NodeReturns(t)
  \/ Descend(t)
  \/ Recheck(t)
  \/ RecheckExternal(t)
  \/ Store(t)
-----------------------------------------------------------------------------
Main == Go \/ Install \/ Iterate \/ RootDone \/ Finish

Terminated ==
  /\ foreground = "idle" /\ search = MaxSearches /\ external
  /\ \A t \in Tasks : task[t] \in {"none", "done"}
  /\ UNCHANGED vars

Next ==
  \/ Main
  \/ Stop
  \/ Watchdog
  \/ \E t \in Tasks : Start(t) \/ Steal(t) \/ TaskStep(t)
  \/ Terminated

Spec == Init /\ [][Next]_vars

(* The pool runs its threads, and every root search is finite.  A task may *)
(* search on for as long as no flag stops it, nobody has to send a stop,   *)
(* and there need not be a deadline.                                       *)
Fairness ==
  /\ WF_vars(Install \/ Iterate \/ RootDone \/ Finish)
  /\ \A t \in Tasks : WF_vars(Start(t)) /\ WF_vars(TaskStep(t))

FairSpec == Spec /\ Fairness
-----------------------------------------------------------------------------
Places == {"none", "queued", "node", "recheck", "recheck external", "store", "done"}

(* Every variable has its type.                                            *)
TypeOK ==
  /\ foreground \in {"idle", "install", "iterate", "root", "finish"}
  /\ search \in 0 .. MaxSearches
  /\ depth \in 0 .. MaxDepth
  /\ stolen \in Tasks \cup {NoTask}
  /\ external \in BOOLEAN
  /\ latched \in [Searches -> BOOLEAN]
  /\ taskAbort \in [Tasks -> BOOLEAN]
  /\ task \in [Tasks -> Places]
  /\ frames \in [Tasks -> 0 .. MaxFrames]
  /\ partial \in [Tasks -> BOOLEAN]
  /\ late \in [Tasks -> 0 .. 2]
  /\ Busy <= PoolThreads

Stores(t) == task[t] = "store" /\ task'[t] # "store"

(* The table is not poisoned by the search it serves: until the next `go`  *)
(* no entry is made from the 0 of an aborted call.                         *)
WholeWithinSearch ==
  [][\A t \in Tasks : Stores(t) /\ partial[t] => search > t[1]]_vars

(* A task whose flag or budget has aborted makes at most one more store:   *)
(* the one it had already decided on.                                      *)
OneLateStore == \A t \in Tasks : late[t] <= 1

(* A search leaves nothing running behind: also the promoted tasks, which  *)
(* no dropped group aborts, end after it has returned.                     *)
TasksEnd ==
  \A t \in Tasks :
    (t \in Running /\ search = t[1] /\ foreground = "idle") ~> t \notin Running

(* "Correctness invariant: speculative tasks NEVER write to the shared TT  *)
(* if their abort flag has been set.  This prevents partially-computed     *)
(* 0-scores from poisoning entries that the main search later reads."      *)
StoredIsWhole == [][\A t \in Tasks : Stores(t) => ~partial[t]]_vars

=============================================================================
