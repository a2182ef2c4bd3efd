-------------------------- MODULE LazySmpLifecycle --------------------------
(***************************************************************************)
(* One LazySmpSearcher (crates/sekirei-core/src/lazy_smp.rs) used by       *)
(* several threads.  A search holds the invocation flag `search_active`    *)
(* while its group of workers runs; reset_abort_flag, clear_tt and         *)
(* new_search take the mutex `lifecycle_mutation`, then the same flag,     *)
(* raising the shared stop flag as long as a search keeps it from them.    *)
(* Every atomic access is one step: between a failed compare-exchange and  *)
(* the store of the stop flag the search that made it fail may be gone and *)
(* another one under way.                                                  *)
(***************************************************************************)
EXTENDS Naturals, FiniteSets

CONSTANTS
  Clients,         \* threads that hold a reference to the searcher
  Workers,         \* workers of one search
  Main,            \* worker 0
  MainStops,       \* LAZY_MAIN_STOPS is set in the behaviour flags
  None,
  MaxCalls         \* bound: number of calls made

ASSUME ClientsAssumption == None \notin Clients
ASSUME WorkersAssumption == Main \in Workers /\ MainStops \in BOOLEAN
ASSUME MaxCallsAssumption == MaxCalls \in Nat

Mutations == {"reset", "clear", "age"}
Searches  == {"search", "try", "search infinite"}
Calls     == Mutations \cup Searches

VARIABLES
  active,          \* search_active
  abort,           \* external_abort
  lifecycle,       \* who holds lifecycle_mutation, or None
  pc,              \* where each client is
  call,            \* the call it makes, or made last
  running,         \* the workers of its search that have not returned
  tt,              \* counts the clears and generations of the shared table
  channel,         \* whose invocation the resettable observers belong to
  calls,           \* number of calls made so far
  armed            \* history: nothing has asked for a stop since a reset

vars == <<active, abort, lifecycle, pc, call, running, tt, channel, calls, armed>>

Init ==
  /\ active = FALSE
  /\ abort = FALSE
  /\ lifecycle = None
  /\ pc = [c \in Clients |-> "idle"]
  /\ call = [c \in Clients |-> "search"]
  /\ running = [c \in Clients |-> {}]
  /\ tt = 0
  /\ channel = None
  /\ calls = 0
  /\ armed = FALSE

Goto(c, place) == pc' = [pc EXCEPT ![c] = place]

Call(c, what) ==
  /\ pc[c] = "idle"
  /\ calls < MaxCalls
  /\ calls' = calls + 1
  /\ call' = [call EXCEPT ![c] = what]
  /\ Goto(c, IF what \in Mutations THEN "lock" ELSE "enter")
  /\ UNCHANGED <<active, abort, lifecycle, running, tt, channel, armed>>

(* A stop from outside: the USI loop or a deadline timer stores TRUE       *)
(* through the flag abort_flag() gave it.                                  *)
Stop ==
  /\ ~abort
  /\ abort' = TRUE
  /\ armed' = FALSE
  /\ UNCHANGED <<active, lifecycle, pc, call, running, tt, channel, calls>>
-----------------------------------------------------------------------------
(* Mutants of Lock: the mutations are not serialized; the stop flag is     *)
(* cleared before the invocation guard is held.                            *)
LockShared(c) ==
  /\ pc[c] = "lock"
  /\ lifecycle' = c
  /\ Goto(c, "acquire")
  /\ armed' = FALSE
  /\ UNCHANGED <<active, abort, call, running, tt, channel, calls>>
LockAndReset(c) ==
  /\ pc[c] = "lock"
  /\ lifecycle = None
  /\ lifecycle' = c
  /\ abort' = (abort /\ call[c] # "reset")
  /\ Goto(c, "acquire")
  /\ armed' = FALSE
  /\ UNCHANGED <<active, call, running, tt, channel, calls>>

(* lifecycle_mutation.lock().  The next mutation may raise the stop flag   *)
(* again, so from here on it is no longer armed by an earlier reset.       *)
Lock(c) ==
  /\ pc[c] = "lock"
  /\ lifecycle = None
  /\ lifecycle' = c
  /\ Goto(c, "acquire")
  /\ armed' = FALSE
  /\ UNCHANGED <<active, abort, call, running, tt, channel, calls>>

(* acquire_after_requesting_abort: the compare-exchange succeeds, ...      *)
Acquire(c) ==
  /\ pc[c] = "acquire"
  /\ ~active
  /\ active' = TRUE
  /\ Goto(c, "critical")
  /\ UNCHANGED <<abort, lifecycle, call, running, tt, channel, calls, armed>>

(* ... or fails, ...                                                       *)
AcquireFails(c) ==
  /\ pc[c] = "acquire"
  /\ active
  /\ Goto(c, "raise")
  /\ UNCHANGED <<active, abort, lifecycle, call, running, tt, channel, calls, armed>>

(* Mutant of Raise: the mutation merely waits.                             *)
RaiseNothing(c) ==
  /\ pc[c] = "raise"
  /\ Goto(c, "acquire")
  /\ UNCHANGED <<active, abort, lifecycle, call, running, tt, channel, calls, armed>>

(* ... and then the search in the way is asked to stop.                    *)
Raise(c) ==
  /\ pc[c] = "raise"
  /\ abort' = TRUE
  /\ Goto(c, "acquire")
  /\ UNCHANGED <<active, lifecycle, call, running, tt, channel, calls, armed>>

(* What the mutation is about: reset_abort_flag clears the flag; clear_tt  *)
(* and new_search write the table every worker of a search uses.           *)
Mutate(c) ==
  /\ pc[c] = "critical"
  /\ Goto(c, "release")
  /\ IF call[c] = "reset"
       THEN abort' = FALSE /\ armed' = TRUE /\ UNCHANGED tt
       ELSE tt' = tt + 1 /\ UNCHANGED <<abort, armed>>
  /\ UNCHANGED <<active, lifecycle, call, running, channel, calls>>

(* The guards are dropped in the reverse order.                            *)
Release(c) ==
  /\ pc[c] = "release"
  /\ active' = FALSE
  /\ Goto(c, "unlock")
  /\ UNCHANGED <<abort, lifecycle, call, running, tt, channel, calls, armed>>

Unlock(c) ==
  /\ pc[c] = "unlock"
  /\ lifecycle' = None
  /\ Goto(c, "idle")
  /\ UNCHANGED <<active, abort, call, running, tt, channel, calls, armed>>
-----------------------------------------------------------------------------
(* acquire_blocking or try_acquire.  A failed attempt of the first spins;  *)
(* of the second, the call returns None.                                   *)
Enter(c) ==
  /\ pc[c] = "enter"
  /\ ~active
  /\ active' = TRUE
  /\ Goto(c, "prepare")
  /\ UNCHANGED <<abort, lifecycle, call, running, tt, channel, calls, armed>>

TryFails(c) ==
  /\ pc[c] = "enter"
  /\ call[c] = "try"
  /\ active
  /\ Goto(c, "idle")
  /\ UNCHANGED <<active, abort, lifecycle, call, running, tt, channel, calls, armed>>

(* The invocation-scoped observers are reset (begin_go of the root-hint    *)
(* channel, the retirement registry, the counters), and the workers start. *)
Prepare(c) ==
  /\ pc[c] = "prepare"
  /\ channel' = c
  /\ running' = [running EXCEPT ![c] = Workers]
  /\ Goto(c, "searching")
  /\ UNCHANGED <<active, abort, lifecycle, call, tt, calls, armed>>

(* A worker's search returns: at its own limit, or because it polled the   *)
(* stop flag.  With LAZY_MAIN_STOPS worker 0 stops its helpers.            *)
WorkerReturns(c, w) ==
  /\ pc[c] = "searching"
  /\ w \in running[c]
  /\ call[c] = "search infinite" => abort
  /\ running' = [running EXCEPT ![c] = @ \ {w}]
  /\ IF w = Main /\ MainStops /\ Workers # {Main}
       THEN abort' = TRUE /\ armed' = FALSE
       ELSE UNCHANGED <<abort, armed>>
  /\ UNCHANGED <<active, lifecycle, pc, call, tt, channel, calls>>

(* The parallel iterator has collected every worker's result.              *)
Collect(c) ==
  /\ pc[c] = "searching"
  /\ running[c] = {}
  /\ Goto(c, "snapshot")
  /\ UNCHANGED <<active, abort, lifecycle, call, running, tt, channel, calls, armed>>

(* Mutant of Return: the guard is dropped before the counters are read.    *)
ReturnEarly(c) ==
  /\ \/ pc[c] = "searching" /\ running[c] = {} /\ active' = FALSE
        /\ Goto(c, "snapshot")
     \/ pc[c] = "snapshot" /\ UNCHANGED active /\ Goto(c, "idle")
  /\ UNCHANGED <<abort, lifecycle, call, running, tt, channel, calls, armed>>

(* The observers have been read and the invocation guard is dropped.       *)
Return(c) ==
  /\ pc[c] = "snapshot"
  /\ active' = FALSE
  /\ Goto(c, "idle")
  /\ UNCHANGED <<abort, lifecycle, call, running, tt, channel, calls, armed>>
-----------------------------------------------------------------------------
(* The steps a call takes by itself, without another client or a worker.   *)
Advance(c) ==
  \/ Lock(c)
  \/ Acquire(c)
  \/ AcquireFails(c)
  \/ Raise(c)
  \/ Mutate(c)
  \/ Release(c)
  \/ Unlock(c)
  \/ Enter(c)
  \/ TryFails(c)
  \/ Prepare(c)
  \/ Collect(c)
  \/ Return(c)

Terminated ==
  /\ calls = MaxCalls
  /\ abort
  /\ \A c \in Clients : pc[c] = "idle"
  /\ UNCHANGED vars

Next ==
  \/ \E c \in Clients, what \in Calls : Call(c, what)
  \/ Stop
  \/ \E c \in Clients : Advance(c)
  \/ \E c \in Clients, w \in Workers : WorkerReturns(c, w)
  \/ Terminated

Spec == Init /\ [][Next]_vars

(* The scheduler runs every thread, a search with limits ends, and one     *)
(* without them polls the stop flag.  Nobody has to call Stop.             *)
Fairness ==
  \A c \in Clients :
    /\ WF_vars(Advance(c))
    /\ \A w \in Workers : WF_vars(WorkerReturns(c, w))

FairSpec == Spec /\ Fairness
-----------------------------------------------------------------------------
(* The places where a client holds the invocation guard, or the mutex.     *)
Holding  == {"critical", "release", "prepare", "searching", "snapshot"}
Locking  == {"acquire", "raise", "critical", "release", "unlock"}
Places   == {"idle", "lock", "enter"} \cup Holding \cup Locking

(* The two counters.                                                       *)
CountersTypeOK == tt \in Nat /\ calls \in 0 .. MaxCalls

(* Every variable has its type, and no worker outlives its invocation.     *)
TypeOK ==
  /\ active \in BOOLEAN
  /\ abort \in BOOLEAN
  /\ lifecycle \in Clients \cup {None}
  /\ pc \in [Clients -> Places]
  /\ call \in [Clients -> Calls]
  /\ running \in [Clients -> SUBSET Workers]
  /\ CountersTypeOK
  /\ channel \in Clients \cup {None}
  /\ armed \in BOOLEAN
  /\ \A c \in Clients : running[c] # {} => pc[c] = "searching"

(* Invocations exclude each other: while a client holds the guard no other *)
(* does, and the flag says so.  A mutation therefore never runs beside a   *)
(* search, nor a search beside another.                                    *)
Exclusive ==
  /\ \A c, d \in Clients :
       pc[c] \in Holding /\ pc[d] \in Holding => c = d
  /\ active <=> \E c \in Clients : pc[c] \in Holding

(* The shared table is cleared or aged only while no worker runs.          *)
TableQuiescent == [][tt' # tt => \A c \in Clients : running[c] = {}]_vars

(* "prevents a caller preparing the next search from erasing a stop        *)
(* request that still belongs to an active worker group": as long as a     *)
(* worker has not returned, a raised stop flag stays up.                   *)
StopNotErased ==
  [][abort /\ (\E c \in Clients : running[c] # {}) => abort']_vars

(* "one waiter cannot re-arm the abort flag after another waiter reset     *)
(* it": from a reset to the next stop or the next mutation the flag is     *)
(* down, although a waiter may have been on its way to raise it.           *)
ResetSticks == armed => ~abort

(* The counters a search returns are those of its own invocation, although *)
(* the observers are shared by all of them.                                *)
OwnObservers == [][\A c \in Clients : Return(c) => channel = c]_vars

(* A mutation returns, even behind an unlimited search nobody else stops.  *)
MutationReturns ==
  \A c \in Clients :
    (pc[c] # "idle" /\ call[c] \in Mutations) ~> pc[c] = "idle"
=============================================================================
