---------------------------- MODULE LazySmpProofs ----------------------------
(***************************************************************************)
(* Safety of the LazySmpSearcher lifecycle for any number of clients,      *)
(* workers and calls.                                                      *)
(***************************************************************************)
EXTENDS LazySmpLifecycle, TLAPS

(* The mutex: whoever is between lock and unlock holds it.                 *)
MutexInv == \A c \in Clients : pc[c] \in Locking => lifecycle = c

(* The observers belong to the search that has prepared them.              *)
ChannelInv == \A c \in Clients : pc[c] \in {"searching", "snapshot"} => channel = c

(* After a reset nobody is on the way to raise the flag, and it is down.   *)
ArmedInv ==
  armed => /\ ~abort
           /\ \A c \in Clients : pc[c] \notin {"acquire", "raise", "critical"}

IInv == TypeOK /\ Exclusive /\ MutexInv /\ ChannelInv /\ ArmedInv
-----------------------------------------------------------------------------
(* A bounded counter below its bound may be incremented.                   *)
LEMMA Increment ==
  ASSUME NEW n \in Nat, NEW k \in 0 .. n, k < n
  PROVE  k + 1 \in 0 .. n
OBVIOUS

USE ClientsAssumption, MaxCallsAssumption
    DEF Holding, Locking, Places, Mutations, Searches, Calls

LEMMA InitIInv == Init => IInv
<1> SUFFICES ASSUME Init PROVE IInv
  OBVIOUS
<1>1. TypeOK
  <2>1. active \in BOOLEAN /\ abort \in BOOLEAN /\ armed \in BOOLEAN
    BY Zenon DEF Init
  <2>6. tt \in Nat /\ calls \in 0 .. MaxCalls
    BY DEF Init
  <2>2. /\ pc \in [Clients -> Places]
        /\ call \in [Clients -> Calls]
        /\ running \in [Clients -> SUBSET Workers]
    BY DEF Init
  <2>3. \A c \in Clients : running[c] = {}
    BY DEF Init
  <2>4. lifecycle \in Clients \cup {None} /\ channel \in Clients \cup {None}
    BY DEF Init
  <2>5. QED
    BY <2>1, <2>2, <2>3, <2>4, <2>6 DEF TypeOK, CountersTypeOK
<1>2. Exclusive /\ MutexInv /\ ChannelInv /\ ArmedInv
  BY DEF Init, Exclusive, MutexInv, ChannelInv, ArmedInv
<1>3. QED
  BY <1>1, <1>2 DEF IInv

(* A step of a call by itself moves only its own client.                   *)
LEMMA AdvanceFrame ==
  ASSUME TypeOK, NEW c \in Clients, Advance(c)
  PROVE  /\ pc' = [pc EXCEPT ![c] = pc'[c]]
         /\ pc'[c] \in Places
         /\ UNCHANGED <<call, calls>>
BY DEF TypeOK, Advance, Goto, Lock, Acquire, AcquireFails, Raise, Mutate,
       Release, Unlock, Enter, TryFails, Prepare, Collect, Return

LEMMA TypeInductive == TypeOK /\ [Next]_vars => TypeOK'
<1> SUFFICES ASSUME TypeOK, [Next]_vars PROVE TypeOK'
  OBVIOUS
<1>n. CountersTypeOK
  BY Zenon DEF TypeOK
<1>t. tt \in Nat /\ calls \in 0 .. MaxCalls
  BY <1>n DEF CountersTypeOK
<1>c. ASSUME NEW c \in Clients, NEW what \in Calls, Call(c, what)
      PROVE  calls' \in 0 .. MaxCalls
  <2>1. calls < MaxCalls /\ calls' = calls + 1
    BY <1>c, Zenon DEF Call
  <2>2. calls + 1 \in 0 .. MaxCalls
    BY <1>t, <2>1, Increment, Zenon
  <2>3. QED
    BY <2>1, <2>2, Zenon
<1>m. ASSUME NEW c \in Clients, Mutate(c)
      PROVE  tt' \in Nat
  BY <1>t, <1>m DEF Mutate
<1> USE DEF TypeOK, CountersTypeOK, Goto
<1>1. ASSUME NEW c \in Clients, NEW what \in Calls, Call(c, what) PROVE TypeOK'
  <2>1. calls' \in 0 .. MaxCalls
    BY <1>1, <1>c
  <2>2. pc' \in [Clients -> Places]
    <3>1. CASE pc' = [pc EXCEPT ![c] = "lock"]
      BY <3>1
    <3>2. CASE pc' = [pc EXCEPT ![c] = "enter"]
      BY <3>2
    <3>3. QED
      BY <1>1, <3>1, <3>2, Zenon DEF Call
  <2>3. call' \in [Clients -> Calls]
    BY <1>1 DEF Call
  <2>4. \A d \in Clients : running[d] # {} => pc'[d] = "searching"
    BY <1>1 DEF Call
  <2>5. QED
    BY <1>1, <2>1, <2>2, <2>3, <2>4 DEF Call
<1>2. CASE Stop
  BY <1>2 DEF Stop
<1>3. ASSUME NEW c \in Clients, Advance(c) PROVE TypeOK'
  <2>1. CASE Lock(c) \/ Acquire(c) \/ AcquireFails(c) \/ Raise(c)
    BY <2>1 DEF Lock, Acquire, AcquireFails, Raise
  <2>2. CASE Release(c) \/ Unlock(c)
    BY <2>2 DEF Release, Unlock
  <2>6. CASE Mutate(c)
    <3>1. abort' \in {abort, FALSE} /\ armed' \in {armed, TRUE}
      BY <2>6, Zenon DEF Mutate
    <3>3. abort' \in BOOLEAN /\ armed' \in BOOLEAN
      BY <3>1, Zenon
    <3>7. tt' \in Nat
      BY <1>m, <2>6
    <3>4. pc' \in [Clients -> Places] /\ pc[c] = "critical"
      BY <2>6 DEF Mutate
    <3>5. \A d \in Clients : running[d] # {} => pc'[d] = "searching"
      BY <2>6 DEF Mutate
    <3>6. QED
      BY <2>6, <3>3, <3>4, <3>5, <3>7 DEF Mutate
  <2>3. CASE Enter(c) \/ TryFails(c) \/ Collect(c) \/ Return(c)
    BY <2>3 DEF Enter, TryFails, Collect, Return
  <2>4. CASE Prepare(c)
    BY <2>4 DEF Prepare
  <2>5. QED
    BY <1>3, <2>1, <2>2, <2>3, <2>4, <2>6 DEF Advance
<1>4. ASSUME NEW c \in Clients, NEW w \in Workers, WorkerReturns(c, w)
      PROVE  TypeOK'
  BY <1>4 DEF WorkerReturns
<1>5. CASE UNCHANGED vars
  BY <1>5 DEF vars
<1>6. QED
  BY <1>1, <1>2, <1>3, <1>4, <1>5 DEF Next, Terminated

LEMMA ExclusiveInductive == TypeOK /\ Exclusive /\ [Next]_vars => Exclusive'
<1> SUFFICES ASSUME TypeOK, Exclusive, [Next]_vars PROVE Exclusive'
  OBVIOUS
<1> USE DEF Exclusive, Goto
<1>t. pc \in [Clients -> Places]
  BY DEF TypeOK
<1>1. CASE /\ \A c \in Clients : pc'[c] \in Holding <=> pc[c] \in Holding
           /\ active' <=> active
  BY <1>1
<1>2. ASSUME NEW c \in Clients, NEW what \in Calls, Call(c, what)
      PROVE  Exclusive'
  BY <1>t, <1>1, <1>2 DEF Call
<1>3. ASSUME NEW c \in Clients, Advance(c) PROVE Exclusive'
  <2>1. CASE Acquire(c) \/ Enter(c)
    <3>1. /\ ~active
          /\ active'
          /\ pc'[c] \in Holding
          /\ \A d \in Clients : d # c => pc'[d] = pc[d]
      BY <1>t, <2>1 DEF Acquire, Enter
    <3>2. \A d \in Clients : d # c => pc'[d] \notin Holding
      BY <3>1
    <3>3. QED
      BY <3>1, <3>2
  <2>2. CASE Release(c) \/ Return(c)
    <3>1. /\ pc[c] \in Holding
          /\ ~active'
          /\ pc'[c] \notin Holding
          /\ \A d \in Clients : d # c => pc'[d] = pc[d]
      BY <1>t, <2>2 DEF Release, Return
    <3>2. QED
      BY <3>1
  <2>3. CASE \/ Lock(c) \/ AcquireFails(c) \/ Raise(c) \/ Unlock(c) \/ TryFails(c)
             \/ Mutate(c) \/ Prepare(c) \/ Collect(c)
    <3>1. active' = active /\ \A d \in Clients : d # c => pc'[d] = pc[d]
      BY <1>t, <2>3 DEF Lock, AcquireFails, Raise, Unlock, TryFails, Mutate,
                        Prepare, Collect
    <3>2. pc'[c] \in Holding <=> pc[c] \in Holding
      BY <1>t, <2>3 DEF Lock, AcquireFails, Raise, Unlock, TryFails, Mutate,
                        Prepare, Collect
    <3>3. QED
      BY <1>1, <3>1, <3>2
  <2>4. QED
    BY <1>3, <2>1, <2>2, <2>3 DEF Advance
<1>4. CASE UNCHANGED <<pc, active>>
  BY <1>1, <1>4
<1>5. QED
  BY <1>2, <1>3, <1>4 DEF Next, Stop, WorkerReturns, Terminated, vars

LEMMA MutexInductive == TypeOK /\ MutexInv /\ [Next]_vars => MutexInv'
<1> SUFFICES ASSUME TypeOK, MutexInv, [Next]_vars PROVE MutexInv'
  OBVIOUS
<1> USE DEF MutexInv, TypeOK, Goto
<1>1. ASSUME NEW c \in Clients, NEW what \in Calls, Call(c, what)
      PROVE  MutexInv'
  BY <1>1 DEF Call
<1>2. ASSUME NEW c \in Clients, Advance(c) PROVE MutexInv'
  <2>1. CASE Lock(c)
    BY <2>1 DEF Lock
  <2>2. CASE Unlock(c)
    BY <2>2 DEF Unlock
  <2>3. CASE /\ lifecycle' = lifecycle
             /\ pc'[c] \in Locking => pc[c] \in Locking
    BY <1>2, <2>3, AdvanceFrame
  <2>4. QED
    BY <1>2, <2>1, <2>2, <2>3
       DEF Advance, Acquire, AcquireFails, Raise, Mutate, Release, Enter,
           TryFails, Prepare, Collect, Return
<1>3. CASE UNCHANGED <<pc, lifecycle>>
  BY <1>3
<1>4. QED
  BY <1>1, <1>2, <1>3 DEF Next, Stop, WorkerReturns, Terminated, vars

LEMMA ChannelInductive ==
  TypeOK /\ Exclusive /\ ChannelInv /\ [Next]_vars => ChannelInv'
<1> SUFFICES ASSUME TypeOK, Exclusive, ChannelInv, [Next]_vars
             PROVE  ChannelInv'
  OBVIOUS
<1> USE DEF ChannelInv, TypeOK, Goto
<1>1. ASSUME NEW c \in Clients, NEW what \in Calls, Call(c, what)
      PROVE  ChannelInv'
  BY <1>1 DEF Call
<1>2. ASSUME NEW c \in Clients, Advance(c) PROVE ChannelInv'
  <2>1. CASE Prepare(c)
    BY <2>1 DEF Prepare, Exclusive
  <2>2. CASE /\ channel' = channel
             /\ pc'[c] \in {"searching", "snapshot"} => pc[c] = "searching"
    BY <1>2, <2>2, AdvanceFrame
  <2>3. QED
    BY <1>2, <2>1, <2>2
       DEF Advance, Lock, Unlock, Acquire, AcquireFails, Raise, Mutate,
           Release, Enter, TryFails, Collect, Return
<1>3. CASE UNCHANGED <<pc, channel>>
  BY <1>3
<1>4. QED
  BY <1>1, <1>2, <1>3 DEF Next, Stop, WorkerReturns, Terminated, vars

LEMMA ArmedInductive ==
  TypeOK /\ MutexInv /\ ArmedInv /\ [Next]_vars => ArmedInv'
<1> SUFFICES ASSUME TypeOK, MutexInv, ArmedInv, [Next]_vars PROVE ArmedInv'
  OBVIOUS
<1> USE DEF ArmedInv, TypeOK, Goto
<1>1. ASSUME NEW c \in Clients, NEW what \in Calls, Call(c, what)
      PROVE  ArmedInv'
  BY <1>1 DEF Call
<1>2. CASE Stop
  BY <1>2 DEF Stop
<1>3. ASSUME NEW c \in Clients, Advance(c) PROVE ArmedInv'
  <2>1. CASE Lock(c)
    BY <2>1 DEF Lock
  <2>2. CASE Acquire(c) \/ AcquireFails(c) \/ Raise(c)
    BY <2>2 DEF Acquire, AcquireFails, Raise
  <2>3. CASE Mutate(c)
    <3>1. \A d \in Clients \ {c} : pc[d] \notin Locking
      BY <2>3 DEF Mutate, MutexInv
    <3>2. QED
      BY <2>3, <3>1 DEF Mutate
  <2>4. CASE Release(c) \/ Unlock(c) \/ Enter(c) \/ TryFails(c)
    BY <2>4 DEF Release, Unlock, Enter, TryFails
  <2>5. CASE Prepare(c) \/ Collect(c) \/ Return(c)
    BY <2>5 DEF Prepare, Collect, Return
  <2>6. QED
    BY <1>3, <2>1, <2>2, <2>3, <2>4, <2>5 DEF Advance
<1>4. ASSUME NEW c \in Clients, NEW w \in Workers, WorkerReturns(c, w)
      PROVE  ArmedInv'
  BY <1>4 DEF WorkerReturns
<1>5. CASE UNCHANGED vars
  BY <1>5 DEF vars
<1>6. QED
  BY <1>1, <1>2, <1>3, <1>4, <1>5 DEF Next, Terminated

(* The inductive invariant holds throughout.                               *)
THEOREM Invariance == Spec => []IInv
<1>1. IInv /\ [Next]_vars => IInv'
  BY TypeInductive, ExclusiveInductive, MutexInductive, ChannelInductive,
     ArmedInductive DEF IInv
<1>2. QED
  BY <1>1, InitIInv, PTL DEF Spec

(* Type correctness, and no worker outlives its invocation.                *)
THEOREM TypeCorrect == Spec => []TypeOK
BY Invariance, PTL DEF IInv

(* Invocations exclude each other whatever the clients do.                 *)
THEOREM MutualExclusion == Spec => []Exclusive
BY Invariance, PTL DEF IInv

(* A waiter never re-arms the stop flag another waiter has reset.          *)
THEOREM ResetIsNotUndone == Spec => []ResetSticks
<1>1. IInv => ResetSticks
  BY DEF IInv, ArmedInv, ResetSticks
<1>2. QED
  BY <1>1, Invariance, PTL

(* The shared table changes only while no worker runs.                     *)
THEOREM TableIsQuiescent == Spec => TableQuiescent
<1>1. IInv /\ [Next]_vars =>
        [tt' # tt => \A c \in Clients : running[c] = {}]_vars
  <2> SUFFICES ASSUME IInv, [Next]_vars, tt' # tt, NEW c \in Clients
               PROVE  running[c] = {}
    OBVIOUS
  <2>1. PICK d \in Clients : Mutate(d)
    BY DEF Next, Call, Stop, Advance, Lock, Unlock, Acquire, AcquireFails,
           Raise, Release, Enter, TryFails, Prepare, Collect, Return,
           WorkerReturns, Terminated, vars
  <2>2. pc[c] # "searching"
    BY <2>1 DEF Mutate, IInv, Exclusive
  <2>3. QED
    BY <2>2 DEF IInv, TypeOK
<1>2. QED
  BY <1>1, Invariance, PTL DEF Spec, TableQuiescent

(* A stop request survives until the worker group it belongs to is joined. *)
THEOREM StopSurvives == Spec => StopNotErased
<1>1. IInv /\ [Next]_vars =>
        [abort /\ (\E c \in Clients : running[c] # {}) => abort']_vars
  <2> SUFFICES ASSUME IInv, [Next]_vars, abort, NEW c \in Clients,
                      running[c] # {}, ~abort'
               PROVE  FALSE
    OBVIOUS
  <2>1. PICK d \in Clients : Mutate(d)
    BY DEF Next, Call, Stop, Advance, Lock, Unlock, Acquire, AcquireFails,
           Raise, Release, Enter, TryFails, Prepare, Collect, Return,
           WorkerReturns, Terminated, vars
  <2>2. pc[c] = "searching" /\ pc[d] = "critical"
    BY <2>1 DEF Mutate, IInv, TypeOK
  <2>3. QED
    BY <2>2 DEF IInv, Exclusive
<1>2. QED
  BY <1>1, Invariance, PTL DEF Spec, StopNotErased

(* A search reports the observers of its own invocation.                   *)
THEOREM ObserversAreOwn == Spec => OwnObservers
<1>1. IInv => \A c \in Clients : Return(c) => channel = c
  BY DEF IInv, ChannelInv, Return
<1>2. QED
  BY <1>1, Invariance, PTL DEF Spec, OwnObservers
=============================================================================
