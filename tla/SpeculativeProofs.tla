------------------------- MODULE SpeculativeProofs --------------------------
(***************************************************************************)
(* Proofs about Speculative for any number of searches, iterations and     *)
(* candidates, and tasks of any depth: what reaches the shared table.      *)
(***************************************************************************)
EXTENDS Speculative, TLAPS

(* What the arguments below need of the types.                             *)
Shape ==
  /\ search \in Nat /\ depth \in Nat
  /\ external \in BOOLEAN
  /\ latched \in [Searches -> BOOLEAN]
  /\ taskAbort \in [Tasks -> BOOLEAN]
  /\ task \in [Tasks -> Places]
  /\ partial \in [Tasks -> BOOLEAN]
  /\ late \in [Tasks -> Nat]

(* Tasks belong to iterations that have begun.                             *)
SpawnedInv ==
  \A t \in Tasks :
    task[t] # "none" => t[1] < search \/ (t[1] = search /\ t[2] <= depth)

(* After its late store a task is in no place from which it stores again.  *)
LateInv ==
  \A t \in Tasks :
    late[t] # 0 => late[t] = 1 /\ Latched(t) /\ task[t] \in {"recheck", "done"}

(* As long as its search runs, a task with the 0 of an aborted call in it  *)
(* finds the flag that aborted the call still up.                          *)
PartialInv ==
  \A t \in Tasks :
    partial[t] /\ search = t[1] =>
      /\ task[t] \in {"recheck", "recheck external", "done"}
      /\ Stopped(t)
      /\ task[t] = "recheck external" => external

(* Nothing is partial in a task that has not been spawned.                 *)
FreshInv == \A t \in Tasks : task[t] = "none" => ~partial[t] /\ late[t] = 0

IInv == Shape /\ SpawnedInv /\ LateInv /\ PartialInv /\ FreshInv
-----------------------------------------------------------------------------
LEMMA Initial == Init => IInv
<1> SUFFICES ASSUME Init PROVE IInv
  OBVIOUS
<1>1. Shape
  BY DEF Init, Shape, Places
<1>2. SpawnedInv
  BY DEF Init, SpawnedInv
<1>3. LateInv /\ FreshInv
  BY DEF Init, LateInv, FreshInv
<1>4. PartialInv
  BY DEF Init, PartialInv
<1>5. QED
  BY <1>1, <1>2, <1>3, <1>4 DEF IInv

(* The search and the iteration a task belongs to.                         *)
LEMMA Owner == \A t \in Tasks : t[1] \in Searches /\ t[1] \in Nat /\ t[2] \in Nat
BY DEF Tasks, Searches

(* The steps of the foreground.                                            *)
LEMMA MainStep ==
  ASSUME IInv, Main \/ Stop \/ Watchdog \/ UNCHANGED vars
  PROVE  IInv'
<1> USE DEF IInv, mainVars, flagVars, taskVars, vars
<1>1. ASSUME Go PROVE IInv'
  <2>1. Shape'
    <3>0. search \in Nat
      BY DEF Shape
    <3>1. search' = search + 1 /\ depth' = 0 /\ external' = FALSE
      BY <1>1 DEF Go
    <3>2. search' \in Nat /\ depth' \in Nat
      BY <3>0, <3>1
    <3>3. external' \in BOOLEAN
      BY <3>1
    <3>4. QED
      BY <1>1, <3>2, <3>3 DEF Shape, Go
  <2>2. SpawnedInv'
    <3>1. search \in Nat /\ search' = search + 1
      BY <1>1 DEF Shape, Go
    <3>2. QED
      BY <1>1, <3>1, Owner DEF SpawnedInv, Go
  <2>3. LateInv'
    BY <1>1 DEF Shape, LateInv, Latched, Go
  <2>4. PartialInv'
    <3>1. search \in Nat /\ search' = search + 1
      BY <1>1 DEF Shape, Go
    <3>2. ASSUME NEW t \in Tasks, partial[t] PROVE search' # t[1]
      <4>1. t[1] \in Nat /\ t[1] <= search
        BY <3>1, <3>2, Owner DEF SpawnedInv, FreshInv
      <4>2. QED
        BY <3>1, <4>1
    <3>3. partial' = partial
      BY <1>1 DEF Go
    <3>4. QED
      BY <3>2, <3>3 DEF PartialInv
  <2>5. FreshInv'
    BY <1>1 DEF Shape, FreshInv, Go
  <2>6. QED
    BY <2>1, <2>2, <2>3, <2>4, <2>5 DEF IInv
<1>2. ASSUME Install PROVE IInv'
  <2>1. Shape'
    BY <1>2 DEF Shape, Places, Install
  <2>2. SpawnedInv'
    BY <1>2, Owner DEF Shape, SpawnedInv, Install
  <2>3. LateInv'
    BY <1>2 DEF Shape, LateInv, Latched, Install
  <2>4. PartialInv'
    BY <1>2, Owner DEF Shape, PartialInv, Latched, Stopped, Install
  <2>5. FreshInv'
    BY <1>2 DEF Shape, FreshInv, Install
  <2>6. QED
    BY <2>1, <2>2, <2>3, <2>4, <2>5 DEF IInv
<1>3. ASSUME Iterate PROVE IInv'
  <2>0. /\ search \in Nat /\ depth \in Nat
        /\ \A t \in Tasks : t[1] = search /\ t[2] = depth + 1 => task[t] = "none"
    <3>1. search \in Nat /\ depth \in Nat
      BY DEF Shape
    <3>2. QED
      BY <3>1, Owner DEF SpawnedInv
  <2>1. Shape'
    <3>1. task' \in [Tasks -> Places]
      BY <1>3 DEF Shape, Places, Iterate
    <3>2. depth' \in Nat
      BY <1>3, <2>0 DEF Iterate
    <3>3. QED
      BY <1>3, <3>1, <3>2 DEF Shape, Iterate
  <2>2. SpawnedInv'
    BY <1>3, <2>0, Owner DEF SpawnedInv, Iterate
  <2>3. LateInv'
    BY <1>3, <2>0 DEF LateInv, FreshInv, Latched, Iterate
  <2>4. PartialInv'
    BY <1>3, <2>0 DEF PartialInv, FreshInv, Latched, Stopped, Iterate
  <2>5. FreshInv'
    BY <1>3, <2>0 DEF FreshInv, Iterate
  <2>6. QED
    BY <2>1, <2>2, <2>3, <2>4, <2>5 DEF IInv
<1>4. ASSUME RootDone PROVE IInv'
  <2>1. Shape'
    BY <1>4 DEF Shape, Places, RootDone
  <2>2. SpawnedInv'
    BY <1>4, Owner DEF Shape, SpawnedInv, RootDone
  <2>3. LateInv'
    BY <1>4 DEF Shape, LateInv, Latched, RootDone
  <2>4. PartialInv'
    BY <1>4, Owner DEF Shape, PartialInv, Latched, Stopped, RootDone
  <2>5. FreshInv'
    BY <1>4 DEF Shape, FreshInv, RootDone
  <2>6. QED
    BY <2>1, <2>2, <2>3, <2>4, <2>5 DEF IInv
<1>5. ASSUME Finish PROVE IInv'
  <2>1. Shape'
    BY <1>5 DEF Shape, Places, Finish
  <2>2. SpawnedInv'
    BY <1>5, Owner DEF Shape, SpawnedInv, Finish
  <2>3. LateInv'
    BY <1>5 DEF Shape, LateInv, Latched, Finish
  <2>4. PartialInv'
    BY <1>5, Owner DEF Shape, PartialInv, Latched, Stopped, Finish
  <2>5. FreshInv'
    BY <1>5 DEF Shape, FreshInv, Finish
  <2>6. QED
    BY <2>1, <2>2, <2>3, <2>4, <2>5 DEF IInv
<1>6. ASSUME Stop PROVE IInv'
  <2>1. Shape'
    BY <1>6 DEF Shape, Places, Stop
  <2>2. SpawnedInv'
    BY <1>6, Owner DEF Shape, SpawnedInv, Stop
  <2>3. LateInv'
    BY <1>6 DEF Shape, LateInv, Latched, Stop
  <2>4. PartialInv'
    BY <1>6, Owner DEF Shape, PartialInv, Latched, Stopped, Stop
  <2>5. FreshInv'
    BY <1>6 DEF Shape, FreshInv, Stop
  <2>6. QED
    BY <2>1, <2>2, <2>3, <2>4, <2>5 DEF IInv
<1>7. ASSUME Watchdog PROVE IInv'
  <2>1. Shape'
    BY <1>7 DEF Shape, Places, Watchdog
  <2>2. SpawnedInv'
    BY <1>7, Owner DEF Shape, SpawnedInv, Watchdog
  <2>3. LateInv'
    BY <1>7 DEF Shape, LateInv, Latched, Watchdog
  <2>4. PartialInv'
    BY <1>7, Owner DEF Shape, PartialInv, Latched, Stopped, Watchdog
  <2>5. FreshInv'
    BY <1>7 DEF Shape, FreshInv, Watchdog
  <2>6. QED
    BY <2>1, <2>2, <2>3, <2>4, <2>5 DEF IInv
<1>8. ASSUME UNCHANGED vars PROVE IInv'
  <2>1. Shape'
    BY <1>8 DEF Shape, Places
  <2>2. SpawnedInv'
    BY <1>8, Owner DEF Shape, SpawnedInv
  <2>3. LateInv'
    BY <1>8 DEF Shape, LateInv, Latched
  <2>4. PartialInv'
    BY <1>8, Owner DEF Shape, PartialInv, Latched, Stopped
  <2>5. FreshInv'
    BY <1>8 DEF Shape, FreshInv
  <2>6. QED
    BY <2>1, <2>2, <2>3, <2>4, <2>5 DEF IInv
<1>9. QED
  BY <1>1, <1>2, <1>3, <1>4, <1>5, <1>6, <1>7, <1>8 DEF Main

(* The steps of a task.                                                    *)
LEMMA TaskSteps ==
  ASSUME IInv, NEW t \in Tasks, Start(t) \/ Steal(t) \/ TaskStep(t)
  PROVE  IInv'
<1> USE DEF IInv, mainVars, flagVars, taskVars, vars
<1>1. ASSUME Begin(t) PROVE IInv'
  <2>1. Shape'
    BY <1>1 DEF Shape, Places, Begin, Place, Leave
  <2>2. SpawnedInv'
    BY <1>1, Owner DEF Shape, SpawnedInv, Begin, Place, Leave
  <2>3. LateInv'
    BY <1>1 DEF Shape, LateInv, Latched, Begin, Place, Leave
  <2>4. PartialInv'
    BY <1>1, Owner DEF Shape, PartialInv, Latched, Stopped, Begin, Place, Leave
  <2>5. FreshInv'
    BY <1>1 DEF Shape, FreshInv, Begin, Place, Leave
  <2>6. QED
    BY <2>1, <2>2, <2>3, <2>4, <2>5 DEF IInv
<1>2. ASSUME NodeAborts(t) PROVE IInv'
  <2>1. Shape'
    BY <1>2 DEF Shape, Places, NodeAborts, Place, Leave
  <2>2. SpawnedInv'
    BY <1>2, Owner DEF Shape, SpawnedInv, NodeAborts, Place, Leave
  <2>3. LateInv'
    BY <1>2 DEF Shape, LateInv, Latched, NodeAborts, Place, Leave
  <2>4. PartialInv'
    BY <1>2, Owner DEF Shape, PartialInv, Latched, Stopped, NodeAborts, Place, Leave
  <2>5. FreshInv'
    BY <1>2 DEF Shape, FreshInv, NodeAborts, Place, Leave
  <2>6. QED
    BY <2>1, <2>2, <2>3, <2>4, <2>5 DEF IInv
<1>3. ASSUME NodeReturns(t) PROVE IInv'
  <2>1. Shape'
    BY <1>3 DEF Shape, Places, NodeReturns, Place, Leave
  <2>2. SpawnedInv'
    BY <1>3, Owner DEF Shape, SpawnedInv, NodeReturns, Place, Leave
  <2>3. LateInv'
    BY <1>3 DEF Shape, LateInv, Latched, NodeReturns, Place, Leave
  <2>4. PartialInv'
    BY <1>3, Owner DEF Shape, PartialInv, Latched, Stopped, NodeReturns, Place, Leave
  <2>5. FreshInv'
    BY <1>3 DEF Shape, FreshInv, NodeReturns, Place, Leave
  <2>6. QED
    BY <2>1, <2>2, <2>3, <2>4, <2>5 DEF IInv
<1>4. ASSUME Descend(t) PROVE IInv'
  <2>1. Shape'
    BY <1>4 DEF Shape, Places, Descend, Place, Leave
  <2>2. SpawnedInv'
    BY <1>4, Owner DEF Shape, SpawnedInv, Descend, Place, Leave
  <2>3. LateInv'
    BY <1>4 DEF Shape, LateInv, Latched, Descend, Place, Leave
  <2>4. PartialInv'
    BY <1>4, Owner DEF Shape, PartialInv, Latched, Stopped, Descend, Place, Leave
  <2>5. FreshInv'
    BY <1>4 DEF Shape, FreshInv, Descend, Place, Leave
  <2>6. QED
    BY <2>1, <2>2, <2>3, <2>4, <2>5 DEF IInv
<1>5. ASSUME Recheck(t) PROVE IInv'
  <2>1. Shape'
    BY <1>5 DEF Shape, Places, Recheck, Place, Leave
  <2>2. SpawnedInv'
    BY <1>5, Owner DEF Shape, SpawnedInv, Recheck, Place, Leave
  <2>3. LateInv'
    BY <1>5 DEF Shape, LateInv, Latched, Recheck, Place, Leave
  <2>4. PartialInv'
    BY <1>5, Owner DEF Shape, PartialInv, Latched, Stopped, Recheck, Place, Leave
  <2>5. FreshInv'
    BY <1>5 DEF Shape, FreshInv, Recheck, Place, Leave
  <2>6. QED
    BY <2>1, <2>2, <2>3, <2>4, <2>5 DEF IInv
<1>6. ASSUME RecheckExternal(t) PROVE IInv'
  <2>1. Shape'
    BY <1>6 DEF Shape, Places, RecheckExternal, Place, Leave
  <2>2. SpawnedInv'
    BY <1>6, Owner DEF Shape, SpawnedInv, RecheckExternal, Place, Leave
  <2>3. LateInv'
    BY <1>6 DEF Shape, LateInv, Latched, RecheckExternal, Place, Leave
  <2>4. PartialInv'
    BY <1>6, Owner DEF Shape, PartialInv, Latched, Stopped, RecheckExternal, Place, Leave
  <2>5. FreshInv'
    BY <1>6 DEF Shape, FreshInv, RecheckExternal, Place, Leave
  <2>6. QED
    BY <2>1, <2>2, <2>3, <2>4, <2>5 DEF IInv
<1>7. ASSUME Store(t) PROVE IInv'
  <2>1. Shape'
    <3>1. late' \in [Tasks -> Nat]
      <4>1. \A u \in Tasks : late[u] \in Nat /\ late[u] + 1 \in Nat
        BY DEF Shape
      <4>2. QED
        BY <1>7, <4>1 DEF Shape, Store
    <3>2. task' \in [Tasks -> Places]
      BY <1>7 DEF Shape, Places, Store, Place, Leave
    <3>3. QED
      BY <1>7, <3>1, <3>2 DEF Shape, Store
  <2>2. SpawnedInv'
    BY <1>7, Owner DEF Shape, SpawnedInv, Store, Place, Leave
  <2>3. LateInv'
    BY <1>7 DEF Shape, LateInv, Latched, Store, Place, Leave
  <2>4. PartialInv'
    BY <1>7, Owner DEF Shape, PartialInv, Latched, Stopped, Store, Place, Leave
  <2>5. FreshInv'
    BY <1>7 DEF Shape, FreshInv, Store, Place, Leave
  <2>6. QED
    BY <2>1, <2>2, <2>3, <2>4, <2>5 DEF IInv
<1>8. QED
  BY <1>1, <1>2, <1>3, <1>4, <1>5, <1>6, <1>7 DEF Start, Steal, TaskStep

LEMMA Inductive == IInv /\ [Next]_vars => IInv'
BY MainStep, TaskSteps DEF Next, Terminated

LEMMA Invariance == Spec => []IInv
BY Initial, Inductive, PTL DEF Spec
-----------------------------------------------------------------------------
(* A task whose own flag or budget has aborted stores once more at most.   *)
THEOREM LateOnce == Spec => []OneLateStore
<1>1. IInv => OneLateStore
  BY DEF IInv, Shape, LateInv, OneLateStore
<1>2. QED
  BY <1>1, Invariance, PTL

(* While its search runs, a task stores nothing that rests on an aborted   *)
(* call.                                                                   *)
THEOREM Whole == Spec => WholeWithinSearch
<1> DEFINE Kept == \A t \in Tasks : Stores(t) /\ partial[t] => search > t[1]
<1>1. ASSUME IInv, NEW t \in Tasks, Stores(t), partial[t] PROVE search > t[1]
  <2>1. search \in Nat /\ t[1] \in Nat
    BY <1>1, Owner DEF IInv, Shape
  <2>2. t[1] <= search
    BY <1>1, <2>1 DEF IInv, SpawnedInv, Stores
  <2>3. search # t[1]
    BY <1>1 DEF IInv, PartialInv, Stores
  <2>4. QED
    BY <2>1, <2>2, <2>3
<1>2. IInv /\ [Next]_vars => [Kept]_vars
  BY <1>1
<1>3. QED
  BY <1>2, Invariance, PTL DEF Spec, WholeWithinSearch
=============================================================================
