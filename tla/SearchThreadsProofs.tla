------------------------- MODULE SearchThreadsProofs ------------------------
(***************************************************************************)
(* Proofs about two things the threads of one search step through by       *)
(* themselves: the shared evaluation cache (EvalCache), for any number of  *)
(* workers, positions and stores, and the search budget (Budget), for any  *)
(* number of searchers, any limits and any batch size.                     *)
(*                                                                         *)
(* Of the theorems about the cache only NoMixedHit asks that a claim be    *)
(* seen before its payload.                                                *)
(***************************************************************************)
EXTENDS EvalCache, Budget, FiniteSetTheorems, TLAPS

(* Whoever claims has loaded an even sequence, and the claim is one more.  *)
ClaimInv ==
  \A t \in Threads :
    /\ pc[t] \in {"claim", "write"} => Even(before[t])
    /\ pc[t] = "write" => sequence = before[t] + 1

OwnerInv == OneWriter /\ ClaimInv

(* What a writer has stored so far.                                        *)
WriterInv ==
  \A t \in Threads : pc[t] = "write" =>
    /\ "hash" \notin left[t] => hash = key[t]
    /\ "score" \notin left[t] => score = key[t]

(* A reader has loaded an even sequence no newer than the slot's.          *)
LoadedInv ==
  \A t \in Threads : pc[t] \in {"readHash", "readScore", "validate"} =>
    Even(before[t]) /\ before[t] # 0 /\ before[t] <= sequence

(* A slot that is not being written holds the pair of one store.           *)
PairInv == Even(sequence) /\ sequence # 0 => hash = score

(* What a reader has loaded is still in the slot if the sequence is.       *)
ReaderInv ==
  \A t \in Threads :
    /\ pc[t] \in {"readScore", "validate"} /\ before[t] = sequence =>
         readHash[t] = hash
    /\ pc[t] = "validate" /\ before[t] = sequence => readScore[t] = score

IInv ==
  /\ TypeOK
  /\ OwnerInv
  /\ WriterInv
  /\ LoadedInv
  /\ PairInv
  /\ ReaderInv
  /\ NoMixedHit
-----------------------------------------------------------------------------
(* Parity of the sequence numbers around a store.                          *)
LEMMA Parity ==
  ASSUME NEW n \in Nat
  PROVE  /\ Even(n) => ~Even(n + 1) /\ Even(n + 2)
         /\ ~Even(n) => Even(n + 1)
         /\ Even(0)
BY DEF Even

(* The sequences that can be loaded.                                       *)
LEMMA Loads ==
  ASSUME sequence \in Nat
  PROVE  Loadable \subseteq Nat /\ (~LateClaim => Loadable = {sequence})
<1>1. ~Even(sequence) => sequence - 1 \in Nat
  BY DEF Even
<1>2. QED
  BY <1>1 DEF Loadable

USE HashesAssumption

(* The variables keep their types, wherever the claim is seen.             *)
LEMMA TypeInductive == TypeOK /\ [Next]_vars => TypeOK'
<1> SUFFICES ASSUME TypeOK, [Next]_vars PROVE TypeOK'
  OBVIOUS
<1> USE DEF TypeOK, Goto, slot, local, Places
<1>1. ASSUME NEW t \in Threads, NEW h \in Hashes, Probe(t, h) PROVE TypeOK'
  BY <1>1, Loads DEF Probe
<1>2. ASSUME NEW t \in Threads, ReadHash(t) PROVE TypeOK'
  BY <1>2 DEF ReadHash
<1>3. ASSUME NEW t \in Threads, ReadScore(t) PROVE TypeOK'
  BY <1>3 DEF ReadScore
<1>4. ASSUME NEW t \in Threads, Validate(t) PROVE TypeOK'
  BY <1>4 DEF Validate
<1>5. ASSUME NEW t \in Threads, Hit(t) PROVE TypeOK'
  BY <1>5 DEF Hit
<1>6. ASSUME NEW t \in Threads, LoadSequence(t) PROVE TypeOK'
  BY <1>6, Loads DEF LoadSequence
<1>7. ASSUME NEW t \in Threads, Claim(t) PROVE TypeOK'
  BY <1>7 DEF Claim
<1>8. ASSUME NEW t \in Threads, ClaimFails(t) PROVE TypeOK'
  BY <1>8 DEF ClaimFails
<1>9. ASSUME NEW t \in Threads, WriteHash(t) PROVE TypeOK'
  BY <1>9 DEF WriteHash
<1>10. ASSUME NEW t \in Threads, WriteScore(t) PROVE TypeOK'
  BY <1>10 DEF WriteScore
<1>11. ASSUME NEW t \in Threads, Publish(t) PROVE TypeOK'
  BY <1>11 DEF Publish
<1>12. ASSUME Clear PROVE TypeOK'
  BY <1>12 DEF Clear
<1>13. ASSUME UNCHANGED vars PROVE TypeOK'
  BY <1>13 DEF vars
<1>14. QED
  BY <1>1, <1>2, <1>3, <1>4, <1>5, <1>6, <1>7, <1>8, <1>9, <1>10, <1>11,
     <1>12, <1>13 DEF Next, Read, Write, Bounded

(* Every value of the constants keeps the types.                           *)
THEOREM TypeCorrect == Spec => []TypeOK
<1>1. Init => TypeOK
  BY DEF Init, TypeOK, Places
<1>2. QED
  BY <1>1, TypeInductive, PTL DEF Spec
-----------------------------------------------------------------------------
(* Ownership of the slot does not depend on when a claim is seen.          *)
LEMMA OwnerInductive == TypeOK /\ OwnerInv /\ [Next]_vars => OwnerInv'
<1> SUFFICES ASSUME TypeOK, OwnerInv, [Next]_vars PROVE OwnerInv'
  OBVIOUS
<1>a. sequence \in Nat /\ \A u \in Threads : before[u] \in Nat
  BY DEF TypeOK
<1> USE DEF TypeOK, OwnerInv, OneWriter, ClaimInv, Goto, slot, local
<1>1. ASSUME NEW t \in Threads, NEW h \in Hashes, Probe(t, h) PROVE OwnerInv'
  BY <1>1, <1>a, Loads DEF Probe
<1>2. ASSUME NEW t \in Threads, ReadHash(t) PROVE OwnerInv'
  BY <1>2 DEF ReadHash
<1>3. ASSUME NEW t \in Threads, ReadScore(t) PROVE OwnerInv'
  BY <1>3 DEF ReadScore
<1>4. ASSUME NEW t \in Threads, Validate(t) PROVE OwnerInv'
  BY <1>4 DEF Validate
<1>5. ASSUME NEW t \in Threads, Hit(t) PROVE OwnerInv'
  BY <1>5 DEF Hit
<1>6. ASSUME NEW t \in Threads, LoadSequence(t) PROVE OwnerInv'
  BY <1>6, <1>a, Loads DEF LoadSequence
<1>7. ASSUME NEW t \in Threads, Claim(t) PROVE OwnerInv'
  <2>1. Even(sequence) /\ ~Even(sequence + 1)
    BY <1>7, <1>a, Parity DEF Claim
  <2>2. QED
    BY <1>7, <1>a, <2>1 DEF Claim
<1>8. ASSUME NEW t \in Threads, ClaimFails(t) PROVE OwnerInv'
  BY <1>8 DEF ClaimFails
<1>9. ASSUME NEW t \in Threads, WriteHash(t) PROVE OwnerInv'
  BY <1>9 DEF WriteHash
<1>10. ASSUME NEW t \in Threads, WriteScore(t) PROVE OwnerInv'
  BY <1>10 DEF WriteScore
<1>11. ASSUME NEW t \in Threads, Publish(t) PROVE OwnerInv'
  <2>1. sequence' = sequence + 1 /\ Even(sequence') /\ ~Even(sequence)
    BY <1>11, <1>a, Parity DEF Publish
  <2>2. QED
    BY <1>11, <2>1 DEF Publish
<1>12. ASSUME Clear PROVE OwnerInv'
  <2>1. Even(0)
    BY Parity
  <2>2. QED
    BY <1>12, <2>1 DEF Clear
<1>13. ASSUME UNCHANGED vars PROVE OwnerInv'
  BY <1>13 DEF vars
<1>14. QED
  BY <1>1, <1>2, <1>3, <1>4, <1>5, <1>6, <1>7, <1>8, <1>9, <1>10, <1>11,
     <1>12, <1>13 DEF Next, Read, Write, Bounded

LEMMA OwnerInitial == Init => OwnerInv
<1>1. Even(0)
  BY Parity
<1>2. QED
  BY <1>1 DEF Init, OwnerInv, OneWriter, ClaimInv

(* A claimed slot has one writer and an odd sequence, on every build.      *)
THEOREM WriterIsAlone == Spec => []OneWriter
<1>1. Init => TypeOK /\ OwnerInv
  BY OwnerInitial DEF Init, TypeOK, Places
<1>2. TypeOK /\ OwnerInv /\ [Next]_vars => (TypeOK /\ OwnerInv)'
  BY TypeInductive, OwnerInductive
<1>3. OwnerInv => OneWriter
  BY DEF OwnerInv
<1>4. QED
  BY <1>1, <1>2, <1>3, PTL DEF Spec
-----------------------------------------------------------------------------
(* Every step preserves the invariant when no claim is late.               *)
LEMMA StepIInv ==
  ASSUME ~LateClaim
  PROVE  IInv /\ [Next]_vars => IInv'
<1> SUFFICES ASSUME IInv, [Next]_vars PROVE IInv'
  OBVIOUS
<1> DEFINE Rest == WriterInv /\ LoadedInv /\ PairInv /\ ReaderInv /\ NoMixedHit
<1>0. TypeOK' /\ OwnerInv'
  BY TypeInductive, OwnerInductive DEF IInv
<1> SUFFICES Rest'
  BY <1>0 DEF IInv
<1>a. sequence \in Nat /\ \A u \in Threads : before[u] \in Nat
  BY DEF IInv, TypeOK
<1>b. Loadable = {sequence}
  BY <1>a, Loads
<1> USE DEF IInv, TypeOK, OwnerInv, OneWriter, ClaimInv, WriterInv, LoadedInv,
        PairInv, ReaderInv, NoMixedHit, Goto, slot, local
<1>1. ASSUME NEW t \in Threads, NEW h \in Hashes, Probe(t, h) PROVE Rest'
  BY <1>1, <1>b DEF Probe
<1>2. ASSUME NEW t \in Threads, ReadHash(t) PROVE Rest'
  BY <1>2 DEF ReadHash
<1>3. ASSUME NEW t \in Threads, ReadScore(t) PROVE Rest'
  BY <1>3 DEF ReadScore
<1>4. ASSUME NEW t \in Threads, Validate(t) PROVE Rest'
  BY <1>4, <1>b DEF Validate
<1>5. ASSUME NEW t \in Threads, Hit(t) PROVE Rest'
  BY <1>5 DEF Hit
<1>6. ASSUME NEW t \in Threads, LoadSequence(t) PROVE Rest'
  BY <1>6, <1>b DEF LoadSequence
<1>7. ASSUME NEW t \in Threads, Claim(t) PROVE Rest'
  <2>1. Even(sequence) /\ ~Even(sequence + 1)
    BY <1>7, <1>a, Parity DEF Claim
  <2>2. QED
    BY <1>7, <1>a, <2>1 DEF Claim
<1>8. ASSUME NEW t \in Threads, ClaimFails(t) PROVE Rest'
  BY <1>8 DEF ClaimFails
<1>9. ASSUME NEW t \in Threads, WriteHash(t) PROVE Rest'
  <2>1. ~Even(sequence)
    BY <1>9 DEF WriteHash
  <2>2. QED
    BY <1>9, <2>1 DEF WriteHash
<1>10. ASSUME NEW t \in Threads, WriteScore(t) PROVE Rest'
  <2>1. ~Even(sequence)
    BY <1>10 DEF WriteScore
  <2>2. QED
    BY <1>10, <2>1 DEF WriteScore
<1>11. ASSUME NEW t \in Threads, Publish(t) PROVE Rest'
  <2>1. sequence' = sequence + 1 /\ Even(sequence') /\ ~Even(sequence)
    BY <1>11, <1>a, Parity DEF Publish
  <2>2. hash = score
    BY <1>11 DEF Publish
  <2>3. QED
    BY <1>11, <1>a, <2>1, <2>2 DEF Publish
<1>12. ASSUME Clear PROVE Rest'
  BY <1>12 DEF Clear
<1>13. ASSUME UNCHANGED vars PROVE Rest'
  BY <1>13 DEF vars
<1>14. QED
  BY <1>1, <1>2, <1>3, <1>4, <1>5, <1>6, <1>7, <1>8, <1>9, <1>10, <1>11,
     <1>12, <1>13 DEF Next, Read, Write, Bounded

(* A hit never combines the hash of one store with the score of another,   *)
(* on a build that keeps payload stores behind the claim.                  *)
THEOREM NoMixed ==
  ASSUME ~LateClaim
  PROVE  Spec => []NoMixedHit
<1>1. Init => IInv
  BY OwnerInitial DEF Init, IInv, TypeOK, Places, WriterInv, LoadedInv, PairInv,
                      ReaderInv, NoMixedHit
<1>2. IInv /\ [Next]_vars => IInv'
  BY StepIInv
<1>3. IInv => NoMixedHit
  BY DEF IInv
<1>4. QED
  BY <1>1, <1>2, <1>3, PTL DEF Spec
-----------------------------------------------------------------------------
(* The search budget.                                                      *)
(* Division with remainder.                                                *)
LEMMA Division ==
  ASSUME NEW n \in Nat, NEW m \in Nat \ {0}
  PROVE  /\ n \div m \in Nat
         /\ n % m \in 0 .. m - 1
         /\ n = m * (n \div m) + (n % m)
OBVIOUS

LEMMA Remainder ==
  ASSUME NEW m \in Nat \ {0}, NEW q \in Int, NEW r \in 0 .. m - 1
  PROVE  (m * q + r) % m = r
OBVIOUS

LEMMA ZeroRemainder ==
  ASSUME NEW m \in Nat \ {0}
  PROVE  0 % m = 0
<1>1. (m * 0 + 0) % m = 0
  BY Remainder
<1>2. QED
  BY <1>1

(* A count that misses a multiple has one more left over than before.      *)
LEMMA NextRemainder ==
  ASSUME NEW n \in Nat, NEW m \in Nat \ {0}, (n + 1) % m # 0
  PROVE  (n + 1) % m = (n % m) + 1
<1> DEFINE q == n \div m
           r == n % m
<1>1. q \in Nat /\ r \in 0 .. m - 1 /\ n = m * q + r
  BY Division
<1> HIDE DEF q, r
<1>2. r # m - 1
  <2> SUFFICES ASSUME r = m - 1 PROVE FALSE
    OBVIOUS
  <2>1. n + 1 = m * (q + 1) + 0
    BY <1>1
  <2>2. (m * (q + 1) + 0) % m = 0
    BY <1>1, Remainder
  <2>3. QED
    BY <2>1, <2>2
<1>3. n + 1 = m * q + (r + 1) /\ r + 1 \in 0 .. m - 1
  BY <1>1, <1>2
<1>4. (m * q + (r + 1)) % m = r + 1
  BY <1>1, <1>3, Remainder
<1>5. QED
  BY <1>3, <1>4 DEF r

(* A batch after a whole number of batches is a whole number of batches.   *)
LEMMA NextBatch ==
  ASSUME NEW n \in Nat, NEW m \in Nat \ {0}, n % m = 0
  PROVE  (n + m) % m = 0
<1>1. n \div m \in Nat /\ n = m * (n \div m)
  BY Division
<1>2. n + m = m * ((n \div m) + 1) + 0
  BY <1>1
<1>3. (m * ((n \div m) + 1) + 0) % m = 0
  BY <1>1, Remainder
<1>4. QED
  BY <1>2, <1>3
Where == {"free", "parent", "latch", "poll", "report", "answer", "lastPoll",
          "left", "out"}

(* The variables have their types.                                         *)
BudgetType ==
  /\ mode \in Modes
  /\ phase \in {"alone", "pass", "over"}
  /\ passes \in Nat /\ nodes \in Nat
  /\ charged \in Nat /\ granted \in Nat /\ late \in Nat
  /\ abort \in BOOLEAN /\ external \in BOOLEAN
  /\ expired \in BOOLEAN /\ cancel \in BOOLEAN
  /\ at \in [Tickers -> Where]
  /\ own \in [Tickers -> Nat]
  /\ reported \in [Tickers -> Nat]
  /\ batched \in [Tickers -> BOOLEAN]

(* Where a thread may be, by the phase and by what its child is.  The owner*)
(* settles its own account after all helpers have.                         *)
PlaceInv ==
  /\ phase # "pass" =>
       \A p \in Tickers : at[p] \notin {"parent", "report", "lastPoll", "left"}
  /\ \A p \in Tickers :
       /\ at[p] \in {"parent", "out"} => ~batched[p]
       /\ at[p] \in {"report", "lastPoll"} => batched[p]
  /\ at[Main] \in {"lastPoll", "left"} =>
       \A h \in Helpers : at[h] \in {"out", "left"}

(* What the accounts of the children say.  A running child has reported    *)
(* whole batches and lacks less than one, or just one where it is about to *)
(* report; a child that is done has reported everything.                   *)
ChildInv ==
  /\ phase # "pass" =>
       \A p \in Tickers : own[p] = 0 /\ reported[p] = 0 /\ ~batched[p]
  /\ \A p \in Tickers :
       /\ reported[p] <= own[p]
       /\ mode.capped => ~batched[p]
       /\ batched[p] /\ at[p] \in {"lastPoll", "left"} => reported[p] = own[p]
       /\ batched[p] /\ at[p] \notin {"lastPoll", "left"} =>
            reported[p] % Batch = 0
       /\ at[p] = "report" =>
            own[p] % Batch = 0 /\ own[p] <= reported[p] + Batch
       /\ batched[p] /\ at[p] # "report" => own[p] < reported[p] + Batch

(* The ticks the root does not know of, one by one: a tick on its way to   *)
(* the parent, and those past the reported prefix of a batched child.      *)
Held ==
  {h \in Tickers \X Nat :
     IF h[2] = 0 THEN at[h[1]] = "parent"
                 ELSE batched[h[1]] /\ reported[h[1]] + h[2] <= own[h[1]]}

(* Nothing is lost or counted twice.                                       *)
Balance == IsFiniteSet(Held) /\ charged = nodes + Cardinality(Held)

(* Ticks the root has counted and not answered yet.                        *)
Latching == At("latch")
Passing  == At("poll") \cup At("answer")

(* Under a node limit, what is granted or may still be was counted below   *)
(* the limit while the flag is down: who counted past it is at the latch.  *)
CapInv ==
  /\ \A p \in Tickers : at[p] = "latch" => mode.capped /\ nodes >= NodeLimit
  /\ mode.capped =>
       /\ granted + Cardinality(Passing) + Cardinality(Latching) <= nodes
       /\ ~abort /\ nodes >= NodeLimit => nodes < Cardinality(Latching) + NodeLimit

(* Raising the flag takes whoever is about to read an expired clock.       *)
Raising == At("latch") \cup At("poll") \cup At("lastPoll")

(* After the deadline, with nobody about to raise the flag, the ticks begun*)
(* are those since the last multiple of PollEvery and those not charged.   *)
ClockInv ==
  /\ ~expired => late = 0
  /\ mode.timed /\ expired /\ ~abort /\ Raising = {} =>
       late + nodes <= (nodes % PollEvery) + charged

BudgetInv ==
  /\ BudgetType
  /\ PlaceInv
  /\ ChildInv
  /\ Balance
  /\ CapInv
  /\ ClockInv
  /\ CapIsExact
  /\ AbortHasCause

-----------------------------------------------------------------------------
USE HelpersAssumption, BoundsAssumption, ModesAssumption

(* New children start from zero; the others keep their accounts.           *)
LEMMA ChildrenStart ==
  ASSUME BudgetType, NEW ps \in SUBSET Tickers, NewChildren(ps)
  PROVE  /\ own' \in [Tickers -> Nat]
         /\ reported' \in [Tickers -> Nat]
         /\ batched' \in [Tickers -> BOOLEAN]
         /\ \A p \in ps : /\ own'[p] = 0 /\ reported'[p] = 0
                          /\ mode.capped => ~batched'[p]
         /\ \A p \in Tickers \ ps :
              /\ own'[p] = own[p] /\ reported'[p] = reported[p]
              /\ batched'[p] = batched[p]
<1>1. PICK b \in [ps -> MayBatch] :
        batched' = [p \in Tickers |-> IF p \in ps THEN b[p] ELSE batched[p]]
  BY DEF NewChildren
<1>2. MayBatch \subseteq BOOLEAN
  BY DEF MayBatch
<1>3. mode.capped => MayBatch = {FALSE}
  BY DEF MayBatch, Eligible
<1>4. \A p \in ps : b[p] \in MayBatch
  OBVIOUS
<1>5. batched' \in [Tickers -> BOOLEAN]
  BY <1>1, <1>2, <1>4 DEF BudgetType
<1>6. \A p \in ps : mode.capped => batched'[p] = FALSE
  BY <1>1, <1>3, <1>4
<1>7. QED
  BY <1>1, <1>5, <1>6 DEF NewChildren, BudgetType

LEMMA BudgetTypeInitial == BudgetInit => BudgetType /\ PlaceInv /\ ChildInv
<1> SUFFICES ASSUME BudgetInit PROVE BudgetType /\ PlaceInv /\ ChildInv
  OBVIOUS
<1>1. BudgetType
  BY DEF BudgetInit, BudgetType, Nothing, Where
<1>2. PlaceInv
  BY DEF BudgetInit, PlaceInv, Tickers
<1>3. ChildInv
  BY ZeroRemainder DEF BudgetInit, ChildInv, Nothing
<1>4. QED
  BY <1>1, <1>2, <1>3

(* The variables keep their types.                                         *)
LEMMA BudgetTypeStep ==
  BudgetType /\ PlaceInv /\ ChildInv /\ [BudgetNext]_budgetVars => BudgetType'
<1> SUFFICES ASSUME BudgetType, PlaceInv, ChildInv, [BudgetNext]_budgetVars
             PROVE  BudgetType'
  OBVIOUS
<1> USE DEF BudgetType, Where, MoveTo, rootVars, childVars, worldVars, countVars, passVars
<1>1. ASSUME NEW p \in Tickers, TickRoot(p) PROVE BudgetType'
  BY <1>1 DEF TickRoot, BeginTick, CountAtRoot, AfterCount
<1>2. ASSUME NEW p \in Tickers, TickChild(p) PROVE BudgetType'
  BY <1>2 DEF TickChild, BeginTick
<1>3. ASSUME NEW p \in Tickers, TickParent(p) PROVE BudgetType'
  BY <1>3 DEF TickParent, CountAtRoot, AfterCount
<1>4. ASSUME NEW p \in Tickers, Latch(p) PROVE BudgetType'
  BY <1>4 DEF Latch
<1>5. ASSUME NEW p \in Tickers, Report(p) PROVE BudgetType'
  BY <1>5 DEF Report, ReportPrefix, ChildInv
<1>6. ASSUME NEW p \in Tickers, Poll(p) PROVE BudgetType'
  BY <1>6 DEF Poll, PollClock
<1>7. ASSUME NEW p \in Tickers, Answer(p) PROVE BudgetType'
  BY <1>7 DEF Answer
<1>8. ASSUME NEW p \in Tickers, FinishJob(p) PROVE BudgetType'
  BY <1>8 DEF FinishJob, ReportPrefix, ChildInv
<1>9. ASSUME NEW p \in Tickers, LeaveJob(p) PROVE BudgetType'
  BY <1>9 DEF LeaveJob, PollClock
<1>10. ASSUME BeginPass PROVE BudgetType'
  <2>1. {Main} \in SUBSET Tickers
    BY DEF Tickers
  <2>2. /\ own' \in [Tickers -> Nat] /\ reported' \in [Tickers -> Nat]
        /\ batched' \in [Tickers -> BOOLEAN]
    BY <1>10, <2>1, ChildrenStart DEF BeginPass
  <2>3. phase' = "pass" /\ passes' = passes + 1
    BY <1>10 DEF BeginPass
  <2>4. UNCHANGED <<rootVars, external, expired, countVars, mode, at>>
    BY <1>10 DEF BeginPass
  <2>5. cancel' \in BOOLEAN
    BY <1>10, Zenon DEF BeginPass
  <2>6. abort' \in BOOLEAN /\ external' \in BOOLEAN /\ expired' \in BOOLEAN
    BY <2>4
  <2>7. QED
    BY <2>2, <2>3, <2>4, <2>5, <2>6
<1>11. ASSUME Dispatch PROVE BudgetType'
  <2>1. Helpers \in SUBSET Tickers
    BY DEF Tickers
  <2>2. QED
    BY <1>11, <2>1, ChildrenStart DEF Dispatch
<1>12. ASSUME Cancel PROVE BudgetType'
  BY <1>12 DEF Cancel
<1>13. ASSUME EndPass PROVE BudgetType'
  BY <1>13 DEF EndPass, Nothing
<1>14. ASSUME Return PROVE BudgetType'
  BY <1>14 DEF Return
<1>15. ASSUME StopSearch PROVE BudgetType'
  BY <1>15 DEF StopSearch
<1>16. ASSUME Expire PROVE BudgetType'
  BY <1>16 DEF Expire
<1>17. ASSUME WatchdogFires PROVE BudgetType'
  BY <1>17 DEF WatchdogFires
<1>18. ASSUME UNCHANGED budgetVars PROVE BudgetType'
  BY <1>18 DEF budgetVars
<1>19. QED
  BY <1>1, <1>2, <1>3, <1>4, <1>5, <1>6, <1>7, <1>8, <1>9, <1>10, <1>11, <1>12,
     <1>13, <1>14, <1>15, <1>16, <1>17, <1>18 DEF BudgetNext, Tick, Pass, Over

(* Where the threads are stays in order.                                   *)
LEMMA PlaceStep ==
  BudgetType /\ PlaceInv /\ ChildInv /\ [BudgetNext]_budgetVars => PlaceInv'
<1> SUFFICES ASSUME BudgetType, PlaceInv, ChildInv, [BudgetNext]_budgetVars
             PROVE  PlaceInv'
  OBVIOUS
<1> USE DEF BudgetType, PlaceInv, Where, MoveTo, Tickers, rootVars, childVars, worldVars, countVars, passVars
<1>1. ASSUME NEW p \in Tickers, TickRoot(p) PROVE PlaceInv'
  BY <1>1 DEF TickRoot, CountAtRoot, AfterCount
<1>2. ASSUME NEW p \in Tickers, TickChild(p) PROVE PlaceInv'
  BY <1>2 DEF TickChild, BeginTick
<1>3. ASSUME NEW p \in Tickers, TickParent(p) PROVE PlaceInv'
  BY <1>3 DEF TickParent, CountAtRoot, AfterCount
<1>4. ASSUME NEW p \in Tickers, Latch(p) PROVE PlaceInv'
  BY <1>4 DEF Latch
<1>5. ASSUME NEW p \in Tickers, Report(p) PROVE PlaceInv'
  BY <1>5 DEF Report, ReportPrefix
<1>6. ASSUME NEW p \in Tickers, Poll(p) PROVE PlaceInv'
  BY <1>6 DEF Poll
<1>7. ASSUME NEW p \in Tickers, Answer(p) PROVE PlaceInv'
  BY <1>7 DEF Answer
<1>8. ASSUME NEW p \in Tickers, FinishJob(p) PROVE PlaceInv'
  BY <1>8 DEF FinishJob, ReportPrefix, Joined
<1>9. ASSUME NEW p \in Tickers, LeaveJob(p) PROVE PlaceInv'
  BY <1>9 DEF LeaveJob
<1>10. ASSUME BeginPass PROVE PlaceInv'
  BY <1>10, ChildrenStart DEF BeginPass
<1>11. ASSUME Dispatch PROVE PlaceInv'
  BY <1>11, ChildrenStart DEF Dispatch
<1>12. ASSUME Cancel PROVE PlaceInv'
  BY <1>12 DEF Cancel
<1>13. ASSUME EndPass PROVE PlaceInv'
  BY <1>13 DEF EndPass
<1>14. ASSUME Return PROVE PlaceInv'
  BY <1>14 DEF Return
<1>15. ASSUME StopSearch PROVE PlaceInv'
  BY <1>15 DEF StopSearch
<1>16. ASSUME Expire PROVE PlaceInv'
  BY <1>16 DEF Expire
<1>17. ASSUME WatchdogFires PROVE PlaceInv'
  BY <1>17 DEF WatchdogFires
<1>18. ASSUME UNCHANGED budgetVars PROVE PlaceInv'
  BY <1>18 DEF budgetVars
<1>19. QED
  BY <1>1, <1>2, <1>3, <1>4, <1>5, <1>6, <1>7, <1>8, <1>9, <1>10, <1>11, <1>12,
     <1>13, <1>14, <1>15, <1>16, <1>17, <1>18 DEF BudgetNext, Tick, Pass, Over

(* The accounts of the children stay in order.                             *)
LEMMA ChildStep ==
  BudgetType /\ PlaceInv /\ ChildInv /\ [BudgetNext]_budgetVars => ChildInv'
<1> SUFFICES ASSUME BudgetType, PlaceInv, ChildInv, [BudgetNext]_budgetVars
             PROVE  ChildInv'
  OBVIOUS
<1> USE DEF BudgetType, PlaceInv, ChildInv, Where, MoveTo, Tickers, rootVars, childVars, worldVars, countVars, passVars
<1>1. ASSUME NEW p \in Tickers, TickRoot(p) PROVE ChildInv'
  BY <1>1 DEF TickRoot, CountAtRoot, AfterCount
<1>2. ASSUME NEW p \in Tickers, TickChild(p) PROVE ChildInv'
  <2>1. ASSUME NEW o \in Tickers, o # p PROVE
          own'[o] = own[o] /\ at'[o] = at[o]
    BY <1>2, <2>1 DEF TickChild
  <2>2. own'[p] = own[p] + 1 /\ UNCHANGED <<batched, reported, phase, mode>>
    BY <1>2 DEF TickChild
  <2>3. phase = "pass" /\ at[p] = "free"
    BY <1>2 DEF TickChild
  <2>4. CASE ~batched[p]
    BY <2>1, <2>2, <2>3, <2>4, <1>2 DEF TickChild
  <2>5. CASE batched[p] /\ own'[p] % Batch = 0
    <3>1. at'[p] = "report"
      BY <2>2, <2>3, <2>5, <1>2 DEF TickChild
    <3>2. reported[p] % Batch = 0 /\ own[p] < reported[p] + Batch
      BY <2>3, <2>5
    <3>3. QED
      BY <2>1, <2>2, <2>3, <2>5, <3>1, <3>2
  <2>6. CASE batched[p] /\ own'[p] % Batch # 0
    <3>1. at'[p] = "answer"
      BY <2>2, <2>3, <2>6, <1>2 DEF TickChild
    <3>2. reported[p] % Batch = 0 /\ own[p] < reported[p] + Batch
      BY <2>3, <2>6
    <3>3. (reported[p] + Batch) % Batch = 0
      BY <3>2, NextBatch
    <3>4. own'[p] < reported[p] + Batch
      BY <2>2, <2>6, <3>2, <3>3
    <3>5. QED
      BY <2>1, <2>2, <2>3, <2>6, <3>1, <3>2, <3>4
  <2>7. QED
    BY <2>4, <2>5, <2>6
<1>3. ASSUME NEW p \in Tickers, TickParent(p) PROVE ChildInv'
  BY <1>3 DEF TickParent, CountAtRoot, AfterCount
<1>4. ASSUME NEW p \in Tickers, Latch(p) PROVE ChildInv'
  BY <1>4 DEF Latch
<1>5. ASSUME NEW p \in Tickers, Report(p) PROVE ChildInv'
  BY <1>5 DEF Report, ReportPrefix
<1>6. ASSUME NEW p \in Tickers, Poll(p) PROVE ChildInv'
  BY <1>6 DEF Poll
<1>7. ASSUME NEW p \in Tickers, Answer(p) PROVE ChildInv'
  BY <1>7 DEF Answer
<1>8. ASSUME NEW p \in Tickers, FinishJob(p) PROVE ChildInv'
  BY <1>8 DEF FinishJob, ReportPrefix
<1>9. ASSUME NEW p \in Tickers, LeaveJob(p) PROVE ChildInv'
  BY <1>9 DEF LeaveJob
<1>10. ASSUME BeginPass PROVE ChildInv'
  BY <1>10, ChildrenStart, ZeroRemainder DEF BeginPass
<1>11. ASSUME Dispatch PROVE ChildInv'
  BY <1>11, ChildrenStart, ZeroRemainder DEF Dispatch
<1>12. ASSUME Cancel PROVE ChildInv'
  BY <1>12 DEF Cancel
<1>13. ASSUME EndPass PROVE ChildInv'
  BY <1>13, ZeroRemainder DEF EndPass, Nothing
<1>14. ASSUME Return PROVE ChildInv'
  BY <1>14 DEF Return
<1>15. ASSUME StopSearch PROVE ChildInv'
  BY <1>15 DEF StopSearch
<1>16. ASSUME Expire PROVE ChildInv'
  BY <1>16 DEF Expire
<1>17. ASSUME WatchdogFires PROVE ChildInv'
  BY <1>17 DEF WatchdogFires
<1>18. ASSUME UNCHANGED budgetVars PROVE ChildInv'
  BY <1>18 DEF budgetVars
<1>19. QED
  BY <1>1, <1>2, <1>3, <1>4, <1>5, <1>6, <1>7, <1>8, <1>9, <1>10, <1>11, <1>12,
     <1>13, <1>14, <1>15, <1>16, <1>17, <1>18 DEF BudgetNext, Tick, Pass, Over

-----------------------------------------------------------------------------
LEMMA HeldStays ==
  ASSUME UNCHANGED childVars,
         \A p \in Tickers : at'[p] = "parent" <=> at[p] = "parent"
  PROVE  Held' = Held
BY DEF Held, childVars

LEMMA OneTo ==
  ASSUME NEW n \in Nat
  PROVE  IsFiniteSet(1 .. n) /\ Cardinality(1 .. n) = n
<1>1. 1 \in Int /\ n \in Int
  OBVIOUS
<1>2. IsFiniteSet(1 .. n) /\ Cardinality(1 .. n) = IF 1 > n THEN 0 ELSE n - 1 + 1
  BY <1>1, FS_Interval
<1>3. QED
  BY <1>2

LEMMA Row ==
  ASSUME NEW n \in Nat, NEW p
  PROVE  IsFiniteSet({p} \X (1 .. n)) /\ Cardinality({p} \X (1 .. n)) = n
<1>1. IsFiniteSet({p}) /\ Cardinality({p}) = 1
  BY FS_Singleton
<1>2. IsFiniteSet(1 .. n) /\ Cardinality(1 .. n) = n
  BY OneTo
<1>3. /\ IsFiniteSet({p} \X (1 .. n))
      /\ Cardinality({p} \X (1 .. n)) = Cardinality({p}) * Cardinality(1 .. n)
  BY <1>1, <1>2, FS_Product
<1>4. QED
  BY <1>1, <1>2, <1>3

(* A child that reports hands over just what it held.                      *)
LEMMA HeldReported ==
  ASSUME BudgetType, ChildInv, IsFiniteSet(Held),
         NEW p \in Tickers, NEW place, batched[p],
         at[p] # "parent", place # "parent", at' = [at EXCEPT ![p] = place],
         ReportPrefix(p), UNCHANGED <<own, batched>>
  PROVE  IsFiniteSet(Held') /\ nodes' + Cardinality(Held') = nodes + Cardinality(Held)
<1> DEFINE due == own[p] - reported[p]
           row == {p} \X (1 .. due)
<1>1. due \in Nat
  BY DEF BudgetType, ChildInv
<1>2. IsFiniteSet(row) /\ Cardinality(row) = due
  BY <1>1, Row
<1>3. row \subseteq Held
  BY <1>1 DEF Held, BudgetType
<1>4. Held' = Held \ row
  <2>1. ASSUME NEW h \in Tickers \X Nat PROVE h \in Held' <=> h \in Held /\ h \notin row
    <3>1. CASE h[1] # p
      BY <3>1 DEF Held, ReportPrefix, BudgetType
    <3>2. CASE h[1] = p /\ h[2] = 0
      BY <3>2 DEF Held, ReportPrefix, BudgetType
    <3>3. CASE h[1] = p /\ h[2] # 0
      <4>1. h \notin Held'
        BY <3>3 DEF Held, ReportPrefix, BudgetType
      <4>2. h \in Held => h \in row
        BY <3>3, <1>1 DEF Held, BudgetType
      <4>3. QED
        BY <4>1, <4>2
    <3>4. QED
      BY <3>1, <3>2, <3>3
  <2>2. Held \subseteq Tickers \X Nat /\ Held' \subseteq Tickers \X Nat
    BY DEF Held
  <2>3. QED
    BY <2>1, <2>2
<1>5. IsFiniteSet(Held \ row)
        /\ Cardinality(Held \ row) = Cardinality(Held) - Cardinality(Held \cap row)
  BY FS_Difference
<1>6. Held \cap row = row
  BY <1>3
<1>7. nodes' = nodes + due
  BY DEF ReportPrefix
<1>8. Cardinality(Held) \in Nat /\ nodes \in Nat
  BY FS_CardinalityType DEF BudgetType
<1>9. IsFiniteSet(Held') /\ Cardinality(Held') = Cardinality(Held) - due
  BY <1>2, <1>4, <1>5, <1>6
<1> HIDE DEF due, row
<1>10. QED
  BY <1>1, <1>7, <1>8, <1>9

LEMMA BalanceInitial == BudgetInit => Balance
<1> SUFFICES ASSUME BudgetInit PROVE Balance
  OBVIOUS
<1>1. Held = {}
  BY DEF BudgetInit, Held, Nothing
<1>2. QED
  BY <1>1, FS_EmptySet DEF BudgetInit, Balance

(* Every tick is with the root or held by one child, in every step.        *)
LEMMA BalanceStep ==
  BudgetType /\ PlaceInv /\ ChildInv /\ Balance /\ [BudgetNext]_budgetVars => Balance'
<1> SUFFICES ASSUME BudgetType, PlaceInv, ChildInv, Balance, [BudgetNext]_budgetVars
             PROVE  Balance'
  OBVIOUS
<1>a. Cardinality(Held) \in Nat /\ nodes \in Nat /\ charged \in Nat
  BY FS_CardinalityType DEF Balance, BudgetType
<1>b. at \in [Tickers -> Where]
  BY DEF BudgetType
<1> USE DEF Balance, MoveTo, rootVars, childVars, worldVars, countVars, passVars
<1>1. ASSUME NEW p \in Tickers, TickRoot(p) PROVE Balance'
  BY <1>1, <1>a, <1>b, HeldStays DEF TickRoot, CountAtRoot, AfterCount, BeginTick
<1>2. ASSUME NEW p \in Tickers, TickChild(p) PROVE Balance'
  <2>1. charged' = charged + 1 /\ nodes' = nodes
    BY <1>2 DEF TickChild, BeginTick
  <2>2. PICK x : x \notin Held /\ Held' = Held \cup {x}
    <3>1. CASE ~batched[p]
      <4>1. at[p] = "free" /\ at' = [at EXCEPT ![p] = "parent"]
        BY <1>2, <3>1 DEF TickChild
      <4>2. <<p, 0>> \notin Held /\ Held' = Held \cup {<<p, 0>>}
        BY <1>2, <3>1, <4>1, <1>b DEF TickChild, Held, BudgetType
      <4>3. QED
        BY <4>2
    <3>2. CASE batched[p]
      <4> DEFINE x == <<p, own[p] + 1 - reported[p]>>
      <4>1. reported[p] <= own[p] /\ own[p] \in Nat /\ reported[p] \in Nat
        BY DEF ChildInv, BudgetType
      <4>2. x \in Tickers \X Nat /\ x[2] # 0 /\ x \notin Held
        BY <4>1 DEF Held
      <4>3. own'[p] = own[p] + 1 /\ UNCHANGED <<batched, reported>>
        BY <1>2 DEF TickChild, BudgetType
      <4>4. \A o \in Tickers : at'[o] = "parent" <=> at[o] = "parent"
        BY <1>2, <3>2, <1>b DEF TickChild
      <4>5. ASSUME NEW h \in Tickers \X Nat PROVE h \in Held' <=> h \in Held \/ h = x
        <5>1. CASE h[2] = 0
          BY <5>1, <4>2, <4>4 DEF Held
        <5>2. CASE h[2] # 0 /\ h[1] # p
          BY <5>2, <4>3, <1>2 DEF Held, TickChild, BudgetType
        <5>3. CASE h[2] # 0 /\ h[1] = p
          <6>1. h \in Held <=> reported[p] + h[2] <= own[p]
            BY <5>3, <3>2 DEF Held
          <6>2. h \in Held' <=> reported[p] + h[2] <= own[p] + 1
            BY <5>3, <3>2, <4>3 DEF Held
          <6>3. h = x <=> reported[p] + h[2] = own[p] + 1
            BY <5>3, <4>1
          <6>4. QED
            BY <6>1, <6>2, <6>3, <4>1
        <5>4. QED
          BY <5>1, <5>2, <5>3
      <4>6. Held \subseteq Tickers \X Nat /\ Held' \subseteq Tickers \X Nat
        BY DEF Held
      <4>7. Held' = Held \cup {x}
        BY <4>2, <4>5, <4>6
      <4>8. QED
        BY <4>2, <4>7
    <3>3. QED
      BY <3>1, <3>2
  <2>3. IsFiniteSet(Held') /\ Cardinality(Held') = Cardinality(Held) + 1
    BY <2>2, FS_AddElement
  <2>4. QED
    BY <2>1, <2>3, <1>a
<1>3. ASSUME NEW p \in Tickers, TickParent(p) PROVE Balance'
  <2>1. <<p, 0>> \in Held /\ Held' = Held \ {<<p, 0>>}
    BY <1>3, <1>b DEF TickParent, CountAtRoot, AfterCount, Held
  <2>2. IsFiniteSet(Held') /\ Cardinality(Held') = Cardinality(Held) - 1
    BY <2>1, FS_RemoveElement
  <2>3. nodes' = nodes + 1 /\ charged' = charged
    BY <1>3 DEF TickParent, CountAtRoot
  <2>4. QED
    BY <2>2, <2>3, <1>a
<1>4. ASSUME NEW p \in Tickers, Latch(p) PROVE Balance'
  BY <1>4, <1>a, <1>b, HeldStays DEF Latch
<1>5. ASSUME NEW p \in Tickers, Report(p) PROVE Balance'
  <2>1. batched[p] /\ at[p] = "report"
    BY <1>5 DEF Report, PlaceInv
  <2>2. IsFiniteSet(Held') /\ nodes' + Cardinality(Held') = nodes + Cardinality(Held)
    BY <1>5, <2>1, HeldReported DEF Report
  <2>3. charged' = charged
    BY <1>5 DEF Report
  <2>4. QED
    BY <2>2, <2>3
<1>6. ASSUME NEW p \in Tickers, Poll(p) PROVE Balance'
  BY <1>6, <1>a, <1>b, HeldStays DEF Poll
<1>7. ASSUME NEW p \in Tickers, Answer(p) PROVE Balance'
  BY <1>7, <1>a, <1>b, HeldStays DEF Answer
<1>8. ASSUME NEW p \in Tickers, FinishJob(p) PROVE Balance'
  <2>1. CASE batched[p]
    <3>1. IsFiniteSet(Held') /\ nodes' + Cardinality(Held') = nodes + Cardinality(Held)
      BY <1>8, <2>1, HeldReported DEF FinishJob
    <3>2. charged' = charged
      BY <1>8 DEF FinishJob
    <3>3. QED
      BY <3>1, <3>2
  <2>2. CASE ~batched[p]
    <3>1. UNCHANGED <<childVars, nodes, charged>> /\ at' = [at EXCEPT ![p] = "left"]
      BY <1>8, <2>2 DEF FinishJob
    <3>2. Held' = Held
      BY <1>8, <3>1, <1>b, HeldStays DEF FinishJob
    <3>3. QED
      BY <3>1, <3>2
  <2>3. QED
    BY <2>1, <2>2
<1>9. ASSUME NEW p \in Tickers, LeaveJob(p) PROVE Balance'
  BY <1>9, <1>a, <1>b, HeldStays DEF LeaveJob
<1>10. ASSUME BeginPass PROVE Balance'
  <2>1. {Main} \in SUBSET Tickers
    BY DEF Tickers
  <2>2. Held = {}
    BY <1>10 DEF BeginPass, Held, PlaceInv, ChildInv
  <2>3. \A p \in Tickers : own'[p] = 0 /\ reported'[p] = 0
    BY <1>10, <2>1, ChildrenStart DEF BeginPass, ChildInv
  <2>4. Held' = {}
    BY <1>10, <2>3 DEF BeginPass, Held, PlaceInv
  <2>5. QED
    BY <1>10, <2>2, <2>4 DEF BeginPass
<1>11. ASSUME Dispatch PROVE Balance'
  <2>1. Helpers \in SUBSET Tickers /\ Tickers \ Helpers = {Main}
    BY DEF Tickers
  <2>2. /\ \A h \in Helpers : own'[h] = 0 /\ reported'[h] = 0 /\ ~batched[h]
        /\ own'[Main] = own[Main] /\ reported'[Main] = reported[Main]
        /\ batched'[Main] = batched[Main]
    BY <1>11, <2>1, ChildrenStart DEF Dispatch, PlaceInv
  <2>3. \A p \in Tickers : at[p] # "parent" /\ at'[p] # "parent"
    BY <1>11 DEF Dispatch, Tickers
  <2>4. Held' = Held
    BY <2>1, <2>2, <2>3 DEF Held
  <2>5. QED
    BY <1>11, <2>4 DEF Dispatch
<1>12. ASSUME Cancel PROVE Balance'
  BY <1>12, <1>a, <1>b, HeldStays DEF Cancel
<1>13. ASSUME EndPass PROVE Balance'
  <2>1. \A p \in Tickers : at[p] # "parent" /\ (batched[p] => reported[p] = own[p])
    BY <1>13 DEF EndPass, PlaceInv, ChildInv, Tickers
  <2>2. Held = {}
    BY <2>1 DEF Held, BudgetType
  <2>3. \A p \in Tickers : at'[p] # "parent" /\ ~batched'[p]
    BY <1>13 DEF EndPass
  <2>4. Held' = {}
    BY <2>3 DEF Held
  <2>5. QED
    BY <1>13, <2>2, <2>4 DEF EndPass
<1>14. ASSUME Return PROVE Balance'
  BY <1>14, <1>a, <1>b, HeldStays DEF Return
<1>15. ASSUME StopSearch PROVE Balance'
  BY <1>15, <1>a, <1>b, HeldStays DEF StopSearch
<1>16. ASSUME Expire PROVE Balance'
  BY <1>16, <1>a, <1>b, HeldStays DEF Expire
<1>17. ASSUME WatchdogFires PROVE Balance'
  BY <1>17, <1>a, <1>b, HeldStays DEF WatchdogFires
<1>18. ASSUME UNCHANGED budgetVars PROVE Balance'
  BY <1>18, <1>a, <1>b, HeldStays DEF budgetVars
<1>19. QED
  BY <1>1, <1>2, <1>3, <1>4, <1>5, <1>6, <1>7, <1>8, <1>9, <1>10, <1>11, <1>12,
     <1>13, <1>14, <1>15, <1>16, <1>17, <1>18 DEF BudgetNext, Tick, Pass, Over

-----------------------------------------------------------------------------
LEMMA SomeTickers ==
  ASSUME NEW S \in SUBSET Tickers
  PROVE  IsFiniteSet(S) /\ Cardinality(S) \in Nat
<1>1. IsFiniteSet(Tickers)
  BY FS_AddElement DEF Tickers
<1>2. QED
  BY <1>1, FS_Subset, FS_CardinalityType

LEMMA Counts ==
  /\ Latching \in SUBSET Tickers /\ Passing \in SUBSET Tickers
  /\ IsFiniteSet(Latching) /\ Cardinality(Latching) \in Nat
  /\ IsFiniteSet(Passing) /\ Cardinality(Passing) \in Nat
<1>1. Latching \in SUBSET Tickers /\ Passing \in SUBSET Tickers
  BY DEF Latching, Passing, At
<1>2. QED
  BY <1>1, SomeTickers

(* Steps that count and grant nothing keep the margin below the limit.     *)
LEMMA CapStays ==
  ASSUME CapInv, CapIsExact, UNCHANGED <<mode, nodes, granted>>,
         abort => abort',
         \A p \in Tickers : /\ at'[p] = "latch" <=> at[p] = "latch"
                            /\ at'[p] \in {"poll", "answer"} <=>
                                 at[p] \in {"poll", "answer"}
  PROVE  CapInv' /\ CapIsExact'
<1>1. Latching' = Latching /\ Passing' = Passing
  BY DEF Latching, Passing, At
<1>2. QED
  BY <1>1 DEF CapInv, CapIsExact

(* A tick counted at the root below the limit takes one place below it; one*)
(* counted past it goes to the latch.                                      *)
LEMMA CapCounts ==
  ASSUME BudgetType, CapInv, CapIsExact, NEW p \in Tickers,
         at[p] \in {"free", "parent"}, CountAtRoot(p), UNCHANGED <<mode, granted>>
  PROVE  CapInv' /\ CapIsExact'
<1> USE DEF MoveTo
<1>1. /\ nodes \in Nat /\ granted \in Nat /\ NodeLimit \in Nat \ {0}
      /\ nodes' = nodes + 1 /\ abort' = abort
      /\ at \in [Tickers -> Where] /\ at' = [at EXCEPT ![p] = AfterCount(nodes')]
  BY DEF BudgetType, CountAtRoot
<1>2. CASE mode.capped /\ nodes' >= NodeLimit
  <2>1. at' = [at EXCEPT ![p] = "latch"]
    BY <1>1, <1>2 DEF AfterCount
  <2>2. Latching' = Latching \cup {p} /\ p \notin Latching /\ Passing' = Passing
    BY <1>1, <2>1 DEF Latching, Passing, At
  <2>3. Cardinality(Latching') = Cardinality(Latching) + 1
    BY <2>2, Counts, FS_AddElement
  <2>4. \A o \in Tickers : at'[o] = "latch" => nodes' >= NodeLimit
    BY <1>2
  <2>5. granted + Cardinality(Passing') + Cardinality(Latching') <= nodes'
    BY <1>1, <1>2, <2>2, <2>3, Counts DEF CapInv
  <2>6. ~abort => nodes' < Cardinality(Latching') + NodeLimit
    BY <1>1, <1>2, <2>3, Counts DEF CapInv
  <2>7. QED
    BY <1>1, <1>2, <2>4, <2>5, <2>6 DEF CapInv, CapIsExact
<1>3. CASE mode.capped /\ ~(nodes' >= NodeLimit)
  <2>1. at'[p] \in {"poll", "answer"} /\ \A o \in Tickers : o # p => at'[o] = at[o]
    BY <1>1, <1>3 DEF AfterCount
  <2>2. Passing' = Passing \cup {p} /\ p \notin Passing /\ Latching' = Latching
    BY <1>1, <2>1 DEF Latching, Passing, At
  <2>3. Cardinality(Passing') = Cardinality(Passing) + 1
    BY <2>2, Counts, FS_AddElement
  <2>4. \A o \in Tickers : at'[o] # "latch"
    BY <1>1, <1>3, <2>1 DEF CapInv
  <2>5. granted + Cardinality(Passing') + Cardinality(Latching') <= nodes'
    BY <1>1, <1>3, <2>2, <2>3, Counts DEF CapInv
  <2>6. QED
    BY <1>1, <1>3, <2>4, <2>5 DEF CapInv, CapIsExact
<1>4. CASE ~mode.capped
  <2>1. \A o \in Tickers : at'[o] # "latch"
    BY <1>1, <1>4 DEF AfterCount, CapInv
  <2>2. QED
    BY <2>1, <1>4 DEF CapInv, CapIsExact
<1>5. QED
  BY <1>2, <1>3, <1>4

(* The node limit holds in every step.                                     *)
LEMMA CapStep ==
  BudgetType /\ PlaceInv /\ ChildInv /\ CapInv /\ CapIsExact /\ [BudgetNext]_budgetVars
    => CapInv' /\ CapIsExact'
<1> SUFFICES ASSUME BudgetType, PlaceInv, ChildInv, CapInv, CapIsExact,
                    [BudgetNext]_budgetVars
             PROVE  CapInv' /\ CapIsExact'
  OBVIOUS
<1>a. at \in [Tickers -> Where]
  BY DEF BudgetType
<1> USE DEF MoveTo, rootVars, childVars, worldVars, countVars, passVars
<1>1. ASSUME NEW p \in Tickers, TickRoot(p) PROVE CapInv' /\ CapIsExact'
  BY <1>1, CapCounts DEF TickRoot, BeginTick
<1>2. ASSUME NEW p \in Tickers, TickChild(p) PROVE CapInv' /\ CapIsExact'
  <2>1. /\ UNCHANGED <<mode, nodes, granted, abort>>
        /\ at[p] = "free" /\ at'[p] # "latch" /\ at'[p] # "poll"
        /\ \A o \in Tickers : o # p => at'[o] = at[o]
    BY <1>2, <1>a DEF TickChild, BeginTick
  <2>2. CASE mode.capped
    <3>1. at'[p] = "parent"
      BY <1>2, <1>a, <2>2 DEF TickChild, ChildInv
    <3>2. QED
      BY <2>1, <3>1, CapStays
  <2>3. CASE ~mode.capped
    BY <2>1, <2>3 DEF CapInv, CapIsExact
  <2>4. QED
    BY <2>2, <2>3
<1>3. ASSUME NEW p \in Tickers, TickParent(p) PROVE CapInv' /\ CapIsExact'
  BY <1>3, CapCounts DEF TickParent
<1>4. ASSUME NEW p \in Tickers, Latch(p) PROVE CapInv' /\ CapIsExact'
  <2>1. /\ abort' = TRUE /\ UNCHANGED <<mode, nodes, granted>>
        /\ at[p] = "latch" /\ at' = [at EXCEPT ![p] = "answer"]
    BY <1>4 DEF Latch
  <2>2. /\ Passing' = Passing \cup {p} /\ p \notin Passing
        /\ Latching' = Latching \ {p} /\ p \in Latching
    BY <1>a, <2>1 DEF Latching, Passing, At
  <2>3. /\ Cardinality(Passing') = Cardinality(Passing) + 1
        /\ Cardinality(Latching') = Cardinality(Latching) - 1
    BY <2>2, Counts, FS_AddElement, FS_RemoveElement
  <2>4. mode.capped =>
          granted + Cardinality(Passing') + Cardinality(Latching') <= nodes
    BY <2>3, Counts DEF CapInv, BudgetType
  <2>5. QED
    BY <1>a, <2>1, <2>4 DEF CapInv, CapIsExact
<1>5. ASSUME NEW p \in Tickers, Report(p) PROVE CapInv' /\ CapIsExact'
  <2>1. ~mode.capped
    BY <1>5 DEF Report, PlaceInv, ChildInv
  <2>2. \A o \in Tickers : at'[o] = "latch" <=> at[o] = "latch"
    BY <1>5, <1>a DEF Report
  <2>3. QED
    BY <1>5, <2>1, <2>2 DEF Report, CapInv, CapIsExact
<1>6. ASSUME NEW p \in Tickers, Poll(p) PROVE CapInv' /\ CapIsExact'
  BY <1>6, <1>a, CapStays DEF Poll, PollClock
<1>7. ASSUME NEW p \in Tickers, Answer(p) PROVE CapInv' /\ CapIsExact'
  <2>1. /\ UNCHANGED <<mode, nodes, abort>>
        /\ at[p] = "answer" /\ at' = [at EXCEPT ![p] = "free"]
    BY <1>7 DEF Answer
  <2>2. Passing' = Passing \ {p} /\ p \in Passing /\ Latching' = Latching
    BY <1>a, <2>1 DEF Latching, Passing, At
  <2>3. /\ Cardinality(Passing') = Cardinality(Passing) - 1
        /\ Cardinality(Passing') \in Nat
    BY <2>2, Counts, FS_RemoveElement, FS_CardinalityType
  <2>4. granted' = granted \/ (granted' = granted + 1 /\ mode.capped /\ ~abort)
    BY <1>7 DEF Answer, ShouldAbort, RootStops
  <2>5. mode.capped =>
          granted' + Cardinality(Passing') + Cardinality(Latching') <= nodes'
    BY <2>1, <2>2, <2>3, <2>4, Counts DEF CapInv, BudgetType
  <2>6. mode.capped => granted' < NodeLimit
    <3>1. CASE granted' = granted
      BY <3>1 DEF CapIsExact
    <3>2. CASE granted' = granted + 1 /\ mode.capped /\ ~abort
      <4>1. granted' + Cardinality(Latching) <= nodes
        BY <2>1, <2>2, <2>3, <2>5, <3>2, Counts DEF BudgetType
      <4>2. nodes >= NodeLimit => nodes < Cardinality(Latching) + NodeLimit
        BY <3>2 DEF CapInv
      <4>3. QED
        BY <3>2, <4>1, <4>2, Counts DEF BudgetType
    <3>3. QED
      BY <2>4, <3>1, <3>2
  <2>7. QED
    BY <1>a, <2>1, <2>2, <2>5, <2>6 DEF CapInv, CapIsExact
<1>8. ASSUME NEW p \in Tickers, FinishJob(p) PROVE CapInv' /\ CapIsExact'
  <2>1. CASE mode.capped
    <3>1. UNCHANGED nodes /\ at' = [at EXCEPT ![p] = "left"] /\ at[p] = "free"
      BY <1>8, <2>1 DEF FinishJob, ChildInv
    <3>2. QED
      BY <1>8, <1>a, <3>1, CapStays DEF FinishJob
  <2>2. CASE ~mode.capped
    <3>1. \A o \in Tickers : at'[o] = "latch" => at[o] = "latch"
      BY <1>8, <1>a DEF FinishJob
    <3>2. QED
      BY <1>8, <2>2, <3>1 DEF FinishJob, CapInv, CapIsExact
  <2>3. QED
    BY <2>1, <2>2
<1>9. ASSUME NEW p \in Tickers, LeaveJob(p) PROVE CapInv' /\ CapIsExact'
  BY <1>9, <1>a, CapStays DEF LeaveJob, PollClock
<1>10. ASSUME BeginPass PROVE CapInv' /\ CapIsExact'
  BY <1>10, <1>a, CapStays DEF BeginPass
<1>11. ASSUME Dispatch PROVE CapInv' /\ CapIsExact'
  <2>1. \A p \in Tickers : at[p] \in {"free", "out"} /\ at'[p] = "free"
    BY <1>11 DEF Dispatch, Tickers
  <2>2. QED
    BY <1>11, <2>1, CapStays DEF Dispatch
<1>12. ASSUME Cancel PROVE CapInv' /\ CapIsExact'
  BY <1>12, <1>a, CapStays DEF Cancel
<1>13. ASSUME EndPass PROVE CapInv' /\ CapIsExact'
  <2>1. \A p \in Tickers : at[p] \in {"left", "out"} /\ at'[p] \in {"free", "out"}
    BY <1>13 DEF EndPass, PlaceInv, Tickers
  <2>2. QED
    BY <1>13, <2>1, CapStays DEF EndPass
<1>14. ASSUME Return PROVE CapInv' /\ CapIsExact'
  BY <1>14, <1>a, CapStays DEF Return
<1>15. ASSUME StopSearch PROVE CapInv' /\ CapIsExact'
  BY <1>15, <1>a, CapStays DEF StopSearch
<1>16. ASSUME Expire PROVE CapInv' /\ CapIsExact'
  BY <1>16, <1>a, CapStays DEF Expire
<1>17. ASSUME WatchdogFires PROVE CapInv' /\ CapIsExact'
  BY <1>17, <1>a, CapStays DEF WatchdogFires
<1>18. ASSUME UNCHANGED budgetVars PROVE CapInv' /\ CapIsExact'
  BY <1>18, <1>a, CapStays DEF budgetVars
<1>19. QED
  BY <1>1, <1>2, <1>3, <1>4, <1>5, <1>6, <1>7, <1>8, <1>9, <1>10, <1>11, <1>12,
     <1>13, <1>14, <1>15, <1>16, <1>17, <1>18 DEF BudgetNext, Tick, Pass, Over

-----------------------------------------------------------------------------
(* Steps that neither tick nor count, and raise the flag if they take away *)
(* somebody who was about to.                                              *)
LEMMA ClockStays ==
  ASSUME ClockInv, UNCHANGED <<mode, nodes, charged, late, expired>>,
         abort => abort', Raising' = {} => Raising = {} \/ abort' \/ ~expired \/ ~mode.timed
  PROVE  ClockInv'
BY DEF ClockInv

(* A tick counted at the root: unless the counter is tested, its remainder *)
(* grows with it.                                                          *)
LEMMA ClockCounts ==
  ASSUME BudgetType, NEW p \in Tickers, CountAtRoot(p), UNCHANGED mode,
         mode.timed, Raising' = {}
  PROVE  nodes' % PollEvery = (nodes % PollEvery) + 1
<1>1. nodes \in Nat /\ PollEvery \in Nat \ {0} /\ nodes' = nodes + 1
  BY DEF BudgetType, CountAtRoot
<1>2. at'[p] = AfterCount(nodes')
  BY DEF BudgetType, CountAtRoot, MoveTo
<1>3. at'[p] # "latch" /\ at'[p] # "poll"
  BY DEF Raising, At
<1>4. nodes' % PollEvery # 0
  BY <1>2, <1>3 DEF AfterCount
<1>5. QED
  BY <1>1, <1>4, NextRemainder

LEMMA RaisingKept ==
  ASSUME BudgetType, NEW p \in Tickers, NEW place, MoveTo(p, place),
         at[p] \notin {"latch", "poll", "lastPoll"}, Raising' = {}
  PROVE  Raising = {}
BY DEF BudgetType, MoveTo, Raising, At

(* The deadline is seen in time, in every step.                            *)
LEMMA ClockStep ==
  BudgetType /\ PlaceInv /\ ChildInv /\ Balance /\ ClockInv /\ [BudgetNext]_budgetVars
    => ClockInv'
<1> SUFFICES ASSUME BudgetType, PlaceInv, ChildInv, Balance, ClockInv,
                    [BudgetNext]_budgetVars
             PROVE  ClockInv'
  OBVIOUS
<1>a. at \in [Tickers -> Where] /\ nodes \in Nat /\ charged \in Nat /\ late \in Nat
  BY DEF BudgetType
<1>b. nodes % PollEvery \in Nat /\ nodes <= charged
  <2>1. nodes % PollEvery \in 0 .. PollEvery - 1
    BY <1>a, Division
  <2>2. Cardinality(Held) \in Nat /\ charged = nodes + Cardinality(Held)
    BY FS_CardinalityType DEF Balance
  <2>3. QED
    BY <1>a, <2>1, <2>2
<1> DEFINE Due == mode.timed /\ expired /\ ~abort
<1> USE DEF rootVars, childVars, worldVars, countVars, passVars
<1>1. ASSUME NEW p \in Tickers, TickRoot(p) PROVE ClockInv'
  <2>1. /\ late' = (IF expired /\ ~abort THEN late + 1 ELSE late)
        /\ charged' = charged + 1 /\ nodes' = nodes + 1
        /\ UNCHANGED <<mode, expired, abort>> /\ CountAtRoot(p) /\ at[p] = "free"
    BY <1>1 DEF TickRoot, BeginTick, CountAtRoot
  <2>2. ASSUME Due, Raising' = {}
        PROVE  late' + nodes' <= (nodes' % PollEvery) + charged'
    <3>1. nodes' % PollEvery = (nodes % PollEvery) + 1
      BY <2>1, <2>2, ClockCounts
    <3>2. Raising = {}
      BY <2>1, <2>2, RaisingKept DEF CountAtRoot
    <3>3. late + nodes <= (nodes % PollEvery) + charged
      BY <2>2, <3>2 DEF ClockInv
    <3>4. late' = late + 1
      BY <2>1, <2>2
    <3>5. QED
      BY <1>a, <1>b, <2>1, <3>1, <3>3, <3>4
  <2>3. QED
    BY <2>1, <2>2 DEF ClockInv
<1>2. ASSUME NEW p \in Tickers, TickChild(p) PROVE ClockInv'
  <2>1. /\ late' = (IF expired /\ ~abort THEN late + 1 ELSE late)
        /\ charged' = charged + 1 /\ nodes' = nodes /\ at[p] = "free"
        /\ UNCHANGED <<mode, expired, abort>>
    BY <1>2 DEF TickChild, BeginTick
  <2>2. Raising' = {} => Raising = {}
    BY <1>2, <2>1, RaisingKept DEF TickChild
  <2>3. ASSUME Due, Raising' = {}
        PROVE  late' + nodes' <= (nodes' % PollEvery) + charged'
    <3>1. late + nodes <= (nodes % PollEvery) + charged /\ late' = late + 1
      BY <2>1, <2>2, <2>3 DEF ClockInv
    <3>2. QED
      BY <1>a, <1>b, <2>1, <3>1
  <2>4. QED
    BY <2>1, <2>3 DEF ClockInv
<1>3. ASSUME NEW p \in Tickers, TickParent(p) PROVE ClockInv'
  <2>1. /\ nodes' = nodes + 1 /\ CountAtRoot(p) /\ at[p] = "parent"
        /\ UNCHANGED <<mode, expired, abort, late, charged>>
    BY <1>3 DEF TickParent, CountAtRoot
  <2>2. ASSUME Due, Raising' = {}
        PROVE  late' + nodes' <= (nodes' % PollEvery) + charged'
    <3>1. nodes' % PollEvery = (nodes % PollEvery) + 1
      BY <2>1, <2>2, ClockCounts
    <3>2. Raising = {}
      BY <2>1, <2>2, RaisingKept DEF CountAtRoot
    <3>3. late + nodes <= (nodes % PollEvery) + charged
      BY <2>2, <3>2 DEF ClockInv
    <3>4. QED
      BY <1>a, <1>b, <2>1, <3>1, <3>3
  <2>3. QED
    BY <2>1, <2>2 DEF ClockInv
<1>4. ASSUME NEW p \in Tickers, Latch(p) PROVE ClockInv'
  BY <1>4, ClockStays DEF Latch
<1>5. ASSUME NEW p \in Tickers, Report(p) PROVE ClockInv'
  <2>1. p \in Raising' /\ UNCHANGED <<expired, late>>
    BY <1>5, <1>a DEF Report, MoveTo, Raising, At
  <2>2. QED
    BY <2>1 DEF ClockInv
<1>6. ASSUME NEW p \in Tickers, Poll(p) PROVE ClockInv'
  BY <1>6, ClockStays DEF Poll, PollClock
<1>7. ASSUME NEW p \in Tickers, Answer(p) PROVE ClockInv'
  <2>1. Raising' = {} => Raising = {}
    BY <1>7, RaisingKept DEF Answer
  <2>2. QED
    BY <1>7, <2>1, ClockStays DEF Answer
<1>8. ASSUME NEW p \in Tickers, FinishJob(p) PROVE ClockInv'
  <2>1. CASE batched[p]
    <3>1. p \in Raising' /\ UNCHANGED <<expired, late>>
      BY <1>8, <2>1, <1>a DEF FinishJob, MoveTo, Raising, At
    <3>2. QED
      BY <3>1 DEF ClockInv
  <2>2. CASE ~batched[p]
    <3>1. Raising' = {} => Raising = {}
      BY <1>8, <2>2, RaisingKept DEF FinishJob
    <3>2. QED
      BY <1>8, <2>2, <3>1, ClockStays DEF FinishJob
  <2>3. QED
    BY <2>1, <2>2
<1>9. ASSUME NEW p \in Tickers, LeaveJob(p) PROVE ClockInv'
  BY <1>9, ClockStays DEF LeaveJob, PollClock
<1>10. ASSUME BeginPass PROVE ClockInv'
  BY <1>10, ClockStays DEF BeginPass, Raising, At
<1>11. ASSUME Dispatch PROVE ClockInv'
  <2>1. Raising = {}
    BY <1>11 DEF Dispatch, Tickers, Raising, At
  <2>2. QED
    BY <1>11, <2>1, ClockStays DEF Dispatch
<1>12. ASSUME Cancel PROVE ClockInv'
  BY <1>12, ClockStays DEF Cancel, Raising, At
<1>13. ASSUME EndPass PROVE ClockInv'
  <2>1. Raising = {}
    BY <1>13 DEF EndPass, PlaceInv, Tickers, Raising, At
  <2>2. QED
    BY <1>13, <2>1, ClockStays DEF EndPass
<1>14. ASSUME Return PROVE ClockInv'
  BY <1>14, ClockStays DEF Return, Raising, At
<1>15. ASSUME StopSearch PROVE ClockInv'
  BY <1>15, ClockStays DEF StopSearch, Raising, At
<1>16. ASSUME Expire PROVE ClockInv'
  BY <1>16, <1>a, <1>b DEF Expire, ClockInv
<1>17. ASSUME WatchdogFires PROVE ClockInv'
  BY <1>17, ClockStays DEF WatchdogFires, Raising, At
<1>18. ASSUME UNCHANGED budgetVars PROVE ClockInv'
  BY <1>18, ClockStays DEF budgetVars, Raising, At
<1>19. QED
  BY <1>1, <1>2, <1>3, <1>4, <1>5, <1>6, <1>7, <1>8, <1>9, <1>10, <1>11, <1>12,
     <1>13, <1>14, <1>15, <1>16, <1>17, <1>18 DEF BudgetNext, Tick, Pass, Over
-----------------------------------------------------------------------------
(* The root's counter never falls.                                         *)
LEMMA NodesGrow ==
  BudgetType /\ ChildInv /\ [BudgetNext]_budgetVars => nodes' >= nodes
<1> SUFFICES ASSUME BudgetType, ChildInv, [BudgetNext]_budgetVars
             PROVE  nodes' >= nodes
  OBVIOUS
<1> USE DEF BudgetType, ChildInv, rootVars, childVars, worldVars, countVars, passVars
<1>1. ASSUME NEW p \in Tickers, TickRoot(p) PROVE nodes' >= nodes
  BY <1>1 DEF TickRoot, CountAtRoot
<1>2. ASSUME NEW p \in Tickers, TickChild(p) PROVE nodes' >= nodes
  BY <1>2 DEF TickChild
<1>3. ASSUME NEW p \in Tickers, TickParent(p) PROVE nodes' >= nodes
  BY <1>3 DEF TickParent, CountAtRoot
<1>4. ASSUME NEW p \in Tickers, Latch(p) PROVE nodes' >= nodes
  BY <1>4 DEF Latch
<1>5. ASSUME NEW p \in Tickers, Report(p) PROVE nodes' >= nodes
  BY <1>5 DEF Report, ReportPrefix
<1>6. ASSUME NEW p \in Tickers, Poll(p) PROVE nodes' >= nodes
  BY <1>6 DEF Poll
<1>7. ASSUME NEW p \in Tickers, Answer(p) PROVE nodes' >= nodes
  BY <1>7 DEF Answer
<1>8. ASSUME NEW p \in Tickers, FinishJob(p) PROVE nodes' >= nodes
  BY <1>8 DEF FinishJob, ReportPrefix
<1>9. ASSUME NEW p \in Tickers, LeaveJob(p) PROVE nodes' >= nodes
  BY <1>9 DEF LeaveJob
<1>10. ASSUME BeginPass PROVE nodes' >= nodes
  BY <1>10 DEF BeginPass
<1>11. ASSUME Dispatch PROVE nodes' >= nodes
  BY <1>11 DEF Dispatch
<1>12. ASSUME Cancel PROVE nodes' >= nodes
  BY <1>12 DEF Cancel
<1>13. ASSUME EndPass PROVE nodes' >= nodes
  BY <1>13 DEF EndPass
<1>14. ASSUME Return PROVE nodes' >= nodes
  BY <1>14 DEF Return
<1>15. ASSUME StopSearch PROVE nodes' >= nodes
  BY <1>15 DEF StopSearch
<1>16. ASSUME Expire PROVE nodes' >= nodes
  BY <1>16 DEF Expire
<1>17. ASSUME WatchdogFires PROVE nodes' >= nodes
  BY <1>17 DEF WatchdogFires
<1>18. ASSUME UNCHANGED budgetVars PROVE nodes' >= nodes
  BY <1>18 DEF budgetVars
<1>19. QED
  BY <1>1, <1>2, <1>3, <1>4, <1>5, <1>6, <1>7, <1>8, <1>9, <1>10, <1>11, <1>12,
     <1>13, <1>14, <1>15, <1>16, <1>17, <1>18 DEF BudgetNext, Tick, Pass, Over
(* The flag goes up for a limit that is reached, and stays reached.        *)
LEMMA CauseStep ==
  BudgetType /\ PlaceInv /\ ChildInv /\ CapInv /\ AbortHasCause
    /\ [BudgetNext]_budgetVars => AbortHasCause'
<1> SUFFICES ASSUME BudgetType, PlaceInv, ChildInv, CapInv, AbortHasCause,
                    [BudgetNext]_budgetVars
             PROVE  AbortHasCause'
  OBVIOUS
<1>a. nodes \in Nat /\ nodes' \in Nat /\ NodeLimit \in Nat /\ nodes' >= nodes
  BY NodesGrow, BudgetTypeStep DEF BudgetType
<1> USE DEF AbortHasCause, rootVars, childVars, worldVars, countVars, passVars
<1>1. ASSUME NEW p \in Tickers, TickRoot(p) PROVE AbortHasCause'
  BY <1>1, <1>a DEF TickRoot, CountAtRoot
<1>2. ASSUME NEW p \in Tickers, TickChild(p) PROVE AbortHasCause'
  BY <1>2, <1>a DEF TickChild
<1>3. ASSUME NEW p \in Tickers, TickParent(p) PROVE AbortHasCause'
  BY <1>3, <1>a DEF TickParent, CountAtRoot
<1>4. ASSUME NEW p \in Tickers, Latch(p) PROVE AbortHasCause'
  BY <1>4, <1>a DEF Latch, CapInv
<1>5. ASSUME NEW p \in Tickers, Report(p) PROVE AbortHasCause'
  BY <1>5, <1>a DEF Report
<1>6. ASSUME NEW p \in Tickers, Poll(p) PROVE AbortHasCause'
  BY <1>6, <1>a DEF Poll, PollClock
<1>7. ASSUME NEW p \in Tickers, Answer(p) PROVE AbortHasCause'
  BY <1>7, <1>a DEF Answer
<1>8. ASSUME NEW p \in Tickers, FinishJob(p) PROVE AbortHasCause'
  BY <1>8, <1>a DEF FinishJob
<1>9. ASSUME NEW p \in Tickers, LeaveJob(p) PROVE AbortHasCause'
  BY <1>9, <1>a DEF LeaveJob, PollClock
<1>10. ASSUME BeginPass PROVE AbortHasCause'
  BY <1>10, <1>a DEF BeginPass
<1>11. ASSUME Dispatch PROVE AbortHasCause'
  BY <1>11, <1>a DEF Dispatch
<1>12. ASSUME Cancel PROVE AbortHasCause'
  BY <1>12, <1>a DEF Cancel
<1>13. ASSUME EndPass PROVE AbortHasCause'
  BY <1>13, <1>a DEF EndPass
<1>14. ASSUME Return PROVE AbortHasCause'
  BY <1>14, <1>a DEF Return
<1>15. ASSUME StopSearch PROVE AbortHasCause'
  BY <1>15, <1>a DEF StopSearch
<1>16. ASSUME Expire PROVE AbortHasCause'
  BY <1>16, <1>a DEF Expire
<1>17. ASSUME WatchdogFires PROVE AbortHasCause'
  <2>1. mode.timed
    BY <1>17 DEF WatchdogFires, BudgetType
  <2>2. QED
    BY <1>17, <1>a, <2>1 DEF WatchdogFires
<1>18. ASSUME UNCHANGED budgetVars PROVE AbortHasCause'
  BY <1>18, <1>a DEF budgetVars
<1>19. QED
  BY <1>1, <1>2, <1>3, <1>4, <1>5, <1>6, <1>7, <1>8, <1>9, <1>10, <1>11, <1>12,
     <1>13, <1>14, <1>15, <1>16, <1>17, <1>18 DEF BudgetNext, Tick, Pass, Over
-----------------------------------------------------------------------------
InBatches == {p \in Tickers : phase = "pass" /\ batched[p]
                                /\ at[p] \notin {"out", "left"}}

(* What is held stays within the bound: less than a batch for each child   *)
(* that reports in batches, and one tick for each on its way to the root.  *)
LEMMA HeldIsBounded ==
  ASSUME BudgetType, PlaceInv, ChildInv
  PROVE  /\ IsFiniteSet(Held) /\ Cardinality(Held) <= HeldBack
         /\ HeldBack \in Nat
<1> DEFINE underWay == At("parent") \cup At("report")
           f == [p \in underWay |-> IF at[p] = "parent" THEN <<p, 0>> ELSE <<p, Batch>>]
           ends == {f[p] : p \in underWay}
           body == InBatches \X (1 .. Batch - 1)
<1>0. Batch \in Nat \ {0} /\ Batch - 1 \in Nat
  OBVIOUS
<1>1. underWay \in SUBSET Tickers /\ InBatches \in SUBSET Tickers
  BY DEF At, InBatches
<1>2. /\ IsFiniteSet(underWay) /\ Cardinality(underWay) \in Nat
      /\ IsFiniteSet(InBatches) /\ Cardinality(InBatches) \in Nat
  BY <1>1, SomeTickers
<1>3. IsFiniteSet(ends) /\ Cardinality(ends) <= Cardinality(underWay)
  <2>1. f \in Surjection(underWay, ends)
    BY DEF Surjection
  <2>2. QED
    BY <1>2, <2>1, FS_Surjection
<1>4. IsFiniteSet(body) /\ Cardinality(body) = Cardinality(InBatches) * (Batch - 1)
  <2>1. IsFiniteSet(1 .. Batch - 1) /\ Cardinality(1 .. Batch - 1) = Batch - 1
    BY <1>0, OneTo
  <2>2. QED
    BY <1>2, <2>1, FS_Product
<1>5. Held \subseteq body \cup ends
  <2> SUFFICES ASSUME NEW h \in Held PROVE h \in body \cup ends
    OBVIOUS
  <2>1. PICK p \in Tickers, d \in Nat : h = <<p, d>>
    BY DEF Held
  <2>2. CASE d = 0
    <3>1. at[p] = "parent"
      BY <2>1, <2>2 DEF Held
    <3>2. p \in underWay /\ f[p] = <<p, 0>>
      BY <3>1 DEF At
    <3>3. QED
      BY <2>1, <2>2, <3>2
  <2>3. CASE d # 0
    <3>1. batched[p] /\ reported[p] + d <= own[p]
      BY <2>1, <2>3 DEF Held
    <3>2. reported[p] \in Nat /\ own[p] \in Nat
      BY DEF BudgetType
    <3>3. p \in InBatches
      BY <2>3, <3>1, <3>2 DEF InBatches, PlaceInv, ChildInv
    <3>4. CASE d <= Batch - 1
      BY <2>1, <2>3, <3>3, <3>4
    <3>5. CASE d > Batch - 1
      <4>1. at[p] = "report" /\ d = Batch
        BY <3>1, <3>2, <3>5 DEF ChildInv
      <4>2. p \in underWay /\ f[p] = <<p, d>>
        BY <4>1 DEF At
      <4>3. QED
        BY <2>1, <4>2
    <3>6. d <= Batch - 1 \/ d > Batch - 1
      BY <1>0, <2>1
    <3>7. QED
      BY <3>4, <3>5, <3>6
  <2>4. QED
    BY <2>2, <2>3
<1>6. IsFiniteSet(body \cup ends)
        /\ Cardinality(body \cup ends) <= Cardinality(body) + Cardinality(ends)
  <2>1. /\ IsFiniteSet(body \cup ends)
        /\ Cardinality(body \cup ends) =
             Cardinality(body) + Cardinality(ends) - Cardinality(body \cap ends)
    BY <1>3, <1>4, FS_Union
  <2>2. IsFiniteSet(body \cap ends)
    BY <1>4, FS_Intersection
  <2>3. /\ Cardinality(body \cap ends) \in Nat /\ Cardinality(body) \in Nat
        /\ Cardinality(ends) \in Nat
    BY <1>3, <1>4, <2>2, FS_CardinalityType
  <2>4. QED
    BY <2>1, <2>3
<1>7. HeldBack = Cardinality(underWay) + Cardinality(InBatches) * (Batch - 1)
  BY DEF HeldBack, InBatches
<1>8. IsFiniteSet(Held) /\ Cardinality(Held) <= Cardinality(body \cup ends)
  BY <1>5, <1>6, FS_Subset
<1>9. Cardinality(Held) \in Nat /\ Cardinality(body \cup ends) \in Nat
        /\ Cardinality(body) \in Nat /\ Cardinality(ends) \in Nat
  BY <1>3, <1>4, <1>6, <1>8, FS_CardinalityType
<1> HIDE DEF underWay, f, ends, body
<1>10. QED
  BY <1>2, <1>3, <1>4, <1>6, <1>7, <1>8, <1>9

(* The invariant at the start, in every step, and what it says.            *)
LEMMA BudgetInvInitial == BudgetInit => BudgetInv
<1> SUFFICES ASSUME BudgetInit PROVE BudgetInv
  OBVIOUS
<1>1. BudgetType /\ PlaceInv /\ ChildInv /\ Balance
  BY BudgetTypeInitial, BalanceInitial
<1>2. \A p \in Tickers : at[p] \in {"free", "out"}
  BY DEF BudgetInit
<1>3. Latching = {} /\ Passing = {}
  BY <1>2 DEF Latching, Passing, At
<1>4. CapInv
  BY <1>2, <1>3, FS_EmptySet DEF CapInv, BudgetInit
<1>5. ClockInv
  BY DEF ClockInv, BudgetInit
<1>6. CapIsExact /\ AbortHasCause
  BY DEF CapIsExact, AbortHasCause, BudgetInit
<1>7. QED
  BY <1>1, <1>4, <1>5, <1>6 DEF BudgetInv

LEMMA BudgetInvStep == BudgetInv /\ [BudgetNext]_budgetVars => BudgetInv'
BY BudgetTypeStep, PlaceStep, ChildStep, BalanceStep, CapStep, ClockStep, CauseStep
   DEF BudgetInv

LEMMA BudgetInvSays == BudgetInv => NodesAreCharged /\ LimitsHold
<1> SUFFICES ASSUME BudgetInv PROVE NodesAreCharged /\ LimitsHold
  OBVIOUS
<1>1. /\ nodes \in Nat /\ charged \in Nat /\ late \in Nat /\ HeldBack \in Nat
      /\ Cardinality(Held) \in Nat /\ Cardinality(Held) <= HeldBack
      /\ charged = nodes + Cardinality(Held)
  BY HeldIsBounded, FS_CardinalityType DEF BudgetInv, BudgetType, Balance
<1>2. NodesAreCharged
  BY <1>1 DEF NodesAreCharged
<1>3. nodes % PollEvery \in 0 .. PollEvery - 1 /\ PollEvery \in Nat
  BY <1>1, Division
<1>4. DeadlineIsSeen
  BY <1>1, <1>3 DEF BudgetInv, ClockInv, DeadlineIsSeen, Raising
<1>5. QED
  BY <1>2, <1>4 DEF BudgetInv, LimitsHold

LEMMA BudgetInvariance == BudgetSpec => []BudgetInv
<1>1. BudgetInit => BudgetInv
  BY BudgetInvInitial
<1>2. BudgetInv /\ [BudgetNext]_budgetVars => BudgetInv'
  BY BudgetInvStep
<1>3. QED
  BY <1>1, <1>2, PTL DEF BudgetSpec

(* The root never counts a node that was not ticked and lacks at most what *)
(* running children hold back, whatever the batch, the threads and the     *)
(* order in which children report and leave.                               *)
THEOREM RootCountsEachNodeOnce == BudgetSpec => []NodesAreCharged
<1>1. BudgetInv => NodesAreCharged
  BY BudgetInvSays
<1>2. QED
  BY <1>1, BudgetInvariance, PTL

(* The flag goes up when a limit is reached, in time and for no other      *)
(* reason, in every kind of invocation.                                    *)
THEOREM LimitsAreKept == BudgetSpec => []LimitsHold
<1>1. BudgetInv => LimitsHold
  BY BudgetInvSays
<1>2. QED
  BY <1>1, BudgetInvariance, PTL
=============================================================================
