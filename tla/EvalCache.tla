----------------------------- MODULE EvalCache ------------------------------
(***************************************************************************)
(* One slot of the evaluation cache in crates/sekirei-core/src/search.rs:  *)
(* a sequence number guards a hash and a score, which workers read and     *)
(* overwrite with no lock.  Slots are independent, so the positions here   *)
(* are those that collide on one.  Every atomic access is a step.          *)
(*                                                                         *)
(* The evaluation of a position is a function of it; the score stored for  *)
(* position h is modelled by h itself, so that a hit on h is right exactly *)
(* when it returns h.                                                      *)
(*                                                                         *)
(* The writer claims the slot by a compare-exchange (AcqRel) and then      *)
(* stores hash and score (Relaxed) with no release fence between.  Nothing *)
(* orders those stores after the claim for another thread: where the       *)
(* target allows it (load-exclusive/store-exclusive on Arm), they may be   *)
(* seen before it, and in either order.  LateClaim says whether it does.   *)
(***************************************************************************)
EXTENDS Naturals

CONSTANTS
  Threads,         \* search workers
  Hashes,          \* positions that fall into the slot
  None,
  MaxSequence,     \* bound: an even value at which no more store is claimed
  LateClaim        \* the build may let payload stores overtake the claim

ASSUME HashesAssumption == None \notin Hashes
ASSUME MaxSequenceAssumption == MaxSequence \in Nat
ASSUME LateClaimAssumption == LateClaim \in BOOLEAN

VARIABLES
  sequence,        \* the newest value in the modification order of sequence
  hash,
  score,
  pc,              \* where each worker is
  key,             \* the position it evaluates
  before,          \* the sequence it has loaded
  readHash,        \* stored_hash
  readScore,       \* score, as loaded by probe
  left             \* the payload words it has not stored yet

slot  == <<sequence, hash, score>>
local == <<key, before, readHash, readScore, left>>
vars  == <<slot, pc, local>>

Even(n) == n % 2 = 0

(* The values a load of the sequence may return: the newest, and where a   *)
(* claim may still be unseen the even value it has replaced.  (That a      *)
(* thread which has seen a claim cannot miss it later is not modelled.)    *)
Loadable == {sequence} \cup IF LateClaim /\ ~Even(sequence) THEN {sequence - 1} ELSE {}

Init ==
  /\ sequence = 0
  /\ hash = None
  /\ score = None
  /\ pc = [t \in Threads |-> "idle"]
  /\ key = [t \in Threads |-> None]
  /\ before = [t \in Threads |-> 0]
  /\ readHash = [t \in Threads |-> None]
  /\ readScore = [t \in Threads |-> None]
  /\ left = [t \in Threads |-> {}]

Goto(t, place) == pc' = [pc EXCEPT ![t] = place]
-----------------------------------------------------------------------------
(* probe: the acquire load of the sequence.  An empty slot or one being    *)
(* written is a miss, and the position is evaluated and stored.            *)
Probe(t, h) ==
  /\ pc[t] = "idle"
  /\ key' = [key EXCEPT ![t] = h]
  /\ \E seen \in Loadable :
       /\ before' = [before EXCEPT ![t] = seen]
       /\ Goto(t, IF seen = 0 \/ ~Even(seen) THEN "miss" ELSE "readHash")
  /\ UNCHANGED <<slot, readHash, readScore, left>>

ReadHash(t) ==
  /\ pc[t] = "readHash"
  /\ readHash' = [readHash EXCEPT ![t] = hash]
  /\ Goto(t, "readScore")
  /\ UNCHANGED <<slot, key, before, readScore, left>>

ReadScore(t) ==
  /\ pc[t] = "readScore"
  /\ readScore' = [readScore EXCEPT ![t] = score]
  /\ Goto(t, "validate")
  /\ UNCHANGED <<slot, key, before, readHash, left>>

(* The fence and the second load of the sequence.                          *)
Validate(t) ==
  /\ pc[t] = "validate"
  /\ \E after \in Loadable :
       Goto(t, IF before[t] = after /\ Even(after) /\ readHash[t] = key[t]
                 THEN "hit" ELSE "miss")
  /\ UNCHANGED <<slot, local>>

(* The cached score is used.                                               *)
Hit(t) ==
  /\ pc[t] = "hit"
  /\ Goto(t, "idle")
  /\ UNCHANGED <<slot, local>>
-----------------------------------------------------------------------------
(* store: somebody else's write in progress makes it a no-op.              *)
LoadSequence(t) ==
  /\ pc[t] = "miss"
  /\ \E seen \in Loadable :
       /\ Even(seen) => seen < MaxSequence
       /\ before' = [before EXCEPT ![t] = seen]
       /\ Goto(t, IF Even(seen) THEN "claim" ELSE "idle")
  /\ UNCHANGED <<slot, key, readHash, readScore, left>>

(* The compare-exchange makes the sequence odd, or fails: because the      *)
(* sequence has moved on, or spuriously.                                   *)
Claim(t) ==
  /\ pc[t] = "claim"
  /\ sequence = before[t]
  /\ sequence' = sequence + 1
  /\ left' = [left EXCEPT ![t] = {"hash", "score"}]
  /\ Goto(t, "write")
  /\ UNCHANGED <<hash, score, key, before, readHash, readScore>>

ClaimFails(t) ==
  /\ pc[t] = "claim"
  /\ Goto(t, "idle")
  /\ UNCHANGED <<slot, local>>

WriteHash(t) ==
  /\ pc[t] = "write"
  /\ "hash" \in left[t]
  /\ hash' = key[t]
  /\ left' = [left EXCEPT ![t] = @ \ {"hash"}]
  /\ UNCHANGED <<sequence, score, pc, key, before, readHash, readScore>>

WriteScore(t) ==
  /\ pc[t] = "write"
  /\ "score" \in left[t]
  /\ "hash" \in left[t] => LateClaim
  /\ score' = key[t]
  /\ left' = [left EXCEPT ![t] = @ \ {"score"}]
  /\ UNCHANGED <<sequence, hash, pc, key, before, readHash, readScore>>

(* The release store, behind which everything before it is visible.        *)
Publish(t) ==
  /\ pc[t] = "write"
  /\ left[t] = {}
  /\ sequence' = before[t] + 2
  /\ Goto(t, "idle")
  /\ UNCHANGED <<hash, score, local>>
-----------------------------------------------------------------------------
(* Mutant of Clear: the cache is cleared beside a search.                  *)
ClearAnyTime ==
  /\ sequence # 0
  /\ sequence' = 0
  /\ UNCHANGED <<hash, score, pc, local>>

(* clear: sequence numbers start again, hash and score stay.  The callers, *)
(* clear_tt of the three searchers, run while no worker does: the USI loop *)
(* has joined the search, and LazySmpSearcher holds the invocation guard.  *)
Clear ==
  /\ sequence # 0
  /\ \A t \in Threads : pc[t] = "idle"
  /\ sequence' = 0
  /\ UNCHANGED <<hash, score, pc, local>>

Read(t) ==
  \/ \E h \in Hashes : Probe(t, h)
  \/ ReadHash(t)
  \/ ReadScore(t)
  \/ Validate(t)
  \/ Hit(t)

Write(t) ==
  \/ LoadSequence(t)
  \/ Claim(t)
  \/ ClaimFails(t)
  \/ WriteHash(t)
  \/ WriteScore(t)
  \/ Publish(t)

(* The bound on the sequence is reached with a store still to be made.     *)
Bounded ==
  /\ Even(sequence) /\ sequence >= MaxSequence
  /\ UNCHANGED vars

Next ==
  \/ \E t \in Threads : Read(t) \/ Write(t)
  \/ Clear
  \/ Bounded

Spec == Init /\ [][Next]_vars
-----------------------------------------------------------------------------
Places == {"idle", "readHash", "readScore", "validate", "hit", "miss", "claim",
           "write"}

(* Every variable has its type, and only a writer has words left to store. *)
TypeOK ==
  /\ sequence \in Nat
  /\ hash \in Hashes \cup {None}
  /\ score \in Hashes \cup {None}
  /\ pc \in [Threads -> Places]
  /\ key \in [Threads -> Hashes \cup {None}]
  /\ before \in [Threads -> Nat]
  /\ readHash \in [Threads -> Hashes \cup {None}]
  /\ readScore \in [Threads -> Hashes \cup {None}]
  /\ left \in [Threads -> SUBSET {"hash", "score"}]
  /\ \A t \in Threads : left[t] # {} => pc[t] = "write"

(* "The sequence guard makes a concurrent overwrite a miss rather than a   *)
(* mixed hash/score hit": the score of a hit is the score of the position  *)
(* probed, whatever stores overlapped the probe.                           *)
NoMixedHit == \A t \in Threads : pc[t] = "hit" => readScore[t] = key[t]

(* Between the claim and the release store a writer has the slot to itself *)
(* and everybody can tell: one writer at most, and the sequence is odd.    *)
OneWriter ==
  /\ \A t, u \in Threads : pc[t] = "write" /\ pc[u] = "write" => t = u
  /\ Even(sequence) <=> \A t \in Threads : pc[t] # "write"
=============================================================================
