------------------------------ MODULE RootHint ------------------------------
(***************************************************************************)
(* The root-hint channel of LazySMP (RootHintChannel and GenerationCounter *)
(* of search.rs): one atomic word that holds the generation of the         *)
(* invocation together with the hint, written by compare-exchange, and     *)
(* counters whose words carry the generation too.  Every atomic access of  *)
(* the slot is a step.  A counter's own compare-exchange loop decides from *)
(* the word it replaces and nothing else, so an update is one step.        *)
(***************************************************************************)
EXTENDS Integers, Sequences, FiniteSets

CONSTANTS
  Workers,         \* worker indices; 0 is the main worker
  Moves,           \* raw encodings of the root moves, all positive
  DEPTH_MASK,      \* largest depth a slot holds
  GENERATION_MASK, \* number of generations before they wrap
  COUNT_MASK       \* largest count a counter holds

ASSUME WorkersAssumption == Workers \subseteq Nat /\ 0 \in Workers
ASSUME MovesAssumption == Moves \subseteq Nat \ {0}
ASSUME MasksAssumption ==
  DEPTH_MASK \in Nat /\ GENERATION_MASK \in Nat \ {0} /\ COUNT_MASK \in Nat

Helpers == Workers \ {0}

VARIABLES
  sequence,        \* RootHintChannel.generation: invocations begun
  resetting,       \* begin_go: counters still to reset; -1 when it is not running
  slot,            \* RootHintChannel.packed, decoded
  counter,         \* the counters, decoded
  pending,         \* the channel call each worker is in
  offered,         \* history: publications of this invocation
  settled,         \* history: those whose publish has returned
  changes          \* history: successful exchanges of this invocation

channelVars == <<sequence, resetting, slot, counter, pending, offered, settled, changes>>

(* Move 0 is no hint.                                                      *)
Hints == [generation : 0 .. GENERATION_MASK, depth : 0 .. DEPTH_MASK,
          worker : Workers, move : Moves \cup {0}]

Empty(g) == [generation |-> g, depth |-> 0, worker |-> 0, move |-> 0]

Encode(g, d, w, m) ==
  [generation |-> g, depth |-> IF d < DEPTH_MASK THEN d ELSE DEPTH_MASK,
   worker |-> w, move |-> m]

(* The key (depth, Reverse(worker), Reverse(move)) of a is larger.         *)
Beats(a, b) ==
  \/ a.depth > b.depth
  \/ a.depth = b.depth /\ a.worker < b.worker
  \/ a.depth = b.depth /\ a.worker = b.worker /\ a.move < b.move

Counters == <<"publications", "eligible_reads", "applied", "stale_reads">>
CounterNames == {Counters[i] : i \in DOMAIN Counters}

(* The generation of the n-th invocation.                                  *)
GenerationOf(n) == ((n - 1) % GENERATION_MASK) + 1

None == [call |-> "none"]

(* Calls of the channel.  A publication remembers the word it loaded last; *)
(* `go` is history, the invocation its worker belongs to.                  *)
Publication(n, hint, seen) ==
  [call |-> "publish", go |-> n, hint |-> hint, seen |-> seen]

Counting(name, g) == [call |-> "count", name |-> name, generation |-> g]

ChannelInit ==
  /\ sequence = 0
  /\ resetting = -1
  /\ slot = Empty(0)
  /\ counter = [c \in CounterNames |-> [generation |-> 0, count |-> 0]]
  /\ pending = [w \in Workers |-> None]
  /\ offered = {}
  /\ settled = {}
  /\ changes = 0
-----------------------------------------------------------------------------
(* begin_go: the sequence number, the counters in turn, then the slot.     *)
BeginGo ==
  /\ resetting = -1
  /\ sequence' = sequence + 1
  /\ resetting' = Len(Counters)
  /\ UNCHANGED <<slot, counter, pending, offered, settled, changes>>

ResetCounter ==
  /\ resetting > 0
  /\ counter' = [counter EXCEPT ![Counters[Len(Counters) + 1 - resetting]] =
                   [generation |-> GenerationOf(sequence), count |-> 0]]
  /\ resetting' = resetting - 1
  /\ UNCHANGED <<sequence, slot, pending, offered, settled, changes>>

ResetSlot ==
  /\ resetting = 0
  /\ slot' = Empty(GenerationOf(sequence))
  /\ resetting' = -1
  /\ offered' = {}
  /\ settled' = {}
  /\ changes' = 0
  /\ UNCHANGED <<sequence, counter, pending>>

(* Mutant of Updated: a late call is counted for the new invocation.       *)
UpdatedByAnyone(name, g) ==
  [counter EXCEPT ![name].count = IF @ < COUNT_MASK THEN @ + 1 ELSE @]

(* GenerationCounter::update by one.  A full counter stays as it is.       *)
Updated(name, g) ==
  [counter EXCEPT ![name].count =
     IF counter[name].generation = g /\ @ < COUNT_MASK THEN @ + 1 ELSE @]

Count(w) ==
  /\ pending[w].call = "count"
  /\ counter' = Updated(pending[w].name, pending[w].generation)
  /\ pending' = [pending EXCEPT ![w] = None]
  /\ UNCHANGED <<sequence, resetting, slot, offered, settled, changes>>

Increment(w, name, g) ==
  pending' = [pending EXCEPT ![w] = Counting(name, g)]

(* publish: the candidate and the first load.  A worker of the invocation  *)
(* n publishes with the token g that it captured when it started.          *)
Publish(w, n, g, depth, move) ==
  /\ LET hint == Encode(g, depth, w, move) IN
       /\ pending' = [pending EXCEPT ![w] = Publication(n, hint, slot)]
       /\ offered' = IF n = sequence THEN offered \cup {hint} ELSE offered
  /\ UNCHANGED <<sequence, resetting, slot, counter, settled, changes>>

(* Mutant of Yields: the generation is not compared.                       *)
YieldsToBetterOnly(hint, seen) ==
  seen.move # 0 /\ ~Beats(hint, seen)

(* What the loop finds in the word it has: another generation, or a hint   *)
(* that is at least as good.                                               *)
Yields(hint, seen) ==
  \/ seen.generation # hint.generation
  \/ seen.move # 0 /\ ~Beats(hint, seen)

GiveWay(w) ==
  /\ pending[w].call = "publish"
  /\ Yields(pending[w].hint, pending[w].seen)
  /\ pending' = [pending EXCEPT ![w] = None]
  /\ settled' = IF pending[w].go = sequence THEN settled \cup {pending[w].hint} ELSE settled
  /\ UNCHANGED <<sequence, resetting, slot, counter, offered, changes>>

(* compare_exchange_weak that succeeds, and the call of increment.         *)
Replace(w) ==
  /\ slot' = pending[w].hint
  /\ Increment(w, "publications", pending[w].hint.generation)
  /\ settled' = IF pending[w].go = sequence THEN settled \cup {pending[w].hint} ELSE settled
  /\ changes' = changes + 1
  /\ UNCHANGED <<sequence, resetting, counter, offered>>

(* Mutant of Exchange: a store instead of the compare-exchange.            *)
ExchangeBlindly(w) ==
  /\ pending[w].call = "publish"
  /\ ~Yields(pending[w].hint, pending[w].seen)
  /\ Replace(w)

Exchange(w) ==
  /\ pending[w].call = "publish"
  /\ ~Yields(pending[w].hint, pending[w].seen)
  /\ slot = pending[w].seen
  /\ Replace(w)

(* It fails and returns what it observed; a weak one may also fail for no  *)
(* reason, which changes nothing.                                          *)
ExchangeFails(w) ==
  /\ pending[w].call = "publish"
  /\ ~Yields(pending[w].hint, pending[w].seen)
  /\ slot # pending[w].seen
  /\ pending' = [pending EXCEPT ![w].seen = slot]
  /\ UNCHANGED <<sequence, resetting, slot, counter, offered, settled, changes>>

(* Mutant of Eligible: the generation is not compared.                     *)
EligibleOfAnyGo(g, depth) == slot.move # 0 /\ slot.depth >= depth

(* move_at_least and peek: one load decides on generation and depth.       *)
Eligible(g, depth) ==
  slot.move # 0 /\ slot.generation = g /\ slot.depth >= depth

ChannelStep(w) == Count(w) \/ GiveWay(w) \/ Exchange(w) \/ ExchangeFails(w)
-----------------------------------------------------------------------------
HasRun == sequence > 0 /\ resetting = -1

(* A delayed publication of an earlier invocation never repopulates the    *)
(* slot after begin_go: the hint in it was published for this one.         *)
HintIsOwn == HasRun /\ slot.move # 0 => slot \in offered

(* The retained value does not depend on the order of the exchanges: once  *)
(* every publication has returned, it is the best of them, and at any time *)
(* none that has returned beats it.                                        *)
BestIsRetained ==
  HasRun => \A hint \in settled : slot.move # 0 /\ ~Beats(hint, slot)

(* The statistics of an invocation are its own: `publications` counts the  *)
(* hints it exchanged, without those of a call delayed from another one,   *)
(* up to the width of a counter, and none is applied that was not eligible.*)
StatisticsAreOwn ==
  HasRun =>
    LET due == {w \in Workers : pending[w] = Counting("publications", slot.generation)}
        done == changes - Cardinality(due)
    IN /\ counter["publications"] =
            [generation |-> slot.generation,
             count |-> IF done < COUNT_MASK THEN done ELSE COUNT_MASK]
       /\ counter["applied"].count <= counter["eligible_reads"].count
=============================================================================
