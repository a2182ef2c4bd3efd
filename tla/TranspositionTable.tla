------------------------- MODULE TranspositionTable -------------------------
(***************************************************************************)
(* The shared table of tt.rs.  A slot is two words written one after the   *)
(* other, with no lock: the packed entry and the exclusive or of that and  *)
(* the position's key.  A reader accepts the entry when the exclusive or   *)
(* of what it loaded is its own key.                                       *)
(*                                                                         *)
(* A word is the set of its fields and the exclusive or of two words is    *)
(* their symmetric difference: equal fields cancel.  Keys share no field   *)
(* with entries, which leaves out the chance that 64 bits agree by luck.   *)
(***************************************************************************)
EXTENDS Integers, FiniteSets

CONSTANTS
  Threads,         \* the workers and the promoted tasks
  Last,            \* the last slot of a bucket: BUCKET - 1
  Entries,         \* bound: for each position, the results stored for it
  TT_KEEP_DEPTH, TT_AGE_WEIGHT,
  Generations,     \* GEN_MASK + 1
  Layouts,         \* the values of TT_BUCKET: its bits 0 and 1
  MaxStores,       \* bound: calls of store
  MaxSearches,     \* bound: calls of new_search
  Nil

Positions == DOMAIN Entries
Slots == 0 .. Last

ASSUME EntriesAssumption ==
  \A position \in Positions : \A entry \in Entries[position] :
    entry.depth \in 0 .. 127 /\ entry.exact \in BOOLEAN
ASSUME NumbersAssumption ==
  /\ TT_KEEP_DEPTH \in Nat /\ TT_AGE_WEIGHT \in Nat /\ Generations \in Nat \ {0} /\ MaxStores \in Nat
  /\ Layouts \subseteq [bucket : BOOLEAN, keep : BOOLEAN]
  /\ Last \in Nat

VARIABLES
  layout,          \* TT_BUCKET
  searches,        \* the generation counter
  data, key,       \* the two words of each slot
  pc, op,          \* where each thread is, and its operation
  at,              \* the slot it looks at
  seen,            \* the data word it has loaded
  victim,          \* store_bucket: the slot to replace and its value
  word,            \* what it is going to write
  stores,          \* the calls of store so far
  clearing,        \* clear: the slot and the word it resets next
  recorded         \* history: the words stored for each position since clear began

threadVars == <<pc, op, at, seen, victim, word>>
clearVars == <<clearing, recorded>>
tableVars == <<layout, searches, data, key, threadVars, stores, clearVars>>
-----------------------------------------------------------------------------
Xor(a, b) == (a \ b) \cup (b \ a)

KeyHash(position) == {<<"key", position>>}

MaxStoredDepth == 127

Consistent(k, d, position) == Xor(k, d) = KeyHash(position)

(* pack.  An entry without a move has no such field; it is never zero.     *)
MoveBits(w) == {field \in w : field[1] = "move"}

Pack(entry) ==
  {<<"depth", entry.depth>>, <<"exact", entry.exact>>}
    \cup (IF entry.move = Nil THEN {} ELSE {<<"move", entry.move>>})

generation == searches % Generations
GenerationBits == {<<"generation", generation>>}

DepthOf(w) == CHOOSE d \in 0 .. MaxStoredDepth : <<"depth", d>> \in w

Age(w) ==
  LET g == CHOOSE g \in 0 .. Generations - 1 :
             <<"generation", g>> \in w \/ (g = 0 /\ \A f \in w : f[1] # "generation")
  IN  (generation - g) % Generations

(* What a slot is worth to store_bucket; an empty one is replaced first.   *)
Worth(w) == IF w = {} THEN -1000 ELSE DepthOf(w) - TT_AGE_WEIGHT * Age(w)

(* same_position_data: may the entry replace this one of its position?     *)
Replaces(entry, existing) ==
  IF layout.keep
    THEN \/ entry.exact
         \/ entry.depth + TT_KEEP_DEPTH >= DepthOf(existing)
         \/ ~(GenerationBits \subseteq existing)
    ELSE entry.depth >= DepthOf(existing)

(* ... and with a move of the existing entry when it has none of its own.  *)
Merged(entry, existing) ==
  Pack(entry)
    \cup (IF layout.keep /\ entry.move = Nil THEN MoveBits(existing) ELSE {})
    \cup (IF layout.keep \/ layout.bucket THEN GenerationBits ELSE {})

(* The data word over an entry of another position.                        *)
Fresh(entry) ==
  Pack(entry) \cup (IF layout.keep \/ layout.bucket THEN GenerationBits ELSE {})
-----------------------------------------------------------------------------
NoOp == [kind |-> "none", position |-> Nil, entry |-> Nil]

TableInit ==
  /\ layout \in Layouts
  /\ searches = 0
  /\ data = [s \in Slots |-> {}]
  /\ key = [s \in Slots |-> {}]
  /\ pc = [t \in Threads |-> "idle"]
  /\ op = [t \in Threads |-> NoOp]
  /\ at = [t \in Threads |-> 0]
  /\ seen = [t \in Threads |-> {}]
  /\ victim = [t \in Threads |-> [slot |-> 0, worth |-> Nil]]
  /\ word = [t \in Threads |-> {}]
  /\ stores = 0
  /\ clearing = <<"idle", 0>>
  /\ recorded = [position \in Positions |-> {}]

Go(t, place) == pc' = [pc EXCEPT ![t] = place]

Rest(t) ==
  /\ Go(t, "idle")
  /\ op' = [op EXCEPT ![t] = NoOp]
  /\ at' = [at EXCEPT ![t] = 0]
  /\ seen' = [seen EXCEPT ![t] = {}]
  /\ victim' = [victim EXCEPT ![t] = [slot |-> 0, worth |-> Nil]]
  /\ word' = [word EXCEPT ![t] = {}]

SlotFrame == UNCHANGED <<layout, searches, data, key, clearVars>>
TableFrame == SlotFrame /\ UNCHANGED stores

(* probe_data and store_flags are called.  In the direct layout the        *)
(* positions share slot 0.                                                 *)
BeginProbe(t) ==
  /\ pc[t] = "idle"
  /\ \E position \in Positions :
       op' = [op EXCEPT ![t] = [kind |-> "probe", position |-> position, entry |-> Nil]]
  /\ Go(t, "load data")
  /\ UNCHANGED <<at, seen, victim, word>>
  /\ TableFrame

BeginStore(t) ==
  /\ pc[t] = "idle"
  /\ stores < MaxStores
  /\ stores' = stores + 1
  /\ \E position \in Positions : \E entry \in Entries[position] :
       op' = [op EXCEPT ![t] = [kind |-> "store", position |-> position, entry |-> entry]]
  /\ Go(t, "load data")
  /\ UNCHANGED <<at, seen, victim, word>>
  /\ SlotFrame

LoadData(t) ==
  /\ pc[t] = "load data"
  /\ seen' = [seen EXCEPT ![t] = data[at[t]]]
  /\ Go(t, "load key")
  /\ UNCHANGED <<op, at, victim, word>>
  /\ TableFrame

(* The key that is loaded after the data decides.                          *)
Hit(t) == Consistent(key[at[t]], seen[t], op[t].position)

MoreSlots(t) == layout.bucket /\ at[t] < Last

NextSlot(t) ==
  /\ at' = [at EXCEPT ![t] = @ + 1]
  /\ seen' = [seen EXCEPT ![t] = {}]
  /\ Go(t, "load data")

(* The rest of the loop of probe_data.                                     *)
ProbeLoadsKey(t) ==
  /\ pc[t] = "load key"
  /\ op[t].kind = "probe"
  /\ IF ~Hit(t) /\ MoreSlots(t)
       THEN NextSlot(t) /\ UNCHANGED <<op, victim, word>>
       ELSE Rest(t)
  /\ TableFrame

WriteTo(t, slot, w) ==
  /\ at' = [at EXCEPT ![t] = slot]
  /\ word' = [word EXCEPT ![t] = w]
  /\ Go(t, "write data")
  /\ seen' = [seen EXCEPT ![t] = {}]
  /\ UNCHANGED <<op, victim>>

(* Mutant of StoreHits: the entry is merged into whatever is there.        *)
StoreHitsAny(t) == seen[t] # {}

(* The slot holds the same position.                                       *)
StoreHits(t) == Hit(t)

StoreSamePosition(t) ==
  /\ pc[t] = "load key"
  /\ op[t].kind = "store"
  /\ StoreHits(t)
  /\ IF Replaces(op[t].entry, seen[t])
       THEN WriteTo(t, at[t], Merged(op[t].entry, seen[t]))
       ELSE Rest(t)
  /\ TableFrame

(* It does not: the least of the slots seen so far is to be replaced.      *)
Least(t) ==
  IF victim[t].worth = Nil \/ Worth(seen[t]) < victim[t].worth
    THEN [slot |-> at[t], worth |-> Worth(seen[t])]
    ELSE victim[t]

StoreOtherPosition(t) ==
  /\ pc[t] = "load key"
  /\ op[t].kind = "store"
  /\ ~StoreHits(t)
  /\ IF MoreSlots(t)
       THEN /\ NextSlot(t)
            /\ victim' = [victim EXCEPT ![t] = Least(t)]
            /\ UNCHANGED <<op, word>>
       ELSE WriteTo(t, IF layout.bucket THEN Least(t).slot ELSE at[t],
                    Fresh(op[t].entry))
  /\ TableFrame

(* write: the data word and then the key word.                             *)
WriteData(t) ==
  /\ pc[t] = "write data"
  /\ data' = [data EXCEPT ![at[t]] = word[t]]
  /\ Go(t, "write key")
  /\ UNCHANGED <<layout, searches, key, op, at, seen, victim, word, stores, clearVars>>

WriteKey(t) ==
  /\ pc[t] = "write key"
  /\ key' = [key EXCEPT ![at[t]] = Xor(KeyHash(op[t].position), word[t])]
  /\ recorded' = [recorded EXCEPT ![op[t].position] = @ \cup {word[t]}]
  /\ Rest(t)
  /\ UNCHANGED <<layout, searches, data, stores, clearing>>

NewSearch ==
  /\ searches < MaxSearches
  /\ searches' = searches + 1
  /\ UNCHANGED <<layout, data, key, threadVars, stores, clearVars>>

(* clear, which runs while promoted tasks may still be storing.            *)
ClearBegins ==
  /\ clearing[1] = "idle"
  /\ clearing' = <<"data", 0>>
  /\ recorded' = [position \in Positions |-> {}]
  /\ UNCHANGED <<layout, searches, data, key, threadVars, stores>>

ClearData ==
  /\ clearing[1] = "data"
  /\ data' = [data EXCEPT ![clearing[2]] = {}]
  /\ clearing' = <<"key", clearing[2]>>
  /\ UNCHANGED <<layout, searches, key, threadVars, stores, recorded>>

(* Mutant of ClearedAll: the last slot is left out.                        *)
ClearedAllButOne == clearing[2] + 1 >= Last
ClearedAll == clearing[2] = Last

ClearKey ==
  /\ clearing[1] = "key"
  /\ key' = [key EXCEPT ![clearing[2]] = {}]
  /\ clearing' = IF ClearedAll THEN <<"idle", 0>> ELSE <<"data", clearing[2] + 1>>
  /\ UNCHANGED <<layout, searches, data, threadVars, stores, recorded>>

ThreadStep(t) ==
  \/ BeginProbe(t)
  \/ BeginStore(t)
  \/ LoadData(t)
  \/ ProbeLoadsKey(t)
  \/ StoreSamePosition(t)
  \/ StoreOtherPosition(t)
  \/ WriteData(t)
  \/ WriteKey(t)

TableNext ==
  \/ \E t \in Threads : ThreadStep(t)
  \/ NewSearch
  \/ ClearBegins
  \/ ClearData
  \/ ClearKey

TableSpec == TableInit /\ [][TableNext]_tableVars
-----------------------------------------------------------------------------
(* What the table may say of a position: the depth and the bound are those *)
(* of one result stored for it, and the move is of a result stored for it. *)
Own(position, w) ==
  /\ \E entry \in Entries[position] :
       {<<"depth", entry.depth>>, <<"exact", entry.exact>>} \subseteq w
  /\ \A field \in MoveBits(w) :
       \E entry \in Entries[position] : entry.move = field[2]

(* "safe, never incorrect": whatever stores, clear and new_search run at   *)
(* the same time, a probe that hits returns depth, bound and move of its   *)
(* own position, and a store that merges takes the move of its own.        *)
HitIsOwn ==
  \A t \in Threads :
    /\ pc[t] = "load key" /\ op[t].kind = "probe" /\ Hit(t) => Own(op[t].position, seen[t])
    /\ pc[t] \in {"write data", "write key"} => Own(op[t].position, word[t])

(* "lets one game's search state leak into another's result": when clear   *)
(* has returned, what a probe or a merging store finds for a position was  *)
(* stored for that position, as a whole, since clear began - although      *)
(* stores may run beside clear, and the two words of a slot may be of two  *)
(* stores.                                                                 *)
HitWasStored ==
  clearing[1] = "idle" =>
    \A t \in Threads :
      pc[t] = "load key" /\ Hit(t) => seen[t] \in recorded[op[t].position]
=============================================================================
