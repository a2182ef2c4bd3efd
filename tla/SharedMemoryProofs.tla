------------------------- MODULE SharedMemoryProofs -------------------------
(***************************************************************************)
(* Proofs about what the search threads share without a lock, for any      *)
(* number of workers, slots, positions, moves, depths and invocations and  *)
(* any widths of the fields: the channels between the LazySMP workers      *)
(* (WorkerIterations) and the transposition table (TranspositionTable).    *)
(*                                                                         *)
(* A late publication cannot pass the generation in the slot because the   *)
(* token of a running worker is the current generation exactly if the      *)
(* worker belongs to the current invocation (Tokens); the slot only        *)
(* improves within an invocation, so what a publication saw is a lower     *)
(* bound of what is there (Pending).  A helper that is surveyed cannot go  *)
(* back, so what was read of the leader is a lower bound too (Surveys).    *)
(*                                                                         *)
(* In the table the exclusive or of a key and an entry belongs to one      *)
(* position only, so a torn slot is never taken for an entry.              *)
(***************************************************************************)
EXTENDS WorkerIterations, TranspositionTable, FiniteSetTheorems, TLAPS

Places == {"idle", "between", "reading", "ordering", "searching",
           "completing", "reported", "deciding"}

Words == [generation : Nat, depth : Nat, worker : Nat, move : Nat]

Calls == {None} \cup [call : {"count"}, name : CounterNames, generation : Nat]
           \cup [call : {"publish"}, go : Nat, hint : Words, seen : Words]

(* The types of the variables that the arguments use.                      *)
HintTypes ==
  /\ sequence \in Nat
  /\ resetting \in Int
  /\ slot \in Words
  /\ pending \in [Workers -> Calls]
  /\ settled \subseteq Words
  /\ config \in Configs
  /\ place \in [Workers -> Places]
  /\ go \in [Workers -> Nat]
  /\ token \in [Workers -> Nat]
  /\ depth \in [Workers -> Nat]
  /\ best \in [Workers -> Moves \cup {0}]

IdleHere ==
  \A w \in Workers : place[w] \in {"idle", "reported", "deciding"} => pending[w] = None

(* The slot carries the current generation, and a running worker holds it  *)
(* exactly if it belongs to the current invocation.                        *)
Tokens ==
  /\ sequence = 0 => begun = Workers
  /\ HasRun => slot.generation = GenerationOf(sequence)
  /\ \A w \in Workers : place[w] # "idle" =>
       /\ sequence > 0
       /\ go[w] <= sequence
       /\ go[w] = sequence => resetting = -1 /\ token[w] = GenerationOf(sequence)
       /\ go[w] # sequence => token[w] # GenerationOf(sequence)

(* A publication under way belongs to its worker; if it is one of this     *)
(* invocation, the slot is at least as good as what it has seen.           *)
Publishes(w) ==
  /\ pending[w].go = go[w]
  /\ pending[w].hint.generation = token[w]
  /\ pending[w].hint.move # 0
  /\ HasRun /\ go[w] = sequence =>
       /\ pending[w].hint \in offered
       /\ pending[w].seen.generation = GenerationOf(sequence)
       /\ pending[w].seen.move # 0 => slot.move # 0 /\ ~Beats(pending[w].seen, slot)

Publishing == \A w \in Workers : pending[w].call = "publish" => Publishes(w)

HintInv ==
  /\ HintTypes
  /\ IdleHere
  /\ Tokens
  /\ Publishing
  /\ HintIsOwn
  /\ BestIsRetained
-----------------------------------------------------------------------------
(* A word for which nothing better is found is beaten by nothing that it   *)
(* is at least as good as.                                                 *)
LEMMA BeatsIsAnOrder ==
  \A a, b, c \in Words : ~Beats(a, b) /\ ~Beats(b, c) => ~Beats(a, c)
PROOF BY DEF Beats, Words

LEMMA BeatsIsAsymmetric ==
  \A a, b \in Words : ~Beats(a, a) /\ (Beats(a, b) => ~Beats(b, a))
PROOF BY DEF Beats, Words

LEMMA GenerationIsNatural == \A n \in Nat : GenerationOf(n) \in Nat
<1>1. \A n \in Int : n % GENERATION_MASK \in Nat
  BY MasksAssumption
<1> QED BY <1>1 DEF GenerationOf

LEMMA EncodeIsAWord ==
  ASSUME NEW g \in Nat, NEW d \in Nat, NEW w \in Workers, NEW m \in Moves
  PROVE  Encode(g, d, w, m) \in Words /\ Encode(g, d, w, m).generation = g
           /\ Encode(g, d, w, m).move = m /\ m # 0
PROOF BY MasksAssumption, WorkersAssumption, MovesAssumption DEF Encode, Words

LEMMA HintTypesHold == ASSUME HintTypes, [Next]_vars PROVE HintTypes'
<1> USE DEF HintTypes
<1>1. CASE UNCHANGED vars
  BY <1>1 DEF vars, channelVars, loopVars
<1>2. CASE Begin
  BY <1>2 DEF Begin, BeginGo, Reset, Counters, loopVars
<1>3. CASE BeginStep
  <2>1. CASE ResetCounter
    BY <1>3, <2>1 DEF BeginStep, ResetCounter, loopVars
  <2>2. CASE ResetSlot
    BY <1>3, <2>2, GenerationIsNatural DEF BeginStep, ResetSlot, loopVars, Empty, Words
  <2> QED BY <1>3, <2>1, <2>2 DEF BeginStep
<1>4. ASSUME NEW w \in Workers, Start(w) PROVE HintTypes'
  BY <1>4, SkewAssumption DEF Start, Words, channelVars, loopVars, Places
<1>5. ASSUME NEW w \in Workers, NextIteration(w) PROVE HintTypes'
  BY <1>5 DEF NextIteration, GoTo, channelVars, Places
<1>6. ASSUME NEW w \in Workers, Leave(w) PROVE HintTypes'
  BY <1>6 DEF Leave, Return, channelVars, Places
<1>7. ASSUME NEW w \in Workers, ReadHint(w) PROVE HintTypes'
  BY <1>7 DEF ReadHint, GoTo, Increment, Counting, Calls, CounterNames, Counters, Places
<1>8. ASSUME NEW w \in Workers, OrderMoves(w) PROVE HintTypes'
  BY <1>8 DEF OrderMoves, GoTo, Increment, Counting, Calls, CounterNames, Counters, Places
<1>9. ASSUME NEW w \in Workers, RefreshHint(w) PROVE HintTypes'
  BY <1>9 DEF RefreshHint, channelVars
<1>10. ASSUME NEW w \in Workers, NEW move \in config.moves, NEW exact \in BOOLEAN,
              Complete(w, move, exact)
       PROVE  HintTypes'
  <2>1. move \in Moves
    BY ConfigsAssumption
  <2>2. Encode(token[w], depth[w], w, move) \in Words
    BY <2>1, EncodeIsAWord
  <2>3. pending' \in [Workers -> Calls]
    BY <1>10, <2>2 DEF Complete, Publish, Publication, Calls, channelVars
  <2> QED BY <1>10, <2>1, <2>3 DEF Complete, Publish, GoTo, channelVars, Places
<1>11. ASSUME NEW w \in Workers, ReportProgress(w) PROVE HintTypes'
  BY <1>11 DEF ReportProgress, GoTo, channelVars, Places
<1>12. ASSUME NEW w \in Workers, Stay(w) PROVE HintTypes'
  BY <1>12 DEF Stay, GoTo, channelVars, Places
<1>13. ASSUME NEW w \in Workers, StartDeciding(w) PROVE HintTypes'
  BY <1>13 DEF StartDeciding, GoTo, channelVars, Places
<1>14. ASSUME NEW w \in Workers, Survey(w) PROVE HintTypes'
  BY <1>14 DEF Survey, channelVars, loopVars
<1>15. ASSUME NEW w \in Workers, FinishDeciding(w) PROVE HintTypes'
  BY <1>15 DEF FinishDeciding, GoTo, Return, channelVars, Places
<1>16. ASSUME NEW w \in Workers, Call(w) PROVE HintTypes'
  <2>1. CASE Count(w)
    BY <1>16, <2>1 DEF Call, Count, loopVars, Calls
  <2>2. CASE GiveWay(w)
    <3>1. pending[w].hint \in Words
      BY <2>2 DEF GiveWay, Calls, None
    <3> QED BY <1>16, <2>2, <3>1 DEF Call, GiveWay, loopVars, Calls
  <2>3. CASE Exchange(w)
    <3>1. pending[w].hint \in Words
      BY <2>3 DEF Exchange, Calls, None
    <3>2. pending' \in [Workers -> Calls]
      BY <2>3, <3>1 DEF Exchange, Replace, Increment, Counting, Calls, Words, CounterNames, Counters
    <3> QED BY <1>16, <2>3, <3>1, <3>2 DEF Call, Exchange, Replace, loopVars
  <2>4. CASE ExchangeFails(w)
    <3>1. pending[w] \in [call : {"publish"}, go : Nat, hint : Words, seen : Words]
      BY <2>4 DEF ExchangeFails, Calls, None
    <3>2. pending' \in [Workers -> Calls]
      BY <2>4, <3>1 DEF ExchangeFails, Calls
    <3> QED BY <1>16, <2>4, <3>2 DEF Call, ExchangeFails, loopVars
  <2> QED BY <1>16, <2>1, <2>2, <2>3, <2>4 DEF Call, ChannelStep
<1> QED
  BY <1>1, <1>2, <1>3, <1>4, <1>5, <1>6, <1>7, <1>8, <1>9, <1>10, <1>11, <1>12,
     <1>13, <1>14, <1>15, <1>16 DEF Next, LoopStep

(* Steps that leave the channel alone and start no worker.                 *)
LEMMA ChannelFrame ==
  ASSUME HintInv, HintTypes',
         UNCHANGED <<channelVars, begun, go, token>>,
         \A w \in Workers : place'[w] # "idle" => place[w] # "idle",
         IdleHere'
  PROVE  HintInv'
<1> USE DEF HintInv, channelVars
<1>1. Tokens'
  BY DEF Tokens, HasRun
<1>2. Publishing'
  BY DEF Publishing, Publishes, HasRun
<1>3. HintIsOwn' /\ BestIsRetained'
  BY DEF HintIsOwn, BestIsRetained, HasRun
<1> QED BY <1>1, <1>2, <1>3

LEMMA HintInvHolds == ASSUME HintInv, [Next]_vars PROVE HintInv'
<1>types. HintTypes'
  BY HintTypesHold DEF HintInv
<1> USE DEF HintInv
<1>1. CASE UNCHANGED vars
  <2>1. IdleHere'
    BY <1>1 DEF IdleHere, vars, channelVars, loopVars
  <2> QED BY <1>1, <2>1, <1>types, ChannelFrame DEF vars, loopVars
<1>2. CASE Begin
  <2> USE <1>2 DEF Begin, BeginGo, loopVars
  <2>1. IdleHere'
    BY DEF IdleHere
  <2>2. sequence' = sequence + 1 /\ resetting' # -1 /\ sequence \in Nat
    BY DEF Counters, HintTypes
  <2>3. ~HasRun'
    BY <2>2 DEF HasRun
  <2>4. ASSUME NEW w \in Workers, place[w] # "idle"
        PROVE  go[w] <= sequence /\ token[w] # GenerationOf(sequence + 1)
    BY <2>4 DEF MayBegin, NotHeld, Idle, Tokens
  <2>5. GenerationOf(sequence)' = GenerationOf(sequence + 1)
    BY DEF GenerationOf
  <2>6. go \in [Workers -> Nat]
    BY DEF HintTypes
  <2>7. Tokens'
    BY <2>2, <2>3, <2>4, <2>5, <2>6 DEF Tokens
  <2>8. Publishing'
    BY <2>3 DEF Publishing, Publishes
  <2> QED BY <1>types, <2>1, <2>3, <2>7, <2>8 DEF HintIsOwn, BestIsRetained
<1>3. CASE BeginStep
  <2>1. CASE ResetCounter
    <3> USE <1>3, <2>1 DEF BeginStep, ResetCounter, loopVars
    <3>1. IdleHere'
      BY DEF IdleHere
    <3>2. resetting \in Int /\ resetting # -1 /\ resetting' # -1
      BY DEF HintTypes
    <3>3. ~HasRun'
      BY <3>2 DEF HasRun
    <3>4. GenerationOf(sequence)' = GenerationOf(sequence)
      BY DEF GenerationOf
    <3>5. Tokens'
      BY <3>2, <3>3, <3>4 DEF Tokens
    <3>6. Publishing'
      BY <3>3 DEF Publishing, Publishes
    <3> QED BY <1>types, <3>1, <3>3, <3>5, <3>6 DEF HintIsOwn, BestIsRetained
  <2>2. CASE ResetSlot
    <3> USE <1>3, <2>2 DEF BeginStep, ResetSlot, loopVars
    <3>1. IdleHere'
      BY DEF IdleHere
    <3>2. GenerationOf(sequence)' = GenerationOf(sequence)
      BY DEF GenerationOf
    <3>3. slot'.generation = GenerationOf(sequence) /\ slot'.move = 0 /\ settled' = {}
      BY DEF Empty
    <3>4. \A w \in Workers : place[w] # "idle" => go[w] # sequence
      BY DEF Tokens
    <3>5. Tokens'
      BY <3>2, <3>3, <3>4 DEF Tokens
    <3>6. \A w \in Workers : pending[w].call = "publish" => place[w] # "idle"
      BY DEF IdleHere, None
    <3>7. Publishing'
      BY <3>4, <3>6 DEF Publishing, Publishes
    <3> QED BY <1>types, <3>1, <3>3, <3>5, <3>7 DEF HintIsOwn, BestIsRetained
  <2> QED BY <1>3, <2>1, <2>2 DEF BeginStep
<1>4. ASSUME NEW w \in Workers, Start(w) PROVE HintInv'
  <2> USE <1>4 DEF Start, channelVars
  <2>1. CASE ~Idle(w)
    <3>1. UNCHANGED <<channelVars, loopVars>>
      BY <2>1
    <3>2. IdleHere' /\ Publishing' /\ HintIsOwn' /\ BestIsRetained'
      BY <3>1 DEF IdleHere, Publishing, Publishes, HintIsOwn, BestIsRetained, HasRun, loopVars
    <3>3. sequence # 0
      BY DEF Tokens
    <3>4. Tokens'
      BY <3>1, <3>3 DEF Tokens, HasRun, GenerationOf, loopVars
    <3> QED BY <1>types, <3>2, <3>4
  <2>2. CASE Idle(w)
    <3>1. UNCHANGED channelVars /\ resetting = -1 /\ pending[w] = None
            /\ place' = [place EXCEPT ![w] = "between"]
            /\ go' = [go EXCEPT ![w] = sequence]
            /\ token' = [token EXCEPT ![w] = slot.generation]
      BY <2>2 DEF Idle
    <3>2. sequence > 0 /\ sequence \in Nat
      BY DEF Tokens, HintTypes
    <3>3. HasRun /\ HasRun' /\ slot.generation = GenerationOf(sequence)
      BY <3>1, <3>2 DEF HasRun, Tokens
    <3>4. IdleHere'
      BY <3>1 DEF IdleHere, HintTypes
    <3>5. GenerationOf(sequence)' = GenerationOf(sequence)
      BY <3>1 DEF GenerationOf
    <3>6. Tokens'
      BY <3>1, <3>2, <3>3, <3>5 DEF Tokens, HintTypes
    <3>7. Publishing'
      <4> SUFFICES ASSUME NEW v \in Workers, pending'[v].call = "publish"
                   PROVE  Publishes(v)'
        BY DEF Publishing
      <4>1. v # w
        BY <3>1 DEF None
      <4>2. Publishes(v)
        BY <3>1 DEF Publishing
      <4> QED BY <3>1, <3>3, <3>5, <4>1, <4>2 DEF Publishes, HintTypes
    <3>8. HintIsOwn' /\ BestIsRetained'
      BY <3>1, <3>3 DEF HintIsOwn, BestIsRetained
    <3> QED BY <1>types, <3>4, <3>6, <3>7, <3>8
  <2> QED BY <2>1, <2>2
<1>5. ASSUME NEW w \in Workers,
             NextIteration(w) \/ Leave(w) \/ RefreshHint(w) \/ ReportProgress(w)
               \/ Stay(w) \/ StartDeciding(w) \/ Survey(w) \/ FinishDeciding(w)
      PROVE  HintInv'
  <2> USE <1>5 DEF NextIteration, Leave, RefreshHint, ReportProgress, Stay, StartDeciding,
                    Survey, FinishDeciding, GoTo, Return, loopVars
  <2>1. UNCHANGED <<channelVars, begun, go, token>>
    OBVIOUS
  <2>2. \A v \in Workers : place'[v] # "idle" => place[v] # "idle"
    BY DEF HintTypes
  <2>3. \A v \in Workers :
          place'[v] \in {"idle", "reported", "deciding"} => pending[v] = None
    BY DEF HintTypes, IdleHere
  <2>4. IdleHere'
    BY <2>1, <2>3 DEF IdleHere, channelVars
  <2> QED BY <1>types, <2>1, <2>2, <2>4, ChannelFrame
<1>6. ASSUME NEW w \in Workers, ReadHint(w) \/ OrderMoves(w) PROVE HintInv'
  <2> USE <1>6 DEF ReadHint, OrderMoves, GoTo
  <2>1. UNCHANGED <<sequence, resetting, slot, offered, settled, begun, go, token>>
    OBVIOUS
  <2>2. place' \in [Workers -> Places] /\ place[w] # "idle"
          /\ place'[w] \in {"ordering", "searching"}
          /\ \A v \in Workers : v # w => place'[v] = place[v]
    BY <1>types DEF HintTypes
  <2>3. pending'[w] = pending[w] \/ pending'[w].call = "count"
    BY DEF Increment, Counting, HintTypes
  <2>4. \A v \in Workers : v # w => pending'[v] = pending[v]
    BY DEF Increment, Counting, HintTypes
  <2>5. IdleHere'
    BY <2>2, <2>4 DEF IdleHere
  <2>6. Tokens'
    BY <2>1, <2>2 DEF Tokens, HasRun, GenerationOf
  <2>7. Publishing'
    BY <2>1, <2>3, <2>4 DEF Publishing, Publishes, HasRun, GenerationOf
  <2> QED BY <1>types, <2>1, <2>5, <2>6, <2>7 DEF HintIsOwn, BestIsRetained, HasRun
<1>7. ASSUME NEW w \in Workers, NEW move \in config.moves, NEW exact \in BOOLEAN,
             Complete(w, move, exact)
      PROVE  HintInv'
  <2> USE <1>7 DEF Complete, GoTo
  <2>1. UNCHANGED <<sequence, resetting, slot, settled, begun, go, token>>
    BY DEF channelVars, Publish
  <2>2. place[w] # "idle" /\ place'[w] \in {"completing", "between"}
          /\ \A v \in Workers : v # w => place'[v] = place[v]
    BY DEF HintTypes
  <2>3. \A v \in Workers : v # w => pending'[v] = pending[v]
    BY DEF channelVars, Publish, HintTypes
  <2>4. IdleHere'
    BY <2>2, <2>3 DEF IdleHere
  <2>5. Tokens'
    BY <2>1, <2>2 DEF Tokens, HasRun, GenerationOf
  <2>6. Publishing' /\ HintIsOwn'
    <3>1. CASE UNCHANGED channelVars
      BY <3>1, <2>1 DEF channelVars, Publishing, Publishes, HintIsOwn, HasRun, GenerationOf
    <3>2. CASE Publish(w, go[w], token[w], depth[w], move)
      <4>1. move \in Moves /\ token[w] \in Nat /\ depth[w] \in Nat
        BY ConfigsAssumption DEF HintTypes
      <4> DEFINE new == Encode(token[w], depth[w], w, move)
      <4>2. new \in Words /\ new.generation = token[w] /\ new.move # 0
        BY <4>1, EncodeIsAWord
      <4>3. pending'[w] = Publication(go[w], new, slot)
              /\ offered' = IF go[w] = sequence THEN offered \cup {new} ELSE offered
        BY <3>2 DEF Publish, HintTypes
      <4> HIDE DEF new
      <4>4. HintIsOwn'
        BY <2>1, <4>3 DEF HintIsOwn, HasRun
      <4>5. ASSUME NEW v \in Workers, v # w, pending'[v].call = "publish"
            PROVE  Publishes(v)'
        BY <2>1, <2>3, <4>3, <4>5 DEF Publishing, Publishes, HasRun, GenerationOf
      <4>6. Publishes(w)'
        <5>1. pending'[w].go = go[w] /\ pending'[w].hint = new /\ pending'[w].seen = slot
          BY <4>3 DEF Publication
        <5>2. slot \in Words
          BY DEF HintTypes
        <5>3. ~Beats(slot, slot)
          BY <5>2, BeatsIsAsymmetric
        <5>4. HasRun' = HasRun /\ GenerationOf(sequence)' = GenerationOf(sequence)
          BY <2>1 DEF HasRun, GenerationOf
        <5>5. Beats(pending[w].seen, slot)' = Beats(slot, slot)
          BY <5>1, <2>1 DEF Beats
        <5>6. HasRun => slot.generation = GenerationOf(sequence)
          BY DEF Tokens
        <5> QED BY <5>1, <5>3, <5>4, <5>5, <5>6, <4>2, <4>3, <2>1 DEF Publishes
      <4> QED BY <4>4, <4>5, <4>6 DEF Publishing
    <3> QED BY <3>1, <3>2
  <2> QED BY <1>types, <2>1, <2>4, <2>5, <2>6 DEF BestIsRetained, HasRun
<1>8. ASSUME NEW w \in Workers, Call(w) PROVE HintInv'
  <2> USE <1>8 DEF Call, loopVars
  <2>1. UNCHANGED <<sequence, resetting, offered, begun, go, token, place>>
    BY DEF ChannelStep, Count, GiveWay, Exchange, Replace, ExchangeFails
  <2>2. pending[w].call \in {"count", "publish"}
    BY DEF ChannelStep, Count, GiveWay, Exchange, Replace, ExchangeFails
  <2>3. \A v \in Workers : v # w => pending'[v] = pending[v]
    BY DEF ChannelStep, Count, GiveWay, Exchange, Replace, ExchangeFails, Increment, HintTypes
  <2>4. place[w] \notin {"idle", "reported", "deciding"}
    BY <2>2 DEF IdleHere, None
  <2>5. IdleHere'
    BY <2>1, <2>3, <2>4 DEF IdleHere
  <2>6. HasRun' = HasRun /\ GenerationOf(sequence)' = GenerationOf(sequence)
    BY <2>1 DEF HasRun, GenerationOf
  <2>7. CASE Count(w)
    <3>1. UNCHANGED <<slot, settled>> /\ pending'[w] = None
      BY <2>7 DEF Count, HintTypes
    <3>2. Tokens' /\ HintIsOwn' /\ BestIsRetained'
      BY <3>1, <2>1, <2>6 DEF Tokens, HintIsOwn, BestIsRetained
    <3>3. Publishing'
      BY <3>1, <2>1, <2>3, <2>6 DEF Publishing, Publishes, None
    <3> QED BY <1>types, <2>5, <3>2, <3>3
  <2>8. CASE GiveWay(w)
    <3> DEFINE p == pending[w]
    <3>1. UNCHANGED slot /\ pending'[w] = None /\ Publishes(w)
            /\ settled' = (IF p.go = sequence THEN settled \cup {p.hint} ELSE settled)
            /\ Yields(p.hint, p.seen)
      BY <2>8 DEF GiveWay, HintTypes, Publishing
    <3>2. Tokens' /\ HintIsOwn'
      BY <3>1, <2>1, <2>6 DEF Tokens, HintIsOwn
    <3>3. Publishing'
      BY <3>1, <2>1, <2>3, <2>6 DEF Publishing, Publishes, None
    <3>4. ASSUME HasRun, p.go = sequence
          PROVE  slot.move # 0 /\ ~Beats(p.hint, slot)
      <4>1. go[w] = sequence /\ token[w] = GenerationOf(sequence)
        BY <3>1, <3>4, <2>4 DEF Publishes, Tokens
      <4>2. p.seen.move # 0 /\ ~Beats(p.hint, p.seen) /\ slot.move # 0 /\ ~Beats(p.seen, slot)
        BY <3>1, <3>4, <4>1 DEF Publishes, Yields
      <4>3. p \in [call : {"publish"}, go : Nat, hint : Words, seen : Words]
        BY <2>8 DEF GiveWay, HintTypes, Calls, None
      <4>4. p.hint \in Words /\ p.seen \in Words /\ slot \in Words
        BY <4>3 DEF HintTypes
      <4> QED BY <4>2, <4>4, BeatsIsAnOrder
    <3>5. BestIsRetained'
      BY <3>1, <3>4, <2>6 DEF BestIsRetained
    <3> QED BY <1>types, <2>5, <3>2, <3>3, <3>5
  <2>9. CASE Exchange(w)
    <3> DEFINE p == pending[w]
    <3>1. pending'[w] = Counting("publications", p.hint.generation) /\ Publishes(w)
            /\ settled' = (IF p.go = sequence THEN settled \cup {p.hint} ELSE settled)
            /\ ~Yields(p.hint, p.seen) /\ slot = p.seen /\ slot' = p.hint
      BY <2>9 DEF Exchange, Replace, Increment, HintTypes, Publishing
    <3>2. p \in [call : {"publish"}, go : Nat, hint : Words, seen : Words]
      BY <2>9 DEF Exchange, HintTypes, Calls, None
    <3>3. p.hint \in Words /\ p.seen \in Words /\ slot \in Words /\ settled \subseteq Words
      BY <3>2 DEF HintTypes
    <3>4. p.hint.generation = slot.generation /\ p.hint.move # 0
            /\ (slot.move = 0 \/ Beats(p.hint, slot))
      BY <3>1 DEF Yields, Publishes
    <3>5. HasRun => go[w] = sequence
      BY <3>1, <3>4, <2>4 DEF Publishes, Tokens
    <3>6. HintIsOwn'
      BY <3>1, <3>5, <2>1, <2>6 DEF HintIsOwn, Publishes
    <3>7. Tokens'
      BY <3>1, <3>4, <2>1, <2>6 DEF Tokens
    <3>8. ASSUME NEW b \in Words, slot.move # 0, ~Beats(b, slot)
          PROVE  ~Beats(b, p.hint)
      <4>1. Beats(p.hint, slot)
        BY <3>4, <3>8
      <4>2. ~Beats(slot, p.hint)
        BY <3>3, <4>1, BeatsIsAsymmetric
      <4> QED BY <3>3, <3>8, <4>2, BeatsIsAnOrder
    <3>9. BestIsRetained'
      <4> SUFFICES ASSUME HasRun, NEW b \in settled'
                   PROVE  slot'.move # 0 /\ ~Beats(b, p.hint)
        BY <2>6, <3>1 DEF BestIsRetained, Beats
      <4>1. CASE b \in settled
        <5>1. slot.move # 0 /\ ~Beats(b, slot) /\ b \in Words
          BY <4>1, <3>3 DEF BestIsRetained
        <5> QED BY <5>1, <3>8, <3>4, <3>1
      <4>2. CASE b = p.hint
        BY <4>2, <3>1, <3>3, <3>4, BeatsIsAsymmetric
      <4> QED BY <4>1, <4>2, <3>1
    <3>10. Publishing'
      <4> SUFFICES ASSUME NEW v \in Workers, pending'[v].call = "publish"
                   PROVE  Publishes(v)'
        BY DEF Publishing
      <4>1. v # w
        BY <3>1 DEF Counting
      <4>2. Publishes(v) /\ pending'[v] = pending[v] /\ pending[v].call = "publish"
        BY <4>1, <2>3 DEF Publishing
      <4>3. pending[v].seen \in Words
        BY <4>2 DEF HintTypes, Calls, None
      <4>4. ASSUME slot.move # 0, ~Beats(pending[v].seen, slot)
            PROVE  ~Beats(pending[v].seen, p.hint)
        BY <3>8, <4>3, <4>4
      <4>5. ASSUME HasRun', go'[v] = sequence', pending[v].seen.move # 0
            PROVE  slot'.move # 0 /\ ~Beats(pending'[v].seen, slot')
        BY <4>2, <4>4, <4>5, <3>1, <3>4, <2>1, <2>6 DEF Publishes
      <4> QED BY <4>2, <4>5, <2>1, <2>6 DEF Publishes, Beats
    <3> QED BY <1>types, <2>5, <3>6, <3>7, <3>9, <3>10
  <2>10. CASE ExchangeFails(w)
    <3>1. pending[w].call = "publish" /\ Publishes(w) /\ ~Yields(pending[w].hint, pending[w].seen)
            /\ UNCHANGED <<slot, settled>>
            /\ pending' = [pending EXCEPT ![w].seen = slot]
      BY <2>10 DEF ExchangeFails, Publishing
    <3>2. pending[w] \in [call : {"publish"}, go : Nat, hint : Words, seen : Words]
      BY <3>1 DEF HintTypes, Calls, None
    <3>3. pending'[w].go = pending[w].go /\ pending'[w].hint = pending[w].hint
            /\ pending'[w].seen = slot
      BY <3>1, <3>2 DEF HintTypes
    <3>4. ~Beats(slot, slot)
      BY BeatsIsAsymmetric DEF HintTypes
    <3>5. Tokens' /\ HintIsOwn' /\ BestIsRetained'
      BY <3>1, <2>1, <2>6 DEF Tokens, HintIsOwn, BestIsRetained
    <3>6. HasRun => slot.generation = GenerationOf(sequence)
      BY DEF Tokens
    <3>7. Publishes(w)'
      <4>1. Beats(pending[w].seen, slot)' = Beats(slot, slot)
        BY <3>1, <3>3 DEF Beats
      <4> QED BY <3>1, <3>3, <3>4, <3>6, <4>1, <2>1, <2>6 DEF Publishes
    <3>8. ASSUME NEW v \in Workers, v # w, pending'[v].call = "publish"
          PROVE  Publishes(v)'
      BY <3>1, <3>8, <2>1, <2>3, <2>6 DEF Publishing, Publishes, Beats
    <3>9. Publishing'
      BY <3>7, <3>8 DEF Publishing
    <3> QED BY <1>types, <2>5, <3>5, <3>9
  <2> QED BY <2>7, <2>8, <2>9, <2>10 DEF ChannelStep
<1> QED
  BY <1>1, <1>2, <1>3, <1>4, <1>5, <1>6, <1>7, <1>8 DEF Next, LoopStep

LEMMA HintInvInitially == Init => HintInv
<1> SUFFICES ASSUME Init PROVE HintInv
  OBVIOUS
<1> USE DEF Init, ChannelInit
<1>1. HintTypes
  BY WorkersAssumption DEF HintTypes, Empty, Words, Calls, Places
<1>2. IdleHere
  BY DEF IdleHere
<1>3. Tokens
  BY DEF Tokens, HasRun
<1>4. Publishing
  BY DEF Publishing, None
<1> QED BY <1>1, <1>2, <1>3, <1>4 DEF HintInv, HintIsOwn, BestIsRetained, HasRun

(* No publication delayed from an earlier invocation repopulates the slot. *)
THEOREM LateHintsAreRefused == Spec => []HintIsOwn
<1>1. HintInv => HintIsOwn
  BY DEF HintInv
<1> QED BY <1>1, HintInvInitially, HintInvHolds, PTL DEF Spec

(* What the slot retains does not depend on the schedule of the helpers.   *)
THEOREM BestHintIsRetained == Spec => []BestIsRetained
<1>1. HintInv => BestIsRetained
  BY DEF HintInv
<1> QED BY <1>1, HintInvInitially, HintInvHolds, PTL DEF Spec
-----------------------------------------------------------------------------
(* Who counts what, and what the main worker does with the hints it reads: *)
(* while begin_go resets the counters nobody counts for the new invocation *)
(* (NobodyCounts), so every exchange counted is one of it (Tally).         *)

(* Only the main worker reads hints, and whoever counts does it with its   *)
(* own token.                                                              *)
Calling ==
  \A w \in Workers :
    /\ place[w] \in {"reading", "ordering"} => w = 0
    /\ place[w] = "reading" => pending[w] = None
    /\ pending[w].call = "count" =>
         /\ pending[w].generation = token[w]
         /\ w # 0 => pending[w].name = "publications"
         /\ place[w] = "ordering" => pending[w].name # "applied"

(* The hint of a root search is the main worker's own.                     *)
OwnHint ==
  hint # NoHint =>
    /\ place[0] \in {"ordering", "searching"}
    /\ hint.generation = token[0]
    /\ hint.depth >= depth[0]
    /\ HasRun /\ go[0] = sequence => hint \in offered

Current == GenerationOf(sequence)

(* begin_go: the counters it has reset stay so until it is over.           *)
Cleared ==
  sequence > 0 =>
    \A i \in 1 .. Len(Counters) - resetting : i <= Len(Counters) =>
      /\ counter[Counters[i]].generation = Current
      /\ resetting # -1 => counter[Counters[i]].count = 0

(* The exchanges that are yet to be counted.                               *)
Due == {w \in Workers : pending[w] = Counting("publications", Current)}

Tally ==
  HasRun =>
    /\ Cardinality(Due) <= changes
    /\ counter["publications"].count =
         IF changes - Cardinality(Due) < COUNT_MASK THEN changes - Cardinality(Due)
                                                    ELSE COUNT_MASK

(* One more hint may be counted as applied.                                *)
Room ==
  \/ counter["applied"].count < counter["eligible_reads"].count
  \/ counter["eligible_reads"].count = COUNT_MASK

Applying ==
  HasRun =>
    /\ counter["applied"].count <= counter["eligible_reads"].count
    /\ pending[0] = Counting("applied", Current) => Room
    /\ place[0] = "ordering" /\ hint # NoHint /\ token[0] = Current =>
         pending[0] = Counting("eligible_reads", Current) \/ Room

CounterTypes ==
  /\ hint \in Words
  /\ resetting \in -1 .. Len(Counters)
  /\ changes \in Nat
  /\ counter \in [CounterNames -> [generation : Nat, count : 0 .. COUNT_MASK]]

LEMMA CallKinds ==
  \A c \in Calls :
    /\ c.call = "count" =>
         c = Counting(c.name, c.generation) /\ c.name \in CounterNames /\ c.generation \in Nat
    /\ c.call # "count" => \A name, g : c # Counting(name, g)
BY DEF Calls, None, Counting

LEMMA CallingHolds == ASSUME HintInv, Calling, [Next]_vars PROVE Calling'
<1> USE DEF Calling, HintInv, HintTypes, IdleHere
<1>1. CASE UNCHANGED vars
  BY <1>1 DEF vars, channelVars, loopVars
<1>2. CASE Begin
  BY <1>2 DEF Begin, BeginGo, Reset, loopVars
<1>3. CASE BeginStep
  BY <1>3 DEF BeginStep, ResetCounter, ResetSlot, loopVars
<1>4. ASSUME NEW w \in Workers, Start(w) PROVE Calling'
  BY <1>4 DEF Start, Idle, channelVars, loopVars, None
<1>5. ASSUME NEW w \in Workers, NextIteration(w) PROVE Calling'
  BY <1>5 DEF NextIteration, GoTo, channelVars
<1>6. ASSUME NEW w \in Workers, Leave(w) PROVE Calling'
  BY <1>6 DEF Leave, Return, channelVars
<1>7. ASSUME NEW w \in Workers, ReadHint(w) PROVE Calling'
  <2>1. w = 0 /\ pending[w] = None
    BY <1>7 DEF ReadHint
  <2>2. \/ pending' = pending
        \/ \E name \in {"eligible_reads", "stale_reads"} :
             pending' = [pending EXCEPT ![w] = Counting(name, token[w])]
    BY <1>7 DEF ReadHint, Increment
  <2>3. /\ token' = token /\ \A v \in Workers \ {w} : place'[v] = place[v]
        /\ place'[w] = "ordering"
    BY <1>7 DEF ReadHint, GoTo
  <2>4. pending'[w].call = "count" =>
          pending'[w].generation = token[w] /\ pending'[w].name # "applied"
    BY <2>1, <2>2 DEF Counting, None
  <2>5. \A v \in Workers \ {w} : pending'[v] = pending[v]
    BY <2>2
  <2>6. QED
    BY <2>1, <2>3, <2>4, <2>5
<1>8. ASSUME NEW w \in Workers, OrderMoves(w) PROVE Calling'
  BY <1>8 DEF OrderMoves, GoTo, Increment, Counting
<1>9. ASSUME NEW w \in Workers, RefreshHint(w) PROVE Calling'
  BY <1>9 DEF RefreshHint, channelVars
<1>10. ASSUME NEW w \in Workers, NEW move \in config.moves, NEW exact \in BOOLEAN,
              Complete(w, move, exact)
       PROVE  Calling'
  BY <1>10 DEF Complete, GoTo, Publish, Publication, channelVars
<1>11. ASSUME NEW w \in Workers, ReportProgress(w) \/ Stay(w) \/ StartDeciding(w)
       PROVE  Calling'
  BY <1>11 DEF ReportProgress, Stay, StartDeciding, GoTo, channelVars
<1>12. ASSUME NEW w \in Workers, Survey(w) PROVE Calling'
  BY <1>12 DEF Survey, channelVars, loopVars
<1>13. ASSUME NEW w \in Workers, FinishDeciding(w) PROVE Calling'
  BY <1>13 DEF FinishDeciding, GoTo, Return, channelVars
<1>14. ASSUME NEW w \in Workers, Count(w) \/ GiveWay(w) \/ ExchangeFails(w),
              UNCHANGED loopVars
       PROVE  Calling'
  <2>1. CASE Count(w) \/ GiveWay(w)
    <3>1. pending' = [pending EXCEPT ![w] = None] /\ None.call # "count"
      BY <2>1 DEF Count, GiveWay, None
    <3>2. QED
      BY <1>14, <3>1 DEF loopVars
  <2>2. CASE ExchangeFails(w)
    <3>1. pending' = [pending EXCEPT ![w].seen = slot] /\ pending[w].call = "publish"
      BY <2>2 DEF ExchangeFails
    <3>2. pending'[w].call = "publish" /\ \A v \in Workers \ {w} : pending'[v] = pending[v]
      BY <3>1
    <3>3. place[w] # "reading"
      BY <3>1 DEF None
    <3>4. QED
      BY <1>14, <3>2, <3>3 DEF loopVars
  <2>3. QED
    BY <1>14, <2>1, <2>2
<1>15. ASSUME NEW w \in Workers, Exchange(w), UNCHANGED loopVars PROVE Calling'
  BY <1>15 DEF Exchange, Replace, Increment, Counting, Publishing, Publishes, loopVars, None
<1> QED
  BY <1>1, <1>2, <1>3, <1>4, <1>5, <1>6, <1>7, <1>8, <1>9, <1>10, <1>11, <1>12, <1>13,
     <1>14, <1>15 DEF Next, LoopStep, Call, ChannelStep

LEMMA CounterTypesHold ==
  ASSUME HintInv, CounterTypes, [Next]_vars PROVE CounterTypes'
<1> USE DEF CounterTypes, HintInv, HintTypes
<1>1. CASE UNCHANGED vars
  BY <1>1 DEF vars, channelVars, loopVars
<1>2. CASE Begin
  BY <1>2 DEF Begin, BeginGo, Reset, loopVars, Counters
<1>3. CASE BeginStep /\ ResetCounter
  <2>1. GenerationOf(sequence) \in Nat
    BY GenerationIsNatural
  <2>2. [generation |-> GenerationOf(sequence), count |-> 0]
          \in [generation : Nat, count : 0 .. COUNT_MASK]
    BY <2>1, MasksAssumption
  <2>3. resetting' \in -1 .. Len(Counters)
    BY <1>3 DEF ResetCounter, Counters
  <2>4. counter' \in [CounterNames -> [generation : Nat, count : 0 .. COUNT_MASK]]
    BY <1>3, <2>2 DEF ResetCounter
  <2>5. QED
    BY <1>3, <2>3, <2>4 DEF BeginStep, ResetCounter, loopVars
<1>4. CASE BeginStep /\ ResetSlot
  BY <1>4 DEF BeginStep, ResetSlot, loopVars, Counters
<1>5. ASSUME NEW w \in Workers, Start(w) \/ Survey(w) PROVE CounterTypes'
  BY <1>5 DEF Start, Survey, channelVars, loopVars
<1>6. ASSUME NEW w \in Workers, Leave(w) \/ FinishDeciding(w) PROVE CounterTypes'
  <2>1. NoHint \in Words
    BY DEF NoHint, Empty, Words
  <2>2. QED
    BY <1>6, <2>1 DEF Leave, FinishDeciding, Return, channelVars
<1>7. ASSUME NEW w \in Workers, ReadHint(w) PROVE CounterTypes'
  <2>1. NoHint \in Words
    BY DEF NoHint, Empty, Words
  <2>2. QED
    BY <1>7, <2>1 DEF ReadHint
<1>8. ASSUME NEW w \in Workers,
             NextIteration(w) \/ OrderMoves(w) \/ RefreshHint(w)
               \/ ReportProgress(w) \/ Stay(w) \/ StartDeciding(w)
      PROVE CounterTypes'
  BY <1>8 DEF NextIteration, OrderMoves, RefreshHint, ReportProgress, Stay, StartDeciding,
              channelVars
<1>9. ASSUME NEW w \in Workers, NEW move \in config.moves, NEW exact \in BOOLEAN,
             Complete(w, move, exact)
      PROVE  CounterTypes'
  <2>1. NoHint \in Words
    BY DEF NoHint, Empty, Words
  <2>2. QED
    BY <1>9, <2>1 DEF Complete, Publish, channelVars
<1>10. ASSUME NEW w \in Workers, Count(w), UNCHANGED loopVars PROVE CounterTypes'
  <2>1. pending[w].name \in CounterNames
    BY <1>10, CallKinds DEF Count
  <2>2. \A n \in 0 .. COUNT_MASK : (IF n < COUNT_MASK THEN n + 1 ELSE n) \in 0 .. COUNT_MASK
    BY MasksAssumption
  <2>3. counter' \in [CounterNames -> [generation : Nat, count : 0 .. COUNT_MASK]]
    BY <1>10, <2>1, <2>2 DEF Count, Updated
  <2>4. QED
    BY <1>10, <2>3 DEF Count, loopVars
<1>11. ASSUME NEW w \in Workers, GiveWay(w) \/ Exchange(w) \/ ExchangeFails(w),
              UNCHANGED loopVars
       PROVE  CounterTypes'
  BY <1>11 DEF GiveWay, Exchange, Replace, ExchangeFails, loopVars
<1> QED
  BY <1>1, <1>2, <1>3, <1>4, <1>5, <1>6, <1>7, <1>8, <1>9, <1>10, <1>11
  DEF Next, BeginStep, LoopStep, Call, ChannelStep

LEMMA OwnHintHolds ==
  ASSUME HintInv, Calling, CounterTypes, OwnHint, [Next]_vars PROVE OwnHint'
<1> USE DEF OwnHint, HintInv, HintTypes, CounterTypes, HasRun
<1>0. 0 \in Workers
  BY WorkersAssumption
<1>1. CASE UNCHANGED vars
  BY <1>1 DEF vars, channelVars, loopVars
<1>2. CASE Begin
  BY <1>2 DEF Begin, BeginGo, Reset, loopVars, Counters
<1>3. CASE BeginStep /\ ResetCounter
  BY <1>3 DEF BeginStep, ResetCounter, loopVars
<1>4. CASE BeginStep /\ ResetSlot
  BY <1>0, <1>4 DEF BeginStep, ResetSlot, loopVars, Tokens
<1>5. ASSUME NEW w \in Workers, Start(w) PROVE OwnHint'
  BY <1>0, <1>5 DEF Start, Idle, channelVars, loopVars
<1>6. ASSUME NEW w \in Workers, NextIteration(w) PROVE OwnHint'
  BY <1>0, <1>6 DEF NextIteration, GoTo, channelVars
<1>7. ASSUME NEW w \in Workers, Leave(w) PROVE OwnHint'
  BY <1>0, <1>7 DEF Leave, Return, channelVars
<1>8. ASSUME NEW w \in Workers, ReadHint(w) PROVE OwnHint'
  <2>1. w = 0
    BY <1>8 DEF ReadHint, Calling
  <2>2. CASE Eligible(token[0], depth[0])
    BY <1>0, <1>8, <2>1, <2>2 DEF ReadHint, GoTo, Eligible, HintIsOwn
  <2>3. CASE ~Eligible(token[0], depth[0])
    BY <1>0, <1>8, <2>1, <2>3 DEF ReadHint
  <2>4. QED
    BY <2>2, <2>3
<1>9. ASSUME NEW w \in Workers, OrderMoves(w) PROVE OwnHint'
  BY <1>0, <1>9 DEF OrderMoves, GoTo
<1>10. ASSUME NEW w \in Workers, RefreshHint(w) PROVE OwnHint'
  BY <1>0, <1>10 DEF RefreshHint, channelVars, Eligible, HintIsOwn
<1>11. ASSUME NEW w \in Workers, NEW move \in config.moves, NEW exact \in BOOLEAN,
              Complete(w, move, exact)
       PROVE  OwnHint'
  BY <1>0, <1>11 DEF Complete, GoTo, Publish, channelVars
<1>12. ASSUME NEW w \in Workers, ReportProgress(w) \/ Stay(w) \/ StartDeciding(w)
       PROVE  OwnHint'
  BY <1>0, <1>12 DEF ReportProgress, Stay, StartDeciding, GoTo, channelVars
<1>13. ASSUME NEW w \in Workers, Survey(w) PROVE OwnHint'
  BY <1>13 DEF Survey, channelVars, loopVars
<1>14. ASSUME NEW w \in Workers, FinishDeciding(w) PROVE OwnHint'
  BY <1>0, <1>14 DEF FinishDeciding, GoTo, Return, channelVars
<1>15. ASSUME NEW w \in Workers, ChannelStep(w), UNCHANGED loopVars PROVE OwnHint'
  BY <1>15 DEF ChannelStep, Count, GiveWay, Exchange, Replace, ExchangeFails, loopVars
<1> QED
  BY <1>1, <1>2, <1>3, <1>4, <1>5, <1>6, <1>7, <1>8, <1>9, <1>10, <1>11, <1>12, <1>13,
     <1>14, <1>15 DEF Next, BeginStep, LoopStep, Call

(* While the counters are reset nobody counts for the new invocation.      *)
LEMMA NobodyCounts ==
  ASSUME HintInv, Calling, sequence > 0, resetting # -1,
         NEW w \in Workers, pending[w].call = "count"
  PROVE  pending[w].generation # Current
BY DEF HintInv, IdleHere, Tokens, Calling, None, Current

LEMMA ClearedHolds ==
  ASSUME HintInv, Calling, CounterTypes, Cleared, [Next]_vars PROVE Cleared'
<1> USE DEF Cleared, HintInv, HintTypes, CounterTypes, Current
<1>1. CASE UNCHANGED <<sequence, resetting, counter>>
  BY <1>1
<1>2. CASE Begin
  BY <1>2 DEF Begin, BeginGo, Counters
<1>3. CASE ResetCounter
  <2> DEFINE c == Counters[Len(Counters) + 1 - resetting]
  <2>1. /\ resetting' = resetting - 1 /\ resetting \in 1 .. 4 /\ sequence' = sequence
        /\ counter' = [counter EXCEPT ![c] = [generation |-> GenerationOf(sequence), count |-> 0]]
    BY <1>3 DEF ResetCounter, Counters
  <2>2. c \in CounterNames /\ Len(Counters) = 4
    BY <2>1 DEF CounterNames, Counters
  <2> SUFFICES ASSUME sequence > 0, NEW i \in 1 .. 4, i <= 4 - resetting'
               PROVE  /\ counter'[Counters[i]].generation = Current
                      /\ counter'[Counters[i]].count = 0
    BY <2>1, <2>2
  <2>3. CASE i = 5 - resetting
    BY <2>1, <2>2, <2>3
  <2>4. CASE i # 5 - resetting
    <3>1. Counters[i] # c /\ Counters[i] \in CounterNames
      BY <2>1, <2>4 DEF Counters, CounterNames
    <3>2. i \in 1 .. Len(Counters) - resetting
      BY <2>1, <2>2, <2>4
    <3>3. counter'[Counters[i]] = counter[Counters[i]]
      BY <2>1, <3>1
    <3>4. QED
      BY <2>1, <2>2, <3>2, <3>3
  <2> QED
    BY <2>3, <2>4
<1>4. CASE ResetSlot
  BY <1>4 DEF ResetSlot, Counters
<1>5. ASSUME NEW w \in Workers, Count(w) PROVE Cleared'
  <2> DEFINE name == pending[w].name
  <2>1. name \in CounterNames
    BY <1>5, CallKinds DEF Count
  <2>2. \A c \in CounterNames : counter'[c].generation = counter[c].generation
    BY <1>5, <2>1 DEF Count, Updated
  <2>3. ASSUME sequence > 0, resetting # -1, NEW i \in 1 .. Len(Counters) - resetting,
               i <= Len(Counters)
        PROVE  counter'[Counters[i]].count = 0
    <3>1. pending[w].generation # Current
      BY <1>5, <2>3, NobodyCounts DEF Count
    <3>2. Counters[i] \in CounterNames /\ counter[Counters[i]].count = 0
            /\ counter[Counters[i]].generation = Current
      BY <2>3 DEF CounterNames, Counters
    <3>3. CASE Counters[i] = name
      BY <1>5, <3>1, <3>2, <3>3 DEF Count, Updated
    <3>4. CASE Counters[i] # name
      BY <1>5, <2>1, <3>2, <3>4 DEF Count, Updated
    <3>5. QED
      BY <3>3, <3>4
  <2>4. \A i \in 1 .. Len(Counters) : Counters[i] \in CounterNames
    BY DEF CounterNames, Counters
  <2>5. QED
    BY <1>5, <2>2, <2>3, <2>4 DEF Count
<1>6. ASSUME NEW w \in Workers, Start(w) \/ LoopStep(w), ~Count(w) PROVE Cleared'
  <2>1. UNCHANGED <<sequence, resetting, counter>>
    BY <1>6 DEF Start, LoopStep, NextIteration, Leave, ReadHint, OrderMoves, RefreshHint,
                Complete, Publish, ReportProgress, Stay, StartDeciding, Survey,
                FinishDeciding, Call, ChannelStep, GiveWay, Exchange, Replace,
                ExchangeFails, channelVars
  <2>2. QED
    BY <1>1, <2>1
<1> QED
  BY <1>1, <1>2, <1>3, <1>4, <1>5, <1>6 DEF Next, BeginStep, vars, channelVars

LEMMA WorkersAreFinite == IsFiniteSet(Workers)
<1>1. NumWorkers - 1 \in Int
  BY NumWorkersAssumption
<1>2. IsFiniteSet(0 .. NumWorkers - 1)
  BY <1>1, FS_Interval
<1>3. QED
  BY <1>2, IndicesAssumption DEF Indices

LEMMA DueIsFinite == IsFiniteSet(Due) /\ Cardinality(Due) \in Nat
BY WorkersAreFinite, FS_Subset, FS_CardinalityType DEF Due

(* A worker that changes its call changes only its own part of Due.        *)
LEMMA DueStays ==
  ASSUME HintInv, NEW w \in Workers, w \notin Due, UNCHANGED sequence,
         pending' \in [Workers -> Calls],
         \A v \in Workers \ {w} : pending'[v] = pending[v],
         pending'[w] # Counting("publications", Current)
  PROVE  Due' = Due
BY DEF Due, Current

LEMMA Capped ==
  ASSUME NEW n \in Nat, NEW m \in Nat, NEW c, c = IF n < m THEN n ELSE m
  PROVE  (IF c < m THEN c + 1 ELSE c) = IF n + 1 < m THEN n + 1 ELSE m
OBVIOUS

LEMMA Later ==
  ASSUME NEW n \in Nat, NEW d \in Nat, d <= n
  PROVE  /\ (n + 1) - (d + 1) = n - d /\ d + 1 <= n + 1
         /\ n - (d - 1) = (n - d) + 1 /\ d - 1 <= n /\ n - d \in Nat
OBVIOUS

LEMMA TallyHolds ==
  ASSUME HintInv, HintTypes', Calling, CounterTypes, Cleared, Tally, [Next]_vars PROVE Tally'
<1> USE DEF HintInv, HintTypes, CounterTypes, HasRun
<1>0. Cardinality(Due) \in Nat /\ IsFiniteSet(Due) /\ "publications" \in CounterNames
        /\ GenerationOf(sequence) \in Nat /\ COUNT_MASK \in Nat
  BY DueIsFinite, GenerationIsNatural, MasksAssumption DEF CounterNames, Counters
<1>1. ASSUME Due' = Due, UNCHANGED <<sequence, resetting, changes>>,
             counter'["publications"] = counter["publications"]
      PROVE  Tally'
  BY <1>1 DEF Tally
<1>2. CASE UNCHANGED <<sequence, resetting, changes, counter, pending>>
  BY <1>1, <1>2 DEF Due, Current
<1>3. CASE Begin
  BY <1>3 DEF Begin, BeginGo, Counters, Tally
<1>4. CASE ResetCounter
  BY <1>4 DEF ResetCounter, Tally
<1>5. CASE ResetSlot
  <2> SUFFICES ASSUME sequence > 0 PROVE Tally'
    BY <1>5 DEF ResetSlot, Tally
  <2>1. ASSUME NEW w \in Workers, pending[w] = Counting("publications", Current)
        PROVE  FALSE
    <3>1. pending[w].call = "count" /\ pending[w].generation = Current
      BY <2>1 DEF Counting
    <3>2. QED
      BY <1>5, <3>1, NobodyCounts DEF ResetSlot
  <2>2. Due' = {}
    BY <1>5, <2>1 DEF ResetSlot, Due, Current
  <2>3. Cardinality(Due') = 0
    BY <2>2, FS_EmptySet
  <2>4. counter["publications"].count = 0
    <3>1. 1 \in 1 .. Len(Counters) - resetting /\ 1 <= Len(Counters)
            /\ Counters[1] = "publications"
      BY <1>5 DEF ResetSlot, Counters
    <3>2. QED
      BY <1>5, <3>1 DEF ResetSlot, Cleared
  <2>5. QED
    BY <1>0, <1>5, <2>3, <2>4 DEF ResetSlot, Tally
<1>6. ASSUME NEW w \in Workers,
             Start(w) \/ NextIteration(w) \/ Leave(w) \/ RefreshHint(w) \/ ReportProgress(w)
               \/ Stay(w) \/ StartDeciding(w) \/ Survey(w) \/ FinishDeciding(w)
      PROVE  Tally'
  BY <1>2, <1>6 DEF Start, NextIteration, Leave, RefreshHint, ReportProgress, Stay,
     StartDeciding, Survey, FinishDeciding, channelVars
<1>7. ASSUME NEW w \in Workers, w \notin Due,
             \A v \in Workers \ {w} : pending'[v] = pending[v],
             pending'[w] # Counting("publications", Current),
             UNCHANGED <<sequence, resetting, changes>>,
             counter'["publications"] = counter["publications"]
      PROVE  Tally'
  BY <1>1, <1>7, DueStays
<1>8. ASSUME NEW w \in Workers, ReadHint(w) PROVE Tally'
  <2>1. pending[w] = None /\ UNCHANGED <<sequence, resetting, changes, counter>>
    BY <1>8 DEF ReadHint, Calling
  <2>2. w \notin Due
    BY <2>1 DEF Due, None, Counting
  <2>3. \/ pending' = pending
        \/ \E name \in {"eligible_reads", "stale_reads"} :
             pending' = [pending EXCEPT ![w] = Counting(name, token[w])]
    BY <1>8 DEF ReadHint, Increment
  <2>4. pending'[w] # Counting("publications", Current)
    BY <2>1, <2>3 DEF Counting, None
  <2>5. QED
    BY <1>7, <2>1, <2>2, <2>3, <2>4
<1>9. ASSUME NEW w \in Workers, OrderMoves(w) PROVE Tally'
  <2>1. pending[w] = None /\ UNCHANGED <<sequence, resetting, changes, counter>>
    BY <1>9 DEF OrderMoves
  <2>2. w \notin Due
    BY <2>1 DEF Due, None, Counting
  <2>3. pending' = pending \/ pending' = [pending EXCEPT ![w] = Counting("applied", token[w])]
    BY <1>9 DEF OrderMoves, Increment
  <2>4. pending'[w] # Counting("publications", Current)
    BY <2>1, <2>3 DEF Counting, None
  <2>5. QED
    BY <1>7, <2>1, <2>2, <2>3, <2>4
<1>10. ASSUME NEW w \in Workers, NEW move \in config.moves, NEW exact \in BOOLEAN,
              Complete(w, move, exact)
       PROVE  Tally'
  <2>1. pending[w] = None /\ UNCHANGED <<sequence, resetting, changes, counter>>
    BY <1>10 DEF Complete, Publish, channelVars
  <2>2. w \notin Due
    BY <2>1 DEF Due, None, Counting
  <2>3. \/ pending' = pending
        \/ \E h, s : pending' = [pending EXCEPT ![w] = Publication(go[w], h, s)]
    BY <1>10 DEF Complete, Publish, channelVars
  <2>4. pending'[w] # Counting("publications", Current)
    BY <2>1, <2>3 DEF Counting, None, Publication
  <2>5. QED
    BY <1>7, <2>1, <2>2, <2>3, <2>4
<1>11. ASSUME NEW w \in Workers, GiveWay(w) \/ ExchangeFails(w) PROVE Tally'
  <2>1. /\ pending[w].call = "publish" /\ UNCHANGED <<sequence, resetting, changes, counter>>
        /\ \/ pending' = [pending EXCEPT ![w] = None]
           \/ pending' = [pending EXCEPT ![w].seen = slot]
    BY <1>11 DEF GiveWay, ExchangeFails
  <2>2. w \notin Due
    BY <2>1 DEF Due, Counting
  <2>3. pending'[w].call # "count"
    <3>1. CASE pending' = [pending EXCEPT ![w] = None]
      BY <3>1 DEF None
    <3>2. CASE pending' = [pending EXCEPT ![w].seen = slot]
      BY <2>1, <3>2
    <3>3. QED
      BY <2>1, <3>1, <3>2
  <2>4. QED
    BY <1>7, <2>1, <2>2, <2>3 DEF Counting
<1>12. ASSUME NEW w \in Workers, Exchange(w) PROVE Tally'
  <2> DEFINE g == pending[w].hint.generation
  <2>1. /\ pending[w].call = "publish" /\ UNCHANGED <<sequence, resetting, counter>>
        /\ pending' = [pending EXCEPT ![w] = Counting("publications", g)]
        /\ changes' = changes + 1
        /\ slot.generation = g
    BY <1>12 DEF Exchange, Replace, Increment, Yields
  <2>2. w \notin Due
    BY <2>1 DEF Due, Counting
  <2> SUFFICES ASSUME HasRun PROVE Tally'
    BY <2>1 DEF Tally
  <2>3. g = Current
    BY <2>1 DEF Tokens, Current
  <2>4. Due' = Due \cup {w}
    BY <2>1, <2>3 DEF Due, Current
  <2>5. Cardinality(Due') = Cardinality(Due) + 1
    BY <1>0, <2>2, <2>4, FS_AddElement
  <2>6. changes' - Cardinality(Due') = changes - Cardinality(Due)
          /\ Cardinality(Due') <= changes'
    <3>1. Cardinality(Due) <= changes /\ changes \in Nat
      BY DEF Tally
    <3>2. (changes + 1) - (Cardinality(Due) + 1) = changes - Cardinality(Due)
            /\ Cardinality(Due) + 1 <= changes + 1
      BY <1>0, <3>1, Later
    <3>3. changes' = changes + 1
      BY <2>1
    <3>4. QED
      BY <2>5, <3>2, <3>3
  <2>7. QED
    BY <2>1, <2>6 DEF Tally
<1>13. ASSUME NEW w \in Workers, Count(w) PROVE Tally'
  <2> DEFINE name == pending[w].name
             g == pending[w].generation
  <2>1. /\ pending[w].call = "count" /\ UNCHANGED <<sequence, resetting, changes>>
        /\ pending' = [pending EXCEPT ![w] = None]
        /\ counter' = Updated(name, g)
        /\ pending[w] = Counting(name, g) /\ name \in CounterNames
    BY <1>13, CallKinds DEF Count
  <2>2. None # Counting("publications", Current)
    BY DEF None, Counting
  <2> SUFFICES ASSUME HasRun PROVE Tally'
    BY <2>1 DEF Tally
  <2>3. counter["publications"].generation = Current
    <3>1. 1 \in 1 .. Len(Counters) - resetting /\ 1 <= Len(Counters)
            /\ Counters[1] = "publications"
      BY DEF Counters
    <3>2. QED
      BY <3>1 DEF Cleared
  <2>4. CASE name = "publications" /\ g = Current
    <3>1. w \in Due
      BY <2>1, <2>4 DEF Due
    <3>2. Due' = Due \ {w}
      BY <2>1, <2>2 DEF Due, Current
    <3>3. Cardinality(Due') = Cardinality(Due) - 1
      BY <1>0, <3>1, <3>2, FS_RemoveElement
    <3>4. counter'["publications"].count =
            IF counter["publications"].count < COUNT_MASK
              THEN counter["publications"].count + 1 ELSE counter["publications"].count
      BY <1>0, <2>1, <2>3, <2>4 DEF Updated
    <3>5. changes' - Cardinality(Due') = (changes - Cardinality(Due)) + 1
            /\ changes - Cardinality(Due) \in Nat /\ Cardinality(Due') <= changes'
      <4>1. Cardinality(Due) <= changes /\ changes \in Nat
        BY DEF Tally
      <4>2. changes - (Cardinality(Due) - 1) = (changes - Cardinality(Due)) + 1
              /\ Cardinality(Due) - 1 <= changes /\ changes - Cardinality(Due) \in Nat
        BY <1>0, <4>1, Later
      <4>3. changes' = changes
        BY <2>1
      <4>4. QED
        BY <3>3, <4>2, <4>3
    <3>6. /\ counter["publications"].count =
               IF changes - Cardinality(Due) < COUNT_MASK THEN changes - Cardinality(Due)
                                                          ELSE COUNT_MASK
          /\ counter["publications"].count \in 0 .. COUNT_MASK
      BY <1>0 DEF Tally
    <3>7. counter'["publications"].count =
            IF changes' - Cardinality(Due') < COUNT_MASK THEN changes' - Cardinality(Due')
                                                         ELSE COUNT_MASK
      <4> DEFINE n == changes - Cardinality(Due)
                 c == counter["publications"].count
      <4>1. n \in Nat /\ COUNT_MASK \in Nat /\ c = IF n < COUNT_MASK THEN n ELSE COUNT_MASK
        BY <1>0, <3>5, <3>6
      <4> HIDE DEF n, c
      <4>2. (IF c < COUNT_MASK THEN c + 1 ELSE c) = IF n + 1 < COUNT_MASK THEN n + 1 ELSE COUNT_MASK
        BY <4>1, Capped
      <4>3. changes' - Cardinality(Due') = n + 1
        BY <3>5 DEF n
      <4>4. counter'["publications"].count = IF c < COUNT_MASK THEN c + 1 ELSE c
        BY <3>4 DEF c
      <4>5. QED
        BY <4>2, <4>3, <4>4
    <3>8. QED
      BY <3>5, <3>7 DEF Tally
  <2>5. CASE name # "publications" \/ g # Current
    <3>1. w \notin Due
      BY <2>1, <2>5 DEF Due, Counting
    <3>2. counter'["publications"] = counter["publications"]
      BY <1>0, <2>1, <2>3, <2>5 DEF Updated
    <3>3. QED
      BY <1>7, <2>1, <2>2, <3>1, <3>2
  <2>6. QED
    BY <2>4, <2>5
<1> QED
  BY <1>2, <1>3, <1>4, <1>5, <1>6, <1>8, <1>9, <1>10, <1>11, <1>12, <1>13
  DEF Next, BeginStep, LoopStep, Call, ChannelStep, vars, channelVars

LEMMA ApplyingHolds ==
  ASSUME HintInv, Calling, CounterTypes, Cleared, Applying, [Next]_vars PROVE Applying'
<1> USE DEF HintInv, HintTypes, CounterTypes, HasRun
<1>0. 0 \in Workers /\ GenerationOf(sequence) \in Nat /\ COUNT_MASK \in Nat
  BY WorkersAssumption, GenerationIsNatural, MasksAssumption
<1> DEFINE a == counter["applied"].count
           e == counter["eligible_reads"].count
<1>1. {"applied", "eligible_reads"} \subseteq CounterNames
        /\ a \in 0 .. COUNT_MASK /\ e \in 0 .. COUNT_MASK
  BY DEF CounterNames, Counters
<1>2. ASSUME UNCHANGED <<sequence, resetting, counter, token>>, pending'[0] = pending[0],
             place'[0] = "ordering" => place[0] = "ordering" /\ hint' = hint
      PROVE  Applying'
  BY <1>2 DEF Applying, Room, Current
<1>3. ASSUME UNCHANGED <<sequence, resetting, counter>>, place'[0] # "ordering",
             pending'[0] # Counting("applied", Current) \/ pending'[0] = pending[0]
      PROVE  Applying'
  BY <1>3 DEF Applying, Room, Current
<1>4. CASE UNCHANGED vars
  BY <1>2, <1>4 DEF vars, channelVars, loopVars
<1>5. CASE Begin \/ ResetCounter
  BY <1>5 DEF Begin, BeginGo, ResetCounter, Counters, Applying
<1>6. CASE BeginStep /\ ResetSlot
  <2> SUFFICES ASSUME sequence > 0 PROVE Applying'
    BY <1>6 DEF ResetSlot, Applying
  <2>1. pending[0] # Counting("applied", Current)
    <3> SUFFICES ASSUME pending[0] = Counting("applied", Current) PROVE FALSE
      OBVIOUS
    <3>1. pending[0].call = "count" /\ pending[0].generation = Current
      BY DEF Counting
    <3>2. QED
      BY <1>0, <1>6, <3>1, NobodyCounts DEF ResetSlot
  <2>2. ~(place[0] = "ordering" /\ token[0] = Current)
    BY <1>0, <1>6 DEF ResetSlot, Tokens, Current
  <2>3. a = 0 /\ e = 0
    <3>1. /\ 2 \in 1 .. Len(Counters) - resetting /\ Counters[2] = "eligible_reads"
          /\ 3 \in 1 .. Len(Counters) - resetting /\ Counters[3] = "applied"
          /\ 2 <= Len(Counters) /\ 3 <= Len(Counters) /\ resetting = 0
      BY <1>6 DEF ResetSlot, Counters
    <3>2. QED
      BY <3>1 DEF Cleared
  <2>4. QED
    BY <1>6, <2>1, <2>2, <2>3 DEF BeginStep, ResetSlot, Applying, Current, loopVars
<1>7. ASSUME NEW w \in Workers, Start(w) PROVE Applying'
  <2>1. CASE w = 0 /\ Idle(w)
    BY <1>0, <1>3, <1>7, <2>1 DEF Start, channelVars
  <2>2. CASE ~(w = 0 /\ Idle(w))
    BY <1>0, <1>7, <2>2 DEF Start, channelVars, loopVars, Applying, Room, Current
  <2>3. QED
    BY <2>1, <2>2
<1>8. ASSUME NEW w \in Workers, NextIteration(w) \/ ReportProgress(w) \/ Stay(w) \/ StartDeciding(w)
      PROVE  Applying'
  BY <1>0, <1>2, <1>8 DEF NextIteration, ReportProgress, Stay, StartDeciding, GoTo, channelVars
<1>9. ASSUME NEW w \in Workers, Leave(w) \/ FinishDeciding(w) PROVE Applying'
  BY <1>0, <1>2, <1>9 DEF Leave, FinishDeciding, Return, GoTo, channelVars
<1>10. ASSUME NEW w \in Workers, Survey(w) PROVE Applying'
  BY <1>2, <1>10 DEF Survey, channelVars, loopVars
<1>11. ASSUME NEW w \in Workers, RefreshHint(w) PROVE Applying'
  BY <1>2, <1>11 DEF RefreshHint, channelVars
<1>12. ASSUME NEW w \in Workers, NEW move \in config.moves, NEW exact \in BOOLEAN,
              Complete(w, move, exact)
       PROVE  Applying'
  <2>1. UNCHANGED <<sequence, resetting, counter, token>>
    BY <1>12 DEF Complete, Publish, channelVars
  <2>2. pending'[0] = pending[0]
    BY <1>0, <1>12 DEF Complete, Publish, channelVars
  <2>3. place'[0] = "ordering" => place[0] = "ordering" /\ hint' = hint
    BY <1>0, <1>12 DEF Complete, GoTo
  <2>4. QED
    BY <1>2, <2>1, <2>2, <2>3
<1>13. ASSUME NEW w \in Workers, ReadHint(w) PROVE Applying'
  <2>1. w = 0 /\ pending[0] = None /\ UNCHANGED <<sequence, resetting, counter, token>>
    BY <1>13 DEF ReadHint, Calling
  <2>2. pending'[0] # Counting("applied", Current)
    BY <1>0, <1>13, <2>1 DEF ReadHint, Increment, Counting, None
  <2>3. hint' # NoHint => pending'[0] = Counting("eligible_reads", token[0])
    BY <1>0, <1>13, <2>1 DEF ReadHint, Increment, Eligible
  <2>4. QED
    BY <2>1, <2>2, <2>3 DEF Applying, Room, Current
<1>14. ASSUME NEW w \in Workers, OrderMoves(w) PROVE Applying'
  <2>1. /\ w = 0 /\ place[0] = "ordering" /\ pending[0] = None
        /\ UNCHANGED <<sequence, resetting, counter, token, hint>>
        /\ place'[0] = "searching"
    BY <1>0, <1>14 DEF OrderMoves, GoTo, Calling
  <2>2. \/ pending'[0] = None
        \/ hint # NoHint /\ pending'[0] = Counting("applied", token[0])
    BY <1>0, <1>14, <2>1 DEF OrderMoves, Increment
  <2>3. CASE pending'[0] = None
    BY <2>1, <2>3, <1>3
  <2>4. CASE hint # NoHint /\ pending'[0] = Counting("applied", token[0])
    <3>1. HasRun /\ token[0] = Current => Room
      BY <2>1, <2>4 DEF Applying, None, Counting
    <3>2. pending'[0] = Counting("applied", Current) => token[0] = Current
      BY <2>4 DEF Counting
    <3>3. QED
      BY <2>1, <3>1, <3>2 DEF Applying, Room, Current
  <2>5. QED
    BY <2>2, <2>3, <2>4
<1>15. ASSUME NEW w \in Workers, GiveWay(w) \/ Exchange(w) \/ ExchangeFails(w),
              UNCHANGED loopVars
       PROVE  Applying'
  <2>1. CASE w # 0
    BY <1>0, <1>2, <1>15, <2>1
    DEF GiveWay, Exchange, Replace, Increment, ExchangeFails, loopVars
  <2>2. CASE w = 0
    <3>1. pending[0].call = "publish" /\ UNCHANGED <<sequence, resetting, counter, loopVars>>
      BY <1>15, <2>2 DEF GiveWay, Exchange, Replace, ExchangeFails
    <3>2. pending[0] # Counting("eligible_reads", Current)
      BY <3>1 DEF Counting
    <3>3. pending'[0] # Counting("applied", Current)
      <4>1. CASE GiveWay(0)
        BY <1>0, <4>1 DEF GiveWay, None, Counting
      <4>2. CASE Exchange(0)
        BY <1>0, <4>2 DEF Exchange, Replace, Increment, Counting
      <4>3. CASE ExchangeFails(0)
        <5>1. pending'[0].call = "publish"
          BY <1>0, <4>3 DEF ExchangeFails
        <5>2. QED
          BY <5>1 DEF Counting
      <4>4. QED
        BY <1>15, <2>2, <4>1, <4>2, <4>3
    <3>4. QED
      BY <3>1, <3>2, <3>3 DEF Applying, Room, Current, loopVars
  <2>3. QED
    BY <2>1, <2>2
<1>16. ASSUME NEW w \in Workers, Count(w), UNCHANGED loopVars PROVE Applying'
  <2> DEFINE name == pending[w].name
             g == pending[w].generation
  <2>1. /\ pending[w].call = "count" /\ UNCHANGED <<sequence, resetting>>
        /\ pending' = [pending EXCEPT ![w] = None]
        /\ counter' = Updated(name, g)
        /\ pending[w] = Counting(name, g) /\ name \in CounterNames /\ g = token[w]
        /\ UNCHANGED <<place, hint, token>>
    BY <1>16, CallKinds DEF Count, Calling, loopVars
  <2>2. None # Counting("applied", Current)
    BY DEF None, Counting
  <2> SUFFICES ASSUME HasRun PROVE Applying'
    BY <2>1 DEF Applying
  <2>3. counter["applied"].generation = Current /\ counter["eligible_reads"].generation = Current
    <3>1. /\ 2 \in 1 .. Len(Counters) - resetting /\ Counters[2] = "eligible_reads"
          /\ 3 \in 1 .. Len(Counters) - resetting /\ Counters[3] = "applied"
          /\ 2 <= Len(Counters) /\ 3 <= Len(Counters)
      BY DEF Counters
    <3>2. QED
      BY <3>1 DEF Cleared
  <2>4. CASE name \notin {"applied", "eligible_reads"}
    <3>1. a' = a /\ e' = e
      BY <1>1, <2>1, <2>4 DEF Updated
    <3>2. w = 0 => pending[0] # Counting("eligible_reads", Current)
      BY <2>1, <2>4 DEF Counting
    <3>3. pending'[0] # Counting("applied", Current) \/ pending'[0] = pending[0]
      BY <1>0, <2>1, <2>2
    <3>4. pending[0] = Counting("eligible_reads", Current) =>
            pending'[0] = Counting("eligible_reads", Current)
      BY <1>0, <2>1, <3>2
    <3>5. QED
      BY <2>1, <3>1, <3>3, <3>4 DEF Applying, Room, Current
  <2>5. CASE name \in {"applied", "eligible_reads"}
    <3>1. w = 0 /\ pending'[0] = None
      BY <1>0, <2>1, <2>5 DEF Calling
    <3>2. CASE g # Current
      <4>1. a' = a /\ e' = e
        BY <1>1, <2>1, <2>3, <3>2 DEF Updated
      <4>2. token[0] # Current
        BY <2>1, <3>1, <3>2
      <4>3. QED
        BY <2>1, <2>2, <3>1, <4>1, <4>2 DEF Applying, Room, Current
    <3>3. CASE g = Current /\ name = "eligible_reads"
      <4>1. a' = a /\ e' = IF e < COUNT_MASK THEN e + 1 ELSE e
        BY <1>1, <2>1, <2>3, <3>3 DEF Updated
      <4>2. a <= e
        BY DEF Applying
      <4>3. a' <= e' /\ (a' < e' \/ e' = COUNT_MASK)
        BY <1>0, <1>1, <4>1, <4>2
      <4>4. QED
        BY <2>1, <2>2, <3>1, <4>3 DEF Applying, Room, Current
    <3>4. CASE g = Current /\ name = "applied"
      <4>1. e' = e /\ a' = IF a < COUNT_MASK THEN a + 1 ELSE a
        BY <1>1, <2>1, <2>3, <3>4 DEF Updated
      <4>2. a <= e /\ (a < e \/ e = COUNT_MASK)
        BY <1>0, <2>1, <3>1, <3>4 DEF Applying, Room
      <4>3. a' <= e'
        BY <1>0, <1>1, <4>1, <4>2
      <4>4. place[0] # "ordering"
        BY <1>0, <2>1, <3>1, <3>4 DEF Calling
      <4>5. QED
        BY <2>1, <2>2, <3>1, <4>3, <4>4 DEF Applying, Current
    <3>5. QED
      BY <2>5, <3>2, <3>3, <3>4
  <2>6. QED
    BY <2>4, <2>5
<1> QED
  BY <1>4, <1>5, <1>6, <1>7, <1>8, <1>9, <1>10, <1>11, <1>12, <1>13, <1>14, <1>15, <1>16
  DEF Next, BeginStep, LoopStep, Call, ChannelStep

CallsInv == Calling /\ OwnHint /\ CounterTypes /\ Cleared /\ Tally /\ Applying

LEMMA CallsInvInitially == Init => CallsInv
<1> SUFFICES ASSUME Init PROVE CallsInv
  OBVIOUS
<1> USE DEF Init, ChannelInit
<1>1. Calling
  BY DEF Calling, None
<1>2. OwnHint
  BY DEF OwnHint
<1>3. CounterTypes
  <2>1. NoHint \in Words
    BY DEF NoHint, Empty, Words
  <2>2. 0 \in 0 .. COUNT_MASK
    BY MasksAssumption
  <2>3. QED
    BY <2>1, <2>2 DEF CounterTypes, Counters
<1>4. Cleared /\ Tally /\ Applying
  BY DEF Cleared, Tally, Applying, HasRun
<1>5. QED
  BY <1>1, <1>2, <1>3, <1>4 DEF CallsInv

LEMMA CallsInvHolds == HintInv /\ CallsInv /\ [Next]_vars => CallsInv'
<1> SUFFICES ASSUME HintInv, CallsInv, [Next]_vars PROVE CallsInv'
  OBVIOUS
<1>1. HintInv'
  BY HintInvHolds
<1>2. QED
  BY <1>1, CallingHolds, OwnHintHolds, CounterTypesHold, ClearedHolds, TallyHolds,
     ApplyingHolds DEF CallsInv, HintInv

LEMMA CallsAreOwn == Spec => [](HintInv /\ CallsInv)
BY HintInvInitially, HintInvHolds, CallsInvInitially, CallsInvHolds, PTL DEF Spec

(* The hint that orders the main worker's moves is of its own invocation   *)
(* and deep enough, however late it is.                                    *)
THEOREM HintsAreUsedByTheirOwn == Spec => []UsesOwnHints
<1>1. CallsInv => UsesOwnHints
  BY DEF CallsInv, OwnHint, UsesOwnHints
<1> QED BY <1>1, CallsAreOwn, PTL

(* The published hints of an invocation are counted once each, up to the   *)
(* width of the counter, and none that is late.                            *)
THEOREM StatisticsAreExact == Spec => []StatisticsAreOwn
<1>1. HintInv /\ CallsInv => StatisticsAreOwn
  <2> SUFFICES ASSUME HintInv, CallsInv, HasRun PROVE StatisticsAreOwn
    BY DEF StatisticsAreOwn
  <2>1. slot.generation = Current
    BY DEF HintInv, Tokens, Current
  <2>2. Due = {w \in Workers : pending[w] = Counting("publications", slot.generation)}
    BY <2>1 DEF Due
  <2>3. counter["publications"].generation = Current
    <3>1. 1 \in 1 .. Len(Counters) - resetting /\ 1 <= Len(Counters)
            /\ Counters[1] = "publications" /\ sequence > 0
      BY DEF Counters, HasRun
    <3>2. QED
      BY <3>1 DEF CallsInv, Cleared
  <2>4. counter["publications"] = [generation |-> counter["publications"].generation,
                                   count |-> counter["publications"].count]
    <3>1. "publications" \in CounterNames
      BY DEF CounterNames, Counters
    <3>2. QED
      BY <3>1 DEF CallsInv, CounterTypes
  <2> DEFINE done == changes - Cardinality(Due)
  <2>5. counter["publications"].count = IF done < COUNT_MASK THEN done ELSE COUNT_MASK
    BY DEF CallsInv, Tally
  <2>6. counter["publications"] =
          [generation |-> slot.generation,
           count |-> IF done < COUNT_MASK THEN done ELSE COUNT_MASK]
    BY <2>1, <2>3, <2>4, <2>5
  <2>7. counter["applied"].count <= counter["eligible_reads"].count
    BY DEF CallsInv, Applying
  <2>8. QED
    BY <2>2, <2>6, <2>7 DEF StatisticsAreOwn
<1> QED BY <1>1, CallsAreOwn, PTL
-----------------------------------------------------------------------------
Surveying == [next : Nat, open : BOOLEAN, leader : Indices, of : Progress]

RetirementTypes ==
  /\ progress \in [Indices -> Progress]
  /\ retired \in [Indices -> BOOLEAN]
  /\ survey \in [Indices -> Surveying]

(* Where the workers are while there is retirement.  A retired helper has  *)
(* left its loop for the rest of the invocation, and one that has not been *)
(* started yet has nothing of the last invocation left.                    *)
Standing ==
  \A w \in Indices :
    /\ place[w] \in {"completing", "reported", "deciding"} => config.retire
    /\ retired[w] => config.retire /\ place[w] = "idle" /\ w \in begun
    /\ config.retire /\ w \notin begun => progress[w] = Nothing /\ place[w] = "idle"
    /\ config.retire /\ place[w] # "idle" => progress[w].depth <= depth[w]

Record(w, done) == [by |-> w, done |-> done]

Recorded ==
  \A w \in Indices \ {0} : progress[w].stable => Record(w, progress[w]) \in completions

(* The leader of a survey is at least as far as it was when it was read.   *)
Surveys ==
  \A w \in Indices : place[w] = "deciding" =>
    /\ w # 0
    /\ survey[w].next > 0
    /\ survey[w].leader # 0 =>
         /\ survey[w].of.depth <= progress[survey[w].leader].depth
         /\ survey[w].of.stable => Record(survey[w].leader, survey[w].of) \in completions

RetirementInv ==
  /\ RetirementTypes
  /\ Standing
  /\ Recorded
  /\ Surveys
  /\ RetiresBehindALeader
  /\ DeepestGoesOn

(* Steps that leave the registry alone and start no worker.                *)
LEMMA RetirementFrame ==
  ASSUME HintInv, RetirementInv, HintTypes',
         UNCHANGED <<retirementVars, config, begun>>,
         \A w \in Workers :
           /\ place'[w] # "idle" => place[w] # "idle" /\ depth'[w] >= depth[w]
           /\ place'[w] \in {"completing", "reported", "deciding"} => config.retire
           /\ place'[w] = "deciding" => place[w] = "deciding"
  PROVE  RetirementInv'
<1> USE IndicesAssumption DEF RetirementInv, retirementVars
<1>1. RetirementTypes'
  BY DEF RetirementTypes
<1>2. ASSUME NEW w \in Indices, config.retire, place'[w] # "idle"
      PROVE  progress[w].depth <= depth'[w]
  <2>1. progress[w].depth <= depth[w] /\ depth[w] <= depth'[w]
    BY <1>2 DEF Standing
  <2>2. progress[w].depth \in Nat /\ depth[w] \in Nat /\ depth'[w] \in Nat
    BY DEF HintInv, HintTypes, RetirementTypes, Progress
  <2> QED BY <2>1, <2>2
<1>3. \A w \in Indices : place[w] = "idle" => place'[w] = "idle"
  OBVIOUS
<1>4. Standing'
  BY <1>2, <1>3 DEF Standing
<1>5. Recorded' /\ RetiresBehindALeader' /\ DeepestGoesOn'
  BY DEF Recorded, RetiresBehindALeader, DeepestGoesOn
<1>6. Surveys'
  BY DEF Surveys
<1> QED BY <1>1, <1>4, <1>5, <1>6

LEMMA RetirementInvHolds ==
  ASSUME HintInv, RetirementInv, [Next]_vars PROVE RetirementInv'
<1>types. HintTypes /\ HintTypes'
  BY HintTypesHold DEF HintInv
<1> USE IndicesAssumption DEF RetirementInv
<1>1. CASE UNCHANGED vars
  BY <1>1 DEF vars, loopVars, retirementVars, RetirementTypes, Standing, Recorded, Surveys,
              RetiresBehindALeader, DeepestGoesOn
<1>2. CASE Begin
  <2> USE <1>2 DEF Begin, Reset, loopVars
  <2>1. config.retire => \A w \in Indices : place[w] = "idle"
    BY <1>types, ConfigsAssumption DEF MayBegin, Idle, HintTypes
  <2>2. RetirementTypes'
    BY DEF RetirementTypes, Nothing, Progress
  <2>3. \A w \in Indices : progress'[w] = Nothing /\ ~retired'[w]
    OBVIOUS
  <2>4. Standing'
    BY <2>1, <2>3 DEF Standing
  <2>5. Recorded' /\ RetiresBehindALeader' /\ DeepestGoesOn'
    BY <2>3 DEF Recorded, RetiresBehindALeader, DeepestGoesOn, Nothing
  <2>6. \A w \in Indices : place[w] # "deciding"
    BY <2>1 DEF Standing
  <2>7. Surveys'
    BY <2>6 DEF Surveys
  <2> QED BY <2>2, <2>4, <2>5, <2>7
<1>3. CASE BeginStep
  <2>1. UNCHANGED <<retirementVars, config, begun, place, depth>>
    BY <1>3 DEF BeginStep, loopVars
  <2>2. \A w \in Workers : depth[w] \in Nat
    BY <1>types DEF HintTypes
  <2>3. \A w \in Workers : place[w] \in {"completing", "reported", "deciding"} => config.retire
    BY DEF Standing
  <2> QED BY <1>types, <2>1, <2>2, <2>3, RetirementFrame
<1>4. ASSUME NEW w \in Workers, Start(w) PROVE RetirementInv'
  <2> USE <1>4 DEF Start
  <2>1. RetirementTypes' /\ Recorded' /\ RetiresBehindALeader' /\ DeepestGoesOn'
    BY DEF retirementVars, RetirementTypes, Recorded, RetiresBehindALeader, DeepestGoesOn
  <2>2. \A v \in Workers : v # w => place'[v] = place[v] /\ depth'[v] = depth[v]
    BY <1>types DEF loopVars, HintTypes
  <2>3. UNCHANGED <<place, depth>> \/ place'[w] = "between"
    BY <1>types DEF loopVars, HintTypes
  <2>4. Surveys'
    BY <2>2, <2>3 DEF Surveys, retirementVars
  <2>5. config.retire => progress[w] = Nothing /\ ~retired[w] /\ depth'[w] \in Nat
    BY <1>types DEF Standing, HintTypes
  <2>6. config.retire => place[w] = "idle"
    BY DEF Standing
  <2>7. retired[w] => FALSE
    BY DEF Standing
  <2>8. Standing'
    <3> SUFFICES ASSUME NEW v \in Indices
                 PROVE
                   /\ place'[v] \in {"completing", "reported", "deciding"} => config.retire
                   /\ retired[v] => config.retire /\ place'[v] = "idle" /\ v \in begun'
                   /\ config.retire /\ v \notin begun' => progress[v] = Nothing /\ place'[v] = "idle"
                   /\ config.retire /\ place'[v] # "idle" => progress[v].depth <= depth'[v]
      BY DEF Standing, retirementVars
    <3>1. CASE v = w
      <4>1. config.retire => progress[v].depth <= depth'[v]
        BY <3>1, <2>5 DEF Nothing
      <4> QED BY <3>1, <4>1, <2>3, <2>7 DEF Standing
    <3>2. CASE v # w
      BY <3>2, <2>2 DEF Standing
    <3> QED BY <3>1, <3>2
  <2> QED BY <2>1, <2>4, <2>8
<1>5. ASSUME NEW w \in Workers,
             NextIteration(w) \/ Leave(w) \/ RefreshHint(w) \/ Stay(w)
               \/ ReadHint(w) \/ OrderMoves(w) \/ Call(w)
               \/ \E move \in config.moves, exact \in BOOLEAN : Complete(w, move, exact)
      PROVE  RetirementInv'
  <2> USE <1>5 DEF NextIteration, Leave, RefreshHint, Stay, ReadHint, OrderMoves, Call,
                    Complete, GoTo, Return, loopVars
  <2>1. UNCHANGED <<retirementVars, config, begun>>
    OBVIOUS
  <2>2. \A v \in Workers : v # w => place'[v] = place[v] /\ depth'[v] = depth[v]
    BY <1>types DEF HintTypes
  <2>3. place'[w] # "idle" => place[w] # "idle" /\ depth'[w] >= depth[w]
    BY <1>types DEF HintTypes
  <2>4. place'[w] \in {"completing", "reported", "deciding"} =>
          config.retire \/ place'[w] = place[w]
    BY <1>types DEF HintTypes
  <2>5. place'[w] = "deciding" => place[w] = "deciding"
    BY <1>types DEF HintTypes
  <2>6. \A v \in Workers : place[v] \in {"completing", "reported", "deciding"} => config.retire
    BY DEF Standing
  <2>7. \A v \in Workers : depth[v] \in Nat /\ depth[v] >= depth[v]
    BY <1>types DEF HintTypes
  <2>8. \A v \in Workers :
           /\ place'[v] # "idle" => place[v] # "idle" /\ depth'[v] >= depth[v]
           /\ place'[v] \in {"completing", "reported", "deciding"} => config.retire
           /\ place'[v] = "deciding" => place[v] = "deciding"
    BY <2>2, <2>3, <2>4, <2>5, <2>6, <2>7
  <2> QED BY <1>types, <2>1, <2>8, RetirementFrame
<1>6. ASSUME NEW w \in Workers, ReportProgress(w) PROVE RetirementInv'
  <2> DEFINE done == [depth |-> depth[w], move |-> best[w], stable |-> previous[w] = best[w]]
  <2>1. /\ place[w] = "completing"
        /\ progress' = [progress EXCEPT ![w] = done]
        /\ completions' = (IF w # 0 /\ done.stable THEN completions \cup {Record(w, done)}
                                                   ELSE completions)
        /\ UNCHANGED <<retired, survey, config, begun, depth>>
        /\ place' = [place EXCEPT ![w] = "reported"]
    BY <1>6 DEF ReportProgress, Completed, GoTo, Record
  <2>2. done \in Progress /\ done.depth = depth[w]
    BY <1>types, IndicesAssumption DEF HintTypes, Progress
  <2> HIDE DEF done
  <2>3. RetirementTypes'
    BY <2>1, <2>2 DEF RetirementTypes
  <2>4. config.retire /\ ~retired[w] /\ w \in begun
    BY <2>1 DEF Standing
  <2>5. progress[w].depth <= done.depth
    BY <2>1, <2>2, <2>4 DEF Standing
  <2>6. \A v \in Indices : progress[v].depth <= progress'[v].depth
    BY <2>1, <2>5 DEF RetirementTypes, Progress
  <2>7. \A v \in Indices : v # w => progress'[v] = progress[v] /\ place'[v] = place[v]
    BY <2>1, <1>types DEF RetirementTypes, HintTypes
  <2>8. progress'[w] = done /\ place'[w] = "reported"
    BY <2>1, <1>types DEF RetirementTypes, HintTypes
  <2>9. completions \subseteq completions'
    BY <2>1
  <2>10. Standing'
    <3>1. depth[w] \in Nat
      BY <1>types DEF HintTypes
    <3> QED BY <2>1, <2>2, <2>4, <2>7, <2>8, <3>1 DEF Standing
  <2>11. Recorded'
    BY <2>1, <2>7, <2>8, <2>9 DEF Recorded
  <2>12. Surveys'
    <3> SUFFICES ASSUME NEW v \in Indices, place'[v] = "deciding"
                 PROVE
                   /\ v # 0
                   /\ survey[v].next > 0
                   /\ survey[v].leader # 0 =>
                        /\ survey[v].of.depth <= progress'[survey[v].leader].depth
                        /\ survey[v].of.stable => Record(survey[v].leader, survey[v].of) \in completions'
      BY <2>1 DEF Surveys
    <3>1. place[v] = "deciding"
      BY <2>7, <2>8
    <3>2. survey[v].leader \in Indices /\ survey[v].of.depth \in Nat
      BY DEF RetirementTypes, Surveying, Progress
    <3>3. progress[survey[v].leader].depth \in Nat /\ progress'[survey[v].leader].depth \in Nat
      BY <3>2, <2>3 DEF RetirementTypes, Progress
    <3> QED BY <3>1, <3>2, <3>3, <2>6, <2>9 DEF Surveys
  <2>13. RetiresBehindALeader'
    BY <2>1, <2>4, <2>7, <2>9 DEF RetiresBehindALeader
  <2>14. DeepestGoesOn'
    <3> SUFFICES ASSUME NEW v \in Indices, retired[v]
                 PROVE  \E u \in Indices \ {0} : progress'[u].depth >= progress'[v].depth + LEAD
      BY <2>1 DEF DeepestGoesOn
    <3>1. PICK u \in Indices \ {0} : progress[u].depth >= progress[v].depth + LEAD
      BY DEF DeepestGoesOn
    <3>2. progress'[v] = progress[v]
      BY <2>4, <2>7
    <3>3. progress[u].depth \in Nat /\ progress'[u].depth \in Nat /\ progress[v].depth \in Nat
      BY <2>3 DEF RetirementTypes, Progress
    <3>4. progress'[u].depth >= progress[v].depth + LEAD
      BY <3>1, <3>3, <2>6, LeadAssumption
    <3> QED BY <3>2, <3>4
  <2> QED BY <2>3, <2>10, <2>11, <2>12, <2>13, <2>14
<1>7. ASSUME NEW w \in Workers, StartDeciding(w) PROVE RetirementInv'
  <2>1. /\ place[w] = "reported" /\ w # 0
        /\ survey' = [survey EXCEPT ![w] = [NotDeciding EXCEPT !.next = 1]]
        /\ UNCHANGED <<progress, retired, completions, config, begun, depth>>
        /\ place' = [place EXCEPT ![w] = "deciding"]
    BY <1>7 DEF StartDeciding, Decide, MayRetire, GoTo
  <2>2. survey'[w].next = 1 /\ survey'[w].leader = 0 /\ survey'[w] \in Surveying
    <3>1. 0 \in Indices
      BY NumWorkersAssumption DEF Indices
    <3> QED BY <2>1, <3>1 DEF RetirementTypes, NotDeciding, Surveying, Nothing, Progress
  <2>3. RetirementTypes'
    BY <2>1, <2>2 DEF RetirementTypes
  <2>4. Standing'
    BY <2>1, <1>types DEF Standing, HintTypes
  <2>5. Surveys'
    BY <2>1, <2>2, <1>types DEF Surveys, HintTypes, RetirementTypes
  <2> QED BY <2>1, <2>3, <2>4, <2>5 DEF Recorded, RetiresBehindALeader, DeepestGoesOn
<1>8. ASSUME NEW w \in Workers, Survey(w) PROVE RetirementInv'
  <2>1. place[w] = "deciding" /\ RetirementStep(w) /\ UNCHANGED <<config, begun, place, depth>>
          /\ UNCHANGED <<progress, retired, completions>>
    BY <1>8 DEF Survey, RetirementStep, LookAtFlag, LookAtProgress, loopVars
  <2>2. /\ survey[w].next \in Nat /\ survey[w].next > 0 /\ survey[w].next < NumWorkers
        /\ survey[w] \in Surveying
    BY <2>1 DEF Surveys, RetirementStep, LookAtFlag, LookAtProgress, Deciding,
                RetirementTypes, Surveying
  <2>3. survey[w].next \in Indices \ {0}
    BY <2>2, NumWorkersAssumption DEF Indices
  <2>4. /\ survey' = [survey EXCEPT ![w] = survey'[w]]
        /\ survey'[w] \in Surveying
        /\ survey'[w].next > 0
        /\ \/ survey'[w].leader = survey[w].leader /\ survey'[w].of = survey[w].of
           \/ survey'[w].leader = survey[w].next /\ survey'[w].of = progress[survey[w].next]
    <3>1. CASE LookAtFlag(w)
      <4>1. retired[survey[w].next] \in BOOLEAN
        BY <2>3 DEF RetirementTypes
      <4> QED BY <3>1, <2>2, <4>1 DEF LookAtFlag, RetirementTypes, Surveying
    <3>2. CASE LookAtProgress(w)
      <4>1. progress[survey[w].next] \in Progress
        BY <2>3 DEF RetirementTypes
      <4> QED BY <3>2, <2>2, <2>3, <4>1 DEF LookAtProgress, RetirementTypes, Surveying
    <3> QED BY <2>1, <3>1, <3>2 DEF RetirementStep
  <2>5. RetirementTypes'
    BY <2>1, <2>4 DEF RetirementTypes
  <2>6. Standing' /\ Recorded' /\ RetiresBehindALeader' /\ DeepestGoesOn'
    BY <2>1 DEF Standing, Recorded, RetiresBehindALeader, DeepestGoesOn
  <2>7. survey'[w].leader # 0 =>
          /\ survey'[w].of.depth <= progress[survey'[w].leader].depth
          /\ survey'[w].of.stable => Record(survey'[w].leader, survey'[w].of) \in completions
    <3>1. progress[survey[w].next].depth \in Nat
      BY <2>3 DEF RetirementTypes, Progress
    <3> QED BY <2>1, <2>3, <2>4, <3>1 DEF Surveys, Recorded
  <2>8. \A v \in Indices : v # w => survey'[v] = survey[v]
    BY <2>4 DEF RetirementTypes
  <2>9. Surveys'
    BY <2>1, <2>4, <2>7, <2>8 DEF Surveys
  <2> QED BY <2>5, <2>6, <2>9
<1>9. ASSUME NEW w \in Workers, FinishDeciding(w) PROVE RetirementInv'
  <2>1. /\ place[w] = "deciding"
        /\ retired' = [retired EXCEPT ![w] = Retires(w)]
        /\ survey' = [survey EXCEPT ![w] = NotDeciding]
        /\ UNCHANGED <<progress, completions, config, begun>>
    BY <1>9 DEF FinishDeciding, Resolve
  <2>2. \A v \in Workers : v # w => place'[v] = place[v] /\ depth'[v] = depth[v]
    BY <1>9, <1>types DEF FinishDeciding, Return, GoTo, HintTypes
  <2>3. IF Retires(w) THEN place'[w] = "idle"
                      ELSE place'[w] = "between" /\ depth'[w] = depth[w]
    BY <1>9, <1>types DEF FinishDeciding, Return, GoTo, HintTypes
  <2>4. RetirementTypes'
    <3>1. NotDeciding \in Surveying
      BY NumWorkersAssumption DEF NotDeciding, Surveying, Nothing, Progress, Indices
    <3>2. Retires(w) \in BOOLEAN
      BY DEF Retires
    <3> QED BY <2>1, <3>1, <3>2 DEF RetirementTypes
  <2>5. config.retire /\ w \in begun
    BY <2>1 DEF Standing
  <2>6. \A v \in Indices : v # w => retired'[v] = retired[v] /\ survey'[v] = survey[v]
    BY <2>1 DEF RetirementTypes
  <2>7. retired'[w] = Retires(w)
    BY <2>1 DEF RetirementTypes
  <2>8. Standing'
    BY <2>1, <2>2, <2>3, <2>5, <2>6, <2>7 DEF Standing
  <2>9. Recorded'
    BY <2>1 DEF Recorded
  <2>10. Surveys'
    BY <2>1, <2>2, <2>3, <2>6 DEF Surveys
  <2>11. ASSUME Retires(w)
         PROVE  /\ \E c \in completions :
                     /\ c.by # w
                     /\ c.done.depth >= progress[w].depth + LEAD
                     /\ c.done.move = progress[w].move
                /\ \E v \in Indices \ {0} : progress[v].depth >= progress[w].depth + LEAD
    <3> DEFINE leader == survey[w].leader
               of == survey[w].of
    <3>1. /\ leader # 0 /\ leader # w
          /\ of.depth >= progress[w].depth + LEAD
          /\ of.move = progress[w].move /\ of.stable
      BY <2>11 DEF Retires, Yielding
    <3>2. of.depth <= progress[leader].depth /\ Record(leader, of) \in completions
      BY <2>1, <3>1 DEF Surveys
    <3>3. leader \in Indices /\ of.depth \in Nat
      BY DEF RetirementTypes, Surveying, Progress
    <3>4. progress[leader].depth \in Nat /\ progress[w].depth \in Nat
      BY <3>3 DEF RetirementTypes, Progress
    <3>5. progress[leader].depth >= progress[w].depth + LEAD
      BY <3>1, <3>2, <3>3, <3>4, LeadAssumption
    <3>6. Record(leader, of).by = leader /\ Record(leader, of).done = of
      BY DEF Record
    <3> QED BY <3>1, <3>2, <3>3, <3>5, <3>6
  <2>12. RetiresBehindALeader' /\ DeepestGoesOn'
    BY <2>1, <2>6, <2>7, <2>11 DEF RetiresBehindALeader, DeepestGoesOn
  <2> QED BY <2>4, <2>8, <2>9, <2>10, <2>12
<1> QED
  BY <1>1, <1>2, <1>3, <1>4, <1>5, <1>6, <1>7, <1>8, <1>9 DEF Next, LoopStep

LEMMA RetirementInvInitially == Init => RetirementInv
<1> SUFFICES ASSUME Init PROVE RetirementInv
  OBVIOUS
<1> USE IndicesAssumption DEF Init, RetirementInit
<1>1. NotDeciding \in Surveying
  BY NumWorkersAssumption DEF NotDeciding, Surveying, Nothing, Progress, Indices
<1>2. RetirementTypes
  BY <1>1 DEF RetirementTypes, Nothing, Progress
<1>3. Standing /\ Recorded /\ Surveys
  BY DEF Standing, Recorded, Surveys, Nothing
<1> QED BY <1>2, <1>3 DEF RetirementInv, RetiresBehindALeader, DeepestGoesOn

LEMMA BothHold == Spec => [](HintInv /\ RetirementInv)
BY HintInvInitially, HintInvHolds, RetirementInvInitially, RetirementInvHolds, PTL DEF Spec

(* A helper retires only behind one that has gone LEAD deeper with the     *)
(* same stable move in the same invocation.                                *)
THEOREM RetirementIsAgreed == Spec => []RetiresBehindALeader
<1>1. RetirementInv => RetiresBehindALeader
  BY DEF RetirementInv
<1> QED BY <1>1, BothHold, PTL

(* Overlapping decisions never retire the deepest helper.                  *)
THEOREM DeepestIsNeverRetired == Spec => []DeepestGoesOn
<1>1. RetirementInv => DeepestGoesOn
  BY DEF RetirementInv
<1> QED BY <1>1, BothHold, PTL
-----------------------------------------------------------------------------
(* The transposition table.                                                *)
(* A data word has no field of a key.                                      *)
Plain(w) == \A field \in w : field[1] # "key"

LEMMA KeyFields == \A p \in Positions : \A f \in KeyHash(p) : f[1] = "key" /\ f[2] = p
BY DEF KeyHash

(* What a reader that finds its key has loaded.                            *)
LEMMA Decode ==
  ASSUME NEW p \in Positions, NEW q \in Positions, NEW v, NEW w, Plain(v), Plain(w),
         Consistent(Xor(KeyHash(q), v), w, p)
  PROVE  p = q /\ v = w
<1>1. Xor(Xor(KeyHash(q), v), w) = KeyHash(p)
  BY DEF Consistent
<1>2. p = q
  <2>1. <<"key", p>> \in KeyHash(p)
    BY DEF KeyHash
  <2>2. <<"key", p>> \notin w /\ <<"key", p>> \notin v
    BY DEF Plain
  <2>3. <<"key", p>> \in KeyHash(q)
    BY <1>1, <2>1, <2>2 DEF Xor
  <2>4. QED
    BY <2>3 DEF KeyHash
<1>3. ASSUME NEW f, f \in v PROVE f \in w
  <2>1. f \notin KeyHash(q) /\ f \notin KeyHash(p)
    BY <1>3 DEF KeyHash, Plain
  <2>2. f \in Xor(KeyHash(q), v)
    BY <1>3, <2>1 DEF Xor
  <2>3. QED
    BY <1>1, <2>1, <2>2 DEF Xor
<1>4. ASSUME NEW f, f \in w PROVE f \in v
  <2>1. f \notin KeyHash(q) /\ f \notin KeyHash(p)
    BY <1>4 DEF KeyHash, Plain
  <2>2. f \in Xor(KeyHash(q), v)
    BY <1>1, <1>4, <2>1 DEF Xor
  <2>3. QED
    BY <2>1, <2>2 DEF Xor
<1>5. v = w
  BY <1>3, <1>4
<1>6. QED
  BY <1>2, <1>5

LEMMA EmptyKey ==
  ASSUME NEW p \in Positions, NEW w, Plain(w) PROVE ~Consistent({}, w, p)
<1>1. <<"key", p>> \in KeyHash(p) /\ <<"key", p>> \notin w
  BY DEF KeyHash, Plain
<1>2. QED
  BY <1>1 DEF Consistent, Xor

KeyOK(k) == \/ k = {}
            \/ \E p \in Positions : \E w : /\ Plain(w) /\ Own(p, w)
                                           /\ k = Xor(KeyHash(p), w)

LEMMA HitOwns ==
  ASSUME NEW k, NEW w, NEW p \in Positions, KeyOK(k), Plain(w), Consistent(k, w, p)
  PROVE  Own(p, w)
<1>1. k # {}
  BY EmptyKey
<1>2. PICK q \in Positions : \E v : Plain(v) /\ Own(q, v) /\ k = Xor(KeyHash(q), v)
  BY <1>1 DEF KeyOK
<1>3. PICK v : Plain(v) /\ Own(q, v) /\ k = Xor(KeyHash(q), v)
  BY <1>2
<1>4. Consistent(Xor(KeyHash(q), v), w, p)
  BY <1>3
<1>5. p = q /\ v = w
  BY <1>3, <1>4, Decode
<1>6. QED
  BY <1>3, <1>5

(* What is packed, alone or over an entry of the same position.            *)
LEMMA PackOwns ==
  ASSUME NEW p \in Positions, NEW entry \in Entries[p]
  PROVE  /\ Plain(Fresh(entry)) /\ Own(p, Fresh(entry))
         /\ \A w : Plain(w) /\ Own(p, w) =>
              Plain(Merged(entry, w)) /\ Own(p, Merged(entry, w))
<1>1. Plain(Pack(entry)) /\ Own(p, Pack(entry))
  <2>1. Plain(Pack(entry))
    BY DEF Plain, Pack
  <2>2. {<<"depth", entry.depth>>, <<"exact", entry.exact>>} \subseteq Pack(entry)
    BY DEF Pack
  <2>3. \A f \in MoveBits(Pack(entry)) : f[2] = entry.move
    BY DEF Pack, MoveBits
  <2>4. QED
    BY <2>1, <2>2, <2>3 DEF Own
<1>2. Plain(GenerationBits) /\ MoveBits(GenerationBits) = {}
  BY DEF Plain, GenerationBits, MoveBits
<1>3. ASSUME NEW w, Plain(w), Own(p, w), NEW extra, extra \subseteq MoveBits(w) \cup GenerationBits
      PROVE  Plain(Pack(entry) \cup extra) /\ Own(p, Pack(entry) \cup extra)
  <2>1. Plain(MoveBits(w))
    BY <1>3 DEF Plain, MoveBits
  <2>2. Plain(Pack(entry) \cup extra)
    BY <1>1, <1>2, <1>3, <2>1 DEF Plain
  <2>3. \A f \in MoveBits(Pack(entry) \cup extra) : f \in MoveBits(Pack(entry)) \/ f \in MoveBits(w)
    BY <1>2, <1>3 DEF MoveBits
  <2>4. QED
    BY <1>1, <1>3, <2>2, <2>3 DEF Own
<1>4. \A w : Plain(w) /\ Own(p, w) => Plain(Merged(entry, w)) /\ Own(p, Merged(entry, w))
  <2> SUFFICES ASSUME NEW w, Plain(w), Own(p, w)
               PROVE  Plain(Merged(entry, w)) /\ Own(p, Merged(entry, w))
    OBVIOUS
  <2> DEFINE moves == IF layout.keep /\ entry.move = Nil THEN MoveBits(w) ELSE {}
             bits == IF layout.keep \/ layout.bucket THEN GenerationBits ELSE {}
  <2>1. Merged(entry, w) = Pack(entry) \cup (moves \cup bits)
    BY DEF Merged
  <2>2. moves \cup bits \subseteq MoveBits(w) \cup GenerationBits
    OBVIOUS
  <2>3. QED
    BY <1>3, <2>1, <2>2
<1>5. Plain(Fresh(entry)) /\ Own(p, Fresh(entry))
  <2> DEFINE bits == IF layout.keep \/ layout.bucket THEN GenerationBits ELSE {}
  <2>1. Fresh(entry) = Pack(entry) \cup bits
    BY DEF Fresh
  <2>2. bits \subseteq MoveBits(Pack(entry)) \cup GenerationBits
    OBVIOUS
  <2>3. QED
    BY <1>1, <1>3, <2>1, <2>2
<1>6. QED
  BY <1>4, <1>5
-----------------------------------------------------------------------------
(* Each variable is a function on its domain.                              *)
Rows ==
  /\ pc = [t \in Threads |-> pc[t]] /\ op = [t \in Threads |-> op[t]]
  /\ at = [t \in Threads |-> at[t]] /\ seen = [t \in Threads |-> seen[t]]
  /\ victim = [t \in Threads |-> victim[t]] /\ word = [t \in Threads |-> word[t]]
  /\ \A t \in Threads : at[t] \in Slots /\ victim[t].slot \in Slots

Shape ==
  /\ data = [s \in Slots |-> data[s]] /\ key = [s \in Slots |-> key[s]]
  /\ Rows

SlotsOK == \A s \in Slots : Plain(data[s]) /\ KeyOK(key[s])

Working(t) == pc[t] \in {"load data", "load key", "write data", "write key"}

ThreadsOK ==
  \A t \in Threads :
    /\ Plain(seen[t])
    /\ Working(t) => op[t].position \in Positions
    /\ Working(t) /\ op[t].kind = "store" => op[t].entry \in Entries[op[t].position]
    /\ pc[t] \in {"write data", "write key"} =>
         Plain(word[t]) /\ Own(op[t].position, word[t])

TableInv == Shape /\ SlotsOK /\ ThreadsOK

LEMMA TableInvInitially == TableInit => TableInv
<1> SUFFICES ASSUME TableInit PROVE TableInv
  OBVIOUS
<1>1. Plain({}) /\ KeyOK({}) /\ 0 \in Slots
  BY NumbersAssumption DEF Plain, KeyOK, Slots
<1>2. Shape
  BY <1>1 DEF TableInit, Shape, Rows
<1>3. SlotsOK
  BY <1>1 DEF TableInit, SlotsOK
<1>4. ThreadsOK
  BY <1>1 DEF TableInit, ThreadsOK, Working
<1>5. QED
  BY <1>2, <1>3, <1>4 DEF TableInv

LEMMA RestRows ==
  ASSUME Rows, NEW t \in Threads, Rest(t) PROVE Rows'
<1>0. 0 \in Slots
  BY NumbersAssumption DEF Slots
<1>1. /\ pc' = [k \in Threads |-> pc'[k]] /\ op' = [k \in Threads |-> op'[k]]
      /\ at' = [k \in Threads |-> at'[k]] /\ seen' = [k \in Threads |-> seen'[k]]
  BY DEF Rest, Go, Rows
<1>2. /\ victim' = [k \in Threads |-> victim'[k]]
      /\ word' = [k \in Threads |-> word'[k]]
  BY DEF Rest, Rows
<1>3. \A k \in Threads : at'[k] \in Slots
  BY <1>0 DEF Rest, Rows
<1>4. \A k \in Threads : victim'[k] = victim[k] \/ victim'[k] = [slot |-> 0, worth |-> Nil]
  BY DEF Rest, Rows
<1>5. QED
  BY <1>0, <1>1, <1>2, <1>3, <1>4 DEF Rows

LEMMA NextSlotRows ==
  ASSUME Rows, NEW t \in Threads, MoreSlots(t), NextSlot(t), UNCHANGED <<op, word>>,
         victim' = victim \/ victim' = [victim EXCEPT ![t] = Least(t)]
  PROVE  Rows'
<1>0. \A i \in Slots : i < Last => i + 1 \in Slots
  BY NumbersAssumption DEF Slots
<1>1. Least(t).slot \in Slots
  BY DEF Least, Rows
<1>2. pc' = [k \in Threads |-> pc'[k]] /\ seen' = [k \in Threads |-> seen'[k]]
  BY DEF NextSlot, Go, Rows
<1>3. at' = [k \in Threads |-> at'[k]] /\ \A k \in Threads : at'[k] \in Slots
  BY <1>0 DEF NextSlot, MoreSlots, Rows
<1>4. victim' = [k \in Threads |-> victim'[k]] /\ \A k \in Threads : victim'[k].slot \in Slots
  BY <1>1 DEF Rows
<1>5. QED
  BY <1>2, <1>3, <1>4 DEF Rows

LEMMA WriteToRows ==
  ASSUME Rows, NEW t \in Threads, NEW s \in Slots, NEW w, WriteTo(t, s, w) PROVE Rows'
<1>1. /\ pc' = [k \in Threads |-> pc'[k]] /\ seen' = [k \in Threads |-> seen'[k]]
      /\ word' = [k \in Threads |-> word'[k]]
  BY DEF WriteTo, Go, Rows
<1>2. at' = [k \in Threads |-> at'[k]] /\ \A k \in Threads : at'[k] \in Slots
  BY DEF WriteTo, Rows
<1>3. QED
  BY <1>1, <1>2 DEF WriteTo, Rows

(* A thread changes its own row and one word of one slot at most.          *)
LEMMA StepShape == Shape /\ [TableNext]_tableVars => Shape'
<1> SUFFICES ASSUME Shape, [TableNext]_tableVars PROVE Shape'
  OBVIOUS
<1>0. 0 \in Slots /\ Slots \subseteq Int /\ \A i \in Slots : i < Last => i + 1 \in Slots
  BY NumbersAssumption DEF Slots
<1>1. ASSUME NEW t \in Threads, BeginProbe(t) \/ BeginStore(t) \/ LoadData(t) PROVE Shape'
  BY <1>1 DEF BeginProbe, BeginStore, LoadData, TableFrame, SlotFrame, Go, Shape, Rows
<1>2. ASSUME NEW t \in Threads, ProbeLoadsKey(t) PROVE Shape'
  BY <1>2, RestRows, NextSlotRows DEF ProbeLoadsKey, TableFrame, SlotFrame, Shape
<1>3. ASSUME NEW t \in Threads, StoreSamePosition(t) PROVE Shape'
  <2>1. at[t] \in Slots
    BY DEF Shape, Rows
  <2>2. QED
    BY <1>3, <2>1, RestRows, WriteToRows
    DEF StoreSamePosition, TableFrame, SlotFrame, Shape
<1>4. ASSUME NEW t \in Threads, StoreOtherPosition(t) PROVE Shape'
  <2>1. Least(t).slot \in Slots /\ at[t] \in Slots
    BY DEF Least, Shape, Rows
  <2>2. UNCHANGED <<data, key>>
    BY <1>4 DEF StoreOtherPosition, TableFrame, SlotFrame
  <2>3. Rows'
    BY <1>4, <2>1, NextSlotRows, WriteToRows DEF StoreOtherPosition, Shape
  <2>4. QED
    BY <2>2, <2>3 DEF Shape
<1>5. ASSUME NEW t \in Threads, WriteData(t) \/ WriteKey(t) PROVE Shape'
  <2>1. data' = [s \in Slots |-> data'[s]] /\ key' = [s \in Slots |-> key'[s]]
    BY <1>5 DEF WriteData, WriteKey, Shape, Rows
  <2>2. CASE WriteData(t)
    <3>1. Rows'
      BY <2>2 DEF WriteData, Go, Rows, Shape
    <3>2. QED
      BY <2>1, <3>1 DEF Shape
  <2>3. CASE WriteKey(t)
    BY <2>1, <2>3, RestRows DEF WriteKey, Shape
  <2>4. QED
    BY <1>5, <2>2, <2>3
<1>6. CASE NewSearch \/ ClearBegins \/ ClearData \/ ClearKey
  BY <1>6 DEF NewSearch, ClearBegins, ClearData, ClearKey, threadVars, clearVars, Shape, Rows
<1>7. CASE UNCHANGED tableVars
  BY <1>7 DEF tableVars, threadVars, Shape, Rows
<1>8. QED
  BY <1>1, <1>2, <1>3, <1>4, <1>5, <1>6, <1>7 DEF TableNext, ThreadStep

LEMMA StepSlots == TableInv /\ [TableNext]_tableVars => SlotsOK'
<1> SUFFICES ASSUME TableInv, [TableNext]_tableVars PROVE SlotsOK'
  OBVIOUS
<1>1. ASSUME NEW t \in Threads, WriteData(t) PROVE SlotsOK'
  BY <1>1 DEF WriteData, TableInv, SlotsOK, ThreadsOK, Shape, Rows
<1>2. ASSUME NEW t \in Threads, WriteKey(t) PROVE SlotsOK'
  <2>1. KeyOK(Xor(KeyHash(op[t].position), word[t]))
    BY <1>2 DEF WriteKey, TableInv, ThreadsOK, KeyOK, Working
  <2>2. UNCHANGED data /\ \A s \in Slots : key'[s] \in {key[s], Xor(KeyHash(op[t].position), word[t])}
    BY <1>2 DEF WriteKey, TableInv, Shape, Rows
  <2>3. QED
    BY <2>1, <2>2 DEF TableInv, SlotsOK
<1>3. CASE ClearData
  <2>1. Plain({}) /\ UNCHANGED key
    BY <1>3 DEF Plain, ClearData
  <2>2. \A s \in Slots : data'[s] \in {data[s], {}}
    BY <1>3 DEF ClearData, TableInv, Shape, Rows
  <2>3. QED
    BY <2>1, <2>2 DEF TableInv, SlotsOK
<1>4. CASE ClearKey
  <2>1. KeyOK({}) /\ UNCHANGED data
    BY <1>4 DEF KeyOK, ClearKey
  <2>2. \A s \in Slots : key'[s] \in {key[s], {}}
    BY <1>4 DEF ClearKey, TableInv, Shape, Rows
  <2>3. QED
    BY <2>1, <2>2 DEF TableInv, SlotsOK
<1>5. CASE UNCHANGED <<data, key>>
  BY <1>5 DEF TableInv, SlotsOK
<1>6. QED
  BY <1>1, <1>2, <1>3, <1>4, <1>5
  DEF TableNext, ThreadStep, BeginProbe, BeginStore, LoadData, ProbeLoadsKey, StoreSamePosition,
      StoreOtherPosition, TableFrame, SlotFrame, NewSearch, ClearBegins, tableVars

LEMMA StepThreads == TableInv /\ [TableNext]_tableVars => ThreadsOK'
<1> SUFFICES ASSUME TableInv, [TableNext]_tableVars, NEW k \in Threads
             PROVE  /\ Plain(seen'[k])
                    /\ Working(k)' => op'[k].position \in Positions
                    /\ Working(k)' /\ op'[k].kind = "store" =>
                         op'[k].entry \in Entries[op'[k].position]
                    /\ pc'[k] \in {"write data", "write key"} =>
                         Plain(word'[k]) /\ Own(op'[k].position, word'[k])
  BY DEF ThreadsOK, Working
<1> USE DEF TableInv
<1>0. Plain({})
  BY DEF Plain
<1>1. CASE \/ UNCHANGED threadVars
           \/ pc'[k] = pc[k] /\ op'[k] = op[k] /\ seen'[k] = seen[k] /\ word'[k] = word[k]
  BY <1>1 DEF threadVars, ThreadsOK, Working
<1>2. ASSUME NEW t \in Threads, t # k, ThreadStep(t)
      PROVE  pc'[k] = pc[k] /\ op'[k] = op[k] /\ seen'[k] = seen[k] /\ word'[k] = word[k]
  BY <1>2 DEF ThreadStep, BeginProbe, BeginStore, LoadData, ProbeLoadsKey, StoreSamePosition,
     StoreOtherPosition, WriteData, WriteKey, WriteTo, NextSlot, Rest, Go, Shape, Rows
<1>3. CASE BeginProbe(k) \/ BeginStore(k)
  <2>1. pc'[k] = "load data" /\ seen'[k] = seen[k] /\ word'[k] = word[k]
    BY <1>3 DEF BeginProbe, BeginStore, Go, Shape, Rows
  <2>2. /\ op'[k].position \in Positions
        /\ op'[k].kind = "store" => op'[k].entry \in Entries[op'[k].position]
    <3>1. CASE BeginProbe(k)
      <4>1. PICK position \in Positions :
              op' = [op EXCEPT ![k] = [kind |-> "probe", position |-> position, entry |-> Nil]]
        BY <3>1 DEF BeginProbe
      <4>2. op'[k] = [kind |-> "probe", position |-> position, entry |-> Nil]
        BY <4>1 DEF Shape, Rows
      <4>3. op'[k].position = position /\ op'[k].kind = "probe"
        BY <4>2
      <4>4. QED
        BY <4>3
    <3>2. CASE BeginStore(k)
      <4>1. PICK position \in Positions : \E entry \in Entries[position] :
              op' = [op EXCEPT ![k] = [kind |-> "store", position |-> position, entry |-> entry]]
        BY <3>2 DEF BeginStore
      <4>2. PICK entry \in Entries[position] :
              op' = [op EXCEPT ![k] = [kind |-> "store", position |-> position, entry |-> entry]]
        BY <4>1
      <4>3. op'[k] = [kind |-> "store", position |-> position, entry |-> entry]
        BY <4>2 DEF Shape, Rows
      <4>4. op'[k].position = position /\ op'[k].entry = entry
        BY <4>3
      <4>5. QED
        BY <4>4
    <3>3. QED
      BY <1>3, <3>1, <3>2
  <2>3. QED
    BY <2>1, <2>2 DEF ThreadsOK
<1>4. CASE LoadData(k)
  BY <1>4 DEF LoadData, Go, Shape, Rows, ThreadsOK, SlotsOK, Working
<1>5. CASE Rest(k)
  BY <1>0, <1>5 DEF Rest, Go, Shape, Rows, Working
<1>6. CASE NextSlot(k) /\ UNCHANGED op /\ Working(k)
  BY <1>0, <1>6 DEF NextSlot, Go, Shape, Rows, ThreadsOK, Working
<1>7. ASSUME Working(k), op[k].kind = "store",
             NEW s, NEW w, WriteTo(k, s, w), Plain(w), Own(op[k].position, w)
      PROVE  /\ Plain(seen'[k])
             /\ Working(k)' => op'[k].position \in Positions
             /\ Working(k)' /\ op'[k].kind = "store" =>
                  op'[k].entry \in Entries[op'[k].position]
             /\ pc'[k] \in {"write data", "write key"} =>
                  Plain(word'[k]) /\ Own(op'[k].position, word'[k])
  BY <1>0, <1>7 DEF WriteTo, Go, Shape, Rows, ThreadsOK, Working
<1>8. CASE StoreSamePosition(k)
  <2>1. Working(k) /\ op[k].kind = "store" /\ Hit(k) /\ at[k] \in Slots
    BY <1>8 DEF StoreSamePosition, StoreHits, Working, Shape, Rows
  <2>2. op[k].position \in Positions /\ op[k].entry \in Entries[op[k].position]
    BY <2>1 DEF ThreadsOK
  <2>3. Plain(seen[k]) /\ Own(op[k].position, seen[k])
    BY <2>1, <2>2, HitOwns DEF Hit, ThreadsOK, SlotsOK
  <2>4. /\ Plain(Merged(op[k].entry, seen[k]))
        /\ Own(op[k].position, Merged(op[k].entry, seen[k]))
    BY <2>2, <2>3, PackOwns
  <2>5. QED
    BY <1>5, <1>7, <1>8, <2>1, <2>4 DEF StoreSamePosition
<1>9. CASE StoreOtherPosition(k)
  <2>1. Working(k) /\ op[k].kind = "store"
    BY <1>9 DEF StoreOtherPosition, Working
  <2>2. op[k].position \in Positions /\ op[k].entry \in Entries[op[k].position]
    BY <2>1 DEF ThreadsOK
  <2>3. Plain(Fresh(op[k].entry)) /\ Own(op[k].position, Fresh(op[k].entry))
    BY <2>2, PackOwns
  <2>4. QED
    BY <1>6, <1>7, <1>9, <2>1, <2>3 DEF StoreOtherPosition
<1>10. CASE ProbeLoadsKey(k)
  BY <1>5, <1>6, <1>10 DEF ProbeLoadsKey, Working
<1>11. CASE WriteData(k)
  BY <1>11 DEF WriteData, Go, Shape, Rows, ThreadsOK, Working
<1>12. CASE WriteKey(k)
  BY <1>5, <1>12 DEF WriteKey
<1>13. QED
  BY <1>1, <1>2, <1>3, <1>4, <1>8, <1>9, <1>10, <1>11, <1>12
  DEF TableNext, ThreadStep, NewSearch, ClearBegins, ClearData, ClearKey, tableVars

(* A hit is an entry of its own position.                                  *)
THEOREM HitsAreOwn == TableSpec => []HitIsOwn
<1>1. TableInv => HitIsOwn
  <2> SUFFICES ASSUME TableInv, NEW t \in Threads
               PROVE  /\ pc[t] = "load key" /\ op[t].kind = "probe" /\ Hit(t) =>
                           Own(op[t].position, seen[t])
                      /\ pc[t] \in {"write data", "write key"} =>
                           Own(op[t].position, word[t])
    BY DEF HitIsOwn
  <2>1. at[t] \in Slots /\ Plain(seen[t]) /\ (Working(t) => op[t].position \in Positions)
    BY DEF TableInv, Shape, Rows, ThreadsOK
  <2>2. KeyOK(key[at[t]])
    BY <2>1 DEF TableInv, SlotsOK
  <2>3. QED
    BY <2>1, <2>2, HitOwns DEF TableInv, ThreadsOK, Hit, Working
<1>2. TableInit => TableInv
  BY TableInvInitially
<1>3. TableInv /\ [TableNext]_tableVars => TableInv'
  BY StepShape, StepSlots, StepThreads DEF TableInv
<1>4. QED
  BY <1>1, <1>2, <1>3, PTL DEF TableSpec

(* Where clear is.                                                         *)
Phase == clearing[1]
Here == clearing[2]

(* A key word that clear has passed is empty or belongs to a word stored   *)
(* since clear began.                                                      *)
Passed(s) == Phase = "idle" \/ s < Here

KeyRecorded(k) ==
  \/ k = {}
  \/ \E p \in Positions : \E w \in recorded[p] : Plain(w) /\ k = Xor(KeyHash(p), w)

ClearInv ==
  /\ Phase \in {"idle", "data", "key"}
  /\ Here \in Slots
  /\ recorded = [p \in Positions |-> recorded[p]]
  /\ \A s \in Slots : Passed(s) => KeyRecorded(key[s])

LEMMA ClearInvHolds ==
  ASSUME TableInv, ClearInv, [TableNext]_tableVars PROVE ClearInv'
<1>0. 0 \in Slots /\ Slots \subseteq Nat /\ (\A s \in Slots : s <= Last)
        /\ (\A s \in Slots : s # Last => s + 1 \in Slots)
  BY NumbersAssumption DEF Slots
<1>1. /\ Phase \in {"idle", "data", "key"} /\ Here \in Slots
      /\ recorded = [p \in Positions |-> recorded[p]]
      /\ \A s \in Slots : Passed(s) => KeyRecorded(key[s])
  BY DEF ClearInv
<1>2. key = [s \in Slots |-> key[s]]
  BY DEF TableInv, Shape
<1>3. UNCHANGED clearing => Phase' = Phase /\ Here' = Here
  BY DEF Phase, Here
<1>4. CASE UNCHANGED <<key, clearVars>>
  BY <1>1, <1>3, <1>4 DEF ClearInv, Passed, KeyRecorded, clearVars
<1>5. ASSUME NEW t \in Threads,
             BeginProbe(t) \/ BeginStore(t) \/ LoadData(t) \/ ProbeLoadsKey(t)
               \/ StoreSamePosition(t) \/ StoreOtherPosition(t) \/ WriteData(t)
      PROVE  UNCHANGED <<key, clearVars>>
  BY <1>5 DEF BeginProbe, BeginStore, LoadData, ProbeLoadsKey, StoreSamePosition,
     StoreOtherPosition, WriteData, TableFrame, SlotFrame
<1>6. ASSUME NEW t \in Threads, WriteKey(t) PROVE ClearInv'
  <2> DEFINE q == op[t].position
             w == word[t]
  <2>1. q \in Positions /\ Plain(w)
    BY <1>6 DEF WriteKey, TableInv, ThreadsOK, Working
  <2>2. /\ UNCHANGED clearing
        /\ recorded' = [recorded EXCEPT ![q] = @ \cup {w}]
        /\ key' = [key EXCEPT ![at[t]] = Xor(KeyHash(q), w)]
    BY <1>6 DEF WriteKey
  <2> HIDE DEF q, w
  <2>3. /\ recorded' = [p \in Positions |-> recorded'[p]]
        /\ \A p \in Positions : recorded[p] \subseteq recorded'[p]
        /\ w \in recorded'[q]
    BY <1>1, <2>1, <2>2
  <2>4. \A s \in Slots : key'[s] = key[s] \/ key'[s] = Xor(KeyHash(q), w)
    BY <1>2, <2>2
  <2>5. ASSUME NEW s \in Slots, Passed(s)' PROVE KeyRecorded(key[s])'
    <3>1. KeyRecorded(key[s])
      BY <1>1, <1>3, <2>2, <2>5 DEF Passed
    <3>2. CASE key'[s] = key[s]
      BY <2>3, <3>1, <3>2 DEF KeyRecorded
    <3>3. CASE key'[s] = Xor(KeyHash(q), w)
      BY <2>1, <2>3, <3>3 DEF KeyRecorded
    <3>4. QED
      BY <2>4, <3>2, <3>3
  <2>6. QED
    BY <1>1, <1>3, <2>2, <2>3, <2>5 DEF ClearInv
<1>7. CASE ClearBegins
  <2>1. Phase' = "data" /\ Here' = 0 /\ recorded' = [p \in Positions |-> {}]
    BY <1>7 DEF ClearBegins, Phase, Here
  <2>2. \A s \in Slots : ~(s < 0)
    BY <1>0
  <2>3. QED
    BY <1>0, <2>1, <2>2 DEF ClearInv, Passed
<1>8. CASE ClearData
  <2>1. Phase = "data" /\ Phase' = "key" /\ Here' = Here /\ UNCHANGED <<key, recorded>>
    BY <1>8 DEF ClearData, Phase, Here
  <2>2. QED
    BY <1>1, <2>1 DEF ClearInv, Passed, KeyRecorded
<1>9. CASE ClearKey
  <2>1. Phase = "key" /\ key' = [key EXCEPT ![Here] = {}] /\ UNCHANGED recorded
    BY <1>9 DEF ClearKey, Phase, Here
  <2>2. \/ Here = Last /\ Phase' = "idle" /\ Here' = 0
        \/ Here # Last /\ Phase' = "data" /\ Here' = Here + 1
    BY <1>9 DEF ClearKey, ClearedAll, Phase, Here
  <2>3. ASSUME NEW s \in Slots, Passed(s)' PROVE s < Here \/ s = Here
    <3>1. /\ Here = Last => s < Here \/ s = Here
          /\ s < Here + 1 => s < Here \/ s = Here
      BY <1>0, <1>1
    <3>2. QED
      BY <2>2, <2>3, <3>1 DEF Passed
  <2>4. ASSUME NEW s \in Slots, Passed(s)' PROVE KeyRecorded(key[s])'
    <3>1. CASE s = Here
      BY <1>2, <2>1, <3>1 DEF KeyRecorded
    <3>2. CASE s # Here
      <4>1. Passed(s) /\ key'[s] = key[s]
        BY <1>2, <2>1, <2>3, <2>4, <3>2 DEF Passed
      <4>2. QED
        BY <1>1, <2>1, <4>1 DEF KeyRecorded
    <3>3. QED
      BY <3>1, <3>2
  <2>5. QED
    BY <1>0, <1>1, <2>1, <2>2, <2>4 DEF ClearInv
<1>10. CASE NewSearch \/ UNCHANGED tableVars
  BY <1>4, <1>10 DEF NewSearch, tableVars
<1>11. QED
  BY <1>4, <1>5, <1>6, <1>7, <1>8, <1>9, <1>10 DEF TableNext, ThreadStep

(* What is found for a position after clear has returned was stored for    *)
(* that position, as a whole, since clear began.                           *)
THEOREM HitsWereStored == TableSpec => []HitWasStored
<1>1. TableInv /\ ClearInv => HitWasStored
  <2> SUFFICES ASSUME TableInv, ClearInv, Phase = "idle",
                      NEW t \in Threads, pc[t] = "load key", Hit(t)
               PROVE  seen[t] \in recorded[op[t].position]
    BY DEF HitWasStored, Phase
  <2>1. at[t] \in Slots /\ Plain(seen[t]) /\ op[t].position \in Positions
    BY DEF TableInv, Shape, Rows, ThreadsOK, Working
  <2>2. Consistent(key[at[t]], seen[t], op[t].position) /\ KeyRecorded(key[at[t]])
    BY <2>1 DEF Hit, ClearInv, Passed
  <2>3. key[at[t]] # {}
    BY <2>1, <2>2, EmptyKey
  <2>4. PICK q \in Positions : \E w \in recorded[q] :
               Plain(w) /\ key[at[t]] = Xor(KeyHash(q), w)
    BY <2>2, <2>3 DEF KeyRecorded
  <2>5. PICK w \in recorded[q] : Plain(w) /\ key[at[t]] = Xor(KeyHash(q), w)
    BY <2>4
  <2>6. Consistent(Xor(KeyHash(q), w), seen[t], op[t].position)
    BY <2>2, <2>5
  <2>7. op[t].position = q /\ w = seen[t]
    BY <2>1, <2>5, <2>6, Decode
  <2>8. QED
    BY <2>5, <2>7
<1>2. TableInit => TableInv /\ ClearInv
  <2> SUFFICES ASSUME TableInit PROVE ClearInv
    BY TableInvInitially
  <2>1. 0 \in Slots
    BY NumbersAssumption DEF Slots
  <2>2. QED
    BY <2>1 DEF TableInit, ClearInv, Phase, Here, KeyRecorded
<1>3. TableInv /\ ClearInv /\ [TableNext]_tableVars => (TableInv /\ ClearInv)'
  BY StepShape, StepSlots, StepThreads, ClearInvHolds DEF TableInv
<1>4. QED
  BY <1>1, <1>2, <1>3, PTL DEF TableSpec
=============================================================================
