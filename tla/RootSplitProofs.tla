-------------------------- MODULE RootSplitProofs ---------------------------
(***************************************************************************)
(* Proofs about RootSplit for any number of helpers and moves, any scores, *)
(* any window and any quota: no move is settled twice, none is lost, and   *)
(* the score of the pass is the one a single thread would have found.      *)
(***************************************************************************)
EXTENDS RootSplit, TLAPS

USE WindowAssumption, ScoresAssumption, CountsAssumption

(* The main worker's steps change helper only by Dispatch.                 *)
HelperAct == \E h \in Helpers : HelperStep(h) \/ SpuriousWake(h) \/ Panic(h)

LEMMA HelperPlacesHold ==
  /\ \A place \in {"idle", "ready", "claim", "recheck", "parked", "probing",
                   "publishing", "finished", "dead"} : place \in HelperPlaces
BY DEF HelperPlaces

LEMMA MoveTypes ==
  ASSUME NEW h \in Helpers, NEW place \in HelperPlaces,
         helper \in [Helpers -> HelperPlaces], Move(h, place)
  PROVE  /\ helper' \in [Helpers -> HelperPlaces]
         /\ helper'[h] = place
         /\ \A k \in Helpers \ {h} : helper'[k] = helper[k]
BY DEF Move

LEMMA InitType == Init => TypeOK
<1> SUFFICES ASSUME Init PROVE TypeOK
  OBVIOUS
<1>1. helper \in [Helpers -> HelperPlaces]
  BY HelperPlacesHold DEF Init
<1>2. main \in MainPlaces /\ verdict \in Verdicts
  BY DEF Init, MainPlaces, Verdicts
<1>3. /\ next \in 1 .. NumMoves /\ scan \in 1 .. NumMoves /\ current \in Moves
      /\ task \in [Helpers -> Moves] /\ snapshot \in [Helpers -> Scores \cup {Lo}]
  BY DEF Init, Moves
<1>4. /\ advice \in [Moves -> Scores \cup {None}] /\ quota \in 0 .. Quota
      /\ token \in [Helpers -> BOOLEAN]
  BY DEF Init
<1>5. /\ mode \in Modes /\ value \in [Moves -> Scores]
      /\ stopped \in BOOLEAN /\ cancel \in BOOLEAN /\ pending \in BOOLEAN
      /\ alpha \in Scores \cup {Lo} /\ best \in Moves \cup {None}
      /\ searched \subseteq Moves /\ pruned \subseteq Moves
      /\ phase \in {"loop", "drain", "final"}
  BY DEF Init
<1>6. QED
  BY <1>1, <1>2, <1>3, <1>4, <1>5 DEF TypeOK

LEMMA HelperType == TypeOK /\ HelperAct => TypeOK'
<1> SUFFICES ASSUME TypeOK,
                    NEW h \in Helpers,
                    HelperStep(h) \/ SpuriousWake(h) \/ Panic(h)
             PROVE  TypeOK'
  BY DEF HelperAct
<1>1. HelperFrame
  BY DEF HelperStep, SpuriousWake, Panic, Continue, Claim, Recheck, Wake,
         ProbeReturns, Publish
<1>2. \E place \in {"ready", "claim", "recheck", "parked", "probing", "publishing",
                    "finished", "dead"} : Move(h, place)
  BY DEF HelperStep, SpuriousWake, Panic, Continue, Claim, ClaimNext, Recheck, Wake,
         ProbeReturns, Publish
<1>3. helper' \in [Helpers -> HelperPlaces]
  BY <1>2, HelperPlacesHold, MoveTypes DEF TypeOK
<1>4. cancel' \in BOOLEAN /\ pending' = pending /\ token' \in [Helpers -> BOOLEAN]
  BY DEF TypeOK, HelperStep, SpuriousWake, Panic, Cancel, Continue, Claim, Recheck,
         Wake, ProbeReturns, Publish
<1>5. next' \in 1 .. NumMoves /\ quota' \in 0 .. Quota
  BY DEF TypeOK, HelperStep, SpuriousWake, Panic, Continue, Claim, ClaimNext, Recheck,
         Wake, ProbeReturns, Publish
<1>6. task' \in [Helpers -> Moves]
  BY DEF TypeOK, HelperStep, SpuriousWake, Panic, Continue, Claim, ClaimNext, Recheck,
         Wake, ProbeReturns, Publish, Forget, Moves
<1>7. snapshot' \in [Helpers -> Scores \cup {Lo}]
  BY DEF TypeOK, HelperStep, SpuriousWake, Panic, Continue, Claim, ClaimNext, Recheck,
         Wake, ProbeReturns, Publish, Forget
<1>8. advice' \in [Moves -> Scores \cup {None}]
  BY DEF TypeOK, HelperStep, SpuriousWake, Panic, Continue, Claim, Recheck,
         Wake, ProbeReturns, Publish
<1>9. pruned' \subseteq Moves
  BY DEF TypeOK, HelperStep, SpuriousWake, Panic, Continue, Claim, Recheck,
         Wake, ProbeReturns, Publish
<1>10. QED
  BY <1>1, <1>3, <1>4, <1>5, <1>6, <1>7, <1>8, <1>9
  DEF TypeOK, HelperFrame, configVars, resultVars

LEMMA MainPlacesHold ==
  /\ \A place \in {"begin", "first", "scan", "confirm", "claim", "scout", "drain",
                   "join", "finish", "done"} : place \in MainPlaces
  /\ \A v \in {"none", "aborted", "panicked", "low", "lower", "exact"} : v \in Verdicts
BY DEF MainPlaces, Verdicts

LEMMA MovesFact == /\ Moves \subseteq Int /\ 0 \in Moves /\ None \notin Moves
                   /\ \A m \in Moves : 0 <= m /\ m < NumMoves
                   /\ \A m \in 1 .. NumMoves : m < NumMoves => m \in Moves
BY DEF Moves

(* What the main worker does to the result and to its own place.           *)
LEMMA MainParts ==
  ASSUME TypeOK, MainStep
  PROVE  /\ MainFrame
         /\ \/ UNCHANGED resultVars
            \/ /\ main = "first" /\ Accept(0) /\ ~stopped
            \/ /\ main \in {"scout", "confirm"} /\ Accept(current) /\ ~stopped
            \/ /\ main = "scout" /\ searched' = searched \cup {current}
               /\ value[current] > alpha /\ current \in pruned'
               /\ UNCHANGED <<alpha, best>>
         /\ \/ UNCHANGED helper
            \/ Dispatch /\ main \in {"begin", "first"}
         /\ \/ UNCHANGED <<cancel, token>>
            \/ Cancel
            \/ UNCHANGED cancel /\ token' = [h \in Helpers |-> TRUE]
BY DEF MainStep, Begin, FirstReturns, PrestartFirstReturns, ScanStops, ScanSlot,
       ScanPriority, ConfirmReturns, MainClaims, ScoutReturns, Drain, Join, Finish,
       MainFrame, ScanFrame, OpenGate, CancelIf, resultVars

LEMMA MainType == TypeOK /\ MainStep => TypeOK'
<1> SUFFICES ASSUME TypeOK, MainStep PROVE TypeOK'
  OBVIOUS
<1> USE DEF MainStep
<1>1. MainFrame
  BY MainParts
<1>2. main' \in MainPlaces
  BY MainPlacesHold
  DEF TypeOK, Begin, FirstReturns, PrestartFirstReturns, ScanStops, ScanSlot,
      ScanPriority, ConfirmReturns, MainClaims, ScoutReturns, Drain, Join, Finish,
      StartScan, AfterScan, AfterLoop, Take
<1>3. verdict' \in Verdicts
  BY MainPlacesHold
  DEF TypeOK, Begin, FirstReturns, PrestartFirstReturns, ScanStops, ScanSlot, ScanFrame,
      ScanPriority, ConfirmReturns, MainClaims, ScoutReturns, Drain, Join, Finish
<1>4. alpha' \in Scores \cup {Lo} /\ best' \in Moves \cup {None} /\ searched' \subseteq Moves
  <2>1. \A m \in Moves : value[m] \in Scores
    BY DEF TypeOK
  <2>2. current \in Moves /\ 0 \in Moves
    BY MovesFact DEF TypeOK
  <2>3. CASE UNCHANGED resultVars
    BY <2>3 DEF TypeOK, resultVars
  <2>4. CASE \E m \in Moves : Accept(m)
    BY <2>1, <2>4 DEF TypeOK, Accept
  <2>5. CASE searched' = searched \cup {current} /\ UNCHANGED <<alpha, best>>
    BY <2>2, <2>5 DEF TypeOK
  <2>6. QED
    BY <2>2, <2>3, <2>4, <2>5, MainParts
<1>5. helper' \in [Helpers -> HelperPlaces]
  BY MainParts, HelperPlacesHold DEF TypeOK, Dispatch
<1>6. cancel' \in BOOLEAN /\ token' \in [Helpers -> BOOLEAN]
  BY MainParts DEF TypeOK, Cancel
<1>7. pending' \in BOOLEAN /\ quota' = quota
  BY DEF TypeOK, Begin, FirstReturns, PrestartFirstReturns, ScanStops, ScanSlot,
         ScanFrame, ScanPriority, ConfirmReturns, MainClaims, ScoutReturns, Drain, Join,
         Finish, OpenGate
<1>8. next' \in 1 .. NumMoves
  BY DEF TypeOK, Begin, FirstReturns, PrestartFirstReturns, ScanStops, ScanSlot,
         ScanFrame, ScanPriority, ConfirmReturns, MainClaims, ScoutReturns, Drain, Join,
         Finish
<1>9. phase' \in {"loop", "drain", "final"} /\ scan' \in 1 .. NumMoves
  BY DEF TypeOK, Begin, FirstReturns, PrestartFirstReturns, ScanStops, ScanSlot,
         ScanFrame, ScanPriority, ConfirmReturns, MainClaims, ScoutReturns, Drain, Join,
         Finish, StartScan
<1>10. current' \in Moves
  BY MovesFact
  DEF TypeOK, Begin, FirstReturns, PrestartFirstReturns, ScanStops, ScanSlot,
      ScanPriority, ConfirmReturns, MainClaims, ScoutReturns, Drain, Join, Finish, Take,
      HighestAdvice
<1>11. advice' \in [Moves -> Scores \cup {None}]
  BY DEF TypeOK, Begin, FirstReturns, PrestartFirstReturns, ScanStops, ScanSlot,
         ScanPriority, ConfirmReturns, MainClaims, ScoutReturns, Drain, Join, Finish, Take
<1>12. pruned' \subseteq Moves
  BY DEF TypeOK, Begin, FirstReturns, PrestartFirstReturns, ScanStops, ScanSlot,
         ScanFrame, ScanPriority, ConfirmReturns, MainClaims, ScoutReturns, Drain, Join,
         Finish
<1>13. QED
  BY <1>1, <1>2, <1>3, <1>4, <1>5, <1>6, <1>7, <1>8, <1>9, <1>10, <1>11, <1>12
  DEF TypeOK, MainFrame, configVars

LEMMA NextSplit ==
  [Next]_vars <=> MainStep \/ HelperAct \/ Stop \/ UNCHANGED vars \/ Terminated
BY DEF Next, HelperAct

LEMMA StepType == TypeOK /\ [Next]_vars => TypeOK'
<1> SUFFICES ASSUME TypeOK, [Next]_vars PROVE TypeOK'
  OBVIOUS
<1>1. CASE MainStep
  BY <1>1, MainType
<1>2. CASE HelperAct
  BY <1>2, HelperType
<1>3. CASE Stop
  BY <1>3 DEF Stop, TypeOK, configVars, helperVars, resultVars
<1>4. CASE UNCHANGED vars \/ Terminated
  BY <1>4 DEF TypeOK, Terminated, vars, configVars, helperVars, resultVars
<1>5. QED
  BY <1>1, <1>2, <1>3, <1>4, NextSplit

(* The types hold for any constants.                                       *)
THEOREM TypeCorrect == Spec => []TypeOK
<1>1. Init => TypeOK
  BY InitType
<1>2. TypeOK /\ [Next]_vars => TypeOK'
  BY StepType
<1>3. QED
  BY <1>1, <1>2, PTL DEF Spec
-----------------------------------------------------------------------------
(* Numbers.                                                                *)
Better ==
  /\ \A m \in Moves : value[m] \in Int
  /\ alpha \in Int /\ Lo <= alpha
  /\ best = None => alpha = Lo
  /\ best # None => best \in Moves /\ alpha = value[best] /\ Lo < alpha
  /\ \A h \in Helpers : snapshot[h] \in Int /\ snapshot[h] <= alpha

LEMMA Values == TypeOK => /\ \A m \in Moves : value[m] \in Int
                         /\ alpha \in Int /\ next \in Int /\ current \in Moves
                         /\ \A h \in Helpers : snapshot[h] \in Int /\ task[h] \in Moves
                         /\ NumMoves \in Int
<1> SUFFICES ASSUME TypeOK
             PROVE  /\ \A m \in Moves : value[m] \in Int
                    /\ alpha \in Int /\ next \in Int /\ current \in Moves
                    /\ \A h \in Helpers : snapshot[h] \in Int /\ task[h] \in Moves
                    /\ NumMoves \in Int
  OBVIOUS
<1>1. value \in [Moves -> Scores] /\ alpha \in Scores \cup {Lo} /\ next \in 1 .. NumMoves
      /\ current \in Moves
  BY DEF TypeOK
<1>2. task \in [Helpers -> Moves] /\ snapshot \in [Helpers -> Scores \cup {Lo}]
  BY DEF TypeOK
<1>3. \A m \in Moves : value[m] \in Scores
  BY <1>1
<1>4. \A h \in Helpers : snapshot[h] \in Scores \cup {Lo} /\ task[h] \in Moves
  BY <1>2
<1>5. Scores \cup {Lo} \subseteq Int /\ Scores \subseteq Int
  OBVIOUS
<1>6. \A m \in Moves : value[m] \in Int
  BY <1>3, <1>5
<1>7. \A h \in Helpers : snapshot[h] \in Int /\ task[h] \in Moves
  BY <1>4, <1>5
<1>8. alpha \in Int
  BY <1>1, <1>5
<1>9. next \in Int /\ NumMoves \in Int
  BY <1>1
<1>10. QED
  BY <1>1, <1>6, <1>7, <1>8, <1>9

LEMMA InitBetter == Init => Better
<1> SUFFICES ASSUME Init PROVE Better
  OBVIOUS
<1>1. TypeOK
  BY InitType
<1>2. alpha = Lo /\ best = None /\ \A h \in Helpers : snapshot[h] = Lo
  BY DEF Init
<1>3. QED
  BY <1>1, <1>2, Values DEF Better

LEMMA StepBetter == TypeOK /\ Better /\ [Next]_vars => Better'
<1> SUFFICES ASSUME TypeOK, Better, [Next]_vars PROVE Better'
  OBVIOUS
<1>0. value' = value
  BY NextSplit, MainParts
  DEF MainFrame, HelperAct, HelperStep, HelperFrame, Continue, Claim, Recheck, Wake,
      SpuriousWake, ProbeReturns, Publish, Panic, Stop, Terminated, vars, configVars
<1>1. CASE MainStep
  <2>1. UNCHANGED snapshot
    BY <1>1, MainParts DEF MainFrame
  <2>2. CASE UNCHANGED resultVars
    BY <1>0, <2>1, <2>2 DEF Better, resultVars
  <2>3. CASE \E m \in Moves : Accept(m)
    BY <1>0, <2>1, <2>3, Values, MovesFact DEF Better, Accept
  <2>4. CASE UNCHANGED <<alpha, best>>
    BY <1>0, <2>1, <2>4 DEF Better
  <2>5. QED
    BY <1>1, <2>2, <2>3, <2>4, MainParts, MovesFact, Values
<1>2. CASE HelperAct
  <2>1. UNCHANGED <<alpha, best>>
    BY <1>2 DEF HelperAct, HelperStep, HelperFrame, Continue, Claim, Recheck, Wake,
         SpuriousWake, ProbeReturns, Publish, Panic, resultVars
  <2>2. \E h \in Helpers : \/ UNCHANGED snapshot
                           \/ snapshot' = [snapshot EXCEPT ![h] = Lo]
                           \/ snapshot' = [snapshot EXCEPT ![h] = alpha]
    BY <1>2 DEF HelperAct, HelperStep, Continue, Claim, ClaimNext, Recheck, Wake,
         SpuriousWake, ProbeReturns, Publish, Panic, Forget, TypeOK
  <2>3. snapshot \in [Helpers -> Scores \cup {Lo}]
    BY DEF TypeOK
  <2>4. QED
    BY <1>0, <2>1, <2>2, <2>3 DEF Better
<1>3. CASE Stop
  BY <1>3 DEF Stop, Better, configVars, helperVars, resultVars
<1>4. CASE UNCHANGED vars \/ Terminated
  BY <1>4 DEF Terminated, Better, vars, configVars, helperVars, resultVars
<1>5. QED
  BY <1>1, <1>2, <1>3, <1>4, NextSplit
-----------------------------------------------------------------------------
(* Where the main worker is and where the helpers are.                     *)
Excused == stopped \/ alpha >= Hi \/ \E h \in Helpers : helper[h] = "dead"

AllIdle == \A h \in Helpers : helper[h] = "idle"
Gone == \A h \in Helpers : helper[h] \in {"idle", "finished"}
Before == main = "begin" \/ (main = "first" /\ ~mode.prestart)

Stage ==
  /\ Before => AllIdle
  /\ main \in {"begin", "first", "claim", "scout"} => phase = "loop"
  /\ main # "done" /\ (main = "finish" \/ phase = "final") => Gone
  /\ main # "done" /\ cancel => Excused
  /\ main \in {"drain", "join", "finish"} \/ phase \in {"drain", "final"}
       => next >= NumMoves \/ Excused \/ main = "done"
  /\ main = "done" => HelpersGone
  /\ verdict # "none" => main = "done"

LEMMA InitStage == Init => Stage
BY DEF Init, Stage, AllIdle, Before, HelpersGone

LEMMA StageHelper ==
  TypeOK /\ Better /\ Stage /\ HelperAct => Stage'
<1> SUFFICES ASSUME TypeOK, Better, Stage,
                    NEW h \in Helpers,
                    HelperStep(h) \/ SpuriousWake(h) \/ Panic(h)
             PROVE  Stage'
  BY DEF HelperAct
<1> DEFINE Busy == {"ready", "claim", "recheck", "parked", "probing", "publishing"}
<1>1. helper[h] \in Busy
  BY DEF HelperStep, SpuriousWake, Panic, Continue, Claim, Recheck, Wake, ProbeReturns,
         Publish
<1>2. ~AllIdle /\ ~Gone /\ ~HelpersFinished
  BY <1>1 DEF AllIdle, Gone, HelpersFinished, Done
<1>3. main # "done" /\ ~Before /\ main # "finish" /\ phase # "final"
  BY <1>1, <1>2 DEF Stage, HelpersGone, Done
<1>4. UNCHANGED <<main, phase, verdict, stopped, alpha, mode>>
  BY DEF HelperStep, SpuriousWake, Panic, Continue, Claim, Recheck, Wake, ProbeReturns,
         Publish, HelperFrame, configVars, resultVars
<1>5. cancel' = cancel \/ helper'[h] = "dead"
  BY MoveTypes, HelperPlacesHold
  DEF TypeOK, HelperStep, SpuriousWake, Panic, Continue, Claim, Recheck, Wake,
      ProbeReturns, Publish
<1>6. \A k \in Helpers \ {h} : helper'[k] = helper[k]
  BY DEF HelperStep, SpuriousWake, Panic, Continue, Claim, ClaimNext, Recheck, Wake,
         ProbeReturns, Publish, Move, TypeOK
<1>7. Excused => Excused'
  BY <1>1, <1>4, <1>6 DEF Excused
<1>8. next <= next'
  BY Values DEF HelperStep, SpuriousWake, Panic, Continue, Claim, ClaimNext, Recheck, Wake,
         ProbeReturns, Publish
<1>9. next \in Int /\ next' \in Int
  <2>1. TypeOK'
    BY HelperType DEF HelperAct
  <2>2. next' \in 1 .. NumMoves
    BY <2>1 DEF TypeOK
  <2>3. QED
    BY <2>2, Values
<1>10. cancel' => Excused'
  BY <1>3, <1>5, <1>7 DEF Stage, Excused
<1>11. QED
  BY <1>3, <1>4, <1>7, <1>8, <1>9, <1>10, Values DEF Stage, Before

LEMMA StageMain ==
  TypeOK /\ Better /\ Stage /\ MainStep => Stage'
<1> SUFFICES ASSUME TypeOK, Better, Stage, MainStep PROVE Stage'
  OBVIOUS
<1>1. UNCHANGED <<mode, stopped, value>>
  BY MainParts DEF MainFrame, configVars
<1>2. alpha \in Int /\ alpha' \in Int /\ alpha <= alpha' /\ next \in Int /\ current \in Moves
  <2>1. TypeOK'
    BY MainType
  <2>2. \A m \in Moves : value[m] \in Int
    BY DEF Better
  <2>3. alpha' \in Int
    BY <2>1 DEF TypeOK
  <2>4. QED
    BY <2>2, <2>3, MainParts, MovesFact, Values DEF Accept, resultVars
<1>3. ASSUME UNCHANGED helper, Excused PROVE Excused'
  BY <1>1, <1>2, <1>3 DEF Excused
<1>4. CASE Begin
  <2>1. UNCHANGED <<phase, cancel, alpha, next>> /\ phase = "loop" /\ AllIdle /\ main = "begin"
    BY <1>4 DEF Begin, Stage, Before, resultVars
  <2>2. CASE main' = "done" /\ UNCHANGED helper
    BY <1>4, <2>1, <2>2 DEF Stage, AllIdle, Before, HelpersGone, Done
  <2>3. CASE main' = "first" /\ UNCHANGED <<verdict, helper>>
    BY <1>1, <1>3, <2>1, <2>3 DEF Stage, AllIdle, Before
  <2>4. CASE main' = "first" /\ UNCHANGED verdict /\ mode.prestart
    BY <1>1, <2>1, <2>4 DEF Stage, AllIdle, Before, Excused
  <2>5. QED
    BY <1>4, <2>2, <2>3, <2>4 DEF Begin
<1>5. CASE FirstReturns
  <2>1. AllIdle /\ phase = "loop" /\ verdict = "none"
    BY <1>5 DEF FirstReturns, Stage, Before
  <2>2. CASE stopped
    BY <1>5, <2>1, <2>2 DEF FirstReturns, Stage, Before, AllIdle, HelpersGone, Done
  <2>3. CASE ~stopped /\ alpha' < Hi /\ NumMoves > 1
    <3>1. ~Excused
      BY <1>2, <1>5, <2>1, <2>3 DEF Excused, AllIdle
    <3>2. main # "done" /\ ~cancel
      BY <1>5, <3>1 DEF FirstReturns, Stage
    <3>3. main' = "scan" /\ phase' = "loop" /\ UNCHANGED <<cancel, verdict>>
      BY <1>5, <2>3 DEF FirstReturns, StartScan
    <3>4. QED
      BY <2>1, <3>2, <3>3 DEF Stage, Before
  <2>4. CASE ~stopped /\ ~(alpha' < Hi /\ NumMoves > 1)
    <3>1. alpha' >= Hi \/ next' >= NumMoves
      BY <1>2, <1>5, <2>4 DEF FirstReturns, TypeOK
    <3>2. UNCHANGED <<helper, phase, verdict, cancel>> /\ main' = "finish"
      BY <1>5, <2>4 DEF FirstReturns
    <3>3. cancel => Excused
      BY <1>5 DEF Stage, FirstReturns
    <3>4. QED
      BY <1>3, <1>5, <2>1, <3>1, <3>2, <3>3
      DEF FirstReturns, Stage, Before, AllIdle, Gone, Excused
  <2>5. QED
    BY <2>2, <2>3, <2>4
<1>6. CASE PrestartFirstReturns
  <2>1. UNCHANGED <<helper, verdict>> /\ phase = "loop" /\ main \notin {"done", "finish"}
    BY <1>6 DEF PrestartFirstReturns, Stage
  <2>2. CASE stopped \/ alpha' >= Hi \/ cancel
    <3>1. Excused'
      BY <1>1, <1>3, <2>1, <2>2 DEF Excused, Stage
    <3>2. main' = "join" /\ phase' = "loop"
      BY <1>6, <2>1, <2>2 DEF PrestartFirstReturns
    <3>3. QED
      BY <1>6, <2>1, <3>1, <3>2 DEF Stage, Before
  <2>3. CASE ~(stopped \/ alpha' >= Hi \/ cancel)
    <3>1. main' = "scan" /\ phase' = "loop" /\ cancel' = cancel
      BY <1>6, <2>3 DEF PrestartFirstReturns, StartScan, OpenGate
    <3>2. QED
      BY <1>3, <1>6, <2>1, <2>3, <3>1 DEF Stage, Before
  <2>4. QED
    BY <2>2, <2>3
<1>7. CASE ScanStops \/ ScanSlot \/ ScanPriority \/ ConfirmReturns
  <2>1. UNCHANGED <<helper, verdict, phase, next>> /\ main \in {"scan", "confirm"}
    BY <1>7 DEF ScanStops, ScanSlot, ScanPriority, ConfirmReturns, ScanFrame
  <2>2. main' \in {"scan", "confirm", AfterScan}
    BY <1>7 DEF ScanStops, ScanSlot, ScanPriority, ConfirmReturns, Take
  <2>3. cancel' => cancel \/ Enough
    BY <1>7 DEF ScanStops, ScanSlot, ScanPriority, ConfirmReturns, Cancel, Enough
  <2>4. cancel' => Excused'
    BY <1>1, <1>2, <1>3, <2>1, <2>3 DEF Stage, Excused, Enough
  <2>5. AfterScan = "claim" => phase = "loop"
    BY DEF AfterScan, TypeOK
  <2>6. AfterScan = "drain" => phase = "drain"
    BY DEF AfterScan, TypeOK
  <2>7. AfterScan = "finish" => phase = "final"
    BY DEF AfterScan, TypeOK
  <2>8. AfterScan \in {"claim", "drain", "finish"}
    BY DEF AfterScan
  <2>9. QED
    BY <1>1, <1>3, <2>1, <2>2, <2>4, <2>5, <2>6, <2>7, <2>8
    DEF Stage, Before, AllIdle, Gone, HelpersGone
<1>8. CASE MainClaims
  <2>1. UNCHANGED <<helper, verdict, phase>> /\ main = "claim" /\ phase = "loop"
    BY <1>8 DEF MainClaims, Stage
  <2>2. main' \in {"drain", "join", "scout"}
    BY <1>8 DEF MainClaims, AfterLoop
  <2>3. cancel' => cancel \/ Enough
    BY <1>8 DEF MainClaims, CancelIf, Cancel
  <2>4. main' # "scout" => next' = next /\ (Enough \/ cancel \/ next >= NumMoves)
    BY <1>8 DEF MainClaims
  <2>5. cancel' => Excused'
    BY <1>1, <1>2, <1>3, <2>1, <2>3 DEF Stage, Excused, Enough
  <2>6. Enough \/ cancel => Excused'
    BY <1>1, <1>2, <1>3, <2>1 DEF Stage, Excused, Enough
  <2>7. QED
    BY <2>1, <2>2, <2>4, <2>5, <2>6 DEF Stage, Before
<1>9. CASE ScoutReturns
  BY <1>3, <1>9 DEF ScoutReturns, Stage, StartScan, Before
<1>10. CASE Drain
  <2>1. UNCHANGED <<helper, verdict, next>> /\ main = "drain"
    BY <1>10 DEF Drain
  <2>2. \/ main' = "join" /\ phase' = phase
        \/ main' = "scan" /\ phase' = "drain"
    BY <1>10 DEF Drain, StartScan
  <2>3. cancel' => cancel \/ Enough
    BY <1>10 DEF Drain, CancelIf, Cancel
  <2>4. cancel' => Excused'
    BY <1>1, <1>2, <1>3, <2>1, <2>3 DEF Stage, Excused, Enough
  <2>5. QED
    BY <1>3, <2>1, <2>2, <2>4 DEF Stage, Before, Gone
<1>11. CASE Join
  <2>1. UNCHANGED <<helper, next>> /\ main = "join" /\ \A h \in Helpers : helper[h] \in Done
    BY <1>11 DEF Join, Joined, HelpersFinished
  <2>2. CASE \E h \in Helpers : helper[h] = "dead"
    <3>1. main' = "done"
      BY <1>11, <2>2 DEF Join
    <3>2. HelpersGone'
      BY <2>1 DEF HelpersGone
    <3>3. QED
      BY <3>1, <3>2 DEF Stage, Before
  <2>3. CASE ~\E h \in Helpers : helper[h] = "dead"
    <3>1. main' = "scan" /\ phase' = "final" /\ UNCHANGED <<cancel, verdict>>
      BY <1>11, <2>3 DEF Join, StartScan
    <3>2. Gone'
      BY <2>1, <2>3 DEF Gone, Done
    <3>3. QED
      BY <1>3, <2>1, <3>1, <3>2 DEF Stage, Before
  <2>4. QED
    BY <2>2, <2>3
<1>12. CASE Finish
  BY <1>12 DEF Finish, Stage, Before, Gone, HelpersGone, Done
<1>13. QED
  BY <1>4, <1>5, <1>6, <1>7, <1>8, <1>9, <1>10, <1>11, <1>12 DEF MainStep

LEMMA StepStage == TypeOK /\ Better /\ Stage /\ [Next]_vars => Stage'
<1> SUFFICES ASSUME TypeOK, Better, Stage, [Next]_vars PROVE Stage'
  OBVIOUS
<1>1. CASE Stop
  BY <1>1 DEF Stop, Stage, configVars, helperVars, resultVars, Excused, AllIdle, Gone,
       Before, HelpersGone
<1>2. CASE UNCHANGED vars \/ Terminated
  BY <1>2 DEF Terminated, vars, Stage, configVars, helperVars, resultVars, Excused,
       AllIdle, Gone, Before, HelpersGone
<1>3. QED
  BY <1>1, <1>2, StageHelper, StageMain, NextSplit

Base == TypeOK /\ Better /\ Stage

LEMMA StepBase == Base /\ [Next]_vars => Base'
BY StepType, StepBetter, StepStage DEF Base

LEMMA BaseCorrect == Spec => []Base
<1>1. Init => Base
  BY InitType, InitBetter, InitStage DEF Base
<1>2. QED
  BY <1>1, StepBase, PTL DEF Spec

(* When the pass has returned no helper of it runs on.                     *)
THEOREM NoHelperOutlivesThePass == Spec => []HelpersGone
<1>1. Base => HelpersGone
  BY DEF Base, Stage, HelpersGone
<1>2. QED
  BY <1>1, BaseCorrect, PTL
-----------------------------------------------------------------------------
(* Every claimed move is in one place: a helper has it, its advice is      *)
(* ready, the main worker searches it, it is settled, or it was given up.  *)
Active(h) == helper[h] \in {"probing", "publishing"}
Searching == main \in {"scout", "confirm"}

OnePlace ==
  /\ \A m \in searched : m < next
  /\ \A h \in Helpers : Active(h) =>
       /\ 1 <= task[h] /\ task[h] < next
       /\ task[h] \notin searched /\ advice[task[h]] = None
  /\ \A h, k \in Helpers : Active(h) /\ Active(k) /\ h # k => task[h] # task[k]
  /\ \A m \in Moves : advice[m] # None => 1 <= m /\ m < next /\ m \notin searched
  /\ Searching =>
       /\ 1 <= current /\ current < next
       /\ current \notin searched /\ advice[current] = None
       /\ \A h \in Helpers : Active(h) => task[h] # current

LEMMA InitOnePlace == Init => OnePlace
BY DEF Init, OnePlace, Active, Searching, Moves

(* What a helper's step does to the moves.                                 *)
LEMMA HelperEffects ==
  ASSUME TypeOK, NEW h \in Helpers, HelperStep(h) \/ SpuriousWake(h) \/ Panic(h)
  PROVE  /\ UNCHANGED <<main, current, searched, alpha, value, mode, stopped, phase, scan>>
         /\ \A k \in Helpers \ {h} : helper'[k] = helper[k] /\ task'[k] = task[k]
                                    /\ snapshot'[k] = snapshot[k]
         /\ \/ /\ helper[h] = "claim" /\ next < NumMoves
               /\ helper'[h] = "probing" /\ task'[h] = next /\ next' = next + 1
               /\ UNCHANGED advice /\ pruned \subseteq pruned'
            \/ /\ helper[h] = "publishing" /\ helper'[h] = "ready" /\ ~cancel
               /\ next' = next /\ UNCHANGED pruned
               /\ \E score \in Scores : advice' = [advice EXCEPT ![task[h]] = score]
            \/ /\ UNCHANGED <<next, advice>> /\ pruned \subseteq pruned'
               /\ \/ ~Active(h) /\ ~Active(h)'
                  \/ Active(h) /\ Active(h)' /\ task'[h] = task[h]
                  \/ Active(h) /\ ~Active(h)'
                     /\ \/ stopped \/ cancel \/ helper'[h] = "dead"
                        \/ task[h] \in pruned'
                        \/ value[task[h]] <= snapshot[h]
<1>1. /\ UNCHANGED <<main, current, searched, alpha, value, mode, stopped, phase, scan>>
      /\ \A k \in Helpers \ {h} : helper'[k] = helper[k]
      /\ helper' = [helper EXCEPT ![h] = helper'[h]]
      /\ pruned \subseteq pruned'
  BY DEF TypeOK, HelperStep, SpuriousWake, Panic, Continue, Claim, ClaimNext, Recheck,
         Wake, ProbeReturns, Publish, HelperFrame, configVars, resultVars, Move
<1>2. \A k \in Helpers \ {h} : task'[k] = task[k] /\ snapshot'[k] = snapshot[k]
  BY DEF TypeOK, HelperStep, SpuriousWake, Panic, Continue, Claim, ClaimNext, Recheck,
         Wake, ProbeReturns, Publish, Forget
<1>3. CASE Claim(h)
  <2>1. UNCHANGED <<advice, pruned>> /\ helper[h] = "claim"
    BY <1>3 DEF Claim
  <2>2. CASE ClaimNext(h) /\ next < NumMoves
    BY <1>1, <1>2, <2>1, <2>2 DEF ClaimNext, Move, TypeOK
  <2>3. CASE ClaimNext(h) /\ ~(next < NumMoves)
    BY <1>1, <1>2, <2>1, <2>3 DEF ClaimNext, Move, TypeOK, Active
  <2>4. CASE ~ClaimNext(h)
    BY <1>1, <1>2, <1>3, <2>1, <2>4 DEF Claim, Move, TypeOK, Active
  <2>5. QED
    BY <2>2, <2>3, <2>4
<1>4. CASE Publish(h)
  <2>1. /\ UNCHANGED <<next, pruned>> /\ helper[h] = "publishing"
        /\ helper'[h] = "ready"
    BY <1>4 DEF Publish, Move, TypeOK
  <2>2. CASE cancel
    BY <1>1, <1>2, <1>4, <2>1, <2>2 DEF Publish, Active
  <2>3. CASE ~cancel
    BY <1>1, <1>2, <1>4, <2>1, <2>3 DEF Publish
  <2>4. QED
    BY <2>2, <2>3
<1>5. CASE Panic(h)
  BY <1>1, <1>2, <1>5 DEF Panic, Move, Active, TypeOK
<1>6. CASE ProbeReturns(h)
  <2>1. UNCHANGED <<next, advice>> /\ helper[h] = "probing"
    BY <1>6 DEF ProbeReturns
  <2>2. CASE stopped \/ cancel
    BY <1>1, <1>2, <1>6, <2>1, <2>2 DEF ProbeReturns, Active, Move, TypeOK
  <2>3. CASE ~(stopped \/ cancel) /\ value[task[h]] <= snapshot[h]
    <3>1. ~(value[task[h]] > snapshot[h])
      BY <2>3, Values
    <3>2. helper'[h] = "ready"
      BY <1>6, <2>3, <3>1 DEF ProbeReturns, Move, TypeOK
    <3>3. QED
      BY <1>1, <1>2, <2>1, <2>3, <3>2 DEF Active
  <2>4. CASE ~(stopped \/ cancel) /\ ~(value[task[h]] <= snapshot[h])
    <3>1. \/ helper'[h] = "publishing" /\ UNCHANGED task
          \/ helper'[h] = "ready" /\ task[h] \in pruned'
      BY <1>6, <2>4 DEF ProbeReturns, Move, TypeOK
    <3>2. QED
      BY <1>1, <1>2, <2>1, <3>1 DEF Active
  <2>5. QED
    BY <2>2, <2>3, <2>4
<1>7. CASE Continue(h) \/ Recheck(h) \/ Wake(h) \/ SpuriousWake(h)
  BY <1>1, <1>2, <1>7 DEF Continue, Recheck, Wake, SpuriousWake, Move, Active, TypeOK
<1>8. QED
  BY <1>3, <1>4, <1>5, <1>6, <1>7 DEF HelperStep

(* What the main worker's step does to them.                               *)
LEMMA MainEffects ==
  ASSUME TypeOK, MainStep
  PROVE  /\ UNCHANGED <<task, snapshot, value, stopped, mode>>
         /\ helper' = helper \/ \A h \in Helpers : ~Active(h)' /\ helper'[h] # "dead"
         /\ \/ /\ main = "first" /\ ~Searching' /\ UNCHANGED <<next, advice, pruned>>
               /\ \/ searched' = searched \cup {0} /\ Accept(0)
                  \/ stopped /\ UNCHANGED resultVars
            \/ /\ main = "scan" /\ main' = "confirm" /\ UNCHANGED <<next, pruned, resultVars, helper>>
               /\ current' \in Moves /\ advice[current'] # None
               /\ advice' = [advice EXCEPT ![current'] = None]
            \/ /\ main = "claim" /\ main' = "scout" /\ UNCHANGED <<advice, pruned, resultVars, helper>>
               /\ current' = next /\ next < NumMoves /\ next' = next + 1
            \/ /\ Searching /\ ~Searching' /\ UNCHANGED <<next, advice, helper>>
               /\ \/ Accept(current) /\ UNCHANGED pruned /\ ~stopped
                  \/ /\ searched' = searched \cup {current} /\ UNCHANGED <<alpha, best>>
                     /\ pruned' = pruned \cup {current}
                  \/ stopped /\ UNCHANGED <<pruned, resultVars>>
            \/ /\ main \notin {"scout", "confirm", "first"} /\ ~Searching'
               /\ UNCHANGED <<next, advice, pruned, resultVars>>
<1> USE DEF Searching
<1>1. UNCHANGED <<task, snapshot, value, stopped, mode>>
  BY MainParts DEF MainFrame, configVars
<1>2. helper' = helper \/ \A h \in Helpers : ~Active(h)' /\ helper'[h] # "dead"
  BY MainParts DEF Dispatch, Active
<1>3. CASE FirstReturns \/ PrestartFirstReturns
  BY <1>1, <1>2, <1>3 DEF FirstReturns, PrestartFirstReturns, StartScan, Accept
<1>4. CASE ScanSlot \/ ScanPriority
  <2>1. main = "scan" /\ UNCHANGED <<next, pruned, resultVars, helper>>
    BY <1>4 DEF ScanSlot, ScanPriority, ScanFrame
  <2>2. /\ scan \in 1 .. NumMoves /\ AfterScan \notin {"scout", "confirm"}
    BY DEF TypeOK, AfterScan
  <2>3. ASSUME NEW m \in Moves, Take(m), advice[m] # None
        PROVE  /\ main' = "confirm" /\ current' \in Moves /\ advice[current'] # None
               /\ advice' = [advice EXCEPT ![current'] = None]
    BY <2>3 DEF Take
  <2>4. CASE \E m \in Moves : Take(m) /\ advice[m] # None
    BY <1>1, <2>1, <2>3, <2>4
  <2>5. CASE UNCHANGED advice /\ main' \in {"scan", AfterScan}
    BY <1>1, <1>2, <2>1, <2>2, <2>5
  <2>6. scan < NumMoves => scan \in Moves
    BY <2>2, MovesFact
  <2>7. QED
    BY <1>4, <2>1, <2>4, <2>5, <2>6 DEF ScanSlot, ScanPriority, HighestAdvice
<1>5. CASE MainClaims
  BY <1>1, <1>2, <1>5 DEF MainClaims, AfterLoop, TypeOK
<1>6. CASE ConfirmReturns \/ ScoutReturns
  BY <1>1, <1>2, <1>6 DEF ConfirmReturns, ScoutReturns, StartScan, AfterScan, ScanFrame
<1>7. CASE Begin \/ ScanStops \/ Drain \/ Join \/ Finish
  BY <1>1, <1>2, <1>7 DEF Begin, ScanStops, Drain, Join, Finish, StartScan, AfterScan,
       ScanFrame
<1>8. QED
  BY <1>3, <1>4, <1>5, <1>6, <1>7 DEF MainStep

LEMMA OnePlaceHelper == TypeOK /\ OnePlace /\ HelperAct => OnePlace'
<1> SUFFICES ASSUME TypeOK, OnePlace,
                    NEW h \in Helpers,
                    HelperStep(h) \/ SpuriousWake(h) \/ Panic(h)
             PROVE  OnePlace'
  BY DEF HelperAct
<1>0. UNCHANGED <<main, current, searched>>
  BY HelperEffects
<1>1. ASSUME NEW k \in Helpers \ {h} PROVE Active(k)' <=> Active(k)
  BY HelperEffects DEF Active
<1>2. \A k \in Helpers \ {h} : task'[k] = task[k]
  BY HelperEffects
<1>3. next \in Int /\ NumMoves \in Int /\ \A k \in Helpers : task[k] \in Moves
  BY Values
<1>4. advice \in [Moves -> Scores \cup {None}] /\ next \in 1 .. NumMoves
  BY DEF TypeOK
<1>5. \A m \in Moves : m \in Int
  BY MovesFact
<1>6. searched \subseteq Moves /\ current \in Moves
  BY DEF TypeOK
<1>7. CASE /\ helper[h] = "claim" /\ next < NumMoves
           /\ helper'[h] = "probing" /\ task'[h] = next /\ next' = next + 1
           /\ UNCHANGED advice
  <2>1. next \notin searched /\ next \in Moves /\ advice[next] = None
    BY <1>3, <1>4, <1>7, MovesFact DEF OnePlace
  <2>2. \A k \in Helpers \ {h} : Active(k) => task[k] # next
    BY <1>3, <1>5 DEF OnePlace
  <2>3. Searching => current # next
    BY <1>3, <1>5, <1>6 DEF OnePlace
  <2>4. \A m \in searched' : m < next'
    BY <1>0, <1>3, <1>5, <1>6, <1>7 DEF OnePlace
  <2>5. \A m \in Moves : advice'[m] # None => 1 <= m /\ m < next' /\ m \notin searched'
    BY <1>0, <1>3, <1>5, <1>7 DEF OnePlace
  <2>6. ASSUME NEW k \in Helpers, Active(k)'
        PROVE  /\ 1 <= task'[k] /\ task'[k] < next'
               /\ task'[k] \notin searched' /\ advice'[task'[k]] = None
    <3>1. CASE k = h
      BY <1>0, <1>4, <1>7, <2>1, <3>1
    <3>2. CASE k # h
      BY <1>0, <1>1, <1>2, <1>3, <1>5, <1>7, <2>6, <3>2 DEF OnePlace
    <3>3. QED
      BY <3>1, <3>2
  <2>7. ASSUME NEW k \in Helpers, NEW l \in Helpers, Active(k)', Active(l)', k # l
        PROVE  task'[k] # task'[l]
    BY <1>1, <1>2, <1>7, <2>2, <2>7 DEF OnePlace
  <2>8. Searching' => /\ 1 <= current' /\ current' < next'
                      /\ current' \notin searched' /\ advice'[current'] = None
                      /\ \A k \in Helpers : Active(k)' => task'[k] # current'
    BY <1>0, <1>1, <1>2, <1>3, <1>5, <1>6, <1>7, <2>3 DEF OnePlace, Searching
  <2>9. QED
    BY <2>4, <2>5, <2>6, <2>7, <2>8 DEF OnePlace
<1>8. CASE /\ helper[h] = "publishing" /\ helper'[h] = "ready" /\ next' = next
           /\ \E score \in Scores : advice' = [advice EXCEPT ![task[h]] = score]
  <2>1. Active(h) /\ ~Active(h)'
    BY <1>8 DEF Active
  <2>2. \A m \in Moves \ {task[h]} : advice'[m] = advice[m]
    BY <1>4, <1>8
  <2>3. \A k \in Helpers \ {h} : Active(k) => task[k] # task[h]
    BY <2>1 DEF OnePlace
  <2>4. 1 <= task[h] /\ task[h] < next /\ task[h] \notin searched
    BY <2>1 DEF OnePlace
  <2>5. Searching => current # task[h]
    BY <2>1 DEF OnePlace
  <2>6. QED
    BY <1>0, <1>1, <1>2, <1>3, <1>6, <1>8, <2>1, <2>2, <2>3, <2>4, <2>5 DEF OnePlace, Searching
<1>9. CASE /\ UNCHANGED <<next, advice>>
           /\ ~Active(h)' \/ (Active(h) /\ task'[h] = task[h])
  BY <1>0, <1>1, <1>2, <1>9 DEF OnePlace, Searching
<1>10. QED
  BY <1>7, <1>8, <1>9, HelperEffects

LEMMA OnePlaceMain == TypeOK /\ OnePlace /\ MainStep => OnePlace'
<1> SUFFICES ASSUME TypeOK, OnePlace, MainStep PROVE OnePlace'
  OBVIOUS
<1>1. UNCHANGED task /\ \A h \in Helpers : Active(h)' => Active(h)
  BY MainEffects DEF Active
<1>2. next \in 1 .. NumMoves /\ NumMoves \in Int /\ searched \subseteq Moves /\ current \in Moves
      /\ advice \in [Moves -> Scores \cup {None}]
  BY DEF TypeOK
<1>3. /\ \A m \in Moves : m \in Int
      /\ \A h \in Helpers : task[h] \in Moves
  BY MovesFact, Values
<1>4. CASE /\ main = "first" /\ ~Searching' /\ UNCHANGED <<next, advice>>
           /\ searched' = searched \cup {0} \/ UNCHANGED searched
  BY <1>1, <1>2, <1>3, <1>4 DEF OnePlace
<1>5. CASE /\ main = "scan" /\ main' = "confirm" /\ UNCHANGED <<next, searched, helper>>
           /\ current' \in Moves /\ advice[current'] # None
           /\ advice' = [advice EXCEPT ![current'] = None]
  <2>1. \A m \in Moves : advice'[m] # None => advice[m] # None /\ m # current'
    BY <1>2, <1>5
  <2>2. advice'[current'] = None
    BY <1>2, <1>5
  <2>3. \A h \in Helpers : Active(h) => task[h] # current'
    BY <1>5 DEF OnePlace
  <2>4. \A h \in Helpers : Active(h) => advice'[task[h]] = None
    BY <1>3, <2>1 DEF OnePlace
  <2>5. 1 <= current' /\ current' < next /\ current' \notin searched
    BY <1>5 DEF OnePlace
  <2>6. QED
    BY <1>1, <1>5, <2>1, <2>2, <2>3, <2>4, <2>5 DEF OnePlace
<1>6. CASE /\ main = "claim" /\ main' = "scout" /\ UNCHANGED <<advice, searched, helper>>
           /\ current' = next /\ next < NumMoves /\ next' = next + 1
  <2>1. next \in Moves /\ next \notin searched /\ advice[next] = None
    BY <1>2, <1>6, MovesFact DEF OnePlace
  <2>2. \A h \in Helpers : Active(h) => task[h] # next
    BY <1>2, <1>3 DEF OnePlace
  <2>3. QED
    <3>1. \A m \in searched' : m < next'
      BY <1>2, <1>3, <1>6 DEF OnePlace
    <3>2. \A h \in Helpers : Active(h)' =>
            /\ 1 <= task'[h] /\ task'[h] < next'
            /\ task'[h] \notin searched' /\ advice'[task'[h]] = None
      BY <1>1, <1>2, <1>3, <1>6 DEF OnePlace
    <3>3. \A m \in Moves : advice'[m] # None => 1 <= m /\ m < next' /\ m \notin searched'
      BY <1>2, <1>3, <1>6 DEF OnePlace
    <3>4. Searching' => /\ 1 <= current' /\ current' < next'
                        /\ current' \notin searched' /\ advice'[current'] = None
                        /\ \A h \in Helpers : Active(h)' => task'[h] # current'
      BY <1>1, <1>2, <1>6, <2>1, <2>2
    <3>5. QED
      BY <1>1, <3>1, <3>2, <3>3, <3>4 DEF OnePlace
<1>7. CASE /\ Searching /\ ~Searching' /\ UNCHANGED <<next, advice, helper>>
           /\ searched' = searched \cup {current} \/ UNCHANGED searched
  <2>1. \A m \in Moves : advice[m] # None => m # current
    BY <1>7 DEF OnePlace
  <2>2. QED
    BY <1>1, <1>7, <2>1 DEF OnePlace
<1>8. CASE ~Searching' /\ UNCHANGED <<next, advice, searched>>
  BY <1>1, <1>8 DEF OnePlace
<1>9. QED
  BY <1>4, <1>5, <1>6, <1>7, <1>8, MainEffects DEF Accept, resultVars

LEMMA StepOnePlace == TypeOK /\ OnePlace /\ [Next]_vars => OnePlace'
<1> SUFFICES ASSUME TypeOK, OnePlace, [Next]_vars PROVE OnePlace'
  OBVIOUS
<1>1. CASE Stop
  BY <1>1 DEF Stop, OnePlace, Active, Searching, configVars, helperVars, resultVars
<1>2. CASE UNCHANGED vars \/ Terminated
  BY <1>2 DEF Terminated, vars, OnePlace, Active, Searching, configVars, helperVars, resultVars
<1>3. QED
  BY <1>1, <1>2, OnePlaceHelper, OnePlaceMain, NextSplit

(* No move is settled twice by the main worker.                            *)
THEOREM NoMoveSettledTwice == Spec => SettledOnce
<1>1. Init => TypeOK /\ OnePlace
  BY InitType, InitOnePlace
<1>2. TypeOK /\ OnePlace /\ [Next]_vars => (TypeOK /\ OnePlace)'
  BY StepType, StepOnePlace
<1>3. TypeOK /\ OnePlace /\ [Next]_vars => [Settles => current \notin searched]_vars
  BY DEF OnePlace, Searching, Settles
<1>4. QED
  BY <1>1, <1>2, <1>3, PTL DEF Spec, SettledOnce
-----------------------------------------------------------------------------
(* No move is lost: until the pass has returned each of them is settled,   *)
(* or somebody still has it, unless the pass no longer has to look at it.  *)
Settled(m) == m \in pruned \/ value[m] <= alpha

Held(m) ==
  \/ m >= next
  \/ advice[m] # None
  \/ Searching /\ current = m
  \/ m = 0 /\ main \in {"begin", "first"}
  \/ \E h \in Helpers : Active(h) /\ task[h] = m

NoneLost == main # "done" => \A m \in Moves : Excused \/ Settled(m) \/ Held(m)

(* The last scan leaves no advice behind.                                  *)
Drained ==
  /\ Before => \A m \in Moves : advice[m] = None
  /\ main = "finish" => Excused \/ \A m \in Moves : advice[m] = None
  /\ phase = "final" /\ main \in {"scan", "confirm"} /\ ~mode.priority =>
       \A m \in Moves : m < scan => advice[m] = None

Inv == Base /\ OnePlace /\ NoneLost /\ Drained /\ VerdictHolds

LEMMA InitInv == Init => Inv
<1> SUFFICES ASSUME Init PROVE Inv
  OBVIOUS
<1>1. Base /\ OnePlace
  BY InitType, InitBetter, InitStage, InitOnePlace DEF Base
<1>2. NoneLost
  BY MovesFact DEF Init, NoneLost, Held, Moves
<1>3. Drained /\ VerdictHolds
  BY DEF Init, Drained, VerdictHolds
<1>4. QED
  BY <1>1, <1>2, <1>3 DEF Inv

LEMMA HelperBusy ==
  ASSUME Base, NEW h \in Helpers, HelperStep(h) \/ SpuriousWake(h) \/ Panic(h)
  PROVE  main # "done" /\ ~Before /\ main # "finish" /\ phase # "final"
<1>1. helper[h] \in {"ready", "claim", "recheck", "parked", "probing", "publishing"}
  BY DEF HelperStep, SpuriousWake, Panic, Continue, Claim, Recheck, Wake, ProbeReturns,
         Publish
<1>2. (~AllIdle /\ ~Gone /\ ~HelpersGone) \/ main # "done"
  BY <1>1 DEF AllIdle, Gone, HelpersGone, Done
<1>3. QED
  BY <1>1, <1>2 DEF Base, Stage, AllIdle, Gone, HelpersGone, Done

LEMMA NoneLostHelper == Inv /\ HelperAct => NoneLost' /\ Drained' /\ VerdictHolds'
<1> SUFFICES ASSUME Inv,
                    NEW h \in Helpers,
                    HelperStep(h) \/ SpuriousWake(h) \/ Panic(h)
             PROVE  NoneLost' /\ Drained' /\ VerdictHolds'
  BY DEF HelperAct
<1> USE DEF Inv
<1>0. TypeOK /\ UNCHANGED <<main, current, searched, alpha, value, mode, stopped, phase, scan>>
  BY HelperEffects DEF Base
<1>1. main # "done" /\ ~Before /\ main # "finish" /\ phase # "final" /\ verdict = "none"
  BY HelperBusy DEF Base, Stage
<1>2. Drained'
  BY <1>0, <1>1 DEF Drained, Before
<1>3. VerdictHolds'
  <2>1. verdict' = verdict
    BY DEF HelperStep, SpuriousWake, Panic, Continue, Claim, Recheck, Wake, ProbeReturns,
           Publish, HelperFrame
  <2>2. QED
    BY <1>1, <2>1 DEF VerdictHolds
<1>4. Excused => Excused'
  <2>1. helper[h] # "dead"
    BY DEF HelperStep, SpuriousWake, Panic, Continue, Claim, Recheck, Wake, ProbeReturns,
           Publish
  <2>2. QED
    BY <1>0, <2>1, HelperEffects DEF Excused
<1>5. pruned \subseteq pruned' /\ next \in Int /\ \A m \in Moves : m \in Int
  BY <1>0, HelperEffects, Values, MovesFact
<1>6. \A m \in Moves : Settled(m) => Settled(m)'
  BY <1>0, <1>5 DEF Settled
<1>7. advice \in [Moves -> Scores \cup {None}] /\ task[h] \in Moves
  BY <1>0, Values DEF TypeOK
<1>8. ASSUME NEW m \in Moves, Held(m), ~(Active(h) /\ task[h] = m), m # next
      PROVE  Held(m)'
  <2>1. CASE \E k \in Helpers : Active(k) /\ task[k] = m
    BY <1>0, <1>8, <2>1, HelperEffects DEF Held, Active
  <2>2. CASE m >= next
    BY <1>0, <1>5, <1>8, <2>2, HelperEffects DEF Held
  <2>3. CASE advice[m] # None
    BY <1>0, <1>7, <1>8, <2>3, HelperEffects DEF Held
  <2>4. QED
    BY <1>0, <1>8, <2>1, <2>2, <2>3 DEF Held, Searching
<1>9. ASSUME NEW m \in Moves, m = next PROVE Held(m)'
  BY <1>0, <1>5, <1>9, HelperEffects DEF Held, Active
<1>10. ASSUME NEW m \in Moves, Active(h), task[h] = m
       PROVE  Excused' \/ Settled(m)' \/ Held(m)'
  <2>1. CASE Active(h)' /\ task'[h] = task[h]
    BY <1>10, <2>1 DEF Held
  <2>2. CASE helper[h] = "publishing" /\ \E score \in Scores : advice' = [advice EXCEPT ![task[h]] = score]
    BY <1>7, <1>10, <2>2 DEF Held
  <2>3. CASE stopped \/ cancel \/ helper'[h] = "dead"
    BY <1>0, <1>1, <1>4, <2>3 DEF Excused, Base, Stage
  <2>4. CASE task[h] \in pruned'
    BY <1>10, <2>4 DEF Settled
  <2>5. CASE value[task[h]] <= snapshot[h]
    <3>1. value[m] \in Int /\ snapshot[h] \in Int /\ alpha \in Int /\ snapshot[h] <= alpha
      BY DEF Base, Better
    <3>2. QED
      BY <1>0, <1>10, <2>5, <3>1 DEF Settled
  <2>6. QED
    BY <1>0, <1>10, <2>1, <2>2, <2>3, <2>4, <2>5, HelperEffects DEF Active
<1>11. NoneLost'
  BY <1>1, <1>4, <1>6, <1>8, <1>9, <1>10 DEF NoneLost
<1>12. QED
  BY <1>2, <1>3, <1>11

LEMMA NoneLostMain == Inv /\ MainStep => NoneLost'
<1> SUFFICES ASSUME Inv, MainStep, main' # "done", NEW m \in Moves
             PROVE  Excused' \/ Settled(m)' \/ Held(m)'
  BY DEF NoneLost
<1> USE DEF Inv
<1>0. TypeOK /\ UNCHANGED <<task, snapshot, value, stopped, mode>> /\ next \in Int
      /\ current \in Moves /\ 0 \in Moves /\ advice \in [Moves -> Scores \cup {None}]
  BY MainEffects, Values, MovesFact DEF Base, TypeOK
<1>1. main # "done"
  BY DEF MainStep, Begin, FirstReturns, PrestartFirstReturns, ScanStops, ScanSlot,
         ScanPriority, ConfirmReturns, MainClaims, ScoutReturns, Drain, Join, Finish
<1>2. /\ \A k \in Moves : value[k] \in Int /\ k \in Int
      /\ alpha \in Int
  BY MovesFact DEF Base, Better
<1>3. alpha' \in Int /\ alpha <= alpha' /\ pruned \subseteq pruned'
  BY <1>0, <1>2, MainEffects DEF Accept, resultVars
<1>4. CASE Settled(m)
  BY <1>0, <1>2, <1>3, <1>4 DEF Settled
<1>5. UNCHANGED helper \/ Before \/ main = "begin" \/ main = "first"
  BY MainParts DEF Base
<1>6. CASE Excused
  <2>1. CASE UNCHANGED helper
    BY <1>0, <1>2, <1>3, <1>6, <2>1 DEF Excused
  <2>2. CASE ~UNCHANGED helper
    <3>1. AllIdle
      BY <2>2, MainParts
      DEF MainStep, Begin, FirstReturns, PrestartFirstReturns, ScanStops, ScanSlot, ScanFrame,
          ScanPriority, ConfirmReturns, MainClaims, ScoutReturns, Drain, Join, Finish,
          Base, Stage, Before
    <3>2. stopped \/ alpha >= Hi
      BY <1>6, <3>1 DEF Excused, AllIdle
    <3>3. QED
      BY <1>0, <1>2, <1>3, <3>2 DEF Excused
  <2>3. QED
    BY <2>1, <2>2
<1>7. CASE \E h \in Helpers : Active(h) /\ task[h] = m
  <2>1. UNCHANGED helper
    <3>1. ~AllIdle
      BY <1>7 DEF AllIdle, Active
    <3>2. QED
      BY <3>1
      DEF MainStep, Begin, FirstReturns, PrestartFirstReturns, ScanStops, ScanSlot, ScanFrame,
          ScanPriority, ConfirmReturns, MainClaims, ScoutReturns, Drain, Join, Finish,
          Base, Stage, Before
  <2>2. QED
    BY <1>0, <1>7, <2>1 DEF Held, Active
<1>8. CASE m >= next
  BY <1>0, <1>2, <1>8, MainEffects DEF Held, Searching
<1>9. CASE advice[m] # None
  BY <1>0, <1>9, MainEffects DEF Held, Searching
<1>10. CASE Searching /\ current = m
  <2>1. CASE Accept(current)
    BY <1>0, <1>2, <1>10, <2>1 DEF Accept, Settled
  <2>2. CASE pruned' = pruned \cup {current}
    BY <1>10, <2>2 DEF Settled
  <2>3. CASE stopped
    BY <1>0, <2>3 DEF Excused
  <2>4. QED
    BY <1>0, <1>10, <2>1, <2>2, <2>3, MainEffects DEF Searching
<1>11. CASE m = 0 /\ main = "first"
  <2>1. CASE Accept(0)
    BY <1>0, <1>2, <1>11, <2>1 DEF Accept, Settled
  <2>2. CASE stopped
    BY <1>0, <2>2 DEF Excused
  <2>3. QED
    BY <1>0, <1>11, <2>1, <2>2, MainEffects DEF Searching
<1>12. CASE m = 0 /\ main = "begin"
  <2>1. main' \in {"first", "done"}
    BY <1>12 DEF MainStep, Begin, FirstReturns, PrestartFirstReturns, ScanStops, ScanSlot,
         ScanPriority, ConfirmReturns, MainClaims, ScoutReturns, Drain, Join, Finish
  <2>2. QED
    BY <1>12, <2>1 DEF Held
<1>13. QED
  BY <1>1, <1>4, <1>6, <1>7, <1>8, <1>9, <1>10, <1>11, <1>12 DEF NoneLost, Held

LEMMA DrainedMain == Inv /\ MainStep => Drained'
<1> SUFFICES ASSUME Inv, MainStep PROVE Drained'
  OBVIOUS
<1> USE DEF Inv
<1>0. TypeOK /\ UNCHANGED <<stopped, mode>> /\ advice \in [Moves -> Scores \cup {None}]
      /\ scan \in 1 .. NumMoves /\ \A m \in Moves : m \in Int /\ m < NumMoves
      /\ NumMoves \in Int
  BY MainEffects, MovesFact DEF Base, TypeOK
<1>1. alpha \in Int /\ alpha' \in Int /\ alpha <= alpha'
  <2>1. \A m \in Moves : value[m] \in Int
    BY DEF Base, Better
  <2>2. alpha \in Int /\ current \in Moves /\ 0 \in Moves
    BY <1>0, Values, MovesFact
  <2>3. QED
    BY <1>0, <2>1, <2>2, MainEffects DEF Accept, resultVars
<1>2. CASE Begin \/ FirstReturns \/ PrestartFirstReturns
  <2>1. advice' = advice /\ phase = "loop"
    BY <1>2 DEF Begin, FirstReturns, PrestartFirstReturns, Base, Stage
  <2>2. Before' => Before
    BY <1>0, <1>2 DEF Begin, FirstReturns, PrestartFirstReturns, Before, StartScan
  <2>3. phase' = "loop"
    BY <1>2, <2>1 DEF Begin, FirstReturns, PrestartFirstReturns, StartScan
  <2>4. main' = "finish" => Before
    BY <1>2 DEF Begin, FirstReturns, PrestartFirstReturns, Before, StartScan
  <2>5. QED
    BY <2>1, <2>2, <2>3, <2>4 DEF Drained
<1>3. CASE ScanStops \/ ConfirmReturns
  <2>1. UNCHANGED <<helper, advice, phase, scan>> /\ main \in {"scan", "confirm"}
    BY <1>3 DEF ScanStops, ConfirmReturns, ScanFrame
  <2>2. main' = "scan" \/ (main' = AfterScan /\ (Enough \/ stopped))
    BY <1>3 DEF ScanStops, ConfirmReturns
  <2>3. Enough \/ stopped => Excused'
    BY <1>0, <1>1, <2>1 DEF Enough, Excused
  <2>4. AfterScan \in {"claim", "drain", "finish"}
    BY DEF AfterScan
  <2>5. QED
    BY <1>0, <2>1, <2>2, <2>3, <2>4 DEF Drained, Before
<1>4. CASE ScanSlot
  <2>1. UNCHANGED <<helper, phase>> /\ main = "scan" /\ ~mode.priority
    BY <1>4 DEF ScanSlot, ScanFrame
  <2>2. CASE scan >= NumMoves
    <3>1. UNCHANGED <<advice, scan>> /\ main' = AfterScan
      BY <1>0, <1>4, <2>2 DEF ScanSlot
    <3>2. main' = "finish" => phase = "final"
      BY <1>0, <3>1 DEF AfterScan, TypeOK
    <3>3. main' \in {"claim", "drain", "finish"}
      BY <3>1 DEF AfterScan
    <3>4. QED
      BY <1>0, <2>1, <2>2, <3>1, <3>2, <3>3 DEF Drained, Before
  <2>3. CASE ~(scan >= NumMoves)
    <3>1. scan' = scan + 1 /\ main' \in {"scan", "confirm"}
      BY <1>0, <1>4, <2>1, <2>3 DEF ScanSlot, Take
    <3>2. advice' = [advice EXCEPT ![scan] = None] \/ (advice' = advice /\ advice[scan] = None)
      BY <1>0, <1>4, <2>3 DEF ScanSlot, Take
    <3>3. QED
      BY <1>0, <2>1, <3>1, <3>2 DEF Drained, Before
  <2>4. QED
    BY <2>2, <2>3
<1>5. CASE ScanPriority
  <2>1. UNCHANGED <<helper, phase>> /\ main = "scan" /\ mode.priority
    BY <1>5 DEF ScanPriority, ScanFrame
  <2>2. main' \in {"confirm", "claim", "drain", "finish"}
    BY <1>5 DEF ScanPriority, Take, AfterScan
  <2>3. main' = "finish" => advice' = advice /\ \A m \in Moves : advice[m] = None
    BY <1>5 DEF ScanPriority, Take
  <2>4. QED
    BY <1>0, <2>1, <2>2, <2>3 DEF Drained, Before
<1>6. CASE MainClaims \/ ScoutReturns \/ Drain
  BY <1>6 DEF MainClaims, ScoutReturns, Drain, StartScan, AfterLoop, Drained, Before, Base, Stage
<1>7. CASE Join
  <2>1. main' = "done" \/ (main' = "scan" /\ scan' = 1)
    BY <1>7 DEF Join, StartScan
  <2>2. advice' = advice /\ advice[0] = None
    BY <1>7, MovesFact DEF Join, OnePlace
  <2>3. QED
    BY <1>0, <2>1, <2>2 DEF Drained, Before, Moves
<1>8. CASE Finish
  BY <1>8 DEF Finish, Drained, Before
<1>9. QED
  BY <1>2, <1>3, <1>4, <1>5, <1>6, <1>7, <1>8 DEF MainStep

LEMMA VerdictMain == Inv /\ MainStep => VerdictHolds'
<1> SUFFICES ASSUME Inv, MainStep PROVE VerdictHolds'
  OBVIOUS
<1> USE DEF Inv
<1>1. CASE Finish
  <2>1. UNCHANGED <<alpha, best, value, pruned>> /\ main = "finish"
    BY <1>1, MainEffects DEF Finish, resultVars, Base
  <2>2. alpha \in Int /\ \A m \in Moves : value[m] \in Int
    BY DEF Base, Better
  <2>3. ASSUME ~stopped, ~(alpha >= Hi) PROVE \A m \in Moves \ pruned : value[m] <= alpha
    <3>1. Gone
      BY <2>1 DEF Base, Stage
    <3>2. ~Excused
      BY <2>3, <3>1 DEF Excused, Gone
    <3>3. next >= NumMoves
      BY <2>1, <3>2 DEF Base, Stage
    <3>4. \A m \in Moves : advice[m] = None /\ ~(m >= next)
      <4>1. next \in Int /\ NumMoves \in Int /\ \A m \in Moves : m \in Int /\ m < NumMoves
        BY Values, MovesFact DEF Base
      <4>2. \A m \in Moves : advice[m] = None
        BY <2>1, <3>2 DEF Drained
      <4>3. QED
        BY <3>3, <4>1, <4>2
    <3>5. \A m \in Moves : ~Held(m)
      BY <2>1, <3>1, <3>4 DEF Held, Searching, Gone, Active
    <3>6. QED
      BY <2>1, <3>2, <3>5 DEF NoneLost, Settled
  <2>4. verdict' = "low" => ~stopped /\ best = None
    BY <1>1 DEF Finish
  <2>5. verdict' = "lower" => best # None /\ alpha >= Hi
    BY <1>1 DEF Finish
  <2>6. verdict' = "exact" => ~stopped /\ best # None /\ ~(alpha >= Hi)
    BY <1>1 DEF Finish
  <2>7. verdict' = "exact" => VerdictHolds'
    BY <2>1, <2>2, <2>3, <2>6 DEF VerdictHolds, Base, Better
  <2>8. verdict' = "lower" => VerdictHolds'
    BY <2>1, <2>5 DEF VerdictHolds, Base, Better
  <2>9. verdict' = "low" => VerdictHolds'
    BY <2>1, <2>2, <2>3, <2>4 DEF VerdictHolds, Base, Better
  <2>10. QED
    BY <2>7, <2>8, <2>9 DEF VerdictHolds
<1>2. CASE ~Finish
  <2>1. verdict' \in {verdict, "aborted", "panicked"} /\ main # "done"
    BY <1>2 DEF MainStep, Begin, FirstReturns, PrestartFirstReturns, ScanStops, ScanSlot,
         ScanFrame, ScanPriority, ConfirmReturns, MainClaims, ScoutReturns, Drain, Join
  <2>2. verdict = "none"
    BY <2>1 DEF Base, Stage
  <2>3. QED
    BY <2>1, <2>2 DEF VerdictHolds
<1>3. QED
  BY <1>1, <1>2

LEMMA StepInv == Inv /\ [Next]_vars => Inv'
<1> SUFFICES ASSUME Inv, [Next]_vars PROVE Inv'
  OBVIOUS
<1>1. Base' /\ OnePlace'
  BY StepBase, StepOnePlace DEF Inv, Base
<1>2. CASE Stop
  BY <1>1, <1>2 DEF Stop, Inv, NoneLost, Drained, VerdictHolds, Excused, Settled, Held, Active,
       Searching, Before, configVars, helperVars, resultVars
<1>3. CASE UNCHANGED vars \/ Terminated
  BY <1>1, <1>3 DEF Terminated, vars, Inv, NoneLost, Drained, VerdictHolds, Excused, Settled,
       Held, Active, Searching, Before, configVars, helperVars, resultVars
<1>4. CASE MainStep
  BY <1>1, <1>4, NoneLostMain, DrainedMain, VerdictMain DEF Inv
<1>5. CASE HelperAct
  BY <1>1, <1>5, NoneLostHelper DEF Inv
<1>6. QED
  BY <1>2, <1>3, <1>4, <1>5, NextSplit

(* What a pass returns is what a single thread would have found.           *)
THEOREM VerdictIsThatOfOneThread == Spec => []VerdictHolds
<1>1. Inv => VerdictHolds
  BY DEF Inv
<1>2. QED
  BY <1>1, InitInv, StepInv, PTL DEF Spec
-----------------------------------------------------------------------------
(* The gate.                                                               *)
GateInv ==
  /\ mode.capped => mode.prestart
  /\ mode.capped /\ pending =>
       /\ next - 1 <= Quota - quota
       /\ \/ main \in {"begin", "first", "join", "finish", "done"}
          \/ main \in {"scan", "confirm"} /\ phase = "final"

LEMMA InitGate == Init => GateInv
<1> SUFFICES ASSUME Init PROVE GateInv
  OBVIOUS
<1>1. mode.capped => mode.prestart
  BY DEF Init, Modes
<1>2. QED
  BY <1>1 DEF Init, GateInv

LEMMA StepGate == TypeOK /\ GateInv /\ [Next]_vars => GateInv'
<1> SUFFICES ASSUME TypeOK, GateInv, [Next]_vars PROVE GateInv'
  OBVIOUS
<1>0. next \in Int /\ NumMoves \in Int /\ quota \in Int
  BY Values DEF TypeOK
<1>1. CASE MainStep
  <2>1. UNCHANGED mode
    BY <1>1, MainParts DEF MainFrame, configVars
  <2>2. pending' => pending
    BY <1>1 DEF MainStep, Begin, FirstReturns, PrestartFirstReturns, ScanStops, ScanSlot,
         ScanFrame, ScanPriority, ConfirmReturns, MainClaims, ScoutReturns, Drain, Join,
         Finish, OpenGate
  <2>3. SUFFICES ASSUME mode.capped, pending' PROVE GateInv'
    BY <2>1, <2>2 DEF GateInv
  <2>4. mode.prestart /\ pending
    BY <2>2, <2>3 DEF GateInv
  <2>5. main \notin {"claim", "scout", "drain"}
    BY <2>3, <2>4 DEF GateInv
  <2>6. UNCHANGED <<next, quota>>
    BY <1>1, <2>5 DEF MainStep, Begin, FirstReturns, PrestartFirstReturns, ScanStops, ScanSlot,
         ScanFrame, ScanPriority, ConfirmReturns, MainClaims, ScoutReturns, Drain, Join,
         Finish
  <2>7. CASE Begin \/ Join \/ Finish
    BY <2>1, <2>3, <2>4, <2>6, <2>7 DEF Begin, Join, Finish, StartScan, GateInv
  <2>8. CASE PrestartFirstReturns
    BY <2>1, <2>3, <2>4, <2>6, <2>8 DEF PrestartFirstReturns, OpenGate, GateInv
  <2>9. CASE ScanStops \/ ScanSlot \/ ScanPriority \/ ConfirmReturns
    <3>1. main \in {"scan", "confirm"} /\ UNCHANGED phase /\ main' \in {"scan", "confirm", AfterScan}
      BY <2>9 DEF ScanStops, ScanSlot, ScanPriority, ConfirmReturns, ScanFrame, Take
    <3>2. phase = "final"
      BY <2>3, <2>4, <3>1 DEF GateInv
    <3>3. main' \in {"scan", "confirm", "finish"} /\ phase' = "final"
      BY <3>1, <3>2 DEF AfterScan
    <3>4. QED
      BY <2>1, <2>3, <2>4, <2>6, <3>3 DEF GateInv
  <2>10. QED
    BY <1>1, <2>4, <2>5, <2>7, <2>8, <2>9 DEF MainStep, FirstReturns, MainClaims,
       ScoutReturns, Drain
<1>2. CASE HelperAct
  <2>1. PICK h \in Helpers : HelperStep(h) \/ SpuriousWake(h) \/ Panic(h)
    BY <1>2 DEF HelperAct
  <2>2. UNCHANGED <<main, phase, mode, pending>>
    BY <2>1 DEF HelperStep, SpuriousWake, Panic, Continue, Claim, Recheck, Wake,
         ProbeReturns, Publish, HelperFrame, configVars
  <2>3. mode.capped /\ pending =>
          UNCHANGED <<next, quota>> \/ (quota' = quota - 1 /\ next' \in {next, next + 1})
    BY <2>1 DEF HelperStep, SpuriousWake, Panic, Continue, Claim, ClaimNext, GateShut, Recheck,
         Wake, ProbeReturns, Publish
  <2>4. QED
    BY <1>0, <2>2, <2>3 DEF GateInv
<1>3. CASE Stop
  BY <1>3 DEF Stop, GateInv, configVars
<1>4. CASE UNCHANGED vars \/ Terminated
  BY <1>4 DEF Terminated, vars, GateInv, configVars
<1>5. QED
  BY <1>1, <1>2, <1>3, <1>4, NextSplit

(* Before the gate opens helpers have claimed Quota moves at most.         *)
THEOREM GateKeepsTheQuota == Spec => []GateHolds
<1>1. TypeOK /\ GateInv => GateHolds
  <2>1. TypeOK => quota >= 0 /\ quota \in Int /\ next \in Int
    BY Values DEF TypeOK
  <2>2. QED
    BY <2>1 DEF GateInv, GateHolds
<1>2. Init => TypeOK /\ GateInv
  BY InitType, InitGate
<1>3. TypeOK /\ GateInv /\ [Next]_vars => (TypeOK /\ GateInv)'
  BY StepType, StepGate
<1>4. QED
  BY <1>1, <1>2, <1>3, PTL DEF Spec
=============================================================================
