--------------------------- MODULE CsaClientProofs --------------------------
(***************************************************************************)
(* Proofs about CsaClient for any numbers of games, plies and reconnects   *)
(* and any sets of games and results.                                      *)
(***************************************************************************)
EXTENDS CsaClient, TLAPS

(* The types, without and with the flags.                                  *)
Values ==
  /\ pc \in Playing \cup {"connect", "boundary", "header", "returned", "failed",
                          "exited"}
  /\ exitCode \in {0, 1, 3, 99}
  /\ limit \in 0 .. MaxGames
  /\ completed \in Nat /\ before \in Nat
  /\ reconnects \in 0 .. ReconnectLimit
  /\ status \in {"connecting", "connected", "waiting_for_game", "game_rejected",
                 "in_game", "game_finished", "connection_error", "client_error"}
  /\ activeGame \in Ids \cup {None} /\ summaryId \in Ids \cup {None}
  /\ agreed \in Ids \cup {None} /\ started \in Ids \cup {None}
  /\ error \in {"none", "transport", "timeout", "other"}
  /\ result \in Results \cup {"none"} /\ ended \in Results \cup {"none"}
  /\ turn \in {"us", "them"}
  /\ plies \in 0 .. MaxPlies /\ recorded \in 0 .. MaxPlies
  /\ consumed \in Nat /\ tries \in Nat

Flags ==
  /\ keepAlive \in BOOLEAN /\ recovering \in BOOLEAN
  /\ awaiting \in BOOLEAN /\ requestGame \in BOOLEAN
  /\ headerStarted \in BOOLEAN /\ color \in BOOLEAN /\ validated \in BOOLEAN
  /\ resigned \in BOOLEAN /\ moveRecorded \in BOOLEAN
  /\ adjudicating \in BOOLEAN /\ queued \in BOOLEAN /\ lostRecord \in BOOLEAN

(* The loop around connections.  A process that has not exited has no exit *)
(* code; a limit goes with --loop, and is not reached while a game is      *)
(* requested or played.                                                    *)
BatchInv ==
  /\ pc # "exited" => exitCode = 99
  /\ ~keepAlive => limit = NoLimit
  /\ BoundedBatch
  /\ limit # NoLimit /\ pc \in Playing \cup {"header", "returned"} =>
       completed < limit

(* The attempts since the last completed game are among those the counter  *)
(* of the recovery was charged with, which the next failure resets if a    *)
(* game was completed on this connection; one charged attempt is left      *)
(* while the client connects.                                              *)
RecoveryInv ==
  /\ ~recovering => tries = 0
  /\ pc = "connect" /\ recovering => tries < reconnects
  /\ before <= completed
  /\ pc # "connect" => tries <= reconnects
  /\ pc \notin {"connect", "exited"} /\ before < completed => tries = 0

(* How the record follows the plies.  Between a move of our own and its    *)
(* echo the move is recorded or not; a refused move of the opponent is not.*)
RecordInv ==
  /\ pc \in Playing => status = "in_game"
  /\ pc \in {"turn", "echo"} => ~adjudicating
  /\ pc = "turn" => recorded = plies
  /\ pc = "echo" => recorded + (IF moveRecorded THEN 0 ELSE 1) = plies
  /\ pc = "opponent" \/ (pc = "returned" /\ status = "in_game" /\ ~lostRecord) =>
       recorded + (IF adjudicating THEN 1 ELSE 0) = plies

(* The dialogue with the server.  The header is about the game whose id it *)
(* carries, and a validated one about the game agreed to; whoever is back  *)
(* between two games has no game agreed to and no request unanswered, but  *)
(* for a lost record.                                                      *)
DialogueInv ==
  /\ HandshakeBeforePlay
  /\ pc \in Playing => ~queued /\ consumed = 0
  /\ pc = "boundary" =>
       /\ activeGame = None
       /\ lostRecord \/ (agreed = None /\ (requestGame => ~queued))
  /\ pc = "header" =>
       /\ status = "waiting_for_game"
       /\ activeGame = summaryId
       /\ validated => summaryId # None /\ agreed = summaryId
       /\ validated \/ lostRecord \/ agreed = None
  /\ pc = "returned" =>
       \/ status = "in_game" /\ (lostRecord \/ (agreed = None /\ ~queued))
       \/ status = "game_rejected" /\ activeGame = None /\ agreed = None
       \/ status = "client_error" /\ result = "aborted"
  /\ pc = "failed" =>
       activeGame # None \/ error # "transport" \/ lostRecord \/ agreed = None
  /\ status = "client_error" =>
       /\ pc \in {"returned", "failed", "exited"}
       /\ pc = "exited" => exitCode = 3

(* A result may still trail the last game only if none was taken for it.   *)
LateInv == awaiting => ended = "aborted" /\ consumed = 0

CsaInv == TypeOK /\ BatchInv /\ RecoveryInv /\ RecordInv /\ DialogueInv /\ LateInv
-----------------------------------------------------------------------------
USE IdsAssumption, LimitsAssumption

LEMMA TypeParts == TypeOK <=> Values /\ Flags
BY DEF TypeOK, Values, Flags

(* The variables keep their types.                                         *)
LEMMA ValuesStep == Values /\ RecordInv /\ [Next]_vars => Values'
<1> SUFFICES ASSUME Values, RecordInv, [Next]_vars PROVE Values'
  OBVIOUS
<1> USE DEF Values, RecordInv, configVars, loopVars, headerVars, gameVars, dialogVars,
        clientVars, PlayFrame, Exit, Fail, Return, ProtocolError, GiveUpRecord,
        Playing, Results, NoLimit, AttemptLeft, StopForLimit, RecordOurMove
<1>1. ASSUME Connect PROVE Values'
  BY <1>1 DEF Connect
<1>2. ASSUME ConnectFails PROVE Values'
  BY <1>2 DEF ConnectFails
<1>3. ASSUME RunFailed PROVE Values'
  BY <1>3 DEF RunFailed, AtBoundary
<1>4. ASSUME RequestGame PROVE Values'
  BY <1>4 DEF RequestGame
<1>5. ASSUME Rejected PROVE Values'
  BY <1>5 DEF Rejected
<1>6. ASSUME GameOver PROVE Values'
  BY <1>6 DEF GameOver, TerminalError
<1>7. ASSUME NEW id \in Ids, GameId(id) PROVE Values'
  BY <1>7 DEF GameId, HeaderLine
<1>8. ASSUME NEW id \in Ids, Reject(id) PROVE Values'
  BY <1>8 DEF Reject
<1>9. ASSUME NEW id \in Ids, Start(id) PROVE Values'
  BY <1>9 DEF Start
<1>10. ASSUME YourTurn PROVE Values'
  BY <1>10 DEF YourTurn, HeaderLine
<1>11. ASSUME MisplacedTime PROVE Values'
  BY <1>11 DEF MisplacedTime, HeaderLine
<1>12. ASSUME EndSummary PROVE Values'
  BY <1>12 DEF EndSummary, HeaderLine
<1>13. ASSUME OtherHeaderLine PROVE Values'
  BY <1>13 DEF OtherHeaderLine, HeaderLine
<1>14. ASSUME LateResult PROVE Values'
  BY <1>14 DEF LateResult
<1>15. ASSUME UnexpectedResult PROVE Values'
  BY <1>15 DEF UnexpectedResult
<1>16. ASSUME HeaderReadFails PROVE Values'
  BY <1>16 DEF HeaderReadFails
<1>17. ASSUME Think PROVE Values'
  BY <1>17 DEF Think, OurTurn
<1>18. ASSUME AwaitOpponent PROVE Values'
  BY <1>18 DEF AwaitOpponent
<1>19. ASSUME Remark PROVE Values'
  BY <1>19 DEF Remark
<1>20. ASSUME NEW outcome \in Results, Result(outcome) PROVE Values'
  BY <1>20 DEF Result
<1>21. ASSUME Echo PROVE Values'
  BY <1>21 DEF Echo
<1>22. ASSUME OpponentMove PROVE Values'
  BY <1>22 DEF OpponentMove
<1>23. ASSUME Deadline PROVE Values'
  BY <1>23 DEF Deadline
<1>24. ASSUME ReadFails PROVE Values'
  BY <1>24 DEF ReadFails
<1>25. ASSUME UNCHANGED vars PROVE Values'
  BY <1>25 DEF vars
<1>26. QED
  BY <1>1, <1>2, <1>3, <1>4, <1>5, <1>6, <1>7, <1>8, <1>9, <1>10, <1>11, <1>12,
     <1>13, <1>14, <1>15, <1>16, <1>17, <1>18, <1>19, <1>20, <1>21, <1>22, <1>23, <1>24, <1>25
     DEF Next, ProcessStep, HeaderStep, PlayStep, Terminated

(* The flags stay flags.                                                   *)
LEMMA FlagsStep == Flags /\ [Next]_vars => Flags'
<1> SUFFICES ASSUME Flags, [Next]_vars PROVE Flags'
  OBVIOUS
<1> USE DEF Flags, configVars, loopVars, headerVars, gameVars, dialogVars,
        clientVars, PlayFrame, Exit, Fail, Return, ProtocolError, GiveUpRecord,
        Playing, Results, NoLimit, AttemptLeft, StopForLimit, RecordOurMove
<1>1. ASSUME Connect PROVE Flags'
  BY <1>1, Zenon DEF Connect
<1>2. ASSUME ConnectFails PROVE Flags'
  BY <1>2, Zenon DEF ConnectFails
<1>3. ASSUME RunFailed PROVE Flags'
  BY <1>3, Zenon DEF RunFailed, AtBoundary
<1>4. ASSUME RequestGame PROVE Flags'
  BY <1>4, Zenon DEF RequestGame
<1>5. ASSUME Rejected PROVE Flags'
  BY <1>5, Zenon DEF Rejected
<1>6. ASSUME GameOver PROVE Flags'
  BY <1>6, Zenon DEF GameOver
<1>7. ASSUME NEW id \in Ids, GameId(id) PROVE Flags'
  BY <1>7, Zenon DEF GameId, HeaderLine
<1>8. ASSUME NEW id \in Ids, Reject(id) PROVE Flags'
  BY <1>8, Zenon DEF Reject
<1>9. ASSUME NEW id \in Ids, Start(id) PROVE Flags'
  BY <1>9, Zenon DEF Start
<1>10. ASSUME YourTurn PROVE Flags'
  BY <1>10, Zenon DEF YourTurn, HeaderLine
<1>11. ASSUME MisplacedTime PROVE Flags'
  BY <1>11, Zenon DEF MisplacedTime, HeaderLine
<1>12. ASSUME EndSummary PROVE Flags'
  BY <1>12, Zenon DEF EndSummary, HeaderLine
<1>13. ASSUME OtherHeaderLine PROVE Flags'
  BY <1>13, Zenon DEF OtherHeaderLine, HeaderLine
<1>14. ASSUME LateResult PROVE Flags'
  BY <1>14, Zenon DEF LateResult
<1>15. ASSUME UnexpectedResult PROVE Flags'
  BY <1>15, Zenon DEF UnexpectedResult
<1>16. ASSUME HeaderReadFails PROVE Flags'
  BY <1>16, Zenon DEF HeaderReadFails
<1>17. ASSUME Think PROVE Flags'
  <2>1. UNCHANGED <<keepAlive, recovering, awaiting, requestGame, headerStarted,
                    color, validated, adjudicating, queued>>
    BY <1>17 DEF Think
  <2>2. moveRecorded' \in BOOLEAN
    BY <1>17, Zenon DEF Think
  <2>3. resigned' \in BOOLEAN
    BY <1>17, Zenon DEF Think
  <2>4. lostRecord' \in BOOLEAN
    BY <1>17, Zenon DEF Think
  <2>5. QED
    BY <2>1, <2>2, <2>3, <2>4
<1>18. ASSUME AwaitOpponent PROVE Flags'
  BY <1>18, Zenon DEF AwaitOpponent
<1>19. ASSUME Remark PROVE Flags'
  BY <1>19, Zenon DEF Remark
<1>20. ASSUME NEW outcome \in Results, Result(outcome) PROVE Flags'
  BY <1>20, Zenon DEF Result
<1>21. ASSUME Echo PROVE Flags'
  <2>1. UNCHANGED <<keepAlive, recovering, awaiting, requestGame, headerStarted,
                    color, validated, adjudicating, queued, moveRecorded, resigned>>
    BY <1>21 DEF Echo
  <2>2. lostRecord' \in {lostRecord, TRUE}
    BY <1>21 DEF Echo
  <2>3. QED
    BY <2>1, <2>2, Zenon
<1>22. ASSUME OpponentMove PROVE Flags'
  BY <1>22, Zenon DEF OpponentMove
<1>23. ASSUME Deadline PROVE Flags'
  BY <1>23, Zenon DEF Deadline
<1>24. ASSUME ReadFails PROVE Flags'
  BY <1>24, Zenon DEF ReadFails
<1>25. ASSUME UNCHANGED vars PROVE Flags'
  BY <1>25, Zenon DEF vars
<1>26. QED
  BY <1>1, <1>2, <1>3, <1>4, <1>5, <1>6, <1>7, <1>8, <1>9, <1>10, <1>11, <1>12,
     <1>13, <1>14, <1>15, <1>16, <1>17, <1>18, <1>19, <1>20, <1>21, <1>22, <1>23, <1>24, <1>25
     DEF Next, ProcessStep, HeaderStep, PlayStep, Terminated

(* The record follows the plies, in every step.                            *)
LEMMA RecordStep == TypeOK /\ RecordInv /\ DialogueInv /\ [Next]_vars => RecordInv'
<1> SUFFICES ASSUME TypeOK, RecordInv, DialogueInv, [Next]_vars PROVE RecordInv'
  OBVIOUS
<1> USE DEF TypeOK, RecordInv, DialogueInv, configVars, loopVars, headerVars, gameVars, dialogVars,
        clientVars, PlayFrame, Exit, Fail, Return, ProtocolError, GiveUpRecord,
        Playing, Results, NoLimit, AttemptLeft, StopForLimit, RecordOurMove
<1>1. ASSUME Connect PROVE RecordInv'
  BY <1>1 DEF Connect
<1>2. ASSUME ConnectFails PROVE RecordInv'
  BY <1>2 DEF ConnectFails
<1>3. ASSUME RunFailed PROVE RecordInv'
  BY <1>3 DEF RunFailed, AtBoundary
<1>4. ASSUME RequestGame PROVE RecordInv'
  BY <1>4 DEF RequestGame
<1>5. ASSUME Rejected PROVE RecordInv'
  BY <1>5 DEF Rejected
<1>6. ASSUME GameOver PROVE RecordInv'
  BY <1>6 DEF GameOver, TerminalError
<1>7. ASSUME NEW id \in Ids, GameId(id) PROVE RecordInv'
  BY <1>7 DEF GameId, HeaderLine
<1>8. ASSUME NEW id \in Ids, Reject(id) PROVE RecordInv'
  BY <1>8 DEF Reject
<1>9. ASSUME NEW id \in Ids, Start(id) PROVE RecordInv'
  BY <1>9 DEF Start
<1>10. ASSUME YourTurn PROVE RecordInv'
  BY <1>10 DEF YourTurn, HeaderLine
<1>11. ASSUME MisplacedTime PROVE RecordInv'
  BY <1>11 DEF MisplacedTime, HeaderLine
<1>12. ASSUME EndSummary PROVE RecordInv'
  BY <1>12 DEF EndSummary, HeaderLine
<1>13. ASSUME OtherHeaderLine PROVE RecordInv'
  BY <1>13 DEF OtherHeaderLine, HeaderLine
<1>14. ASSUME LateResult PROVE RecordInv'
  BY <1>14 DEF LateResult
<1>15. ASSUME UnexpectedResult PROVE RecordInv'
  BY <1>15 DEF UnexpectedResult
<1>16. ASSUME HeaderReadFails PROVE RecordInv'
  BY <1>16 DEF HeaderReadFails
<1>17. ASSUME Think PROVE RecordInv'
  BY <1>17 DEF Think, OurTurn
<1>18. ASSUME AwaitOpponent PROVE RecordInv'
  BY <1>18 DEF AwaitOpponent, OurTurn
<1>19. ASSUME Remark PROVE RecordInv'
  BY <1>19 DEF Remark
<1>20. ASSUME NEW outcome \in Results, Result(outcome) PROVE RecordInv'
  BY <1>20 DEF Result
<1>21. ASSUME Echo PROVE RecordInv'
  BY <1>21 DEF Echo
<1>22. ASSUME OpponentMove PROVE RecordInv'
  BY <1>22 DEF OpponentMove
<1>23. ASSUME Deadline PROVE RecordInv'
  BY <1>23 DEF Deadline
<1>24. ASSUME ReadFails PROVE RecordInv'
  BY <1>24 DEF ReadFails
<1>25. ASSUME UNCHANGED vars PROVE RecordInv'
  BY <1>25 DEF vars
<1>26. QED
  BY <1>1, <1>2, <1>3, <1>4, <1>5, <1>6, <1>7, <1>8, <1>9, <1>10, <1>11, <1>12,
     <1>13, <1>14, <1>15, <1>16, <1>17, <1>18, <1>19, <1>20, <1>21, <1>22, <1>23, <1>24, <1>25
     DEF Next, ProcessStep, HeaderStep, PlayStep, Terminated

(* The batch stays within its limit, in every step.                        *)
LEMMA BatchStep == TypeOK /\ BatchInv /\ DialogueInv /\ [Next]_vars => BatchInv'
<1> SUFFICES ASSUME TypeOK, BatchInv, DialogueInv, [Next]_vars PROVE BatchInv'
  OBVIOUS
<1> USE DEF TypeOK, BatchInv, BoundedBatch, DialogueInv, configVars, loopVars, headerVars, gameVars, dialogVars,
        clientVars, PlayFrame, Exit, Fail, Return, ProtocolError, GiveUpRecord,
        Playing, Results, NoLimit, AttemptLeft, StopForLimit, RecordOurMove
<1>1. ASSUME Connect PROVE BatchInv'
  BY <1>1 DEF Connect
<1>2. ASSUME ConnectFails PROVE BatchInv'
  <2>1. UNCHANGED <<keepAlive, limit, completed>> /\ pc = "connect"
    BY <1>2 DEF ConnectFails
  <2>2. \/ pc' = "connect" /\ exitCode' = exitCode
        \/ pc' = "exited" /\ exitCode' \in {1, 3}
    BY <1>2 DEF ConnectFails
  <2>3. QED
    BY <2>1, <2>2
<1>3. ASSUME RunFailed PROVE BatchInv'
  BY <1>3 DEF RunFailed, AtBoundary
<1>4. ASSUME RequestGame PROVE BatchInv'
  BY <1>4 DEF RequestGame, LimitReached
<1>5. ASSUME Rejected PROVE BatchInv'
  BY <1>5 DEF Rejected
<1>6. ASSUME GameOver PROVE BatchInv'
  BY <1>6 DEF GameOver, TerminalError
<1>7. ASSUME NEW id \in Ids, GameId(id) PROVE BatchInv'
  BY <1>7 DEF GameId, HeaderLine
<1>8. ASSUME NEW id \in Ids, Reject(id) PROVE BatchInv'
  BY <1>8 DEF Reject
<1>9. ASSUME NEW id \in Ids, Start(id) PROVE BatchInv'
  BY <1>9 DEF Start
<1>10. ASSUME YourTurn PROVE BatchInv'
  BY <1>10 DEF YourTurn, HeaderLine
<1>11. ASSUME MisplacedTime PROVE BatchInv'
  BY <1>11 DEF MisplacedTime, HeaderLine
<1>12. ASSUME EndSummary PROVE BatchInv'
  BY <1>12 DEF EndSummary, HeaderLine
<1>13. ASSUME OtherHeaderLine PROVE BatchInv'
  BY <1>13 DEF OtherHeaderLine, HeaderLine
<1>14. ASSUME LateResult PROVE BatchInv'
  BY <1>14 DEF LateResult
<1>15. ASSUME UnexpectedResult PROVE BatchInv'
  BY <1>15 DEF UnexpectedResult
<1>16. ASSUME HeaderReadFails PROVE BatchInv'
  BY <1>16 DEF HeaderReadFails
<1>17. ASSUME Think PROVE BatchInv'
  BY <1>17 DEF Think
<1>18. ASSUME AwaitOpponent PROVE BatchInv'
  BY <1>18 DEF AwaitOpponent
<1>19. ASSUME Remark PROVE BatchInv'
  BY <1>19 DEF Remark
<1>20. ASSUME NEW outcome \in Results, Result(outcome) PROVE BatchInv'
  BY <1>20 DEF Result
<1>21. ASSUME Echo PROVE BatchInv'
  BY <1>21 DEF Echo
<1>22. ASSUME OpponentMove PROVE BatchInv'
  BY <1>22 DEF OpponentMove
<1>23. ASSUME Deadline PROVE BatchInv'
  BY <1>23 DEF Deadline
<1>24. ASSUME ReadFails PROVE BatchInv'
  BY <1>24 DEF ReadFails
<1>25. ASSUME UNCHANGED vars PROVE BatchInv'
  BY <1>25 DEF vars
<1>26. QED
  BY <1>1, <1>2, <1>3, <1>4, <1>5, <1>6, <1>7, <1>8, <1>9, <1>10, <1>11, <1>12,
     <1>13, <1>14, <1>15, <1>16, <1>17, <1>18, <1>19, <1>20, <1>21, <1>22, <1>23, <1>24, <1>25
     DEF Next, ProcessStep, HeaderStep, PlayStep, Terminated

(* The recovery stays within its limit, in every step.                     *)
LEMMA RecoveryStep == TypeOK /\ RecoveryInv /\ [Next]_vars => RecoveryInv'
<1> SUFFICES ASSUME TypeOK, RecoveryInv, [Next]_vars PROVE RecoveryInv'
  OBVIOUS
<1> USE DEF TypeOK, RecoveryInv, configVars, loopVars, headerVars, gameVars, dialogVars,
        clientVars, PlayFrame, Exit, Fail, Return, ProtocolError, GiveUpRecord,
        Playing, Results, NoLimit, AttemptLeft, StopForLimit, RecordOurMove
<1>1. ASSUME Connect PROVE RecoveryInv'
  BY <1>1 DEF Connect
<1>2. ASSUME ConnectFails PROVE RecoveryInv'
  BY <1>2 DEF ConnectFails
<1>3. ASSUME RunFailed PROVE RecoveryInv'
  <2> DEFINE used == IF completed > before THEN 0 ELSE reconnects
  <2>1. pc = "failed" /\ UNCHANGED <<completed, before, tries>>
    BY <1>3 DEF RunFailed
  <2>2. tries <= used /\ used \in Nat /\ tries \in Nat
    BY <2>1
  <2>3. CASE pc' = "connect"
    <3>1. recovering' = TRUE /\ reconnects' = used + 1
      BY <1>3, <2>3 DEF RunFailed
    <3>2. QED
      BY <2>1, <2>2, <2>3, <3>1
  <2>4. CASE pc' = "exited"
    <3>1. recovering' = recovering /\ reconnects' \in {used, reconnects}
      BY <1>3, <2>4 DEF RunFailed
    <3>2. tries <= reconnects'
      BY <2>1, <2>2, <3>1
    <3>3. QED
      BY <2>1, <2>4, <3>1, <3>2
  <2>5. QED
    BY <1>3, <2>3, <2>4 DEF RunFailed
<1>4. ASSUME RequestGame PROVE RecoveryInv'
  BY <1>4 DEF RequestGame
<1>5. ASSUME Rejected PROVE RecoveryInv'
  BY <1>5 DEF Rejected
<1>6. ASSUME GameOver PROVE RecoveryInv'
  BY <1>6 DEF GameOver, TerminalError
<1>7. ASSUME NEW id \in Ids, GameId(id) PROVE RecoveryInv'
  BY <1>7 DEF GameId, HeaderLine
<1>8. ASSUME NEW id \in Ids, Reject(id) PROVE RecoveryInv'
  BY <1>8 DEF Reject
<1>9. ASSUME NEW id \in Ids, Start(id) PROVE RecoveryInv'
  BY <1>9 DEF Start
<1>10. ASSUME YourTurn PROVE RecoveryInv'
  BY <1>10 DEF YourTurn, HeaderLine
<1>11. ASSUME MisplacedTime PROVE RecoveryInv'
  BY <1>11 DEF MisplacedTime, HeaderLine
<1>12. ASSUME EndSummary PROVE RecoveryInv'
  BY <1>12 DEF EndSummary, HeaderLine
<1>13. ASSUME OtherHeaderLine PROVE RecoveryInv'
  BY <1>13 DEF OtherHeaderLine, HeaderLine
<1>14. ASSUME LateResult PROVE RecoveryInv'
  BY <1>14 DEF LateResult
<1>15. ASSUME UnexpectedResult PROVE RecoveryInv'
  BY <1>15 DEF UnexpectedResult
<1>16. ASSUME HeaderReadFails PROVE RecoveryInv'
  BY <1>16 DEF HeaderReadFails
<1>17. ASSUME Think PROVE RecoveryInv'
  BY <1>17 DEF Think
<1>18. ASSUME AwaitOpponent PROVE RecoveryInv'
  BY <1>18 DEF AwaitOpponent
<1>19. ASSUME Remark PROVE RecoveryInv'
  BY <1>19 DEF Remark
<1>20. ASSUME NEW outcome \in Results, Result(outcome) PROVE RecoveryInv'
  BY <1>20 DEF Result
<1>21. ASSUME Echo PROVE RecoveryInv'
  BY <1>21 DEF Echo
<1>22. ASSUME OpponentMove PROVE RecoveryInv'
  BY <1>22 DEF OpponentMove
<1>23. ASSUME Deadline PROVE RecoveryInv'
  BY <1>23 DEF Deadline
<1>24. ASSUME ReadFails PROVE RecoveryInv'
  BY <1>24 DEF ReadFails
<1>25. ASSUME UNCHANGED vars PROVE RecoveryInv'
  BY <1>25 DEF vars
<1>26. QED
  BY <1>1, <1>2, <1>3, <1>4, <1>5, <1>6, <1>7, <1>8, <1>9, <1>10, <1>11, <1>12,
     <1>13, <1>14, <1>15, <1>16, <1>17, <1>18, <1>19, <1>20, <1>21, <1>22, <1>23, <1>24, <1>25
     DEF Next, ProcessStep, HeaderStep, PlayStep, Terminated

(* The dialogue stays in order, in every step.                             *)
LEMMA DialogueStep == TypeOK /\ BatchInv /\ RecordInv /\ DialogueInv /\ [Next]_vars => DialogueInv'
<1> SUFFICES ASSUME TypeOK, BatchInv, RecordInv, DialogueInv, [Next]_vars PROVE DialogueInv'
  OBVIOUS
<1> USE DEF TypeOK, BatchInv, RecordInv, DialogueInv, HandshakeBeforePlay, configVars, loopVars, headerVars, gameVars, dialogVars,
        clientVars, PlayFrame, Exit, Fail, Return, ProtocolError, GiveUpRecord,
        Playing, Results, NoLimit, AttemptLeft, StopForLimit, RecordOurMove
<1>1. ASSUME Connect PROVE DialogueInv'
  BY <1>1 DEF Connect
<1>2. ASSUME ConnectFails PROVE DialogueInv'
  BY <1>2 DEF ConnectFails
<1>3. ASSUME RunFailed PROVE DialogueInv'
  BY <1>3 DEF RunFailed, AtBoundary
<1>4. ASSUME RequestGame PROVE DialogueInv'
  BY <1>4 DEF RequestGame
<1>5. ASSUME Rejected PROVE DialogueInv'
  BY <1>5 DEF Rejected
<1>6. ASSUME GameOver PROVE DialogueInv'
  BY <1>6 DEF GameOver, TerminalError
<1>7. ASSUME NEW id \in Ids, GameId(id) PROVE DialogueInv'
  BY <1>7 DEF GameId, HeaderLine
<1>8. ASSUME NEW id \in Ids, Reject(id) PROVE DialogueInv'
  BY <1>8 DEF Reject
<1>9. ASSUME NEW id \in Ids, Start(id) PROVE DialogueInv'
  BY <1>9 DEF Start
<1>10. ASSUME YourTurn PROVE DialogueInv'
  BY <1>10 DEF YourTurn, HeaderLine
<1>11. ASSUME MisplacedTime PROVE DialogueInv'
  BY <1>11 DEF MisplacedTime, HeaderLine
<1>12. ASSUME EndSummary PROVE DialogueInv'
  BY <1>12 DEF EndSummary, HeaderLine
<1>13. ASSUME OtherHeaderLine PROVE DialogueInv'
  BY <1>13 DEF OtherHeaderLine, HeaderLine
<1>14. ASSUME LateResult PROVE DialogueInv'
  BY <1>14 DEF LateResult
<1>15. ASSUME UnexpectedResult PROVE DialogueInv'
  BY <1>15 DEF UnexpectedResult
<1>16. ASSUME HeaderReadFails PROVE DialogueInv'
  BY <1>16 DEF HeaderReadFails
<1>17. ASSUME Think PROVE DialogueInv'
  BY <1>17 DEF Think
<1>18. ASSUME AwaitOpponent PROVE DialogueInv'
  BY <1>18 DEF AwaitOpponent
<1>19. ASSUME Remark PROVE DialogueInv'
  BY <1>19 DEF Remark
<1>20. ASSUME NEW outcome \in Results, Result(outcome) PROVE DialogueInv'
  BY <1>20 DEF Result
<1>21. ASSUME Echo PROVE DialogueInv'
  BY <1>21 DEF Echo
<1>22. ASSUME OpponentMove PROVE DialogueInv'
  BY <1>22 DEF OpponentMove
<1>23. ASSUME Deadline PROVE DialogueInv'
  BY <1>23 DEF Deadline
<1>24. ASSUME ReadFails PROVE DialogueInv'
  BY <1>24 DEF ReadFails
<1>25. ASSUME UNCHANGED vars PROVE DialogueInv'
  BY <1>25 DEF vars
<1>26. QED
  BY <1>1, <1>2, <1>3, <1>4, <1>5, <1>6, <1>7, <1>8, <1>9, <1>10, <1>11, <1>12,
     <1>13, <1>14, <1>15, <1>16, <1>17, <1>18, <1>19, <1>20, <1>21, <1>22, <1>23, <1>24, <1>25
     DEF Next, ProcessStep, HeaderStep, PlayStep, Terminated

(* A trailing result is permitted once, in every step.                     *)
LEMMA LateStep == TypeOK /\ DialogueInv /\ LateInv /\ [Next]_vars => LateInv'
<1> SUFFICES ASSUME TypeOK, DialogueInv, LateInv, [Next]_vars PROVE LateInv'
  OBVIOUS
<1> USE DEF TypeOK, DialogueInv, LateInv, configVars, loopVars, headerVars, gameVars, dialogVars,
        clientVars, PlayFrame, Exit, Fail, Return, ProtocolError, GiveUpRecord,
        Playing, Results, NoLimit, AttemptLeft, StopForLimit, RecordOurMove
<1>1. ASSUME Connect PROVE LateInv'
  BY <1>1 DEF Connect
<1>2. ASSUME ConnectFails PROVE LateInv'
  BY <1>2 DEF ConnectFails
<1>3. ASSUME RunFailed PROVE LateInv'
  BY <1>3 DEF RunFailed, AtBoundary
<1>4. ASSUME RequestGame PROVE LateInv'
  BY <1>4 DEF RequestGame
<1>5. ASSUME Rejected PROVE LateInv'
  BY <1>5 DEF Rejected
<1>6. ASSUME GameOver PROVE LateInv'
  BY <1>6 DEF GameOver, TerminalError
<1>7. ASSUME NEW id \in Ids, GameId(id) PROVE LateInv'
  BY <1>7 DEF GameId, HeaderLine
<1>8. ASSUME NEW id \in Ids, Reject(id) PROVE LateInv'
  BY <1>8 DEF Reject
<1>9. ASSUME NEW id \in Ids, Start(id) PROVE LateInv'
  BY <1>9 DEF Start
<1>10. ASSUME YourTurn PROVE LateInv'
  BY <1>10 DEF YourTurn, HeaderLine
<1>11. ASSUME MisplacedTime PROVE LateInv'
  BY <1>11 DEF MisplacedTime, HeaderLine
<1>12. ASSUME EndSummary PROVE LateInv'
  BY <1>12 DEF EndSummary, HeaderLine
<1>13. ASSUME OtherHeaderLine PROVE LateInv'
  BY <1>13 DEF OtherHeaderLine, HeaderLine
<1>14. ASSUME LateResult PROVE LateInv'
  BY <1>14 DEF LateResult
<1>15. ASSUME UnexpectedResult PROVE LateInv'
  BY <1>15 DEF UnexpectedResult
<1>16. ASSUME HeaderReadFails PROVE LateInv'
  BY <1>16 DEF HeaderReadFails
<1>17. ASSUME Think PROVE LateInv'
  BY <1>17 DEF Think
<1>18. ASSUME AwaitOpponent PROVE LateInv'
  BY <1>18 DEF AwaitOpponent
<1>19. ASSUME Remark PROVE LateInv'
  BY <1>19 DEF Remark
<1>20. ASSUME NEW outcome \in Results, Result(outcome) PROVE LateInv'
  BY <1>20 DEF Result
<1>21. ASSUME Echo PROVE LateInv'
  BY <1>21 DEF Echo
<1>22. ASSUME OpponentMove PROVE LateInv'
  BY <1>22 DEF OpponentMove
<1>23. ASSUME Deadline PROVE LateInv'
  BY <1>23 DEF Deadline
<1>24. ASSUME ReadFails PROVE LateInv'
  BY <1>24 DEF ReadFails
<1>25. ASSUME UNCHANGED vars PROVE LateInv'
  BY <1>25 DEF vars
<1>26. QED
  BY <1>1, <1>2, <1>3, <1>4, <1>5, <1>6, <1>7, <1>8, <1>9, <1>10, <1>11, <1>12,
     <1>13, <1>14, <1>15, <1>16, <1>17, <1>18, <1>19, <1>20, <1>21, <1>22, <1>23, <1>24, <1>25
     DEF Next, ProcessStep, HeaderStep, PlayStep, Terminated

-----------------------------------------------------------------------------
LEMMA CsaInitial == Init => CsaInv
<1> SUFFICES ASSUME Init PROVE CsaInv
  OBVIOUS
<1> USE DEF Init, NoLimit, Playing, Results
<1>1. Flags
  <2>1. keepAlive \in BOOLEAN
    OBVIOUS
  <2>2. QED
    BY <2>1, Zenon DEF Flags
<1>2. Values
  BY DEF Values
<1>3. BatchInv
  BY DEF BatchInv, BoundedBatch
<1>4. QED
  BY <1>1, <1>2, <1>3, TypeParts DEF CsaInv, RecoveryInv, RecordInv, DialogueInv,
     HandshakeBeforePlay, LateInv

LEMMA CsaStep == CsaInv /\ [Next]_vars => CsaInv'
<1>1. CsaInv /\ [Next]_vars => Values' /\ Flags'
  BY ValuesStep, FlagsStep, TypeParts DEF CsaInv
<1>2. Values' /\ Flags' => TypeOK'
  BY DEF TypeOK, Values, Flags
<1>3. QED
  BY <1>1, <1>2, RecordStep, BatchStep, RecoveryStep, DialogueStep, LateStep DEF CsaInv

LEMMA CsaInvariance == Spec => []CsaInv
BY CsaInitial, CsaStep, PTL DEF Spec

(* The variables of the client keep their types, with every limit.         *)
THEOREM TypeCorrect == Spec => []TypeOK
BY CsaInvariance, PTL DEF CsaInv

(* The game being played is the one agreed to and started, in whatever     *)
(* order the lines of the server come.                                     *)
THEOREM PlaysTheAgreedGame == Spec => []HandshakeBeforePlay
BY CsaInvariance, PTL DEF CsaInv, DialogueInv

(* A batch, its recovery and the plies of a game stay within their limits. *)
THEOREM StaysBounded == Spec => []Bounded
<1>1. CsaInv => Bounded
  BY DEF CsaInv, BatchInv, RecoveryInv, TypeOK, Bounded, BoundedRecovery
<1>2. QED
  BY <1>1, CsaInvariance, PTL

(* The record holds every move played, once.                               *)
THEOREM RecordsEveryMove == Spec => []RecordComplete
<1>1. CsaInv => RecordComplete
  BY DEF CsaInv, RecordInv, RecordComplete
<1>2. QED
  BY <1>1, CsaInvariance, PTL

-----------------------------------------------------------------------------
(* What StartsOverWhenDue and LateResultOnce say of one step.              *)
StartsOver ==
  /\ pc = "boundary" /\ pc' = "header" /\ requestGame =>
       lostRecord \/ (~queued /\ agreed = None)
  /\ pc = "failed" /\ pc' = "connect" => lostRecord \/ agreed = None
  /\ status = "client_error" =>
       pc' \in {"returned", "failed", "exited"} /\ exitCode' \in {99, 3}

TakesLateResult ==
  consumed' > consumed => ended = "aborted" /\ consumed = 0 /\ ~headerStarted

(* No step starts over when it is not due.                                 *)
LEMMA StartsOverStep == TypeOK /\ BatchInv /\ DialogueInv /\ [Next]_vars => StartsOver
<1> SUFFICES ASSUME TypeOK, BatchInv, DialogueInv, [Next]_vars PROVE StartsOver
  OBVIOUS
<1> USE DEF TypeOK, BatchInv, DialogueInv, StartsOver, configVars, loopVars, headerVars, gameVars, dialogVars,
        clientVars, PlayFrame, Exit, Fail, Return, ProtocolError, GiveUpRecord,
        Playing, Results, NoLimit, AttemptLeft, StopForLimit, RecordOurMove
<1>1. ASSUME Connect PROVE StartsOver
  BY <1>1 DEF Connect
<1>2. ASSUME ConnectFails PROVE StartsOver
  BY <1>2 DEF ConnectFails
<1>3. ASSUME RunFailed PROVE StartsOver
  BY <1>3 DEF RunFailed, AtBoundary
<1>4. ASSUME RequestGame PROVE StartsOver
  BY <1>4 DEF RequestGame
<1>5. ASSUME Rejected PROVE StartsOver
  BY <1>5 DEF Rejected
<1>6. ASSUME GameOver PROVE StartsOver
  BY <1>6 DEF GameOver, TerminalError
<1>7. ASSUME NEW id \in Ids, GameId(id) PROVE StartsOver
  BY <1>7 DEF GameId, HeaderLine
<1>8. ASSUME NEW id \in Ids, Reject(id) PROVE StartsOver
  BY <1>8 DEF Reject
<1>9. ASSUME NEW id \in Ids, Start(id) PROVE StartsOver
  BY <1>9 DEF Start
<1>10. ASSUME YourTurn PROVE StartsOver
  BY <1>10 DEF YourTurn, HeaderLine
<1>11. ASSUME MisplacedTime PROVE StartsOver
  BY <1>11 DEF MisplacedTime, HeaderLine
<1>12. ASSUME EndSummary PROVE StartsOver
  BY <1>12 DEF EndSummary, HeaderLine
<1>13. ASSUME OtherHeaderLine PROVE StartsOver
  BY <1>13 DEF OtherHeaderLine, HeaderLine
<1>14. ASSUME LateResult PROVE StartsOver
  BY <1>14 DEF LateResult
<1>15. ASSUME UnexpectedResult PROVE StartsOver
  BY <1>15 DEF UnexpectedResult
<1>16. ASSUME HeaderReadFails PROVE StartsOver
  BY <1>16 DEF HeaderReadFails
<1>17. ASSUME Think PROVE StartsOver
  BY <1>17 DEF Think
<1>18. ASSUME AwaitOpponent PROVE StartsOver
  BY <1>18 DEF AwaitOpponent
<1>19. ASSUME Remark PROVE StartsOver
  BY <1>19 DEF Remark
<1>20. ASSUME NEW outcome \in Results, Result(outcome) PROVE StartsOver
  BY <1>20 DEF Result
<1>21. ASSUME Echo PROVE StartsOver
  BY <1>21 DEF Echo
<1>22. ASSUME OpponentMove PROVE StartsOver
  BY <1>22 DEF OpponentMove
<1>23. ASSUME Deadline PROVE StartsOver
  BY <1>23 DEF Deadline
<1>24. ASSUME ReadFails PROVE StartsOver
  BY <1>24 DEF ReadFails
<1>25. ASSUME UNCHANGED vars PROVE StartsOver
  BY <1>25 DEF vars
<1>26. QED
  BY <1>1, <1>2, <1>3, <1>4, <1>5, <1>6, <1>7, <1>8, <1>9, <1>10, <1>11, <1>12,
     <1>13, <1>14, <1>15, <1>16, <1>17, <1>18, <1>19, <1>20, <1>21, <1>22, <1>23, <1>24, <1>25
     DEF Next, ProcessStep, HeaderStep, PlayStep, Terminated

(* Only a permitted result is taken.                                       *)
LEMMA LateResultStep == TypeOK /\ DialogueInv /\ LateInv /\ [Next]_vars => TakesLateResult
<1> SUFFICES ASSUME TypeOK, DialogueInv, LateInv, [Next]_vars PROVE TakesLateResult
  OBVIOUS
<1> USE DEF TypeOK, DialogueInv, LateInv, TakesLateResult, configVars, loopVars, headerVars, gameVars, dialogVars,
        clientVars, PlayFrame, Exit, Fail, Return, ProtocolError, GiveUpRecord,
        Playing, Results, NoLimit, AttemptLeft, StopForLimit, RecordOurMove
<1>1. ASSUME Connect PROVE TakesLateResult
  BY <1>1 DEF Connect
<1>2. ASSUME ConnectFails PROVE TakesLateResult
  BY <1>2 DEF ConnectFails
<1>3. ASSUME RunFailed PROVE TakesLateResult
  BY <1>3 DEF RunFailed, AtBoundary
<1>4. ASSUME RequestGame PROVE TakesLateResult
  BY <1>4 DEF RequestGame
<1>5. ASSUME Rejected PROVE TakesLateResult
  BY <1>5 DEF Rejected
<1>6. ASSUME GameOver PROVE TakesLateResult
  BY <1>6 DEF GameOver, TerminalError
<1>7. ASSUME NEW id \in Ids, GameId(id) PROVE TakesLateResult
  BY <1>7 DEF GameId, HeaderLine
<1>8. ASSUME NEW id \in Ids, Reject(id) PROVE TakesLateResult
  BY <1>8 DEF Reject
<1>9. ASSUME NEW id \in Ids, Start(id) PROVE TakesLateResult
  BY <1>9 DEF Start
<1>10. ASSUME YourTurn PROVE TakesLateResult
  BY <1>10 DEF YourTurn, HeaderLine
<1>11. ASSUME MisplacedTime PROVE TakesLateResult
  BY <1>11 DEF MisplacedTime, HeaderLine
<1>12. ASSUME EndSummary PROVE TakesLateResult
  BY <1>12 DEF EndSummary, HeaderLine
<1>13. ASSUME OtherHeaderLine PROVE TakesLateResult
  BY <1>13 DEF OtherHeaderLine, HeaderLine
<1>14. ASSUME LateResult PROVE TakesLateResult
  BY <1>14 DEF LateResult
<1>15. ASSUME UnexpectedResult PROVE TakesLateResult
  BY <1>15 DEF UnexpectedResult
<1>16. ASSUME HeaderReadFails PROVE TakesLateResult
  BY <1>16 DEF HeaderReadFails
<1>17. ASSUME Think PROVE TakesLateResult
  BY <1>17 DEF Think
<1>18. ASSUME AwaitOpponent PROVE TakesLateResult
  BY <1>18 DEF AwaitOpponent
<1>19. ASSUME Remark PROVE TakesLateResult
  BY <1>19 DEF Remark
<1>20. ASSUME NEW outcome \in Results, Result(outcome) PROVE TakesLateResult
  BY <1>20 DEF Result
<1>21. ASSUME Echo PROVE TakesLateResult
  BY <1>21 DEF Echo
<1>22. ASSUME OpponentMove PROVE TakesLateResult
  BY <1>22 DEF OpponentMove
<1>23. ASSUME Deadline PROVE TakesLateResult
  BY <1>23 DEF Deadline
<1>24. ASSUME ReadFails PROVE TakesLateResult
  BY <1>24 DEF ReadFails
<1>25. ASSUME UNCHANGED vars PROVE TakesLateResult
  BY <1>25 DEF vars
<1>26. QED
  BY <1>1, <1>2, <1>3, <1>4, <1>5, <1>6, <1>7, <1>8, <1>9, <1>10, <1>11, <1>12,
     <1>13, <1>14, <1>15, <1>16, <1>17, <1>18, <1>19, <1>20, <1>21, <1>22, <1>23, <1>24, <1>25
     DEF Next, ProcessStep, HeaderStep, PlayStep, Terminated

(* The client starts over only when it may: it requests a game when no     *)
(* request and no agreed game is left over, and replaces the connection at *)
(* a game boundary only, but for a lost record; after a client error it    *)
(* does neither.                                                           *)
THEOREM StartsOverOnlyWhenDue == Spec => StartsOverWhenDue
<1>1. CsaInv /\ [Next]_vars => [StartsOver]_vars
  BY StartsOverStep DEF CsaInv
<1>2. Spec => [][StartsOver]_vars
  BY <1>1, CsaInvariance, PTL DEF Spec
<1>3. QED
  BY <1>2 DEF StartsOverWhenDue, StartsOver

(* A trailing result is taken after an aborted game only, and once.        *)
THEOREM TakesLateResultOnce == Spec => LateResultOnce
<1>1. CsaInv /\ [Next]_vars => [TakesLateResult]_vars
  BY LateResultStep DEF CsaInv
<1>2. Spec => [][TakesLateResult]_vars
  BY <1>1, CsaInvariance, PTL DEF Spec
<1>3. QED
  BY <1>2 DEF LateResultOnce, TakesLateResult
-----------------------------------------------------------------------------
(* The refinement.  A request is out while the header is awaited, one that *)
(* still stands is for a game to be played, and a client that plays one    *)
(* game has not counted one before it is at its end.                       *)
Counted ==
  /\ pc = "header" => queued
  /\ pc = "returned" /\ status = "game_rejected" => queued
  /\ pc = "boundary" /\ ~requestGame /\ limit # NoLimit => completed < limit
  /\ ~keepAlive /\ pc \notin {"failed", "exited"} => completed = 0

(* What CsaBatch cannot see.                                               *)
Same == UNCHANGED <<Mode, Game, keepAlive, limit, Played, exitCode>>

Connected == pc \notin {"connect", "exited"}

ModeSays ==
  /\ pc = "connect" => Mode = "offline"
  /\ pc = "exited" => Mode = "over"
  /\ Connected /\ status = "client_error" => Mode = "broken"
  /\ Connected /\ status # "client_error" =>
       /\ lostRecord => Mode = "astray"
       /\ ~lostRecord /\ agreed # None /\ queued => Mode = "agreed"
       /\ ~lostRecord /\ agreed # None /\ ~queued => Mode = "playing"
       /\ ~lostRecord /\ agreed = None =>
            Mode = IF queued /\ ~(pc = "boundary" /\ requestGame) THEN "asked" ELSE "idle"
  /\ Mode = "agreed" => Game = {agreed, activeGame}
  /\ Mode = "playing" => Game = {agreed, activeGame, started}
  /\ Mode \notin {"agreed", "playing"} => Game = {}

LEMMA Modes == ModeSays /\ ModeSays'
<1> USE DEF ModeSays, Connected
<1>1. ModeSays
  BY DEF Mode, Game
<1>2. ModeSays'
  BY DEF Mode, Game
<1>3. QED
  BY <1>1, <1>2

LEMMA CountedStep == TypeOK /\ BatchInv /\ RecordInv /\ DialogueInv /\ Counted /\ [Next]_vars => Counted'
<1> SUFFICES ASSUME TypeOK, BatchInv, RecordInv, DialogueInv, Counted, [Next]_vars PROVE Counted'
  OBVIOUS
<1> USE DEF TypeOK, BatchInv, RecordInv, DialogueInv, Counted, configVars, loopVars, headerVars, gameVars,
        dialogVars, clientVars, PlayFrame, Exit, Fail, Return, ProtocolError, GiveUpRecord,
        Playing, Results, NoLimit, StopForLimit
<1>1. ASSUME Connect PROVE Counted'
  BY <1>1 DEF Connect
<1>2. ASSUME ConnectFails PROVE Counted'
  BY <1>2 DEF ConnectFails
<1>3. ASSUME RunFailed PROVE Counted'
  BY <1>3 DEF RunFailed, AtBoundary
<1>4. ASSUME RequestGame PROVE Counted'
  BY <1>4 DEF RequestGame, LimitReached
<1>5. ASSUME Rejected PROVE Counted'
  BY <1>5 DEF Rejected
<1>6. ASSUME GameOver PROVE Counted'
  BY <1>6 DEF GameOver, TerminalError
<1>7. ASSUME NEW id \in Ids, GameId(id) PROVE Counted'
  BY <1>7 DEF GameId, HeaderLine
<1>8. ASSUME NEW id \in Ids, Reject(id) PROVE Counted'
  BY <1>8 DEF Reject
<1>9. ASSUME NEW id \in Ids, Start(id) PROVE Counted'
  BY <1>9 DEF Start
<1>10. ASSUME YourTurn PROVE Counted'
  BY <1>10 DEF YourTurn, HeaderLine
<1>11. ASSUME MisplacedTime PROVE Counted'
  BY <1>11 DEF MisplacedTime, HeaderLine
<1>12. ASSUME EndSummary PROVE Counted'
  BY <1>12 DEF EndSummary, HeaderLine
<1>13. ASSUME OtherHeaderLine PROVE Counted'
  BY <1>13 DEF OtherHeaderLine, HeaderLine
<1>14. ASSUME LateResult PROVE Counted'
  BY <1>14 DEF LateResult
<1>15. ASSUME UnexpectedResult PROVE Counted'
  BY <1>15 DEF UnexpectedResult
<1>16. ASSUME HeaderReadFails PROVE Counted'
  BY <1>16 DEF HeaderReadFails
<1>17. ASSUME Think PROVE Counted'
  BY <1>17 DEF Think, OurTurn
<1>18. ASSUME AwaitOpponent PROVE Counted'
  BY <1>18 DEF AwaitOpponent
<1>19. ASSUME Remark PROVE Counted'
  BY <1>19 DEF Remark
<1>20. ASSUME NEW outcome \in Results, Result(outcome) PROVE Counted'
  BY <1>20 DEF Result
<1>21. ASSUME Echo PROVE Counted'
  BY <1>21 DEF Echo
<1>22. ASSUME OpponentMove PROVE Counted'
  BY <1>22 DEF OpponentMove
<1>23. ASSUME Deadline PROVE Counted'
  BY <1>23 DEF Deadline
<1>24. ASSUME ReadFails PROVE Counted'
  BY <1>24 DEF ReadFails
<1>25. ASSUME UNCHANGED vars PROVE Counted'
  BY <1>25 DEF vars
<1>26. QED
  BY <1>1, <1>2, <1>3, <1>4, <1>5, <1>6, <1>7, <1>8, <1>9, <1>10, <1>11, <1>12,
     <1>13, <1>14, <1>15, <1>16, <1>17, <1>18, <1>19, <1>20, <1>21, <1>22, <1>23, <1>24, <1>25
     DEF Next, ProcessStep, HeaderStep, PlayStep, Terminated

(* Every step of the client is a step of CsaBatch or leaves what it sees   *)
(* alone.                                                                  *)
LEMMA StepRefines == CsaInv /\ Counted /\ [Next]_vars => [Batch!Next]_(Batch!vars)
<1> SUFFICES ASSUME CsaInv, Counted, [Next]_vars PROVE Batch!Next \/ Same
  BY DEF Same, Batch!vars
<1> USE Modes, LimitsAssumption, IdsAssumption
    DEF CsaInv, TypeOK, BatchInv, BoundedBatch, RecordInv, DialogueInv, HandshakeBeforePlay, Counted, ModeSays, Connected,
        Same, Played, configVars, loopVars, headerVars, gameVars, dialogVars, clientVars,
        PlayFrame, Exit, Fail, Return, ProtocolError, GiveUpRecord, Playing, Results, NoLimit,
        StopForLimit, LimitReached, Batch!Frame, Batch!Due, Batch!Login, Batch!Ask, Batch!Agree,
        Batch!Withdraw, Batch!Begin, Batch!Finish, Batch!Stray, Batch!Break, Batch!Lose, Batch!End

<1>1. ASSUME Connect PROVE Batch!Login
  BY <1>1 DEF Connect
<1>2. ASSUME ConnectFails PROVE Same \/ Batch!End
  BY <1>2 DEF ConnectFails
<1>3. ASSUME RunFailed PROVE Batch!Lose \/ Batch!End
  BY <1>3 DEF RunFailed, AtBoundary
<1>4. ASSUME RequestGame PROVE Same \/ Batch!Ask \/ Batch!End
  <2>1. /\ pc = "boundary" /\ Played = completed /\ status # "client_error"
        /\ Mode \in {"idle", "asked", "astray"}
    BY <1>4 DEF RequestGame
  <2>2. CASE LimitReached
    <3>1. pc' = "exited" /\ exitCode' \in {0, 1} /\ UNCHANGED <<completed, keepAlive, limit>>
      BY <1>4, <2>2 DEF RequestGame
    <3>2. keepAlive /\ limit # NoLimit /\ completed = limit /\ Mode # "asked"
      BY <2>1, <2>2
    <3>3. Mode' = "over" /\ Game' = {} /\ Played' = Played
      BY <2>1, <3>1
    <3>4. QED
      BY <2>1, <3>1, <3>2, <3>3
  <2>3. CASE ~LimitReached
    <3>1. Batch!Due /\ UNCHANGED <<Played, keepAlive, limit, exitCode>>
      BY <1>4, <2>1, <2>3 DEF RequestGame
    <3>2. \/ Mode' = Mode /\ Game' = Game
          \/ Mode = "idle" /\ Mode' = "asked" /\ Game' = Game
      BY <1>4, <2>1, <2>3 DEF RequestGame
    <3>3. QED
      BY <3>1, <3>2
  <2>4. QED
    BY <2>2, <2>3
<1>5. ASSUME Rejected PROVE Same
  BY <1>5 DEF Rejected
<1>6. ASSUME GameOver PROVE Same \/ Batch!End
  BY <1>6 DEF GameOver, TerminalError
<1>7. ASSUME NEW id \in Ids, GameId(id) PROVE Same \/ Batch!Stray \/ Batch!Break
  BY <1>7 DEF GameId, HeaderLine
<1>8. ASSUME NEW id \in Ids, Reject(id) PROVE Same \/ Batch!Withdraw \/ Batch!Break
  BY <1>8 DEF Reject
<1>9. ASSUME NEW id \in Ids, Start(id) PROVE Same \/ Batch!Begin \/ Batch!Break
  <2>1. pc = "header" /\ Played = completed /\ status = "waiting_for_game"
    BY <1>9 DEF Start
  <2>2. CASE status' = "client_error"
    <3>1. /\ pc' = "returned" /\ Played' = Played + 1
          /\ UNCHANGED <<keepAlive, limit, exitCode>>
      BY <1>9, <2>1, <2>2 DEF Start
    <3>2. Mode' = "broken" /\ Game' = {} /\ Mode \in {"asked", "agreed", "astray"}
      BY <2>1, <2>2, <3>1
    <3>3. Batch!Due
      BY <2>1
    <3>4. QED
      BY <3>1, <3>2, <3>3
  <2>3. CASE status' # "client_error"
    <3>1. /\ validated /\ agreed = summaryId /\ started' = summaryId /\ ~queued'
          /\ pc' = "turn" /\ status' = "in_game"
          /\ UNCHANGED <<agreed, activeGame, lostRecord, keepAlive, limit, exitCode, completed>>
      BY <1>9, <2>1, <2>3 DEF Start
    <3>2. /\ agreed # None /\ activeGame = agreed /\ Played' = Played
          /\ Mode = IF lostRecord THEN "astray" ELSE "agreed"
          /\ Mode' = IF lostRecord THEN "astray" ELSE "playing"
      BY <2>1, <3>1
    <3>3. Game' = Game
      BY <3>1, <3>2
    <3>4. QED
      BY <3>1, <3>2, <3>3
  <2>4. QED
    BY <2>2, <2>3
<1>10. ASSUME YourTurn PROVE Same \/ Batch!Break
  BY <1>10 DEF YourTurn, HeaderLine
<1>11. ASSUME MisplacedTime PROVE Batch!Break
  BY <1>11 DEF MisplacedTime, HeaderLine
<1>12. ASSUME EndSummary PROVE Same \/ Batch!Agree(summaryId) \/ Batch!Break
  BY <1>12 DEF EndSummary, HeaderLine
<1>13. ASSUME OtherHeaderLine PROVE Same
  BY <1>13 DEF OtherHeaderLine, HeaderLine
<1>14. ASSUME LateResult PROVE Same
  BY <1>14 DEF LateResult
<1>15. ASSUME UnexpectedResult PROVE Batch!Break
  BY <1>15 DEF UnexpectedResult
<1>16. ASSUME HeaderReadFails PROVE Same \/ Batch!Break
  BY <1>16 DEF HeaderReadFails
<1>17. ASSUME Think PROVE Same \/ Batch!Stray \/ Batch!Break
  BY <1>17 DEF Think, OurTurn
<1>18. ASSUME AwaitOpponent PROVE Same
  BY <1>18 DEF AwaitOpponent
<1>19. ASSUME Remark PROVE Same \/ Batch!Stray
  BY <1>19 DEF Remark
<1>20. ASSUME NEW outcome \in Results, Result(outcome) PROVE Batch!Finish \/ Batch!Stray
  BY <1>20 DEF Result
<1>21. ASSUME Echo PROVE Same \/ Batch!Stray \/ Batch!Break
  BY <1>21 DEF Echo
<1>22. ASSUME OpponentMove PROVE Same \/ Batch!Stray \/ Batch!Break
  BY <1>22 DEF OpponentMove
<1>23. ASSUME Deadline PROVE Same
  BY <1>23 DEF Deadline
<1>24. ASSUME ReadFails PROVE Same \/ Batch!Break
  BY <1>24 DEF ReadFails
<1>25. ASSUME UNCHANGED vars PROVE Same
  BY <1>25 DEF vars
<1>26. QED
  BY <1>1, <1>2, <1>3, <1>4, <1>5, <1>6, <1>7, <1>8, <1>9, <1>10, <1>11, <1>12,
     <1>13, <1>14, <1>15, <1>16, <1>17, <1>18, <1>19, <1>20, <1>21, <1>22, <1>23, <1>24, <1>25
     DEF Next, ProcessStep, HeaderStep, PlayStep, Terminated, Batch!Next, Same, Batch!vars

(* The client implements CsaBatch: requests, agreements and games one      *)
(* after another, connections replaced between games only, every attempt   *)
(* counted, and an exit code that tells success from failure.              *)
THEOREM ImplementsBatch == Spec => ImplementsCsaBatch
<1>1. Init => Batch!Init /\ Counted
  BY LimitsAssumption
     DEF Init, Batch!Init, Mode, Game, Played, Counted, NoLimit
<1>2. CsaInv /\ Counted /\ [Next]_vars => Counted'
  BY CountedStep DEF CsaInv
<1>3. Spec => []Counted
  BY <1>1, <1>2, CsaInvariance, PTL DEF Spec
<1>4. QED
  BY <1>1, <1>3, StepRefines, CsaInvariance, PTL DEF Spec, ImplementsCsaBatch, Batch!Spec
=============================================================================
