----------------------------- MODULE CsaClient ------------------------------
(***************************************************************************)
(* The CSA network player: the process loop of crates/sekirei-csa/src/     *)
(* main.rs (run) around one connection at a time of protocol.rs            *)
(* (CsaClient::run and play_game).  The server is not trusted: in every    *)
(* waiting state any line may arrive, the connection may fail, the record  *)
(* on disk may fail, and the search may play or resign.                    *)
(*                                                                         *)
(* A line is handled in one step, from its receipt to the next receive.    *)
(* Lines that no branch matches only mark the header as started.           *)
(***************************************************************************)
EXTENDS Naturals

CONSTANTS
  Ids,             \* Game_ID values the server uses
  None,
  MaxGames,        \* bound: --max-games, and games of an unlimited loop
  ReconnectLimit,  \* POST_GAME_RECONNECT_LIMIT
  MaxPlies         \* TOURNAMENT_MAX_PLIES

ASSUME IdsAssumption == None \notin Ids
ASSUME LimitsAssumption ==
  MaxGames \in Nat /\ ReconnectLimit \in Nat /\ MaxPlies \in Nat

NoLimit == 0
Results == {"decisive", "aborted"}      \* GameResult, as far as it matters

VARIABLES
  pc,              \* where the process is
  exitCode,        \* its exit code, or 99
  keepAlive,       \* --loop
  limit,           \* --max-games, or NoLimit
  completed,       \* completed_attempts
  before,          \* completed_before_connection
  reconnects,      \* post_game_reconnect_attempts
  recovering,      \* recovering_post_game_disconnect
  status,          \* status_state (and the event game_rejected)
  activeGame,      \* active_game_id
  awaiting,        \* awaiting_aborted_game_result
  requestGame,     \* request_game of CsaClient::run
  error,           \* what run() returned with: "transport", "timeout", "other"
  result,          \* what play_game returned
  headerStarted,   \* header_started
  summaryId,       \* game_summary_id
  color,           \* our_color is Some
  validated,       \* summary_validated
  turn,            \* the side to move: "us" or "them"
  plies,           \* ply_count
  resigned,        \* %TORYO was sent
  moveRecorded,    \* our_move_recorded
  adjudicating,    \* awaiting_opponent_adjudication is Some
  recorded,        \* moves in the game record
  \* history: what has passed between client and server
  agreed,          \* the game agreed to and not over, or None
  started,         \* the id of the last START accepted
  queued,          \* a game request no START has answered yet
  tries,           \* recovery attempts since the last completed game
  ended,           \* the last terminal line of a game: a result or "none"
  consumed,        \* results taken for that game after it
  lostRecord       \* a game was given up after a failed record write

configVars  == <<keepAlive, limit>>
loopVars    == <<exitCode, completed, before, reconnects, recovering, tries>>
headerVars  == <<headerStarted, summaryId, color, validated>>
gameVars    == <<turn, plies, resigned, moveRecorded, adjudicating, recorded>>
dialogVars  == <<agreed, started, queued, ended, consumed, lostRecord>>
clientVars  == <<status, activeGame, awaiting, requestGame, error, result>>
vars == <<pc, configVars, loopVars, headerVars, gameVars, dialogVars, clientVars>>

Init ==
  /\ pc = "connect"
  /\ exitCode = 99
  /\ keepAlive \in BOOLEAN
  /\ limit \in IF keepAlive THEN 0 .. MaxGames ELSE {NoLimit}
  /\ completed \in 0 .. limit
  /\ before = 0
  /\ reconnects = 0
  /\ recovering = FALSE
  /\ tries = 0
  /\ headerStarted = FALSE /\ summaryId = None /\ color = FALSE /\ validated = FALSE
  /\ turn = "us" /\ plies = 0 /\ resigned = FALSE /\ moveRecorded = FALSE
  /\ adjudicating = FALSE /\ recorded = 0
  /\ agreed = None /\ started = None /\ queued = FALSE
  /\ ended = "none" /\ consumed = 0 /\ lostRecord = FALSE
  /\ status = "connecting" /\ activeGame = None /\ awaiting = FALSE
  /\ requestGame = TRUE /\ error = "none" /\ result = "none"

Exit(code) == pc' = "exited" /\ exitCode' = code

(* Mutant of LimitReached: the limit is noticed one game late.             *)
LimitReachedLate == limit # NoLimit /\ completed > limit
LimitReached == limit # NoLimit /\ completed >= limit

(* next_post_game_reconnect_attempt: is another attempt left after n?      *)
AttemptLeft(n) == n + 1 <= ReconnectLimit
-----------------------------------------------------------------------------
(* main.rs: the loop around connections.                                   *)

(* connect_with_progress succeeds, login included.                         *)
Connect ==
  /\ pc = "connect"
  /\ pc' = "boundary"
  /\ before' = completed
  /\ tries' = IF recovering /\ tries <= ReconnectLimit THEN tries + 1 ELSE tries
  /\ status' = "connected" /\ activeGame' = None /\ awaiting' = FALSE
  /\ requestGame' = TRUE /\ error' = "none" /\ result' = "none"
  /\ agreed' = None /\ started' = None /\ queued' = FALSE
  /\ ended' = "none" /\ consumed' = 0 /\ lostRecord' = FALSE
  /\ UNCHANGED <<exitCode, completed, reconnects, recovering, configVars,
                 headerVars, gameVars>>

(* It fails: an invalid line during login is final; while recovering the   *)
(* budget is charged; otherwise --loop keeps trying.                       *)
ConnectFails ==
  /\ pc = "connect"
  /\ tries' = IF recovering /\ tries <= ReconnectLimit THEN tries + 1 ELSE tries
  /\ \/ Exit(3) /\ UNCHANGED reconnects
     \/ IF recovering
          THEN IF AttemptLeft(reconnects)
                 THEN reconnects' = reconnects + 1 /\ UNCHANGED <<pc, exitCode>>
                 ELSE Exit(1) /\ UNCHANGED reconnects
          ELSE /\ UNCHANGED reconnects
               /\ IF keepAlive THEN UNCHANGED <<pc, exitCode>> ELSE Exit(1)
  /\ UNCHANGED <<completed, before, recovering, configVars, headerVars, gameVars,
                 dialogVars, clientVars>>

(* Mutant of AtBoundary: the connection may be replaced in mid-game.       *)
AtBoundaryAnywhere == status # "client_error" /\ error = "transport"
(* can_reconnect_after_run_error, apart from the configuration.            *)
AtBoundary == activeGame = None /\ status # "client_error" /\ error = "transport"

(* CsaClient::run returned an error.                                       *)
RunFailed ==
  LET progress == completed > before
      used == IF progress THEN 0 ELSE reconnects
  IN
  /\ pc = "failed"
  /\ IF /\ keepAlive /\ limit # NoLimit /\ completed < limit
        /\ AtBoundary
        /\ progress \/ recovering
       THEN IF AttemptLeft(used)
              THEN /\ reconnects' = used + 1
                   /\ recovering' = TRUE
                   /\ pc' = "connect"
                   /\ UNCHANGED exitCode
              ELSE Exit(1) /\ reconnects' = used /\ UNCHANGED recovering
       ELSE /\ Exit(IF status = "client_error" THEN 3 ELSE 1)
            /\ UNCHANGED <<reconnects, recovering>>
  /\ UNCHANGED <<completed, before, tries, configVars, headerVars, gameVars,
                 dialogVars, clientVars>>
-----------------------------------------------------------------------------
(* CsaClient::run: between games.                                          *)
Fail(kind) == pc' = "failed" /\ error' = kind

(* stop_for_limit, whose manifest update may fail.                         *)
StopForLimit == Exit(0) \/ Exit(1)

RequestGame ==
  /\ pc = "boundary"
  /\ IF LimitReached
       THEN /\ StopForLimit
            /\ UNCHANGED <<status, error, queued, headerVars>>
       ELSE /\ completed < MaxGames
            /\ status' = "waiting_for_game"
            /\ headerStarted' = FALSE /\ summaryId' = None
            /\ color' = FALSE /\ validated' = FALSE
            /\ \/ /\ queued' = TRUE          \* or kept from a rejected game
                  /\ pc' = "header"
                  /\ UNCHANGED error
               \/ requestGame /\ Fail("transport") /\ UNCHANGED queued
            /\ UNCHANGED exitCode
  /\ UNCHANGED <<completed, before, reconnects, recovering, tries, activeGame,
                 awaiting, requestGame, result, agreed, started, ended, consumed,
                 lostRecord, configVars, gameVars>>

(* The game came back aborted, with the status of a client error.          *)
TerminalError == result = "aborted" /\ status = "client_error"

(* play_game returned because of REJECT: the request still stands.         *)
Rejected ==
  /\ pc = "returned"
  /\ status = "game_rejected"
  /\ pc' = "boundary"
  /\ requestGame' = FALSE
  /\ UNCHANGED <<status, activeGame, awaiting, error, result, loopVars,
                 configVars, headerVars, gameVars, dialogVars>>

(* Any other return of play_game completes an attempt.                     *)
GameOver ==
  /\ pc = "returned"
  /\ status # "game_rejected"
  /\ completed' = completed + 1
  /\ tries' = 0
  /\ requestGame' = TRUE
  /\ IF TerminalError
       THEN UNCHANGED <<status, activeGame>>
       ELSE status' = "game_finished" /\ activeGame' = None
  /\ \/ Fail("other") /\ UNCHANGED exitCode        \* the manifest update
     \/ /\ IF TerminalError \/ ~keepAlive
             THEN Exit(IF status' = "client_error" THEN 3 ELSE 0)
             ELSE IF limit # NoLimit /\ completed' >= limit
                    THEN StopForLimit
                    ELSE pc' = "boundary" /\ UNCHANGED exitCode
        /\ UNCHANGED error
  /\ UNCHANGED <<before, reconnects, recovering, awaiting, result, configVars,
                 headerVars, gameVars, dialogVars>>
-----------------------------------------------------------------------------
(* play_game, up to START.                                                 *)
Return(outcome) == pc' = "returned" /\ result' = outcome

(* stop_for_protocol_error and return.                                     *)
ProtocolError == Return("aborted") /\ status' = "client_error"

(* A line of the header: whatever it is, the header has started.           *)
HeaderLine ==
  /\ pc = "header"
  /\ headerStarted' = TRUE
  /\ awaiting' = FALSE
  /\ UNCHANGED <<requestGame, started, queued, ended, consumed, lostRecord,
                 loopVars, configVars, gameVars>>

(* Mutant of GameId: a second Game_ID replaces the first.                  *)
GameIdReplaces(id) ==
  /\ HeaderLine
  /\ summaryId' = id
  /\ activeGame' = id
  /\ UNCHANGED <<pc, status, result, error, color, validated, agreed>>

GameId(id) ==
  /\ HeaderLine
  /\ IF summaryId # None
       THEN ProtocolError /\ UNCHANGED <<summaryId, activeGame>>
       ELSE summaryId' = id /\ activeGame' = id /\ UNCHANGED <<pc, status, result>>
  /\ UNCHANGED <<error, color, validated, agreed>>

YourTurn ==
  /\ HeaderLine
  /\ \/ ~color /\ color' = TRUE /\ UNCHANGED <<pc, status, result>>
     \/ ProtocolError /\ UNCHANGED color         \* invalid, or a duplicate
  /\ UNCHANGED <<activeGame, error, summaryId, validated, agreed>>

(* A time control field: invalid, or after END Game_Summary.               *)
MisplacedTime ==
  /\ HeaderLine
  /\ ProtocolError
  /\ UNCHANGED <<activeGame, error, summaryId, color, validated, agreed>>

(* END Game_Summary: the summary is complete, or refused.                  *)
EndSummary ==
  /\ HeaderLine
  /\ \/ /\ summaryId # None /\ color /\ ~validated
        /\ validated' = TRUE
        /\ \/ agreed' = summaryId /\ UNCHANGED <<pc, error>>
           \/ Fail("transport") /\ UNCHANGED agreed
        /\ UNCHANGED <<status, result>>
     \/ ProtocolError /\ UNCHANGED <<error, validated, agreed>>
  /\ UNCHANGED <<activeGame, summaryId, color>>

(* Names, positions, fields nobody reads.                                  *)
OtherHeaderLine ==
  /\ HeaderLine
  /\ UNCHANGED <<pc, status, activeGame, error, result, summaryId, color,
                 validated, agreed>>

Reject(id) ==
  /\ pc = "header"
  /\ IF validated /\ id = summaryId
       THEN /\ Return("aborted")
            /\ status' = "game_rejected"
            /\ activeGame' = None
            /\ agreed' = None
       ELSE ProtocolError /\ UNCHANGED <<activeGame, agreed>>
  /\ UNCHANGED <<awaiting, requestGame, error, started, queued, ended, consumed,
                 lostRecord, loopVars, configVars, headerVars, gameVars>>

(* Mutant of LateResult: the permission is not used up.                    *)
LateResultKept ==
  /\ pc = "header"
  /\ ~headerStarted /\ awaiting
  /\ consumed' = consumed + 1
  /\ UNCHANGED <<pc, status, activeGame, awaiting, requestGame, error, result,
                 agreed, started, queued, ended, lostRecord, loopVars, configVars,
                 headerVars, gameVars>>

(* A decisive result that trails an aborted game is taken once.            *)
LateResult ==
  /\ pc = "header"
  /\ ~headerStarted /\ awaiting
  /\ awaiting' = FALSE
  /\ consumed' = consumed + 1
  /\ UNCHANGED <<pc, status, activeGame, requestGame, error, result, agreed,
                 started, queued, ended, lostRecord, loopVars, configVars,
                 headerVars, gameVars>>

(* Any other result before START.                                          *)
UnexpectedResult ==
  /\ pc = "header"
  /\ ProtocolError
  /\ UNCHANGED <<activeGame, awaiting, requestGame, error, loopVars, configVars,
                 headerVars, gameVars, dialogVars>>

(* START, then the record, the initial position and the manifest.          *)
Start(id) ==
  /\ pc = "header"
  /\ \/ /\ validated /\ id = summaryId
        /\ started' = id
        /\ queued' = FALSE
        /\ consumed' = 0
        /\ resigned' = FALSE /\ adjudicating' = FALSE
        /\ \/ /\ status' = "in_game"
              /\ pc' = "turn"
              /\ turn' \in {"us", "them"}
              /\ plies' \in 0 .. MaxPlies
              /\ recorded' = plies'
              /\ UNCHANGED result
           \/ ProtocolError /\ UNCHANGED <<turn, plies, recorded>>
     \/ /\ ~(validated /\ id = summaryId)
        /\ ProtocolError
        /\ UNCHANGED <<started, queued, consumed, turn, plies, resigned,
                       adjudicating, recorded>>
  /\ headerStarted' = TRUE
  /\ awaiting' = FALSE
  /\ UNCHANGED <<activeGame, requestGame, error, summaryId, color, validated,
                 moveRecorded, agreed, ended, lostRecord, loopVars, configVars>>

(* The read fails.  Before the header has an id a timeout is recorded as   *)
(* between_game_receive_timeout, which bars reconnecting.                  *)
HeaderReadFails ==
  /\ pc = "header"
  /\ \/ status' = "connection_error" /\ Fail("transport")
     \/ status' = "connection_error" /\ Fail("other")
     \/ activeGame = None /\ status' = "connection_error" /\ Fail("timeout")
     \/ status' = "client_error" /\ Fail("other")           \* invalid line
  /\ UNCHANGED <<activeGame, awaiting, requestGame, result, loopVars, configVars,
                 headerVars, gameVars, dialogVars>>
-----------------------------------------------------------------------------
(* play_game, from START on.  The record is written before the next line   *)
(* is read; a failed write ends the game as aborted, without a status.     *)
GiveUpRecord == Return("aborted") /\ lostRecord' = TRUE

PlayFrame == UNCHANGED <<activeGame, requestGame, started, queued, consumed,
                         loopVars, configVars, headerVars>>

OurTurn == turn = "us" /\ ~resigned /\ plies < MaxPlies

(* think_and_send: a move or %TORYO is sent and the analysis recorded.     *)
Think ==
  /\ pc = "turn"
  /\ OurTurn
  /\ \/ /\ pc' = "echo"                                       \* a move
        /\ plies' = plies + 1
        /\ turn' = "them"
        /\ moveRecorded' = FALSE
        /\ UNCHANGED <<status, error, result, resigned, lostRecord>>
     \/ /\ resigned' = TRUE                                   \* %TORYO
        /\ \/ UNCHANGED <<pc, result, lostRecord>>
           \/ GiveUpRecord
        /\ UNCHANGED <<status, error, plies, turn, moveRecorded>>
     \/ /\ ProtocolError                  \* analysis_record_write_failed
        /\ UNCHANGED <<error, plies, turn, moveRecorded, resigned, lostRecord>>
     \/ /\ Fail("transport")
        /\ UNCHANGED <<status, result, plies, turn, moveRecorded, resigned,
                       lostRecord>>
  /\ UNCHANGED <<awaiting, adjudicating, recorded, agreed, ended>>
  /\ PlayFrame

AwaitOpponent ==
  /\ pc = "turn"
  /\ ~OurTurn
  /\ pc' = "opponent"
  /\ adjudicating' = FALSE
  /\ UNCHANGED <<status, awaiting, error, result, turn, plies, resigned,
                 moveRecorded, recorded, agreed, ended, lostRecord>>
  /\ PlayFrame

(* Our own move, appended to the record at most once.                      *)
RecordOurMove == recorded' = IF moveRecorded THEN recorded ELSE recorded + 1

(* Mutant of Remark: every line opens a new receive window.                *)
RemarkRearms ==
  /\ pc \in {"echo", "opponent"}
  /\ pc' = IF pc = "opponent" THEN "turn" ELSE pc
  /\ UNCHANGED <<result, lostRecord, recorded, moveRecorded, status, awaiting,
                 error, turn, plies, resigned, adjudicating, agreed, ended>>
  /\ PlayFrame

(* A reason such as #TIME_UP precedes the result; %-lines are events.      *)
Remark ==
  /\ pc \in {"echo", "opponent"}
  /\ \/ /\ \/ pc = "opponent" /\ UNCHANGED <<recorded, moveRecorded>>
           \/ pc = "echo" /\ UNCHANGED <<recorded, moveRecorded>>   \* %-line
           \/ pc = "echo" /\ RecordOurMove /\ moveRecorded' = TRUE
        /\ UNCHANGED <<pc, result, lostRecord>>
     \/ GiveUpRecord /\ UNCHANGED <<recorded, moveRecorded>>
  /\ UNCHANGED <<status, awaiting, error, turn, plies, resigned, adjudicating,
                 agreed, ended>>
  /\ PlayFrame

(* Mutant of Result: a result instead of the echo leaves our move out.     *)
ResultUnrecorded(outcome) ==
  /\ pc \in {"echo", "opponent"}
  /\ awaiting' = (outcome = "aborted")
  /\ ended' = outcome
  /\ agreed' = None
  /\ Return(outcome)
  /\ UNCHANGED <<recorded, lostRecord, status, error, turn, plies, resigned,
                 moveRecorded, adjudicating>>
  /\ PlayFrame

(* The result of the game, in place of the echo or of a move.              *)
Result(outcome) ==
  /\ pc \in {"echo", "opponent"}
  /\ awaiting' = (outcome = "aborted")
  /\ ended' = outcome
  /\ agreed' = None
  /\ \/ /\ Return(outcome)
        /\ IF pc = "echo" THEN RecordOurMove ELSE UNCHANGED recorded
        /\ UNCHANGED lostRecord
     \/ GiveUpRecord /\ UNCHANGED recorded
  /\ UNCHANGED <<status, error, turn, plies, resigned, moveRecorded, adjudicating>>
  /\ PlayFrame

(* Any other line stands for the echo of our move and its time.            *)
Echo ==
  /\ pc = "echo"
  /\ \/ /\ pc' = "turn"
        /\ RecordOurMove
        /\ UNCHANGED <<status, result, lostRecord>>
     \/ ProtocolError /\ UNCHANGED <<recorded, lostRecord>>   \* invalid time
     \/ GiveUpRecord /\ UNCHANGED <<status, recorded>>
  /\ UNCHANGED <<awaiting, error, turn, plies, resigned, moveRecorded,
                 adjudicating, agreed, ended>>
  /\ PlayFrame

(* A move from the server.  A malformed or an illegal one is left to the   *)
(* server's adjudication; nothing but a result may follow it.              *)
OpponentMove ==
  /\ pc = "opponent"
  /\ ~resigned
  /\ IF adjudicating \/ plies >= MaxPlies
       THEN ProtocolError /\ UNCHANGED <<turn, plies, adjudicating, recorded,
                                         lostRecord>>
       ELSE /\ plies' = plies + 1
            /\ \/ /\ adjudicating' = TRUE
                  /\ UNCHANGED <<pc, status, result, turn, recorded, lostRecord>>
               \/ /\ pc' = "turn"
                  /\ turn' = "us"
                  /\ recorded' = recorded + 1
                  /\ UNCHANGED <<status, result, adjudicating, lostRecord>>
               \/ /\ GiveUpRecord
                  /\ UNCHANGED <<status, turn, adjudicating, recorded>>
               \/ /\ ProtocolError                            \* invalid time
                  /\ recorded' = recorded + 1
                  /\ UNCHANGED <<turn, adjudicating, lostRecord>>
  /\ UNCHANGED <<awaiting, error, resigned, moveRecorded, agreed, ended>>
  /\ PlayFrame

(* The absolute deadline of the receive window, which no line extends.     *)
Deadline ==
  /\ pc \in {"echo", "opponent"}
  /\ status' = "connection_error"
  /\ Fail("transport")
  /\ UNCHANGED <<awaiting, result, gameVars, agreed, ended, lostRecord>>
  /\ PlayFrame

(* The connection fails, or delivers an invalid line.                      *)
ReadFails ==
  /\ pc \in {"echo", "opponent"}
  /\ IF pc = "opponent" /\ adjudicating
       THEN ProtocolError /\ UNCHANGED error
       ELSE /\ \/ status' = "connection_error" /\ Fail("transport")
               \/ status' = "client_error" /\ Fail("other")
            /\ UNCHANGED result
  /\ UNCHANGED <<awaiting, gameVars, agreed, ended, lostRecord>>
  /\ PlayFrame
-----------------------------------------------------------------------------
ProcessStep ==
  \/ Connect
  \/ ConnectFails
  \/ RunFailed
  \/ RequestGame
  \/ Rejected
  \/ GameOver

HeaderStep ==
  \/ \E id \in Ids : GameId(id) \/ Reject(id) \/ Start(id)
  \/ YourTurn
  \/ MisplacedTime
  \/ EndSummary
  \/ OtherHeaderLine
  \/ LateResult
  \/ UnexpectedResult
  \/ HeaderReadFails

PlayStep ==
  \/ Think
  \/ AwaitOpponent
  \/ Remark
  \/ \E outcome \in Results : Result(outcome)
  \/ Echo
  \/ OpponentMove
  \/ Deadline
  \/ ReadFails

(* The process has exited, or an unlimited loop has reached the bound.     *)
Terminated ==
  /\ pc # "exited" => pc = "boundary" /\ ~LimitReached /\ completed >= MaxGames
  /\ UNCHANGED vars

Next == ProcessStep \/ HeaderStep \/ PlayStep \/ Terminated

Spec == Init /\ [][Next]_vars

(* The search returns within its budget, and an absolute deadline expires. *)
(* Nothing is assumed of the server, the network or the disk.              *)
Fairness == WF_vars(Think) /\ WF_vars(AwaitOpponent) /\ WF_vars(Deadline)

FairSpec == Spec /\ Fairness
-----------------------------------------------------------------------------
Playing == {"turn", "echo", "opponent"}

(* Every variable has its type.  In particular no ply is counted past the  *)
(* tournament boundary, where advance_tournament_ply would panic on our    *)
(* own move.                                                               *)
TypeOK ==
  /\ pc \in Playing \cup {"connect", "boundary", "header", "returned", "failed",
                          "exited"}
  /\ exitCode \in {0, 1, 3, 99}
  /\ keepAlive \in BOOLEAN /\ limit \in 0 .. MaxGames
  /\ completed \in Nat /\ before \in Nat
  /\ reconnects \in 0 .. ReconnectLimit /\ recovering \in BOOLEAN
  /\ status \in {"connecting", "connected", "waiting_for_game", "game_rejected",
                 "in_game", "game_finished", "connection_error", "client_error"}
  /\ activeGame \in Ids \cup {None} /\ summaryId \in Ids \cup {None}
  /\ agreed \in Ids \cup {None} /\ started \in Ids \cup {None}
  /\ {awaiting, requestGame, headerStarted, color, validated} \subseteq BOOLEAN
  /\ {resigned, moveRecorded, adjudicating, queued, lostRecord} \subseteq BOOLEAN
  /\ error \in {"none", "transport", "timeout", "other"}
  /\ result \in Results \cup {"none"} /\ ended \in Results \cup {"none"}
  /\ turn \in {"us", "them"}
  /\ plies \in 0 .. MaxPlies /\ recorded \in 0 .. MaxPlies
  /\ consumed \in Nat /\ tries \in Nat

(* The game being played is the one agreed to and the one the server       *)
(* started, whatever order the fields of the summary came in.              *)
HandshakeBeforePlay ==
  pc \in Playing => activeGame # None /\ agreed = activeGame /\ started = activeGame

(* Where the dialogue with the server stands, the ids the two sides have   *)
(* for the game at hand, and the games attempted.                          *)
Mode ==
  CASE pc = "connect" -> "offline"
    [] pc = "exited" -> "over"
    [] pc \notin {"connect", "exited"} /\ status = "client_error" -> "broken"
    [] pc \notin {"connect", "exited"} /\ status # "client_error" ->
         IF lostRecord THEN "astray"
         ELSE IF agreed # None THEN IF queued THEN "agreed" ELSE "playing"
         ELSE IF queued /\ ~(pc = "boundary" /\ requestGame) THEN "asked" ELSE "idle"

Game == CASE Mode = "agreed" -> {agreed, activeGame}
          [] Mode = "playing" -> {agreed, activeGame, started}
          [] OTHER -> {}

Played == IF pc = "returned" /\ status # "game_rejected" THEN completed + 1 ELSE completed

Batch == INSTANCE CsaBatch WITH NoCode <- 99, mode <- Mode, game <- Game,
                                loop <- keepAlive, played <- Played, code <- exitCode
(* The client implements what CsaBatch promises: games and connections one *)
(* after another, nothing played that was not agreed to, every attempt     *)
(* counted once over all connections, and an exit code that tells.         *)
ImplementsCsaBatch == Batch!Spec

(* The client starts over only when it may.  It requests a game when no    *)
(* earlier request is unanswered and no agreed game is still being played  *)
(* (after a REJECT "the server may send the next Game_Summary on this same *)
(* connection"); it replaces the connection only while no agreed game is   *)
(* unfinished ("a bounded run may reconnect only at a game boundary"); it  *)
(* does neither after a client error, and then reports a failure.  The one *)
(* way around it, a failed record write, is the subject of                 *)
(* RecordingFailureIsFinal.                                                *)
StartsOverWhenDue ==
  [][/\ pc = "boundary" /\ pc' = "header" /\ requestGame =>
          lostRecord \/ (~queued /\ agreed = None)
     /\ pc = "failed" /\ pc' = "connect" => lostRecord \/ agreed = None
     /\ status = "client_error" =>
          pc' \in {"returned", "failed", "exited"} /\ exitCode' \in {99, 3}]_vars

(* A batch never plays more games than --max-games over all connections,   *)
(* and reports success only when it has played them all.                   *)
BoundedBatch ==
  limit # NoLimit => completed <= limit /\ (exitCode = 0 => completed = limit)

(* Between two completed games at most POST_GAME_RECONNECT_LIMIT attempts  *)
(* are made, whether they fail to connect or lose the new connection.      *)
BoundedRecovery == tries <= ReconnectLimit

(* Batch, recovery and the plies of a game stay within their limits,       *)
(* although each is counted over several connections or on several paths.  *)
Bounded == BoundedBatch /\ BoundedRecovery /\ plies <= MaxPlies

(* "Permit exactly one such result at the boundary before the next         *)
(* Game_Summary": a trailing result is taken only after an aborted game,   *)
(* only once, and not after the next header has begun.                     *)
LateResultOnce ==
  [][consumed' > consumed => ended = "aborted" /\ consumed = 0 /\ ~headerStarted]_vars

(* The record holds every move played, once, also when the server answers  *)
(* a move with the result instead of its echo.  A refused opponent move is *)
(* counted as a ply but not recorded.                                      *)
RecordComplete ==
  /\ pc = "turn" => recorded = plies
  /\ pc = "returned" /\ status = "in_game" /\ ~lostRecord =>
       recorded + (IF adjudicating THEN 1 ELSE 0) = plies

(* A game that has started ends, however many lines the server sends.      *)
GameEnds == pc \in Playing ~> pc \notin Playing

(* What the comment in CsaClient::run states: a recording failure is not   *)
(* retryable, so no other game is requested after one.                     *)
RecordingFailureIsFinal == [][pc = "boundary" /\ pc' = "header" => ~lostRecord]_vars
=============================================================================
