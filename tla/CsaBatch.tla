------------------------------ MODULE CsaBatch ------------------------------
(***************************************************************************)
(* What the CSA player promises the server and whoever started it, with no *)
(* lines, records or searches in sight: connections one after another, on  *)
(* each of them games one after another, and an exit code.  The dialogue   *)
(* is in one of these modes:                                               *)
(*                                                                         *)
(*   offline    no connection                                              *)
(*   idle       no game requested and none agreed to                       *)
(*   asked      a game is requested                                        *)
(*   agreed     the client has agreed to a game, the server has not begun  *)
(*   playing    the game is on                                             *)
(*   astray     a record was lost in mid-game: nothing is promised of the  *)
(*              games on this connection but that they are counted         *)
(*   broken     a protocol violation: the process is about to fail         *)
(*   over       the process has ended                                      *)
(***************************************************************************)
EXTENDS Naturals

CONSTANTS Ids, NoLimit, NoCode

VARIABLES
  mode,
  game,       \* the ids the two sides have for the game at hand
  loop,       \* whether more than one game is to be played
  limit,      \* how many, or NoLimit
  played,     \* games attempted so far, over all connections
  code        \* the exit code

vars == <<mode, game, loop, limit, played, code>>

Frame == UNCHANGED <<loop, limit>>

Due == limit # NoLimit => played < limit

Init ==
  /\ mode = "offline" /\ game = {} /\ code = NoCode
  /\ loop \in BOOLEAN /\ limit \in Nat /\ played \in Nat
  /\ ~loop => limit = NoLimit
  /\ played # 0 => limit # NoLimit /\ played <= limit

(* A login opens a connection on which nothing is left of an earlier one.  *)
Login ==
  /\ mode = "offline" /\ mode' = "idle"
  /\ UNCHANGED <<game, played, code>> /\ Frame

(* One request at a time, for a game that is still to be played.           *)
Ask ==
  /\ mode = "idle" /\ Due /\ mode' = "asked"
  /\ UNCHANGED <<game, played, code>> /\ Frame

Agree(id) ==
  /\ mode = "asked" /\ mode' = "agreed" /\ game' = {id}
  /\ UNCHANGED <<played, code>> /\ Frame

(* The server withdraws the game; the request stands.                      *)
Withdraw ==
  /\ mode = "agreed" /\ mode' = "asked" /\ game' = {}
  /\ UNCHANGED <<played, code>> /\ Frame

(* Nothing but the game agreed to is begun.                                *)
Begin ==
  /\ mode = "agreed" /\ mode' = "playing"
  /\ UNCHANGED <<game, played, code>> /\ Frame

Finish ==
  /\ mode = "playing" /\ mode' = "idle" /\ game' = {} /\ played' = played + 1
  /\ UNCHANGED code /\ Frame

Stray ==
  /\ mode \in {"playing", "astray"} /\ Due
  /\ mode' = "astray" /\ game' = {} /\ played' = played + 1
  /\ UNCHANGED code /\ Frame

(* The game, if it had come that far, counts as attempted.                 *)
Break ==
  /\ mode \in {"asked", "agreed", "playing", "astray"}
  /\ mode' = "broken" /\ game' = {}
  /\ \/ UNCHANGED played
     \/ Due /\ played' = played + 1
  /\ UNCHANGED code /\ Frame

(* The connection is lost and will be replaced: between games only, and    *)
(* while there are games to be played.                                     *)
Lose ==
  /\ mode \in {"idle", "asked", "astray"}
  /\ loop /\ limit # NoLimit /\ Due
  /\ mode' = "offline"
  /\ UNCHANGED <<game, played, code>> /\ Frame

(* Success is reported between games, when all of them were played; a      *)
(* protocol violation is reported as one.                                  *)
End ==
  /\ mode # "over" /\ mode' = "over" /\ game' = {}
  /\ \/ /\ code' = 0 /\ mode \in {"idle", "astray"}
        /\ IF loop THEN limit # NoLimit /\ played = limit ELSE played = 1
     \/ code' = 1 /\ mode # "broken"
     \/ code' = 3 /\ mode \in {"offline", "broken"}
  /\ UNCHANGED played /\ Frame

Next ==
  \/ Login \/ Ask \/ \E id \in Ids : Agree(id)
  \/ Withdraw \/ Begin \/ Finish \/ Stray \/ Break \/ Lose \/ End

Spec == Init /\ [][Next]_vars
=============================================================================
