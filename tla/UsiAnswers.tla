----------------------------- MODULE UsiAnswers -----------------------------
(***************************************************************************)
(* What a USI session promises the GUI, with no worker threads and no      *)
(* abort flag in sight: `go` commands are questions, numbered in the order *)
(* they are accepted, and the engine is in one of four modes about the     *)
(* newest of them.                                                         *)
(*                                                                         *)
(*   none       nothing is asked (start of the session, or `position`,     *)
(*              `usinewgame` or `quit` withdrew the question)              *)
(*   thinking   an answer is owed                                          *)
(*   pondering  the GUI has not played the expected move yet, so nothing   *)
(*              may be answered until `stop` or `ponderhit`                *)
(*   answered   the one `bestmove` of this question is out                 *)
(***************************************************************************)
EXTENDS Naturals

CONSTANT Questions          \* the `go` commands, numbered from 1

VARIABLES
  asked,                    \* the newest question, 0 before the first
  mode,                     \* what the engine owes it
  answers                   \* how many bestmove lines each question received

vars == <<asked, mode, answers>>

Init ==
  /\ asked = 0
  /\ mode = "none"
  /\ answers = [q \in Questions |-> 0]

(* A new question.  The engine may not take one while it still owes an     *)
(* answer: a search that is replaced answers first.  A book move answers   *)
(* at once; a question that was only pondered is forgotten.                *)
Ask ==
  /\ mode # "thinking"
  /\ asked + 1 \in Questions
  /\ asked' = asked + 1
  /\ \/ mode' \in {"thinking", "pondering"} /\ UNCHANGED answers
     \/ mode' = "answered" /\ answers' = [answers EXCEPT ![asked + 1] = 1]

(* The answer owed.  Only the newest question is ever answered, and once.  *)
Answer ==
  /\ mode = "thinking"
  /\ mode' = "answered"
  /\ answers' = [answers EXCEPT ![asked] = @ + 1]
  /\ UNCHANGED asked

(* `stop`, or `ponderhit` after the ponder search has completed.           *)
AnswerPonder ==
  /\ mode = "pondering"
  /\ mode' = "answered"
  /\ answers' = [answers EXCEPT ![asked] = @ + 1]
  /\ UNCHANGED asked

(* `ponderhit` turns the pondered question into one that is owed.          *)
Hit ==
  /\ mode = "pondering"
  /\ mode' = "thinking"
  /\ UNCHANGED <<asked, answers>>

(* `position`, `usinewgame`, `quit` and the end of input withdraw it.      *)
Withdraw ==
  /\ mode' = "none"
  /\ UNCHANGED <<asked, answers>>

Next == Ask \/ Answer \/ AnswerPonder \/ Hit \/ Withdraw

Spec == Init /\ [][Next]_vars

=============================================================================
