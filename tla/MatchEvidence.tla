--------------------------- MODULE MatchEvidence ---------------------------
(***************************************************************************)
(* What a match leaves on disk - a kifu and perhaps a CSA file per game,   *)
(* the JSONL trials, the result summary, the CSA manifest - and what the   *)
(* gate command reads from it.  Trials, summary and manifest are each      *)
(* replaced in one step (write_atomic), but there are several of them: a   *)
(* run that is killed between two steps leaves the new state of some and   *)
(* the old of others.  A kifu or CSA file, which the gate does not read,   *)
(* is on disk once its write has returned.                                 *)
(***************************************************************************)
EXTENDS Integers, Sequences, FiniteSets

Outcomes == {"E1Win", "E2Win", "Draw"}

(* A trial as the JSONL has it is its outcome; the run and the game it     *)
(* comes from, and whether an engine fault ended it, are history.          *)
Trial(run, game, outcome, fault) ==
  [run |-> run, game |-> game, outcome |-> outcome, fault |-> fault]

Tally(trials) ==
  [o \in Outcomes |-> Cardinality({i \in DOMAIN trials : trials[i].outcome = o})]

TrialRecords == [run : {"earlier", "this"}, game : Nat, outcome : Outcomes, fault : BOOLEAN]

Summary(status, trials, invalid) ==
  [status |-> status, tally |-> Tally(trials), invalid |-> invalid]

EmptyDisk ==
  [kifu |-> {}, csa |-> {}, trials |-> <<>>,
   summary |-> Summary("none", <<>>, {}), manifest |-> 0]

Disks ==
  [kifu : SUBSET Nat, csa : SUBSET Nat, trials : Seq(TrialRecords),
   summary : [status : {"none", "running", "complete"}, tally : [Outcomes -> Nat],
              invalid : SUBSET Nat],
   manifest : Nat]

WriteTrials(disk, trials) == [disk EXCEPT !.trials = trials]

(* game_to_csa: only results a training label may be derived from.         *)
Labelled == {"Resign", "Repetition", "PerpetualCheck"}

(* gate_evidence_message                                                   *)
Complete(disk) == disk.summary.status = "complete" /\ disk.summary.invalid = {}

(* Mutant of CountsAgree: the summary is believed.                         *)
CountsIgnored(disk) == TRUE

(* gate_record_counts_message                                              *)
CountsAgree(disk) == disk.summary.tally = Tally(disk.trials)

GateAccepts(disk) == Complete(disk) /\ CountsAgree(disk)
=============================================================================
