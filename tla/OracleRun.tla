----------------------------- MODULE OracleRun -----------------------------
(***************************************************************************)
(* What one run of the oracle promises to whoever started it: the results *)
(* file is left as it was until all answers are there; it is then written *)
(* in one go, and only that write can be cut short.  This is what         *)
(* FuzzDriver assumes of a run (HarnessRefuses, OpenResults and           *)
(* WriteResults), and what OracleHarness, the C program, is shown to do.  *)
(***************************************************************************)
EXTENDS Integers

VARIABLES
  asked,       (* is the cases file a whole batch?                         *)
  answers,     (* the right answers to it                                  *)
  results,     (* the results file: [of, whole], or Old                     *)
  exit         (* the exit code, or Running                                *)

vars == <<asked, answers, results, exit>>

Running == -1
Old     == [old |-> TRUE]

Init == results = Old /\ exit = Running

(* A failure before anything is written. *)
Refuse ==
  /\ exit = Running /\ results = Old
  /\ exit' \in 2 .. 7
  /\ UNCHANGED <<asked, answers, results>>

Open ==
  /\ exit = Running /\ results = Old
  /\ asked
  /\ results' = [of |-> answers, whole |-> FALSE]
  /\ UNCHANGED <<asked, answers, exit>>

(* A short write may go unnoticed: the last fclose is not looked at. *)
Close ==
  /\ exit = Running /\ results # Old
  /\ \/ results' = [results EXCEPT !.whole = TRUE] /\ exit' = 0
     \/ UNCHANGED results /\ exit' \in {0, 7}
  /\ UNCHANGED <<asked, answers>>

Next == Refuse \/ Open \/ Close

Spec == Init /\ [][Next]_vars
=============================================================================
