---------------------------- MODULE OneShotHash ----------------------------
(***************************************************************************)
(* What hash::checksums promises its callers: the checksums of a whole    *)
(* input, all of them at once and in the order they were asked for, or an *)
(* error and no checksum at all.                                          *)
(***************************************************************************)
CONSTANTS Inputs, Algos, OneShot(_, _)

VARIABLES input, outcome, sums

vars == <<input, outcome, sums>>

Init ==
  /\ input \in Inputs
  /\ outcome = "reading"
  /\ sums = <<>>

Succeed ==
  /\ outcome = "reading"
  /\ outcome' = "done"
  /\ sums' = [n \in DOMAIN Algos |-> OneShot(Algos[n], input)]
  /\ UNCHANGED input

Fail ==
  /\ outcome = "reading"
  /\ outcome' = "failed"
  /\ UNCHANGED <<input, sums>>

Next == Succeed \/ Fail

Spec == Init /\ [][Next]_vars
=============================================================================
