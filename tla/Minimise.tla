------------------------------ MODULE Minimise ------------------------------
(***************************************************************************)
(* What the differential fuzzer expects of its shrinker: an input that    *)
(* still makes the two libraries differ and is no longer than the one it  *)
(* was given, or nothing.                                                 *)
(***************************************************************************)
EXTENDS Naturals, Sequences

CONSTANT Faults       (* a fault is the set of inputs that diverge *)

VARIABLES fault, data, outcome, best

vars == <<fault, data, outcome, best>>

Init ==
  /\ fault \in Faults
  /\ data \in fault
  /\ outcome = "shrinking"
  /\ best = data

(* Any smaller diverging input may become the best one so far. *)
Improve ==
  /\ outcome = "shrinking"
  /\ best' \in {d \in fault : Len(d) <= Len(best)}
  /\ UNCHANGED <<fault, data, outcome>>

Deliver ==
  /\ outcome = "shrinking"
  /\ outcome' \in {"some", "none"}
  /\ outcome' = "none" => best = data
  /\ UNCHANGED <<fault, data, best>>

Next == Improve \/ Deliver

Spec == Init /\ [][Next]_vars
=============================================================================
