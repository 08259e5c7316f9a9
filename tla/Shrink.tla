------------------------------- MODULE Shrink -------------------------------
(***************************************************************************)
(* shrink() of the differential fuzzer: a diverging input is cut from the *)
(* tail by halves, then trimmed byte by byte from the front, then its     *)
(* bytes are flattened to zero.  Every candidate is put to the oracle     *)
(* again.  A probe whose oracle run fails says the same as a probe that   *)
(* does not diverge.  A behaviour is one call.                            *)
(***************************************************************************)
EXTENDS Integers, SequencesExt

CONSTANTS
  Inputs,              (* byte strings; ZERO is the byte 0                 *)
  Faults,              (* a fault is the set of inputs that diverge        *)
  ZERO,
  MAX_SHRINK_CALLS

ASSUME ShrinkAssumption ==
  /\ Inputs \subseteq Seq(Nat)
  /\ \A f \in Faults : f \subseteq Inputs
  /\ MAX_SHRINK_CALLS \in Nat \ {0}

VARIABLES
  fault,       (* the inputs that diverge                                  *)
  data,        (* the argument                                             *)
  phase,       (* "first", "halve", "trim", "zero", "some" or "none"       *)
  best, step, i, calls,    (* the locals                                   *)
  failures     (* history: has a probe's oracle run failed?                *)

args == <<fault, data>>
shrinkVars == <<fault, data, phase, best, step, i, calls, failures>>

-----------------------------------------------------------------------------
Smaller(a, b) == IF a < b THEN a ELSE b

DropTail(d, n) == SubSeq(d, 1, Len(d) - Smaller(n, Len(d)))

(* Mutant: a probe that could not be made counts as a divergence. *)
DivergesOrFails(candidate) ==
  /\ calls' = calls + 1
  /\ \/ candidate \in fault /\ UNCHANGED failures
     \/ failures' = TRUE

(* probe(): Some(diffs), or None for two reasons. *)
Diverges(candidate) ==
  /\ candidate \in fault
  /\ calls' = calls + 1
  /\ UNCHANGED failures

NoDivergence(candidate) ==
  /\ calls' = calls + 1
  /\ \/ candidate \notin fault /\ UNCHANGED failures
     \/ failures' = TRUE

ShrinkInit ==
  /\ fault \in Faults
  /\ data \in fault
  /\ phase = "first"
  /\ best = data
  /\ step = 0 /\ i = 1 /\ calls = 0
  /\ failures = FALSE

(* The input itself is confirmed first; otherwise shrink returns None. *)
ConfirmFirst ==
  /\ phase = "first"
  /\ Diverges(best)
  /\ step' = Len(best) \div 2
  /\ phase' = "halve"
  /\ UNCHANGED <<args, best, i>>

NotConfirmed ==
  /\ phase = "first"
  /\ NoDivergence(best)
  /\ phase' = "none"
  /\ UNCHANGED <<args, best, step, i>>

HalveLoop == phase = "halve" /\ step > 0 /\ calls < MAX_SHRINK_CALLS

HalveAccept ==
  /\ HalveLoop
  /\ Diverges(DropTail(best, step))
  /\ best' = DropTail(best, step)
  /\ step' = Smaller(step, Len(best'))
  /\ UNCHANGED <<args, phase, i>>

(* Mutant: a refused cut ends the halving. *)
HalveRejectGivesUp ==
  /\ HalveLoop
  /\ NoDivergence(DropTail(best, step))
  /\ step' = 0
  /\ UNCHANGED <<args, phase, best, i>>

HalveReject ==
  /\ HalveLoop
  /\ NoDivergence(DropTail(best, step))
  /\ step' = Smaller(step \div 2, Len(best))
  /\ UNCHANGED <<args, phase, best, i>>

HalveDone ==
  /\ phase = "halve" /\ ~HalveLoop
  /\ phase' = "trim"
  /\ UNCHANGED <<args, best, step, i, calls, failures>>

TrimLoop == phase = "trim" /\ best # <<>> /\ calls < MAX_SHRINK_CALLS

TrimAccept ==
  /\ TrimLoop
  /\ Diverges(Tail(best))
  /\ best' = Tail(best)
  /\ UNCHANGED <<args, phase, step, i>>

TrimReject ==
  /\ TrimLoop
  /\ NoDivergence(Tail(best))
  /\ phase' = "zero"
  /\ UNCHANGED <<args, best, step, i>>

TrimDone ==
  /\ phase = "trim" /\ ~TrimLoop
  /\ phase' = "zero"
  /\ UNCHANGED <<args, best, step, i, calls, failures>>

(* Mutant: the last loop does not look at the budget. *)
ZeroLoopUnbounded == phase = "zero" /\ i <= Len(best)

ZeroLoop == phase = "zero" /\ i <= Len(best) /\ calls < MAX_SHRINK_CALLS

(* Mutant: a byte that is zero already is looked at for ever. *)
ZeroSkipStays ==
  /\ ZeroLoop
  /\ best[i] = ZERO
  /\ UNCHANGED shrinkVars

ZeroSkip ==
  /\ ZeroLoop
  /\ best[i] = ZERO
  /\ i' = i + 1
  /\ UNCHANGED <<args, phase, best, step, calls, failures>>

ZeroAccept ==
  /\ ZeroLoop
  /\ best[i] # ZERO
  /\ Diverges([best EXCEPT ![i] = ZERO])
  /\ best' = [best EXCEPT ![i] = ZERO]
  /\ i' = i + 1
  /\ UNCHANGED <<args, phase, step>>

ZeroReject ==
  /\ ZeroLoop
  /\ best[i] # ZERO
  /\ NoDivergence([best EXCEPT ![i] = ZERO])
  /\ i' = i + 1
  /\ UNCHANGED <<args, phase, best, step>>

ReturnSome ==
  /\ phase = "zero" /\ ~ZeroLoop
  /\ phase' = "some"
  /\ UNCHANGED <<args, best, step, i, calls, failures>>

ShrinkNext ==
  \/ ConfirmFirst \/ NotConfirmed
  \/ HalveAccept \/ HalveReject \/ HalveDone
  \/ TrimAccept \/ TrimReject \/ TrimDone
  \/ ZeroSkip \/ ZeroAccept \/ ZeroReject \/ ReturnSome

ShrinkSpec == ShrinkInit /\ [][ShrinkNext]_shrinkVars

(* Every oracle run ends (the harness is one pass over a file), so the    *)
(* loop takes its next step.                                              *)
FairSpec == ShrinkSpec /\ WF_shrinkVars(ShrinkNext)

-----------------------------------------------------------------------------
(* main.rs:34: MAX_SHRINK_CALLS is the "ceiling on oracle round-trips     *)
(* spent shrinking one input", over the three loops together and whatever *)
(* the oracle does.                                                       *)
BudgetKept == calls <= MAX_SHRINK_CALLS

(* main.rs:189-190: "Every step is re-confirmed against the oracle": the  *)
(* call is an abstract minimisation.  What it keeps diverges, at every    *)
(* moment and also when oracle runs fail in between, and never grows.     *)
Abstract == INSTANCE Minimise WITH
  outcome <- IF phase \in {"some", "none"} THEN phase ELSE "shrinking"
IsMinimisation == Abstract!Spec

(* main.rs:196: "Halve from the tail for as long as it keeps failing":    *)
(* when the halving ends for want of a step and no oracle run failed,     *)
(* the last byte of what is left is needed, although the cuts tried were  *)
(* unevenly spaced.  (An input of one byte is never cut: its step is 0.)  *)
LastByteIsNeeded ==
  phase = "halve" /\ step = 0 /\ ~failures /\ Len(data) > 1 /\ best # <<>> =>
    DropTail(best, 1) \notin fault

(* The shrinker returns. *)
Returns == <>(phase \in {"some", "none"})
=============================================================================
