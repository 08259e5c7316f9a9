------------------------------ MODULE MCShrink ------------------------------
(***************************************************************************)
(* Inputs of up to six bytes, zero or not, and faults of the kinds the    *)
(* comment on shrink() expects and some it does not: in the length, in    *)
(* the first or the last byte, in some byte or in two of them, and in     *)
(* every input, the empty one included.                                   *)
(***************************************************************************)
EXTENDS Shrink

MCInputs == BoundedSeq({0, 1}, 6)

Ones(d) == Len(SelectSeq(d, LAMBDA b : b = 1))

MCFaults == {
  MCInputs,
  {d \in MCInputs : Len(d) >= 3},
  {d \in MCInputs : Len(d) % 2 = 1},
  {d \in MCInputs : Len(d) % 3 = 2},
  {d \in MCInputs : Ones(d) >= 1},
  {d \in MCInputs : Ones(d) >= 2},
  {d \in MCInputs : d # <<>> /\ d[1] = 1},
  {d \in MCInputs : d # <<>> /\ d[Len(d)] = 1},
  {d \in MCInputs : Ones(d) % 2 = 1} }
=============================================================================
