---------------------------- MODULE MCFuzzDriver ----------------------------
(***************************************************************************)
(* One fuzzer: from case 0 and from case 2, in batches of one, two and    *)
(* three, replays of zero, three and five cases (multiples of a batch and *)
(* not), timed runs and single cases; faults that no case, one or most of *)
(* them show, so that the list of divergences, here of two, runs over.    *)
(*                                                                         *)
(* Two fuzzers: a run of one case, as long as a self-check and a probe    *)
(* are, and one of two, beside a --case, beside a run that ends after its *)
(* self-check, and beside one that has a directory of its own.            *)
(***************************************************************************)
EXTENDS FuzzDriver

Run(seed, start, size, target) ==
  [seed |-> seed, start |-> start, batch |-> size, target |-> target,
   workdir |-> "work", case |-> NoCase]

Single(seed, index) == [Run(seed, 0, 3, Timed) EXCEPT !.case = index]

Solo ==
  {[p \in {"p1"} |-> Run(1, start, size, target)] :
     start \in {0, 2}, size \in {1, 2, 3}, target \in {Timed, 0, 3, 5}} \cup
  {[p \in {"p1"} |-> Single(1, index)] : index \in {0, 2}}

Duo ==
  {"p1" :> args @@ "p2" :> beside :
     args \in {Run(1, 1, 1, 1), Run(1, 0, 2, 2)},
     beside \in {Single(1, 2), Run(2, 0, 1, 0), [Single(1, 1) EXCEPT !.workdir = "elsewhere"]}}

MCPlans == Solo \cup Duo

Shown(indices) == {CaseOf(1, i) : i \in indices}
MCFaults == {Shown(s) : s \in {{}, {2}, {1, 2, 3, 5}}}
=============================================================================
