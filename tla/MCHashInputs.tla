---------------------------- MODULE MCHashInputs ----------------------------
(***************************************************************************)
(* Command lines of up to three inputs, two files and standard input with *)
(* repetitions, and two algorithms.                                        *)
(***************************************************************************)
EXTENDS HashInputs

MCFileLists == UNION {[1 .. n -> {"a", "b", "-"}] : n \in 1 .. 3}

MCAlgos == <<"crc_16", "crc_32">>
=============================================================================
