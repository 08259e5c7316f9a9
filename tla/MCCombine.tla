------------------------------ MODULE MCCombine ------------------------------
(***************************************************************************)
(* All eleven algorithms.  The lengths of B run over 0, powers of two and *)
(* their neighbours, so that every pattern of the loop's odd and even     *)
(* iterations occurs, and contents that are all zeros (where a wrong      *)
(* power shows) as well as mixed.                                         *)
(***************************************************************************)
EXTENDS Combine

Mixed(n) == [j \in 1 .. n |-> ByteOf((53 * j + 7) % 256)]

MCFirstParts == {<<>>, <<ByteOf(49)>>, <<ByteOf(255), ByteOf(0), ByteOf(150)>>}

MCLastParts == {Mixed(n) : n \in 0 .. 6} \cup {[j \in 1 .. n |-> {}] : n \in {1, 4, 7}}
=============================================================================
