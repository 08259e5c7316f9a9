----------------------------- MODULE MCSliceBy8 -----------------------------
(***************************************************************************)
(* The six accelerated kernels of the library, and messages on both sides *)
(* of every threshold: shorter than a block, one block, between one block *)
(* and the crossover, and two blocks with tails of every length.          *)
(***************************************************************************)
EXTENDS SliceBy8

K(reflected, width, poly) == [reflected |-> reflected, width |-> width, poly |-> poly]

MCKernels == {
  K(FALSE, 8,  {5, 4, 0}),                \* POLY_8      0x31
  K(TRUE,  16, {15, 13, 0}),              \* POLY_16     0xA001
  K(TRUE,  16, {15, 10, 3}),              \* POLY_KERMIT 0x8408
  K(TRUE,  16, {15, 13, 10, 9, 7, 5, 4, 3, 2}),  \* POLY_DNP 0xA6BC
  K(FALSE, 16, {12, 5, 0}),               \* POLY_CCITT  0x1021
  K(TRUE,  32, {31, 30, 29, 27, 26, 24, 23, 21, 20, 19, 15, 9, 8, 5}) }
                                          \* POLY_32     0xEDB88320

(* Every kernel is started from zero and from all ones, which covers the *)
(* START_* values of the library but one (0x1D0F).                       *)
MCSeeds == [k \in MCKernels |-> {{}, Bits(k.width)}]

(* MIN_LEN and MIN_LEN_8. *)
MCMinLen == [k \in MCKernels |-> IF k.width = 8 THEN 8 ELSE 16]

(* 23 bytes with no two equal, none of them with a byte's symmetry. *)
Pattern == [j \in 1 .. 23 |-> {i \in 0 .. 7 : ((37 * j + 11) \div (2^i)) % 2 = 1}]

MCMessages == {SubSeq(Pattern, 1, n) : n \in {0, 1, 7, 8, 9, 15, 16, 17, 23}}
=============================================================================
