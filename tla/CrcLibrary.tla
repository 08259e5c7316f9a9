----------------------------- MODULE CrcLibrary -----------------------------
(***************************************************************************)
(* The public one-shot functions of libcrc-rs: the parameters of the      *)
(* algorithms and what each function returns for a byte string.  The      *)
(* one-shot functions are given here as the byte-at-a-time loop; module   *)
(* SliceBy8 shows that the accelerated build returns the same.            *)
(*                                                                         *)
(* An algorithm is a kernel with the three things the one-shot functions  *)
(* add to it: the seed, the final xor and the final byte swap.            *)
(***************************************************************************)
EXTENDS ByteCrc, SequencesExt

POLY_8 == {5, 4, 0}
POLY_16 == {15, 13, 0}
POLY_KERMIT == {15, 10, 3}
POLY_DNP == {15, 13, 10, 9, 7, 5, 4, 3, 2}
POLY_CCITT == {12, 5, 0}
POLY_32 == {31, 30, 29, 27, 26, 24, 23, 21, 20, 19, 15, 9, 8, 5}
POLY_64 ==
  {62, 57, 55, 54, 53, 52, 47, 46, 45, 40, 39, 38, 37, 35, 33, 32, 31, 29, 27, 24, 23, 22, 21, 19, 17, 13, 12, 10, 9, 7, 4, 1, 0}

START_CCITT_1D0F == {12, 11, 10, 8, 3, 2, 1, 0}

Algorithm(reflected, width, poly, start, xorout, swap) ==
  [reflected |-> reflected, width |-> width, poly |-> poly,
   start |-> start, xorout |-> xorout, swap |-> swap]

(* The eleven functions that are a fold of update_crc_*, by name. *)
Parameters == [
  crc_8          |-> Algorithm(FALSE, 8,  POLY_8,      {},               {},       FALSE),
  crc_16         |-> Algorithm(TRUE,  16, POLY_16,     {},               {},       FALSE),
  crc_modbus     |-> Algorithm(TRUE,  16, POLY_16,     Bits(16),         {},       FALSE),
  crc_xmodem     |-> Algorithm(FALSE, 16, POLY_CCITT,  {},               {},       FALSE),
  crc_ccitt_ffff |-> Algorithm(FALSE, 16, POLY_CCITT,  Bits(16),         {},       FALSE),
  crc_ccitt_1d0f |-> Algorithm(FALSE, 16, POLY_CCITT,  START_CCITT_1D0F, {},       FALSE),
  crc_kermit     |-> Algorithm(TRUE,  16, POLY_KERMIT, {},               {},       TRUE),
  crc_dnp        |-> Algorithm(TRUE,  16, POLY_DNP,    {},               Bits(16), TRUE),
  crc_32         |-> Algorithm(TRUE,  32, POLY_32,     Bits(32),         Bits(32), FALSE),
  crc_64_ecma    |-> Algorithm(FALSE, 64, POLY_64,     {},               {},       FALSE),
  crc_64_we      |-> Algorithm(FALSE, 64, POLY_64,     Bits(64),         Bits(64), FALSE) ]

FoldedCrcs == DOMAIN Parameters

(* All thirteen algorithms of the library. *)
Algorithms == FoldedCrcs \cup {"crc_sick", "nmea"}

-----------------------------------------------------------------------------
ByteSwapIf(alg, r) == IF alg.swap THEN SwapBytes(r) ELSE r

(* The last line of the one-shot functions: complement, then swap. *)
Finalise(alg, r) == ByteSwapIf(alg, r ^^ alg.xorout)

ByteFold(alg, r, data) == FoldLeft(LAMBDA crc, b : Update(alg, crc, b), r, data)

CrcOneShot(alg, data) == Finalise(alg, ByteFold(alg, alg.start, data))

(* crc_sick: the fold carries the previous byte, zero before the first. *)
SickOneShot(data) ==
  LET folded == FoldLeft(LAMBDA s, b : <<UpdateSick(s[1], b, s[2]), b>>, <<{}, {}>>, data)
  IN  SwapBytes(folded[1])

-----------------------------------------------------------------------------
(* checksum_nmea.  The bytes that matter to it: '$', and NUL, LF, CR and  *)
(* '*', at which it stops.                                                *)
DOLLAR      == {5, 2}                                  \* '$' 0x24
Terminators == {{}, {3, 1}, {3, 2, 0}, {5, 3, 1}}      \* 0x00 0x0A 0x0D 0x2A

StripDollar(data) ==
  IF data # <<>> /\ Head(data) = DOLLAR THEN Tail(data) ELSE data

(* take_while: the sentence up to its first terminator. *)
Sentence(data) ==
  SubSeq(data, 1, SelectInSeq(data \o <<{}>>, LAMBDA b : b \in Terminators) - 1)

NmeaOneShot(data) ==
  FoldLeft(LAMBDA checksum, b : checksum ^^ b, {}, Sentence(StripDollar(data)))

(* The library function of that name. *)
OneShot(name, data) ==
  CASE name = "crc_sick" -> SickOneShot(data)
    [] name = "nmea"     -> NmeaOneShot(data)
    [] OTHER             -> CrcOneShot(Parameters[name], data)
=============================================================================
