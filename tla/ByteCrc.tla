------------------------------ MODULE ByteCrc ------------------------------
(***************************************************************************)
(* The byte-at-a-time kernels of libcrc-rs: the rows of the compile-time  *)
(* tables and the update_crc_* steps that use them.  A kernel is a record *)
(*   [reflected |-> LSB-first?, width |-> W, poly |-> the polynomial]     *)
(* The library has one copy of this code per register width; the          *)
(* definitions below are the two shapes those copies have, reflected      *)
(* (16, 32, Kermit, DNP) and forward (8, CCITT, 64).                      *)
(***************************************************************************)
EXTENDS Registers

IsKernel(k) ==
  /\ k.reflected \in BOOLEAN
  /\ k.width \in {8, 16, 32, 64}
  /\ k.poly \in Register(k.width)

-----------------------------------------------------------------------------
(* One turn of the `while bit < 8` loop of a table builder. *)

ReflectedShift(w, poly, r) ==
  IF 0 \in r THEN Shr(w, r, 1) ^^ poly ELSE Shr(w, r, 1)

ForwardShift(w, poly, r) ==
  IF (w - 1) \in r THEN Shl(w, r, 1) ^^ poly ELSE Shl(w, r, 1)

Shift(k, r) ==
  IF k.reflected THEN ReflectedShift(k.width, k.poly, r)
                 ELSE ForwardShift(k.width, k.poly, r)

Shift8(k, r) ==
  Shift(k, Shift(k, Shift(k, Shift(k, Shift(k, Shift(k, Shift(k, Shift(k, r))))))))

(* Where a message byte meets the register: the low end of a reflected    *)
(* register, the high end of a forward one.                               *)
Inject(k, b) == IF k.reflected THEN b ELSE Shl(k.width, b, k.width - 8)

(* TABLE[b]. *)
Row(k, b) == Shift8(k, Inject(k, b))

-----------------------------------------------------------------------------
(* The byte of the register that the next step consumes, and what is left *)
(* of the register behind it.                                             *)
Head8(k, crc) ==
  IF k.reflected THEN ByteAt(crc, 0) ELSE ByteAt(crc, k.width - 8)

Rest8(k, crc) ==
  IF k.reflected THEN Shr(k.width, crc, 8) ELSE Shl(k.width, crc, 8)

(* update_crc_8, _16, _32, _ccitt, _kermit, _dnp and _64. *)
Update(k, crc, b) == Rest8(k, crc) ^^ Row(k, Head8(k, crc) ^^ b)

(* update_crc_sick: one bit of shift for each byte, and the byte is mixed *)
(* in together with the one before it.                                    *)
POLY_SICK == {15, 2, 0}     \* 0x8005

UpdateSick(crc, b, prev) == ForwardShift(16, POLY_SICK, crc) ^^ (b \cup Shl(16, prev, 8))
=============================================================================
