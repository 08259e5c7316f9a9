----------------------------- MODULE Registers -----------------------------
(***************************************************************************)
(* Machine words of the checksum library as sets of bit positions: a      *)
(* w-bit register is a subset of 0 .. w-1, and bit i is set when i is in  *)
(* the set.  Exclusive or is then the symmetric difference, so a 32- or   *)
(* 64-bit register stays an ordinary finite set, within the model         *)
(* checker's reach although its integers have 32 bits, and within the     *)
(* provers' reach as set theory.                                           *)
(***************************************************************************)
EXTENDS Integers, FiniteSetsExt

Bits(w)     == 0 .. (w - 1)
Register(w) == SUBSET Bits(w)
Byte        == Register(8)

(* r ^ s, r >> n and r << n on w-bit words. *)
r ^^ s      == SymDiff(r, s)
Shr(w, r, n) == {i \in Bits(w) : (i + n) \in r}

Shl(w, r, n) == {i \in Bits(w) : (i - n) \in r}

(* u16::swap_bytes. *)
SwapBytes(r) == {i \in Bits(16) : (IF i < 8 THEN i + 8 ELSE i - 8) \in r}

(* (r >> n) & 0xFF: the byte whose lowest bit is bit n of r. *)
ByteAt(r, n) == {i \in Bits(8) : (i + n) \in r}

(* The byte of value v. *)
ByteOf(v) == {i \in Bits(8) : (v \div (2^i)) % 2 = 1}
=============================================================================
