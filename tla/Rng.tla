-------------------------------- MODULE Rng --------------------------------
(***************************************************************************)
(* rng.rs: the generator every case of the fuzzer is drawn from.  Case N  *)
(* of a run has a generator of its own, made of the seed and N by         *)
(* SplitMix64 and advanced by xorshift64*.  The module runs two           *)
(* generators side by side, one draw of each at a time: those of two      *)
(* cases, or two made of seeds.                                           *)
(***************************************************************************)
EXTENDS Registers

CONSTANTS
  Seeds,       (* master seeds                                             *)
  Indices,     (* indices of cases, as 64-bit words too                    *)
  DRAWS        (* bound: numbers drawn of each generator                   *)

ASSUME RngAssumption ==
  /\ Seeds \subseteq Register(64) /\ Indices \subseteq Register(64)
  /\ DRAWS \in Nat

VARIABLES
  asked,       (* history: <<"cases", seed, index, index>>, or two seeds    *)
  one, other,  (* the states of the two generators                         *)
  draws,       (* draws made                                               *)
  drawn        (* what the last draw of each gave, or nothing yet          *)

vars == <<asked, one, other, draws, drawn>>

-----------------------------------------------------------------------------
Word == Register(64)

(* Addition and multiplication that wrap around.  A carry into bit i      *)
(* comes from a lower bit j that both words have, over bits that at least *)
(* one of them has.                                                       *)
WrappingAdd(x, y) ==
  LET carry == {i \in Bits(64) :
                  \E j \in x \cap y : j < i /\ \A k \in j + 1 .. i - 1 : k \in x \cup y}
  IN  (x ^^ y) ^^ carry

(* The products of bits that meet in bit i, and the carry out of bit i-1. *)
WrappingMul(x, y) ==
  LET column[i \in Bits(64)] ==
        Cardinality({j \in y : i - j \in x}) + (IF i = 0 THEN 0 ELSE column[i - 1] \div 2)
  IN  {i \in Bits(64) : column[i] % 2 = 1}

GOLDEN ==     \* 0x9E3779B97F4A7C15
  {63, 60, 59, 58, 57, 53, 52, 50, 49, 48, 46, 45, 44, 43, 40, 39, 37, 36, 35, 32,
   30, 29, 28, 27, 26, 25, 24, 22, 19, 17, 14, 13, 12, 11, 10, 4, 2, 0}
MIX1 ==       \* 0xBF58476D1CE4E5B9
  {63, 61, 60, 59, 58, 57, 56, 54, 52, 51, 46, 42, 41, 40, 38, 37, 35, 34, 32, 28,
   27, 26, 23, 22, 21, 18, 15, 14, 13, 10, 8, 7, 5, 4, 3, 0}
MIX2 ==       \* 0x94D049BB133111EB
  {63, 60, 58, 55, 54, 52, 46, 43, 40, 39, 37, 36, 35, 33, 32, 28, 25, 24, 21, 20,
   16, 12, 8, 7, 6, 5, 3, 1, 0}
STAR ==       \* 0x2545F4914F6CDD1D
  {61, 58, 56, 54, 50, 48, 47, 46, 45, 44, 42, 39, 36, 32, 30, 27, 26, 25, 24, 22,
   21, 19, 18, 15, 14, 12, 11, 10, 8, 4, 3, 2, 0}

XorShr(x, n) == x ^^ Shr(64, x, n)
XorShl(x, n) == x ^^ Shl(64, x, n)

SplitMix64(x) ==
  XorShr(WrappingMul(XorShr(WrappingMul(XorShr(WrappingAdd(x, GOLDEN), 30), MIX1), 27), MIX2), 31)

(* Mutant: the zero state is taken as it is. *)
NewAsGiven(seed) == seed

(* Rng::new: a zero state is remapped. *)
New(seed) == IF seed = {} THEN GOLDEN ELSE seed

ForCase(master, index) == New(SplitMix64(master ^^ SplitMix64(index)))

(* The three lines of next_u64 that change the state. *)
Turned(x) == XorShr(XorShl(XorShr(x, 12), 25), 27)

(* And the one that makes the number. *)
Output(x) == WrappingMul(x, STAR)

-----------------------------------------------------------------------------
Init ==
  /\ \/ \E seed \in Seeds, i, j \in Indices :
           /\ asked = <<"cases", seed, i, j>>
           /\ one = ForCase(seed, i) /\ other = ForCase(seed, j)
     \/ \E s, t \in Seeds :
           /\ asked = <<"seeds", s, t>>
           /\ one = New(s) /\ other = New(t)
  /\ draws = 0
  /\ drawn = <<>>

NextU64 ==
  /\ draws < DRAWS
  /\ draws' = draws + 1
  /\ one' = Turned(one)
  /\ other' = Turned(other)
  /\ drawn' = <<Output(Turned(one)), Output(Turned(other))>>
  /\ UNCHANGED asked

Next == NextU64

Spec == Init /\ [][Next]_vars

-----------------------------------------------------------------------------
TypeOK ==
  /\ one \in Word /\ other \in Word
  /\ draws \in 0 .. DRAWS
  /\ drawn \in {<<>>} \cup (Word \X Word)

(* rng.rs:23-24: a zero state "would emit zeros forever".  No draw of any *)
(* generator leads to it, so remapping it in new() is enough.             *)
NeverZero == one # {} /\ other # {}

(* Generators that are in different states never fall in with each other. *)
StayApart == [][one # other => one' # other']_vars
=============================================================================
