------------------------------ MODULE Combine ------------------------------
(***************************************************************************)
(* combine.rs: the checksum of A || B from the checksums of A and B and   *)
(* the length of B, without either byte string.  A behaviour is a caller  *)
(* that checksums B and then combines: the fold over B, followed by one   *)
(* call of a *_combine function, whose loop raises the one-byte operator  *)
(* to the power len_b by repeated squaring.                               *)
(*                                                                         *)
(* The three registers of the first phase are what the call is about:     *)
(*   partB   the register of the one-shot over B, from the seed;          *)
(*   whole   history: the register of the one-shot over A || B;           *)
(*   zeros   history: the register advance() starts from, stepped over    *)
(*           one zero byte for each byte of B.                            *)
(***************************************************************************)
EXTENDS CrcLibrary

CONSTANTS
  Names,       (* the algorithms called, a subset of FoldedCrcs            *)
  FirstParts,  (* byte strings for A                                       *)
  LastParts    (* byte strings for B                                       *)

ASSUME CombineAssumption ==
  /\ Names \subseteq FoldedCrcs
  /\ FirstParts \subseteq Seq(Byte)
  /\ LastParts \subseteq Seq(Byte)

VARIABLES
  alg,                    (* parameters of the algorithm called            *)
  dataA, dataB,           (* the two byte strings                          *)
  crcA,                   (* the caller's checksum of A                    *)
  pc,                     (* "fold", "advance" or "done"                   *)
  pos,                    (* bytes of B folded                             *)
  partB, whole, zeros,
  reg, power, len,        (* locals of advance()                           *)
  result

args   == <<alg, dataA, dataB, crcA>>
folds  == <<pos, partB, whole, zeros>>
locals == <<reg, power, len>>
combineVars ==
  <<alg, dataA, dataB, crcA, pc, pos, partB, whole, zeros, reg, power, len, result>>

-----------------------------------------------------------------------------
(* Mutant: the final xor is left out of the correction. *)
FixInitOnly(a) == a.start

(* FIX_*: init xor xorout. *)
Fix(a) == a.start ^^ a.xorout

(* OP_*: row i is the byte fold of 1 << i with a zero byte. *)
ByteOperator(a) == [i \in Bits(a.width) |-> Update(a, {i}, {})]

(* times: the rows that the set bits of vec select, xored together. *)
Times(matrix, vec) == FoldSet(LAMBDA i, sum : sum ^^ matrix[i], {}, vec)

(* square *)
Square(matrix) == [i \in DOMAIN matrix |-> Times(matrix, matrix[i])]

-----------------------------------------------------------------------------
CombineInit ==
  /\ alg \in {Parameters[name] : name \in Names}
  /\ dataA \in FirstParts
  /\ dataB \in LastParts
  /\ crcA = CrcOneShot(alg, dataA)
  /\ pc = "fold"
  /\ pos = 0
  /\ partB = alg.start
  /\ whole = ByteSwapIf(alg, crcA) ^^ alg.xorout
  /\ zeros = ByteSwapIf(alg, crcA) ^^ Fix(alg)
  /\ reg = {} /\ power = <<>> /\ len = 0
  /\ result = {}

(* The caller's fold over B, with the two histories in step. *)
FoldByte ==
  /\ pc = "fold"
  /\ pos < Len(dataB)
  /\ LET b == dataB[pos + 1]
     IN  /\ partB' = Update(alg, partB, b)
         /\ whole' = Update(alg, whole, b)
         /\ zeros' = Update(alg, zeros, {})
  /\ pos' = pos + 1
  /\ UNCHANGED <<args, pc, locals, result>>

(* combine(op, crc_a, crc_b, len_b, fix) on the unswapped checksums:      *)
(* nothing to do for an empty B, ...                                      *)
CombineEmpty ==
  /\ pc = "fold"
  /\ pos = Len(dataB)
  /\ Len(dataB) = 0
  /\ result' = ByteSwapIf(alg, ByteSwapIf(alg, crcA))
  /\ pc' = "done"
  /\ UNCHANGED <<args, folds, locals>>

(* ... and otherwise advance() is entered. *)
CombineCall ==
  /\ pc = "fold"
  /\ pos = Len(dataB)
  /\ Len(dataB) # 0
  /\ reg' = ByteSwapIf(alg, crcA) ^^ Fix(alg)
  /\ power' = ByteOperator(alg)
  /\ len' = Len(dataB)
  /\ pc' = "advance"
  /\ UNCHANGED <<args, folds, result>>

(* One iteration of advance()'s loop that goes round again. *)
AdvanceStep ==
  /\ pc = "advance"
  /\ len \div 2 # 0
  /\ reg' = IF len % 2 = 1 THEN Times(power, reg) ELSE reg
  /\ len' = len \div 2
  /\ power' = Square(power)
  /\ UNCHANGED <<args, folds, pc, result>>

(* Mutant: crc_b is not swapped back before it is combined. *)
AdvanceReturnStillSwapped ==
  /\ pc = "advance"
  /\ len \div 2 = 0
  /\ reg' = IF len % 2 = 1 THEN Times(power, reg) ELSE reg
  /\ len' = len \div 2
  /\ result' = ByteSwapIf(alg, reg' ^^ Finalise(alg, partB))
  /\ pc' = "done"
  /\ UNCHANGED <<args, folds, power>>

(* The last one: advance() returns, crc_b is xored in and the result is   *)
(* swapped back.                                                          *)
AdvanceReturn ==
  /\ pc = "advance"
  /\ len \div 2 = 0
  /\ reg' = IF len % 2 = 1 THEN Times(power, reg) ELSE reg
  /\ len' = len \div 2
  /\ result' = ByteSwapIf(alg, reg' ^^ ByteSwapIf(alg, Finalise(alg, partB)))
  /\ pc' = "done"
  /\ UNCHANGED <<args, folds, power>>

CombineNext == FoldByte \/ CombineEmpty \/ CombineCall \/ AdvanceStep \/ AdvanceReturn

CombineSpec == CombineInit /\ [][CombineNext]_combineVars

-----------------------------------------------------------------------------
(* combine.rs derives the combination from the linearity of the fold:     *)
(* after any prefix of B, the register over A || B is the register over B *)
(* alone xored with A's register advanced over as many zero bytes, the    *)
(* correction init ^ xorout included.                                     *)
SplitIdentity == whole = zeros ^^ partB

(* The combined checksum is the one-shot checksum of the concatenation. *)
CombinedIsConcatenation ==
  pc = "done" => result = CrcOneShot(alg, dataA \o dataB)
=============================================================================
