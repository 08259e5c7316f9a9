----------------------------- MODULE TableBuild -----------------------------
(***************************************************************************)
(* The const fns that build the tables of the byte loops at compile time. *)
(* A behaviour builds one table.  Three of the five builders (the u16     *)
(* ones and forward_table_u64) are libcrc's own: the index is not loaded  *)
(* into the register but kept in a second one, c, that is shifted along   *)
(* with it; the other two shift a single register.  The rest of the       *)
(* project uses the single-register form, Row of module ByteCrc.          *)
(***************************************************************************)
EXTENDS ByteCrc, SequencesExt

CONSTANT Builders    (* kernels with one field more: split, two registers? *)

ASSUME BuilderAssumption ==
  \A k \in Builders : IsKernel(k) /\ k.split \in BOOLEAN

VARIABLES
  builder,     (* the builder that runs, and its polynomial                *)
  index,       (* the row being built                                      *)
  bit,         (* turns of the inner loop done                             *)
  crc, c,      (* the registers; c stays zero in a single-register builder *)
  table,       (* the rows built so far                                    *)
  shifted      (* history: the index, loaded into a single register and    *)
               (* shifted once a turn                                      *)

buildVars == <<builder, index, bit, crc, c, table, shifted>>

ROWS == 256

-----------------------------------------------------------------------------
Start(k, i)     == Inject(k, ByteOf(i))
StartCrc(k, i)  == IF k.split THEN {} ELSE Start(k, i)
StartC(k, i)    == IF k.split THEN Start(k, i) ELSE {}

BuildInit ==
  /\ builder \in Builders
  /\ index = 0 /\ bit = 0
  /\ crc = StartCrc(builder, 0)
  /\ c = StartC(builder, 0)
  /\ table = <<>>
  /\ shifted = Start(builder, 0)

(* (crc ^ c) & 1, or the top bit in a forward builder. *)
OutgoingBit ==
  (IF builder.reflected THEN 0 ELSE builder.width - 1) \in crc ^^ c

Pushed(r) ==
  IF builder.reflected THEN Shr(builder.width, r, 1) ELSE Shl(builder.width, r, 1)

(* Mutant: the second register is looked at but not shifted along. *)
TurnOneShift ==
  /\ index < ROWS
  /\ bit < 8
  /\ crc' = IF OutgoingBit THEN Pushed(crc) ^^ builder.poly ELSE Pushed(crc)
  /\ bit' = bit + 1
  /\ shifted' = Shift(builder, shifted)
  /\ UNCHANGED <<builder, index, c, table>>

(* Mutant: the outgoing bit of the first register alone decides. *)
TurnOneRegister ==
  /\ index < ROWS
  /\ bit < 8
  /\ crc' = Shift(builder, crc)
  /\ c' = Pushed(c)
  /\ bit' = bit + 1
  /\ shifted' = Shift(builder, shifted)
  /\ UNCHANGED <<builder, index, table>>

(* One turn of `while bit < 8`. *)
Turn ==
  /\ index < ROWS
  /\ bit < 8
  /\ crc' = IF OutgoingBit THEN Pushed(crc) ^^ builder.poly ELSE Pushed(crc)
  /\ c' = Pushed(c)
  /\ bit' = bit + 1
  /\ shifted' = Shift(builder, shifted)
  /\ UNCHANGED <<builder, index, table>>

(* Mutant: the registers are not loaded afresh for the next row. *)
StoreRowNoReload ==
  /\ index < ROWS
  /\ bit = 8
  /\ table' = Append(table, crc)
  /\ index' = index + 1
  /\ bit' = 0
  /\ shifted' = Start(builder, index + 1)
  /\ UNCHANGED <<builder, crc, c>>

(* table[index] = crc, and the registers are loaded for the next row. *)
StoreRow ==
  /\ index < ROWS
  /\ bit = 8
  /\ table' = Append(table, crc)
  /\ index' = index + 1
  /\ bit' = 0
  /\ crc' = StartCrc(builder, index + 1)
  /\ c' = StartC(builder, index + 1)
  /\ shifted' = Start(builder, index + 1)
  /\ UNCHANGED builder

BuildNext == Turn \/ StoreRow

BuildSpec == BuildInit /\ [][BuildNext]_buildVars

-----------------------------------------------------------------------------
(* The SHT7x table, transcribed from libcrc, not computed. *)
SHT75_CRC_TABLE ==
  << 0, 49, 98, 83, 196, 245, 166, 151, 185, 136, 219, 234, 125, 76, 31, 46,
     67, 114, 33, 16, 135, 182, 229, 212, 250, 203, 152, 169, 62, 15, 92, 109,
     134, 183, 228, 213, 66, 115, 32, 17, 63, 14, 93, 108, 251, 202, 153, 168,
     197, 244, 167, 150, 1, 48, 99, 82, 124, 77, 30, 47, 184, 137, 218, 235,
     61, 12, 95, 110, 249, 200, 155, 170, 132, 181, 230, 215, 64, 113, 34, 19,
     126, 79, 28, 45, 186, 139, 216, 233, 199, 246, 165, 148, 3, 50, 97, 80,
     187, 138, 217, 232, 127, 78, 29, 44, 2, 51, 96, 81, 198, 247, 164, 149,
     248, 201, 154, 171, 60, 13, 94, 111, 65, 112, 35, 18, 133, 180, 231, 214,
     122, 75, 24, 41, 190, 143, 220, 237, 195, 242, 161, 144, 7, 54, 101, 84,
     57, 8, 91, 106, 253, 204, 159, 174, 128, 177, 226, 211, 68, 117, 38, 23,
     252, 205, 158, 175, 56, 9, 90, 107, 69, 116, 39, 22, 129, 176, 227, 210,
     191, 142, 221, 236, 123, 74, 25, 40, 6, 55, 100, 85, 194, 243, 160, 145,
     71, 118, 37, 20, 131, 178, 225, 208, 254, 207, 156, 173, 58, 11, 88, 105,
     4, 53, 102, 87, 192, 241, 162, 147, 189, 140, 223, 238, 121, 72, 27, 42,
     193, 240, 163, 146, 5, 52, 103, 86, 120, 73, 26, 43, 188, 141, 222, 239,
     130, 179, 224, 209, 70, 119, 36, 21, 59, 10, 89, 104, 255, 206, 157, 172 >>

(* libcrc's two-register loop (lib.rs:76, :120, :143) and the one-register *)
(* loop of the newer builders are the same loop: at every turn the two    *)
(* registers together are the single one.                                 *)
TwoRegistersAreOne == crc ^^ c = shifted

(* Every row is stored complete: what goes into table[index] is the       *)
(* index byte pushed through eight shifts, nothing of it left behind in c.*)
RowsAreRows ==
  bit = 8 => crc = Row(builder, ByteOf(index))

(* slice8.rs:173-181: the CRC-8 slices are built from POLY_8 while the    *)
(* byte loop reads the transcribed SHT7x table, two descriptions of the   *)
(* same map that must not part.                                           *)
TranscribedIsComputed ==
  builder.width = 8 /\ table # <<>> => Last(table) = ByteOf(SHT75_CRC_TABLE[Len(table)])
=============================================================================
