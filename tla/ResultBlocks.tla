----------------------------- MODULE ResultBlocks -----------------------------
(***************************************************************************)
(* One case of the differential fuzzer, computed twice: the C harness     *)
(* answers it with two blocks of forty bytes, the one-shot functions and  *)
(* the same values rebuilt byte by byte with update_crc_*, and model.rs   *)
(* decodes them and compares them with the port's own two blocks.         *)
(*                                                                         *)
(* The functions of the original library are external: they are taken to  *)
(* be the ones the port reproduces.  The harness may have been built with *)
(* PM_SABOTAGE, the fuzzer's negative control.                            *)
(***************************************************************************)
EXTENDS CrcLibrary

CONSTANTS
  Cases,      (* [is_null, data]                                           *)
  TRIGGER     (* the byte on which a sabotaged harness goes wrong          *)

ASSUME BlocksAssumption ==
  /\ \A case \in Cases : case.is_null \in BOOLEAN /\ case.data \in Seq(Byte)
  /\ TRIGGER \in Byte

VARIABLES
  case,       (* the case                                                  *)
  sabotaged,  (* the harness's build                                       *)
  side,       (* who is computing: "oracle", then "port"                   *)
  phase,      (* "oneshot", "bytes", or "compare" and "done"               *)
  taken,      (* bytes folded by the incremental loop                      *)
  crcs,       (* its twelve running values                                 *)
  prev,       (* and the byte before                                       *)
  wire,       (* the oracle's two blocks, as bytes                         *)
  mine,       (* the port's two blocks                                     *)
  diffs       (* the names of the checks that disagreed                    *)

blocksVars == <<case, sabotaged, side, phase, taken, crcs, prev, wire, mine, diffs>>

-----------------------------------------------------------------------------
Crcs == Algorithms \ {"nmea"}

Width(name) == IF name = "crc_sick" THEN 16 ELSE Parameters[name].width

(* Where each value stands in a block, lowest byte first: the harness's   *)
(* put_* calls and Block::decode agree on it.                             *)
Offset == [
  crc_8 |-> 0, crc_16 |-> 4, crc_ccitt_1d0f |-> 6, crc_ccitt_ffff |-> 8, crc_dnp |-> 10,
  crc_kermit |-> 12, crc_modbus |-> 14, crc_sick |-> 16, crc_xmodem |-> 18,
  crc_32 |-> 20, crc_64_ecma |-> 24, crc_64_we |-> 32 ]

(* The two hex digits of a sum, as their values. *)
HexDigits(sum) == <<Shr(8, sum, 4), sum \cap Bits(4)>>

Nothing == <<{}, {}>>

(* A block: [crc, nmea_ok, nmea_hex]. *)
Block(crc, ok, hex) == [crc |-> crc, nmea_ok |-> ok, nmea_hex |-> hex]

(* memset, put_u8, put_u16, put_u32 and put_u64. *)
Encode(block) ==
  [at \in 0 .. 39 |->
     CASE at = 1 -> IF block.nmea_ok THEN {0} ELSE {}
       [] at = 2 -> block.nmea_hex[1]
       [] at = 3 -> block.nmea_hex[2]
       [] OTHER  -> LET name == CHOOSE n \in Crcs :
                                  at - Offset[n] \in 0 .. (Width(n) \div 8) - 1
                    IN  ByteAt(block.crc[name], 8 * (at - Offset[name]))]

(* Mutant: the 16-bit values are read in the other byte order. *)
DecodeBigEndian(bytes) ==
  Block([n \in Crcs |-> IF Width(n) = 16
                        THEN Shl(16, bytes[Offset[n]], 8) \cup bytes[Offset[n] + 1]
                        ELSE UNION {Shl(Width(n), bytes[Offset[n] + k], 8 * k) :
                                      k \in 0 .. (Width(n) \div 8) - 1}],
        0 \in bytes[1], <<bytes[2], bytes[3]>>)

(* Block::decode. *)
Decode(bytes) ==
  Block([n \in Crcs |-> UNION {Shl(Width(n), bytes[Offset[n] + k], 8 * k) :
                                 k \in 0 .. (Width(n) \div 8) - 1}],
        0 \in bytes[1], <<bytes[2], bytes[3]>>)

(* The one-shot functions of the original, on a pointer that may be NULL. *)
OriginalSums(c) == [n \in Crcs |-> OneShot(n, IF c.is_null THEN <<>> ELSE c.data)]

Triggered(c) == ~c.is_null /\ Contains(c.data, TRIGGER)

(* The C string at the start of the payload. *)
CString(data) == SubSeq(data, 1, SelectInSeq(data \o <<{}>>, LAMBDA b : b = {}) - 1)

(* compute_oneshot.  checksum_NMEA is given the payload as a C string.    *)
OracleOneShot(c) ==
  LET sums == OriginalSums(c)
  IN  Block([sums EXCEPT !["crc_kermit"] =
               IF sabotaged /\ Triggered(c) THEN @ ^^ {0} ELSE @],
            ~c.is_null,
            IF c.is_null THEN Nothing ELSE HexDigits(OneShot("nmea", CString(c.data))))

(* Mutant: the port is given the payload of a NULL case. *)
PortViewWhole(c) == c.data

(* Batch::payload: a NULL case is the empty slice. *)
PortView(c) == IF c.is_null THEN <<>> ELSE c.data

(* port_oneshot. *)
PortOneShot(c) ==
  Block([n \in Crcs |-> OneShot(n, PortView(c))], ~c.is_null,
        IF c.is_null THEN Nothing ELSE HexDigits(OneShot("nmea", PortView(c))))

(* The twelve loops. *)
Starts == [n \in Crcs |-> IF n = "crc_sick" THEN {} ELSE Parameters[n].start]

(* Mutant: the byte before is not carried along. *)
StepWithoutPrev(values, b, before) ==
  [n \in Crcs |-> IF n = "crc_sick" THEN UpdateSick(values[n], b, {})
                  ELSE Update(Parameters[n], values[n], b)]

Step(values, b, before) ==
  [n \in Crcs |-> IF n = "crc_sick" THEN UpdateSick(values[n], b, before)
                  ELSE Update(Parameters[n], values[n], b)]

(* What the caller of update_crc_* has to do itself. *)
Finished(values) ==
  [n \in Crcs |->
     CASE n \in {"crc_kermit", "crc_sick"} -> SwapBytes(values[n])
       [] n = "crc_dnp"                    -> SwapBytes(Bits(16) \ values[n])
       [] n = "crc_32"                     -> values[n] ^^ Bits(32)
       [] n = "crc_64_we"                  -> values[n] ^^ Bits(64)
       [] OTHER                            -> values[n]]

(* diff_oneshot and diff_incremental: of the two digits only if both are  *)
(* there.                                                                 *)
Diff(theirs, ours) ==
  {n \in Crcs : theirs.crc[n] # ours.crc[n]} \cup
  (IF \/ theirs.nmea_ok # ours.nmea_ok
      \/ theirs.nmea_ok /\ theirs.nmea_hex # ours.nmea_hex
   THEN {"nmea"} ELSE {})

-----------------------------------------------------------------------------
BlocksInit ==
  /\ case \in Cases
  /\ sabotaged \in BOOLEAN
  /\ side = "oracle" /\ phase = "oneshot"
  /\ taken = 0 /\ crcs = Starts /\ prev = {}
  /\ wire = <<>> /\ mine = <<>>
  /\ diffs = {}

ToFold == IF side = "oracle" /\ case.is_null THEN <<>>
          ELSE IF side = "port" THEN PortView(case) ELSE case.data

ComputeOneShot ==
  /\ phase = "oneshot"
  /\ IF side = "oracle"
     THEN wire' = <<Encode(OracleOneShot(case))>> /\ UNCHANGED mine
     ELSE mine' = <<PortOneShot(case)>> /\ UNCHANGED wire
  /\ taken' = 0 /\ crcs' = Starts /\ prev' = {}
  /\ phase' = "bytes"
  /\ UNCHANGED <<case, sabotaged, side, diffs>>

(* One turn of the loop of compute_incremental or port_incremental. *)
FoldRunning ==
  /\ phase = "bytes"
  /\ taken < Len(ToFold)
  /\ crcs' = Step(crcs, ToFold[taken + 1], prev)
  /\ prev' = ToFold[taken + 1]
  /\ taken' = taken + 1
  /\ UNCHANGED <<case, sabotaged, side, phase, wire, mine, diffs>>

FinishBlock ==
  /\ phase = "bytes"
  /\ taken = Len(ToFold)
  /\ LET block == Block(Finished(crcs), FALSE, Nothing)
     IN  IF side = "oracle"
         THEN /\ wire' = Append(wire, Encode(block))
              /\ side' = "port" /\ phase' = "oneshot"
              /\ UNCHANGED mine
         ELSE /\ mine' = Append(mine, block)
              /\ phase' = "compare"
              /\ UNCHANGED <<wire, side>>
  /\ UNCHANGED <<case, sabotaged, taken, crcs, prev, diffs>>

(* compare() of main.rs: equal blocks are equal, and only then are the    *)
(* fields looked at one by one.                                           *)
Compare ==
  /\ phase = "compare"
  /\ diffs' = UNION {{<<n, check>> : check \in Diff(Decode(wire[n]), mine[n])} :
                       n \in {k \in 1 .. 2 : Decode(wire[k]) # mine[k]}}
  /\ phase' = "done"
  /\ UNCHANGED <<case, sabotaged, side, taken, crcs, prev, wire, mine>>

BlocksNext == ComputeOneShot \/ FoldRunning \/ FinishBlock \/ Compare

BlocksSpec == BlocksInit /\ [][BlocksNext]_blocksVars

-----------------------------------------------------------------------------
(* Every running value keeps the width of its C type, and the bytes of a  *)
(* block give back the values they were made of.                          *)
BlocksTypeOK ==
  /\ case \in Cases
  /\ phase \in {"oneshot", "bytes", "compare", "done"}
  /\ taken \in 0 .. Len(case.data)
  /\ \A n \in Crcs : crcs[n] \in SUBSET Bits(Width(n))
  /\ phase = "bytes" /\ side = "oracle" => Decode(wire[1]) = OracleOneShot(case)

(* model.rs:129-133: "the half that would catch a finalisation applied in *)
(* the wrong place".  At every byte of both loops, the running values     *)
(* with the caller's finalisation are the one-shot functions' of the      *)
(* bytes so far.                                                          *)
RunningIsOneShot ==
  phase = "bytes" =>
    \A n \in Crcs : Finished(crcs)[n] = OneShot(n, SubSeq(case.data, 1, taken))

(* negative-control.sh:5-11.  A port that is right is never accused,      *)
(* whatever the input and its terminators, and for a NULL pointer too,    *)
(* whose case carries a payload; and a sabotaged oracle is found out on   *)
(* every input with the trigger byte, crc_kermit alone is named, and its  *)
(* incremental twin is not.                                               *)
DiffsAreReal ==
  phase = "done" =>
    diffs = IF sabotaged /\ Triggered(case) THEN {<<1, "crc_kermit">>} ELSE {}
=============================================================================
