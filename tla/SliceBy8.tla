------------------------------ MODULE SliceBy8 ------------------------------
(***************************************************************************)
(* The slice-by-8 accelerator of libcrc-rs and the tail loop its callers  *)
(* finish with: fold_8, fold_16, fold_kermit, fold_dnp, fold_ccitt and    *)
(* fold_32 dispatch on the length, the run_* loops take whole blocks of   *)
(* eight bytes through eight tables, and the one-shot function folds what *)
(* they hand back one byte at a time.  A behaviour is one call.           *)
(*                                                                         *)
(* byteCrc is a history variable: the register of libcrc's own loop,      *)
(* stepped over the same bytes one at a time.  The accelerator is correct *)
(* when nobody can tell the two registers apart.                          *)
(***************************************************************************)
EXTENDS ByteCrc, SequencesExt

CONSTANTS
  Kernels,     (* kernels that have an accelerated loop                    *)
  Seeds,       (* Seeds[k]: the registers a call may start from            *)
  Messages,    (* byte strings                                             *)
  MinLen       (* MinLen[k]: below this length the byte loop is used       *)

STRIDE == 8

ASSUME SliceAssumption ==
  /\ \A k \in Kernels : /\ IsKernel(k)
                        /\ Seeds[k] \subseteq Register(k.width)
                        /\ MinLen[k] \in Nat
  /\ Messages \subseteq Seq(Byte)

VARIABLES
  kernel,            (* the algorithm called                               *)
  seed, message,     (* the arguments of the call                          *)
  accelerated,       (* is the cargo feature slice8 on?                    *)
  loop,              (* "dispatch", "blocks", "tail" or "done"             *)
  folded,            (* bytes folded so far                                *)
  sliceCrc,          (* the register                                       *)
  byteCrc            (* history: the same prefix folded byte by byte       *)

sliceCall == <<kernel, seed, message, accelerated>>
sliceVars == <<kernel, seed, message, accelerated, loop, folded, sliceCrc, byteCrc>>

-----------------------------------------------------------------------------
(* The tables.  T0 is the table of the byte loop; the derived slices      *)
(* advance each of its rows by one more zero byte.                        *)

ByteShift(k, v) == Rest8(k, v) ^^ Row(k, Head8(k, v))

T0(k, i) == Row(k, i)
T1(k, i) == ByteShift(k, T0(k, i))
T2(k, i) == ByteShift(k, T1(k, i))
T3(k, i) == ByteShift(k, T2(k, i))
T4(k, i) == ByteShift(k, T3(k, i))
T5(k, i) == ByteShift(k, T4(k, i))
T6(k, i) == ByteShift(k, T5(k, i))
T7(k, i) == ByteShift(k, T6(k, i))

(* Mutant: high byte first for every kernel. *)
StateByteHighFirst(k, r, j) == ByteAt(r, k.width - 8 * (j + 1))

(* The j-th byte of the register in the order the loop consumes it: low   *)
(* byte first when reflected, high byte first otherwise.                  *)
StateByte(k, r, j) ==
  IF k.reflected THEN ByteAt(r, 8 * j) ELSE ByteAt(r, k.width - 8 * (j + 1))

(* The table index of block byte j: the bytes of the register are xored   *)
(* into the first W/8 bytes of the block, the others are used as they are.*)
Index(k, r, b, j) ==
  IF j < k.width \div 8 THEN StateByte(k, r, j) ^^ b[j + 1] ELSE b[j + 1]

EightAtOnce(k, r, b) ==
  ((((((( T7(k, Index(k, r, b, 0))
       ^^ T6(k, Index(k, r, b, 1)))
       ^^ T5(k, Index(k, r, b, 2)))
       ^^ T4(k, Index(k, r, b, 3)))
       ^^ T3(k, Index(k, r, b, 4)))
       ^^ T2(k, Index(k, r, b, 5)))
       ^^ T1(k, Index(k, r, b, 6)))
       ^^ T0(k, Index(k, r, b, 7)))

(* What the byte loop does with the same eight bytes. *)
EightUpdates(k, r, b) ==
  Update(k, Update(k, Update(k, Update(k, Update(k, Update(k, Update(k, Update(k,
    r, b[1]), b[2]), b[3]), b[4]), b[5]), b[6]), b[7]), b[8])

-----------------------------------------------------------------------------
SliceInit ==
  /\ kernel \in Kernels
  /\ seed \in Seeds[kernel]
  /\ message \in Messages
  /\ accelerated \in BOOLEAN
  /\ loop = "dispatch"
  /\ folded = 0
  /\ sliceCrc = seed
  /\ byteCrc = seed

(* fold_*: too short, or built without the feature: nothing is folded. *)
DispatchToTail ==
  /\ loop = "dispatch"
  /\ ~accelerated \/ Len(message) < MinLen[kernel]
  /\ loop' = "tail"
  /\ UNCHANGED <<sliceCall, folded, sliceCrc, byteCrc>>

DispatchToBlocks ==
  /\ loop = "dispatch"
  /\ accelerated
  /\ Len(message) >= MinLen[kernel]
  /\ loop' = "blocks"
  /\ UNCHANGED <<sliceCall, folded, sliceCrc, byteCrc>>

(* One iteration of a run_* loop: split_first_chunk yields eight bytes. *)
FoldBlock ==
  /\ loop = "blocks"
  /\ Len(message) - folded >= STRIDE
  /\ LET b == [j \in 1 .. STRIDE |-> message[folded + j]]
     IN  /\ sliceCrc' = EightAtOnce(kernel, sliceCrc, b)
         /\ byteCrc' = EightUpdates(kernel, byteCrc, b)
  /\ folded' = folded + STRIDE
  /\ UNCHANGED <<sliceCall, loop>>

(* Mutant: what split_first_chunk left over is not handed back. *)
BlocksDoneTailDropped ==
  /\ loop = "blocks"
  /\ Len(message) - folded < STRIDE
  /\ loop' = "done"
  /\ UNCHANGED <<sliceCall, folded, sliceCrc, byteCrc>>

BlocksDone ==
  /\ loop = "blocks"
  /\ Len(message) - folded < STRIDE
  /\ loop' = "tail"
  /\ UNCHANGED <<sliceCall, folded, sliceCrc, byteCrc>>

(* The caller's fold over the tail. *)
FoldTailByte ==
  /\ loop = "tail"
  /\ folded < Len(message)
  /\ sliceCrc' = Update(kernel, sliceCrc, message[folded + 1])
  /\ byteCrc' = Update(kernel, byteCrc, message[folded + 1])
  /\ folded' = folded + 1
  /\ UNCHANGED <<sliceCall, loop>>

Return ==
  /\ loop = "tail"
  /\ folded = Len(message)
  /\ loop' = "done"
  /\ UNCHANGED <<sliceCall, folded, sliceCrc, byteCrc>>

SliceNext ==
  \/ DispatchToTail \/ DispatchToBlocks
  \/ FoldBlock \/ BlocksDone
  \/ FoldTailByte \/ Return

SliceSpec == SliceInit /\ [][SliceNext]_sliceVars

-----------------------------------------------------------------------------
(* Proved in LibraryProofs; the invariants below lean on it.  *)
SliceTypeOK ==
  /\ kernel \in Kernels
  /\ seed \in Seeds[kernel]
  /\ message \in Messages
  /\ accelerated \in BOOLEAN
  /\ loop \in {"dispatch", "blocks", "tail", "done"}
  /\ folded \in 0 .. Len(message)
  /\ sliceCrc \in Register(kernel.width)
  /\ byteCrc \in Register(kernel.width)

(* slice8.rs: "Bulk inputs are folded eight bytes at a time", and no      *)
(* caller can tell: after every block and every tail byte the register is *)
(* the one libcrc's byte-at-a-time loop has after the same bytes.         *)
SlicedIsByteLoop == sliceCrc = byteCrc

(* lib.rs: the one-shot functions return "exactly" what libcrc's loop     *)
(* over the whole buffer returns: no byte is skipped or folded twice      *)
(* where the dispatch, the blocks and the tail hand over to one another.  *)
ReturnsByteFold ==
  loop = "done" =>
    sliceCrc = FoldLeft(LAMBDA r, b : Update(kernel, r, b), seed, message)
=============================================================================
