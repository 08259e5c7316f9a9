--------------------------- MODULE OracleHarness ---------------------------
(***************************************************************************)
(* oracle_harness.c: a batch of cases is read whole into memory, answered *)
(* case by case and written whole.  For checksum_NMEA, which takes a C    *)
(* string, the harness writes a NUL behind the payload in place, over the *)
(* first byte of the next case's header, and puts that byte back after    *)
(* the case.                                                              *)
(*                                                                         *)
(* Memory is a sequence of cells.  A cell is a byte, except that the four *)
(* bytes of a case's length are one.  What is computed from a case is     *)
(* left open: an answer is what the functions read, the bytes of the      *)
(* payload and the C string at its start.                                 *)
(***************************************************************************)
EXTENDS Integers, SequencesExt

CONSTANT Batches     (* sequences of cases, [is_null, data]                *)

NUL == 0

(* The bytes at which checksum_NMEA stops. *)
StringEnds == {NUL, 10, 13, 42}

Case == [is_null : BOOLEAN, data : Seq(0 .. 255)]

ASSUME HarnessAssumption == Batches \subseteq Seq(Case)

VARIABLES
  batch,         (* the cases that were to be written                      *)
  cells,         (* cells of them that are in the file                     *)
  count,         (* the count in the file's header                         *)
  memory,        (* the cases, and one spare cell                          *)
  pos, turn,     (* the locals of main(); turn is its i                    *)
  flags, payload, saved,
  answered,      (* the records in the results buffer                      *)
  pc,            (* "start", "head", "compute", "write", "close" or "exit" *)
  results,       (* the results file                                       *)
  exit

file  == <<batch, cells, count>>
loop  == <<pos, turn, flags, payload, saved, answered>>
harnessVars ==
  <<batch, cells, count, memory, pos, turn, flags, payload, saved, answered, pc, results, exit>>

Running == -1
Old     == [old |-> TRUE]

-----------------------------------------------------------------------------
(* BatchWriter of the fuzzer: flags, length and payload of each case, and *)
(* the count, which finish() patches into the header.                     *)
Record(case) == <<IF case.is_null THEN 1 ELSE 0, Len(case.data)>> \o case.data

WithCase(blob, case) == blob \o Record(case)

Encoded(cases) == FoldLeft(WithCase, <<>>, cases)

(* Mutant: finish() leaves the count that begin() wrote. *)
CountUnpatched(cases) == 0

Count(cases) == Len(cases)

HEADER == 2      \* cells of a case's header; five bytes in the file

(* The C string at cell p of m. *)
StringAt(m, p) ==
  LET rest == SubSeq(m, p, Len(m))
  IN  SubSeq(rest, 1, SelectInSeq(rest, LAMBDA b : b \in StringEnds) - 1)

(* compute_oneshot and compute_incremental. *)
Answer(isNull, bytes, string) ==
  IF isNull THEN [null |-> TRUE] ELSE [null |-> FALSE, bytes |-> bytes, string |-> string]

-----------------------------------------------------------------------------
(* Whoever wrote the file may have been cut off. *)
HarnessInit ==
  /\ batch \in Batches
  /\ cells \in 0 .. Len(Encoded(batch))
  /\ count = Count(batch)
  /\ memory = <<>>
  /\ pos = 1 /\ turn = 0
  /\ flags = 0 /\ payload = 1 /\ saved = NUL
  /\ answered = <<>>
  /\ pc = "start"
  /\ results = Old
  /\ exit = Running

Fail(codes) ==
  /\ exit' \in codes
  /\ pc' = "exit"

(* read_whole_file, and the checks of magic and version.  The spare cell  *)
(* is a NUL.                                                              *)
ReadFile ==
  /\ pc = "start"
  /\ memory' = SubSeq(Encoded(batch), 1, cells) \o <<NUL>>
  /\ pc' = "head"
  /\ UNCHANGED <<file, loop, results, exit>>

(* A usage error, a file that cannot be read, a header that is not one,   *)
(* no memory.                                                             *)
CannotStart ==
  /\ pc = "start"
  /\ Fail(2 .. 5)
  /\ UNCHANGED <<file, memory, loop, results>>

Whole(p) ==
  /\ p + HEADER <= cells + 1
  /\ p + HEADER + memory[p + 1] <= cells + 1

(* The header of a case, and the NUL behind its payload. *)
ReadCase ==
  /\ pc = "head"
  /\ turn < count
  /\ Whole(pos)
  /\ flags' = memory[pos]
  /\ payload' = pos + HEADER
  /\ pos' = payload' + memory[pos + 1]
  /\ saved' = memory[pos']
  /\ memory' = [memory EXCEPT ![pos'] = NUL]
  /\ pc' = "compute"
  /\ UNCHANGED <<file, turn, answered, results, exit>>

Truncated ==
  /\ pc = "head"
  /\ turn < count
  /\ ~Whole(pos)
  /\ Fail({6})
  /\ UNCHANGED <<file, memory, loop, results>>

ComputeCase ==
  /\ pc = "compute"
  /\ answered' = Append(answered,
       Answer(flags = 1, SubSeq(memory, payload, pos - 1), StringAt(memory, payload)))
  /\ memory' = [memory EXCEPT ![pos] = saved]
  /\ turn' = turn + 1
  /\ pc' = "head"
  /\ UNCHANGED <<file, pos, flags, payload, saved, results, exit>>

AllAnswered ==
  /\ pc = "head"
  /\ turn = count
  /\ pc' = "write"
  /\ UNCHANGED <<file, memory, loop, results, exit>>

(* fopen(.., "wb") empties the results file, ... *)
OpenResults ==
  /\ pc = "write"
  /\ \/ /\ results' = [of |-> answered, whole |-> FALSE]
        /\ pc' = "close"
        /\ UNCHANGED exit
     \/ Fail({7}) /\ UNCHANGED results
  /\ UNCHANGED <<file, memory, loop>>

(* ... and the records go in with one fwrite.  What an fwrite leaves in   *)
(* the buffer is written by fclose, whose result nobody looks at.         *)
WriteResults ==
  /\ pc = "close"
  /\ \/ results' = [results EXCEPT !.whole = TRUE] /\ Fail({0})
     \/ UNCHANGED results /\ Fail({0, 7})
  /\ UNCHANGED <<file, memory, loop>>

HarnessNext ==
  \/ ReadFile \/ CannotStart
  \/ ReadCase \/ Truncated \/ ComputeCase \/ AllAnswered
  \/ OpenResults \/ WriteResults

HarnessSpec == HarnessInit /\ [][HarnessNext]_harnessVars

-----------------------------------------------------------------------------
HarnessTypeOK ==
  /\ batch \in Batches
  /\ cells \in 0 .. Len(Encoded(batch))
  /\ pos \in 1 .. cells + 1
  /\ payload \in 1 .. cells + 1
  /\ turn \in 0 .. count
  /\ flags \in {0, 1}
  /\ saved \in 0 .. 255
  /\ pc \in {"start", "head", "compute", "write", "close", "exit"}
  /\ exit \in {Running, 0} \cup 2 .. 7

(* What case n calls for, said of the batch. *)
Right(case) == Answer(case.is_null, case.data, StringAt(case.data \o <<NUL>>, 1))

(* One run, seen from outside, is a step of OracleRun: all answers, none, *)
(* or a write cut short.  The answers are those of the batch: the payload *)
(* is terminated in place, in a byte of the next record's header (comment *)
(* at oracle_harness.c:378-382), and yet no string runs on into the next  *)
(* record and no record is read with a NUL left over in it.               *)
Run == INSTANCE OracleRun WITH
  asked   <- cells = Len(Encoded(batch)),
  answers <- [n \in DOMAIN batch |-> Right(batch[n])]
IsOneRun == Run!Spec
=============================================================================
