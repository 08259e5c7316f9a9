------------------------------- MODULE Bench --------------------------------
(***************************************************************************)
(* run_all of bench_rs, and of bench_c, which mirrors it: a table of      *)
(* workloads is timed one after the other over one buffer, in batches of  *)
(* k calls, where k is whatever fills the clock.  The calls write to the  *)
(* buffer they are given: a digit over its first byte, and for            *)
(* checksum_NMEA a NUL where the sentence is to end.  A behaviour runs    *)
(* the two drivers, one after the other; they share nothing.              *)
(***************************************************************************)
EXTENDS Integers, SequencesExt

CONSTANTS
  Generated,          (* what xorshift64 gives for each byte of the buffer *)
  SMALL_SIZES, LARGE_SIZES, BYTEWISE_BYTES,
  MS_REGION,          (* MS_SLOTS slots, which the small calls go through  *)
  NMEA_MAX, MAX_K,
  FILLS_CLOCK,        (* bytes that no machine reads in TARGET_BATCH_NS    *)
  Samples             (* bound: timed batches of each workload             *)

NUL  == 0
STAR == 42
PLUS == 43
Endings == {NUL, 10, 13, STAR}
Digit(i)    == 48 + (i % 10)

ASSUME BenchAssumption ==
  /\ Generated \in Seq(33 .. 125) /\ NMEA_MAX \in 1 .. Len(Generated)
  /\ SMALL_SIZES \in Seq(1 .. NMEA_MAX - 1)
  /\ LARGE_SIZES \in Seq(1 .. Len(Generated)) /\ LARGE_SIZES # <<>>
  /\ FILLS_CLOCK \in Nat /\ Last(LARGE_SIZES) >= FILLS_CLOCK
  /\ {BYTEWISE_BYTES, MS_REGION} \subseteq 1 .. Len(Generated)
  /\ MAX_K \in Nat \ {0} /\ Samples \in Nat

VARIABLES
  driver,       (* the one that runs: 1 or 2, and 3 when both are done     *)
  workload,     (* index in the table                                      *)
  stage,        (* "calibrate", "warm-up" or "sample"                      *)
  calls,        (* k: calls of a batch                                     *)
  done,         (* batches of this stage                                   *)
  buf, nmea,    (* the two buffers                                         *)
  inputs        (* history: per driver and workload, what the first call   *)
                (* of each timed batch was given                           *)

benchVars == <<driver, workload, stage, calls, done, buf, nmea, inputs>>

-----------------------------------------------------------------------------
WARM_UPS == 3

(* The bytes of the buffer, without the one that would end a sentence. *)
Fill(raw) == [p \in DOMAIN raw |-> IF raw[p] = STAR THEN PLUS ELSE raw[p]]

SentenceBuffer(bytes) == Append(SubSeq(bytes, 1, NMEA_MAX - 1), NUL)

Load(kind, n) == [kind |-> kind, bytes |-> n]

(* build_workloads; the algorithms of one kind and size are one here.     *)
SmallLoads ==
  [j \in 1 .. 2 * Len(SMALL_SIZES) |->
     Load(IF j % 2 = 1 THEN "oneshot" ELSE "nmea", SMALL_SIZES[(j + 1) \div 2])]
LargeLoads == [j \in 1 .. Len(LARGE_SIZES) |-> Load("oneshot", LARGE_SIZES[j])]
OtherLoads == <<Load("bytewise", BYTEWISE_BYTES), Load("manysmall", MS_REGION)>>

(* Mutant: the large buffers come last. *)
WorkloadsLargeLast == SmallLoads \o OtherLoads \o LargeLoads

Workloads == SmallLoads \o LargeLoads \o OtherLoads

Wl == Workloads[workload]

(* checksum_nmea stops at the first terminator. *)
Scanned(bytes) ==
  SubSeq(bytes, 1, SelectInSeq(bytes, LAMBDA b : b \in Endings) - 1)

(* What call i of a batch is given. *)
InputOf(i) ==
  CASE Wl.kind = "oneshot" -> [SubSeq(buf, 1, Wl.bytes) EXCEPT ![1] = Digit(i)]
    [] Wl.kind = "nmea" -> Scanned([nmea EXCEPT ![Wl.bytes + 1] = NUL, ![1] = Digit(i)])
    [] OTHER -> SubSeq(buf, 1, Wl.bytes)

(* What the k calls of a batch leave behind in the buffers: the digit of  *)
(* the last call.  The byte that a NUL was written over is restored.      *)
Batch ==
  /\ buf'  = IF Wl.kind = "oneshot" THEN [buf EXCEPT ![1] = Digit(calls - 1)] ELSE buf
  /\ nmea' = IF Wl.kind = "nmea" THEN [nmea EXCEPT ![1] = Digit(calls - 1)] ELSE nmea

-----------------------------------------------------------------------------
StartDriver(d) ==
  /\ driver = d
  /\ workload = 1 /\ stage = "calibrate" /\ calls = 1 /\ done = 0
  /\ buf = Fill(Generated)
  /\ nmea = SentenceBuffer(buf)

BenchInit == StartDriver(1) /\ inputs = <<[w \in DOMAIN Workloads |-> {}], [w \in DOMAIN Workloads |-> {}]>>

Timing == driver \in 1 .. 2 /\ workload \in DOMAIN Workloads

(* The batch was too short for the clock.  One call on the largest buffer *)
(* is not: it would have to read 500 GB a second.                         *)
Double ==
  /\ Timing /\ stage = "calibrate"
  /\ calls < MAX_K /\ Wl.bytes < FILLS_CLOCK
  /\ Batch
  /\ calls' = 2 * calls
  /\ UNCHANGED <<driver, workload, stage, done, inputs>>

Calibrated ==
  /\ Timing /\ stage = "calibrate"
  /\ Batch
  /\ stage' = "warm-up"
  /\ UNCHANGED <<driver, workload, calls, done, inputs>>

WarmUp ==
  /\ Timing /\ stage = "warm-up"
  /\ Batch
  /\ IF done + 1 < WARM_UPS THEN done' = done + 1 /\ UNCHANGED stage
                            ELSE done' = 0 /\ stage' = "sample"
  /\ UNCHANGED <<driver, workload, calls, inputs>>

Sample ==
  /\ Timing /\ stage = "sample" /\ done < Samples
  /\ Batch
  /\ inputs' = [inputs EXCEPT ![driver][workload] = @ \cup {InputOf(0)}]
  /\ done' = done + 1
  /\ UNCHANGED <<driver, workload, stage, calls>>

WorkloadDone ==
  /\ Timing /\ stage = "sample" /\ done = Samples
  /\ workload' = workload + 1
  /\ stage' = "calibrate" /\ calls' = 1 /\ done' = 0
  /\ UNCHANGED <<driver, buf, nmea, inputs>>

(* The other driver starts: a process of its own. *)
DriverDone ==
  /\ driver \in 1 .. 2 /\ workload > Len(Workloads)
  /\ driver' = driver + 1
  /\ workload' = 1 /\ stage' = "calibrate" /\ calls' = 1 /\ done' = 0
  /\ buf' = Fill(Generated)
  /\ nmea' = SentenceBuffer(buf')
  /\ UNCHANGED inputs

BenchNext == Double \/ Calibrated \/ WarmUp \/ Sample \/ WorkloadDone \/ DriverDone

BenchSpec == BenchInit /\ [][BenchNext]_benchVars

-----------------------------------------------------------------------------
(* It has no odd divisor. *)
PowerOfTwo(k) == \A d \in 3 .. k : d % 2 = 1 => k % d # 0

(* The buffers keep their sizes, and a batch is a power of two.           *)
BenchTypeOK ==
  /\ driver \in 1 .. 3 /\ workload \in 1 .. Len(inputs[1]) + 1
  /\ stage \in {"calibrate", "warm-up", "sample"}
  /\ calls \in 1 .. 2 * MAX_K /\ PowerOfTwo(calls)
  /\ done \in 0 .. Samples + WARM_UPS
  /\ DOMAIN buf = DOMAIN Generated /\ DOMAIN nmea = 1 .. NMEA_MAX

(* main.rs:283-285: "so both sides see the same bytes".  What a workload  *)
(* is timed on depends neither on the driver, nor on the batch sizes that *)
(* the clock chose for it and for the workloads before it, which write to *)
(* the same buffer; and a sentence is as long as the size that is         *)
(* reported.                                                              *)
SameBytes ==
  \A w \in DOMAIN inputs[1] :
    LET seen == inputs[1][w] \cup inputs[2][w]
    IN  /\ Cardinality(seen) <= 1
        /\ \A bytes \in seen : Len(bytes) = Workloads[w].bytes
=============================================================================
