--------------------------- MODULE ChecksumStream ---------------------------
(***************************************************************************)
(* hash::stream of the crc command: one input is read in chunks through a *)
(* fixed buffer and every requested algorithm is folded in the same pass. *)
(* The reader decides how the input is cut up: a read may return any      *)
(* number of bytes up to the buffer's size, may be interrupted by a       *)
(* signal, and may fail.  A behaviour is one call.                        *)
(*                                                                         *)
(* The streaming states of algo.rs are not the library's one-shot         *)
(* functions: they carry the register, the previous byte (SICK) or two    *)
(* flags (NMEA) from chunk to chunk, and have their own finalisation.     *)
(***************************************************************************)
EXTENDS CrcLibrary

CONSTANTS
  Inputs,      (* byte strings an input may hold                           *)
  CHUNK,       (* size of the read buffer                                  *)
  Algos        (* the names of the requested algorithms, in order          *)

ASSUME StreamAssumption ==
  /\ Inputs \subseteq Seq(Byte)
  /\ CHUNK \in Nat \ {0}
  /\ Algos \in Seq(Algorithms)

VARIABLES
  input,       (* what the reader will deliver in all                      *)
  offset,      (* bytes it has delivered                                   *)
  digests,     (* one streaming state per requested algorithm              *)
  outcome,     (* "reading", "done" or "failed"                            *)
  sums         (* the checksums returned, in the order of Algos            *)

vars == <<input, offset, digests, outcome, sums>>

-----------------------------------------------------------------------------
(* Algo::digest, Digest::update and Digest::finish. *)

Fresh(a) ==
  CASE a = "crc_sick" -> [crc |-> {}, prev |-> {}]
    [] a = "nmea"     -> [checksum |-> {}, started |-> FALSE, done |-> FALSE]
    [] OTHER          -> [crc |-> Parameters[a].start]

SickUpdate(d, data) ==
  FoldLeft(LAMBDA s, b : [crc |-> UpdateSick(s.crc, b, s.prev), prev |-> b], d, data)

(* Nmea::update: only the first byte of the whole input can be the '$',   *)
(* and nothing counts after a terminator.                                 *)
NmeaByte(d, b) ==
  IF d.done THEN d
  ELSE IF b \in Terminators THEN [d EXCEPT !.done = TRUE]
  ELSE [d EXCEPT !.checksum = @ ^^ b]

(* Mutant: the leading '$' is looked for in every chunk. *)
NmeaUpdateEveryChunk(d, data) ==
  IF d.done THEN d
  ELSE FoldLeft(NmeaByte, [d EXCEPT !.started = TRUE], StripDollar(data))

NmeaUpdate(d, data) ==
  IF d.done \/ data = <<>> THEN d
  ELSE LET rest == IF d.started THEN data ELSE StripDollar(data)
       IN  FoldLeft(NmeaByte, [d EXCEPT !.started = TRUE], rest)

UpdateDigest(a, d, data) ==
  CASE a = "crc_sick" -> SickUpdate(d, data)
    [] a = "nmea"     -> NmeaUpdate(d, data)
    [] OTHER          -> [d EXCEPT !.crc = ByteFold(Parameters[a], @, data)]

Finish(a, d) ==
  CASE a = "crc_sick" -> SwapBytes(d.crc)
    [] a = "nmea"     -> d.checksum
    [] OTHER          -> Finalise(Parameters[a], d.crc)

-----------------------------------------------------------------------------
Init ==
  /\ input \in Inputs
  /\ offset = 0
  /\ digests = [n \in DOMAIN Algos |-> Fresh(Algos[n])]
  /\ outcome = "reading"
  /\ sums = <<>>

(* Ok(read): the chunk goes to every digest before the next read. *)
ReadChunk ==
  /\ outcome = "reading"
  /\ \E read \in 1 .. Min({CHUNK, Len(input) - offset}) :
       LET chunk == SubSeq(input, offset + 1, offset + read)
       IN  /\ digests' = [n \in DOMAIN Algos |-> UpdateDigest(Algos[n], digests[n], chunk)]
           /\ offset' = offset + read
  /\ UNCHANGED <<input, outcome, sums>>

(* Err(Interrupted): the read is retried. *)
Interrupted ==
  /\ outcome = "reading"
  /\ UNCHANGED vars

(* Mutant: a read that does not fill the buffer is taken for the last. *)
EndOfInputShortRead ==
  /\ outcome = "reading"
  /\ offset = Len(input) \/ offset % CHUNK # 0
  /\ sums' = [n \in DOMAIN Algos |-> Finish(Algos[n], digests[n])]
  /\ outcome' = "done"
  /\ UNCHANGED <<input, offset, digests>>

(* Ok(0): the end of the input. *)
EndOfInput ==
  /\ outcome = "reading"
  /\ offset = Len(input)
  /\ sums' = [n \in DOMAIN Algos |-> Finish(Algos[n], digests[n])]
  /\ outcome' = "done"
  /\ UNCHANGED <<input, offset, digests>>

(* Any other error: the call fails and what was folded is dropped. *)
ReadError ==
  /\ outcome = "reading"
  /\ outcome' = "failed"
  /\ UNCHANGED <<input, offset, digests, sums>>

Next == ReadChunk \/ Interrupted \/ EndOfInput \/ ReadError

Spec == Init /\ [][Next]_vars

-----------------------------------------------------------------------------
(* algo.rs: "Feed it any number of chunks of any size; the result is      *)
(* identical to hashing the concatenation in one call."  At every moment  *)
(* and for every algorithm, finishing now would give the one-shot         *)
(* checksum of the bytes delivered so far, however they were cut up.      *)
AnyChunking ==
  \A n \in DOMAIN Algos :
    Finish(Algos[n], digests[n]) = OneShot(Algos[n], SubSeq(input, 1, offset))

(* The call is a one-shot hash of the whole input, or fails: the chunks   *)
(* and the retries are invisible.                                         *)
Call == INSTANCE OneShotHash
CallIsOneShot == Call!Spec
=============================================================================
