-------------------------------- MODULE CAbi --------------------------------
(***************************************************************************)
(* The C ABI of the port: the twelve exports that take a pointer and a    *)
(* length, and checksum_NMEA, which takes a sentence of unknown length    *)
(* and has to find its end.  A behaviour is one call.                     *)
(*                                                                         *)
(* A pointer is NULL or the memory from it on, as far as the caller owns  *)
(* it.  `touched` is a history: the offsets that have been read.          *)
(***************************************************************************)
EXTENDS CrcLibrary

CONSTANTS
  Buffers,     (* memory a caller may point at; for checksum_NMEA it has   *)
               (* a terminator somewhere                                   *)
  Exports      (* names of the functions called                            *)

NULL == [null |-> TRUE]
Pointer(bytes) == [null |-> FALSE, to |-> bytes]
Value(v)       == [null |-> FALSE, sum |-> v]

HasTerminator(bytes) == \E k \in DOMAIN bytes : bytes[k] \in Terminators

ASSUME CAbiAssumption ==
  /\ Buffers \subseteq Seq(Byte)
  /\ Exports \subseteq Algorithms

VARIABLES
  export,               (* the function called                             *)
  input_str, num_bytes, (* its arguments                                   *)
  has_result,           (* is checksum_NMEA's other argument a pointer?    *)
  scanned,              (* the scan's local, len                           *)
  touched,              (* history                                         *)
  doing,                (* "call", "scan", "sentence" or "returned"        *)
  value                 (* what the call returned                          *)

callArgs == <<export, input_str, num_bytes, has_result>>
callVars == <<export, input_str, num_bytes, has_result, scanned, touched, doing, value>>

-----------------------------------------------------------------------------
CallInit ==
  /\ export \in Exports
  /\ input_str \in {NULL} \cup
       {Pointer(b) : b \in {c \in Buffers : export = "nmea" => HasTerminator(c)}}
  /\ num_bytes \in IF export = "nmea" THEN {0}
                   ELSE IF input_str.null THEN {0, 2}
                   ELSE 0 .. Len(input_str.to)
  /\ has_result \in IF export = "nmea" THEN BOOLEAN ELSE {FALSE}
  /\ scanned = 0
  /\ touched = {}
  /\ doing = "call"
  /\ value = NULL

(* as_slice. *)
AsSlice(p, n) == IF p.null THEN <<>> ELSE SubSeq(p.to, 1, n)

(* c_export!: crc_8, crc_16, ..., crc_64_we. *)
CallCrc ==
  /\ doing = "call"
  /\ export # "nmea"
  /\ value' = Value(OneShot(export, AsSlice(input_str, num_bytes)))
  /\ touched' = 1 .. Len(AsSlice(input_str, num_bytes))
  /\ doing' = "returned"
  /\ UNCHANGED <<callArgs, scanned>>

(* checksum_NMEA returns NULL for a NULL argument, ... *)
CallNmeaNull ==
  /\ doing = "call"
  /\ export = "nmea"
  /\ input_str.null \/ ~has_result
  /\ doing' = "returned"
  /\ UNCHANGED <<callArgs, scanned, touched, value>>

CallNmea ==
  /\ doing = "call"
  /\ export = "nmea"
  /\ ~input_str.null /\ has_result
  /\ doing' = "scan"
  /\ UNCHANGED <<callArgs, scanned, touched, value>>

(* Mutant: only a NUL ends the scan. *)
StopsAtNulOnly == {{}}

(* NUL, '*', CR and LF end the scan. *)
Stops == Terminators

(* One byte of the scan. *)
ScanByte ==
  /\ doing = "scan"
  /\ scanned + 1 \in DOMAIN input_str.to
  /\ input_str.to[scanned + 1] \notin Stops
  /\ touched' = touched \cup {scanned + 1}
  /\ scanned' = scanned + 1
  /\ UNCHANGED <<callArgs, doing, value>>

(* (The bound is the model's: memory that is not the caller's is not      *)
(* looked at for another byte.)                                           *)
ScanStop ==
  /\ doing = "scan"
  /\ scanned + 1 \in DOMAIN input_str.to => input_str.to[scanned + 1] \in Stops
  /\ touched' = touched \cup {scanned + 1}
  /\ doing' = "sentence"
  /\ UNCHANGED <<callArgs, scanned, value>>

(* The slice of len bytes, the port's checksum of it, and its two hex     *)
(* digits, which say the byte.                                            *)
ReturnNmea ==
  /\ doing = "sentence"
  /\ value' = Value(OneShot("nmea", SubSeq(input_str.to, 1, scanned)))
  /\ doing' = "returned"
  /\ UNCHANGED <<callArgs, scanned, touched>>

CallNext ==
  \/ CallCrc \/ CallNmeaNull \/ CallNmea
  \/ ScanByte \/ ScanStop \/ ReturnNmea

CallSpec == CallInit /\ [][CallNext]_callVars

-----------------------------------------------------------------------------
(* The original's checksum_NMEA, as the shim's comments describe it: a    *)
(* leading '$' is read and skipped, and bytes are read and xored up to    *)
(* the first terminator, which is read too.                               *)
OriginalStop(bytes) ==
  CHOOSE k \in DOMAIN bytes :
    /\ bytes[k] \in Terminators
    /\ \A j \in 1 .. k - 1 : bytes[j] \notin Terminators

OriginalReads(bytes) == 1 .. OriginalStop(bytes)

OriginalSum(bytes) ==
  LET first == IF bytes[1] = DOLLAR THEN 2 ELSE 1
  IN  {bit \in Bits(8) :
         Cardinality({k \in first .. OriginalStop(bytes) - 1 : bit \in bytes[k]}) % 2 = 1}

CallTypeOK ==
  /\ export \in Exports
  /\ scanned \in Nat
  /\ ~input_str.null => touched \subseteq DOMAIN input_str.to
  /\ doing \in {"call", "scan", "sentence", "returned"}

(* lib.rs:157-159: the shim "reads exactly the bytes src/nmea-chk.c reads *)
(* and not one more", at no moment of the scan and for no argument; and   *)
(* a function that is given a length reads no further.                    *)
ReadsWhatOriginalReads ==
  /\ input_str.null \/ (export = "nmea" /\ ~has_result) => touched = {}
  /\ export = "nmea" /\ ~input_str.null => touched \subseteq OriginalReads(input_str.to)
  /\ export = "nmea" /\ doing = "returned" /\ value # NULL =>
       touched = OriginalReads(input_str.to)
  /\ export # "nmea" => touched \subseteq 1 .. num_bytes

(* lib.rs:16-21: a NULL pointer is an empty input to the twelve, and      *)
(* checksum_NMEA returns NULL for it; a pointer is what it points at,     *)
(* whatever stands behind the end that the call was told or found.        *)
AnswersAsOriginal ==
  doing = "returned" =>
    IF export = "nmea"
    THEN value = IF input_str.null \/ ~has_result THEN NULL
                 ELSE Value(OriginalSum(input_str.to))
    ELSE value = Value(OneShot(export, IF input_str.null THEN <<>>
                                     ELSE SubSeq(input_str.to, 1, num_bytes)))

(* The two together: a call of the C ABI reads the bytes that the         *)
(* original reads and no other, at no moment, and returns what the        *)
(* original returns, for NULL too.                                        *)
AsTheOriginal == ReadsWhatOriginalReads /\ AnswersAsOriginal
=============================================================================
