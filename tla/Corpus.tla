-------------------------------- MODULE Corpus --------------------------------
(***************************************************************************)
(* cases.rs: the fixed corpus, the first cases of every run under every   *)
(* seed.  Its order is part of what a case's index means, so it is built  *)
(* in the order of the code; lengths, the byte values that get a case     *)
(* each and the NMEA sentences are parameters.                            *)
(***************************************************************************)
EXTENDS Integers, SequencesExt

CONSTANTS
  ByteValues,     (* the byte values, in ascending order: 0 to 255         *)
  BOUNDARY_LENS,  (* lengths beside a table or word boundary               *)
  MAGNITUDES,     (* lengths of the all-zero and all-FF buffers            *)
  UNIFORM,        (* the length of the buffers of one byte value: 17       *)
  K64, LONGEST,   (* 65,536 and 262,144                                    *)
  NullLengths,    (* of the cases passed as NULL: 0, 1, 16 and 1,024        *)
  Bodies          (* NMEA sentences, without '$' and terminator            *)

CorpusAssumption ==
  /\ ByteValues \in Seq(0 .. 255)
  /\ {K64, LONGEST, UNIFORM} \subseteq Nat \ {0}
  /\ BOUNDARY_LENS \in Seq(Nat) /\ MAGNITUDES \in Seq(Nat) /\ NullLengths \in Seq(Nat)
  /\ Bodies \in Seq(Seq(0 .. 255))

Repeated(byte, len) == [p \in 1 .. len |-> byte]
Counting(len)       == [p \in 1 .. len |-> (p - 1) % 256]
Alternating(len)    == [p \in 1 .. len |-> IF p % 2 = 1 THEN 85 ELSE 170]

(* The cases that each element of a sequence contributes. *)
ForEach(s, Cases(_)) == FlattenSeq([n \in DOMAIN s |-> Cases(s[n])])

(* What ends a sentence: nothing, a checksum, or a checksum and an end of *)
(* line, or an end of line alone.                                         *)
Sum7C       == <<42, 55, 67>>
Terminators == << <<>>, Sum7C, Sum7C \o <<13, 10>>, <<13, 10>>, <<13>>, <<10>> >>

(* Delimiters where a parser may not expect them; GP stands for the       *)
(* letters between them.  The last has a NUL in the middle of a sentence. *)
Torture ==
  LET GP == <<71, 80>>
  IN  << <<36>>, <<42>>, <<36, 42>>, <<13>>, <<10>>, <<36, 13, 10>>, <<0>>,
         <<36, 0>> \o GP, GP \o <<0>> \o GP, GP \o <<42>> \o GP,
         <<36, 36>> \o GP, <<36>> \o GP \o <<42>>,
         <<36>> \o GP \o <<0>> \o GP \o Sum7C \o <<13, 10>> >>

-----------------------------------------------------------------------------
(* prologue(): every exit of every loop is taken on every run. *)
Readable ==
  << <<>> >>
  \o [n \in DOMAIN ByteValues |-> <<ByteValues[n]>>]
  \o ForEach(BOUNDARY_LENS,
             LAMBDA len : <<Repeated(0, len), Repeated(255, len), Counting(len), Alternating(len)>>)
  \o ForEach(MAGNITUDES, LAMBDA len : <<Repeated(0, len), Repeated(255, len)>>)
  \o [n \in DOMAIN ByteValues |-> Repeated(ByteValues[n], UNIFORM)]
  \o <<Repeated(0, K64), Repeated(255, K64), Counting(K64), Alternating(K64),
       Counting(K64 - 1), Counting(K64 + 1), Counting(LONGEST)>>
  \o ForEach(Bodies,
             LAMBDA body : ForEach(Terminators,
                                   LAMBDA end : <<body \o end, <<36>> \o body \o end>>))
  \o Torture

Prologue ==
  [n \in DOMAIN Readable |-> [is_null |-> FALSE, data |-> Readable[n]]]
  \o [n \in DOMAIN NullLengths |-> [is_null |-> TRUE, data |-> Repeated(171, NullLengths[n])]]
=============================================================================
