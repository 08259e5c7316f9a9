------------------------------- MODULE Digests -------------------------------
(***************************************************************************)
(* digest.rs: the streaming digests of the library and the Hasher.  A     *)
(* program holds a few of them at a time, feeds them chunk by chunk in    *)
(* any order, clones them half way, and asks them for their checksum.     *)
(* finalize consumes a digest; finish of the Hasher does not, so it may   *)
(* be asked between two writes and go on.                                 *)
(***************************************************************************)
EXTENDS CrcLibrary

CONSTANTS
  Kinds,       (* names of the algorithms of the digests; "hasher" too     *)
  Handles,     (* the variables of the program                             *)
  Chunks,      (* byte strings an update may be given                      *)
  Absorbable   (* bound: what a digest may have absorbed in all            *)

ASSUME DigestAssumption ==
  /\ Kinds \subseteq {"crc_16", "crc_modbus", "crc_32", "crc_64_ecma", "crc_64_we", "hasher"}
  /\ Chunks \subseteq Seq(Byte)
  /\ Absorbable \subseteq Seq(Byte)

VARIABLES
  digest,      (* per handle, the digest in it, or NoDigest                *)
  absorbed,    (* history: per handle, [kind, data] of its digest          *)
  answer       (* the checksum the last call gave: [kind, data, sum]       *)

digestVars == <<digest, absorbed, answer>>

NoDigest == [type |-> "none"]
NoAnswer == [kind |-> "none"]

-----------------------------------------------------------------------------
(* The algorithm a kind computes: the Hasher is CRC-32. *)
AlgoOf(kind) == Parameters[IF kind = "hasher" THEN "crc_32" ELSE kind]

TypeOf(kind) ==
  CASE kind \in {"crc_16", "crc_modbus"}     -> "Crc16Digest"
    [] kind = "crc_32"                       -> "Crc32Digest"
    [] kind \in {"crc_64_ecma", "crc_64_we"} -> "Crc64Digest"
    [] kind = "hasher"                       -> "Crc32Hasher"

(* new(), modbus(), we() and default(): only a Crc64Digest remembers its  *)
(* final xor.                                                             *)
New(kind) ==
  IF TypeOf(kind) = "Crc64Digest"
  THEN [type |-> TypeOf(kind), crc |-> AlgoOf(kind).start, final_xor |-> AlgoOf(kind).xorout]
  ELSE [type |-> TypeOf(kind), crc |-> AlgoOf(kind).start]

(* The update_crc_* function of a type. *)
Kernel(type) ==
  CASE type = "Crc16Digest" -> Parameters["crc_16"]
    [] type = "Crc64Digest" -> Parameters["crc_64_ecma"]
    [] OTHER                -> Parameters["crc_32"]

(* Mutant: write folds from the seed, not from where the last one ended.  *)
(* Right for a Hasher that is written to once.                            *)
UpdatedFromSeed(d, data) ==
  LET from == IF d.type = "Crc32Hasher" THEN Bits(32) ELSE d.crc
  IN  [d EXCEPT !.crc = ByteFold(Kernel(d.type), from, data)]

(* update and write. *)
Updated(d, data) == [d EXCEPT !.crc = ByteFold(Kernel(d.type), @, data)]

(* finalize and finish. *)
Sum(d) ==
  CASE d.type = "Crc16Digest" -> d.crc
    [] d.type = "Crc64Digest" -> d.crc ^^ d.final_xor
    [] OTHER                  -> d.crc ^^ Bits(32)

-----------------------------------------------------------------------------
DigestInit ==
  /\ digest = [h \in Handles |-> NoDigest]
  /\ absorbed = [h \in Handles |-> NoAnswer]
  /\ answer = NoAnswer

Held(h) == digest[h] # NoDigest

Create(h, kind) ==
  /\ ~Held(h)
  /\ digest' = [digest EXCEPT ![h] = New(kind)]
  /\ absorbed' = [absorbed EXCEPT ![h] = [kind |-> kind, data |-> <<>>]]
  /\ answer' = NoAnswer

Absorb(h, data) ==
  /\ Held(h)
  /\ absorbed[h].data \o data \in Absorbable
  /\ digest' = [digest EXCEPT ![h] = Updated(@, data)]
  /\ absorbed' = [absorbed EXCEPT ![h].data = @ \o data]
  /\ answer' = NoAnswer

Clone(h, other) ==
  /\ Held(h) /\ ~Held(other)
  /\ digest' = [digest EXCEPT ![other] = digest[h]]
  /\ absorbed' = [absorbed EXCEPT ![other] = absorbed[h]]
  /\ answer' = NoAnswer

Answered(h) == [kind |-> absorbed[h].kind, data |-> absorbed[h].data, sum |-> Sum(digest[h])]

Finalize(h) ==
  /\ Held(h) /\ digest[h].type # "Crc32Hasher"
  /\ answer' = Answered(h)
  /\ digest' = [digest EXCEPT ![h] = NoDigest]
  /\ absorbed' = [absorbed EXCEPT ![h] = NoAnswer]

HasherFinish(h) ==
  /\ Held(h) /\ digest[h].type = "Crc32Hasher"
  /\ answer' = Answered(h)
  /\ UNCHANGED <<digest, absorbed>>

(* A Hasher goes out of scope; so may any digest. *)
Drop(h) ==
  /\ Held(h)
  /\ digest' = [digest EXCEPT ![h] = NoDigest]
  /\ absorbed' = [absorbed EXCEPT ![h] = NoAnswer]
  /\ answer' = NoAnswer

DigestNext ==
  \E h \in Handles :
    \/ \E kind \in Kinds : Create(h, kind)
    \/ \E data \in Chunks : Absorb(h, data)
    \/ \E other \in Handles : Clone(h, other)
    \/ Finalize(h) \/ HasherFinish(h) \/ Drop(h)

DigestSpec == DigestInit /\ [][DigestNext]_digestVars

-----------------------------------------------------------------------------
(* A digest is of its kind's type, and its register has that width and is *)
(* where one fold over everything it has absorbed would have left it.     *)
TypeOK ==
  \A h \in Handles : Held(h) =>
    LET alg == AlgoOf(absorbed[h].kind)
    IN  /\ digest[h].type = TypeOf(absorbed[h].kind)
        /\ digest[h].crc \subseteq Bits(alg.width)
        /\ digest[h].crc = ByteFold(alg, alg.start, absorbed[h].data)

(* digest.rs:9-10: the caller cannot get the finalisation wrong.  However *)
(* the data was cut up, cloned half way, or asked for in between, the     *)
(* checksum given is the one-shot function's of all of it.                *)
GivesOneShot ==
  answer # NoAnswer =>
    answer.sum = OneShot(IF answer.kind = "hasher" THEN "crc_32" ELSE answer.kind, answer.data)
=============================================================================
