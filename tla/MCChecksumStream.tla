-------------------------- MODULE MCChecksumStream --------------------------
(***************************************************************************)
(* Every input of up to four bytes over the bytes that the algorithms     *)
(* treat differently, read through a buffer of three bytes, so that a     *)
(* leading '$', a terminator and SICK's previous byte fall on either side *)
(* of a chunk boundary; all thirteen algorithms in one pass.              *)
(***************************************************************************)
EXTENDS ChecksumStream

\* '$', '*', 'A' and 0x93
Alphabet == {ByteOf(36), ByteOf(42), ByteOf(65), ByteOf(147)}

MCInputs == BoundedSeq(Alphabet, 4)

(* The order of `crc --all`. *)
MCAlgos ==
  <<"crc_8", "crc_16", "crc_modbus", "crc_sick", "crc_xmodem", "crc_ccitt_ffff",
    "crc_ccitt_1d0f", "crc_kermit", "crc_dnp", "crc_32", "crc_64_ecma", "crc_64_we",
    "nmea">>

(* The check values of the library's own tests, for "123456789": the      *)
(* catalogue is the library's.                                            *)
Check == [j \in 1 .. 9 |-> ByteOf(48 + j)]

Word(w, bytes) == UNION {{i + w - 8 * j : i \in ByteOf(bytes[j])} : j \in 1 .. (w \div 8)}

ASSUME KnownAnswers ==
  /\ OneShot("crc_8", Check)          = Word(8,  <<162>>)
  /\ OneShot("crc_16", Check)         = Word(16, <<187, 61>>)
  /\ OneShot("crc_modbus", Check)     = Word(16, <<75, 55>>)
  /\ OneShot("crc_xmodem", Check)     = Word(16, <<49, 195>>)
  /\ OneShot("crc_ccitt_ffff", Check) = Word(16, <<41, 177>>)
  /\ OneShot("crc_ccitt_1d0f", Check) = Word(16, <<229, 204>>)
  /\ OneShot("crc_kermit", Check)     = Word(16, <<137, 33>>)
  /\ OneShot("crc_dnp", Check)        = Word(16, <<130, 234>>)
  /\ OneShot("crc_32", Check)         = Word(32, <<203, 244, 57, 38>>)
  /\ OneShot("crc_64_ecma", Check)    = Word(64, <<108, 64, 223, 95, 11, 73, 115, 71>>)
  /\ OneShot("crc_64_we", Check)      = Word(64, <<98, 236, 89, 227, 241, 164, 240, 10>>)
  /\ OneShot("crc_sick", Check)       = Word(16, <<86, 166>>)
  /\ OneShot("nmea", Check)           = Word(8,  <<49>>)
=============================================================================
