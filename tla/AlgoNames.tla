----------------------------- MODULE AlgoNames ------------------------------
(***************************************************************************)
(* The algorithms of the crc command: what --all and no --algo ask for,   *)
(* their names and aliases, their widths, and Algo::parse (algo.rs).  A   *)
(* name is a sequence of pieces: "-" and "_", and texts without either.   *)
(***************************************************************************)
EXTENDS Integers, SequencesExt

ALL == <<"crc_8", "crc_16", "crc_modbus", "crc_sick", "crc_xmodem", "crc_ccitt_ffff",
         "crc_ccitt_1d0f", "crc_kermit", "crc_dnp", "crc_32", "crc_64_ecma", "crc_64_we",
         "nmea">>

DEFAULT == <<"crc_16", "crc_32">>

Name ==
  [crc_8 |-> <<"crc", "_", "8">>, crc_16 |-> <<"crc", "_", "16">>,
   crc_modbus |-> <<"crc", "_", "modbus">>, crc_sick |-> <<"crc", "_", "sick">>,
   crc_xmodem |-> <<"crc", "_", "xmodem">>, crc_ccitt_ffff |-> <<"crc", "_", "ccitt", "_", "ffff">>,
   crc_ccitt_1d0f |-> <<"crc", "_", "ccitt", "_", "1d0f">>, crc_kermit |-> <<"crc", "_", "kermit">>,
   crc_dnp |-> <<"crc", "_", "dnp">>, crc_32 |-> <<"crc", "_", "32">>,
   crc_64_ecma |-> <<"crc", "_", "64", "_", "ecma">>, crc_64_we |-> <<"crc", "_", "64", "_", "we">>,
   nmea |-> <<"nmea">>]

Aliases ==
  [crc_8 |-> {<<"8">>, <<"crc8">>, <<"sht75">>}, crc_16 |-> {<<"16">>, <<"crc16">>, <<"arc">>},
   crc_modbus |-> {<<"modbus">>}, crc_sick |-> {<<"sick">>}, crc_xmodem |-> {<<"xmodem">>},
   crc_ccitt_ffff |-> {<<"ccitt">>, <<"ccitt", "_", "ffff">>},
   crc_ccitt_1d0f |-> {<<"ccitt", "_", "1d0f">>}, crc_kermit |-> {<<"kermit">>},
   crc_dnp |-> {<<"dnp">>}, crc_32 |-> {<<"32">>, <<"crc32">>},
   crc_64_ecma |-> {<<"64">>, <<"crc64">>, <<"ecma">>, <<"64", "_", "ecma">>},
   crc_64_we |-> {<<"we">>, <<"64", "_", "we">>}, nmea |-> {<<"checksum", "_", "nmea">>}]

HexWidth(algo) ==
  CASE algo \in {"crc_8", "nmea"} -> 2
    [] algo = "crc_32" -> 8
    [] algo \in {"crc_64_ecma", "crc_64_we"} -> 16
    [] OTHER -> 4

(* The capitals that the command lines of the models are written in.      *)
Lower(piece) ==
  CASE piece = "CRC" -> "crc" [] piece = "CRC32" -> "crc32" [] piece = "-" -> "_"
    [] OTHER -> piece

SP == " "

(* Algo::parse: the set of the algorithm, or of none. *)
Parse(spelling) ==
  LET text    == {j \in DOMAIN spelling : spelling[j] # SP}
      trimmed == IF text = {} THEN <<>> ELSE SubSeq(spelling, Min(text), Max(text))
      wanted  == [j \in DOMAIN trimmed |-> Lower(trimmed[j])]
      found   == SelectInSeq(ALL, LAMBDA a : wanted = Name[a] \/ wanted \in Aliases[a])
  IN  IF found = 0 THEN {} ELSE {ALL[found]}
=============================================================================
