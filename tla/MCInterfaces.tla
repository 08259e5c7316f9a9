---------------------------- MODULE MCInterfaces ----------------------------
(***************************************************************************)
(* The faces that the checksums show to a caller: the digests of the      *)
(* library (Digests), the C ABI (CAbi), the command line (Args) and the   *)
(* manifest (ManifestText); and the tools around them, the command line   *)
(* of the fuzzer (FuzzArgs) and the benchmark (Bench).  They share no     *)
(* state; a behaviour is that of one of them, which `part` names, and the *)
(* others stay as they are.                                               *)
(***************************************************************************)
EXTENDS Digests, CAbi, Args, ManifestText, FuzzArgs, Bench

VARIABLE
  part         (* "digests", "c_abi", "args", "manifest", "fuzz" or "bench" *)

-----------------------------------------------------------------------------
(* Two digests of any kinds, and up to two bytes each, so that a clone    *)
(* goes its own way and the Hasher is asked before, between and after     *)
(* writes: an empty update, single bytes, and two and eight at once.      *)
FF         == 0 .. 7
Eight(b)   == [k \in 1 .. 8 |-> b]
MCHandles  == {"d1", "d2"}
MCKinds    == {"crc_16", "crc_modbus", "crc_32", "crc_64_ecma", "crc_64_we", "hasher"}
MCChunks   == {<<>>, <<{}>>, <<FF>>, <<{6, 0}, FF>>, Eight({}), Eight(FF)}
MCAbsorbable ==
  BoundedSeq({{}, FF}, 2) \cup {<<{6, 0}, FF>>, Eight({}), Eight(FF)}

(* Buffers of up to four bytes over '$', 'A', '*', LF and NUL, so that a  *)
(* sentence may begin with '$', hold one later, be empty, and be followed *)
(* by more of the buffer; checksum_NMEA, and a CRC whose value for no     *)
(* input is not zero.                                                     *)
MCBuffers == BoundedSeq({DOLLAR, ByteOf(65), ByteOf(42), ByteOf(10), {}}, 4)

MCExports == {"nmea", "crc_modbus"}

(* Command lines of up to three items, with words after "--" or without:  *)
(* every form of --algo and --check, values that look like options, names *)
(* that are repeated, aliases and lists with empty names, values given to *)
(* options that take none (-hex, --all=no), and junk.                     *)
File(word)    == [is |-> "file", word |-> <<word>>]
OptFlag(word) == [is |-> "flag", word |-> word, tail |-> <<>>]
Tailed(word, tail) == [is |-> "flag", word |-> word, tail |-> tail]
Val(flag, word, attach) ==
  [is |-> "value", flag |-> flag, value |-> word, attach |-> attach]
Junk(words) == [is |-> "junk", words |-> words]
Rest(words) == [is |-> "rest", words |-> words]

Specs == {<<"32">>, <<"arc", ",", "CRC", "-", "32">>, <<"sick", ",", " ", ",", " ", "crc16">>}
Dashed == <<"-", "-", "all">>
Manifests == {<<"sums">>, Dashed}

Forms(long, short, values) ==
  {Val(long, v, how) : v \in values, how \in {"next", "="}} \cup
  {Val(short, v, how) : v \in values, how \in {"next", "=", "glued"}}

Good ==
  {File("-"), File("x")} \cup
  {OptFlag(w) : w \in {<<"-", "h">>, <<"-", "-", "version">>, <<"-", "-", "list">>,
                       <<"-", "-", "all">>, <<"-", "-", "dec">>, <<"-", "-", "hex">>}} \cup
  {Tailed(<<"-", "h">>, <<"ex">>), Tailed(<<"-", "-", "all">>, <<"=", "no">>)} \cup
  Forms(<<"-", "-", "algo">>, <<"-", "a">>, Specs) \cup
  Forms(<<"-", "-", "check">>, <<"-", "c">>, Manifests)

Bad == {Junk(<<<<"-", "z">>>>), Junk(<<<<"-", "-", "nope", "=", "x">>>>),
        Junk(<<<<"-", "-", "algo">>, <<"nosuch">>>>), Junk(<<<<"-", "a">>, <<",", " ">>>>),
        Junk(<<<<"-", "a", "=">>>>)}

Tails == {<<>>, <<Rest(<<>>)>>, <<Rest(<<Dashed, <<"-", "-">>, <<"-", "a">>>>)>>,
          <<Junk(<<<<"-", "-", "check">>>>)>>}

Items == Good \cup Bad
Heads == {<<>>} \cup {<<a>> : a \in Items} \cup {<<a, b>> : a \in Items, b \in Items} \cup
         {<<a, b, c>> : a \in Items \ Bad, b \in Bad \cup {File("x")}, c \in Good}

MCLines == {head \o tail : head \in Heads, tail \in Tails}

MCArgPieces == UNION {UNION {ToSet(word) : word \in ToSet(Render(items))} : items \in MCLines}

(* Manifests of up to two lines; a short value, and one that is padded    *)
(* with zeros; paths with a space inside, at the end and in front, one    *)
(* that looks like a comment, one with a newline in it and one that ends  *)
(* in a carriage return.                                                  *)
MCPaths == {<<"a">>, <<"a", " ", " ", "b">>, <<"a", " ">>, <<"#", "a">>,
            <<" ", "a">>, <<" ">>, <<"a", "lf", "b">>, <<"a", "cr">>}

MCValues == [crc_8 |-> {5}, crc_64_we |-> {47933}]

(* Command lines of the fuzzer: up to two options and a tail, with        *)
(* numbers in every spelling, at their ends and past them, seconds that   *)
(* are none, values that look like flags, help, and junk.  A u64 has 16   *)
(* bits here.                                                             *)
Opt(f, v) == << <<"--", f>>, v>>

FuzzOptions ==
  {Opt("seed", v) : v \in {<<"0">>, <<" ", "7", " ">>, <<"0", "x", "2", "F">>, <<"+", "3">>,
                           <<"6", "5", "5", "3", "6">>, <<"0", "x">>, <<"-", "1">>}} \cup
  {Opt("seconds", v) : v \in {<<"9">>, <<"-", "1">>, <<"-", "0">>, <<"nan">>, <<"-", "inf">>,
                              <<"9", "9", "9", "9", "9">>}} \cup
  {Opt("cases", v) : v \in {<<"0">>, <<"2">>}} \cup
  {Opt("batch", v) : v \in {<<"0">>, <<"1", "0">>}} \cup
  {Opt("start", v) : v \in {<<"5">>, <<"6", "5", "5", "3", "5">>}} \cup
  {Opt("case", <<"1">>), Opt("oracle", <<"a", " ", "b">>), Opt("oracle", <<"mine">>),
   Opt("log", <<"--", "help">>), Opt("workdir", <<"w">>)}

FuzzTails == {<<>>, << <<"-h">> >>, << <<"--", "help">>, <<"x">> >>, << <<"x">> >>,
              << <<"--", "seed">> >>}

MCFuzzLines == {a \o b \o t : a \in FuzzOptions \cup {<<>>}, b \in FuzzOptions \cup {<<>>},
                              t \in FuzzTails}

(* The workloads at two small and two large sizes, of which the larger    *)
(* fills the clock in one call; the bytes generated include a '*'.        *)
MCGenerated == <<36, 42, 65, 36, 65, 42, 125, 33>>

MCSmallSizes == <<2, 4>>
MCLargeSizes == <<7, 8>>

-----------------------------------------------------------------------------
(* A part that is not asked for anything. *)
NoCall ==
  /\ export = "nmea" /\ input_str = NULL /\ num_bytes = 0 /\ has_result = FALSE
  /\ scanned = 0 /\ touched = {} /\ doing = "returned" /\ value = NULL

NoLine ==
  /\ meant = <<>> /\ crcArgv = <<>> /\ taken = 0
  /\ mode = "Help" /\ requested = <<>> /\ all = FALSE /\ files = <<>>
  /\ check = NoValue /\ hex = TRUE /\ files_only = FALSE /\ parsed = "parsing"

NoText ==
  /\ text = <<>> /\ printed = <<>> /\ textPc = "parsed" /\ offset = 0 /\ entries = <<>>

NoFuzz ==
  /\ argv = <<>> /\ index = 0 /\ args = Default
  /\ outcome = "parsed" /\ count = 0 /\ first = NoRun /\ via = "none"

NoBench ==
  /\ driver = 3 /\ workload = 1 /\ stage = "calibrate" /\ calls = 1 /\ done = 0
  /\ buf = MCGenerated /\ nmea = SubSeq(MCGenerated, 1, 6)
  /\ inputs = << <<>>, <<>> >>

MCInit ==
  \/ part = "digests"  /\ DigestInit /\ NoCall /\ NoLine /\ NoText /\ NoFuzz /\ NoBench
  \/ part = "c_abi"    /\ DigestInit /\ CallInit /\ NoLine /\ NoText /\ NoFuzz /\ NoBench
  \/ part = "args"     /\ DigestInit /\ NoCall /\ ArgsInit /\ NoText /\ NoFuzz /\ NoBench
  \/ part = "manifest" /\ DigestInit /\ NoCall /\ NoLine /\ TextInit /\ NoFuzz /\ NoBench
  \/ part = "fuzz"     /\ DigestInit /\ NoCall /\ NoLine /\ NoText /\ FuzzInit /\ NoBench
  \/ part = "bench"    /\ DigestInit /\ NoCall /\ NoLine /\ NoText /\ NoFuzz /\ BenchInit

MCNext ==
  \/ part = "digests"  /\ DigestNext /\ UNCHANGED <<part, callVars, argsVars, textVars, fuzzVars, benchVars>>
  \/ part = "c_abi"    /\ CallNext /\ UNCHANGED <<part, digestVars, argsVars, textVars, fuzzVars, benchVars>>
  \/ part = "args"     /\ ArgsNext /\ UNCHANGED <<part, digestVars, callVars, textVars, fuzzVars, benchVars>>
  \/ part = "manifest" /\ TextNext /\ UNCHANGED <<part, digestVars, callVars, argsVars, fuzzVars, benchVars>>
  \/ part = "fuzz"     /\ FuzzNext /\ UNCHANGED <<part, digestVars, callVars, argsVars, textVars, benchVars>>
  \/ part = "bench"    /\ BenchNext /\ UNCHANGED <<part, digestVars, callVars, argsVars, textVars, fuzzVars>>

MCSpec == MCInit /\ [][MCNext]_<<part, digestVars, callVars, argsVars, textVars, fuzzVars, benchVars>>

-----------------------------------------------------------------------------
(* The types of all parts.  A digest's register has the width of its kind *)
(* and is where one fold over all it absorbed would have left it          *)
(* (digest.rs); options that are given out can be run (args.rs:26-28,     *)
(* 89-100); and no path read from a manifest begins with white space or   *)
(* ends in a carriage return (check.rs:130-173).                          *)
AllTyped == TypeOK /\ CallTypeOK /\ ArgsTypeOK /\ TextTypeOK /\ FuzzTypeOK /\ BenchTypeOK
=============================================================================
