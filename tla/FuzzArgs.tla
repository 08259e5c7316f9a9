------------------------------ MODULE FuzzArgs ------------------------------
(***************************************************************************)
(* The command line of the fuzzer: parse_args, what run() makes of it     *)
(* before the first batch, and the command lines that a log offers for    *)
(* another run.  A behaviour is a run that is started, perhaps writes its *)
(* log, and a second run started from a line of that log.                 *)
(*                                                                         *)
(* A flag is one word of two pieces; a value is a word of characters.     *)
(***************************************************************************)
EXTENDS Numerals

CONSTANTS
  Lines,        (* the command lines of the first run                      *)
  WIDTH,        (* the hexadecimal digits a u64 takes                      *)
  Clock,        (* the seeds that seed_from_clock may give                 *)
  Counts        (* bound: the cases a run with --seconds gets through      *)

(* What words are made of. *)
Pieces == UNION {UNION {ToSet(word) : word \in ToSet(line)} : line \in Lines}

(* The default batch is a u64.                                            *)
ASSUME FuzzArgsAssumption ==
  /\ MAX_U64 \in Nat /\ WIDTH \in Nat /\ MAX_U64 < 16 ^ WIDTH
  /\ 50000 <= MAX_U64
  /\ Lines \subseteq Seq(Seq(Pieces))
  /\ Clock \subseteq 0 .. MAX_U64 /\ Counts \subseteq 0 .. MAX_U64

VARIABLES
  argv, index,  (* as written, and words consumed                          *)
  args,         (* struct Args                                             *)
  outcome,      (* "parsing", "refused", "help", "accepted", "no oracle",  *)
                (* "dumped", "panicked" or "run": a log was written        *)
  count,        (* cases the run got through                               *)
  first, via    (* history: [args, count] of the run whose log this one    *)
                (* replays, or NoRun; and by which line of it              *)

fuzzVars == <<argv, index, args, outcome, count, first, via>>

-----------------------------------------------------------------------------
None  == -1
NoRun == [count |-> None]
(* An f64, without fractions and exponents. *)
Seconds(word) ==
  LET signed == Starts(word, <<"-">>) \/ Starts(word, <<"+">>)
      text   == IF signed THEN Tail(word) ELSE word
      kinds  == IF text \in {<<"nan">>, <<"inf">>} THEN {text[1]}
                ELSE IF AllDigits(text, 10) THEN {"number"} ELSE {}
  IN  {[is |-> is, negative |-> Starts(word, <<"-">>),
        n |-> IF is = "number" THEN NumberOf(text, 10) ELSE 0] : is \in kinds}

(* `args.seconds < 0.0`, which neither -0 nor a NaN is. *)
Negative(s) == s.negative /\ (s.is = "inf" \/ (s.is = "number" /\ s.n > 0))

(* Duration::from_secs_f64 panics at what a Duration cannot hold. *)
Holds(s) == s.is = "number" /\ s.n <= MAX_U64

(* Args::default. *)
Default ==
  [seed |-> 0, seconds |-> [is |-> "number", negative |-> FALSE, n |-> 60],
   cases |-> None, batch |-> 50000, start |-> 0, case |-> None,
   oracle |-> <<"harness">>, workdir |-> <<"work">>, log |-> <<"log.txt">>]

Readings(flag, word) ==
  CASE flag = "seed"    -> Numeral(word)
    [] flag = "seconds" -> Seconds(word)
    [] flag \in {"cases", "batch", "start", "case"} -> Unsigned(word, 10)
    [] flag \in {"oracle", "workdir", "log"} -> {word}

-----------------------------------------------------------------------------
Flag(f) == <<"--", f>>

(* fuzz/run.sh puts its own paths in front. *)
RunSh(words) ==
  <<Flag("oracle"), <<"harness">>, Flag("workdir"), <<"work">>, Flag("log"), <<"log.txt">>>>
  \o words

(* The shell takes a word apart at a blank. *)
Shell(words) == FoldLeft(LAMBDA line, word : line \o Split(word, BLANK), <<>>, words)

ReplayLine ==
  RunSh(<<Flag("seed"), Decimal(args.seed), Flag("cases"), Decimal(count)>>)

HeadingLine ==
  RunSh(<<Flag("seed"), Hexadecimal(args.seed, WIDTH), Flag("cases"), Decimal(count)>>)

DriveLine ==
  <<Flag("seed"), Decimal(args.seed), Flag("cases"), Decimal(count),
    Flag("batch"), Decimal(args.batch), Flag("start"), Decimal(args.start),
    Flag("oracle"), args.oracle, Flag("workdir"), <<"work">>, Flag("log"), <<"log.txt">>>>

(* The index of the i-th case of a run; the sum wraps in a release build. *)
IndexOf(a, i) == (a.start + i) % (MAX_U64 + 1)

(* The line under a divergence. *)
CaseLine(i) == RunSh(<<Flag("seed"), Decimal(args.seed), Flag("case"), Decimal(i)>>)

-----------------------------------------------------------------------------
FuzzInit ==
  /\ argv \in Lines
  /\ index = 0
  /\ args = Default
  /\ outcome = "parsing"
  /\ count = 0
  /\ first = NoRun /\ via = "none"

More      == outcome = "parsing" /\ index < Len(argv)
Word      == argv[index + 1]
IsFlag(f) == f \in DOMAIN Default /\ Word = Flag(f)
HasValue  == index + 1 < Len(argv)
Readable(f) == HasValue /\ Readings(f, argv[index + 2]) # {}
IsHelp    == Word \in {<<"-h">>, Flag("help")}

(* The next word is the value, whatever it looks like. *)
TakeValue ==
  /\ More /\ HasValue
  /\ \E f \in DOMAIN Default : IsFlag(f) /\
       \E value \in Readings(f, argv[index + 2]) : args' = [args EXCEPT ![f] = value]
  /\ index' = index + 2
  /\ UNCHANGED <<argv, outcome, count, first, via>>

(* process::exit(0) at once: what follows is not looked at. *)
ShowHelp ==
  /\ More /\ IsHelp
  /\ outcome' = "help"
  /\ UNCHANGED <<argv, index, args, count, first, via>>

(* An unknown word, a missing value, or one that cannot be read. *)
RefuseWord ==
  /\ More /\ ~IsHelp
  /\ ~\E f \in DOMAIN Default : IsFlag(f) /\ Readable(f)
  /\ outcome' = "refused"
  /\ UNCHANGED <<argv, index, args, count, first, via>>

AllRead == outcome = "parsing" /\ index = Len(argv)
Allowed == args.batch # 0 /\ ~Negative(args.seconds)

RefuseOptions ==
  /\ AllRead /\ ~Allowed
  /\ outcome' = "refused"
  /\ UNCHANGED <<argv, index, args, count, first, via>>

(* A seed of zero asks for one from the clock. *)
Accept ==
  /\ AllRead /\ Allowed
  /\ IF args.seed = 0 THEN \E c \in Clock : args' = [args EXCEPT !.seed = c] ELSE UNCHANGED args
  /\ outcome' = "accepted"
  /\ UNCHANGED <<argv, index, count, first, via>>

(* No harness, or one that fails the self-check. *)
NoOracle ==
  /\ outcome = "accepted"
  /\ outcome' = "no oracle"
  /\ UNCHANGED <<argv, index, args, count, first, via>>

Dump ==
  /\ outcome = "accepted" /\ args.case # None
  /\ outcome' = "dumped"
  /\ UNCHANGED <<argv, index, args, count, first, via>>

(* The deadline is made in any case, with --cases too. *)
Panic ==
  /\ outcome = "accepted" /\ args.case = None
  /\ ~Holds(args.seconds)
  /\ outcome' = "panicked"
  /\ UNCHANGED <<argv, index, args, count, first, via>>

Run ==
  /\ outcome = "accepted" /\ args.case = None
  /\ Holds(args.seconds)
  /\ count' \in IF args.cases = None THEN Counts ELSE {args.cases}
  /\ outcome' = "run"
  /\ UNCHANGED <<argv, index, args, first, via>>

Replay ==
  /\ outcome = "run" /\ first = NoRun
  /\ first' = [args |-> args, count |-> count]
  /\ \/ via' = "replay"  /\ argv' = Shell(ReplayLine)
     \/ via' = "heading" /\ argv' = Shell(HeadingLine)
     \/ via' = "drive"   /\ argv' = Shell(DriveLine)
     \/ via' = "case"    /\ \E i \in 0 .. count - 1 : argv' = Shell(CaseLine(IndexOf(args, i)))
  /\ index' = 0
  /\ args' = Default
  /\ outcome' = "parsing"
  /\ count' = 0

FuzzNext ==
  \/ TakeValue \/ ShowHelp \/ RefuseWord \/ RefuseOptions \/ Accept
  \/ NoOracle \/ Dump \/ Panic \/ Run \/ Replay

FuzzSpec == FuzzInit /\ [][FuzzNext]_fuzzVars

-----------------------------------------------------------------------------
(* The batch size a run starts with can be one, and numbers are u64.      *)
FuzzTypeOK ==
  /\ index \in 0 .. Len(argv)
  /\ \A f \in {"seed", "start"} : args[f] \in 0 .. MAX_U64
  /\ \A f \in {"cases", "case"} : args[f] = None \/ args[f] \in 0 .. MAX_U64
  /\ outcome \in {"accepted", "run"} => args.batch # 0 /\ ~Negative(args.seconds)
  /\ outcome = "run" => Holds(args.seconds)

(* main.rs:127: "so a seed copied out of a log round-trips", and          *)
(* report.rs:184-209: the command lines of a log are accepted as they     *)
(* stand and ask for the run the log is of: the same seed in either       *)
(* spelling, the number of cases it got through, however it was bounded,  *)
(* and where the line names it the same start and batch size; and the     *)
(* line under a divergence asks for that case alone.  Two logs promise    *)
(* too much: one of a run that drew its seed from the clock and got zero, *)
(* and, by the line that names the harness, one of a run with a blank in  *)
(* its path.                                                              *)
LogIsReadBack ==
  first # NoRun /\ first.args.seed # 0 /\ ~Contains(first.args.oracle, BLANK) =>
    /\ outcome \notin {"refused", "help", "panicked"}
    /\ outcome = "dumped" =>
         via = "case" /\ \E i \in 0 .. first.count - 1 : args.case = IndexOf(first.args, i)
    /\ outcome = "run" => via # "case" /\ count = first.count
    /\ outcome \in {"dumped", "run"} => args.seed = first.args.seed
    /\ outcome = "run" /\ via = "drive" =>
         /\ args.start = first.args.start
         /\ args.batch = first.args.batch
         /\ args.oracle = first.args.oracle
=============================================================================
