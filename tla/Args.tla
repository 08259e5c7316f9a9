-------------------------------- MODULE Args --------------------------------
(***************************************************************************)
(* args::parse of the crc command: one pass over the words of a command   *)
(* line, in which an option without an attached value takes the next      *)
(* word, whatever it looks like.  A behaviour is one call.                *)
(*                                                                         *)
(* A word is a sequence of pieces: "-", "=", "," and "_", blanks, the one *)
(* character of a short option, and texts that nothing looks into.        *)
(***************************************************************************)
EXTENDS AlgoNames, Numerals

CONSTANTS
  CommandLines, (* what callers mean, as items: see WordsOf                *)
  ArgPieces     (* what the words of a caller are made of                  *)

VARIABLES
  meant,        (* history: what the caller meant                          *)
  crcArgv,      (* what the caller wrote                                   *)
  taken,        (* index: words consumed                                   *)
  mode, requested, all, files, check, hex, files_only,
  parsed        (* "parsing", "error" or "options"                         *)

locals   == <<mode, requested, all, files, check, hex, files_only>>
argsVars == <<meant, crcArgv, taken, mode, requested, all, files, check, hex, files_only, parsed>>

-----------------------------------------------------------------------------
DASH     == "-"
EQUALS   == "="
COMMA    == ","
STDIN    == <<DASH>>
DASHES   == <<DASH, DASH>>
NoValue  == <<"no value">>

IsLong(word) == IsPrefix(DASHES, word)

StripEquals(word) == IF IsPrefix(<<EQUALS>>, word) THEN Tail(word) ELSE word

(* split_flag: the flag of a long option ends at the first '=', that of a *)
(* short one after one character, and what follows is the value.          *)
SplitFlag(word) ==
  LET end == IF IsLong(word) THEN SelectInSeq(word \o <<EQUALS>>, LAMBDA piece : piece = EQUALS) - 1
             ELSE 2
  IN  IF Len(word) <= end THEN [flag |-> word, attached |-> NoValue]
      ELSE [flag     |-> SubSeq(word, 1, end),
            attached |-> StripEquals(SubSeq(word, end + 1, Len(word)))]

(* spec.split(','), without the names that are blank. *)
Names(spec) ==
  FoldLeft(LAMBDA names, name : IF Trim(name) = <<>> THEN names ELSE Append(names, name),
           <<>>, Split(spec, COMMA))

AlgosOf(spec) == [n \in DOMAIN Names(spec) |-> CHOOSE algo \in Parse(Names(spec)[n]) : TRUE]

IsSpec(spec) == Names(spec) # <<>> /\ \A n \in DOMAIN Names(spec) : Parse(Names(spec)[n]) # {}

(* Mutant: a name that is asked for again is computed again. *)
PushAlgosAgain(spec, into) == into \o AlgosOf(spec)

(* push_algos, of a good spec. *)
PushAlgos(spec, into) ==
  FoldLeft(LAMBDA s, algo : IF Contains(s, algo) THEN s ELSE Append(s, algo), into, AlgosOf(spec))

IsFile(word) == files_only \/ word = STDIN \/ ~IsPrefix(STDIN, word)

(* The options that take no value, those that take one, and the modes.    *)
Short(letter) == <<DASH, letter>>
Long(name)    == <<DASH, DASH, name>>
HelpFlags     == {Short("h"), Long("help")}
VersionFlags  == {Short("V"), Long("version")}
Informational == HelpFlags \cup VersionFlags \cup {Long("list")}
Plain         == Informational \cup {Long("all"), Long("hex"), Long("dec")}
AlgoFlags     == {Short("a"), Long("algo")}
CheckFlags    == {Short("c"), Long("check")}

ModeOf(flag) ==
  CASE flag \in HelpFlags    -> "Help"
    [] flag \in VersionFlags -> "Version"
    [] OTHER                 -> "List"

-----------------------------------------------------------------------------
(* What a caller means, item by item, and the words of each item:         *)
(* [is |-> "file", word], [is |-> "flag", word, tail] with a tail that is *)
(* dropped, [is |-> "value", flag, value, attach] with the value attached *)
(* as told or a word of its own, [is |-> "junk", words], and [is |->      *)
(* "rest", words], words after "--".                                      *)
WordsOf(item) ==
  CASE item.is = "file" -> <<item.word>>
    [] item.is = "flag" -> <<item.word \o item.tail>>
    [] item.is = "value" /\ item.attach = "next" -> <<item.flag, item.value>>
    [] item.is = "value" /\ item.attach = "="    -> <<item.flag \o <<EQUALS>> \o item.value>>
    [] item.is = "value" /\ item.attach = "glued" -> <<item.flag \o item.value>>
    [] item.is = "junk" -> item.words
    [] item.is = "rest" -> <<DASHES>> \o item.words

Render(items) == FoldLeft(LAMBDA words, item : words \o WordsOf(item), <<>>, items)

(* Words that cannot be meant: an unknown option, an option whose value   *)
(* is missing, a list of algorithms that names none or one that there is  *)
(* not.                                                                    *)
IsJunk(words) ==
  LET split == SplitFlag(words[1])
      value == IF split.attached # NoValue THEN split.attached ELSE words[2]
  IN  /\ words # <<>> /\ IsPrefix(STDIN, words[1]) /\ words[1] \notin {STDIN, DASHES}
      /\ \/ split.flag \notin Plain \cup AlgoFlags \cup CheckFlags
         \/ /\ split.flag \in AlgoFlags \cup CheckFlags
            /\ split.attached = NoValue /\ Len(words) = 1
         \/ /\ split.flag \in AlgoFlags
            /\ split.attached # NoValue \/ Len(words) > 1
            /\ ~IsSpec(value)

(* A file that looks like an option is meant as one only after "--".  The *)
(* tail of a long option begins with its '=', and a value that is glued   *)
(* to a short one does not.                                               *)
IsItem(item) ==
  CASE item.is = "file"  -> item.word \in Seq(ArgPieces) /\ (item.word = STDIN \/ ~IsPrefix(STDIN, item.word))
    [] item.is = "flag"  -> /\ item.word \in Plain /\ item.tail \in Seq(ArgPieces)
                            /\ IsLong(item.word) /\ item.tail # <<>> => item.tail[1] = EQUALS
    [] item.is = "value" -> /\ item.flag \in AlgoFlags \cup CheckFlags
                            /\ item.value \in Seq(ArgPieces) \ {NoValue}
                            /\ item.flag \in AlgoFlags => IsSpec(item.value)
                            /\ item.attach \in {"next", "=", "glued"}
                            /\ item.attach = "glued" =>
                                 ~IsLong(item.flag) /\ item.value # <<>> /\ item.value[1] # EQUALS
    [] item.is = "junk"  -> item.words \in Seq(Seq(ArgPieces)) /\ IsJunk(item.words)
    [] item.is = "rest"  -> item.words \in Seq(Seq(ArgPieces))
    [] OTHER             -> FALSE

(* Behind "--" there are only files, and a value is missing at the end.   *)
EndsLine(item) ==
  \/ item.is = "rest"
  \/ item.is = "junk" /\ Len(item.words) = 1 /\ SplitFlag(item.words[1]).attached = NoValue
     /\ SplitFlag(item.words[1]).flag \in AlgoFlags \cup CheckFlags

AllItems == UNION {ToSet(items) : items \in CommandLines}

ASSUME ArgsAssumption ==
  /\ CommandLines \subseteq Seq(AllItems)
  /\ \A item \in AllItems : IsItem(item)
  /\ \A items \in CommandLines : \A n \in 1 .. Len(items) : EndsLine(items[n]) => n = Len(items)

-----------------------------------------------------------------------------
ArgsInit ==
  /\ meant \in CommandLines
  /\ crcArgv = Render(meant)
  /\ taken = 0
  /\ mode = "Run"
  /\ requested = <<>>
  /\ all = FALSE
  /\ files = <<>>
  /\ check = NoValue
  /\ hex = TRUE
  /\ files_only = FALSE
  /\ parsed = "parsing"

Remain == parsed = "parsing" /\ taken < Len(crcArgv)
Arg    == crcArgv[taken + 1]

TakeFile ==
  /\ Remain
  /\ IsFile(Arg)
  /\ files' = Append(files, Arg)
  /\ taken' = taken + 1
  /\ UNCHANGED <<meant, crcArgv, mode, requested, all, check, hex, files_only, parsed>>

TakeDashes ==
  /\ Remain
  /\ ~IsFile(Arg) /\ Arg = DASHES
  /\ files_only' = TRUE
  /\ taken' = taken + 1
  /\ UNCHANGED <<meant, crcArgv, mode, requested, all, files, check, hex, parsed>>

IsOption == Remain /\ ~IsFile(Arg) /\ Arg # DASHES
TheFlag  == SplitFlag(Arg).flag
Attached == SplitFlag(Arg).attached

(* A value that was attached to it is not looked at. *)
TakePlain ==
  /\ IsOption
  /\ TheFlag \in Plain
  /\ mode' = IF TheFlag \in Informational THEN ModeOf(TheFlag) ELSE mode
  /\ all' = (all \/ TheFlag = Long("all"))
  /\ hex' = CASE TheFlag = Long("hex") -> TRUE
              [] TheFlag = Long("dec") -> FALSE
              [] OTHER -> hex
  /\ taken' = taken + 1
  /\ UNCHANGED <<meant, crcArgv, requested, files, check, files_only, parsed>>

(* Mutant: a word that looks like an option is not taken for a value. *)
GivenNoDash == Attached # NoValue \/ (taken + 1 < Len(crcArgv) /\ ~IsPrefix(STDIN, crcArgv[taken + 2]))

(* value_for: the attached value or the next word. *)
Given == Attached # NoValue \/ taken + 1 < Len(crcArgv)

ValueFor == IF Attached # NoValue THEN Attached ELSE crcArgv[taken + 2]
Consumed == IF Attached # NoValue THEN 1 ELSE 2

TakeAlgo ==
  /\ IsOption
  /\ TheFlag \in AlgoFlags
  /\ Given /\ IsSpec(ValueFor)
  /\ requested' = PushAlgos(ValueFor, requested)
  /\ taken' = taken + Consumed
  /\ UNCHANGED <<meant, crcArgv, mode, all, files, check, hex, files_only, parsed>>

TakeCheck ==
  /\ IsOption
  /\ TheFlag \in CheckFlags
  /\ Given
  /\ check' = ValueFor
  /\ taken' = taken + Consumed
  /\ UNCHANGED <<meant, crcArgv, mode, requested, all, files, hex, files_only, parsed>>

(* An unknown option, a missing value, a name that is not an algorithm's. *)
RefuseOption ==
  /\ IsOption
  /\ \/ TheFlag \notin Plain \cup AlgoFlags \cup CheckFlags
     \/ TheFlag \in AlgoFlags \cup CheckFlags /\ ~Given
     \/ TheFlag \in AlgoFlags /\ Given /\ ~IsSpec(ValueFor)
  /\ parsed' = "error"
  /\ UNCHANGED <<meant, crcArgv, taken, locals>>

AllTaken == parsed = "parsing" /\ taken = Len(crcArgv)

(* An informational mode ignores everything but hex. *)
Inform ==
  /\ AllTaken /\ mode # "Run"
  /\ requested' = <<>> /\ files' = <<>> /\ check' = NoValue
  /\ parsed' = "options"
  /\ UNCHANGED <<meant, crcArgv, taken, mode, all, hex, files_only>>

(* The manifest names the files and the algorithms. *)
Contradiction == check # NoValue /\ (files # <<>> \/ all \/ requested # <<>>)

RefuseContradiction ==
  /\ AllTaken /\ mode = "Run"
  /\ Contradiction
  /\ parsed' = "error"
  /\ UNCHANGED <<meant, crcArgv, taken, locals>>

ToRun ==
  /\ AllTaken /\ mode = "Run"
  /\ ~Contradiction
  /\ requested' = IF all THEN ALL ELSE IF requested = <<>> THEN DEFAULT ELSE requested
  /\ files' = IF files = <<>> THEN <<STDIN>> ELSE files
  /\ parsed' = "options"
  /\ UNCHANGED <<meant, crcArgv, taken, mode, all, check, hex, files_only>>

ArgsNext ==
  \/ TakeFile \/ TakeDashes \/ TakePlain \/ TakeAlgo \/ TakeCheck
  \/ RefuseOption \/ Inform \/ RefuseContradiction \/ ToRun

ArgsSpec == ArgsInit /\ [][ArgsNext]_argsVars

-----------------------------------------------------------------------------
(* What items mean, whatever their form. *)
FilesOf(item) == CASE item.is = "file" -> <<item.word>> [] item.is = "rest" -> item.words
                   [] OTHER -> <<>>

AlgosIn(item) == IF item.is = "value" /\ item.flag \in AlgoFlags THEN AlgosOf(item.value) ELSE <<>>

MeantFiles(items) == FoldLeft(LAMBDA s, item : s \o FilesOf(item), <<>>, items)
MeantAlgos(items) == FoldLeft(LAMBDA s, item : s \o AlgosIn(item), <<>>, items)

(* The last of the flags that was given, and the last manifest. *)
LastFlag(items, flags) ==
  LET given == {n \in DOMAIN items : items[n].is = "flag" /\ items[n].word \in flags}
  IN  IF given = {} THEN NoValue ELSE items[Max(given)].word

MeantCheck(items) ==
  LET given == {n \in DOMAIN items : items[n].is = "value" /\ items[n].flag \in CheckFlags}
  IN  IF given = {} THEN NoValue ELSE items[Max(given)].value

MeansAll(items) == LastFlag(items, {Long("all")}) # NoValue

MeantMode(items) ==
  IF LastFlag(items, Informational) = NoValue THEN "Run" ELSE ModeOf(LastFlag(items, Informational))

(* Where an algorithm is first asked for. *)
FirstOf(algos, algo) == SelectInSeq(algos, LAMBDA a : a = algo)

HasJunk(items) == \E n \in DOMAIN items : items[n].is = "junk"

(* A set of options is one the rest of the program can run: an algorithm  *)
(* and an input at least, no algorithm twice, and a manifest never        *)
(* together with files or algorithms of its own (args.rs:26-28, 89-100).  *)
ArgsTypeOK ==
  /\ taken \in 0 .. Len(crcArgv)
  /\ mode \in {"Run", "List", "Help", "Version"}
  /\ requested \in Seq(ToSet(ALL)) /\ IsInjective(requested)
  /\ parsed \in {"parsing", "error", "options"}
  /\ parsed = "options" /\ mode = "Run" =>
       /\ requested # <<>> /\ files # <<>>
       /\ check # NoValue => files = <<STDIN>> /\ requested = DEFAULT

(* args.rs:5-10: every supported form of an option means the same, where  *)
(* it stands does not matter, and every word after "--" is a file.  The   *)
(* options are those that were meant, the algorithms in the order of      *)
(* their first mention, and an error is one for a word that was junk,     *)
(* "whatever else is on the line" (args.rs:247-249), or for a manifest    *)
(* together with what it names.  An option that takes no value is itself  *)
(* whatever is glued or set to it: -hex is -h.                            *)
MeansWhatItSays ==
  LET algos == MeantAlgos(meant)
      contradicts == MeantFiles(meant) # <<>> \/ algos # <<>> \/ MeansAll(meant)
  IN  /\ parsed = "options" =>
           /\ ~HasJunk(meant)
           /\ mode = MeantMode(meant)
           /\ hex <=> LastFlag(meant, {Long("hex"), Long("dec")}) # Long("dec")
      /\ parsed = "options" /\ mode = "Run" =>
           /\ check = MeantCheck(meant)
           /\ check # NoValue => ~contradicts
           /\ files = IF MeantFiles(meant) = <<>> THEN <<STDIN>> ELSE MeantFiles(meant)
           /\ MeansAll(meant) => requested = ALL
           /\ ~MeansAll(meant) /\ algos = <<>> => requested = DEFAULT
           /\ ~MeansAll(meant) /\ algos # <<>> =>
                /\ ToSet(requested) = ToSet(algos)
                /\ \A n \in DOMAIN requested : \A k \in 1 .. n - 1 :
                     FirstOf(algos, requested[k]) < FirstOf(algos, requested[n])
      /\ parsed = "error" =>
           \/ HasJunk(meant)
           \/ MeantCheck(meant) # NoValue /\ MeantMode(meant) = "Run" /\ contradicts
=============================================================================
