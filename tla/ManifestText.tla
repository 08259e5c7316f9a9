----------------------------- MODULE ManifestText -----------------------------
(***************************************************************************)
(* The line format that `crc FILE...` prints and `crc --check` reads      *)
(* back: writing lines, what an editor may do to the file in between, and *)
(* parse_manifest.  Verdicts are the matter of CheckManifest.  A manifest *)
(* is a sequence of pieces: white space, the pieces of a name, the        *)
(* characters of a number, and texts that nothing looks into.             *)
(***************************************************************************)
EXTENDS AlgoNames, Numerals

CONSTANTS
  Paths,       (* paths of the files that are summed, sequences of pieces  *)
  Values,      (* Values[a]: checksums of algorithm a                      *)
  Pads,        (* lengths of the padding behind a name and a value         *)
  LINES        (* bound: lines printed or inserted                         *)

CR == "cr"
LF == "lf"
HASH == "#"
White == {SP, CR, LF, "tab"}

(* What paths are made of. *)
PathPieces == UNION {ToSet(path) : path \in Paths}

ASSUME TextAssumption ==
  /\ MAX_U64 \in Nat
  /\ DOMAIN Values \subseteq ToSet(ALL)
  /\ \A algo \in DOMAIN Values : Values[algo] \subseteq 0 .. MAX_U64
  /\ Paths \subseteq Seq(PathPieces) \ {<<>>}
  /\ Pads \subseteq Nat \ {0}

VARIABLES
  text,        (* the manifest                                             *)
  printed,     (* history: the lines that were printed                     *)
  textPc,      (* "print", "parse", "parsed" or "error"                    *)
  offset,      (* lines the parser has taken                               *)
  entries      (* its entries                                              *)

textVars == <<text, printed, textPc, offset, entries>>

-----------------------------------------------------------------------------
Spaces(n) == [k \in 1 .. n |-> SP]

(* Checksum::render. *)
Rendered(algo, value, hex) ==
  IF hex THEN Hexadecimal(value, HexWidth(algo)) ELSE Decimal(value)

(* "{:<name$}  {:<value$}  {}": the padding is two spaces at least.       *)
Line(algo, value, hex, path, pad) ==
  Name[algo] \o Spaces(1 + pad) \o Rendered(algo, value, hex) \o Spaces(1 + pad) \o path \o <<LF>>

(* str::lines: a line ends in LF or CR LF, and what follows the last one  *)
(* is a line if it is not empty.                                          *)
Ended(part) == IF part # <<>> /\ Last(part) = CR THEN Front(part) ELSE part

TextLines ==
  LET parts == Split(text, LF)
      ended == [n \in 1 .. Len(parts) - 1 |-> Ended(parts[n])]
  IN  IF Last(parts) = <<>> THEN ended ELSE Append(ended, Last(parts))

(* The first piece of s, and the last, that is not in a set; 0 for none.  *)
FirstNot(s, set) == SelectInSeq(s, LAMBDA piece : piece \notin set)
LastNot(s, set)  == SelectLastInSeq(s, LAMBDA piece : piece \notin set)

TrimStart(s) ==
  IF FirstNot(s, White) = 0 THEN <<>> ELSE SubSeq(s, FirstNot(s, White), Len(s))

TrimCr(s) == SubSeq(s, 1, LastNot(s, {CR}))

(* Mutant: a comment is looked for at the very start of the line. *)
IgnoredUntrimmed(line) == TrimStart(line) # <<>> => line[1] = HASH

Ignored(line) == TrimStart(line) # <<>> => TrimStart(line)[1] = HASH

(* next_field: [ok, field, rest].  White space must follow the field. *)
NextField(s) ==
  LET body == TrimStart(s)
      end  == SelectInSeq(body, LAMBDA piece : piece \in White)
  IN  IF end = 0 THEN [ok |-> FALSE]
      ELSE [ok |-> TRUE, field |-> SubSeq(body, 1, end - 1),
            rest |-> TrimStart(SubSeq(body, end, Len(body)))]

(* parse_line: [ok, entry].  The path is all that is left of the line.    *)
ParseLine(line) ==
  LET name  == NextField(line)
      value == IF name.ok THEN NextField(name.rest) ELSE name
      entry == IF ~value.ok \/ value.rest = <<>> THEN {}
               ELSE Parse(name.field) \X Numeral(value.field) \X {value.rest}
  IN  IF entry = {} THEN [ok |-> FALSE] ELSE [ok |-> TRUE, entry |-> CHOOSE e \in entry : TRUE]

-----------------------------------------------------------------------------
TextInit ==
  /\ text = <<>>
  /\ printed = <<>>
  /\ textPc = "print"
  /\ offset = 0
  /\ entries = <<>>

Count(piece) == Cardinality({k \in DOMAIN text : text[k] = piece})

PrintLine ==
  /\ textPc = "print" /\ Count(LF) < LINES
  /\ \E algo \in DOMAIN Values, hex \in BOOLEAN, path \in Paths, pad \in Pads :
       \E value \in Values[algo] :
         /\ text' = text \o Line(algo, value, hex, path, pad)
         /\ printed' = Append(printed, <<algo, value, path>>)
  /\ UNCHANGED <<textPc, offset, entries>>

(* The manifest's keeper adds a blank line or a comment, ... *)
Annotate ==
  /\ textPc = "print" /\ Count(LF) < LINES
  /\ \E line \in {<<LF>>, <<SP, LF>>, <<HASH, "x", LF>>, <<SP, HASH, CR, LF>>} :
       text' = text \o line
  /\ UNCHANGED <<printed, textPc, offset, entries>>

CrLf(pieces) ==
  FoldLeft(LAMBDA s, piece : s \o (IF piece = LF THEN <<CR, LF>> ELSE <<piece>>), <<>>, pieces)

(* ... or keeps it on a system where lines end in CR LF.                  *)
ToCrLf ==
  /\ textPc = "print"
  /\ \E k \in 2 .. Len(text) : text[k] = LF /\ text[k - 1] # CR
  /\ text' = CrLf(text)
  /\ UNCHANGED <<printed, textPc, offset, entries>>

Check ==
  /\ textPc = "print"
  /\ textPc' = "parse"
  /\ UNCHANGED <<text, printed, offset, entries>>

Taken == TrimCr(TextLines[offset + 1])

SkipLine ==
  /\ textPc = "parse" /\ offset < Len(TextLines)
  /\ Ignored(Taken)
  /\ offset' = offset + 1
  /\ UNCHANGED <<text, printed, textPc, entries>>

TakeEntry ==
  /\ textPc = "parse" /\ offset < Len(TextLines)
  /\ ~Ignored(Taken) /\ ParseLine(Taken).ok
  /\ entries' = Append(entries, ParseLine(Taken).entry)
  /\ offset' = offset + 1
  /\ UNCHANGED <<text, printed, textPc>>

(* One bad line, and the manifest is refused with its number.             *)
BadLine ==
  /\ textPc = "parse" /\ offset < Len(TextLines)
  /\ ~Ignored(Taken) /\ ~ParseLine(Taken).ok
  /\ textPc' = "error"
  /\ UNCHANGED <<text, printed, offset, entries>>

Parsed ==
  /\ textPc = "parse" /\ offset = Len(TextLines)
  /\ textPc' = "parsed"
  /\ UNCHANGED <<text, printed, offset, entries>>

TextNext ==
  \/ PrintLine \/ Annotate \/ ToCrLf \/ Check
  \/ SkipLine \/ TakeEntry \/ BadLine \/ Parsed

TextSpec == TextInit /\ [][TextNext]_textVars

-----------------------------------------------------------------------------
(* What a line of the format can carry: no newline in the path, no white  *)
(* space before it, no carriage return at its end.                        *)
Carried(path) == path[1] \notin White /\ Last(path) # CR /\ LF \notin ToSet(path)

AllCarried == \A n \in DOMAIN printed : Carried(printed[n][3])

(* No entry without a line of its own; the path of an entry does not      *)
(* begin with white space or end in a carriage return.                    *)
TextTypeOK ==
  /\ textPc \in {"print", "parse", "parsed", "error"}
  /\ offset \in 0 .. Len(TextLines)
  /\ Len(entries) <= offset
  /\ \A n \in DOMAIN entries :
       /\ entries[n][1] \in ToSet(ALL) /\ entries[n][2] \in 0 .. MAX_U64
       /\ entries[n][3] # <<>> /\ entries[n][3][1] \notin White /\ Last(entries[n][3]) # CR

(* help.rs:32-42: what crc prints is what --check reads, with comments,   *)
(* blank lines and either end of line in between: the entries are the     *)
(* printed lines, in order, in hexadecimal or decimal, spaces in paths    *)
(* and all, for every path that the format can carry.                     *)
RoundTrip ==
  /\ textPc = "parsed" /\ AllCarried => entries = printed
  /\ textPc = "error" => ~AllCarried
=============================================================================
