------------------------------ MODULE Numerals ------------------------------
(***************************************************************************)
(* Numbers as text, the way the crc command prints and reads checksums    *)
(* (Checksum::render and parse_value in algo.rs) and the fuzzer prints    *)
(* and reads seeds (report.rs, parse_seed).  A text is a sequence of      *)
(* characters.                                                             *)
(***************************************************************************)
EXTENDS Integers, SequencesExt

CONSTANT MAX_U64

HEX == <<"0", "1", "2", "3", "4", "5", "6", "7", "8", "9", "A", "B", "C", "D", "E", "F">>

BLANK == " "

Starts(word, prefix) == Len(prefix) <= Len(word) /\ SubSeq(word, 1, Len(prefix)) = prefix

(* The parts of a text between separators: one more than there are of them. *)
Split(word, separator) ==
  FoldLeft(LAMBDA parts, c : IF c = separator THEN Append(parts, <<>>)
                             ELSE Front(parts) \o <<Append(Last(parts), c)>>,
           <<<<>>>>, word)

Trim(word) ==
  LET text == {j \in DOMAIN word : word[j] # BLANK}
  IN  IF text = {} THEN <<>> ELSE SubSeq(word, Min(text), Max(text))

ValueOf(digit) == SelectInSeq(HEX, LAMBDA c : c = digit) - 1

AllDigits(text, radix) ==
  text # <<>> /\ \A j \in DOMAIN text : ValueOf(text[j]) \in 0 .. radix - 1

NumberOf(text, radix) == FoldLeft(LAMBDA n, c : n * radix + ValueOf(c), 0, text)

(* u64::from_str_radix: the set of the number, or of none. *)
Unsigned(word, radix) ==
  LET digits == IF Starts(word, <<"+">>) THEN Tail(word) ELSE word
  IN  IF AllDigits(digits, radix) /\ NumberOf(digits, radix) <= MAX_U64
      THEN {NumberOf(digits, radix)} ELSE {}

(* Mutant: only decimals are read. *)
NumeralDecimalOnly(word) == Unsigned(Trim(word), 10)

(* parse_seed and parse_value: hexadecimal with 0x in front, or decimal. *)
Numeral(word) ==
  LET text == Trim(word)
  IN  IF Starts(text, <<"0", "x">>) \/ Starts(text, <<"0", "X">>)
      THEN Unsigned(SubSeq(text, 3, Len(text)), 16)
      ELSE Unsigned(text, 10)

(* "{}" and "0x{:0width$X}", where a wider number takes its own width. *)
Digits(n, radix) ==
  LET digits[m \in Nat] ==
        IF m < radix THEN <<HEX[m + 1]>>
                     ELSE Append(digits[m \div radix], HEX[(m % radix) + 1])
  IN  digits[n]

Decimal(n) == Digits(n, 10)

Hexadecimal(n, width) ==
  <<"0", "x">> \o [j \in 1 .. width - Len(Digits(n, 16)) |-> "0"] \o Digits(n, 16)
=============================================================================
