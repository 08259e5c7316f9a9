------------------------------ MODULE TextProofs ------------------------------
(***************************************************************************)
(* What is written as text is read back.  A number that was printed, in   *)
(* decimal or in hexadecimal, is the number that is parsed; the lines     *)
(* that crc FILE... prints are the entries that crc --check reads          *)
(* (ManifestText); and the command lines in a log of the fuzzer ask for   *)
(* the run that wrote it (FuzzArgs).                                       *)
(***************************************************************************)
EXTENDS ManifestText, FuzzArgs, FiniteSetTheorems, SequenceTheorems, TLAPS

-----------------------------------------------------------------------------
(* Numbers as text: what is written is read back.                         *)

Radix == {10, 16}
Digit == {HEX[v + 1] : v \in 0 .. 15}

NumberStep(radix, n, c) == n * radix + ValueOf(c)
Numbers == INSTANCE FoldLemmas WITH Op <- NumberStep

LEMMA NumberFold ==
  ASSUME NEW word, NEW radix
  PROVE  NumberOf(word, radix) = Numbers!Fold(radix, 0, word)
BY DEF NumberOf, NumberStep, Numbers!Fold, Numbers!FoldLeft, Numbers!MapThenFoldSet,
       Numbers!Max, FoldLeft, MapThenFoldSet, Max

(* The sixteen digits are told apart, and from what may stand around them. *)
LEMMA DigitsApart ==
  /\ \A u, v \in 0 .. 15 : HEX[u + 1] = HEX[v + 1] => u = v
  /\ Len(HEX) = 16
  /\ \A c \in Digit : c \notin {BLANK, "+", "-", "x", "X", "lf", "cr", "tab", "#"}
  /\ BLANK \notin {"x", "--"}
<1>1. \A u, v \in 0 .. 15 : HEX[u + 1] = HEX[v + 1] => u = v
  BY DEF HEX
<1>2. Len(HEX) = 16
  BY DEF HEX
<1>3. \A j \in 1 .. 16 : HEX[j] \notin {" ", "+", "-", "x", "X", "lf", "cr", "tab", "#"}
  <2>1. \A j \in 1 .. 16 : HEX[j] \in {"0", "1", "2", "3", "4", "5", "6", "7", "8", "9",
                                      "A", "B", "C", "D", "E", "F"}
    BY DEF HEX
  <2> QED
    BY <2>1
<1>4. \A v \in 0 .. 15 : v + 1 \in 1 .. 16
  OBVIOUS
<1>5. BLANK \notin {"x", "--"}
  BY DEF BLANK
<1> QED
  BY <1>1, <1>2, <1>3, <1>4, <1>5 DEF Digit, BLANK

(* Where the first of a sequence lies that passes a test. *)
LEMMA ValueOfDigit ==
  ASSUME NEW v \in 0 .. 15
  PROVE  ValueOf(HEX[v + 1]) = v
<1> DEFINE I == {j \in 1 .. Len(HEX) : HEX[j] = HEX[v + 1]}
<1>1. I = {v + 1}
  <2>1. \A j \in 1 .. 16 : HEX[j] = HEX[v + 1] => j = v + 1
    <3> SUFFICES ASSUME NEW j \in 1 .. 16, HEX[j] = HEX[v + 1] PROVE j = v + 1
      OBVIOUS
    <3>1. j - 1 \in 0 .. 15 /\ (j - 1) + 1 = j
      OBVIOUS
    <3>2. j - 1 = v
      BY <3>1, DigitsApart
    <3> QED
      BY <3>2
  <2>2. v + 1 \in 1 .. 16
    OBVIOUS
  <2>3. Len(HEX) = 16
    BY DigitsApart
  <2> QED
    BY <2>1, <2>2, <2>3, Zenon
<1>2. SelectInSeq(HEX, LAMBDA c : c = HEX[v + 1]) = IF I = {} THEN 0 ELSE Min(I)
  BY DEF SelectInSeq
<1> HIDE DEF I
<1>3. Min({v + 1}) = v + 1
  <2>1. \E x \in {v + 1} : \A y \in {v + 1} : x <= y
    OBVIOUS
  <2> QED
    BY <2>1 DEF Min
<1> QED
  BY <1>1, <1>2, <1>3 DEF ValueOf

-----------------------------------------------------------------------------
(* The recursion of Digits exists. *)
DigitsFrom(f, m, radix) ==
  IF m < radix THEN <<HEX[m + 1]>> ELSE Append(f[m \div radix], HEX[(m % radix) + 1])

LEMMA Quotient ==
  ASSUME NEW radix \in Radix, NEW m \in Nat
  PROVE  /\ m \div radix \in Nat
         /\ m >= radix => m \div radix < m
         /\ m % radix \in 0 .. radix - 1
         /\ (m \div radix) * radix + (m % radix) = m
BY DEF Radix

IsDigits(f, S, radix) == f = [m \in S |-> DigitsFrom(f, m, radix)]

LEMMA DigitsUnique ==
  ASSUME NEW radix \in Radix, NEW d \in Nat, NEW e \in Nat, d <= e,
         NEW f, NEW g, IsDigits(f, 0 .. d, radix), IsDigits(g, 0 .. e, radix)
  PROVE  \A m \in 0 .. d : f[m] = g[m]
<1> DEFINE S == {k \in Nat : \A m \in 0 .. k : m <= d => f[m] = g[m]}
<1>1. ASSUME NEW m \in 0 .. d, \A j \in 0 .. m - 1 : f[j] = g[j] PROVE f[m] = g[m]
  <2>1. f[m] = DigitsFrom(f, m, radix) /\ g[m] = DigitsFrom(g, m, radix)
    <3>1. m \in 0 .. d /\ m \in 0 .. e
      OBVIOUS
    <3> QED
      BY <3>1 DEF IsDigits
  <2>2. m >= radix => m \div radix \in 0 .. m - 1
    BY Quotient DEF Radix
  <2>3. m >= radix => f[m \div radix] = g[m \div radix]
    BY <1>1, <2>2
  <2> QED
    BY <2>1, <2>3 DEF DigitsFrom, Radix
<1>2. 0 \in S
  BY <1>1
<1>3. ASSUME NEW k \in Nat, k \in S PROVE k + 1 \in S
  <2>1. \A j \in 0 .. k : j <= d => f[j] = g[j]
    BY <1>3
  <2>2. k + 1 <= d => f[k + 1] = g[k + 1]
    BY <1>1, <2>1
  <2> HIDE DEF S
  <2>3. \A m \in 0 .. k + 1 : m <= d => f[m] = g[m]
    BY <2>1, <2>2
  <2> QED
    BY <2>3 DEF S
<1>4. Nat \subseteq S
  <2> HIDE DEF S
  <2> QED
    BY <1>2, <1>3, Numbers!NatSetInduction
<1> QED
  BY <1>4

LEMMA DigitsUpTo ==
  ASSUME NEW radix \in Radix, NEW d \in Nat
  PROVE  \E f : IsDigits(f, 0 .. d, radix)
<1> DEFINE S == {k \in Nat : \E f : IsDigits(f, 0 .. k, radix)}
<1>1. 0 \in S
  <2> DEFINE f == [m \in 0 .. 0 |-> <<HEX[m + 1]>>]
  <2>1. \A m \in 0 .. 0 : DigitsFrom(f, m, radix) = <<HEX[m + 1]>>
    BY DEF DigitsFrom, Radix
  <2>2. f = [m \in 0 .. 0 |-> DigitsFrom(f, m, radix)]
    <3> HIDE DEF f
    <3> QED
      BY <2>1 DEF f
  <2> QED
    BY <2>2 DEF IsDigits
<1>2. ASSUME NEW k \in Nat, k \in S PROVE k + 1 \in S
  <2>1. PICK f : IsDigits(f, 0 .. k, radix)
    BY <1>2
  <2> DEFINE g == [m \in 0 .. k + 1 |-> IF m = k + 1 THEN DigitsFrom(f, m, radix) ELSE f[m]]
  <2>2. ASSUME NEW m \in 0 .. k + 1 PROVE g[m] = DigitsFrom(g, m, radix)
    <3>1. m >= radix => m \div radix \in 0 .. k /\ m \div radix # k + 1
      BY Quotient DEF Radix
    <3>2. m >= radix => g[m \div radix] = f[m \div radix]
      BY <3>1
    <3>3. m # k + 1 => m \in 0 .. k
      OBVIOUS
    <3>4. m # k + 1 => f[m] = DigitsFrom(f, m, radix)
      BY <2>1, <3>3 DEF IsDigits
    <3>5. g[m] = DigitsFrom(f, m, radix)
      BY <3>4
    <3> HIDE DEF g
    <3> QED
      BY <3>2, <3>5 DEF DigitsFrom, Radix
  <2>3. g = [m \in 0 .. k + 1 |-> g[m]]
    OBVIOUS
  <2> HIDE DEF g
  <2>4. IsDigits(g, 0 .. k + 1, radix)
    BY <2>2, <2>3 DEF IsDigits
  <2> QED
    BY <2>4
<1>3. Nat \subseteq S
  <2> HIDE DEF S
  <2> QED
    BY <1>1, <1>2, Numbers!NatSetInduction
<1> QED
  BY <1>3

LEMMA DigitsExist ==
  ASSUME NEW radix \in Radix
  PROVE  \E f : IsDigits(f, Nat, radix)
<1> DEFINE G(d) == CHOOSE f : IsDigits(f, 0 .. d, radix)
           f == [m \in Nat |-> G(m)[m]]
<1>1. \A d \in Nat : IsDigits(G(d), 0 .. d, radix)
  BY DigitsUpTo
<1> HIDE DEF G
<1>2. ASSUME NEW m \in Nat PROVE f[m] = DigitsFrom(f, m, radix)
  <2>1. G(m)[m] = DigitsFrom(G(m), m, radix)
    <3>1. IsDigits(G(m), 0 .. m, radix) /\ m \in 0 .. m
      BY <1>1
    <3> QED
      BY <3>1 DEF IsDigits
  <2> DEFINE q == m \div radix
  <2>2. m >= radix => q \in Nat /\ q <= m
    BY Quotient DEF Radix
  <2>3. m >= radix => G(q)[q] = G(m)[q]
    <3> SUFFICES ASSUME m >= radix PROVE G(q)[q] = G(m)[q]
      OBVIOUS
    <3>1. q \in Nat /\ q <= m /\ q \in 0 .. q
      BY <2>2
    <3>2. IsDigits(G(q), 0 .. q, radix) /\ IsDigits(G(m), 0 .. m, radix)
      BY <1>1, <3>1
    <3> HIDE DEF q
    <3> QED
      BY <3>1, <3>2, DigitsUnique
  <2>4. m >= radix => f[q] = G(m)[q]
    BY <2>2, <2>3
  <2> HIDE DEF f
  <2>5. f[m] = G(m)[m]
    BY DEF f
  <2> QED
    BY <2>1, <2>4, <2>5 DEF DigitsFrom, Radix
<1>3. f = [m \in Nat |-> f[m]]
  OBVIOUS
<1> HIDE DEF f
<1>4. IsDigits(f, Nat, radix)
  BY <1>2, <1>3 DEF IsDigits
<1> QED
  BY <1>4

(* The equation of Digits. *)
LEMMA DigitsStep ==
  ASSUME NEW radix \in Radix, NEW n \in Nat
  PROVE  Digits(n, radix) = IF n < radix THEN <<HEX[n + 1]>>
                            ELSE Append(Digits(n \div radix, radix), HEX[(n % radix) + 1])
<1> DEFINE f == CHOOSE f : IsDigits(f, Nat, radix)
<1>1. IsDigits(f, Nat, radix)
  BY DigitsExist
<1>2. \A m \in Nat : Digits(m, radix) = f[m]
  BY DEF Digits, IsDigits, DigitsFrom
<1> HIDE DEF f
<1>3. f[n] = DigitsFrom(f, n, radix)
  BY <1>1 DEF IsDigits
<1>4. n \div radix \in Nat
  BY Quotient
<1> QED
  BY <1>2, <1>3, <1>4 DEF DigitsFrom

(* Reading the digits of a number in its own radix gives the number. *)
WrittenWell(n, radix) ==
  /\ Digits(n, radix) \in Seq({HEX[v + 1] : v \in 0 .. radix - 1})
  /\ Digits(n, radix) # <<>>
  /\ NumberOf(Digits(n, radix), radix) = n

LEMMA DigitsRead ==
  ASSUME NEW radix \in Radix, NEW n \in Nat
  PROVE  WrittenWell(n, radix)
<1> DEFINE Own == {HEX[v + 1] : v \in 0 .. radix - 1}
           S == {k \in Nat : \A m \in 0 .. k : WrittenWell(m, radix)}
<1>0. radix \in Nat /\ radix <= 16 /\ radix >= 2
  BY DEF Radix
<1>1. ASSUME NEW m \in Nat, \A j \in 0 .. m - 1 : WrittenWell(j, radix)
      PROVE  WrittenWell(m, radix)
  <2>1. CASE m < radix
    <3>1. Digits(m, radix) = Append(<<>>, HEX[m + 1])
      BY <2>1, DigitsStep
    <3>2. HEX[m + 1] \in Own /\ m \in 0 .. 15
      BY <1>0, <2>1
    <3>3. NumberOf(Digits(m, radix), radix) = NumberStep(radix, 0, HEX[m + 1])
      <4>1. <<>> \in Seq(Own)
        OBVIOUS
      <4>2. Numbers!Fold(radix, 0, Append(<<>>, HEX[m + 1]))
              = NumberStep(radix, Numbers!Fold(radix, 0, <<>>), HEX[m + 1])
        <5> DEFINE e == HEX[m + 1]
        <5>1. e \in Own
          BY <3>2
        <5> DEFINE none == <<>>
        <5> HIDE DEF Own, e
        <5>2. none \in Seq(Own)
          BY <4>1
        <5> HIDE DEF none
        <5>3. Numbers!Fold(radix, 0, Append(none, e)) = NumberStep(radix, Numbers!Fold(radix, 0, none), e)
          BY <5>1, <5>2, Numbers!FoldAppend
        <5> QED
          BY <5>3 DEF e, none
      <4> QED
        BY <3>1, <4>2, Numbers!FoldEmpty, NumberFold
    <3>4. NumberStep(radix, 0, HEX[m + 1]) = m
      BY <1>0, <3>2, ValueOfDigit DEF NumberStep
    <3>5. Append(<<>>, HEX[m + 1]) \in Seq(Own) /\ Append(<<>>, HEX[m + 1]) # <<>>
      BY <3>2
    <3> QED
      BY <3>1, <3>3, <3>4, <3>5 DEF WrittenWell
  <2>2. CASE m >= radix
    <3> DEFINE q == m \div radix
               r == m % radix
               chars == Digits(q, radix)
               c == HEX[r + 1]
    <3>0. radix \in Radix /\ m \in Nat
      OBVIOUS
    <3>1. q \in 0 .. m - 1 /\ r \in 0 .. radix - 1 /\ q * radix + r = m /\ q \in Nat
      <4>1. q \in Nat /\ q < m /\ r \in 0 .. radix - 1 /\ q * radix + r = m
        BY <3>0, <2>2, Quotient
      <4> HIDE DEF q, r
      <4> QED
        BY <4>1
    <3>2. Digits(m, radix) = Append(chars, c)
      <4>1. ~(m < radix)
        BY <1>0, <2>2
      <4> QED
        BY <3>0, <4>1, DigitsStep
    <3>3. chars \in Seq(Own) /\ NumberOf(chars, radix) = q
      BY <1>1, <3>1 DEF WrittenWell
    <3>4. c \in Own /\ r \in 0 .. 15
      BY <1>0, <3>1
    <3>5. ValueOf(c) = r
      BY <3>4, ValueOfDigit
    <3> HIDE DEF q, r, chars, c, Own
    <3>6. NumberOf(Append(chars, c), radix) = NumberStep(radix, NumberOf(chars, radix), c)
      BY <3>3, <3>4, NumberFold, Numbers!FoldAppend
    <3>7. NumberStep(radix, q, c) = m
      BY <3>1, <3>5 DEF NumberStep
    <3>8. Append(chars, c) \in Seq(Own) /\ Append(chars, c) # <<>>
      BY <3>3, <3>4, AppendProperties
    <3> QED
      BY <3>2, <3>3, <3>6, <3>7, <3>8 DEF WrittenWell, Own
  <2> QED
    BY <1>0, <2>1, <2>2
<1>2. 0 \in S
  BY <1>1
<1>3. ASSUME NEW k \in Nat, k \in S PROVE k + 1 \in S
  <2>1. \A j \in 0 .. k : WrittenWell(j, radix)
    BY <1>3
  <2>2. WrittenWell(k + 1, radix)
    BY <1>1, <2>1
  <2>3. \A j \in 0 .. k + 1 : WrittenWell(j, radix)
    <3> HIDE DEF S
    <3> QED
      BY <2>1, <2>2
  <2> QED
    BY <2>3
<1>4. Nat \subseteq S
  <2> HIDE DEF S
  <2> QED
    BY <1>2, <1>3, Numbers!NatSetInduction
<1> QED
  BY <1>4

-----------------------------------------------------------------------------
(* A text of digits is taken as it stands: nothing is trimmed, and no     *)
(* prefix is found.                                                       *)

LEMMA TrimNoBlank ==
  ASSUME NEW E, NEW word \in Seq(E), BLANK \notin E
  PROVE  Trim(word) = word
<1>1. Len(word) \in Nat /\ DOMAIN word = 1 .. Len(word) /\ \A j \in 1 .. Len(word) : word[j] \in E
  OBVIOUS
<1> DEFINE n == Len(word)
           I == {j \in DOMAIN word : word[j] # BLANK}
           trimmed == IF I = {} THEN <<>> ELSE SubSeq(word, Min(I), Max(I))
<1>2. I = 1 .. n
  BY <1>1
<1>3. trimmed = IF I = {} THEN <<>> ELSE SubSeq(word, Min(I), Max(I))
  OBVIOUS
<1>4. SubSeq(word, 1, n) = word
  BY SubSeqFull
<1>5. n = 0 => word = <<>>
  OBVIOUS
<1>6. n \in Nat
  BY <1>1
<1> SUFFICES trimmed = word
  BY DEF Trim
<1> HIDE DEF n, I, trimmed
<1>7. CASE n = 0
  <2>1. I = {}
    BY <1>2, <1>7
  <2> QED
    BY <1>3, <1>5, <1>7, <2>1
<1>8. CASE n # 0
  <2> DEFINE m == Min(I)
  <2>1. \E x \in I : \A y \in I : x <= y
    <3>1. 1 \in I /\ \A y \in I : 1 <= y
      BY <1>2, <1>6, <1>8
    <3> QED
      BY <3>1
  <2>2. m \in I /\ \A y \in I : m <= y
    BY <2>1 DEF Min
  <2> HIDE DEF m
  <2>3. m = 1
    BY <1>2, <1>6, <1>8, <2>2
  <2>4. Max(1 .. n) = n
    BY <1>6, <1>8, Numbers!MaxOfInterval DEF Max, Numbers!Max
  <2>5. I # {}
    BY <2>2
  <2>6. trimmed = SubSeq(word, Min(I), Max(I))
    BY <1>3, <2>5
  <2>7. Min(I) = 1 /\ Max(I) = n
    BY <1>2, <2>3, <2>4 DEF m
  <2> QED
    BY <1>4, <2>6, <2>7
<1> QED
  BY <1>7, <1>8

(* A pair begins with its first element. *)
LEMMA Elements ==
  ASSUME NEW a, NEW c
  PROVE  <<c>>[1] = c /\ <<a, c>>[1] = a /\ <<a, c>>[2] = c
OBVIOUS

LEMMA NoPrefix ==
  ASSUME NEW E, NEW word \in Seq(E)
  PROVE  /\ "+" \notin E => ~Starts(word, <<"+">>)
         /\ "x" \notin E => ~Starts(word, <<"0", "x">>)
         /\ "X" \notin E => ~Starts(word, <<"0", "X">>)
<1>1. ASSUME "+" \notin E, Starts(word, <<"+">>) PROVE FALSE
  <2>1. 1 <= Len(word) /\ SubSeq(word, 1, 1) = <<"+">>
    BY <1>1 DEF Starts
  <2>2. SubSeq(word, 1, 1)[1] = word[1] /\ word[1] \in E
    BY <2>1
  <2>3. SubSeq(word, 1, 1)[1] = "+"
    BY <2>1, Elements, Zenon
  <2> QED
    BY <1>1, <2>2, <2>3
<1>2. ASSUME NEW c, c \notin E, Starts(word, <<"0", c>>) PROVE FALSE
  <2>1. 2 <= Len(word) /\ SubSeq(word, 1, 2) = <<"0", c>>
    BY <1>2 DEF Starts
  <2>2. SubSeq(word, 1, 2)[2] = word[2] /\ word[2] \in E
    BY <2>1
  <2> DEFINE both == SubSeq(word, 1, 2)
             zero == "0"
  <2>3. both = <<zero, c>>
    BY <2>1
  <2> HIDE DEF both, zero
  <2>4. both[2] = c
    BY <2>3, Elements
  <2> QED
    BY <1>2, <2>2, <2>4 DEF both
<1> QED
  BY <1>1, <1>2

Own(radix) == {HEX[v + 1] : v \in 0 .. radix - 1}

LEMMA OwnDigits ==
  ASSUME NEW radix \in Radix
  PROVE  /\ Own(radix) \subseteq Digit
         /\ "0" \in Own(radix)
         /\ \A c \in Own(radix) : ValueOf(c) \in 0 .. radix - 1
         /\ ValueOf("0") = 0
<1>1. radix \in Nat /\ radix <= 16 /\ radix >= 2
  BY DEF Radix
<1>2. \A v \in 0 .. radix - 1 : v \in 0 .. 15
  BY <1>1
<1>3. \A v \in 0 .. radix - 1 : ValueOf(HEX[v + 1]) = v
  BY <1>2, ValueOfDigit
<1>4. HEX[0 + 1] = "0"
  BY DEF HEX
<1>5. 0 \in 0 .. radix - 1
  BY <1>1
<1> QED
  BY <1>2, <1>3, <1>4, <1>5 DEF Own, Digit

LEMMA UnsignedRead ==
  ASSUME NEW radix \in Radix, NEW word \in Seq(Own(radix)), word # <<>>,
         NEW value \in 0 .. MAX_U64, NumberOf(word, radix) = value, MAX_U64 \in Nat
  PROVE  Unsigned(word, radix) = {value}
<1>1. ~Starts(word, <<"+">>)
  BY OwnDigits, DigitsApart, NoPrefix
<1>2. \A j \in DOMAIN word : word[j] \in Own(radix)
  OBVIOUS
<1>3. AllDigits(word, radix)
  BY <1>2, OwnDigits DEF AllDigits
<1> QED
  BY <1>1, <1>3 DEF Unsigned

(* A number that is written in decimal is read, by either reader. *)
LEMMA DecimalRead ==
  ASSUME NEW value \in 0 .. MAX_U64, MAX_U64 \in Nat
  PROVE  /\ Decimal(value) \in Seq(Digit) /\ Decimal(value) # <<>>
         /\ Unsigned(Decimal(value), 10) = {value}
         /\ Numeral(Decimal(value)) = {value}
<1> DEFINE word == Digits(value, 10)
<1>0. 10 \in Radix /\ value \in Nat
  BY DEF Radix
<1>1. word \in Seq(Own(10)) /\ word # <<>> /\ NumberOf(word, 10) = value
  BY <1>0, DigitsRead DEF WrittenWell, Own
<1>2. Own(10) \subseteq Digit
  BY <1>0, OwnDigits
<1> HIDE DEF word
<1>3. word \in Seq(Digit)
  BY <1>1, <1>2
<1>4. Unsigned(word, 10) = {value}
  BY <1>0, <1>1, UnsignedRead
<1>5. Trim(word) = word
  BY <1>3, DigitsApart, TrimNoBlank
<1>6. ~Starts(word, <<"0", "x">>) /\ ~Starts(word, <<"0", "X">>)
  <2>1. "x" \notin Digit /\ "X" \notin Digit
    BY DigitsApart
  <2> QED
    BY <1>3, <2>1, NoPrefix
<1>7. Numeral(word) = {value}
  BY <1>4, <1>5, <1>6 DEF Numeral
<1> QED
  BY <1>1, <1>3, <1>4, <1>7 DEF Decimal, word

(* And so is one that is written in hexadecimal, however many zeros are   *)
(* put in front.                                                          *)
LEMMA HexadecimalRead ==
  ASSUME NEW value \in 0 .. MAX_U64, MAX_U64 \in Nat, NEW width \in Nat
  PROVE  /\ Hexadecimal(value, width) \in Seq(Digit \cup {"x"})
         /\ Hexadecimal(value, width) # <<>>
         /\ Numeral(Hexadecimal(value, width)) = {value}
<1> DEFINE digits == Digits(value, 16)
           zeros == [j \in 1 .. width - Len(digits) |-> "0"]
           body == zeros \o digits
           word == <<"0", "x">> \o zeros \o digits
<1>0. 16 \in Radix /\ value \in Nat
  BY DEF Radix
<1>1. digits \in Seq(Own(16)) /\ digits # <<>> /\ NumberOf(digits, 16) = value
  BY <1>0, DigitsRead DEF WrittenWell, Own
<1>2. Own(16) \subseteq Digit /\ "0" \in Own(16) /\ ValueOf("0") = 0
  BY <1>0, OwnDigits
<1> HIDE DEF digits
<1>3. zeros \in Seq({"0"}) /\ zeros \in Seq(Own(16))
  <2>1. Len(digits) \in Nat
    BY <1>1
  <2>2. width - Len(digits) \in Int
    BY <2>1
  <2> DEFINE n == IF width - Len(digits) >= 0 THEN width - Len(digits) ELSE 0
  <2>3. n \in Nat /\ 1 .. width - Len(digits) = 1 .. n
    BY <2>2
  <2> HIDE DEF n
  <2>4. zeros = [j \in 1 .. n |-> "0"]
    BY <2>3
  <2> HIDE DEF zeros
  <2> QED
    BY <1>2, <2>3, <2>4
<1> HIDE DEF zeros
<1>4. NumberOf(zeros, 16) = 0
  <2>1. \A acc \in {0}, e \in {"0"} : NumberStep(16, acc, e) \in {0}
    BY <1>2 DEF NumberStep
  <2> DEFINE none == 0
             Z == {"0"}
  <2>2. zeros \in Seq(Z)
    BY <1>3
  <2>3. \A acc \in {none}, e \in Z : NumberStep(16, acc, e) \in {none}
    BY <2>1
  <2> HIDE DEF none, Z
  <2>4. Numbers!Fold(16, none, zeros) \in {none}
    BY <2>2, <2>3, none \in {none}, Numbers!FoldType
  <2> QED
    BY <2>4, NumberFold DEF none
<1>5. NumberOf(body, 16) = value
  <2>1. Numbers!Fold(16, 0, zeros \o digits) = Numbers!Fold(16, Numbers!Fold(16, 0, zeros), digits)
    BY <1>1, <1>3, Numbers!FoldConcat
  <2> QED
    BY <1>1, <1>4, <2>1, NumberFold
<1>6. body \in Seq(Own(16)) /\ body # <<>>
  BY <1>1, <1>3
<1>7. Unsigned(body, 16) = {value}
  BY <1>0, <1>5, <1>6, UnsignedRead
<1>8. word = <<"0", "x">> \o body
  BY <1>1, <1>3
<1> HIDE DEF body, word
<1>9. body \in Seq(Digit \cup {"x"}) /\ <<"0", "x">> \in Seq(Digit \cup {"x"})
  BY <1>2, <1>6
<1>10. word \in Seq(Digit \cup {"x"}) /\ word # <<>> /\ Len(word) = Len(body) + 2
  BY <1>8, <1>9
<1>11. Trim(word) = word
  BY <1>10, DigitsApart, TrimNoBlank
<1>12. SubSeq(word, 1, 2) = <<"0", "x">> /\ SubSeq(word, 3, Len(word)) = body
  <2> DEFINE p == <<"0", "x">>
             n == Len(body)
             E == Digit \cup {"x"}
  <2>1. p \in Seq(E) /\ Len(p) = 2 /\ n \in Nat /\ n # 0
    BY <1>6, <1>9
  <2>2. word = p \o body /\ body \in Seq(E) /\ Len(word) = n + 2
    BY <1>8, <1>9, <1>10
  <2>3. SubSeq(p, 1, 2) = p /\ SubSeq(body, 1, n) = body
    BY <2>1, <2>2, SubSeqFull
  <2> HIDE DEF p, n, E
  <2>a. 1 \in 1 .. Len(p) /\ 2 \in 1 .. Len(p)
    BY <2>1
  <2>b. n + 2 \in 3 .. n + 2 /\ 3 \in 3 .. n + 2
    BY <2>1
  <2>4. SubSeq(p \o body, 1, 2) = SubSeq(p, 1, 2)
    BY <2>1, <2>2, <2>a, SubSeqOfConcat1, Zenon
  <2>5. SubSeq(p \o body, 3, n + 2) = SubSeq(body, 1, n)
    <3>1. Len(p) + 1 = 3 /\ Len(p) + Len(body) = n + 2 /\ 3 - Len(p) = 1 /\ (n + 2) - Len(p) = n
      BY <2>1 DEF n
    <3> HIDE DEF n
    <3>2. /\ 3 \in Len(p) + 1 .. Len(p) + Len(body)
          /\ n + 2 \in Len(p) + 1 .. Len(p) + Len(body)
      BY <2>b, <3>1, Zenon
    <3>3. SubSeq(p \o body, 3, n + 2) = SubSeq(body, 3 - Len(p), (n + 2) - Len(p))
      BY <2>1, <2>2, <3>2, SubSeqOfConcat2, Zenon
    <3> QED
      BY <3>1, <3>3
  <2> QED
    BY <2>2, <2>3, <2>4, <2>5 DEF p
<1>13. Starts(word, <<"0", "x">>)
  BY <1>9, <1>10, <1>12 DEF Starts
<1>14. Numeral(word) = {value}
  BY <1>7, <1>11, <1>12, <1>13 DEF Numeral
<1> QED
  BY <1>10, <1>14 DEF Hexadecimal, word, zeros, digits

-----------------------------------------------------------------------------
(* A text without the separator has one part: itself. *)

SplitStep(separator, parts, c) ==
  IF c = separator THEN Append(parts, <<>>) ELSE Front(parts) \o <<Append(Last(parts), c)>>
Parts == INSTANCE FoldLemmas WITH Op <- SplitStep

LEMMA SplitFold ==
  ASSUME NEW word, NEW separator
  PROVE  Split(word, separator) = Parts!Fold(separator, <<<<>>>>, word)
BY DEF Split, SplitStep, Parts!Fold, Parts!FoldLeft, Parts!MapThenFoldSet, Parts!Max,
       FoldLeft, MapThenFoldSet, Max

(* What stands in the last part grows, and the others stay. *)
LEMMA SplitGrows ==
  ASSUME NEW C, NEW L, L = Seq(C), NEW closed \in Seq(L), NEW open \in L,
         NEW E, E \subseteq C, NEW separator, separator \notin E, NEW word \in Seq(E)
  PROVE  Parts!Fold(separator, Append(closed, open), word) = Append(closed, open \o word)
<1> DEFINE base == Append(closed, open)
           P == {w \in Seq(E) : Parts!Fold(separator, base, w) = Append(closed, open \o w)}
<1>0. open \in Seq(C) /\ closed \in Seq(Seq(C)) /\ base \in Seq(Seq(C))
  OBVIOUS
<1>1. <<>> \in P
  <2>1. open \o <<>> = open /\ <<>> \in Seq(E)
    BY <1>0
  <2>2. Parts!Fold(separator, base, <<>>) = base
    BY Parts!FoldEmpty
  <2> QED
    BY <2>1, <2>2
<1>2. ASSUME NEW w \in Seq(E), NEW c \in E, w \in P PROVE Append(w, c) \in P
  <2> DEFINE chars == open \o w
             fold == Parts!Fold(separator, base, w)
  <2>1. fold = Append(closed, chars)
    BY <1>2
  <2>2. c \in C /\ w \in Seq(C) /\ chars \in Seq(C)
    BY <1>0
  <2>3. Parts!Fold(separator, base, Append(w, c)) = SplitStep(separator, fold, c)
    BY Parts!FoldAppend
  <2>4. open \o Append(w, c) = Append(chars, c)
    BY <1>0, <2>2
  <2> HIDE DEF base, chars, fold
  <2>5. Front(fold) = closed /\ Last(fold) = chars
    BY <1>0, <2>1, <2>2 DEF Front, Last
  <2>6. SplitStep(separator, fold, c) = closed \o <<Append(chars, c)>>
    BY <2>5 DEF SplitStep
  <2>7. closed \o <<Append(chars, c)>> = Append(closed, Append(chars, c))
    BY <1>0, <2>2
  <2>8. Append(w, c) \in Seq(E)
    OBVIOUS
  <2> QED
    BY <2>3, <2>4, <2>6, <2>7, <2>8
<1>3. Seq(E) \subseteq P
  <2> HIDE DEF P
  <2> QED
    BY <1>1, <1>2, Parts!SeqSetInduction
<1> QED
  BY <1>3

LEMMA SplitNone ==
  ASSUME NEW E, NEW separator, separator \notin E, NEW word \in Seq(E)
  PROVE  Split(word, separator) = <<word>>
<1> DEFINE none == <<>>
<1>1. none \in Seq(Seq(E)) /\ none \in Seq(E)
  OBVIOUS
<1>2. Append(none, none) = <<<<>>>> /\ none \o word = word /\ Append(none, word) = <<word>>
  OBVIOUS
<1> HIDE DEF none
<1>3. Parts!Fold(separator, Append(none, none), word) = Append(none, none \o word)
  <2> DEFINE L == Seq(E)
  <2>1. L = Seq(E) /\ none \in Seq(L) /\ none \in L
    BY <1>1
  <2> HIDE DEF L
  <2> QED
    BY <2>1, SplitGrows
<1> QED
  BY <1>2, <1>3, SplitFold

-----------------------------------------------------------------------------
(* The shell leaves words without blanks as they are. *)

ShellStep(separator, line, word) == line \o Split(word, separator)
Shells == INSTANCE FoldLemmas WITH Op <- ShellStep

LEMMA ShellFold ==
  ASSUME NEW words
  PROVE  Shell(words) = Shells!Fold(BLANK, <<>>, words)
BY DEF Shell, ShellStep, Shells!Fold, Shells!FoldLeft, Shells!MapThenFoldSet, Shells!Max,
       FoldLeft, MapThenFoldSet, Max

LEMMA ShellWhole ==
  ASSUME NEW E, NEW separator, separator \notin E, NEW words \in Seq(Seq(E))
  PROVE  Shells!Fold(separator, <<>>, words) = words
<1> DEFINE P == {ws \in Seq(Seq(E)) : Shells!Fold(separator, <<>>, ws) = ws}
<1>1. <<>> \in P
  BY Shells!FoldEmpty
<1>2. ASSUME NEW ws \in Seq(Seq(E)), NEW w \in Seq(E), ws \in P PROVE Append(ws, w) \in P
  <2>1. Shells!Fold(separator, <<>>, Append(ws, w)) = ShellStep(separator, ws, w)
    BY <1>2, Shells!FoldAppend
  <2>2. ShellStep(separator, ws, w) = ws \o <<w>>
    BY SplitNone DEF ShellStep
  <2>3. ws \o <<w>> = Append(ws, w) /\ Append(ws, w) \in Seq(Seq(E))
    OBVIOUS
  <2> QED
    BY <2>1, <2>2, <2>3
<1>3. Seq(Seq(E)) \subseteq P
  <2> DEFINE W == Seq(E)
  <2>1. \A ws \in Seq(W), w \in W : ws \in P => Append(ws, w) \in P
    BY <1>2
  <2> HIDE DEF P, W
  <2>2. Seq(W) \subseteq P
    BY <1>1, <2>1, Shells!SeqSetInduction
  <2> QED
    BY <2>2 DEF W
<1> QED
  BY <1>3

LEMMA ShellLeaves ==
  ASSUME NEW E, BLANK \notin E, NEW words \in Seq(Seq(E))
  PROVE  Shell(words) = words
BY ShellFold, ShellWhole

-----------------------------------------------------------------------------
(* Whatever is read as a number is a u64. *)

LEMMA TrimType ==
  ASSUME NEW E, NEW word \in Seq(E)
  PROVE  Trim(word) \in Seq(E)
<1>1. Len(word) \in Nat /\ DOMAIN word = 1 .. Len(word)
  OBVIOUS
<1> DEFINE n == Len(word)
           I == {j \in DOMAIN word : word[j] # BLANK}
<1>2. I \subseteq 1 .. n /\ n \in Nat
  BY <1>1
<1>3. ASSUME NEW a \in 1 .. n, NEW b \in 1 .. n PROVE SubSeq(word, a, b) \in Seq(E)
  OBVIOUS
<1> SUFFICES ASSUME I # {} PROVE SubSeq(word, Min(I), Max(I)) \in Seq(E)
  BY DEF Trim
<1> HIDE DEF n, I
<1>4. \E x \in I : \A y \in I : x <= y
  <2>1. I \subseteq Nat
    BY <1>2
  <2> QED
    BY <2>1, Numbers!LeastOf
<1>5. \E x \in I : \A y \in I : x >= y
  <2> DEFINE J == {n - j : j \in I}
  <2>0. \A j \in I : n - j \in Nat
    BY <1>2
  <2>1. J \subseteq Nat /\ J # {}
    BY <2>0
  <2> HIDE DEF J
  <2>2. PICK d \in J : \A e \in J : d <= e
    BY <2>1, Numbers!LeastOf
  <2>3. PICK x \in I : d = n - x
    BY DEF J
  <2>4. ASSUME NEW y \in I PROVE x >= y
    <3>1. n - y \in J
      BY DEF J
    <3>2. n - x <= n - y
      BY <2>2, <2>3, <3>1
    <3>3. x \in Nat /\ y \in Nat
      BY <1>2
    <3> QED
      BY <1>2, <3>2, <3>3
  <2> QED
    BY <2>4
<1>6. Min(I) \in I
  BY <1>4 DEF Min
<1>7. Max(I) \in I
  BY <1>5 DEF Max
<1> QED
  BY <1>2, <1>3, <1>6, <1>7

LEMMA SignedHasOne ==
  ASSUME NEW word, NEW c, Starts(word, <<c>>)
  PROVE  1 <= Len(word)
BY DEF Starts

LEMMA UnsignedType ==
  ASSUME NEW radix \in Radix, NEW C, NEW word \in Seq(C), MAX_U64 \in Nat
  PROVE  Unsigned(word, radix) \subseteq 0 .. MAX_U64
<1> DEFINE digits == IF Starts(word, <<"+">>) THEN Tail(word) ELSE word
           E == {c \in C : ValueOf(c) \in 0 .. radix - 1}
<1>1. digits \in Seq(C)
  <2>1. Starts(word, <<"+">>) => 1 <= Len(word)
    BY SignedHasOne, Zenon
  <2>2. 1 <= Len(word) => Tail(word) \in Seq(C)
    OBVIOUS
  <2> QED
    BY <2>1, <2>2, Zenon
<1>2. Unsigned(word, radix) = IF AllDigits(digits, radix) /\ NumberOf(digits, radix) <= MAX_U64
                              THEN {NumberOf(digits, radix)} ELSE {}
  BY DEF Unsigned
<1> HIDE DEF digits
<1> SUFFICES ASSUME AllDigits(digits, radix) PROVE NumberOf(digits, radix) \in Nat
  BY <1>2
<1>3. digits \in Seq(E)
  <2>1. \A j \in 1 .. Len(digits) : digits[j] \in E
    BY <1>1 DEF AllDigits
  <2> HIDE DEF E
  <2> QED
    BY <1>1, <2>1
<1>4. \A n \in Nat, c \in E : NumberStep(radix, n, c) \in Nat
  <2> SUFFICES ASSUME NEW n \in Nat, NEW c \in E PROVE n * radix + ValueOf(c) \in Nat
    BY DEF NumberStep
  <2>1. ValueOf(c) \in 0 .. radix - 1
    OBVIOUS
  <2>2. radix = 10 \/ radix = 16
    BY DEF Radix
  <2> DEFINE v == ValueOf(c)
  <2> HIDE DEF E, v
  <2>3. v \in Nat
    <3>1. v \in 0 .. radix - 1
      BY <2>1 DEF v
    <3> QED
      BY <2>2, <3>1
  <2> USE DEF v
  <2> QED
    BY <2>2, <2>3
<1> HIDE DEF E
<1>5. Numbers!Fold(radix, 0, digits) \in Nat
  BY <1>3, <1>4, 0 \in Nat, Numbers!FoldType
<1> QED
  BY <1>5, NumberFold

LEMMA NumeralType ==
  ASSUME NEW C, NEW word \in Seq(C), MAX_U64 \in Nat
  PROVE  Numeral(word) \subseteq 0 .. MAX_U64
<1> DEFINE chars == Trim(word)
<1>1. chars \in Seq(C)
  BY TrimType
<1> HIDE DEF chars
<1>2. ASSUME NEW prefix \in {"x", "X"}, Starts(chars, <<"0", prefix>>)
      PROVE  SubSeq(chars, 3, Len(chars)) \in Seq(C)
  BY <1>1
<1>3. 10 \in Radix /\ 16 \in Radix
  BY DEF Radix
<1>4. Unsigned(chars, 10) \subseteq 0 .. MAX_U64
  BY <1>1, <1>3, UnsignedType
<1>5. SubSeq(chars, 3, Len(chars)) \in Seq(C)
  BY <1>1
<1>6. Unsigned(SubSeq(chars, 3, Len(chars)), 16) \subseteq 0 .. MAX_U64
  BY <1>3, <1>5, UnsignedType
<1> QED
  BY <1>4, <1>6 DEF Numeral, chars

-----------------------------------------------------------------------------
(* The command line of the fuzzer. *)

U64     == 0 .. MAX_U64
Options == DOMAIN Default

(* What words are made of: what the user writes, what a log holds. *)
Logged == Digit \cup Options \cup {"x", "--", "harness", "work", "log.txt"}
Chars  == Pieces \cup Logged
PlainChars  == Chars \ {BLANK}

LEMMA DefaultIs ==
  /\ Options = {"seed", "seconds", "cases", "batch", "start", "case", "oracle", "workdir", "log"}
  /\ Default = [f \in Options |-> Default[f]]
  /\ Default.seed = 0 /\ Default.cases = None /\ Default.batch = 50000 /\ Default.start = 0
  /\ Default.case = None /\ Default.oracle = <<"harness">>
  /\ Default.workdir = <<"work">> /\ Default.log = <<"log.txt">>
  /\ ~Negative(Default.seconds)
  /\ Holds(Default.seconds)
<1>1. Options = {"seed", "seconds", "cases", "batch", "start", "case", "oracle", "workdir", "log"}
  BY DEF Options, Default
<1>2. Default = [f \in Options |-> Default[f]]
  BY DEF Options, Default
<1>3. /\ Default.seed = 0 /\ Default.cases = None /\ Default.batch = 50000 /\ Default.start = 0
      /\ Default.case = None /\ Default.oracle = <<"harness">>
      /\ Default.workdir = <<"work">> /\ Default.log = <<"log.txt">>
      /\ Default.seconds = [is |-> "number", negative |-> FALSE, n |-> 60]
  BY DEF Default
<1>4. ~Negative(Default.seconds)
  BY <1>3 DEF Negative
<1>5. Holds(Default.seconds)
  BY <1>3, FuzzArgsAssumption DEF Holds
<1> QED
  BY <1>1, <1>2, <1>3, <1>4, <1>5

(* Every option has a value of its type. *)
ArgsTyped(a) ==
  /\ a = [f \in Options |-> a[f]]
  /\ a.seed \in U64 /\ a.start \in U64 /\ a.batch \in U64
  /\ a.cases \in U64 \cup {None} /\ a.case \in U64 \cup {None}
  /\ a.oracle \in Seq(Chars)

Numbered == {"seed", "cases", "batch", "start", "case"}

LEMMA OneWord ==
  ASSUME NEW E, NEW c \in E
  PROVE  <<c>> \in Seq(E)
OBVIOUS

LEMMA DefaultTyped == ArgsTyped(Default)
<1>1. <<"harness">> \in Seq(Chars)
  <2>1. "harness" \in Chars
    BY DEF Chars, Logged
  <2> QED
    BY <2>1, OneWord, Zenon
<1>2. 0 \in U64 /\ 50000 \in U64
  BY FuzzArgsAssumption DEF U64
<1>3. Default.oracle \in Seq(Chars)
  <2>1. Default.oracle = <<"harness">>
    BY DefaultIs
  <2> QED
    BY <1>1, <2>1, Zenon
<1> QED
  BY <1>2, <1>3, DefaultIs DEF ArgsTyped

LEMMA ReadingsType ==
  ASSUME NEW f \in Options, NEW word \in Seq(Chars)
  PROVE  /\ f \in Numbered => Readings(f, word) \subseteq U64
         /\ f \in {"oracle", "workdir", "log"} => Readings(f, word) = {word}
<1>1. MAX_U64 \in Nat
  BY FuzzArgsAssumption
<1>2. Numeral(word) \subseteq U64
  BY <1>1, NumeralType DEF U64
<1>3. Unsigned(word, 10) \subseteq U64
  BY <1>1, UnsignedType, 10 \in Radix DEF U64, Radix
<1>4. f = "seed" => Readings(f, word) = Numeral(word)
  BY DEF Readings
<1>5. f \in {"cases", "batch", "start", "case"} => Readings(f, word) = Unsigned(word, 10)
  BY DEF Readings
<1>6. f \in {"oracle", "workdir", "log"} => Readings(f, word) = {word}
  BY DEF Readings
<1> QED
  BY <1>2, <1>3, <1>4, <1>5, <1>6 DEF Numbered

(* An option that is given another value of its type. *)
LEMMA OptionTaken ==
  ASSUME NEW a, ArgsTyped(a), NEW f \in Options, NEW word \in Seq(Chars),
         NEW value \in Readings(f, word)
  PROVE  ArgsTyped([a EXCEPT ![f] = value])
<1> DEFINE b == [a EXCEPT ![f] = value]
<1>1. f \in Numbered => value \in U64
  BY ReadingsType
<1>2. f = "oracle" => value \in Seq(Chars)
  BY ReadingsType
<1>3. b = [g \in Options |-> IF g = f THEN value ELSE a[g]]
  BY DEF ArgsTyped
<1> HIDE DEF b
<1>4. \A g \in Options : b[g] = IF g = f THEN value ELSE a[g]
  BY <1>3
<1>5. b = [g \in Options |-> b[g]]
  BY <1>3
<1>6. /\ b.seed = IF f = "seed" THEN value ELSE a.seed
      /\ b.start = IF f = "start" THEN value ELSE a.start
      /\ b.batch = IF f = "batch" THEN value ELSE a.batch
      /\ b.cases = IF f = "cases" THEN value ELSE a.cases
      /\ b.case = IF f = "case" THEN value ELSE a.case
      /\ b.oracle = IF f = "oracle" THEN value ELSE a.oracle
  BY <1>4, DefaultIs
<1>7. ArgsTyped(b)
  BY <1>1, <1>2, <1>5, <1>6 DEF ArgsTyped, Numbered
<1> QED
  BY <1>7 DEF b

-----------------------------------------------------------------------------
(* What the lines of a log ask for. *)

Order(v) ==
  CASE v = "drive" -> <<"seed", "cases", "batch", "start", "oracle", "workdir", "log">>
    [] v = "case"  -> <<"oracle", "workdir", "log", "seed", "case">>
    [] OTHER       -> <<"oracle", "workdir", "log", "seed", "cases">>

(* By line v of the log of the run `from`, whose case i is asked for. *)
Asked(from, v, i) ==
  [f \in Options |->
    CASE f = "seed"   -> from.args.seed
      [] f = "cases"  -> from.count
      [] f = "case"   -> i
      [] f = "batch"  -> from.args.batch
      [] f = "start"  -> from.args.start
      [] f = "oracle" -> IF v = "drive" THEN from.args.oracle ELSE <<"harness">>
      [] OTHER        -> Default[f]]

Asks(line, from, v, i) ==
  /\ line \in Seq(Seq(Chars)) /\ Len(line) = 2 * Len(Order(v))
  /\ \A k \in 1 .. Len(Order(v)) :
       /\ line[2 * k - 1] = Flag(Order(v)[k])
       /\ Readings(Order(v)[k], line[2 * k]) = {Asked(from, v, i)[Order(v)[k]]}

(* A run whose log promises to be read back. *)
Promised(from) ==
  from # NoRun /\ from.args.seed # 0 /\ ~Contains(from.args.oracle, BLANK)

(* The options that are taken after m of them. *)
TakenArgs(from, v, i, m) ==
  [f \in Options |-> IF \E k \in 1 .. m : Order(v)[k] = f THEN Asked(from, v, i)[f] ELSE Default[f]]

SecondRun(i) ==
  /\ via \in {"replay", "heading", "drive", "case"}
  /\ via = "case" => \E j \in 0 .. first.count - 1 : i = IndexOf(first.args, j)
  /\ Asks(argv, first, via, i)
  /\ \E m \in 0 .. Len(Order(via)) :
       /\ index = 2 * m
       /\ args = TakenArgs(first, via, i, m)
       /\ outcome # "parsing" => m = Len(Order(via))
  /\ outcome \in {"parsing", "accepted", "no oracle", "dumped", "run"}
  /\ outcome = "dumped" => args.case # None
  /\ outcome = "run" => args.case = None /\ count = first.count

FuzzTyped ==
  /\ argv \in Seq(Seq(Chars)) /\ index \in 0 .. Len(argv)
  /\ ArgsTyped(args) /\ count \in U64
  /\ outcome \in {"accepted", "run"} => args.batch # 0 /\ ~Negative(args.seconds)
  /\ outcome = "run" => Holds(args.seconds)
  /\ first # NoRun => /\ first = [args |-> first.args, count |-> first.count]
                      /\ ArgsTyped(first.args) /\ first.args.batch # 0 /\ first.count \in U64

FuzzInv ==
  /\ FuzzTyped
  /\ Promised(first) => \E i \in U64 : SecondRun(i)

(* A command line asks for what it says, one option and the next. *)
LEMMA Orders ==
  ASSUME NEW v \in {"replay", "heading", "drive", "case"}
  PROVE  /\ Len(Order(v)) \in Nat
         /\ \A k \in 1 .. Len(Order(v)) : Order(v)[k] \in Options
         /\ \A j, k \in 1 .. Len(Order(v)) : Order(v)[j] = Order(v)[k] => j = k
         /\ \E k \in 1 .. Len(Order(v)) : Order(v)[k] = "seed"
         /\ v # "case" => /\ \E k \in 1 .. Len(Order(v)) : Order(v)[k] = "cases"
                          /\ \A k \in 1 .. Len(Order(v)) : Order(v)[k] # "case"
         /\ v = "case" => \E k \in 1 .. Len(Order(v)) : Order(v)[k] = "case"
         /\ v = "drive" => \A f \in {"start", "batch", "oracle"} :
                              \E k \in 1 .. Len(Order(v)) : Order(v)[k] = f
         /\ \A k \in 1 .. Len(Order(v)) : Order(v)[k] # "seconds"
<1>1. CASE v = "drive"
  <2> DEFINE o == <<"seed", "cases", "batch", "start", "oracle", "workdir", "log">>
  <2>1. Order(v) = o
    BY <1>1 DEF Order
  <2>2. Len(o) = 7 /\ o[1] = "seed" /\ o[2] = "cases" /\ o[3] = "batch" /\ o[4] = "start"
        /\ o[5] = "oracle" /\ o[6] = "workdir" /\ o[7] = "log"
    OBVIOUS
  <2> HIDE DEF o
  <2>3. /\ \A k \in 1 .. Len(o) : o[k] \in Options
        /\ \A j, k \in 1 .. Len(o) : o[j] = o[k] => j = k
    BY <2>2, DefaultIs
  <2>4. /\ \E k \in 1 .. Len(o) : o[k] = "seed"
        /\ \E k \in 1 .. Len(o) : o[k] = "cases"
        /\ \A f \in {"start", "batch", "oracle"} : \E k \in 1 .. Len(o) : o[k] = f
        /\ \A k \in 1 .. Len(o) : o[k] # "case" /\ o[k] # "seconds"
    BY <2>2
  <2> QED
    BY <1>1, <2>1, <2>2, <2>3, <2>4
<1>2. CASE v = "case"
  <2> DEFINE o == <<"oracle", "workdir", "log", "seed", "case">>
  <2>1. Order(v) = o
    BY <1>2 DEF Order
  <2>2. Len(o) = 5 /\ o[1] = "oracle" /\ o[2] = "workdir" /\ o[3] = "log" /\ o[4] = "seed"
        /\ o[5] = "case"
    OBVIOUS
  <2> HIDE DEF o
  <2>3. /\ \A k \in 1 .. Len(o) : o[k] \in Options
        /\ \A j, k \in 1 .. Len(o) : o[j] = o[k] => j = k
    BY <2>2, DefaultIs
  <2>4. /\ \E k \in 1 .. Len(o) : o[k] = "seed"
        /\ \E k \in 1 .. Len(o) : o[k] = "case"
        /\ \A k \in 1 .. Len(o) : o[k] # "seconds"
    BY <2>2
  <2> QED
    BY <1>2, <2>1, <2>2, <2>3, <2>4
<1>3. CASE v \in {"replay", "heading"}
  <2> DEFINE o == <<"oracle", "workdir", "log", "seed", "cases">>
  <2>1. Order(v) = o
    BY <1>3 DEF Order
  <2>2. Len(o) = 5 /\ o[1] = "oracle" /\ o[2] = "workdir" /\ o[3] = "log" /\ o[4] = "seed"
        /\ o[5] = "cases"
    OBVIOUS
  <2> HIDE DEF o
  <2>3. /\ \A k \in 1 .. Len(o) : o[k] \in Options
        /\ \A j, k \in 1 .. Len(o) : o[j] = o[k] => j = k
    BY <2>2, DefaultIs
  <2>4. /\ \E k \in 1 .. Len(o) : o[k] = "seed"
        /\ \E k \in 1 .. Len(o) : o[k] = "cases"
        /\ \A k \in 1 .. Len(o) : o[k] # "case" /\ o[k] # "seconds"
    BY <2>2
  <2> QED
    BY <1>3, <2>1, <2>2, <2>3, <2>4
<1> QED
  BY <1>1, <1>2, <1>3

(* Words that the shell leaves alone. *)
LEMMA PlainWords ==
  /\ BLANK \notin PlainChars
  /\ \A f \in Options : Flag(f) \in Seq(PlainChars)
  /\ \A c \in {"harness", "work", "log.txt"} : <<c>> \in Seq(PlainChars)
  /\ \A word \in Seq(Digit \cup {"x"}) : word \in Seq(PlainChars)
  /\ \A line \in Seq(Seq(PlainChars)) : line \in Seq(Seq(Chars))
<1>1. Digit \cup {"x"} \subseteq PlainChars
  BY DigitsApart DEF PlainChars, Chars, Logged
<1>2. Options \cup {"--", "harness", "work", "log.txt"} \subseteq PlainChars
  <2>1. BLANK \notin {"--", "harness", "work", "log.txt"}
    BY DEF BLANK
  <2>2. BLANK \notin Options
    BY DefaultIs DEF BLANK
  <2> QED
    BY <2>1, <2>2 DEF PlainChars, Chars, Logged
<1>3. BLANK \notin PlainChars /\ PlainChars \subseteq Chars
  BY DEF PlainChars
<1> HIDE DEF PlainChars
<1>4. ASSUME NEW f \in Options PROVE Flag(f) \in Seq(PlainChars)
  <2>1. \A x, y \in PlainChars : <<x, y>> \in Seq(PlainChars)
    OBVIOUS
  <2> QED
    BY <1>2, <2>1 DEF Flag
<1>5. ASSUME NEW c \in {"harness", "work", "log.txt"} PROVE <<c>> \in Seq(PlainChars)
  BY <1>2, OneWord
<1>6. ASSUME NEW A, NEW B, A \subseteq B PROVE Seq(A) \subseteq Seq(B)
  BY <1>6
<1>7. Seq(Digit \cup {"x"}) \subseteq Seq(PlainChars)
  BY <1>1, <1>6
<1>8. Seq(Seq(PlainChars)) \subseteq Seq(Seq(Chars))
  BY <1>3, <1>6
<1> QED
  BY <1>3, <1>4, <1>5, <1>7, <1>8

(* Numbers that a log holds. *)
LEMMA LoggedNumbers ==
  ASSUME NEW n \in U64
  PROVE  /\ Decimal(n) \in Seq(PlainChars) /\ Unsigned(Decimal(n), 10) = {n}
         /\ Numeral(Decimal(n)) = {n}
         /\ Hexadecimal(n, WIDTH) \in Seq(PlainChars) /\ Numeral(Hexadecimal(n, WIDTH)) = {n}
<1>0. MAX_U64 \in Nat /\ WIDTH \in Nat
  BY FuzzArgsAssumption
<1>1. /\ Decimal(n) \in Seq(Digit) /\ Unsigned(Decimal(n), 10) = {n}
      /\ Numeral(Decimal(n)) = {n}
  BY <1>0, DecimalRead DEF U64
<1>2. Decimal(n) \in Seq(Digit \cup {"x"})
  BY <1>1
<1>3. Hexadecimal(n, WIDTH) \in Seq(Digit \cup {"x"}) /\ Numeral(Hexadecimal(n, WIDTH)) = {n}
  BY <1>0, HexadecimalRead DEF U64
<1> QED
  BY <1>1, <1>2, <1>3, PlainWords

LEMMA TenWords ==
  ASSUME NEW E, NEW a \in E, NEW b \in E, NEW c \in E, NEW d \in E, NEW e \in E,
         NEW f \in E, NEW g \in E, NEW h \in E, NEW i \in E, NEW j \in E
  PROVE  LET line == <<a, b, c, d, e, f>> \o <<g, h, i, j>>
         IN  /\ line \in Seq(E) /\ Len(line) = 10
             /\ line[1] = a /\ line[2] = b /\ line[3] = c /\ line[4] = d /\ line[5] = e
             /\ line[6] = f /\ line[7] = g /\ line[8] = h /\ line[9] = i /\ line[10] = j
OBVIOUS

LEMMA RunShAsks ==
  ASSUME NEW from, NEW seed \in Seq(PlainChars), Numeral(seed) = {from.args.seed},
         NEW number \in Seq(PlainChars), NEW value, Unsigned(number, 10) = {value},
         NEW last \in {"cases", "case"}, NEW v \in {"replay", "heading", "case"},
         last = "case" <=> v = "case", NEW i,
         last = "cases" => value = from.count, last = "case" => value = i
  PROVE  Asks(Shell(RunSh(<<Flag("seed"), seed, Flag(last), number>>)), from, v, i)
<1> DEFINE line == RunSh(<<Flag("seed"), seed, Flag(last), number>>)
           o == Order(v)
           W == Seq(PlainChars)
<1>1. /\ Flag("oracle") \in W /\ <<"harness">> \in W /\ Flag("workdir") \in W
      /\ <<"work">> \in W /\ Flag("log") \in W /\ <<"log.txt">> \in W
      /\ Flag("seed") \in W /\ seed \in W /\ Flag(last) \in W /\ number \in W
  BY PlainWords, DefaultIs
<1>2. line = <<Flag("oracle"), <<"harness">>, Flag("workdir"), <<"work">>, Flag("log"), <<"log.txt">>>>
               \o <<Flag("seed"), seed, Flag(last), number>>
  BY DEF RunSh
<1> HIDE DEF line, W
<1>3. /\ line \in Seq(W) /\ Len(line) = 10
      /\ line[1] = Flag("oracle") /\ line[2] = <<"harness">> /\ line[3] = Flag("workdir")
      /\ line[4] = <<"work">> /\ line[5] = Flag("log") /\ line[6] = <<"log.txt">>
      /\ line[7] = Flag("seed") /\ line[8] = seed /\ line[9] = Flag(last) /\ line[10] = number
  BY <1>1, <1>2, TenWords
<1>4. line \in Seq(Seq(Chars)) /\ Shell(line) = line
  <2>1. line \in Seq(Seq(PlainChars))
    BY <1>3 DEF W
  <2> QED
    BY <2>1, PlainWords, ShellLeaves
<1>5. /\ Len(o) = 5 /\ o[1] = "oracle" /\ o[2] = "workdir" /\ o[3] = "log" /\ o[4] = "seed"
      /\ o[5] = last
  <2>1. v = "case" => o = <<"oracle", "workdir", "log", "seed", "case">>
    BY DEF Order
  <2>2. v # "case" => o = <<"oracle", "workdir", "log", "seed", "cases">>
    BY DEF Order
  <2> HIDE DEF o
  <2> QED
    BY <2>1, <2>2
<1> DEFINE asked == Asked(from, v, i)
<1>6. /\ asked["oracle"] = <<"harness">> /\ asked["workdir"] = <<"work">>
      /\ asked["log"] = <<"log.txt">> /\ asked["seed"] = from.args.seed
      /\ asked[last] = value
  BY DefaultIs DEF Asked
<1>7. /\ Readings("oracle", <<"harness">>) = {<<"harness">>}
      /\ Readings("workdir", <<"work">>) = {<<"work">>}
      /\ Readings("log", <<"log.txt">>) = {<<"log.txt">>}
      /\ Readings("seed", seed) = {from.args.seed}
      /\ Readings(last, number) = {value}
  BY DEF Readings
<1> HIDE DEF o, asked
<1>8. ASSUME NEW k \in 1 .. 5
      PROVE  line[2 * k - 1] = Flag(o[k]) /\ Readings(o[k], line[2 * k]) = {asked[o[k]]}
  <2>1. k = 1 \/ k = 2 \/ k = 3 \/ k = 4 \/ k = 5
    OBVIOUS
  <2>2. CASE k = 1
    <3>1. 2 * k - 1 = 1 /\ 2 * k = 2 /\ o[k] = "oracle"
      BY <1>5, <2>2
    <3>2. Readings("oracle", line[2]) = {asked["oracle"]}
      BY <1>3, <1>6, <1>7, Zenon
    <3> QED
      BY <1>3, <3>1, <3>2, Zenon
  <2>3. CASE k = 2
    <3>1. 2 * k - 1 = 3 /\ 2 * k = 4 /\ o[k] = "workdir"
      BY <1>5, <2>3
    <3>2. Readings("workdir", line[4]) = {asked["workdir"]}
      BY <1>3, <1>6, <1>7, Zenon
    <3> QED
      BY <1>3, <3>1, <3>2, Zenon
  <2>4. CASE k = 3
    <3>1. 2 * k - 1 = 5 /\ 2 * k = 6 /\ o[k] = "log"
      BY <1>5, <2>4
    <3>2. Readings("log", line[6]) = {asked["log"]}
      BY <1>3, <1>6, <1>7, Zenon
    <3> QED
      BY <1>3, <3>1, <3>2, Zenon
  <2>5. CASE k = 4
    BY <1>3, <1>5, <1>6, <1>7, <2>5
  <2>6. CASE k = 5
    BY <1>3, <1>5, <1>6, <1>7, <2>6
  <2> QED
    BY <2>1, <2>2, <2>3, <2>4, <2>5, <2>6
<1>9. Len(line) = 2 * Len(o)
  BY <1>3, <1>5
<1> QED
  BY <1>4, <1>5, <1>8, <1>9 DEF Asks, line, o, asked

LEMMA FourteenWords ==
  ASSUME NEW E, NEW a \in E, NEW b \in E, NEW c \in E, NEW d \in E, NEW e \in E,
         NEW f \in E, NEW g \in E, NEW h \in E, NEW i \in E, NEW j \in E,
         NEW k \in E, NEW l \in E, NEW m \in E, NEW n \in E
  PROVE  LET line == <<a, b, c, d, e, f, g, h, i, j, k, l, m, n>>
         IN  /\ line \in Seq(E) /\ Len(line) = 14
             /\ line[1] = a /\ line[2] = b /\ line[3] = c /\ line[4] = d /\ line[5] = e
             /\ line[6] = f /\ line[7] = g /\ line[8] = h /\ line[9] = i /\ line[10] = j
             /\ line[11] = k /\ line[12] = l /\ line[13] = m /\ line[14] = n
OBVIOUS

LEMMA DriveAsks ==
  ASSUME ArgsTyped(args), count \in U64, ~Contains(args.oracle, BLANK), NEW i
  PROVE  Asks(Shell(DriveLine), [args |-> args, count |-> count], "drive", i)
<1> DEFINE from == [args |-> args, count |-> count]
           line == DriveLine
           o == Order("drive")
           W == Seq(PlainChars)
<1>1. \A n \in U64 : /\ Decimal(n) \in W /\ Unsigned(Decimal(n), 10) = {n}
                     /\ Numeral(Decimal(n)) = {n}
  BY LoggedNumbers
<1>2. args.oracle \in W
  <2>1. args.oracle \in Seq(Chars) /\ \A j \in 1 .. Len(args.oracle) : args.oracle[j] # BLANK
    BY DEF ArgsTyped, Contains
  <2>2. \A j \in 1 .. Len(args.oracle) : args.oracle[j] \in PlainChars
    BY <2>1 DEF PlainChars
  <2> DEFINE oracle == args.oracle
  <2> HIDE DEF oracle
  <2>3. oracle \in Seq(PlainChars)
    BY <2>1, <2>2 DEF oracle
  <2> QED
    BY <2>3 DEF oracle
<1>3. /\ Flag("seed") \in W /\ Decimal(args.seed) \in W /\ Flag("cases") \in W
      /\ Decimal(count) \in W /\ Flag("batch") \in W /\ Decimal(args.batch) \in W
      /\ Flag("start") \in W /\ Decimal(args.start) \in W /\ Flag("oracle") \in W
      /\ Flag("workdir") \in W /\ <<"work">> \in W /\ Flag("log") \in W /\ <<"log.txt">> \in W
  BY <1>1, PlainWords, DefaultIs DEF ArgsTyped
<1>4. line = <<Flag("seed"), Decimal(args.seed), Flag("cases"), Decimal(count),
               Flag("batch"), Decimal(args.batch), Flag("start"), Decimal(args.start),
               Flag("oracle"), args.oracle, Flag("workdir"), <<"work">>, Flag("log"), <<"log.txt">>>>
  BY DEF DriveLine
<1> HIDE DEF line, W
<1>5. /\ line \in Seq(W) /\ Len(line) = 14
      /\ line[1] = Flag("seed") /\ line[2] = Decimal(args.seed) /\ line[3] = Flag("cases")
      /\ line[4] = Decimal(count) /\ line[5] = Flag("batch") /\ line[6] = Decimal(args.batch)
      /\ line[7] = Flag("start") /\ line[8] = Decimal(args.start) /\ line[9] = Flag("oracle")
      /\ line[10] = args.oracle /\ line[11] = Flag("workdir") /\ line[12] = <<"work">>
      /\ line[13] = Flag("log") /\ line[14] = <<"log.txt">>
  BY <1>2, <1>3, <1>4, FourteenWords
<1>6. line \in Seq(Seq(Chars)) /\ Shell(line) = line
  <2>1. line \in Seq(Seq(PlainChars))
    BY <1>5 DEF W
  <2> QED
    BY <2>1, PlainWords, ShellLeaves
<1>7. /\ Len(o) = 7 /\ o[1] = "seed" /\ o[2] = "cases" /\ o[3] = "batch" /\ o[4] = "start"
      /\ o[5] = "oracle" /\ o[6] = "workdir" /\ o[7] = "log"
  <2>1. o = <<"seed", "cases", "batch", "start", "oracle", "workdir", "log">>
    BY DEF Order
  <2> HIDE DEF o
  <2> QED
    BY <2>1
<1> DEFINE asked == Asked(from, "drive", i)
<1>8. /\ asked["seed"] = args.seed /\ asked["cases"] = count /\ asked["batch"] = args.batch
      /\ asked["start"] = args.start /\ asked["oracle"] = args.oracle
      /\ asked["workdir"] = <<"work">> /\ asked["log"] = <<"log.txt">>
  BY DefaultIs DEF Asked
<1>9. /\ Readings("seed", Decimal(args.seed)) = {args.seed}
      /\ Readings("cases", Decimal(count)) = {count}
      /\ Readings("batch", Decimal(args.batch)) = {args.batch}
      /\ Readings("start", Decimal(args.start)) = {args.start}
      /\ Readings("oracle", args.oracle) = {args.oracle}
      /\ Readings("workdir", <<"work">>) = {<<"work">>}
      /\ Readings("log", <<"log.txt">>) = {<<"log.txt">>}
  BY <1>1 DEF Readings, ArgsTyped
<1> HIDE DEF o, asked, from
<1>10. ASSUME NEW k \in 1 .. 7
       PROVE  line[2 * k - 1] = Flag(o[k]) /\ Readings(o[k], line[2 * k]) = {asked[o[k]]}
  <2>1. k = 1 \/ k = 2 \/ k = 3 \/ k = 4 \/ k = 5 \/ k = 6 \/ k = 7
    OBVIOUS
  <2>2. CASE k = 1
    BY <1>5, <1>7, <1>8, <1>9, <2>2
  <2>3. CASE k = 2
    BY <1>5, <1>7, <1>8, <1>9, <2>3
  <2>4. CASE k = 3
    BY <1>5, <1>7, <1>8, <1>9, <2>4
  <2>5. CASE k = 4
    BY <1>5, <1>7, <1>8, <1>9, <2>5
  <2>6. CASE k = 5
    BY <1>5, <1>7, <1>8, <1>9, <2>6
  <2>7. CASE k = 6
    <3>1. 2 * k - 1 = 11 /\ 2 * k = 12 /\ o[k] = "workdir"
      BY <1>7, <2>7
    <3>2. Readings("workdir", line[12]) = {asked["workdir"]}
      BY <1>5, <1>8, <1>9, Zenon
    <3> QED
      BY <1>5, <3>1, <3>2, Zenon
  <2>8. CASE k = 7
    <3>1. 2 * k - 1 = 13 /\ 2 * k = 14 /\ o[k] = "log"
      BY <1>7, <2>8
    <3>2. Readings("log", line[14]) = {asked["log"]}
      BY <1>5, <1>8, <1>9, Zenon
    <3> QED
      BY <1>5, <3>1, <3>2, Zenon
  <2> QED
    BY <2>1, <2>2, <2>3, <2>4, <2>5, <2>6, <2>7, <2>8
<1>11. Len(line) = 2 * Len(o)
  BY <1>5, <1>7
<1> QED
  BY <1>6, <1>7, <1>10, <1>11 DEF Asks, line, o, asked, from

(* What the shell makes of words are words. *)
LEMMA SplitType ==
  ASSUME NEW C, NEW separator, NEW word \in Seq(C)
  PROVE  Split(word, separator) \in Seq(Seq(C)) \ {<<>>}
<1> DEFINE A == Seq(Seq(C)) \ {<<>>}
<1>1. \A parts \in A, c \in C : SplitStep(separator, parts, c) \in A
  <2> SUFFICES ASSUME NEW parts \in A, NEW c \in C PROVE SplitStep(separator, parts, c) \in A
    OBVIOUS
  <2>1. parts \in Seq(Seq(C)) /\ Len(parts) >= 1
    OBVIOUS
  <2>2. Append(parts, <<>>) \in A
    OBVIOUS
  <2>3. Last(parts) \in Seq(C)
    BY <2>1 DEF Last
  <2>4. Append(Last(parts), c) \in Seq(C)
    BY <2>3
  <2>5. Front(parts) \in Seq(Seq(C))
    BY <2>1 DEF Front
  <2>6. Front(parts) \o <<Append(Last(parts), c)>> \in A
    BY <2>4, <2>5
  <2> QED
    BY <2>2, <2>6 DEF SplitStep
<1>2. <<<<>>>> \in A
  OBVIOUS
<1> HIDE DEF A
<1>3. Parts!Fold(separator, <<<<>>>>, word) \in A
  BY <1>1, <1>2, Parts!FoldType
<1> QED
  BY <1>3, SplitFold DEF A

LEMMA ShellType ==
  ASSUME NEW C, NEW words \in Seq(Seq(C))
  PROVE  Shell(words) \in Seq(Seq(C))
<1> DEFINE A == Seq(Seq(C))
           W == Seq(C)
<1>1. \A line \in A, word \in W : ShellStep(BLANK, line, word) \in A
  BY SplitType DEF ShellStep
<1>2. <<>> \in A /\ words \in Seq(W)
  OBVIOUS
<1> HIDE DEF A, W
<1>3. Shells!Fold(BLANK, <<>>, words) \in A
  BY <1>1, <1>2, Shells!FoldType
<1> QED
  BY <1>3, ShellFold DEF A

LEMMA IndexType ==
  ASSUME NEW a, a.start \in U64, NEW i \in Nat
  PROVE  IndexOf(a, i) \in U64
<1>1. MAX_U64 \in Nat /\ a.start + i \in Nat
  BY FuzzArgsAssumption DEF U64
<1> DEFINE n == MAX_U64 + 1
<1>2. n \in Nat \ {0}
  BY <1>1
<1>3. (a.start + i) % n \in 0 .. n - 1
  <2> HIDE DEF n
  <2> QED
    BY <1>1, <1>2
<1>4. n - 1 = MAX_U64
  BY <1>1
<1> QED
  BY <1>3, <1>4 DEF IndexOf, U64

(* The command lines of a log are lines of words. *)
LEMMA LogTyped ==
  ASSUME ArgsTyped(args), count \in U64
  PROVE  /\ Shell(ReplayLine) \in Seq(Seq(Chars))
         /\ Shell(HeadingLine) \in Seq(Seq(Chars))
         /\ \A i \in U64 : Shell(CaseLine(i)) \in Seq(Seq(Chars))
         /\ Shell(DriveLine) \in Seq(Seq(Chars))
<1> DEFINE W == Seq(Chars)
<1>1. \A word \in Seq(PlainChars) : word \in W
  BY DEF PlainChars
<1>2. \A n \in U64 : Decimal(n) \in W /\ Hexadecimal(n, WIDTH) \in W
  BY <1>1, LoggedNumbers
<1>3. /\ \A f \in Options : Flag(f) \in W
      /\ \A c \in {"harness", "work", "log.txt"} : <<c>> \in W
  BY <1>1, PlainWords
<1>4. /\ args.seed \in U64 /\ args.batch \in U64 /\ args.start \in U64 /\ args.oracle \in W
      /\ count \in U64
  BY DEF ArgsTyped
<1> HIDE DEF W
<1>5. ASSUME NEW seed \in W, NEW last \in Options, NEW number \in W
      PROVE  RunSh(<<Flag("seed"), seed, Flag(last), number>>) \in Seq(W)
  <2> DEFINE line == RunSh(<<Flag("seed"), seed, Flag(last), number>>)
  <2>1. /\ Flag("oracle") \in W /\ <<"harness">> \in W /\ Flag("workdir") \in W
        /\ <<"work">> \in W /\ Flag("log") \in W /\ <<"log.txt">> \in W
        /\ Flag("seed") \in W /\ Flag(last) \in W
    BY <1>3, <1>5, DefaultIs
  <2>2. line = <<Flag("oracle"), <<"harness">>, Flag("workdir"), <<"work">>, Flag("log"), <<"log.txt">>>>
                 \o <<Flag("seed"), seed, Flag(last), number>>
    BY DEF RunSh
  <2> HIDE DEF line
  <2>3. line \in Seq(W)
    BY <1>5, <2>1, <2>2, TenWords
  <2> QED
    BY <2>3 DEF line
<1>6. DriveLine \in Seq(W)
  <2>1. /\ Flag("seed") \in W /\ Flag("cases") \in W /\ Flag("batch") \in W
        /\ Flag("start") \in W /\ Flag("oracle") \in W /\ Flag("workdir") \in W
        /\ Flag("log") \in W /\ <<"work">> \in W /\ <<"log.txt">> \in W
    BY <1>3, DefaultIs
  <2>2. /\ Decimal(args.seed) \in W /\ Decimal(count) \in W /\ Decimal(args.batch) \in W
        /\ Decimal(args.start) \in W /\ args.oracle \in W
    BY <1>2, <1>4
  <2> DEFINE line == DriveLine
  <2>3. line = <<Flag("seed"), Decimal(args.seed), Flag("cases"), Decimal(count),
                 Flag("batch"), Decimal(args.batch), Flag("start"), Decimal(args.start),
                 Flag("oracle"), args.oracle, Flag("workdir"), <<"work">>, Flag("log"), <<"log.txt">>>>
    BY DEF DriveLine
  <2> HIDE DEF line
  <2>4. line \in Seq(W)
    BY <2>1, <2>2, <2>3, FourteenWords
  <2> QED
    BY <2>4 DEF line
<1>7. /\ ReplayLine \in Seq(W) /\ HeadingLine \in Seq(W)
      /\ \A i \in U64 : CaseLine(i) \in Seq(W)
  BY <1>2, <1>4, <1>5, DefaultIs DEF ReplayLine, HeadingLine, CaseLine
<1> QED
  BY <1>6, <1>7, ShellType DEF W

(* And ask for the run the log is of. *)
LEMMA LogAsks ==
  ASSUME ArgsTyped(args), count \in U64, ~Contains(args.oracle, BLANK), NEW i \in U64
  PROVE  LET from == [args |-> args, count |-> count]
         IN  /\ Asks(Shell(ReplayLine), from, "replay", i)
             /\ Asks(Shell(HeadingLine), from, "heading", i)
             /\ Asks(Shell(DriveLine), from, "drive", i)
             /\ Asks(Shell(CaseLine(i)), from, "case", i)
<1> DEFINE from == [args |-> args, count |-> count]
<1>1. from.args = args /\ from.count = count
  OBVIOUS
<1>2. Asks(Shell(DriveLine), from, "drive", i)
  BY DriveAsks
<1> HIDE DEF from
<1>3. args.seed \in U64
  BY DEF ArgsTyped
<1> DEFINE seed == Decimal(args.seed)
           asHex  == Hexadecimal(args.seed, WIDTH)
           number == Decimal(count)
           case == Decimal(i)
<1>4. /\ seed \in Seq(PlainChars) /\ Numeral(seed) = {from.args.seed}
      /\ asHex \in Seq(PlainChars) /\ Numeral(asHex) = {from.args.seed}
      /\ number \in Seq(PlainChars) /\ Unsigned(number, 10) = {from.count}
      /\ case \in Seq(PlainChars) /\ Unsigned(case, 10) = {i}
  BY <1>1, <1>3, LoggedNumbers
<1>5. /\ ReplayLine = RunSh(<<Flag("seed"), seed, Flag("cases"), number>>)
      /\ HeadingLine = RunSh(<<Flag("seed"), asHex, Flag("cases"), number>>)
      /\ CaseLine(i) = RunSh(<<Flag("seed"), seed, Flag("case"), case>>)
  BY DEF ReplayLine, HeadingLine, CaseLine
<1> HIDE DEF seed, asHex, number, case
<1>6. Asks(Shell(ReplayLine), from, "replay", i)
  BY <1>4, <1>5, RunShAsks
<1>7. Asks(Shell(HeadingLine), from, "heading", i)
  BY <1>4, <1>5, RunShAsks
<1>8. Asks(Shell(CaseLine(i)), from, "case", i)
  BY <1>4, <1>5, RunShAsks
<1> QED
  BY <1>2, <1>6, <1>7, <1>8 DEF from

-----------------------------------------------------------------------------
(* The invariant of a run and of the run that its log asks for. *)

LEMMA FuzzInvInit ==
  ASSUME FuzzInit
  PROVE  FuzzInv
<1>1. first = NoRun /\ argv \in Lines /\ index = 0 /\ args = Default /\ count = 0
      /\ outcome = "parsing"
  BY DEF FuzzInit
<1>2. argv \in Seq(Seq(Chars))
  <2>1. argv \in Seq(Seq(Pieces))
    BY <1>1, FuzzArgsAssumption
  <2>2. Pieces \subseteq Chars
    BY DEF Chars
  <2>3. ASSUME NEW A, NEW B, A \subseteq B PROVE Seq(A) \subseteq Seq(B)
    BY <2>3
  <2>4. Seq(Pieces) \subseteq Seq(Chars)
    BY <2>2, <2>3
  <2>5. Seq(Seq(Pieces)) \subseteq Seq(Seq(Chars))
    BY <2>3, <2>4
  <2> QED
    BY <2>1, <2>5
<1>3. index \in 0 .. Len(argv) /\ count \in U64
  BY <1>1, <1>2, FuzzArgsAssumption DEF U64
<1>4. ~Promised(first)
  BY <1>1 DEF Promised
<1>5. FuzzTyped
  BY <1>1, <1>2, <1>3, DefaultTyped DEF FuzzTyped
<1> QED
  BY <1>4, <1>5 DEF FuzzInv

(* A run that is recorded is not none. *)
LEMMA Recorded ==
  ASSUME NEW a, NEW n \in U64
  PROVE  [args |-> a, count |-> n] # NoRun
<1> DEFINE r == [args |-> a, count |-> n]
<1>1. r.count = n /\ NoRun.count = None
  BY DEF NoRun
<1>2. n # None
  BY FuzzArgsAssumption DEF U64, None
<1> QED
  BY <1>1, <1>2

LEMMA FuzzTypedKept ==
  ASSUME FuzzTyped, FuzzNext
  PROVE  FuzzTyped'
<1>0. /\ argv \in Seq(Seq(Chars)) /\ index \in 0 .. Len(argv) /\ ArgsTyped(args) /\ count \in U64
      /\ MAX_U64 \in Nat
  BY FuzzArgsAssumption DEF FuzzTyped
<1>1. CASE TakeValue
  <2> USE <1>1 DEF TakeValue
  <2>1. PICK f \in DOMAIN Default :
          \E value \in Readings(f, argv[index + 2]) : args' = [args EXCEPT ![f] = value]
    OBVIOUS
  <2>2. index + 2 \in 1 .. Len(argv) /\ argv[index + 2] \in Seq(Chars)
    BY <1>0 DEF HasValue, More
  <2>3. ArgsTyped(args')
    <3>1. PICK value \in Readings(f, argv[index + 2]) : args' = [args EXCEPT ![f] = value]
      BY <2>1
    <3>2. f \in Options
      BY DEF Options
    <3>3. ArgsTyped([args EXCEPT ![f] = value])
      BY <1>0, <2>2, <3>1, <3>2, OptionTaken
    <3> QED
      BY <3>1, <3>3
  <2>4. index' \in 0 .. Len(argv')
    BY <2>2
  <2>5. outcome = "parsing"
    BY DEF More
  <2> QED
    BY <2>3, <2>4, <2>5 DEF FuzzTyped
<1>2. CASE ShowHelp \/ RefuseWord \/ RefuseOptions \/ NoOracle \/ Dump \/ Panic
  <2>1. UNCHANGED <<argv, index, args, count, first>> /\ outcome' \notin {"accepted", "run"}
    BY <1>2 DEF ShowHelp, RefuseWord, RefuseOptions, NoOracle, Dump, Panic
  <2> QED
    BY <2>1 DEF FuzzTyped
<1>3. CASE Accept
  <2> USE <1>3 DEF Accept
  <2>1. args.batch # 0 /\ ~Negative(args.seconds) /\ UNCHANGED <<argv, index, count, first>>
        /\ outcome' = "accepted"
    BY DEF Allowed
  <2>2. CASE args.seed # 0
    <3>1. args' = args
      BY <2>2
    <3> QED
      BY <2>1, <3>1 DEF FuzzTyped
  <2>3. CASE args.seed = 0
    <3>1. PICK c \in Clock : args' = [args EXCEPT !.seed = c]
      BY <2>3
    <3>2. c \in U64
      BY FuzzArgsAssumption DEF U64
    <3>3. args' = [f \in Options |-> IF f = "seed" THEN c ELSE args[f]]
      BY <1>0, <3>1 DEF ArgsTyped
    <3>4. /\ args'.seed = c /\ args'.start = args.start /\ args'.batch = args.batch
          /\ args'.cases = args.cases /\ args'.case = args.case /\ args'.oracle = args.oracle
          /\ args'.seconds = args.seconds /\ args' = [f \in Options |-> args'[f]]
      BY <3>3, DefaultIs
    <3>5. ArgsTyped(args')
      BY <1>0, <3>2, <3>4 DEF ArgsTyped
    <3> QED
      BY <2>1, <3>4, <3>5 DEF FuzzTyped
  <2> QED
    BY <2>2, <2>3
<1>4. CASE Run
  <2>1. UNCHANGED <<argv, index, args, first>> /\ outcome = "accepted" /\ Holds(args.seconds)
    BY <1>4 DEF Run
  <2>2. count' \in U64
    <3>1. count' \in IF args.cases = None THEN Counts ELSE {args.cases}
      BY <1>4 DEF Run
    <3> QED
      BY <1>0, <3>1, FuzzArgsAssumption DEF ArgsTyped, U64
  <2> QED
    BY <2>1, <2>2 DEF FuzzTyped
<1>5. CASE Replay
  <2> USE <1>5 DEF Replay
  <2>1. /\ first' = [args |-> args, count |-> count] /\ index' = 0 /\ args' = Default
        /\ outcome' = "parsing" /\ count' = 0 /\ args.batch # 0
    BY DEF FuzzTyped
  <2>2. argv' \in Seq(Seq(Chars))
    <3>1. \A i \in 0 .. count - 1 : IndexOf(args, i) \in U64
      BY <1>0, IndexType DEF ArgsTyped, U64
    <3> QED
      BY <1>0, <3>1, LogTyped
  <2>3. first'.args = args /\ first'.count = count
    BY <2>1
  <2>4. index' \in 0 .. Len(argv') /\ count' \in U64
    BY <1>0, <2>1, <2>2 DEF U64
  <2>5. outcome' \notin {"accepted", "run"}
    BY <2>1
  <2>6. first' = [args |-> first'.args, count |-> first'.count]
        /\ ArgsTyped(first'.args) /\ first'.args.batch # 0 /\ first'.count \in U64
    BY <1>0, <2>1, <2>3
  <2>7. ArgsTyped(args')
    BY <2>1, DefaultTyped
  <2> QED
    BY <2>2, <2>4, <2>5, <2>6, <2>7 DEF FuzzTyped
<1> QED
  BY <1>1, <1>2, <1>3, <1>4, <1>5 DEF FuzzNext

LEMMA OtherFlags ==
  /\ \A f, g : Flag(f) = Flag(g) => f = g
  /\ \A f \in Options : Flag(f) # <<"-h">> /\ Flag(f) # Flag("help")
<1>1. \A f, g : Flag(f) = Flag(g) => f = g
  BY Elements DEF Flag
<1>2. \A f : Len(Flag(f)) = 2
  BY DEF Flag
<1>3. \A c : Len(<<c>>) = 1
  OBVIOUS
<1>4. \A f : \A c : Flag(f) # <<c>>
  BY <1>2, <1>3
<1>5. "help" \notin Options
  BY DefaultIs
<1> QED
  BY <1>1, <1>4, <1>5

(* The run that a log asks for goes on to what it was asked for. *)
LEMMA SecondRunKept ==
  ASSUME FuzzTyped, Promised(first), NEW i \in U64, SecondRun(i), FuzzNext
  PROVE  SecondRun(i)' /\ first' = first
<1> DEFINE o == Order(via)
           asked == Asked(first, via, i)
<1>1. /\ via \in {"replay", "heading", "drive", "case"}
      /\ via = "case" => \E j \in 0 .. first.count - 1 : i = IndexOf(first.args, j)
      /\ argv \in Seq(Seq(Chars)) /\ Len(argv) = 2 * Len(o)
      /\ \A k \in 1 .. Len(o) : /\ argv[2 * k - 1] = Flag(o[k])
                                /\ Readings(o[k], argv[2 * k]) = {asked[o[k]]}
      /\ outcome \in {"parsing", "accepted", "no oracle", "dumped", "run"}
  BY DEF SecondRun, Asks
<1>a. PICK m \in 0 .. Len(o) : /\ index = 2 * m
                               /\ args = TakenArgs(first, via, i, m)
                               /\ outcome # "parsing" => m = Len(o)
  BY DEF SecondRun
<1>3. /\ Len(o) \in Nat /\ \A k \in 1 .. Len(o) : o[k] \in Options
      /\ \A j, k \in 1 .. Len(o) : o[j] = o[k] => j = k
      /\ \A k \in 1 .. Len(o) : o[k] # "seconds"
  BY <1>1, Orders
<1>4. first # NoRun /\ first.args.seed # 0 /\ first.args.batch # 0
      /\ first.args.seed \in U64 /\ first.count \in U64
  BY DEF Promised, FuzzTyped, ArgsTyped
<1>b. args = [f \in Options |-> IF \E k \in 1 .. m : o[k] = f THEN asked[f] ELSE Default[f]]
  BY <1>a DEF TakenArgs
<1>6. /\ asked["seed"] = first.args.seed /\ asked["batch"] = first.args.batch
      /\ asked["cases"] = first.count /\ asked["case"] = i
  BY DefaultIs DEF Asked
<1>7. Asks(argv, first, via, i) /\ args = TakenArgs(first, via, i, m)
  BY <1>a DEF SecondRun
<1> HIDE DEF o, asked
<1>2. /\ m \in Nat /\ m <= Len(o) /\ index = 2 * m
      /\ outcome # "parsing" => m = Len(o)
  BY <1>3, <1>a
<1>5. \A f \in Options :
        args[f] = IF \E k \in 1 .. m : o[k] = f THEN asked[f] ELSE Default[f]
  BY <1>b
(* All options are taken. *)
<1>8. ASSUME m = Len(o)
      PROVE  /\ args.seed = first.args.seed /\ args.seed # 0 /\ args.batch # 0
             /\ args.seconds = Default.seconds
             /\ via = "case" => args.case = i
             /\ via # "case" => args.case = None /\ args.cases = first.count
  <2>1. \E k \in 1 .. m : o[k] = "seed"
    BY <1>1, <1>8, Orders DEF o
  <2>2. args.seed = first.args.seed
    BY <1>5, <1>6, <2>1, DefaultIs
  <2>3. args.batch # 0
    BY <1>4, <1>5, <1>6, DefaultIs
  <2>4. args.seconds = Default.seconds
    BY <1>3, <1>5, <1>8, DefaultIs
  <2>5. ASSUME via = "case" PROVE args.case = i
    <3>1. \E k \in 1 .. m : o[k] = "case"
      BY <1>1, <1>8, <2>5, Orders DEF o
    <3> QED
      BY <1>5, <1>6, <3>1, DefaultIs
  <2>6. ASSUME via # "case" PROVE args.case = None /\ args.cases = first.count
    <3>1. (\E k \in 1 .. m : o[k] = "cases") /\ \A k \in 1 .. m : o[k] # "case"
      BY <1>1, <1>8, <2>6, Orders DEF o
    <3> QED
      BY <1>5, <1>6, <3>1, DefaultIs
  <2> QED
    BY <1>4, <2>2, <2>3, <2>4, <2>5, <2>6
(* Or there is another, with a value that can be read. *)
<1>9. ASSUME m < Len(o), outcome = "parsing"
      PROVE  /\ m + 1 \in 1 .. Len(o) /\ o[m + 1] \in Options
             /\ Word = Flag(o[m + 1]) /\ HasValue
             /\ Readings(o[m + 1], argv[index + 2]) = {asked[o[m + 1]]}
  <2>1. m + 1 \in 1 .. Len(o)
    BY <1>3, <1>9
  <2>2. 2 * (m + 1) - 1 = index + 1 /\ 2 * (m + 1) = index + 2
    BY <1>2
  <2>3. index + 1 < Len(argv)
    <3>1. Len(argv) = 2 * Len(o) /\ Len(o) \in Nat
      BY <1>1, <1>3
    <3> QED
      BY <1>2, <1>9, <3>1
  <2>4. /\ argv[2 * (m + 1) - 1] = Flag(o[m + 1])
        /\ Readings(o[m + 1], argv[2 * (m + 1)]) = {asked[o[m + 1]]}
    BY <1>1, <2>1
  <2> QED
    BY <1>3, <2>1, <2>2, <2>3, <2>4 DEF Word, HasValue
<1>c. Len(argv) = 2 * Len(o) /\ Len(o) \in Nat
  BY <1>1, <1>3
<1>10. More => m < Len(o)
  BY <1>2, <1>c DEF More
<1>11. AllRead => m = Len(o)
  BY <1>2, <1>c DEF AllRead
<1>12. CASE TakeValue
  <2> USE <1>12 DEF TakeValue
  <2>1. m < Len(o) /\ outcome = "parsing"
    BY <1>10 DEF More
  <2>2. PICK f \in DOMAIN Default : /\ IsFlag(f)
                                    /\ \E value \in Readings(f, argv[index + 2]) :
                                         args' = [args EXCEPT ![f] = value]
    OBVIOUS
  <2>3. f = o[m + 1]
    BY <1>9, <2>1, <2>2, OtherFlags DEF IsFlag
  <2>4. args' = [args EXCEPT ![f] = asked[f]]
    BY <1>9, <2>1, <2>2, <2>3
  <2>5. args' = [g \in Options |-> IF g = f THEN asked[f] ELSE args[g]]
    BY <2>4 DEF FuzzTyped, ArgsTyped
  <2>6. \A g \in Options : (\E k \in 1 .. m + 1 : o[k] = g) <=> (g = f \/ \E k \in 1 .. m : o[k] = g)
    <3>1. \A k \in 1 .. m + 1 : k = m + 1 \/ k \in 1 .. m
      BY <1>2
    <3>2. \A k \in 1 .. m : k \in 1 .. m + 1
      OBVIOUS
    <3>3. m + 1 \in 1 .. m + 1
      BY <1>2, <1>3
    <3> QED
      BY <2>3, <3>1, <3>2, <3>3
  <2>7. \A g \in Options : args'[g] = IF \E k \in 1 .. m + 1 : o[k] = g THEN asked[g] ELSE Default[g]
    BY <1>5, <2>5, <2>6
  <2>8. args' = TakenArgs(first, via, i, m + 1)
    <3>1. args' = [g \in Options |-> args'[g]]
      BY <2>5
    <3> QED
      BY <2>7, <3>1 DEF TakenArgs, o, asked
  <2>9. m + 1 \in 0 .. Len(o) /\ index' = 2 * (m + 1) /\ outcome' = "parsing"
    <3>1. outcome' = outcome /\ index' = index + 2
      OBVIOUS
    <3> QED
      BY <1>2, <1>c, <2>1, <3>1
  <2>10. UNCHANGED <<argv, first, via>>
    OBVIOUS
  <2> QED
    BY <1>1, <1>7, <2>8, <2>9, <2>10 DEF SecondRun, o
<1>13. ~ShowHelp
  BY <1>9, <1>10, OtherFlags DEF ShowHelp, IsHelp, More
<1>14. ~RefuseWord
  <2> SUFFICES ASSUME RefuseWord PROVE FALSE
    OBVIOUS
  <2>1. m < Len(o) /\ outcome = "parsing"
    BY <1>10 DEF RefuseWord, More
  <2> DEFINE f == o[m + 1]
  <2>2. f \in DOMAIN Default /\ Word = Flag(f) /\ HasValue /\ Readings(f, argv[index + 2]) # {}
    BY <1>9, <2>1 DEF Options
  <2> HIDE DEF f
  <2>3. IsFlag(f) /\ Readable(f)
    BY <2>2 DEF IsFlag, Readable
  <2> QED
    BY <2>2, <2>3 DEF RefuseWord
<1>15. ~RefuseOptions
  BY <1>8, <1>11, DefaultIs DEF RefuseOptions, Allowed
<1>16. ASSUME UNCHANGED <<argv, index, args, first, via>>, m = Len(o),
              outcome' \in {"parsing", "accepted", "no oracle", "dumped", "run"},
              outcome' = "dumped" => args.case # None,
              outcome' = "run" => args.case = None /\ count' = first.count
       PROVE  SecondRun(i)' /\ first' = first
  <2> DEFINE ended(n) == /\ index' = 2 * n
                         /\ args' = TakenArgs(first', via', i, n)
                         /\ outcome' # "parsing" => n = Len(Order(via'))
  <2>1. ended(m) /\ m \in 0 .. Len(Order(via'))
    BY <1>2, <1>3, <1>7, <1>16 DEF o
  <2> HIDE DEF ended
  <2>2. \E n \in 0 .. Len(Order(via')) : ended(n)
    BY <2>1
  <2>3. Asks(argv', first', via', i) /\ via' \in {"replay", "heading", "drive", "case"}
        /\ (via' = "case" => \E j \in 0 .. first'.count - 1 : i = IndexOf(first'.args, j))
    BY <1>1, <1>7, <1>16
  <2> QED
    BY <1>16, <2>2, <2>3 DEF SecondRun, ended
<1>17. CASE Accept
  <2> USE <1>17 DEF Accept
  <2>1. m = Len(o) /\ args.seed # 0
    BY <1>8, <1>11
  <2>2. UNCHANGED <<argv, index, args, count, first, via>> /\ outcome' = "accepted"
    BY <2>1
  <2> QED
    BY <1>16, <2>1, <2>2
<1>18. CASE NoOracle
  <2>1. m = Len(o) /\ UNCHANGED <<argv, index, args, count, first, via>> /\ outcome' = "no oracle"
    BY <1>2, <1>18 DEF NoOracle
  <2> QED
    BY <1>16, <2>1
<1>19. CASE Dump
  <2>1. m = Len(o) /\ UNCHANGED <<argv, index, args, count, first, via>> /\ outcome' = "dumped"
        /\ args.case # None
    BY <1>2, <1>19 DEF Dump
  <2> QED
    BY <1>16, <2>1
<1>20. ~Panic
  <2>1. outcome = "accepted" => m = Len(o)
    BY <1>2
  <2>2. outcome = "accepted" => Holds(args.seconds)
    BY <1>8, <2>1, DefaultIs
  <2> QED
    BY <2>2 DEF Panic
<1>21. CASE Run
  <2>1. m = Len(o) /\ UNCHANGED <<argv, index, args, first, via>> /\ outcome' = "run"
        /\ args.case = None /\ count' \in IF args.cases = None THEN Counts ELSE {args.cases}
    BY <1>2, <1>21 DEF Run
  <2>2. via # "case"
    BY <1>8, <2>1, FuzzArgsAssumption DEF U64, None
  <2>3. args.cases = first.count /\ first.count # None
    BY <1>4, <1>8, <2>1, <2>2, FuzzArgsAssumption DEF U64, None
  <2>4. count' = first.count
    BY <2>1, <2>3
  <2> QED
    BY <1>16, <2>1, <2>4
<1>22. ~Replay
  BY <1>4 DEF Replay
<1> QED
  BY <1>12, <1>13, <1>14, <1>15, <1>17, <1>18, <1>19, <1>20, <1>21, <1>22 DEF FuzzNext

(* A log of a run that promises to be read back. *)
LEMMA ReplayAsks ==
  ASSUME FuzzTyped, Replay, Promised(first')
  PROVE  \E i \in U64 : SecondRun(i)'
<1> USE DEF Replay
<1> DEFINE from == [args |-> args, count |-> count]
<1>1. /\ first' = from /\ index' = 0 /\ args' = Default /\ outcome' = "parsing"
      /\ from.args = args /\ from.count = count
  OBVIOUS
<1>2. /\ ArgsTyped(args) /\ count \in U64 /\ ~Contains(args.oracle, BLANK) /\ args.start \in U64
      /\ MAX_U64 \in Nat
  BY <1>1, FuzzArgsAssumption DEF FuzzTyped, Promised, ArgsTyped
<1>3. \A i \in U64 : /\ Asks(Shell(ReplayLine), from, "replay", i)
                     /\ Asks(Shell(HeadingLine), from, "heading", i)
                     /\ Asks(Shell(DriveLine), from, "drive", i)
                     /\ Asks(Shell(CaseLine(i)), from, "case", i)
  BY <1>2, LogAsks
<1> HIDE DEF from
<1>4. \A v : Default = TakenArgs(from, v, 0, 0)
  <2>1. \A v : \A f \in Options : ~\E k \in 1 .. 0 : Order(v)[k] = f
    OBVIOUS
  <2>2. \A v : \A i : TakenArgs(from, v, i, 0) = [f \in Options |-> Default[f]]
    BY <2>1 DEF TakenArgs
  <2> QED
    BY <2>2, DefaultIs
<1>5. ASSUME NEW i \in U64, via' \in {"replay", "heading", "drive", "case"},
             Asks(argv', from, via', i),
             via' = "case" => \E j \in 0 .. count - 1 : i = IndexOf(args, j)
      PROVE  SecondRun(i)'
  <2> DEFINE started(n) == /\ index' = 2 * n
                           /\ args' = TakenArgs(first', via', i, n)
                           /\ outcome' # "parsing" => n = Len(Order(via'))
  <2>1. args' = TakenArgs(first', via', i, 0)
    <3>1. \A f \in Options : ~\E k \in 1 .. 0 : Order(via')[k] = f
      OBVIOUS
    <3>2. TakenArgs(first', via', i, 0) = [f \in Options |-> Default[f]]
      BY <3>1 DEF TakenArgs
    <3> QED
      BY <1>1, <3>2, DefaultIs
  <2>2. started(0) /\ 0 \in 0 .. Len(Order(via'))
    BY <1>1, <1>5, <2>1, Orders
  <2> HIDE DEF started
  <2>3. \E n \in 0 .. Len(Order(via')) : started(n)
    BY <2>2
  <2>4. Asks(argv', first', via', i)
    BY <1>1, <1>5
  <2>5. via' = "case" => \E j \in 0 .. first'.count - 1 : i = IndexOf(first'.args, j)
    BY <1>1, <1>5
  <2> QED
    BY <1>1, <1>5, <2>3, <2>4, <2>5 DEF SecondRun, started
<1>6. 0 \in U64
  BY <1>2 DEF U64
<1>7. CASE via' = "replay" /\ argv' = Shell(ReplayLine)
  BY <1>3, <1>5, <1>6, <1>7
<1>8. CASE via' = "heading" /\ argv' = Shell(HeadingLine)
  BY <1>3, <1>5, <1>6, <1>8
<1>9. CASE via' = "drive" /\ argv' = Shell(DriveLine)
  BY <1>3, <1>5, <1>6, <1>9
<1>10. CASE via' = "case" /\ \E j \in 0 .. count - 1 : argv' = Shell(CaseLine(IndexOf(args, j)))
  <2>1. PICK j \in 0 .. count - 1 : argv' = Shell(CaseLine(IndexOf(args, j)))
    BY <1>10
  <2>2. j \in Nat
    BY <1>2 DEF U64
  <2>3. IndexOf(args, j) \in U64
    BY <1>2, <2>2, IndexType
  <2>4. Asks(argv', from, "case", IndexOf(args, j))
    BY <1>3, <2>1, <2>3
  <2> QED
    BY <1>5, <1>10, <2>3, <2>4
<1> QED
  BY <1>7, <1>8, <1>9, <1>10

LEMMA FuzzInvKept ==
  ASSUME FuzzInv, [FuzzNext]_fuzzVars
  PROVE  FuzzInv'
<1>1. CASE UNCHANGED fuzzVars
  BY <1>1 DEF fuzzVars, FuzzInv, FuzzTyped, SecondRun
<1>2. CASE FuzzNext
  <2>1. FuzzTyped'
    BY <1>2, FuzzTypedKept DEF FuzzInv
  <2>2. ASSUME Promised(first') PROVE \E i \in U64 : SecondRun(i)'
    <3>1. CASE Promised(first)
      <4>1. PICK i \in U64 : SecondRun(i)
        BY <3>1 DEF FuzzInv
      <4> QED
        BY <1>2, <3>1, <4>1, SecondRunKept DEF FuzzInv
    <3>2. CASE ~Promised(first)
      <4>1. first' # first
        BY <2>2, <3>2
      <4>2. Replay
        BY <1>2, <4>1 DEF FuzzNext, TakeValue, ShowHelp, RefuseWord, RefuseOptions, Accept,
                          NoOracle, Dump, Panic, Run
      <4> QED
        BY <2>2, <4>2, ReplayAsks DEF FuzzInv
    <3> QED
      BY <3>1, <3>2
  <2> QED
    BY <2>1, <2>2 DEF FuzzInv
<1> QED
  BY <1>1, <1>2

(* What the invariant says of a log: it is read back. *)
LEMMA FuzzInvMeans ==
  ASSUME FuzzInv
  PROVE  LogIsReadBack
<1> SUFFICES ASSUME Promised(first)
             PROVE  /\ outcome \notin {"refused", "help", "panicked"}
                    /\ outcome = "dumped" =>
                         via = "case" /\ \E i \in 0 .. first.count - 1 : args.case = IndexOf(first.args, i)
                    /\ outcome = "run" => via # "case" /\ count = first.count
                    /\ outcome \in {"dumped", "run"} => args.seed = first.args.seed
                    /\ outcome = "run" /\ via = "drive" =>
                         /\ args.start = first.args.start
                         /\ args.batch = first.args.batch
                         /\ args.oracle = first.args.oracle
  BY DEF LogIsReadBack, Promised
<1>1. PICK i \in U64 : SecondRun(i)
  BY DEF FuzzInv
<1>2. /\ via \in {"replay", "heading", "drive", "case"}
      /\ via = "case" => \E j \in 0 .. first.count - 1 : i = IndexOf(first.args, j)
      /\ outcome \in {"parsing", "accepted", "no oracle", "dumped", "run"}
      /\ outcome = "dumped" => args.case # None
      /\ outcome = "run" => args.case = None /\ count = first.count
  BY <1>1 DEF SecondRun
<1>3. i # None
  BY FuzzArgsAssumption DEF U64, None
<1>4. ASSUME outcome \in {"dumped", "run"}
      PROVE  /\ args.seed = first.args.seed
             /\ via = "case" => args.case = i
             /\ via # "case" => args.case = None
             /\ via = "drive" => /\ args.start = first.args.start
                                 /\ args.batch = first.args.batch
                                 /\ args.oracle = first.args.oracle
  <2> DEFINE o == Order(via)
             m == Len(o)
             asked == Asked(first, via, i)
  <2>1. args = TakenArgs(first, via, i, m)
    BY <1>1, <1>4 DEF SecondRun
  <2>2. args = [f \in Options |-> IF \E k \in 1 .. m : o[k] = f THEN asked[f] ELSE Default[f]]
    BY <2>1 DEF TakenArgs
  <2>3. /\ asked["seed"] = first.args.seed /\ asked["case"] = i
        /\ asked["start"] = first.args.start /\ asked["batch"] = first.args.batch
        /\ via = "drive" => asked["oracle"] = first.args.oracle
    BY DefaultIs DEF Asked
  <2>4. /\ \E k \in 1 .. m : o[k] = "seed"
        /\ via # "case" => \A k \in 1 .. m : o[k] # "case"
        /\ via = "case" => \E k \in 1 .. m : o[k] = "case"
        /\ via = "drive" => /\ \E k \in 1 .. m : o[k] = "start"
                            /\ \E k \in 1 .. m : o[k] = "batch"
                            /\ \E k \in 1 .. m : o[k] = "oracle"
    BY <1>2, Orders
  <2> HIDE DEF o, m, asked
  <2>5. \A f \in Options : args[f] = IF \E k \in 1 .. m : o[k] = f THEN asked[f] ELSE Default[f]
    BY <2>2
  <2>6. args.seed = first.args.seed
    BY <2>3, <2>4, <2>5, DefaultIs
  <2>7. via = "case" => args.case = i
    BY <2>3, <2>4, <2>5, DefaultIs
  <2>8. via # "case" => args.case = None
    BY <2>4, <2>5, DefaultIs
  <2>9. via = "drive" => /\ args.start = first.args.start
                         /\ args.batch = first.args.batch
                         /\ args.oracle = first.args.oracle
    BY <2>3, <2>4, <2>5, DefaultIs
  <2> QED
    BY <2>6, <2>7, <2>8, <2>9
<1> QED
  BY <1>2, <1>3, <1>4

(* main.rs:127 and report.rs:184-209: for every command line that starts a *)
(* run and every size of a u64, each command line that its log offers is   *)
(* accepted and asks for the run the log is of: the same seed in either    *)
(* spelling, as many cases, and where the line names them the same start,  *)
(* batch size and harness; the one under a divergence asks for that case.  *)
THEOREM LogIsReadBackAlways == FuzzSpec => []LogIsReadBack
<1>1. FuzzInit => FuzzInv
  BY FuzzInvInit
<1>2. FuzzInv /\ [FuzzNext]_fuzzVars => FuzzInv'
  BY FuzzInvKept
<1>3. FuzzInv => LogIsReadBack
  BY FuzzInvMeans
<1> QED
  BY <1>1, <1>2, <1>3, PTL DEF FuzzSpec

(* The options of the fuzzer are always of their types, and a run is one  *)
(* of a batch of at least one case for a time that the clock can hold     *)
(* (parse_args in main.rs).                                                *)
THEOREM FuzzOptionsTyped == FuzzSpec => []FuzzTypeOK
<1>1. FuzzInv => FuzzTypeOK
  <2> SUFFICES ASSUME FuzzInv PROVE FuzzTypeOK
    OBVIOUS
  <2>1. FuzzTyped
    BY DEF FuzzInv
  <2>2. args.seed \in U64 /\ args.start \in U64 /\ args.cases \in U64 \cup {None} /\ args.case \in U64 \cup {None}
    BY <2>1 DEF FuzzTyped, ArgsTyped
  <2> QED
    BY <2>1, <2>2 DEF FuzzTypeOK, FuzzTyped, U64
<1> QED
  BY <1>1, FuzzInvInit, FuzzInvKept, PTL DEF FuzzSpec

-----------------------------------------------------------------------------
(* Every algorithm is read by its name, and by its name only it. *)

AllAlgos == ToSet(ALL)

NameChars == {"crc", "_", "8", "16", "modbus", "sick", "xmodem", "ccitt", "ffff", "1d0f",
              "kermit", "dnp", "32", "64", "ecma", "we", "nmea"}

LEMMA NamesAre ==
  /\ AllAlgos = {"crc_8", "crc_16", "crc_modbus", "crc_sick", "crc_xmodem", "crc_ccitt_ffff",
              "crc_ccitt_1d0f", "crc_kermit", "crc_dnp", "crc_32", "crc_64_ecma", "crc_64_we",
              "nmea"}
  /\ Len(ALL) = 13
  /\ \A j \in 1 .. 13 : ALL[j] \in AllAlgos
  /\ \A a \in AllAlgos : \E j \in 1 .. 13 : ALL[j] = a
  /\ \A i, j \in 1 .. 13 : ALL[i] = ALL[j] => i = j
<1>1. Len(ALL) = 13 /\ DOMAIN ALL = 1 .. 13
  BY DEF ALL
<1>2. /\ ALL[1] = "crc_8" /\ ALL[2] = "crc_16" /\ ALL[3] = "crc_modbus" /\ ALL[4] = "crc_sick"
      /\ ALL[5] = "crc_xmodem" /\ ALL[6] = "crc_ccitt_ffff" /\ ALL[7] = "crc_ccitt_1d0f"
      /\ ALL[8] = "crc_kermit" /\ ALL[9] = "crc_dnp" /\ ALL[10] = "crc_32"
      /\ ALL[11] = "crc_64_ecma" /\ ALL[12] = "crc_64_we" /\ ALL[13] = "nmea"
  BY DEF ALL
<1>3. AllAlgos = {ALL[j] : j \in 1 .. 13}
  BY <1>1 DEF AllAlgos, ToSet
<1>4. \A j \in 1 .. 13 : j = 1 \/ j = 2 \/ j = 3 \/ j = 4 \/ j = 5 \/ j = 6 \/ j = 7 \/ j = 8
                         \/ j = 9 \/ j = 10 \/ j = 11 \/ j = 12 \/ j = 13
  OBVIOUS
<1>5. \A a : a \in AllAlgos <=> \E j \in 1 .. 13 : ALL[j] = a
  BY <1>3
<1>6. \A i, j \in 1 .. 13 : ALL[i] = ALL[j] => i = j
  BY <1>2, <1>4
<1>7. AllAlgos = {"crc_8", "crc_16", "crc_modbus", "crc_sick", "crc_xmodem", "crc_ccitt_ffff",
              "crc_ccitt_1d0f", "crc_kermit", "crc_dnp", "crc_32", "crc_64_ecma", "crc_64_we",
              "nmea"}
  <2>1. \A j \in 1 .. 13 : ALL[j] \in
            {"crc_8", "crc_16", "crc_modbus", "crc_sick", "crc_xmodem", "crc_ccitt_ffff",
              "crc_ccitt_1d0f", "crc_kermit", "crc_dnp", "crc_32", "crc_64_ecma", "crc_64_we",
              "nmea"}
    BY <1>2, <1>4
  <2>2. \A a \in {"crc_8", "crc_16", "crc_modbus", "crc_sick", "crc_xmodem", "crc_ccitt_ffff",
              "crc_ccitt_1d0f", "crc_kermit", "crc_dnp", "crc_32", "crc_64_ecma", "crc_64_we",
              "nmea"} : \E j \in 1 .. 13 : ALL[j] = a
    BY <1>2, <1>4
  <2> QED
    BY <1>5, <2>1, <2>2
<1> QED
  BY <1>1, <1>5, <1>6, <1>7

(* What a name is, as far as names are told apart by it. *)
LEMMA NamePieces ==
  /\ Name["crc_8"] = <<"crc", "_", "8">> /\ Name["crc_16"] = <<"crc", "_", "16">>
  /\ Name["crc_modbus"] = <<"crc", "_", "modbus">> /\ Name["crc_sick"] = <<"crc", "_", "sick">>
  /\ Name["crc_xmodem"] = <<"crc", "_", "xmodem">>
  /\ Name["crc_ccitt_ffff"] = <<"crc", "_", "ccitt", "_", "ffff">>
  /\ Name["crc_ccitt_1d0f"] = <<"crc", "_", "ccitt", "_", "1d0f">>
  /\ Name["crc_kermit"] = <<"crc", "_", "kermit">> /\ Name["crc_dnp"] = <<"crc", "_", "dnp">>
  /\ Name["crc_32"] = <<"crc", "_", "32">> /\ Name["crc_64_ecma"] = <<"crc", "_", "64", "_", "ecma">>
  /\ Name["crc_64_we"] = <<"crc", "_", "64", "_", "we">> /\ Name["nmea"] = <<"nmea">>
BY DEF Name

LEMMA ShortName ==
  ASSUME NEW E, NEW a \in E, NEW b \in E, NEW c \in E
  PROVE  LET n == <<a, b, c>> IN n \in Seq(E) /\ Len(n) = 3 /\ n[1] = a /\ n[3] = c
OBVIOUS

LEMMA LongName ==
  ASSUME NEW E, NEW a \in E, NEW b \in E, NEW c \in E, NEW d \in E, NEW e \in E
  PROVE  LET n == <<a, b, c, d, e>>
         IN  n \in Seq(E) /\ Len(n) = 5 /\ n[1] = a /\ n[3] = c /\ n[5] = e
OBVIOUS

LEMMA NameKeys ==
  /\ \A a \in AllAlgos : /\ Name[a] \in Seq(NameChars) /\ Name[a] # <<>>
                      /\ Name[a][1] \in {"crc", "nmea"}
  /\ \A a, b \in AllAlgos : Name[a] = Name[b] => a = b
<1>1. {"crc", "_", "8", "16", "modbus", "sick", "xmodem", "ccitt", "ffff", "1d0f",
       "kermit", "dnp", "32", "64", "ecma", "we", "nmea"} \subseteq NameChars
  BY DEF NameChars
<1>2. ASSUME NEW c \in {"8", "16", "modbus", "sick", "xmodem", "kermit", "dnp", "32"}
      PROVE  LET n == <<"crc", "_", c>>
             IN  n \in Seq(NameChars) /\ Len(n) = 3 /\ n[1] = "crc" /\ n[3] = c
  <2>1. "crc" \in NameChars /\ "_" \in NameChars /\ c \in NameChars
    BY <1>1
  <2> QED
    BY <2>1, ShortName, Zenon
<1>3. ASSUME NEW c \in {"ccitt", "64"}, NEW e \in {"ffff", "1d0f", "ecma", "we"}
      PROVE  LET n == <<"crc", "_", c, "_", e>>
             IN  n \in Seq(NameChars) /\ Len(n) = 5 /\ n[1] = "crc" /\ n[3] = c /\ n[5] = e
  <2>1. "crc" \in NameChars /\ "_" \in NameChars /\ c \in NameChars /\ e \in NameChars
    BY <1>1
  <2> QED
    BY <2>1, LongName, Zenon
<1>4. <<"nmea">> \in Seq(NameChars) /\ Len(<<"nmea">>) = 1 /\ <<"nmea">>[1] = "nmea"
  BY <1>1, OneWord
<1>5. /\ Len(Name["crc_8"]) = 3 /\ Name["crc_8"][3] = "8"
      /\ Len(Name["crc_16"]) = 3 /\ Name["crc_16"][3] = "16"
      /\ Len(Name["crc_modbus"]) = 3 /\ Name["crc_modbus"][3] = "modbus"
      /\ Len(Name["crc_sick"]) = 3 /\ Name["crc_sick"][3] = "sick"
      /\ Len(Name["crc_xmodem"]) = 3 /\ Name["crc_xmodem"][3] = "xmodem"
      /\ Len(Name["crc_kermit"]) = 3 /\ Name["crc_kermit"][3] = "kermit"
      /\ Len(Name["crc_dnp"]) = 3 /\ Name["crc_dnp"][3] = "dnp"
      /\ Len(Name["crc_32"]) = 3 /\ Name["crc_32"][3] = "32"
  BY <1>2, NamePieces, Zenon
<1>6. /\ Len(Name["crc_ccitt_ffff"]) = 5 /\ Name["crc_ccitt_ffff"][5] = "ffff"
      /\ Len(Name["crc_ccitt_1d0f"]) = 5 /\ Name["crc_ccitt_1d0f"][5] = "1d0f"
      /\ Len(Name["crc_64_ecma"]) = 5 /\ Name["crc_64_ecma"][5] = "ecma"
      /\ Len(Name["crc_64_we"]) = 5 /\ Name["crc_64_we"][5] = "we"
      /\ Len(Name["nmea"]) = 1
  BY <1>3, <1>4, NamePieces, Zenon
<1>7. ASSUME NEW a \in AllAlgos
      PROVE  Name[a] \in Seq(NameChars) /\ Len(Name[a]) \in {1, 3, 5} /\ Name[a][1] \in {"crc", "nmea"}
  <2>1. CASE a \in {"crc_8", "crc_16", "crc_modbus", "crc_sick", "crc_xmodem", "crc_kermit",
                    "crc_dnp", "crc_32"}
    <3>1. PICK c \in {"8", "16", "modbus", "sick", "xmodem", "kermit", "dnp", "32"} :
            Name[a] = <<"crc", "_", c>>
      BY <2>1, NamePieces
    <3> QED
      BY <1>2, <3>1
  <2>2. CASE a \in {"crc_ccitt_ffff", "crc_ccitt_1d0f", "crc_64_ecma", "crc_64_we"}
    <3>1. PICK c \in {"ccitt", "64"}, e \in {"ffff", "1d0f", "ecma", "we"} :
            Name[a] = <<"crc", "_", c, "_", e>>
      BY <2>2, NamePieces
    <3> DEFINE n == <<"crc", "_", c, "_", e>>
    <3>2. n \in Seq(NameChars) /\ Len(n) = 5 /\ n[1] = "crc"
      BY <1>3
    <3> HIDE DEF n
    <3>3. Name[a] = n
      BY <3>1 DEF n
    <3> QED
      BY <3>2, <3>3
  <2>3. CASE a = "nmea"
    BY <1>4, <2>3, NamePieces
  <2> QED
    BY <2>1, <2>2, <2>3, NamesAre
<1>8. ASSUME NEW a \in AllAlgos, NEW b \in AllAlgos, Name[a] = Name[b] PROVE a = b
  BY <1>5, <1>6, <1>8, NamesAre
<1> QED
  BY <1>7, <1>8

(* An alias begins with no piece that a name begins with. *)
LEMMA AliasKeys ==
  ASSUME NEW a \in AllAlgos, NEW alias \in Aliases[a]
  PROVE  alias[1] \notin {"crc", "nmea"}
<1> DEFINE Heads == {"8", "crc8", "sht75", "16", "crc16", "arc", "modbus", "sick", "xmodem", "ccitt",
                     "kermit", "dnp", "32", "crc32", "64", "crc64", "ecma", "we", "checksum"}
<1>1. /\ Aliases["crc_8"] = {<<"8">>, <<"crc8">>, <<"sht75">>}
      /\ Aliases["crc_16"] = {<<"16">>, <<"crc16">>, <<"arc">>}
      /\ Aliases["crc_modbus"] = {<<"modbus">>} /\ Aliases["crc_sick"] = {<<"sick">>}
      /\ Aliases["crc_xmodem"] = {<<"xmodem">>}
      /\ Aliases["crc_ccitt_ffff"] = {<<"ccitt">>, <<"ccitt", "_", "ffff">>}
      /\ Aliases["crc_ccitt_1d0f"] = {<<"ccitt", "_", "1d0f">>}
      /\ Aliases["crc_kermit"] = {<<"kermit">>} /\ Aliases["crc_dnp"] = {<<"dnp">>}
      /\ Aliases["crc_32"] = {<<"32">>, <<"crc32">>}
      /\ Aliases["crc_64_ecma"] = {<<"64">>, <<"crc64">>, <<"ecma">>, <<"64", "_", "ecma">>}
      /\ Aliases["crc_64_we"] = {<<"we">>, <<"64", "_", "we">>}
      /\ Aliases["nmea"] = {<<"checksum", "_", "nmea">>}
  BY DEF Aliases
<1>2. /\ \A c : <<c>>[1] = c
      /\ \A c, d : <<c, d>>[1] = c
      /\ \A c, d, e : <<c, d, e>>[1] = c
  OBVIOUS
<1>3. (\E c \in Heads : alias = <<c>>) \/ (\E c \in Heads : \E d, e : alias = <<c, d, e>>)
  <2>1. CASE a \in {"crc_8", "crc_16", "crc_modbus", "crc_sick", "crc_xmodem", "crc_kermit",
                    "crc_dnp", "crc_32"}
    <3>1. \E c \in Heads : alias = <<c>>
      BY <1>1, <2>1
    <3> QED
      BY <3>1
  <2>2. CASE a \in {"crc_ccitt_ffff", "crc_ccitt_1d0f"}
    <3>1. alias = <<"ccitt">> \/ alias = <<"ccitt", "_", "ffff">> \/ alias = <<"ccitt", "_", "1d0f">>
      BY <1>1, <2>2
    <3> QED
      BY <3>1
  <2>3. CASE a = "crc_64_ecma"
    <3>1. alias = <<"64">> \/ alias = <<"crc64">> \/ alias = <<"ecma">> \/ alias = <<"64", "_", "ecma">>
      BY <1>1, <2>3
    <3> QED
      BY <3>1
  <2>4. CASE a = "crc_64_we"
    <3>1. alias = <<"we">> \/ alias = <<"64", "_", "we">>
      BY <1>1, <2>4
    <3> QED
      BY <3>1
  <2>5. CASE a = "nmea"
    <3>1. alias = <<"checksum", "_", "nmea">>
      BY <1>1, <2>5
    <3> QED
      BY <3>1
  <2> QED
    BY <2>1, <2>2, <2>3, <2>4, <2>5, NamesAre
<1>4. alias[1] \in Heads
  <2> HIDE DEF Heads
  <2> QED
    BY <1>2, <1>3
<1> QED
  BY <1>4

LEMMA LeastIn ==
  ASSUME NEW I, I \subseteq Nat, NEW k \in I, \A j \in I : k <= j
  PROVE  Min(I) = k
<1>1. \E x \in I : \A y \in I : x <= y
  OBVIOUS
<1> DEFINE m == Min(I)
<1>2. m \in I /\ \A y \in I : m <= y
  BY <1>1 DEF Min
<1> HIDE DEF m
<1>3. m = k
  BY <1>2
<1> QED
  BY <1>3 DEF m

LEMMA GreatestIn ==
  ASSUME NEW I, I \subseteq Nat, NEW k \in I, \A j \in I : k >= j
  PROVE  Max(I) = k
<1>1. \E x \in I : \A y \in I : x >= y
  OBVIOUS
<1> DEFINE m == Max(I)
<1>2. m \in I /\ \A y \in I : m >= y
  BY <1>1 DEF Max
<1> HIDE DEF m
<1>3. m = k
  BY <1>2
<1> QED
  BY <1>3 DEF m

LEMMA ParseName ==
  ASSUME NEW a \in AllAlgos
  PROVE  Parse(Name[a]) = {a}
<1> DEFINE name == Name[a]
           I == {j \in DOMAIN name : name[j] # SP}
           trimmed == IF I = {} THEN <<>> ELSE SubSeq(name, Min(I), Max(I))
           wanted == [j \in DOMAIN trimmed |-> Lower(trimmed[j])]
           Found == {j \in 1 .. Len(ALL) : wanted = Name[ALL[j]] \/ wanted \in Aliases[ALL[j]]}
<1>1. name \in Seq(NameChars) /\ name[1] \in {"crc", "nmea"}
  BY NameKeys
<1>2. Parse(name) = LET found == IF Found # {} THEN Min(Found) ELSE 0
                    IN  IF found = 0 THEN {} ELSE {ALL[found]}
  BY DEF Parse, SelectInSeq
<1>3. trimmed = Trim(name)
  <2>1. SP = BLANK
    BY DEF SP, BLANK
  <2> QED
    BY <2>1 DEF Trim
<1>4. Trim(name) = name
  <2>1. BLANK \notin NameChars
    BY DEF BLANK, NameChars
  <2> QED
    BY <1>1, <2>1, TrimNoBlank
<1> HIDE DEF trimmed, Found, name
<1>5. wanted = name
  <2>1. \A c \in NameChars : Lower(c) = c
    BY DEF NameChars, Lower
  <2>2. wanted = [j \in DOMAIN name |-> Lower(name[j])]
    BY <1>3, <1>4
  <2>3. \A j \in DOMAIN name : name[j] \in NameChars
    BY <1>1
  <2>4. name = [j \in DOMAIN name |-> name[j]]
    BY <1>1
  <2> HIDE DEF wanted
  <2> QED
    BY <2>1, <2>2, <2>3, <2>4
<1> HIDE DEF wanted
<1>6. PICK k \in 1 .. 13 : ALL[k] = a
  BY NamesAre
<1>7. Found = {k}
  <2>1. ASSUME NEW j \in 1 .. 13, name = Name[ALL[j]] PROVE j = k
    <3>1. ALL[j] \in AllAlgos
      BY NamesAre
    <3>2. ALL[j] = a
      BY <2>1, <3>1, NameKeys DEF name
    <3> QED
      BY <1>6, <3>2, NamesAre
  <2>2. ASSUME NEW j \in 1 .. 13, name \in Aliases[ALL[j]] PROVE FALSE
    <3>1. ALL[j] \in AllAlgos
      BY NamesAre
    <3> QED
      BY <1>1, <2>2, <3>1, AliasKeys
  <2>3. name = Name[ALL[k]]
    BY <1>6 DEF name
  <2>4. Found = {j \in 1 .. 13 : name = Name[ALL[j]] \/ name \in Aliases[ALL[j]]}
    BY <1>5, NamesAre DEF Found
  <2> QED
    BY <2>1, <2>2, <2>3, <2>4
<1>8. Min(Found) = k
  BY <1>7, LeastIn
<1> QED
  BY <1>2, <1>6, <1>7, <1>8 DEF name

-----------------------------------------------------------------------------
(* The ends of a text: what is trimmed, and where a field ends. *)

LEMMA FirstNotIs ==
  ASSUME NEW C, NEW s \in Seq(C), NEW set, NEW k \in 1 .. Len(s), s[k] \notin set,
         \A j \in 1 .. k - 1 : s[j] \in set
  PROVE  FirstNot(s, set) = k
<1> DEFINE I == {j \in 1 .. Len(s) : s[j] \notin set}
<1>1. I \subseteq Nat /\ k \in I /\ \A j \in I : k <= j
  OBVIOUS
<1>2. FirstNot(s, set) = IF I # {} THEN Min(I) ELSE 0
  BY DEF FirstNot, SelectInSeq
<1> HIDE DEF I
<1>3. Min(I) = k
  BY <1>1, LeastIn
<1> QED
  BY <1>1, <1>2, <1>3

LEMMA FirstNotNone ==
  ASSUME NEW C, NEW s \in Seq(C), NEW set, \A j \in 1 .. Len(s) : s[j] \in set
  PROVE  FirstNot(s, set) = 0
BY DEF FirstNot, SelectInSeq

LEMMA LastNotIs ==
  ASSUME NEW C, NEW s \in Seq(C), NEW set, NEW k \in 1 .. Len(s), s[k] \notin set,
         \A j \in k + 1 .. Len(s) : s[j] \in set
  PROVE  LastNot(s, set) = k
<1> DEFINE I == {j \in 1 .. Len(s) : s[j] \notin set}
<1>1. I \subseteq Nat /\ k \in I /\ \A j \in I : k >= j
  OBVIOUS
<1>2. LastNot(s, set) = IF I # {} THEN Max(I) ELSE 0
  BY DEF LastNot, SelectLastInSeq
<1> HIDE DEF I
<1>3. Max(I) = k
  BY <1>1, GreatestIn
<1> QED
  BY <1>1, <1>2, <1>3

LEMMA TrimStartNone ==
  ASSUME NEW C, NEW s \in Seq(C), s # <<>>, s[1] \notin White
  PROVE  TrimStart(s) = s
<1>1. 1 \in 1 .. Len(s) /\ \A j \in 1 .. 1 - 1 : s[j] \in White
  OBVIOUS
<1>2. FirstNot(s, White) = 1
  BY <1>1, FirstNotIs
<1> QED
  BY <1>2, SubSeqFull DEF TrimStart

(* White space in front is trimmed, and nothing behind it. *)
LEMMA TrimStartSome ==
  ASSUME NEW C, SP \in C, NEW n \in Nat, NEW s \in Seq(C), s # <<>>, s[1] \notin White
  PROVE  TrimStart(Spaces(n) \o s) = s
<1> DEFINE pad == Spaces(n)
           line == pad \o s
<1>1. pad \in Seq(C) /\ Len(pad) = n /\ \A j \in 1 .. n : pad[j] = SP
  BY DEF Spaces
<1> HIDE DEF pad
<1>2. Len(s) \in Nat /\ Len(s) >= 1
  OBVIOUS
<1>3. /\ line \in Seq(C) /\ Len(line) = n + Len(s)
      /\ \A j \in 1 .. n : line[j] = SP
      /\ line[n + 1] = s[1]
  BY <1>1, <1>2
<1>4. SP \in White
  BY DEF White
<1>5. SubSeq(line, n + 1, Len(line)) = s
  <2>1. n + 1 \in Len(pad) + 1 .. Len(pad) + Len(s) /\ Len(line) \in Len(pad) + 1 .. Len(pad) + Len(s)
    BY <1>1, <1>2, <1>3
  <2>2. SubSeq(pad \o s, n + 1, Len(line)) = SubSeq(s, (n + 1) - Len(pad), Len(line) - Len(pad))
    <3> HIDE DEF line
    <3> QED
      BY <1>1, <2>1, SubSeqOfConcat2, Zenon
  <2>3. (n + 1) - Len(pad) = 1 /\ Len(line) - Len(pad) = Len(s)
    BY <1>1, <1>2, <1>3
  <2> QED
    BY <2>2, <2>3, SubSeqFull
<1> HIDE DEF line
<1>6. FirstNot(line, White) = n + 1
  <2>1. n + 1 \in 1 .. Len(line) /\ line[n + 1] \notin White
        /\ \A j \in 1 .. (n + 1) - 1 : line[j] \in White
    BY <1>2, <1>3, <1>4
  <2> QED
    BY <1>3, <2>1, FirstNotIs
<1> QED
  BY <1>5, <1>6 DEF TrimStart, line, pad

(* The two parts of a text, as they are cut out of it. *)
LEMMA CutInTwo ==
  ASSUME NEW C, NEW s \in Seq(C), NEW t \in Seq(C), s # <<>>, t # <<>>
  PROVE  /\ SubSeq(s \o t, 1, Len(s)) = s
         /\ SubSeq(s \o t, Len(s) + 1, Len(s \o t)) = t
<1> DEFINE n == Len(s)
           m == Len(t)
<1>1. n \in Nat /\ n # 0 /\ m \in Nat /\ m # 0 /\ Len(s \o t) = n + m
  OBVIOUS
<1>2. SubSeq(s, 1, n) = s /\ SubSeq(t, 1, m) = t
  BY SubSeqFull
<1>3. SubSeq(s \o t, 1, n) = SubSeq(s, 1, n)
  <2>1. 1 \in 1 .. Len(s) /\ n \in 1 .. Len(s)
    BY <1>1
  <2> HIDE DEF n
  <2> QED
    BY <2>1, SubSeqOfConcat1, Zenon
<1>4. SubSeq(s \o t, n + 1, n + m) = SubSeq(t, (n + 1) - n, (n + m) - n)
  <2>1. n + 1 \in Len(s) + 1 .. Len(s) + Len(t) /\ n + m \in Len(s) + 1 .. Len(s) + Len(t)
    BY <1>1
  <2>2. SubSeq(s \o t, n + 1, n + m) = SubSeq(t, (n + 1) - Len(s), (n + m) - Len(s))
    <3> HIDE DEF n, m
    <3> QED
      BY <2>1, SubSeqOfConcat2, Zenon
  <2> QED
    BY <2>2
<1>5. (n + 1) - n = 1 /\ (n + m) - n = m
  BY <1>1
<1> HIDE DEF n, m
<1>6. SubSeq(s \o t, n + 1, Len(s \o t)) = t
  BY <1>1, <1>2, <1>4, <1>5
<1> QED
  BY <1>2, <1>3, <1>6 DEF n

(* A field is read up to the white space behind it, and the padding is    *)
(* passed over.                                                           *)
LEMMA NextFieldOf ==
  ASSUME NEW C, SP \in C, NEW f \in Seq(C), f # <<>>, \A j \in 1 .. Len(f) : f[j] \notin White,
         NEW n \in Nat, n # 0, NEW t \in Seq(C), t # <<>>, t[1] \notin White
  PROVE  NextField(f \o (Spaces(n) \o t)) = [ok |-> TRUE, field |-> f, rest |-> t]
<1> DEFINE pad == Spaces(n)
           back == pad \o t
           body == f \o back
           I == {j \in 1 .. Len(body) : body[j] \in White}
           end == SelectInSeq(body, LAMBDA piece : piece \in White)
<1>1. pad \in Seq(C) /\ Len(pad) = n /\ \A j \in 1 .. n : pad[j] = SP
  BY DEF Spaces
<1>2. TrimStart(back) = t
  BY TrimStartSome
<1> HIDE DEF pad
<1>3. Len(f) \in Nat /\ Len(f) # 0 /\ Len(t) \in Nat
  OBVIOUS
<1>4. back \in Seq(C) /\ back # <<>> /\ Len(back) = n + Len(t) /\ back[1] = SP
  BY <1>1, <1>3
<1> HIDE DEF back
<1>5. /\ body \in Seq(C) /\ Len(body) = Len(f) + Len(back)
      /\ \A j \in 1 .. Len(f) : body[j] = f[j]
      /\ body[Len(f) + 1] = SP
  <2>1. Len(back) >= 1
    BY <1>3, <1>4
  <2>2. body[Len(f) + 1] = back[1]
    BY <1>3, <1>4, <2>1
  <2> QED
    BY <1>3, <1>4, <2>2
<1>6. body # <<>> /\ body[1] \notin White
  BY <1>3, <1>5
<1>7. SubSeq(body, 1, Len(f)) = f /\ SubSeq(body, Len(f) + 1, Len(body)) = back
  BY <1>4, CutInTwo
<1>8. SP \in White
  BY DEF White
<1>9. end = IF I # {} THEN Min(I) ELSE 0
  BY DEF SelectInSeq
<1> HIDE DEF body, end
<1>10. TrimStart(body) = body
  BY <1>5, <1>6, TrimStartNone
<1>11. I \subseteq Nat /\ Len(f) + 1 \in I /\ \A j \in I : Len(f) + 1 <= j
  <2>1. Len(f) + 1 \in 1 .. Len(body)
    BY <1>3, <1>4, <1>5
  <2>2. \A j \in 1 .. Len(body) : j < Len(f) + 1 => j \in 1 .. Len(f)
    BY <1>3
  <2> QED
    BY <1>3, <1>5, <1>8, <2>1, <2>2
<1> HIDE DEF I
<1>12. end = Len(f) + 1
  BY <1>9, <1>11, LeastIn
<1>13. NextField(body) = IF end = 0 THEN [ok |-> FALSE]
                         ELSE [ok |-> TRUE, field |-> SubSeq(body, 1, end - 1),
                               rest |-> TrimStart(SubSeq(body, end, Len(body)))]
  BY <1>10 DEF NextField, end
<1>14. end # 0 /\ end - 1 = Len(f)
  BY <1>3, <1>12
<1>15. NextField(body) = [ok |-> TRUE, field |-> f, rest |-> t]
  BY <1>2, <1>7, <1>12, <1>13, <1>14
<1> QED
  BY <1>15 DEF body, back, pad

-----------------------------------------------------------------------------
(* A line that was printed is read back. *)

Marks == NameChars \cup Digit \cup {"x", HASH} \cup White \cup PathPieces

LEMMA MarksApart ==
  /\ SP \in Marks /\ CR \in Marks /\ LF \in Marks /\ HASH \in Marks /\ "x" \in Marks
  /\ NameChars \subseteq Marks /\ Digit \cup {"x"} \subseteq Marks /\ PathPieces \subseteq Marks
  /\ \A c \in NameChars : c \notin White /\ c # CR /\ c # LF
  /\ \A c \in Digit \cup {"x"} : c \notin White /\ c # CR /\ c # LF
  /\ CR # LF /\ SP # LF /\ SP # CR /\ HASH # LF /\ HASH # CR /\ "x" # LF /\ "x" # CR
  /\ HASH \notin White /\ SP \in White /\ CR \in White /\ LF \in White
  /\ HASH \notin {"crc", "nmea"}
<1>1. SP \in White /\ CR \in White /\ LF \in White
  BY DEF White
<1>2. White = {BLANK, "cr", "lf", "tab"}
  BY DEF White, SP, BLANK, CR, LF
<1>3. \A c \in NameChars : c \notin White
  BY DEF NameChars, White, SP, CR, LF
<1>4. \A c \in Digit \cup {"x"} : c \notin White
  BY <1>2, DigitsApart
<1>5. /\ CR # LF /\ SP # LF /\ SP # CR /\ HASH # LF /\ HASH # CR /\ "x" # LF /\ "x" # CR
      /\ HASH \notin White /\ HASH \notin {"crc", "nmea"}
  BY DEF White, SP, CR, LF, HASH
<1> QED
  BY <1>1, <1>3, <1>4, <1>5 DEF Marks

LEMMA RenderedRead ==
  ASSUME NEW algo, NEW value \in 0 .. MAX_U64, NEW asHex \in BOOLEAN
  PROVE  LET word == Rendered(algo, value, asHex)
         IN  word \in Seq(Digit \cup {"x"}) /\ word # <<>> /\ Numeral(word) = {value}
<1>1. MAX_U64 \in Nat
  BY TextAssumption
<1>2. HexWidth(algo) \in Nat
  BY DEF HexWidth
<1>3. CASE asHex
  BY <1>1, <1>2, <1>3, HexadecimalRead DEF Rendered
<1>4. CASE ~asHex
  <2>1. Seq(Digit) \subseteq Seq(Digit \cup {"x"})
    OBVIOUS
  <2> QED
    BY <1>1, <1>4, <2>1, DecimalRead DEF Rendered
<1> QED
  BY <1>3, <1>4

(* A line without its newline. *)
Body(algo, value, asHex, path, pad) ==
  Name[algo] \o Spaces(1 + pad) \o Rendered(algo, value, asHex) \o Spaces(1 + pad) \o path

LEMMA OneEntry ==
  ASSUME NEW a, NEW b, NEW c
  PROVE  {a} \X {b} \X {c} = {<<a, b, c>>}
OBVIOUS

LEMMA BodyRead ==
  ASSUME NEW C, NameChars \subseteq C, Digit \cup {"x"} \subseteq C, SP \in C,
         NEW algo \in AllAlgos, NEW value \in 0 .. MAX_U64, NEW asHex \in BOOLEAN,
         NEW path \in Seq(C), path # <<>>, NEW pad \in Nat
  PROVE  LET body == Body(algo, value, asHex, path, pad)
         IN  /\ body \in Seq(C) /\ body # <<>> /\ Last(body) = Last(path)
             /\ path[1] \notin White =>
                  ~Ignored(body) /\ ParseLine(body) = [ok |-> TRUE, entry |-> <<algo, value, path>>]
<1> DEFINE name == Name[algo]
           word == Rendered(algo, value, asHex)
           n == 1 + pad
           gap == Spaces(n)
           tail == word \o (gap \o path)
           body == name \o (gap \o tail)
<1>1. /\ name \in Seq(C) /\ name # <<>> /\ \A j \in 1 .. Len(name) : name[j] \notin White
      /\ name[1] \in {"crc", "nmea"}
  BY NameKeys, MarksApart
<1>2. /\ word \in Seq(C) /\ word # <<>> /\ \A j \in 1 .. Len(word) : word[j] \notin White
      /\ Numeral(word) = {value}
  <2> DEFINE W == Digit \cup {"x"}
  <2>1. word \in Seq(W) /\ word # <<>> /\ Numeral(word) = {value}
    BY RenderedRead
  <2>2. W \subseteq C /\ \A c \in W : c \notin White
    BY MarksApart
  <2> HIDE DEF word, W
  <2> QED
    BY <2>1, <2>2
<1>3. gap \in Seq(C) /\ n \in Nat /\ n # 0
  BY MarksApart DEF Spaces
<1>4. Parse(name) = {algo}
  BY ParseName
<1>5. SP \in C
  OBVIOUS
<1>6. Body(algo, value, asHex, path, pad) = body
  <2> HIDE DEF name, word, gap
  <2>1. ((((name \o gap) \o word) \o gap) \o path) = name \o (gap \o (word \o (gap \o path)))
    <3> DEFINE rest == gap \o path
    <3>1. rest \in Seq(C)
      BY <1>3
    <3>2. name \o gap \in Seq(C) /\ (name \o gap) \o word \in Seq(C)
      BY <1>1, <1>2, <1>3
    <3>3. (((name \o gap) \o word) \o gap) \o path = ((name \o gap) \o word) \o rest
      <4> DEFINE x == (name \o gap) \o word
      <4>1. x \in Seq(C)
        BY <3>2
      <4> HIDE DEF x
      <4> QED
        BY <1>3, <4>1, ConcatAssociative
    <3> HIDE DEF rest
    <3>4. ((name \o gap) \o word) \o rest = (name \o gap) \o (word \o rest)
      <4> DEFINE x == name \o gap
      <4>1. x \in Seq(C)
        BY <3>2
      <4> HIDE DEF x
      <4> QED
        BY <1>2, <3>1, <4>1, ConcatAssociative
    <3>5. (name \o gap) \o (word \o rest) = name \o (gap \o (word \o rest))
      <4> DEFINE y == word \o rest
      <4>1. y \in Seq(C)
        BY <1>2, <3>1
      <4> HIDE DEF y
      <4> QED
        BY ONLY <1>1, <1>3, <4>1, ConcatAssociative
    <3> QED
      BY <3>3, <3>4, <3>5 DEF rest
  <2> QED
    BY <2>1 DEF Body, name, word, gap
<1> HIDE DEF name, word
<1>7. path[1] \notin White => NextField(tail) = [ok |-> TRUE, field |-> word, rest |-> path]
  BY <1>2, <1>3, <1>5, NextFieldOf
<1> HIDE DEF gap
<1>8. /\ tail \in Seq(C) /\ tail # <<>> /\ tail[1] \notin White
      /\ Last(tail) = Last(path)
  <2> DEFINE back == gap \o path
  <2>1. back \in Seq(C) /\ back # <<>> /\ Last(back) = Last(path)
    <3>1. Len(gap) \in Nat /\ Len(path) \in Nat /\ Len(path) # 0
      BY <1>3
    <3>2. back \in Seq(C) /\ Len(back) = Len(gap) + Len(path)
          /\ back[Len(gap) + Len(path)] = path[Len(path)]
      BY <1>3, <3>1
    <3> HIDE DEF back
    <3> QED
      BY <3>1, <3>2 DEF Last
  <2> HIDE DEF back
  <2>2. Len(back) \in Nat /\ Len(word) \in Nat /\ Len(word) # 0 /\ Len(back) # 0
    BY <1>2, <2>1
  <2>3. /\ word \o back \in Seq(C) /\ Len(word \o back) = Len(word) + Len(back)
        /\ (word \o back)[1] = word[1]
        /\ (word \o back)[Len(word) + Len(back)] = back[Len(back)]
    BY <1>2, <2>1, <2>2
  <2> DEFINE whole == word \o back
  <2>4. tail = whole
    BY DEF back
  <2> HIDE DEF whole, tail
  <2> QED
    BY <1>2, <2>1, <2>2, <2>3, <2>4 DEF Last, whole
<1> HIDE DEF tail
<1>9. /\ body \in Seq(C) /\ body # <<>> /\ body[1] = name[1]
      /\ Last(body) = Last(path)
  <2> DEFINE back == gap \o tail
  <2>1. back \in Seq(C) /\ back # <<>> /\ Last(back) = Last(tail)
    <3>1. Len(gap) \in Nat /\ Len(tail) \in Nat /\ Len(tail) # 0
      BY <1>3, <1>8
    <3>2. back \in Seq(C) /\ Len(back) = Len(gap) + Len(tail)
          /\ back[Len(gap) + Len(tail)] = tail[Len(tail)]
      BY <1>3, <1>8, <3>1
    <3> HIDE DEF back
    <3> QED
      BY <3>1, <3>2 DEF Last
  <2> HIDE DEF back
  <2>2. Len(back) \in Nat /\ Len(name) \in Nat /\ Len(name) # 0 /\ Len(back) # 0
    BY <1>1, <2>1
  <2>3. /\ name \o back \in Seq(C) /\ Len(name \o back) = Len(name) + Len(back)
        /\ (name \o back)[1] = name[1]
        /\ (name \o back)[Len(name) + Len(back)] = back[Len(back)]
    BY <1>1, <2>1, <2>2
  <2> DEFINE whole == name \o back
  <2>4. body = whole
    BY DEF back
  <2> HIDE DEF whole, body
  <2> QED
    BY <1>8, <2>1, <2>2, <2>3, <2>4 DEF Last, whole
<1>10. NextField(body) = [ok |-> TRUE, field |-> name, rest |-> tail]
  BY <1>1, <1>3, <1>5, <1>8, NextFieldOf DEF gap
<1> HIDE DEF body
<1>11. TrimStart(body) = body
  BY <1>1, <1>9, MarksApart, TrimStartNone DEF White
<1>12. ~Ignored(body)
  BY <1>1, <1>9, <1>11, MarksApart DEF Ignored
<1>13. ASSUME path[1] \notin White
       PROVE  ParseLine(body) = [ok |-> TRUE, entry |-> <<algo, value, path>>]
  <2> DEFINE Entry == {algo} \X {value} \X {path}
  <2>1. Entry = {<<algo, value, path>>}
    BY OneEntry
  <2>2. Entry # {} /\ (CHOOSE e \in Entry : TRUE) = <<algo, value, path>>
    <3> DEFINE x == <<algo, value, path>>
    <3> HIDE DEF x, Entry
    <3>1. Entry = {x}
      BY <2>1 DEF x
    <3>2. (CHOOSE e \in Entry : TRUE) \in Entry
      BY <3>1
    <3>3. (CHOOSE e \in Entry : TRUE) = x
      BY <3>1, <3>2
    <3> QED
      BY <3>1, <3>3 DEF x
  <2> HIDE DEF Entry
  <2>3. NextField(body).ok /\ NextField(body).field = name /\ NextField(body).rest = tail
    BY <1>10
  <2>4. NextField(tail).ok /\ NextField(tail).field = word /\ NextField(tail).rest = path
    BY <1>7, <1>13
  <2>5. ParseLine(body) = IF Parse(name) \X Numeral(word) \X {path} = {} THEN [ok |-> FALSE]
                          ELSE [ok |-> TRUE,
                                entry |-> CHOOSE e \in Parse(name) \X Numeral(word) \X {path} : TRUE]
    BY <2>3, <2>4 DEF ParseLine
  <2>6. Parse(name) \X Numeral(word) \X {path} = Entry
    BY <1>2, <1>4 DEF Entry
  <2> QED
    BY <2>2, <2>5, <2>6
<1> QED
  BY <1>6, <1>9, <1>12, <1>13

-----------------------------------------------------------------------------
(* Carriage returns at the end of a line are dropped. *)

LEMMA GreatestOf ==
  ASSUME NEW n \in Nat, NEW I, I \subseteq 1 .. n, I # {}
  PROVE  Max(I) \in I
<1> DEFINE J == {j \in Nat : \E i \in I : j = n - i}
<1>1. J \subseteq Nat /\ J # {}
  <2>1. PICK i \in I : TRUE
    OBVIOUS
  <2>2. n - i \in J
    BY <2>1
  <2> QED
    BY <2>2
<1>2. PICK m \in J : \A j \in J : m <= j
  <2> HIDE DEF J
  <2> QED
    BY <1>1, Parts!LeastOf
<1>3. PICK i \in I : m = n - i
  OBVIOUS
<1>4. \A j \in I : i >= j
  <2> SUFFICES ASSUME NEW j \in I PROVE i >= j
    OBVIOUS
  <2>1. n - j \in J
    OBVIOUS
  <2>2. m <= n - j
    BY <1>2, <2>1
  <2> QED
    BY <1>3, <2>2
<1>5. Max(I) = i
  <2>1. I \subseteq Nat
    OBVIOUS
  <2> QED
    BY <1>4, <2>1, GreatestIn
<1> QED
  BY <1>5

LEMMA TrimCrNone ==
  ASSUME NEW C, NEW s \in Seq(C), s # <<>> => Last(s) # CR
  PROVE  TrimCr(s) = s
<1>1. CASE s # <<>>
  <2>1. Len(s) \in 1 .. Len(s) /\ s[Len(s)] # CR /\ \A j \in Len(s) + 1 .. Len(s) : s[j] \in {CR}
    BY <1>1 DEF Last
  <2>2. s[Len(s)] \notin {CR}
    BY <2>1
  <2>3. LastNot(s, {CR}) = Len(s)
    BY <2>1, <2>2, LastNotIs
  <2> QED
    BY <2>3, SubSeqFull DEF TrimCr
<1>2. CASE s = <<>>
  <2> DEFINE I == {j \in 1 .. Len(s) : s[j] \notin {CR}}
  <2>1. LastNot(s, {CR}) = IF I # {} THEN Max(I) ELSE 0
    BY DEF LastNot, SelectLastInSeq
  <2>2. I = {}
    BY <1>2
  <2>3. LastNot(s, {CR}) = 0
    BY <2>1, <2>2
  <2>4. SubSeq(s, 1, 0) = s
    BY <1>2
  <2> QED
    BY <2>3, <2>4 DEF TrimCr
<1> QED
  BY <1>1, <1>2

LEMMA TrimCrAppend ==
  ASSUME NEW C, NEW s \in Seq(C)
  PROVE  TrimCr(Append(s, CR)) = TrimCr(s)
<1> DEFINE longer == Append(s, CR)
           I == {j \in 1 .. Len(s) : s[j] \notin {CR}}
           J == {j \in 1 .. Len(longer) : longer[j] \notin {CR}}
           k == LastNot(s, {CR})
<1>1. I = J
  OBVIOUS
<1>2. k = IF I # {} THEN Max(I) ELSE 0
  BY DEF LastNot, SelectLastInSeq
<1>3. LastNot(longer, {CR}) = IF J # {} THEN Max(J) ELSE 0
  BY DEF LastNot, SelectLastInSeq
<1>4. Len(s) \in Nat /\ I \subseteq 1 .. Len(s)
  OBVIOUS
<1> HIDE DEF I, J, k, longer
<1>5. LastNot(longer, {CR}) = k
  BY <1>1, <1>2, <1>3
<1>6. k \in 0 .. Len(s)
  <2>1. I # {} => Max(I) \in 1 .. Len(s)
    BY <1>4, GreatestOf
  <2> QED
    BY <1>2, <1>4, <2>1
<1>7. SubSeq(longer, 1, k) = SubSeq(s, 1, k)
  <2>1. \A j \in 1 .. k : longer[j] = s[j]
    BY <1>6 DEF longer
  <2>2. Len(longer) = Len(s) + 1 /\ longer \in Seq(C \cup {CR})
    BY DEF longer
  <2> QED
    BY <1>6, <2>1, <2>2
<1> QED
  BY <1>5, <1>7 DEF TrimCr, longer, k

(* Whether a line ends in LF or CR LF does not matter. *)
LEMMA TrimCrEnded ==
  ASSUME NEW C, NEW s \in Seq(C)
  PROVE  TrimCr(Ended(s)) = TrimCr(s)
<1>1. CASE s # <<>> /\ Last(s) = CR
  <2> DEFINE front == Front(s)
  <2>1. front \in Seq(C) /\ s = Append(front, CR)
    <3>1. front = [j \in 1 .. Len(s) - 1 |-> s[j]]
      BY <1>1 DEF Front
    <3>2. Len(s) \in Nat /\ Len(s) # 0 /\ s[Len(s)] = CR
      BY <1>1 DEF Last
    <3>3. front \in Seq(C) /\ Len(front) = Len(s) - 1
      BY <3>1, <3>2
    <3> HIDE DEF front
    <3> QED
      BY <3>1, <3>2, <3>3
  <2> HIDE DEF front
  <2>2. TrimCr(s) = TrimCr(front)
    BY <2>1, TrimCrAppend
  <2> QED
    BY <1>1, <2>2 DEF Ended, front
<1>2. CASE ~(s # <<>> /\ Last(s) = CR)
  BY <1>2 DEF Ended
<1> QED
  BY <1>1, <1>2

(* What the keeper of a manifest adds is ignored. *)
LEMMA AnnotationIgnored ==
  ASSUME NEW s \in {<<>>, <<SP>>, <<HASH, "x">>, <<SP, HASH, CR>>}
  PROVE  Ignored(TrimCr(s))
<1> DEFINE mark == "x"
<1>1. mark \in Marks /\ mark # CR
  BY MarksApart
<1> HIDE DEF mark
<1>2. CASE s = <<>>
  <2> DEFINE none == <<>>
  <2>1. none \in Seq(Marks) /\ \A j \in 1 .. Len(none) : none[j] \in White
    OBVIOUS
  <2>2. none # <<>> => Last(none) # CR
    OBVIOUS
  <2> HIDE DEF none
  <2>3. TrimCr(none) = none
    BY <2>1, <2>2, TrimCrNone
  <2>4. FirstNot(none, White) = 0
    BY <2>1, FirstNotNone
  <2>5. Ignored(TrimCr(none))
    BY <2>3, <2>4 DEF Ignored, TrimStart
  <2> QED
    BY <1>2, <2>5 DEF none
<1>3. CASE s = <<SP>>
  <2>1. s \in Seq(Marks) /\ Len(s) = 1 /\ s[1] = SP
    BY <1>3, MarksApart
  <2>2. TrimCr(s) = s
    BY <2>1, MarksApart, TrimCrNone DEF Last
  <2>3. FirstNot(s, White) = 0
    BY <2>1, MarksApart, FirstNotNone
  <2> QED
    BY <2>2, <2>3 DEF Ignored, TrimStart
<1>4. CASE s = <<HASH, mark>>
  <2>1. s \in Seq(Marks) /\ Len(s) = 2 /\ s[1] = HASH /\ s[2] = mark
    BY <1>1, <1>4, MarksApart
  <2>2. TrimCr(s) = s
    BY <1>1, <2>1, TrimCrNone DEF Last
  <2>3. TrimStart(s) = s
    BY <2>1, MarksApart, TrimStartNone
  <2> QED
    BY <2>1, <2>2, <2>3 DEF Ignored
<1>5. CASE s = <<SP, HASH, CR>>
  <2> DEFINE u == <<SP, HASH>>
             v == <<HASH>>
  <2>1. u \in Seq(Marks) /\ Len(u) = 2 /\ u[2] = HASH /\ s = Append(u, CR)
    BY <1>5, MarksApart
  <2>2. v \in Seq(Marks) /\ v # <<>> /\ v[1] = HASH /\ u = Spaces(1) \o v
    BY MarksApart DEF Spaces
  <2> HIDE DEF u, v
  <2>3. TrimCr(s) = TrimCr(u)
    BY <2>1, TrimCrAppend
  <2>4. TrimCr(u) = u
    BY <2>1, MarksApart, TrimCrNone DEF Last
  <2>5. TrimStart(u) = v
    BY <2>2, MarksApart, TrimStartSome
  <2> QED
    BY <2>2, <2>3, <2>4, <2>5 DEF Ignored
<1> QED
  BY <1>2, <1>3, <1>4, <1>5 DEF mark

-----------------------------------------------------------------------------
(* What is written to the manifest, line by line. *)

LEMMA SplitMore ==
  ASSUME NEW closed \in Seq(Seq(Marks)), NEW open \in Seq(Marks), NEW c \in Marks, c # LF
  PROVE  SplitStep(LF, Append(closed, open), c) = Append(closed, Append(open, c))
<1> DEFINE parts == Append(closed, open)
           L == Seq(Marks)
<1>1. parts \in Seq(L) /\ Len(parts) = Len(closed) + 1 /\ parts[Len(closed) + 1] = open
  OBVIOUS
<1>2. Last(parts) = open
  <2>1. Len(closed) \in Nat
    OBVIOUS
  <2> HIDE DEF parts
  <2> QED
    BY <1>1, <2>1 DEF Last
<1>3. Front(parts) = closed
  BY DEF Front
<1> HIDE DEF parts
<1>4. SplitStep(LF, parts, c) = closed \o <<Append(open, c)>>
  BY <1>2, <1>3 DEF SplitStep
<1>5. closed \o <<Append(open, c)>> = Append(closed, Append(open, c))
  <2> DEFINE longer == Append(open, c)
  <2>1. longer \in L
    OBVIOUS
  <2> HIDE DEF longer, L
  <2>2. closed \in Seq(L)
    BY DEF L
  <2> QED
    BY <2>1, <2>2
<1> QED
  BY <1>4, <1>5 DEF parts

LEMMA MarksBut == (Marks \ {LF}) \cup {LF} = Marks
BY MarksApart

LEMMA SplitConcat ==
  ASSUME NEW parts, NEW s \in Seq(Marks), NEW t \in Seq(Marks)
  PROVE  Parts!Fold(LF, parts, s \o t) = Parts!Fold(LF, Parts!Fold(LF, parts, s), t)
BY Parts!FoldConcat

(* A line is added at the end. *)
LEMMA SplitLine ==
  ASSUME NEW P \in Seq(Seq(Marks)), NEW t \in Seq(Marks), Split(t, LF) = Append(P, <<>>),
         NEW body \in Seq(Marks \ {LF})
  PROVE  /\ Split(t \o Append(body, LF), LF) = Append(Append(P, body), <<>>)
         /\ body \in Seq(Marks) /\ Append(P, body) \in Seq(Seq(Marks))
         /\ t \o Append(body, LF) \in Seq(Marks)
<1> DEFINE E == Marks \ {LF}
           none == <<>>
           base == Append(none, none)
<1>0. LF \notin E /\ E \cup {LF} = Marks /\ LF \in Marks
  BY MarksBut, MarksApart
<1>1. body \in Seq(Marks) /\ Append(body, LF) \in Seq(Marks)
  BY <1>0
<1>2. Append(none, none) = <<<<>>>> /\ none \in Seq(Marks)
  OBVIOUS
<1>3. none \o body = body
  OBVIOUS
<1> HIDE DEF none, E
<1>4. Parts!Fold(LF, base, t) = Append(P, none)
  BY <1>2, SplitFold DEF none
<1>5. Parts!Fold(LF, base, t \o Append(body, LF)) = Parts!Fold(LF, Append(P, none), Append(body, LF))
  <2> DEFINE more == Append(body, LF)
  <2>1. more \in Seq(Marks)
    BY <1>1
  <2> HIDE DEF more, base
  <2>2. Parts!Fold(LF, base, t \o more) = Parts!Fold(LF, Append(P, none), more)
    <3>1. Parts!Fold(LF, base, t \o more) = Parts!Fold(LF, Parts!Fold(LF, base, t), more)
      BY <2>1, SplitConcat
    <3> QED
      BY <1>4, <3>1
  <2> QED
    BY <2>2 DEF more
<1> HIDE DEF base
<1>6. Parts!Fold(LF, Append(P, none), Append(body, LF))
        = SplitStep(LF, Parts!Fold(LF, Append(P, none), body), LF)
  <2> DEFINE start == Append(P, none)
  <2> HIDE DEF start
  <2> QED
    BY <1>0, <1>1, Parts!FoldAppend
<1>7. Parts!Fold(LF, Append(P, none), body) = Append(P, body)
  <2>2. Parts!Fold(LF, Append(P, none), body) = Append(P, none \o body)
    <3> DEFINE L == Seq(Marks)
    <3>1. L = Seq(Marks) /\ P \in Seq(L) /\ none \in L
      BY <1>2
    <3>2. E \subseteq Marks /\ LF \notin E /\ body \in Seq(E)
      BY DEF E
    <3> HIDE DEF L
    <3> QED
      BY ONLY <3>1, <3>2, SplitGrows
  <2> QED
    BY <1>3, <2>2
<1>8. SplitStep(LF, Append(P, body), LF) = Append(Append(P, body), none)
  BY DEF SplitStep, none
<1>9. Split(t \o Append(body, LF), LF) = Append(Append(P, body), none)
  BY <1>2, <1>5, <1>6, <1>7, <1>8, SplitFold DEF base
<1>10. Append(P, body) \in Seq(Seq(Marks)) /\ t \o Append(body, LF) \in Seq(Marks)
  BY <1>1
<1> QED
  BY <1>1, <1>9, <1>10 DEF none

CrLfStep(none, pieces, piece) == pieces \o (IF piece = LF THEN <<CR, LF>> ELSE <<piece>>)
Ends == INSTANCE FoldLemmas WITH Op <- CrLfStep

LEMMA CrLfFold ==
  ASSUME NEW pieces
  PROVE  CrLf(pieces) = Ends!Fold(0, <<>>, pieces)
BY DEF CrLf, CrLfStep, Ends!Fold, Ends!FoldLeft, Ends!MapThenFoldSet, Ends!Max,
       FoldLeft, MapThenFoldSet, Max

LEMMA CrLfType ==
  ASSUME NEW t \in Seq(Marks)
  PROVE  CrLf(t) \in Seq(Marks)
<1> DEFINE none == <<>>
           L == Seq(Marks)
<1>1. none \in L
  OBVIOUS
<1>2. \A acc \in L, piece \in Marks : CrLfStep(0, acc, piece) \in L
  BY MarksApart DEF CrLfStep
<1> HIDE DEF L, none
<1>3. Ends!Fold(0, none, t) \in L
  BY <1>1, <1>2, Ends!FoldType
<1> QED
  BY <1>3, CrLfFold DEF L, none

LEMMA CrLfAppend ==
  ASSUME NEW t \in Seq(Marks), NEW piece \in Marks
  PROVE  CrLf(Append(t, piece)) = IF piece = LF THEN Append(Append(CrLf(t), CR), LF)
                                  ELSE Append(CrLf(t), piece)
<1> DEFINE whole == CrLf(t)
<1>1. CrLf(Append(t, piece)) = CrLfStep(0, whole, piece)
  BY CrLfFold, Ends!FoldAppend
<1>2. whole \in Seq(Marks)
  BY CrLfType
<1> HIDE DEF whole
<1>3. whole \o <<CR, LF>> = Append(Append(whole, CR), LF) /\ whole \o <<piece>> = Append(whole, piece)
  BY <1>2, MarksApart
<1>4. CrLf(Append(t, piece)) = IF piece = LF THEN Append(Append(whole, CR), LF) ELSE Append(whole, piece)
  BY <1>1, <1>3 DEF CrLfStep
<1> QED
  BY <1>4 DEF whole

WithCr(parts) == [n \in 1 .. Len(parts) |-> Append(parts[n], CR)]

LEMMA WithCrAppend ==
  ASSUME NEW parts \in Seq(Seq(Marks)), NEW part \in Seq(Marks)
  PROVE  /\ WithCr(parts) \in Seq(Seq(Marks))
         /\ WithCr(Append(parts, part)) = Append(WithCr(parts), Append(part, CR))
<1> DEFINE L == Seq(Marks)
<1>1. \A p \in L : Append(p, CR) \in L
  BY MarksApart
<1> HIDE DEF L
<1>2. parts \in Seq(L) /\ part \in L
  BY DEF L
<1> DEFINE Ended1(p) == Append(p, CR)
<1>3. \A p \in L : Ended1(p) \in L
  BY <1>1
<1>4. WithCr(parts) = [n \in 1 .. Len(parts) |-> Ended1(parts[n])]
  BY DEF WithCr
<1>5. WithCr(Append(parts, part)) = [n \in 1 .. Len(Append(parts, part)) |-> Ended1(Append(parts, part)[n])]
  BY DEF WithCr
<1> HIDE DEF Ended1
<1>6. WithCr(parts) \in Seq(L) /\ Len(WithCr(parts)) = Len(parts)
  BY <1>2, <1>3, <1>4
<1>7. WithCr(Append(parts, part)) = Append(WithCr(parts), Ended1(part))
  BY <1>2, <1>3, <1>4, <1>5, <1>6
<1> QED
  BY <1>6, <1>7 DEF Ended1, L

(* Every line is there still, with a carriage return behind it. *)
LEMMA SplitCrLf ==
  ASSUME NEW t \in Seq(Marks)
  PROVE  \E closed \in Seq(Seq(Marks)), open \in Seq(Marks) :
           /\ Split(t, LF) = Append(closed, open)
           /\ Split(CrLf(t), LF) = Append(WithCr(closed), open)
<1> DEFINE none == <<>>
           base == <<<<>>>>
           Kept(u, closed, open) == /\ Split(u, LF) = Append(closed, open)
                                    /\ Split(CrLf(u), LF) = Append(WithCr(closed), open)
           S == {u \in Seq(Marks) : \E closed \in Seq(Seq(Marks)), open \in Seq(Marks) :
                                      Kept(u, closed, open)}
<1>1. <<>> \in S
  <2>1. none \in Seq(Marks) /\ none \in Seq(Seq(Marks)) /\ Append(none, none) = base
        /\ WithCr(none) = none
    BY DEF WithCr
  <2>2. CrLf(none) = none
    BY CrLfFold, Ends!FoldEmpty
  <2>3. Split(none, LF) = base
    BY SplitFold, Parts!FoldEmpty
  <2> HIDE DEF none
  <2>4. Kept(none, none, none)
    BY <2>1, <2>2, <2>3
  <2> HIDE DEF Kept
  <2>5. none \in S
    BY <2>1, <2>4
  <2> QED
    BY <2>5 DEF none
<1>2. ASSUME NEW u \in Seq(Marks), NEW c \in Marks, u \in S PROVE Append(u, c) \in S
  <2>1. PICK closed \in Seq(Seq(Marks)), open \in Seq(Marks) : Kept(u, closed, open)
    BY <1>2
  <2> DEFINE whole == CrLf(u)
             marked == WithCr(closed)
  <2>2. Append(u, c) \in Seq(Marks)
    OBVIOUS
  <2>3. whole \in Seq(Marks)
    BY CrLfType
  <2>4. marked \in Seq(Seq(Marks))
    BY WithCrAppend
  <2>5. Split(Append(u, c), LF) = SplitStep(LF, Append(closed, open), c)
    <3> HIDE DEF base
    <3>1. Parts!Fold(LF, base, Append(u, c)) = SplitStep(LF, Parts!Fold(LF, base, u), c)
      BY Parts!FoldAppend
    <3> QED
      BY <2>1, <3>1, SplitFold DEF base
  <2>6. \A v \in Seq(Marks), d \in Marks : Split(Append(v, d), LF) = SplitStep(LF, Split(v, LF), d)
    <3> SUFFICES ASSUME NEW v \in Seq(Marks), NEW d \in Marks
                 PROVE  Split(Append(v, d), LF) = SplitStep(LF, Split(v, LF), d)
      OBVIOUS
    <3> HIDE DEF base
    <3>1. Parts!Fold(LF, base, Append(v, d)) = SplitStep(LF, Parts!Fold(LF, base, v), d)
      BY Parts!FoldAppend
    <3> QED
      BY <3>1, SplitFold DEF base
  <2>7. CASE c = LF
    <3>1. CrLf(Append(u, c)) = Append(Append(whole, CR), LF)
      BY <2>7, CrLfAppend
    <3>2. Append(whole, CR) \in Seq(Marks) /\ Append(open, CR) \in Seq(Marks)
      BY <2>3, MarksApart
    <3>3. Split(Append(whole, CR), LF) = Append(marked, Append(open, CR))
      <4>1. Split(Append(whole, CR), LF) = SplitStep(LF, Append(marked, open), CR)
        BY <2>1, <2>3, <2>6, MarksApart
      <4> HIDE DEF marked
      <4>2. CR \in Marks /\ CR # LF
        BY MarksApart
      <4> QED
        BY <2>4, <4>1, <4>2, SplitMore
    <3>4. Split(CrLf(Append(u, c)), LF) = SplitStep(LF, Append(marked, Append(open, CR)), LF)
      <4> HIDE DEF whole
      <4> QED
        BY <2>6, <3>1, <3>2, <3>3, MarksApart
    <3>5. Split(CrLf(Append(u, c)), LF) = Append(Append(marked, Append(open, CR)), none)
      BY <3>4 DEF SplitStep
    <3>6. Split(Append(u, c), LF) = Append(Append(closed, open), none)
      BY <2>5, <2>7 DEF SplitStep
    <3>7. WithCr(Append(closed, open)) = Append(marked, Append(open, CR))
      BY WithCrAppend
    <3>8. Append(closed, open) \in Seq(Seq(Marks)) /\ none \in Seq(Marks)
      OBVIOUS
    <3> HIDE DEF none
    <3>9. Kept(Append(u, c), Append(closed, open), none)
      BY <3>5, <3>6, <3>7
    <3> HIDE DEF Kept
    <3> QED
      BY <2>2, <3>8, <3>9
  <2>8. CASE c # LF
    <3>1. CrLf(Append(u, c)) = Append(whole, c)
      BY <2>8, CrLfAppend
    <3>2. Split(Append(u, c), LF) = Append(closed, Append(open, c))
      BY <2>5, <2>8, SplitMore
    <3>3. Split(Append(whole, c), LF) = SplitStep(LF, Append(marked, open), c)
      BY <2>1, <2>3, <2>6
    <3>4. Split(Append(whole, c), LF) = Append(marked, Append(open, c))
      <4> HIDE DEF marked
      <4> QED
        BY <2>4, <2>8, <3>3, SplitMore
    <3>5. Append(open, c) \in Seq(Marks)
      OBVIOUS
    <3>6. Kept(Append(u, c), closed, Append(open, c))
      BY <3>1, <3>2, <3>4
    <3> HIDE DEF Kept
    <3> QED
      BY <2>2, <3>5, <3>6
  <2> QED
    BY <2>7, <2>8
<1>3. Seq(Marks) \subseteq S
  <2> HIDE DEF S
  <2> QED
    BY <1>1, <1>2, Parts!SeqSetInduction
<1>4. t \in S
  BY <1>3
<1> QED
  BY <1>4

-----------------------------------------------------------------------------
(* What is read from the lines of a manifest. *)

ReadStep(none, read, part) ==
  IF Ignored(TrimCr(part)) THEN read ELSE Append(read, ParseLine(TrimCr(part)).entry)
Reads == INSTANCE FoldLemmas WITH Op <- ReadStep

EntriesOf(parts) == Reads!Fold(0, <<>>, parts)

Understood(part) == Ignored(TrimCr(part)) \/ ParseLine(TrimCr(part)).ok

LEMMA EntriesOfAppend ==
  ASSUME NEW parts \in Seq(Seq(Marks)), NEW part \in Seq(Marks)
  PROVE  EntriesOf(Append(parts, part)) = ReadStep(0, EntriesOf(parts), part)
<1> DEFINE L == Seq(Marks)
<1>1. parts \in Seq(L) /\ part \in L
  OBVIOUS
<1> HIDE DEF L
<1> QED
  BY <1>1, Reads!FoldAppend DEF EntriesOf

LEMMA EntriesOfNone == EntriesOf(<<>>) = <<>>
BY Reads!FoldEmpty DEF EntriesOf

LEMMA EntriesOfPrefix ==
  ASSUME NEW parts \in Seq(Seq(Marks)), NEW i \in Nat, i < Len(parts)
  PROVE  EntriesOf(SubSeq(parts, 1, i + 1)) = ReadStep(0, EntriesOf(SubSeq(parts, 1, i)), parts[i + 1])
<1> DEFINE L == Seq(Marks)
<1>1. parts \in Seq(L)
  OBVIOUS
<1> HIDE DEF L
<1> QED
  BY <1>1, Reads!FoldPrefix DEF EntriesOf

(* The same as before the carriage returns. *)
LEMMA EntriesWithCr ==
  ASSUME NEW parts \in Seq(Seq(Marks))
  PROVE  EntriesOf(WithCr(parts)) = EntriesOf(parts)
<1> DEFINE L == Seq(Marks)
           S == {ps \in Seq(L) : EntriesOf(WithCr(ps)) = EntriesOf(ps)}
<1>1. <<>> \in S
  BY DEF WithCr
<1>2. ASSUME NEW ps \in Seq(L), NEW p \in L, ps \in S PROVE Append(ps, p) \in S
  <2>1. WithCr(ps) \in Seq(Seq(Marks)) /\ WithCr(Append(ps, p)) = Append(WithCr(ps), Append(p, CR))
    BY WithCrAppend
  <2>2. Append(p, CR) \in Seq(Marks) /\ TrimCr(Append(p, CR)) = TrimCr(p)
    BY MarksApart, TrimCrAppend
  <2>3. EntriesOf(Append(ps, p)) = ReadStep(0, EntriesOf(ps), p)
    BY EntriesOfAppend
  <2>4. EntriesOf(Append(WithCr(ps), Append(p, CR))) = ReadStep(0, EntriesOf(WithCr(ps)), Append(p, CR))
    BY <2>1, <2>2, EntriesOfAppend
  <2>5. EntriesOf(WithCr(ps)) = EntriesOf(ps)
    BY <1>2
  <2>6. EntriesOf(WithCr(Append(ps, p))) = EntriesOf(Append(ps, p))
    BY <2>1, <2>2, <2>3, <2>4, <2>5 DEF ReadStep
  <2>7. Append(ps, p) \in Seq(L)
    OBVIOUS
  <2> QED
    BY <2>6, <2>7
<1>3. Seq(L) \subseteq S
  <2> HIDE DEF S, L
  <2> QED
    BY <1>1, <1>2, Parts!SeqSetInduction
<1>4. parts \in S
  BY <1>3
<1> QED
  BY <1>4

LEMMA TextLinesAre ==
  ASSUME NEW P \in Seq(Seq(Marks)), Split(text, LF) = Append(P, <<>>)
  PROVE  /\ Len(TextLines) = Len(P)
         /\ \A n \in 1 .. Len(P) : TextLines[n] = Ended(P[n])
<1> DEFINE parts == Append(P, <<>>)
           ended == [n \in 1 .. Len(parts) - 1 |-> Ended(parts[n])]
<1>1. /\ Len(P) \in Nat /\ Len(parts) = Len(P) + 1 /\ parts[Len(P) + 1] = <<>>
      /\ \A n \in 1 .. Len(P) : parts[n] = P[n]
  OBVIOUS
<1>2. Last(parts) = <<>>
  <2> HIDE DEF parts
  <2> QED
    BY <1>1 DEF Last
<1>3. TextLines = ended
  <2> HIDE DEF parts, ended
  <2>1. TextLines = LET e == [n \in 1 .. Len(parts) - 1 |-> Ended(parts[n])]
                    IN  IF Last(parts) = <<>> THEN e ELSE Append(e, Last(parts))
    BY DEF TextLines, parts
  <2> QED
    BY <1>2, <2>1 DEF ended
<1> HIDE DEF parts
<1>4. Len(parts) - 1 = Len(P)
  BY <1>1
<1> QED
  BY <1>1, <1>3, <1>4

-----------------------------------------------------------------------------
(* The invariant: as long as every path can be carried, each line of the  *)
(* manifest is ignored or read, what is read from all of them is what was *)
(* printed, and what is read from those that the parser has taken is what *)
(* it has.                                                                *)

Written(P) ==
  /\ P \in Seq(Seq(Marks)) /\ text \in Seq(Marks)
  /\ Split(text, LF) = Append(P, <<>>)
  /\ \A n \in 1 .. Len(P) : Understood(P[n])
  /\ EntriesOf(P) = printed

Progress(P) ==
  /\ offset \in 0 .. Len(P)
  /\ entries = EntriesOf(SubSeq(P, 1, offset))
  /\ textPc \in {"print", "parse", "parsed"}
  /\ textPc = "print" => offset = 0
  /\ textPc = "parsed" => offset = Len(P)

TextInv ==
  /\ printed \in Seq(AllAlgos \X (0 .. MAX_U64) \X Paths)
  /\ AllCarried => \E P : Written(P) /\ Progress(P)

LEMMA TextInvInit == TextInit => TextInv
<1> SUFFICES ASSUME TextInit PROVE TextInv
  OBVIOUS
<1> DEFINE none == <<>>
           base == <<<<>>>>
<1>1. text = none /\ printed = none /\ textPc = "print" /\ offset = 0 /\ entries = none
  BY DEF TextInit
<1>2. Split(none, LF) = base
  BY SplitFold, Parts!FoldEmpty
<1>3. none \in Seq(Marks) /\ none \in Seq(Seq(Marks)) /\ Append(none, none) = base /\ Len(none) = 0
      /\ SubSeq(none, 1, 0) = none
  OBVIOUS
<1>4. EntriesOf(none) = none
  BY EntriesOfNone
<1>5. printed \in Seq(AllAlgos \X (0 .. MAX_U64) \X Paths)
  BY <1>1
<1> HIDE DEF none, base
<1>6. Written(none)
  <2>1. \A n \in 1 .. Len(none) : Understood(none[n])
    BY <1>3
  <2>2. Split(text, LF) = Append(none, none)
    BY <1>1, <1>2, <1>3
  <2> QED
    BY <1>1, <1>3, <1>4, <2>1, <2>2 DEF Written, none
<1>7. Progress(none)
  <2>1. entries = EntriesOf(SubSeq(none, 1, offset))
    BY <1>1, <1>3, <1>4
  <2>2. offset \in 0 .. Len(none) /\ offset = 0 /\ textPc = "print"
    BY <1>1, <1>3
  <2> QED
    BY <2>1, <2>2 DEF Progress
<1> QED
  BY <1>5, <1>6, <1>7 DEF TextInv

(* A line more is written. *)
LEMMA LineWritten ==
  ASSUME NEW P, Written(P), Progress(P), NEW body \in Seq(Marks \ {LF}), Understood(body),
         textPc = "print", text' = text \o Append(body, LF),
         printed' = ReadStep(0, printed, body), UNCHANGED <<textPc, offset, entries>>
  PROVE  Written(Append(P, body))' /\ Progress(Append(P, body))'
<1> DEFINE Q == Append(P, body)
<1>1. P \in Seq(Seq(Marks)) /\ text \in Seq(Marks) /\ Split(text, LF) = Append(P, <<>>)
      /\ EntriesOf(P) = printed /\ \A n \in 1 .. Len(P) : Understood(P[n])
  BY DEF Written
<1>2. /\ Split(text', LF) = Append(Q, <<>>)
      /\ body \in Seq(Marks) /\ Q \in Seq(Seq(Marks)) /\ text' \in Seq(Marks)
  BY <1>1, SplitLine
<1>3. EntriesOf(Q) = printed'
  BY <1>1, <1>2, EntriesOfAppend
<1>4. /\ Len(P) \in Nat /\ Len(Q) = Len(P) + 1 /\ Q[Len(P) + 1] = body
      /\ \A n \in 1 .. Len(P) : Q[n] = P[n]
  BY <1>1
<1>5. offset = 0 /\ entries = EntriesOf(SubSeq(P, 1, 0)) /\ SubSeq(P, 1, 0) = <<>> /\ SubSeq(Q, 1, 0) = <<>>
  BY <1>1, <1>2 DEF Progress
<1> HIDE DEF Q
<1>6. \A n \in 1 .. Len(Q) : Understood(Q[n])
  <2> SUFFICES ASSUME NEW n \in 1 .. Len(Q) PROVE Understood(Q[n])
    OBVIOUS
  <2>1. n \in 1 .. Len(P) \/ n = Len(P) + 1
    BY <1>4
  <2> QED
    BY <1>1, <1>4, <2>1
<1>7. Written(Q)'
  BY <1>2, <1>3, <1>6 DEF Written
<1>8. Progress(Q)'
  <2>1. offset' = 0 /\ entries' = EntriesOf(SubSeq(Q, 1, 0)) /\ textPc' = "print"
    BY <1>5
  <2> QED
    BY <1>4, <2>1 DEF Progress
<1> QED
  BY <1>7, <1>8 DEF Q

LEMMA PrintKept ==
  ASSUME TextInv, PrintLine
  PROVE  TextInv'
<1> USE DEF PrintLine
<1>1. PICK algo \in DOMAIN Values, asHex \in BOOLEAN, path \in Paths, pad \in Pads :
        \E value \in Values[algo] :
          /\ text' = text \o Line(algo, value, asHex, path, pad)
          /\ printed' = Append(printed, <<algo, value, path>>)
  OBVIOUS
<1>2. PICK value \in Values[algo] :
        /\ text' = text \o Line(algo, value, asHex, path, pad)
        /\ printed' = Append(printed, <<algo, value, path>>)
  BY <1>1
<1> DEFINE body == Body(algo, value, asHex, path, pad)
           T == AllAlgos \X (0 .. MAX_U64) \X Paths
           entry == <<algo, value, path>>
<1>3. algo \in AllAlgos /\ value \in 0 .. MAX_U64 /\ pad \in Nat /\ path # <<>> /\ path \in Seq(PathPieces)
  BY TextAssumption DEF AllAlgos
<1>4. entry \in T /\ entry[3] = path
  BY <1>3
<1>5. printed \in Seq(T)
  BY DEF TextInv
<1> HIDE DEF body, T, entry
<1>6. printed' \in Seq(T) /\ Len(printed') = Len(printed) + 1 /\ printed'[Len(printed) + 1] = entry
      /\ \A n \in 1 .. Len(printed) : printed'[n] = printed[n]
  <2>1. printed' = Append(printed, entry)
    BY <1>2 DEF entry
  <2> DEFINE longer == Append(printed, entry)
  <2>2. longer \in Seq(T) /\ Len(longer) = Len(printed) + 1 /\ longer[Len(printed) + 1] = entry
        /\ \A n \in 1 .. Len(printed) : longer[n] = printed[n]
    BY <1>4, <1>5, AppendProperties
  <2> HIDE DEF longer
  <2>3. printed' = longer
    BY <2>1 DEF longer
  <2> QED
    BY <2>2, <2>3
<1>7. ASSUME AllCarried' PROVE AllCarried /\ Carried(path)
  <2>1. \A n \in DOMAIN printed' : Carried(printed'[n][3])
    BY <1>7 DEF AllCarried, Carried
  <2>2. Carried(entry[3])
    <3>1. Len(printed) + 1 \in DOMAIN printed'
      BY <1>5, <1>6
    <3> QED
      BY <1>6, <2>1, <3>1
  <2>3. \A n \in DOMAIN printed : Carried(printed[n][3])
    <3>1. \A n \in 1 .. Len(printed) : n \in DOMAIN printed'
      BY <1>5, <1>6
    <3> QED
      BY <1>5, <1>6, <2>1, <3>1
  <2> QED
    BY <1>4, <2>2, <2>3 DEF AllCarried
<1>8. ASSUME AllCarried' PROVE \E Q : Written(Q)' /\ Progress(Q)'
  <2>1. AllCarried /\ Carried(path)
    BY <1>7, <1>8
  <2>2. PICK P : Written(P) /\ Progress(P)
    BY <2>1 DEF TextInv
  <2> DEFINE E == Marks \ {LF}
  <2>3. path \in Seq(E)
    <3>1. \A j \in 1 .. Len(path) : path[j] \in PathPieces /\ path[j] # LF
      BY <1>3, <2>1 DEF Carried, ToSet
    <3>2. \A j \in 1 .. Len(path) : path[j] \in E
      BY <3>1, MarksApart
    <3> HIDE DEF E
    <3> QED
      BY <1>3, <3>2
  <2>4. NameChars \subseteq E /\ Digit \cup {"x"} \subseteq E /\ SP \in E
    BY MarksApart
  <2> HIDE DEF E
  <2>5. /\ body \in Seq(E) /\ body # <<>> /\ Last(body) = Last(path)
        /\ ~Ignored(body) /\ ParseLine(body) = [ok |-> TRUE, entry |-> entry]
    BY <1>3, <2>1, <2>3, <2>4, BodyRead DEF body, Carried, entry
  <2>6. TrimCr(body) = body
    BY <2>1, <2>5, TrimCrNone DEF Carried
  <2>7. Understood(body) /\ ReadStep(0, printed, body) = printed'
    BY <1>2, <2>5, <2>6 DEF Understood, ReadStep, entry
  <2>8. text' = text \o Append(body, LF)
    <3>1. Line(algo, value, asHex, path, pad) = body \o <<LF>>
      BY DEF Line, body, Body
    <3>2. body \o <<LF>> = Append(body, LF)
      BY <2>5
    <3> QED
      BY <1>2, <3>1, <3>2
  <2>9. body \in Seq(Marks \ {LF})
    BY <2>5 DEF E
  <2>10. textPc = "print" /\ UNCHANGED <<textPc, offset, entries>>
    OBVIOUS
  <2>11. Written(Append(P, body))' /\ Progress(Append(P, body))'
    BY ONLY <2>2, <2>7, <2>8, <2>9, <2>10, LineWritten
  <2> QED
    BY <2>11
<1> QED
  BY <1>6, <1>8 DEF TextInv, T

LEMMA AnnotateKept ==
  ASSUME TextInv, Annotate
  PROVE  TextInv'
<1> USE DEF Annotate
<1> DEFINE Notes == {<<>>, <<SP>>, <<HASH, "x">>, <<SP, HASH, CR>>}
<1>1. PICK note \in {<<LF>>, <<SP, LF>>, <<HASH, "x", LF>>, <<SP, HASH, CR, LF>>} : text' = text \o note
  OBVIOUS
<1>2. printed' = printed /\ textPc = "print" /\ UNCHANGED <<textPc, offset, entries>>
  OBVIOUS
<1>3. \E body \in Notes : note = Append(body, LF)
  <2> DEFINE mark == "x"
  <2>1. /\ <<LF>> = Append(<<>>, LF) /\ <<SP, LF>> = Append(<<SP>>, LF)
        /\ <<HASH, mark, LF>> = Append(<<HASH, mark>>, LF)
        /\ <<SP, HASH, CR, LF>> = Append(<<SP, HASH, CR>>, LF)
    <3> HIDE DEF mark
    <3> QED
      OBVIOUS
  <2> HIDE DEF mark
  <2>2. note = <<LF>> \/ note = <<SP, LF>> \/ note = <<HASH, mark, LF>> \/ note = <<SP, HASH, CR, LF>>
    BY DEF mark
  <2>3. <<>> \in Notes /\ <<SP>> \in Notes /\ <<HASH, mark>> \in Notes /\ <<SP, HASH, CR>> \in Notes
    BY DEF mark
  <2> HIDE DEF Notes
  <2> QED
    BY <2>1, <2>2, <2>3
<1>4. PICK body \in Notes : note = Append(body, LF)
  BY <1>3
<1>5. body \in Seq(Marks \ {LF})
  <2> DEFINE mark == "x"
             E == Marks \ {LF}
  <2>1. SP \in E /\ HASH \in E /\ CR \in E /\ mark \in E
    BY MarksApart
  <2>2. body = <<>> \/ body = <<SP>> \/ body = <<HASH, mark>> \/ body = <<SP, HASH, CR>>
    OBVIOUS
  <2> HIDE DEF mark, E, Notes
  <2>3. <<>> \in Seq(E) /\ <<SP>> \in Seq(E) /\ <<HASH, mark>> \in Seq(E) /\ <<SP, HASH, CR>> \in Seq(E)
    BY <2>1
  <2>4. body \in Seq(E)
    BY <2>2, <2>3
  <2> QED
    BY <2>4 DEF E
<1>6. Ignored(TrimCr(body))
  BY AnnotationIgnored
<1> HIDE DEF Notes
<1>7. Understood(body) /\ ReadStep(0, printed, body) = printed'
  BY <1>2, <1>6 DEF Understood, ReadStep
<1>8. text' = text \o Append(body, LF)
  BY <1>1, <1>4
<1>9. ASSUME NEW P, Written(P), Progress(P)
      PROVE  Written(Append(P, body))' /\ Progress(Append(P, body))'
  BY ONLY <1>9, <1>2, <1>5, <1>7, <1>8, LineWritten
<1>10. AllCarried' => AllCarried
  BY <1>2 DEF AllCarried, Carried
<1> QED
  BY <1>2, <1>9, <1>10 DEF TextInv

LEMMA ToCrLfKept ==
  ASSUME TextInv, ToCrLf
  PROVE  TextInv'
<1> USE DEF ToCrLf
<1>1. textPc = "print" /\ text' = CrLf(text) /\ UNCHANGED <<printed, textPc, offset, entries>>
  OBVIOUS
<1>2. ASSUME NEW P, Written(P), Progress(P) PROVE Written(WithCr(P))' /\ Progress(WithCr(P))'
  <2> DEFINE Q == WithCr(P)
             none == <<>>
             L == Seq(Marks)
  <2>1. /\ P \in Seq(L) /\ text \in Seq(Marks) /\ Split(text, LF) = Append(P, none)
        /\ EntriesOf(P) = printed /\ \A n \in 1 .. Len(P) : Understood(P[n])
    BY <1>2 DEF Written
  <2>2. PICK closed \in Seq(L), open \in L :
          /\ Split(text, LF) = Append(closed, open)
          /\ Split(CrLf(text), LF) = Append(WithCr(closed), open)
    BY <2>1, SplitCrLf
  <2>3. Q \in Seq(L) /\ EntriesOf(Q) = printed
    BY <2>1, WithCrAppend, EntriesWithCr
  <2>4. text' \in Seq(Marks)
    BY <1>1, <2>1, CrLfType
  <2>5. none \in L
    OBVIOUS
  <2> HIDE DEF L, none
  <2>6. closed = P /\ open = none
    <3>1. Append(closed, open) = Append(P, none) /\ P \in Seq(L) /\ none \in L
      BY <2>1, <2>2, <2>5
    <3> QED
      BY ONLY <3>1, closed \in Seq(L), open \in L, AppendInjective
  <2>7. Split(text', LF) = Append(Q, none)
    BY <1>1, <2>2, <2>6
  <2>8. Len(Q) = Len(P) /\ \A n \in 1 .. Len(P) : Q[n] = Append(P[n], CR) /\ P[n] \in L
    BY <2>1 DEF WithCr
  <2>9. \A n \in 1 .. Len(P) : TrimCr(Append(P[n], CR)) = TrimCr(P[n])
    BY <2>8, TrimCrAppend DEF L
  <2> HIDE DEF Q
  <2>10. \A n \in 1 .. Len(Q) : Understood(Q[n])
    BY <2>1, <2>8, <2>9 DEF Understood
  <2>11. Written(Q)'
    BY <1>1, <2>3, <2>4, <2>7, <2>10 DEF Written, L, none
  <2>12. offset = 0 /\ SubSeq(Q, 1, 0) = <<>> /\ SubSeq(P, 1, 0) = <<>> /\ Len(P) \in Nat
    BY <1>1, <1>2, <2>1, <2>3 DEF Progress
  <2>13. Progress(Q)'
    BY <1>1, <1>2, <2>8, <2>12 DEF Progress
  <2> QED
    BY <2>11, <2>13 DEF Q
<1>3. AllCarried' => AllCarried
  BY <1>1 DEF AllCarried, Carried
<1> QED
  BY <1>1, <1>2, <1>3 DEF TextInv

(* A step of the parser. *)
LEMMA ParserKept ==
  ASSUME TextInv, SkipLine \/ TakeEntry \/ BadLine \/ Parsed \/ Check
  PROVE  TextInv'
<1>1. text' = text /\ printed' = printed
  BY DEF SkipLine, TakeEntry, BadLine, Parsed, Check
<1>2. AllCarried' => AllCarried
  BY <1>1 DEF AllCarried, Carried
<1>3. ASSUME NEW P, Written(P), Progress(P) PROVE Written(P)' /\ Progress(P)'
  <2>1. Written(P)'
    BY <1>1, <1>3 DEF Written
  <2>2. /\ P \in Seq(Seq(Marks)) /\ Len(P) \in Nat
        /\ \A n \in 1 .. Len(P) : P[n] \in Seq(Marks) /\ Understood(P[n])
        /\ Len(TextLines) = Len(P) /\ \A n \in 1 .. Len(P) : TextLines[n] = Ended(P[n])
    BY <1>3, TextLinesAre DEF Written
  <2>3. offset \in 0 .. Len(P) /\ entries = EntriesOf(SubSeq(P, 1, offset))
    BY <1>3 DEF Progress
  <2>4. ASSUME offset < Len(P)
        PROVE  /\ offset + 1 \in 1 .. Len(P) /\ Taken = TrimCr(P[offset + 1])
               /\ Ignored(Taken) \/ ParseLine(Taken).ok
               /\ EntriesOf(SubSeq(P, 1, offset + 1))
                    = IF Ignored(Taken) THEN entries ELSE Append(entries, ParseLine(Taken).entry)
    <3>1. offset + 1 \in 1 .. Len(P) /\ offset \in Nat
      BY <2>2, <2>3, <2>4
    <3>2. Taken = TrimCr(P[offset + 1])
      BY <2>2, <3>1, TrimCrEnded DEF Taken
    <3>3. EntriesOf(SubSeq(P, 1, offset + 1)) = ReadStep(0, entries, P[offset + 1])
      BY <2>2, <2>3, <2>4, <3>1, EntriesOfPrefix
    <3> QED
      BY <2>2, <3>1, <3>2, <3>3 DEF Understood, ReadStep
  <2>5. CASE SkipLine
    <3> USE <2>5 DEF SkipLine
    <3>1. offset < Len(P) /\ textPc' = "parse" /\ offset' = offset + 1 /\ entries' = entries
      BY <2>2
    <3>2. entries' = EntriesOf(SubSeq(P, 1, offset + 1))
      BY <2>4, <3>1
    <3> QED
      BY <2>1, <2>4, <3>1, <3>2 DEF Progress
  <2>6. CASE TakeEntry
    <3> USE <2>6 DEF TakeEntry
    <3>1. offset < Len(P) /\ textPc' = "parse" /\ offset' = offset + 1
      BY <2>2
    <3>2. entries' = EntriesOf(SubSeq(P, 1, offset + 1))
      BY <2>4, <3>1
    <3> QED
      BY <2>1, <2>4, <3>1, <3>2 DEF Progress
  <2>7. ~BadLine
    BY <2>2, <2>4 DEF BadLine
  <2>8. CASE Parsed
    BY <1>3, <2>1, <2>2, <2>8 DEF Parsed, Progress
  <2>9. CASE Check
    BY <1>3, <2>1, <2>9 DEF Check, Progress
  <2> QED
    BY <2>5, <2>6, <2>7, <2>8, <2>9
<1> QED
  BY <1>1, <1>2, <1>3 DEF TextInv

LEMMA TextInvKept ==
  ASSUME TextInv, [TextNext]_textVars
  PROVE  TextInv'
<1>1. CASE UNCHANGED textVars
  <2>1. \A P : (Written(P) => Written(P)') /\ (Progress(P) => Progress(P)')
    BY <1>1 DEF textVars, Written, Progress
  <2>2. printed' = printed /\ (AllCarried' => AllCarried)
    BY <1>1 DEF textVars, AllCarried, Carried
  <2> QED
    BY <2>1, <2>2 DEF TextInv
<1>2. CASE TextNext
  BY <1>2, PrintKept, AnnotateKept, ToCrLfKept, ParserKept DEF TextNext
<1> QED
  BY <1>1, <1>2

(* What it says when the parser is done. *)
LEMMA TextInvMeans ==
  ASSUME TextInv
  PROVE  RoundTrip
<1> SUFFICES ASSUME AllCarried
             PROVE  (textPc = "parsed" => entries = printed) /\ textPc # "error"
  BY DEF RoundTrip
<1>1. PICK P : Written(P) /\ Progress(P)
  BY DEF TextInv
<1>2. SubSeq(P, 1, Len(P)) = P
  BY <1>1, SubSeqFull DEF Written
<1> QED
  BY <1>1, <1>2 DEF Written, Progress

(* help.rs:32-42: what crc prints is what --check reads: for every set of *)
(* paths, every set of values of each algorithm, any padding and any      *)
(* number of lines, in hexadecimal or in decimal, with comments and blank *)
(* lines anywhere and either end of line, the entries are the printed     *)
(* lines in order, and no line is refused, for all paths that a line can  *)
(* carry.                                                                 *)
THEOREM RoundTripAlways == TextSpec => []RoundTrip
<1>1. TextInit => TextInv
  BY TextInvInit
<1>2. TextInv /\ [TextNext]_textVars => TextInv'
  BY TextInvKept
<1>3. TextInv => RoundTrip
  BY TextInvMeans
<1> QED
  BY <1>1, <1>2, <1>3, PTL DEF TextSpec

-----------------------------------------------------------------------------
(* The types of a manifest, whatever is in it: paths that a line cannot   *)
(* carry make lines of other kinds, and what the parser takes from those  *)
(* is still made of an algorithm, a word and a path that begins and ends  *)
(* with text.                                                             *)

LEMMA LeastIs ==
  ASSUME NEW n \in Nat, NEW I, I \subseteq 1 .. n, I # {}
  PROVE  Min(I) \in I
<1>1. I \subseteq Nat
  OBVIOUS
<1>2. PICK k \in I : \A j \in I : k <= j
  BY <1>1, Parts!LeastOf
<1>3. Min(I) = k
  BY <1>1, <1>2, LeastIn
<1> QED
  BY <1>3

(* An algorithm's name is one of the catalogue's, whatever is read. *)
LEMMA ParseTyped ==
  ASSUME NEW spelling
  PROVE  Parse(spelling) \subseteq AllAlgos
<1> SUFFICES ASSUME NEW a \in Parse(spelling) PROVE a \in AllAlgos
  OBVIOUS
<1> DEFINE letters == {j \in DOMAIN spelling : spelling[j] # SP}
           trimmed == IF letters = {} THEN <<>> ELSE SubSeq(spelling, Min(letters), Max(letters))
           wanted == [j \in DOMAIN trimmed |-> Lower(trimmed[j])]
           Found == {j \in 1 .. Len(ALL) : wanted = Name[ALL[j]] \/ wanted \in Aliases[ALL[j]]}
<1>1. Parse(spelling) = LET found == IF Found # {} THEN Min(Found) ELSE 0
                        IN  IF found = 0 THEN {} ELSE {ALL[found]}
  BY DEF Parse, SelectInSeq
<1>2. Found \subseteq 1 .. 13
  BY NamesAre
<1> HIDE DEF Found
<1>3. Found # {} /\ a = ALL[Min(Found)]
  BY <1>1
<1>4. Min(Found) \in 1 .. 13
  BY <1>2, <1>3, LeastIs
<1> QED
  BY <1>3, <1>4, NamesAre

(* What is trimmed away was in front, so the end stays. *)
LEMMA TrimStartTyped ==
  ASSUME NEW C, NEW s \in Seq(C)
  PROVE  /\ TrimStart(s) \in Seq(C)
         /\ TrimStart(s) # <<>> =>
              s # <<>> /\ TrimStart(s)[1] \notin White /\ Last(TrimStart(s)) = Last(s)
<1> DEFINE I == {j \in 1 .. Len(s) : s[j] \notin White}
<1>1. FirstNot(s, White) = IF I # {} THEN Min(I) ELSE 0
  BY DEF FirstNot, SelectInSeq
<1>2. CASE I = {}
  <2>1. TrimStart(s) = <<>>
    BY <1>1, <1>2 DEF TrimStart
  <2> QED
    BY <2>1
<1>3. CASE I # {}
  <2> DEFINE k == Min(I)
             n == Len(s)
  <2>1. k \in 1 .. n /\ s[k] \notin White /\ n \in Nat
    BY <1>3, LeastIs
  <2> HIDE DEF I, k
  <2>2. TrimStart(s) = SubSeq(s, k, n)
    BY <1>1, <1>3, <2>1 DEF TrimStart, k
  <2> DEFINE rest == SubSeq(s, k, n)
  <2>3. rest \in Seq(C) /\ Len(rest) = n - k + 1 /\ \A j \in 1 .. n - k + 1 : rest[j] = s[k + j - 1]
    BY <2>1
  <2> HIDE DEF rest
  <2>4. 1 \in 1 .. n - k + 1 /\ n - k + 1 \in 1 .. n - k + 1 /\ k + 1 - 1 = k
        /\ k + (n - k + 1) - 1 = n
    BY <2>1
  <2>5. rest[1] = s[k] /\ rest[Len(rest)] = s[n]
    BY <2>3, <2>4
  <2>6. s # <<>>
    BY <2>1
  <2> QED
    BY <2>1, <2>2, <2>3, <2>5, <2>6 DEF Last, rest
<1> QED
  BY <1>2, <1>3

LEMMA TrimCrTyped ==
  ASSUME NEW C, NEW s \in Seq(C)
  PROVE  TrimCr(s) \in Seq(C) /\ (TrimCr(s) # <<>> => Last(TrimCr(s)) # CR)
<1> DEFINE I == {j \in 1 .. Len(s) : s[j] \notin {CR}}
<1>1. LastNot(s, {CR}) = IF I # {} THEN Max(I) ELSE 0
  BY DEF LastNot, SelectLastInSeq
<1>2. CASE I = {}
  <2>1. TrimCr(s) = <<>>
    BY <1>1, <1>2 DEF TrimCr
  <2> QED
    BY <2>1
<1>3. CASE I # {}
  <2> DEFINE k == Max(I)
  <2>1. Len(s) \in Nat /\ I \subseteq 1 .. Len(s) /\ \A j \in I : s[j] # CR
    OBVIOUS
  <2>2. k \in I
    <3> HIDE DEF I
    <3> QED
      BY <1>3, <2>1, GreatestOf
  <2>3. k \in 1 .. Len(s) /\ s[k] # CR
    BY <2>1, <2>2
  <2> HIDE DEF I, k
  <2>4. TrimCr(s) = SubSeq(s, 1, k)
    BY <1>1, <1>3 DEF TrimCr, k
  <2>5. SubSeq(s, 1, k) \in Seq(C) /\ Len(SubSeq(s, 1, k)) = k /\ SubSeq(s, 1, k)[k] = s[k]
    BY <2>1, <2>3
  <2> QED
    BY <2>3, <2>4, <2>5 DEF Last
<1> QED
  BY <1>2, <1>3

(* Whatever a line is, a field is followed by text that ends where the    *)
(* line does.                                                             *)
LEMMA NextFieldTyped ==
  ASSUME NEW C, NEW s \in Seq(C), NextField(s).ok
  PROVE  /\ NextField(s).field \in Seq(C) /\ NextField(s).rest \in Seq(C)
         /\ NextField(s).rest # <<>> =>
              /\ s # <<>> /\ NextField(s).rest[1] \notin White
              /\ Last(NextField(s).rest) = Last(s)
<1> DEFINE body == TrimStart(s)
           I == {j \in 1 .. Len(body) : body[j] \in White}
           end == SelectInSeq(body, LAMBDA piece : piece \in White)
           n == Len(body)
           back == SubSeq(body, end, n)
<1>1. end = IF I # {} THEN Min(I) ELSE 0
  BY DEF SelectInSeq
<1>2. body \in Seq(C) /\ n \in Nat /\ (body # <<>> => s # <<>> /\ Last(body) = Last(s))
  BY TrimStartTyped
<1>3. NextField(s) = IF end = 0 THEN [ok |-> FALSE]
                     ELSE [ok |-> TRUE, field |-> SubSeq(body, 1, end - 1), rest |-> TrimStart(back)]
  BY DEF NextField
<1>4. I \subseteq 1 .. n
  OBVIOUS
<1> HIDE DEF I, body, end
<1>5. end # 0
  BY <1>3
<1>6. end \in 1 .. n
  BY <1>1, <1>2, <1>4, <1>5, LeastIs
<1>7. SubSeq(body, 1, end - 1) \in Seq(C)
  BY <1>2, <1>6
<1>8. back \in Seq(C) /\ Len(back) = n - end + 1 /\ back[n - end + 1] = body[n]
  BY <1>2, <1>6
<1> HIDE DEF back
<1>9. body # <<>> /\ Last(back) = Last(body)
  BY <1>2, <1>6, <1>8 DEF Last
<1>10. /\ TrimStart(back) \in Seq(C)
       /\ TrimStart(back) # <<>> => TrimStart(back)[1] \notin White /\ Last(TrimStart(back)) = Last(back)
  BY <1>8, TrimStartTyped
<1>11. NextField(s).field = SubSeq(body, 1, end - 1) /\ NextField(s).rest = TrimStart(back)
  <2> DEFINE f == SubSeq(body, 1, end - 1)
             t == TrimStart(back)
  <2>1. NextField(s) = [ok |-> TRUE, field |-> f, rest |-> t]
    BY <1>3, <1>5
  <2> HIDE DEF f, t
  <2>2. NextField(s).field = f /\ NextField(s).rest = t
    BY <2>1
  <2> QED
    BY <2>2 DEF f, t
<1> QED
  BY <1>2, <1>7, <1>9, <1>10, <1>11

(* An entry, whatever line it is read from. *)
Entries ==
  {e \in AllAlgos \X (0 .. MAX_U64) \X Seq(Marks) :
     e[3] # <<>> /\ e[3][1] \notin White /\ Last(e[3]) # CR}

LEMMA ParseLineTyped ==
  ASSUME NEW line \in Seq(Marks), line # <<>> => Last(line) # CR, ParseLine(line).ok
  PROVE  ParseLine(line).entry \in Entries
<1> DEFINE name  == NextField(line)
           value == IF name.ok THEN NextField(name.rest) ELSE name
           found == IF ~value.ok \/ value.rest = <<>> THEN {}
                    ELSE Parse(name.field) \X Numeral(value.field) \X {value.rest}
           e == CHOOSE x \in found : TRUE
<1>1. ParseLine(line) = IF found = {} THEN [ok |-> FALSE] ELSE [ok |-> TRUE, entry |-> e]
  BY DEF ParseLine
<1> HIDE DEF name, value, found
<1>2. found # {} /\ ParseLine(line).entry = e /\ e \in found
  BY <1>1
<1>3. value.ok /\ value.rest # <<>> /\ found = Parse(name.field) \X Numeral(value.field) \X {value.rest}
  BY <1>2 DEF found
<1>4. name.ok /\ value = NextField(name.rest)
  BY <1>3 DEF value
<1>5. name.rest \in Seq(Marks) /\ (name.rest # <<>> => line # <<>> /\ Last(name.rest) = Last(line))
  BY <1>4, NextFieldTyped DEF name
<1>6. /\ value.field \in Seq(Marks) /\ value.rest \in Seq(Marks)
      /\ name.rest # <<>> /\ value.rest[1] \notin White /\ Last(value.rest) = Last(name.rest)
  <2> DEFINE r == name.rest
  <2>1. r \in Seq(Marks) /\ NextField(r).ok /\ NextField(r).rest # <<>>
    BY <1>3, <1>4, <1>5
  <2> HIDE DEF r
  <2>2. /\ NextField(r).field \in Seq(Marks) /\ NextField(r).rest \in Seq(Marks)
        /\ r # <<>> /\ NextField(r).rest[1] \notin White /\ Last(NextField(r).rest) = Last(r)
    BY <2>1, NextFieldTyped
  <2> QED
    BY <1>4, <2>2 DEF r
<1>7. Parse(name.field) \subseteq AllAlgos
  BY ParseTyped
<1>8. Numeral(value.field) \subseteq 0 .. MAX_U64
  BY <1>6, NumeralType, TextAssumption
<1> HIDE DEF e
<1>9. PICK a \in Parse(name.field), v \in Numeral(value.field) : e = <<a, v, value.rest>>
  BY <1>2, <1>3
<1>10. Last(value.rest) # CR
  BY <1>5, <1>6
<1>11. e[3] = value.rest /\ e \in AllAlgos \X (0 .. MAX_U64) \X Seq(Marks)
  BY <1>6, <1>7, <1>8, <1>9
<1> QED
  BY <1>2, <1>3, <1>6, <1>10, <1>11 DEF Entries

(* The lines of a text are texts. *)
LEMMA TextLinesTyped ==
  ASSUME text \in Seq(Marks)
  PROVE  TextLines \in Seq(Seq(Marks))
<1> DEFINE L == Seq(Marks)
           parts == Split(text, LF)
           ended == [n \in 1 .. Len(parts) - 1 |-> Ended(parts[n])]
<1>1. parts \in Seq(L) /\ parts # <<>>
  BY SplitType
<1>2. \A part \in L : Ended(part) \in L
  <2> SUFFICES ASSUME NEW part \in L PROVE Ended(part) \in L
    OBVIOUS
  <2>1. ASSUME part # <<>> PROVE Front(part) \in L
    BY <2>1 DEF Front
  <2> QED
    BY <2>1 DEF Ended
<1>3. TextLines = IF Last(parts) = <<>> THEN ended ELSE Append(ended, Last(parts))
  BY DEF TextLines
<1> HIDE DEF parts, L
<1>4. Len(parts) \in Nat /\ Len(parts) >= 1 /\ \A n \in 1 .. Len(parts) : parts[n] \in L
  BY <1>1
<1>5. ended \in Seq(L)
  <2>1. \A n \in 1 .. Len(parts) - 1 : Ended(parts[n]) \in L
    BY <1>2, <1>4
  <2> QED
    BY <1>4, <2>1
<1>6. Last(parts) \in L
  BY <1>4 DEF Last
<1> HIDE DEF ended
<1>7. TextLines \in Seq(L)
  BY <1>3, <1>5, <1>6
<1> QED
  BY <1>7 DEF L

(* What is added to a text is text. *)
LEMMA LineTyped ==
  ASSUME NEW algo \in DOMAIN Values, NEW asHex \in BOOLEAN, NEW path \in Paths, NEW pad \in Pads,
         NEW value \in Values[algo]
  PROVE  Line(algo, value, asHex, path, pad) \in Seq(Marks)
<1> DEFINE word == Rendered(algo, value, asHex)
<1>1. algo \in AllAlgos /\ value \in 0 .. MAX_U64 /\ pad \in Nat /\ path \in Seq(PathPieces)
  BY TextAssumption DEF AllAlgos
<1>2. Name[algo] \in Seq(NameChars)
  BY <1>1, NameKeys
<1>3. word \in Seq(Digit \cup {"x"})
  BY <1>1, RenderedRead
<1>4. SP \in Marks /\ LF \in Marks /\ NameChars \subseteq Marks /\ Digit \cup {"x"} \subseteq Marks
      /\ PathPieces \subseteq Marks
  BY MarksApart
<1>5. \A A : A \subseteq Marks => Seq(A) \subseteq Seq(Marks)
  OBVIOUS
<1>6. Name[algo] \in Seq(Marks) /\ word \in Seq(Marks) /\ path \in Seq(Marks)
  BY <1>1, <1>2, <1>3, <1>4, <1>5
<1>7. Spaces(1 + pad) \in Seq(Marks) /\ <<LF>> \in Seq(Marks)
  BY <1>1, <1>4 DEF Spaces
<1> HIDE DEF word
<1> DEFINE sp == Spaces(1 + pad)
           nm == Name[algo]
<1>8. sp \in Seq(Marks) /\ nm \in Seq(Marks) /\ Line(algo, value, asHex, path, pad) = nm \o sp \o word \o sp \o path \o <<LF>>
  BY <1>6, <1>7 DEF Line, word
<1> HIDE DEF sp, nm
<1> QED
  BY <1>6, <1>7, <1>8

LEMMA AnnotationTyped ==
  ASSUME NEW note \in {<<LF>>, <<SP, LF>>, <<HASH, "x", LF>>, <<SP, HASH, CR, LF>>}
  PROVE  note \in Seq(Marks)
<1> DEFINE mark == "x"
<1>1. SP \in Marks /\ HASH \in Marks /\ CR \in Marks /\ mark \in Marks /\ LF \in Marks
  BY MarksApart
<1>2. note = <<LF>> \/ note = <<SP, LF>> \/ note = <<HASH, mark, LF>> \/ note = <<SP, HASH, CR, LF>>
  OBVIOUS
<1> HIDE DEF mark
<1>3. /\ <<LF>> \in Seq(Marks) /\ <<SP, LF>> \in Seq(Marks) /\ <<HASH, mark, LF>> \in Seq(Marks)
      /\ <<SP, HASH, CR, LF>> \in Seq(Marks)
  BY <1>1
<1> QED
  BY <1>2, <1>3

LEMMA TextLinesTypedNext == (text \in Seq(Marks) => TextLines \in Seq(Seq(Marks)))'
<1>1. text \in Seq(Marks) => TextLines \in Seq(Seq(Marks))
  BY TextLinesTyped
<1> QED
  BY <1>1, PTL

(* The parser has an entry for some of the lines it has taken, and        *)
(* nothing while the text is still being written.                         *)
ManifestInv ==
  /\ text \in Seq(Marks)
  /\ textPc \in {"print", "parse", "parsed", "error"}
  /\ textPc = "print" => offset = 0 /\ entries = <<>>
  /\ offset \in 0 .. Len(TextLines)
  /\ entries \in Seq(Entries)
  /\ Len(entries) <= offset

LEMMA WritingKept ==
  ASSUME ManifestInv, textPc = "print", text' \in Seq(Marks), UNCHANGED <<textPc, offset, entries>>
  PROVE  ManifestInv'
<1>1. TextLines' \in Seq(Seq(Marks))
  BY TextLinesTypedNext
<1>2. offset' \in 0 .. Len(TextLines')
  <2> DEFINE lines == TextLines'
  <2>1. lines \in Seq(Seq(Marks)) /\ offset' = 0
    BY <1>1 DEF ManifestInv
  <2> HIDE DEF lines
  <2>2. offset' \in 0 .. Len(lines)
    BY <2>1
  <2> QED
    BY <2>2 DEF lines
<1> QED
  BY <1>2 DEF ManifestInv

(* The line the parser is at. *)
LEMMA TakenTyped ==
  ASSUME ManifestInv, offset < Len(TextLines)
  PROVE  /\ Taken \in Seq(Marks) /\ (Taken # <<>> => Last(Taken) # CR)
         /\ offset \in Nat /\ Len(TextLines) \in Nat
<1> DEFINE lines == TextLines
<1>1. lines \in Seq(Seq(Marks)) /\ offset \in 0 .. Len(lines) /\ offset < Len(lines)
  BY TextLinesTyped DEF ManifestInv
<1> HIDE DEF lines
<1>2. offset + 1 \in 1 .. Len(lines) /\ lines[offset + 1] \in Seq(Marks) /\ offset \in Nat
      /\ Len(lines) \in Nat
  BY <1>1
<1>3. Taken = TrimCr(lines[offset + 1])
  BY DEF Taken, lines
<1> QED
  BY <1>2, <1>3, TrimCrTyped DEF lines

LEMMA ManifestInvKept ==
  ASSUME ManifestInv, [TextNext]_textVars
  PROVE  ManifestInv'
<1>1. CASE PrintLine
  <2>1. PICK algo \in DOMAIN Values, asHex \in BOOLEAN, path \in Paths, pad \in Pads :
          \E value \in Values[algo] : text' = text \o Line(algo, value, asHex, path, pad)
    BY <1>1 DEF PrintLine
  <2>2. PICK value \in Values[algo] : text' = text \o Line(algo, value, asHex, path, pad)
    BY <2>1
  <2>3. Line(algo, value, asHex, path, pad) \in Seq(Marks) /\ text \in Seq(Marks)
    BY LineTyped DEF ManifestInv
  <2>4. text' \in Seq(Marks)
    BY <2>2, <2>3
  <2> QED
    BY <1>1, <2>4, WritingKept DEF PrintLine
<1>2. CASE Annotate
  <2>1. PICK note \in {<<LF>>, <<SP, LF>>, <<HASH, "x", LF>>, <<SP, HASH, CR, LF>>} :
          text' = text \o note
    BY <1>2 DEF Annotate
  <2>2. note \in Seq(Marks) /\ text \in Seq(Marks)
    BY AnnotationTyped DEF ManifestInv
  <2>3. text' \in Seq(Marks)
    BY <2>1, <2>2
  <2> QED
    BY <1>2, <2>3, WritingKept DEF Annotate
<1>3. CASE ToCrLf
  <2>1. text' = CrLf(text) /\ textPc = "print" /\ UNCHANGED <<textPc, offset, entries>>
    BY <1>3 DEF ToCrLf
  <2>2. text' \in Seq(Marks)
    BY <2>1, CrLfType DEF ManifestInv
  <2> QED
    BY <2>1, <2>2, WritingKept
<1>4. UNCHANGED text => UNCHANGED TextLines
  BY DEF TextLines
<1>5. CASE Check
  BY <1>4, <1>5 DEF Check, ManifestInv
<1>6. CASE SkipLine \/ TakeEntry
  <2>1. /\ textPc = "parse" /\ textPc' = textPc /\ offset < Len(TextLines) /\ offset' = offset + 1
        /\ UNCHANGED text /\ TextLines' = TextLines
    BY <1>4, <1>6 DEF SkipLine, TakeEntry
  <2>2. /\ Taken \in Seq(Marks) /\ (Taken # <<>> => Last(Taken) # CR)
        /\ offset \in Nat /\ Len(TextLines) \in Nat
    BY <2>1, TakenTyped
  <2>3. offset' \in 0 .. Len(TextLines')
    BY <2>1, <2>2
  <2>4. entries \in Seq(Entries) /\ Len(entries) \in Nat /\ Len(entries) <= offset
    BY DEF ManifestInv
  <2>5. entries' \in Seq(Entries) /\ Len(entries') <= offset'
    <3>1. CASE SkipLine
      BY <2>1, <2>2, <2>4, <3>1 DEF SkipLine
    <3>2. CASE TakeEntry
      <4>1. ParseLine(Taken).entry \in Entries /\ entries' = Append(entries, ParseLine(Taken).entry)
        BY <2>2, <3>2, ParseLineTyped DEF TakeEntry
      <4>2. entries' \in Seq(Entries) /\ Len(entries') = Len(entries) + 1
        BY <2>4, <4>1
      <4> QED
        BY <2>1, <2>2, <2>4, <4>2
    <3> QED
      BY <1>6, <3>1, <3>2
  <2> QED
    BY <2>1, <2>3, <2>5 DEF ManifestInv
<1>7. CASE BadLine \/ Parsed \/ UNCHANGED textVars
  BY <1>4, <1>7 DEF BadLine, Parsed, textVars, ManifestInv
<1> QED
  BY <1>1, <1>2, <1>3, <1>5, <1>6, <1>7 DEF TextNext

(* Every entry of the parser has a line of its own, and its fields are    *)
(* what parse_line says they are, although the paths that were printed    *)
(* may hold anything: newlines, carriage returns, white space in front.   *)
THEOREM ManifestTyped == TextSpec => []TextTypeOK
<1>1. TextInit => ManifestInv
  <2> SUFFICES ASSUME TextInit PROVE ManifestInv
    OBVIOUS
  <2> DEFINE lines == TextLines
  <2>1. text \in Seq(Marks) /\ entries \in Seq(Entries) /\ Len(entries) = 0
    BY DEF TextInit
  <2>2. lines \in Seq(Seq(Marks))
    BY <2>1, TextLinesTyped
  <2> HIDE DEF lines
  <2>3. 0 \in 0 .. Len(lines)
    BY <2>2
  <2> QED
    BY <2>1, <2>3 DEF TextInit, ManifestInv, lines
<1>2. ManifestInv /\ [TextNext]_textVars => ManifestInv'
  BY ManifestInvKept
<1>3. ManifestInv => TextTypeOK
  <2> SUFFICES ASSUME ManifestInv, NEW n \in DOMAIN entries
               PROVE  /\ entries[n][1] \in ToSet(ALL) /\ entries[n][2] \in 0 .. MAX_U64
                      /\ entries[n][3] # <<>> /\ entries[n][3][1] \notin White
                      /\ Last(entries[n][3]) # CR
    BY DEF ManifestInv, TextTypeOK
  <2>1. entries[n] \in Entries
    BY DEF ManifestInv
  <2> QED
    BY <2>1 DEF Entries, AllAlgos
<1> QED
  BY <1>1, <1>2, <1>3, PTL DEF TextSpec

=============================================================================
