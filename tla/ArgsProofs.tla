------------------------------ MODULE ArgsProofs ------------------------------
(***************************************************************************)
(* crc runs what the words of its command line ask for.  The parser is at *)
(* every moment between two items of what its caller meant, or behind     *)
(* "--", and has made of the words so far what these items mean, whatever *)
(* form they were given in.                                               *)
(***************************************************************************)
EXTENDS TextProofs, Args

-----------------------------------------------------------------------------
(* Words, and what they begin with. *)

Letters  == {"h", "help", "V", "version", "list", "all", "hex", "dec", "a", "algo", "c", "check"}
ArgChars == ArgPieces \cup Letters \cup {DASH, EQUALS}

LEMMA PunctuationApart ==
  /\ DASH # EQUALS /\ Letters \cap {DASH, EQUALS} = {} /\ DASH \notin Letters /\ EQUALS \notin Letters
  /\ {DASH, EQUALS} \subseteq ArgChars /\ Letters \subseteq ArgChars /\ ArgPieces \subseteq ArgChars
BY DEF DASH, EQUALS, Letters, ArgChars

LEMMA FirstOnes ==
  ASSUME NEW C, NEW w \in Seq(C)
  PROVE  /\ Len(w) >= 1 => SubSeq(w, 1, 1) = <<w[1]>>
         /\ Len(w) >= 2 => SubSeq(w, 1, 2) = <<w[1], w[2]>>
<1>1. ASSUME Len(w) >= 1 PROVE SubSeq(w, 1, 1) = <<w[1]>>
  <2> DEFINE s == SubSeq(w, 1, 1)
             t == <<w[1]>>
  <2>1. s \in Seq(C) /\ Len(s) = 1 /\ s[1] = w[1]
    BY <1>1
  <2>2. t \in Seq(C) /\ Len(t) = 1 /\ t[1] = w[1]
    BY <1>1
  <2> HIDE DEF s, t
  <2>3. s = t
    BY <2>1, <2>2, SeqEqual
  <2> QED
    BY <2>3 DEF s, t
<1>2. ASSUME Len(w) >= 2 PROVE SubSeq(w, 1, 2) = <<w[1], w[2]>>
  <2> DEFINE s == SubSeq(w, 1, 2)
             t == <<w[1], w[2]>>
  <2>1. s \in Seq(C) /\ Len(s) = 2 /\ s[1] = w[1] /\ s[2] = w[2]
    BY <1>2
  <2>2. t \in Seq(C) /\ Len(t) = 2 /\ t[1] = w[1] /\ t[2] = w[2]
    BY <1>2
  <2> HIDE DEF s, t
  <2>3. s = t
    BY <2>1, <2>2, SeqEqual
  <2> QED
    BY <2>3 DEF s, t
<1> QED
  BY <1>1, <1>2

(* A concatenation is cut where it was put together. *)
LEMMA CutBetween ==
  ASSUME NEW C, NEW s \in Seq(C), NEW t \in Seq(C)
  PROVE  /\ s \o t \in Seq(C) /\ Len(s \o t) = Len(s) + Len(t)
         /\ SubSeq(s \o t, 1, Len(s)) = s
         /\ SubSeq(s \o t, Len(s) + 1, Len(s \o t)) = t
<1> DEFINE w == s \o t
           a == SubSeq(w, 1, Len(s))
           b == SubSeq(w, Len(s) + 1, Len(w))
<1>1. w \in Seq(C) /\ Len(w) = Len(s) + Len(t) /\ Len(s) \in Nat /\ Len(t) \in Nat
      /\ (\A j \in 1 .. Len(s) : w[j] = s[j])
      /\ \A j \in 1 .. Len(t) : w[Len(s) + j] = t[j]
  OBVIOUS
<1> HIDE DEF w
<1>2. a \in Seq(C) /\ Len(a) = Len(s) /\ \A j \in 1 .. Len(s) : a[j] = s[j]
  BY <1>1
<1>3. b \in Seq(C) /\ Len(b) = Len(t) /\ \A j \in 1 .. Len(t) : b[j] = t[j]
  BY <1>1
<1> HIDE DEF a, b
<1>4. a = s
  BY <1>1, <1>2, SeqEqual
<1>5. b = t
  BY <1>1, <1>3, SeqEqual
<1> QED
  BY <1>1, <1>4, <1>5 DEF a, b, w

LEMMA BeginsWithOne ==
  ASSUME NEW C, NEW w \in Seq(C), NEW c
  PROVE  IsPrefix(<<c>>, w) <=> w # <<>> /\ w[1] = c
<1> DEFINE p == <<c>>
           s == SubSeq(w, 1, 1)
<1>0. p \in Seq({c}) /\ Len(p) = 1 /\ p[1] = c
  OBVIOUS
<1>1. SubSeq(p, 1, 1) = <<c>>
  <2> DEFINE S == {c}
  <2>1. p \in Seq(S) /\ Len(p) >= 1 /\ p[1] = c
    BY <1>0
  <2> HIDE DEF p, S
  <2>2. SubSeq(p, 1, 1) = <<p[1]>>
    BY <2>1, FirstOnes
  <2> QED
    BY <2>1, <2>2
<1>2. IsPrefix(p, w) <=> 1 <= Len(w) /\ p = s
  BY <1>0, <1>1 DEF IsPrefix
<1>3. 1 <= Len(w) => s = <<w[1]>>
  BY FirstOnes
<1>4. p = <<w[1]>> <=> c = w[1]
  OBVIOUS
<1>5. w # <<>> <=> 1 <= Len(w)
  OBVIOUS
<1> QED
  BY <1>2, <1>3, <1>4, <1>5

LEMMA BeginsWithTwo ==
  ASSUME NEW C, NEW w \in Seq(C), NEW b, NEW c
  PROVE  IsPrefix(<<b, c>>, w) <=> Len(w) >= 2 /\ w[1] = b /\ w[2] = c
<1> DEFINE p == <<b, c>>
           s == SubSeq(w, 1, 2)
<1>0. p \in Seq({b, c}) /\ Len(p) = 2 /\ p[1] = b /\ p[2] = c
  OBVIOUS
<1>1. SubSeq(p, 1, 2) = <<b, c>>
  <2> DEFINE S == {b, c}
  <2>1. p \in Seq(S) /\ Len(p) >= 2 /\ p[1] = b /\ p[2] = c
    BY <1>0
  <2> HIDE DEF p, S
  <2>2. SubSeq(p, 1, 2) = <<p[1], p[2]>>
    BY <2>1, FirstOnes
  <2> QED
    BY <2>1, <2>2
<1>2. IsPrefix(p, w) <=> 2 <= Len(w) /\ p = s
  BY <1>0, <1>1 DEF IsPrefix
<1>3. 2 <= Len(w) => s = <<w[1], w[2]>>
  BY FirstOnes
<1>4. p = <<w[1], w[2]>> <=> b = w[1] /\ c = w[2]
  OBVIOUS
<1> QED
  BY <1>2, <1>3, <1>4

(* A value that begins with '=' loses it, and no other piece. *)
LEMMA StripEqualsOf ==
  ASSUME NEW C, NEW v \in Seq(C)
  PROVE  /\ StripEquals(<<EQUALS>> \o v) = v
         /\ v # <<>> /\ v[1] # EQUALS => StripEquals(v) = v
<1> DEFINE D == C \cup {EQUALS}
           w == <<EQUALS>> \o v
<1>1. v \in Seq(D) /\ w \in Seq(D) /\ w # <<>> /\ w[1] = EQUALS /\ Tail(w) = v
  OBVIOUS
<1> HIDE DEF w
<1>2. IsPrefix(<<EQUALS>>, w)
  BY <1>1, BeginsWithOne
<1>3. v # <<>> /\ v[1] # EQUALS => ~IsPrefix(<<EQUALS>>, v)
  BY BeginsWithOne
<1> QED
  BY <1>1, <1>2, <1>3 DEF StripEquals, w

(* The flags: a dash and a letter, or two and a name. *)
IsShortFlag(f) == f \in Seq(ArgChars) /\ Len(f) = 2 /\ f[1] = DASH /\ f[2] \in Letters
IsLongFlag(f)  == f \in Seq(ArgChars) /\ Len(f) = 3 /\ f[1] = DASH /\ f[2] = DASH /\ f[3] \in Letters

LEMMA ShortIsShort ==
  ASSUME NEW c \in Letters
  PROVE  IsShortFlag(Short(c)) /\ IsLongFlag(Long(c))
<1>1. c \in ArgChars /\ DASH \in ArgChars
  BY PunctuationApart
<1> QED
  BY <1>1 DEF IsShortFlag, IsLongFlag, Short, Long

LEMMA FlagShape ==
  ASSUME NEW f \in Plain \cup AlgoFlags \cup CheckFlags
  PROVE  IsShortFlag(f) \/ IsLongFlag(f)
<1>1. \E c \in Letters : f = Short(c) \/ f = Long(c)
  BY DEF Plain, AlgoFlags, CheckFlags, Informational, HelpFlags, VersionFlags, Letters
<1> QED
  BY <1>1, ShortIsShort

LEMMA LongOrShort ==
  ASSUME NEW f
  PROVE  /\ IsShortFlag(f) => ~IsLong(f)
         /\ IsLongFlag(f) => IsLong(f)
<1>1. CASE IsShortFlag(f)
  BY <1>1, BeginsWithTwo, PunctuationApart DEF IsShortFlag, IsLongFlag, IsLong, DASHES
<1>2. CASE IsLongFlag(f)
  BY <1>2, BeginsWithTwo, PunctuationApart DEF IsShortFlag, IsLongFlag, IsLong, DASHES
<1> QED
  BY <1>1, <1>2

-----------------------------------------------------------------------------
(* split_flag *)

LEMMA SplitShort ==
  ASSUME NEW w \in Seq(ArgChars), Len(w) >= 2, w[1] = DASH, w[2] # DASH
  PROVE  SplitFlag(w) = IF Len(w) = 2 THEN [flag |-> w, attached |-> NoValue]
                        ELSE [flag     |-> SubSeq(w, 1, 2),
                              attached |-> StripEquals(SubSeq(w, 3, Len(w)))]
<1>1. ~IsLong(w)
  BY BeginsWithTwo DEF IsLong, DASHES
<1>2. SplitFlag(w) = IF Len(w) <= 2 THEN [flag |-> w, attached |-> NoValue]
                     ELSE [flag     |-> SubSeq(w, 1, 2),
                           attached |-> StripEquals(SubSeq(w, 2 + 1, Len(w)))]
  BY <1>1, Zenon DEF SplitFlag
<1>3. Len(w) <= 2 <=> Len(w) = 2
  <2>1. \A n \in Nat : n >= 2 => (n <= 2 <=> n = 2)
    OBVIOUS
  <2>2. Len(w) \in Nat
    OBVIOUS
  <2> QED
    BY <2>1, <2>2, Zenon
<1>4. 2 + 1 = 3
  OBVIOUS
<1> QED
  BY <1>2, <1>3, <1>4, Zenon

(* The first '=' behind a flag that has none. *)
LEMMA FirstEquals ==
  ASSUME NEW f \in Seq(ArgChars), NEW v \in Seq(ArgChars), \A j \in 1 .. Len(f) : f[j] # EQUALS
  PROVE  SelectInSeq((f \o <<EQUALS>> \o v), LAMBDA piece : piece = EQUALS) = Len(f) + 1
<1> DEFINE w == f \o <<EQUALS>> \o v
           I == {j \in 1 .. Len(w) : w[j] = EQUALS}
<1>0. EQUALS \in ArgChars
  BY PunctuationApart
<1>1. Len(w) = Len(f) + 1 + Len(v) /\ w[Len(f) + 1] = EQUALS /\ \A j \in 1 .. Len(f) : w[j] = f[j]
  BY <1>0
<1> HIDE DEF w
<1>2. Len(f) \in Nat /\ Len(v) \in Nat
  OBVIOUS
<1>3. Len(f) + 1 \in I /\ \A j \in I : Len(f) + 1 <= j
  BY <1>1, <1>2
<1>4. Min(I) = Len(f) + 1
  <2>1. I \subseteq Nat
    OBVIOUS
  <2> HIDE DEF I
  <2> QED
    BY <1>3, <2>1, LeastIn
<1>5. SelectInSeq(w, LAMBDA piece : piece = EQUALS) = IF I # {} THEN Min(I) ELSE 0
  BY DEF SelectInSeq
<1>6. SelectInSeq(w, LAMBDA piece : piece = EQUALS) = Len(f) + 1
  BY <1>3, <1>4, <1>5
<1> QED
  BY <1>6 DEF w

LEMMA SplitLong ==
  ASSUME NEW f, IsLongFlag(f), NEW v \in Seq(ArgChars)
  PROVE  /\ SplitFlag(f) = [flag |-> f, attached |-> NoValue]
         /\ SplitFlag(f \o <<EQUALS>> \o v) = [flag |-> f, attached |-> v]
<1>0. /\ f \in Seq(ArgChars) /\ Len(f) = 3 /\ f[1] = DASH /\ f[2] = DASH
      /\ \A j \in 1 .. 3 : f[j] # EQUALS
  BY PunctuationApart DEF IsLongFlag
<1>e. EQUALS \in ArgChars /\ <<>> \in Seq(ArgChars)
  BY PunctuationApart
<1> DEFINE w == f \o <<EQUALS>> \o v
<1>1. /\ w \in Seq(ArgChars) /\ Len(w) = 4 + Len(v) /\ w[1] = DASH /\ w[2] = DASH
      /\ SubSeq(w, 1, 3) = f /\ SubSeq(w, 4, Len(w)) = <<EQUALS>> \o v
  <2> DEFINE t == <<EQUALS>> \o v
  <2>1. t \in Seq(ArgChars) /\ Len(t) = 1 + Len(v) /\ Len(v) \in Nat /\ w = f \o t
    BY <1>0, <1>e
  <2> HIDE DEF t, w
  <2>2. w \in Seq(ArgChars) /\ Len(w) = 4 + Len(v) /\ w[1] = f[1] /\ w[2] = f[2]
    <3>1. 1 \in 1 .. Len(f) + Len(t) /\ 2 \in 1 .. Len(f) + Len(t) /\ 1 <= Len(f) /\ 2 <= Len(f)
      BY <1>0, <2>1
    <3>2. /\ w \in Seq(ArgChars) /\ Len(w) = Len(f) + Len(t)
          /\ \A i \in 1 .. Len(f) + Len(t) : w[i] = IF i <= Len(f) THEN f[i] ELSE t[i - Len(f)]
      <4>1. f \in Seq(ArgChars) /\ t \in Seq(ArgChars)
        BY <1>0, <2>1
      <4>2. /\ f \o t \in Seq(ArgChars) /\ Len(f \o t) = Len(f) + Len(t)
            /\ \A i \in 1 .. Len(f) + Len(t) : (f \o t)[i] = IF i <= Len(f) THEN f[i] ELSE t[i - Len(f)]
        BY ONLY <4>1, ConcatProperties
      <4> QED
        BY <2>1, <4>2, Zenon
    <3>3. w[1] = f[1] /\ w[2] = f[2]
      BY <3>1, <3>2
    <3> QED
      BY <1>0, <2>1, <3>2, <3>3
  <2>3. SubSeq(w, 1, 3) = f /\ SubSeq(w, 3 + 1, Len(w)) = t
    <3>1. SubSeq(w, 1, Len(f)) = f /\ SubSeq(w, Len(f) + 1, Len(w)) = t
      <4>1. f \in Seq(ArgChars) /\ t \in Seq(ArgChars)
        BY <1>0, <2>1
      <4>2. SubSeq(f \o t, 1, Len(f)) = f /\ SubSeq(f \o t, Len(f) + 1, Len(f \o t)) = t
        BY ONLY <4>1, CutBetween
      <4> QED
        BY <2>1, <4>2, Zenon
    <3> QED
      BY <1>0, <3>1
  <2> QED
    BY <1>0, <2>2, <2>3 DEF t
<1>2. SelectInSeq(w \o <<EQUALS>>, LAMBDA piece : piece = EQUALS) - 1 = 3
  <2> DEFINE more == v \o <<EQUALS>>
  <2>1. more \in Seq(ArgChars) /\ w \o <<EQUALS>> = f \o <<EQUALS>> \o more
    BY <1>0, <1>e
  <2> HIDE DEF w, more
  <2>2. SelectInSeq(f \o <<EQUALS>> \o more, LAMBDA piece : piece = EQUALS) = Len(f) + 1
    BY <1>0, <2>1, FirstEquals
  <2>3. SelectInSeq(w \o <<EQUALS>>, LAMBDA piece : piece = EQUALS) = Len(f) + 1
    BY <2>1, <2>2, Zenon
  <2> QED
    BY <1>0, <2>3
<1>3. SelectInSeq(f \o <<EQUALS>>, LAMBDA piece : piece = EQUALS) - 1 = 3
  <2>1. f \o <<EQUALS>> \o <<>> = f \o <<EQUALS>>
    BY <1>0, <1>e
  <2>2. SelectInSeq(f \o <<EQUALS>> \o <<>>, LAMBDA piece : piece = EQUALS) = Len(f) + 1
    BY <1>0, <1>e, FirstEquals
  <2> QED
    BY <1>0, <2>1, <2>2
<1> HIDE DEF w
<1>4. IsLong(w) /\ IsLong(f)
  BY <1>0, <1>1, BeginsWithTwo DEF IsLong, DASHES
<1>5. SplitFlag(f) = [flag |-> f, attached |-> NoValue]
  BY <1>0, <1>3, <1>4 DEF SplitFlag
<1>6. SplitFlag(w) = [flag |-> f, attached |-> StripEquals(<<EQUALS>> \o v)]
  <2>1. SplitFlag(w) = IF Len(w) <= 3 THEN [flag |-> w, attached |-> NoValue]
                       ELSE [flag     |-> SubSeq(w, 1, 3),
                             attached |-> StripEquals(SubSeq(w, 3 + 1, Len(w)))]
    BY <1>2, <1>4, Zenon DEF SplitFlag
  <2>2. ~(Len(w) <= 3) /\ 3 + 1 = 4
    BY <1>1
  <2> QED
    BY <1>1, <2>1, <2>2, Zenon
<1>7. StripEquals(<<EQUALS>> \o v) = v
  BY StripEqualsOf
<1> QED
  BY <1>5, <1>6, <1>7 DEF w

(* A flag with a tail is split where it was put together. *)
LEMMA FlagWord ==
  ASSUME NEW f \in Plain \cup AlgoFlags \cup CheckFlags, NEW tail \in Seq(ArgChars),
         IsLong(f) /\ tail # <<>> => tail[1] = EQUALS
  PROVE  LET w == f \o tail
         IN  /\ w \in Seq(ArgChars) /\ IsPrefix(STDIN, w) /\ w # STDIN /\ w # DASHES
             /\ SplitFlag(w) = [flag |-> f, attached |-> IF tail = <<>> THEN NoValue ELSE StripEquals(tail)]
<1> DEFINE w == f \o tail
<1>1. IsShortFlag(f) \/ IsLongFlag(f)
  BY FlagShape
<1>2. f \in Seq(ArgChars) /\ Len(f) \in {2, 3} /\ f[1] = DASH /\ (f[2] # DASH \/ Len(f) = 3)
  BY <1>1, PunctuationApart DEF IsShortFlag, IsLongFlag
<1>3. /\ w \in Seq(ArgChars) /\ Len(w) = Len(f) + Len(tail)
      /\ SubSeq(w, 1, Len(f)) = f /\ SubSeq(w, Len(f) + 1, Len(w)) = tail
  BY <1>2, CutBetween
<1>4. Len(tail) \in Nat /\ (tail = <<>> <=> Len(tail) = 0)
  OBVIOUS
<1>5. w[1] = f[1] /\ w[2] = f[2]
  <2>0. \A m \in {2, 3}, n \in Nat : /\ 1 <= m /\ 2 <= m
                                     /\ 1 \in 1 .. m + n /\ 2 \in 1 .. m + n
    OBVIOUS
  <2>1. 1 \in 1 .. Len(f) + Len(tail) /\ 2 \in 1 .. Len(f) + Len(tail) /\ 1 <= Len(f) /\ 2 <= Len(f)
    BY <1>2, <1>4, <2>0, Zenon
  <2>2. \A i \in 1 .. Len(f) + Len(tail) : w[i] = IF i <= Len(f) THEN f[i] ELSE tail[i - Len(f)]
    BY <1>2, ConcatProperties
  <2> HIDE DEF w
  <2>3. w[1] = IF 1 <= Len(f) THEN f[1] ELSE tail[1 - Len(f)]
    BY <2>1, <2>2, Zenon
  <2>4. w[2] = IF 2 <= Len(f) THEN f[2] ELSE tail[2 - Len(f)]
    BY <2>1, <2>2, Zenon
  <2> QED
    BY <2>1, <2>3, <2>4, Zenon
<1>6. tail = <<>> => w = f
  BY <1>2
<1> HIDE DEF w
<1>7. IsPrefix(STDIN, w) /\ w # STDIN /\ w # DASHES
  <2>0. \A m \in {2, 3}, n \in Nat : m + n \in Nat /\ m + n >= 2 /\ m + n # 1 /\ m + n # 0
    OBVIOUS
  <2>a. Len(w) \in Nat /\ Len(w) >= 2 /\ Len(w) # 1 /\ Len(w) # 0
    BY <1>2, <1>3, <1>4, <2>0, Zenon
  <2>1. w # <<>> /\ w[1] = DASH
    BY <1>2, <1>3, <1>5, <2>a
  <2>2. IsPrefix(STDIN, w)
    BY <1>3, <2>1, BeginsWithOne DEF STDIN
  <2>3. w # STDIN
    <3>1. Len(STDIN) = 1
      BY DEF STDIN
    <3> QED
      BY <2>a, <3>1
  <2>4. w = DASHES => w[2] = DASH /\ Len(w) = 2
    BY DEF DASHES
  <2>b. \A m \in {2, 3}, n \in Nat : m + n = 2 => m # 3
    OBVIOUS
  <2>5. w = DASHES => Len(f) # 3
    BY <1>2, <1>3, <1>4, <2>4, <2>b, Zenon
  <2> QED
    BY <1>2, <1>5, <2>2, <2>3, <2>4, <2>5, Zenon
<1>8. SplitFlag(w) = [flag |-> f, attached |-> IF tail = <<>> THEN NoValue ELSE StripEquals(tail)]
  <2>1. CASE IsShortFlag(f)
    <3>1. Len(w) >= 2 /\ w[1] = DASH /\ w[2] # DASH /\ Len(f) = 2
          /\ (Len(w) = 2 <=> tail = <<>>)
      BY <1>2, <1>3, <1>4, <1>5, <2>1, PunctuationApart DEF IsShortFlag
    <3>2. SplitFlag(w) = IF Len(w) = 2 THEN [flag |-> w, attached |-> NoValue]
                         ELSE [flag     |-> SubSeq(w, 1, 2),
                               attached |-> StripEquals(SubSeq(w, 3, Len(w)))]
      BY <1>3, <3>1, SplitShort
    <3>3. SubSeq(w, 1, 2) = f /\ SubSeq(w, 3, Len(w)) = tail
      BY <1>3, <3>1
    <3> QED
      BY <1>6, <3>1, <3>2, <3>3, Zenon
  <2>2. CASE IsLongFlag(f) /\ tail = <<>>
    <3>1. SplitFlag(f) = [flag |-> f, attached |-> NoValue]
      BY <2>2, SplitLong
    <3> QED
      BY <1>6, <2>2, <3>1, Zenon
  <2>3. CASE IsLongFlag(f) /\ tail # <<>>
    <3> DEFINE v == Tail(tail)
               t == <<EQUALS>> \o v
    <3>1. tail[1] = EQUALS
      BY <2>3, LongOrShort
    <3>2. v \in Seq(ArgChars) /\ tail = t
      BY <2>3, <3>1
    <3> HIDE DEF v
    <3>3. SplitFlag(f \o <<EQUALS>> \o v) = [flag |-> f, attached |-> v]
      BY <2>3, <3>2, SplitLong
    <3>4. f \o <<EQUALS>> \o v = f \o t
      BY <1>2, <3>2, PunctuationApart
    <3>5. StripEquals(t) = v
      BY <3>2, StripEqualsOf
    <3> HIDE DEF t
    <3> QED
      BY <2>3, <3>2, <3>3, <3>4, <3>5, Zenon DEF w
  <2> QED
    BY <1>1, <2>1, <2>2, <2>3
<1> QED
  BY <1>3, <1>7, <1>8, Zenon DEF w

-----------------------------------------------------------------------------
(* Words, files and algorithms are gathered item by item. *)

WordStep(k, acc, item) == acc \o WordsOf(item)
WordGathers == INSTANCE FoldLemmas WITH Op <- WordStep

FileStep(k, acc, item) == acc \o FilesOf(item)
FileGathers == INSTANCE FoldLemmas WITH Op <- FileStep

AlgoStep(k, acc, item) == acc \o AlgosIn(item)
AlgoGathers == INSTANCE FoldLemmas WITH Op <- AlgoStep

LEMMA WordFold ==
  ASSUME NEW items
  PROVE  Render(items) = WordGathers!Fold(0, <<>>, items)
BY DEF Render, WordStep, WordGathers!Fold, WordGathers!FoldLeft, WordGathers!MapThenFoldSet,
       WordGathers!Max, FoldLeft, MapThenFoldSet, Max

LEMMA FileFold ==
  ASSUME NEW items
  PROVE  MeantFiles(items) = FileGathers!Fold(0, <<>>, items)
BY DEF MeantFiles, FileStep, FileGathers!Fold, FileGathers!FoldLeft, FileGathers!MapThenFoldSet,
       FileGathers!Max, FoldLeft, MapThenFoldSet, Max

LEMMA AlgoFold ==
  ASSUME NEW items
  PROVE  MeantAlgos(items) = AlgoGathers!Fold(0, <<>>, items)
BY DEF MeantAlgos, AlgoStep, AlgoGathers!Fold, AlgoGathers!FoldLeft, AlgoGathers!MapThenFoldSet,
       AlgoGathers!Max, FoldLeft, MapThenFoldSet, Max

LEMMA GatheredNone == Render(<<>>) = <<>> /\ MeantFiles(<<>>) = <<>> /\ MeantAlgos(<<>>) = <<>>
BY WordFold, FileFold, AlgoFold, WordGathers!FoldEmpty, FileGathers!FoldEmpty, AlgoGathers!FoldEmpty

LEMMA GatheredAppend ==
  ASSUME NEW E, NEW items \in Seq(E), NEW item \in E
  PROVE  /\ Render(Append(items, item)) = Render(items) \o WordsOf(item)
         /\ MeantFiles(Append(items, item)) = MeantFiles(items) \o FilesOf(item)
         /\ MeantAlgos(Append(items, item)) = MeantAlgos(items) \o AlgosIn(item)
<1>1. Render(Append(items, item)) = WordStep(0, Render(items), item)
  BY WordFold, WordGathers!FoldAppend
<1>2. MeantFiles(Append(items, item)) = FileStep(0, MeantFiles(items), item)
  BY FileFold, FileGathers!FoldAppend
<1>3. MeantAlgos(Append(items, item)) = AlgoStep(0, MeantAlgos(items), item)
  BY AlgoFold, AlgoGathers!FoldAppend
<1> QED
  BY <1>1, <1>2, <1>3 DEF WordStep, FileStep, AlgoStep

(* The last item that passes a test. *)
LastIn(items, P) ==
  LET passing == {n \in DOMAIN items : items[n] \in P}
  IN  IF passing = {} THEN 0 ELSE Max(passing)

LEMMA LastInType ==
  ASSUME NEW E, NEW items \in Seq(E), NEW P
  PROVE  /\ LastIn(items, P) \in 0 .. Len(items)
         /\ LastIn(items, P) = 0 <=> {n \in DOMAIN items : items[n] \in P} = {}
<1> DEFINE I == {n \in DOMAIN items : items[n] \in P}
<1>1. I \subseteq 1 .. Len(items) /\ Len(items) \in Nat
  OBVIOUS
<1>2. LastIn(items, P) = IF I = {} THEN 0 ELSE Max(I)
  BY DEF LastIn
<1> HIDE DEF I
<1>3. I # {} => Max(I) \in I
  BY <1>1, GreatestOf
<1>a. I # {} => LastIn(items, P) \in 1 .. Len(items)
  BY <1>1, <1>2, <1>3
<1>b. I = {} => LastIn(items, P) = 0
  BY <1>2
<1>4. /\ LastIn(items, P) \in 0 .. Len(items)
      /\ LastIn(items, P) = 0 <=> I = {}
  BY <1>1, <1>a, <1>b
<1> QED
  BY <1>4 DEF I

LEMMA LastOfAppend ==
  ASSUME NEW E, NEW items \in Seq(E), NEW item \in E, NEW P
  PROVE  LastIn(Append(items, item), P) = IF item \in P THEN Len(items) + 1 ELSE LastIn(items, P)
<1> DEFINE n == Len(items)
           more == Append(items, item)
           I == {j \in DOMAIN items : items[j] \in P}
           J == {j \in DOMAIN more : more[j] \in P}
<1>1. n \in Nat /\ DOMAIN items = 1 .. n /\ DOMAIN more = 1 .. n + 1
      /\ more[n + 1] = item /\ \A j \in 1 .. n : more[j] = items[j]
  OBVIOUS
<1>2. /\ LastIn(items, P) = IF I = {} THEN 0 ELSE Max(I)
      /\ LastIn(more, P) = IF J = {} THEN 0 ELSE Max(J)
  BY DEF LastIn
<1> HIDE DEF n, more
<1>3. ASSUME item \in P PROVE J # {} /\ Max(J) = n + 1
  <2>1. J \subseteq Nat /\ n + 1 \in J /\ \A j \in J : n + 1 >= j
    BY <1>1, <1>3
  <2> HIDE DEF J
  <2>2. Max(J) = n + 1
    BY <2>1, GreatestIn
  <2> QED
    BY <2>1, <2>2
<1>4. ASSUME item \notin P PROVE J = I
  BY <1>1, <1>4
<1> HIDE DEF I, J
<1> QED
  BY <1>2, <1>3, <1>4 DEF n, more

(* What one more item means. *)
LEMMA MeaningAppend ==
  ASSUME NEW E, NEW items \in Seq(E), NEW item \in E
  PROVE  /\ \A flags : LastFlag(Append(items, item), flags) =
                         IF item.is = "flag" /\ item.word \in flags THEN item.word
                         ELSE LastFlag(items, flags)
         /\ MeantCheck(Append(items, item)) =
              IF item.is = "value" /\ item.flag \in CheckFlags THEN item.value ELSE MeantCheck(items)
         /\ HasJunk(Append(items, item)) <=> HasJunk(items) \/ item.is = "junk"
<1> DEFINE more == Append(items, item)
<1>0. /\ Len(items) \in Nat /\ DOMAIN items = 1 .. Len(items) /\ DOMAIN more = 1 .. Len(items) + 1
      /\ more[Len(items) + 1] = item /\ \A j \in 1 .. Len(items) : more[j] = items[j] /\ items[j] \in E
      /\ more \in Seq(E)
  OBVIOUS
<1>p. ASSUME NEW P
      PROVE  /\ LastIn(items, P) \in 0 .. Len(items)
             /\ LastIn(items, P) = 0 <=> {n \in DOMAIN items : items[n] \in P} = {}
             /\ LastIn(more, P) = 0 <=> {n \in DOMAIN more : more[n] \in P} = {}
             /\ LastIn(more, P) = IF item \in P THEN Len(items) + 1 ELSE LastIn(items, P)
  <2>1. LastIn(more, P) = IF item \in P THEN Len(items) + 1 ELSE LastIn(items, P)
    BY LastOfAppend
  <2> HIDE DEF more
  <2> QED
    BY <1>0, <2>1, LastInType
<1> HIDE DEF more
<1>1. ASSUME NEW flags
      PROVE  LastFlag(more, flags) = IF item.is = "flag" /\ item.word \in flags THEN item.word
                                     ELSE LastFlag(items, flags)
  <2>p. PICK P : P = {x \in E : x.is = "flag" /\ x.word \in flags}
    OBVIOUS
  <2> DEFINE I == {n \in DOMAIN items : items[n] \in P}
             J == {n \in DOMAIN more : more[n] \in P}
  <2>1. I = {n \in DOMAIN items : items[n].is = "flag" /\ items[n].word \in flags}
        /\ J = {n \in DOMAIN more : more[n].is = "flag" /\ more[n].word \in flags}
    BY <1>0, <2>p
  <2>2. /\ LastFlag(items, flags) = IF I = {} THEN NoValue ELSE items[Max(I)].word
        /\ LastFlag(more, flags) = IF J = {} THEN NoValue ELSE more[Max(J)].word
    BY <2>1, Zenon DEF LastFlag
  <2>3. /\ LastIn(items, P) = IF I = {} THEN 0 ELSE Max(I)
        /\ LastIn(more, P) = IF J = {} THEN 0 ELSE Max(J)
    BY DEF LastIn
  <2> HIDE DEF I, J
  <2>4. /\ LastFlag(items, flags) = IF LastIn(items, P) = 0 THEN NoValue ELSE items[LastIn(items, P)].word
        /\ LastFlag(more, flags) = IF LastIn(more, P) = 0 THEN NoValue ELSE more[LastIn(more, P)].word
    BY <1>p, <2>2, <2>3 DEF I, J
  <2>5. item \in P <=> item.is = "flag" /\ item.word \in flags
    BY <2>p
  <2> QED
    BY <1>0, <1>p, <2>4, <2>5
<1>2. MeantCheck(more) = IF item.is = "value" /\ item.flag \in CheckFlags THEN item.value
                         ELSE MeantCheck(items)
  <2>p. PICK P : P = {x \in E : x.is = "value" /\ x.flag \in CheckFlags}
    OBVIOUS
  <2> DEFINE I == {n \in DOMAIN items : items[n] \in P}
             J == {n \in DOMAIN more : more[n] \in P}
  <2>1. I = {n \in DOMAIN items : items[n].is = "value" /\ items[n].flag \in CheckFlags}
        /\ J = {n \in DOMAIN more : more[n].is = "value" /\ more[n].flag \in CheckFlags}
    BY <1>0, <2>p
  <2>2. /\ MeantCheck(items) = IF I = {} THEN NoValue ELSE items[Max(I)].value
        /\ MeantCheck(more) = IF J = {} THEN NoValue ELSE more[Max(J)].value
    BY <2>1, Zenon DEF MeantCheck
  <2>3. /\ LastIn(items, P) = IF I = {} THEN 0 ELSE Max(I)
        /\ LastIn(more, P) = IF J = {} THEN 0 ELSE Max(J)
    BY DEF LastIn
  <2> HIDE DEF I, J
  <2>4. /\ MeantCheck(items) = IF LastIn(items, P) = 0 THEN NoValue ELSE items[LastIn(items, P)].value
        /\ MeantCheck(more) = IF LastIn(more, P) = 0 THEN NoValue ELSE more[LastIn(more, P)].value
    BY <1>p, <2>2, <2>3 DEF I, J
  <2>5. item \in P <=> item.is = "value" /\ item.flag \in CheckFlags
    BY <2>p
  <2> QED
    BY <1>0, <1>p, <2>4, <2>5
<1>3. HasJunk(more) <=> HasJunk(items) \/ item.is = "junk"
  BY <1>0 DEF HasJunk
<1> QED
  BY <1>1, <1>2, <1>3 DEF more

LEMMA MeaningNone ==
  /\ \A flags : LastFlag(<<>>, flags) = NoValue
  /\ MeantCheck(<<>>) = NoValue /\ ~HasJunk(<<>>)
<1>1. DOMAIN <<>> = {}
  OBVIOUS
<1> DEFINE none == <<>>
<1>2. DOMAIN none = {}
  BY <1>1
<1> HIDE DEF none
<1>3. /\ \A flags : LastFlag(none, flags) = NoValue
      /\ MeantCheck(none) = NoValue /\ ~HasJunk(none)
  BY <1>2 DEF LastFlag, MeantCheck, HasJunk
<1> QED
  BY <1>3 DEF none

-----------------------------------------------------------------------------
(* Algorithms that are asked for twice are computed once, in the order in *)
(* which they were first asked for.                                       *)

PushStep(k, s, algo) == IF Contains(s, algo) THEN s ELSE Append(s, algo)
Pushes == INSTANCE FoldLemmas WITH Op <- PushStep

Dedupe(algos) == Pushes!Fold(0, <<>>, algos)

LEMMA PushFold ==
  ASSUME NEW spec, NEW into
  PROVE  PushAlgos(spec, into) = Pushes!Fold(0, into, AlgosOf(spec))
BY DEF PushAlgos, PushStep, Pushes!Fold, Pushes!FoldLeft, Pushes!MapThenFoldSet, Pushes!Max,
       FoldLeft, MapThenFoldSet, Max

LEMMA FirstOfIs ==
  ASSUME NEW E, NEW s \in Seq(E), NEW e, NEW k \in 1 .. Len(s), s[k] = e,
         \A j \in 1 .. k - 1 : s[j] # e
  PROVE  FirstOf(s, e) = k
<1> DEFINE I == {j \in 1 .. Len(s) : s[j] = e}
<1>1. k \in I /\ I \subseteq Nat /\ \A j \in I : k <= j
  OBVIOUS
<1>2. FirstOf(s, e) = IF I # {} THEN Min(I) ELSE 0
  BY DEF FirstOf, SelectInSeq
<1> HIDE DEF I
<1>3. Min(I) = k
  BY <1>1, LeastIn
<1> QED
  BY <1>1, <1>2, <1>3

LEMMA FirstIndex ==
  ASSUME NEW E, NEW s \in Seq(E), NEW n \in 1 .. Len(s)
  PROVE  \E k \in 1 .. Len(s) : s[k] = s[n] /\ \A j \in 1 .. k - 1 : s[j] # s[n]
<1> DEFINE I == {j \in 1 .. Len(s) : s[j] = s[n]}
<1>1. I \subseteq Nat /\ I # {}
  OBVIOUS
<1> HIDE DEF I
<1>2. PICK k \in I : \A j \in I : k <= j
  BY <1>1, Pushes!LeastOf
<1> QED
  BY <1>2 DEF I

(* Deduped is the sequence d of what s names, by first mention. *)
ByMention(d, s) ==
  /\ \A n \in 1 .. Len(s) : \E k \in 1 .. Len(d) : d[k] = s[n]
  /\ \A k \in 1 .. Len(d) : \E n \in 1 .. Len(s) : d[k] = s[n]
  /\ \A n \in 1 .. Len(d) : \A k \in 1 .. n - 1 : FirstOf(s, d[k]) < FirstOf(s, d[n])

LEMMA DedupeByMention ==
  ASSUME NEW E, NEW algos \in Seq(E)
  PROVE  Dedupe(algos) \in Seq(E) /\ ByMention(Dedupe(algos), algos)
<1> DEFINE P == {s \in Seq(E) : Dedupe(s) \in Seq(E) /\ ByMention(Dedupe(s), s)}
<1>1. <<>> \in P
  <2>1. Dedupe(<<>>) = <<>>
    BY Pushes!FoldEmpty DEF Dedupe
  <2> DEFINE none == <<>>
  <2>2. none \in Seq(E) /\ 1 .. Len(none) = {}
    OBVIOUS
  <2> HIDE DEF none
  <2>3. ByMention(none, none)
    BY <2>2 DEF ByMention
  <2> QED
    BY <2>1, <2>2, <2>3 DEF none
<1>2. ASSUME NEW s \in Seq(E), NEW e \in E, s \in P PROVE Append(s, e) \in P
  <2> DEFINE d == Dedupe(s)
             t == Append(s, e)
             c == Dedupe(t)
  <2>1. c = IF Contains(d, e) THEN d ELSE Append(d, e)
    BY Pushes!FoldAppend DEF Dedupe, PushStep
  <2>2. d \in Seq(E) /\ ByMention(d, s)
    BY <1>2
  <2>3. /\ t \in Seq(E) /\ Len(t) = Len(s) + 1 /\ Len(s) \in Nat /\ t[Len(s) + 1] = e
        /\ \A j \in 1 .. Len(s) : t[j] = s[j]
    OBVIOUS
  <2> HIDE DEF d, t, c
  <2>4. ASSUME NEW n \in 1 .. Len(s)
        PROVE  FirstOf(t, s[n]) = FirstOf(s, s[n]) /\ FirstOf(s, s[n]) \in 1 .. Len(s)
    <3>1. PICK k \in 1 .. Len(s) : s[k] = s[n] /\ \A j \in 1 .. k - 1 : s[j] # s[n]
      BY FirstIndex
    <3>2. FirstOf(s, s[n]) = k
      BY <3>1, FirstOfIs
    <3>3. k \in 1 .. Len(t) /\ t[k] = s[n] /\ \A j \in 1 .. k - 1 : t[j] # s[n]
      BY <2>3, <3>1
    <3>4. FirstOf(t, s[n]) = k
      BY <2>3, <3>3, FirstOfIs
    <3> QED
      BY <3>2, <3>4
  <2>5. ASSUME NEW k \in 1 .. Len(d)
        PROVE  FirstOf(t, d[k]) = FirstOf(s, d[k]) /\ FirstOf(s, d[k]) \in 1 .. Len(s)
    <3>1. PICK n \in 1 .. Len(s) : d[k] = s[n]
      BY <2>2 DEF ByMention
    <3> QED
      BY <2>4, <3>1
  <2>6. CASE Contains(d, e)
    <3>1. c = d
      BY <2>1, <2>6
    <3>2. \E k \in 1 .. Len(d) : d[k] = e
      BY <2>2, <2>6 DEF Contains
    <3>3. \A n \in 1 .. Len(t) : \E k \in 1 .. Len(d) : d[k] = t[n]
      <4> SUFFICES ASSUME NEW n \in 1 .. Len(t) PROVE \E k \in 1 .. Len(d) : d[k] = t[n]
        OBVIOUS
      <4>1. CASE n = Len(s) + 1
        BY <2>3, <3>2, <4>1
      <4>2. CASE n \in 1 .. Len(s)
        BY <2>2, <2>3, <4>2 DEF ByMention
      <4> QED
        BY <2>3, <4>1, <4>2
    <3>4. \A k \in 1 .. Len(d) : \E n \in 1 .. Len(t) : d[k] = t[n]
      <4> SUFFICES ASSUME NEW k \in 1 .. Len(d) PROVE \E n \in 1 .. Len(t) : d[k] = t[n]
        OBVIOUS
      <4>1. PICK n \in 1 .. Len(s) : d[k] = s[n]
        BY <2>2 DEF ByMention
      <4>2. n \in 1 .. Len(t) /\ t[n] = d[k]
        BY <2>3, <4>1
      <4> QED
        BY <4>2
    <3>5. \A n \in 1 .. Len(d) : \A k \in 1 .. n - 1 : FirstOf(t, d[k]) < FirstOf(t, d[n])
      <4> SUFFICES ASSUME NEW n \in 1 .. Len(d), NEW k \in 1 .. n - 1
                   PROVE  FirstOf(t, d[k]) < FirstOf(t, d[n])
        OBVIOUS
      <4>1. k \in 1 .. Len(d)
        BY <2>2
      <4>2. FirstOf(s, d[k]) < FirstOf(s, d[n])
        BY <2>2 DEF ByMention
      <4> QED
        BY <2>5, <4>1, <4>2
    <3> QED
      BY <2>2, <2>3, <3>1, <3>3, <3>4, <3>5 DEF ByMention, c, t
  <2>7. CASE ~Contains(d, e)
    <3>1. /\ c \in Seq(E) /\ Len(c) = Len(d) + 1 /\ Len(d) \in Nat /\ c[Len(d) + 1] = e
          /\ \A k \in 1 .. Len(d) : c[k] = d[k]
      BY <2>1, <2>2, <2>7
    <3>2. \A k \in 1 .. Len(d) : d[k] # e
      BY <2>2, <2>7 DEF Contains
    <3>3. \A j \in 1 .. Len(s) : s[j] # e
      BY <2>2, <3>2 DEF ByMention
    <3>4. FirstOf(t, e) = Len(s) + 1
      <4>1. Len(s) + 1 \in 1 .. Len(t) /\ \A j \in 1 .. (Len(s) + 1) - 1 : t[j] # e
        BY <2>3, <3>3
      <4> DEFINE l == Len(s) + 1
      <4>2. l \in 1 .. Len(t) /\ t[l] = e /\ \A j \in 1 .. l - 1 : t[j] # e
        BY <2>3, <4>1
      <4> HIDE DEF l
      <4>3. FirstOf(t, e) = l
        BY <2>3, <4>2, FirstOfIs
      <4> QED
        BY <4>3 DEF l
    <3>5. \A n \in 1 .. Len(t) : \E k \in 1 .. Len(c) : c[k] = t[n]
      <4> SUFFICES ASSUME NEW n \in 1 .. Len(t) PROVE \E k \in 1 .. Len(c) : c[k] = t[n]
        OBVIOUS
      <4>1. CASE n = Len(s) + 1
        BY <2>3, <3>1, <4>1
      <4>2. CASE n \in 1 .. Len(s)
        <5>1. PICK k \in 1 .. Len(d) : d[k] = s[n]
          BY <2>2, <4>2 DEF ByMention
        <5>2. k \in 1 .. Len(c) /\ c[k] = t[n]
          BY <2>3, <3>1, <4>2, <5>1
        <5> QED
          BY <5>2
      <4> QED
        BY <2>3, <4>1, <4>2
    <3>6. \A k \in 1 .. Len(c) : \E n \in 1 .. Len(t) : c[k] = t[n]
      <4> SUFFICES ASSUME NEW k \in 1 .. Len(c) PROVE \E n \in 1 .. Len(t) : c[k] = t[n]
        OBVIOUS
      <4>1. CASE k = Len(d) + 1
        BY <2>3, <3>1, <4>1
      <4>2. CASE k \in 1 .. Len(d)
        <5>1. PICK n \in 1 .. Len(s) : d[k] = s[n]
          BY <2>2, <4>2 DEF ByMention
        <5>2. n \in 1 .. Len(t) /\ c[k] = t[n]
          BY <2>3, <3>1, <4>2, <5>1
        <5> QED
          BY <5>2
      <4> QED
        BY <3>1, <4>1, <4>2
    <3>7. \A n \in 1 .. Len(c) : \A k \in 1 .. n - 1 : FirstOf(t, c[k]) < FirstOf(t, c[n])
      <4> SUFFICES ASSUME NEW n \in 1 .. Len(c), NEW k \in 1 .. n - 1
                   PROVE  FirstOf(t, c[k]) < FirstOf(t, c[n])
        OBVIOUS
      <4>1. k \in 1 .. Len(d) /\ c[k] = d[k]
        BY <3>1
      <4>2. FirstOf(t, d[k]) = FirstOf(s, d[k]) /\ FirstOf(s, d[k]) \in 1 .. Len(s)
        BY <2>5, <4>1
      <4>3. CASE n = Len(d) + 1
        <5>1. c[n] = e
          BY <3>1, <4>3
        <5>2. FirstOf(t, c[n]) = Len(s) + 1
          BY <3>4, <5>1
        <5> DEFINE a == FirstOf(t, c[k])
                   b == FirstOf(t, c[n])
        <5>3. a \in 1 .. Len(s) /\ b = Len(s) + 1
          BY <4>1, <4>2, <5>2
        <5> HIDE DEF a, b
        <5>4. a < b
          BY <2>3, <5>3
        <5> QED
          BY <5>4 DEF a, b
      <4>4. CASE n \in 1 .. Len(d)
        <5>1. c[n] = d[n] /\ FirstOf(t, d[n]) = FirstOf(s, d[n])
          BY <2>5, <3>1, <4>4
        <5>2. FirstOf(s, d[k]) < FirstOf(s, d[n])
          BY <2>2, <4>4 DEF ByMention
        <5> QED
          BY <4>1, <4>2, <5>1, <5>2
      <4> QED
        BY <3>1, <4>3, <4>4
    <3> QED
      BY <2>3, <3>1, <3>5, <3>6, <3>7 DEF ByMention, c, t
  <2> QED
    BY <2>6, <2>7
<1>3. Seq(E) \subseteq P
  <2> HIDE DEF P
  <2> QED
    BY <1>1, <1>2, Pushes!SeqSetInduction
<1> QED
  BY <1>3

(* The algorithms of a list are algorithms. *)

NameStep(k, names, name) == IF Trim(name) = <<>> THEN names ELSE Append(names, name)
NameLists == INSTANCE FoldLemmas WITH Op <- NameStep

LEMMA NamesType ==
  ASSUME NEW C, NEW spec \in Seq(C)
  PROVE  Names(spec) \in Seq(Seq(C))
<1> DEFINE parts == Split(spec, COMMA)
           A == Seq(Seq(C))
           none == <<>>
           L == Seq(C)
<1>1. Names(spec) = NameLists!Fold(0, none, parts)
  BY DEF Names, NameStep, NameLists!Fold, NameLists!FoldLeft, NameLists!MapThenFoldSet,
         NameLists!Max, FoldLeft, MapThenFoldSet, Max
<1>2. parts \in Seq(L) /\ none \in A
  BY SplitType
<1>3. \A names \in A, name \in L : NameStep(0, names, name) \in A
  BY DEF NameStep
<1> HIDE DEF parts, A, none, L
<1>4. NameLists!Fold(0, none, parts) \in A
  BY <1>2, <1>3, NameLists!FoldType
<1> QED
  BY <1>1, <1>4 DEF A

LEMMA ParseIsAlgo ==
  ASSUME NEW spelling
  PROVE  Parse(spelling) \subseteq AllAlgos
<1> DEFINE text1 == {j \in DOMAIN spelling : spelling[j] # SP}
           trimmed == IF text1 = {} THEN <<>> ELSE SubSeq(spelling, Min(text1), Max(text1))
           wanted == [j \in DOMAIN trimmed |-> Lower(trimmed[j])]
           I == {j \in 1 .. Len(ALL) : wanted = Name[ALL[j]] \/ wanted \in Aliases[ALL[j]]}
           found == IF I # {} THEN Min(I) ELSE 0
<1>1. Parse(spelling) = IF found = 0 THEN {} ELSE {ALL[found]}
  BY Zenon DEF Parse, SelectInSeq
<1>2. I \subseteq 1 .. Len(ALL)
  OBVIOUS
<1>3. Len(ALL) \in Nat /\ \A j \in 1 .. Len(ALL) : ALL[j] \in AllAlgos
  BY NamesAre
<1> HIDE DEF I
<1>4. I # {} => Min(I) \in I
  <2>1. I # {} => \E x \in I : \A y \in I : x <= y
    <3>1. I \subseteq Nat
      BY <1>2
    <3> QED
      BY <3>1, Pushes!LeastOf
  <2> QED
    BY <2>1 DEF Min
<1> QED
  BY <1>1, <1>2, <1>3, <1>4

LEMMA AlgosOfType ==
  ASSUME NEW C, NEW spec \in Seq(C), IsSpec(spec)
  PROVE  AlgosOf(spec) \in Seq(AllAlgos)
<1>1. Names(spec) \in Seq(Seq(C))
  BY NamesType
<1>2. \A n \in DOMAIN Names(spec) : (CHOOSE algo \in Parse(Names(spec)[n]) : TRUE) \in AllAlgos
  BY ParseIsAlgo DEF IsSpec
<1>3. DOMAIN Names(spec) = 1 .. Len(Names(spec)) /\ Len(Names(spec)) \in Nat
  BY <1>1
<1> QED
  BY <1>2, <1>3 DEF AlgosOf

-----------------------------------------------------------------------------
(* Where the words of an item stand. *)

Letter == Seq(ArgChars)

LEMMA PiecesAreChars == Seq(ArgPieces) \subseteq Letter /\ \A s \in Seq(Seq(ArgPieces)) : s \in Seq(Letter)
<1>1. ArgPieces \subseteq ArgChars
  BY PunctuationApart
<1> QED
  BY <1>1 DEF Letter

LEMMA FlagIsWord ==
  ASSUME NEW f \in Plain \cup AlgoFlags \cup CheckFlags
  PROVE  f \in Letter
BY FlagShape DEF IsShortFlag, IsLongFlag, Letter

LEMMA ItemWords ==
  ASSUME NEW item, IsItem(item)
  PROVE  /\ item.is \in {"file", "flag", "value", "junk", "rest"}
         /\ WordsOf(item) \in Seq(Letter) /\ Len(WordsOf(item)) \in Nat \ {0}
         /\ FilesOf(item) \in Seq(Letter)
         /\ AlgosIn(item) \in Seq(AllAlgos)
<1>0. item.is \in {"file", "flag", "value", "junk", "rest"}
  BY DEF IsItem
<1>w. \A w \in Letter : <<w>> \in Seq(Letter) /\ Len(<<w>>) = 1
  OBVIOUS
<1>v. \A w \in Letter, v \in Letter : <<w, v>> \in Seq(Letter) /\ Len(<<w, v>>) = 2
  OBVIOUS
<1>c. \A w \in Letter, v \in Letter : w \o v \in Letter /\ w \o <<EQUALS>> \o v \in Letter
  <2>1. EQUALS \in ArgChars
    BY PunctuationApart
  <2> QED
    BY <2>1 DEF Letter
<1>d. DASHES \in Letter
  <2>1. DASH \in ArgChars
    BY PunctuationApart
  <2> QED
    BY <2>1 DEF DASHES, Letter
<1>n. <<>> \in Seq(Letter) /\ <<>> \in Seq(AllAlgos) /\ 1 \in Nat \ {0} /\ 2 \in Nat \ {0}
  OBVIOUS
<1>1. CASE item.is = "file"
  <2>1. item.word \in Letter
    BY <1>1, PiecesAreChars DEF IsItem
  <2>2. WordsOf(item) = <<item.word>> /\ FilesOf(item) = <<item.word>> /\ AlgosIn(item) = <<>>
    BY <1>1 DEF WordsOf, FilesOf, AlgosIn
  <2> QED
    BY <1>0, <1>n, <1>w, <2>1, <2>2, Zenon
<1>2. CASE item.is = "flag"
  <2>1. item.word \in Letter /\ item.tail \in Letter
    BY <1>2, PiecesAreChars, FlagIsWord DEF IsItem
  <2>2. WordsOf(item) = <<item.word \o item.tail>> /\ FilesOf(item) = <<>> /\ AlgosIn(item) = <<>>
    BY <1>2 DEF WordsOf, FilesOf, AlgosIn
  <2> QED
    BY <1>0, <1>n, <1>w, <1>c, <2>1, <2>2, Zenon
<1>3. CASE item.is = "value"
  <2>1. item.flag \in Letter /\ item.value \in Letter /\ item.attach \in {"next", "=", "glued"}
    BY <1>3, PiecesAreChars, FlagIsWord DEF IsItem
  <2>2. /\ item.attach = "next" => WordsOf(item) = <<item.flag, item.value>>
        /\ item.attach = "=" => WordsOf(item) = <<item.flag \o <<EQUALS>> \o item.value>>
        /\ item.attach = "glued" => WordsOf(item) = <<item.flag \o item.value>>
    BY <1>3 DEF WordsOf
  <2>3. FilesOf(item) = <<>>
    BY <1>3 DEF FilesOf
  <2>4. AlgosIn(item) \in Seq(AllAlgos)
    BY <1>3, <1>n, AlgosOfType DEF AlgosIn, IsItem
  <2>5. WordsOf(item) \in Seq(Letter) /\ (Len(WordsOf(item)) = 1 \/ Len(WordsOf(item)) = 2)
    BY <1>w, <1>v, <1>c, <2>1, <2>2, Zenon
  <2> QED
    BY <1>0, <1>n, <2>3, <2>4, <2>5, Zenon
<1>4. CASE item.is = "junk"
  <2>1. item.words \in Seq(Letter) /\ item.words # <<>>
    BY <1>4, PiecesAreChars DEF IsItem, IsJunk
  <2>2. WordsOf(item) = item.words /\ FilesOf(item) = <<>> /\ AlgosIn(item) = <<>>
    BY <1>4 DEF WordsOf, FilesOf, AlgosIn
  <2>3. \A s \in Seq(Letter) : s # <<>> => Len(s) \in Nat \ {0}
    OBVIOUS
  <2> QED
    BY <1>0, <1>n, <2>1, <2>2, <2>3, Zenon
<1>5. CASE item.is = "rest"
  <2>1. item.words \in Seq(Letter)
    BY <1>5, PiecesAreChars DEF IsItem
  <2>2. WordsOf(item) = <<DASHES>> \o item.words /\ FilesOf(item) = item.words /\ AlgosIn(item) = <<>>
    BY <1>5 DEF WordsOf, FilesOf, AlgosIn
  <2>3. \A s \in Seq(Letter) : /\ <<DASHES>> \o s \in Seq(Letter)
                               /\ Len(<<DASHES>> \o s) \in Nat \ {0}
    BY <1>d
  <2> QED
    BY <1>0, <1>n, <2>1, <2>2, <2>3, Zenon
<1> QED
  BY <1>0, <1>1, <1>2, <1>3, <1>4, <1>5

LEMMA LineItems ==
  ASSUME NEW line \in CommandLines
  PROVE  /\ line \in Seq(AllItems) /\ Len(line) \in Nat
         /\ \A n \in 1 .. Len(line) : line[n] \in AllItems /\ IsItem(line[n])
         /\ \A n \in 1 .. Len(line) : EndsLine(line[n]) => n = Len(line)
BY ArgsAssumption

Before(line, n) == SubSeq(line, 1, n)
Offset(line, n) == Len(Render(Before(line, n)))

LEMMA BeforeMore ==
  ASSUME NEW line \in CommandLines
  PROVE  /\ Before(line, 0) = <<>> /\ Before(line, Len(line)) = line
         /\ \A n \in 0 .. Len(line) : Before(line, n) \in Seq(AllItems)
         /\ \A n \in 0 .. Len(line) - 1 : Before(line, n + 1) = Append(Before(line, n), line[n + 1])
<1>1. line \in Seq(AllItems) /\ Len(line) \in Nat
  BY LineItems
<1>2. \A n \in 0 .. Len(line) - 1 : SubSeq(line, 1, n + 1) = Append(SubSeq(line, 1, n), line[n + 1])
  BY <1>1
<1>3. SubSeq(line, 1, 0) = <<>> /\ SubSeq(line, 1, Len(line)) = line
  BY <1>1, SubSeqFull
<1>4. \A n \in 0 .. Len(line) : SubSeq(line, 1, n) \in Seq(AllItems)
  BY <1>1
<1> QED
  BY <1>2, <1>3, <1>4 DEF Before

LEMMA RenderType ==
  ASSUME NEW items \in Seq(AllItems)
  PROVE  /\ Render(items) \in Seq(Letter) /\ MeantFiles(items) \in Seq(Letter)
         /\ MeantAlgos(items) \in Seq(AllAlgos)
<1>0. \A item \in AllItems : IsItem(item)
  BY ArgsAssumption
<1>1. \A words \in Seq(Letter), item \in AllItems : WordStep(0, words, item) \in Seq(Letter)
  BY <1>0, ItemWords DEF WordStep
<1>2. \A words \in Seq(Letter), item \in AllItems : FileStep(0, words, item) \in Seq(Letter)
  BY <1>0, ItemWords DEF FileStep
<1>3. \A algos \in Seq(AllAlgos), item \in AllItems : AlgoStep(0, algos, item) \in Seq(AllAlgos)
  BY <1>0, ItemWords DEF AlgoStep
<1> DEFINE none == <<>>
           L == Seq(Letter)
           A == Seq(AllAlgos)
<1>4. none \in L /\ none \in A
  OBVIOUS
<1> HIDE DEF none, L, A
<1>5. WordGathers!Fold(0, none, items) \in L
  BY <1>1, <1>4, WordGathers!FoldType DEF L
<1>6. FileGathers!Fold(0, none, items) \in L
  BY <1>2, <1>4, FileGathers!FoldType DEF L
<1>7. AlgoGathers!Fold(0, none, items) \in A
  BY <1>3, <1>4, AlgoGathers!FoldType DEF A
<1> QED
  BY <1>5, <1>6, <1>7, WordFold, FileFold, AlgoFold DEF none, L, A

(* The words of the line begin with those of any first part of it. *)
LEMMA OffsetsGrow ==
  ASSUME NEW line \in CommandLines, NEW n \in 0 .. Len(line)
  PROVE  /\ Offset(line, n) \in 0 .. Len(Render(line))
         /\ \A j \in 1 .. Offset(line, n) : Render(line)[j] = Render(Before(line, n))[j]
<1>0. line \in Seq(AllItems) /\ Len(line) \in Nat /\ \A m \in 1 .. Len(line) : line[m] \in AllItems /\ IsItem(line[m])
  BY LineItems
<1> DEFINE Good(m) == /\ Offset(line, n) \in 0 .. Offset(line, m)
                      /\ \A j \in 1 .. Offset(line, n) :
                           Render(Before(line, m))[j] = Render(Before(line, n))[j]
           S == {k \in Nat : n + k <= Len(line) => Good(n + k)}
<1>1. \A m \in 0 .. Len(line) : Render(Before(line, m)) \in Seq(Letter) /\ Offset(line, m) \in Nat
  BY BeforeMore, RenderType DEF Offset
<1>2. 0 \in S
  <2>1. Good(n)
    BY <1>1
  <2>2. n + 0 = n
    OBVIOUS
  <2> HIDE DEF Good
  <2> QED
    BY <2>1, <2>2
<1>3. ASSUME NEW k \in Nat, k \in S PROVE k + 1 \in S
  <2> SUFFICES ASSUME n + (k + 1) <= Len(line) PROVE Good(n + (k + 1))
    OBVIOUS
  <2> DEFINE m == n + k
  <2>1. m \in 0 .. Len(line) - 1 /\ m + 1 \in 1 .. Len(line) /\ n + (k + 1) = m + 1 /\ m \in 0 .. Len(line)
    BY <1>0
  <2>2. Good(m)
    BY <1>3, <2>1
  <2> HIDE DEF m
  <2> DEFINE w == Render(Before(line, m))
             t == WordsOf(line[m + 1])
             v == Render(Before(line, m + 1))
  <2>3. v = w \o t
    <3>1. Before(line, m + 1) = Append(Before(line, m), line[m + 1]) /\ Before(line, m) \in Seq(AllItems)
      BY <2>1, BeforeMore
    <3>2. line[m + 1] \in AllItems
      BY <1>0, <2>1
    <3> QED
      BY <3>1, <3>2, GatheredAppend
  <2>4. w \in Seq(Letter) /\ t \in Seq(Letter) /\ Offset(line, m) = Len(w) /\ Offset(line, m + 1) = Len(v)
    BY <1>0, <1>1, <2>1, ItemWords DEF Offset
  <2> HIDE DEF w, t, v
  <2>5. Len(v) = Len(w) + Len(t) /\ Len(w) \in Nat /\ Len(t) \in Nat /\ \A j \in 1 .. Len(w) : v[j] = w[j]
    BY <2>3, <2>4
  <2>6. Good(m + 1)
    BY <2>2, <2>4, <2>5 DEF w, v
  <2> HIDE DEF Good
  <2> QED
    BY <2>1, <2>6
<1>4. Nat \subseteq S
  <2> HIDE DEF S
  <2> QED
    BY <1>2, <1>3, WordGathers!NatSetInduction
<1>5. Good(Len(line))
  <2> DEFINE k == Len(line) - n
  <2>1. k \in Nat /\ n + k = Len(line)
    BY <1>0
  <2>2. k \in S
    BY <1>4, <2>1
  <2> HIDE DEF k, Good
  <2> QED
    BY <1>0, <2>1, <2>2
<1>6. Before(line, Len(line)) = line
  BY BeforeMore
<1> QED
  BY <1>5, <1>6 DEF Offset

(* ... and go on with those of the next item. *)
LEMMA NextWords ==
  ASSUME NEW line \in CommandLines, NEW n \in 0 .. Len(line) - 1
  PROVE  /\ Offset(line, n) \in Nat /\ Offset(line, n + 1) <= Len(Render(line))
         /\ Len(Render(line)) \in Nat
         /\ Offset(line, n + 1) = Offset(line, n) + Len(WordsOf(line[n + 1]))
         /\ \A j \in 1 .. Len(WordsOf(line[n + 1])) :
              Render(line)[Offset(line, n) + j] = WordsOf(line[n + 1])[j]
<1>0. n + 1 \in 1 .. Len(line) /\ n \in 0 .. Len(line) /\ n + 1 \in 0 .. Len(line)
  BY LineItems
<1> DEFINE w == Render(Before(line, n))
           t == WordsOf(line[n + 1])
           v == Render(Before(line, n + 1))
<1>1. v = w \o t
  <2>1. Before(line, n + 1) = Append(Before(line, n), line[n + 1]) /\ Before(line, n) \in Seq(AllItems)
    BY <1>0, BeforeMore
  <2>2. line[n + 1] \in AllItems
    BY <1>0, LineItems
  <2> QED
    BY <2>1, <2>2, GatheredAppend
<1>2. w \in Seq(Letter) /\ t \in Seq(Letter) /\ Render(line) \in Seq(Letter)
  BY <1>0, LineItems, ItemWords, BeforeMore, RenderType
<1>3. Offset(line, n) = Len(w) /\ Offset(line, n + 1) = Len(v)
  BY DEF Offset
<1>4. /\ Len(v) \in 0 .. Len(Render(line))
      /\ \A j \in 1 .. Len(v) : Render(line)[j] = v[j]
  BY <1>0, <1>3, OffsetsGrow
<1> HIDE DEF w, t, v
<1>5. Len(v) = Len(w) + Len(t) /\ Len(w) \in Nat /\ Len(t) \in Nat /\ \A j \in 1 .. Len(t) : v[Len(w) + j] = t[j]
  BY <1>1, <1>2
<1>6. \A j \in 1 .. Len(t) : Render(line)[Len(w) + j] = t[j]
  BY <1>4, <1>5
<1> QED
  BY <1>2, <1>3, <1>4, <1>5, <1>6 DEF t

-----------------------------------------------------------------------------
(* The invariant of args::parse.  Between two items, the options are the  *)
(* meaning of the items that were read; behind "--", the files are those  *)
(* in front of it and the words that were read since.                     *)

FlagItems == Plain \cup AlgoFlags \cup CheckFlags
DecHex    == {Long("hex"), Long("dec")}

OptionsOf(items) ==
  /\ ~HasJunk(items)
  /\ mode = MeantMode(items)
  /\ all <=> MeansAll(items)
  /\ hex <=> LastFlag(items, DecHex) # Long("dec")
  /\ check = MeantCheck(items)
  /\ requested = Dedupe(MeantAlgos(items))

InLine(n) ==
  /\ ~files_only
  /\ taken = Offset(meant, n)
  /\ files = MeantFiles(Before(meant, n))
  /\ OptionsOf(Before(meant, n))

(* The last item is a rest. *)
LastItem  == meant[Len(meant)]
InFront   == Before(meant, Len(meant) - 1)

InRest(m) ==
  /\ Len(meant) >= 1 /\ LastItem.is = "rest" /\ m \in 0 .. Len(LastItem.words)
  /\ files_only
  /\ taken = Offset(meant, Len(meant) - 1) + 1 + m
  /\ files = MeantFiles(InFront) \o SubSeq(LastItem.words, 1, m)
  /\ OptionsOf(meant)

OneLine == meant \in CommandLines /\ crcArgv = Render(meant)

ArgsInv ==
  /\ OneLine
  /\ parsed = "parsing" => \/ \E n \in 0 .. Len(meant) : InLine(n)
                           \/ \E m \in Nat : InRest(m)
  /\ parsed \in {"parsing", "error", "options"}
  /\ MeansWhatItSays

(* No flag is another. *)
LEMMA FlagsApart ==
  /\ Plain \cap (AlgoFlags \cup CheckFlags) = {} /\ AlgoFlags \cap CheckFlags = {}
  /\ NoValue \notin FlagItems
  /\ Informational \subseteq Plain /\ DecHex \subseteq Plain /\ Long("all") \in Plain
  /\ Long("hex") # Long("dec") /\ Long("hex") \in DecHex /\ Long("dec") \in DecHex
<1>1. \A c, d \in Letters : /\ Short(c) # Long(d)
                            /\ Short(c) = Short(d) => c = d
                            /\ Long(c) = Long(d) => c = d
  <2> TAKE c \in Letters, d \in Letters
  <2>1. Short(c)[2] = c /\ Short(d)[2] = d /\ Long(c)[3] = c /\ Long(d)[3] = d
    BY DEF Short, Long
  <2>2. Len(Short(c)) = 2 /\ Len(Long(d)) = 3
    BY DEF Short, Long
  <2> QED
    BY <2>1, <2>2
<1> DEFINE ps == {"h", "V"}
           pl == {"help", "version", "list", "all", "hex", "dec"}
<1>2. /\ Plain = {Short(c) : c \in ps} \cup {Long(c) : c \in pl}
      /\ AlgoFlags = {Short("a"), Long("algo")} /\ CheckFlags = {Short("c"), Long("check")}
      /\ Informational \subseteq Plain /\ DecHex \subseteq Plain /\ Long("all") \in Plain
  BY DEF Plain, Informational, HelpFlags, VersionFlags, AlgoFlags, CheckFlags, DecHex
<1>3. /\ ps \subseteq Letters /\ pl \subseteq Letters /\ "a" \in Letters /\ "algo" \in Letters
      /\ "c" \in Letters /\ "check" \in Letters
      /\ "a" \notin ps /\ "c" \notin ps /\ "algo" \notin pl /\ "check" \notin pl
      /\ "a" # "c" /\ "algo" # "check" /\ "hex" \in pl /\ "dec" \in pl /\ "hex" # "dec"
  BY DEF Letters
<1> HIDE DEF ps, pl
<1>4. Plain \cap (AlgoFlags \cup CheckFlags) = {} /\ AlgoFlags \cap CheckFlags = {}
  BY <1>1, <1>2, <1>3
<1>5. NoValue \notin FlagItems
  <2>1. ASSUME NEW f \in FlagItems PROVE f # NoValue
    <3>1. f[1] = DASH
      BY FlagShape DEF IsShortFlag, IsLongFlag, FlagItems
    <3>2. NoValue[1] = "no value" /\ DASH # "no value"
      BY DEF NoValue, DASH
    <3> QED
      BY <3>1, <3>2
  <2> QED
    BY <2>1
<1>6. Long("hex") # Long("dec")
  BY <1>1, <1>3
<1> QED
  BY <1>2, <1>4, <1>5, <1>6 DEF DecHex

(* What the next item adds to the meaning. *)
LEMMA NextMeaning ==
  ASSUME NEW line \in CommandLines, NEW n \in 0 .. Len(line) - 1
  PROVE  /\ MeantFiles(Before(line, n + 1)) = MeantFiles(Before(line, n)) \o FilesOf(line[n + 1])
         /\ MeantAlgos(Before(line, n + 1)) = MeantAlgos(Before(line, n)) \o AlgosIn(line[n + 1])
         /\ \A flags : LastFlag(Before(line, n + 1), flags) =
                         IF line[n + 1].is = "flag" /\ line[n + 1].word \in flags THEN line[n + 1].word
                         ELSE LastFlag(Before(line, n), flags)
         /\ MeantCheck(Before(line, n + 1)) =
              IF line[n + 1].is = "value" /\ line[n + 1].flag \in CheckFlags THEN line[n + 1].value
              ELSE MeantCheck(Before(line, n))
         /\ HasJunk(Before(line, n + 1)) <=> HasJunk(Before(line, n)) \/ line[n + 1].is = "junk"
         /\ MeantFiles(Before(line, n)) \in Seq(Letter) /\ MeantAlgos(Before(line, n)) \in Seq(AllAlgos)
         /\ IsItem(line[n + 1])
<1> DEFINE s == Before(line, n)
           x == line[n + 1]
           t == Before(line, n + 1)
<1>1. n + 1 \in 1 .. Len(line) /\ n \in 0 .. Len(line)
  BY LineItems
<1>2. t = Append(s, x) /\ s \in Seq(AllItems) /\ x \in AllItems /\ IsItem(x)
  BY <1>1, BeforeMore, LineItems
<1> HIDE DEF s, x, t
<1>3. /\ MeantFiles(t) = MeantFiles(s) \o FilesOf(x)
      /\ MeantAlgos(t) = MeantAlgos(s) \o AlgosIn(x)
  BY <1>2, GatheredAppend
<1>4. /\ \A flags : LastFlag(t, flags) = IF x.is = "flag" /\ x.word \in flags THEN x.word
                                         ELSE LastFlag(s, flags)
      /\ MeantCheck(t) = IF x.is = "value" /\ x.flag \in CheckFlags THEN x.value ELSE MeantCheck(s)
      /\ HasJunk(t) <=> HasJunk(s) \/ x.is = "junk"
  BY <1>2, MeaningAppend
<1>5. MeantFiles(s) \in Seq(Letter) /\ MeantAlgos(s) \in Seq(AllAlgos)
  BY <1>2, RenderType
<1> QED
  BY <1>2, <1>3, <1>4, <1>5 DEF s, x, t

(* What the parser sees of the next item, whose words end at `end`. *)
Refused ==
  \/ TheFlag \notin FlagItems
  \/ TheFlag \in AlgoFlags \cup CheckFlags /\ ~Given
  \/ TheFlag \in AlgoFlags /\ Given /\ ~IsSpec(ValueFor)

SeesOption(x, end) ==
  \/ x.is = "flag" /\ TheFlag = x.word /\ x.word \in Plain /\ end = taken + 1
  \/ /\ x.is = "value" /\ TheFlag = x.flag /\ x.flag \in AlgoFlags \cup CheckFlags
     /\ Given /\ ValueFor = x.value /\ end = taken + Consumed
     /\ x.flag \in AlgoFlags => IsSpec(x.value)
  \/ x.is = "junk" /\ Refused

Sees(x, end) ==
  \/ x.is = "file" /\ IsFile(Arg) /\ Arg = x.word /\ end = taken + 1
  \/ x.is = "rest" /\ ~IsFile(Arg) /\ Arg = DASHES /\ end = taken + 1 + Len(x.words)
  \/ x.is \in {"flag", "value", "junk"} /\ ~IsFile(Arg) /\ Arg # DASHES /\ SeesOption(x, end)

LEMMA DashesIsNoFile == IsPrefix(STDIN, DASHES) /\ STDIN # DASHES
<1>1. DASHES \in Seq({DASH}) /\ DASHES # <<>> /\ DASHES[1] = DASH /\ Len(DASHES) = 2 /\ Len(STDIN) = 1
  BY DEF DASHES, STDIN
<1>2. IsPrefix(STDIN, DASHES)
  <2> DEFINE C == {DASH}
  <2>1. DASHES \in Seq(C)
    BY <1>1
  <2> HIDE DEF C
  <2> QED
    BY <1>1, <2>1, BeginsWithOne DEF STDIN
<1> QED
  BY <1>1, <1>2

LEMMA NextItem ==
  ASSUME OneLine, NEW n \in 0 .. Len(meant), taken = Offset(meant, n), ~files_only, Remain
  PROVE  n \in 0 .. Len(meant) - 1 /\ Sees(meant[n + 1], Offset(meant, n + 1))
<1>0. meant \in CommandLines /\ crcArgv = Render(meant) /\ Len(meant) \in Nat
  BY LineItems DEF OneLine
<1>1. n \in 0 .. Len(meant) - 1
  <2>1. n = Len(meant) => taken = Len(crcArgv)
    BY <1>0, BeforeMore DEF Offset
  <2>2. taken # Len(crcArgv)
    BY <1>0, OffsetsGrow DEF Remain
  <2> QED
    BY <1>0, <2>1, <2>2
<1> DEFINE x == meant[n + 1]
           w == WordsOf(x)
           end == Offset(meant, n + 1)
<1>2. IsItem(x) /\ (EndsLine(x) => n + 1 = Len(meant)) /\ n + 1 \in 1 .. Len(meant)
  BY <1>0, <1>1, LineItems
<1>3. w \in Seq(Letter) /\ Len(w) \in Nat \ {0}
  BY <1>2, ItemWords
<1>4. /\ taken \in Nat /\ end <= Len(crcArgv) /\ Len(crcArgv) \in Nat /\ end = taken + Len(w)
      /\ \A j \in 1 .. Len(w) : crcArgv[taken + j] = w[j]
  BY <1>0, <1>1, NextWords
<1>5. Arg = w[1] /\ (Len(w) >= 2 => crcArgv[taken + 2] = w[2] /\ taken + 1 < Len(crcArgv))
  <2>1. 1 \in 1 .. Len(w) /\ (Len(w) >= 2 => 2 \in 1 .. Len(w))
    BY <1>3
  <2> HIDE DEF w, end
  <2> QED
    BY <1>3, <1>4, <2>1 DEF Arg
<1>6. n + 1 = Len(meant) => end = Len(crcArgv)
  BY <1>0, BeforeMore DEF Offset
<1>7. CASE x.is = "file"
  <2>1. w = <<x.word>> /\ (x.word = STDIN \/ ~IsPrefix(STDIN, x.word))
    BY <1>2, <1>7 DEF WordsOf, IsItem
  <2> HIDE DEF x, w, end
  <2>2. Arg = x.word /\ end = taken + 1
    BY <1>4, <1>5, <2>1
  <2>3. IsFile(Arg)
    BY <2>1, <2>2 DEF IsFile
  <2>4. Sees(x, end)
    BY <1>7, <2>2, <2>3 DEF Sees
  <2> QED
    BY <1>1, <2>4 DEF x, end
<1>8. CASE x.is = "rest"
  <2>1. w = <<DASHES>> \o x.words /\ x.words \in Seq(Seq(ArgPieces))
    BY <1>2, <1>8 DEF WordsOf, IsItem
  <2> HIDE DEF x, w, end
  <2>2. Len(w) = 1 + Len(x.words) /\ w[1] = DASHES /\ Len(x.words) \in Nat
    BY <2>1
  <2>a. \A i, j \in Nat : i + (1 + j) = i + 1 + j
    OBVIOUS
  <2>3. Arg = DASHES /\ end = taken + 1 + Len(x.words)
    BY <1>4, <1>5, <2>2, <2>a, Zenon
  <2>4. ~IsFile(Arg)
    BY <2>3, DashesIsNoFile DEF IsFile
  <2>5. Sees(x, end)
    BY <1>8, <2>3, <2>4 DEF Sees
  <2> QED
    BY <1>1, <2>5 DEF x, end
<1>9. ASSUME x.is \in {"flag", "value", "junk"}, IsPrefix(STDIN, w[1]), w[1] # STDIN, w[1] # DASHES,
             SeesOption(x, end)
      PROVE  n \in 0 .. Len(meant) - 1 /\ Sees(x, end)
  <2> HIDE DEF x, w, end
  <2>1. ~IsFile(Arg) /\ Arg # DASHES
    BY <1>5, <1>9 DEF IsFile
  <2> QED
    BY <1>1, <1>9, <2>1 DEF Sees
<1>10. CASE x.is = "flag"
  <2> DEFINE f == x.word
             tail == x.tail
  <2>1. /\ w = <<f \o tail>> /\ f \in Plain /\ tail \in Letter
        /\ IsLong(f) /\ tail # <<>> => tail[1] = EQUALS
    BY <1>2, <1>10, PiecesAreChars DEF WordsOf, IsItem
  <2> HIDE DEF f, tail
  <2>2. w[1] = f \o tail /\ Len(w) = 1 /\ f \in Plain \cup AlgoFlags \cup CheckFlags /\ tail \in Seq(ArgChars)
    BY <2>1 DEF Letter
  <2>a. /\ IsPrefix(STDIN, f \o tail) /\ f \o tail # STDIN /\ f \o tail # DASHES
        /\ SplitFlag(f \o tail) = [flag |-> f, attached |-> IF tail = <<>> THEN NoValue ELSE StripEquals(tail)]
    BY <2>1, <2>2, FlagWord
  <2>3. IsPrefix(STDIN, w[1]) /\ w[1] # STDIN /\ w[1] # DASHES /\ SplitFlag(w[1]).flag = f
    BY <2>2, <2>a
  <2>4. TheFlag = f
    BY <1>5, <2>3 DEF TheFlag
  <2>5. SeesOption(x, end)
    BY <1>4, <1>10, <2>1, <2>2, <2>4 DEF SeesOption, f
  <2> QED
    BY <1>9, <1>10, <2>3, <2>5
<1>11. CASE x.is = "value"
  <2> DEFINE f == x.flag
             v == x.value
  <2>1. /\ f \in AlgoFlags \cup CheckFlags /\ v \in Letter /\ v # NoValue
        /\ f \in AlgoFlags => IsSpec(v)
        /\ x.attach \in {"next", "=", "glued"}
        /\ x.attach = "glued" => ~IsLong(f) /\ v # <<>> /\ v[1] # EQUALS
        /\ x.attach = "next" => w = <<f, v>>
        /\ x.attach = "=" => w = <<f \o <<EQUALS>> \o v>>
        /\ x.attach = "glued" => w = <<f \o v>>
    BY <1>2, <1>11, PiecesAreChars DEF WordsOf, IsItem
  <2> HIDE DEF f, v
  <2>a. f \in Plain \cup AlgoFlags \cup CheckFlags /\ f \in Letter
    BY <2>1, FlagIsWord
  <2>v. v \in Seq(ArgChars) /\ f \in Seq(ArgChars) /\ EQUALS \in ArgChars
    BY <2>1, <2>a, PunctuationApart DEF Letter
  <2>2. ASSUME NEW tail \in Seq(ArgChars), w = <<f \o tail>>, tail # <<>>, StripEquals(tail) = v,
               IsLong(f) => tail[1] = EQUALS
        PROVE  n \in 0 .. Len(meant) - 1 /\ Sees(x, end)
    <3>1. w[1] = f \o tail /\ Len(w) = 1
      BY <2>2
    <3>2. /\ IsPrefix(STDIN, w[1]) /\ w[1] # STDIN /\ w[1] # DASHES
          /\ SplitFlag(w[1]) = [flag |-> f, attached |-> v]
      BY <2>2, <2>a, <3>1, FlagWord
    <3>3. TheFlag = f /\ Attached = v
      BY <1>5, <3>2 DEF TheFlag, Attached
    <3>4. Given /\ ValueFor = v /\ Consumed = 1
      BY <2>1, <3>3 DEF Given, ValueFor, Consumed
    <3>5. SeesOption(x, end)
      BY <1>4, <1>11, <2>1, <3>1, <3>3, <3>4 DEF SeesOption, f, v
    <3> QED
      BY <1>9, <1>11, <3>2, <3>5
  <2>3. CASE x.attach = "next"
    <3>1. w[1] = f /\ w[2] = v /\ Len(w) = 2
      BY <2>1, <2>3
    <3>2. f \o <<>> = f /\ <<>> \in Seq(ArgChars)
      BY <2>v
    <3>3. /\ IsPrefix(STDIN, f) /\ f # STDIN /\ f # DASHES
          /\ SplitFlag(f) = [flag |-> f, attached |-> NoValue]
      <4> DEFINE tail == <<>>
      <4>1. tail \in Seq(ArgChars) /\ tail = <<>> /\ f \o tail = f
        BY <3>2
      <4> HIDE DEF tail
      <4>2. LET word == f \o tail
            IN  /\ word \in Seq(ArgChars) /\ IsPrefix(STDIN, word) /\ word # STDIN /\ word # DASHES
                /\ SplitFlag(word) = [flag |-> f, attached |-> IF tail = <<>> THEN NoValue ELSE StripEquals(tail)]
        BY <2>a, <4>1, FlagWord
      <4> QED
        BY <4>1, <4>2, Zenon
    <3>4. TheFlag = f /\ Attached = NoValue
      BY <1>5, <3>1, <3>3 DEF TheFlag, Attached
    <3>5. Given /\ ValueFor = v /\ Consumed = 2
      BY <1>5, <3>1, <3>4 DEF Given, ValueFor, Consumed
    <3>6. SeesOption(x, end)
      BY <1>4, <1>11, <2>1, <3>1, <3>4, <3>5 DEF SeesOption, f, v
    <3> QED
      BY <1>9, <1>11, <3>1, <3>3, <3>6
  <2>4. CASE x.attach = "="
    <3> DEFINE tail == <<EQUALS>> \o v
    <3>1. tail \in Seq(ArgChars) /\ tail # <<>> /\ tail[1] = EQUALS /\ f \o <<EQUALS>> \o v = f \o tail
      BY <2>v
    <3>2. StripEquals(tail) = v
      BY <2>v, StripEqualsOf
    <3>3. w = <<f \o tail>>
      BY <2>1, <2>4, <3>1, Zenon
    <3> HIDE DEF tail
    <3> QED
      BY <2>2, <3>1, <3>2, <3>3
  <2>5. CASE x.attach = "glued"
    <3>1. StripEquals(v) = v
      BY <2>1, <2>5, <2>v, StripEqualsOf
    <3> QED
      BY <2>1, <2>2, <2>5, <2>v, <3>1
  <2> QED
    BY <2>1, <2>3, <2>4, <2>5
<1>12. CASE x.is = "junk"
  <2> DEFINE split == SplitFlag(w[1])
             v == IF split.attached # NoValue THEN split.attached ELSE w[2]
  <2>1. /\ w = x.words
        /\ IsPrefix(STDIN, w[1]) /\ w[1] \notin {STDIN, DASHES}
        /\ \/ split.flag \notin FlagItems
           \/ /\ split.flag \in AlgoFlags \cup CheckFlags
              /\ split.attached = NoValue /\ Len(w) = 1
           \/ /\ split.flag \in AlgoFlags
              /\ split.attached # NoValue \/ Len(w) > 1
              /\ ~IsSpec(v)
    BY <1>2, <1>12 DEF WordsOf, IsItem, IsJunk, FlagItems
  <2>2. split.flag \in AlgoFlags \cup CheckFlags /\ split.attached = NoValue /\ Len(w) = 1 => n + 1 = Len(meant)
    BY <1>2, <1>12, <2>1 DEF EndsLine
  <2>3. TheFlag = split.flag /\ Attached = split.attached
    BY <1>5 DEF TheFlag, Attached
  <2> HIDE DEF split, w, end, x
  <2>4. Refused
    <3>1. CASE split.flag \notin FlagItems
      BY <2>3, <3>1 DEF Refused
    <3>2. CASE split.flag \in AlgoFlags \cup CheckFlags /\ split.attached = NoValue /\ Len(w) = 1
      <4>1. taken + 1 = Len(crcArgv)
        BY <1>4, <1>6, <2>2, <3>2
      <4>2. ~Given
        BY <1>4, <2>3, <3>2, <4>1 DEF Given
      <4> QED
        BY <2>3, <3>2, <4>2 DEF Refused
    <3>3. CASE split.flag \in AlgoFlags /\ (split.attached # NoValue \/ Len(w) > 1) /\ ~IsSpec(v)
      <4>1. Len(w) > 1 => Len(w) >= 2
        BY <1>3
      <4>2. Given
        BY <1>5, <2>3, <3>3, <4>1 DEF Given
      <4>3. ValueFor = v
        BY <1>5, <2>3, <3>3, <4>1 DEF ValueFor
      <4> HIDE DEF v
      <4> QED
        BY <2>3, <3>3, <4>2, <4>3 DEF Refused
    <3> QED
      BY <2>1, <3>1, <3>2, <3>3
  <2>5. SeesOption(x, end)
    BY <1>12, <2>4 DEF SeesOption
  <2>6. w[1] # STDIN /\ w[1] # DASHES /\ x.is \in {"flag", "value", "junk"}
    BY <1>12, <2>1
  <2> QED
    BY <1>9, <2>1, <2>5, <2>6, Zenon DEF x, end
<1> QED
  <2>1. x.is \in {"file", "flag", "value", "junk", "rest"}
    BY <1>2, ItemWords
  <2> HIDE DEF x
  <2> QED
    BY <1>7, <1>8, <1>10, <1>11, <1>12, <2>1 DEF x

LEMMA ArgsInvInit == ArgsInit => ArgsInv
<1> SUFFICES ASSUME ArgsInit PROVE ArgsInv
  OBVIOUS
<1>0. meant \in CommandLines /\ crcArgv = Render(meant) /\ OneLine
  BY DEF ArgsInit, OneLine
<1>1. Len(meant) \in Nat /\ Before(meant, 0) = <<>>
  BY <1>0, LineItems, BeforeMore
<1>2. Dedupe(<<>>) = <<>>
  BY Pushes!FoldEmpty DEF Dedupe
<1>3. OptionsOf(<<>>)
  BY <1>2, MeaningNone, GatheredNone, FlagsApart DEF ArgsInit, OptionsOf, MeantMode, MeansAll, FlagItems
<1>4. Len(<<>>) = 0
  OBVIOUS
<1>5. Offset(meant, 0) = 0
  BY <1>1, <1>4, GatheredNone, Zenon DEF Offset
<1>6. InLine(0)
  BY <1>1, <1>3, <1>5, GatheredNone DEF ArgsInit, InLine
<1>7. parsed = "parsing"
  BY DEF ArgsInit
<1>8. MeansWhatItSays
  BY <1>7 DEF MeansWhatItSays
<1> QED
  BY <1>0, <1>1, <1>6, <1>7, <1>8 DEF ArgsInv

(* Where the parser is, and what it sees there. *)
LEMMA Place ==
  ASSUME ArgsInv, parsed = "parsing", Remain
  PROVE  \/ \E n \in 0 .. Len(meant) - 1 :
              InLine(n) /\ Sees(meant[n + 1], Offset(meant, n + 1)) /\ IsItem(meant[n + 1])
         \/ \E m \in Nat : InRest(m) /\ m < Len(LastItem.words) /\ Arg = LastItem.words[m + 1]
<1>0. OneLine /\ meant \in CommandLines /\ crcArgv = Render(meant) /\ Len(meant) \in Nat
  BY LineItems DEF ArgsInv, OneLine
<1>1. CASE \E n \in 0 .. Len(meant) : InLine(n)
  <2>1. PICK n \in 0 .. Len(meant) : InLine(n)
    BY <1>1
  <2>2. taken = Offset(meant, n) /\ ~files_only
    BY <2>1 DEF InLine
  <2>3. n \in 0 .. Len(meant) - 1 /\ Sees(meant[n + 1], Offset(meant, n + 1))
    BY <1>0, <2>2, NextItem
  <2>4. n + 1 \in 1 .. Len(meant)
    BY <1>0, <2>3
  <2>5. IsItem(meant[n + 1])
    BY <1>0, <2>4, LineItems
  <2> QED
    BY <2>1, <2>3, <2>5
<1>2. CASE \E m \in Nat : InRest(m)
  <2>1. PICK m \in Nat : InRest(m)
    BY <1>2
  <2> DEFINE n == Len(meant) - 1
             x == meant[n + 1]
             w == WordsOf(x)
  <2>2. /\ Len(meant) >= 1 /\ LastItem.is = "rest" /\ m \in 0 .. Len(LastItem.words)
        /\ taken = Offset(meant, n) + 1 + m
    BY <2>1 DEF InRest
  <2>3. n \in 0 .. Len(meant) - 1 /\ n + 1 = Len(meant) /\ x = LastItem
    BY <1>0, <2>2 DEF LastItem
  <2>4. IsItem(x)
    BY <1>0, <2>2, <2>3, LineItems
  <2> HIDE DEF n
  <2>5. /\ Offset(meant, n) \in Nat
        /\ Offset(meant, n + 1) = Offset(meant, n) + Len(w)
        /\ \A j \in 1 .. Len(w) : crcArgv[Offset(meant, n) + j] = w[j]
    BY <1>0, <2>3, NextWords
  <2>6. Offset(meant, n + 1) = Len(crcArgv)
    BY <1>0, <2>3, BeforeMore DEF Offset
  <2>7. w = <<DASHES>> \o x.words /\ x.words \in Seq(Seq(ArgPieces))
    BY <2>2, <2>3, <2>4 DEF WordsOf, IsItem
  <2> HIDE DEF x, w
  <2>8. Len(w) = 1 + Len(x.words) /\ Len(x.words) \in Nat /\ \A j \in 1 .. Len(x.words) : w[1 + j] = x.words[j]
    BY <2>7
  <2>9. m < Len(x.words)
    BY <2>2, <2>5, <2>6, <2>8 DEF Remain
  <2>10. crcArgv[Offset(meant, n) + (m + 2)] = x.words[m + 1]
    <3>1. m + 2 \in 1 .. Len(w) /\ m + 1 \in 1 .. Len(x.words) /\ 1 + (m + 1) = m + 2
      BY <2>8, <2>9
    <3> QED
      BY <2>5, <2>8, <3>1
  <2>11. taken + 1 = Offset(meant, n) + (m + 2)
    BY <2>2, <2>5
  <2>12. Arg = x.words[m + 1]
    BY <2>10, <2>11 DEF Arg
  <2> QED
    BY <2>1, <2>3, <2>9, <2>12
<1> QED
  BY <1>1, <1>2 DEF ArgsInv

LEMMA TakeFileKept == ArgsInv /\ TakeFile => ArgsInv'
<1> SUFFICES ASSUME ArgsInv, TakeFile PROVE ArgsInv'
  OBVIOUS
<1>0. /\ Remain /\ parsed = "parsing" /\ parsed' = "parsing" /\ IsFile(Arg)
      /\ meant' = meant /\ crcArgv' = crcArgv /\ mode' = mode /\ requested' = requested
      /\ all' = all /\ check' = check /\ hex' = hex /\ files_only' = files_only
      /\ files' = Append(files, Arg) /\ taken' = taken + 1
  BY DEF TakeFile, Remain
<1>1. OneLine /\ meant \in CommandLines /\ Len(meant) \in Nat /\ OneLine'
  BY <1>0, LineItems DEF ArgsInv, OneLine
<1>2. MeansWhatItSays'
  BY <1>0 DEF MeansWhatItSays
<1>3. ASSUME NEW n \in 0 .. Len(meant) - 1, InLine(n), Sees(meant[n + 1], Offset(meant, n + 1))
      PROVE  \E i \in 0 .. Len(meant') : InLine(i)'
  <2>l. PICK line : line = meant
    OBVIOUS
  <2> DEFINE x == line[n + 1]
             a == Before(line, n)
             b == Before(line, n + 1)
  <2>1. x.is = "file" /\ Arg = x.word /\ Offset(meant, n + 1) = taken + 1
    BY <1>0, <1>3, <2>l DEF Sees
  <2>2. FilesOf(x) = <<x.word>> /\ AlgosIn(x) = <<>>
    BY <2>1 DEF FilesOf, AlgosIn
  <2>3. /\ MeantFiles(b) = MeantFiles(a) \o FilesOf(x)
        /\ MeantAlgos(b) = MeantAlgos(a) \o AlgosIn(x)
        /\ \A flags : LastFlag(b, flags) = IF x.is = "flag" /\ x.word \in flags THEN x.word
                                           ELSE LastFlag(a, flags)
        /\ MeantCheck(b) = IF x.is = "value" /\ x.flag \in CheckFlags THEN x.value ELSE MeantCheck(a)
        /\ HasJunk(b) <=> HasJunk(a) \/ x.is = "junk"
        /\ MeantFiles(a) \in Seq(Letter) /\ MeantAlgos(a) \in Seq(AllAlgos)
    BY <1>1, <2>l, NextMeaning
  <2> HIDE DEF x, a, b
  <2>4. /\ MeantAlgos(b) = MeantAlgos(a) /\ MeantCheck(b) = MeantCheck(a) /\ (HasJunk(b) <=> HasJunk(a))
        /\ \A flags : LastFlag(b, flags) = LastFlag(a, flags)
    BY <2>1, <2>2, <2>3
  <2>5. MeantMode(b) = MeantMode(a) /\ (MeansAll(b) <=> MeansAll(a))
    BY <2>4 DEF MeantMode, MeansAll
  <2>6. OptionsOf(a) /\ files = MeantFiles(a) /\ ~files_only
    BY <1>3, <2>l DEF InLine, a
  <2>7. OptionsOf(b)'
    BY <1>0, <2>4, <2>5, <2>6 DEF OptionsOf
  <2>8. files' = MeantFiles(b)
    <3>1. \A s \in Seq(Letter) : \A e : Append(s, e) = s \o <<e>>
      OBVIOUS
    <3> QED
      BY <1>0, <2>1, <2>2, <2>3, <2>6, <3>1, Zenon
  <2>9. InLine(n + 1)'
    BY <1>0, <2>l, <2>1, <2>6, <2>7, <2>8 DEF InLine, b
  <2>10. n + 1 \in 0 .. Len(meant')
    BY <1>0, <1>1
  <2> QED
    BY <2>9, <2>10
<1>4. ASSUME NEW m \in Nat, InRest(m), m < Len(LastItem.words), Arg = LastItem.words[m + 1]
      PROVE  InRest(m + 1)'
  <2> DEFINE ws == LastItem.words
  <2>1. /\ Len(meant) >= 1 /\ LastItem.is = "rest" /\ files_only
        /\ taken = Offset(meant, Len(meant) - 1) + 1 + m
        /\ files = MeantFiles(InFront) \o SubSeq(ws, 1, m) /\ OptionsOf(meant)
    BY <1>4 DEF InRest
  <2>2. ws \in Seq(Letter) /\ MeantFiles(InFront) \in Seq(Letter) /\ Offset(meant, Len(meant) - 1) \in Nat
    <3> DEFINE n == Len(meant) - 1
    <3>1. n \in 0 .. Len(meant) - 1 /\ n + 1 = Len(meant)
      BY <1>1, <2>1
    <3> HIDE DEF n
    <3>2. IsItem(meant[n + 1]) /\ MeantFiles(Before(meant, n)) \in Seq(Letter)
      BY <1>1, <3>1, NextMeaning
    <3>3. ws \in Seq(Seq(ArgPieces))
      BY <2>1, <3>1, <3>2 DEF IsItem, LastItem
    <3>4. Offset(meant, n) \in Nat
      BY <1>1, <3>1, NextWords
    <3> QED
      BY <3>2, <3>3, <3>4, PiecesAreChars DEF InFront, n
  <2> HIDE DEF ws
  <2>3. Append(MeantFiles(InFront) \o SubSeq(ws, 1, m), ws[m + 1]) = MeantFiles(InFront) \o SubSeq(ws, 1, m + 1)
    <3> DEFINE u == MeantFiles(InFront)
               v == SubSeq(ws, 1, m)
    <3>1. SubSeq(ws, 1, m + 1) = Append(v, ws[m + 1]) /\ v \in Seq(Letter) /\ ws[m + 1] \in Letter /\ u \in Seq(Letter)
      BY <1>4, <2>2 DEF ws
    <3> HIDE DEF u, v
    <3>2. \A p, q \in Seq(Letter), e \in Letter : Append(p \o q, e) = p \o Append(q, e)
      <4> TAKE p \in Seq(Letter), q \in Seq(Letter), e \in Letter
      <4> HIDE DEF Letter
      <4> QED
        OBVIOUS
    <3> QED
      BY <3>1, <3>2 DEF u, v
  <2>4. files' = MeantFiles(InFront) \o SubSeq(ws, 1, m + 1)
    BY <1>0, <1>4, <2>1, <2>3 DEF ws
  <2>5. taken' = Offset(meant, Len(meant) - 1) + 1 + (m + 1)
    BY <1>0, <2>1, <2>2
  <2>6. LastItem' = LastItem /\ InFront' = InFront /\ Len(meant') = Len(meant)
    BY <1>0 DEF LastItem, InFront
  <2>7. OptionsOf(meant)'
    BY <1>0, <2>1 DEF OptionsOf
  <2>8. m + 1 \in 0 .. Len(ws)
    BY <1>4, <2>2 DEF ws
  <2> QED
    BY <1>0, <2>1, <2>4, <2>5, <2>6, <2>7, <2>8 DEF InRest, ws
<1>5. (\E i \in 0 .. Len(meant') : InLine(i)') \/ (\E m \in Nat : InRest(m)')
  <2>1. \A m \in Nat : m + 1 \in Nat
    OBVIOUS
  <2> QED
    BY <1>0, <1>3, <1>4, <2>1, Place
<1> QED
  BY <1>0, <1>1, <1>2, <1>5 DEF ArgsInv

LEMMA OptionPlace ==
  ASSUME ArgsInv, IsOption
  PROVE  \E n \in 0 .. Len(meant) - 1 :
           /\ InLine(n) /\ IsItem(meant[n + 1])
           /\ SeesOption(meant[n + 1], Offset(meant, n + 1))
<1>1. parsed = "parsing" /\ Remain /\ ~IsFile(Arg) /\ Arg # DASHES
  BY DEF IsOption, Remain
<1>2. \A m : ~InRest(m)
  BY <1>1 DEF InRest, IsFile
<1>3. PICK n \in 0 .. Len(meant) - 1 :
        InLine(n) /\ Sees(meant[n + 1], Offset(meant, n + 1)) /\ IsItem(meant[n + 1])
  BY <1>1, <1>2, Place
<1>4. SeesOption(meant[n + 1], Offset(meant, n + 1))
  BY <1>1, <1>3 DEF Sees
<1> QED
  BY <1>3, <1>4

LEMMA TakeDashesKept == ArgsInv /\ TakeDashes => ArgsInv'
<1> SUFFICES ASSUME ArgsInv, TakeDashes PROVE ArgsInv'
  OBVIOUS
<1>0. /\ Remain /\ parsed = "parsing" /\ parsed' = "parsing" /\ ~IsFile(Arg) /\ Arg = DASHES
      /\ meant' = meant /\ crcArgv' = crcArgv /\ mode' = mode /\ requested' = requested
      /\ all' = all /\ check' = check /\ hex' = hex /\ files_only' = TRUE
      /\ files' = files /\ taken' = taken + 1
  BY DEF TakeDashes, Remain
<1>1. OneLine /\ meant \in CommandLines /\ Len(meant) \in Nat /\ OneLine'
  BY <1>0, LineItems DEF ArgsInv, OneLine
<1>2. MeansWhatItSays'
  BY <1>0 DEF MeansWhatItSays
<1>3. \A m : ~InRest(m)
  BY <1>0 DEF InRest, IsFile
<1>4. PICK n \in 0 .. Len(meant) - 1 :
        InLine(n) /\ Sees(meant[n + 1], Offset(meant, n + 1)) /\ IsItem(meant[n + 1])
  BY <1>0, <1>3, Place
<1>l. PICK line : line = meant
  OBVIOUS
<1> DEFINE x == line[n + 1]
           a == Before(line, n)
<1>5. x.is = "rest"
  BY <1>0, <1>4, <1>l DEF Sees
<1>6. n + 1 = Len(line) /\ Len(line) \in Nat /\ x.words \in Seq(Seq(ArgPieces))
  <2>1. n + 1 \in 1 .. Len(line) /\ line \in CommandLines
    BY <1>1, <1>l
  <2>2. EndsLine(x)
    BY <1>5 DEF EndsLine
  <2>3. x.words \in Seq(Seq(ArgPieces))
    BY <1>4, <1>5, <1>l DEF IsItem
  <2> QED
    BY <1>1, <1>l, <2>1, <2>2, <2>3, LineItems
<1>7. FilesOf(x) = x.words /\ AlgosIn(x) = <<>>
  BY <1>5 DEF FilesOf, AlgosIn
<1>8. Before(line, n + 1) = line
  BY <1>1, <1>6, <1>l, BeforeMore
<1>9. /\ MeantAlgos(line) = MeantAlgos(a) \o AlgosIn(x)
      /\ \A flags : LastFlag(line, flags) = IF x.is = "flag" /\ x.word \in flags THEN x.word
                                            ELSE LastFlag(a, flags)
      /\ MeantCheck(line) = IF x.is = "value" /\ x.flag \in CheckFlags THEN x.value ELSE MeantCheck(a)
      /\ HasJunk(line) <=> HasJunk(a) \/ x.is = "junk"
      /\ MeantFiles(a) \in Seq(Letter) /\ MeantAlgos(a) \in Seq(AllAlgos)
  <2> DEFINE b == Before(line, n + 1)
  <2>1. line \in CommandLines /\ n \in 0 .. Len(line) - 1
    BY <1>1, <1>l
  <2>2. /\ MeantAlgos(b) = MeantAlgos(a) \o AlgosIn(x)
        /\ \A flags : LastFlag(b, flags) = IF x.is = "flag" /\ x.word \in flags THEN x.word
                                           ELSE LastFlag(a, flags)
        /\ MeantCheck(b) = IF x.is = "value" /\ x.flag \in CheckFlags THEN x.value ELSE MeantCheck(a)
        /\ HasJunk(b) <=> HasJunk(a) \/ x.is = "junk"
        /\ MeantFiles(a) \in Seq(Letter) /\ MeantAlgos(a) \in Seq(AllAlgos)
    BY <2>1, NextMeaning
  <2>3. b = line
    BY <1>8
  <2> HIDE DEF a, b, x
  <2> QED
    BY <2>2, <2>3
<1> HIDE DEF x, a
<1>10. /\ MeantAlgos(line) = MeantAlgos(a) /\ MeantCheck(line) = MeantCheck(a)
       /\ HasJunk(line) <=> HasJunk(a)
       /\ \A flags : LastFlag(line, flags) = LastFlag(a, flags)
  BY <1>5, <1>7, <1>9
<1>11. MeantMode(line) = MeantMode(a) /\ (MeansAll(line) <=> MeansAll(a))
  BY <1>10 DEF MeantMode, MeansAll
<1>12. OptionsOf(a) /\ files = MeantFiles(a) /\ taken = Offset(line, n)
  BY <1>4, <1>l DEF InLine, a
<1>13. OptionsOf(line)'
  BY <1>0, <1>10, <1>11, <1>12 DEF OptionsOf
<1>14. LastItem' = x /\ InFront' = a /\ Len(meant') - 1 = n /\ Len(meant') >= 1 /\ n \in Nat
  <2>1. Len(line) - 1 = n /\ Len(line) >= 1 /\ n \in Nat
    BY <1>6, <1>l
  <2> QED
    BY <1>0, <1>6, <1>l, <2>1 DEF LastItem, InFront, x, a
<1>15. files' = MeantFiles(a) \o SubSeq(x.words, 1, 0)
  BY <1>0, <1>6, <1>9, <1>12
<1>16. taken' = Offset(line, n) + 1 + 0
  <2>1. Offset(line, n) \in Nat
    BY <1>1, <1>l, NextWords
  <2> QED
    BY <1>0, <1>12, <2>1
<1>17. 0 \in 0 .. Len(x.words)
  BY <1>6
<1>18. InRest(0)'
  <2>1. OptionsOf(meant)'
    BY <1>0, <1>l, <1>13
  <2> QED
    BY <1>0, <1>l, <1>5, <2>1, <1>14, <1>15, <1>16, <1>17 DEF InRest
<1> QED
  BY <1>0, <1>1, <1>2, <1>18 DEF ArgsInv

LEMMA TakePlainKept == ArgsInv /\ TakePlain => ArgsInv'
<1> SUFFICES ASSUME ArgsInv, TakePlain PROVE ArgsInv'
  OBVIOUS
<1>0. /\ IsOption /\ TheFlag \in Plain /\ parsed = "parsing" /\ parsed' = "parsing"
      /\ meant' = meant /\ crcArgv' = crcArgv /\ requested' = requested
      /\ check' = check /\ files_only' = files_only /\ files' = files /\ taken' = taken + 1
      /\ mode' = IF TheFlag \in Informational THEN ModeOf(TheFlag) ELSE mode
      /\ all' = (all \/ TheFlag = Long("all"))
      /\ hex' = CASE TheFlag = Long("hex") -> TRUE
                  [] TheFlag = Long("dec") -> FALSE
                  [] OTHER -> hex
  BY DEF TakePlain, IsOption, Remain
<1>1. OneLine /\ meant \in CommandLines /\ Len(meant) \in Nat /\ OneLine'
  BY <1>0, LineItems DEF ArgsInv, OneLine
<1>2. MeansWhatItSays'
  BY <1>0 DEF MeansWhatItSays
<1>4. PICK n \in 0 .. Len(meant) - 1 :
        InLine(n) /\ SeesOption(meant[n + 1], Offset(meant, n + 1))
  BY <1>0, OptionPlace
<1>l. PICK line : line = meant
  OBVIOUS
<1> DEFINE x == line[n + 1]
           a == Before(line, n)
           b == Before(line, n + 1)
<1>5. x.is = "flag" /\ TheFlag = x.word /\ x.word \in Plain /\ Offset(line, n + 1) = taken + 1
  BY <1>0, <1>4, <1>l, FlagsApart DEF SeesOption, Refused, FlagItems
<1>7. FilesOf(x) = <<>> /\ AlgosIn(x) = <<>>
  BY <1>5 DEF FilesOf, AlgosIn
<1>9. /\ MeantFiles(b) = MeantFiles(a) \o FilesOf(x)
      /\ MeantAlgos(b) = MeantAlgos(a) \o AlgosIn(x)
      /\ \A flags : LastFlag(b, flags) = IF x.is = "flag" /\ x.word \in flags THEN x.word
                                         ELSE LastFlag(a, flags)
      /\ MeantCheck(b) = IF x.is = "value" /\ x.flag \in CheckFlags THEN x.value ELSE MeantCheck(a)
      /\ HasJunk(b) <=> HasJunk(a) \/ x.is = "junk"
      /\ MeantFiles(a) \in Seq(Letter) /\ MeantAlgos(a) \in Seq(AllAlgos)
  BY <1>1, <1>l, NextMeaning
<1> HIDE DEF x, a, b
<1>10. /\ MeantAlgos(b) = MeantAlgos(a) /\ MeantFiles(b) = MeantFiles(a)
       /\ MeantCheck(b) = MeantCheck(a) /\ (HasJunk(b) <=> HasJunk(a))
       /\ \A flags : LastFlag(b, flags) = IF x.word \in flags THEN x.word ELSE LastFlag(a, flags)
  BY <1>5, <1>7, <1>9
<1>11. /\ MeantMode(b) = IF x.word \in Informational THEN ModeOf(x.word) ELSE MeantMode(a)
       /\ MeansAll(b) <=> MeansAll(a) \/ x.word = Long("all")
       /\ LastFlag(b, DecHex) # Long("dec") <=>
            x.word # Long("dec") /\ (x.word = Long("hex") \/ LastFlag(a, DecHex) # Long("dec"))
  <2>1. x.word # NoValue
    BY <1>5, FlagsApart DEF FlagItems
  <2>2. MeantMode(b) = IF x.word \in Informational THEN ModeOf(x.word) ELSE MeantMode(a)
    BY <1>10, <2>1 DEF MeantMode
  <2>3. MeansAll(b) <=> MeansAll(a) \/ x.word = Long("all")
    BY <1>10, <2>1 DEF MeansAll
  <2>4. LastFlag(b, DecHex) # Long("dec") <=>
          x.word # Long("dec") /\ (x.word = Long("hex") \/ LastFlag(a, DecHex) # Long("dec"))
    <3>1. x.word \in DecHex <=> x.word = Long("hex") \/ x.word = Long("dec")
      BY DEF DecHex
    <3> QED
      BY <1>10, <3>1, FlagsApart
  <2> QED
    BY <2>2, <2>3, <2>4
<1>12. OptionsOf(a) /\ files = MeantFiles(a) /\ ~files_only
  BY <1>4, <1>l DEF InLine, a
<1>13. OptionsOf(b)'
  <2>1. ~HasJunk(b) /\ check' = MeantCheck(b) /\ requested' = Dedupe(MeantAlgos(b))
    BY <1>0, <1>10, <1>12 DEF OptionsOf
  <2>2. mode' = MeantMode(b)
    BY <1>0, <1>5, <1>11, <1>12 DEF OptionsOf
  <2>3. all' <=> MeansAll(b)
    BY <1>0, <1>5, <1>11, <1>12, Zenon DEF OptionsOf
  <2>4. hex' <=> LastFlag(b, DecHex) # Long("dec")
    <3>1. CASE x.word = Long("hex")
      BY <1>0, <1>5, <1>11, <3>1, FlagsApart
    <3>2. CASE x.word = Long("dec")
      BY <1>0, <1>5, <1>11, <3>2, FlagsApart
    <3>3. CASE x.word # Long("hex") /\ x.word # Long("dec")
      <4>1. hex' = hex
        BY <1>0, <1>5, <3>3
      <4>2. hex <=> LastFlag(a, DecHex) # Long("dec")
        BY <1>12 DEF OptionsOf
      <4> QED
        BY <1>11, <3>3, <4>1, <4>2, Zenon
    <3> QED
      BY <3>1, <3>2, <3>3
  <2> QED
    BY <2>1, <2>2, <2>3, <2>4 DEF OptionsOf
<1>14. InLine(n + 1)'
  BY <1>0, <1>l, <1>5, <1>10, <1>12, <1>13 DEF InLine, b
<1>15. n + 1 \in 0 .. Len(meant')
  BY <1>0, <1>1
<1> QED
  BY <1>0, <1>1, <1>2, <1>14, <1>15 DEF ArgsInv

(* The algorithms of a list, pushed. *)
LEMMA PushedDedupe ==
  ASSUME NEW s \in Seq(AllAlgos), NEW spec, AlgosOf(spec) \in Seq(AllAlgos)
  PROVE  PushAlgos(spec, Dedupe(s)) = Dedupe(s \o AlgosOf(spec))
<1>1. PushAlgos(spec, Dedupe(s)) = Pushes!Fold(0, Dedupe(s), AlgosOf(spec))
  BY PushFold
<1> DEFINE t == AlgosOf(spec)
<1>2. t \in Seq(AllAlgos)
  OBVIOUS
<1> HIDE DEF t
<1>3. Pushes!Fold(0, <<>>, s \o t) = Pushes!Fold(0, Pushes!Fold(0, <<>>, s), t)
  BY <1>2, Pushes!FoldConcat
<1> QED
  BY <1>1, <1>3 DEF Dedupe, t

LEMMA TakeAlgoKept == ArgsInv /\ TakeAlgo => ArgsInv'
<1> SUFFICES ASSUME ArgsInv, TakeAlgo PROVE ArgsInv'
  OBVIOUS
<1>0. /\ IsOption /\ TheFlag \in AlgoFlags /\ Given /\ IsSpec(ValueFor)
      /\ parsed = "parsing" /\ parsed' = "parsing"
      /\ meant' = meant /\ crcArgv' = crcArgv /\ mode' = mode /\ all' = all /\ hex' = hex
      /\ check' = check /\ files_only' = files_only /\ files' = files /\ taken' = taken + Consumed
      /\ requested' = PushAlgos(ValueFor, requested)
  BY DEF TakeAlgo, IsOption, Remain
<1>1. OneLine /\ meant \in CommandLines /\ Len(meant) \in Nat /\ OneLine'
  BY <1>0, LineItems DEF ArgsInv, OneLine
<1>2. MeansWhatItSays'
  BY <1>0 DEF MeansWhatItSays
<1>4. PICK n \in 0 .. Len(meant) - 1 :
        /\ InLine(n) /\ IsItem(meant[n + 1])
        /\ SeesOption(meant[n + 1], Offset(meant, n + 1))
  BY <1>0, OptionPlace
<1>l. PICK line : line = meant
  OBVIOUS
<1> DEFINE x == line[n + 1]
           a == Before(line, n)
           b == Before(line, n + 1)
<1>5. /\ x.is = "value" /\ TheFlag = x.flag /\ ValueFor = x.value
      /\ Offset(line, n + 1) = taken + Consumed
  BY <1>0, <1>4, <1>l, FlagsApart DEF SeesOption, Refused, FlagItems
<1>6. x.flag \in AlgoFlags /\ x.flag \notin CheckFlags
  BY <1>0, <1>5, FlagsApart
<1>7. FilesOf(x) = <<>> /\ AlgosIn(x) = AlgosOf(x.value)
  BY <1>5, <1>6 DEF FilesOf, AlgosIn
<1>8. AlgosIn(x) \in Seq(AllAlgos)
  BY <1>4, <1>l, ItemWords
<1>9. /\ MeantFiles(b) = MeantFiles(a) \o FilesOf(x)
      /\ MeantAlgos(b) = MeantAlgos(a) \o AlgosIn(x)
      /\ \A flags : LastFlag(b, flags) = IF x.is = "flag" /\ x.word \in flags THEN x.word
                                         ELSE LastFlag(a, flags)
      /\ MeantCheck(b) = IF x.is = "value" /\ x.flag \in CheckFlags THEN x.value ELSE MeantCheck(a)
      /\ HasJunk(b) <=> HasJunk(a) \/ x.is = "junk"
      /\ MeantFiles(a) \in Seq(Letter) /\ MeantAlgos(a) \in Seq(AllAlgos)
  BY <1>1, <1>l, NextMeaning
<1> HIDE DEF x, a, b
<1>10. /\ MeantFiles(b) = MeantFiles(a)
       /\ MeantCheck(b) = MeantCheck(a) /\ (HasJunk(b) <=> HasJunk(a))
       /\ \A flags : LastFlag(b, flags) = LastFlag(a, flags)
  BY <1>5, <1>6, <1>7, <1>9
<1>11. MeantMode(b) = MeantMode(a) /\ (MeansAll(b) <=> MeansAll(a))
  BY <1>10 DEF MeantMode, MeansAll
<1>12. OptionsOf(a) /\ files = MeantFiles(a) /\ ~files_only
  BY <1>4, <1>l DEF InLine, a
<1>13. requested' = Dedupe(MeantAlgos(b))
  <2>1. requested = Dedupe(MeantAlgos(a))
    BY <1>12 DEF OptionsOf
  <2>2. PushAlgos(x.value, Dedupe(MeantAlgos(a))) = Dedupe(MeantAlgos(a) \o AlgosOf(x.value))
    BY <1>7, <1>8, <1>9, PushedDedupe
  <2> QED
    BY <1>0, <1>5, <1>7, <1>9, <2>1, <2>2, Zenon
<1>14. OptionsOf(b)'
  BY <1>0, <1>10, <1>11, <1>12, <1>13 DEF OptionsOf
<1>15. InLine(n + 1)'
  BY <1>0, <1>l, <1>5, <1>10, <1>12, <1>14 DEF InLine, b
<1>16. n + 1 \in 0 .. Len(meant')
  BY <1>0, <1>1
<1> QED
  BY <1>0, <1>1, <1>2, <1>15, <1>16 DEF ArgsInv

LEMMA TakeCheckKept == ArgsInv /\ TakeCheck => ArgsInv'
<1> SUFFICES ASSUME ArgsInv, TakeCheck PROVE ArgsInv'
  OBVIOUS
<1>0. /\ IsOption /\ TheFlag \in CheckFlags /\ Given
      /\ parsed = "parsing" /\ parsed' = "parsing"
      /\ meant' = meant /\ crcArgv' = crcArgv /\ mode' = mode /\ all' = all /\ hex' = hex
      /\ requested' = requested /\ files_only' = files_only /\ files' = files
      /\ taken' = taken + Consumed /\ check' = ValueFor
  BY DEF TakeCheck, IsOption, Remain
<1>1. OneLine /\ meant \in CommandLines /\ Len(meant) \in Nat /\ OneLine'
  BY <1>0, LineItems DEF ArgsInv, OneLine
<1>2. MeansWhatItSays'
  BY <1>0 DEF MeansWhatItSays
<1>4. PICK n \in 0 .. Len(meant) - 1 :
        InLine(n) /\ SeesOption(meant[n + 1], Offset(meant, n + 1))
  BY <1>0, OptionPlace
<1>l. PICK line : line = meant
  OBVIOUS
<1> DEFINE x == line[n + 1]
           a == Before(line, n)
           b == Before(line, n + 1)
<1>5. /\ x.is = "value" /\ TheFlag = x.flag /\ ValueFor = x.value
      /\ Offset(line, n + 1) = taken + Consumed
  BY <1>0, <1>4, <1>l, FlagsApart DEF SeesOption, Refused, FlagItems
<1>6. x.flag \in CheckFlags /\ x.flag \notin AlgoFlags
  BY <1>0, <1>5, FlagsApart
<1>7. FilesOf(x) = <<>> /\ AlgosIn(x) = <<>>
  BY <1>5, <1>6 DEF FilesOf, AlgosIn
<1>9. /\ MeantFiles(b) = MeantFiles(a) \o FilesOf(x)
      /\ MeantAlgos(b) = MeantAlgos(a) \o AlgosIn(x)
      /\ \A flags : LastFlag(b, flags) = IF x.is = "flag" /\ x.word \in flags THEN x.word
                                         ELSE LastFlag(a, flags)
      /\ MeantCheck(b) = IF x.is = "value" /\ x.flag \in CheckFlags THEN x.value ELSE MeantCheck(a)
      /\ HasJunk(b) <=> HasJunk(a) \/ x.is = "junk"
      /\ MeantFiles(a) \in Seq(Letter) /\ MeantAlgos(a) \in Seq(AllAlgos)
  BY <1>1, <1>l, NextMeaning
<1> HIDE DEF x, a, b
<1>10. /\ MeantFiles(b) = MeantFiles(a) /\ MeantAlgos(b) = MeantAlgos(a)
       /\ MeantCheck(b) = x.value /\ (HasJunk(b) <=> HasJunk(a))
       /\ \A flags : LastFlag(b, flags) = LastFlag(a, flags)
  BY <1>5, <1>6, <1>7, <1>9
<1>11. MeantMode(b) = MeantMode(a) /\ (MeansAll(b) <=> MeansAll(a))
  BY <1>10 DEF MeantMode, MeansAll
<1>12. OptionsOf(a) /\ files = MeantFiles(a) /\ ~files_only
  BY <1>4, <1>l DEF InLine, a
<1>14. OptionsOf(b)'
  BY <1>0, <1>5, <1>10, <1>11, <1>12 DEF OptionsOf
<1>15. InLine(n + 1)'
  BY <1>0, <1>l, <1>5, <1>10, <1>12, <1>14 DEF InLine, b
<1>16. n + 1 \in 0 .. Len(meant')
  BY <1>0, <1>1
<1> QED
  BY <1>0, <1>1, <1>2, <1>15, <1>16 DEF ArgsInv

LEMMA RefuseOptionKept == ArgsInv /\ RefuseOption => ArgsInv'
<1> SUFFICES ASSUME ArgsInv, RefuseOption PROVE ArgsInv'
  OBVIOUS
<1>0. /\ IsOption /\ Refused /\ parsed = "parsing" /\ parsed' = "error"
      /\ meant' = meant /\ crcArgv' = crcArgv
  BY DEF RefuseOption, Refused, FlagItems, IsOption, Remain
<1>1. OneLine /\ meant \in CommandLines /\ Len(meant) \in Nat /\ OneLine'
  BY <1>0, LineItems DEF ArgsInv, OneLine
<1>2. PICK n \in 0 .. Len(meant) - 1 :
        InLine(n) /\ SeesOption(meant[n + 1], Offset(meant, n + 1))
  BY <1>0, OptionPlace
<1>3. meant[n + 1].is = "junk"
  <2>1. TheFlag \in Plain => ~Refused
    BY FlagsApart DEF Refused, FlagItems
  <2>2. ASSUME TheFlag \in AlgoFlags \cup CheckFlags, Given, TheFlag \in AlgoFlags => IsSpec(ValueFor)
        PROVE  ~Refused
    BY <2>2 DEF Refused, FlagItems
  <2> QED
    BY <1>0, <1>2, <2>1, <2>2 DEF SeesOption
<1>4. HasJunk(meant)
  <2>1. n + 1 \in DOMAIN meant
    BY <1>1, LineItems
  <2> QED
    BY <1>3, <2>1 DEF HasJunk
<1>5. HasJunk(meant)'
  BY <1>0, <1>4
<1>6. MeansWhatItSays'
  BY <1>0, <1>5 DEF MeansWhatItSays
<1> QED
  BY <1>0, <1>1, <1>6 DEF ArgsInv

(* All the words are read: the options are what the line meant. *)
LEMMA WholeLineRead ==
  ASSUME ArgsInv, AllTaken
  PROVE  OptionsOf(meant) /\ files = MeantFiles(meant)
<1>0. /\ parsed = "parsing" /\ taken = Len(crcArgv) /\ meant \in CommandLines
      /\ crcArgv = Render(meant) /\ Len(meant) \in Nat
  BY LineItems DEF ArgsInv, AllTaken, OneLine
<1>1. CASE \E n \in 0 .. Len(meant) : InLine(n)
  <2>1. PICK n \in 0 .. Len(meant) : InLine(n)
    BY <1>1
  <2>2. taken = Offset(meant, n) /\ files = MeantFiles(Before(meant, n)) /\ OptionsOf(Before(meant, n))
    BY <2>1 DEF InLine
  <2>3. n = Len(meant)
    <3> SUFFICES ASSUME n # Len(meant) PROVE FALSE
      OBVIOUS
    <3>1. n \in 0 .. Len(meant) - 1 /\ n + 1 \in 1 .. Len(meant)
      BY <1>0
    <3>2. Len(WordsOf(meant[n + 1])) \in Nat \ {0}
      BY <1>0, <3>1, LineItems, ItemWords
    <3>3. /\ Offset(meant, n) \in Nat /\ Offset(meant, n + 1) <= Len(Render(meant))
          /\ Offset(meant, n + 1) = Offset(meant, n) + Len(WordsOf(meant[n + 1]))
          /\ Len(Render(meant)) \in Nat
      BY <1>0, <3>1, NextWords
    <3> QED
      BY <1>0, <2>2, <3>2, <3>3
  <2> QED
    BY <1>0, <2>2, <2>3, BeforeMore
<1>2. CASE \E m \in Nat : InRest(m)
  <2>1. PICK m \in Nat : InRest(m)
    BY <1>2
  <2> DEFINE n == Len(meant) - 1
             x == meant[n + 1]
  <2>2. /\ Len(meant) >= 1 /\ LastItem.is = "rest" /\ m \in 0 .. Len(LastItem.words)
        /\ taken = Offset(meant, n) + 1 + m
        /\ files = MeantFiles(InFront) \o SubSeq(LastItem.words, 1, m)
        /\ OptionsOf(meant)
    BY <2>1 DEF InRest
  <2>3. n \in 0 .. Len(meant) - 1 /\ n + 1 = Len(meant) /\ x = LastItem /\ InFront = Before(meant, n)
    BY <1>0, <2>2 DEF LastItem, InFront
  <2> HIDE DEF n
  <2>4. /\ Offset(meant, n) \in Nat /\ Offset(meant, n + 1) = Offset(meant, n) + Len(WordsOf(x))
        /\ MeantFiles(Before(meant, n + 1)) = MeantFiles(Before(meant, n)) \o FilesOf(x)
        /\ IsItem(x)
    BY <1>0, <2>3, NextWords, NextMeaning
  <2>5. Offset(meant, n + 1) = Len(crcArgv) /\ Before(meant, n + 1) = meant
    BY <1>0, <2>3, BeforeMore DEF Offset
  <2>6. WordsOf(x) = <<DASHES>> \o x.words /\ x.words \in Seq(Seq(ArgPieces)) /\ FilesOf(x) = x.words
    BY <2>2, <2>3, <2>4 DEF WordsOf, IsItem, FilesOf
  <2> HIDE DEF x
  <2>7. Len(WordsOf(x)) = 1 + Len(x.words) /\ Len(x.words) \in Nat /\ SubSeq(x.words, 1, Len(x.words)) = x.words
    BY <2>6, SubSeqFull
  <2>8. m = Len(x.words)
    BY <1>0, <2>2, <2>4, <2>5, <2>7
  <2> QED
    BY <2>2, <2>3, <2>4, <2>5, <2>6, <2>7, <2>8
<1> QED
  BY <1>0, <1>1, <1>2 DEF ArgsInv

LEMMA InformKept == ArgsInv /\ Inform => ArgsInv'
<1> SUFFICES ASSUME ArgsInv, Inform PROVE ArgsInv'
  OBVIOUS
<1>0. /\ AllTaken /\ mode # "Run" /\ parsed' = "options" /\ mode' = mode /\ hex' = hex
      /\ meant' = meant /\ crcArgv' = crcArgv
  BY DEF Inform
<1>1. OneLine'
  BY <1>0 DEF ArgsInv, OneLine
<1>2. OptionsOf(meant)
  BY <1>0, WholeLineRead
<1>l. PICK line : line = meant
  OBVIOUS
<1>3. /\ ~HasJunk(line) /\ mode' = MeantMode(line) /\ mode' # "Run"
      /\ hex' <=> LastFlag(line, DecHex) # Long("dec")
      /\ meant' = line
  BY <1>0, <1>2, <1>l DEF OptionsOf
<1>4. MeansWhatItSays'
  BY <1>0, <1>3 DEF MeansWhatItSays, DecHex
<1> QED
  BY <1>0, <1>1, <1>4 DEF ArgsInv

LEMMA RefuseContradictionKept == ArgsInv /\ RefuseContradiction => ArgsInv'
<1> SUFFICES ASSUME ArgsInv, RefuseContradiction PROVE ArgsInv'
  OBVIOUS
<1>0. /\ AllTaken /\ mode = "Run" /\ Contradiction /\ parsed' = "error"
      /\ meant' = meant /\ crcArgv' = crcArgv
  BY DEF RefuseContradiction
<1>1. OneLine' /\ meant \in CommandLines
  BY <1>0 DEF ArgsInv, OneLine
<1>2. OptionsOf(meant) /\ files = MeantFiles(meant)
  BY <1>0, WholeLineRead
<1>l. PICK line : line = meant
  OBVIOUS
<1>3. /\ check = MeantCheck(line) /\ (all <=> MeansAll(line)) /\ MeantMode(line) = "Run"
      /\ requested = Dedupe(MeantAlgos(line)) /\ files = MeantFiles(line) /\ meant' = line
  BY <1>0, <1>2, <1>l DEF OptionsOf
<1>4. MeantAlgos(line) = <<>> => requested = <<>>
  BY <1>3, Pushes!FoldEmpty DEF Dedupe
<1>5. /\ MeantCheck(line) # NoValue
      /\ MeantFiles(line) # <<>> \/ MeantAlgos(line) # <<>> \/ MeansAll(line)
  BY <1>0, <1>3, <1>4 DEF Contradiction
<1>6. MeansWhatItSays'
  BY <1>0, <1>3, <1>5 DEF MeansWhatItSays
<1> QED
  BY <1>0, <1>1, <1>6 DEF ArgsInv

LEMMA ToRunKept == ArgsInv /\ ToRun => ArgsInv'
<1> SUFFICES ASSUME ArgsInv, ToRun PROVE ArgsInv'
  OBVIOUS
<1>0. /\ AllTaken /\ mode = "Run" /\ ~Contradiction /\ parsed' = "options"
      /\ meant' = meant /\ crcArgv' = crcArgv /\ mode' = mode /\ check' = check /\ hex' = hex
      /\ requested' = IF all THEN ALL ELSE IF requested = <<>> THEN DEFAULT ELSE requested
      /\ files' = IF files = <<>> THEN <<STDIN>> ELSE files
  BY DEF ToRun
<1>1. OneLine' /\ meant \in CommandLines
  BY <1>0 DEF ArgsInv, OneLine
<1>2. OptionsOf(meant) /\ files = MeantFiles(meant)
  BY <1>0, WholeLineRead
<1>l. PICK line : line = meant
  OBVIOUS
<1> DEFINE algos == MeantAlgos(line)
           d == Dedupe(algos)
<1>3. /\ check = MeantCheck(line) /\ (all <=> MeansAll(line)) /\ mode = MeantMode(line)
      /\ requested = d /\ files = MeantFiles(line) /\ meant' = line
      /\ hex <=> LastFlag(line, DecHex) # Long("dec")
      /\ ~HasJunk(line)
  BY <1>0, <1>2, <1>l DEF OptionsOf
<1>4. algos \in Seq(AllAlgos)
  BY <1>1, <1>l, LineItems, RenderType
<1> HIDE DEF algos
<1>5. d \in Seq(AllAlgos) /\ ByMention(d, algos)
  BY <1>4, DedupeByMention
<1>6. algos = <<>> => d = <<>>
  BY Pushes!FoldEmpty DEF Dedupe
<1> HIDE DEF d
<1>7. algos # <<>> => d # <<>>
  <2> SUFFICES ASSUME algos # <<>>, d = <<>> PROVE FALSE
    OBVIOUS
  <2>1. 1 \in 1 .. Len(algos) /\ 1 .. Len(d) = {}
    BY <1>4
  <2> QED
    BY <1>5, <2>1 DEF ByMention
<1>8. ToSet(d) = ToSet(algos)
  <2>1. DOMAIN d = 1 .. Len(d) /\ DOMAIN algos = 1 .. Len(algos)
    BY <1>4, <1>5
  <2>2. \A e : (\E k \in 1 .. Len(d) : d[k] = e) <=> \E n \in 1 .. Len(algos) : algos[n] = e
    BY <1>5 DEF ByMention
  <2> QED
    BY <2>1, <2>2 DEF ToSet
<1>9. \A n \in DOMAIN d : \A k \in 1 .. n - 1 :
        FirstOf(algos, d[k]) < FirstOf(algos, d[n])
  <2>1. DOMAIN d = 1 .. Len(d)
    BY <1>5
  <2> QED
    BY <1>5, <2>1 DEF ByMention
<1>10. check # NoValue => ~(MeantFiles(line) # <<>> \/ algos # <<>> \/ MeansAll(line))
  BY <1>0, <1>3, <1>7 DEF Contradiction
<1>11. /\ MeansAll(line) => requested' = ALL
       /\ ~MeansAll(line) /\ algos = <<>> => requested' = DEFAULT
       /\ ~MeansAll(line) /\ algos # <<>> => requested' = d
  BY <1>0, <1>3, <1>6, <1>7
<1>12. MeansWhatItSays'
  <2>1. /\ parsed' = "options" /\ meant' = line /\ mode' = MeantMode(line) /\ check' = MeantCheck(line)
        /\ hex' <=> LastFlag(line, {Long("hex"), Long("dec")}) # Long("dec")
        /\ files' = IF MeantFiles(line) = <<>> THEN <<STDIN>> ELSE MeantFiles(line)
        /\ check' # NoValue => ~(MeantFiles(line) # <<>> \/ algos # <<>> \/ MeansAll(line))
    BY <1>0, <1>3, <1>10 DEF DecHex
  <2>2. ~MeansAll(line) /\ algos # <<>> =>
          /\ ToSet(requested') = ToSet(algos)
          /\ \A n \in DOMAIN requested' : \A k \in 1 .. n - 1 :
               FirstOf(algos, requested'[k]) < FirstOf(algos, requested'[n])
    BY <1>8, <1>9, <1>11
  <2>3. ~HasJunk(line)
    BY <1>3
  <2> QED
    BY <1>11, <2>1, <2>2, <2>3, Zenon DEF MeansWhatItSays, algos
<1> QED
  BY <1>0, <1>1, <1>12 DEF ArgsInv

LEMMA ArgsStutter == ArgsInv /\ UNCHANGED argsVars => ArgsInv'
<1> SUFFICES ASSUME ArgsInv, UNCHANGED argsVars PROVE ArgsInv'
  OBVIOUS
<1>1. /\ meant' = meant /\ crcArgv' = crcArgv /\ taken' = taken /\ mode' = mode
      /\ requested' = requested /\ all' = all /\ files' = files /\ check' = check /\ hex' = hex
      /\ files_only' = files_only /\ parsed' = parsed
  BY DEF argsVars
<1>2. MeansWhatItSays'
  BY <1>1 DEF ArgsInv, MeansWhatItSays
<1>3. \A n : InLine(n) => InLine(n)'
  BY <1>1 DEF InLine, OptionsOf
<1>4. \A m : InRest(m) => InRest(m)'
  BY <1>1 DEF InRest, OptionsOf, LastItem, InFront
<1> QED
  BY <1>1, <1>2, <1>3, <1>4 DEF ArgsInv, OneLine

LEMMA ArgsInvKept == ArgsInv /\ [ArgsNext]_argsVars => ArgsInv'
BY TakeFileKept, TakeDashesKept, TakePlainKept, TakeAlgoKept, TakeCheckKept, RefuseOptionKept,
   InformKept, RefuseContradictionKept, ToRunKept, ArgsStutter DEF ArgsNext

(* Every option means what its words say, whatever its form and wherever  *)
(* it stands, and only junk and contradictions are errors (args::parse).  *)
THEOREM MeansWhatItSaysAlways == ArgsSpec => []MeansWhatItSays
<1>1. ArgsInv => MeansWhatItSays
  BY DEF ArgsInv
<1> QED
  BY <1>1, ArgsInvInit, ArgsInvKept, PTL DEF ArgsSpec

-----------------------------------------------------------------------------
(* The options that args::parse hands on are ones the rest can run.       *)

LEMMA StandardAlgos ==
  /\ ALL \in Seq(AllAlgos) /\ IsInjective(ALL) /\ ALL # <<>>
  /\ DEFAULT \in Seq(AllAlgos) /\ IsInjective(DEFAULT) /\ DEFAULT # <<>>
<1>1. /\ Len(ALL) = 13 /\ \A j \in 1 .. 13 : ALL[j] \in AllAlgos
      /\ \A i, j \in 1 .. 13 : ALL[i] = ALL[j] => i = j
  BY NamesAre
<1>2. ALL = [j \in 1 .. 13 |-> ALL[j]] /\ DOMAIN ALL = 1 .. 13 /\ ALL # <<>>
  BY DEF ALL
<1>3. ALL \in Seq(AllAlgos)
  <2> DEFINE s == ALL
  <2>1. s = [j \in 1 .. 13 |-> s[j]] /\ \A j \in 1 .. 13 : s[j] \in AllAlgos
    BY <1>1, <1>2
  <2> HIDE DEF s
  <2> QED
    BY <2>1 DEF s
<1>4. IsInjective(ALL)
  BY <1>1, <1>2 DEF IsInjective
<1>5. /\ Len(DEFAULT) = 2 /\ DOMAIN DEFAULT = 1 .. 2
      /\ DEFAULT[1] = "crc_16" /\ DEFAULT[2] = "crc_32" /\ DEFAULT # <<>>
  BY DEF DEFAULT
<1>6. DEFAULT \in Seq(AllAlgos)
  <2>1. "crc_16" \in AllAlgos /\ "crc_32" \in AllAlgos
    BY NamesAre
  <2> QED
    BY <2>1 DEF DEFAULT
<1>7. IsInjective(DEFAULT)
  <2>1. \A i, j \in 1 .. 2 : DEFAULT[i] = DEFAULT[j] => i = j
    <3>1. \A i \in 1 .. 2 : i = 1 \/ i = 2
      OBVIOUS
    <3> QED
      BY <1>5, <3>1
  <2> QED
    BY <1>5, <2>1 DEF IsInjective
<1> QED
  BY <1>2, <1>3, <1>4, <1>5, <1>6, <1>7

(* No algorithm is first asked for before itself. *)
LEMMA DedupeInjective ==
  ASSUME NEW algos \in Seq(AllAlgos)
  PROVE  Dedupe(algos) \in Seq(AllAlgos) /\ IsInjective(Dedupe(algos))
<1> DEFINE d == Dedupe(algos)
<1>1. d \in Seq(AllAlgos) /\ ByMention(d, algos)
  BY DedupeByMention
<1> HIDE DEF d
<1>2. DOMAIN d = 1 .. Len(d) /\ Len(d) \in Nat
  BY <1>1
<1>3. ASSUME NEW n \in 1 .. Len(d), NEW k \in 1 .. n - 1 PROVE d[k] # d[n]
  <2>1. FirstOf(algos, d[k]) < FirstOf(algos, d[n])
    BY <1>1 DEF ByMention
  <2>2. k \in 1 .. Len(d)
    BY <1>2
  <2>3. FirstOf(algos, d[n]) \in Nat
    <3>1. PICK m \in 1 .. Len(algos) : d[n] = algos[m]
      BY <1>1 DEF ByMention
    <3>2. PICK j \in 1 .. Len(algos) : algos[j] = algos[m] /\ \A i \in 1 .. j - 1 : algos[i] # algos[m]
      BY <3>1, FirstIndex
    <3>3. FirstOf(algos, algos[m]) = j
      BY <3>2, FirstOfIs
    <3> QED
      BY <3>1, <3>3
  <2> QED
    BY <2>1, <2>3
<1>4. \A i, j \in 1 .. Len(d) : d[i] = d[j] => i = j
  <2> TAKE i \in 1 .. Len(d), j \in 1 .. Len(d)
  <2>1. i < j => i \in 1 .. j - 1
    BY <1>2
  <2>2. j < i => j \in 1 .. i - 1
    BY <1>2
  <2>3. i < j \/ j < i \/ i = j
    BY <1>2
  <2> QED
    BY <1>3, <2>1, <2>2, <2>3
<1> QED
  BY <1>1, <1>2, <1>4 DEF d, IsInjective

LEMMA TypedWhileParsing ==
  ASSUME ArgsInv, parsed = "parsing"
  PROVE  ArgsTypeOK
<1>0. /\ meant \in CommandLines /\ crcArgv = Render(meant) /\ Len(meant) \in Nat
      /\ meant \in Seq(AllItems)
  BY LineItems DEF ArgsInv, OneLine
<1>1. ASSUME NEW items \in Seq(AllItems), OptionsOf(items)
      PROVE  /\ mode \in {"Run", "List", "Help", "Version"}
             /\ requested \in Seq(ToSet(ALL)) /\ IsInjective(requested)
  <2>1. mode = MeantMode(items) /\ requested = Dedupe(MeantAlgos(items))
    BY <1>1 DEF OptionsOf
  <2>2. mode \in {"Run", "List", "Help", "Version"}
    BY <2>1 DEF MeantMode, ModeOf
  <2>3. requested \in Seq(AllAlgos) /\ IsInjective(requested)
    BY <2>1, RenderType, DedupeInjective
  <2> QED
    BY <2>2, <2>3 DEF AllAlgos
<1>2. CASE \E n \in 0 .. Len(meant) : InLine(n)
  <2>1. PICK n \in 0 .. Len(meant) : InLine(n)
    BY <1>2
  <2>2. taken = Offset(meant, n) /\ OptionsOf(Before(meant, n))
    BY <2>1 DEF InLine
  <2>3. taken \in 0 .. Len(crcArgv)
    BY <1>0, <2>2, OffsetsGrow
  <2>4. Before(meant, n) \in Seq(AllItems)
    BY <1>0, BeforeMore
  <2> QED
    BY <1>1, <2>2, <2>3, <2>4 DEF ArgsTypeOK
<1>3. CASE \E m \in Nat : InRest(m)
  <2>1. PICK m \in Nat : InRest(m)
    BY <1>3
  <2> DEFINE n == Len(meant) - 1
             x == meant[n + 1]
  <2>2. /\ Len(meant) >= 1 /\ LastItem.is = "rest" /\ m \in 0 .. Len(LastItem.words)
        /\ taken = Offset(meant, n) + 1 + m /\ OptionsOf(meant)
    BY <2>1 DEF InRest
  <2>3. n \in 0 .. Len(meant) - 1 /\ n + 1 = Len(meant) /\ x = LastItem
    BY <1>0, <2>2 DEF LastItem
  <2> HIDE DEF n
  <2>4. /\ Offset(meant, n) \in Nat /\ Offset(meant, n + 1) = Offset(meant, n) + Len(WordsOf(x))
        /\ Offset(meant, n + 1) <= Len(crcArgv) /\ Len(crcArgv) \in Nat
        /\ IsItem(x)
    BY <1>0, <2>3, NextWords, NextMeaning
  <2>5. WordsOf(x) = <<DASHES>> \o x.words /\ x.words \in Seq(Seq(ArgPieces))
    BY <2>2, <2>3, <2>4 DEF WordsOf, IsItem
  <2> HIDE DEF x
  <2>6. Len(WordsOf(x)) = 1 + Len(x.words) /\ Len(x.words) \in Nat
    BY <2>5
  <2>7. taken \in 0 .. Len(crcArgv)
    BY <2>2, <2>3, <2>4, <2>6
  <2> QED
    BY <1>0, <1>1, <2>2, <2>7 DEF ArgsTypeOK
<1> QED
  BY <1>2, <1>3 DEF ArgsInv

LEMMA TypedInTheNextState == (ArgsInv /\ parsed = "parsing" => ArgsTypeOK)'
<1>1. ArgsInv /\ parsed = "parsing" => ArgsTypeOK
  BY TypedWhileParsing
<1> QED
  BY <1>1, PTL

ArgsTypedInv == ArgsInv /\ ArgsTypeOK

LEMMA ArgsTypedInit == ArgsInit => ArgsTypedInv
<1>1. ArgsInit => parsed = "parsing"
  BY DEF ArgsInit
<1> QED
  BY <1>1, ArgsInvInit, TypedWhileParsing DEF ArgsTypedInv

LEMMA ArgsTypedKept == ArgsTypedInv /\ [ArgsNext]_argsVars => ArgsTypedInv'
<1> SUFFICES ASSUME ArgsTypedInv, [ArgsNext]_argsVars PROVE ArgsTypedInv'
  OBVIOUS
<1>1. ArgsInv' /\ ArgsTypeOK /\ ArgsInv
  BY ArgsInvKept DEF ArgsTypedInv
<1>2. (ArgsInv' /\ parsed' = "parsing") => ArgsTypeOK'
  BY TypedInTheNextState
<1>3. CASE parsed' = "parsing"
  BY <1>1, <1>2, <1>3 DEF ArgsTypedInv
<1>4. CASE Inform
  <2>1. /\ taken' = taken /\ crcArgv' = crcArgv /\ mode' = mode /\ mode # "Run"
        /\ requested' = <<>> /\ parsed' = "options"
    BY <1>4 DEF Inform
  <2>2. <<>> \in Seq(ToSet(ALL)) /\ IsInjective(<<>>)
    BY DEF IsInjective
  <2>3. ArgsTypeOK'
    BY <1>1, <2>1, <2>2 DEF ArgsTypeOK
  <2> QED
    BY <1>1, <2>3 DEF ArgsTypedInv
<1>5. CASE ToRun
  <2>1. /\ taken' = taken /\ crcArgv' = crcArgv /\ mode' = mode /\ parsed' = "options"
        /\ ~Contradiction /\ check' = check
        /\ requested' = IF all THEN ALL ELSE IF requested = <<>> THEN DEFAULT ELSE requested
        /\ files' = IF files = <<>> THEN <<STDIN>> ELSE files
    BY <1>5 DEF ToRun
  <2>2. STDIN # <<>> /\ <<STDIN>> # <<>>
    BY DEF STDIN
  <2>3. /\ requested' \in Seq(ToSet(ALL)) /\ IsInjective(requested') /\ requested' # <<>>
        /\ files' # <<>>
    BY <1>1, <2>1, <2>2, StandardAlgos DEF ArgsTypeOK, AllAlgos
  <2>4. check' # NoValue => files' = <<STDIN>> /\ requested' = DEFAULT
    BY <2>1 DEF Contradiction
  <2>5. ArgsTypeOK'
    BY <1>1, <2>1, <2>3, <2>4 DEF ArgsTypeOK
  <2> QED
    BY <1>1, <2>5 DEF ArgsTypedInv
<1>6. CASE RefuseOption \/ RefuseContradiction
  <2>1. /\ taken' = taken /\ crcArgv' = crcArgv /\ mode' = mode /\ parsed' = "error"
        /\ requested' = requested
    BY <1>6 DEF RefuseOption, RefuseContradiction, locals
  <2>2. ArgsTypeOK'
    BY <1>1, <2>1 DEF ArgsTypeOK
  <2> QED
    BY <1>1, <2>2 DEF ArgsTypedInv
<1>7. CASE UNCHANGED argsVars
  <2>1. ArgsTypeOK'
    BY <1>1, <1>7 DEF ArgsTypeOK, argsVars
  <2> QED
    BY <1>1, <2>1 DEF ArgsTypedInv
<1>8. TakeFile \/ TakeDashes \/ TakePlain \/ TakeAlgo \/ TakeCheck => parsed' = "parsing"
  BY DEF TakeFile, TakeDashes, TakePlain, TakeAlgo, TakeCheck, IsOption, Remain
<1> QED
  BY <1>3, <1>4, <1>5, <1>6, <1>7, <1>8 DEF ArgsNext

(* The options are always ones the rest of the command can run: an        *)
(* algorithm and an input at least, no algorithm twice, and a manifest    *)
(* never with files or algorithms of its own (args.rs:26-28, 89-100).     *)
THEOREM RunnableOptionsAlways == ArgsSpec => []ArgsTypeOK
<1>1. ArgsTypedInv => ArgsTypeOK
  BY DEF ArgsTypedInv
<1> QED
  BY <1>1, ArgsTypedInit, ArgsTypedKept, PTL DEF ArgsSpec

=============================================================================
