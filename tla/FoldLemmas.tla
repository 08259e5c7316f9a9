----------------------------- MODULE FoldLemmas -----------------------------
(***************************************************************************)
(* Induction, and what a fold over a sequence computes, for every         *)
(* sequence.  The induction theorems of the library take a predicate as a *)
(* parameter; those here take the set of the values that have it, and     *)
(* rest on the well-foundedness of < alone.                                *)
(*                                                                         *)
(* The operator that is folded is the constant Op, so that a module       *)
(* instantiates these facts for the operators it folds; its first         *)
(* argument, k, is whatever a fold keeps constant (the kernel of a        *)
(* checksum).                                                              *)
(***************************************************************************)
EXTENDS Integers, SequencesExt, SequenceTheorems, WellFoundedInduction, TLAPS

CONSTANT Op(_, _, _)

Fold(k, base, seq) == FoldLeft(LAMBDA acc, e : Op(k, acc, e), base, seq)

-----------------------------------------------------------------------------
(* Induction. *)

NatLess == {ss \in Nat \X Nat : ss[1] < ss[2]}

(* The only well-founded order that is needed: < on the naturals. *)
LEMMA NatLessWF == IsWellFoundedOn(NatLess, Nat)
  BY NatLessThanWellFounded DEF OpToRel, NatLess

(* Every set of naturals has a least member. *)
LEMMA LeastOf ==
  ASSUME NEW I, I \subseteq Nat, I # {}
  PROVE  \E n \in I : \A j \in I : n <= j
<1>1. PICK n \in I : \A j \in I : ~(<<j, n>> \in NatLess)
  BY NatLessWF, WFMin
<1>2. ASSUME NEW j \in I, j < n PROVE FALSE
  <2>1. <<j, n>> \in NatLess
    BY <1>2 DEF NatLess
  <2> QED
    BY <1>1, <2>1
<1> QED
  BY <1>2

(* A set with 0 and, of each of its numbers, the next, has them all. *)
LEMMA NatSetInduction ==
  ASSUME NEW S, 0 \in S, \A n \in Nat : n \in S => n + 1 \in S
  PROVE  Nat \subseteq S
<1> DEFINE T == Nat \ S
<1> SUFFICES ASSUME T # {} PROVE FALSE
  OBVIOUS
<1>1. PICK x \in T : \A y \in T : <<y, x>> \notin NatLess
  <2>1. T \subseteq Nat
    OBVIOUS
  <2> HIDE DEF T
  <2> QED
    BY <2>1, NatLessWF, WFMin
<1>2. x \in Nat /\ x # 0
  OBVIOUS
<1>3. x - 1 \in Nat
  BY <1>2
<1>4. <<x - 1, x>> \in NatLess
  BY <1>2, <1>3 DEF NatLess
<1>5. x - 1 \in S
  BY <1>1, <1>3, <1>4
<1>6. (x - 1) + 1 \in S
  BY <1>3, <1>5
<1> QED
  BY <1>2, <1>6

(* A set of sequences with the empty one that is closed under Append. *)
LEMMA SeqSetInduction ==
  ASSUME NEW E, NEW P, <<>> \in P,
         \A seq \in Seq(E), e \in E : seq \in P => Append(seq, e) \in P
  PROVE  Seq(E) \subseteq P
<1> DEFINE N == {n \in Nat : \A seq \in Seq(E) : Len(seq) = n => seq \in P}
<1>1. 0 \in N
  OBVIOUS
<1>2. ASSUME NEW n \in Nat, n \in N PROVE n + 1 \in N
  <2>1. ASSUME NEW seq \in Seq(E), Len(seq) = n + 1 PROVE seq \in P
    <3> DEFINE front == [i \in 1 .. n |-> seq[i]]
    <3>1. front \in Seq(E) /\ Len(front) = n /\ seq[n + 1] \in E
      BY <2>1
    <3>2. front \in P
      BY <1>2, <3>1
    <3>3. seq = Append(front, seq[n + 1])
      BY <2>1, <3>1
    <3> HIDE DEF front
    <3> QED
      BY <3>1, <3>2, <3>3
  <2> QED
    BY <2>1
<1>3. Nat \subseteq N
  <2> HIDE DEF N
  <2> QED
    BY <1>1, <1>2, NatSetInduction
<1> QED
  BY <1>3

-----------------------------------------------------------------------------
(* What the community modules' FoldLeft defines: f is the function on the *)
(* sets of indices whose value on all of them is the fold.                *)
Iter(k, base, seq, n, f) ==
  f = [s \in SUBSET (1 .. n) |->
         IF s = {} THEN base ELSE Op(k, f[s \ {Max(s)}], seq[Max(s)])]

(* A fold is a value of that function. *)
LEMMA FoldDef ==
  ASSUME NEW k, NEW base, NEW seq, NEW n, DOMAIN seq = 1 .. n
  PROVE  Fold(k, base, seq) = (CHOOSE f : Iter(k, base, seq, n, f))[1 .. n]
BY DEF Fold, FoldLeft, MapThenFoldSet, Iter

(* The largest index of a prefix is its length. *)
LEMMA MaxOfInterval ==
  ASSUME NEW n \in Nat, n # 0
  PROVE  /\ Max(1 .. n) = n
         /\ (1 .. n) \ {n} = 1 .. n - 1
<1>1. \E x \in 1 .. n : \A y \in 1 .. n : x >= y
  <2>1. n \in 1 .. n /\ \A y \in 1 .. n : n >= y
    OBVIOUS
  <2> QED
    BY <2>1
<1>2. Max(1 .. n) \in 1 .. n /\ \A y \in 1 .. n : Max(1 .. n) >= y
  BY <1>1 DEF Max
<1> DEFINE m == Max(1 .. n)
<1>3. m \in 1 .. n /\ m >= n
  BY <1>2
<1> HIDE DEF m
<1>4. m = n
  BY <1>3
<1> QED
  BY <1>4 DEF m

(* It exists, for every operator and every length. *)
LEMMA IterExists ==
  ASSUME NEW k, NEW base, NEW seq, NEW n \in Nat
  PROVE  \E f : Iter(k, base, seq, n, f)
<1> DEFINE S == {m \in Nat : \E f : Iter(k, base, seq, m, f)}
<1>1. 0 \in S
  <2> DEFINE g == [s \in SUBSET (1 .. 0) |-> base]
  <2>1. \A s \in SUBSET (1 .. 0) : s = {}
    OBVIOUS
  <2>2. Iter(k, base, seq, 0, g)
    BY <2>1 DEF Iter
  <2> QED
    BY <2>2
<1>2. ASSUME NEW m \in Nat, m \in S
      PROVE  m + 1 \in S
  <2>1. PICK f : Iter(k, base, seq, m, f)
    BY <1>2
  <2> DEFINE D == SUBSET (1 .. m + 1)
             g == [s \in D |-> IF m + 1 \in s THEN Op(k, f[s \ {m + 1}], seq[m + 1]) ELSE f[s]]
  <2>2. ASSUME NEW s \in D
        PROVE  g[s] = IF s = {} THEN base ELSE Op(k, g[s \ {Max(s)}], seq[Max(s)])
    <3>1. CASE m + 1 \in s
      <4>1. Max(s) = m + 1
        <5> DEFINE x == CHOOSE x \in s : \A y \in s : x >= y
        <5>1. \A y \in s : m + 1 >= y
          OBVIOUS
        <5>2. x \in s /\ \A y \in s : x >= y
          BY <3>1, <5>1
        <5>3. x \in 1 .. m + 1 /\ x >= m + 1
          BY <3>1, <5>2
        <5> HIDE DEF x
        <5>4. x = m + 1
          BY <5>3
        <5> QED
          BY <5>4 DEF x, Max
      <4>2. s \ {m + 1} \in D /\ m + 1 \notin s \ {m + 1} /\ s # {}
        BY <3>1
      <4>3. g[s \ {m + 1}] = f[s \ {m + 1}]
        BY <4>2
      <4>4. g[s] = Op(k, f[s \ {m + 1}], seq[m + 1])
        BY <3>1
      <4> QED
        BY <4>1, <4>2, <4>3, <4>4
    <3>2. CASE m + 1 \notin s
      <4>1. s \in SUBSET (1 .. m) /\ s \ {Max(s)} \in SUBSET (1 .. m)
        <5>1. \A i \in s : i \in 1 .. m
          BY <3>2
        <5>2. s \subseteq 1 .. m
          BY <5>1
        <5> QED
          BY <5>2
      <4>2. s \ {Max(s)} \in D /\ m + 1 \notin s \ {Max(s)}
        BY <3>2
      <4>3. g[s] = f[s] /\ g[s \ {Max(s)}] = f[s \ {Max(s)}]
        BY <3>2, <4>2
      <4>4. f[s] = IF s = {} THEN base ELSE Op(k, f[s \ {Max(s)}], seq[Max(s)])
        BY <2>1, <4>1 DEF Iter
      <4> QED
        BY <4>3, <4>4
    <3> QED
      BY <3>1, <3>2
  <2> DEFINE h == [s \in D |-> IF s = {} THEN base ELSE Op(k, g[s \ {Max(s)}], seq[Max(s)])]
  <2>3. g = h
    <3>1. g = [s \in D |-> g[s]]
      OBVIOUS
    <3> HIDE DEF g
    <3> QED
      BY <2>2, <3>1
  <2>4. Iter(k, base, seq, m + 1, g)
    <3> HIDE DEF g
    <3> QED
      BY <2>3 DEF Iter
  <2> QED
    BY <2>4
<1>3. Nat \subseteq S
  <2> HIDE DEF S
  <2> QED
    BY <1>1, <1>2, NatSetInduction
<1> QED
  BY <1>3

(* On no index at all it is the base, ... *)
LEMMA IterEmpty ==
  ASSUME NEW k, NEW base, NEW seq, NEW n \in Nat, NEW f, Iter(k, base, seq, n, f)
  PROVE  f[{}] = base
BY DEF Iter

(* The choice of Fold's recursion on a prefix: the last element is folded *)
(* last.                                                                  *)
LEMMA IterStep ==
  ASSUME NEW k, NEW base, NEW seq, NEW n \in Nat, NEW f, Iter(k, base, seq, n, f),
         NEW m \in Nat, m < n
  PROVE  f[1 .. m + 1] = Op(k, f[1 .. m], seq[m + 1])
<1>1. Max(1 .. m + 1) = m + 1 /\ (1 .. m + 1) \ {m + 1} = 1 .. m
  <2>1. m + 1 \in Nat /\ m + 1 # 0 /\ (m + 1) - 1 = m
    OBVIOUS
  <2> QED
    BY <2>1, MaxOfInterval
<1>2. 1 .. m + 1 \in SUBSET (1 .. n) /\ 1 .. m + 1 # {}
  <2>1. 1 \in 1 .. m + 1 /\ 1 .. m + 1 \subseteq 1 .. n
    OBVIOUS
  <2> QED
    BY <2>1
<1> DEFINE s == 1 .. m + 1
<1>3. f[s] = IF s = {} THEN base ELSE Op(k, f[s \ {Max(s)}], seq[Max(s)])
  <2> HIDE DEF s
  <2> QED
    BY <1>2 DEF Iter, s
<1> QED
  BY <1>1, <1>2, <1>3

(* ... which does not depend on what follows the prefix. *)
LEMMA IterUnique ==
  ASSUME NEW k, NEW base, NEW a, NEW b, NEW m \in Nat, NEW n \in Nat, NEW f, NEW g,
         m <= n, Iter(k, base, a, m, f), Iter(k, base, b, n, g),
         \A i \in 1 .. m : a[i] = b[i]
  PROVE  f[1 .. m] = g[1 .. m]
<1> DEFINE S == {i \in Nat : i <= m => f[1 .. i] = g[1 .. i]}
<1>0. 1 .. 0 = {}
  OBVIOUS
<1>b. f[{}] = base /\ g[{}] = base
  BY IterEmpty
<1>f. ASSUME NEW i \in Nat, i < m PROVE f[1 .. i + 1] = Op(k, f[1 .. i], a[i + 1])
  BY ONLY Iter(k, base, a, m, f), m \in Nat, <1>f, IterStep
<1>g. ASSUME NEW i \in Nat, i < n PROVE g[1 .. i + 1] = Op(k, g[1 .. i], b[i + 1])
  BY ONLY Iter(k, base, b, n, g), n \in Nat, <1>g, IterStep
<1>1. 0 \in S
  BY <1>0, <1>b
<1>2. ASSUME NEW i \in Nat, i \in S PROVE i + 1 \in S
  <2>1. CASE i + 1 <= m
    <3>0. i < m /\ i < n
      BY <2>1
    <3>1. f[1 .. i + 1] = Op(k, f[1 .. i], a[i + 1])
      BY <3>0, <1>f
    <3>2. g[1 .. i + 1] = Op(k, g[1 .. i], b[i + 1])
      BY <3>0, <1>g
    <3>3. f[1 .. i] = g[1 .. i] /\ a[i + 1] = b[i + 1]
      BY <1>2, <2>1
    <3> QED
      BY <3>1, <3>2, <3>3
  <2>2. CASE ~(i + 1 <= m)
    BY <2>2
  <2> QED
    BY <2>1, <2>2
<1>3. Nat \subseteq S
  <2> HIDE DEF S
  <2> QED
    BY <1>1, <1>2, NatSetInduction
<1> QED
  BY <1>3

-----------------------------------------------------------------------------
(* The two equations of a left fold. *)
THEOREM FoldEmpty ==
  ASSUME NEW k, NEW base
  PROVE  Fold(k, base, <<>>) = base
<1>1. DOMAIN <<>> = 1 .. 0
  OBVIOUS
<1> DEFINE f == CHOOSE f : Iter(k, base, <<>>, 0, f)
<1>2. Iter(k, base, <<>>, 0, f)
  <2>1. \E h : Iter(k, base, <<>>, 0, h)
    BY IterExists
  <2> QED
    BY <2>1
<1>3. Fold(k, base, <<>>) = f[1 .. 0]
  BY <1>1, FoldDef
<1> HIDE DEF f
<1>4. f[{}] = base
  BY <1>2, 0 \in Nat, IterEmpty
<1>5. 1 .. 0 = {}
  OBVIOUS
<1> QED
  BY <1>3, <1>4, <1>5

(* A fold over a longer sequence is one more step: the shape of every loop *)
(* over a slice.                                                           *)
THEOREM FoldAppend ==
  ASSUME NEW k, NEW base, NEW E, NEW seq \in Seq(E), NEW e \in E
  PROVE  Fold(k, base, Append(seq, e)) = Op(k, Fold(k, base, seq), e)
<1> DEFINE n == Len(seq)
           longer == Append(seq, e)
           f == CHOOSE f : Iter(k, base, seq, n, f)
           g == CHOOSE g : Iter(k, base, longer, n + 1, g)
<1>1. n \in Nat /\ DOMAIN seq = 1 .. n /\ DOMAIN longer = 1 .. n + 1
  OBVIOUS
<1>2. longer[n + 1] = e /\ \A i \in 1 .. n : seq[i] = longer[i]
  OBVIOUS
<1> HIDE DEF n, longer
<1>3. Iter(k, base, seq, n, f) /\ Iter(k, base, longer, n + 1, g)
  <2>1. (\E h : Iter(k, base, seq, n, h)) /\ (\E h : Iter(k, base, longer, n + 1, h))
    BY <1>1, 1 \in Nat, n + 1 \in Nat, IterExists, ZenonT(20)
  <2> QED
    BY <2>1
<1>4. Fold(k, base, seq) = f[1 .. n] /\ Fold(k, base, longer) = g[1 .. n + 1]
  BY <1>1, FoldDef
<1> HIDE DEF f, g
<1>5. n + 1 \in Nat /\ n <= n + 1 /\ n < n + 1
  BY <1>1
<1>6. f[1 .. n] = g[1 .. n]
  BY <1>1, <1>2, <1>3, <1>5, IterUnique
<1>7. g[1 .. n + 1] = Op(k, g[1 .. n], longer[n + 1])
  BY <1>1, <1>3, <1>5, IterStep
<1> QED
  BY <1>2, <1>4, <1>6, <1>7 DEF longer

(* A set that holds the base and is closed under the operator holds the   *)
(* fold.                                                                   *)
THEOREM FoldType ==
  ASSUME NEW k, NEW A, NEW E, NEW base \in A, NEW seq \in Seq(E),
         \A acc \in A, e \in E : Op(k, acc, e) \in A
  PROVE  Fold(k, base, seq) \in A
<1> DEFINE P == {s \in Seq(E) : Fold(k, base, s) \in A}
<1>1. <<>> \in P
  BY FoldEmpty
<1>2. ASSUME NEW s \in Seq(E), NEW e \in E, s \in P PROVE Append(s, e) \in P
  <2>1. Fold(k, base, Append(s, e)) = Op(k, Fold(k, base, s), e)
    BY FoldAppend
  <2>2. Append(s, e) \in Seq(E)
    OBVIOUS
  <2> QED
    BY <1>2, <2>1, <2>2
<1>3. Seq(E) \subseteq P
  <2> HIDE DEF P
  <2> QED
    BY <1>1, <1>2, SeqSetInduction
<1> QED
  BY <1>3

(* Folding a concatenation is folding its second part from where the      *)
(* first one ended.                                                        *)
THEOREM FoldConcat ==
  ASSUME NEW k, NEW base, NEW E, NEW s \in Seq(E), NEW t \in Seq(E)
  PROVE  Fold(k, base, s \o t) = Fold(k, Fold(k, base, s), t)
<1> DEFINE mid == Fold(k, base, s)
           P == {u \in Seq(E) : Fold(k, base, s \o u) = Fold(k, mid, u)}
<1>1. <<>> \in P
  <2>1. s \o <<>> = s /\ <<>> \in Seq(E)
    OBVIOUS
  <2> QED
    BY <2>1, FoldEmpty
<1>2. ASSUME NEW u \in Seq(E), NEW e \in E, u \in P PROVE Append(u, e) \in P
  <2>1. Fold(k, mid, Append(u, e)) = Op(k, Fold(k, mid, u), e)
    BY FoldAppend
  <2>2. s \o u \in Seq(E) /\ Append(u, e) \in Seq(E)
    OBVIOUS
  <2>3. s \o Append(u, e) = Append(s \o u, e)
    OBVIOUS
  <2> DEFINE v == s \o u
  <2>4. Fold(k, base, Append(v, e)) = Op(k, Fold(k, base, v), e)
    <3> HIDE DEF v
    <3>1. v \in Seq(E)
      BY <2>2 DEF v
    <3> QED
      BY <3>1, FoldAppend
  <2> HIDE DEF mid
  <2> QED
    BY <1>2, <2>1, <2>2, <2>3, <2>4
<1>3. Seq(E) \subseteq P
  <2> HIDE DEF P
  <2> QED
    BY <1>1, <1>2, SeqSetInduction
<1> QED
  BY <1>3

(* The fold over a prefix, one element on. *)
THEOREM FoldPrefix ==
  ASSUME NEW k, NEW base, NEW E, NEW seq \in Seq(E), NEW i \in Nat, i < Len(seq)
  PROVE  Fold(k, base, SubSeq(seq, 1, i + 1))
           = Op(k, Fold(k, base, SubSeq(seq, 1, i)), seq[i + 1])
<1> DEFINE p == SubSeq(seq, 1, i)
           e == seq[i + 1]
<1>1. p \in Seq(E) /\ e \in E
  OBVIOUS
<1>2. SubSeq(seq, 1, i + 1) = Append(p, e)
  OBVIOUS
<1> HIDE DEF p, e
<1>3. Fold(k, base, Append(p, e)) = Op(k, Fold(k, base, p), e)
  BY <1>1, FoldAppend
<1> QED
  BY <1>2, <1>3 DEF p, e
=============================================================================
