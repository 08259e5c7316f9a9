------------------------ MODULE CheckManifestProofs ------------------------
(***************************************************************************)
(* `crc --check MANIFEST`, for every manifest and whatever the files hold *)
(* by the time they are read: how the entries are grouped, how often each *)
(* file is read, the order of the two streams and the exit status.        *)
(***************************************************************************)
EXTENDS CheckManifest, SequenceTheorems, TLAPS

(* A line of some manifest. *)
LineSet == UNION {Range(m.lines) : m \in Manifests}

(* Those that name a path. *)
Of(path) == {x \in LineSet : x.path = path}

KeepIf(set, kept, x)         == IF x \in set THEN Append(kept, x) ELSE kept
PlaceEntry(k, groupsSoFar, x) == Place(groupsSoFar, x)
SayLines(content, said, x)   == said \o Lines(x, content)
SayDue(list, said, r)        == said \o Due(list, r)

Kept    == INSTANCE FoldLemmas WITH Op <- KeepIf
Grouping == INSTANCE FoldLemmas WITH Op <- PlaceEntry
Judging == INSTANCE FoldLemmas WITH Op <- SayLines
Saying  == INSTANCE FoldLemmas WITH Op <- SayDue

-----------------------------------------------------------------------------
(* Selecting the members of a set from a list. *)

(* Only as a fold. *)
LEMMA OnlyFold ==
  ASSUME NEW list, NEW set
  PROVE  Only(list, set) = Kept!Fold(set, <<>>, list)
BY DEF Only, KeepIf, Kept!Fold, Kept!FoldLeft, Kept!MapThenFoldSet, Kept!Max, FoldLeft,
       MapThenFoldSet, Max

(* Only goes through the list once, keeping members in their order. *)
LEMMA OnlyStep ==
  ASSUME NEW E, NEW s \in Seq(E), NEW x \in E, NEW set
  PROVE  /\ Only(<<>>, set) = <<>>
         /\ x \in set => Only(Append(s, x), set) = Append(Only(s, set), x)
         /\ x \notin set => Only(Append(s, x), set) = Only(s, set)
<1>1. Only(<<>>, set) = <<>>
  BY OnlyFold, Kept!FoldEmpty
<1>2. Kept!Fold(set, <<>>, Append(s, x)) = KeepIf(set, Kept!Fold(set, <<>>, s), x)
  BY Kept!FoldAppend
<1> QED
  BY <1>1, <1>2, OnlyFold DEF KeepIf

(* It keeps what the list holds and what the set holds. *)
LEMMA OnlyTyped ==
  ASSUME NEW E, NEW s \in Seq(E), NEW set
  PROVE  Only(s, set) \in Seq(E) /\ Only(s, set) \in Seq(E \cap set)
<1>1. \A kept \in Seq(E \cap set), x \in E : KeepIf(set, kept, x) \in Seq(E \cap set)
  BY DEF KeepIf
<1>2. <<>> \in Seq(E \cap set)
  OBVIOUS
<1>3. Kept!Fold(set, <<>>, s) \in Seq(E \cap set)
  BY <1>1, <1>2, Kept!FoldType
<1>4. \A kept \in Seq(E), x \in E : KeepIf(set, kept, x) \in Seq(E)
  BY DEF KeepIf
<1>5. Kept!Fold(set, <<>>, s) \in Seq(E)
  <2>1. <<>> \in Seq(E)
    OBVIOUS
  <2> QED
    BY <1>4, <2>1, Kept!FoldType
<1> QED
  BY <1>3, <1>5, OnlyFold

(* It depends on the set where the list is. *)
LEMMA OnlyAgree ==
  ASSUME NEW E, NEW s \in Seq(E), NEW a, NEW b,
         \A i \in 1 .. Len(s) : s[i] \in a <=> s[i] \in b
  PROVE  Only(s, a) = Only(s, b)
<1> DEFINE P == {u \in Seq(E) :
                   (\A i \in 1 .. Len(u) : u[i] \in a <=> u[i] \in b) => Only(u, a) = Only(u, b)}
<1>1. <<>> \in P
  <2>1. Only(<<>>, a) = <<>> /\ Only(<<>>, b) = <<>>
    BY OnlyFold, Kept!FoldEmpty
  <2> QED
    BY <2>1
<1>2. ASSUME NEW u \in Seq(E), NEW x \in E, u \in P PROVE Append(u, x) \in P
  <2> DEFINE v == Append(u, x)
  <2>1. v \in Seq(E) /\ Len(v) = Len(u) + 1 /\ v[Len(v)] = x
        /\ \A i \in 1 .. Len(u) : v[i] = u[i]
    OBVIOUS
  <2> SUFFICES ASSUME \A i \in 1 .. Len(v) : v[i] \in a <=> v[i] \in b
               PROVE  Only(v, a) = Only(v, b)
    BY <2>1
  <2>2. x \in a <=> x \in b
    BY <2>1
  <2>3. Only(u, a) = Only(u, b)
    BY <1>2, <2>1
  <2>4. Only(v, a) = (IF x \in a THEN Append(Only(u, a), x) ELSE Only(u, a))
    BY OnlyStep
  <2>5. Only(v, b) = (IF x \in b THEN Append(Only(u, b), x) ELSE Only(u, b))
    BY OnlyStep
  <2> QED
    BY <2>2, <2>3, <2>4, <2>5
<1>3. Seq(E) \subseteq P
  <2> HIDE DEF P
  <2> QED
    BY <1>1, <1>2, Kept!SeqSetInduction
<1> QED
  BY <1>3

(* Selecting twice is selecting by both sets. *)
LEMMA OnlyOfOnly ==
  ASSUME NEW E, NEW s \in Seq(E), NEW a, NEW b
  PROVE  Only(Only(s, a), b) = Only(s, a \cap b)
<1> DEFINE P == {u \in Seq(E) : Only(Only(u, a), b) = Only(u, a \cap b)}
<1>1. <<>> \in P
  <2>1. \A set : Only(<<>>, set) = <<>>
    BY OnlyFold, Kept!FoldEmpty
  <2> QED
    BY <2>1
<1>2. ASSUME NEW u \in Seq(E), NEW x \in E, u \in P PROVE Append(u, x) \in P
  <2>1. Only(u, a) \in Seq(E)
    BY OnlyTyped
  <2>0. Only(Only(u, a), b) = Only(u, a \cap b)
    BY <1>2
  <2>2. CASE x \in a
    <3>1. Only(Append(u, x), a) = Append(Only(u, a), x)
      BY <2>2, OnlyStep
    <3>2. /\ x \in b => Only(Append(Only(u, a), x), b) = Append(Only(Only(u, a), b), x)
          /\ x \notin b => Only(Append(Only(u, a), x), b) = Only(Only(u, a), b)
      BY <2>1, OnlyStep
    <3>3. /\ x \in b => Only(Append(u, x), a \cap b) = Append(Only(u, a \cap b), x)
          /\ x \notin b => Only(Append(u, x), a \cap b) = Only(u, a \cap b)
      <4> DEFINE both == a \cap b
      <4>1. x \in b <=> x \in both
        BY <2>2
      <4> HIDE DEF both
      <4>2. /\ x \in both => Only(Append(u, x), both) = Append(Only(u, both), x)
            /\ x \notin both => Only(Append(u, x), both) = Only(u, both)
        BY OnlyStep
      <4> QED
        BY <4>1, <4>2 DEF both
    <3>4. Only(Only(Append(u, x), a), b) = Only(Append(u, x), a \cap b)
      <4> HIDE DEF P
      <4>1. CASE x \in b
        BY <2>0, <3>1, <3>2, <3>3, <4>1
      <4>2. CASE x \notin b
        BY <2>0, <3>1, <3>2, <3>3, <4>2
      <4> QED
        BY <4>1, <4>2
    <3>5. Append(u, x) \in Seq(E)
      OBVIOUS
    <3> QED
      BY <3>4, <3>5
  <2>3. CASE x \notin a
    BY <1>2, <2>3, OnlyStep
  <2> QED
    BY <2>2, <2>3
<1>3. Seq(E) \subseteq P
  <2> HIDE DEF P
  <2> QED
    BY <1>1, <1>2, Kept!SeqSetInduction
<1> QED
  BY <1>3

(* Counting by disjoint sets. *)
LEMMA OnlySplit ==
  ASSUME NEW E, NEW s \in Seq(E), NEW a, NEW b, a \cap b = {}
  PROVE  HowMany(s, a \cup b) = HowMany(s, a) + HowMany(s, b)
<1> DEFINE P == {u \in Seq(E) : HowMany(u, a \cup b) = HowMany(u, a) + HowMany(u, b)}
<1>1. <<>> \in P
  <2>1. \A set : Only(<<>>, set) = <<>>
    BY OnlyFold, Kept!FoldEmpty
  <2> QED
    BY <2>1 DEF HowMany
<1>2. ASSUME NEW u \in Seq(E), NEW x \in E, u \in P PROVE Append(u, x) \in P
  <2>0. \A set : Only(u, set) \in Seq(E) /\ Len(Only(u, set)) \in Nat
    <3>1. \A set : Only(u, set) \in Seq(E)
      BY OnlyTyped
    <3> QED
      BY <3>1
  <2>1. \A set : HowMany(Append(u, x), set) = HowMany(u, set) + (IF x \in set THEN 1 ELSE 0)
                 /\ HowMany(u, set) \in Nat
    <3> SUFFICES ASSUME NEW set
                 PROVE  HowMany(Append(u, x), set)
                          = HowMany(u, set) + (IF x \in set THEN 1 ELSE 0)
                        /\ HowMany(u, set) \in Nat
      OBVIOUS
    <3>1. CASE x \in set
      BY <2>0, <3>1, OnlyStep DEF HowMany
    <3>2. CASE x \notin set
      BY <2>0, <3>2, OnlyStep DEF HowMany
    <3> QED
      BY <3>1, <3>2
  <2>2. HowMany(u, a \cup b) = HowMany(u, a) + HowMany(u, b)
    BY <1>2
  <2>3. (IF x \in a \cup b THEN 1 ELSE 0) = (IF x \in a THEN 1 ELSE 0) + (IF x \in b THEN 1 ELSE 0)
    OBVIOUS
  <2> HIDE DEF P
  <2>4. HowMany(Append(u, x), a \cup b) = HowMany(Append(u, x), a) + HowMany(Append(u, x), b)
    BY <2>1, <2>2, <2>3
  <2> QED
    BY <2>4 DEF P
<1>3. Seq(E) \subseteq P
  <2> HIDE DEF P
  <2> QED
    BY <1>1, <1>2, Kept!SeqSetInduction
<1> QED
  BY <1>3

(* There is one of the set in the list or there is none. *)
LEMMA HowManyNone ==
  ASSUME NEW E, NEW s \in Seq(E), NEW set
  PROVE  /\ HowMany(s, set) \in Nat
         /\ HowMany(s, set) = 0 <=> \A i \in 1 .. Len(s) : s[i] \notin set
         /\ HowMany(s, set) = 0 => Only(s, set) = <<>>
<1> DEFINE P == {u \in Seq(E) : HowMany(u, set) = 0 <=> \A i \in 1 .. Len(u) : u[i] \notin set}
<1>0. \A u \in Seq(E) : Only(u, set) \in Seq(E)
  BY OnlyTyped
<1>1. <<>> \in P
  <2>1. Only(<<>>, set) = <<>>
    BY OnlyFold, Kept!FoldEmpty
  <2> QED
    BY <2>1 DEF HowMany
<1>2. ASSUME NEW u \in Seq(E), NEW x \in E, u \in P PROVE Append(u, x) \in P
  <2> DEFINE v == Append(u, x)
  <2>1. v \in Seq(E) /\ Len(v) = Len(u) + 1 /\ v[Len(v)] = x /\ Len(u) \in Nat
        /\ \A i \in 1 .. Len(u) : v[i] = u[i]
    OBVIOUS
  <2>2. CASE x \in set
    <3>1. Len(Only(v, set)) # 0
      BY <1>0, <2>2, OnlyStep
    <3>2. v[Len(v)] \in set /\ Len(v) \in 1 .. Len(v)
      BY <2>1, <2>2
    <3> QED
      BY <2>1, <3>1, <3>2 DEF HowMany
  <2>3. CASE x \notin set
    <3>1. HowMany(v, set) = HowMany(u, set)
      BY <2>3, OnlyStep DEF HowMany
    <3>2. (\A i \in 1 .. Len(v) : v[i] \notin set) <=> (\A i \in 1 .. Len(u) : u[i] \notin set)
      BY <2>1, <2>3
    <3> QED
      BY <1>2, <2>1, <3>1, <3>2
  <2> QED
    BY <2>2, <2>3
<1>3. Seq(E) \subseteq P
  <2> HIDE DEF P
  <2> QED
    BY <1>1, <1>2, Kept!SeqSetInduction
<1> QED
  BY <1>0, <1>3 DEF HowMany

-----------------------------------------------------------------------------
(* Where a path is first mentioned, and what is of a path. *)

(* The first index with a property, when the indices with it are I. *)
LEMMA LeastIndex ==
  ASSUME NEW n \in Nat, NEW I, I \subseteq 1 .. n, I # {}
  PROVE  Min(I) \in I /\ \A j \in I : Min(I) <= j
<1>1. \E m \in I : \A j \in I : m <= j
  <2>1. I \subseteq Nat
    OBVIOUS
  <2> QED
    BY <2>1, Kept!LeastOf
<1> QED
  BY <1>1 DEF Min

(* The first mention of a path is a mention, and the earliest. *)
LEMMA FirstMentionIs ==
  ASSUME NEW E, NEW s \in Seq(E), NEW path
  PROVE  /\ FirstMention(s, path) \in 0 .. Len(s)
         /\ FirstMention(s, path) # 0 => s[FirstMention(s, path)].path = path
         /\ \A i \in 1 .. Len(s) :
              s[i].path = path => FirstMention(s, path) # 0 /\ FirstMention(s, path) <= i
<1> DEFINE I == {i \in 1 .. Len(s) : s[i].path = path}
<1>1. FirstMention(s, path) = IF I # {} THEN Min(I) ELSE 0
  BY DEF FirstMention, SelectInSeq
<1>2. I \subseteq 1 .. Len(s) /\ Len(s) \in Nat
  OBVIOUS
<1>3. CASE I = {}
  BY <1>1, <1>2, <1>3
<1>4. CASE I # {}
  <2>1. Min(I) \in I /\ \A j \in I : Min(I) <= j
    <3> HIDE DEF I
    <3> QED
      BY <1>2, <1>4, LeastIndex
  <2> DEFINE m == Min(I)
  <2>2. m \in 1 .. Len(s) /\ s[m].path = path
    BY <2>1
  <2>3. \A i \in 1 .. Len(s) : s[i].path = path => m <= i
    BY <2>1
  <2>4. FirstMention(s, path) = m
    BY <1>1, <1>4
  <2> HIDE DEF I, m
  <2> QED
    BY <1>2, <2>2, <2>3, <2>4
<1> QED
  BY <1>3, <1>4

(* One entry more does not move the first mention of a path, ... *)
LEMMA FirstMentionKept ==
  ASSUME NEW E, NEW s \in Seq(E), NEW x \in E, NEW path, FirstMention(s, path) # 0
  PROVE  FirstMention(Append(s, x), path) = FirstMention(s, path)
<1> DEFINE v == Append(s, x)
           m == FirstMention(s, path)
           n == FirstMention(v, path)
<1>1. v \in Seq(E) /\ Len(v) = Len(s) + 1 /\ Len(s) \in Nat
      /\ \A i \in 1 .. Len(s) : v[i] = s[i]
  OBVIOUS
<1>2. m \in 1 .. Len(s) /\ s[m].path = path
      /\ \A i \in 1 .. Len(s) : s[i].path = path => m <= i
  BY FirstMentionIs
<1>3. n \in 0 .. Len(v) /\ (n # 0 => v[n].path = path)
      /\ \A i \in 1 .. Len(v) : v[i].path = path => n # 0 /\ n <= i
  BY <1>1, FirstMentionIs
<1> HIDE DEF v, m, n
<1>4. v[m].path = path /\ m \in 1 .. Len(v)
  BY <1>1, <1>2
<1>5. n # 0 /\ n <= m
  BY <1>3, <1>4
<1>6. n \in 1 .. Len(s) /\ s[n].path = path
  BY <1>1, <1>2, <1>3, <1>5
<1>7. m <= n
  BY <1>2, <1>6
<1>8. n = m
  BY <1>2, <1>5, <1>6, <1>7
<1> QED
  BY <1>8 DEF v, m, n

(* ... and is the first mention of its own if there is no other. *)
LEMMA FirstMentionNew ==
  ASSUME NEW E, NEW s \in Seq(E), NEW x \in E, FirstMention(s, x.path) = 0
  PROVE  FirstMention(Append(s, x), x.path) = Len(s) + 1
<1> DEFINE v == Append(s, x)
           path == x.path
           n == FirstMention(v, path)
<1>1. v \in Seq(E) /\ Len(v) = Len(s) + 1 /\ Len(s) \in Nat /\ v[Len(s) + 1].path = path
      /\ \A i \in 1 .. Len(s) : v[i] = s[i]
  OBVIOUS
<1>2. \A i \in 1 .. Len(s) : s[i].path # path
  BY FirstMentionIs
<1>3. n \in 0 .. Len(v) /\ (n # 0 => v[n].path = path)
      /\ \A i \in 1 .. Len(v) : v[i].path = path => n # 0 /\ n <= i
  BY <1>1, FirstMentionIs
<1> HIDE DEF v, path, n
<1>4. n # 0 /\ v[n].path = path
  BY <1>1, <1>3
<1>5. n = Len(s) + 1
  BY <1>1, <1>2, <1>3, <1>4
<1> QED
  BY <1>5 DEF v, path, n

(* The entries of one path are those of the list with that path. *)
LEMMA OfPathIs ==
  ASSUME NEW s \in Seq(LineSet), NEW path
  PROVE  OfPath(s, path) = Only(s, Of(path))
<1> DEFINE S == {entry \in Range(s) : entry.path = path}
<1>1. \A i \in 1 .. Len(s) : s[i] \in S <=> s[i] \in Of(path)
  BY DEF Of, Range
<1> HIDE DEF S
<1>2. Only(s, S) = Only(s, Of(path))
  BY <1>1, OnlyAgree
<1> QED
  BY <1>2 DEF OfPath, S

-----------------------------------------------------------------------------
(* What group_by_path does with the entries. *)

Named(group) == group[1].path

(* The groups of the entries s: each has all the entries for its path in  *)
(* the order of s, none is empty, they are in the order of the first      *)
(* mention of their paths, and every entry is in one.                     *)
Grouped(s, gs) ==
  /\ gs \in Seq(Seq(LineSet) \ {<<>>})
  /\ \A n \in 1 .. Len(gs) :
       /\ gs[n] = Only(s, Of(Named(gs[n])))
       /\ FirstMention(s, Named(gs[n])) # 0
       /\ \A m \in 1 .. Len(gs) :
            m < n => FirstMention(s, Named(gs[m])) < FirstMention(s, Named(gs[n]))
  /\ \A i \in 1 .. Len(s) : \E n \in 1 .. Len(gs) : Named(gs[n]) = s[i].path

(* The group an entry joins. *)
LEMMA PlaceIs ==
  ASSUME NEW gs \in Seq(Seq(LineSet) \ {<<>>}), NEW x
  PROVE  \/ /\ \A n \in 1 .. Len(gs) : Named(gs[n]) # x.path
            /\ Place(gs, x) = Append(gs, <<x>>)
         \/ \E n \in 1 .. Len(gs) :
              /\ Named(gs[n]) = x.path
              /\ Place(gs, x) = [gs EXCEPT ![n] = Append(gs[n], x)]
<1> DEFINE I == {i \in 1 .. Len(gs) : Named(gs[i]) = x.path}
           k == SelectInSeq(gs, LAMBDA group : group[1].path = x.path)
<1>1. k = IF I # {} THEN Min(I) ELSE 0
  BY DEF SelectInSeq, Named
<1>2. I \subseteq 1 .. Len(gs) /\ Len(gs) \in Nat
  OBVIOUS
<1>3. Place(gs, x) = IF k = 0 THEN Append(gs, <<x>>)
                     ELSE [gs EXCEPT ![k] = Append(gs[k], x)]
  BY DEF Place
<1>4. CASE I = {}
  <2>1. \A n \in 1 .. Len(gs) : Named(gs[n]) # x.path
    BY <1>4
  <2> HIDE DEF k, I
  <2> QED
    BY <1>1, <1>3, <1>4, <2>1
<1>5. CASE I # {}
  <2>1. Min(I) \in I
    <3> HIDE DEF I
    <3> QED
      BY <1>2, <1>5, LeastIndex
  <2>2. k \in I
    BY <1>1, <1>5, <2>1
  <2>3. k \in 1 .. Len(gs) /\ Named(gs[k]) = x.path /\ k # 0
    BY <2>2
  <2> HIDE DEF k, I
  <2> QED
    BY <1>3, <2>3
<1> QED
  BY <1>4, <1>5

(* Place puts the next entry at the end of its path's group, or opens a *)
(* group behind the others: the groups hold the entries read so far, by *)
(* first mention.                                                       *)
LEMMA GroupedStep ==
  ASSUME NEW s \in Seq(LineSet), NEW x \in LineSet, NEW gs, Grouped(s, gs)
  PROVE  Grouped(Append(s, x), Place(gs, x))
<1> DEFINE v == Append(s, x)
           hs == Place(gs, x)
           G == Seq(LineSet) \ {<<>>}
<1>0. gs \in Seq(G) /\ Len(gs) \in Nat /\ Len(s) \in Nat
  BY DEF Grouped
<1>1. v \in Seq(LineSet) /\ Len(v) = Len(s) + 1 /\ v[Len(s) + 1] = x
      /\ \A i \in 1 .. Len(s) : v[i] = s[i]
  OBVIOUS
<1>2. \A n \in 1 .. Len(gs) :
        /\ gs[n] \in G
        /\ gs[n] = Only(s, Of(Named(gs[n])))
        /\ FirstMention(s, Named(gs[n])) # 0
        /\ FirstMention(v, Named(gs[n])) = FirstMention(s, Named(gs[n]))
  <2> SUFFICES ASSUME NEW n \in 1 .. Len(gs)
               PROVE  /\ gs[n] \in G
                      /\ gs[n] = Only(s, Of(Named(gs[n])))
                      /\ FirstMention(s, Named(gs[n])) # 0
                      /\ FirstMention(v, Named(gs[n])) = FirstMention(s, Named(gs[n]))
    OBVIOUS
  <2>1. gs[n] \in G
    <3> HIDE DEF G
    <3> QED
      BY <1>0
  <2>2. gs[n] = Only(s, Of(Named(gs[n]))) /\ FirstMention(s, Named(gs[n])) # 0
    BY DEF Grouped
  <2>3. FirstMention(v, Named(gs[n])) = FirstMention(s, Named(gs[n]))
    BY <2>2, FirstMentionKept
  <2> QED
    BY <2>1, <2>2, <2>3
<1>3. \A path : Only(v, Of(path)) = IF path = x.path THEN Append(Only(s, Of(path)), x)
                                    ELSE Only(s, Of(path))
  <2> SUFFICES ASSUME NEW path
               PROVE  Only(v, Of(path)) = IF path = x.path THEN Append(Only(s, Of(path)), x)
                                          ELSE Only(s, Of(path))
    OBVIOUS
  <2>1. x \in Of(path) <=> path = x.path
    BY DEF Of
  <2> QED
    BY <2>1, OnlyStep
<1>4. CASE /\ \A n \in 1 .. Len(gs) : Named(gs[n]) # x.path
           /\ hs = Append(gs, <<x>>)
  <2>1. \A i \in 1 .. Len(s) : s[i].path # x.path
    BY <1>4 DEF Grouped
  <2>2. FirstMention(s, x.path) = 0
    BY <1>0, <2>1, FirstMentionIs
  <2>3. FirstMention(v, x.path) = Len(s) + 1
    BY <2>2, FirstMentionNew
  <2>4. Only(s, Of(x.path)) = <<>>
    <3>1. \A i \in 1 .. Len(s) : s[i] \notin Of(x.path)
      BY <2>1 DEF Of
    <3> QED
      BY <3>1, HowManyNone
  <2>5. Only(v, Of(x.path)) = <<x>>
    <3>1. Only(v, Of(x.path)) = Append(<<>>, x)
      BY <1>3, <2>4
    <3> QED
      BY <3>1
  <2>6. /\ hs \in Seq(G) /\ Len(hs) = Len(gs) + 1 /\ hs[Len(gs) + 1] = <<x>>
        /\ \A n \in 1 .. Len(gs) : hs[n] = gs[n]
    <3>1. <<x>> \in G
      OBVIOUS
    <3> HIDE DEF G
    <3> QED
      BY <1>0, <1>4, <3>1
  <2>7. Named(hs[Len(gs) + 1]) = x.path
    BY <2>6 DEF Named
  <2>8. \A n \in 1 .. Len(gs) :
          /\ hs[n] = Only(v, Of(Named(hs[n])))
          /\ FirstMention(v, Named(hs[n])) \in 1 .. Len(s)
    <3> SUFFICES ASSUME NEW n \in 1 .. Len(gs)
                 PROVE  /\ hs[n] = Only(v, Of(Named(hs[n])))
                        /\ FirstMention(v, Named(hs[n])) \in 1 .. Len(s)
      OBVIOUS
    <3>1. hs[n] = gs[n] /\ Named(gs[n]) # x.path
      BY <1>4, <2>6
    <3>2. FirstMention(s, Named(gs[n])) \in 0 .. Len(s)
      BY FirstMentionIs
    <3> QED
      BY <1>0, <1>2, <1>3, <3>1, <3>2
  <2> HIDE DEF v, hs, G
  <2>9. ASSUME NEW n \in 1 .. Len(hs)
        PROVE  /\ hs[n] = Only(v, Of(Named(hs[n])))
               /\ FirstMention(v, Named(hs[n])) # 0
               /\ \A m \in 1 .. Len(hs) :
                    m < n => FirstMention(v, Named(hs[m])) < FirstMention(v, Named(hs[n]))
    <3>1. CASE n = Len(gs) + 1
      <4>1. hs[n] = Only(v, Of(Named(hs[n]))) /\ FirstMention(v, Named(hs[n])) = Len(s) + 1
        BY <2>3, <2>5, <2>6, <2>7, <3>1
      <4>2. \A m \in 1 .. Len(hs) : m < n => m \in 1 .. Len(gs)
        BY <1>0, <2>6, <3>1
      <4> QED
        BY <1>0, <2>8, <4>1, <4>2
    <3>2. CASE n \in 1 .. Len(gs)
      <4>1. \A m \in 1 .. Len(hs) : m < n => m \in 1 .. Len(gs)
        BY <1>0, <2>6, <3>2
      <4>2. \A m \in 1 .. Len(gs) :
              m < n => FirstMention(s, Named(gs[m])) < FirstMention(s, Named(gs[n]))
        BY <3>2 DEF Grouped
      <4>3. \A m \in 1 .. Len(gs) : FirstMention(v, Named(hs[m])) = FirstMention(s, Named(gs[m]))
        BY <1>2, <2>6
      <4> QED
        BY <1>0, <2>8, <3>2, <4>1, <4>2, <4>3
    <3> QED
      BY <1>0, <2>6, <3>1, <3>2
  <2>10. ASSUME NEW i \in 1 .. Len(v)
         PROVE  \E n \in 1 .. Len(hs) : Named(hs[n]) = v[i].path
    <3>1. CASE i = Len(s) + 1
      <4>1. v[i].path = x.path /\ Len(gs) + 1 \in 1 .. Len(hs)
        BY <1>0, <1>1, <2>6, <3>1
      <4> QED
        BY <2>7, <4>1
    <3>2. CASE i \in 1 .. Len(s)
      <4>1. PICK n \in 1 .. Len(gs) : Named(gs[n]) = s[i].path
        BY <3>2 DEF Grouped
      <4> QED
        BY <1>0, <1>1, <2>6, <3>2, <4>1
    <3> QED
      BY <1>0, <1>1, <3>1, <3>2
  <2> QED
    BY <2>6, <2>9, <2>10 DEF Grouped, v, hs, G
<1>5. CASE \E n \in 1 .. Len(gs) : /\ Named(gs[n]) = x.path
                                   /\ hs = [gs EXCEPT ![n] = Append(gs[n], x)]
  <2>1. PICK k \in 1 .. Len(gs) : /\ Named(gs[k]) = x.path
                                  /\ hs = [gs EXCEPT ![k] = Append(gs[k], x)]
    BY <1>5
  <2>2. Append(gs[k], x) \in G /\ Named(Append(gs[k], x)) = Named(gs[k])
    <3>1. gs[k] \in Seq(LineSet) /\ gs[k] # <<>>
      BY <1>2
    <3>2. Append(gs[k], x)[1] = gs[k][1]
      BY <3>1
    <3> QED
      BY <3>1, <3>2 DEF Named
  <2>3. /\ hs \in Seq(G) /\ Len(hs) = Len(gs) /\ hs[k] = Append(gs[k], x)
        /\ \A n \in 1 .. Len(gs) : n # k => hs[n] = gs[n]
    <3> HIDE DEF G
    <3> QED
      BY <1>0, <2>1, <2>2
  <2>4. \A n \in 1 .. Len(gs) : Named(hs[n]) = Named(gs[n])
    BY <2>2, <2>3
  <2>5. \A n \in 1 .. Len(gs) : n # k => Named(gs[n]) # x.path
    <3> SUFFICES ASSUME NEW n \in 1 .. Len(gs), n # k, Named(gs[n]) = x.path PROVE FALSE
      OBVIOUS
    <3>1. FirstMention(s, Named(gs[n])) = FirstMention(s, Named(gs[k]))
      BY <2>1
    <3>2. n < k \/ k < n
      OBVIOUS
    <3>3. FirstMention(s, x.path) < FirstMention(s, x.path)
      BY <2>1, <3>2 DEF Grouped
    <3>4. FirstMention(s, x.path) \in 0 .. Len(s)
      BY FirstMentionIs
    <3> QED
      BY <3>3, <3>4
  <2> HIDE DEF v, hs, G
  <2>6. ASSUME NEW n \in 1 .. Len(hs)
        PROVE  /\ hs[n] = Only(v, Of(Named(hs[n])))
               /\ FirstMention(v, Named(hs[n])) # 0
               /\ \A m \in 1 .. Len(hs) :
                    m < n => FirstMention(v, Named(hs[m])) < FirstMention(v, Named(hs[n]))
    <3>1. hs[n] = Only(v, Of(Named(hs[n])))
      <4>1. CASE n = k
        BY <1>2, <1>3, <2>1, <2>3, <2>4, <4>1
      <4>2. CASE n # k
        BY <1>2, <1>3, <2>3, <2>4, <2>5, <4>2
      <4> QED
        BY <4>1, <4>2
    <3>2. FirstMention(v, Named(hs[n])) # 0
      BY <1>2, <2>3, <2>4
    <3>3. \A m \in 1 .. Len(gs) :
            m < n => FirstMention(s, Named(gs[m])) < FirstMention(s, Named(gs[n]))
      BY <2>3 DEF Grouped
    <3> QED
      BY <1>2, <2>3, <2>4, <3>1, <3>2, <3>3
  <2>7. ASSUME NEW i \in 1 .. Len(v)
        PROVE  \E n \in 1 .. Len(hs) : Named(hs[n]) = v[i].path
    <3>1. CASE i = Len(s) + 1
      BY <1>0, <1>1, <2>1, <2>3, <2>4, <3>1
    <3>2. CASE i \in 1 .. Len(s)
      <4>1. PICK n \in 1 .. Len(gs) : Named(gs[n]) = s[i].path
        BY <3>2 DEF Grouped
      <4> QED
        BY <1>1, <2>3, <2>4, <3>2, <4>1
    <3> QED
      BY <1>0, <1>1, <3>1, <3>2
  <2> QED
    BY <2>3, <2>6, <2>7 DEF Grouped, v, hs, G
<1> QED
  BY <1>0, <1>4, <1>5, PlaceIs

(* group_by_path, for every list of entries. *)
LEMMA GroupByPathGroups ==
  ASSUME NEW s \in Seq(LineSet)
  PROVE  Grouped(s, GroupByPath(s))
<1> DEFINE F(u) == Grouping!Fold({}, <<>>, u)
           P == {u \in Seq(LineSet) : Grouped(u, F(u))}
<1>1. <<>> \in P
  <2>1. F(<<>>) = <<>>
    BY Grouping!FoldEmpty
  <2>2. <<>> \in Seq(LineSet) /\ <<>> \in Seq(Seq(LineSet) \ {<<>>}) /\ Len(<<>>) = 0
    OBVIOUS
  <2>3. 1 .. 0 = {}
    OBVIOUS
  <2> QED
    BY <2>1, <2>2, <2>3 DEF Grouped
<1>2. ASSUME NEW u \in Seq(LineSet), NEW x \in LineSet, u \in P PROVE Append(u, x) \in P
  <2>1. F(Append(u, x)) = Place(F(u), x)
    BY Grouping!FoldAppend DEF PlaceEntry
  <2>2. Append(u, x) \in Seq(LineSet) /\ Grouped(u, F(u))
    BY <1>2
  <2> HIDE DEF F
  <2> QED
    BY <2>1, <2>2, GroupedStep
<1>3. Seq(LineSet) \subseteq P
  <2> HIDE DEF P
  <2> QED
    BY <1>1, <1>2, Grouping!SeqSetInduction
<1>4. GroupByPath(s) = F(s)
  BY DEF GroupByPath, PlaceEntry, Grouping!Fold, Grouping!FoldLeft, Grouping!MapThenFoldSet,
         Grouping!Max, FoldLeft, MapThenFoldSet, Max
<1> QED
  BY <1>3, <1>4

-----------------------------------------------------------------------------
(* How far the verification is. *)

Paths == {x.path : x \in LineSet}
Read  == [path : Paths, content : Contents \cup {"error"}]

Busy == pc \in {"judge", "detail", "unreadable"}

(* The groups are those of the manifest; the paths of the groups before g *)
(* have been read, in their order, and that of group g as soon as it is   *)
(* being judged.                                                          *)
Progress ==
  /\ manifest \in Manifests
  /\ pc \in {"manifest", "group", "judge", "detail", "unreadable", "reported"}
  /\ pc = "manifest" => groups = <<>> /\ g = 1
  /\ pc # "manifest" => Grouped(Listed, groups)
  /\ groups \in Seq(Seq(LineSet) \ {<<>>})
  /\ g \in 1 .. Len(groups) + 1
  /\ Busy => g <= Len(groups) /\ e \in 1 .. Len(groups[g]) + 1
  /\ pc = "reported" => g = Len(groups) + 1
  /\ reads \in Seq(Read)
  /\ Len(reads) = IF Busy THEN g ELSE g - 1
  /\ \A n \in 1 .. Len(reads) : reads[n].path = Named(groups[n])
  /\ pc \in {"judge", "detail"} => reads[g].content \in Contents
  /\ pc = "unreadable" => reads[g].content = "error"
  /\ pc = "detail" => e <= Len(groups[g]) /\ ~Matches(groups[g][e], reads[g].content)

(* What check() judges are lines of the manifest. *)
LEMMA ListedTyped ==
  ASSUME manifest \in Manifests
  PROVE  manifest.lines \in Seq(LineSet) /\ Listed \in Seq(LineSet)
<1>1. manifest.lines \in Seq(Range(manifest.lines))
  BY ManifestAssumption
<1>2. Range(manifest.lines) \subseteq LineSet
  BY DEF LineSet
<1>3. manifest.lines \in Seq(LineSet)
  <2> DEFINE R == Range(manifest.lines)
             t == manifest.lines
  <2> HIDE DEF R, t
  <2>1. t \in Seq(R) /\ R \subseteq LineSet
    BY <1>1, <1>2 DEF R, t
  <2>2. t \in Seq(LineSet)
    BY <2>1
  <2> QED
    BY <2>2 DEF t
<1> QED
  BY <1>3, OnlyTyped DEF Listed, Entries

(* Nothing has been placed or read. *)
LEMMA InitProgress == Init => Progress
<1> SUFFICES ASSUME Init PROVE Progress
  OBVIOUS
<1>1. /\ manifest \in Manifests /\ pc = "manifest" /\ groups = <<>> /\ g = 1
      /\ reads = <<>>
  BY DEF Init
<1>2. groups \in Seq(Seq(LineSet) \ {<<>>}) /\ reads \in Seq(Read) /\ Len(groups) = 0
      /\ Len(reads) = 0
  BY <1>1
<1>3. ~Busy
  BY <1>1 DEF Busy
<1> QED
  BY <1>1, <1>2, <1>3 DEF Progress

(* Group g, when there is one. *)
LEMMA GroupTyped ==
  ASSUME Progress, g <= Len(groups)
  PROVE  /\ Group = groups[g] /\ Path = Named(groups[g])
         /\ groups[g] \in Seq(LineSet) /\ groups[g] # <<>> /\ Len(groups[g]) \in Nat
         /\ Path \in Paths
         /\ pc # "manifest" => groups[g] = Only(Listed, Of(Path))
<1>1. g \in 1 .. Len(groups) /\ groups \in Seq(Seq(LineSet) \ {<<>>})
  BY DEF Progress
<1>2. groups[g] \in Seq(LineSet) \ {<<>>}
  <2> DEFINE G == Seq(LineSet) \ {<<>>}
  <2> HIDE DEF G
  <2>1. groups[g] \in G
    BY <1>1 DEF G
  <2> QED
    BY <2>1 DEF G
<1>3. groups[g][1] \in LineSet
  BY <1>2
<1>4. Group = groups[g] /\ Path = Named(groups[g])
  BY DEF Group, Path, Named
<1>5. Path \in Paths
  BY <1>3, <1>4 DEF Paths, Named
<1>6. pc # "manifest" => groups[g] = Only(Listed, Of(Path))
  BY <1>1, <1>4 DEF Progress, Grouped
<1> QED
  BY <1>2, <1>4, <1>5, <1>6

(* The group being judged is that of the last file read. *)
LEMMA LastRead ==
  ASSUME Progress, Busy
  PROVE  Last(reads) = reads[g] /\ g \in 1 .. Len(reads) /\ reads[g] \in Read
<1>1. reads \in Seq(Read) /\ Len(reads) = g /\ g \in Nat /\ g >= 1
  BY DEF Progress
<1> QED
  BY <1>1 DEF Last

(* Every action keeps the groups those of the lines placed, and one read *)
(* per group reached.                                                    *)
LEMMA ProgressStep == Progress /\ [Next]_vars => Progress'
<1> SUFFICES ASSUME Progress, [Next]_vars PROVE Progress'
  OBVIOUS
<1>t. groups \in Seq(Seq(LineSet) \ {<<>>}) /\ Len(groups) \in Nat
      /\ reads \in Seq(Read) /\ Len(reads) \in Nat /\ g \in 1 .. Len(groups) + 1
  BY DEF Progress
<1>l. manifest' = manifest => Listed' = Listed
  BY DEF Listed
<1>m. manifest' = manifest
  BY DEF Next, Program, Environment, Exit, ParseManifest, RejectManifest, ReadGroup, ReadFails,
         PrintOk, PrintFailed, ReportMismatch, GroupDone, PrintUnreadable, ReportUnreadable,
         ReportCounts, Finish, verifyVars, vars
<1>1. CASE ParseManifest
  <2>1. groups' = GroupByPath(Listed) /\ g' = g /\ reads' = reads /\ pc' = "group"
        /\ pc = "manifest"
    BY <1>1 DEF ParseManifest, Listed
  <2>2. Listed \in Seq(LineSet)
    BY ListedTyped DEF Progress
  <2>3. Grouped(Listed, groups')
    BY <2>1, <2>2, GroupByPathGroups
  <2>4. groups' \in Seq(Seq(LineSet) \ {<<>>}) /\ Len(groups') \in Nat
    BY <2>3 DEF Grouped
  <2>5. g = 1 /\ Len(reads) = 0
    BY <2>1 DEF Progress, Busy
  <2> QED
    BY <1>l, <1>m, <1>t, <2>1, <2>3, <2>4, <2>5 DEF Progress, Busy
<1>2. CASE ReadGroup
  <2>1. PICK content \in (IF Path = "-" /\ ~stdin THEN {Empty} ELSE Contents) :
             reads' = Append(reads, [path |-> Path, content |-> content])
    BY <1>2 DEF ReadGroup
  <2>2. content \in Contents
    BY <2>1, ManifestAssumption
  <2>3. pc = "group" /\ g <= Len(groups) /\ pc' = "judge" /\ e' = 1
        /\ groups' = groups /\ g' = g
    BY <1>2 DEF ReadGroup
  <2> DEFINE r == [path |-> Path, content |-> content]
  <2>4. r \in Read /\ Path = Named(groups[g]) /\ Len(groups[g]) \in Nat
    BY <2>2, <2>3, GroupTyped DEF Read
  <2>5. r.path = Path /\ r.content = content
    OBVIOUS
  <2> HIDE DEF r
  <2>6. Len(reads) = g - 1
    BY <2>3 DEF Progress, Busy
  <2>7. reads' \in Seq(Read) /\ Len(reads') = g /\ reads'[g] = r
        /\ \A n \in 1 .. g - 1 : reads'[n] = reads[n]
    BY <1>t, <2>1, <2>4, <2>6 DEF r
  <2>8. \A n \in 1 .. Len(reads') : reads'[n].path = Named(groups[n])
    BY <1>t, <2>4, <2>5, <2>6, <2>7 DEF Progress
  <2> QED
    BY <1>l, <1>m, <1>t, <2>2, <2>3, <2>4, <2>5, <2>7, <2>8 DEF Progress, Busy
<1>3. CASE ReadFails
  <2>3. pc = "group" /\ g <= Len(groups) /\ pc' = "unreadable" /\ e' = 1
        /\ groups' = groups /\ g' = g
        /\ reads' = Append(reads, [path |-> Path, content |-> "error"])
    BY <1>3 DEF ReadFails
  <2> DEFINE r == [path |-> Path, content |-> "error"]
  <2>4. r \in Read /\ Path = Named(groups[g]) /\ Len(groups[g]) \in Nat
    BY <2>3, GroupTyped DEF Read
  <2>5. r.path = Path /\ r.content = "error"
    OBVIOUS
  <2> HIDE DEF r
  <2>6. Len(reads) = g - 1
    BY <2>3 DEF Progress, Busy
  <2>7. reads' \in Seq(Read) /\ Len(reads') = g /\ reads'[g] = r
        /\ \A n \in 1 .. g - 1 : reads'[n] = reads[n]
    BY <1>t, <2>3, <2>4, <2>6 DEF r
  <2>8. \A n \in 1 .. Len(reads') : reads'[n].path = Named(groups[n])
    BY <1>t, <2>4, <2>5, <2>6, <2>7 DEF Progress
  <2> QED
    BY <1>l, <1>m, <1>t, <2>3, <2>4, <2>5, <2>7, <2>8 DEF Progress, Busy
<1>a. ASSUME UNCHANGED <<groups, g, reads>>, Busy, pc' = pc, pc # "detail",
             e' \in 1 .. Len(groups[g]) + 1
      PROVE  Progress'
  BY <1>l, <1>m, <1>a DEF Progress, Busy
<1>4. CASE PrintOk
  <2>1. UNCHANGED <<groups, g, reads, pc>> /\ pc = "judge" /\ e <= Len(Group) /\ e' = e + 1
    BY <1>4 DEF PrintOk
  <2>2. Busy /\ g <= Len(groups) /\ e \in 1 .. Len(groups[g]) + 1
    BY <2>1 DEF Progress, Busy
  <2>3. Len(groups[g]) \in Nat /\ Group = groups[g]
    BY <2>2, GroupTyped
  <2>4. e' \in 1 .. Len(groups[g]) + 1
    BY <2>1, <2>2, <2>3
  <2> QED
    BY <1>a, <2>1, <2>2, <2>4
<1>5. CASE PrintFailed
  <2>1. UNCHANGED <<groups, g, reads, e>> /\ pc = "judge" /\ pc' = "detail"
        /\ e <= Len(Group) /\ ~Matches(Group[e], Last(reads).content)
    BY <1>5 DEF PrintFailed
  <2>2. Busy /\ g <= Len(groups)
    BY <2>1 DEF Progress, Busy
  <2>3. Group = groups[g] /\ Last(reads) = reads[g]
    BY <2>2, GroupTyped, LastRead
  <2> QED
    BY <1>l, <1>m, <2>1, <2>2, <2>3 DEF Progress, Busy
<1>6. CASE ReportMismatch
  <2>1. UNCHANGED <<groups, g, reads>> /\ pc = "detail" /\ pc' = "judge" /\ e' = e + 1
    BY <1>6 DEF ReportMismatch
  <2>2. Busy /\ g <= Len(groups) /\ e \in 1 .. Len(groups[g]) + 1 /\ e <= Len(groups[g])
    BY <2>1 DEF Progress, Busy
  <2>3. e' \in 1 .. Len(groups[g]) + 1
    BY <2>1, <2>2, GroupTyped
  <2> QED
    BY <1>l, <1>m, <2>1, <2>2, <2>3 DEF Progress, Busy
<1>b. ASSUME UNCHANGED <<groups, reads>>, Busy, pc' = "group", g' = g + 1
      PROVE  Progress'
  BY <1>l, <1>m, <1>t, <1>b DEF Progress, Busy
<1>7. CASE GroupDone
  BY <1>b, <1>7 DEF GroupDone, Busy
<1>8. CASE PrintUnreadable
  <2>1. UNCHANGED <<groups, g, reads, pc>> /\ pc = "unreadable" /\ e <= Len(Group)
        /\ e' = e + 1
    BY <1>8 DEF PrintUnreadable
  <2>2. Busy /\ g <= Len(groups) /\ e \in 1 .. Len(groups[g]) + 1
    BY <2>1 DEF Progress, Busy
  <2>3. Len(groups[g]) \in Nat /\ Group = groups[g]
    BY <2>2, GroupTyped
  <2>4. e' \in 1 .. Len(groups[g]) + 1
    BY <2>1, <2>2, <2>3
  <2> QED
    BY <1>a, <2>1, <2>2, <2>4
<1>9. CASE ReportUnreadable
  BY <1>b, <1>9 DEF ReportUnreadable, Busy
<1>10. CASE ReportCounts
  <2>1. UNCHANGED <<groups, g, reads, e>> /\ pc = "group" /\ pc' = "reported"
        /\ g > Len(groups)
    BY <1>10 DEF ReportCounts
  <2>2. g = Len(groups) + 1
    BY <1>t, <2>1
  <2> QED
    BY <1>l, <1>m, <2>1, <2>2 DEF Progress, Busy
<1>c. ASSUME UNCHANGED verifyVars PROVE Progress'
  BY <1>l, <1>c DEF verifyVars, Progress, Busy
<1>11. CASE RejectManifest \/ Finish \/ Exit \/ Environment
  BY <1>c, <1>11 DEF RejectManifest, Finish, Exit, Environment
<1>12. CASE UNCHANGED vars
  BY <1>c, <1>12 DEF vars, verifyVars
<1> QED
  BY <1>1, <1>2, <1>3, <1>4, <1>5, <1>6, <1>7, <1>8, <1>9, <1>10, <1>11, <1>12
     DEF Next, Program

(* check.rs:13-14 and :173-174, for any number of entries and however the *)
(* paths are mixed: no path is hashed twice, and paths are hashed in the  *)
(* order they are first mentioned.                                        *)
THEOREM EachPathReadOnceAlways == Spec => []EachPathReadOnce
<1>1. Progress => EachPathReadOnce
  <2> SUFFICES ASSUME Progress, NEW m \in DOMAIN reads, NEW n \in DOMAIN reads
               PROVE  /\ FirstMention(Listed, reads[m].path) # 0
                      /\ m < n => FirstMention(Listed, reads[m].path)
                                    < FirstMention(Listed, reads[n].path)
    BY DEF EachPathReadOnce
  <2>1. m \in 1 .. Len(reads) /\ n \in 1 .. Len(reads) /\ Len(reads) \in Nat
    BY DEF Progress
  <2>2. Len(reads) <= Len(groups) /\ Len(groups) \in Nat
    BY DEF Progress
  <2>3. m \in 1 .. Len(groups) /\ n \in 1 .. Len(groups)
    BY <2>1, <2>2
  <2>4. reads[m].path = Named(groups[m]) /\ reads[n].path = Named(groups[n])
    BY <2>1 DEF Progress
  <2>5. Grouped(Listed, groups)
    BY <2>1, <2>2 DEF Progress
  <2> QED
    BY <2>3, <2>4, <2>5 DEF Grouped
<1> QED
  BY <1>1, InitProgress, ProgressStep, PTL DEF Spec

-----------------------------------------------------------------------------
(* The two counters, which decide the exit status.                        *)

Unlike(content) == {x \in LineSet : ~Matches(x, content)}

(* The lines whose path is among the first n reads of rs and did not      *)
(* match, and those whose path could not be read.                         *)
WrongIn(rs, n) ==
  {x \in LineSet : \E i \in 1 .. n :
     rs[i].path = x.path /\ rs[i].content # "error" /\ ~Matches(x, rs[i].content)}
UnreadIn(rs, n) ==
  {x \in LineSet : \E i \in 1 .. n : rs[i].path = x.path /\ rs[i].content = "error"}

(* Both counters count the entries of the manifest, whatever their        *)
(* groups: mismatched those of the groups that are done and, of the group *)
(* being judged, those judged so far; unreadable those of a whole group   *)
(* as soon as its path could not be read.                                 *)
Counted ==
  /\ mismatched = HowMany(Listed, WrongIn(reads, g - 1))
                  + (IF pc \in {"judge", "detail"}
                     THEN HowMany(SubSeq(groups[g], 1, IF pc = "judge" THEN e - 1 ELSE e),
                                  Unlike(reads[g].content))
                     ELSE 0)
  /\ unreadable = HowMany(Listed, UnreadIn(reads, IF pc = "unreadable" THEN g ELSE g - 1))

(* A status without an error is the one that verify() made of them. *)
StatusFromCounts ==
  status # Running /\ error = "none" =>
    /\ pc = "reported"
    /\ status = IF mismatched = 0 /\ unreadable = 0 THEN 0 ELSE 1

(* A count is a natural number. *)
LEMMA HowManyTyped ==
  ASSUME NEW s \in Seq(LineSet), NEW set
  PROVE  HowMany(s, set) \in Nat
BY HowManyNone

(* One entry more. *)
LEMMA HowManyStep ==
  ASSUME NEW s \in Seq(LineSet), NEW x \in LineSet, NEW set
  PROVE  HowMany(Append(s, x), set) = HowMany(s, set) + (IF x \in set THEN 1 ELSE 0)
<1>1. Only(s, set) \in Seq(LineSet)
  BY OnlyTyped
<1>2. CASE x \in set
  BY <1>1, <1>2, OnlyStep DEF HowMany
<1>3. CASE x \notin set
  <2>1. Only(Append(s, x), set) = Only(s, set) /\ Len(Only(s, set)) \in Nat
    BY <1>1, <1>3, OnlyStep
  <2> QED
    BY <1>3, <2>1 DEF HowMany
<1> QED
  BY <1>2, <1>3

(* The beginning of a list, by one longer. *)
LEMMA SubSeqStep ==
  ASSUME NEW E, NEW s \in Seq(E), NEW n \in 1 .. Len(s)
  PROVE  /\ SubSeq(s, 1, n - 1) \in Seq(E) /\ SubSeq(s, 1, n) \in Seq(E)
         /\ SubSeq(s, 1, n) = Append(SubSeq(s, 1, n - 1), s[n])
<1>1. SubSeq(s, 1, n) = SubSeq(s, 1, n - 1) \o <<s[n]>>
  <2>1. 1 \in 1 .. Len(s) /\ n \in 1 .. Len(s)
    OBVIOUS
  <2> QED
    BY <2>1, SubSeqRecursiveSecond
<1>2. SubSeq(s, 1, n - 1) \in Seq(E) /\ SubSeq(s, 1, n) \in Seq(E) /\ s[n] \in E
  OBVIOUS
<1>3. Append(SubSeq(s, 1, n - 1), s[n]) = SubSeq(s, 1, n - 1) \o <<s[n]>>
  BY <1>2, AppendIsConcat
<1> QED
  BY <1>1, <1>2, <1>3

(* One read more, of a path that none of those before it was of. *)
LEMMA InStep ==
  ASSUME NEW rs, NEW n \in Nat, NEW s \in Seq(LineSet),
         \A i \in 1 .. n : rs[i].path # rs[n + 1].path
  PROVE  /\ rs[n + 1].content = "error" =>
              /\ WrongIn(rs, n + 1) = WrongIn(rs, n)
              /\ HowMany(s, UnreadIn(rs, n + 1))
                   = HowMany(s, UnreadIn(rs, n)) + Len(Only(s, Of(rs[n + 1].path)))
         /\ rs[n + 1].content # "error" =>
              /\ UnreadIn(rs, n + 1) = UnreadIn(rs, n)
              /\ HowMany(s, WrongIn(rs, n + 1))
                   = HowMany(s, WrongIn(rs, n))
                     + HowMany(Only(s, Of(rs[n + 1].path)), Unlike(rs[n + 1].content))
<1> DEFINE r == rs[n + 1]
           O == Of(r.path)
           U == Unlike(r.content)
           W == WrongIn(rs, n)
           M == UnreadIn(rs, n)
<1>0. \A i \in 1 .. n + 1 : i \in 1 .. n \/ i = n + 1
  OBVIOUS
<1>1. 1 .. n + 1 = 1 .. n \cup {n + 1}
  OBVIOUS
<1>2. W \cap O = {} /\ M \cap O = {}
  BY DEF WrongIn, UnreadIn, Of
<1>3. ASSUME r.content = "error"
      PROVE  WrongIn(rs, n + 1) = W /\ UnreadIn(rs, n + 1) = M \cup O
  BY <1>1, <1>3 DEF WrongIn, UnreadIn, Of
<1>4. ASSUME r.content # "error"
      PROVE  UnreadIn(rs, n + 1) = M /\ WrongIn(rs, n + 1) = W \cup (O \cap U)
  BY <1>1, <1>4 DEF WrongIn, UnreadIn, Of, Unlike
<1> HIDE DEF O, U, W, M
<1>5. HowMany(s, M \cup O) = HowMany(s, M) + HowMany(s, O)
  BY <1>2, OnlySplit
<1>6. HowMany(s, W \cup (O \cap U)) = HowMany(s, W) + HowMany(s, O \cap U)
  <2>1. W \cap (O \cap U) = {}
    BY <1>2
  <2> DEFINE V == O \cap U
  <2> HIDE DEF V
  <2>2. HowMany(s, W \cup V) = HowMany(s, W) + HowMany(s, V)
    BY <2>1, OnlySplit DEF V
  <2> QED
    BY <2>2 DEF V
<1>7. HowMany(Only(s, O), U) = HowMany(s, O \cap U)
  BY OnlyOfOnly DEF HowMany
<1>8. HowMany(s, O) = Len(Only(s, O))
  BY DEF HowMany
<1> QED
  BY <1>3, <1>4, <1>5, <1>6, <1>7, <1>8 DEF O, U, W, M

(* The paths of the reads are all different. *)
LEMMA PathsDiffer ==
  ASSUME NEW s \in Seq(LineSet), NEW gs, Grouped(s, gs),
         NEW m \in 1 .. Len(gs), NEW n \in 1 .. Len(gs), m # n
  PROVE  Named(gs[m]) # Named(gs[n])
<1>1. Len(gs) \in Nat
  BY DEF Grouped
<1>2. m < n \/ n < m
  BY <1>1
<1>3. FirstMention(s, Named(gs[m])) < FirstMention(s, Named(gs[n]))
      \/ FirstMention(s, Named(gs[n])) < FirstMention(s, Named(gs[m]))
  BY <1>2 DEF Grouped
<1>4. \A path : FirstMention(s, path) \in Nat
  <2> SUFFICES ASSUME NEW path PROVE FirstMention(s, path) \in Nat
    OBVIOUS
  <2>1. FirstMention(s, path) \in 0 .. Len(s) /\ Len(s) \in Nat
    BY FirstMentionIs
  <2> QED
    BY <2>1
<1> QED
  BY <1>3, <1>4

(* The counters start at zero. *)
LEMMA InitCounted == Init => Counted /\ StatusFromCounts
<1> SUFFICES ASSUME Init PROVE Counted /\ StatusFromCounts
  OBVIOUS
<1>1. /\ manifest \in Manifests /\ pc = "manifest" /\ g = 1
      /\ mismatched = 0 /\ unreadable = 0 /\ status = Running
  BY DEF Init, CliInit
<1>2. \A set : HowMany(Listed, set) = 0 <=> \A i \in 1 .. Len(Listed) : Listed[i] \notin set
  BY <1>1, ListedTyped, HowManyNone
<1>3. 1 .. g - 1 = {}
  BY <1>1
<1>4. WrongIn(reads, g - 1) = {} /\ UnreadIn(reads, g - 1) = {}
  BY <1>3 DEF WrongIn, UnreadIn
<1>5. HowMany(Listed, WrongIn(reads, g - 1)) = 0 /\ HowMany(Listed, UnreadIn(reads, g - 1)) = 0
  <2>1. HowMany(Listed, {}) = 0
    BY <1>2
  <2> QED
    BY <1>4, <2>1
<1> QED
  BY <1>1, <1>5 DEF Counted, StatusFromCounts

(* The reads that have been made stay as they are. *)
LEMMA InKept ==
  ASSUME NEW rs, NEW qs, NEW n, \A i \in 1 .. n : qs[i] = rs[i]
  PROVE  WrongIn(qs, n) = WrongIn(rs, n) /\ UnreadIn(qs, n) = UnreadIn(rs, n)
BY DEF WrongIn, UnreadIn

(* Each verdict against an entry adds one to its counter, once; a file that *)
(* cannot be read counts all its entries.                                   *)
LEMMA CountedStep == Progress /\ Progress' /\ Counted /\ [Next]_vars => Counted'
<1> SUFFICES ASSUME Progress, Progress', Counted, [Next]_vars PROVE Counted'
  OBVIOUS
<1>m. manifest' = manifest /\ Listed' = Listed
  <2>1. manifest' = manifest
    BY DEF Next, Program, Environment, Exit, ParseManifest, RejectManifest, ReadGroup, ReadFails,
           PrintOk, PrintFailed, ReportMismatch, GroupDone, PrintUnreadable, ReportUnreadable,
           ReportCounts, Finish, verifyVars, vars
  <2> QED
    BY <2>1 DEF Listed
<1>l. Listed \in Seq(LineSet)
  BY ListedTyped DEF Progress
<1>g. g \in 1 .. Len(groups) + 1 /\ Len(groups) \in Nat
      /\ reads \in Seq(Read) /\ Len(reads) \in Nat
  BY DEF Progress
<1>w. \A set : HowMany(Listed, set) \in Nat
  BY <1>l, HowManyNone
<1>c. ASSUME UNCHANGED verifyVars PROVE Counted'
  BY <1>m, <1>c DEF verifyVars, Counted
<1>1. CASE ParseManifest
  <2>1. UNCHANGED <<g, reads, mismatched, unreadable>> /\ pc = "manifest" /\ pc' = "group"
    BY <1>1 DEF ParseManifest
  <2> QED
    BY <1>m, <2>1 DEF Counted
(* A path has been read, or could not be. *)
<1>r. ASSUME pc = "group", g <= Len(groups), groups' = groups, g' = g, e' = 1,
             \E r : reads' = Append(reads, r)
      PROVE  /\ WrongIn(reads', g - 1) = WrongIn(reads, g - 1)
             /\ UnreadIn(reads', g - 1) = UnreadIn(reads, g - 1)
             /\ SubSeq(groups[g], 1, e' - 1) = <<>>
             /\ \A set : HowMany(<<>>, set) = 0
             /\ g = (g - 1) + 1 /\ g - 1 \in Nat
             /\ \A i \in 1 .. g - 1 : reads'[i].path # reads'[g].path
             /\ reads'[g].path = Path
             /\ groups[g] = Only(Listed, Of(Path))
  <2>1. \A i \in 1 .. g - 1 : reads'[i] = reads[i]
    <3>1. Len(reads) = g - 1
      BY <1>r DEF Progress, Busy
    <3> QED
      BY <1>g, <1>r, <3>1
  <2>2. SubSeq(groups[g], 1, e' - 1) = <<>>
    BY <1>r
  <2>3. \A set : HowMany(<<>>, set) = 0
    <3>1. \A set : Only(<<>>, set) = <<>>
      BY OnlyFold, Kept!FoldEmpty
    <3> QED
      BY <3>1 DEF HowMany
  <2>4. Len(reads') = g
    <3>1. Len(reads) = g - 1
      BY <1>r DEF Progress, Busy
    <3> QED
      BY <1>g, <1>r, <3>1
  <2>5. \A n \in 1 .. g : reads'[n].path = Named(groups[n])
    BY <1>r, <2>4 DEF Progress
  <2>6. \A i \in 1 .. g - 1 : Named(groups[i]) # Named(groups[g])
    <3> SUFFICES ASSUME NEW i \in 1 .. g - 1 PROVE Named(groups[i]) # Named(groups[g])
      OBVIOUS
    <3>1. Grouped(Listed, groups)
      BY <1>r DEF Progress
    <3>2. i \in 1 .. Len(groups) /\ g \in 1 .. Len(groups) /\ i # g
      BY <1>g, <1>r
    <3> QED
      BY <1>l, <3>1, <3>2, PathsDiffer
  <2>7. Path = Named(groups[g]) /\ groups[g] = Only(Listed, Of(Path))
    BY <1>r, GroupTyped
  <2>8. \A i \in 1 .. g - 1 : reads'[i].path # reads'[g].path
    BY <1>g, <2>5, <2>6
  <2>9. WrongIn(reads', g - 1) = WrongIn(reads, g - 1)
        /\ UnreadIn(reads', g - 1) = UnreadIn(reads, g - 1)
    <3> DEFINE qs == reads'
               n  == g - 1
    <3>1. \A i \in 1 .. n : qs[i] = reads[i]
      BY <2>1
    <3> HIDE DEF qs, n
    <3>2. WrongIn(qs, n) = WrongIn(reads, n) /\ UnreadIn(qs, n) = UnreadIn(reads, n)
      BY <3>1, InKept
    <3> QED
      BY <3>2 DEF qs, n
  <2>10. g = (g - 1) + 1 /\ g - 1 \in Nat /\ g \in 1 .. g
    BY <1>g
  <2>11. reads'[g].path = Path
    BY <2>5, <2>7, <2>10
  <2> QED
    BY <2>2, <2>3, <2>7, <2>8, <2>9, <2>10, <2>11
<1>2. CASE ReadGroup
  <2>1. /\ pc = "group" /\ pc' = "judge" /\ g <= Len(groups) /\ e' = 1
        /\ UNCHANGED <<groups, g, mismatched, unreadable>>
        /\ \E r : reads' = Append(reads, r)
    BY <1>2 DEF ReadGroup
  <2>2. /\ WrongIn(reads', g - 1) = WrongIn(reads, g - 1)
        /\ UnreadIn(reads', g - 1) = UnreadIn(reads, g - 1)
        /\ SubSeq(groups[g], 1, e' - 1) = <<>>
        /\ \A set : HowMany(<<>>, set) = 0
    BY <1>r, <2>1
  <2>3. /\ mismatched = HowMany(Listed, WrongIn(reads, g - 1)) + 0
        /\ unreadable = HowMany(Listed, UnreadIn(reads, g - 1))
    BY <2>1 DEF Counted
  <2> QED
    BY <1>m, <2>1, <2>2, <2>3 DEF Counted
<1>3. CASE ReadFails
  <2>1. /\ pc = "group" /\ pc' = "unreadable" /\ g <= Len(groups) /\ e' = 1
        /\ UNCHANGED <<groups, g, mismatched>>
        /\ \E r : reads' = Append(reads, r)
        /\ unreadable' = unreadable + Len(Group) /\ Group = groups[g]
    BY <1>3 DEF ReadFails, Group
  <2>2. /\ WrongIn(reads', g - 1) = WrongIn(reads, g - 1)
        /\ UnreadIn(reads', g - 1) = UnreadIn(reads, g - 1)
        /\ g = (g - 1) + 1 /\ g - 1 \in Nat
        /\ \A i \in 1 .. g - 1 : reads'[i].path # reads'[g].path
        /\ reads'[g].path = Path
        /\ groups[g] = Only(Listed, Of(Path))
    BY <1>r, <2>1
  <2>3. reads'[g].content = "error"
    BY <2>1 DEF Progress
  <2>4. /\ mismatched = HowMany(Listed, WrongIn(reads, g - 1)) + 0
        /\ unreadable = HowMany(Listed, UnreadIn(reads, g - 1))
    BY <2>1 DEF Counted
  <2> DEFINE rs == reads'
             n  == g - 1
  <2>5. HowMany(Listed, UnreadIn(rs, n + 1)) = HowMany(Listed, UnreadIn(rs, n)) + Len(Only(Listed, Of(rs[n + 1].path)))
    <3>1. /\ \A i \in 1 .. n : rs[i].path # rs[n + 1].path
          /\ rs[n + 1].content = "error" /\ n \in Nat
      BY <2>2, <2>3
    <3> HIDE DEF rs, n
    <3> QED
      BY <1>l, <3>1, InStep
  <2>6. HowMany(Listed, UnreadIn(reads', g)) = unreadable'
    BY <2>1, <2>2, <2>4, <2>5
  <2> QED
    BY <1>m, <2>1, <2>2, <2>4, <2>6 DEF Counted
(* An entry has been judged. *)
<1>j. ASSUME Busy, e <= Len(groups[g])
      PROVE  /\ HowMany(SubSeq(groups[g], 1, e), Unlike(reads[g].content))
                  = HowMany(SubSeq(groups[g], 1, e - 1), Unlike(reads[g].content))
                    + (IF Matches(groups[g][e], reads[g].content) THEN 0 ELSE 1)
             /\ HowMany(SubSeq(groups[g], 1, e - 1), Unlike(reads[g].content)) \in Nat
             /\ Group = groups[g] /\ Last(reads) = reads[g] /\ e \in Nat
  <2>1. g <= Len(groups) /\ e \in 1 .. Len(groups[g]) + 1
    BY <1>j DEF Progress
  <2>2. groups[g] \in Seq(LineSet) /\ Len(groups[g]) \in Nat /\ Group = groups[g]
    BY <2>1, GroupTyped
  <2>3. e \in 1 .. Len(groups[g]) /\ groups[g][e] \in LineSet
    BY <1>j, <2>1, <2>2
  <2> DEFINE s == groups[g]
             U == Unlike(reads[g].content)
  <2>4. s[e] \in U <=> ~Matches(s[e], reads[g].content)
    BY <2>3 DEF Unlike
  <2> HIDE DEF s, U
  <2>5. SubSeq(s, 1, e) = Append(SubSeq(s, 1, e - 1), s[e]) /\ SubSeq(s, 1, e - 1) \in Seq(LineSet)
    BY <2>2, <2>3, SubSeqStep DEF s
  <2>6. HowMany(SubSeq(s, 1, e), U) = HowMany(SubSeq(s, 1, e - 1), U) + (IF s[e] \in U THEN 1 ELSE 0)
    BY <2>3, <2>5, HowManyStep DEF s
  <2>7. HowMany(SubSeq(s, 1, e - 1), U) \in Nat
    BY <2>5, HowManyTyped
  <2> QED
    BY <1>j, <2>2, <2>3, <2>4, <2>6, <2>7, LastRead DEF s, U
<1>4. CASE PrintOk
  <2>1. /\ pc = "judge" /\ pc' = "judge" /\ e' = e + 1 /\ e <= Len(Group)
        /\ UNCHANGED <<groups, g, reads, mismatched, unreadable>> /\ Busy
        /\ Matches(Group[e], Last(reads).content) /\ Group = groups[g]
    BY <1>4 DEF PrintOk, Busy, Group
  <2>2. /\ HowMany(SubSeq(groups[g], 1, e), Unlike(reads[g].content))
             = HowMany(SubSeq(groups[g], 1, e - 1), Unlike(reads[g].content)) + 0
        /\ HowMany(SubSeq(groups[g], 1, e - 1), Unlike(reads[g].content)) \in Nat
        /\ e \in Nat
    BY <1>j, <2>1
  <2>3. e' - 1 = e
    BY <2>1, <2>2
  <2> QED
    BY <1>m, <2>1, <2>2, <2>3 DEF Counted
<1>5. CASE PrintFailed
  <2>1. /\ pc = "judge" /\ pc' = "detail" /\ e <= Len(Group)
        /\ UNCHANGED <<groups, g, e, reads, unreadable>> /\ Busy /\ mismatched' = mismatched + 1
        /\ ~Matches(Group[e], Last(reads).content) /\ Group = groups[g]
    BY <1>5 DEF PrintFailed, Busy, Group
  <2>2. /\ HowMany(SubSeq(groups[g], 1, e), Unlike(reads[g].content))
             = HowMany(SubSeq(groups[g], 1, e - 1), Unlike(reads[g].content)) + 1
        /\ HowMany(SubSeq(groups[g], 1, e - 1), Unlike(reads[g].content)) \in Nat
    BY <1>j, <2>1
  <2>3. HowMany(Listed, WrongIn(reads, g - 1)) \in Nat
    BY <1>w
  <2>4. mismatched = HowMany(Listed, WrongIn(reads, g - 1))
                     + HowMany(SubSeq(groups[g], 1, e - 1), Unlike(reads[g].content))
    BY <2>1 DEF Counted
  <2>5. mismatched' = HowMany(Listed, WrongIn(reads, g - 1))
                      + HowMany(SubSeq(groups[g], 1, e), Unlike(reads[g].content))
    BY <2>1, <2>2, <2>3, <2>4
  <2> QED
    BY <1>m, <2>1, <2>5 DEF Counted
<1>6. CASE ReportMismatch
  <2>1. /\ pc = "detail" /\ pc' = "judge" /\ e' = e + 1
        /\ UNCHANGED <<groups, g, reads, mismatched, unreadable>>
    BY <1>6 DEF ReportMismatch
  <2>2. e' - 1 = e
    <3>1. g <= Len(groups) /\ e \in 1 .. Len(groups[g]) + 1
      BY <2>1 DEF Progress, Busy
    <3> QED
      BY <2>1, <3>1
  <2> QED
    BY <1>m, <2>1, <2>2 DEF Counted
(* A group is done. *)
<1>d. ASSUME Busy, g' = g + 1, groups' = groups, reads' = reads
      PROVE  /\ g = (g - 1) + 1 /\ g - 1 \in Nat /\ g' - 1 = g
             /\ \A i \in 1 .. g - 1 : reads[i].path # reads[g].path
             /\ reads[g].path = Path
             /\ groups[g] = Only(Listed, Of(Path))
  <2>1. g <= Len(groups) /\ Len(reads) = g /\ pc # "manifest" /\ Grouped(Listed, groups)
    BY <1>d DEF Progress, Busy
  <2>2. \A n \in 1 .. g : reads[n].path = Named(groups[n])
    BY <2>1 DEF Progress
  <2>3. \A i \in 1 .. g - 1 : Named(groups[i]) # Named(groups[g])
    <3> SUFFICES ASSUME NEW i \in 1 .. g - 1 PROVE Named(groups[i]) # Named(groups[g])
      OBVIOUS
    <3>1. i \in 1 .. Len(groups) /\ g \in 1 .. Len(groups) /\ i # g
      BY <1>g, <2>1
    <3> QED
      BY <1>l, <2>1, <3>1, PathsDiffer
  <2>4. Path = Named(groups[g]) /\ groups[g] = Only(Listed, Of(Path))
    BY <2>1, GroupTyped
  <2>5. g = (g - 1) + 1 /\ g - 1 \in Nat /\ g \in 1 .. g /\ g' - 1 = g
        /\ \A i \in 1 .. g - 1 : i \in 1 .. g
    BY <1>d, <1>g
  <2>6. \A i \in 1 .. g - 1 : reads[i].path # reads[g].path
    BY <2>2, <2>3, <2>5
  <2>7. reads[g].path = Path
    BY <2>2, <2>4, <2>5
  <2> QED
    BY <2>4, <2>5, <2>6, <2>7
<1>7. CASE GroupDone
  <2>1. /\ pc = "judge" /\ pc' = "group" /\ Busy /\ g' = g + 1 /\ e > Len(groups[g])
        /\ UNCHANGED <<groups, reads, mismatched, unreadable>>
    BY <1>7 DEF GroupDone, Busy, Group
  <2>2. /\ g = (g - 1) + 1 /\ g - 1 \in Nat /\ g' - 1 = g
        /\ \A i \in 1 .. g - 1 : reads[i].path # reads[g].path
        /\ reads[g].path = Path
        /\ groups[g] = Only(Listed, Of(Path))
    BY <1>d, <2>1
  <2>3. reads[g].content # "error"
    <3>1. reads[g].content \in Contents
      BY <2>1 DEF Progress
    <3> QED
      BY <3>1, ManifestAssumption
  <2>4. SubSeq(groups[g], 1, e - 1) = groups[g]
    <3>1. g <= Len(groups) /\ e \in 1 .. Len(groups[g]) + 1
      BY <2>1 DEF Progress
    <3>2. groups[g] \in Seq(LineSet) /\ Len(groups[g]) \in Nat
      BY <3>1, GroupTyped
    <3>3. e - 1 = Len(groups[g])
      BY <2>1, <3>1, <3>2
    <3> QED
      BY <3>2, <3>3, SubSeqFull
  <2> DEFINE n == g - 1
  <2>5. /\ UnreadIn(reads, n + 1) = UnreadIn(reads, n)
        /\ HowMany(Listed, WrongIn(reads, n + 1))
             = HowMany(Listed, WrongIn(reads, n))
               + HowMany(Only(Listed, Of(reads[n + 1].path)), Unlike(reads[n + 1].content))
    <3>1. /\ \A i \in 1 .. n : reads[i].path # reads[n + 1].path
          /\ reads[n + 1].content # "error" /\ n \in Nat
      BY <2>2, <2>3
    <3> HIDE DEF n
    <3> QED
      BY <1>l, <3>1, InStep
  <2>6. /\ UnreadIn(reads, g) = UnreadIn(reads, g - 1)
        /\ HowMany(Listed, WrongIn(reads, g)) = HowMany(Listed, WrongIn(reads, g - 1))
                                                + HowMany(groups[g], Unlike(reads[g].content))
    BY <2>2, <2>5
  <2>7. /\ mismatched = HowMany(Listed, WrongIn(reads, g - 1))
                        + HowMany(SubSeq(groups[g], 1, e - 1), Unlike(reads[g].content))
        /\ unreadable = HowMany(Listed, UnreadIn(reads, g - 1))
    BY <2>1 DEF Counted
  <2>8. mismatched = HowMany(Listed, WrongIn(reads, g)) + 0
    <3>1. HowMany(Listed, WrongIn(reads, g)) \in Nat
      BY <1>w
    <3>2. mismatched = HowMany(Listed, WrongIn(reads, g))
      BY <2>4, <2>6, <2>7
    <3> QED
      BY <3>1, <3>2
  <2>9. unreadable = HowMany(Listed, UnreadIn(reads, g))
    BY <2>6, <2>7
  <2> HIDE DEF n
  <2>10. g' - 1 = g
    BY <2>2
  <2> QED
    BY <1>m, <2>1, <2>8, <2>9, <2>10 DEF Counted
<1>8. CASE PrintUnreadable
  <2>1. pc = "unreadable" /\ UNCHANGED <<groups, g, pc, reads, mismatched, unreadable>>
    BY <1>8 DEF PrintUnreadable
  <2> QED
    BY <1>m, <2>1 DEF Counted
<1>9. CASE ReportUnreadable
  <2>1. /\ pc = "unreadable" /\ pc' = "group" /\ Busy /\ g' = g + 1
        /\ UNCHANGED <<groups, reads, mismatched, unreadable>>
    BY <1>9 DEF ReportUnreadable, Busy
  <2>2. /\ g = (g - 1) + 1 /\ g - 1 \in Nat /\ g' - 1 = g
        /\ \A i \in 1 .. g - 1 : reads[i].path # reads[g].path
    BY <1>d, <2>1
  <2>3. reads[g].content = "error"
    BY <2>1 DEF Progress
  <2> DEFINE n == g - 1
  <2>4. WrongIn(reads, n + 1) = WrongIn(reads, n)
    <3>1. /\ \A i \in 1 .. n : reads[i].path # reads[n + 1].path
          /\ reads[n + 1].content = "error" /\ n \in Nat
      BY <2>2, <2>3
    <3> HIDE DEF n
    <3> QED
      BY <1>l, <3>1, InStep
  <2>5. WrongIn(reads, g) = WrongIn(reads, g - 1)
    BY <2>2, <2>4
  <2> QED
    BY <1>m, <2>1, <2>2, <2>5 DEF Counted
<1>10. CASE ReportCounts
  <2>1. /\ pc = "group" /\ pc' = "reported"
        /\ UNCHANGED <<groups, g, reads, mismatched, unreadable>>
    BY <1>10 DEF ReportCounts
  <2> QED
    BY <1>m, <2>1 DEF Counted
<1>11. CASE RejectManifest \/ Finish \/ Exit \/ Environment
  BY <1>c, <1>11 DEF RejectManifest, Finish, Exit, Environment
<1>12. CASE UNCHANGED vars
  BY <1>c, <1>12 DEF vars, verifyVars
<1> QED
  BY <1>1, <1>2, <1>3, <1>4, <1>5, <1>6, <1>7, <1>8, <1>9, <1>10, <1>11, <1>12
     DEF Next, Program

(* The exit status is computed from the counters, or is that of a manifest *)
(* that says nothing.                                                      *)
LEMMA StatusStep == StatusFromCounts /\ [Next]_vars => StatusFromCounts'
<1> SUFFICES ASSUME StatusFromCounts, [Next]_vars PROVE StatusFromCounts'
  OBVIOUS
<1> USE DEF StatusFromCounts, Going
<1>1. CASE ParseManifest
  BY <1>1 DEF ParseManifest, cliVars
<1>2. CASE RejectManifest
  BY <1>2 DEF RejectManifest
<1>3. CASE ReadGroup \/ ReadFails
  BY <1>3 DEF ReadGroup, ReadFails, cliVars
<1>4. CASE PrintOk \/ PrintFailed \/ PrintUnreadable
  BY <1>4 DEF PrintOk, PrintFailed, PrintUnreadable, WriteLine
<1>5. CASE ReportMismatch \/ ReportUnreadable \/ ReportCounts
  BY <1>5 DEF ReportMismatch, ReportUnreadable, ReportCounts, FlushThenLog
<1>6. CASE GroupDone
  BY <1>6 DEF GroupDone, cliVars
<1>7. CASE Finish
  BY <1>7 DEF Finish, FinishRun, verifyVars
<1>8. CASE Exit
  BY <1>8 DEF Exit, Report
<1>9. CASE Environment
  BY <1>9 DEF Environment, SinkFails
<1>10. CASE UNCHANGED vars
  BY <1>10 DEF vars
<1> QED
  BY <1>1, <1>2, <1>3, <1>4, <1>5, <1>6, <1>7, <1>8, <1>9, <1>10 DEF Next, Program

(* Once every group is done, the reads are those of all entries and the   *)
(* counters are those of the whole manifest.                              *)
LEMMA AllCounted ==
  ASSUME Progress, Counted, pc \in {"group", "reported"}, g > Len(groups)
  PROVE  /\ Len(reads) = Len(groups) /\ Grouped(Listed, groups)
         /\ mismatched = HowMany(Listed, Wrong(Listed, reads))
         /\ unreadable = HowMany(Listed, Unread(Listed, reads))
<1>1. g = Len(groups) + 1 /\ Len(groups) \in Nat /\ ~Busy /\ pc # "manifest"
  BY DEF Progress, Busy
<1>2. Len(reads) = Len(groups) /\ Grouped(Listed, groups) /\ reads \in Seq(Read)
      /\ g - 1 = Len(reads)
  BY <1>1 DEF Progress
<1>3. Listed \in Seq(LineSet)
  BY ListedTyped DEF Progress
<1>4. \A set : HowMany(Listed, set) \in Nat
  BY <1>3, HowManyNone
<1>5. \A r : r \in Range(reads) <=> \E n \in 1 .. Len(reads) : r = reads[n]
  BY <1>2 DEF Range
<1>6. \A i \in 1 .. Len(Listed) : Listed[i] \in LineSet /\ Listed[i] \in Range(Listed)
  BY <1>3 DEF Range
<1> DEFINE W == Wrong(Listed, reads)
           V == WrongIn(reads, g - 1)
           M == Unread(Listed, reads)
           N == UnreadIn(reads, g - 1)
<1>7. \A i \in 1 .. Len(Listed) : Listed[i] \in W <=> Listed[i] \in V
  BY <1>2, <1>5, <1>6 DEF Wrong, WrongIn
<1>8. \A i \in 1 .. Len(Listed) : Listed[i] \in M <=> Listed[i] \in N
  BY <1>2, <1>5, <1>6 DEF Unread, UnreadIn
<1>9. mismatched = HowMany(Listed, V) + 0 /\ unreadable = HowMany(Listed, N)
  BY DEF Counted
<1> HIDE DEF W, V, M, N
<1>10. Only(Listed, W) = Only(Listed, V) /\ Only(Listed, M) = Only(Listed, N)
  BY <1>3, <1>7, <1>8, OnlyAgree
<1>11. mismatched = HowMany(Listed, V)
  BY <1>4, <1>9
<1>12. HowMany(Listed, W) = HowMany(Listed, V) /\ HowMany(Listed, M) = HowMany(Listed, N)
  BY <1>10 DEF HowMany
<1> QED
  BY <1>2, <1>9, <1>11, <1>12 DEF W, M

(* help.rs:45-46, for every manifest: a run whose output was read to the  *)
(* end exits 0 exactly when every entry could be read and matched.        *)
THEOREM ExitTellsMismatchAlways == Spec => []ExitTellsMismatch
<1>1. Progress /\ Counted /\ StatusFromCounts => ExitTellsMismatch
  <2> SUFFICES ASSUME Progress, Counted, StatusFromCounts, status # Running, error = "none"
               PROVE  status = 0 <=> Range(Listed) = Right(Listed, reads)
    BY DEF ExitTellsMismatch
  <2>1. pc = "reported" /\ status = IF mismatched = 0 /\ unreadable = 0 THEN 0 ELSE 1
    BY DEF StatusFromCounts
  <2>2. g > Len(groups)
    BY <2>1 DEF Progress
  <2>3. /\ Len(reads) = Len(groups) /\ Grouped(Listed, groups)
        /\ mismatched = HowMany(Listed, Wrong(Listed, reads))
        /\ unreadable = HowMany(Listed, Unread(Listed, reads))
    BY <2>1, <2>2, AllCounted
  <2>4. Listed \in Seq(LineSet) /\ reads \in Seq(Read)
    BY ListedTyped DEF Progress
  <2>5. \A set : HowMany(Listed, set) = 0 <=> \A i \in 1 .. Len(Listed) : Listed[i] \notin set
    BY <2>4, HowManyNone
  <2>6. status = 0 <=> \A i \in 1 .. Len(Listed) :
                         Listed[i] \notin Wrong(Listed, reads) /\ Listed[i] \notin Unread(Listed, reads)
    BY <2>1, <2>3, <2>5
  <2>7. /\ \A x : x \in Range(Listed) <=> \E i \in 1 .. Len(Listed) : x = Listed[i]
        /\ \A r : r \in Range(reads) <=> \E n \in 1 .. Len(reads) : r = reads[n]
    BY <2>4 DEF Range
  <2>8. ASSUME NEW x \in Range(Listed)
        PROVE  x \in Right(Listed, reads)
                 <=> x \notin Wrong(Listed, reads) /\ x \notin Unread(Listed, reads)
    <3>1. PICK n \in 1 .. Len(groups) : Named(groups[n]) = x.path
      BY <2>3, <2>7 DEF Grouped
    <3>2. \A m \in 1 .. Len(reads) : reads[m].path = Named(groups[m])
      BY DEF Progress
    <3>3. \A m \in 1 .. Len(groups) : m # n => Named(groups[m]) # x.path
      BY <2>3, <2>4, <3>1, PathsDiffer
    <3> DEFINE r == reads[n]
    <3>4. r \in Range(reads) /\ r.path = x.path
      BY <2>3, <2>7, <3>1, <3>2
    <3>5. \A q \in Range(reads) : q.path = x.path => q = r
      BY <2>3, <2>7, <3>2, <3>3
    <3> HIDE DEF r
    <3>6. x \in Right(Listed, reads) <=> r.content # "error" /\ Matches(x, r.content)
      BY <3>4, <3>5 DEF Right
    <3>7. x \in Wrong(Listed, reads) <=> r.content # "error" /\ ~Matches(x, r.content)
      BY <3>4, <3>5 DEF Wrong
    <3>8. x \in Unread(Listed, reads) <=> r.content = "error"
      BY <3>4, <3>5 DEF Unread
    <3> QED
      BY <3>6, <3>7, <3>8
  <2>9. Right(Listed, reads) \subseteq Range(Listed)
    BY DEF Right
  <2>10. Range(Listed) = Right(Listed, reads)
           <=> \A x \in Range(Listed) : x \in Right(Listed, reads)
    <3> DEFINE A == Range(Listed)
               B == Right(Listed, reads)
    <3>1. B \subseteq A
      BY <2>9
    <3> HIDE DEF A, B
    <3>2. A = B <=> \A x \in A : x \in B
      BY <3>1
    <3> QED
      BY <3>2 DEF A, B
  <2>11. (\A x \in Range(Listed) : x \in Right(Listed, reads))
           <=> \A i \in 1 .. Len(Listed) :
                 Listed[i] \notin Wrong(Listed, reads) /\ Listed[i] \notin Unread(Listed, reads)
    BY <2>7, <2>8
  <2> QED
    BY <2>6, <2>10, <2>11
<1>2. Init => Progress /\ Counted /\ StatusFromCounts
  BY InitProgress, InitCounted
<1>3. Progress /\ Counted /\ StatusFromCounts /\ [Next]_vars
        => Progress' /\ Counted' /\ StatusFromCounts'
  BY ProgressStep, CountedStep, StatusStep
<1> QED
  BY <1>1, <1>2, <1>3, PTL DEF Spec

-----------------------------------------------------------------------------
(* What goes out on the two streams, and in which order.                  *)

Reason == {"io", "manifest", "broken_pipe", "output"}

(* What can go out: a verdict, a detail, a complaint, a count or the last *)
(* word of main::report.                                                  *)
Message ==
  {Verdict(x, what) : x \in LineSet, what \in {"OK", "FAILED", "FAILED_open_or_read"}}
    \cup {Detail(x) : x \in LineSet}
    \cup {Complaint(path) : path \in Paths}
    \cup {Warning(what, n) : what \in {"did_NOT_match", "could_not_be_read"}, n \in Nat}
    \cup {[stream |-> "err", about |-> reason] : reason \in Reason}

(* One list of messages is the beginning of another. *)
Begins(s, t) == s \in Seq(Message) /\ \E r \in Seq(Message) : t = s \o r

(* What is printed are messages. *)
LEMMA MessageTyped ==
  /\ \A x \in LineSet, what \in {"OK", "FAILED", "FAILED_open_or_read"} :
       Verdict(x, what) \in Message
  /\ \A x \in LineSet : Detail(x) \in Message
  /\ \A path \in Paths : Complaint(path) \in Message
  /\ \A reason \in Reason : [stream |-> "err", about |-> reason] \in Message
BY DEF Message

(* So are the warnings of the end. *)
LEMMA WarningsTyped ==
  ASSUME NEW m \in Nat, NEW n \in Nat
  PROVE  Warnings(m, n) \in Seq(Message)
<1>1. \A what \in {"did_NOT_match", "could_not_be_read"}, k \in Nat : Warning(what, k) \in Message
  BY DEF Message
<1> DEFINE a == Warning("did_NOT_match", m)
           b == Warning("could_not_be_read", n)
           s == IF m > 0 THEN <<a>> ELSE <<>>
           t == IF n > 0 THEN <<b>> ELSE <<>>
<1>2. a \in Message /\ b \in Message
  BY <1>1
<1> HIDE DEF a, b
<1>3. s \in Seq(Message) /\ t \in Seq(Message)
  BY <1>2
<1>4. Warnings(m, n) = s \o t
  BY DEF Warnings, a, b
<1> HIDE DEF s, t
<1> QED
  BY <1>3, <1>4, ConcatProperties

(* A beginning is a prefix. *)
LEMMA BeginsIs ==
  ASSUME NEW s, NEW t, Begins(s, t)
  PROVE  s \in Seq(Message) /\ t \in Seq(Message) /\ IsPrefix(s, t)
<1>1. PICK r \in Seq(Message) : t = s \o r
  BY DEF Begins
<1>2. s \in Seq(Message)
  BY DEF Begins
<1>3. /\ t \in Seq(Message) /\ Len(t) = Len(s) + Len(r)
      /\ \A i \in 1 .. Len(s) : t[i] = s[i]
      /\ Len(s) \in Nat /\ Len(r) \in Nat
  BY <1>1, <1>2, ConcatProperties, LenProperties
<1>4. SubSeq(s, 1, Len(s)) = SubSeq(t, 1, Len(s))
  BY <1>2, <1>3
<1> QED
  BY <1>2, <1>3, <1>4 DEF IsPrefix

(* Beginnings, with something put before or behind. *)
LEMMA BeginsConcat ==
  ASSUME NEW s \in Seq(Message), NEW t, NEW r \in Seq(Message)
  PROVE  /\ Begins(s, s) /\ Begins(s, s \o r)
         /\ Begins(s, t) => Begins(s, t \o r)
         /\ Begins(s, t) => Begins(r \o s, r \o t)
<1>1. s \o <<>> = s /\ <<>> \in Seq(Message)
  BY ConcatEmptySeq
<1>2. Begins(s, s) /\ Begins(s, s \o r)
  BY <1>1 DEF Begins
<1>3. ASSUME Begins(s, t) PROVE Begins(s, t \o r) /\ Begins(r \o s, r \o t)
  <2>1. PICK q \in Seq(Message) : t = s \o q
    BY <1>3 DEF Begins
  <2>2. (s \o q) \o r = s \o (q \o r) /\ r \o (s \o q) = (r \o s) \o q
    BY ConcatAssociative
  <2>3. q \o r \in Seq(Message) /\ r \o s \in Seq(Message)
    BY ConcatProperties
  <2> QED
    BY <2>1, <2>2, <2>3 DEF Begins
<1> QED
  BY <1>2, <1>3

(* What a list of entries calls for, entry by entry. *)
LEMMA LinesTyped ==
  ASSUME NEW x \in LineSet, NEW content
  PROVE  Lines(x, content) \in Seq(Message)
<1>1. Verdict(x, "OK") \in Message /\ Verdict(x, "FAILED") \in Message /\ Detail(x) \in Message
  BY MessageTyped
<1> QED
  BY <1>1 DEF Lines

(* A readable group is judged entry by entry. *)
LEMMA JudgedStep ==
  ASSUME NEW s \in Seq(LineSet), NEW x \in LineSet, NEW content
  PROVE  /\ Judged(<<>>, content) = <<>>
         /\ Judged(s, content) \in Seq(Message)
         /\ Judged(Append(s, x), content) = Judged(s, content) \o Lines(x, content)
<1>1. \A u : Judged(u, content) = Judging!Fold(content, <<>>, u)
  BY DEF Judged, SayLines, Judging!Fold, Judging!FoldLeft, Judging!MapThenFoldSet, Judging!Max,
         FoldLeft, MapThenFoldSet, Max
<1>2. Judging!Fold(content, <<>>, <<>>) = <<>>
  BY Judging!FoldEmpty
<1>3. Judging!Fold(content, <<>>, Append(s, x))
        = SayLines(content, Judging!Fold(content, <<>>, s), x)
  BY Judging!FoldAppend
<1>4. \A said \in Seq(Message), y \in LineSet : SayLines(content, said, y) \in Seq(Message)
  <2> SUFFICES ASSUME NEW said \in Seq(Message), NEW y \in LineSet
               PROVE  said \o Lines(y, content) \in Seq(Message)
    BY DEF SayLines
  <2>1. Lines(y, content) \in Seq(Message)
    BY LinesTyped
  <2> QED
    BY <2>1, ConcatProperties
<1>5. <<>> \in Seq(Message)
  OBVIOUS
<1>6. Judging!Fold(content, <<>>, s) \in Seq(Message)
  BY <1>4, <1>5, Judging!FoldType
<1> QED
  BY <1>1, <1>2, <1>3, <1>6 DEF SayLines

(* What is said of the first entries comes first. *)
LEMMA JudgedBegins ==
  ASSUME NEW s \in Seq(LineSet), NEW n \in 0 .. Len(s), NEW content
  PROVE  Begins(Judged(SubSeq(s, 1, n), content), Judged(s, content))
<1> DEFINE P == {u \in Seq(LineSet) : \A k \in 0 .. Len(u) :
                   Begins(Judged(SubSeq(u, 1, k), content), Judged(u, content))}
<1>1. <<>> \in P
  <2> SUFFICES ASSUME NEW k \in 0 .. 0
               PROVE  Begins(Judged(SubSeq(<<>>, 1, k), content), Judged(<<>>, content))
    OBVIOUS
  <2>1. SubSeq(<<>>, 1, k) = <<>>
    OBVIOUS
  <2>2. <<>> \in Seq(LineSet) /\ <<>> \in Seq(Message)
    OBVIOUS
  <2>3. Judged(<<>>, content) = <<>>
    BY Judging!FoldEmpty DEF Judged, SayLines, Judging!Fold, Judging!FoldLeft,
         Judging!MapThenFoldSet, Judging!Max, FoldLeft, MapThenFoldSet, Max
  <2>4. Begins(<<>>, <<>>)
    BY <2>2, BeginsConcat
  <2> QED
    BY <2>1, <2>3, <2>4
<1>2. ASSUME NEW u \in Seq(LineSet), NEW x \in LineSet, u \in P PROVE Append(u, x) \in P
  <2> DEFINE v == Append(u, x)
  <2>1. v \in Seq(LineSet) /\ Len(v) = Len(u) + 1 /\ Len(u) \in Nat
    OBVIOUS
  <2>2. /\ Judged(u, content) \in Seq(Message)
        /\ Judged(v, content) = Judged(u, content) \o Lines(x, content)
        /\ Lines(x, content) \in Seq(Message)
    BY JudgedStep, LinesTyped
  <2>3. ASSUME NEW k \in 0 .. Len(v)
        PROVE  Begins(Judged(SubSeq(v, 1, k), content), Judged(v, content))
    <3>1. CASE k = Len(v)
      <4>1. SubSeq(v, 1, k) = v
        BY <2>1, <3>1, SubSeqFull
      <4>2. Judged(v, content) \in Seq(Message)
        BY <2>2, ConcatProperties
      <4> QED
        BY <4>1, <4>2, BeginsConcat
    <3>2. CASE k \in 0 .. Len(u)
      <4>1. SubSeq(v, 1, k) = SubSeq(u, 1, k)
        BY <3>2
      <4>2. Begins(Judged(SubSeq(u, 1, k), content), Judged(u, content))
        BY <1>2, <3>2
      <4> DEFINE j == Judged(SubSeq(u, 1, k), content)
                 t == Judged(u, content)
                 l == Lines(x, content)
      <4>3. Begins(j, t) /\ t \in Seq(Message) /\ l \in Seq(Message) /\ j \in Seq(Message)
        BY <2>2, <4>2, BeginsIs
      <4>4. Judged(v, content) = t \o l
        BY <2>2
      <4> HIDE DEF j, t, l
      <4>5. Begins(j, t \o l)
        BY <4>3, BeginsConcat
      <4> QED
        BY <4>1, <4>4, <4>5 DEF j
    <3> QED
      BY <2>1, <3>1, <3>2
  <2> HIDE DEF v
  <2> QED
    BY <2>1, <2>3 DEF v
<1>3. Seq(LineSet) \subseteq P
  <2> HIDE DEF P
  <2> QED
    BY <1>1, <1>2, Judging!SeqSetInduction
<1> QED
  BY <1>3

(* So is a group that could not be read. *)
LEMMA UnjudgedStep ==
  ASSUME NEW s \in Seq(LineSet), NEW n \in 1 .. Len(s)
  PROVE  /\ Unjudged(s) \in Seq(Message)
         /\ Unjudged(SubSeq(s, 1, n))
              = Unjudged(SubSeq(s, 1, n - 1)) \o <<Verdict(s[n], "FAILED_open_or_read")>>
<1>1. \A u \in Seq(LineSet) :
        /\ Unjudged(u) \in Seq(Message) /\ Len(Unjudged(u)) = Len(u)
        /\ \A i \in 1 .. Len(u) : Unjudged(u)[i] = Verdict(u[i], "FAILED_open_or_read")
  <2> SUFFICES ASSUME NEW u \in Seq(LineSet)
               PROVE  /\ Unjudged(u) \in Seq(Message) /\ Len(Unjudged(u)) = Len(u)
                      /\ \A i \in 1 .. Len(u) : Unjudged(u)[i] = Verdict(u[i], "FAILED_open_or_read")
    OBVIOUS
  <2> DEFINE f == [i \in 1 .. Len(u) |-> Verdict(u[i], "FAILED_open_or_read")]
  <2>1. Unjudged(u) = f /\ Len(u) \in Nat
    BY DEF Unjudged
  <2>2. \A i \in 1 .. Len(u) : Verdict(u[i], "FAILED_open_or_read") \in Message
    BY MessageTyped
  <2>3. f \in [1 .. Len(u) -> Message]
    BY <2>2
  <2>4. f \in Seq(Message) /\ Len(f) = Len(u)
    <3> HIDE DEF f
    <3>1. f \in UNION {[1 .. k -> Message] : k \in Nat}
      BY <2>1, <2>3
    <3>2. f \in Seq(Message)
      BY <3>1, SeqDef
    <3>3. DOMAIN f = 1 .. Len(u) /\ DOMAIN f = 1 .. Len(f) /\ Len(f) \in Nat
      BY <2>3, <3>2, LenProperties
    <3> QED
      BY <2>1, <3>2, <3>3
  <2> QED
    BY <2>1, <2>4
<1> DEFINE a == SubSeq(s, 1, n)
           b == SubSeq(s, 1, n - 1)
           w == Verdict(s[n], "FAILED_open_or_read")
<1>2. /\ a \in Seq(LineSet) /\ b \in Seq(LineSet) /\ Len(a) = n /\ Len(b) = n - 1
      /\ \A i \in 1 .. n : a[i] = s[i]
      /\ \A i \in 1 .. n - 1 : b[i] = s[i]
      /\ n \in Nat /\ n >= 1 /\ s[n] \in LineSet
  OBVIOUS
<1>3. w \in Message
  BY <1>2, MessageTyped
<1> HIDE DEF a, b, w
<1>4. Unjudged(b) \o <<w>> \in Seq(Message) /\ Len(Unjudged(b) \o <<w>>) = n
      /\ (Unjudged(b) \o <<w>>)[n] = w
      /\ \A i \in 1 .. n - 1 : (Unjudged(b) \o <<w>>)[i] = Unjudged(b)[i]
  <2>1. Unjudged(b) \in Seq(Message) /\ Len(Unjudged(b)) = n - 1
    BY <1>1, <1>2
  <2> DEFINE q == Unjudged(b)
  <2> HIDE DEF q
  <2>2. q \in Seq(Message) /\ Len(q) = n - 1
    BY <2>1 DEF q
  <2>3. q \o <<w>> \in Seq(Message) /\ Len(q \o <<w>>) = n /\ (q \o <<w>>)[n] = w
        /\ \A i \in 1 .. n - 1 : (q \o <<w>>)[i] = q[i]
    BY <1>2, <1>3, <2>2
  <2> QED
    BY <2>3 DEF q
<1>5. /\ Unjudged(a) \in Seq(Message) /\ Len(Unjudged(a)) = n
      /\ \A i \in 1 .. n : Unjudged(a)[i] = Verdict(s[i], "FAILED_open_or_read")
  BY <1>1, <1>2
<1>6. \A i \in 1 .. n - 1 : Unjudged(b)[i] = Verdict(s[i], "FAILED_open_or_read")
  BY <1>1, <1>2
<1>7. \A i \in 1 .. n : Unjudged(a)[i] = (Unjudged(b) \o <<w>>)[i]
  <2> SUFFICES ASSUME NEW i \in 1 .. n PROVE Unjudged(a)[i] = (Unjudged(b) \o <<w>>)[i]
    OBVIOUS
  <2>1. i = n \/ i \in 1 .. n - 1
    BY <1>2
  <2>2. w = Verdict(s[n], "FAILED_open_or_read")
    BY DEF w
  <2> QED
    BY <1>4, <1>5, <1>6, <2>1, <2>2
<1>8. Unjudged(a) = Unjudged(b) \o <<w>>
  BY <1>4, <1>5, <1>7, SeqEqual
<1> QED
  BY <1>1, <1>8 DEF a, b, w

(* What has been said of the first entries of a group is a beginning of *)
(* what is due for it.                                                  *)
LEMMA UnjudgedBegins ==
  ASSUME NEW s \in Seq(LineSet), NEW n \in 0 .. Len(s)
  PROVE  Begins(Unjudged(SubSeq(s, 1, n)), Unjudged(s))
<1> DEFINE P == {u \in Seq(LineSet) : \A k \in 0 .. Len(u) :
                   Begins(Unjudged(SubSeq(u, 1, k)), Unjudged(u))}
<1>0. Unjudged(<<>>) = <<>>
  BY DEF Unjudged
<1>1. <<>> \in P
  <2>1. \A k \in 0 .. 0 : SubSeq(<<>>, 1, k) = <<>>
    OBVIOUS
  <2>2. <<>> \in Seq(LineSet) /\ <<>> \in Seq(Message) /\ Len(<<>>) = 0
    OBVIOUS
  <2>3. Begins(<<>>, <<>>)
    BY <2>2, BeginsConcat
  <2> QED
    BY <1>0, <2>1, <2>2, <2>3
<1>2. ASSUME NEW u \in Seq(LineSet), NEW x \in LineSet, u \in P PROVE Append(u, x) \in P
  <2> DEFINE v == Append(u, x)
             w == Verdict(x, "FAILED_open_or_read")
  <2>1. v \in Seq(LineSet) /\ Len(v) = Len(u) + 1 /\ Len(u) \in Nat
        /\ v[Len(v)] = x /\ SubSeq(v, 1, Len(v) - 1) = u /\ Len(v) \in 1 .. Len(v)
    OBVIOUS
  <2>2. SubSeq(v, 1, Len(v)) = v
    BY <2>1, SubSeqFull
  <2>3. Unjudged(v) \in Seq(Message) /\ Unjudged(v) = Unjudged(u) \o <<w>>
    <3> HIDE DEF v, w
    <3>1. /\ Unjudged(v) \in Seq(Message)
          /\ Unjudged(SubSeq(v, 1, Len(v)))
               = Unjudged(SubSeq(v, 1, Len(v) - 1)) \o <<Verdict(v[Len(v)], "FAILED_open_or_read")>>
      BY <2>1, UnjudgedStep
    <3> QED
      BY <2>1, <2>2, <3>1 DEF w
  <2>4. w \in Message
    BY MessageTyped
  <2>5. ASSUME NEW k \in 0 .. Len(v)
        PROVE  Begins(Unjudged(SubSeq(v, 1, k)), Unjudged(v))
    <3>1. CASE k = Len(v)
      BY <2>2, <2>3, <3>1, BeginsConcat
    <3>2. CASE k \in 0 .. Len(u)
      <4>1. SubSeq(v, 1, k) = SubSeq(u, 1, k)
        BY <3>2
      <4>2. Begins(Unjudged(SubSeq(u, 1, k)), Unjudged(u))
        BY <1>2, <3>2
      <4> DEFINE j == Unjudged(SubSeq(u, 1, k))
                 t == Unjudged(u)
      <4>3. Begins(j, t)
        BY <4>2
      <4> HIDE DEF j, t, w
      <4>4. <<w>> \in Seq(Message) /\ j \in Seq(Message)
        BY <2>4, <4>3, BeginsIs
      <4>5. Begins(j, t \o <<w>>)
        BY <4>3, <4>4, BeginsConcat
      <4> QED
        BY <2>3, <4>1, <4>5 DEF j, t
    <3> QED
      BY <2>1, <3>1, <3>2
  <2> HIDE DEF v
  <2> QED
    BY <2>1, <2>5 DEF v
<1>3. Seq(LineSet) \subseteq P
  <2> HIDE DEF P
  <2> QED
    BY <1>1, <1>2, Judging!SeqSetInduction
<1> QED
  BY <1>3

(* What a read calls for, and the reads before it. *)
LEMMA DueIs ==
  ASSUME NEW list \in Seq(LineSet), NEW r \in Read
  PROVE  /\ r.content = "error" =>
              Due(list, r) = Unjudged(Only(list, Of(r.path))) \o <<Complaint(r.path)>>
         /\ r.content # "error" => Due(list, r) = Judged(Only(list, Of(r.path)), r.content)
         /\ Due(list, r) \in Seq(Message)
<1>1. OfPath(list, r.path) = Only(list, Of(r.path))
  BY OfPathIs
<1>2. Only(list, Of(r.path)) \in Seq(LineSet)
  BY OnlyTyped
<1> DEFINE own == Only(list, Of(r.path))
<1> HIDE DEF own
<1>3. Judged(own, r.content) \in Seq(Message)
  <2>1. own \in Seq(LineSet) /\ 0 \in 0 .. Len(own)
    BY <1>2 DEF own
  <2>2. Begins(Judged(SubSeq(own, 1, 0), r.content), Judged(own, r.content))
    BY <2>1, JudgedBegins
  <2> QED
    BY <2>2, BeginsIs
<1>4. Unjudged(own) \in Seq(Message)
  <2>1. own \in Seq(LineSet) /\ 0 \in 0 .. Len(own)
    BY <1>2 DEF own
  <2>2. Begins(Unjudged(SubSeq(own, 1, 0)), Unjudged(own))
    BY <2>1, UnjudgedBegins
  <2> QED
    BY <2>2, BeginsIs
<1>5. <<Complaint(r.path)>> \in Seq(Message)
  <2>1. Complaint(r.path) \in Message
    BY MessageTyped DEF Read
  <2> QED
    BY <2>1
<1>6. Unjudged(own) \o <<Complaint(r.path)>> \in Seq(Message)
  BY <1>4, <1>5, ConcatProperties
<1> QED
  BY <1>1, <1>3, <1>6 DEF Due, own

(* What is due for the files read, as a fold over them. *)
LEMMA DueOfIs ==
  ASSUME NEW list, NEW rs
  PROVE  DueOf(list, rs) = Saying!Fold(list, <<>>, rs)
BY DEF DueOf, SayDue, Saying!Fold, Saying!FoldLeft, Saying!MapThenFoldSet, Saying!Max,
       FoldLeft, MapThenFoldSet, Max

(* What is due are messages. *)
LEMMA DueOfTyped ==
  ASSUME NEW list \in Seq(LineSet), NEW rs \in Seq(Read)
  PROVE  DueOf(list, rs) \in Seq(Message)
<1>1. \A said \in Seq(Message), q \in Read : SayDue(list, said, q) \in Seq(Message)
  <2> SUFFICES ASSUME NEW said \in Seq(Message), NEW q \in Read
               PROVE  said \o Due(list, q) \in Seq(Message)
    BY DEF SayDue
  <2>1. Due(list, q) \in Seq(Message)
    BY DueIs
  <2> QED
    BY <2>1, ConcatProperties
<1>2. <<>> \in Seq(Message)
  OBVIOUS
<1>3. Saying!Fold(list, <<>>, rs) \in Seq(Message)
  BY <1>1, <1>2, Saying!FoldType
<1> QED
  BY <1>3, DueOfIs

(* One more file read, one more group due. *)
LEMMA DueOfStep ==
  ASSUME NEW list, NEW rs \in Seq(Read), NEW r \in Read
  PROVE  DueOf(list, Append(rs, r)) = DueOf(list, rs) \o Due(list, r)
<1>1. Saying!Fold(list, <<>>, Append(rs, r)) = SayDue(list, Saying!Fold(list, <<>>, rs), r)
  BY Saying!FoldAppend
<1> QED
  BY <1>1, DueOfIs DEF SayDue

(* Writing adds one message to what has been said, or stops the run.      *)
LEMMA WriteLineSays ==
  ASSUME NEW line \in Message, log \in Seq(Message), buffer \in Seq(Message),
         error = "none", WriteLine(line)
  PROVE  /\ log' \in Seq(Message) /\ buffer' \in Seq(Message) /\ status' = status
         /\ error' \in {"none", "broken_pipe", "output"}
         /\ error' = "none" => log' \o buffer' = (log \o buffer) \o <<line>>
         /\ error' # "none" => log' = log
<1>1. /\ Append(buffer, line) = buffer \o <<line>> /\ <<line>> \in Seq(Message)
      /\ <<>> \in Seq(Message) /\ Append(buffer, line) \in Seq(Message)
  BY AppendIsConcat
<1>2. log \o (buffer \o <<line>>) = (log \o buffer) \o <<line>>
  BY <1>1, ConcatAssociative
<1>3. log \o Append(buffer, line) \in Seq(Message)
  BY <1>1, ConcatProperties
<1>s. status' = status
  BY DEF WriteLine
<1>4. CASE buffer' = Append(buffer, line) /\ UNCHANGED <<log, error>>
  BY <1>1, <1>2, <1>4, <1>s
<1>5. CASE sink = "open" /\ buffer' = <<>> /\ log' = log \o Append(buffer, line)
           /\ UNCHANGED error
  <2>1. log' \o buffer' = log'
    BY <1>3, <1>5, ConcatEmptySeq
  <2> QED
    BY <1>1, <1>2, <1>3, <1>5, <1>s, <2>1
<1>6. CASE OutputError
  BY <1>6, <1>s DEF OutputError
<1> QED
  BY <1>4, <1>5, <1>6 DEF WriteLine

(* A flush sends out the buffer and what is written with it, or breaks and *)
(* sends nothing.                                                          *)
LEMMA FlushSays ==
  ASSUME NEW messages \in Seq(Message), log \in Seq(Message), buffer \in Seq(Message),
         error = "none", Flush(messages)
  PROVE  /\ log' \in Seq(Message) /\ buffer' \in Seq(Message)
         /\ error' \in {"none", "broken_pipe", "output"}
         /\ error' = "none" => /\ buffer' = <<>>
                               /\ log' = (log \o buffer) \o messages
                               /\ log' \o buffer' = (log \o buffer) \o messages
         /\ error' # "none" => log' = log /\ buffer # <<>>
<1>1. (log \o buffer) \o messages \in Seq(Message) /\ <<>> \in Seq(Message)
  BY ConcatProperties
<1>2. CASE /\ buffer' = <<>>
           /\ log' = log \o buffer \o messages
           /\ UNCHANGED <<sink, error>>
  <2>1. log' \o buffer' = log'
    BY <1>1, <1>2, ConcatEmptySeq
  <2> QED
    BY <1>1, <1>2, <2>1
<1>3. CASE buffer # <<>> /\ OutputError
  BY <1>3 DEF OutputError
<1> QED
  BY <1>2, <1>3 DEF Flush

(* What is said of the entries of a group before entry k, at step at. *)
Part(group, content, k, at) ==
  CASE at = "judge"      -> Judged(SubSeq(group, 1, k - 1), content)
    [] at = "detail"     -> Judged(SubSeq(group, 1, k - 1), content)
                              \o <<Verdict(group[k], "FAILED")>>
    [] at = "unreadable" -> Unjudged(SubSeq(group, 1, k - 1))
    [] OTHER             -> <<>>

SaidBy(list, gs, rs, n, k, at) ==
  DueOf(list, SubSeq(rs, 1, n - 1)) \o Part(gs[n], rs[n].content, k, at)

(* What the program has said so far: all that the reads of the groups     *)
(* before g call for and, of group g, what is said of the entries before  *)
(* e.                                                                     *)
Said == SaidBy(Listed, groups, reads, g, e, pc)

StreamsTyped ==
  /\ log \in Seq(Message)
  /\ buffer \in Seq(Message)
  /\ error \in {"none"} \cup Reason

(* While nothing has gone wrong with the output, that is what went out    *)
(* and what is held back; nothing is held back once the counts are out.   *)
NothingLost ==
  error = "none" =>
    IF pc = "reported" THEN buffer = <<>> /\ log = Expected \o Summary
                       ELSE log \o buffer = Said

(* Afterwards only the last word of main::report may have been added.     *)
OutputStopped ==
  error # "none" =>
    IF status # Running /\ error # "broken_pipe" THEN IsPrefix(Front(log), Expected)
                                                 ELSE IsPrefix(log, Expected)

(* The part of a group already judged grows by the verdict printed, and by *)
(* the detail behind a mismatch.                                           *)
LEMMA PartStep ==
  ASSUME NEW group \in Seq(LineSet), NEW k \in 1 .. Len(group), NEW content
  PROVE  /\ Part(group, content, k, "judge") \in Seq(Message)
         /\ Part(group, content, k, "detail") \in Seq(Message)
         /\ Part(group, content, k, "unreadable") \in Seq(Message)
         /\ Matches(group[k], content) =>
              Part(group, content, k + 1, "judge")
                = Part(group, content, k, "judge") \o <<Verdict(group[k], "OK")>>
         /\ Part(group, content, k, "detail")
              = Part(group, content, k, "judge") \o <<Verdict(group[k], "FAILED")>>
         /\ ~Matches(group[k], content) =>
              Part(group, content, k + 1, "judge")
                = Part(group, content, k, "detail") \o <<Detail(group[k])>>
         /\ Part(group, content, k + 1, "unreadable")
              = Part(group, content, k, "unreadable")
                  \o <<Verdict(group[k], "FAILED_open_or_read")>>
<1> DEFINE x == group[k]
           a == SubSeq(group, 1, k)
           b == SubSeq(group, 1, k - 1)
<1>1. a \in Seq(LineSet) /\ b \in Seq(LineSet) /\ a = Append(b, x) /\ x \in LineSet
      /\ (k + 1) - 1 = k
  BY SubSeqStep
<1>2. Part(group, content, k, "judge") = Judged(b, content)
      /\ Part(group, content, k, "detail") = Judged(b, content) \o <<Verdict(x, "FAILED")>>
      /\ Part(group, content, k, "unreadable") = Unjudged(b)
  BY DEF Part
<1>3. Part(group, content, k + 1, "judge") = Judged(a, content)
      /\ Part(group, content, k + 1, "unreadable") = Unjudged(a)
  BY <1>1 DEF Part
<1>4. /\ Verdict(x, "OK") \in Message /\ Verdict(x, "FAILED") \in Message /\ Detail(x) \in Message
  BY <1>1, MessageTyped
<1>5. Unjudged(a) = Unjudged(b) \o <<Verdict(x, "FAILED_open_or_read")>>
  BY UnjudgedStep
<1>6. /\ Matches(x, content) => Lines(x, content) = <<Verdict(x, "OK")>>
      /\ ~Matches(x, content) => Lines(x, content) = <<Verdict(x, "FAILED"), Detail(x)>>
  BY DEF Lines
<1> HIDE DEF x, a, b
<1>7. Judged(b, content) \in Seq(Message)
      /\ Judged(a, content) = Judged(b, content) \o Lines(x, content)
  BY <1>1, JudgedStep
<1>8. Unjudged(b) \in Seq(Message)
  <2>1. Begins(Unjudged(SubSeq(b, 1, 0)), Unjudged(b))
    <3>1. 0 \in 0 .. Len(b)
      BY <1>1
    <3> QED
      BY <1>1, <3>1, UnjudgedBegins
  <2> QED
    BY <2>1, BeginsIs
<1>9. Judged(b, content) \o <<Verdict(x, "FAILED"), Detail(x)>>
        = (Judged(b, content) \o <<Verdict(x, "FAILED")>>) \o <<Detail(x)>>
      /\ Judged(b, content) \o <<Verdict(x, "FAILED")>> \in Seq(Message)
  <2> DEFINE j == Judged(b, content)
             v == Verdict(x, "FAILED")
             w == Detail(x)
  <2>1. j \in Seq(Message) /\ v \in Message /\ w \in Message
    BY <1>4, <1>7
  <2> HIDE DEF j, v, w
  <2>2. <<v>> \in Seq(Message) /\ <<w>> \in Seq(Message) /\ <<v, w>> = <<v>> \o <<w>>
    <3>1. <<v>> \in Seq(Message) /\ <<w>> \in Seq(Message) /\ <<v, w>> \in Seq(Message)
      BY <2>1
    <3>2. Append(<<v>>, w) = <<v>> \o <<w>>
      BY <2>1, <3>1, AppendIsConcat
    <3>3. Append(<<v>>, w) = <<v, w>>
      <4> DEFINE p == Append(<<v>>, w)
                 q == <<v, w>>
      <4>1. p \in Seq(Message) /\ Len(p) = 2 /\ p[1] = v /\ p[2] = w
        BY <2>1, <3>1, AppendProperties
      <4>2. q \in Seq(Message) /\ Len(q) = 2 /\ q[1] = v /\ q[2] = w
        BY <3>1
      <4> HIDE DEF p, q
      <4>3. \A i \in 1 .. Len(p) : p[i] = q[i]
        BY <4>1, <4>2
      <4>4. p = q
        BY <4>1, <4>2, <4>3, SeqEqual
      <4> QED
        BY <4>4 DEF p, q
    <3> QED
      BY <3>1, <3>2, <3>3
  <2>3. j \o <<v, w>> = (j \o <<v>>) \o <<w>> /\ j \o <<v>> \in Seq(Message)
    BY <2>1, <2>2, ConcatAssociative, ConcatProperties
  <2> QED
    BY <2>3 DEF j, v, w
<1> QED
  BY <1>2, <1>3, <1>5, <1>6, <1>7, <1>8, <1>9 DEF x

(* Each beginning of a group calls for a beginning of what the group does.*)
LEMMA PartBegins ==
  ASSUME NEW group \in Seq(LineSet), NEW k \in 1 .. Len(group) + 1, NEW content
  PROVE  /\ Begins(Part(group, content, k, "judge"), Judged(group, content))
         /\ k <= Len(group) /\ ~Matches(group[k], content) =>
              Begins(Part(group, content, k, "detail"), Judged(group, content))
         /\ Begins(Part(group, content, k, "unreadable"), Unjudged(group))
         /\ Part(group, content, 1, "judge") = <<>>
         /\ Part(group, content, 1, "unreadable") = <<>>
         /\ Part(group, content, Len(group) + 1, "judge") = Judged(group, content)
         /\ Part(group, content, Len(group) + 1, "unreadable") = Unjudged(group)
<1>1. k - 1 \in 0 .. Len(group) /\ Len(group) \in Nat /\ (Len(group) + 1) - 1 = Len(group)
  OBVIOUS
<1>2. Begins(Judged(SubSeq(group, 1, k - 1), content), Judged(group, content))
      /\ Begins(Unjudged(SubSeq(group, 1, k - 1)), Unjudged(group))
  BY <1>1, JudgedBegins, UnjudgedBegins
<1>3. ASSUME k <= Len(group), ~Matches(group[k], content)
      PROVE  Begins(Part(group, content, k, "detail"), Judged(group, content))
  <2>1. k \in 1 .. Len(group) /\ k \in 0 .. Len(group) /\ (k + 1) - 1 = k
    BY <1>1, <1>3
  <2> DEFINE t == Judged(group, content)
             j == Part(group, content, k + 1, "judge")
             i == Part(group, content, k, "detail")
             w == Detail(group[k])
  <2>2. Begins(j, t)
    <3>1. Begins(Judged(SubSeq(group, 1, k), content), Judged(group, content))
      BY <2>1, JudgedBegins
    <3> QED
      BY <2>1, <3>1 DEF Part
  <2>3. i \in Seq(Message) /\ j = i \o <<w>>
    BY <1>3, <2>1, PartStep
  <2>4. w \in Message
    BY <2>1, MessageTyped
  <2> HIDE DEF t, j, i, w
  <2>5. PICK r \in Seq(Message) : t = j \o r
    BY <2>2 DEF Begins
  <2>6. <<w>> \in Seq(Message) /\ <<w>> \o r \in Seq(Message) /\ (i \o <<w>>) \o r = i \o (<<w>> \o r)
    BY <2>3, <2>4, ConcatAssociative, ConcatProperties
  <2>7. Begins(i, t)
    BY <2>3, <2>5, <2>6 DEF Begins
  <2> QED
    BY <2>7 DEF i, t
<1>4. SubSeq(group, 1, 1 - 1) = <<>> /\ SubSeq(group, 1, Len(group)) = group
  BY SubSeqFull
<1>5. Unjudged(<<>>) = <<>>
  BY DEF Unjudged
<1>6. Judged(<<>>, content) = <<>>
  BY Judging!FoldEmpty DEF Judged, SayLines, Judging!Fold, Judging!FoldLeft,
       Judging!MapThenFoldSet, Judging!Max, FoldLeft, MapThenFoldSet, Max
<1> QED
  BY <1>1, <1>2, <1>3, <1>4, <1>5, <1>6 DEF Part

(* What has been said is the beginning of what the reads call for, and    *)
(* all of it between two groups.                                          *)
LEMMA SaidBegins ==
  ASSUME Progress, pc # "reported"
  PROVE  /\ Said \in Seq(Message) /\ Expected \in Seq(Message)
         /\ Begins(Said, Expected)
         /\ ~Busy => Said = Expected
         /\ Busy => /\ reads = Append(SubSeq(reads, 1, g - 1), reads[g])
                    /\ SubSeq(reads, 1, g - 1) \in Seq(Read) /\ reads[g] \in Read
                    /\ Only(Listed, Of(reads[g].path)) = groups[g]
                    /\ reads[g].path = Path
<1>1. Listed \in Seq(LineSet) /\ reads \in Seq(Read) /\ g \in 1 .. Len(groups) + 1
      /\ Len(groups) \in Nat
  BY ListedTyped DEF Progress
<1> DEFINE D == DueOf(Listed, SubSeq(reads, 1, g - 1))
<1>2. CASE ~Busy
  <2>1. Len(reads) = g - 1
    BY <1>2 DEF Progress
  <2>2. SubSeq(reads, 1, g - 1) = reads
    BY <1>1, <2>1, SubSeqFull
  <2>3. Part(groups[g], reads[g].content, e, pc) = <<>>
    BY <1>2 DEF Part, Busy
  <2>4. Expected \in Seq(Message) /\ D = Expected
    BY <1>1, <2>2, DueOfTyped DEF Expected
  <2>5. Said = D \o <<>>
    BY <2>3 DEF Said, SaidBy
  <2> HIDE DEF D
  <2>6. Said = Expected
    BY <2>4, <2>5, ConcatEmptySeq
  <2> QED
    BY <1>2, <2>4, <2>6, BeginsConcat
<1>3. CASE Busy
  <2>1. Len(reads) = g /\ g \in 1 .. Len(reads) /\ g <= Len(groups) /\ e \in 1 .. Len(groups[g]) + 1
        /\ pc # "manifest" /\ reads[g] \in Read
    BY <1>1, <1>3, LastRead DEF Progress, Busy
  <2>2. /\ SubSeq(reads, 1, g - 1) \in Seq(Read)
        /\ reads = Append(SubSeq(reads, 1, g - 1), reads[g])
    BY <1>1, <2>1, SubSeqStep, SubSeqFull
  <2>3. groups[g] = Only(Listed, Of(Path)) /\ groups[g] \in Seq(LineSet) /\ Path = Named(groups[g])
    BY <2>1, GroupTyped
  <2>4. reads[g].path = Path
    BY <2>1, <2>3 DEF Progress
  <2> DEFINE r == reads[g]
             s == SubSeq(reads, 1, g - 1)
             p == Part(groups[g], reads[g].content, e, pc)
             d == Due(Listed, reads[g])
  <2>5. D \in Seq(Message) /\ d \in Seq(Message)
    BY <1>1, <2>1, <2>2, DueOfTyped, DueIs
  <2>6. Expected = D \o d
    <3> HIDE DEF r, s
    <3>1. r \in Read /\ s \in Seq(Read) /\ reads = Append(s, r)
      BY <2>1, <2>2 DEF r, s
    <3>2. DueOf(Listed, Append(s, r)) = DueOf(Listed, s) \o Due(Listed, r)
      BY <3>1, DueOfStep
    <3>3. DueOf(Listed, reads) = DueOf(Listed, s) \o Due(Listed, r)
      BY <3>1, <3>2
    <3> QED
      BY <3>3 DEF Expected, r, s
  <2>7. Begins(p, d)
    <3>1. CASE pc \in {"judge", "detail"}
      <4>1. reads[g].content \in Contents /\ reads[g].content # "error"
        BY <3>1, ManifestAssumption DEF Progress
      <4>2. d = Judged(groups[g], reads[g].content)
        BY <1>1, <2>1, <2>3, <2>4, <4>1, DueIs
      <4>3. pc = "detail" => e <= Len(groups[g]) /\ ~Matches(groups[g][e], reads[g].content)
        BY DEF Progress
      <4> DEFINE c0 == reads[g].content
                 t == groups[g]
      <4>4. /\ t \in Seq(LineSet) /\ e \in 1 .. Len(t) + 1 /\ d = Judged(t, c0)
            /\ p = Part(t, c0, e, pc)
            /\ pc = "detail" => e <= Len(t) /\ ~Matches(t[e], c0)
        BY <2>1, <2>3, <4>2, <4>3
      <4> HIDE DEF p, d, c0, t
      <4>5. Begins(Part(t, c0, e, "judge"), Judged(t, c0))
        BY <4>4, PartBegins
      <4>6. pc = "detail" => Begins(Part(t, c0, e, "detail"), Judged(t, c0))
        BY <4>4, PartBegins
      <4>7. CASE pc = "judge"
        BY <4>4, <4>5, <4>7
      <4>8. CASE pc = "detail"
        BY <4>4, <4>6, <4>8
      <4> QED
        BY <3>1, <4>7, <4>8
    <3>2. CASE pc = "unreadable"
      <4>1. reads[g].content = "error"
        BY <3>2 DEF Progress
      <4>2. d = Unjudged(groups[g]) \o <<Complaint(reads[g].path)>>
        BY <1>1, <2>1, <2>3, <2>4, <4>1, DueIs
      <4> DEFINE u == Unjudged(groups[g])
                 w == <<Complaint(reads[g].path)>>
      <4>3. Begins(p, u)
        BY <2>1, <2>3, <3>2, PartBegins
      <4>4. w \in Seq(Message)
        <5>1. Complaint(reads[g].path) \in Message
          BY <2>1, MessageTyped DEF Read
        <5> QED
          BY <5>1
      <4>5. p \in Seq(Message) /\ d = u \o w
        BY <4>2, <4>3, BeginsIs
      <4> HIDE DEF p, u, w, d
      <4>6. Begins(p, u \o w)
        BY <4>3, <4>4, <4>5, BeginsConcat
      <4> QED
        BY <4>5, <4>6
    <3> QED
      BY <1>3, <3>1, <3>2 DEF Busy
  <2>8. Said = D \o p
    BY DEF Said, SaidBy
  <2> HIDE DEF D, p, d, r, s
  <2>9. p \in Seq(Message)
    BY <2>7, BeginsIs
  <2>10. Begins(D \o p, D \o d)
    BY <2>5, <2>7, <2>9, BeginsConcat
  <2>11. D \o p \in Seq(Message) /\ D \o d \in Seq(Message)
    BY <2>5, <2>9, ConcatProperties
  <2> QED
    BY <1>3, <2>1, <2>2, <2>3, <2>4, <2>6, <2>8, <2>10, <2>11
<1> QED
  BY <1>2, <1>3

(* What is held back goes out with nothing in between.                    *)
LEMMA LogBegins ==
  ASSUME Progress, StreamsTyped, NothingLost, error = "none", pc # "reported"
  PROVE  IsPrefix(log, Expected)
<1>1. Said \in Seq(Message) /\ Begins(Said, Expected)
  BY SaidBegins
<1>2. log \o buffer = Said
  BY DEF NothingLost
<1>3. log \in Seq(Message) /\ buffer \in Seq(Message)
  BY DEF StreamsTyped
<1>4. PICK r \in Seq(Message) : Expected = Said \o r
  BY <1>1 DEF Begins
<1>5. (log \o buffer) \o r = log \o (buffer \o r)
  BY <1>3, ConcatAssociative
<1>6. buffer \o r \in Seq(Message)
  BY <1>3, ConcatProperties
<1>7. Begins(log, Expected)
  BY <1>2, <1>3, <1>4, <1>5, <1>6 DEF Begins
<1> QED
  BY <1>7, BeginsIs

(* Nothing has been said. *)
LEMMA InitStreams == Init => StreamsTyped /\ NothingLost /\ OutputStopped
<1> SUFFICES ASSUME Init PROVE StreamsTyped /\ NothingLost /\ OutputStopped
  OBVIOUS
<1>1. log = <<>> /\ buffer = <<>> /\ error = "none" /\ pc = "manifest" /\ reads = <<>>
  BY DEF Init, CliInit
<1>2. StreamsTyped /\ OutputStopped
  BY <1>1 DEF StreamsTyped, OutputStopped
<1>3. Said = Expected
  BY <1>1, InitProgress, SaidBegins DEF Busy
<1>4. Expected = <<>>
  BY <1>1, DueOfIs, Saying!FoldEmpty DEF Expected
<1>5. log \o buffer = <<>>
  BY <1>1
<1> QED
  BY <1>1, <1>2, <1>3, <1>4, <1>5 DEF NothingLost

(* An entry is being dealt with. *)
LEMMA EntryTurn ==
  ASSUME Progress, Busy, e <= Len(Group)
  PROVE  /\ Group = groups[g] /\ Last(reads) = reads[g]
         /\ groups[g] \in Seq(LineSet) /\ e \in 1 .. Len(groups[g])
         /\ groups[g][e] \in LineSet
<1>1. g <= Len(groups) /\ e \in 1 .. Len(groups[g]) + 1
  BY DEF Progress
<1>2. Group = groups[g] /\ groups[g] \in Seq(LineSet) /\ Len(groups[g]) \in Nat
  BY <1>1, GroupTyped
<1>3. e \in 1 .. Len(groups[g])
  BY <1>1, <1>2
<1>4. groups[g][e] \in LineSet
  BY <1>2, <1>3, ElementOfSeq
<1> QED
  BY <1>2, <1>3, <1>4, LastRead

(* One message more. *)
LEMMA SaidStep ==
  ASSUME Progress, Busy, NEW i, NEW to, NEW message \in Message,
         Part(groups[g], reads[g].content, e, pc) \in Seq(Message),
         Part(groups[g], reads[g].content, i, to)
           = Part(groups[g], reads[g].content, e, pc) \o <<message>>
  PROVE  SaidBy(Listed, groups, reads, g, i, to) = Said \o <<message>>
<1> DEFINE D == DueOf(Listed, SubSeq(reads, 1, g - 1))
           p == Part(groups[g], reads[g].content, e, pc)
           q == Part(groups[g], reads[g].content, i, to)
<1>1. D \in Seq(Message)
  <2>1. reads \in Seq(Read) /\ g \in 1 .. Len(reads)
    BY LastRead DEF Progress
  <2>2. SubSeq(reads, 1, g - 1) \in Seq(Read) /\ Listed \in Seq(LineSet)
    BY <2>1, SubSeqStep, ListedTyped DEF Progress
  <2> QED
    BY <2>2, DueOfTyped
<1>2. p \in Seq(Message) /\ <<message>> \in Seq(Message) /\ q = p \o <<message>>
  OBVIOUS
<1>3. Said = D \o p /\ SaidBy(Listed, groups, reads, g, i, to) = D \o q
  BY DEF SaidBy, Said
<1> HIDE DEF D, p, q
<1>4. (D \o p) \o <<message>> = D \o (p \o <<message>>)
  BY <1>1, <1>2, ConcatAssociative
<1> QED
  BY <1>2, <1>3, <1>4

(* What each step that says something adds. *)
LEMMA SaidPrintOk ==
  ASSUME Progress, PrintOk
  PROVE  /\ SaidBy(Listed, groups, reads, g, e + 1, "judge")
              = Said \o <<Verdict(Group[e], "OK")>>
         /\ Verdict(Group[e], "OK") \in Message
<1>1. pc = "judge" /\ Busy /\ e <= Len(Group) /\ Matches(Group[e], Last(reads).content)
  BY DEF PrintOk, Busy
<1>2. /\ Group = groups[g] /\ Last(reads) = reads[g]
      /\ groups[g] \in Seq(LineSet) /\ e \in 1 .. Len(groups[g])
      /\ groups[g][e] \in LineSet
  BY <1>1, EntryTurn
<1>3. /\ Part(groups[g], reads[g].content, e, "judge") \in Seq(Message)
      /\ Part(groups[g], reads[g].content, e + 1, "judge")
           = Part(groups[g], reads[g].content, e, "judge") \o <<Verdict(groups[g][e], "OK")>>
  BY <1>1, <1>2, PartStep
<1>4. Verdict(groups[g][e], "OK") \in Message
  BY <1>2, MessageTyped
<1>5. SaidBy(Listed, groups, reads, g, e + 1, "judge")
        = Said \o <<Verdict(groups[g][e], "OK")>>
  BY <1>1, <1>3, <1>4, SaidStep
<1> QED
  BY <1>1, <1>2, <1>4, <1>5 DEF Said

(* Printing FAILED says the verdict; the detail is still to come. *)
LEMMA SaidPrintFailed ==
  ASSUME Progress, PrintFailed
  PROVE  /\ SaidBy(Listed, groups, reads, g, e, "detail")
              = Said \o <<Verdict(Group[e], "FAILED")>>
         /\ Verdict(Group[e], "FAILED") \in Message
<1>1. pc = "judge" /\ Busy /\ e <= Len(Group)
  BY DEF PrintFailed, Busy
<1>2. /\ Group = groups[g]
      /\ groups[g] \in Seq(LineSet) /\ e \in 1 .. Len(groups[g])
      /\ groups[g][e] \in LineSet
  BY <1>1, EntryTurn
<1>3. /\ Part(groups[g], reads[g].content, e, "judge") \in Seq(Message)
      /\ Part(groups[g], reads[g].content, e, "detail")
           = Part(groups[g], reads[g].content, e, "judge") \o <<Verdict(groups[g][e], "FAILED")>>
  BY <1>1, <1>2, PartStep
<1>4. Verdict(groups[g][e], "FAILED") \in Message
  BY <1>2, MessageTyped
<1>5. SaidBy(Listed, groups, reads, g, e, "detail")
        = Said \o <<Verdict(groups[g][e], "FAILED")>>
  BY <1>1, <1>3, <1>4, SaidStep
<1> QED
  BY <1>1, <1>2, <1>4, <1>5 DEF Said

(* The detail completes the entry. *)
LEMMA SaidReportMismatch ==
  ASSUME Progress, ReportMismatch
  PROVE  /\ SaidBy(Listed, groups, reads, g, e + 1, "judge") = Said \o <<Detail(Group[e])>>
         /\ Detail(Group[e]) \in Message
<1>1. pc = "detail" /\ Busy
  BY DEF ReportMismatch, Busy
<1>2. e <= Len(groups[g]) /\ ~Matches(groups[g][e], reads[g].content)
  BY <1>1 DEF Progress
<1>3. /\ Group = groups[g]
      /\ groups[g] \in Seq(LineSet) /\ e \in 1 .. Len(groups[g])
      /\ groups[g][e] \in LineSet
  BY <1>1, <1>2, EntryTurn DEF Group
<1>4. /\ Part(groups[g], reads[g].content, e, "detail") \in Seq(Message)
      /\ Part(groups[g], reads[g].content, e + 1, "judge")
           = Part(groups[g], reads[g].content, e, "detail") \o <<Detail(groups[g][e])>>
  BY <1>2, <1>3, PartStep
<1>5. Detail(groups[g][e]) \in Message
  BY <1>3, MessageTyped
<1>6. SaidBy(Listed, groups, reads, g, e + 1, "judge")
        = Said \o <<Detail(groups[g][e])>>
  BY <1>1, <1>4, <1>5, SaidStep
<1> QED
  BY <1>1, <1>3, <1>5, <1>6 DEF Said

(* An entry of a file that cannot be read gets its own verdict. *)
LEMMA SaidPrintUnreadable ==
  ASSUME Progress, PrintUnreadable
  PROVE  /\ SaidBy(Listed, groups, reads, g, e + 1, "unreadable")
              = Said \o <<Verdict(Group[e], "FAILED_open_or_read")>>
         /\ Verdict(Group[e], "FAILED_open_or_read") \in Message
<1>1. pc = "unreadable" /\ Busy /\ e <= Len(Group)
  BY DEF PrintUnreadable, Busy
<1>2. /\ Group = groups[g]
      /\ groups[g] \in Seq(LineSet) /\ e \in 1 .. Len(groups[g])
      /\ groups[g][e] \in LineSet
  BY <1>1, EntryTurn
<1> DEFINE w == Verdict(groups[g][e], "FAILED_open_or_read")
<1>3. /\ Part(groups[g], reads[g].content, e, "unreadable") \in Seq(Message)
      /\ Part(groups[g], reads[g].content, e + 1, "unreadable")
           = Part(groups[g], reads[g].content, e, "unreadable") \o <<w>>
  BY <1>2, PartStep
<1>4. w \in Message
  BY <1>2, MessageTyped
<1> HIDE DEF w
<1>5. SaidBy(Listed, groups, reads, g, e + 1, "unreadable")
        = Said \o <<w>>
  BY <1>1, <1>3, <1>4, SaidStep
<1> QED
  BY <1>1, <1>2, <1>4, <1>5 DEF Said, w

(* What has been said when a group is done is what its read calls for.    *)
LEMMA GroupSaid ==
  ASSUME Progress, Busy, e > Len(Group)
  PROVE  /\ SaidBy(Listed, groups, reads, g + 1, e, "group") = Expected
         /\ pc = "judge" => Said = Expected
         /\ pc = "unreadable" => Expected = Said \o <<Complaint(Path)>>
         /\ Complaint(Path) \in Message
<1>1. /\ Listed \in Seq(LineSet) /\ g <= Len(groups) /\ e \in 1 .. Len(groups[g]) + 1
      /\ pc # "reported" /\ reads \in Seq(Read) /\ Len(reads) = g /\ g \in Nat
      /\ reads[g] \in Read
  BY ListedTyped, LastRead DEF Progress, Busy
<1>2. /\ Group = groups[g] /\ groups[g] \in Seq(LineSet) /\ Len(groups[g]) \in Nat
      /\ Path \in Paths
  BY <1>1, GroupTyped
<1>3. e = Len(groups[g]) + 1
  BY <1>1, <1>2
<1>4. /\ reads = Append(SubSeq(reads, 1, g - 1), reads[g])
      /\ SubSeq(reads, 1, g - 1) \in Seq(Read)
      /\ Only(Listed, Of(reads[g].path)) = groups[g]
      /\ reads[g].path = Path
  BY <1>1, SaidBegins
<1>5. Expected \in Seq(Message)
  BY <1>1, SaidBegins
<1>6. Complaint(Path) \in Message
  BY <1>2, MessageTyped
<1> DEFINE before == SubSeq(reads, 1, g - 1)
           r == reads[g]
           D == DueOf(Listed, before)
           d == Due(Listed, r)
<1>7. Expected = D \o d /\ D \in Seq(Message) /\ d \in Seq(Message)
  <2> HIDE DEF before, r
  <2>1. before \in Seq(Read) /\ r \in Read /\ reads = Append(before, r)
    BY <1>1, <1>4 DEF before, r
  <2>2. DueOf(Listed, Append(before, r)) = DueOf(Listed, before) \o Due(Listed, r)
    BY <2>1, DueOfStep
  <2>3. D \in Seq(Message)
    BY <1>1, <2>1, DueOfTyped
  <2>4. d \in Seq(Message)
    BY <1>1, <2>1, DueIs
  <2> QED
    BY <2>1, <2>2, <2>3, <2>4 DEF Expected
<1>8. SaidBy(Listed, groups, reads, g + 1, e, "group") = Expected
  <2>1. SubSeq(reads, 1, (g + 1) - 1) = reads
    BY <1>1, SubSeqFull
  <2>2. Part(groups[g + 1], reads[g + 1].content, e, "group") = <<>>
    BY DEF Part
  <2>3. SaidBy(Listed, groups, reads, g + 1, e, "group") = Expected \o <<>>
    BY <2>1, <2>2 DEF SaidBy, Expected
  <2> QED
    BY <1>5, <2>3, ConcatEmptySeq
<1> DEFINE t  == groups[g]
           c0 == r.content
           u  == Unjudged(t)
<1>9. /\ Part(t, c0, Len(t) + 1, "judge") = Judged(t, c0)
      /\ Part(t, c0, Len(t) + 1, "unreadable") = Unjudged(t)
      /\ Begins(Part(t, c0, Len(t) + 1, "unreadable"), Unjudged(t))
  <2>1. t \in Seq(LineSet) /\ Len(t) + 1 \in 1 .. Len(t) + 1
    BY <1>2
  <2> HIDE DEF t, c0
  <2> QED
    BY <2>1, PartBegins
<1>10. Said = D \o Part(t, c0, Len(t) + 1, pc)
  BY <1>3 DEF Said, SaidBy
<1>11. ASSUME pc = "judge" PROVE Said = Expected
  <2>1. c0 # "error"
    BY <1>11, ManifestAssumption DEF Progress
  <2>2. d = Judged(t, c0)
    BY <1>1, <1>4, <2>1, DueIs
  <2> QED
    BY <1>7, <1>9, <1>10, <1>11, <2>2
<1>12. ASSUME pc = "unreadable" PROVE Expected = Said \o <<Complaint(Path)>>
  <2>1. c0 = "error"
    BY <1>12 DEF Progress
  <2>2. d = u \o <<Complaint(Path)>>
    BY <1>1, <1>4, <2>1, DueIs
  <2>3. u \in Seq(Message)
    BY <1>9, BeginsIs
  <2>4. <<Complaint(Path)>> \in Seq(Message)
    BY <1>6
  <2>5. Said = D \o u
    BY <1>9, <1>10, <1>12
  <2> DEFINE w == <<Complaint(Path)>>
  <2> HIDE DEF D, d, u, w, t, c0
  <2>6. (D \o u) \o w = D \o (u \o w)
    BY <1>7, <2>3, <2>4, ConcatAssociative DEF w
  <2> QED
    BY <1>7, <2>2, <2>5, <2>6 DEF w
<1> QED
  BY <1>6, <1>8, <1>11, <1>12

(* A read says nothing yet.                                               *)
LEMMA ReadSaid ==
  ASSUME Progress, pc = "group", g <= Len(groups), NEW r \in Read, NEW at \in {"judge", "unreadable"}
  PROVE  SaidBy(Listed, groups, Append(reads, r), g, 1, at) = Said
<1>1. Len(reads) = g - 1 /\ reads \in Seq(Read) /\ g \in Nat /\ g >= 1
  BY DEF Progress, Busy
<1>2. SubSeq(Append(reads, r), 1, g - 1) = SubSeq(reads, 1, g - 1)
  BY <1>1
<1>3. groups[g] \in Seq(LineSet) /\ 1 \in 1 .. Len(groups[g]) + 1
  BY GroupTyped
<1>4. \A content : Part(groups[g], content, 1, at) = <<>>
  BY <1>3, PartBegins
<1>5. Part(groups[g], reads[g].content, e, "group") = <<>>
  BY DEF Part
<1> QED
  BY <1>2, <1>4, <1>5 DEF Said, SaidBy

Streams == StreamsTyped /\ NothingLost /\ OutputStopped

(* While the output has not broken, what is out and what is held back are   *)
(* together what has been said so far; once it breaks the log stands still, *)
(* at a beginning of what is due.                                           *)
LEMMA StreamsStep == Progress /\ Progress' /\ Counted /\ Streams /\ [Next]_vars => Streams'
<1> SUFFICES ASSUME Progress, Progress', Counted, Streams, [Next]_vars PROVE Streams'
  OBVIOUS
<1>l. log \in Seq(Message) /\ buffer \in Seq(Message) /\ error \in {"none"} \cup Reason
  BY DEF Streams, StreamsTyped
<1>m. manifest' = manifest /\ Listed' = Listed
  <2>1. manifest' = manifest
    BY DEF Next, Program, Environment, Exit, ParseManifest, RejectManifest, ReadGroup, ReadFails,
           PrintOk, PrintFailed, ReportMismatch, GroupDone, PrintUnreadable, ReportUnreadable,
           ReportCounts, Finish, verifyVars, vars
  <2> QED
    BY <2>1 DEF Listed
<1>e. reads' = reads => Expected' = Expected /\ Summary' = Summary
  BY <1>m DEF Expected, Summary
<1>s. Said' = SaidBy(Listed, groups', reads', g', e', pc')
  BY <1>m DEF Said
<1>p. error = "none" /\ pc # "reported" => IsPrefix(log, Expected) /\ log \o buffer = Said
  BY LogBegins DEF Streams, NothingLost
(* A step that says nothing. *)
<1>a. ASSUME UNCHANGED cliVars, Going, pc # "reported", pc' # "reported", Said' = Said
      PROVE  Streams'
  BY <1>a, <1>l, <1>p DEF cliVars, Going, Streams, StreamsTyped, NothingLost, OutputStopped
(* A line to stdout. *)
<1>b. ASSUME NEW line \in Message, WriteLine(line), Going, pc # "reported", pc' # "reported",
             reads' = reads, Said' = Said \o <<line>>
      PROVE  Streams'
  <2>1. /\ log' \in Seq(Message) /\ buffer' \in Seq(Message) /\ status' = status
        /\ error' \in {"none", "broken_pipe", "output"}
        /\ error' = "none" => log' \o buffer' = (log \o buffer) \o <<line>>
        /\ error' # "none" => log' = log
    BY <1>b, <1>l, WriteLineSays DEF Going
  <2>2. error' = "none" => log' \o buffer' = Said'
    BY <1>b, <1>p, <2>1 DEF Going
  <2>3. error' # "none" => IsPrefix(log', Expected') /\ status' = Running
    BY <1>b, <1>e, <1>p, <2>1 DEF Going
  <2> QED
    BY <1>b, <2>1, <2>2, <2>3 DEF Streams, StreamsTyped, NothingLost, OutputStopped, Reason
(* A message to stderr, after a flush. *)
<1>c. ASSUME NEW message \in Message, FlushThenLog(<<message>>), Going, pc # "reported",
             pc' # "reported", reads' = reads, Said' = Said \o <<message>>
      PROVE  Streams'
  <2>0. <<message>> \in Seq(Message) /\ Flush(<<message>>) /\ status' = status /\ error = "none"
    BY <1>c DEF FlushThenLog, Going
  <2>1. /\ log' \in Seq(Message) /\ buffer' \in Seq(Message)
        /\ error' \in {"none", "broken_pipe", "output"}
        /\ error' = "none" => log' \o buffer' = (log \o buffer) \o <<message>>
        /\ error' # "none" => log' = log
    BY <1>l, <2>0, FlushSays
  <2>2. error' = "none" => log' \o buffer' = Said'
    BY <1>c, <1>p, <2>0, <2>1
  <2>3. error' # "none" => IsPrefix(log', Expected') /\ status' = Running
    BY <1>c, <1>e, <1>p, <2>0, <2>1 DEF Going
  <2> QED
    BY <1>c, <2>1, <2>2, <2>3 DEF Streams, StreamsTyped, NothingLost, OutputStopped, Reason
<1>1. CASE ParseManifest
  <2>1. UNCHANGED cliVars /\ Going /\ pc = "manifest" /\ pc' = "group" /\ UNCHANGED <<g, e, reads>>
    BY <1>1 DEF ParseManifest
  <2>2. Said = SaidBy(Listed, groups, reads, g, e, "manifest")
        /\ Said' = SaidBy(Listed, groups', reads, g, e, "group")
    BY <1>s, <2>1 DEF Said
  <2>3. Part(groups[g], reads[g].content, e, "manifest") = <<>>
        /\ Part(groups'[g], reads[g].content, e, "group") = <<>>
    BY DEF Part
  <2>4. Said' = Said
    BY <2>2, <2>3 DEF SaidBy
  <2> QED
    BY <1>a, <2>1, <2>4
<1>2. CASE RejectManifest
  <2>1. /\ UNCHANGED <<log, buffer, status, reads, pc>> /\ Going /\ pc = "manifest"
        /\ error' \in Reason /\ error' # "none"
    BY <1>2 DEF RejectManifest, verifyVars, Reason
  <2>2. IsPrefix(log', Expected') /\ status' = Running
    BY <1>e, <1>p, <2>1 DEF Going
  <2> QED
    BY <1>l, <2>1, <2>2 DEF Streams, StreamsTyped, NothingLost, OutputStopped
<1>3. CASE ReadGroup
  <2>1. UNCHANGED cliVars /\ Going /\ pc = "group" /\ pc' = "judge" /\ UNCHANGED <<g, groups>>
        /\ e' = 1 /\ g <= Len(groups)
    BY <1>3 DEF ReadGroup
  <2>2. PICK content \in Contents : reads' = Append(reads, [path |-> Path, content |-> content])
    BY <1>3, ManifestAssumption DEF ReadGroup
  <2> DEFINE r == [path |-> Path, content |-> content]
  <2>3. r \in Read
    BY <2>1, GroupTyped DEF Read
  <2>4. reads' = Append(reads, r)
    BY <2>2
  <2> HIDE DEF r
  <2>5. SaidBy(Listed, groups, Append(reads, r), g, 1, "judge") = Said
    BY <2>1, <2>3, ReadSaid
  <2>6. Said' = Said
    BY <1>s, <2>1, <2>4, <2>5
  <2> QED
    BY <1>a, <2>1, <2>6
<1>4. CASE ReadFails
  <2>1. UNCHANGED cliVars /\ Going /\ pc = "group" /\ pc' = "unreadable" /\ UNCHANGED <<g, groups>>
        /\ e' = 1 /\ g <= Len(groups)
        /\ reads' = Append(reads, [path |-> Path, content |-> "error"])
    BY <1>4 DEF ReadFails
  <2> DEFINE r == [path |-> Path, content |-> "error"]
  <2>3. r \in Read
    BY <2>1, GroupTyped DEF Read
  <2>4. reads' = Append(reads, r)
    BY <2>1
  <2> HIDE DEF r
  <2>5. SaidBy(Listed, groups, Append(reads, r), g, 1, "unreadable") = Said
    BY <2>1, <2>3, ReadSaid
  <2>6. Said' = Said
    BY <1>s, <2>1, <2>4, <2>5
  <2> QED
    BY <1>a, <2>1, <2>6
<1>5. CASE PrintOk
  <2>1. Going /\ pc = "judge" /\ pc' = "judge" /\ UNCHANGED <<g, groups, reads>> /\ e' = e + 1
        /\ WriteLine(Verdict(Group[e], "OK"))
    BY <1>5 DEF PrintOk
  <2>2. /\ SaidBy(Listed, groups, reads, g, e + 1, "judge") = Said \o <<Verdict(Group[e], "OK")>>
        /\ Verdict(Group[e], "OK") \in Message
    BY <1>5, SaidPrintOk
  <2> QED
    BY <1>b, <1>s, <2>1, <2>2
<1>6. CASE PrintFailed
  <2>1. Going /\ pc = "judge" /\ pc' = "detail" /\ UNCHANGED <<g, groups, reads, e>>
        /\ WriteLine(Verdict(Group[e], "FAILED"))
    BY <1>6 DEF PrintFailed
  <2>2. /\ SaidBy(Listed, groups, reads, g, e, "detail") = Said \o <<Verdict(Group[e], "FAILED")>>
        /\ Verdict(Group[e], "FAILED") \in Message
    BY <1>6, SaidPrintFailed
  <2> QED
    BY <1>b, <1>s, <2>1, <2>2
<1>7. CASE ReportMismatch
  <2>1. Going /\ pc = "detail" /\ pc' = "judge" /\ UNCHANGED <<g, groups, reads>> /\ e' = e + 1
        /\ FlushThenLog(<<Detail(Group[e])>>)
    BY <1>7 DEF ReportMismatch
  <2>2. /\ SaidBy(Listed, groups, reads, g, e + 1, "judge") = Said \o <<Detail(Group[e])>>
        /\ Detail(Group[e]) \in Message
    BY <1>7, SaidReportMismatch
  <2> QED
    BY <1>c, <1>s, <2>1, <2>2
<1>8. CASE GroupDone
  <2>1. UNCHANGED cliVars /\ Going /\ pc = "judge" /\ pc' = "group" /\ UNCHANGED <<groups, reads, e>>
        /\ g' = g + 1 /\ e > Len(Group) /\ Busy
    BY <1>8 DEF GroupDone, Busy
  <2>2. SaidBy(Listed, groups, reads, g + 1, e, "group") = Expected /\ Said = Expected
    BY <2>1, GroupSaid
  <2>3. Said' = Said
    BY <1>s, <2>1, <2>2
  <2> QED
    BY <1>a, <2>1, <2>3
<1>9. CASE PrintUnreadable
  <2>1. Going /\ pc = "unreadable" /\ pc' = "unreadable" /\ UNCHANGED <<g, groups, reads>>
        /\ e' = e + 1 /\ WriteLine(Verdict(Group[e], "FAILED_open_or_read"))
    BY <1>9 DEF PrintUnreadable
  <2>2. /\ SaidBy(Listed, groups, reads, g, e + 1, "unreadable")
             = Said \o <<Verdict(Group[e], "FAILED_open_or_read")>>
        /\ Verdict(Group[e], "FAILED_open_or_read") \in Message
    BY <1>9, SaidPrintUnreadable
  <2> QED
    BY <1>b, <1>s, <2>1, <2>2
<1>10. CASE ReportUnreadable
  <2>1. Going /\ pc = "unreadable" /\ pc' = "group" /\ UNCHANGED <<groups, reads, e>>
        /\ g' = g + 1 /\ e > Len(Group) /\ Busy /\ FlushThenLog(<<Complaint(Path)>>)
    BY <1>10 DEF ReportUnreadable, Busy
  <2>2. /\ SaidBy(Listed, groups, reads, g + 1, e, "group") = Expected
        /\ Expected = Said \o <<Complaint(Path)>> /\ Complaint(Path) \in Message
    BY <2>1, GroupSaid
  <2> QED
    BY <1>c, <1>s, <2>1, <2>2
<1>11. CASE ReportCounts
  <2>1. Going /\ pc = "group" /\ pc' = "reported" /\ reads' = reads /\ g > Len(groups)
        /\ Flush(Warnings(mismatched, unreadable)) /\ status' = status
    BY <1>11 DEF ReportCounts, FlushThenLog
  <2>2. /\ mismatched = HowMany(Listed, Wrong(Listed, reads))
        /\ unreadable = HowMany(Listed, Unread(Listed, reads))
    BY <2>1, AllCounted
  <2>3. Summary = Warnings(mismatched, unreadable)
    BY <2>2 DEF Summary
  <2>4. Warnings(mismatched, unreadable) \in Seq(Message)
    <3>1. Listed \in Seq(LineSet)
      BY ListedTyped DEF Progress
    <3>2. mismatched \in Nat /\ unreadable \in Nat
      BY <2>2, <3>1, HowManyTyped
    <3> QED
      BY <3>2, WarningsTyped
  <2>5. Said = Expected
    BY <2>1, SaidBegins DEF Busy
  <2>6. /\ log' \in Seq(Message) /\ buffer' \in Seq(Message)
        /\ error' \in {"none", "broken_pipe", "output"}
        /\ error' = "none" => buffer' = <<>> /\ log' = (log \o buffer) \o Warnings(mismatched, unreadable)
        /\ error' # "none" => log' = log
    BY <1>l, <2>1, <2>4, FlushSays DEF Going
  <2>7. error' = "none" => buffer' = <<>> /\ log' = Expected' \o Summary'
    BY <1>e, <1>p, <2>1, <2>3, <2>5, <2>6 DEF Going
  <2>8. error' # "none" => IsPrefix(log', Expected') /\ status' = Running
    BY <1>e, <1>p, <2>1, <2>6 DEF Going
  <2> QED
    BY <2>1, <2>6, <2>7, <2>8 DEF Streams, StreamsTyped, NothingLost, OutputStopped, Reason
<1>12. CASE Finish
  <2>1. Going /\ pc = "reported" /\ pc' = pc /\ reads' = reads /\ Flush(<<>>)
    BY <1>12 DEF Finish, FinishRun, verifyVars
  <2>2. buffer = <<>> /\ log = Expected \o Summary
    BY <2>1 DEF Going, Streams, NothingLost
  <2>3. <<>> \in Seq(Message) /\ error = "none"
    BY <2>1 DEF Going
  <2>4. /\ error' = "none"
        /\ buffer' = <<>> /\ log' = (log \o buffer) \o <<>>
    <3>1. /\ error' = "none" => buffer' = <<>> /\ log' = (log \o buffer) \o <<>>
          /\ error' # "none" => log' = log /\ buffer # <<>>
      BY <1>l, <2>1, <2>3, FlushSays
    <3> QED
      BY <2>2, <3>1
  <2>5. log' = log
    BY <1>l, <2>2, <2>4, ConcatEmptySeq
  <2> QED
    BY <1>e, <1>l, <2>1, <2>2, <2>4, <2>5 DEF Streams, StreamsTyped, NothingLost, OutputStopped
<1>13. CASE Exit
  <2>1. /\ status = Running /\ error # "none" /\ error' = error /\ buffer' = buffer
        /\ log' = IF error = "broken_pipe" THEN log ELSE Append(log, [stream |-> "err", about |-> error])
        /\ UNCHANGED <<reads, pc>>
    BY <1>13 DEF Exit, Report, verifyVars
  <2>2. IsPrefix(log, Expected)
    BY <2>1 DEF Streams, OutputStopped
  <2> DEFINE w == [stream |-> "err", about |-> error]
  <2>3. w \in Message
    BY <1>l, <2>1, MessageTyped
  <2>4. log' = IF error = "broken_pipe" THEN log ELSE Append(log, w)
    BY <2>1
  <2> HIDE DEF w
  <2>5. log' \in Seq(Message) /\ (error # "broken_pipe" => Front(log') = log)
    BY <1>l, <2>3, <2>4 DEF Front
  <2>6. IF status' # Running /\ error # "broken_pipe" THEN IsPrefix(Front(log'), Expected')
                                                     ELSE IsPrefix(log', Expected')
    <3>1. status' # Running
      BY <1>13 DEF Exit, Report, ExitCode, Running
    <3>2. CASE error = "broken_pipe"
      BY <1>e, <2>1, <2>2, <2>4, <3>2
    <3>3. CASE error # "broken_pipe"
      BY <1>e, <2>1, <2>2, <2>5, <3>1, <3>3
    <3> QED
      BY <3>2, <3>3
  <2> QED
    BY <1>l, <2>1, <2>5, <2>6 DEF Streams, StreamsTyped, NothingLost, OutputStopped
<1>14. CASE Environment
  <2>1. UNCHANGED <<log, buffer, error, status>> /\ UNCHANGED <<reads, pc, groups, g, e>>
    BY <1>14 DEF Environment, SinkFails, verifyVars
  <2>2. Said' = Said
    BY <1>s, <2>1 DEF Said
  <2> QED
    BY <1>e, <2>1, <2>2 DEF Streams, StreamsTyped, NothingLost, OutputStopped
<1>15. CASE UNCHANGED vars
  <2>1. UNCHANGED <<log, buffer, error, status>> /\ UNCHANGED <<reads, pc, groups, g, e>>
    BY <1>15 DEF vars
  <2>2. Said' = Said
    BY <1>s, <2>1 DEF Said
  <2> QED
    BY <1>e, <2>1, <2>2 DEF Streams, StreamsTyped, NothingLost, OutputStopped
<1> QED
  BY <1>1, <1>2, <1>3, <1>4, <1>5, <1>6, <1>7, <1>8, <1>9, <1>10, <1>11, <1>12, <1>13, <1>14, <1>15
     DEF Next, Program

IInv == Progress /\ Counted /\ StatusFromCounts /\ Streams

(* The inductive invariant holds throughout. *)
LEMMA InvariantHolds == Spec => []IInv
<1>1. Init => IInv
  BY InitProgress, InitCounted, InitStreams DEF IInv, Streams
<1>2. IInv /\ [Next]_vars => IInv'
  BY ProgressStep, CountedStep, StatusStep, StreamsStep DEF IInv
<1> QED
  BY <1>1, <1>2, PTL DEF Spec

(* main.rs:135 for `--check`, however much the writer of stdout holds     *)
(* back and whenever it fails: stdout and stderr together are a beginning *)
(* of what the manifest and the reads call for, each detail and complaint *)
(* after its verdict; then the counts and the program's last word.        *)
THEOREM LogInOrderAlways == Spec => []LogInOrder
<1>1. IInv => LogInOrder
  <2> SUFFICES ASSUME IInv PROVE LogInOrder
    OBVIOUS
  <2>1. CASE error = "none" /\ pc = "reported"
    BY <2>1 DEF IInv, Streams, NothingLost, LogInOrder
  <2>2. CASE error = "none" /\ pc # "reported"
    BY <2>2, LogBegins DEF IInv, Streams, LogInOrder
  <2>3. CASE error # "none"
    BY <2>3 DEF IInv, Streams, StreamsTyped, OutputStopped, LogInOrder, Reason
  <2> QED
    BY <2>1, <2>2, <2>3
<1> QED
  BY <1>1, InvariantHolds, PTL

(* A run that its output did not stop has read the file of every entry of *)
(* the manifest, has said all that the reads call for, and gives the two  *)
(* counts exactly.                                                        *)
THEOREM EveryEntryJudgedAlways == Spec => []EveryEntryJudged
<1>1. IInv => EveryEntryJudged
  <2> SUFFICES ASSUME IInv, status # Running, error = "none"
               PROVE  /\ \A n \in DOMAIN Listed :
                           \E r \in DOMAIN reads : reads[r].path = Listed[n].path
                      /\ log = Expected \o Summary
    BY DEF EveryEntryJudged
  <2>1. pc = "reported"
    BY DEF IInv, StatusFromCounts
  <2>2. g > Len(groups) /\ Listed \in Seq(LineSet) /\ reads \in Seq(Read)
    BY <2>1, ListedTyped DEF IInv, Progress
  <2>3. Len(reads) = Len(groups) /\ Grouped(Listed, groups)
    BY <2>1, <2>2, AllCounted DEF IInv
  <2>4. DOMAIN Listed = 1 .. Len(Listed) /\ DOMAIN reads = 1 .. Len(reads)
    BY <2>2
  <2>5. \A n \in 1 .. Len(reads) : reads[n].path = Named(groups[n])
    BY DEF IInv, Progress
  <2>6. \A n \in DOMAIN Listed : \E r \in DOMAIN reads : reads[r].path = Listed[n].path
    BY <2>3, <2>4, <2>5 DEF Grouped
  <2>7. log = Expected \o Summary
    BY <2>1 DEF IInv, Streams, NothingLost
  <2> QED
    BY <2>6, <2>7
<1> QED
  BY <1>1, InvariantHolds, PTL
=============================================================================
