------------------------------- MODULE CaseGen -------------------------------
(***************************************************************************)
(* cases.rs: how the fuzzer makes a batch.  A case below the length of    *)
(* the fixed corpus is taken from it; any other is drawn, class and       *)
(* bytes, from the generator of its index (module Rng), into a scratch    *)
(* buffer that push() then frames into the batch.  A behaviour makes two  *)
(* batches, so that what a run and its replay make can be compared.       *)
(*                                                                         *)
(* A byte is a small number: 0, FF, one of the delimiters, or another.    *)
(* Lengths are those of the code divided down: see Limit.                 *)
(***************************************************************************)
EXTENDS Integers, SequencesExt

CONSTANTS
  Fixed,         (* the fixed corpus: [is_null, data]                      *)
  WORD,          (* 2^32, the size of a draw                               *)
  Stream(_, _),  (* Stream(i, k): the k-th draw of case i, below WORD      *)
  Limit,         (* per class, the bound of its length draw                *)
  LONG,          (* the least length of a long buffer                      *)
  BOUNDARY_LENS,
  Pairs          (* pairs of batches to make: <<[start, count], ...>>      *)

FF         == 255
DOLLAR_SIGN == 36
ASTERISK   == 42
CR         == 13
LF         == 10
COMMA      == 44
Delimiters == <<DOLLAR_SIGN, ASTERISK, CR, LF, 0, COMMA, 46, 45, 65>>

(* The shares of the classes, out of 10000. *)
Shares ==
  << <<3000, "RandomSmall">>, <<4500, "RandomMedium">>, <<5500, "BoundaryLen">>,
     <<6500, "SingleByte">>, <<7300, "NmeaSentence">>, <<8100, "UniformByte">>,
     <<8600, "Sparse">>, <<9100, "DelimiterAscii">>, <<9500, "Empty">>,
     <<9900, "FfHeavy">>, <<9940, "ZeroHeavy">>, <<9990, "NullPointer">>,
     <<10000, "LongBuffer">> >>

Classes == {Shares[n][2] : n \in DOMAIN Shares}

ASSUME CaseGenAssumption ==
  /\ Fixed \in Seq([is_null : BOOLEAN, data : Seq(0 .. 255)])
  /\ WORD \in Nat \ {0}
  /\ Limit \in [Classes -> Nat \ {0}]
  /\ LONG \in Nat /\ LONG <= Limit["LongBuffer"]
  /\ BOUNDARY_LENS \in Seq(Nat) /\ BOUNDARY_LENS # <<>>
  /\ Pairs \subseteq Seq([start : Nat, count : Nat]) \ {<<>>}

VARIABLES
  todo,        (* the batches to make                                      *)
  made,        (* batches that are finished: [blob, spans]                 *)
  stage,       (* "begin", "case", "push" or "done"                        *)
  blob, spans, (* the writer                                               *)
  scratch,
  index, class, is_null    (* the case being made                          *)

writerVars == <<todo, made, stage, blob, spans, scratch, index, class, is_null>>

-----------------------------------------------------------------------------
(* Rng::below, range and next_u8 at the k-th draw of case i.  A fill of n *)
(* bytes takes a draw for every eight, and gives bytes that nothing       *)
(* looks into: here the first one's again.  Whatever Stream is, a draw is *)
(* a word.                                                                *)
Draw(i, k)             == IF Stream(i, k) \in 0 .. WORD - 1 THEN Stream(i, k) ELSE 0
Below(i, k, bound)     == (Draw(i, k) * bound) \div WORD
Ranged(i, k, low, high) == low + Below(i, k, high - low + 1)
NextU8(i, k)           == Below(i, k, 256)
Filled(i, k, n)        == [p \in 1 .. n |-> NextU8(i, k + (p - 1) \div 8)]

Constantly(b, n) == [p \in 1 .. n |-> b]

(* write_random: the first share that the draw is in. *)
PickClass(i) ==
  Shares[SelectInSeq(Shares, LAMBDA share : Below(i, 1, 10000) < share[1])][2]

(* `times` bytes of data are overwritten where the generator says, from   *)
(* its draw k on; nothing is drawn for a buffer of no bytes.              *)
Poke(from, d, j) ==
  [d EXCEPT ![1 + Below(from.i, from.k + 2 * j, Len(d))] = NextU8(from.i, from.k + 2 * j + 1)]

Poked(data, i, k, times) ==
  IF data = <<>> THEN data
  ELSE FoldLeft(LAMBDA d, j : Poke([i |-> i, k |-> k], d, j), data, [j \in 1 .. times |-> j - 1])

(* The fields of write_nmea: a comma and up to eight characters each;     *)
(* s is [out, k], k the next draw.  A letter or digit takes two draws.    *)
NmeaChar(s, i) ==
  LET kind == Below(i, s.k, 12)
  IN  IF kind = 8 THEN [out |-> Append(s.out, 46), k |-> s.k + 1]
      ELSE IF kind = 9 THEN [out |-> Append(s.out, 45), k |-> s.k + 1]
      ELSE [out |-> Append(s.out, IF kind < 8 THEN 48 + Below(i, s.k + 1, 10)
                                  ELSE IF kind = 10 THEN 65 + Below(i, s.k + 1, 26)
                                  ELSE 97 + Below(i, s.k + 1, 26)),
            k |-> s.k + 2]

NmeaField(s, i) ==
  FoldLeft(LAMBDA t, n : NmeaChar(t, i),
           [out |-> Append(s.out, COMMA), k |-> s.k + 1],
           [n \in 1 .. Below(i, s.k, Limit["NmeaSentence"]) |-> n])

(* The middle of a sentence may get a delimiter, ... *)
NmeaInjected(s, i) ==
  IF Below(i, s.k, 8) = 0 /\ s.out # <<>>
  THEN [out |-> [s.out EXCEPT ![1 + Below(i, s.k + 1, Len(s.out))] =
                   <<0, CR, LF, ASTERISK>>[1 + Below(i, s.k + 2, 4)]],
        k |-> s.k + 3]
  ELSE [s EXCEPT !.k = @ + 1]

(* ... a checksum, which need not be right, and an end of line.           *)
HexDigit(n) == IF n < 10 THEN 48 + n ELSE 55 + n

NmeaSummed(s, i) ==
  IF Below(i, s.k, 3) = 0 THEN [s EXCEPT !.k = @ + 1]
  ELSE LET sum == NextU8(i, s.k + 1)
       IN  [out |-> s.out \o <<ASTERISK, HexDigit(sum \div 16), HexDigit(sum % 16)>>,
            k |-> s.k + 2]

Nmea(i) ==
  LET head   == IF Below(i, 2, 4) # 0 THEN <<DOLLAR_SIGN>> ELSE <<>>
      talker == [n \in 1 .. 5 |-> 65 + Below(i, 2 + n, 26)]
      body   == FoldLeft(LAMBDA s, n : NmeaField(s, i), [out |-> head \o talker, k |-> 9],
                         [n \in 1 .. Below(i, 8, Limit["NmeaSentence"]) |-> n])
      summed == NmeaSummed(NmeaInjected(body, i), i)
  IN  summed.out \o <<<<CR, LF>>, <<CR>>, <<LF>>, <<>>>>[1 + Below(i, summed.k, 4)]

(* write_random_class: the bytes of a case of class c.  Its first draw    *)
(* was the class; the second, if there is one, is the length.             *)
Generated(c, i) ==
  LET len == Below(i, 2, Limit[c])
  IN  CASE c = "Empty"       -> <<>>
        [] c = "SingleByte"  -> <<NextU8(i, 2)>>
        [] c = "BoundaryLen" ->
             Filled(i, 3, BOUNDARY_LENS[1 + Below(i, 2, Len(BOUNDARY_LENS))])
        [] c \in {"RandomSmall", "RandomMedium", "NullPointer"} -> Filled(i, 3, len)
        [] c = "UniformByte" -> Constantly(NextU8(i, 3), len)
        [] c = "ZeroHeavy"   -> Constantly(0, len)
        [] c = "FfHeavy"     -> Poked(Constantly(FF, len), i, 4, Below(i, 3, 5))
        [] c = "Sparse"      -> Poked(Constantly(0, len), i, 4, Below(i, 3, 6))
        [] c = "DelimiterAscii" ->
             [p \in 1 .. len |-> Delimiters[1 + Below(i, 2 + p, Len(Delimiters))]]
        [] c = "NmeaSentence" -> Nmea(i)
        [] c = "LongBuffer" ->
             LET n == Ranged(i, 2, LONG, Limit[c])
                 what == Below(i, 3, 4)
             IN  CASE what = 0 -> Constantly(0, n)
                   [] what = 1 -> Constantly(FF, n)
                   [] what = 2 -> [p \in 1 .. n |-> (p - 1) % 256]
                   [] OTHER    -> Filled(i, 4, n)

-----------------------------------------------------------------------------
Batch == todo[Len(made) + 1]

WriterInit ==
  /\ todo \in Pairs
  /\ made = <<>>
  /\ stage = "begin"
  /\ blob = <<>> /\ spans = <<>> /\ scratch = <<>>
  /\ index = 0 /\ class = "none" /\ is_null = FALSE

(* The header's count is one cell; so is a length, below. *)
Begin ==
  /\ stage = "begin"
  /\ blob' = <<0>>
  /\ spans' = <<>> /\ scratch' = <<>>
  /\ index' = Batch.start
  /\ stage' = "case"
  /\ UNCHANGED <<todo, made, class, is_null>>

More == stage = "case" /\ index < Batch.start + Batch.count

(* Mutant: the generator is that of the position in the batch. *)
CaseIndexInBatch == index - Batch.start + Len(Fixed)

(* Rng::for_case(seed, index). *)
CaseIndex == index

AppendFixed ==
  /\ More
  /\ index < Len(Fixed)
  /\ class' = "Prologue"
  /\ is_null' = Fixed[index + 1].is_null
  /\ scratch' = Fixed[index + 1].data
  /\ stage' = "push"
  /\ UNCHANGED <<todo, made, blob, spans, index>>

DrawCase ==
  /\ More
  /\ index >= Len(Fixed)
  /\ class' = PickClass(CaseIndex)
  /\ scratch' = Generated(class', CaseIndex)
  /\ is_null' = (class' = "NullPointer")
  /\ stage' = "push"
  /\ UNCHANGED <<todo, made, blob, spans, index>>

(* Mutant: the payload is said to begin where the length stands. *)
PushOffsetEarly ==
  /\ stage = "push"
  /\ blob' = blob \o <<IF is_null THEN 1 ELSE 0, Len(scratch)>> \o scratch
  /\ spans' = Append(spans, [index |-> index, offset |-> Len(blob) + 1, len |-> Len(scratch),
                             is_null |-> is_null, class |-> class])
  /\ index' = index + 1
  /\ stage' = "case"
  /\ UNCHANGED <<todo, made, scratch, class, is_null>>

(* push: flags, length and payload, and where the payload is. *)
Push ==
  /\ stage = "push"
  /\ blob' = blob \o <<IF is_null THEN 1 ELSE 0, Len(scratch)>> \o scratch
  /\ spans' = Append(spans, [index |-> index, offset |-> Len(blob) + 2, len |-> Len(scratch),
                             is_null |-> is_null, class |-> class])
  /\ index' = index + 1
  /\ stage' = "case"
  /\ UNCHANGED <<todo, made, scratch, class, is_null>>

(* finish: the count of the header is patched. *)
Finish ==
  /\ stage = "case"
  /\ index = Batch.start + Batch.count
  /\ made' = Append(made, [blob |-> [blob EXCEPT ![1] = Len(spans)], spans |-> spans])
  /\ stage' = IF Len(made') = Len(todo) THEN "done" ELSE "begin"
  /\ UNCHANGED <<todo, blob, spans, scratch, index, class, is_null>>

WriterNext == Begin \/ AppendFixed \/ DrawCase \/ Push \/ Finish

WriterSpec == WriterInit /\ [][WriterNext]_writerVars

-----------------------------------------------------------------------------
(* Batch::payload: what the port is given. *)
Payload(b, span) ==
  IF span.is_null THEN <<>> ELSE SubSeq(b, span.offset + 1, span.offset + span.len)

(* Bytes in the scratch buffer, and only cases of the class               *)
(* NullPointer, or of the corpus, are passed as NULL.                     *)
WriterTypeOK ==
  /\ stage \in {"begin", "case", "push", "done"}
  /\ blob \in Seq(Nat)
  /\ scratch \in Seq(0 .. 255)
  /\ \A n \in DOMAIN spans :
       spans[n].class # "Prologue" => (spans[n].is_null <=> spans[n].class = "NullPointer")

(* cases.rs:561-569, a regression test: a batch once broke because a      *)
(* generator wrote behind its own payload.  Whoever walks a finished      *)
(* batch by its lengths, as the harness does, finds each case where its   *)
(* span says it is, with its flag, and the end of the batch behind the    *)
(* last one.                                                              *)
CaseAt(b, s, n) == IF n = Len(s) + 1 THEN Len(b) + 1 ELSE s[n].offset - 1

WalksToItsSpans ==
  \A m \in DOMAIN made :
    LET b == made[m].blob
        s == made[m].spans
    IN  /\ b[1] = Len(s)
        /\ CaseAt(b, s, 1) = 2
        /\ \A n \in DOMAIN s :
             /\ CaseAt(b, s, n + 1) = CaseAt(b, s, n) + 2 + b[CaseAt(b, s, n) + 1]
             /\ s[n].len = b[CaseAt(b, s, n) + 1]
             /\ (b[CaseAt(b, s, n)] = 1) <=> s[n].is_null

(* cases.rs:3-6: "Index N under seed S always produces the same bytes,    *)
(* whatever the batch size and whatever order batches ran in".  Two       *)
(* batches agree on every case that is in both.                           *)
ReplaysAnywhere ==
  \A m, n \in DOMAIN made :
    \A j \in DOMAIN made[m].spans, k \in DOMAIN made[n].spans :
      LET s == made[m].spans[j]
          t == made[n].spans[k]
      IN  s.index = t.index =>
            /\ s.class = t.class /\ s.is_null = t.is_null
            /\ Payload(made[m].blob, s) = Payload(made[n].blob, t)
=============================================================================
