-------------------------- MODULE FuzzDriverProofs --------------------------
(***************************************************************************)
(* What the fuzzer counts, compares and tells by its exit status, for any *)
(* number of fuzzers in any work directories, any runs and any fault.     *)
(*                                                                         *)
(* The invariant is one of each fuzzer.  A step is one of a single        *)
(* fuzzer, and leaves what the others have, and the files of all other    *)
(* directories, as they were (Frame).                                     *)
(***************************************************************************)
EXTENDS FuzzDriver, FiniteSetTheorems, TLAPS

(* The cases of a list that show the fault, as a fold. *)
KeepIf(differ, kept, c) == IF c \in differ THEN Append(kept, c) ELSE kept

Kept == INSTANCE FoldLemmas WITH Op <- KeepIf

CaseSet == Int \X Int
Steps   == CallSteps \cup {"head", "compare", "log", "ended"}

Shape ==
  /\ DOMAIN casesFile = Dirs /\ DOMAIN resultsFile = Dirs
  /\ DOMAIN pc = Started /\ DOMAIN asked = Started /\ DOMAIN input = Started
  /\ DOMAIN batch = Started /\ DOMAIN answers = Started /\ DOMAIN at = Started
  /\ DOMAIN cases = Started /\ DOMAIN next_index = Started /\ DOMAIN probes = Started
  /\ DOMAIN divergences = Started /\ DOMAIN recorded = Started
  /\ DOMAIN compared = Started /\ DOMAIN log = Started /\ DOMAIN status = Started

Typed(p) ==
  /\ pc[p] \in Steps
  /\ batch[p] \in Seq(CaseSet) /\ compared[p] \in Seq(CaseSet)
  /\ at[p] \in Nat \ {0}
  /\ cases[p] \in Nat /\ next_index[p] \in Nat
  /\ divergences[p] \in Nat
  /\ pc[p] \in {"head", "compare", "log"} \/ asked[p] \in {<<Check>>, <<Probe>>} =>
       plan[p].case = NoCase

(* The call is one for the batch. *)
BatchCall(p) ==
  pc[p] \in CallSteps /\ plan[p].case = NoCase /\ asked[p] \notin {<<Check>>, <<Probe>>}

(* With a directory of its own, a fuzzer gets what it asked for, or       *)
(* nothing.                                                               *)
Faithful(p) ==
  LET mine(file) == file[Dir(p)] IN
  Alone(p) =>
    /\ pc[p] = "write" => mine(casesFile).is = "opened"
    /\ pc[p] = "spawned" => mine(casesFile) = [of |-> asked[p], is |-> "whole"]
    /\ pc[p] \in {"answer", "results"} => input[p] = asked[p]
    /\ pc[p] = "results" => mine(resultsFile).is = "opened"
    /\ pc[p] = "ran" => mine(resultsFile) \in {Short, [of |-> asked[p], is |-> "whole"]}
    /\ BatchCall(p) => asked[p] = batch[p]
    /\ pc[p] = "compare" \/ Shrinking(p) => answers[p] = batch[p]

Counted(p) ==
  /\ IsFiniteSet(Real(p))
  /\ Cardinality(Real(p)) <= divergences[p]
  /\ Alone(p) => divergences[p] = Cardinality(Real(p))

Verdict(p) ==
  /\ pc[p] # "ended" => status[p] = Running /\ log[p] = NoLog
  /\ plan[p].case = NoCase =>
       /\ status[p] \in {0, 1} <=> log[p].written
       /\ status[p] = 0 => divergences[p] = 0
       /\ status[p] = 1 => divergences[p] # 0

(* The batch begins where the cases before it end; what is compared is    *)
(* one ahead of `at` while a divergence is shrunk.                        *)
InBatch(p) == pc[p] = "compare" \/ Shrinking(p) \/ BatchCall(p)
Ahead(p)   == IF Shrinking(p) THEN at[p] ELSE at[p] - 1
Target(p)  == plan[p].target

Stream(p) ==
  /\ compared[p] = Interval(plan[p].seed, plan[p].start, Len(compared[p]))
  /\ next_index[p] = plan[p].start + cases[p]
  /\ Target(p) # Timed => cases[p] <= Target(p)
  /\ pc[p] \in {"head", "log"} \/ (asked[p] = <<Check>> /\ pc[p] \in CallSteps) =>
       at[p] = 1 /\ Len(compared[p]) = cases[p]
  /\ InBatch(p) =>
       /\ batch[p] = Interval(plan[p].seed, next_index[p], Len(batch[p]))
       /\ Len(compared[p]) = cases[p] + Ahead(p)
       /\ at[p] <= Len(batch[p]) + 1
       /\ Shrinking(p) => at[p] <= Len(batch[p])
       /\ BatchCall(p) => at[p] = 1
       /\ Target(p) # Timed => cases[p] + Len(batch[p]) <= Target(p)
  /\ pc[p] = "log" /\ Target(p) # Timed => cases[p] = Target(p)
  /\ log[p].written =>
       /\ log[p].drive = compared[p]
       /\ Target(p) # Timed => Len(compared[p]) = Target(p)

(* The list is that of the first divergences; one that is being shrunk is *)
(* the last of those found, and there is room for it.                     *)
Listed(p) ==
  /\ recorded[p] \in Seq(CaseSet)
  /\ Alone(p) => recorded[p] = FirstOf(Done(p))
  /\ Shrinking(p) =>
       /\ Len(recorded[p]) < MAX_RECORDED_DIVERGENCES
       /\ ThisCase(p) \in CaseSet
       /\ Alone(p) => \E d \in Seq(CaseSet) : Diverging(p) = Append(d, ThisCase(p))
  /\ log[p].written => log[p].listed = recorded[p]

PInv(p) ==
  Typed(p) /\ Faithful(p) /\ Counted(p) /\ Verdict(p) /\ Stream(p) /\ Listed(p)

IInv == plan \in Plans /\ fault \in Faults /\ Shape /\ \A p \in Started : PInv(p)
-----------------------------------------------------------------------------
(* The arguments of a fuzzer are numbers in their ranges. *)
LEMMA ArgumentsTyped ==
  ASSUME plan \in Plans, NEW p \in Started
  PROVE  /\ plan[p].seed \in Nat \ {0} /\ plan[p].start \in Nat
         /\ plan[p].batch \in Nat \ {0}
         /\ plan[p].target \in Nat \/ plan[p].target = Timed
         /\ plan[p].case \in Nat \/ plan[p].case = NoCase
  BY DriverAssumption DEF Started

(* A case is named by its seed and its index. *)
LEMMA CaseOfTyped ==
  ASSUME NEW seed \in Nat, NEW index \in Nat
  PROVE  /\ CaseOf(seed, index) \in CaseSet
         /\ CaseOf(seed, index)[2] = index
  BY DriverAssumption DEF CaseOf, CaseSet

(* An interval of n indices has n cases. *)
LEMMA IntervalTyped ==
  ASSUME NEW seed \in Nat, NEW first \in Nat, NEW n \in Nat
  PROVE  Interval(seed, first, n) \in Seq(CaseSet) /\ Len(Interval(seed, first, n)) = n
<1>1. \A k \in 1 .. n : CaseOf(seed, first + k - 1) \in CaseSet
  BY CaseOfTyped
<1>2. Interval(seed, first, n) \in [1 .. n -> CaseSet]
  BY <1>1 DEF Interval
<1> QED
  BY <1>2

(* The k-th of them is the one k - 1 behind the first. *)
LEMMA IntervalCase ==
  ASSUME NEW seed \in Nat, NEW first \in Nat, NEW n \in Nat,
         NEW b, b = Interval(seed, first, n)
  PROVE  \A k \in 1 .. n, index \in Nat : index = first + k - 1 => b[k] = CaseOf(seed, index)
  BY DEF Interval

(* A literal is not a case of a batch. *)
LEMMA NoLiteral ==
  ASSUME NEW seed \in Nat, NEW first \in Nat, NEW n \in Nat
  PROVE  /\ Interval(seed, first, n) \notin {<<Check>>, <<Probe>>}
         /\ <<CaseOf(seed, first)>> \notin {<<Check>>, <<Probe>>}
<1>1. CaseOf(seed, first) \notin {Check, Probe}
  BY CaseOfTyped DEF Check, Probe
<1>2. ASSUME n # 0 PROVE Interval(seed, first, n)[1] = CaseOf(seed, first)
  <2>1. 1 \in 1 .. n /\ first = first + 1 - 1
    BY <1>2
  <2> QED
    BY <2>1, IntervalCase
<1>3. ASSUME n = 0 PROVE Len(Interval(seed, first, n)) = 0
  BY <1>3, IntervalTyped
<1> QED
  BY <1>1, <1>2, <1>3

(* Intervals grow at the end. *)
LEMMA IntervalAppend ==
  ASSUME NEW seed \in Nat, NEW first \in Nat, NEW n \in Nat
  PROVE  Append(Interval(seed, first, n), CaseOf(seed, first + n)) = Interval(seed, first, n + 1)
<1> DEFINE old  == Interval(seed, first, n)
           new  == Interval(seed, first, n + 1)
           last == CaseOf(seed, first + n)
<1>1. /\ old \in Seq(CaseSet) /\ Len(old) = n
      /\ \A k \in 1 .. n, i \in Nat : i = first + k - 1 => old[k] = CaseOf(seed, i)
  BY IntervalTyped, IntervalCase
<1>2. /\ new \in Seq(CaseSet) /\ Len(new) = n + 1
      /\ \A k \in 1 .. n + 1, i \in Nat : i = first + k - 1 => new[k] = CaseOf(seed, i)
  <2>1. n + 1 \in Nat
    OBVIOUS
  <2> QED
    BY <2>1, IntervalTyped, IntervalCase
<1>3. last \in CaseSet /\ new[n + 1] = last
  <2>1. first + n \in Nat /\ first + n = first + (n + 1) - 1 /\ n + 1 \in 1 .. n + 1
    OBVIOUS
  <2> QED
    BY <2>1, <1>2, CaseOfTyped
<1>4. \A k \in 1 .. n : new[k] = old[k]
  <2> TAKE k \in 1 .. n
  <2>1. first + k - 1 \in Nat /\ k \in 1 .. n + 1
    OBVIOUS
  <2> QED
    BY <2>1, <1>1, <1>2
<1> HIDE DEF old, new, last
<1>5. Append(old, last) = new
  BY <1>1, <1>2, <1>3, <1>4
<1> QED
  BY <1>5 DEF old, new, last

(* The list of the divergences among those compared. *)
LEMMA ShowingFold ==
  ASSUME NEW differ, NEW list
  PROVE  Showing(differ, list) = Kept!Fold(differ, <<>>, list)
BY DEF Showing, KeepIf, Kept!Fold, Kept!FoldLeft, Kept!MapThenFoldSet, Kept!Max,
       FoldLeft, MapThenFoldSet, Max

(* What is recorded are cases. *)
LEMMA KeptTyped ==
  ASSUME NEW differ, NEW s \in Seq(CaseSet)
  PROVE  Kept!Fold(differ, <<>>, s) \in Seq(CaseSet)
<1>1. \A kept \in Seq(CaseSet), c \in CaseSet : KeepIf(differ, kept, c) \in Seq(CaseSet)
  BY DEF KeepIf
<1>2. <<>> \in Seq(CaseSet)
  OBVIOUS
<1> QED
  BY <1>1, <1>2, Kept!FoldType

(* Below MAX_RECORDED_DIVERGENCES the list grows, at it the list stands. *)
LEMMA FirstOfAppend ==
  ASSUME NEW d \in Seq(CaseSet), NEW c \in CaseSet
  PROVE  /\ Len(FirstOf(d)) < MAX_RECORDED_DIVERGENCES =>
              FirstOf(d) = d /\ FirstOf(Append(d, c)) = Append(d, c)
         /\ Len(FirstOf(d)) >= MAX_RECORDED_DIVERGENCES => FirstOf(Append(d, c)) = FirstOf(d)
         /\ Front(Append(d, c)) = d
<1> DEFINE m == MAX_RECORDED_DIVERGENCES
<1>1. m \in Nat /\ Len(d) \in Nat /\ Append(d, c) \in Seq(CaseSet)
      /\ Len(Append(d, c)) = Len(d) + 1
  BY DriverAssumption
<1>2. Front(Append(d, c)) = d
  BY DEF Front
<1>3. ASSUME Len(d) >= m PROVE Len(SubSeq(d, 1, m)) = m /\ SubSeq(Append(d, c), 1, m) = SubSeq(d, 1, m)
  BY <1>1, <1>3
<1>4. ASSUME Len(d) + 1 = m PROVE SubSeq(Append(d, c), 1, m) = Append(d, c)
  BY <1>1, <1>4
<1> HIDE DEF m
<1>5. CASE Len(d) + 1 < m
  BY <1>1, <1>2, <1>5 DEF FirstOf, m
<1>6. CASE Len(d) + 1 = m
  BY <1>1, <1>2, <1>4, <1>6 DEF FirstOf, m
<1>7. CASE Len(d) >= m
  <2>1. ~(Len(d) < m) /\ ~(Len(Append(d, c)) < m)
    BY <1>1, <1>7
  <2>2. FirstOf(d) = SubSeq(d, 1, m) /\ FirstOf(Append(d, c)) = SubSeq(Append(d, c), 1, m)
    BY <2>1 DEF FirstOf, m
  <2>3. FirstOf(Append(d, c)) = FirstOf(d) /\ Len(FirstOf(d)) = m
    BY <1>3, <1>7, <2>2
  <2>4. ~(Len(FirstOf(d)) < m)
    BY <1>1, <2>3
  <2> QED
    BY <1>2, <2>3, <2>4 DEF m
<1> QED
  BY <1>1, <1>5, <1>6, <1>7

-----------------------------------------------------------------------------
(* What a step of p does not touch. *)
OnlyOwn(p) ==
  /\ UNCHANGED <<plan, fault>>
  /\ Shape'
  /\ \A d \in Dirs \ {Dir(p)} :
       casesFile'[d] = casesFile[d] /\ resultsFile'[d] = resultsFile[d]
  /\ \A q \in Started \ {p} :
       /\ pc'[q] = pc[q] /\ asked'[q] = asked[q] /\ input'[q] = input[q]
       /\ batch'[q] = batch[q] /\ answers'[q] = answers[q] /\ at'[q] = at[q]
       /\ cases'[q] = cases[q] /\ next_index'[q] = next_index[q]
       /\ divergences'[q] = divergences[q] /\ compared'[q] = compared[q]
       /\ recorded'[q] = recorded[q]
       /\ log'[q] = log[q] /\ status'[q] = status[q]

(* A step of one fuzzer, or of its oracle, changes the variables of no *)
(* other.                                                              *)
LEMMA StepIsOwn ==
  ASSUME Shape, NEW p \in Started, Oracle(p) \/ Driver(p)
  PROVE  OnlyOwn(p)
<1> USE DEF Shape, OnlyOwn, Started, Dirs, Dir, Goto, Ask, Exit, Cut, Fill, CallFails, Mix,
            Advance, started, files, call, loop, found, outcome
<1>1. CASE Oracle(p)
  <2>1. CASE OpenCases(p)
    BY <2>1 DEF OpenCases
  <2>2. CASE WriteCases(p)
    BY <2>2 DEF WriteCases
  <2>3. CASE ReadCases(p)
    BY <2>3 DEF ReadCases
  <2>4. CASE HarnessRefuses(p)
    BY <2>4 DEF HarnessRefuses
  <2>5. CASE OpenResults(p)
    BY <2>5 DEF OpenResults
  <2>6. CASE WriteResults(p)
    BY <2>6 DEF WriteResults
  <2> QED
    BY <1>1, <2>1, <2>2, <2>3, <2>4, <2>5, <2>6 DEF Oracle
<1>2. CASE Driver(p)
  <2>1. CASE SelfCheckPasses(p)
    BY <2>1 DEF SelfCheckPasses
  <2>2. CASE SelfCheckFails(p)
    BY <2>2 DEF SelfCheckFails
  <2>3. CASE DumpCase(p)
    BY <2>3 DEF DumpCase
  <2>4. CASE OracleFails(p)
    BY <2>4 DEF OracleFails
  <2>5. CASE Stop(p)
    BY <2>5 DEF Stop
  <2>6. CASE NextBatch(p)
    BY <2>6 DEF NextBatch
  <2>7. CASE BatchAnswered(p)
    BY <2>7 DEF BatchAnswered
  <2>8. CASE CaseAgrees(p)
    BY <2>8 DEF CaseAgrees
  <2>9. CASE ShrinkDivergence(p)
    BY <2>9 DEF ShrinkDivergence
  <2>10. CASE CountDivergence(p)
    BY <2>10 DEF CountDivergence
  <2>11. CASE ProbeAgain(p)
    BY <2>11 DEF ProbeAgain
  <2>12. CASE RecordDivergence(p)
    BY <2>12 DEF RecordDivergence
  <2>13. CASE BatchDone(p)
    BY <2>13 DEF BatchDone
  <2>14. CASE WriteLog(p)
    BY <2>14 DEF WriteLog
  <2> QED
    BY <1>2, <2>1, <2>2, <2>3, <2>4, <2>5, <2>6, <2>7, <2>8, <2>9, <2>10, <2>11, <2>12,
       <2>13, <2>14 DEF Driver
<1> QED
  BY <1>1, <1>2

(* So it keeps whatever the invariant says of the others; what they share *)
(* are the files of a common directory.                                   *)
LEMMA Frame ==
  ASSUME Shape, NEW p \in Started, OnlyOwn(p), NEW q \in Started \ {p}, PInv(q)
  PROVE  PInv(q)'
<1> USE DEF OnlyOwn, Started
<1>1. Real(q)' = Real(q) /\ Alone(q)' = Alone(q) /\ Dir(q)' = Dir(q)
      /\ Shrinking(q)' = Shrinking(q) /\ BatchCall(q)' = BatchCall(q)
  BY DEF Real, Alone, Dir, Shrinking, BatchCall
<1>2. Typed(q)'
  BY DEF PInv, Typed
<1>3. Faithful(q)'
  <2>1. Alone(q) => Dir(q) \in Dirs \ {Dir(p)}
    BY DEF Alone, Dirs
  <2> QED
    BY <1>1, <2>1 DEF PInv, Faithful
<1>4. Counted(q)'
  BY <1>1 DEF PInv, Counted
<1>5. Verdict(q)'
  BY DEF PInv, Verdict
<1>6. Stream(q)'
  BY <1>1 DEF PInv, Stream, InBatch, Ahead, Target
<1>7. Listed(q)'
  <2>1. Diverging(q)' = Diverging(q) /\ ThisCase(q)' = ThisCase(q)
    BY DEF Diverging, ThisCase
  <2>2. Done(q)' = Done(q)
    BY <1>1, <2>1 DEF Done
  <2> QED
    BY <1>1, <2>1, <2>2 DEF PInv, Listed
<1> QED
  BY <1>2, <1>3, <1>4, <1>5, <1>6, <1>7 DEF PInv
-----------------------------------------------------------------------------
(* The first case of every proof by actions. *)
LEMMA InitIInv == Init => IInv
<1> SUFFICES ASSUME Init PROVE IInv
  OBVIOUS
<1>1. Shape
  BY DEF Init, Shape, Dirs, Started
<1>2. ASSUME NEW p \in Started PROVE PInv(p)
  <2>1. /\ pc[p] = "open" /\ batch[p] = <<>> /\ answers[p] = <<>> /\ at[p] = 1
        /\ cases[p] = 0 /\ next_index[p] = plan[p].start /\ divergences[p] = 0
        /\ compared[p] = <<>> /\ log[p] = NoLog /\ status[p] = Running
    BY DEF Init, Started
  <2>2. /\ plan[p].case = NoCase \/ asked[p] \notin {<<Check>>, <<Probe>>}
        /\ asked[p] # <<Probe>>
        /\ plan[p].case = NoCase => asked[p] = <<Check>>
    <3>1. plan \in Plans
      BY DEF Init
    <3>2. <<CaseOf(plan[p].seed, plan[p].case)>> \notin {<<Check>>, <<Probe>>}
          \/ plan[p].case = NoCase
      BY <3>1, ArgumentsTyped, NoLiteral, 0 \in Nat
    <3> QED
      BY <3>2 DEF Init, Started, Check, Probe
  <2>3. Typed(p)
    BY <2>1, <2>2, ArgumentsTyped DEF Init, Typed, Steps, CallSteps
  <2>4. Faithful(p)
    BY <2>1, <2>2 DEF Faithful, BatchCall, Shrinking
  <2>5. Counted(p)
    <3>1. Real(p) = {}
      BY <2>1 DEF Real
    <3> QED
      BY <3>1, <2>1, FS_EmptySet DEF Counted
  <2>6. Verdict(p)
    BY <2>1 DEF Verdict, NoLog, Running
  <2>7. Stream(p)
    <3>1. compared[p] = Interval(plan[p].seed, plan[p].start, Len(compared[p]))
      BY <2>1 DEF Interval
    <3> QED
      BY <3>1, <2>1, <2>2, ArgumentsTyped
         DEF Init, Stream, InBatch, Shrinking, BatchCall, Target, NoLog
  <2>8. Listed(p)
    <3>1. Diverging(p) = <<>>
      BY <2>1, ShowingFold, Kept!FoldEmpty DEF Diverging
    <3>2. ~Shrinking(p) /\ recorded[p] = <<>>
      BY <2>2 DEF Shrinking, Init, Started
    <3>3. FirstOf(<<>>) = <<>>
      BY DriverAssumption DEF FirstOf
    <3> QED
      BY <2>1, <3>1, <3>2, <3>3 DEF Listed, Done, NoLog
  <2> QED
    BY <2>3, <2>4, <2>5, <2>6, <2>7, <2>8 DEF PInv
<1> QED
  BY <1>1, <1>2 DEF Init, IInv
-----------------------------------------------------------------------------
(* A batch is the next interval of cases, cut at the target, and it is what *)
(* the oracle is asked for.                                                 *)
LEMMA BatchAsked ==
  ASSUME plan \in Plans, Shape, NEW p \in Started, NextBatch(p), PInv(p)
  PROVE  LET size == BatchSize(p) IN
         /\ size \in Nat
         /\ batch'[p] = Interval(plan[p].seed, next_index[p], size)
         /\ batch'[p] \in Seq(CaseSet) /\ Len(batch'[p]) = size
         /\ asked'[p] = batch'[p] /\ asked'[p] \notin {<<Check>>, <<Probe>>}
         /\ Target(p) # Timed => cases[p] + size <= Target(p)
<1>1. /\ BatchSize(p) \in Nat
      /\ Target(p) # Timed => cases[p] + BatchSize(p) <= Target(p)
  BY ArgumentsTyped DEF NextBatch, BatchSize, PInv, Typed, Target, Timed
<1>2. /\ batch'[p] = Interval(plan[p].seed, next_index[p], BatchSize(p))
      /\ asked'[p] = batch'[p]
  BY DEF NextBatch, Ask, Shape, Started
<1>3. plan[p].seed \in Nat /\ next_index[p] \in Nat
  BY ArgumentsTyped DEF PInv, Typed
<1>4. /\ batch'[p] \in Seq(CaseSet) /\ Len(batch'[p]) = BatchSize(p)
      /\ batch'[p] \notin {<<Check>>, <<Probe>>}
  <2> DEFINE seed  == plan[p].seed
             first == next_index[p]
             size  == BatchSize(p)
  <2>1. seed \in Nat /\ first \in Nat /\ size \in Nat
    BY <1>1, <1>3
  <2>2. batch'[p] = Interval(seed, first, size)
    BY <1>2
  <2> HIDE DEF seed, first, size
  <2>3. batch'[p] \in Seq(CaseSet) /\ Len(batch'[p]) = size
    BY <2>1, <2>2, IntervalTyped
  <2>4. batch'[p] \notin {<<Check>>, <<Probe>>}
    BY <2>1, <2>2, NoLiteral
  <2> QED
    BY <2>3, <2>4 DEF size
<1> QED
  BY <1>1, <1>2, <1>4

(* Types are kept by each step of the fuzzer and of its oracle. *)
LEMMA TypedStep ==
  ASSUME plan \in Plans, Shape, NEW p \in Started, Oracle(p) \/ Driver(p), PInv(p)
  PROVE  Typed(p)'
<1> USE DEF Shape, Started, Goto, Ask, Exit, started, files, call, loop, found, outcome, PInv,
        Typed, Steps, CallSteps, CallFails, Ran, Mix, Advance, AtCase, ThisCase
<1>1. CASE OpenCases(p)
  BY <1>1 DEF OpenCases
<1>2. CASE WriteCases(p)
  BY <1>2 DEF WriteCases
<1>3. CASE ReadCases(p)
  BY <1>3 DEF ReadCases
<1>4. CASE HarnessRefuses(p)
  BY <1>4 DEF HarnessRefuses
<1>5. CASE OpenResults(p)
  BY <1>5 DEF OpenResults
<1>6. CASE WriteResults(p)
  BY <1>6 DEF WriteResults
<1>7. CASE SelfCheckPasses(p)
  BY <1>7 DEF SelfCheckPasses
<1>8. CASE SelfCheckFails(p)
  BY <1>8 DEF SelfCheckFails
<1>9. CASE DumpCase(p)
  BY <1>9 DEF DumpCase
<1>10. CASE OracleFails(p)
  BY <1>10 DEF OracleFails
<1>11. CASE Stop(p)
  BY <1>11 DEF Stop
<1>12. CASE NextBatch(p)
  BY <1>12, BatchAsked DEF NextBatch
<1>13. CASE BatchAnswered(p)
  BY <1>13 DEF BatchAnswered
<1>14. CASE CaseAgrees(p)
  BY <1>14 DEF CaseAgrees
<1>15. CASE ShrinkDivergence(p)
  BY <1>15 DEF ShrinkDivergence
<1>16. CASE CountDivergence(p)
  BY <1>16 DEF CountDivergence
<1>17. CASE ProbeAgain(p)
  BY <1>17 DEF ProbeAgain
<1>18. CASE RecordDivergence(p)
  BY <1>18 DEF RecordDivergence
<1>19. CASE BatchDone(p)
  BY <1>19 DEF BatchDone
<1>20. CASE WriteLog(p)
  BY <1>20 DEF WriteLog
<1> QED
  BY <1>1, <1>2, <1>3, <1>4, <1>5, <1>6, <1>7, <1>8, <1>9, <1>10, <1>11, <1>12, <1>13,
     <1>14, <1>15, <1>16, <1>17, <1>18, <1>19, <1>20 DEF Oracle, Driver

(* A file that nobody else has open is what was written into it. *)
LEMMA FaithfulStep ==
  ASSUME plan \in Plans, Shape, NEW p \in Started, Oracle(p) \/ Driver(p), PInv(p)
  PROVE  Faithful(p)'
<1> USE DEF Shape, Started, Goto, Ask, Exit, started, files, call, loop, found, outcome, PInv,
        Typed, Steps, CallSteps, CallFails, Ran, Mix, Advance, AtCase, ThisCase, Faithful,
        BatchCall, Shrinking, Dirs, Dir, Short
<1>a. Alone(p)' = Alone(p) /\ Dir(p) \in Dirs
  <2>1. UNCHANGED plan
    BY StepIsOwn DEF OnlyOwn
  <2> QED
    BY <2>1 DEF Alone, Dirs, Dir
<1>b. Alone(p) => ~Shared(p, "write") /\ ~Shared(p, "results")
  BY DEF Alone, Shared
<1>c. \A of : Readings([of |-> of, is |-> "whole"]) = {of}
  BY DEF Readings
<1>d. Alone(p) /\ pc[p] = "ran" => Replies(p) \subseteq {asked[p]}
  BY <1>c DEF Replies, Readings
<1> USE DEF Cut, Fill
<1>1. CASE OpenCases(p)
  BY <1>1, <1>a, <1>b DEF OpenCases
<1>2. CASE WriteCases(p)
  BY <1>2, <1>a DEF WriteCases
<1>3. CASE ReadCases(p)
  BY <1>3, <1>a, <1>c DEF ReadCases
<1>4. CASE HarnessRefuses(p)
  BY <1>4, <1>a DEF HarnessRefuses
<1>5. CASE OpenResults(p)
  BY <1>5, <1>a, <1>b DEF OpenResults
<1>6. CASE WriteResults(p)
  BY <1>6, <1>a DEF WriteResults
<1>7. CASE SelfCheckPasses(p)
  BY <1>7, <1>a DEF SelfCheckPasses
<1>8. CASE SelfCheckFails(p)
  BY <1>8, <1>a DEF SelfCheckFails
<1>9. CASE DumpCase(p)
  BY <1>9, <1>a DEF DumpCase
<1>10. CASE OracleFails(p)
  BY <1>10, <1>a DEF OracleFails
<1>11. CASE Stop(p)
  BY <1>11, <1>a DEF Stop
<1>12. CASE NextBatch(p)
  BY <1>12, <1>a, BatchAsked DEF NextBatch
<1>13. CASE BatchAnswered(p)
  BY <1>13, <1>a, <1>d DEF BatchAnswered
<1>14. CASE CaseAgrees(p)
  BY <1>14, <1>a DEF CaseAgrees
<1>15. CASE ShrinkDivergence(p)
  BY <1>15, <1>a DEF ShrinkDivergence
<1>16. CASE CountDivergence(p)
  BY <1>16, <1>a DEF CountDivergence
<1>17. CASE ProbeAgain(p)
  BY <1>17, <1>a DEF ProbeAgain
<1>18. CASE RecordDivergence(p)
  BY <1>18, <1>a DEF RecordDivergence
<1>19. CASE BatchDone(p)
  BY <1>19, <1>a DEF BatchDone
<1>20. CASE WriteLog(p)
  BY <1>20, <1>a DEF WriteLog
<1> QED
  BY <1>1, <1>2, <1>3, <1>4, <1>5, <1>6, <1>7, <1>8, <1>9, <1>10, <1>11, <1>12, <1>13,
     <1>14, <1>15, <1>16, <1>17, <1>18, <1>19, <1>20 DEF Oracle, Driver

(* A case more is compared: one more is real, if it is. *)
LEMMA MixCounts ==
  ASSUME Shape, NEW p \in Started, PInv(p), AtCase(p), Mix(p), UNCHANGED <<plan, fault>>
  PROVE  /\ IsFiniteSet(Real(p)')
         /\ Cardinality(Real(p)') = Cardinality(Real(p)) + IF ThisCase(p) \in fault THEN 1 ELSE 0
<1> DEFINE last == Len(compared[p]) + 1
<1>1. /\ ThisCase(p) \in CaseSet
      /\ compared[p] \in Seq(CaseSet)
      /\ compared'[p] = Append(compared[p], ThisCase(p))
  BY DEF PInv, Typed, AtCase, ThisCase, Mix, Shape
<1>2. Real(p)' = IF ThisCase(p) \in fault THEN Real(p) \cup {last} ELSE Real(p)
  <2>1. /\ DOMAIN compared'[p] = DOMAIN compared[p] \cup {last}
        /\ compared'[p][last] = ThisCase(p)
        /\ \A k \in DOMAIN compared[p] : compared'[p][k] = compared[p][k]
        /\ last \notin DOMAIN compared[p]
    BY <1>1
  <2> HIDE DEF last
  <2> QED
    BY <2>1 DEF Real
<1>3. last \notin Real(p)
  BY <1>1 DEF Real
<1>4. IsFiniteSet(Real(p))
  BY DEF PInv, Counted
<1> HIDE DEF last
<1>5. Cardinality(Real(p)) \in Nat
  BY <1>4, FS_CardinalityType
<1> QED
  BY <1>2, <1>3, <1>4, <1>5, FS_AddElement

(* Counted: no divergence is dropped, and without company in the directory *)
(* none is made up.                                                        *)
LEMMA CountedStep ==
  ASSUME plan \in Plans, Shape, NEW p \in Started, Oracle(p) \/ Driver(p), PInv(p)
  PROVE  Counted(p)'
<1> USE DEF Shape, Started, Goto, Ask, Exit, started, files, call, loop, found, outcome, PInv,
        CallFails, Ran
<1>a. /\ Cardinality(Real(p)) \in Nat /\ divergences[p] \in Nat
      /\ Cardinality(Real(p)) <= divergences[p]
      /\ Alone(p) => divergences[p] = Cardinality(Real(p))
  BY FS_CardinalityType DEF Counted, Typed
<1>b. Alone(p)' = Alone(p) /\ UNCHANGED <<plan, fault>>
  BY StepIsOwn DEF Alone, OnlyOwn, Dir
<1>c. Alone(p) /\ AtCase(p) /\ Differ(p) => ThisCase(p) \in fault
  BY DEF Faithful, AtCase, Differ, ThisCase
<1>d. AtCase(p) /\ Mix(p) =>
        /\ IsFiniteSet(Real(p)')
        /\ Cardinality(Real(p)') = Cardinality(Real(p)) + IF ThisCase(p) \in fault THEN 1 ELSE 0
  BY <1>b, MixCounts
<1>e. compared' = compared => Real(p)' = Real(p)
  BY <1>b DEF Real
<1> USE DEF Counted
<1>1. CASE OpenCases(p)
  BY <1>1, <1>b, <1>e DEF OpenCases
<1>2. CASE WriteCases(p)
  BY <1>2, <1>b, <1>e DEF WriteCases
<1>3. CASE ReadCases(p)
  BY <1>3, <1>b, <1>e DEF ReadCases
<1>4. CASE HarnessRefuses(p)
  BY <1>4, <1>b, <1>e DEF HarnessRefuses
<1>5. CASE OpenResults(p)
  BY <1>5, <1>b, <1>e DEF OpenResults
<1>6. CASE WriteResults(p)
  BY <1>6, <1>b, <1>e DEF WriteResults
<1>7. CASE SelfCheckPasses(p)
  BY <1>7, <1>b, <1>e DEF SelfCheckPasses
<1>8. CASE SelfCheckFails(p)
  BY <1>8, <1>b, <1>e DEF SelfCheckFails
<1>9. CASE DumpCase(p)
  BY <1>9, <1>b, <1>e DEF DumpCase
<1>10. CASE OracleFails(p)
  BY <1>10, <1>b, <1>e DEF OracleFails
<1>11. CASE Stop(p)
  BY <1>11, <1>b, <1>e DEF Stop
<1>12. CASE NextBatch(p)
  BY <1>12, <1>b, <1>e DEF NextBatch
<1>13. CASE BatchAnswered(p)
  BY <1>13, <1>b, <1>e DEF BatchAnswered
<1>14. CASE CaseAgrees(p)
  <2>1. AtCase(p) /\ Mix(p) /\ ThisCase(p) \notin fault /\ divergences' = divergences
    BY <1>14 DEF CaseAgrees, Differ
  <2> QED
    BY <2>1, <1>a, <1>b, <1>d
<1>15. CASE ShrinkDivergence(p)
  <2>1. AtCase(p) /\ Mix(p) /\ Differ(p) /\ divergences'[p] = divergences[p] + 1
    BY <1>15 DEF ShrinkDivergence
  <2> QED
    BY <2>1, <1>a, <1>b, <1>c, <1>d
<1>16. CASE CountDivergence(p)
  <2>1. AtCase(p) /\ Mix(p) /\ Differ(p) /\ divergences'[p] = divergences[p] + 1
    BY <1>16 DEF CountDivergence
  <2> QED
    BY <2>1, <1>a, <1>b, <1>c, <1>d
<1>17. CASE ProbeAgain(p)
  BY <1>17, <1>b, <1>e DEF ProbeAgain
<1>18. CASE RecordDivergence(p)
  BY <1>18, <1>b, <1>e DEF RecordDivergence
<1>19. CASE BatchDone(p)
  BY <1>19, <1>b, <1>e DEF BatchDone
<1>20. CASE WriteLog(p)
  BY <1>20, <1>b, <1>e DEF WriteLog
<1> QED
  BY <1>1, <1>2, <1>3, <1>4, <1>5, <1>6, <1>7, <1>8, <1>9, <1>10, <1>11, <1>12, <1>13,
     <1>14, <1>15, <1>16, <1>17, <1>18, <1>19, <1>20 DEF Oracle, Driver

(* The verdict at the exit is that of the counters or of the call that *)
(* failed.                                                             *)
LEMMA VerdictStep ==
  ASSUME plan \in Plans, Shape, NEW p \in Started, Oracle(p) \/ Driver(p), PInv(p)
  PROVE  Verdict(p)'
<1> USE DEF Shape, Started, Goto, Ask, Exit, started, files, call, loop, found, outcome, PInv,
        Typed, Verdict, CallFails, Ran, AtCase, NoLog, Running, LogOf
<1>1. CASE OpenCases(p)
  BY <1>1 DEF OpenCases
<1>2. CASE WriteCases(p)
  BY <1>2 DEF WriteCases
<1>3. CASE ReadCases(p)
  BY <1>3 DEF ReadCases
<1>4. CASE HarnessRefuses(p)
  BY <1>4 DEF HarnessRefuses
<1>5. CASE OpenResults(p)
  BY <1>5 DEF OpenResults
<1>6. CASE WriteResults(p)
  BY <1>6 DEF WriteResults
<1>7. CASE SelfCheckPasses(p)
  BY <1>7 DEF SelfCheckPasses
<1>8. CASE SelfCheckFails(p)
  BY <1>8 DEF SelfCheckFails
<1>9. CASE DumpCase(p)
  BY <1>9 DEF DumpCase
<1>10. CASE OracleFails(p)
  BY <1>10 DEF OracleFails
<1>11. CASE Stop(p)
  BY <1>11 DEF Stop
<1>12. CASE NextBatch(p)
  BY <1>12 DEF NextBatch
<1>13. CASE BatchAnswered(p)
  BY <1>13 DEF BatchAnswered
<1>14. CASE CaseAgrees(p)
  BY <1>14 DEF CaseAgrees
<1>15. CASE ShrinkDivergence(p)
  BY <1>15 DEF ShrinkDivergence
<1>16. CASE CountDivergence(p)
  BY <1>16 DEF CountDivergence
<1>17. CASE ProbeAgain(p)
  BY <1>17 DEF ProbeAgain
<1>18. CASE RecordDivergence(p)
  BY <1>18 DEF RecordDivergence
<1>19. CASE BatchDone(p)
  BY <1>19 DEF BatchDone
<1>20. CASE WriteLog(p)
  BY <1>20 DEF WriteLog
<1> QED
  BY <1>1, <1>2, <1>3, <1>4, <1>5, <1>6, <1>7, <1>8, <1>9, <1>10, <1>11, <1>12, <1>13,
     <1>14, <1>15, <1>16, <1>17, <1>18, <1>19, <1>20 DEF Oracle, Driver

(* The next case of the batch is the next of the stream. *)
LEMMA MixIsNext ==
  ASSUME plan \in Plans, Shape, NEW p \in Started, PInv(p), AtCase(p), Mix(p), UNCHANGED plan
  PROVE  LET seen == Len(compared[p]) IN
         /\ Len(compared'[p]) = seen + 1
         /\ compared'[p] = Interval(plan[p].seed, plan[p].start, seen + 1)
<1> DEFINE seen == Len(compared[p])
<1>1. /\ plan[p].seed \in Nat /\ plan[p].start \in Nat /\ plan[p].start + seen \in Nat
      /\ ThisCase(p) \in CaseSet /\ compared[p] \in Seq(CaseSet) /\ seen \in Nat
      /\ compared'[p] = Append(compared[p], ThisCase(p))
  BY ArgumentsTyped DEF PInv, Typed, AtCase, ThisCase, Mix, Shape
<1>2. /\ batch[p] = Interval(plan[p].seed, next_index[p], Len(batch[p]))
      /\ seen = cases[p] + at[p] - 1
      /\ next_index[p] = plan[p].start + cases[p]
      /\ next_index[p] \in Nat /\ Len(batch[p]) \in Nat /\ at[p] \in 1 .. Len(batch[p])
      /\ cases[p] \in Nat
      /\ compared[p] = Interval(plan[p].seed, plan[p].start, seen)
  BY DEF PInv, Typed, Stream, InBatch, Ahead, Shrinking, CallSteps, AtCase
<1>3. plan[p].start + seen = next_index[p] + at[p] - 1
  BY <1>1, <1>2
<1>4. ThisCase(p) = CaseOf(plan[p].seed, plan[p].start + seen)
  <2>1. \A k \in 1 .. Len(batch[p]), index \in Nat :
          index = next_index[p] + k - 1 => batch[p][k] = CaseOf(plan[p].seed, index)
    <3> DEFINE seed  == plan[p].seed
               first == next_index[p]
               n     == Len(batch[p])
    <3>1. seed \in Nat /\ first \in Nat /\ n \in Nat /\ batch[p] = Interval(seed, first, n)
      BY <1>1, <1>2
    <3> HIDE DEF seed, first, n
    <3>2. \A k \in 1 .. n, index \in Nat : index = first + k - 1 => batch[p][k] = CaseOf(seed, index)
      BY <3>1, IntervalCase
    <3> QED
      BY <3>2 DEF seed, first, n
  <2> QED
    BY <1>1, <1>2, <1>3, <2>1 DEF ThisCase
<1> HIDE DEF seen
<1>5. Interval(plan[p].seed, plan[p].start, seen + 1)
        = Append(Interval(plan[p].seed, plan[p].start, seen), CaseOf(plan[p].seed, plan[p].start + seen))
  BY <1>1, IntervalAppend
<1>6. Len(compared'[p]) = seen + 1
  BY <1>1 DEF seen
<1> QED
  BY <1>1, <1>2, <1>4, <1>5, <1>6 DEF seen

(* The cases compared stay the consecutive ones from --start on. *)
LEMMA StreamStep ==
  ASSUME plan \in Plans, Shape, NEW p \in Started, Oracle(p) \/ Driver(p), PInv(p)
  PROVE  Stream(p)'
<1> USE DEF Shape, Started, Goto, Ask, Exit, started, files, call, loop, found, outcome, PInv,
        Typed, CallFails, Ran, Timed
<1>a. AtCase(p) /\ Mix(p) =>
        /\ Len(compared'[p]) = Len(compared[p]) + 1
        /\ compared'[p] = Interval(plan[p].seed, plan[p].start, Len(compared'[p]))
  BY StepIsOwn, MixIsNext DEF OnlyOwn
<1>b. UNCHANGED plan
  BY StepIsOwn DEF OnlyOwn
<1>c. /\ Len(compared[p]) \in Nat /\ Len(batch[p]) \in Nat
      /\ at[p] \in Nat \ {0} /\ cases[p] \in Nat
  OBVIOUS
<1>d. Target(p) \in Int /\ plan[p].start \in Nat
  BY ArgumentsTyped DEF Target
<1> USE DEF Stream, InBatch, Ahead, Target, BatchCall, Shrinking, CallSteps, NoLog, LogOf
<1>1. CASE OpenCases(p)
  BY <1>1 DEF OpenCases
<1>2. CASE WriteCases(p)
  BY <1>2 DEF WriteCases
<1>3. CASE ReadCases(p)
  BY <1>3 DEF ReadCases
<1>4. CASE HarnessRefuses(p)
  BY <1>4 DEF HarnessRefuses
<1>5. CASE OpenResults(p)
  BY <1>5 DEF OpenResults
<1>6. CASE WriteResults(p)
  BY <1>6 DEF WriteResults
<1>7. CASE SelfCheckPasses(p)
  BY <1>7 DEF SelfCheckPasses
<1>8. CASE SelfCheckFails(p)
  BY <1>8 DEF SelfCheckFails
<1>9. CASE DumpCase(p)
  BY <1>9 DEF DumpCase
<1>10. CASE OracleFails(p)
  BY <1>10 DEF OracleFails
<1>11. CASE Stop(p)
  <2>1. pc[p] = "head" /\ pc'[p] = "log" /\ (Target(p) = Timed \/ cases[p] >= Target(p))
    BY <1>11 DEF Stop
  <2>2. at[p] = 1 /\ Len(compared[p]) = cases[p] /\ (Target(p) # Timed => cases[p] = Target(p))
    BY <2>1, <1>c, <1>d
  <2> QED
    BY <2>1, <2>2, <1>11, <1>b DEF Stop, Verdict
<1>12. CASE NextBatch(p)
  <2>1. /\ batch'[p] = Interval(plan[p].seed, next_index[p], Len(batch'[p]))
        /\ Len(batch'[p]) \in Nat
        /\ asked'[p] \notin {<<Check>>, <<Probe>>}
        /\ Target(p) # Timed => cases[p] + Len(batch'[p]) <= Target(p)
    BY <1>12, BatchAsked
  <2>2. /\ pc[p] = "head" /\ pc'[p] = "open"
        /\ UNCHANGED <<plan, at, cases, next_index, compared, log>>
    BY <1>12 DEF NextBatch
  <2>3. at[p] = 1 /\ Len(compared[p]) = cases[p] /\ log[p] = NoLog
    BY <2>2 DEF Verdict
  <2>4. ~Shrinking(p)' /\ Ahead(p)' = 0
    <3>1. ~Shrinking(p)'
      BY <2>1
    <3> HIDE DEF Shrinking
    <3> QED
      BY <3>1, <2>2, <2>3
  <2>5. InBatch(p)' =>
          /\ batch'[p] = Interval(plan[p].seed, next_index'[p], Len(batch'[p]))
          /\ Len(compared'[p]) = cases'[p] + Ahead(p)'
          /\ at'[p] <= Len(batch'[p]) + 1
          /\ Target(p) # Timed => cases'[p] + Len(batch'[p]) <= Target(p)
    BY <2>1, <2>2, <2>3, <2>4, <1>c
  <2> HIDE DEF InBatch, Ahead, Shrinking
  <2> QED
    BY <2>1, <2>2, <2>3, <2>4, <2>5, <1>c, <1>d
<1>13. CASE BatchAnswered(p)
  BY <1>13 DEF BatchAnswered
<1>14. CASE CaseAgrees(p)
  <2>1. /\ AtCase(p) /\ Mix(p) /\ at'[p] = at[p] + 1
        /\ UNCHANGED <<plan, pc, asked, batch, cases, next_index, log>>
    BY <1>14 DEF CaseAgrees, Advance
  <2>2. log[p] = NoLog
    BY <2>1 DEF Verdict, AtCase
  <2> QED
    BY <2>1, <2>2, <1>a, <1>c, <1>d DEF AtCase
<1>15. CASE ShrinkDivergence(p)
  <2>1. /\ AtCase(p) /\ Mix(p) /\ asked'[p] = <<Probe>> /\ pc'[p] = "open"
        /\ UNCHANGED <<plan, batch, at, cases, next_index, log>>
    BY <1>15 DEF ShrinkDivergence
  <2>2. log[p] = NoLog
    BY <2>1 DEF Verdict, AtCase
  <2>3. <<Probe>> # <<Check>>
    BY DEF Probe, Check
  <2> QED
    BY <2>1, <2>2, <2>3, <1>a, <1>c, <1>d DEF AtCase
<1>16. CASE CountDivergence(p)
  <2>1. /\ AtCase(p) /\ Mix(p) /\ at'[p] = at[p] + 1
        /\ UNCHANGED <<plan, pc, asked, batch, cases, next_index, log>>
    BY <1>16 DEF CountDivergence, Advance
  <2>2. log[p] = NoLog
    BY <2>1 DEF Verdict, AtCase
  <2> QED
    BY <2>1, <2>2, <1>a, <1>c, <1>d DEF AtCase
<1>17. CASE ProbeAgain(p)
  BY <1>17 DEF ProbeAgain
<1>18. CASE RecordDivergence(p)
  <2>1. /\ Shrinking(p) /\ at'[p] = at[p] + 1 /\ pc'[p] = "compare"
        /\ UNCHANGED <<plan, asked, batch, cases, next_index, compared, log>>
    BY <1>18 DEF RecordDivergence, Advance
  <2>2. log[p] = NoLog
    BY <2>1 DEF Verdict
  <2> QED
    BY <2>1, <2>2, <1>c, <1>d
<1>19. CASE BatchDone(p)
  <2>1. /\ pc[p] = "compare" /\ at[p] > Len(batch[p]) /\ pc'[p] = "head" /\ at'[p] = 1
        /\ cases'[p] = cases[p] + Len(batch[p])
        /\ next_index'[p] = next_index[p] + Len(batch[p])
        /\ UNCHANGED <<plan, asked, batch, compared, log>>
    BY <1>19 DEF BatchDone
  <2>2. log[p] = NoLog /\ at[p] = Len(batch[p]) + 1 /\ Len(compared[p]) = cases'[p]
    BY <2>1, <1>c DEF Verdict
  <2> QED
    BY <2>1, <2>2, <1>c, <1>d
<1>20. CASE WriteLog(p)
  BY <1>20 DEF WriteLog
<1> QED
  BY <1>1, <1>2, <1>3, <1>4, <1>5, <1>6, <1>7, <1>8, <1>9, <1>10, <1>11, <1>12, <1>13,
     <1>14, <1>15, <1>16, <1>17, <1>18, <1>19, <1>20 DEF Oracle, Driver

(* The next case joins the divergences when it shows the fault. *)
LEMMA MixKeeps ==
  ASSUME Shape, NEW p \in Started, PInv(p), AtCase(p), Mix(p), UNCHANGED fault
  PROVE  /\ ThisCase(p) \in CaseSet /\ Diverging(p) \in Seq(CaseSet)
         /\ Diverging(p)' = IF ThisCase(p) \in fault THEN Append(Diverging(p), ThisCase(p))
                                                     ELSE Diverging(p)
<1>1. /\ ThisCase(p) \in CaseSet /\ compared[p] \in Seq(CaseSet)
      /\ compared'[p] = Append(compared[p], ThisCase(p))
  BY DEF PInv, Typed, AtCase, ThisCase, Mix, Shape
<1>2. Diverging(p) \in Seq(CaseSet)
  BY <1>1, ShowingFold, KeptTyped DEF Diverging
<1> DEFINE s == compared[p]
           c == ThisCase(p)
<1>3. Diverging(p)' = Kept!Fold(fault, <<>>, compared'[p])
  BY ShowingFold DEF Diverging
<1> HIDE DEF s, c
<1>4. Kept!Fold(fault, <<>>, Append(s, c)) = KeepIf(fault, Kept!Fold(fault, <<>>, s), c)
  BY <1>1, Kept!FoldAppend DEF s, c
<1>5. Kept!Fold(fault, <<>>, s) = Diverging(p)
  BY ShowingFold DEF s, Diverging
<1> QED
  BY <1>1, <1>2, <1>3, <1>4, <1>5 DEF KeepIf, s, c

(* What is recorded are the first of the divergences met, in order. *)
LEMMA ListedStep ==
  ASSUME plan \in Plans, Shape, NEW p \in Started, Oracle(p) \/ Driver(p), PInv(p)
  PROVE  Listed(p)'
<1> USE DEF Shape, Started, Goto, Ask, Exit, started, files, call, loop, found, outcome, CallFails,
        Ran
<1>a. Alone(p)' = Alone(p) /\ UNCHANGED <<plan, fault>>
  BY StepIsOwn DEF Alone, OnlyOwn, Dir
<1>b. /\ Listed(p) /\ (pc[p] # "ended" => log[p] = NoLog)
      /\ batch[p] \in Seq(CaseSet) /\ compared[p] \in Seq(CaseSet) /\ recorded[p] \in Seq(CaseSet)
  BY DEF PInv, Verdict, Typed, Listed
<1>c. Alone(p) /\ AtCase(p) /\ Differ(p) => ThisCase(p) \in fault
  BY DEF PInv, Faithful, AtCase, Differ, ThisCase
<1>d. AtCase(p) /\ Mix(p) =>
        /\ ThisCase(p) \in CaseSet /\ Diverging(p) \in Seq(CaseSet)
        /\ Diverging(p)' = IF ThisCase(p) \in fault THEN Append(Diverging(p), ThisCase(p))
                                                    ELSE Diverging(p)
  BY <1>a, MixKeeps
<1>e. compared' = compared => Diverging(p)' = Diverging(p)
  BY <1>a DEF Diverging
(* What most steps do to the list. *)
<1>f. ASSUME UNCHANGED <<compared, recorded>>, (Shrinking(p)' <=> Shrinking(p)),
             Shrinking(p) => UNCHANGED <<batch, at>>,
             log'[p].written => log'[p].listed = recorded[p]
      PROVE  Listed(p)'
  <2>1. Done(p)' = Done(p)
    BY <1>e, <1>f DEF Done
  <2>2. Shrinking(p) => ThisCase(p)' = ThisCase(p)
    BY <1>f DEF ThisCase
  <2> QED
    BY <1>a, <1>b, <1>e, <1>f, <2>1, <2>2 DEF Listed
<1>1. CASE OpenCases(p)
  <2>1. /\ UNCHANGED <<compared, recorded, batch>> /\ (Shrinking(p)' <=> Shrinking(p))
        /\ Shrinking(p) => UNCHANGED at
    BY <1>1 DEF OpenCases, Shrinking, CallSteps, Check, Probe
  <2>2. log'[p].written => log'[p].listed = recorded[p]
    BY <1>b, <1>1 DEF OpenCases, Listed, LogOf
  <2> QED
    BY <1>f, <2>1, <2>2
<1>2. CASE WriteCases(p)
  <2>1. /\ UNCHANGED <<compared, recorded, batch>> /\ (Shrinking(p)' <=> Shrinking(p))
        /\ Shrinking(p) => UNCHANGED at
    BY <1>2 DEF WriteCases, Shrinking, CallSteps, Check, Probe
  <2>2. log'[p].written => log'[p].listed = recorded[p]
    BY <1>b, <1>2 DEF WriteCases, Listed, LogOf
  <2> QED
    BY <1>f, <2>1, <2>2
<1>3. CASE ReadCases(p)
  <2>1. /\ UNCHANGED <<compared, recorded, batch>> /\ (Shrinking(p)' <=> Shrinking(p))
        /\ Shrinking(p) => UNCHANGED at
    BY <1>3 DEF ReadCases, Shrinking, CallSteps, Check, Probe
  <2>2. log'[p].written => log'[p].listed = recorded[p]
    BY <1>b, <1>3 DEF ReadCases, Listed, LogOf
  <2> QED
    BY <1>f, <2>1, <2>2
<1>4. CASE HarnessRefuses(p)
  <2>1. /\ UNCHANGED <<compared, recorded, batch>> /\ (Shrinking(p)' <=> Shrinking(p))
        /\ Shrinking(p) => UNCHANGED at
    BY <1>4 DEF HarnessRefuses, Shrinking, CallSteps, Check, Probe
  <2>2. log'[p].written => log'[p].listed = recorded[p]
    BY <1>b, <1>4 DEF HarnessRefuses, Listed, LogOf
  <2> QED
    BY <1>f, <2>1, <2>2
<1>5. CASE OpenResults(p)
  <2>1. /\ UNCHANGED <<compared, recorded, batch>> /\ (Shrinking(p)' <=> Shrinking(p))
        /\ Shrinking(p) => UNCHANGED at
    BY <1>5 DEF OpenResults, Shrinking, CallSteps, Check, Probe
  <2>2. log'[p].written => log'[p].listed = recorded[p]
    BY <1>b, <1>5 DEF OpenResults, Listed, LogOf
  <2> QED
    BY <1>f, <2>1, <2>2
<1>6. CASE WriteResults(p)
  <2>1. /\ UNCHANGED <<compared, recorded, batch>> /\ (Shrinking(p)' <=> Shrinking(p))
        /\ Shrinking(p) => UNCHANGED at
    BY <1>6 DEF WriteResults, Shrinking, CallSteps, Check, Probe
  <2>2. log'[p].written => log'[p].listed = recorded[p]
    BY <1>b, <1>6 DEF WriteResults, Listed, LogOf
  <2> QED
    BY <1>f, <2>1, <2>2
<1>7. CASE SelfCheckPasses(p)
  <2>1. /\ UNCHANGED <<compared, recorded, batch>> /\ (Shrinking(p)' <=> Shrinking(p))
        /\ Shrinking(p) => UNCHANGED at
    BY <1>7 DEF SelfCheckPasses, Shrinking, CallSteps, Check, Probe
  <2>2. log'[p].written => log'[p].listed = recorded[p]
    BY <1>b, <1>7 DEF SelfCheckPasses, Listed, LogOf
  <2> QED
    BY <1>f, <2>1, <2>2
<1>8. CASE SelfCheckFails(p)
  <2>1. /\ UNCHANGED <<compared, recorded, batch>> /\ (Shrinking(p)' <=> Shrinking(p))
        /\ Shrinking(p) => UNCHANGED at
    BY <1>8 DEF SelfCheckFails, Shrinking, CallSteps, Check, Probe
  <2>2. log'[p].written => log'[p].listed = recorded[p]
    BY <1>b, <1>8 DEF SelfCheckFails, Listed, LogOf
  <2> QED
    BY <1>f, <2>1, <2>2
<1>9. CASE DumpCase(p)
  <2>1. /\ UNCHANGED <<compared, recorded, batch>> /\ (Shrinking(p)' <=> Shrinking(p))
        /\ Shrinking(p) => UNCHANGED at
    BY <1>9 DEF DumpCase, PInv, Typed, Shrinking, CallSteps, Check, Probe
  <2>2. log'[p].written => log'[p].listed = recorded[p]
    BY <1>b, <1>9 DEF DumpCase, Listed, LogOf
  <2> QED
    BY <1>f, <2>1, <2>2
<1>10. CASE OracleFails(p)
  <2>1. /\ UNCHANGED <<compared, recorded, batch>> /\ (Shrinking(p)' <=> Shrinking(p))
        /\ Shrinking(p) => UNCHANGED at
    BY <1>10 DEF OracleFails, Shrinking, CallSteps, Check, Probe
  <2>2. log'[p].written => log'[p].listed = recorded[p]
    BY <1>b, <1>10 DEF OracleFails, Listed, LogOf
  <2> QED
    BY <1>f, <2>1, <2>2
<1>11. CASE Stop(p)
  <2>1. /\ UNCHANGED <<compared, recorded, batch>> /\ (Shrinking(p)' <=> Shrinking(p))
        /\ Shrinking(p) => UNCHANGED at
    BY <1>11 DEF Stop, Shrinking, CallSteps, Check, Probe
  <2>2. log'[p].written => log'[p].listed = recorded[p]
    BY <1>b, <1>11 DEF Stop, Listed, LogOf
  <2> QED
    BY <1>f, <2>1, <2>2
<1>12. CASE NextBatch(p)
  <2>1. /\ UNCHANGED <<compared, recorded, log>> /\ ~Shrinking(p)
        /\ asked'[p] \notin {<<Check>>, <<Probe>>}
    BY <1>12, BatchAsked DEF NextBatch, Shrinking, CallSteps
  <2>2. ~Shrinking(p)'
    BY <2>1 DEF Shrinking
  <2>3. log'[p].written => log'[p].listed = recorded[p]
    BY <1>b, <2>1 DEF Listed
  <2> QED
    BY <1>b, <1>f, <2>1, <2>2, <2>3
<1>13. CASE BatchAnswered(p)
  <2>1. /\ UNCHANGED <<compared, recorded, batch>> /\ (Shrinking(p)' <=> Shrinking(p))
        /\ Shrinking(p) => UNCHANGED at
    BY <1>13 DEF BatchAnswered, Shrinking, CallSteps, Check, Probe
  <2>2. log'[p].written => log'[p].listed = recorded[p]
    BY <1>b, <1>13 DEF BatchAnswered, Listed, LogOf
  <2> QED
    BY <1>f, <2>1, <2>2
<1>14. CASE CaseAgrees(p)
  <2>1. /\ AtCase(p) /\ Mix(p) /\ ThisCase(p) \notin fault
        /\ UNCHANGED <<recorded, log, pc, asked>> /\ pc[p] = "compare"
    BY <1>14 DEF CaseAgrees, Differ, AtCase
  <2>2. ~Shrinking(p) /\ ~Shrinking(p)' /\ Done(p)' = Done(p)
    BY <1>d, <2>1 DEF Shrinking, CallSteps, Done
  <2> QED
    BY <1>a, <1>b, <2>1, <2>2 DEF Listed
<1>15. CASE ShrinkDivergence(p)
  <2>1. /\ AtCase(p) /\ Mix(p) /\ Differ(p) /\ pc[p] = "compare" /\ pc'[p] = "open"
        /\ asked'[p] = <<Probe>> /\ Len(recorded[p]) < MAX_RECORDED_DIVERGENCES
        /\ UNCHANGED <<recorded, log, batch, at>>
    BY <1>15 DEF ShrinkDivergence, AtCase
  <2>2. ~Shrinking(p) /\ Shrinking(p)' /\ ThisCase(p)' = ThisCase(p)
    BY <2>1 DEF Shrinking, CallSteps, ThisCase
  <2> DEFINE d == Diverging(p)
             c == ThisCase(p)
  <2>3. d \in Seq(CaseSet) /\ c \in CaseSet /\ (Alone(p) => Diverging(p)' = Append(d, c))
    BY <1>c, <1>d, <2>1
  <2>4. Done(p) = d /\ Done(p)' = Front(Diverging(p)')
    BY <2>2 DEF Done
  <2> HIDE DEF d, c
  <2>5. Front(Append(d, c)) = d
    BY <2>3, FirstOfAppend
  <2>6. Alone(p) => Done(p)' = Done(p)
    BY <2>3, <2>4, <2>5
  <2>7. Alone(p) => \E e \in Seq(CaseSet) : Diverging(p)' = Append(e, c)
    BY <2>3
  <2> QED
    BY <1>a, <1>b, <2>1, <2>2, <2>3, <2>6, <2>7 DEF Listed, c
<1>16. CASE CountDivergence(p)
  <2>1. /\ AtCase(p) /\ Mix(p) /\ Differ(p) /\ pc[p] = "compare"
        /\ Len(recorded[p]) >= MAX_RECORDED_DIVERGENCES
        /\ UNCHANGED <<recorded, log, pc, asked>>
    BY <1>16 DEF CountDivergence, AtCase
  <2>2. ~Shrinking(p) /\ ~Shrinking(p)'
    BY <2>1 DEF Shrinking, CallSteps
  <2> DEFINE d == Diverging(p)
             c == ThisCase(p)
  <2>3. d \in Seq(CaseSet) /\ c \in CaseSet /\ (Alone(p) => Diverging(p)' = Append(d, c))
    BY <1>c, <1>d, <2>1
  <2>4. Done(p) = d /\ Done(p)' = Diverging(p)'
    BY <2>2 DEF Done
  <2> HIDE DEF d, c
  <2>5. Alone(p) => FirstOf(Append(d, c)) = FirstOf(d)
    BY <1>b, <2>1, <2>3, <2>4, FirstOfAppend DEF Listed
  <2>6. Alone(p) => recorded[p] = FirstOf(Done(p)')
    BY <1>b, <2>3, <2>4, <2>5 DEF Listed
  <2> QED
    BY <1>a, <1>b, <2>1, <2>2, <2>6 DEF Listed
<1>17. CASE ProbeAgain(p)
  <2>1. /\ UNCHANGED <<compared, recorded, batch>> /\ (Shrinking(p)' <=> Shrinking(p))
        /\ Shrinking(p) => UNCHANGED at
    BY <1>17 DEF ProbeAgain, Shrinking, CallSteps, Check, Probe
  <2>2. log'[p].written => log'[p].listed = recorded[p]
    BY <1>b, <1>17 DEF ProbeAgain, Listed, LogOf
  <2> QED
    BY <1>f, <2>1, <2>2
<1>18. CASE RecordDivergence(p)
  <2>1. /\ Shrinking(p) /\ pc'[p] = "compare" /\ UNCHANGED <<compared, log>>
        /\ recorded'[p] = Append(recorded[p], ThisCase(p)) /\ pc[p] # "ended"
    BY <1>b, <1>18 DEF RecordDivergence, Shrinking, CallSteps, PInv, Typed, Listed
  <2>2. ~Shrinking(p)'
    BY <2>1 DEF Shrinking, CallSteps
  <2>3. Done(p) = Front(Diverging(p)) /\ Done(p)' = Diverging(p)
    BY <1>e, <2>1, <2>2 DEF Done
  <2>4. /\ Len(recorded[p]) < MAX_RECORDED_DIVERGENCES /\ ThisCase(p) \in CaseSet
        /\ log'[p] = NoLog
    BY <1>b, <2>1 DEF Listed
  <2>5. recorded'[p] \in Seq(CaseSet)
    BY <1>b, <2>1, <2>4
  <2>6. ASSUME Alone(p) PROVE recorded'[p] = FirstOf(Done(p)')
    <3>1. PICK d \in Seq(CaseSet) : Diverging(p) = Append(d, ThisCase(p))
      BY <1>b, <2>1, <2>6 DEF Listed
    <3>2. Done(p) = d
      BY <2>3, <2>4, <3>1, FirstOfAppend
    <3>3. recorded[p] = FirstOf(d)
      BY <1>b, <2>6, <3>2 DEF Listed
    <3>4. FirstOf(d) = d /\ FirstOf(Append(d, ThisCase(p))) = Append(d, ThisCase(p))
      BY <2>4, <3>3, FirstOfAppend
    <3> QED
      BY <2>1, <2>3, <3>1, <3>3, <3>4
  <2> QED
    BY <1>a, <2>2, <2>4, <2>5, <2>6 DEF Listed, NoLog
<1>19. CASE BatchDone(p)
  <2>1. /\ UNCHANGED <<compared, recorded, batch>> /\ (Shrinking(p)' <=> Shrinking(p))
        /\ Shrinking(p) => UNCHANGED at
    BY <1>19 DEF BatchDone, Shrinking, CallSteps, Check, Probe
  <2>2. log'[p].written => log'[p].listed = recorded[p]
    BY <1>b, <1>19 DEF BatchDone, Listed, LogOf
  <2> QED
    BY <1>f, <2>1, <2>2
<1>20. CASE WriteLog(p)
  <2>1. /\ UNCHANGED <<compared, recorded, batch>> /\ (Shrinking(p)' <=> Shrinking(p))
        /\ Shrinking(p) => UNCHANGED at
    BY <1>20 DEF WriteLog, Shrinking, CallSteps, Check, Probe
  <2>2. log'[p].written => log'[p].listed = recorded[p]
    BY <1>b, <1>20 DEF WriteLog, Listed, LogOf
  <2> QED
    BY <1>f, <2>1, <2>2
<1> QED
  BY <1>1, <1>2, <1>3, <1>4, <1>5, <1>6, <1>7, <1>8, <1>9, <1>10, <1>11, <1>12, <1>13,
     <1>14, <1>15, <1>16, <1>17, <1>18, <1>19, <1>20 DEF Oracle, Driver

(* Every step keeps the invariant for every fuzzer started: its own part by *)
(* the lemmas above, the others' by Frame.                                  *)
LEMMA NextIInv == IInv /\ [Next]_vars => IInv'
<1> SUFFICES ASSUME IInv, [Next]_vars PROVE IInv'
  OBVIOUS
<1>1. ASSUME NEW p \in Started, Oracle(p) \/ Driver(p)
      PROVE  IInv'
  <2>1. PInv(p) /\ Shape /\ plan \in Plans
    BY DEF IInv
  <2>2. OnlyOwn(p)
    BY <2>1, <1>1, StepIsOwn
  <2>3. PInv(p)'
    BY <2>1, <1>1, TypedStep, FaithfulStep, CountedStep, VerdictStep, StreamStep,
       ListedStep DEF PInv
  <2>4. ASSUME NEW q \in Started \ {p} PROVE PInv(q)'
    BY <2>1, <2>2, Frame DEF IInv
  <2>5. Started' = Started /\ (plan \in Plans)' /\ (fault \in Faults)' /\ Shape'
    BY <2>2 DEF OnlyOwn, Started, IInv
  <2> QED
    BY <2>3, <2>4, <2>5 DEF IInv
<1>2. CASE UNCHANGED vars
  <2> USE <1>2 DEF vars
  <2>1. ASSUME NEW q \in Started PROVE PInv(q)'
    <3>1. PInv(q)
      BY <2>1 DEF IInv
    <3>2. Real(q)' = Real(q) /\ Alone(q)' = Alone(q) /\ Dir(q)' = Dir(q)
          /\ Shrinking(q)' = Shrinking(q) /\ BatchCall(q)' = BatchCall(q)
      BY DEF Real, Alone, Dir, Shrinking, BatchCall, Started
    <3>3. Typed(q)' /\ Verdict(q)'
      BY <3>1 DEF PInv, Typed, Verdict
    <3>4. Faithful(q)'
      BY <3>1, <3>2 DEF PInv, Faithful
    <3>5. Counted(q)'
      BY <3>1, <3>2 DEF PInv, Counted
    <3>6. Stream(q)'
      BY <3>1, <3>2 DEF PInv, Stream, InBatch, Ahead, Target
    <3>7. Listed(q)'
      <4>1. Diverging(q)' = Diverging(q) /\ ThisCase(q)' = ThisCase(q)
        BY DEF Diverging, ThisCase
      <4>2. Done(q)' = Done(q)
        BY <3>2, <4>1 DEF Done
      <4> QED
        BY <3>1, <3>2, <4>1, <4>2 DEF PInv, Listed
    <3> QED
      BY <3>3, <3>4, <3>5, <3>6, <3>7 DEF PInv
  <2>2. Shape' /\ (plan \in Plans)' /\ (fault \in Faults)' /\ Started' = Started
    BY DEF IInv, Shape, Started, Dirs, Dir
  <2> QED
    BY <2>1, <2>2 DEF IInv
<1> QED
  BY <1>1, <1>2 DEF Next

(* The invariant of every fuzzer, whatever the others do to its files:    *)
(* the theorems below read it off.                                        *)
THEOREM FuzzersInvariant == Spec => []IInv
  BY InitIInv, NextIInv, PTL DEF Spec

(* No divergence is ever missed, by any number of fuzzers that overwrite  *)
(* each other's files; and none is manufactured where they do not.        *)
THEOREM CountIsExactAlways == Spec => []CountIsExact
<1>1. IInv => CountIsExact
  BY DEF IInv, PInv, Counted, CountIsExact
<1> QED
  BY <1>1, FuzzersInvariant, PTL

(* Of a fuzzer with a directory of its own the list, and with it the log, *)
(* holds the first divergences in the order they were found.              *)
THEOREM FirstRecordedAlways == Spec => []FirstRecorded
<1>1. IInv => FirstRecorded
  BY DEF IInv, PInv, Listed, FirstRecorded
<1> QED
  BY <1>1, FuzzersInvariant, PTL

(* A run that exits with 0 has compared no case on which the libraries    *)
(* differ, whoever else used its directory.                               *)
THEOREM ExitTellsOutcomeAlways == Spec => []ExitTellsOutcome
<1>1. IInv => ExitTellsOutcome
  <2> SUFFICES ASSUME IInv, NEW p \in Started, plan[p].case = NoCase
               PROVE  /\ status[p] \in {0, 1} <=> log[p].written
                      /\ status[p] = 0 => Real(p) = {}
                      /\ status[p] = 1 /\ Alone(p) => Real(p) # {}
    BY DEF ExitTellsOutcome
  <2>1. Verdict(p) /\ Counted(p) /\ Cardinality(Real(p)) \in Nat
    BY FS_CardinalityType DEF IInv, PInv, Counted
  <2>2. Cardinality(Real(p)) = 0 <=> Real(p) = {}
    BY <2>1, FS_EmptySet DEF Counted
  <2> QED
    BY <2>1, <2>2 DEF Verdict, Counted
<1> QED
  BY <1>1, FuzzersInvariant, PTL

(* The cases compared are those the arguments ask for, in order, whatever *)
(* the batch size and whatever the oracle does.                           *)
THEOREM StreamIsConsecutiveAlways == Spec => []StreamIsConsecutive
<1>1. IInv => StreamIsConsecutive
  BY DEF IInv, PInv, Stream, StreamIsConsecutive, Target
<1> QED
  BY <1>1, FuzzersInvariant, PTL
=============================================================================
