--------------------------- MODULE FuzzCaseProofs ---------------------------
(***************************************************************************)
(* The parts of the fuzzer that a case meets: the generator it is drawn   *)
(* from, the writer that puts it into a batch, the C harness that answers *)
(* it and the shrinker that cuts it down.                                  *)
(***************************************************************************)
EXTENDS Rng, Shrink, OracleHarness, CaseGen, SequenceTheorems, TLAPS

-----------------------------------------------------------------------------
(* The generator.  Its state never becomes zero and two generators in     *)
(* different states stay in different states, for every seed, every index *)
(* and any number of draws.  Both rest on one fact: each of the three     *)
(* lines of next_u64 that change the state loses nothing, so the whole    *)
(* turn is injective and only zero turns into zero.  What SplitMix64      *)
(* makes of a seed does not matter here, save that new() follows it.      *)

(* Exclusive or, bit by bit. *)
LEMMA XorMember == \A r, s, x : x \in r ^^ s <=> ~(x \in r <=> x \in s)
BY DEF ^^, SymDiff

(* Each of the three xorshift lines of next_u64 returns a 64-bit word. *)
LEMMA WordOps ==
  ASSUME NEW x \in Word, NEW n \in {12, 25, 27}
  PROVE  XorShr(x, n) \in Word /\ XorShl(x, n) \in Word
BY DEF XorShr, XorShl, Word, Register, Shr, Shl, ^^, SymDiff

(* Of two words that differ in bit p but not after the shift, each differ *)
(* in bit p + n too: the bits run out of the word.                        *)
LEMMA ShrStep ==
  ASSUME NEW x \in Word, NEW y \in Word, NEW n \in {12, 27},
         XorShr(x, n) = XorShr(y, n), NEW p \in Bits(64), ~(p \in x <=> p \in y)
  PROVE  p + n \in Bits(64) /\ ~(p + n \in x <=> p + n \in y)
<1>1. p \in XorShr(x, n) <=> ~(p \in x <=> p + n \in x)
  BY XorMember DEF XorShr, Shr
<1>2. p \in XorShr(y, n) <=> ~(p \in y <=> p + n \in y)
  BY XorMember DEF XorShr, Shr
<1>3. ~(p + n \in x <=> p + n \in y)
  BY <1>1, <1>2
<1>4. x \subseteq Bits(64) /\ y \subseteq Bits(64)
  BY DEF Word, Register
<1>5. QED
  BY <1>3, <1>4

(* x ^= x << 25 mixes a bit with the bit 25 places lower, so a difference *)
(* it hides lies 25 places lower too.                                     *)
LEMMA ShlStep ==
  ASSUME NEW x \in Word, NEW y \in Word,
         XorShl(x, 25) = XorShl(y, 25), NEW p \in Bits(64), ~(p \in x <=> p \in y)
  PROVE  p - 25 \in Bits(64) /\ ~(p - 25 \in x <=> p - 25 \in y)
<1>1. p \in XorShl(x, 25) <=> ~(p \in x <=> p - 25 \in x)
  BY XorMember DEF XorShl, Shl
<1>2. p \in XorShl(y, 25) <=> ~(p \in y <=> p - 25 \in y)
  BY XorMember DEF XorShl, Shl
<1>3. ~(p - 25 \in x <=> p - 25 \in y)
  BY <1>1, <1>2
<1>4. x \subseteq Bits(64) /\ y \subseteq Bits(64)
  BY DEF Word, Register
<1>5. QED
  BY <1>3, <1>4

(* The bit positions of a u64. *)
LEMMA Bits64 == \A p : p \in Bits(64) <=> p \in Int /\ 0 <= p /\ p < 64
BY DEF Bits

(* Each of the three lines is injective. *)
LEMMA Shr12Injective ==
  ASSUME NEW x \in Word, NEW y \in Word, XorShr(x, 12) = XorShr(y, 12)
  PROVE  x = y
<1> DEFINE Differs(p) == ~(p \in x <=> p \in y)
<1>1. SUFFICES ASSUME NEW p \in Bits(64), Differs(p) PROVE FALSE
  BY DEF Word, Register
<1>2. p + 12 \in Bits(64) /\ Differs(p + 12)
  BY <1>1, ShrStep
<1>3. (p + 12) + 12 \in Bits(64) /\ Differs((p + 12) + 12)
  BY <1>2, ShrStep
<1>4. ((p + 12) + 12) + 12 \in Bits(64) /\ Differs(((p + 12) + 12) + 12)
  BY <1>3, ShrStep
<1>5. (((p + 12) + 12) + 12) + 12 \in Bits(64) /\ Differs((((p + 12) + 12) + 12) + 12)
  BY <1>4, ShrStep
<1>6. ((((p + 12) + 12) + 12) + 12) + 12 \in Bits(64)
      /\ Differs(((((p + 12) + 12) + 12) + 12) + 12)
  BY <1>5, ShrStep
<1>7. (((((p + 12) + 12) + 12) + 12) + 12) + 12 \in Bits(64)
  BY <1>6, ShrStep
<1>8. QED
  BY <1>1, <1>7, Bits64

(* Followed down, such a difference leaves the word: x ^= x << 25 is *)
(* injective.                                                        *)
LEMMA Shl25Injective ==
  ASSUME NEW x \in Word, NEW y \in Word, XorShl(x, 25) = XorShl(y, 25)
  PROVE  x = y
<1> DEFINE Differs(p) == ~(p \in x <=> p \in y)
<1>1. SUFFICES ASSUME NEW p \in Bits(64), Differs(p) PROVE FALSE
  BY DEF Word, Register
<1>2. p - 25 \in Bits(64) /\ Differs(p - 25)
  BY <1>1, ShlStep
<1>3. (p - 25) - 25 \in Bits(64) /\ Differs((p - 25) - 25)
  BY <1>2, ShlStep
<1>4. ((p - 25) - 25) - 25 \in Bits(64)
  BY <1>3, ShlStep
<1>5. QED
  BY <1>1, <1>4, Bits64

(* The same upwards, for x ^= x >> 27. *)
LEMMA Shr27Injective ==
  ASSUME NEW x \in Word, NEW y \in Word, XorShr(x, 27) = XorShr(y, 27)
  PROVE  x = y
<1> DEFINE Differs(p) == ~(p \in x <=> p \in y)
<1>1. SUFFICES ASSUME NEW p \in Bits(64), Differs(p) PROVE FALSE
  BY DEF Word, Register
<1>2. p + 27 \in Bits(64) /\ Differs(p + 27)
  BY <1>1, ShrStep
<1>3. (p + 27) + 27 \in Bits(64) /\ Differs((p + 27) + 27)
  BY <1>2, ShrStep
<1>4. ((p + 27) + 27) + 27 \in Bits(64)
  BY <1>3, ShrStep
<1>5. QED
  BY <1>1, <1>4, Bits64

(* next_u64 keeps the state a word and loses nothing of it, ... *)
LEMMA TurnedInjective ==
  ASSUME NEW x \in Word, NEW y \in Word
  PROVE  /\ Turned(x) \in Word
         /\ Turned(x) = Turned(y) => x = y
<1> DEFINE a == XorShr(x, 12)
           b == XorShr(y, 12)
           c == XorShl(a, 25)
           d == XorShl(b, 25)
<1>1. a \in Word /\ b \in Word
  BY WordOps
<1>2. c \in Word /\ d \in Word
  BY <1>1, WordOps
<1>3. Turned(x) = XorShr(c, 27) /\ Turned(y) = XorShr(d, 27)
  BY DEF Turned
<1>4. Turned(x) \in Word
  BY <1>2, <1>3, WordOps
<1>5. ASSUME Turned(x) = Turned(y) PROVE x = y
  <2>1. c = d
    BY <1>2, <1>3, <1>5, Shr27Injective
  <2>2. a = b
    BY <1>1, <2>1, Shl25Injective
  <2>3. QED
    BY <2>2, Shr12Injective
<1>6. QED
  BY <1>4, <1>5

(* ... so that zero is turned into by zero alone. *)
LEMMA TurnedNonzero ==
  ASSUME NEW x \in Word, x # {}
  PROVE  Turned(x) # {}
<1>1. {} \in Word
  BY DEF Word, Register
<1>2. Turned({}) = {}
  BY DEF Turned, XorShr, XorShl, Shr, Shl, ^^, SymDiff
<1>3. QED
  BY <1>1, <1>2, TurnedInjective

(* new() maps every seed, zero included, to a state that is not zero. *)
LEMMA NewIsState ==
  ASSUME NEW x \in Word
  PROVE  New(x) \in Word /\ New(x) # {}
<1>1. GOLDEN \in Word /\ GOLDEN # {}
  BY DEF GOLDEN, Word, Register, Bits
<1>2. QED
  BY <1>1 DEF New

(* for_case() does, whatever the mixing of seed and index gives. *)
LEMMA ForCaseIsState ==
  ASSUME NEW m, NEW p
  PROVE  ForCase(m, p) \in Word /\ ForCase(m, p) # {}
<1>1. \A x, y : WrappingMul(x, y) \in Word
  BY DEF WrappingMul, Word, Register
<1>2. \A x \in Word : XorShr(x, 31) \in Word
  BY DEF XorShr, Word, Register, Shr, ^^, SymDiff
<1>3. \A x : SplitMix64(x) \in Word
  BY <1>1, <1>2 DEF SplitMix64
<1>4. QED
  BY <1>3, NewIsState DEF ForCase

(* Types and nonzero states go together: neither is inductive without the *)
(* other once a turn is only known on words.                              *)
IInv == TypeOK /\ NeverZero

(* Every generator starts in a state that is not zero. *)
LEMMA InitIInv == Init => IInv
<1>1. SUFFICES ASSUME Init PROVE IInv
  OBVIOUS
<1>2. one \in Word /\ other \in Word /\ NeverZero
  <2>1. CASE \E seed \in Seeds, p, j \in Indices :
               one = ForCase(seed, p) /\ other = ForCase(seed, j)
    BY <2>1, ForCaseIsState DEF NeverZero
  <2>2. CASE \E s, t \in Seeds : one = New(s) /\ other = New(t)
    BY <2>2, NewIsState, RngAssumption DEF NeverZero, Word
  <2>3. QED
    BY <1>1, <2>1, <2>2 DEF Init
<1>3. draws \in 0 .. DRAWS /\ drawn = <<>>
  BY <1>1, RngAssumption DEF Init
<1>4. QED
  BY <1>2, <1>3 DEF IInv, TypeOK

(* Every draw keeps it so. *)
LEMMA NextIInv == IInv /\ [Next]_vars => IInv'
<1>1. SUFFICES ASSUME IInv, [Next]_vars PROVE IInv'
  OBVIOUS
<1>2. CASE NextU64
  <2>1. one' \in Word /\ other' \in Word
    BY <1>1, <1>2, TurnedInjective DEF NextU64, IInv, TypeOK
  <2>2. NeverZero'
    BY <1>1, <1>2, TurnedNonzero DEF NextU64, IInv, TypeOK, NeverZero
  <2>3. drawn' \in Word \X Word
    <3>1. \A x : Output(x) \in Word
      BY DEF Output, WrappingMul, Word, Register
    <3>2. QED
      BY <1>2, <3>1 DEF NextU64
  <2>4. draws' \in 0 .. DRAWS
    BY <1>1, <1>2, RngAssumption DEF NextU64, IInv, TypeOK
  <2>5. QED
    BY <2>1, <2>2, <2>3, <2>4 DEF IInv, TypeOK
<1>3. CASE UNCHANGED vars
  BY <1>1, <1>3 DEF vars, IInv, TypeOK, NeverZero
<1>4. QED
  BY <1>1, <1>2, <1>3 DEF Next

(* rng.rs:23-24: for every seed and index, however many numbers are       *)
(* drawn, the state is a nonzero 64-bit word.                             *)
THEOREM RngNeverZero == Spec => [](TypeOK /\ NeverZero)
<1>1. QED
  BY InitIInv, NextIInv, PTL DEF Spec, IInv

(* Generators in different states never meet. *)
THEOREM RngStayApart == Spec => StayApart
<1>1. ASSUME IInv, [Next]_vars, one # other PROVE one' # other' \/ UNCHANGED vars
  BY <1>1, TurnedInjective DEF Next, NextU64, IInv, TypeOK
<1>2. IInv /\ [Next]_vars => [one # other => one' # other']_vars
  BY <1>1
<1>3. Spec => []IInv
  BY InitIInv, NextIInv, PTL DEF Spec
<1>4. QED
  BY <1>2, <1>3, PTL DEF Spec, StayApart

-----------------------------------------------------------------------------
(* The shrinker keeps to its budget and is a minimisation, for every set  *)
(* of inputs, every fault and every budget.                               *)

(* The budget is spent by probes alone, and each is made under a test of  *)
(* it, but the first, which is made before anything was spent.            *)
BudgetInv ==
  /\ calls \in Nat
  /\ calls <= MAX_SHRINK_CALLS
  /\ phase = "first" => calls = 0

(* main.rs:34: the ceiling on oracle round-trips is kept whatever the     *)
(* oracle answers.                                                        *)
THEOREM BudgetKeptAlways == ShrinkSpec => []BudgetKept
<1> USE DEF ShrinkAssumption
<1>1. ShrinkInit => BudgetInv
  BY ShrinkAssumption DEF ShrinkInit, BudgetInv
<1>2. BudgetInv /\ [ShrinkNext]_shrinkVars => BudgetInv'
  <2> SUFFICES ASSUME BudgetInv, [ShrinkNext]_shrinkVars PROVE BudgetInv'
    OBVIOUS
  <2> USE ShrinkAssumption DEF BudgetInv
  <2>1. CASE ConfirmFirst
    BY <2>1 DEF ConfirmFirst, Diverges
  <2>2. CASE NotConfirmed
    BY <2>2 DEF NotConfirmed, NoDivergence
  <2>3. CASE HalveAccept
    BY <2>3 DEF HalveAccept, HalveLoop, Diverges
  <2>4. CASE HalveReject
    BY <2>4 DEF HalveReject, HalveLoop, NoDivergence
  <2>5. CASE HalveDone
    BY <2>5 DEF HalveDone
  <2>6. CASE TrimAccept
    BY <2>6 DEF TrimAccept, TrimLoop, Diverges
  <2>7. CASE TrimReject
    BY <2>7 DEF TrimReject, TrimLoop, NoDivergence
  <2>8. CASE TrimDone
    BY <2>8 DEF TrimDone
  <2>9. CASE ZeroSkip
    BY <2>9 DEF ZeroSkip, ZeroLoop
  <2>10. CASE ZeroAccept
    BY <2>10 DEF ZeroAccept, ZeroLoop, Diverges
  <2>11. CASE ZeroReject
    BY <2>11 DEF ZeroReject, ZeroLoop, NoDivergence
  <2>12. CASE ReturnSome
    BY <2>12 DEF ReturnSome
  <2>13. CASE UNCHANGED shrinkVars
    BY <2>13 DEF shrinkVars
  <2> QED
    BY <2>1, <2>2, <2>3, <2>4, <2>5, <2>6, <2>7, <2>8, <2>9, <2>10, <2>11, <2>12,
       <2>13 DEF ShrinkNext
<1>3. BudgetInv => BudgetKept
  BY DEF BudgetInv, BudgetKept
<1> QED
  BY <1>1, <1>2, <1>3, PTL DEF ShrinkSpec

-----------------------------------------------------------------------------
(* What is kept diverges, the phases are the six there are, and nothing   *)
(* has been cut before the first probe.                                   *)
KeepInv ==
  /\ fault \in Faults
  /\ best \in fault
  /\ step \in Nat
  /\ phase \in {"first", "halve", "trim", "zero", "some", "none"}
  /\ phase = "first" => best = data
  /\ phase \in {"halve", "trim", "zero", "some"} \/ best = data

(* A cut is no longer than what it was cut from. *)
LEMMA DropTailShorter ==
  ASSUME NEW d \in Seq(Nat), NEW n \in Nat
  PROVE  /\ DropTail(d, n) \in Seq(Nat)
         /\ Len(DropTail(d, n)) <= Len(d)
<1>1. Smaller(n, Len(d)) \in 0 .. Len(d)
  BY DEF Smaller
<1>2. Len(d) - Smaller(n, Len(d)) \in 0 .. Len(d)
  BY <1>1
<1> QED
  BY <1>2 DEF DropTail

(* What the shrinker keeps is a byte string. *)
LEMMA BestIsSequence == KeepInv => best \in Seq(Nat)
BY ShrinkAssumption DEF ShrinkAssumption, KeepInv

(* The case handed to shrink() diverges. *)
LEMMA KeepInvInitially == ShrinkInit => KeepInv
BY DEF ShrinkInit, KeepInv

(* Each probe replaces the case it keeps by a smaller one that diverges, or *)
(* leaves it alone.                                                         *)
LEMMA KeepInvPreserved == KeepInv /\ [ShrinkNext]_shrinkVars => KeepInv'
<1> SUFFICES ASSUME KeepInv, [ShrinkNext]_shrinkVars PROVE KeepInv'
  OBVIOUS
<1>a. best \in Seq(Nat) /\ Len(best) \in Nat
  BY BestIsSequence
<1> USE DEF KeepInv
<1>1. CASE ConfirmFirst
  <2>1. step' \in Nat
    BY <1>1, <1>a DEF ConfirmFirst
  <2> QED
    BY <1>1, <2>1 DEF ConfirmFirst, args
<1>2. CASE NotConfirmed
  BY <1>2 DEF NotConfirmed, args
<1>3. CASE HalveAccept
  <2>1. best' \in fault /\ UNCHANGED <<fault, data, phase>> /\ phase = "halve"
    BY <1>3 DEF HalveAccept, HalveLoop, Diverges, args
  <2>2. best' \in Seq(Nat)
    BY <2>1, ShrinkAssumption DEF ShrinkAssumption
  <2>3. step' \in Nat
    BY <1>3, <2>2 DEF HalveAccept, Smaller
  <2> QED
    BY <2>1, <2>3
<1>4. CASE HalveReject
  <2>1. step' \in Nat
    BY <1>4, <1>a DEF HalveReject, Smaller
  <2> QED
    BY <1>4, <2>1 DEF HalveReject, HalveLoop, args
<1>5. CASE HalveDone
  BY <1>5 DEF HalveDone, args
<1>6. CASE TrimAccept
  BY <1>6 DEF TrimAccept, TrimLoop, Diverges, args
<1>7. CASE TrimReject
  BY <1>7 DEF TrimReject, TrimLoop, args
<1>8. CASE TrimDone
  BY <1>8 DEF TrimDone, args
<1>9. CASE ZeroSkip
  BY <1>9 DEF ZeroSkip, ZeroLoop, args
<1>10. CASE ZeroAccept
  BY <1>10 DEF ZeroAccept, ZeroLoop, Diverges, args
<1>11. CASE ZeroReject
  BY <1>11 DEF ZeroReject, ZeroLoop, args
<1>12. CASE ReturnSome
  BY <1>12 DEF ReturnSome, args
<1>13. CASE UNCHANGED shrinkVars
  BY <1>13 DEF shrinkVars
<1> QED
  BY <1>1, <1>2, <1>3, <1>4, <1>5, <1>6, <1>7, <1>8, <1>9, <1>10, <1>11, <1>12,
     <1>13 DEF ShrinkNext

(* An accepted candidate is an improvement when it is no longer. *)
LEMMA AcceptIsImprove ==
  ASSUME KeepInv,
         phase \notin {"some", "none"}, phase' \notin {"some", "none"},
         UNCHANGED <<fault, data>>,
         best' \in fault, Len(best') <= Len(best)
  PROVE  Abstract!Next
BY DEF Abstract!Next, Abstract!Improve

(* Every step of the shrinker is a step of the minimisation or none. *)
LEMMA StepIsAbstract == KeepInv /\ [ShrinkNext]_shrinkVars => [Abstract!Next]_(Abstract!vars)
<1> SUFFICES ASSUME KeepInv, [ShrinkNext]_shrinkVars
             PROVE  Abstract!Next \/ UNCHANGED Abstract!vars
  OBVIOUS
<1>a. best \in Seq(Nat) /\ Len(best) \in Nat
  BY BestIsSequence
<1> DEFINE Busy == phase \notin {"some", "none"} /\ phase' \notin {"some", "none"}
<1>b. ASSUME Busy, UNCHANGED <<fault, data, best>> PROVE UNCHANGED Abstract!vars
  BY <1>b DEF Abstract!vars
<1>1. CASE ConfirmFirst
  BY <1>1, <1>b DEF ConfirmFirst, args
<1>2. CASE NotConfirmed
  BY <1>2 DEF NotConfirmed, args, KeepInv, Abstract!Next, Abstract!Deliver
<1>3. CASE HalveAccept
  <2>1. /\ Busy /\ UNCHANGED <<fault, data>>
        /\ best' = DropTail(best, step) /\ best' \in fault
    BY <1>3 DEF HalveAccept, HalveLoop, Diverges, args
  <2>2. step \in Nat
    BY DEF KeepInv
  <2>3. Len(best') <= Len(best)
    BY <2>1, <2>2, <1>a, DropTailShorter
  <2> QED
    BY <2>1, <2>3, AcceptIsImprove
<1>4. CASE HalveReject
  BY <1>4, <1>b DEF HalveReject, HalveLoop, args
<1>5. CASE HalveDone
  BY <1>5, <1>b DEF HalveDone, args
<1>6. CASE TrimAccept
  <2>1. /\ Busy /\ UNCHANGED <<fault, data>>
        /\ best # <<>> /\ best' = Tail(best) /\ best' \in fault
    BY <1>6 DEF TrimAccept, TrimLoop, Diverges, args
  <2>2. Len(best') <= Len(best)
    BY <2>1, <1>a
  <2> QED
    BY <2>1, <2>2, AcceptIsImprove
<1>7. CASE TrimReject
  BY <1>7, <1>b DEF TrimReject, TrimLoop, args
<1>8. CASE TrimDone
  BY <1>8, <1>b DEF TrimDone, args
<1>9. CASE ZeroSkip
  BY <1>9, <1>b DEF ZeroSkip, ZeroLoop, args
<1>10. CASE ZeroAccept
  <2>1. /\ Busy /\ UNCHANGED <<fault, data>>
        /\ best' = [best EXCEPT ![i] = ZERO] /\ best' \in fault
    BY <1>10 DEF ZeroAccept, ZeroLoop, Diverges, args
  <2>2. best' \in Seq(Nat)
    BY <2>1, ShrinkAssumption DEF ShrinkAssumption, KeepInv
  <2>3. DOMAIN best' = DOMAIN best
    BY <2>1
  <2>4. Len(best') <= Len(best)
    BY <2>2, <2>3, <1>a
  <2> QED
    BY <2>1, <2>4, AcceptIsImprove
<1>11. CASE ZeroReject
  BY <1>11, <1>b DEF ZeroReject, ZeroLoop, args
<1>12. CASE ReturnSome
  BY <1>12 DEF ReturnSome, args, Abstract!Next, Abstract!Deliver
<1>13. CASE UNCHANGED shrinkVars
  BY <1>13 DEF shrinkVars, Abstract!vars
<1> QED
  BY <1>1, <1>2, <1>3, <1>4, <1>5, <1>6, <1>7, <1>8, <1>9, <1>10, <1>11, <1>12,
     <1>13 DEF ShrinkNext

(* main.rs:189-190: the shrinker never assumes that a smaller input still *)
(* fails: for every fault, what it keeps diverges and never grows.        *)
THEOREM ShrinkIsMinimisation == ShrinkSpec => IsMinimisation
<1>1. ShrinkInit => Abstract!Init
  BY DEF ShrinkInit, Abstract!Init
<1> QED
  BY <1>1, KeepInvInitially, KeepInvPreserved, StepIsAbstract, PTL
     DEF ShrinkSpec, IsMinimisation, Abstract!Spec

(* One step of the shrinker keeps LastByteIsNeeded: the halving starts    *)
(* with a step of at least 1; an accepted cut leaves the step positive    *)
(* unless nothing is left; a refused one makes it 0 only from 1, and then *)
(* the refused candidate was the input without its last byte.             *)
LEMMA LastByteStep ==
  KeepInv /\ LastByteIsNeeded /\ [ShrinkNext]_shrinkVars => LastByteIsNeeded'
<1> SUFFICES ASSUME KeepInv, LastByteIsNeeded, [ShrinkNext]_shrinkVars
             PROVE  LastByteIsNeeded'
  OBVIOUS
<1>a. best \in Seq(Nat) /\ Len(best) \in Nat /\ step \in Nat
  BY BestIsSequence DEF KeepInv
<1>b. ASSUME phase' # "halve" PROVE LastByteIsNeeded'
  BY <1>b DEF LastByteIsNeeded
<1>1. CASE ConfirmFirst
  <2>1. best = data /\ UNCHANGED <<data, best>> /\ step' = Len(best) \div 2
    BY <1>1 DEF ConfirmFirst, KeepInv, args
  <2>2. Len(data) > 1 => step' # 0
    BY <2>1, <1>a
  <2> QED
    BY <2>1, <2>2 DEF LastByteIsNeeded
<1>2. CASE NotConfirmed
  BY <1>2, <1>b DEF NotConfirmed
<1>3. CASE HalveAccept
  <2>1. best' \in fault /\ step > 0 /\ step' = Smaller(step, Len(best'))
    BY <1>3 DEF HalveAccept, HalveLoop, Diverges
  <2>2. best' \in Seq(Nat)
    BY <2>1, ShrinkAssumption DEF ShrinkAssumption, KeepInv
  <2>3. best' # <<>> => step' # 0
    BY <2>1, <2>2, <1>a DEF Smaller
  <2> QED
    BY <2>3 DEF LastByteIsNeeded
<1>4. CASE HalveReject
  <2>1. /\ step > 0 /\ step' = Smaller(step \div 2, Len(best))
        /\ UNCHANGED <<fault, data, phase, best>>
        /\ DropTail(best, step) \notin fault \/ failures' = TRUE
    BY <1>4 DEF HalveReject, HalveLoop, NoDivergence, args
  <2>2. step' = 0 /\ best # <<>> => step = 1
    <3>1. best # <<>> => Len(best) # 0
      BY <1>a
    <3>2. step' = 0 /\ Len(best) # 0 => step \div 2 = 0
      BY <2>1, <1>a DEF Smaller
    <3>3. step \div 2 = 0 => step = 1
      BY <2>1, <1>a
    <3> QED
      BY <3>1, <3>2, <3>3
  <2> QED
    BY <2>1, <2>2 DEF LastByteIsNeeded
<1>5. CASE HalveDone
  BY <1>5, <1>b DEF HalveDone
<1>6. CASE TrimAccept
  BY <1>6, <1>b DEF TrimAccept, TrimLoop
<1>7. CASE TrimReject
  BY <1>7, <1>b DEF TrimReject
<1>8. CASE TrimDone
  BY <1>8, <1>b DEF TrimDone
<1>9. CASE ZeroSkip
  BY <1>9, <1>b DEF ZeroSkip, ZeroLoop
<1>10. CASE ZeroAccept
  BY <1>10, <1>b DEF ZeroAccept, ZeroLoop
<1>11. CASE ZeroReject
  BY <1>11, <1>b DEF ZeroReject, ZeroLoop
<1>12. CASE ReturnSome
  BY <1>12, <1>b DEF ReturnSome
<1>13. CASE UNCHANGED shrinkVars
  BY <1>13 DEF shrinkVars, LastByteIsNeeded, DropTail
<1> QED
  BY <1>1, <1>2, <1>3, <1>4, <1>5, <1>6, <1>7, <1>8, <1>9, <1>10, <1>11, <1>12,
     <1>13 DEF ShrinkNext

(* main.rs:196: when the halving ends for want of a step and no oracle    *)
(* run failed, the input without its last byte no longer diverges: for    *)
(* every fault, every input of more than one byte and every budget.       *)
THEOREM LastByteIsNeededAlways == ShrinkSpec => []LastByteIsNeeded
<1>1. ShrinkInit => LastByteIsNeeded
  BY DEF ShrinkInit, LastByteIsNeeded
<1> QED
  BY <1>1, KeepInvInitially, KeepInvPreserved, LastByteStep, PTL DEF ShrinkSpec

-----------------------------------------------------------------------------
(* The harness.  A batch is its cases' records one behind the other, so   *)
(* case n + 1 begins behind the first n.                                  *)
Written(k, cell, case) == WithCase(cell, case)
Batched == INSTANCE FoldLemmas WITH Op <- Written

(* The cell at which case n + 1 begins. *)
StartOf(n) == 1 + Len(Encoded(SubSeq(batch, 1, n)))

(* What the harness has read into its memory. *)
File == SubSeq(Encoded(batch), 1, cells) \o <<NUL>>

(* s is how t begins. *)
Opens(s, t) == Len(s) <= Len(t) /\ \A q \in 1 .. Len(s) : t[q] = s[q]

(* A byte is a cell. *)
LEMMA BytesAreCells ==
  ASSUME NEW d \in Seq(0 .. 255)
  PROVE  d \in Seq(Nat) /\ Len(d) \in Nat
<1>1. Len(d) \in Nat /\ d \in [1 .. Len(d) -> 0 .. 255]
  BY LenProperties
<1>2. ASSUME NEW q \in 1 .. Len(d) PROVE d[q] \in Nat
  <2>1. d[q] \in 0 .. 255
    BY <1>1, <1>2
  <2>2. 0 .. 255 \subseteq Nat
    OBVIOUS
  <2> QED
    BY <2>1, <2>2
<1>3. d \in [1 .. Len(d) -> Nat]
  BY <1>1, <1>2
<1> QED
  BY <1>1, <1>3, SeqDef

(* A record is cells. *)
LEMMA RecordTyped ==
  ASSUME NEW c \in Case
  PROVE  /\ c.is_null \in BOOLEAN /\ c.data \in Seq(0 .. 255) /\ c.data \in Seq(Nat)
         /\ Len(c.data) \in Nat
         /\ Record(c) \in Seq(Nat) /\ Len(Record(c)) = 2 + Len(c.data)
         /\ Record(c)[1] = IF c.is_null THEN 1 ELSE 0
         /\ Record(c)[2] = Len(c.data)
         /\ \A q \in 1 .. Len(c.data) : Record(c)[2 + q] = c.data[q]
<1>1. c.is_null \in BOOLEAN /\ c.data \in Seq(0 .. 255)
  BY DEF Case
<1> DEFINE d == c.data
           f == IF c.is_null THEN 1 ELSE 0
<1>2. d \in Seq(Nat) /\ f \in Nat /\ Len(d) \in Nat
  BY <1>1, BytesAreCells
<1>3. Record(c) = <<f, Len(d)>> \o d
  BY DEF Record
<1> HIDE DEF d, f
<1>4. /\ <<f, Len(d)>> \o d \in Seq(Nat) /\ Len(<<f, Len(d)>> \o d) = 2 + Len(d)
      /\ (<<f, Len(d)>> \o d)[1] = f /\ (<<f, Len(d)>> \o d)[2] = Len(d)
      /\ \A q \in 1 .. Len(d) : (<<f, Len(d)>> \o d)[2 + q] = d[q]
  BY <1>2
<1> QED
  BY <1>1, <1>2, <1>3, <1>4 DEF d, f

(* A batch as a fold over its cases, and one case more. *)
LEMMA EncodedStep ==
  ASSUME NEW cases \in Seq(Case), NEW c \in Case
  PROVE  /\ Encoded(<<>>) = <<>>
         /\ Encoded(cases) \in Seq(Nat)
         /\ Encoded(Append(cases, c)) = Encoded(cases) \o Record(c)
<1>1. \A s : Encoded(s) = Batched!Fold(0, <<>>, s)
  BY DEF Encoded, WithCase, Written, Batched!Fold, Batched!FoldLeft, Batched!MapThenFoldSet,
         Batched!Max, FoldLeft, MapThenFoldSet, Max
<1>2. Encoded(<<>>) = <<>>
  BY <1>1, Batched!FoldEmpty
<1>3. Batched!Fold(0, <<>>, Append(cases, c)) = Written(0, Batched!Fold(0, <<>>, cases), c)
  BY Batched!FoldAppend
<1>4. \A x \in Seq(Nat), e \in Case : Written(0, x, e) \in Seq(Nat)
  BY RecordTyped, ConcatProperties DEF Written, WithCase
<1>5. Batched!Fold(0, <<>>, cases) \in Seq(Nat)
  <2>1. <<>> \in Seq(Nat)
    OBVIOUS
  <2> QED
    BY <1>4, <2>1, Batched!FoldType
<1> QED
  BY <1>1, <1>2, <1>3, <1>5 DEF Written, WithCase

(* A batch is cells. *)
LEMMA EncodedTyped ==
  ASSUME NEW s \in Seq(Case)
  PROVE  Encoded(s) \in Seq(Nat) /\ Len(Encoded(s)) \in Nat
<1>1. [is_null |-> TRUE, data |-> <<>>] \in Case
  BY DEF Case
<1> QED
  BY <1>1, EncodedStep, LenProperties

(* A batch begins with the records of its first cases. *)
LEMMA EncodedOpens ==
  ASSUME NEW cases \in Seq(Case), NEW n \in 0 .. Len(cases)
  PROVE  Opens(Encoded(SubSeq(cases, 1, n)), Encoded(cases))
<1> DEFINE P == {s \in Seq(Case) :
                   \A k \in 0 .. Len(s) : Opens(Encoded(SubSeq(s, 1, k)), Encoded(s))}
<1>1. <<>> \in P
  <2>1. <<>> \in Seq(Case) /\ Len(<<>>) = 0 /\ \A k \in 0 .. 0 : SubSeq(<<>>, 1, k) = <<>>
    OBVIOUS
  <2>2. Opens(Encoded(<<>>), Encoded(<<>>))
    BY DEF Opens
  <2> QED
    BY <2>1, <2>2
<1>2. ASSUME NEW s \in Seq(Case), NEW c \in Case, s \in P PROVE Append(s, c) \in P
  <2> DEFINE v == Append(s, c)
  <2>1. v \in Seq(Case) /\ Len(v) = Len(s) + 1 /\ Len(s) \in Nat
        /\ \A k \in 0 .. Len(s) : SubSeq(v, 1, k) = SubSeq(s, 1, k)
    OBVIOUS
  <2>2. SubSeq(v, 1, Len(v)) = v
    BY <2>1, SubSeqFull
  <2>3. Encoded(v) = Encoded(s) \o Record(c) /\ Encoded(s) \in Seq(Nat) /\ Record(c) \in Seq(Nat)
    BY EncodedStep, RecordTyped
  <2>4. \A k \in 0 .. Len(s) : Opens(Encoded(SubSeq(s, 1, k)), Encoded(s))
    BY <1>2
  <2>5. \A t, x, y : x \in Seq(Nat) /\ y \in Seq(Nat) /\ Opens(t, x) => Opens(t, x \o y)
    <3> SUFFICES ASSUME NEW t, NEW x \in Seq(Nat), NEW y \in Seq(Nat), Opens(t, x)
                 PROVE  Opens(t, x \o y)
      OBVIOUS
    <3> QED
      BY DEF Opens
  <2>6. ASSUME NEW k \in 0 .. Len(v) PROVE Opens(Encoded(SubSeq(v, 1, k)), Encoded(v))
    <3>1. CASE k = Len(v)
      <4> DEFINE x == Encoded(v)
      <4>1. x \in Seq(Nat)
        BY <2>3, ConcatProperties
      <4> HIDE DEF x
      <4>2. Opens(x, x)
        BY <4>1 DEF Opens
      <4> QED
        BY <2>2, <3>1, <4>2 DEF x
    <3>2. CASE k \in 0 .. Len(s)
      BY <2>1, <2>3, <2>4, <2>5, <3>2
    <3> QED
      BY <2>1, <3>1, <3>2
  <2> HIDE DEF v
  <2> QED
    BY <2>1, <2>6 DEF v
<1>3. Seq(Case) \subseteq P
  <2> HIDE DEF P
  <2> QED
    BY <1>1, <1>2, Batched!SeqSetInduction
<1> QED
  BY <1>3

(* Of the cells at p, only those up to the first terminator matter.       *)
LEMMA StringIs ==
  ASSUME NEW m \in Seq(Nat), NEW p \in 1 .. Len(m), NEW d \in Seq(Nat),
         p + Len(d) <= Len(m), \A q \in 1 .. Len(d) : m[p + q - 1] = d[q],
         m[p + Len(d)] = NUL
  PROVE  StringAt(m, p) = StringAt(d \o <<NUL>>, 1)
<1> DEFINE closed == d \o <<NUL>>
           rest == SubSeq(m, p, Len(m))
           I(s) == {q \in 1 .. Len(s) : s[q] \in StringEnds}
<1>1. NUL \in StringEnds /\ NUL \in Nat
  BY DEF NUL, StringEnds
<1>2. /\ closed \in Seq(Nat) /\ Len(closed) = Len(d) + 1 /\ Len(d) \in Nat
      /\ closed[Len(d) + 1] = NUL /\ \A q \in 1 .. Len(d) : closed[q] = d[q]
  BY <1>1
<1>3. /\ rest \in Seq(Nat) /\ Len(rest) = Len(m) - p + 1 /\ Len(m) \in Nat
      /\ \A q \in 1 .. Len(m) - p + 1 : rest[q] = m[p + q - 1]
  OBVIOUS
<1>4. SubSeq(closed, 1, Len(closed)) = closed
  BY <1>2, SubSeqFull
<1> HIDE DEF closed, rest
<1>5. Len(closed) <= Len(rest) /\ \A q \in 1 .. Len(closed) : rest[q] = closed[q]
  <2> DEFINE n == Len(d)
             k == Len(m)
  <2>1. n \in Nat /\ k \in Nat /\ p \in Nat /\ p + n <= k /\ Len(closed) = n + 1 /\ Len(rest) = k - p + 1
    BY <1>2, <1>3
  <2> SUFFICES ASSUME NEW q \in 1 .. n + 1 PROVE rest[q] = closed[q]
    BY <2>1
  <2> HIDE DEF n, k
  <2>2. q \in 1 .. k - p + 1 /\ rest[q] = m[p + q - 1]
    <3>1. q \in Nat /\ 1 <= q /\ q <= n + 1
      BY <2>1
    <3>2. q <= k - p + 1
      BY <2>1, <3>1
    <3>3. q \in 1 .. k - p + 1
      BY <2>1, <3>1, <3>2
    <3> QED
      BY <1>3, <3>3 DEF k
  <2>3. CASE q \in 1 .. n
    BY <1>2, <2>2, <2>3 DEF n
  <2>4. CASE q = n + 1
    <3>1. p + q - 1 = p + n
      BY <2>1, <2>4
    <3> QED
      BY <1>2, <2>2, <2>4, <3>1 DEF n
  <2> QED
    BY <2>1, <2>3, <2>4
<1>6. Len(closed) \in I(closed) /\ Len(closed) \in I(rest)
  <2> DEFINE n == Len(closed)
  <2>1. n \in Nat /\ n \in 1 .. n /\ n \in 1 .. Len(rest)
    BY <1>2, <1>3, <1>5
  <2>2. closed[n] \in StringEnds /\ rest[n] \in StringEnds
    BY <1>1, <1>2, <1>5, <2>1
  <2> QED
    BY <2>1, <2>2
<1>7. PICK n \in I(closed) : \A q \in I(closed) : n <= q
  <2>1. I(closed) \subseteq Nat /\ I(closed) # {}
    <3>1. I(closed) \subseteq 1 .. Len(closed)
      OBVIOUS
    <3>2. 1 .. Len(closed) \subseteq Nat
      BY <1>2
    <3> HIDE DEF I
    <3> QED
      BY <1>6, <3>1, <3>2
  <2> HIDE DEF I
  <2> QED
    BY <2>1, Batched!LeastOf
<1>8. n \in I(rest) /\ \A q \in I(rest) : n <= q
  <2>1. n \in 1 .. Len(closed) /\ closed[n] \in StringEnds /\ Len(closed) \in Nat /\ Len(rest) \in Nat
    BY <1>2, <1>3, <1>7
  <2>2. n \in 1 .. Len(rest) /\ rest[n] \in StringEnds
    BY <1>5, <2>1
  <2>3. ASSUME NEW q \in I(rest) PROVE n <= q
    <3>1. q \in 1 .. Len(rest) /\ rest[q] \in StringEnds
      BY <2>3
    <3>2. CASE q <= Len(closed)
      <4>1. q \in 1 .. Len(closed) /\ closed[q] \in StringEnds
        BY <1>5, <2>1, <3>1, <3>2
      <4> QED
        BY <1>7, <4>1
    <3> QED
      BY <2>1, <3>1, <3>2
  <2> QED
    BY <2>2, <2>3
<1>9. Min(I(closed)) = n /\ Min(I(rest)) = n
  <2>0. I(closed) \subseteq Nat /\ I(rest) \subseteq Nat
    <3>1. \A k \in Nat : 1 .. k \subseteq Nat
      OBVIOUS
    <3>2. Len(closed) \in Nat /\ Len(rest) \in Nat
      BY <1>2, <1>3
    <3> QED
      BY <3>1, <3>2
  <2> HIDE DEF I
  <2>1. ASSUME NEW J, J \subseteq Nat, n \in J, \A q \in J : n <= q PROVE Min(J) = n
    <3>1. \A x \in J : (\A q \in J : x <= q) => x = n
      BY <2>1
    <3> QED
      BY <2>1, <3>1 DEF Min
  <2> QED
    BY <1>7, <1>8, <2>0, <2>1
<1>10. /\ StringAt(m, p) = SubSeq(rest, 1, n - 1)
       /\ StringAt(closed, 1) = SubSeq(closed, 1, n - 1)
  <2>1. \A s : SelectInSeq(s, LAMBDA b : b \in StringEnds) = IF I(s) # {} THEN Min(I(s)) ELSE 0
    BY DEF SelectInSeq
  <2>2. StringAt(m, p) = SubSeq(rest, 1, SelectInSeq(rest, LAMBDA b : b \in StringEnds) - 1)
    BY DEF StringAt, rest
  <2>3. StringAt(closed, 1) = SubSeq(closed, 1, SelectInSeq(closed, LAMBDA b : b \in StringEnds) - 1)
    BY <1>4 DEF StringAt
  <2>4. I(closed) # {} /\ I(rest) # {}
    BY <1>6
  <2> HIDE DEF I
  <2> QED
    BY <1>9, <2>1, <2>2, <2>3, <2>4
<1>11. SubSeq(rest, 1, n - 1) = SubSeq(closed, 1, n - 1)
  <2>1. n \in 1 .. Len(closed) /\ Len(closed) \in Nat /\ Len(rest) \in Nat
    BY <1>2, <1>3, <1>7
  <2>2. \A q \in 1 .. n - 1 : rest[q] = closed[q]
    BY <1>5, <2>1
  <2>3. n - 1 \in 0 .. Len(closed) /\ n - 1 \in 0 .. Len(rest)
    BY <1>5, <2>1
  <2> QED
    BY <1>2, <1>3, <2>2, <2>3
<1> QED
  BY <1>10, <1>11 DEF closed

-----------------------------------------------------------------------------
(* Where the harness stands: before a case it is at that case's record,   *)
(* with its memory as it was read; while it computes it is one record on, *)
(* and the cell there holds the NUL while `saved` holds the cell.         *)
HarnessInv ==
  /\ batch \in Batches
  /\ cells \in 0 .. Len(Encoded(batch))
  /\ count = Len(batch)
  /\ turn \in 0 .. count
  /\ pc \in {"start", "head", "compute", "write", "close", "exit"}
  /\ pc # "exit" => exit = Running
  /\ pc \notin {"close", "exit"} => results = Old
  /\ pc = "start" => turn = 0 /\ pos = 1 /\ answered = <<>>
  /\ pc \in {"head", "compute", "write", "close"} =>
       /\ pos = StartOf(IF pc = "compute" THEN turn + 1 ELSE turn)
       /\ pos <= cells + 1
       /\ answered = [n \in 1 .. turn |-> Right(batch[n])]
       /\ memory = IF pc = "compute" THEN [File EXCEPT ![pos] = NUL] ELSE File
  /\ pc = "compute" =>
       /\ turn < count
       /\ saved = File[pos]
       /\ flags = IF batch[turn + 1].is_null THEN 1 ELSE 0
       /\ payload = StartOf(turn) + HEADER
  /\ pc \in {"write", "close"} => turn = count
  /\ pc = "close" => results = [of |-> answered, whole |-> FALSE]

(* A sequence put behind another one. *)
LEMMA Behind ==
  ASSUME NEW x \in Seq(Nat), NEW r \in Seq(Nat)
  PROVE  /\ Len(x) \in Nat /\ Len(r) \in Nat /\ Len(x \o r) = Len(x) + Len(r)
         /\ \A q \in 1 .. Len(r) : (x \o r)[Len(x) + q] = r[q]
  OBVIOUS

(* What the file holds at the next case's place, as far as it goes.       *)
LEMMA CaseCells ==
  ASSUME batch \in Batches, cells \in 0 .. Len(Encoded(batch))
  PROVE  /\ batch \in Seq(Case) /\ Len(batch) \in Nat /\ cells \in Nat
         /\ File \in Seq(Nat) /\ Len(File) = cells + 1 /\ File[cells + 1] = NUL
         /\ StartOf(0) = 1 /\ StartOf(Len(batch)) = 1 + Len(Encoded(batch))
         /\ \A n \in 0 .. Len(batch) : StartOf(n) \in Nat /\ StartOf(n) >= 1
         /\ \A n \in 0 .. Len(batch) - 1 :
              LET p == StartOf(n)
                  c == batch[n + 1]
              IN  /\ c \in Case
                  /\ StartOf(n + 1) = p + 2 + Len(c.data)
                  /\ p <= cells => File[p] = IF c.is_null THEN 1 ELSE 0
                  /\ p + 1 <= cells => File[p + 1] = Len(c.data)
                  /\ \A q \in 1 .. Len(c.data) :
                       p + 1 + q <= cells => File[p + 1 + q] = c.data[q]
<1> DEFINE e == Encoded(batch)
<1>1. batch \in Seq(Case) /\ Len(batch) \in Nat
  BY HarnessAssumption
<1>2. \A s \in Seq(Case) : Encoded(s) \in Seq(Nat) /\ Len(Encoded(s)) \in Nat
  BY EncodedTyped
<1>3. e \in Seq(Nat) /\ Len(e) \in Nat /\ cells \in Nat /\ cells <= Len(e)
  BY <1>1, <1>2
<1>4. /\ File \in Seq(Nat) /\ Len(File) = cells + 1 /\ File[cells + 1] = NUL
      /\ \A q \in 1 .. cells : File[q] = e[q]
  <2>1. NUL \in Nat
    BY DEF NUL
  <2> HIDE DEF e
  <2> DEFINE f == SubSeq(e, 1, cells)
  <2>2. f \in Seq(Nat) /\ Len(f) = cells /\ \A q \in 1 .. cells : f[q] = e[q]
    BY <1>3
  <2> HIDE DEF f
  <2>3. /\ f \o <<NUL>> \in Seq(Nat) /\ Len(f \o <<NUL>>) = cells + 1
        /\ (f \o <<NUL>>)[cells + 1] = NUL /\ \A q \in 1 .. cells : (f \o <<NUL>>)[q] = f[q]
    BY <1>3, <2>1, <2>2
  <2> QED
    BY <2>2, <2>3 DEF File, f, e
<1>5. StartOf(0) = 1 /\ StartOf(Len(batch)) = 1 + Len(e)
  <2>1. SubSeq(batch, 1, 0) = <<>> /\ SubSeq(batch, 1, Len(batch)) = batch
    BY <1>1, SubSeqFull
  <2>2. Encoded(<<>>) = <<>>
    <3>1. [is_null |-> TRUE, data |-> <<>>] \in Case
      BY DEF Case
    <3> QED
      BY <1>1, <3>1, EncodedStep
  <2> HIDE DEF e
  <2>3. Len(Encoded(SubSeq(batch, 1, 0))) = 0 /\ Encoded(SubSeq(batch, 1, Len(batch))) = e
    <3>1. Encoded(SubSeq(batch, 1, 0)) = <<>>
      BY <2>1, <2>2, Zenon
    <3>2. Encoded(SubSeq(batch, 1, Len(batch))) = e
      BY <2>1, Zenon DEF e
    <3>3. Len(<<>>) = 0
      OBVIOUS
    <3> QED
      BY <3>1, <3>2, <3>3, Zenon
  <2> QED
    BY <2>3 DEF StartOf
<1>6. \A n \in 0 .. Len(batch) : StartOf(n) \in Nat /\ StartOf(n) >= 1
  <2> SUFFICES ASSUME NEW n \in 0 .. Len(batch) PROVE StartOf(n) \in Nat /\ StartOf(n) >= 1
    OBVIOUS
  <2>1. SubSeq(batch, 1, n) \in Seq(Case)
    BY <1>1
  <2> QED
    BY <1>2, <2>1 DEF StartOf
<1>7. ASSUME NEW n \in 0 .. Len(batch) - 1
      PROVE  LET p == StartOf(n)
                 c == batch[n + 1]
             IN  /\ c \in Case
                 /\ StartOf(n + 1) = p + 2 + Len(c.data)
                 /\ p <= cells => File[p] = IF c.is_null THEN 1 ELSE 0
                 /\ p + 1 <= cells => File[p + 1] = Len(c.data)
                 /\ \A q \in 1 .. Len(c.data) :
                      p + 1 + q <= cells => File[p + 1 + q] = c.data[q]
  <2> DEFINE c == batch[n + 1]
             a == SubSeq(batch, 1, n)
             b == SubSeq(batch, 1, n + 1)
             r == Record(c)
             x == Encoded(a)
             y == Encoded(b)
  <2>1. a \in Seq(Case) /\ b \in Seq(Case) /\ c \in Case /\ b = Append(a, c) /\ n + 1 \in 0 .. Len(batch)
    BY <1>1
  <2>2. y = x \o r /\ x \in Seq(Nat) /\ Len(x) \in Nat
    <3> HIDE DEF a, b, c
    <3> QED
      BY <1>2, <2>1, EncodedStep
  <2>3. /\ Len(c.data) \in Nat /\ r \in Seq(Nat) /\ Len(r) = 2 + Len(c.data)
        /\ r[1] = (IF c.is_null THEN 1 ELSE 0) /\ r[2] = Len(c.data)
        /\ \A q \in 1 .. Len(c.data) : r[2 + q] = c.data[q]
    <3> HIDE DEF c
    <3> QED
      BY <2>1, RecordTyped
  <2>4. Opens(y, e)
    BY <1>1, <2>1, EncodedOpens
  <2>5. StartOf(n) = 1 + Len(x) /\ StartOf(n + 1) = 1 + Len(y)
    BY DEF StartOf
  <2> HIDE DEF a, b, c, r, x, y, e
  <2>6. Len(y) = Len(x) + Len(r) /\ \A q \in 1 .. Len(r) : y[Len(x) + q] = r[q]
    BY <2>2, <2>3, Behind
  <2>7. \A q \in 1 .. Len(r) : Len(x) + q <= cells => File[Len(x) + q] = r[q]
    <3> SUFFICES ASSUME NEW q \in 1 .. Len(r), Len(x) + q <= cells PROVE File[Len(x) + q] = r[q]
      OBVIOUS
    <3> DEFINE j == Len(x) + q
    <3>1. j \in Nat /\ j \in 1 .. cells /\ j \in 1 .. Len(y)
      <4> DEFINE l == Len(x)
                 m == Len(r)
                 o == Len(y)
      <4>1. l \in Nat /\ m \in Nat /\ o = l + m /\ cells \in Nat /\ q \in 1 .. m /\ l + q <= cells
        BY <1>3, <2>2, <2>3, <2>6, LenProperties
      <4> HIDE DEF l, m, o
      <4>2. l + q \in 1 .. cells /\ l + q \in 1 .. o
        BY <4>1
      <4> QED
        BY <4>2 DEF l, o
    <3>2. File[j] = e[j] /\ e[j] = y[j] /\ y[j] = r[q]
      BY <1>4, <2>4, <2>6, <3>1 DEF Opens
    <3> QED
      BY <3>2
  <2>8. StartOf(n + 1) = StartOf(n) + 2 + Len(c.data)
    <3> DEFINE k == Len(c.data)
               l == Len(x)
               m == Len(r)
               o == Len(y)
    <3>1. k \in Nat /\ l \in Nat /\ m = 2 + k /\ o = l + m /\ StartOf(n) = 1 + l /\ StartOf(n + 1) = 1 + o
      BY <2>2, <2>3, <2>5, <2>6
    <3> HIDE DEF k, l, m, o
    <3>2. StartOf(n + 1) = StartOf(n) + 2 + k
      BY <3>1
    <3> QED
      BY <3>2 DEF k
  <2>9. /\ StartOf(n) <= cells => File[StartOf(n)] = IF c.is_null THEN 1 ELSE 0
        /\ StartOf(n) + 1 <= cells => File[StartOf(n) + 1] = Len(c.data)
    <3>1. /\ StartOf(n) = Len(x) + 1 /\ StartOf(n) + 1 = Len(x) + 2 /\ 1 \in 1 .. Len(r) /\ 2 \in 1 .. Len(r)
          /\ StartOf(n) <= cells => Len(x) + 1 <= cells
          /\ StartOf(n) + 1 <= cells => Len(x) + 2 <= cells
      <4> DEFINE l == Len(x)
                 m == Len(r)
                 k == Len(c.data)
                 p == StartOf(n)
      <4>1. l \in Nat /\ k \in Nat /\ m = 2 + k /\ cells \in Nat /\ p = 1 + l
        BY <1>3, <2>2, <2>3, <2>5
      <4> HIDE DEF l, m, k, p
      <4>2. /\ p = l + 1 /\ p + 1 = l + 2 /\ 1 \in 1 .. m /\ 2 \in 1 .. m
            /\ p <= cells => l + 1 <= cells
            /\ p + 1 <= cells => l + 2 <= cells
        BY <4>1
      <4> QED
        BY <4>2 DEF l, m, p
    <3> QED
      BY <2>3, <2>7, <3>1
  <2>10. ASSUME NEW q \in 1 .. Len(c.data), StartOf(n) + 1 + q <= cells
         PROVE  File[StartOf(n) + 1 + q] = c.data[q]
    <3>1. StartOf(n) + 1 + q = Len(x) + (2 + q) /\ 2 + q \in 1 .. Len(r)
      BY <2>2, <2>3, <2>5
    <3> QED
      BY <2>3, <2>7, <2>10, <3>1
  <2> QED
    BY <2>1, <2>8, <2>9, <2>10 DEF c
<1> QED
  BY <1>1, <1>3, <1>4, <1>5, <1>6, <1>7

(* Before the file is read the harness stands nowhere. *)
LEMMA HarnessInitInv == HarnessInit => HarnessInv
<1> SUFFICES ASSUME HarnessInit PROVE HarnessInv
  OBVIOUS
<1>1. batch \in Seq(Case) /\ Len(batch) \in Nat
  BY HarnessAssumption DEF HarnessInit
<1> QED
  BY <1>1 DEF HarnessInit, HarnessInv, Count

(* A case is read whole or not at all, and the cell behind it is put back. *)
LEMMA HarnessStepInv == HarnessInv /\ [HarnessNext]_harnessVars => HarnessInv'
<1> SUFFICES ASSUME HarnessInv, [HarnessNext]_harnessVars PROVE HarnessInv'
  OBVIOUS
<1>0. batch \in Batches /\ cells \in 0 .. Len(Encoded(batch)) /\ count = Len(batch)
  BY DEF HarnessInv
<1>a. UNCHANGED file => File' = File /\ \A n : StartOf(n)' = StartOf(n)
  BY DEF file, File, StartOf
<1>b. /\ batch \in Seq(Case) /\ Len(batch) \in Nat /\ cells \in Nat
      /\ File \in Seq(Nat) /\ Len(File) = cells + 1
      /\ StartOf(0) = 1
  BY <1>0, CaseCells
<1>1. CASE ReadFile
  <2>1. memory' = File /\ pc' = "head" /\ turn' = turn /\ pos' = pos /\ answered' = answered
        /\ UNCHANGED file /\ results' = results /\ exit' = exit /\ pc = "start"
    BY <1>1 DEF ReadFile, File, loop
  <2>2. turn = 0 /\ pos = 1 /\ answered = <<>> /\ results = Old /\ exit = Running
    BY <2>1 DEF HarnessInv
  <2>3. answered' = [n \in 1 .. turn' |-> Right(batch'[n])]
    <3>1. <<>> = [n \in 1 .. 0 |-> Right(batch'[n])]
      OBVIOUS
    <3> QED
      BY <2>1, <2>2, <3>1
  <2>4. UNCHANGED <<batch, cells, count>>
    BY <2>1 DEF file
  <2>5. pos' = StartOf(turn)' /\ pos' <= cells' + 1 /\ turn' \in 0 .. count'
    BY <1>0, <1>a, <1>b, <2>1, <2>2, <2>4
  <2>6. memory' = File'
    BY <1>a, <2>1
  <2> HIDE DEF File, StartOf
  <2> QED
    BY <1>0, <2>1, <2>2, <2>3, <2>4, <2>5, <2>6 DEF HarnessInv
<1>2. CASE CannotStart
  BY <1>2, <1>0 DEF CannotStart, Fail, HarnessInv, file, loop
<1>3. CASE ReadCase
  <2> DEFINE p == StartOf(turn)
             c == batch[turn + 1]
  <2>1. /\ pc = "head" /\ turn < count /\ Whole(pos) /\ flags' = memory[pos]
        /\ payload' = pos + HEADER /\ pos' = payload' + memory[pos + 1]
        /\ saved' = memory[pos'] /\ memory' = [memory EXCEPT ![pos'] = NUL]
        /\ pc' = "compute" /\ turn' = turn /\ answered' = answered
        /\ UNCHANGED file /\ results' = results /\ exit' = exit
    BY <1>3 DEF ReadCase
  <2>2. /\ pos = StartOf(turn) /\ memory = File /\ answered = [n \in 1 .. turn |-> Right(batch[n])]
        /\ turn \in 0 .. count /\ results = Old /\ exit = Running
    BY <2>1 DEF HarnessInv
  <2>3. turn \in 0 .. Len(batch) - 1 /\ turn \in Nat
    BY <1>0, <1>b, <2>1, <2>2
  <2>4. /\ p \in Nat /\ p >= 1 /\ c \in Case
        /\ StartOf(turn + 1) = p + 2 + Len(c.data)
        /\ p <= cells => File[p] = IF c.is_null THEN 1 ELSE 0
        /\ p + 1 <= cells => File[p + 1] = Len(c.data)
    BY <1>0, <2>3, CaseCells
  <2>5. p + 1 <= cells /\ p + 2 + File[p + 1] <= cells + 1
    <3>1. p + 2 <= cells + 1 /\ p + 2 + File[p + 1] <= cells + 1
      BY <2>1, <2>2 DEF Whole, HEADER
    <3> HIDE DEF p
    <3> QED
      BY <1>b, <2>4, <3>1
  <2>6. Len(c.data) \in Nat
    BY <2>4, RecordTyped
  <2>7. pos' = StartOf(turn + 1) /\ payload' = p + HEADER /\ flags' = IF c.is_null THEN 1 ELSE 0
    <3> HIDE DEF p, c
    <3>1. p <= cells /\ pos = p /\ memory = File
      BY <1>b, <2>2, <2>4, <2>5 DEF p
    <3>2. flags' = IF c.is_null THEN 1 ELSE 0
      BY <2>1, <2>4, <3>1
    <3> QED
      BY <2>1, <2>4, <2>5, <2>6, <3>1, <3>2 DEF HEADER
  <2>8. pos' <= cells + 1
    <3> HIDE DEF p, c
    <3> QED
      BY <2>4, <2>5, <2>7
  <2>9. UNCHANGED <<batch, cells, count>> /\ File' = File /\ StartOf(turn + 1)' = StartOf(turn + 1)
        /\ StartOf(turn)' = StartOf(turn)
    BY <1>a, <2>1 DEF file, StartOf
  <2>10. saved' = File[pos'] /\ memory' = [File EXCEPT ![pos'] = NUL]
    BY <2>1, <2>2
  <2>11. /\ pos' = StartOf(turn + 1)' /\ saved' = File'[pos'] /\ memory' = [File' EXCEPT ![pos'] = NUL]
         /\ payload' = StartOf(turn)' + HEADER
         /\ answered' = [n \in 1 .. turn' |-> Right(batch'[n])]
    BY <2>1, <2>2, <2>7, <2>9, <2>10
  <2> HIDE DEF File, StartOf, p, c
  <2> QED
    BY <1>0, <2>1, <2>2, <2>7, <2>8, <2>9, <2>11 DEF HarnessInv, c, p
<1>4. CASE Truncated
  BY <1>4, <1>0 DEF Truncated, Fail, HarnessInv, file, loop
<1>5. CASE ComputeCase
  <2> DEFINE c == batch[turn + 1]
             d == c.data
  <2>1. /\ pc = "compute" /\ memory' = [memory EXCEPT ![pos] = saved] /\ turn' = turn + 1
        /\ answered' = Append(answered, Answer(flags = 1, SubSeq(memory, payload, pos - 1),
                                               StringAt(memory, payload)))
        /\ pc' = "head" /\ UNCHANGED file /\ pos' = pos /\ results' = results /\ exit' = exit
    BY <1>5 DEF ComputeCase
  <2>2. /\ pos = StartOf(turn + 1) /\ pos <= cells + 1 /\ memory = [File EXCEPT ![pos] = NUL]
        /\ answered = [n \in 1 .. turn |-> Right(batch[n])] /\ turn \in 0 .. count
        /\ turn < count /\ saved = File[pos] /\ payload = StartOf(turn) + HEADER
        /\ flags = (IF c.is_null THEN 1 ELSE 0) /\ results = Old /\ exit = Running
    BY <2>1 DEF HarnessInv
  <2>3. turn \in 0 .. Len(batch) - 1 /\ turn \in Nat /\ turn + 1 \in 0 .. Len(batch)
    BY <1>0, <1>b, <2>2
  <2>4. /\ StartOf(turn) \in Nat /\ StartOf(turn) >= 1 /\ c \in Case
        /\ StartOf(turn + 1) = StartOf(turn) + 2 + Len(d)
        /\ \A q \in 1 .. Len(d) :
             StartOf(turn) + 1 + q <= cells => File[StartOf(turn) + 1 + q] = d[q]
    <3>1. StartOf(turn) \in Nat /\ StartOf(turn) >= 1
      BY <1>0, <2>3, CaseCells
    <3> QED
      BY <1>0, <2>3, <3>1, CaseCells
  <2>5. d \in Seq(Nat) /\ Len(d) \in Nat /\ d \in Seq(0 .. 255) /\ c.is_null \in BOOLEAN
    BY <2>4, RecordTyped
  <2>6. payload \in Nat /\ payload >= 1 /\ pos = payload + Len(d) /\ pos \in 1 .. cells + 1
    <3> DEFINE l == Len(d)
               p == StartOf(turn)
    <3>1. p \in Nat /\ p >= 1 /\ pos = p + 2 + l /\ l \in Nat /\ payload = p + 2 /\ pos <= cells + 1
          /\ cells \in Nat
      BY <1>b, <2>2, <2>4, <2>5 DEF HEADER
    <3> HIDE DEF l, p
    <3>2. payload \in Nat /\ payload >= 1 /\ pos = payload + l /\ pos \in 1 .. cells + 1
      BY <3>1
    <3> QED
      BY <3>2 DEF l
  <2>7. /\ memory \in Seq(Nat) /\ Len(memory) = cells + 1 /\ memory[pos] = NUL
        /\ \A q \in 1 .. cells + 1 : q # pos => memory[q] = File[q]
    <3> DEFINE f == File
    <3>1. f \in Seq(Nat) /\ Len(f) = cells + 1 /\ memory = [f EXCEPT ![pos] = NUL] /\ NUL \in Nat
      BY <1>b, <2>2 DEF NUL
    <3> HIDE DEF f
    <3>2. /\ memory \in Seq(Nat) /\ Len(memory) = cells + 1 /\ memory[pos] = NUL
          /\ \A q \in 1 .. cells + 1 : q # pos => memory[q] = f[q]
      BY <2>6, <3>1
    <3> QED
      BY <3>2 DEF f
  <2>8. \A q \in 1 .. Len(d) : memory[payload + q - 1] = d[q]
    <3> SUFFICES ASSUME NEW q \in 1 .. Len(d) PROVE memory[payload + q - 1] = d[q]
      OBVIOUS
    <3> DEFINE l == Len(d)
               p == StartOf(turn)
               j == p + 1 + q
    <3>1. p \in Nat /\ p >= 1 /\ l \in Nat /\ payload = p + 2 /\ q \in 1 .. l /\ pos = payload + l
          /\ cells \in Nat /\ pos <= cells + 1
      BY <1>b, <2>2, <2>4, <2>5, <2>6 DEF HEADER
    <3> HIDE DEF l, p
    <3>2. j = payload + q - 1 /\ j <= cells /\ j \in 1 .. cells + 1 /\ j # pos
      BY <3>1
    <3>3. File[j] = d[q]
      BY <2>4, <3>2 DEF p
    <3> QED
      BY <2>7, <3>2, <3>3
  <2>9. SubSeq(memory, payload, pos - 1) = d
    <3> DEFINE l == Len(d)
               n == Len(memory)
    <3>1. l \in Nat /\ n = cells + 1 /\ cells \in Nat /\ payload \in Nat /\ payload >= 1
          /\ pos = payload + l /\ pos <= n
      BY <1>b, <2>5, <2>6, <2>7
    <3>2. \A q \in 1 .. l : memory[payload + q - 1] = d[q]
      BY <2>8
    <3> HIDE DEF c, d
    <3>3. memory \in Seq(Nat) /\ d \in Seq(Nat)
      BY <2>5, <2>7
    <3>4. \A q \in 1 .. l : SubSeq(memory, payload, pos - 1)[q] = memory[payload + q - 1]
      BY <3>1, <3>3
    <3>5. SubSeq(memory, payload, pos - 1) \in Seq(Nat) /\ Len(SubSeq(memory, payload, pos - 1)) = l
      BY <3>1, <3>3
    <3> QED
      BY <3>2, <3>3, <3>4, <3>5, SeqEqual
  <2>10. StringAt(memory, payload) = StringAt(d \o <<NUL>>, 1)
    <3> HIDE DEF c, d
    <3>1. payload \in 1 .. Len(memory) /\ payload + Len(d) <= Len(memory)
      BY <1>b, <2>5, <2>6, <2>7
    <3>2. memory[payload + Len(d)] = NUL
      BY <2>6, <2>7
    <3> QED
      BY <2>5, <2>7, <2>8, <3>1, <3>2, StringIs
  <2>11. Answer(flags = 1, SubSeq(memory, payload, pos - 1), StringAt(memory, payload)) = Right(c)
    <3>1. (flags = 1) = c.is_null
      BY <2>2, <2>5
    <3> QED
      BY <2>9, <2>10, <3>1 DEF Right
  <2>12. answered' = [n \in 1 .. turn + 1 |-> Right(batch[n])]
    <3> DEFINE F(n) == Right(batch[n])
    <3>1. answered' = Append([n \in 1 .. turn |-> F(n)], F(turn + 1))
      BY <2>1, <2>2, <2>11
    <3> HIDE DEF F
    <3>2. Append([n \in 1 .. turn |-> F(n)], F(turn + 1)) = [n \in 1 .. turn + 1 |-> F(n)]
      BY <2>3
    <3> QED
      BY <3>1, <3>2 DEF F
  <2>13. memory' = File
    <3> DEFINE f == File
    <3>1. f \in Seq(Nat) /\ memory = [f EXCEPT ![pos] = NUL] /\ memory' = [memory EXCEPT ![pos] = f[pos]]
      BY <1>b, <2>1, <2>2
    <3> HIDE DEF f
    <3>2. memory' = f
      BY <3>1
    <3> QED
      BY <3>2 DEF f
  <2>14. UNCHANGED <<batch, cells, count>> /\ File' = File
    BY <1>a, <2>1 DEF file
  <2> HIDE DEF File, StartOf, c, d
  <2>15. /\ pos' = StartOf(turn + 1) /\ memory' = File' /\ pos' <= cells' + 1 /\ turn' \in 0 .. count'
         /\ answered' = [n \in 1 .. turn' |-> Right(batch'[n])]
    BY <1>0, <1>b, <2>1, <2>2, <2>3, <2>12, <2>13, <2>14
  <2>16. pos' = StartOf(turn)'
    BY <2>1, <2>2, <2>14 DEF StartOf
  <2> QED
    BY <1>0, <2>1, <2>2, <2>14, <2>15, <2>16 DEF HarnessInv
<1>6. CASE AllAnswered
  BY <1>6, <1>0, <1>a DEF AllAnswered, HarnessInv, file, loop
<1>7. CASE OpenResults
  BY <1>7, <1>0, <1>a DEF OpenResults, Fail, HarnessInv, file, loop
<1>8. CASE WriteResults
  BY <1>8, <1>0, <1>a DEF WriteResults, Fail, HarnessInv, file, loop
<1>9. CASE UNCHANGED harnessVars
  BY <1>9, <1>0, <1>a DEF harnessVars, HarnessInv, file
<1> QED
  BY <1>1, <1>2, <1>3, <1>4, <1>5, <1>6, <1>7, <1>8, <1>9 DEF HarnessNext

(* The oracle as the fuzzer takes it to be (HarnessRefuses, OpenResults   *)
(* and WriteResults of FuzzDriver) is what the C program does: a run      *)
(* leaves the results file alone or writes the right answers to the whole *)
(* batch, and only that write can be cut short; whatever the batch,       *)
(* wherever its file ends, and although each payload is terminated in the *)
(* next record's header.                                                  *)
THEOREM HarnessImplementsRun == HarnessSpec => IsOneRun
<1>1. HarnessInit => Run!Init
  BY DEF HarnessInit, Run!Init, Old, Running, Run!Old, Run!Running
<1>2. HarnessInv /\ [HarnessNext]_harnessVars => [Run!Next]_Run!vars
  <2> SUFFICES ASSUME HarnessInv, [HarnessNext]_harnessVars PROVE [Run!Next]_Run!vars
    OBVIOUS
  <2> DEFINE wholly  == cells = Len(Encoded(batch))
             answers == [n \in DOMAIN batch |-> Right(batch[n])]
  <2>1. UNCHANGED file => wholly' = wholly /\ answers' = answers
    BY DEF file
  <2>2. ASSUME UNCHANGED <<file, results, exit>> PROVE UNCHANGED Run!vars
    BY <2>1, <2>2 DEF Run!vars
  <2>3. /\ pc # "exit" => exit = Running
        /\ pc \notin {"close", "exit"} => results = Old
    BY DEF HarnessInv
  <2>4. Old = Run!Old /\ Running = Run!Running /\ [of |-> answered, whole |-> FALSE] # Run!Old
    BY DEF Old, Run!Old, Running, Run!Running
  <2>5. CASE ReadFile \/ ReadCase \/ ComputeCase \/ AllAnswered \/ UNCHANGED harnessVars
    BY <2>2, <2>5 DEF ReadFile, ReadCase, ComputeCase, AllAnswered, harnessVars, file
  <2>6. CASE CannotStart \/ Truncated
    <3>1. exit = Running /\ results = Old /\ exit' \in 2 .. 7 /\ UNCHANGED <<file, results>>
      BY <2>3, <2>6 DEF CannotStart, Truncated, Fail
    <3> QED
      BY <2>1, <2>4, <3>1 DEF Run!Next, Run!Refuse
  <2>7. CASE OpenResults
    <3>1. exit = Running /\ results = Old /\ UNCHANGED file
      BY <2>3, <2>7 DEF OpenResults
    <3>2. CASE results' = [of |-> answered, whole |-> FALSE] /\ UNCHANGED exit
      <4>1. /\ batch \in Batches /\ cells \in 0 .. Len(Encoded(batch))
            /\ pos = StartOf(Len(batch)) /\ pos <= cells + 1
            /\ answered = [n \in 1 .. Len(batch) |-> Right(batch[n])]
        BY <2>7 DEF OpenResults, HarnessInv
      <4>2. pos = 1 + Len(Encoded(batch)) /\ batch \in Seq(Case) /\ cells \in Nat
           BY <4>1, CaseCells
      <4>3. wholly
        <5> DEFINE l == Len(Encoded(batch))
        <5>1. cells \in 0 .. l /\ pos = 1 + l /\ pos <= cells + 1 /\ l \in Nat
          BY <4>1, <4>2, EncodedTyped
        <5> HIDE DEF l
        <5>2. cells = l
          BY <4>2, <5>1
        <5> QED
          BY <5>2 DEF l
      <4>4. answered = answers
        BY <4>1, <4>2
      <4> QED
        BY <2>1, <2>4, <3>1, <3>2, <4>3, <4>4 DEF Run!Next, Run!Open
    <3>3. CASE Fail({7}) /\ UNCHANGED results
      BY <2>1, <2>4, <3>1, <3>3 DEF Fail, Run!Next, Run!Refuse
    <3> QED
      BY <2>7, <3>2, <3>3 DEF OpenResults
  <2>8. CASE WriteResults
    <3>1. exit = Running /\ results # Old /\ UNCHANGED file
      BY <2>3, <2>4, <2>8 DEF WriteResults, HarnessInv
    <3> QED
      BY <2>1, <2>4, <2>8, <3>1 DEF WriteResults, Fail, Run!Next, Run!Close
  <2> QED
    BY <2>5, <2>6, <2>7, <2>8 DEF HarnessNext
<1> QED
  BY <1>1, <1>2, HarnessInitInv, HarnessStepInv, PTL DEF HarnessSpec, IsOneRun, Run!Spec

(* While a case is computed, the cell that is put aside is a byte: the    *)
(* flags of the next record, or the spare cell behind the last one.       *)
ComputingTyped ==
  pc = "compute" => /\ pos \in 1 .. cells + 1 /\ payload \in 1 .. cells + 1
                    /\ flags \in {0, 1} /\ saved \in 0 .. 255

LEMMA ComputesTyped == HarnessInv => ComputingTyped
<1> SUFFICES ASSUME HarnessInv, pc = "compute"
             PROVE  /\ pos \in 1 .. cells + 1 /\ payload \in 1 .. cells + 1
                    /\ flags \in {0, 1} /\ saved \in 0 .. 255
  BY DEF ComputingTyped
<1>1. /\ batch \in Batches /\ cells \in 0 .. Len(Encoded(batch)) /\ count = Len(batch)
      /\ turn \in 0 .. count /\ turn < count
      /\ pos = StartOf(turn + 1) /\ pos <= cells + 1 /\ saved = File[pos]
      /\ payload = StartOf(turn) + HEADER
      /\ flags = IF batch[turn + 1].is_null THEN 1 ELSE 0
  BY DEF HarnessInv
<1>2. /\ Len(batch) \in Nat /\ cells \in Nat
      /\ File[cells + 1] = NUL /\ StartOf(Len(batch)) = 1 + Len(Encoded(batch))
  BY <1>1, CaseCells
<1>3. turn \in 0 .. Len(batch) - 1 /\ turn + 1 \in 0 .. Len(batch)
  BY <1>1, <1>2
<1>4. /\ StartOf(turn) \in Nat /\ StartOf(turn) >= 1
      /\ StartOf(turn + 1) \in Nat /\ StartOf(turn + 1) >= 1
  BY <1>1, <1>3, CaseCells
<1>5. batch[turn + 1] \in Case /\ StartOf(turn + 1) = StartOf(turn) + 2 + Len(batch[turn + 1].data)
  BY <1>1, <1>3, CaseCells
<1>6. Len(batch[turn + 1].data) \in Nat
  BY <1>5, RecordTyped
<1>7. pos \in 1 .. cells + 1
  BY <1>1, <1>2, <1>4
<1>8. payload \in 1 .. cells + 1
  <2> DEFINE p == StartOf(turn)
             q == StartOf(turn + 1)
             l == Len(batch[turn + 1].data)
  <2>1. p \in Nat /\ p >= 1 /\ l \in Nat /\ q = p + 2 + l /\ q <= cells + 1 /\ cells \in Nat
        /\ payload = p + 2
    BY <1>1, <1>2, <1>4, <1>5, <1>6 DEF HEADER
  <2> HIDE DEF p, q, l
  <2> QED
    BY <2>1
<1>9. saved \in 0 .. 255
  <2>1. CASE pos = cells + 1
    BY <1>1, <1>2, <2>1 DEF NUL
  <2>2. CASE pos # cells + 1
    <3>1. pos <= cells
      BY <1>2, <1>7, <2>2
    <3>2. turn + 1 # Len(batch)
      <4> DEFINE l == Len(Encoded(batch))
      <4>1. l \in Nat /\ cells <= l /\ StartOf(Len(batch)) = 1 + l
        BY <1>1, <1>2, HarnessAssumption, EncodedTyped
      <4> HIDE DEF l
      <4> QED
        BY <1>1, <1>2, <3>1, <4>1
    <3>3. turn + 1 \in 0 .. Len(batch) - 1
      BY <1>2, <1>3, <3>2
    <3>4. StartOf(turn + 1) <= cells =>
            File[StartOf(turn + 1)] = IF batch[turn + 1 + 1].is_null THEN 1 ELSE 0
      BY <1>1, <3>3, CaseCells
    <3> QED
      BY <1>1, <3>1, <3>4
  <2> QED
    BY <2>1, <2>2
<1> QED
  BY <1>1, <1>7, <1>8, <1>9

(* What the harness points at stays in its buffer, and what it puts aside *)
(* stays a byte.  Only ReadCase moves them, and then a case is computed.  *)
THEOREM HarnessTyped == HarnessSpec => []HarnessTypeOK
<1>1. HarnessInit => HarnessTypeOK
  <2> SUFFICES ASSUME HarnessInit PROVE HarnessTypeOK
    OBVIOUS
  <2>1. batch \in Batches /\ cells \in 0 .. Len(Encoded(batch)) /\ count = Len(batch)
    BY DEF HarnessInit, Count
  <2>2. Len(batch) \in Nat /\ cells \in Nat
    BY <2>1, CaseCells
  <2> QED
    BY <2>1, <2>2 DEF HarnessInit, HarnessTypeOK, NUL, Running
<1>2. HarnessInv => ComputingTyped
  BY ComputesTyped
<1>3. /\ HarnessInv /\ HarnessInv' /\ ComputingTyped' /\ HarnessTypeOK
      /\ [HarnessNext]_harnessVars
      => HarnessTypeOK'
  <2> SUFFICES ASSUME HarnessInv, HarnessInv', ComputingTyped', HarnessTypeOK,
                      [HarnessNext]_harnessVars
               PROVE  HarnessTypeOK'
    OBVIOUS
  <2>1. /\ (batch \in Batches)' /\ (cells \in 0 .. Len(Encoded(batch)))' /\ (turn \in 0 .. count)'
        /\ pc' \in {"start", "head", "compute", "write", "close", "exit"}
    BY DEF HarnessInv
  <2>2. UNCHANGED file
    BY DEF HarnessNext, ReadFile, CannotStart, ReadCase, Truncated, ComputeCase, AllAnswered,
           OpenResults, WriteResults, harnessVars, file
  <2>3. exit' \in {Running, 0} \cup 2 .. 7
    BY DEF HarnessTypeOK, HarnessNext, ReadFile, CannotStart, ReadCase, Truncated, ComputeCase,
           AllAnswered, OpenResults, WriteResults, harnessVars, Fail
  <2>4. /\ pos' \in 1 .. cells' + 1 /\ payload' \in 1 .. cells' + 1
        /\ flags' \in {0, 1} /\ saved' \in 0 .. 255
    <3>1. CASE ReadCase
      BY <3>1 DEF ReadCase, ComputingTyped
    <3>2. CASE UNCHANGED <<pos, payload, flags, saved>>
      BY <2>2, <3>2 DEF HarnessTypeOK, file
    <3> QED
      BY <3>1, <3>2 DEF HarnessNext, ReadFile, CannotStart, Truncated, ComputeCase, AllAnswered,
           OpenResults, WriteResults, harnessVars, loop
  <2> QED
    BY <2>1, <2>3, <2>4 DEF HarnessTypeOK
<1> QED
  BY <1>1, <1>2, <1>3, HarnessInitInv, HarnessStepInv, PTL DEF HarnessSpec

-----------------------------------------------------------------------------
(* The writer.  What a case is depends on its index alone (MadeOf), and a *)
(* finished batch frames the cases of its indices one behind the other.   *)
Octet == 0 .. 255

(* below(bound) is below its bound, whatever is drawn. *)
LEMMA BelowTyped ==
  ASSUME NEW p, NEW k, NEW bound \in Nat \ {0}
  PROVE  /\ Below(p, k, bound) \in Nat /\ Below(p, k, bound) < bound
         /\ 1 + Below(p, k, bound) \in 1 .. bound
<1> DEFINE d == Draw(p, k)
           x == d * bound
           q == x \div WORD
<1>1. WORD \in Nat /\ WORD > 0 /\ d \in 0 .. WORD - 1
  BY CaseGenAssumption DEF Draw
<1> HIDE DEF d
<1>2. x \in Nat /\ x < WORD * bound
  <2>1. d \in Nat /\ d + 1 <= WORD
    BY <1>1
  <2>2. (d + 1) * bound <= WORD * bound
    BY <1>1, <2>1
  <2>3. (d + 1) * bound = d * bound + bound /\ d * bound \in Nat
    BY <2>1
  <2> QED
    BY <1>1, <2>2, <2>3
<1> HIDE DEF x
<1>3. q \in Nat /\ WORD * q <= x
  BY <1>1, <1>2
<1> HIDE DEF q
<1>4. q < bound
  <2> SUFFICES ASSUME q >= bound PROVE FALSE
    BY <1>3
  <2>1. WORD * q >= WORD * bound
    BY <1>1, <1>3
  <2>2. WORD * q \in Nat /\ WORD * bound \in Nat
    BY <1>1, <1>3
  <2> QED
    BY <1>2, <1>3, <2>1, <2>2
<1>5. q \in Nat /\ q < bound /\ 1 + q \in 1 .. bound
  BY <1>3, <1>4
<1> QED
  BY <1>5 DEF Below, q, x, d

(* Bytes drawn, filled in or put in a row are bytes. *)
LEMMA BytesDrawn ==
  ASSUME NEW p, NEW k
  PROVE  /\ NextU8(p, k) \in Octet
         /\ \A len \in Nat : Filled(p, k, len) \in Seq(Octet)
         /\ \A len \in Nat, b \in Octet : Constantly(b, len) \in Seq(Octet)
<1>1. \A j : NextU8(p, j) \in Octet
  <2>1. 256 \in Nat \ {0}
    OBVIOUS
  <2>2. \A j : Below(p, j, 256) \in Nat /\ Below(p, j, 256) < 256
    BY <2>1, BelowTyped
  <2> QED
    BY <2>2 DEF NextU8, Octet
<1> QED
  BY <1>1 DEF Filled, Constantly

-----------------------------------------------------------------------------
(* Each class has a share, and the last share takes every draw. *)
LEMMA PickedTyped == ASSUME NEW p PROVE PickClass(p) \in Classes
<1> DEFINE Taken(share) == Below(p, 1, 10000) < share[1]
           I == {j \in 1 .. Len(Shares) : Taken(Shares[j])}
<1>1. Len(Shares) = 13 /\ Shares[13][1] = 10000 /\ DOMAIN Shares = 1 .. 13
  BY DEF Shares
<1>2. Below(p, 1, 10000) < 10000
  <2>1. 10000 \in Nat \ {0}
    OBVIOUS
  <2> QED
    BY <2>1, BelowTyped
<1>3. 13 \in I
  <2>1. 13 \in 1 .. Len(Shares)
    BY <1>1
  <2>2. Taken(Shares[13])
    BY <1>1, <1>2
  <2> QED
    BY <2>1, <2>2
<1>4. PICK j \in I : \A x \in I : j <= x
  <2>1. I \subseteq Nat
    BY <1>1
  <2> HIDE DEF I
  <2> QED
    BY <1>3, <2>1, Batched!LeastOf
<1>5. Min(I) \in I
  <2> HIDE DEF I
  <2> QED
    BY <1>4 DEF Min
<1>6. SelectInSeq(Shares, Taken) = Min(I)
  BY <1>3 DEF SelectInSeq
<1>7. SelectInSeq(Shares, Taken) \in DOMAIN Shares
  BY <1>1, <1>5, <1>6
<1>8. PickClass(p) = Shares[SelectInSeq(Shares, Taken)][2]
  BY DEF PickClass
<1> HIDE DEF Taken
<1> QED
  BY <1>7, <1>8 DEF Classes

-----------------------------------------------------------------------------
Pokes == INSTANCE FoldLemmas WITH Op <- Poke

(* A byte overwritten anywhere is a byte. *)
LEMMA Overwritten ==
  ASSUME NEW d \in Seq(Octet), NEW b \in Octet, NEW x
  PROVE  [d EXCEPT ![x] = b] \in Seq(Octet) /\ (d # <<>> => [d EXCEPT ![x] = b] # <<>>)
<1> DEFINE e == [d EXCEPT ![x] = b]
           l == Len(d)
<1>1. l \in Nat /\ d \in [1 .. l -> Octet] /\ (d # <<>> => l # 0)
  BY EmptySeq, LenProperties
<1>2. e \in [1 .. l -> Octet]
  <2> HIDE DEF l
  <2> QED
    BY <1>1
<1> HIDE DEF e, l
<1>3. e \in Seq(Octet) /\ Len(e) = l
  BY <1>1, <1>2, LenProperties, SeqDef
<1>4. Len(<<>>) = 0
  OBVIOUS
<1> QED
  BY <1>1, <1>3, <1>4 DEF e

(* Overwriting bytes leaves bytes. *)
LEMMA PokedTyped ==
  ASSUME NEW d \in Seq(Octet), NEW p, NEW k, NEW times \in Nat
  PROVE  Poked(d, p, k, times) \in Seq(Octet)
<1> DEFINE A == Seq(Octet) \ {<<>>}
           from == [i |-> p, k |-> k]
           draw == [j \in 1 .. times |-> j - 1]
<1>1. ASSUME NEW e \in A, NEW j \in Nat PROVE Poke(from, e, j) \in A
  <2>1. NextU8(from.i, from.k + 2 * j + 1) \in Octet
    BY BytesDrawn
  <2>2. e \in Seq(Octet) /\ e # <<>>
    OBVIOUS
  <2> HIDE DEF A, from
  <2>3. Poke(from, e, j) \in Seq(Octet) /\ Poke(from, e, j) # <<>>
    BY <2>1, <2>2, Overwritten DEF Poke, from
  <2> QED
    BY <2>3 DEF A
<1>2. draw \in Seq(Nat)
  OBVIOUS
<1>3. d # <<>> => Poked(d, p, k, times) = Pokes!Fold(from, d, draw)
  BY DEF Poked, Pokes!Fold, Pokes!FoldLeft, Pokes!MapThenFoldSet, Pokes!Max,
         FoldLeft, MapThenFoldSet, Max
<1>4. ASSUME d # <<>> PROVE Pokes!Fold(from, d, draw) \in A
  <2> HIDE DEF A, from, draw
  <2>1. d \in A
    BY <1>4 DEF A
  <2> QED
    BY <1>1, <1>2, <2>1, Pokes!FoldType
<1> QED
  BY <1>3, <1>4 DEF Poked

-----------------------------------------------------------------------------
(* A sentence so far: its bytes, and the next draw. *)
Sentence == [out : Seq(Octet), k : Nat]

Charred(p, s, n) == NmeaChar(s, p)
Fielded(p, s, n) == NmeaField(s, p)
Chars  == INSTANCE FoldLemmas WITH Op <- Charred
Fields == INSTANCE FoldLemmas WITH Op <- Fielded

(* The lengths and choices of a sentence, whatever is drawn. *)
LEMMA NmeaDraws ==
  ASSUME NEW p, NEW k
  PROVE  /\ Below(p, k, 10) \in 0 .. 9 /\ Below(p, k, 26) \in 0 .. 25
         /\ 1 + Below(p, k, 4) \in 1 .. 4
         /\ Below(p, k, Limit["NmeaSentence"]) \in Nat
<1>1. 4 \in Nat \ {0} /\ 10 \in Nat \ {0} /\ 26 \in Nat \ {0}
  OBVIOUS
<1>2. Limit["NmeaSentence"] \in Nat \ {0}
  <2>1. "NmeaSentence" \in Classes
    <3>1. Shares[5][2] = "NmeaSentence" /\ 5 \in DOMAIN Shares
      BY DEF Shares
    <3> QED
      BY <3>1 DEF Classes
  <2> QED
    BY <2>1, CaseGenAssumption
<1>3. /\ Below(p, k, 10) \in Nat /\ Below(p, k, 10) < 10
      /\ Below(p, k, 26) \in Nat /\ Below(p, k, 26) < 26
  BY <1>1, BelowTyped
<1>4. 1 + Below(p, k, 4) \in 1 .. 4 /\ Below(p, k, Limit["NmeaSentence"]) \in Nat
  BY <1>1, <1>2, BelowTyped
<1> QED
  BY <1>3, <1>4

(* One character more, ... *)
LEMMA CharTyped ==
  ASSUME NEW p, NEW s \in Sentence
  PROVE  NmeaChar(s, p) \in Sentence
<1>1. s.out \in Seq(Octet) /\ s.k \in Nat
  BY DEF Sentence
<1>2. \A b \in Octet : /\ [out |-> Append(s.out, b), k |-> s.k + 1] \in Sentence
                      /\ [out |-> Append(s.out, b), k |-> s.k + 2] \in Sentence
  BY <1>1 DEF Sentence
<1>3. /\ 46 \in Octet /\ 45 \in Octet /\ 48 + Below(p, s.k + 1, 10) \in Octet
      /\ 65 + Below(p, s.k + 1, 26) \in Octet /\ 97 + Below(p, s.k + 1, 26) \in Octet
  BY NmeaDraws DEF Octet
<1> QED
  BY <1>2, <1>3 DEF NmeaChar

(* ... a comma and some of them, ... *)
LEMMA FieldTyped ==
  ASSUME NEW p, NEW s \in Sentence
  PROVE  NmeaField(s, p) \in Sentence
<1> DEFINE base == [out |-> Append(s.out, COMMA), k |-> s.k + 1]
           n == Below(p, s.k, Limit["NmeaSentence"])
           turns == [j \in 1 .. n |-> j]
<1>1. base \in Sentence
  BY DEF Sentence, COMMA, Octet
<1>2. turns \in Seq(Nat)
  BY NmeaDraws
<1>3. NmeaField(s, p) = Chars!Fold(p, base, turns)
  BY DEF NmeaField, Charred, Chars!Fold, Chars!FoldLeft, Chars!MapThenFoldSet, Chars!Max,
         FoldLeft, MapThenFoldSet, Max
<1>4. \A t \in Sentence, j \in Nat : Charred(p, t, j) \in Sentence
  BY CharTyped DEF Charred
<1> HIDE DEF base, turns
<1> QED
  BY <1>1, <1>2, <1>3, <1>4, Chars!FoldType

(* ... a delimiter in the middle, ... *)
LEMMA InjectedTyped ==
  ASSUME NEW p, NEW s \in Sentence
  PROVE  NmeaInjected(s, p) \in Sentence
<1>1. s.out \in Seq(Octet) /\ s.k \in Nat
  BY DEF Sentence
<1>2. <<0, CR, LF, ASTERISK>>[1 + Below(p, s.k + 2, 4)] \in Octet
  BY NmeaDraws DEF CR, LF, ASTERISK, Octet
<1>3. \A b \in Octet : \A x : [s.out EXCEPT ![x] = b] \in Seq(Octet)
  BY <1>1, Overwritten
<1>4. [s EXCEPT !.k = @ + 1] \in Sentence
  BY <1>1 DEF Sentence
<1>5. \A o \in Seq(Octet) : [out |-> o, k |-> s.k + 3] \in Sentence
  BY <1>1 DEF Sentence
<1> QED
  BY <1>2, <1>3, <1>4, <1>5 DEF NmeaInjected

(* ... and a checksum in hexadecimal. *)
LEMMA SummedTyped ==
  ASSUME NEW p, NEW s \in Sentence
  PROVE  NmeaSummed(s, p) \in Sentence
<1>1. s.out \in Seq(Octet) /\ s.k \in Nat
  BY DEF Sentence
<1>2. \A b \in Octet : HexDigit(b \div 16) \in Octet /\ HexDigit(b % 16) \in Octet
  BY DEF HexDigit, Octet
<1>3. \A b, c \in Octet : s.out \o <<ASTERISK, b, c>> \in Seq(Octet)
  BY <1>1 DEF ASTERISK, Octet
<1>4. [s EXCEPT !.k = @ + 1] \in Sentence
  BY <1>1 DEF Sentence
<1>5. \A o \in Seq(Octet) : [out |-> o, k |-> s.k + 2] \in Sentence
  BY <1>1 DEF Sentence
<1> QED
  BY <1>2, <1>3, <1>4, <1>5, BytesDrawn DEF NmeaSummed

(* A sentence is bytes. *)
LEMMA NmeaTyped == ASSUME NEW p PROVE Nmea(p) \in Seq(Octet)
<1> DEFINE head   == IF Below(p, 2, 4) # 0 THEN <<DOLLAR_SIGN>> ELSE <<>>
           talker == [n \in 1 .. 5 |-> 65 + Below(p, 2 + n, 26)]
           base   == [out |-> head \o talker, k |-> 9]
           many   == Below(p, 8, Limit["NmeaSentence"])
           turns == [n \in 1 .. many |-> n]
           body   == Fields!Fold(p, base, turns)
           summed == NmeaSummed(NmeaInjected(body, p), p)
           ending == <<<<CR, LF>>, <<CR>>, <<LF>>, <<>>>>[1 + Below(p, summed.k, 4)]
<1>1. Nmea(p) = summed.out \o ending
  BY DEF Nmea, Fielded, Fields!Fold, Fields!FoldLeft, Fields!MapThenFoldSet, Fields!Max,
         FoldLeft, MapThenFoldSet, Max
<1>2. base \in Sentence
  <2>1. head \in Seq(Octet)
    <3>1. DOLLAR_SIGN \in Octet
      BY DEF DOLLAR_SIGN, Octet
    <3>2. <<DOLLAR_SIGN>> \in Seq(Octet) /\ <<>> \in Seq(Octet)
      BY <3>1
    <3> QED
      BY <3>2
  <2>2. talker \in Seq(Octet)
    <3>1. \A k : 65 + Below(p, k, 26) \in Octet
      BY NmeaDraws DEF Octet
    <3>2. talker \in [1 .. 5 -> Octet]
      BY <3>1
    <3> QED
      BY <3>2, SeqDef
  <2> HIDE DEF head, talker
  <2> QED
    BY <2>1, <2>2 DEF Sentence
<1>3. turns \in Seq(Nat)
  BY NmeaDraws
<1>4. \A t \in Sentence, j \in Nat : Fielded(p, t, j) \in Sentence
  BY FieldTyped DEF Fielded
<1>5. body \in Sentence
  <2> HIDE DEF base, turns
  <2> QED
    BY <1>2, <1>3, <1>4, Fields!FoldType
<1> HIDE DEF body
<1>6. summed \in Sentence
  BY <1>5, InjectedTyped, SummedTyped
<1> HIDE DEF summed
<1>7. ending \in Seq(Octet)
  <2>1. CR \in Octet /\ LF \in Octet
    BY DEF CR, LF, Octet
  <2> DEFINE endings == <<<<CR, LF>>, <<CR>>, <<LF>>, <<>>>>
             x == 1 + Below(p, summed.k, 4)
  <2>2. \A z \in 1 .. 4 : endings[z] \in Seq(Octet)
    <3>1. /\ <<CR, LF>> \in Seq(Octet) /\ <<CR>> \in Seq(Octet)
          /\ <<LF>> \in Seq(Octet) /\ <<>> \in Seq(Octet)
      BY <2>1
    <3>2. /\ endings[1] = <<CR, LF>> /\ endings[2] = <<CR>>
          /\ endings[3] = <<LF>> /\ endings[4] = <<>>
      OBVIOUS
    <3>3. \A z \in 1 .. 4 : z = 1 \/ z = 2 \/ z = 3 \/ z = 4
      OBVIOUS
    <3> HIDE DEF endings
    <3> QED
      BY <3>1, <3>2, <3>3
  <2>3. x \in 1 .. 4
    BY NmeaDraws
  <2> HIDE DEF endings, x
  <2>4. endings[x] \in Seq(Octet)
    BY <2>2, <2>3
  <2> QED
    BY <2>4 DEF endings, x
<1> HIDE DEF ending
<1> QED
  BY <1>1, <1>6, <1>7 DEF Sentence

-----------------------------------------------------------------------------
(* What a generator leaves in the scratch buffer is bytes, and as many of *)
(* them as the buffer has.                                                *)
LEMMA GeneratedTyped ==
  ASSUME NEW p, NEW c \in Classes
  PROVE  Generated(c, p) \in Seq(Octet)
<1> DEFINE len == Below(p, 2, Limit[c])
<1>1. Limit[c] \in Nat \ {0} /\ len \in Nat
  BY CaseGenAssumption, BelowTyped
<1> HIDE DEF len
<1>2. /\ \A k : NextU8(p, k) \in Octet
      /\ \A k : \A l \in Nat : Filled(p, k, l) \in Seq(Octet)
      /\ \A l \in Nat, b \in Octet : Constantly(b, l) \in Seq(Octet)
  BY BytesDrawn
<1>3. 0 \in Octet /\ FF \in Octet
  BY DEF Octet, FF
<1>4. CASE c = "Empty"
  BY <1>4 DEF Generated
<1>5. CASE c = "SingleByte"
  BY <1>2, <1>5 DEF Generated
<1>6. CASE c = "BoundaryLen"
  <2> DEFINE x == 1 + Below(p, 2, Len(BOUNDARY_LENS))
  <2>1. BOUNDARY_LENS \in Seq(Nat) /\ Len(BOUNDARY_LENS) \in Nat \ {0}
    BY CaseGenAssumption
  <2>2. x \in 1 .. Len(BOUNDARY_LENS)
    BY <2>1, BelowTyped
  <2> HIDE DEF x
  <2>3. BOUNDARY_LENS[x] \in Nat
    BY <2>1, <2>2
  <2>4. Generated(c, p) = Filled(p, 3, BOUNDARY_LENS[x])
    BY <1>6 DEF Generated, x
  <2> QED
    BY <1>2, <2>3, <2>4
<1>7. CASE c \in {"RandomSmall", "RandomMedium", "NullPointer"}
  <2>1. Generated(c, p) = Filled(p, 3, len)
    BY <1>7 DEF Generated, len
  <2> QED
    BY <1>1, <1>2, <2>1
<1>8. CASE c \in {"UniformByte", "ZeroHeavy"}
  <2>1. Generated(c, p) \in {Constantly(NextU8(p, 3), len), Constantly(0, len)}
    BY <1>8 DEF Generated, len
  <2> QED
    BY <1>1, <1>2, <1>3, <2>1
<1>9. CASE c \in {"FfHeavy", "Sparse"}
  <2>1. Generated(c, p) \in {Poked(Constantly(FF, len), p, 4, Below(p, 3, 5)),
                            Poked(Constantly(0, len), p, 4, Below(p, 3, 6))}
    BY <1>9 DEF Generated, len
  <2>2. 5 \in Nat \ {0} /\ 6 \in Nat \ {0}
    OBVIOUS
  <2>3. Below(p, 3, 5) \in Nat /\ Below(p, 3, 6) \in Nat
    BY <2>2, BelowTyped
  <2>4. Constantly(FF, len) \in Seq(Octet) /\ Constantly(0, len) \in Seq(Octet)
    BY <1>1, <1>2, <1>3
  <2> QED
    BY <2>1, <2>3, <2>4, PokedTyped
<1>10. CASE c = "DelimiterAscii"
  <2> DEFINE many == Len(Delimiters)
  <2>1. many \in Nat \ {0} /\ \A x \in 1 .. many : Delimiters[x] \in Octet
    <3>1. many = 9 /\ Delimiters \in Seq(Octet)
      BY DEF Delimiters, DOLLAR_SIGN, ASTERISK, CR, LF, COMMA, Octet
    <3>2. \A d \in Seq(Octet) : \A x \in 1 .. Len(d) : d[x] \in Octet
      OBVIOUS
    <3>3. 9 \in Nat \ {0}
      OBVIOUS
    <3> QED
      BY <3>1, <3>2, <3>3
  <2> HIDE DEF many
  <2>2. \A k : Delimiters[1 + Below(p, k, many)] \in Octet
    BY <2>1, BelowTyped
  <2>3. Generated(c, p) = [q \in 1 .. len |-> Delimiters[1 + Below(p, 2 + q, many)]]
    BY <1>10 DEF Generated, len, many
  <2> QED
    BY <1>1, <2>2, <2>3
<1>11. CASE c = "NmeaSentence"
  BY <1>11, NmeaTyped DEF Generated
<1>12. CASE c = "LongBuffer"
  <2> DEFINE n == Ranged(p, 2, LONG, Limit[c])
             what == Below(p, 3, 4)
  <2>1. n \in Nat
    <3> DEFINE width == Limit[c] - LONG + 1
    <3>1. LONG \in Nat /\ width \in Nat \ {0}
      BY <1>1, <1>12, CaseGenAssumption
    <3> HIDE DEF width
    <3>2. Below(p, 2, width) \in Nat
      BY <3>1, BelowTyped
    <3> QED
      BY <3>1, <3>2 DEF Ranged, width
  <2>2. Generated(c, p) = CASE what = 0 -> Constantly(0, n)
                            [] what = 1 -> Constantly(FF, n)
                            [] what = 2 -> [q \in 1 .. n |-> (q - 1) % 256]
                            [] OTHER    -> Filled(p, 4, n)
    BY <1>12 DEF Generated
  <2> HIDE DEF n, what
  <2>3. [q \in 1 .. n |-> (q - 1) % 256] \in Seq(Octet)
    BY <2>1 DEF Octet
  <2> QED
    BY <1>2, <1>3, <2>1, <2>2, <2>3
<1>13. c \in {"Empty", "SingleByte", "BoundaryLen", "RandomSmall", "RandomMedium",
             "NullPointer", "UniformByte", "ZeroHeavy", "FfHeavy", "Sparse",
             "DelimiterAscii", "NmeaSentence", "LongBuffer"}
  BY DEF Classes, Shares
<1> QED
  BY <1>4, <1>5, <1>6, <1>7, <1>8, <1>9, <1>10, <1>11, <1>12, <1>13

-----------------------------------------------------------------------------
(* The case of an index, which neither the batch nor the cases before it  *)
(* have a part in.                                                        *)
MadeOf(p) ==
  IF p < Len(Fixed)
  THEN [class |-> "Prologue", is_null |-> Fixed[p + 1].is_null, data |-> Fixed[p + 1].data]
  ELSE [class |-> PickClass(p), is_null |-> PickClass(p) = "NullPointer",
        data |-> Generated(PickClass(p), p)]

Span == [index : Nat, offset : Nat, len : Nat, is_null : BOOLEAN,
         class : Classes \cup {"Prologue"}]

(* The n-th span says where in b the case of its index lies, and the case *)
(* that follows lies behind it.                                           *)
FramedAt(b, s, n) ==
  LET d == MadeOf(s[n].index)
      a == CaseAt(b, s, n)
  IN  /\ a >= 2 /\ a + 1 + Len(d.data) <= Len(b)
      /\ s[n].class = d.class /\ s[n].is_null = d.is_null /\ s[n].len = Len(d.data)
      /\ b[a] = IF d.is_null THEN 1 ELSE 0
      /\ b[a + 1] = Len(d.data)
      /\ \A q \in 1 .. Len(d.data) : b[a + 1 + q] = d.data[q]
      /\ CaseAt(b, s, n + 1) = a + 2 + Len(d.data)

Framed(b, s) ==
  /\ b \in Seq(Nat) /\ s \in Seq(Span)
  /\ CaseAt(b, s, 1) = 2
  /\ \A n \in 1 .. Len(s) : FramedAt(b, s, n)

(* Everything written so far is framed; what stands in the scratch buffer *)
(* is the case of the index that is about to be pushed; and while a batch *)
(* is being made there is one to be made.                                 *)
WriterInv ==
  /\ todo \in Seq([start : Nat, count : Nat])
  /\ made \in Seq([blob : Seq(Nat), spans : Seq(Span)])
  /\ stage \in {"begin", "case", "push", "done"}
  /\ stage # "done" => Len(made) < Len(todo)
  /\ \A m \in 1 .. Len(made) :
       Framed(made[m].blob, made[m].spans) /\ made[m].blob[1] = Len(made[m].spans)
  /\ stage \in {"case", "push"} => Framed(blob, spans) /\ index \in Nat
  /\ stage = "push" => [class |-> class, is_null |-> is_null, data |-> scratch] = MadeOf(index)
  /\ blob \in Seq(Nat) /\ scratch \in Seq(Octet) /\ spans \in Seq(Span)
  /\ \A n \in 1 .. Len(spans) :
       spans[n].class # "Prologue" => (spans[n].is_null <=> spans[n].class = "NullPointer")

(* A case is of a class and bytes, and NULL in a class of its own. *)
LEMMA MadeTyped ==
  ASSUME NEW p \in Nat
  PROVE  /\ MadeOf(p).class \in Classes \cup {"Prologue"}
         /\ MadeOf(p).is_null \in BOOLEAN
         /\ MadeOf(p).data \in Seq(Octet) /\ MadeOf(p).data \in Seq(Nat)
         /\ Len(MadeOf(p).data) \in Nat
         /\ MadeOf(p).class # "Prologue" =>
              (MadeOf(p).is_null <=> MadeOf(p).class = "NullPointer")
<1>1. ASSUME NEW d \in Seq(Octet) PROVE d \in Seq(Nat) /\ Len(d) \in Nat
  BY <1>1, BytesAreCells DEF Octet
<1>2. CASE p < Len(Fixed)
  <2>1. Fixed[p + 1] \in [is_null : BOOLEAN, data : Seq(Octet)]
    <3> DEFINE S == [is_null : BOOLEAN, data : Seq(Octet)]
    <3>1. Fixed \in Seq(S)
      BY CaseGenAssumption DEF Octet
    <3> HIDE DEF S
    <3>2. p + 1 \in 1 .. Len(Fixed)
      BY <1>2, <3>1
    <3>3. Fixed[p + 1] \in S
      BY <3>1, <3>2
    <3> QED
      BY <3>3 DEF S
  <2> DEFINE f == Fixed[p + 1]
  <2>2. f.is_null \in BOOLEAN /\ f.data \in Seq(Octet)
    BY <2>1
  <2> HIDE DEF f
  <2>3. MadeOf(p) = [class |-> "Prologue", is_null |-> f.is_null, data |-> f.data]
    BY <1>2 DEF MadeOf, f
  <2> QED
    BY <1>1, <2>2, <2>3
<1>3. CASE ~(p < Len(Fixed))
  <2> DEFINE c == PickClass(p)
             d == Generated(c, p)
  <2>1. c \in Classes
    BY PickedTyped
  <2>2. d \in Seq(Octet)
    BY <2>1, GeneratedTyped
  <2>3. MadeOf(p) = [class |-> c, is_null |-> c = "NullPointer", data |-> d]
    BY <1>3 DEF MadeOf
  <2> HIDE DEF c, d
  <2>4. MadeOf(p).class = c /\ MadeOf(p).is_null = (c = "NullPointer") /\ MadeOf(p).data = d
    BY <2>3
  <2>5. (c = "NullPointer") \in BOOLEAN
    OBVIOUS
  <2>6. d \in Seq(Nat) /\ Len(d) \in Nat
    BY <1>1, <2>2
  <2> QED
    BY <2>1, <2>2, <2>4, <2>5, <2>6
<1> QED
  BY <1>2, <1>3

(* Three sequences of cells in a row. *)
LEMMA ThreeParts ==
  ASSUME NEW x \in Seq(Nat), NEW y \in Seq(Nat), NEW z \in Seq(Nat)
  PROVE  (x \o y) \o z = x \o (y \o z)
BY ConcatAssociative

(* A case pushed behind what is framed leaves it framed, itself included. *)
LEMMA PushFramed ==
  ASSUME NEW b, NEW s, NEW p \in Nat, Framed(b, s),
         NEW x, x = [index |-> p, offset |-> Len(b) + 2, len |-> Len(MadeOf(p).data),
                     is_null |-> MadeOf(p).is_null, class |-> MadeOf(p).class]
  PROVE  Framed(b \o <<IF MadeOf(p).is_null THEN 1 ELSE 0, Len(MadeOf(p).data)>>
                  \o MadeOf(p).data, Append(s, x))
<1> DEFINE d == MadeOf(p)
           f == IF d.is_null THEN 1 ELSE 0
           l == Len(d.data)
           r == <<f, l>> \o d.data
           v == b \o r
           t == Append(s, x)
           n == Len(s)
           e == Len(b)
<1>1. /\ d.class \in Classes \cup {"Prologue"} /\ d.is_null \in BOOLEAN
      /\ d.data \in Seq(Nat) /\ l \in Nat /\ f \in Nat
  BY MadeTyped
<1>2. b \in Seq(Nat) /\ s \in Seq(Span) /\ n \in Nat /\ e \in Nat
  BY DEF Framed
<1>3. b \o <<f, l>> \o d.data = v
  <2>1. <<f, l>> \in Seq(Nat)
    BY <1>1
  <2> DEFINE y == <<f, l>>
             z == d.data
  <2>2. y \in Seq(Nat) /\ z \in Seq(Nat)
    BY <1>1, <2>1
  <2> HIDE DEF y, z
  <2>3. (b \o y) \o z = b \o (y \o z)
    BY <1>2, <2>2, ThreeParts
  <2> QED
    BY <2>3 DEF y, z
<1>4. x \in Span
  BY <1>1, <1>2 DEF Span
<1>x. x.index = p /\ x.offset = e + 2 /\ x.len = l /\ x.is_null = d.is_null /\ x.class = d.class
  OBVIOUS
<1>5. /\ r \in Seq(Nat) /\ Len(r) = 2 + l /\ r[1] = f /\ r[2] = l
      /\ \A q \in 1 .. l : r[2 + q] = d.data[q]
  <2> HIDE DEF f, d
  <2> QED
    BY <1>1
<1> HIDE DEF d, f, l, r
<1>6. /\ v \in Seq(Nat) /\ Len(v) = e + 2 + l
      /\ \A q \in 1 .. e : v[q] = b[q]
      /\ \A q \in 1 .. 2 + l : v[e + q] = r[q]
  <2>1. \A y, z \in Seq(Nat) :
          /\ y \o z \in Seq(Nat) /\ Len(y \o z) = Len(y) + Len(z)
          /\ \A q \in 1 .. Len(y) : (y \o z)[q] = y[q]
          /\ \A q \in 1 .. Len(z) : (y \o z)[Len(y) + q] = z[q]
    OBVIOUS
  <2>2. Len(v) = e + (2 + l)
    BY <1>2, <1>5, <2>1
  <2> QED
    BY <1>1, <1>2, <1>5, <2>1, <2>2
<1>7. t \in Seq(Span) /\ Len(t) = n + 1 /\ t[n + 1] = x /\ \A q \in 1 .. n : t[q] = s[q]
  BY <1>2, <1>4
<1> HIDE DEF v, t, n, e
<1>8. \A q \in 1 .. n + 1 : CaseAt(v, t, q) = CaseAt(b, s, q)
  <2> SUFFICES ASSUME NEW q \in 1 .. n + 1 PROVE CaseAt(v, t, q) = CaseAt(b, s, q)
    OBVIOUS
  <2>1. CASE q = n + 1
    <3>1. CaseAt(v, t, q) = (e + 2) - 1 /\ CaseAt(b, s, q) = e + 1
      BY <1>2, <1>x, <1>7, <2>1 DEF CaseAt, n, e
    <3> QED
      BY <1>2, <3>1
  <2>2. CASE q \in 1 .. n
    BY <1>2, <1>7, <2>2 DEF CaseAt, n
  <2> QED
    BY <1>2, <2>1, <2>2
<1>9. CaseAt(b, s, n + 1) = e + 1 /\ CaseAt(v, t, n + 2) = e + 3 + l
  <2>1. CaseAt(b, s, n + 1) = e + 1
    BY DEF CaseAt, n, e
  <2>2. CaseAt(v, t, n + 2) = (e + 2 + l) + 1
    BY <1>2, <1>6, <1>7 DEF CaseAt
  <2> QED
    BY <1>1, <1>2, <2>1, <2>2
<1>10. CaseAt(v, t, 1) = 2
  BY <1>2, <1>8 DEF Framed
<1>11. ASSUME NEW q \in 1 .. n PROVE FramedAt(v, t, q)
  <2> DEFINE g == MadeOf(s[q].index)
             a == CaseAt(b, s, q)
             k == Len(g.data)
  <2>1. s[q] \in Span
    BY <1>2, <1>11 DEF n
  <2>2. k \in Nat
    BY <2>1, MadeTyped DEF Span
  <2>3. FramedAt(b, s, q)
    BY <1>11 DEF Framed, n
  <2>4. a \in Int
    BY <1>11, <1>2, <2>1 DEF CaseAt, Span, n
  <2>5. CaseAt(v, t, q) = a /\ CaseAt(v, t, q + 1) = CaseAt(b, s, q + 1) /\ t[q] = s[q]
    BY <1>2, <1>7, <1>8, <1>11
  <2>6. a >= 2 /\ a + 1 + k <= e
    BY <2>3 DEF FramedAt, e
  <2>7. a + 1 + k <= Len(v)
    <3> HIDE DEF g, a, k
    <3>1. Len(v) = e + 2 + l /\ l \in Nat /\ e \in Nat
      BY <1>1, <1>2, <1>6
    <3> QED
      BY <2>2, <2>4, <2>6, <3>1
  <2> HIDE DEF a
  <2>8. v[a] = b[a] /\ v[a + 1] = b[a + 1] /\ \A z \in 1 .. k : v[a + 1 + z] = b[a + 1 + z]
    <3> HIDE DEF k
    <3>1. \A z \in 0 .. k + 1 : a + z \in 1 .. e
      BY <1>2, <2>2, <2>4, <2>6
    <3>2. a + 0 \in 1 .. e /\ a + 0 = a /\ a + 1 \in 1 .. e
      BY <2>2, <2>4, <3>1
    <3>3. \A z \in 1 .. k : a + 1 + z \in 1 .. e
      BY <2>2, <2>4, <2>6, <1>2
    <3> QED
      BY <1>6, <3>2, <3>3
  <2> QED
    BY <2>3, <2>5, <2>6, <2>7, <2>8 DEF FramedAt, a
<1>12. FramedAt(v, t, n + 1)
  <2> DEFINE a == e + 1
  <2>1. CaseAt(v, t, n + 1) = a /\ CaseAt(v, t, (n + 1) + 1) = a + 2 + l
    <3>1. n + 1 \in 1 .. n + 1 /\ (n + 1) + 1 = n + 2
      BY <1>2
    <3> QED
      BY <1>1, <1>2, <1>8, <1>9, <3>1
  <2>2. a >= 2 /\ a + 1 + l <= Len(v)
    <3>1. e >= 1
      <4>1. CASE n = 0
        BY <1>2, <1>9, <4>1 DEF Framed
      <4>2. CASE n # 0
        <5>1. n \in 1 .. Len(s)
          BY <1>2, <4>2 DEF n
        <5>2. FramedAt(b, s, n)
          BY <5>1 DEF Framed
        <5>3. s[n] \in Span
          BY <1>2, <5>1
        <5>4. Len(MadeOf(s[n].index).data) \in Nat /\ CaseAt(b, s, n) \in Int
          BY <1>2, <5>3, MadeTyped DEF Span, CaseAt
        <5> QED
          BY <1>2, <5>2, <5>4 DEF FramedAt, e
      <4> QED
        BY <4>1, <4>2
    <3> QED
      BY <1>1, <1>2, <1>6, <3>1
  <2>3. v[a] = f /\ v[a + 1] = l /\ \A z \in 1 .. l : v[a + 1 + z] = d.data[z]
    <3>1. 1 \in 1 .. 2 + l /\ 2 \in 1 .. 2 + l /\ \A z \in 1 .. l : 2 + z \in 1 .. 2 + l
      BY <1>1
    <3>2. v[e + 1] = r[1] /\ v[e + 2] = r[2] /\ \A z \in 1 .. l : v[e + (2 + z)] = r[2 + z]
      BY <1>6, <3>1
    <3>3. a + 1 = e + 2 /\ \A z \in 1 .. l : a + 1 + z = e + (2 + z)
      BY <1>1, <1>2
    <3> QED
      BY <1>5, <3>2, <3>3
  <2> QED
    BY <1>x, <1>7, <2>1, <2>2, <2>3 DEF FramedAt, d, l, f
<1>13. Framed(v, t)
  <2>1. \A q \in 1 .. Len(t) : FramedAt(v, t, q)
    BY <1>2, <1>7, <1>11, <1>12
  <2> QED
    BY <1>6, <1>7, <1>10, <2>1 DEF Framed
<1> QED
  BY <1>3, <1>13 DEF f, l, d, t

(* Nothing is framed before a batch is begun. *)
LEMMA WriterInitInv == WriterInit => WriterInv
<1> SUFFICES ASSUME WriterInit PROVE WriterInv
  OBVIOUS
<1>1. todo \in Seq([start : Nat, count : Nat]) /\ todo # <<>>
  BY CaseGenAssumption DEF WriterInit
<1>2. made = <<>> /\ stage = "begin" /\ blob = <<>> /\ spans = <<>> /\ scratch = <<>>
  BY DEF WriterInit
<1>3. Len(todo) \in Nat /\ Len(todo) # 0 /\ Len(<<>>) = 0
  BY <1>1
<1>4. \A S : <<>> \in Seq(S)
  OBVIOUS
<1> QED
  BY <1>1, <1>2, <1>3, <1>4 DEF WriterInv

(* A batch with the count of its cases patched into its header. *)
LEMMA PatchFramed ==
  ASSUME NEW b, NEW s, Framed(b, s), NEW n \in Nat
  PROVE  Framed([b EXCEPT ![1] = n], s) /\ [b EXCEPT ![1] = n][1] = n
<1> DEFINE v == [b EXCEPT ![1] = n]
           e == Len(b)
<1>1. b \in Seq(Nat) /\ s \in Seq(Span) /\ e \in Nat /\ Len(s) \in Nat
  BY DEF Framed
<1>2. v \in Seq(Nat) /\ Len(v) = e /\ \A q \in 1 .. e : q # 1 => v[q] = b[q]
  <2>1. b \in [1 .. e -> Nat]
    BY <1>1
  <2> HIDE DEF e
  <2>2. v \in [1 .. e -> Nat] /\ \A q \in 1 .. e : q # 1 => v[q] = b[q]
    BY <2>1
  <2> HIDE DEF v
  <2> QED
    BY <1>1, <2>2
<1>3. \A q : CaseAt(v, s, q) = CaseAt(b, s, q)
  BY <1>2 DEF CaseAt
<1>4. e >= 1
  <2>1. CASE Len(s) = 0
    BY <1>1, <2>1 DEF Framed, CaseAt
  <2>2. CASE Len(s) # 0
    <3>1. FramedAt(b, s, 1) /\ s[1] \in Span
      BY <1>1, <2>2 DEF Framed
    <3>2. Len(MadeOf(s[1].index).data) \in Nat
      BY <3>1, MadeTyped DEF Span
    <3>3. CaseAt(b, s, 1) = 2
      BY DEF Framed
    <3> QED
      BY <1>1, <3>1, <3>2, <3>3 DEF FramedAt
  <2> QED
    BY <2>1, <2>2
<1>5. v[1] = n
  BY <1>1, <1>4
<1>6. ASSUME NEW j \in 1 .. Len(s) PROVE FramedAt(v, s, j)
  <2> DEFINE k == Len(MadeOf(s[j].index).data)
             a == CaseAt(b, s, j)
  <2>1. FramedAt(b, s, j) /\ s[j] \in Span
    BY <1>1, <1>6 DEF Framed
  <2>2. k \in Nat /\ a \in Int
    BY <1>1, <1>6, <2>1, MadeTyped DEF Span, CaseAt
  <2>3. a >= 2 /\ a + 1 + k <= e
    BY <2>1 DEF FramedAt
  <2> HIDE DEF a, k, e, v
  <2>4. /\ a \in 1 .. e /\ a # 1 /\ a + 1 \in 1 .. e /\ a + 1 # 1
        /\ \A q \in 1 .. k : a + 1 + q \in 1 .. e /\ a + 1 + q # 1
    BY <1>1, <2>2, <2>3
  <2>5. v[a] = b[a] /\ v[a + 1] = b[a + 1] /\ \A q \in 1 .. k : v[a + 1 + q] = b[a + 1 + q]
    BY <1>2, <2>4
  <2>6. /\ CaseAt(v, s, j) = a /\ CaseAt(v, s, j + 1) = CaseAt(b, s, j + 1)
        /\ Len(v) = Len(b)
    BY <1>2, <1>3 DEF a, e
  <2> QED
    BY <2>1, <2>5, <2>6 DEF FramedAt, a, k
<1>7. CaseAt(v, s, 1) = 2
  BY <1>3 DEF Framed
<1> HIDE DEF v
<1>8. Framed(v, s)
  BY <1>1, <1>2, <1>6, <1>7 DEF Framed
<1> QED
  BY <1>5, <1>8 DEF v

(* Each step of the writer. *)
LEMMA WriterStepInv == WriterInv /\ [WriterNext]_writerVars => WriterInv'
<1> SUFFICES ASSUME WriterInv, [WriterNext]_writerVars PROVE WriterInv'
  OBVIOUS
<1>a. /\ todo \in Seq([start : Nat, count : Nat])
      /\ made \in Seq([blob : Seq(Nat), spans : Seq(Span)])
      /\ stage \in {"begin", "case", "push", "done"}
      /\ blob \in Seq(Nat) /\ scratch \in Seq(Octet) /\ spans \in Seq(Span)
      /\ Len(made) \in Nat /\ Len(todo) \in Nat
  BY DEF WriterInv
<1>b. stage # "done" => Batch.start \in Nat /\ Batch.count \in Nat
  <2> SUFFICES ASSUME stage # "done" PROVE Batch \in [start : Nat, count : Nat]
    OBVIOUS
  <2>1. Len(made) < Len(todo)
    BY DEF WriterInv
  <2> HIDE DEF Batch
  <2> DEFINE S == [start : Nat, count : Nat]
  <2>2. todo \in Seq(S) /\ Len(made) + 1 \in 1 .. Len(todo)
    BY <1>a, <2>1
  <2> HIDE DEF S
  <2>3. todo[Len(made) + 1] \in S
    BY <2>2
  <2> QED
    BY <2>3 DEF Batch, S
<1>1. CASE Begin
  <2>1. Framed(<<0>>, <<>>)
    <3>1. <<0>> \in Seq(Nat) /\ <<>> \in Seq(Span) /\ Len(<<0>>) = 1 /\ Len(<<>>) = 0
      OBVIOUS
    <3> QED
      BY <3>1 DEF Framed, CaseAt
  <2>2. <<0>> \in Seq(Nat) /\ <<>> \in Seq(Span) /\ <<>> \in Seq(Octet) /\ Len(<<>>) = 0
    OBVIOUS
  <2> QED
    BY <1>1, <1>b, <2>1, <2>2 DEF Begin, WriterInv
<1>2. CASE AppendFixed
  <2>1. index \in Nat /\ Framed(blob, spans)
    BY <1>2 DEF AppendFixed, More, WriterInv
  <2>2. [class |-> class', is_null |-> is_null', data |-> scratch'] = MadeOf(index)
    BY <1>2 DEF AppendFixed, MadeOf
  <2>3. scratch' \in Seq(Octet)
    <3>1. MadeOf(index).data = scratch'
      BY <2>2
    <3> QED
      BY <2>1, <3>1, MadeTyped
  <2> QED
    BY <1>2, <2>1, <2>2, <2>3 DEF AppendFixed, More, WriterInv
<1>3. CASE DrawCase
  <2>1. index \in Nat /\ Framed(blob, spans)
    BY <1>3 DEF DrawCase, More, WriterInv
  <2>2. [class |-> class', is_null |-> is_null', data |-> scratch'] = MadeOf(index)
    <3>1. Len(Fixed) \in Nat
      BY CaseGenAssumption
    <3>2. ~(index < Len(Fixed))
      BY <1>3, <2>1, <3>1 DEF DrawCase
    <3> QED
      BY <1>3, <3>2 DEF DrawCase, MadeOf, CaseIndex
  <2>3. scratch' \in Seq(Octet)
    <3>1. MadeOf(index).data = scratch'
      BY <2>2
    <3> QED
      BY <2>1, <3>1, MadeTyped
  <2> QED
    BY <1>3, <2>1, <2>2, <2>3 DEF DrawCase, More, WriterInv
<1>4. CASE Push
  <2>1. /\ index \in Nat /\ Framed(blob, spans) /\ stage = "push"
        /\ [class |-> class, is_null |-> is_null, data |-> scratch] = MadeOf(index)
    BY <1>4 DEF Push, WriterInv
  <2>2. /\ MadeOf(index).class = class /\ MadeOf(index).is_null = is_null
        /\ MadeOf(index).data = scratch
    BY <2>1
  <2>3. Framed(blob', spans')
    BY <1>4, <2>1, <2>2, PushFramed DEF Push
  <2>4. blob' \in Seq(Nat) /\ spans' \in Seq(Span)
    BY <2>3 DEF Framed
  <2>5. \A n \in 1 .. Len(spans') :
          spans'[n].class # "Prologue" => (spans'[n].is_null <=> spans'[n].class = "NullPointer")
    <3> SUFFICES ASSUME NEW n \in 1 .. Len(spans')
                 PROVE  spans'[n].class # "Prologue" =>
                          (spans'[n].is_null <=> spans'[n].class = "NullPointer")
      OBVIOUS
    <3>1. spans'[n] \in Span
      BY <2>4
    <3>2. /\ spans'[n].class = MadeOf(spans'[n].index).class
          /\ spans'[n].is_null = MadeOf(spans'[n].index).is_null
      BY <2>3 DEF Framed, FramedAt
    <3>3. spans'[n].index \in Nat
      BY <3>1 DEF Span
    <3> QED
      BY <3>2, <3>3, MadeTyped
  <2>6. index' \in Nat /\ stage' = "case" /\ UNCHANGED <<todo, made, scratch>>
    BY <1>4, <2>1 DEF Push
  <2>7. Len(made) < Len(todo)
    BY <2>1 DEF WriterInv
  <2> QED
    BY <1>a, <2>3, <2>4, <2>5, <2>6, <2>7 DEF WriterInv
<1>5. CASE Finish
  <2> DEFINE v == [blob EXCEPT ![1] = Len(spans)]
             x == [blob |-> v, spans |-> spans]
  <2>1. Framed(blob, spans) /\ stage = "case" /\ made' = Append(made, x)
        /\ UNCHANGED <<todo, blob, spans, scratch>>
    BY <1>5 DEF Finish, WriterInv
  <2>2. Framed(v, spans) /\ v[1] = Len(spans)
    <3>1. Len(spans) \in Nat
      BY <1>a
    <3> QED
      BY <2>1, <3>1, PatchFramed
  <2> HIDE DEF v
  <2>3. x \in [blob : Seq(Nat), spans : Seq(Span)] /\ x.blob = v /\ x.spans = spans
    BY <1>a, <2>2 DEF Framed
  <2> HIDE DEF x
  <2> DEFINE S == [blob : Seq(Nat), spans : Seq(Span)]
  <2>4. made \in Seq(S) /\ x \in S
    BY <1>a, <2>3
  <2> HIDE DEF S
  <2>5. /\ made' \in Seq(S) /\ Len(made') = Len(made) + 1 /\ made'[Len(made) + 1] = x
        /\ \A m \in 1 .. Len(made) : made'[m] = made[m]
    BY <2>1, <2>4
  <2>6. \A m \in 1 .. Len(made') :
          Framed(made'[m].blob, made'[m].spans) /\ made'[m].blob[1] = Len(made'[m].spans)
    <3> SUFFICES ASSUME NEW m \in 1 .. Len(made')
                 PROVE  /\ Framed(made'[m].blob, made'[m].spans)
                        /\ made'[m].blob[1] = Len(made'[m].spans)
      OBVIOUS
    <3>1. CASE m = Len(made) + 1
      BY <2>2, <2>3, <2>5, <3>1
    <3>2. CASE m \in 1 .. Len(made)
      BY <2>5, <3>2 DEF WriterInv
    <3> QED
      BY <1>a, <2>5, <3>1, <3>2
  <2>7. stage' \in {"begin", "done"} /\ (stage' # "done" => Len(made') < Len(todo'))
    <3>1. stage' = IF Len(made') = Len(todo) THEN "done" ELSE "begin"
      BY <1>5 DEF Finish
    <3>2. Len(made) < Len(todo)
      BY <2>1 DEF WriterInv
    <3> QED
      BY <1>a, <2>1, <2>5, <3>1, <3>2
  <2>8. \A n \in 1 .. Len(spans) :
          spans[n].class # "Prologue" => (spans[n].is_null <=> spans[n].class = "NullPointer")
    BY DEF WriterInv
  <2> QED
    BY <1>a, <2>1, <2>5, <2>6, <2>7, <2>8 DEF WriterInv, S
<1>6. CASE UNCHANGED writerVars
  BY <1>6 DEF writerVars, WriterInv
<1> QED
  BY <1>1, <1>2, <1>3, <1>4, <1>5, <1>6 DEF WriterNext

(* What a port is given of a framed case is the bytes of its index. *)
LEMMA PayloadIs ==
  ASSUME NEW b, NEW s, Framed(b, s), NEW n \in 1 .. Len(s)
  PROVE  Payload(b, s[n]) = IF MadeOf(s[n].index).is_null THEN <<>> ELSE MadeOf(s[n].index).data
<1> DEFINE d == MadeOf(s[n].index).data
           a == CaseAt(b, s, n)
           l == Len(d)
           e == Len(b)
<1>1. b \in Seq(Nat) /\ s[n] \in Span /\ FramedAt(b, s, n) /\ Len(s) \in Nat
  BY DEF Framed
<1>2. d \in Seq(Nat) /\ l \in Nat /\ e \in Nat /\ s[n].offset \in Nat
  BY <1>1, MadeTyped DEF Span
<1>3. a = s[n].offset - 1
  BY <1>1 DEF CaseAt
<1>4. /\ s[n].len = l /\ s[n].is_null = MadeOf(s[n].index).is_null
      /\ a + 1 + l <= e /\ \A q \in 1 .. l : b[a + 1 + q] = d[q]
  BY <1>1 DEF FramedAt
<1> DEFINE p == s[n].offset
           u == SubSeq(b, p + 1, p + l)
<1> HIDE DEF a, l, e, d, p
<1>5. u = d
  <2>1. p \in Nat /\ p + l <= e /\ a + 1 = p
    BY <1>2, <1>3, <1>4 DEF p
  <2>2. /\ u \in Seq(Nat) /\ Len(u) = l
        /\ \A q \in 1 .. l : u[q] = b[p + q]
    BY <1>1, <1>2, <2>1 DEF e
  <2>3. \A q \in 1 .. l : u[q] = d[q]
    BY <1>4, <2>1, <2>2
  <2> HIDE DEF u
  <2> QED
    BY <1>2, <2>2, <2>3, SeqEqual DEF l
<1> QED
  BY <1>4, <1>5 DEF Payload, p, d

(* The batches that are finished, by their positions. *)
LEMMA MadeDomain == WriterInv => DOMAIN made = 1 .. Len(made)
<1> DEFINE S == [blob : Seq(Nat), spans : Seq(Span)]
<1>1. WriterInv => made \in Seq(S)
  BY DEF WriterInv
<1> HIDE DEF S
<1> QED
  BY <1>1

(* cases.rs:561-569: whoever walks a finished batch by its lengths finds  *)
(* each case where its span says it is and the end of the batch behind    *)
(* the last one: for every corpus, every stream of draws and every batch. *)
THEOREM WalksToItsSpansAlways == WriterSpec => []WalksToItsSpans
<1>1. WriterInv => WalksToItsSpans
  <2> SUFFICES ASSUME WriterInv, NEW m \in DOMAIN made
               PROVE  LET b == made[m].blob
                          s == made[m].spans
                      IN  /\ b[1] = Len(s)
                          /\ CaseAt(b, s, 1) = 2
                          /\ \A n \in DOMAIN s :
                               /\ CaseAt(b, s, n + 1) = CaseAt(b, s, n) + 2 + b[CaseAt(b, s, n) + 1]
                               /\ s[n].len = b[CaseAt(b, s, n) + 1]
                               /\ (b[CaseAt(b, s, n)] = 1) <=> s[n].is_null
    BY DEF WalksToItsSpans
  <2> DEFINE b == made[m].blob
             s == made[m].spans
  <2>1. Framed(b, s) /\ b[1] = Len(s)
    BY MadeDomain DEF WriterInv
  <2> HIDE DEF b, s
  <2>2. s \in Seq(Span) /\ CaseAt(b, s, 1) = 2
    BY <2>1 DEF Framed
  <2>3. ASSUME NEW n \in DOMAIN s
        PROVE  /\ CaseAt(b, s, n + 1) = CaseAt(b, s, n) + 2 + b[CaseAt(b, s, n) + 1]
               /\ s[n].len = b[CaseAt(b, s, n) + 1]
               /\ (b[CaseAt(b, s, n)] = 1) <=> s[n].is_null
    <3>1. n \in 1 .. Len(s) /\ s[n] \in Span
      BY <2>2
    <3>2. FramedAt(b, s, n)
      BY <2>1, <3>1 DEF Framed
    <3>3. s[n].is_null \in BOOLEAN
      BY <3>1 DEF Span
    <3> QED
      BY <3>2, <3>3 DEF FramedAt
  <2> QED
    BY <2>1, <2>2, <2>3 DEF b, s
<1> QED
  BY <1>1, WriterInitInv, WriterStepInv, PTL DEF WriterSpec

(* cases.rs:3-6: an index gives the same case in whatever batch it is     *)
(* made: two batches agree on every case that is in both.                 *)
THEOREM ReplaysAnywhereAlways == WriterSpec => []ReplaysAnywhere
<1>1. WriterInv => ReplaysAnywhere
  <2> SUFFICES ASSUME WriterInv, NEW m \in DOMAIN made, NEW n \in DOMAIN made,
                      NEW j \in DOMAIN made[m].spans, NEW k \in DOMAIN made[n].spans,
                      made[m].spans[j].index = made[n].spans[k].index
               PROVE  LET s == made[m].spans[j]
                          t == made[n].spans[k]
                      IN  /\ s.class = t.class /\ s.is_null = t.is_null
                          /\ Payload(made[m].blob, s) = Payload(made[n].blob, t)
    BY DEF ReplaysAnywhere
  <2>1. \A x \in DOMAIN made : Framed(made[x].blob, made[x].spans)
    BY MadeDomain DEF WriterInv
  <2>2. ASSUME NEW b, NEW s, Framed(b, s), NEW x \in DOMAIN s
        PROVE  LET d == MadeOf(s[x].index)
               IN  /\ s[x].class = d.class /\ s[x].is_null = d.is_null
                   /\ Payload(b, s[x]) = IF d.is_null THEN <<>> ELSE d.data
    <3>1. s \in Seq(Span)
      BY <2>2 DEF Framed
    <3>2. x \in 1 .. Len(s)
      BY <3>1, <2>2
    <3>3. FramedAt(b, s, x)
      BY <2>2, <3>2 DEF Framed
    <3> QED
      BY <2>2, <3>2, <3>3, PayloadIs DEF FramedAt
  <2> DEFINE s == made[m].spans
             t == made[n].spans
             d == MadeOf(s[j].index)
  <2>3. /\ s[j].class = d.class /\ s[j].is_null = d.is_null
        /\ Payload(made[m].blob, s[j]) = IF d.is_null THEN <<>> ELSE d.data
    BY <2>1, <2>2
  <2>4. d = MadeOf(t[k].index)
    OBVIOUS
  <2>5. /\ t[k].class = d.class /\ t[k].is_null = d.is_null
        /\ Payload(made[n].blob, t[k]) = IF d.is_null THEN <<>> ELSE d.data
    BY <2>1, <2>2, <2>4
  <2> QED
    BY <2>3, <2>5
<1> QED
  BY <1>1, WriterInitInv, WriterStepInv, PTL DEF WriterSpec

(* What the writer keeps is cells and bytes, and only a case of the class *)
(* NullPointer, or of the corpus, is passed as NULL.                      *)
THEOREM WriterTyped == WriterSpec => []WriterTypeOK
<1>1. WriterInv => WriterTypeOK
  <2> SUFFICES ASSUME WriterInv PROVE WriterTypeOK
    OBVIOUS
  <2>1. spans \in Seq(Span)
    BY DEF WriterInv
  <2>2. DOMAIN spans = 1 .. Len(spans)
    BY <2>1
  <2> QED
    BY <2>2 DEF WriterInv, WriterTypeOK, Octet
<1> QED
  BY <1>1, WriterInitInv, WriterStepInv, PTL DEF WriterSpec
=============================================================================
