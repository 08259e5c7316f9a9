---------------------------- MODULE MCFuzzBatch ----------------------------
(***************************************************************************)
(* What a batch of the fuzzer goes through, part by part: the generator   *)
(* that a case is drawn from (Rng), the writer of the batch (CaseGen),    *)
(* the C program that reads it (OracleHarness), and a case computed twice *)
(* and compared (ResultBlocks).  FuzzDriver composes them at the level of *)
(* whole batches; here each part runs for itself: a behaviour starts one  *)
(* of them and leaves the others as they are when they have nothing to do.*)
(***************************************************************************)
EXTENDS Rng, OracleHarness, CaseGen, ResultBlocks

-----------------------------------------------------------------------------
(* Generators.  Seeds and indices at the ends of the word, and the seed   *)
(* under which the generator of case 1 would start at zero.  SplitMix64   *)
(* maps 0 - GOLDEN to 0, and it is GOLDEN complemented plus 1.            *)
All64     == Bits(64)
ToZero    == WrappingAdd(All64 \ GOLDEN, {0})
MCIndices == {{}, {0}, All64}
MCSeeds   == {{}, {0}, {1}, {63}, ToZero ^^ SplitMix64({0})}

(* The harness.  Batches of up to three cases, each passed as a pointer   *)
(* or as NULL: an empty payload, one without a terminator, one with a     *)
(* terminator in it, and one that ends in the value of a header's flags.  *)
MCHarnessBatches ==
  BoundedSeq([is_null : BOOLEAN, data : {<<>>, <<65>>, <<65, 42, 66>>, <<66, 1>>}], 3)

(* A case.  Payloads of up to two bytes over NUL, '$', '*', 'z' (the      *)
(* trigger) and a byte with both ends set, longer ones with an interior   *)
(* terminator, and a NULL pointer that carries a payload.                 *)
MCTrigger == {6, 5, 4, 3, 1}    \* 'z' 0x7A
Dollar    == {5, 2}
Alphabet  == {{}, Dollar, {5, 3, 1}, MCTrigger, {7, 0}}

Payloads ==
  BoundedSeq(Alphabet, 2) \cup
  {<<Dollar, {6, 0}, {5, 3, 1}, {7, 0}>>, <<{7, 0}, MCTrigger, {}, {7, 0}>>,
   [k \in 1 .. 9 |-> Bits(8)]}

MCCases ==
  [is_null : {FALSE}, data : Payloads] \cup
  [is_null : {TRUE}, data : {<<>>, <<{7, 0}>>, <<MCTrigger, {}>>}]

(* The writer.  Pairs of batches that begin apart and overlap: in the     *)
(* corpus, across its end and behind it, and at indices whose draw is one *)
(* of the rare classes, a NULL pointer and a long buffer.  A draw is a    *)
(* remainder of a product; lengths are a fraction of the code's.          *)
MCBoundary == <<1, 7, 8, 9, 16>>

F == INSTANCE Corpus WITH
  ByteValues <- <<0, 36, 128, 255>>, BOUNDARY_LENS <- MCBoundary, MAGNITUDES <- <<0, 1, 12>>,
  UNIFORM <- 3, K64 <- 20, LONGEST <- 24, NullLengths <- <<0, 1, 3>>,
  Bodies <- <<<<71, 80, 44, 49>>, <<>>>>

MCFixed == F!Prologue

MCStream(n, k) == ((n + 11) * 7919 + (k + 3) * (k + n) * 613 + n * n * 31) % 10007

MCLimit == [c \in {"Empty", "SingleByte", "BoundaryLen", "RandomMedium", "UniformByte",
                   "Sparse", "FfHeavy", "ZeroHeavy", "DelimiterAscii", "NullPointer",
                   "RandomSmall", "NmeaSentence", "LongBuffer"} |->
              CASE c = "RandomMedium" -> 18
                [] c = "LongBuffer" -> 24
                [] c = "NmeaSentence" -> 5
                [] OTHER -> 6]

MCPairs ==
  {<<[start |-> s, count |-> 7], [start |-> s + d, count |-> 5]>> :
     s \in 0 .. 8 \cup 72 .. 200 \cup {615, 1180, 4368}, d \in {1, 3}}

ASSUME PartsAssumption ==
  F!CorpusAssumption

-----------------------------------------------------------------------------
(* A part that has nothing to do. *)
NoDraws ==
  /\ asked = <<"none">>
  /\ one = {0} /\ other = {0}
  /\ draws = DRAWS /\ drawn = <<>>

NoHarness ==
  /\ batch = <<>> /\ cells = 0 /\ count = 0 /\ memory = <<>>
  /\ pos = 1 /\ turn = 0 /\ flags = 0 /\ payload = 1 /\ saved = 0 /\ answered = <<>>
  /\ pc = "exit" /\ results = Old /\ exit = Running

NoCase ==
  /\ case = [is_null |-> FALSE, data |-> <<>>] /\ sabotaged = FALSE
  /\ side = "port" /\ phase = "done"
  /\ taken = 0 /\ crcs = Starts /\ prev = {} /\ wire = <<>> /\ mine = <<>> /\ diffs = {}

NoBatch ==
  /\ todo = <<>> /\ made = <<>> /\ stage = "done"
  /\ blob = <<>> /\ spans = <<>> /\ scratch = <<>>
  /\ index = 0 /\ class = "none" /\ is_null = FALSE

MCInit ==
  \/ Init    /\ NoHarness /\ NoCase /\ NoBatch
  \/ NoDraws /\ HarnessInit   /\ NoCase /\ NoBatch
  \/ NoDraws /\ NoHarness /\ BlocksInit /\ NoBatch
  \/ NoDraws /\ NoHarness /\ NoCase /\ WriterInit

MCNext ==
  \/ Next   /\ UNCHANGED <<harnessVars, blocksVars, writerVars>>
  \/ HarnessNext /\ UNCHANGED <<vars, blocksVars, writerVars>>
  \/ BlocksNext /\ UNCHANGED <<vars, harnessVars, writerVars>>
  \/ WriterNext /\ UNCHANGED <<vars, harnessVars, blocksVars>>

MCSpec == MCInit /\ [][MCNext]_<<vars, harnessVars, blocksVars, writerVars>>

-----------------------------------------------------------------------------
(* The types of all parts: what a generator is made of stays a 64-bit     *)
(* word (rng.rs), what the harness points at stays in its buffer, every   *)
(* running value keeps the width of its C type, and a block's bytes give  *)
(* back its values (model.rs).                                            *)
AllTyped == TypeOK /\ HarnessTypeOK /\ BlocksTypeOK /\ WriterTypeOK
=============================================================================
