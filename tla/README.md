# A verification of libcrc-rs in TLA+

libcrc-rs is a Rust port of the C library libcrc: thirteen checksums, an
accelerated fold, a `combine` operation, a C ABI, the `crc` command line tool and
a differential fuzzer that compares the port with the original. This directory
holds TLA+ models of it, the TLC configurations that check them, and theorems
about them proved with TLAPS.

Contents: [1 the system](#1-the-system-and-its-parts),
[2 the modules](#2-the-modules-and-the-code-they-model),
[3 the runs](#3-the-runs), [4 the proofs](#4-the-proofs),
[5 findings](#5-where-the-code-and-its-documents-disagree),
[6 what is left out](#6-abstractions-and-what-is-not-modelled),
[7 plan](#7-plan).

Run a model with `tlc -config X.cfg M`, a proof with `tlapm M.tla`.


## 1 The system and its parts

| part | source | state it keeps | operations |
|---|---|---|---|
| byte-at-a-time kernels, tables | `crates/libcrc-rs/src/lib.rs`, `tables.rs` | none (constant tables; a register in the caller's hands) | `update_crc_*`, the `const fn` table builders |
| one-shot functions | `lib.rs` | none | `crc_8` ... `checksum_nmea` |
| slice-by-8 | `slice8.rs` | eight tables per kernel; locals of a call | one accelerated fold per kernel, behind the cargo feature `slice8` |
| combine | `combine.rs` | the one-byte operators `OP_*`; locals of `advance` | eleven `*_combine` functions |
| digests | `digest.rs` | a register (`Crc16Digest`, `Crc32Digest`, `Crc32Hasher`), and a final xor (`Crc64Digest`) | `new`, `update`, `finalize`; `write`, `finish`; clone |
| streaming hash of the command | `crates/libcrc-cli/src/hash.rs`, `algo.rs` | one streaming state per algorithm (register; SICK's previous byte; NMEA's two flags), the read buffer | `stream`, `checksums` |
| `crc FILE...` | `main.rs`, `error.rs` | the buffer of stdout, `failed` | `hash_inputs`, `run`, `report` |
| `crc --check` | `check.rs` | the groups of the manifest, two counters | `verify` and its helpers |
| command line, names, help | `args.rs`, `algo.rs`, `help.rs` | the options | `parse`, `Algo::parse` |
| C ABI | `crates/libcrc-cabi/src/lib.rs` | none | one export per function, guards against NULL |
| fuzz driver, oracle protocol | `fuzz/differential/src/main.rs`, `oracle.rs`, `report.rs` | the counters of a run, the recorded divergences, the files `cases.bin`, `results.bin`, the log | `parse_args`, `run`, `dump_case`, `oracle_self_check`, `Oracle::run`, `compare`, `render`, `write_log` |
| shrinker | `fuzz/differential/src/main.rs` | `best`, `step`, `calls` | `shrink`, `probe` |
| case generator | `cases.rs`, `rng.rs` | the batch being written, its scratch buffer; a generator's state (a case is a function of the seed and its index) | `build_batch`, `push`, `for_case`, `next_u64` |
| models of a case | `model.rs` | none | `port_oneshot`, `port_incremental`, `decode`, `diff_*` |
| oracle harness | `fuzz/oracle_harness.c` | the case file in memory | one pass over the cases |
| benchmark drivers | `bench/rust/src/main.rs`, `bench/c/bench_c.c` | two buffers that all workloads share | `run_all`, `calibrate`, `time_batch` |
| tests, examples | `tests/`, `examples/` | | |

**How they interact.** The one-shot functions, the digests, slice-by-8 and
combine share the kernels: slice-by-8 must be invisible, and combine must agree
with the one-shot of a concatenation. The command does not use the one-shot
functions: its streaming states carry their own registers and their own
finalisation, so that it can read any input in chunks, all algorithms in one
pass. `hash_inputs` and `verify` call the streaming hash once per input, write to
a buffered stdout and an unbuffered stderr, and turn what happened into an exit
status. The fuzz driver and the C harness are two processes that talk through two
files and an exit status; the self-check before the run and the shrinker in the
middle of a batch use the same two files as the batches, and so does any other fuzzer
that was started with the same `--workdir`, which has a default. What the driver writes is a
batch framed by lengths, which the harness walks in memory; what it reads back are
blocks of forty bytes, which it compares with its own. `crc FILE...` and `crc --check`
talk through a text file that people edit.

**What is hard.** The library shares nothing between threads (its tables are
constants); the difficulties of the repository are of five kinds.

* *An environment that interleaves.* A read ends where the kernel likes, is
  interrupted, or fails; a reader of stdout goes away or the disk behind it fills
  between any two lines; a buffer is written out when the writer pleases.
* *Partial failure and ordering.* One input of many fails; stdout and stderr must
  stay in step; counters, groups and the exit status must survive early returns.
* *Stale files.* A harness that fails leaves the answers of an earlier batch in
  place; a shrink in the middle of a batch overwrites both files; another fuzzer may
  cut, write or read them between any two steps of this one.
* *In-place tricks and bare framing.* The harness terminates a string inside the next
  record's header; a batch has no markers, only lengths; a manifest is cut at white space.
* *Two descriptions of one function.* Transcribed and computed tables, two-register
  and one-register table loops, byte loop and slice-by-8, folding and repeated
  squaring, chunked and one-shot hashing. They agree by algebra, not by sharing
  code, and a slip is invisible on most inputs.

**What makes each part correct**, as properties of the modules below: the
builders build the tables they claim (`TwoRegistersAreOne`, `RowsAreRows`,
`TranscribedIsComputed`); slice-by-8 is the byte loop (`SlicedIsByteLoop`,
`ReturnsByteFold`); combine is the checksum of the concatenation (`SplitIdentity`,
`CombinedIsConcatenation`); chunks and retries are invisible
(`AnyChunking`, `CallIsOneShot`); streams are in order and complete, the status
tells a failure (`LogInOrder`, `CompleteOnExit`, `EachPathReadOnce`,
`EveryEntryJudged`, `ExitTells...`); the fuzzer compares the cases it says, misses
and invents no divergence (`StreamIsConsecutive`, `CountIsExact`,
`FirstRecorded`); a shrunk input still diverges (`IsMinimisation`); a batch is walked
back to its cases, each answered for itself (`WalksToItsSpans`, `IsOneRun`); a
recorded seed replays (`ReplaysAnywhere`), and what a log offers as a command line asks for
the run the log is of (`LogIsReadBack`); a sound port is never accused and
a sabotaged oracle always is (`DiffsAreReal`); a digest gives the
one-shot checksum whatever was done with it (`GivesOneShot`); a command line means what
it says (`MeansWhatItSays`); a manifest is read back as it was printed (`RoundTrip`); the C
ABI reads what the original reads and returns what it returns (`AsTheOriginal`); two
benchmarks are timed on the same bytes (`SameBytes`).


## 2 The modules and the code they model

```
Registers -- ByteCrc -- TableBuild            HashInputs    CheckManifest
                |                                  \          /
                +------ SliceBy8                    CliOutput
                |
                +------ CrcLibrary -+- Combine      Minimise <= Shrink
                                    |
                                    +- ChecksumStream => OneShotHash
                                    |
                                    +- Digests      FuzzDriver
                                    |
                                    +- CAbi         OracleRun <= OracleHarness
                                    |
Registers -- Rng   Corpus .. CaseGen +- ResultBlocks

AlgoNames -+- Args -----------+         Bench
           |                  |
           +- ManifestText -- Numerals -- FuzzArgs
```

(`--` EXTENDS, `<=` is implemented by, `..` is a constant of.) Eight of the parts are checked in an MC
module of their own, `MCM` for module `M`. Two MC modules hold several parts each. **MCFuzzBatch** extends
the four that a batch of the fuzzer goes through (Rng, CaseGen with Corpus, OracleHarness, ResultBlocks)
and checks the properties those modules state. **MCInterfaces** holds what meets the outside: the four
faces the checksums show to a caller (Digests, CAbi, Args, ManifestText), the fuzzer's command line
(FuzzArgs) and the benchmark (Bench). In both, `AllTyped` is the conjunction of the type
invariants. These parts share no state with one another, only results, so nothing is gained by
interleaving them: a behaviour starts one part and leaves the others idle, and each part's
states are explored in full.

Proofs are in modules of their own:

| proofs | about |
|---|---|
| FoldLemmas | induction, and what a fold computes; instantiated by the others for the operators they fold |
| LibraryProofs | ByteCrc (linearity, widths), SliceBy8, TableBuild, Combine, ChecksumStream with OneShotHash, Digests, CAbi, ResultBlocks, Bench |
| HashInputsProofs | HashInputs with CliOutput |
| CheckManifestProofs | CheckManifest with CliOutput |
| FuzzCaseProofs | Rng, CaseGen, OracleHarness with OracleRun, Shrink with Minimise |
| FuzzDriverProofs | FuzzDriver |
| TextProofs | Numerals, ManifestText, FuzzArgs |
| ArgsProofs | Args |

**Registers.** A register or a byte is the set of positions of its one bits; `^^`
is exclusive or, the symmetric difference. Shifts cut at the width, so that
`<< 1` on a `u8` and the loss of high bits are what they are in the code. All the
algebra of CRCs (linearity) becomes set algebra, which is what makes the proofs
short.

**ByteCrc.** A kernel is `[reflected, width, poly]`. `Row` is one entry of a
lookup table, `Update` is `update_crc_*`, `ByteFold` the byte loop. The table
lookup is modelled as a lookup of a row, and `TableBuild` shows the tables to hold
the rows.

**TableBuild.** The `const fn` builders turn by turn: `Turn` is the
inner loop's body, `StoreRow` the outer one's end. libcrc's builders keep the index in a second register that is
shifted along with the first (`split`); the others have one register. The
transcribed table of SHT7x is a definition, compared with the computed one.

**CrcLibrary.** The catalogue: polynomials, seeds, final xors and byte swaps of
the thirteen one-shot functions, as data, with the functions that are not a plain
fold (SICK, NMEA) as operators of their own. `KnownAnswers` in `MCChecksumStream`
evaluates all thirteen on "123456789" against the check values of the library's
tests.

**SliceBy8.** One call of an accelerated function: `DispatchToTail` or
`DispatchToBlocks` (by the feature and the length threshold), `FoldBlock` (eight bytes
through eight tables), `BlocksDone`, `FoldTailByte`, `Return`. `byteCrc` is a history variable: the same prefix folded by the byte
loop.

**Combine.** A caller checksums B and calls a `*_combine` function: `FoldByte`,
`CombineEmpty`, `CombineCall`, and `advance()`'s loop, one iteration per step
(`AdvanceStep`, `AdvanceReturn`), with the one-byte operator as a function from bit
positions to registers. `whole` and `zeros` are histories that say what the loop is
supposed to compute.

**ChecksumStream**, and **OneShotHash** above it. One call of `hash::stream`:
`ReadChunk` (any number of bytes up to the buffer's size), `Interrupted`,
`EndOfInput`, `ReadError`. The streaming states are those of `algo.rs`. OneShotHash
is the promise: an input goes in, and its one-shot checksums, or a failure, come
out in one step.

**CliOutput.** What the two modes of the command share: the sink behind stdout,
what is still buffered, the log of what went out on both streams in order, the
error that ended `run()` and the exit status. `WriteLine` is `writeln!(out, ..)?`:
the line is held back, or goes out with everything before it, or the write fails;
`Flush` is `out.flush()?`. `SinkFails` is the environment's only action.

**HashInputs.** `hash_inputs`, the last flush of `run()`, `report()`. `HashInput`
and `HashFails` are the two outcomes of the call modelled in ChecksumStream;
`PrintLine`, `InputDone`, `ReportInput` are the rest of the loop's body; `stdin`
tracks what standard input still holds, since "-" may be named twice. `due` is a history
variable: what the inputs hashed so far call for on the two streams.

**CheckManifest.** `verify()`: `ParseManifest` or `RejectManifest`, then per group
`ReadGroup` or `ReadFails`, per entry `PrintOk`, `PrintFailed`, `ReportMismatch`,
`PrintUnreadable`, and `ReportUnreadable`, `ReportCounts`, `Finish`. Sums are an
operator parameter: what a checksum is does not matter here, only whether it
equals the one in the manifest. `GroupByPath` is the fold of `group_by_path`.

**Shrink**, and **Minimise** above it. `shrink()`: confirmation, halving from the
tail, trimming from the front, zeroing, one probe per step. A probe's oracle run
may fail at any time, and `probe()` says `None` then as for an input that does not
diverge; `failures` remembers it. Minimise is the promise: what is kept diverges
and never grows.

**FuzzDriver.** `run()` and the batch protocol, for any number of fuzzers, each started with
arguments of its own (`plan`): seed, start, batch, target, work directory, or `--case`. A call of
`Oracle::run` is a sequence of steps, because another fuzzer may get in between: `cases.bin` is
cut (`open`), written (`write`), read by the harness (`spawned`), which computes (`answer`), cuts
and writes `results.bin` (`results`) and exits, and the driver reads it and validates
(`Replies`). `casesFile` and `resultsFile` are the files of each work directory: whole, short,
open, or mixed, when two wrote at the same time; a reader of a mixed file may get
other bytes in the place of any case. A harness may fail at every step and leave the file as it
was, or short. The self-check comes first, then the batches, one comparison per step, `Differ` or
`Agree`, the shrinker as probes that use the same files, `WriteLog` and the exit status;
`--case` is one call and an exit. A case is its seed and index; those of the fixed corpus are
the same for every seed.

**FuzzArgs.** The command line of the fuzzer, one flag per step: `TakeValue`, `ShowHelp`,
`RefuseWord`, `RefuseOptions`, `Accept` (which asks the clock for a seed when it is zero), then what
`run()` makes of it (`Dump`, `Panic`, `Run`). `Replay` starts a second run from one of the command
lines of the first one's log, taken apart by a shell.

**Bench.** `run_all`, for both drivers: calibration doubles the batch until it fills the clock
(`Double`, `Calibrated`, the choice is the environment's), then warm-up and samples. `Batch` is
what the calls of a batch leave behind in the buffers that all workloads share; `inputs`
remembers what each workload was timed on.

**OracleHarness**, and **OracleRun** above it. `oracle_harness.c`: `ReadFile`, then
per case `ReadCase` (header, payload, the NUL behind it) and `ComputeCase` (the answer,
and the byte put back), or `Truncated`; `AllAnswered`, `OpenResults`, `WriteResults`.
Memory is a sequence of cells; the driver's `BatchWriter` is `Encoded`. What a case's answer
is made of is what the functions read: the bytes, and the C string at their start.
OracleRun is what FuzzDriver takes for granted in its `RunHarness` and `OracleFails`: no
answer before all are there, and a write that may be cut short, with a status or without.

**ResultBlocks.** What that answer contains, and how it is compared: both sides' one-shot
values, the loops over `update_crc_*` one byte per step (`FoldRunning`) with
the finalisation their caller has to apply (`Finished`), the forty bytes of a block and their
decoding, `compare`. The original's functions are external, taken to be the port's; the harness may be
built with `PM_SABOTAGE`.

**Corpus**, and **CaseGen** that takes it as a parameter, as `build_batch` does. Corpus is
`prologue()`, in its order; lengths, byte values and sentences are parameters. CaseGen is `build_batch`: `Begin`, `AppendFixed` or `DrawCase`, `Push`, `Finish`; `Generated` are the
thirteen random classes of `write_random_class`, `Nmea` is `write_nmea`. The generator is a
parameter, `Stream(i, k)`; `Draw(i, k)` is its value in a word, the k-th draw of case i. A behaviour makes two batches, so that
they can be compared.

**Rng.** `SplitMix64` and xorshift64* with 64-bit arithmetic on registers, and two
generators drawn from side by side.

**Digests.** A program with a few digests in variables: `Create`, `Absorb`, `Clone`,
`Finalize`, `Finish`, `Drop`. Histories say what each has absorbed.

**CAbi.** One call of an export: the slice made of pointer and length, or the scan of
`checksum_NMEA` byte by byte (`ScanByte`, `ScanStop`). `touched` records the offsets read.

**Args.** `parse`, one word of the command line per step. A line is made of items whose meaning
is known (a file, an option, an option with a value in some form, junk, words after
"--"); `Render` makes its words, and the properties compare what was parsed with what was
meant.

**ManifestText.** `PrintLine` writes a line as `hash_inputs` does; `Annotate` and `ToCrLf` are
what people and editors do to the file; `SkipLine`, `TakeEntry`, `BadLine` and `Parsed` are `parse_manifest`,
with `ParseLine` and `NextField`. Values are printed in either notation and read in both.

**AlgoNames** holds the algorithms, their names, aliases and widths and `Algo::parse`;
**Numerals** how checksums and seeds are printed and read.

Definitions whose comment begins with "Mutant:" are not part of a model. Each is a
plausible mistake in the operation that follows it; with it in place of the
original the property named in PROJECT.json fails. They show that the property
is able to fail.


## 3 The runs

| run | config | shows |
|---|---|---|
| slice_by_8 | MCSliceBy8.cfg | slice-by-8 is the byte loop after every block and tail byte |
| table_build | MCTableBuild.cfg | every row of every computed table; the transcribed one is the computed one |
| stream | MCChecksumStream.cfg | finishing at any moment gives the one-shot checksum of what was read; the call implements OneShotHash |
| combine | MCCombine.cfg | the register of the whole splits after every byte, the result is the concatenation's checksum |
| hash_inputs | MCHashInputs.cfg | order, completeness and exit status of `crc FILE...` |
| check_manifest | MCCheckManifest.cfg | each path read once, each entry judged, counters, order, exit status, termination of `crc --check` |
| shrink | MCShrink.cfg | budget, soundness, the last byte needed, termination |
| fuzz_driver | MCFuzzDriver.cfg | the stream of cases, the exactness of the count, the exit status, termination, of one fuzzer and of two |
| fuzz_batch | MCFuzzBatch.cfg | no zero state of a generator; a batch is walked back to its cases, which do not depend on it; each is answered for itself, and one run of the harness is a step of OracleRun; the running values are the one-shot ones at every byte, no false alarm, and the negative control is exact |
| interfaces | MCInterfaces.cfg | every checksum a digest gives is the one-shot; a C call reads and answers as the original; options mean the same in every order and form, junk is refused; what is printed is read back; a log's command lines ask for the run it is of; both benchmark drivers time the same bytes |
| check_exit, fuzz_replay | MCCheckExit.cfg, MCFuzzReplay.cfg | the disagreements of section 5: TLC finds a violation |

**Bounds, and why they are enough.**

* *slice_by_8*: the library's six accelerated kernels, with their real widths,
  polynomials and thresholds. Messages of 0, 1, 7, 8, 9, 15, 16, 17 and 23 bytes
  are one on each side of every threshold and of every multiple of the stride. Two
  blocks are needed for the register to be arbitrary when a block begins.
* *table_build*: nothing is bounded; all 256 rows of all seven computed tables.
* *stream*: inputs of up to four bytes over '$', '*', 'A' and 0x93, and a buffer of
  three (`CHUNK`; 64 KiB in the code). A read may return fewer bytes than the
  buffer holds, so every cut of every input occurs, including empty-looking first
  chunks ('$' alone), terminators on either side of a cut, and SICK's previous byte
  across one.
* *combine*: all eleven algorithms; lengths of B from 0 to 7, every pattern of odd
  and even iterations up to three squarings; A empty, one byte, three bytes; B
  mixed, and zero (where nothing but the power of the operator can be wrong).
* *hash_inputs*: up to three inputs out of two files and "-", repetitions included,
  two algorithms. Two inputs let a success follow a failure; the third lets a
  repetition be non-adjacent: "-" twice with a file in between.
* *check_manifest*: up to three lines, from a file or from standard input, over two
  paths and two algorithms, blank and malformed lines among them; three contents,
  two of which one algorithm cannot tell apart, so that one path can match and
  fail at once. Three lines are the fewest in which entries of one path are not
  adjacent.
* *shrink*: all inputs of up to six bytes, zero or not, nine kinds of fault,
  `MAX_SHRINK_CALLS` 7 (600 in the code): large enough to finish on short
  inputs, small enough to run out in each of the three loops on long ones.
* *fuzz_driver*: one fuzzer with two start indices, batches of 1 to 3, `--cases` 0, 3 and 5 or a
  timed run of at most `MaxCases` cases, and `--case` inside and behind the corpus of `FIXED`
  cases; `MAX_RECORDED_DIVERGENCES` 2 (20 in the code) so that the list overflows. One-case
  batches matter: only they can be mistaken for the one-case batches of the shrinker and the
  self-check. Two fuzzers: a run of one case or of two, beside a `--case` of another index (which
  can be mistaken for it), beside one that ends after its self-check, and beside one in a directory of
  its own; every interleaving of their steps on the files. The theorems of section 4 cover any
  number of fuzzers.
* *fuzz_batch, OracleHarness*: batches of up to three cases, NULL or not, with payloads that are
  empty, hold a terminator, do not, or end in a byte that looks like a header; the file
  cut at every length. The NUL reaches one case ahead, so two cases would do; the third
  shows that nothing lasts.
* *fuzz_batch, ResultBlocks*: payloads of up to two bytes over '$', '*', NUL, the trigger byte and 0x81,
  three longer ones, and NULL pointers that carry a payload. SICK looks one byte back, so
  two bytes matter; all thirteen functions at their real widths.
* *fuzz_batch, CaseGen and Corpus*: the corpus with four byte values, five boundary lengths, two sentences
  and lengths divided down, 82 cases; pairs of batches that overlap, at 141 starting points in the
  corpus, across its end and behind it, picked so that the rare classes occur. Lengths are
  divided down (`Limit`, `LONG`), the classes' shares are the code's.
* *fuzz_batch, Rng*: seeds 0, 1, 2, 2^63, and the one under which case 1 would start at zero; indices 0, 1 and
  2^64 - 1; ten draws. The theorems cover all others.
* *interfaces, Digests*: two handles, so that one clone goes its own way; six kinds; up to two bytes, and
  eight at once, the width of the widest register.
* *interfaces, CAbi*: all buffers of up to four bytes over '$', a letter, '*', LF and NUL. Longer ones add
  nothing to a scan with one counter.
* *interfaces, Args*: up to three items (pairs of any, triples of a good one, a bad one or a file, and a good
  one) with and without words after "--"; the items cover every option in every form, and options with a
  tail that is dropped.
* *interfaces, ManifestText*: two lines, a value of one digit in a narrow algorithm and one of many in a wide one, so
  that zeros are and are not put in front; paths with spaces in front, inside and behind, with a newline,
  a carriage return or a '#'. A line's fate does not depend on the others but for its number.
* *interfaces, FuzzArgs*: up to two options and a tail; a u64 has 16 bits and four hexadecimal digits. Numbers at
  the end of the width and past it, in every spelling; seconds that are not a number, infinite, negative or
  minus zero; a clock that gives zero. Options do not depend on one another but for the one that comes last.
* *interfaces, Bench*: two small and two large sizes, batches of up to eight calls (a power of two leaves another
  digit behind than the next one), two samples.

Some modules have bounds in their guards: `MaxCases` of FuzzDriver, the number of cases
a run with `--seconds` gets through before its deadline (`Counts` of FuzzArgs is the same); `Samples` of Bench; `DRAWS` of Rng; `LINES` of
ManifestText. `Absorbable` of Digests, what a digest may have absorbed, is one too.

**Deadlock** is not checked: each behaviour is one call or one run of a program, and
ends. The liveness properties say that it does not stop before, for the three programs with
loops that failures can disturb.

**Fairness.** `check_manifest`: weak fairness of the program's steps, because it is a
sequential program that is never blocked; none of the environment, so nothing depends
on a reader who leaves. `shrink`: weak fairness of the next step; `fuzz_driver`: of the next
step of each fuzzer and its harness, which are processes of their own that never wait for another
fuzzer. Both assume that a harness run ends: the harness makes one pass over a file, but the driver waits for
it without a timeout (`oracle.rs:93`), and one that hangs stops it for good. `Ends` and `Returns` cannot tell
that; they are about oracle runs that fail, shrinks and batches, and `Ends` is claimed for runs with `--cases`
or `--case` only. The other runs need no fairness.


## 4 The proofs

| theorem | module | for every |
|---|---|---|
| `FoldConcat`, `FoldPrefix`, `FoldType` | FoldLemmas | operation, base, sequence |
| `UpdateLinear` | LibraryProofs | kernel, register, byte |
| `BlockIsEightUpdates`, `TypeCorrect`, `SlicedIsByteLoopAlways`, `ReturnsByteFoldAlways` | LibraryProofs | kernel, seed, message, threshold |
| `RegistersAlways`, `RowsAlways` | LibraryProofs | polynomial, width, builder |
| `SplitIdentityAlways`, `CombinedIsConcatenationAlways` | LibraryProofs | algorithm of the catalogue, A, B |
| `AnyChunkingAlways`, `StreamImplementsOneShot` | LibraryProofs | input, buffer size, list of algorithms, cut into reads |
| `GivesOneShotAlways`, `DigestsTyped` | LibraryProofs | number of digests, kind, chunks, order of calls |
| `RunningIsOneShotAlways`, `DiffsAreRealAlways`, `BlocksTyped` | LibraryProofs | case, trigger byte |
| `AsTheOriginalAlways`, `CallTyped` | LibraryProofs | export, memory of the caller, length, NULL |
| `SameBytesAlways`, `BenchTyped` | LibraryProofs | buffers, sizes, batch sizes the clock chooses, number of samples |
| `ExitStatusCorrect`, `StreamsInOrder`, `NothingLeftOut` | HashInputsProofs | list of inputs, list of algorithms |
| `EachPathReadOnceAlways`, `EveryEntryJudgedAlways`, `LogInOrderAlways`, `ExitTellsMismatchAlways` | CheckManifestProofs | manifest, contents of files, buffering |
| `BudgetKeptAlways`, `ShrinkIsMinimisation`, `LastByteIsNeededAlways` | FuzzCaseProofs | input, fault, budget |
| `RngNeverZero`, `RngStayApart` | FuzzCaseProofs | seed, case index, number of draws |
| `HarnessImplementsRun`, `HarnessTyped` | FuzzCaseProofs | batch, length at which its file ends |
| `WalksToItsSpansAlways`, `ReplaysAnywhereAlways`, `WriterTyped` | FuzzCaseProofs | corpus, stream of draws, start and count of a batch |
| `MeansWhatItSaysAlways`, `RunnableOptionsAlways` | ArgsProofs | command line of `crc`, of any length |
| `RoundTripAlways`, `ManifestTyped` | TextProofs | manifest: lines, algorithms, checksums, spellings, paddings, paths |
| `LogIsReadBackAlways`, `FuzzOptionsTyped` | TextProofs | command line of the fuzzer, width of its integers, clock, count |
| `CountIsExactAlways`, `ExitTellsOutcomeAlways`, `StreamIsConsecutiveAlways`, `FirstRecordedAlways` | FuzzDriverProofs | number of fuzzers, their arguments and directories, fault |

*Assumptions.* Those named in the modules, and no others: `BuilderAssumption`,
`SliceAssumption`, `CombineAssumption`, `StreamAssumption`, `DigestAssumption`, `CAbiAssumption`, `BlocksAssumption`,
`HashAssumption`, `ManifestAssumption`, `ShrinkAssumption`, `RngAssumption`, `CaseGenAssumption`,
`HarnessAssumption`, `DriverAssumption`, `ArgsAssumption`, `TextAssumption`, `FuzzArgsAssumption`,
`BenchAssumption`. (`PartsAssumption` says the like of what `fuzz_batch` instantiates.) They say
what kind of thing the constants are (kernels of width 8, 16, 32 or 64 with a
polynomial of that width, messages of bytes, a non-empty list of algorithms, a positive
budget). Three say more. `ArgsAssumption` says what it is to mean something: that a file is not an
option, that a value glued to a short option does not begin with '=', that junk is a word the
program has no use for, that nothing but files is meant behind "--". The words themselves can be
anything. `FuzzArgsAssumption` says that a seed has enough hexadecimal digits and that the default batch is
a number. `BenchAssumption` says of the bytes what their generator does (none is white space or beyond
125), that a sentence is shorter than its buffer, and that no machine reads the largest buffer, the last one in the table,
faster than the clock's shortest batch. TLC evaluates each on the runs.

*Induction.* The library's induction theorems take a predicate as a parameter, which these provers
cannot instantiate. FoldLemmas states induction with sets: a set of naturals that has 0 and, of
each of its numbers, the next has them all (`NatSetInduction`), and the like for sequences and Append
(`SeqSetInduction`). Both rest on two theorems of the library without such a parameter, that < is
well-founded on the naturals and that a non-empty set has a minimal member. With them
it shows that the recursive function inside the community modules' `FoldLeft` exists and is
unique (`IterExists`, `IterUnique`), and so the equations of a fold: `FoldEmpty`, `FoldAppend`, and then
`FoldType`, `FoldConcat`, `FoldPrefix`. The folded operator is a CONSTANT of the module, so each loop of the code
gets these facts by an INSTANCE.

*Linearity.* `XorAlgebra` (symmetric difference is commutative, associative, its own
inverse) gives `ShiftLinear` for one bit, eight of those give `RowLinear`, and with
`HeadRestLinear` (the byte that indexes the table and the rest of the register)
`UpdateLinear`: stepping the xor of two registers with the xor of two bytes is the
xor of the two steps. Everything else in this part is a consequence.

*Slice-by-8.* `OneByte` moves one byte of a register through a step; eight of them,
with `NothingLeft` (no register is wider than a block), give
`BlockIsEightUpdates`. `SlicedIsByteLoop` is then inductive together with the type
invariant, which the proof needs because the register must lie in its width for
nothing to be left after eight bytes.

`ReturnsByteFold` adds that the comparison register is the fold of the bytes before `pos`, and that these are
all of them once a call is done (`Progress`, by `FoldPrefix`).

*Tables.* `TwoRegistersAreOne` is not inductive: a turn compares the low bit of both
registers, and after k turns the second register must still hold the unshifted part
of the index and nothing else. `BuildInv` adds that, and that the turns done so far give
the register of the one-register loop (`AfterTurns`). `RowsAreRows` follows when a
row is stored after the eighth turn.

*Combine.* `SplitIdentity` is inductive by linearity: a byte `b` into `zeros ^^ partB`
is a zero byte into the one and `b` into the other. Initially it says that the
correction `init ^ xorout` is the right one. For the result, `CombineInv` says of `advance()` that `power` is
the operator of p zero bytes, for some p, and that advancing the register by p times the
remaining length gives `zeros`: squaring doubles p (`SquareDoubles`, which needs that a linear operator is
known by its values on single bits, `TimesIsAdvanced`), an odd length takes p from the rest, and at
length zero nothing is left to advance. `FoldConcat` makes the whole of the two parts.

*Streaming.* `StreamInv`: each state is what one update with all the bytes delivered so far would have made
of a fresh one. A chunk keeps it by `FoldConcat`, but for NMEA, whose one-shot function cuts its
sentence out first while the state looks at every byte: `NmeaDigest` says by induction that the flags are
up where the sentence ends, and `StripOfConcat` what a '$' at the head of the first
non-empty chunk does. Finishing is then the one-shot function, and a call a step of OneShotHash.

*Digests.* `DigestInv` says of each digest held that it `Tracks` what it has absorbed: its register is
that of one fold over all of it. A clone tracks what the original does.

*C ABI.* `AbiInv` says that what has been touched is the bytes up to the scan's local, and that this is before
the first terminator (`StopIsFirst`), where `ScanStop` leaves it. That the port's checksum of the
slice is the original's of the sentence (`SumOfSlice`) is an induction over the bytes: exclusive or is
the parity of each bit (`XorIsOdds`), and the '$' skipped is the port's `strip_prefix`.

*Fuzzer's blocks.* `BlocksInit` to `Compare` keep `BlocksInv`: in the loops the twelve values (with SICK's
byte before, `Running`) are folds of the bytes so far, by `FoldPrefix`, and `Finished` does to them what the
one-shot functions do at their end (`FinishedIsOneShot`). `DecodedIsEncoded` says that decoding gives
the block back: the values' places do not overlap (`SlotsApart`), and a word is put together again
from its bytes (`Reassembled`). `NmeaOfCString` says that the checksum of the C string is that of the
payload, because a sentence ends at its first NUL at the latest. So the two first blocks are equal, unless the
sabotage has turned a bit of `crc_kermit`, which no exclusive or leaves as it was.

*Exit status.* `ExitTellsFailure` relates the status to every input that was
processed, so `IInv` has three parts: how far the loop is (`Progress`: an outcome for
each input before the turn), that `failed` holds exactly when one of them is an error
(`FailureRemembered`), and that the status came from `failed` (`StatusFromFailed`).

*Two streams.* `LogInOrder` compares what has gone out with `due`, what the inputs hashed so
far call for; that is not inductive, because a line leaves the buffer long after its input was
hashed. `NothingLost` says where everything that is due stands: what went out, what the buffer
holds and what the input at `turn` still has to write (`Rest`) make up `due`, whatever the
buffer did. So what went out is a beginning of it (`LogIsPrefix`), which `OutputStopped` keeps
once the output has failed; and when a run ends without an error the buffer and `Rest` are empty and
nothing is missing. `StdinReadOnce` is the part about standard input.

*Checking a manifest.* `IInv` has four parts. `Progress` says what the groups are, declaratively: all
entries of a path in the order of the manifest, groups in the order of the first mention of
their paths, none empty (`Grouped`), which `GroupByPath` is shown to build by induction over the manifest; and that the
reads so far are of the paths of the groups so far. So no path is read twice. `Counted` says that the counters are
numbers of entries of the *manifest*, whatever the grouping: summing over the groups done is summing
over the list, because the groups part it. `StatusFromCounts` is the last line of `verify`.
`Streams` is the conservation of messages of HashInputs, for this program: what went out, what is
buffered and what is still to be said make up what the files read call for.

*Shrinker.* The budget needs the phases: each loop tests it before a probe, and the
first probe is free because the budget is positive. The refinement needs `KeepInv`
(what is kept is a sequence in the fault, no longer than the argument);
`StepIsAbstract` maps each action to a step of Minimise or to a stutter. `LastByteIsNeeded` is inductive
with it: an accepted cut leaves the step positive unless nothing is left, and a refused one makes it zero only
from one, when the candidate refused was the input without its last byte.

*Generator.* Each of the three lines of `next_u64` is `x ^ (x shifted by n)`, which can be
undone from the end of the word the shift moves away from (`TurnedInjective`). Zero goes to zero, so
nothing else does: `NeverZero` is inductive, and `StayApart` holds of every step. The
multiplication of the output does not touch the state and is not needed.

*Harness.* `HarnessInv` says where the harness stands: before a case, at the cell where that case's record
begins in the batch as it was written (`StartOf`), with the memory as it was read; while it
computes, one record on, with a NUL in that cell and the cell's content in `saved`. So the byte that is put
back is the one that was taken, also where it is the flag of the next header, and what is answered is
the case's own, wherever the file ends. Then each action is a step of OracleRun or a stutter.

*Writer.* `MadeOf(p)` is the case of index p as a function of p alone; `WriterInv` says that what stands in the
scratch buffer is it, and that a batch is `Framed`: the n-th span says where the case of its index lies,
and the next begins behind it. A walk by lengths is then an induction over the spans, and two
batches agree on an index because both hold `MadeOf` of it. That each of the thirteen classes leaves bytes
(`GeneratedTyped`) needs the bound of `below` (`BelowTyped`: the high word of a product is below its factor).

*Fuzzers.* Every step is one of a single fuzzer (`StepIsOwn`) and leaves alone what the others
have and the files of other directories (`Frame`), so that the invariant is one of each
fuzzer and is preserved for the one that moves and for the others separately. Its parts: `Typed`;
`Faithful`, that a fuzzer with a directory of its own reads at each step of a call what it wrote, or
nothing; `Counted`, that the counter is the number of the cases compared that really differ, and
not below it in company; `Verdict`, how the status, the log and the counter hang together;
`Stream`, that what was compared is the interval from `--start` and the batch begins where it
ends; and `Listed`, that the divergences recorded are the first of those met, as many as there is room for, the
one being shrunk included. `Counted` needs `Faithful` for the answers; why company cannot hide a divergence
is in `MixCounts`: answers that are not those asked for differ.

*Numbers as text.* `Digits` is a recursive function, and its inverse a fold. `DigitsRead` shows by
induction over the number that the fold of its digits is the number again, in either radix; that what is
written is `AllDigits` and has no blank, no sign and no 'x' at its head decides which way `Numeral` takes. So
`Numeral(Decimal(n))` and `Numeral(Hexadecimal(n, w))` are `{n}` for every u64, whatever the zeros in front.

*Manifest.* `TextInv` says that the text is `Written`: split at its newlines it is a list of lines that are each
a comment, blank, or one printed line, each with or without a carriage return at its end, and
the printed ones in order are `printed`; and while it is parsed, that the entries are those of the lines taken
(`Progress`). Printing appends a line, and `ToCrLf` puts a carriage return at the end of each. What
remains is that a printed line is read as what was printed: `NextField` finds the name and then the value because neither
has white space in it, and the path is what is left because it does not begin with any.

*Log.* `FuzzInv` follows the second run: the words it was given are those of the
line it was started from (`Order`, one option and its value after another), which the shell has not taken apart
further; at each moment the words consumed are a number of whole options, and of each option read the
value is what the log promises, of the others the default. The values are read back by the lemmas on
numbers.

*Command line of `crc`.* `MeansWhatItSays` speaks of the end, so `ArgsInv` says where the parser is. In the line
(`InLine`), the words taken are those of the first n items, and the options are what these items mean
(`OptionsOf`), their algorithms without repetitions (`Dedupe`). Behind "--" (`InRest`), the options are
what all items mean, and the files are those in front of it and the words read since. That an item is taken
for what it is rests on `SplitFlag` (`SeesOption`): a long flag ends at its first '=', a short one after one
piece, so that in every form the flag is the item's and the value is the attached text or the next
word, whatever that looks like. Junk is refused where it stands (`Refused`), and nothing else is.
`DedupeByMention` shows that what is left after dropping repetitions is in the order of first mention.

*Benchmark.* `BenchInv` says that all bytes of both buffers but the first are as they were filled, and what the
first is: from the workload that fills the clock in one call on, '0', because call 0 of a batch writes '0' and
such a batch has one call (`OneCall`, `ZeroIsLeft`). Workloads that write before they read do not see it; those that do not
come later. So what a workload was timed on is one sequence of bytes, the same in both drivers
(`TimedOnCanon`).

*Types.* Each part's type invariant is a theorem: of fuzz_batch `RngNeverZero`, `HarnessTyped`, `BlocksTyped` and
`WriterTyped`; of interfaces `DigestsTyped`, `CallTyped`, `RunnableOptionsAlways`, `ManifestTyped`,
`FuzzOptionsTyped` and `BenchTyped`. They are more than ranges. A digest's register is the fold of
what it absorbed, because `DigestInv` ties it to the catalogue's loop. A value computed by either side
keeps its C width because every update keeps the register of its kernel (`FoldsTyped`), SICK's pair of bytes
included (`SickPairTyped`). A scan stays in the caller's memory
because the terminator it has not met yet lies ahead. The entries of a manifest have a
path that neither begins with white space nor ends in a carriage return, whatever was printed into it,
because `NextField` and the trim of the line leave none (`ParseLineTyped`, `TrimCrTyped`). That a batch of the
benchmark is a power of two is stated without powers, which the provers do not know: it has no odd
divisor, and doubling gives it none (`OddDivisor`).

**What is model-checked only.** Liveness (`Terminates`, `Returns`, `Ends`), which is out of this
prover's reach. `TranscribedIsComputed`, a statement about two literal tables of 256 registers, which TLC evaluates in
full. And `AllTyped` of the two runs that have one, as a single formula over an MC module with its idle parts: each of
its conjuncts is a theorem about the specification of its part, which is where it says something.
Every other property of a passing run is a theorem.
No module declares a RECURSIVE operator.


## 5 Where the code and its documents disagree

1. **check_exit.** `crc --check` can exit 0 after it found a mismatch, when the reader of
   its output goes away: the broken pipe replaces the status of the verification
   (`main.rs:67`). README.md:95-96 promises non-zero on any mismatch. The exception is
   deliberate for hashing (`error.rs:26-27`); `--check` inherits it.
2. **fuzz_replay.** The log's replay line leaves out `--start` (`report.rs:186`), so it
   does not replay a run that was started elsewhere than at case 0.

Smaller ones met on the way, which the models show but no run is spent on:

* A run of the fuzzer that found divergences and then meets a failing oracle exits without a
  log (`main.rs:397`), and a log lists the first 20 divergences only; `main.rs:10-11` says
  that any disagreement is written to the log. The counter and the exit status are right
  (`CountIsExact`, `ExitTellsOutcome`).
* UNSAFE.md:118 justifies a slice by saying that its length is the index of the NUL; the
  scan stops at '*', CR and LF too (`lib.rs:170` of the C ABI). The code is right
  (`AsTheOriginal`), the written argument is out of date.
* `crc -hex FILE` is `-h` with a value that nobody looks at, and prints the help with status
  0 (`args.rs:59`). The comment at args.rs:248-249 wants mistyped flags refused.
* A path that begins with a space is read back without it (`check.rs:170`); help.rs:41-42
  promises a round trip that preserves spaces in paths. `RoundTrip` says for which paths it
  does (`Carried`).
* Two fuzzers that were started with the same `--workdir`, which has a default and no lock, can
  report divergences that are none (`oracle.rs:85`): `validate` knows the number of answers and not
  whose they are. None can be missed, and the exit statuses stay consistent (`CountIsExact`, `ExitTellsOutcome`).
* `--seconds nan` and `--seconds inf` pass the test for a negative number (`main.rs:121` of the
  fuzzer) and panic in `Duration::from_secs_f64` (376), with `--cases` too, where nothing uses the
  deadline (`Panic` of FuzzArgs).
* A seed from the clock may be zero; then the run uses seed 0, and its log's `--seed 0` asks for another
  seed from the clock. The long replay line prints the oracle's path without quotes, and `--workdir`
  and `--log` as literals (`report.rs:189-195`). `LogIsReadBack` says which logs it is true of.
* The log claims 65,535, 65,536, 65,537 and 262,144 byte buffers in four fill patterns
  (`report.rs:278`); only those of 65,536 have four (`cases.rs:243-249`, `Readable` of Corpus).
* The benchmark's "both sides see the same bytes" (`main.rs:283-285`) is true of `bytewise` and
  `manysmall` only because the largest one-shot buffer, the last to write its digit over the first
  byte, fills the clock in one call on any machine. With the table in another order it would not
  be (the mutant of `SameBytes`).


## 6 Abstractions, and what is not modelled

* A file's bytes matter in ChecksumStream only. In HashInputs and CheckManifest a call of
  the hash is one step whose outcome is a checksum of the whole input or an error,
  which is what `CallIsOneShot` allows. That a call comes back at all, however often a
  signal interrupts it, is assumed.
* Standard input is "all" there, "nothing" left, or, after a read that failed in the
  middle, "rest".
* In CheckManifest the lines of a manifest are entries, blank (comments included) or malformed; their
  spelling is the matter of ManifestText, and the columns of what is printed are left out.
* A sink that broke stays broken. One that is full stays full until the program
  ends, which it does at the first error.
* The tail of `crc_8` uses the computed row, the code a transcribed table:
  `TranscribedIsComputed` says that it is the same table.
* In FuzzDriver both sides' results are "differ" or "agree", and two cases that are not the same have
  results that differ: checksums that collide in all 25 comparisons are left out. Which candidate a
  probe holds is left to Shrink. A file that two processes write at once may read as any mix of cases
  and garbage, cell by cell. Its standard output stays open: where it is closed, `println!` panics,
  and the fuzzer is gone with status 101 and, before the end of the run, without a log.
* In Args and AlgoNames a text without `-`, `_`, `=` or `,` is one piece; of capitals, only those of the
  command lines in the runs have a lower case; UTF-8 is out of sight.
* In FuzzArgs an f64 has no fractions and exponents, a flag is two pieces, and sums wrap as
  they do in a release build.
* In Bench the algorithms of one kind and size are one workload, `manysmall` reads one region, and time is
  a choice, but for a buffer that no machine reads in 200 microseconds.
* In OracleHarness the four bytes of a length are one cell; a case's answer is what the functions
  read. ResultBlocks computes the answers, for one case.
* CaseGen's generator is a table of draws. Rng's is the real one. The two meet in
  `Rng::for_case`: every case has a generator of its own.
* CAbi's `update_crc_*` exports forward their arguments and are not repeated.

Not modelled: `help.rs` (text); the wording of the report; of the benchmarks, the modes that measure
the clock, the first call and the memory (they keep no state), and the statistics of `analyze.mjs`,
which are arithmetic on real numbers; the tests and examples, read as references. The soak test
(`tests/concurrency/soak.c`) calls from many threads what has no state in this port.


## 7 Plan

Order: what everything rests on first (kernels, tables), then the places where one
function is computed in two ways, then the sequential programs with a hostile
environment, then the rest.

Done: Registers, ByteCrc, TableBuild, SliceBy8, CrcLibrary, Combine, ChecksumStream,
CliOutput, HashInputs, CheckManifest, Minimise, Shrink, FuzzDriver (any number of fuzzers, `--case`),
FuzzArgs, OracleHarness, ResultBlocks, Corpus, CaseGen, Rng, Digests, CAbi, AlgoNames, Numerals, Args,
ManifestText, Bench, with the theorems of section 4.

To model: `BenchStats`, the counting part of `analyze.mjs`. FuzzDriver's harness as steps of
OracleRun, instead of the same outcomes stated twice.

To prove, once FuzzDriver takes the steps of OracleRun: that `Counted` and `Faithful` hold of the composition, where
`HarnessImplementsRun` then says that the C program is behind it.
