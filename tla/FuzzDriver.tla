----------------------------- MODULE FuzzDriver -----------------------------
(***************************************************************************)
(* The run loop of the differential fuzzer and the batch protocol it      *)
(* speaks with the C library: a batch of cases is written to cases.bin,   *)
(* the oracle harness is run once to turn it into results.bin, and the    *)
(* results are read back, validated and compared case by case.  The       *)
(* self-check, the shrinker and --case go through the same two files, and *)
(* so do other fuzzers that were started with the same --workdir, which   *)
(* has a default and no lock.                                             *)
(*                                                                         *)
(* A case is its seed and index (cases.rs); those of the fixed corpus are *)
(* the same for every seed.  Two cases that are not the same have results *)
(* that are not the same: checksums that collide in all 25 comparisons    *)
(* are left out.  Which candidate a probe of the shrinker holds, and what *)
(* it does with the answer, is module Shrink; here a probe is one more    *)
(* use of the files.                                                      *)
(***************************************************************************)
EXTENDS Integers, SequencesExt

CONSTANTS
  Fuzzers,        (* processes                                             *)
  Plans,          (* a plan gives the fuzzers that are started their       *)
                  (* arguments [seed, start, batch, target, workdir, case] *)
  Faults,         (* a fault is the set of cases on which the libraries    *)
                  (* differ                                                *)
  FIXED,          (* cases of the fixed corpus                             *)
  MaxCases,       (* bound: the cases a run with --seconds gets through    *)
  MAX_RECORDED_DIVERGENCES,
  MAX_SHRINK_CALLS

CaseOf(seed, index) == IF index < FIXED THEN <<0, index>> ELSE <<seed, index>>

(* The literal inputs of the self-check and of the shrinker, and bytes    *)
(* that are not a whole case, or not the results of one.                  *)
Check == <<0, -1>>
Probe == <<0, -2>>
Other == <<0, -3>>

Timed  == -1      (* the target of a run with --seconds                    *)
NoCase == -1      (* no --case                                             *)

ASSUME DriverAssumption ==
  /\ \A args \in Plans : DOMAIN args \subseteq Fuzzers
  /\ \A args \in Plans : \A p \in DOMAIN args :
       /\ args[p].seed \in Nat \ {0}
       /\ args[p].start \in Nat
       /\ args[p].batch \in Nat \ {0}
       /\ args[p].target \in Nat \cup {Timed}
       /\ args[p].case \in Nat \cup {NoCase}
  /\ \A differ \in Faults : differ \subseteq (Nat \X Nat)
  /\ FIXED \in Nat /\ MaxCases \in Nat
  /\ MAX_RECORDED_DIVERGENCES \in Nat
  /\ MAX_SHRINK_CALLS \in Nat \ {0}

VARIABLES
  plan, fault,
  casesFile,      (* of each work directory: [of, is], the cases a file is *)
  resultsFile,    (* about, and "whole", "short", "opened" (it was cut to  *)
                  (* nothing and is being written) or "mixed" (two wrote)  *)
  pc,             (* of each fuzzer; see CallSteps                         *)
  asked,          (* the cases of the call of Oracle::run                  *)
  input,          (* the cases its harness has read                        *)
  batch,          (* the cases of the batch                                *)
  answers,        (* the cases its results in memory are about             *)
  at,             (* position in the batch                                 *)
  cases,          (* stats.cases                                           *)
  next_index,
  probes,         (* calls of the shrinker                                 *)
  divergences,    (* stats.divergences                                     *)
  recorded,       (* the cases in the divergences vector                   *)
  compared,       (* what stats.stream_digest was fed                      *)
  log,            (* [listed, replay, drive]: the divergences listed, and  *)
                  (* the cases its two replay commands ask for; or NoLog   *)
  status          (* the exit status, or Running                           *)

Running == -1
NoLog   == [written |-> FALSE]

started == <<plan, fault>>
files   == <<casesFile, resultsFile>>
call    == <<asked, input>>
loop    == <<batch, answers, at, cases, next_index>>
found   == <<divergences, recorded, compared>>
outcome == <<log, status>>
vars    == <<plan, fault, casesFile, resultsFile, pc, asked, input, batch, answers, at,
             cases, next_index, probes, divergences, recorded, compared, log, status>>

-----------------------------------------------------------------------------
Started == DOMAIN plan
Dir(p)  == plan[p].workdir
Dirs    == {Dir(p) : p \in Started}

(* The steps of Oracle::run: write the file, spawn, wait; and the harness *)
(* exited with success, or it did not.                                    *)
CallSteps == {"open", "write", "spawned", "answer", "results", "ran", "failed"}

Interval(seed, first, n) == [k \in 1 .. n |-> CaseOf(seed, first + k - 1)]

(* Another fuzzer has the same file open, where `step` writes it. *)
Shared(p, step) == \E q \in Started \ {p} : Dir(q) = Dir(p) /\ pc[q] = step

Cut(file, p, step) ==
  [file EXCEPT ![Dir(p)].is = IF Shared(p, step) THEN "mixed" ELSE "opened"]

Fill(file, p, content) ==
  [file EXCEPT ![Dir(p)] =
     [of |-> content, is |-> IF @.is = "opened" THEN "whole" ELSE "mixed"]]

Short == [of |-> <<>>, is |-> "short"]

(* What a reader that tolerates no missing bytes may get from a file. *)
Readings(file) ==
  CASE file.is = "short" -> {}
    [] file.is = "whole" -> {file.of}
    [] OTHER -> {r \in [DOMAIN file.of -> ToSet(file.of) \cup {Other}] :
                   \A k \in DOMAIN file.of : r[k] \in {file.of[k], Other}}

(* Mutant: the exit status is not looked at. *)
RanWhateverStatus(p) == pc[p] \in {"ran", "failed"}

Ran(p) == pc[p] = "ran"

(* Oracle::validate: the magic, the number of answers and the length of   *)
(* the file.                                                              *)
Replies(p) == {r \in Readings(resultsFile[Dir(p)]) : Len(r) = Len(asked[p])}

Ask(p, content) ==
  /\ asked' = [asked EXCEPT ![p] = content]
  /\ pc' = [pc EXCEPT ![p] = "open"]

Goto(p, step) == pc' = [pc EXCEPT ![p] = step]

Exit(p, code) ==
  /\ Goto(p, "ended")
  /\ status' = [status EXCEPT ![p] = code]

-----------------------------------------------------------------------------
(* --case asks about its case at once; a run checks the oracle first. *)
Init ==
  /\ plan \in Plans
  /\ fault \in Faults
  /\ casesFile   = [d \in Dirs |-> Short]
  /\ resultsFile = casesFile
  /\ pc = [p \in Started |-> "open"]
  /\ asked = [p \in Started |-> IF plan[p].case = NoCase THEN <<Check>>
                                ELSE <<CaseOf(plan[p].seed, plan[p].case)>>]
  /\ input = [p \in Started |-> <<>>]
  /\ batch = [p \in Started |-> <<>>]
  /\ answers = [p \in Started |-> <<>>]
  /\ at = [p \in Started |-> 1]
  /\ cases = [p \in Started |-> 0]
  /\ next_index = [p \in Started |-> plan[p].start]
  /\ probes = [p \in Started |-> 0]
  /\ divergences = [p \in Started |-> 0]
  /\ recorded = [p \in Started |-> <<>>]
  /\ compared = [p \in Started |-> <<>>]
  /\ log = [p \in Started |-> NoLog]
  /\ status = [p \in Started |-> Running]

(* fs::write(cases_path): the file is cut to nothing, then filled. *)
OpenCases(p) ==
  /\ pc[p] = "open"
  /\ casesFile' = Cut(casesFile, p, "write")
  /\ Goto(p, "write")
  /\ UNCHANGED <<started, resultsFile, call, loop, probes, found, outcome>>

WriteCases(p) ==
  /\ pc[p] = "write"
  /\ casesFile' = Fill(casesFile, p, asked[p])
  /\ Goto(p, "spawned")
  /\ UNCHANGED <<started, resultsFile, call, loop, probes, found, outcome>>

(* The harness reads all cases, ... *)
ReadCases(p) ==
  /\ pc[p] = "spawned"
  /\ \E r \in Readings(casesFile[Dir(p)]) : input' = [input EXCEPT ![p] = r]
  /\ Goto(p, "answer")
  /\ UNCHANGED <<started, files, asked, loop, probes, found, outcome>>

(* ... or cannot be run, cannot read or hold them, finds them malformed   *)
(* or cannot open the results, which stay as they were.                   *)
HarnessRefuses(p) ==
  /\ pc[p] \in {"spawned", "answer"}
  /\ input' = [input EXCEPT ![p] = <<>>]
  /\ Goto(p, "failed")
  /\ UNCHANGED <<started, files, asked, loop, probes, found, outcome>>

OpenResults(p) ==
  /\ pc[p] = "answer"
  /\ resultsFile' = Cut(resultsFile, p, "results")
  /\ Goto(p, "results")
  /\ UNCHANGED <<started, casesFile, call, loop, probes, found, outcome>>

(* One fwrite; that the last fclose cannot flush is not told. *)
WriteResults(p) ==
  /\ pc[p] = "results"
  /\ \/ resultsFile' = Fill(resultsFile, p, input[p]) /\ Goto(p, "ran")
     \/ /\ resultsFile' = [resultsFile EXCEPT ![Dir(p)] = Short]
        /\ Goto(p, "ran") \/ Goto(p, "failed")
  /\ input' = [input EXCEPT ![p] = <<>>]
  /\ UNCHANGED <<started, casesFile, asked, loop, probes, found, outcome>>

(* An I/O error where the cases are written or the results read, or a     *)
(* failed run of the harness.                                             *)
CallFails(p) ==
  /\ pc[p] \in {"open", "write", "ran", "failed"}
  /\ casesFile' = IF pc[p] = "write" THEN [casesFile EXCEPT ![Dir(p)] = Short] ELSE casesFile
  /\ UNCHANGED resultsFile

-----------------------------------------------------------------------------
(* oracle_self_check: the values recorded from upstream. *)
SelfCheckPasses(p) ==
  /\ Ran(p) /\ asked[p] = <<Check>>
  /\ <<Check>> \in Replies(p)
  /\ Goto(p, "head")
  /\ UNCHANGED <<started, files, call, loop, probes, found, outcome>>

(* Other values: the fuzzer refuses to start. *)
SelfCheckFails(p) ==
  /\ Ran(p) /\ asked[p] = <<Check>>
  /\ Replies(p) # {}
  /\ Exit(p, 2)
  /\ UNCHANGED <<started, files, call, loop, probes, found, log>>

(* dump_case shows both sides; whether they agree is not told otherwise. *)
DumpCase(p) ==
  /\ Ran(p) /\ plan[p].case # NoCase
  /\ Replies(p) # {}
  /\ Exit(p, 0)
  /\ UNCHANGED <<started, files, call, loop, probes, found, log>>

(* Mutant: a batch whose call failed is tried again. *)
OracleRetried(p) ==
  /\ asked[p] # <<Probe>>
  /\ CallFails(p)
  /\ Goto(p, "open")
  /\ UNCHANGED <<started, call, loop, probes, found, outcome>>

(* run() returns Err: no log is written. *)
OracleFails(p) ==
  /\ asked[p] # <<Probe>>
  /\ CallFails(p)
  /\ Exit(p, 2)
  /\ UNCHANGED <<started, call, loop, probes, found, log>>

(* The head of the loop: the target is reached, or the time is up. *)
Stop(p) ==
  /\ pc[p] = "head"
  /\ plan[p].target = Timed \/ cases[p] >= plan[p].target
  /\ Goto(p, "log")
  /\ UNCHANGED <<started, files, call, loop, probes, found, outcome>>

BatchSize(p) ==
  IF plan[p].target # Timed /\ plan[p].target - cases[p] < plan[p].batch
  THEN plan[p].target - cases[p]
  ELSE plan[p].batch

NextBatch(p) ==
  /\ pc[p] = "head"
  /\ IF plan[p].target = Timed THEN cases[p] + plan[p].batch <= MaxCases
                               ELSE cases[p] < plan[p].target
  /\ batch' = [batch EXCEPT ![p] = Interval(plan[p].seed, next_index[p], BatchSize(p))]
  /\ Ask(p, batch'[p])
  /\ UNCHANGED <<started, files, input, answers, at, cases, next_index, probes, found,
                 outcome>>

BatchAnswered(p) ==
  /\ Ran(p) /\ plan[p].case = NoCase /\ asked[p] \notin {<<Check>>, <<Probe>>}
  /\ \E r \in Replies(p) : answers' = [answers EXCEPT ![p] = r]
  /\ Goto(p, "compare")
  /\ UNCHANGED <<started, files, call, batch, at, cases, next_index, probes, found, outcome>>

-----------------------------------------------------------------------------
AtCase(p)     == pc[p] = "compare" /\ at[p] <= Len(batch[p])
ThisCase(p)   == batch[p][at[p]]
Mix(p)        == compared' = [compared EXCEPT ![p] = Append(@, ThisCase(p))]
Advance(p)    == at' = [at EXCEPT ![p] = @ + 1]

(* Mutant: the C side is asked whether it has the fault. *)
DifferInAnswer(p) == answers[p][at[p]] \in fault

(* Mutant: the answers are read from the file as they are needed. *)
DifferOnDisk(p) == ThisCase(p) \in fault \/ resultsFile[Dir(p)].of # batch[p]

(* compare(): the two libraries were given the same case and differ on    *)
(* it, or were not given the same case.                                   *)
Differ(p) == ThisCase(p) \in fault \/ answers[p][at[p]] # ThisCase(p)

CaseAgrees(p) ==
  /\ AtCase(p) /\ ~Differ(p)
  /\ Mix(p)
  /\ Advance(p)
  /\ UNCHANGED <<started, files, pc, call, batch, answers, cases, next_index, probes,
                 divergences, recorded, outcome>>

(* A divergence is counted; the first ones are also shrunk, ... *)
ShrinkDivergence(p) ==
  /\ AtCase(p) /\ Differ(p)
  /\ Len(recorded[p]) < MAX_RECORDED_DIVERGENCES
  /\ Mix(p)
  /\ divergences' = [divergences EXCEPT ![p] = @ + 1]
  /\ probes' = [probes EXCEPT ![p] = 1]
  /\ Ask(p, <<Probe>>)
  /\ UNCHANGED <<started, files, input, loop, recorded, outcome>>

CountDivergence(p) ==
  /\ AtCase(p) /\ Differ(p)
  /\ Len(recorded[p]) >= MAX_RECORDED_DIVERGENCES
  /\ Mix(p)
  /\ divergences' = [divergences EXCEPT ![p] = @ + 1]
  /\ Advance(p)
  /\ UNCHANGED <<started, files, pc, call, batch, answers, cases, next_index, probes,
                 recorded, outcome>>

(* A probe that is answered, or fails, which is no answer, is followed by *)
(* the next one ...                                                       *)
ProbeAgain(p) ==
  /\ asked[p] = <<Probe>>
  /\ CallFails(p)
  /\ probes[p] < MAX_SHRINK_CALLS
  /\ probes' = [probes EXCEPT ![p] = @ + 1]
  /\ Ask(p, <<Probe>>)
  /\ UNCHANGED <<started, input, loop, found, outcome>>

(* ... or is the last; the divergence is recorded.  *)
RecordDivergence(p) ==
  /\ asked[p] = <<Probe>>
  /\ CallFails(p)
  /\ recorded' = [recorded EXCEPT ![p] = Append(@, ThisCase(p))]
  /\ Advance(p)
  /\ Goto(p, "compare")
  /\ UNCHANGED <<started, call, batch, answers, cases, next_index, probes, divergences,
                 compared, outcome>>

(* Mutant: the count of cases is not carried to the next batch. *)
BatchDoneNotCounted(p) ==
  /\ pc[p] = "compare" /\ at[p] > Len(batch[p])
  /\ next_index' = [next_index EXCEPT ![p] = @ + Len(batch[p])]
  /\ at' = [at EXCEPT ![p] = 1]
  /\ Goto(p, "head")
  /\ UNCHANGED <<started, files, call, batch, answers, cases, probes, found, outcome>>

BatchDone(p) ==
  /\ pc[p] = "compare" /\ at[p] > Len(batch[p])
  /\ cases' = [cases EXCEPT ![p] = @ + Len(batch[p])]
  /\ next_index' = [next_index EXCEPT ![p] = @ + Len(batch[p])]
  /\ at' = [at EXCEPT ![p] = 1]
  /\ Goto(p, "head")
  /\ UNCHANGED <<started, files, call, batch, answers, probes, found, outcome>>

(* The short replay line of the log names the seed and the number of      *)
(* cases and leaves --start at its default; the long one names it too.    *)
DefaultStart == 0

LogOf(p) ==
  [written |-> TRUE,
   listed  |-> recorded[p],
   replay  |-> Interval(plan[p].seed, DefaultStart, cases[p]),
   drive   |-> Interval(plan[p].seed, plan[p].start, cases[p])]

(* render, write_log and the exit status. *)
WriteLog(p) ==
  /\ pc[p] = "log"
  /\ \/ /\ log' = [log EXCEPT ![p] = LogOf(p)]
        /\ Exit(p, IF divergences[p] = 0 THEN 0 ELSE 1)
     \/ UNCHANGED log /\ Exit(p, 2)
  /\ UNCHANGED <<started, files, call, loop, probes, found>>

Oracle(p) ==
  \/ OpenCases(p) \/ WriteCases(p) \/ ReadCases(p) \/ HarnessRefuses(p)
  \/ OpenResults(p) \/ WriteResults(p)

Driver(p) ==
  \/ SelfCheckPasses(p) \/ SelfCheckFails(p) \/ DumpCase(p) \/ OracleFails(p)
  \/ Stop(p) \/ NextBatch(p) \/ BatchAnswered(p)
  \/ CaseAgrees(p) \/ ShrinkDivergence(p) \/ CountDivergence(p)
  \/ ProbeAgain(p) \/ RecordDivergence(p) \/ BatchDone(p)
  \/ WriteLog(p)

Next == \E p \in Started : Oracle(p) \/ Driver(p)

Spec == Init /\ [][Next]_vars

(* Each fuzzer is a process, and waits only for a harness that makes one  *)
(* pass over a file.  That this ends is assumed: there is no timeout.     *)
FairSpec == Spec /\ \A p \in Fuzzers : WF_vars(p \in Started /\ (Oracle(p) \/ Driver(p)))

-----------------------------------------------------------------------------
(* No other fuzzer was given the same directory. *)
Alone(p) == \A q \in Started \ {p} : Dir(q) # Dir(p)

(* report.rs:202-203: "Batch size does not affect the stream".  Whatever  *)
(* the batch size, and whoever else uses the directory, the cases         *)
(* compared are the consecutive ones from --start on, none skipped or     *)
(* repeated where one batch ends and the next begins; a run with --cases  *)
(* that writes a log has compared exactly that many, and the long replay  *)
(* line of the log asks for the same cases again.                         *)
StreamIsConsecutive ==
  \A p \in Started :
    /\ compared[p] = Interval(plan[p].seed, plan[p].start, Len(compared[p]))
    /\ log[p].written =>
         /\ log[p].drive = compared[p]
         /\ plan[p].target # Timed => Len(compared[p]) = plan[p].target

Real(p) == {k \in DOMAIN compared[p] : compared[p][k] \in fault}

(* No divergence is ever missed, not even when other fuzzers overwrite    *)
(* the files, and when none does none is manufactured: although the       *)
(* self-check and every probe of the shrinker use the same two files in   *)
(* between, and a failed run leaves old answers behind, the counter is at *)
(* every moment the number of compared cases on which the libraries       *)
(* differ.                                                                *)
CountIsExact ==
  \A p \in Started :
    /\ Cardinality(Real(p)) <= divergences[p]
    /\ Alone(p) => divergences[p] = Cardinality(Real(p))

(* The divergences that were recorded: all but the one being shrunk. *)
Showing(differ, list) ==
  FoldLeft(LAMBDA kept, c : IF c \in differ THEN Append(kept, c) ELSE kept, <<>>, list)

Diverging(p) == Showing(fault, compared[p])
Shrinking(p) == pc[p] \in CallSteps /\ asked[p] = <<Probe>>
Done(p)      == IF Shrinking(p) THEN Front(Diverging(p)) ELSE Diverging(p)

FirstOf(list) ==
  IF Len(list) < MAX_RECORDED_DIVERGENCES THEN list ELSE SubSeq(list, 1, MAX_RECORDED_DIVERGENCES)

(* The list, which the log repeats, holds the first divergences in order, *)
(* whatever the probes in between did.                                    *)
FirstRecorded ==
  \A p \in Started :
    /\ Alone(p) => recorded[p] = FirstOf(Done(p))
    /\ log[p].written => log[p].listed = recorded[p]

(* The exit status of a run tells the three outcomes apart: 0 and 1 come  *)
(* with a log of the whole run; 0 only when no case of it diverged, and   *)
(* that even if the directory was shared; 1 only when one did, if it was  *)
(* not; 2 comes with no log.                                              *)
ExitTellsOutcome ==
  \A p \in Started : plan[p].case = NoCase =>
    /\ status[p] \in {0, 1} <=> log[p].written
    /\ status[p] = 0 => Real(p) = {}
    /\ status[p] = 1 /\ Alone(p) => Real(p) # {}

(* A run with --cases, and one with --case, ends, however often the       *)
(* oracle fails and whoever else uses the directory.                      *)
Ends ==
  \A p \in Fuzzers :
    (p \in Started /\ (plan[p].target # Timed \/ plan[p].case # NoCase))
      ~> (p \in Started /\ pc[p] = "ended")

(* report.rs:185-186: the log's first replay line is "bit-for-bit" the    *)
(* run.  It is not for a run that was started elsewhere than at case 0.   *)
ReplayIsTheRun == \A p \in Started : log[p].written => log[p].replay = compared[p]
=============================================================================
