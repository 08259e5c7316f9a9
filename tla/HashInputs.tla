----------------------------- MODULE HashInputs -----------------------------
(***************************************************************************)
(* `crc FILE...`: main::run in Mode::Run without --check, that is         *)
(* hash_inputs, the final flush and the exit status.  Each input is       *)
(* hashed in one call (module ChecksumStream: the checksums of the whole  *)
(* input, or an error), and a line is written for each algorithm.         *)
(***************************************************************************)
EXTENDS CliOutput

CONSTANTS
  FileLists,    (* the lists of files a command line may name; "-" is      *)
                (* standard input                                          *)
  Algos         (* the algorithms, in order                                *)

ASSUME HashAssumption == Algos \in Seq(STRING) \ {<<>>} /\ FileLists \subseteq Seq(STRING)

VARIABLES
  files,      (* options.files                                             *)
  turn,       (* index of the input being processed                        *)
  pc,         (* "input", "lines" or "failed"                              *)
  next,       (* index of the next algorithm to print                      *)
  failed,     (* the local of hash_inputs                                  *)
  stdin,      (* what standard input still holds: "all", "rest", "nothing" *)
  outcomes,   (* history: per input, what was hashed, or "error"           *)
  due         (* history: what they call for, on both streams              *)

vars == <<sink, buffer, log, error, status,
          files, turn, pc, next, failed, stdin, outcomes, due>>

-----------------------------------------------------------------------------
(* What a call of hash::checksums can have hashed: the file, or what is   *)
(* left of standard input.                                                *)
Hashed(path) == IF path = "-" THEN stdin ELSE "all"

Line(path, n, what) == [stream |-> "out", path |-> path, algo |-> Algos[n], of |-> what]
Complaint(path)     == [stream |-> "err", about |-> path]
Lines(path, what)   == [n \in DOMAIN Algos |-> Line(path, n, what)]

Init ==
  /\ CliInit
  /\ files \in FileLists
  /\ turn = 1
  /\ pc = "input"
  /\ next = 1
  /\ failed = FALSE
  /\ stdin = "all"
  /\ outcomes = <<>>
  /\ due = <<>>

(* Mutant: an input that succeeds clears the failure of those before it. *)
HashInputClearsFailed ==
  /\ Going /\ pc = "input"
  /\ turn <= Len(files)
  /\ outcomes' = Append(outcomes, Hashed(files[turn]))
  /\ due' = due \o Lines(files[turn], Hashed(files[turn]))
  /\ stdin' = IF files[turn] = "-" THEN "nothing" ELSE stdin
  /\ pc' = "lines"
  /\ next' = 1
  /\ failed' = FALSE
  /\ UNCHANGED <<cliVars, files, turn>>

(* Standard input is read to its end by whoever reads it first. *)
HashInput ==
  /\ Going /\ pc = "input"
  /\ turn <= Len(files)
  /\ outcomes' = Append(outcomes, Hashed(files[turn]))
  /\ due' = due \o Lines(files[turn], Hashed(files[turn]))
  /\ stdin' = IF files[turn] = "-" THEN "nothing" ELSE stdin
  /\ pc' = "lines"
  /\ next' = 1
  /\ UNCHANGED <<cliVars, files, turn, failed>>

(* The input cannot be opened or read; some of standard input may have    *)
(* been consumed.                                                         *)
HashFails ==
  /\ Going /\ pc = "input"
  /\ turn <= Len(files)
  /\ outcomes' = Append(outcomes, "error")
  /\ due' = Append(due, Complaint(files[turn]))
  /\ IF files[turn] = "-" /\ stdin # "nothing"
     THEN stdin' \in {stdin, "rest", "nothing"}
     ELSE UNCHANGED stdin
  /\ pc' = "failed"
  /\ UNCHANGED <<cliVars, files, turn, next, failed>>

PrintLine ==
  /\ Going /\ pc = "lines"
  /\ next <= Len(Algos)
  /\ WriteLine(Line(files[turn], next, outcomes[turn]))
  /\ next' = next + 1
  /\ UNCHANGED <<files, turn, pc, failed, stdin, outcomes, due>>

InputDone ==
  /\ Going /\ pc = "lines"
  /\ next > Len(Algos)
  /\ turn' = turn + 1
  /\ pc' = "input"
  /\ UNCHANGED <<cliVars, files, next, failed, stdin, outcomes, due>>

(* Mutant: the first unreadable input abandons the rest. *)
ReportInputAndStop ==
  /\ Going /\ pc = "failed"
  /\ FlushThenLog(<<Complaint(files[turn])>>)
  /\ failed' = TRUE
  /\ turn' = Len(files) + 1
  /\ pc' = "input"
  /\ UNCHANGED <<files, next, stdin, outcomes, due>>

(* The Err arm: stdout is flushed before stderr is written. *)
ReportInput ==
  /\ Going /\ pc = "failed"
  /\ FlushThenLog(<<Complaint(files[turn])>>)
  /\ failed' = TRUE
  /\ turn' = turn + 1
  /\ pc' = "input"
  /\ UNCHANGED <<files, next, stdin, outcomes, due>>

(* The end of hash_inputs and of run(). *)
AllInputsDone ==
  /\ Going /\ pc = "input"
  /\ turn > Len(files)
  /\ FinishRun(IF failed THEN 1 ELSE 0)
  /\ UNCHANGED <<files, turn, pc, next, failed, stdin, outcomes, due>>

Exit ==
  /\ Report
  /\ UNCHANGED <<files, turn, pc, next, failed, stdin, outcomes, due>>

Environment ==
  /\ SinkFails
  /\ UNCHANGED <<files, turn, pc, next, failed, stdin, outcomes, due>>

Program ==
  \/ HashInput \/ HashFails \/ PrintLine \/ InputDone \/ ReportInput
  \/ AllInputsDone \/ Exit

Next == Program \/ Environment

Spec == Init /\ [][Next]_vars

-----------------------------------------------------------------------------
(* main.rs: "One unreadable input does not abandon the rest" and "Keep    *)
(* the two streams in order for anyone reading a combined log": what has  *)
(* gone out is at every moment a beginning of what the inputs processed   *)
(* so far call for, lines and complaints interleaved in the order of the  *)
(* command line; only the program's last word may follow it.              *)
LogInOrder ==
  \/ IsPrefix(log, due)
  \/ /\ status # Running
     /\ error = "output"
     /\ IsPrefix(Front(log), due)

(* A run that was not stopped by its output leaves nothing out: all that  *)
(* the whole command line calls for has gone out before it exits.  And    *)
(* where "-" is named more than once, standard input goes whole to the    *)
(* first that can read it and the others get the checksums of nothing,    *)
(* not an error and not a part of it: what is printed twice under one     *)
(* name never differs by where a buffer happened to end.                  *)
CompleteOnExit ==
  status # Running /\ error = "none" =>
    /\ Len(outcomes) = Len(files)
    /\ log = due
    /\ \A t \in DOMAIN files, u \in DOMAIN files :
         t < u /\ files[t] = "-" /\ files[u] = "-" /\ outcomes[t] # "error" =>
           outcomes[u] \in {"nothing", "error"}

(* help.rs: exit status 0 is "everything requested succeeded", 1 "an      *)
(* input could not be read", for a run whose output was read to the end.  *)
ExitTellsFailure ==
  status # Running /\ error = "none" =>
    (status = 0 <=> \A t \in DOMAIN files : outcomes[t] # "error")
=============================================================================
