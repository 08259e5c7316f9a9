----------------------------- MODULE CliOutput -----------------------------
(***************************************************************************)
(* The two output streams of the crc command and the way it ends.         *)
(*                                                                         *)
(* The code writes its lines to an `impl Write` and flushes it where the  *)
(* order of the two streams or the exit status depends on it.  How much   *)
(* such a writer holds back is its own affair: a line may stay in the     *)
(* buffer or go out, with everything before it.  Whoever reads stdout may *)
(* close it at any moment, and the device behind it may fill up; the      *)
(* program sees that when something goes out.  stderr is unbuffered and   *)
(* its errors are ignored.                                                *)
(***************************************************************************)
EXTENDS Integers, SequencesExt

VARIABLES
  sink,       (* what is behind stdout: "open", "broken" or "full"         *)
  buffer,     (* lines written to stdout that have not gone out            *)
  log,        (* both streams as they went out, in order                   *)
  error,      (* the CliError that ended the run, or "none"                *)
  status      (* the exit status, or Running                               *)

(* Not an exit status: the process has not ended. *)
Running == -1

cliVars == <<sink, buffer, log, error, status>>

CliInit ==
  /\ sink = "open"
  /\ buffer = <<>>
  /\ log = <<>>
  /\ error = "none"
  /\ status = Running

(* The program takes its next step only while no error has ended run(). *)
Going == status = Running /\ error = "none"

(* Whoever is behind stdout goes away, at any moment. *)
SinkFails ==
  /\ status = Running
  /\ sink = "open"
  /\ sink' \in {"broken", "full"}
  /\ UNCHANGED <<buffer, log, error, status>>

-----------------------------------------------------------------------------
(* Mutant: a write that fails for want of space is tried again. *)
OutputErrorRetried ==
  /\ sink = "broken"
  /\ error' = "broken_pipe"
  /\ UNCHANGED <<buffer, log>>

(* Err(Output(..)): a broken pipe, or another error.  The program gives   *)
(* up, and what was still in the buffer is lost.                          *)
OutputError ==
  /\ sink # "open"
  /\ error' = IF sink = "broken" THEN "broken_pipe" ELSE "output"
  /\ UNCHANGED <<buffer, log>>

(* writeln!(out, line)?: the line is held back, or it goes out with what  *)
(* was held back before it, or the write fails.                           *)
WriteLine(line) ==
  /\ \/ /\ buffer' = Append(buffer, line)
        /\ UNCHANGED <<log, error>>
     \/ /\ sink = "open"
        /\ buffer' = <<>>
        /\ log' = log \o Append(buffer, line)
        /\ UNCHANGED error
     \/ OutputError
  /\ UNCHANGED <<sink, status>>

(* out.flush()?, and then what there is to say on stderr. *)
Flush(messages) ==
  \/ /\ sink = "open" \/ buffer = <<>>
     /\ buffer' = <<>>
     /\ log' = log \o buffer \o messages
     /\ UNCHANGED <<sink, error>>
  \/ /\ buffer # <<>>
     /\ OutputError
     /\ UNCHANGED sink

(* Mutant: stderr is written without flushing stdout first. *)
LogWithoutFlush(messages) ==
  /\ log' = log \o messages
  /\ UNCHANGED <<sink, buffer, error, status>>

FlushThenLog(messages) == Flush(messages) /\ UNCHANGED status

(* The end of run(): the last flush, and then the code of the mode. *)
FinishRun(code) ==
  /\ Flush(<<>>)
  /\ status' = IF error' = "none" THEN code ELSE Running

(* main::report: a broken pipe is a success and says nothing; any other   *)
(* error says why on stderr.                                              *)
ExitCode(err) ==
  CASE err = "broken_pipe" -> 0
    [] err = "usage"       -> 2
    [] OTHER               -> 1

Report ==
  /\ status = Running
  /\ error # "none"
  /\ status' = ExitCode(error)
  /\ log' = IF error = "broken_pipe" THEN log
            ELSE Append(log, [stream |-> "err", about |-> error])
  /\ UNCHANGED <<sink, buffer, error>>
=============================================================================
