-------------------------- MODULE HashInputsProofs --------------------------
(***************************************************************************)
(* `crc FILE...`, for every command line: its exit status, the order of   *)
(* its two streams, and that nothing is left out of them.  Module         *)
(* HashInputs checks the three on short command lines.                    *)
(***************************************************************************)
EXTENDS HashInputs, SequenceTheorems, TLAPS

Outcome == {"all", "rest", "nothing", "error"}

(* The inputs whose processing is over are those before turn, and failed  *)
(* remembers an error among them; the input at turn has its outcome as    *)
(* soon as it has been hashed, before its lines or its complaint are out. *)
Progress ==
  /\ files \in Seq(STRING)
  /\ turn \in 1 .. Len(files) + 1
  /\ pc \in {"input", "lines", "failed"}
  /\ pc # "input" => turn <= Len(files)
  /\ stdin \in Outcome \ {"error"}
  /\ outcomes \in Seq(Outcome)
  /\ Len(outcomes) = IF pc = "input" THEN turn - 1 ELSE turn
  /\ pc = "lines" => outcomes[turn] # "error"
  /\ pc = "failed" => outcomes[turn] = "error"

FailureRemembered ==
  /\ failed \in BOOLEAN
  /\ failed <=> \E t \in 1 .. turn - 1 : outcomes[t] = "error"

(* A status without an error was given by FinishRun. *)
StatusFromFailed ==
  status # Running /\ error = "none" =>
    /\ pc = "input"
    /\ turn = Len(files) + 1
    /\ status = IF failed THEN 1 ELSE 0

IInv == Progress /\ FailureRemembered /\ StatusFromFailed

-----------------------------------------------------------------------------
(* The loop of hash_inputs starts with nothing failed. *)
LEMMA InitIInv == Init => IInv
<1> SUFFICES ASSUME Init PROVE IInv
  OBVIOUS
<1>1. files \in Seq(STRING) /\ outcomes = <<>> /\ turn = 1 /\ pc = "input"
  BY HashAssumption DEF Init, HashAssumption
<1>2. Progress
  BY <1>1 DEF Init, Progress, Outcome
<1>3. 1 .. turn - 1 = {}
  BY <1>1
<1>4. FailureRemembered
  BY <1>3 DEF Init, FailureRemembered
<1>5. StatusFromFailed
  BY DEF Init, CliInit, StatusFromFailed
<1> QED
  BY <1>2, <1>4, <1>5 DEF IInv

(* The program counter, the input it stands at and what has been read move *)
(* together.                                                               *)
LEMMA ProgressStep == Progress /\ [Next]_vars => Progress'
<1> SUFFICES ASSUME Progress, [Next]_vars PROVE Progress'
  OBVIOUS
<1> USE DEF Progress, Outcome
<1>1. CASE HashInput
  BY <1>1 DEF HashInput, Hashed
<1>2. CASE HashFails
  BY <1>2 DEF HashFails
<1>3. CASE PrintLine
  BY <1>3 DEF PrintLine
<1>4. CASE InputDone
  BY <1>4 DEF InputDone
<1>5. CASE ReportInput
  BY <1>5 DEF ReportInput
<1>6. CASE AllInputsDone
  BY <1>6 DEF AllInputsDone
<1>7. CASE Exit
  BY <1>7 DEF Exit
<1>8. CASE Environment
  BY <1>8 DEF Environment
<1>9. CASE UNCHANGED vars
  BY <1>9 DEF vars
<1> QED
  BY <1>1, <1>2, <1>3, <1>4, <1>5, <1>6, <1>7, <1>8, <1>9 DEF Next, Program

(* failed is set by the first input that could not be read, and never *)
(* reset.                                                             *)
LEMMA FailureStep == Progress /\ FailureRemembered /\ [Next]_vars => FailureRemembered'
<1> SUFFICES ASSUME Progress, FailureRemembered, [Next]_vars PROVE FailureRemembered'
  OBVIOUS
<1> USE DEF Progress, FailureRemembered, Outcome
<1>1. CASE HashInput
  BY <1>1 DEF HashInput, Hashed
<1>2. CASE HashFails
  BY <1>2 DEF HashFails
<1>3. CASE PrintLine
  BY <1>3 DEF PrintLine
<1>4. CASE InputDone
  BY <1>4 DEF InputDone
<1>5. CASE ReportInput
  BY <1>5 DEF ReportInput
<1>6. CASE AllInputsDone
  BY <1>6 DEF AllInputsDone
<1>7. CASE Exit
  BY <1>7 DEF Exit
<1>8. CASE Environment
  BY <1>8 DEF Environment
<1>9. CASE UNCHANGED vars
  BY <1>9 DEF vars
<1> QED
  BY <1>1, <1>2, <1>3, <1>4, <1>5, <1>6, <1>7, <1>8, <1>9 DEF Next, Program

(* An exit status comes from failed, or from an output that broke. *)
LEMMA StatusStep == IInv /\ [Next]_vars => StatusFromFailed'
<1> SUFFICES ASSUME IInv, [Next]_vars PROVE StatusFromFailed'
  OBVIOUS
<1> USE DEF IInv, StatusFromFailed, Going
<1>1. CASE HashInput
  BY <1>1 DEF HashInput, cliVars
<1>2. CASE HashFails
  BY <1>2 DEF HashFails, cliVars
<1>3. CASE PrintLine
  BY <1>3 DEF PrintLine, WriteLine
<1>4. CASE InputDone
  BY <1>4 DEF InputDone, cliVars
<1>5. CASE ReportInput
  BY <1>5 DEF ReportInput, FlushThenLog
<1>6. CASE AllInputsDone
  BY <1>6 DEF AllInputsDone, FinishRun, Progress
<1>7. CASE Exit
  BY <1>7 DEF Exit, Report
<1>8. CASE Environment
  BY <1>8 DEF Environment, SinkFails
<1>9. CASE UNCHANGED vars
  BY <1>9 DEF vars
<1> QED
  BY <1>1, <1>2, <1>3, <1>4, <1>5, <1>6, <1>7, <1>8, <1>9 DEF Next, Program

(* The exit status tells of the failed inputs because failed does. *)
LEMMA IInvTells == IInv => ExitTellsFailure
  BY DEF IInv, Progress, FailureRemembered, StatusFromFailed, ExitTellsFailure

(* main.rs:113-148 and help.rs:44-46, for any number of inputs: a run     *)
(* that was not stopped by its output exits 0 exactly when every input of *)
(* the command line could be read.                                        *)
THEOREM ExitStatusCorrect == Spec => []ExitTellsFailure
<1>1. Init => IInv
  BY InitIInv
<1>2. IInv /\ [Next]_vars => IInv'
  BY ProgressStep, FailureStep, StatusStep DEF IInv
<1>3. IInv => ExitTellsFailure
  BY IInvTells
<1> QED
  BY <1>1, <1>2, <1>3, PTL DEF Spec
-----------------------------------------------------------------------------
(* The order of the two streams and what is left out of them.             *)

Reason == {"broken_pipe", "output"}

(* What can go out: a line of checksums, or a word on stderr. *)
Entry ==
  [stream : {"out"}, path : STRING, algo : STRING, of : Outcome]
    \cup [stream : {"err"}, about : STRING \cup Reason]

(* What the input at turn still calls for. *)
Rest ==
  CASE pc = "lines"  -> SubSeq(Lines(files[turn], outcomes[turn]), next, Len(Algos))
    [] pc = "failed" -> <<Complaint(files[turn])>>
    [] OTHER         -> <<>>

StreamsTyped ==
  /\ log \in Seq(Entry)
  /\ buffer \in Seq(Entry)
  /\ due \in Seq(Entry)
  /\ next \in 1 .. Len(Algos) + 1
  /\ error \in {"none"} \cup Reason

(* While nothing has gone wrong with the output, what went out, what is   *)
(* held back and what is still to be written make up what is due.         *)
NothingLost ==
  /\ error = "none" => log \o buffer \o Rest = due
  /\ error = "none" /\ status # Running => buffer = <<>>

(* Afterwards only the last word of main::report may have been added. *)
OutputStopped ==
  error # "none" =>
    \/ IsPrefix(log, due)
    \/ /\ status # Running
       /\ error = "output"
       /\ IsPrefix(Front(log), due)

(* Whoever reads standard input to its end leaves nothing of it. *)
StdinReadOnce ==
  \A t \in DOMAIN outcomes, u \in DOMAIN outcomes :
    files[t] = "-" /\ outcomes[t] # "error" =>
      /\ stdin = "nothing"
      /\ t < u /\ files[u] = "-" => outcomes[u] \in {"nothing", "error"}

OInv == StreamsTyped /\ NothingLost /\ OutputStopped /\ StdinReadOnce

-----------------------------------------------------------------------------
(* A sequence is a prefix of itself with more behind it. *)
LEMMA PrefixOfConcat ==
  ASSUME NEW S, NEW s \in Seq(S), NEW r \in Seq(S)
  PROVE  IsPrefix(s, s \o r)
<1>1. /\ Len(s \o r) = Len(s) + Len(r)
      /\ \A i \in 1 .. Len(s) : (s \o r)[i] = s[i]
  BY ConcatProperties
<1>2. s \o r \in Seq(S) /\ Len(s) \in Nat /\ Len(r) \in Nat
  BY ConcatProperties, LenProperties
<1>3. SubSeq(s, 1, Len(s)) = SubSeq(s \o r, 1, Len(s))
  BY <1>1, <1>2
<1> QED
  BY <1>1, <1>2, <1>3 DEF IsPrefix

(* All but the last element of a sequence just extended. *)
LEMMA FrontOfAppend ==
  ASSUME NEW S, NEW s \in Seq(S), NEW e \in S
  PROVE  Front(Append(s, e)) = s
  BY DEF Front

(* A function on 1 .. n is a sequence of length n. *)
LEMMA FunctionIsSeq ==
  ASSUME NEW S, NEW n \in Nat, NEW f \in [1 .. n -> S]
  PROVE  f \in Seq(S) /\ Len(f) = n
<1>1. f \in UNION {[1 .. k -> S] : k \in Nat}
  OBVIOUS
<1>2. f \in Seq(S)
  BY <1>1, SeqDef
<1>3. DOMAIN f = 1 .. n /\ DOMAIN f = 1 .. Len(f) /\ Len(f) \in Nat
  BY <1>2, LenProperties
<1> QED
  BY <1>2, <1>3

(* An input that was read calls for one line per algorithm. *)
LEMMA LinesTyped ==
  ASSUME NEW path \in STRING, NEW what \in Outcome
  PROVE  /\ Lines(path, what) \in Seq(Entry)
         /\ Len(Lines(path, what)) = Len(Algos)
         /\ \A n \in 1 .. Len(Algos) : Lines(path, what)[n] = Line(path, n, what)
<1>1. Algos \in Seq(STRING)
  BY HashAssumption DEF HashAssumption
<1>2. \A n \in 1 .. Len(Algos) : Line(path, n, what) \in Entry
  BY <1>1 DEF Line, Entry
<1>3. DOMAIN Algos = 1 .. Len(Algos) /\ Len(Algos) \in Nat
  BY <1>1
<1>4. Lines(path, what) \in [1 .. Len(Algos) -> Entry]
  BY <1>2, <1>3 DEF Lines
<1>5. Lines(path, what) \in Seq(Entry) /\ Len(Lines(path, what)) = Len(Algos)
  BY <1>3, <1>4, FunctionIsSeq
<1>6. \A n \in 1 .. Len(Algos) : Lines(path, what)[n] = Line(path, n, what)
  BY <1>3 DEF Lines
<1> QED
  BY <1>5, <1>6

(* A complaint is an entry of the log. *)
LEMMA ComplaintTyped ==
  ASSUME NEW path \in STRING
  PROVE  Complaint(path) \in Entry
  BY DEF Complaint, Entry

(* The lines still to be written are entries of the log. *)
LEMMA RestTyped ==
  ASSUME Progress, StreamsTyped
  PROVE  Rest \in Seq(Entry)
<1>1. CASE pc = "lines"
  <2>1. /\ files[turn] \in STRING
        /\ outcomes[turn] \in Outcome
    BY <1>1 DEF Progress
  <2>2. Lines(files[turn], outcomes[turn]) \in Seq(Entry)
        /\ Len(Lines(files[turn], outcomes[turn])) = Len(Algos)
    BY <2>1, LinesTyped
  <2>3. Rest = SubSeq(Lines(files[turn], outcomes[turn]), next, Len(Algos))
    BY <1>1 DEF Rest
  <2> QED
    BY <2>2, <2>3 DEF StreamsTyped
<1>2. CASE pc = "failed"
  <2>1. files[turn] \in STRING
    BY <1>2 DEF Progress
  <2> QED
    BY <1>2, <2>1, ComplaintTyped DEF Rest
<1>3. CASE pc = "input"
  BY <1>3 DEF Rest
<1> QED
  BY <1>1, <1>2, <1>3 DEF Progress

(* What is held back goes out with nothing in between. *)
LEMMA LogIsPrefix ==
  ASSUME Progress, StreamsTyped, NothingLost, error = "none"
  PROVE  IsPrefix(log, due)
<1>1. Rest \in Seq(Entry)
  BY RestTyped
<1>2. (log \o buffer) \o Rest = log \o (buffer \o Rest)
  BY <1>1, ConcatAssociative DEF StreamsTyped
<1>3. buffer \o Rest \in Seq(Entry)
  BY <1>1, ConcatProperties DEF StreamsTyped
<1>4. IsPrefix(log, log \o (buffer \o Rest))
  BY <1>3, PrefixOfConcat DEF StreamsTyped
<1> QED
  BY <1>2, <1>4 DEF NothingLost
-----------------------------------------------------------------------------
(* Cutting Rest down line by line. *)
LEMMA ConcatCons ==
  ASSUME NEW S, NEW b \in Seq(S), NEW e \in S, NEW r \in Seq(S)
  PROVE  b \o (<<e>> \o r) = Append(b, e) \o r
<1>1. <<e>> \in Seq(S) /\ Append(b, e) = b \o <<e>>
  OBVIOUS
<1>2. (b \o <<e>>) \o r = b \o (<<e>> \o r)
  BY <1>1, ConcatAssociative
<1> QED
  BY <1>1, <1>2

(* Writing the next line of an input moves it from the lines to come to the *)
(* lines written.                                                           *)
LEMMA RestOfLines ==
  ASSUME NEW ls \in Seq(Entry), NEW b \in Seq(Entry), NEW n \in 1 .. Len(ls)
  PROVE  b \o SubSeq(ls, n, Len(ls)) = Append(b, ls[n]) \o SubSeq(ls, n + 1, Len(ls))
<1> DEFINE r == SubSeq(ls, n + 1, Len(ls))
<1>1. Len(ls) \in Nat /\ Len(ls) \in n .. Len(ls) /\ ls[n] \in Entry
  OBVIOUS
<1>2. SubSeq(ls, n, Len(ls)) = <<ls[n]>> \o r
  BY <1>1, SubSeqRecursiveFirst
<1>3. r \in Seq(Entry)
  BY <1>1
<1> HIDE DEF r
<1>4. b \o (<<ls[n]>> \o r) = Append(b, ls[n]) \o r
  BY <1>1, <1>3, ConcatCons
<1> QED
  BY <1>2, <1>4 DEF r

(* A line added to the buffer is added to log and buffer together. *)
LEMMA AppendedLog ==
  ASSUME NEW l \in Seq(Entry), NEW b \in Seq(Entry), NEW e \in Entry
  PROVE  (l \o Append(b, e)) = Append(l \o b, e)
<1>1. <<e>> \in Seq(Entry) /\ Append(b, e) = b \o <<e>> /\ l \o b \in Seq(Entry)
  BY ConcatProperties
<1>2. (l \o b) \o <<e>> = l \o (b \o <<e>>)
  BY <1>1, ConcatAssociative
<1> QED
  BY <1>1, <1>2

(* Nothing is written before the first input. *)
LEMMA InitOInv == Init => OInv
<1> SUFFICES ASSUME Init PROVE OInv
  OBVIOUS
<1>1. Algos \in Seq(STRING)
  BY HashAssumption DEF HashAssumption
<1>2. StreamsTyped
  BY <1>1 DEF Init, CliInit, StreamsTyped
<1>3. Rest = <<>>
  BY DEF Init, Rest
<1>4. NothingLost /\ OutputStopped
  BY <1>3 DEF Init, CliInit, NothingLost, OutputStopped
<1>5. StdinReadOnce
  BY DEF Init, StdinReadOnce
<1> QED
  BY <1>2, <1>4, <1>5 DEF OInv

(* Standard input is read at most once, by the first "-". *)
LEMMA StdinStep == Progress /\ StdinReadOnce /\ [Next]_vars => StdinReadOnce'
<1> SUFFICES ASSUME Progress, StdinReadOnce, [Next]_vars PROVE StdinReadOnce'
  OBVIOUS
<1> USE DEF Progress, StdinReadOnce, Outcome
<1>1. CASE HashInput
  BY <1>1 DEF HashInput, Hashed
<1>2. CASE HashFails
  BY <1>2 DEF HashFails
<1>3. CASE PrintLine
  BY <1>3 DEF PrintLine
<1>4. CASE InputDone
  BY <1>4 DEF InputDone
<1>5. CASE ReportInput
  BY <1>5 DEF ReportInput
<1>6. CASE AllInputsDone
  BY <1>6 DEF AllInputsDone
<1>7. CASE Exit
  BY <1>7 DEF Exit
<1>8. CASE Environment
  BY <1>8 DEF Environment
<1>9. CASE UNCHANGED vars
  BY <1>9 DEF vars
<1> QED
  BY <1>1, <1>2, <1>3, <1>4, <1>5, <1>6, <1>7, <1>8, <1>9 DEF Next, Program

(* Log, buffer and lines to come stay sequences of entries. *)
LEMMA TypesStep == Progress /\ StreamsTyped /\ [Next]_vars => StreamsTyped'
<1> SUFFICES ASSUME Progress, StreamsTyped, [Next]_vars PROVE StreamsTyped'
  OBVIOUS
<1>0. Algos \in Seq(STRING)
  BY HashAssumption DEF HashAssumption
<1>e. <<>> \in Seq(Entry)
  OBVIOUS
<1> USE DEF StreamsTyped
<1>1. CASE HashInput
  <2>1. files[turn] \in STRING /\ Hashed(files[turn]) \in Outcome
    BY <1>1 DEF HashInput, Hashed, Progress, Outcome
  <2>2. Lines(files[turn], Hashed(files[turn])) \in Seq(Entry)
    BY <2>1, LinesTyped
  <2>3. due' \in Seq(Entry)
    BY <1>1, <2>2, ConcatProperties DEF HashInput
  <2> QED
    BY <1>0, <1>1, <2>3 DEF HashInput, cliVars
<1>2. CASE HashFails
  <2>1. files[turn] \in STRING
    BY <1>2 DEF HashFails, Progress
  <2>2. Complaint(files[turn]) \in Entry
    BY <2>1, ComplaintTyped
  <2> QED
    BY <1>0, <1>2, <2>2 DEF HashFails, cliVars
<1>3. CASE PrintLine
  <2>1. files[turn] \in STRING /\ outcomes[turn] \in Outcome
    BY <1>3 DEF PrintLine, Progress
  <2>2. Line(files[turn], next, outcomes[turn]) \in Entry
    BY <1>0, <1>3, <2>1 DEF PrintLine, Line, Entry
  <2> DEFINE held == Append(buffer, Line(files[turn], next, outcomes[turn]))
  <2>3. held \in Seq(Entry) /\ log \o held \in Seq(Entry)
    BY <2>2, ConcatProperties
  <2>4. buffer' \in {buffer, held, <<>>} /\ log' \in {log, log \o held}
    BY <1>3 DEF PrintLine, WriteLine, OutputError
  <2>5. error' \in {"none"} \cup Reason
    BY <1>3 DEF Reason, PrintLine, WriteLine, OutputError
  <2>6. buffer' \in Seq(Entry) /\ log' \in Seq(Entry)
    BY <1>e, <2>3, <2>4
  <2>7. next' \in 1 .. Len(Algos)' + 1 /\ due' \in Seq(Entry)
    BY <1>0, <1>3 DEF PrintLine
  <2> QED
    BY <2>5, <2>6, <2>7
<1>4. CASE InputDone
  BY <1>4 DEF InputDone, cliVars
<1>5. CASE ReportInput
  <2>1. files[turn] \in STRING
    BY <1>5 DEF ReportInput, Progress
  <2>2. Complaint(files[turn]) \in Entry
    BY <2>1, ComplaintTyped
  <2>3. log \o buffer \o <<Complaint(files[turn])>> \in Seq(Entry)
    BY <2>2, ConcatProperties
  <2>4. /\ buffer' \in {buffer, <<>>}
        /\ log' \in {log, log \o buffer \o <<Complaint(files[turn])>>}
    BY <1>5 DEF ReportInput, FlushThenLog, Flush, OutputError
  <2>5. error' \in {"none"} \cup Reason
    BY <1>5 DEF ReportInput, FlushThenLog, Flush, OutputError, Reason
  <2> QED
    BY <1>e, <1>5, <2>3, <2>4, <2>5 DEF ReportInput
<1>6. CASE AllInputsDone
  <2>1. log \o buffer \o <<>> \in Seq(Entry)
    BY ConcatProperties
  <2>2. /\ buffer' \in {buffer, <<>>}
        /\ log' \in {log, log \o buffer \o <<>>}
    BY <1>6 DEF AllInputsDone, FinishRun, Flush, OutputError
  <2>3. error' \in {"none"} \cup Reason
    BY <1>6 DEF AllInputsDone, FinishRun, Flush, OutputError, Reason
  <2> QED
    BY <1>e, <1>6, <2>1, <2>2, <2>3 DEF AllInputsDone
<1>7. CASE Exit
  <2>1. error \in Reason
    BY <1>7 DEF Exit, Report
  <2>2. [stream |-> "err", about |-> error] \in Entry
    BY <2>1 DEF Entry
  <2> QED
    BY <1>7, <2>2 DEF Exit, Report
<1>8. CASE Environment
  BY <1>8 DEF Environment, SinkFails
<1>9. CASE UNCHANGED vars
  BY <1>9 DEF vars
<1> QED
  BY <1>1, <1>2, <1>3, <1>4, <1>5, <1>6, <1>7, <1>8, <1>9 DEF Next, Program

(* While the output has not broken, what is out, what is held back and what *)
(* is to come add up to what the inputs call for: each action moves entries *)
(* from one to the next.                                                    *)
LEMMA NothingLostStep ==
  Progress /\ StreamsTyped /\ NothingLost /\ [Next]_vars => NothingLost'
<1> SUFFICES ASSUME Progress, StreamsTyped, NothingLost, [Next]_vars PROVE NothingLost'
  OBVIOUS
<1>0. /\ Algos \in Seq(STRING) /\ Len(Algos) \in Nat
      /\ log \o buffer \in Seq(Entry)
      /\ Running = -1
  BY HashAssumption, ConcatProperties DEF HashAssumption, StreamsTyped, Running
<1>1. CASE HashInput
  <2> DEFINE ls == Lines(files[turn], Hashed(files[turn]))
  <2>1. files[turn] \in STRING /\ Hashed(files[turn]) \in Outcome
    BY <1>1 DEF HashInput, Hashed, Progress, Outcome
  <2>2. ls \in Seq(Entry) /\ Len(ls) = Len(Algos)
    BY <2>1, LinesTyped
  <2>3. outcomes'[turn'] = Hashed(files[turn])
    BY <1>1 DEF HashInput, Progress
  <2>4. Rest' = SubSeq(ls, 1, Len(ls))
    BY <1>1, <2>2, <2>3 DEF HashInput, Rest
  <2>5. Rest' = ls
    BY <2>2, <2>4, SubSeqFull
  <2>6. error = "none" /\ error' = "none" /\ status' = Running /\ Rest = <<>>
    BY <1>1 DEF HashInput, Going, cliVars, Rest
  <2>7. log \o buffer = due
    BY <1>0, <2>6, ConcatEmptySeq DEF NothingLost
  <2> QED
    BY <1>1, <2>5, <2>6, <2>7 DEF HashInput, cliVars, NothingLost
<1>2. CASE HashFails
  <2>1. Rest' = <<Complaint(files[turn])>>
    BY <1>2 DEF HashFails, Rest
  <2>2. error = "none" /\ error' = "none" /\ status' = Running /\ Rest = <<>>
    BY <1>2 DEF HashFails, Going, cliVars, Rest
  <2>3. log \o buffer = due
    BY <1>0, <2>2, ConcatEmptySeq DEF NothingLost
  <2>4. files[turn] \in STRING
    BY <1>2 DEF HashFails, Progress
  <2>5. Complaint(files[turn]) \in Entry
    BY <2>4, ComplaintTyped
  <2>6. Append(due, Complaint(files[turn])) = due \o <<Complaint(files[turn])>>
    BY <2>5, AppendIsConcat DEF StreamsTyped
  <2> QED
    BY <1>2, <2>1, <2>2, <2>3, <2>6 DEF HashFails, cliVars, NothingLost
<1>3. CASE PrintLine
  <2> DEFINE ls == Lines(files[turn], outcomes[turn])
             line == Line(files[turn], next, outcomes[turn])
  <2>1. files[turn] \in STRING /\ outcomes[turn] \in Outcome /\ next \in 1 .. Len(Algos)
    BY <1>0, <1>3 DEF PrintLine, Progress, StreamsTyped
  <2> HIDE DEF ls, line
  <2>1a. ls \in Seq(Entry) /\ Len(ls) = Len(Algos)
    BY <2>1, LinesTyped DEF ls
  <2>1b. ls[next] = line
    BY <2>1, LinesTyped DEF ls, line
  <2>2. ls \in Seq(Entry) /\ Len(ls) = Len(Algos) /\ ls[next] = line /\ line \in Entry
    BY <2>1, <2>1a, <2>1b
  <2>3. Rest = SubSeq(ls, next, Len(ls)) /\ Rest' = SubSeq(ls, next + 1, Len(ls))
    BY <1>3, <2>2 DEF PrintLine, Rest, ls
  <2>4. (log \o buffer) \o Rest = Append(log \o buffer, line) \o Rest'
    BY <1>0, <2>1, <2>2, <2>3, RestOfLines
  <2>5. log \o Append(buffer, line) = Append(log \o buffer, line)
    BY <2>2, AppendedLog DEF StreamsTyped
  <2>6. log \o Append(buffer, line) \in Seq(Entry)
    BY <1>0, <2>2, <2>5
  <2>7. (log \o Append(buffer, line)) \o <<>> = log \o Append(buffer, line)
    BY <2>6, ConcatEmptySeq
  <2>8. error = "none" /\ due' = due /\ status' = Running
    BY <1>3 DEF PrintLine, Going, WriteLine
  <2>9. \/ buffer' = Append(buffer, line) /\ log' = log
        \/ buffer' = <<>> /\ log' = log \o Append(buffer, line)
        \/ error' # "none"
    BY <1>3 DEF PrintLine, WriteLine, OutputError, line
  <2>10. log' \o buffer' = log \o Append(buffer, line) \/ error' # "none"
    BY <2>7, <2>9
  <2> QED
    BY <2>4, <2>5, <2>8, <2>10 DEF NothingLost
<1>4. CASE InputDone
  <2> DEFINE ls == Lines(files[turn], outcomes[turn])
  <2>1. files[turn] \in STRING /\ outcomes[turn] \in Outcome /\ next = Len(Algos) + 1
    BY <1>0, <1>4 DEF InputDone, Progress, StreamsTyped
  <2>2. Rest = SubSeq(ls, next, Len(Algos)) /\ Rest' = <<>>
    BY <1>4 DEF InputDone, Rest
  <2>3. Rest = <<>>
    BY <1>0, <2>1, <2>2, SubSeqEmpty
  <2> QED
    BY <1>4, <2>2, <2>3 DEF InputDone, Going, cliVars, NothingLost
<1>5. CASE ReportInput
  <2>1. Rest = <<Complaint(files[turn])>> /\ Rest' = <<>>
    BY <1>5 DEF ReportInput, Rest
  <2>2. log \o buffer \o Rest \in Seq(Entry)
    BY <1>0, RestTyped, ConcatProperties
  <2>3. (log \o buffer \o Rest) \o <<>> \o <<>> = log \o buffer \o Rest
    BY <2>2, ConcatEmptySeq
  <2>4. error = "none" /\ due' = due /\ status' = Running
    BY <1>5 DEF ReportInput, Going, FlushThenLog
  <2>5. \/ buffer' = <<>> /\ log' = log \o buffer \o Rest
        \/ error' # "none"
    BY <1>5, <2>1 DEF ReportInput, FlushThenLog, Flush, OutputError
  <2> QED
    BY <2>1, <2>3, <2>4, <2>5 DEF NothingLost
<1>6. CASE AllInputsDone
  <2>1. Rest = <<>> /\ Rest' = <<>>
    BY <1>6 DEF AllInputsDone, Rest
  <2>2. (log \o buffer) \o <<>> = log \o buffer
    BY <1>0, ConcatEmptySeq
  <2>3. error = "none" /\ due' = due
    BY <1>6 DEF AllInputsDone, Going
  <2>4. \/ buffer' = <<>> /\ log' = log \o buffer \o <<>>
        \/ error' # "none"
    BY <1>6 DEF AllInputsDone, FinishRun, Flush, OutputError
  <2> QED
    BY <2>1, <2>2, <2>3, <2>4 DEF NothingLost
<1>7. CASE Exit
  BY <1>7 DEF Exit, Report, NothingLost
<1>8. CASE Environment
  BY <1>8 DEF Environment, SinkFails, NothingLost, Rest
<1>9. CASE UNCHANGED vars
  BY <1>9 DEF vars, NothingLost, Rest
<1> QED
  BY <1>1, <1>2, <1>3, <1>4, <1>5, <1>6, <1>7, <1>8, <1>9 DEF Next, Program

(* Once the output breaks the log only stands still, at a beginning of what *)
(* the inputs call for.                                                     *)
LEMMA OutputStoppedStep ==
  Progress /\ OInv /\ [Next]_vars => OutputStopped'
<1> SUFFICES ASSUME Progress, OInv, [Next]_vars PROVE OutputStopped'
  OBVIOUS
<1> USE DEF OutputStopped
<1>0. error = "none" => IsPrefix(log, due)
  BY LogIsPrefix DEF OInv
<1>1. CASE HashInput
  BY <1>1 DEF HashInput, Going, cliVars
<1>2. CASE HashFails
  BY <1>2 DEF HashFails, Going, cliVars
<1>3. CASE PrintLine
  BY <1>0, <1>3 DEF PrintLine, Going, WriteLine, OutputError
<1>4. CASE InputDone
  BY <1>4 DEF InputDone, Going, cliVars
<1>5. CASE ReportInput
  BY <1>0, <1>5 DEF ReportInput, Going, FlushThenLog, Flush, OutputError
<1>6. CASE AllInputsDone
  BY <1>0, <1>6 DEF AllInputsDone, Going, FinishRun, Flush, OutputError
<1>7. CASE Exit
  <2>1. status = Running /\ error \in Reason
    BY <1>7 DEF Exit, Report, OInv, StreamsTyped
  <2>2. IsPrefix(log, due)
    BY <2>1 DEF OInv, Reason
  <2>3. [stream |-> "err", about |-> error] \in Entry
    BY <2>1 DEF Entry
  <2>4. Front(Append(log, [stream |-> "err", about |-> error])) = log
    BY <2>3, FrontOfAppend DEF OInv, StreamsTyped
  <2>5. status' # Running
    BY <1>7 DEF Exit, Report, ExitCode, Running
  <2>6. error' = error /\ due' = due
    BY <1>7 DEF Exit, Report
  <2>7. \/ log' = log
        \/ error = "output" /\ log' = Append(log, [stream |-> "err", about |-> error])
    BY <1>7, <2>1 DEF Exit, Report, Reason
  <2>8. CASE log' = log
    BY <2>2, <2>6, <2>8
  <2>9. CASE error = "output" /\ log' = Append(log, [stream |-> "err", about |-> error])
    BY <2>2, <2>4, <2>5, <2>6, <2>9
  <2> QED
    BY <2>7, <2>8, <2>9
<1>8. CASE Environment
  BY <1>8 DEF Environment, SinkFails, OInv
<1>9. CASE UNCHANGED vars
  BY <1>9 DEF vars, OInv
<1> QED
  BY <1>1, <1>2, <1>3, <1>4, <1>5, <1>6, <1>7, <1>8, <1>9 DEF Next, Program

(* Nothing lost and nothing added: the log is in order. *)
LEMMA OInvTellsOrder == Progress /\ OInv => LogInOrder
  BY LogIsPrefix DEF OInv, OutputStopped, LogInOrder

(* Nothing held back and nothing to come: the log is complete. *)
LEMMA OInvTellsComplete == IInv /\ OInv => CompleteOnExit
<1> SUFFICES ASSUME IInv, OInv, status # Running, error = "none"
             PROVE  /\ Len(outcomes) = Len(files)
                    /\ log = due
                    /\ \A t \in DOMAIN files, u \in DOMAIN files :
                         t < u /\ files[t] = "-" /\ files[u] = "-" /\ outcomes[t] # "error" =>
                           outcomes[u] \in {"nothing", "error"}
  BY DEF CompleteOnExit
<1>1. pc = "input" /\ turn = Len(files) + 1
  BY DEF IInv, StatusFromFailed
<1>2. Len(outcomes) = Len(files) /\ DOMAIN outcomes = DOMAIN files
  BY <1>1 DEF IInv, Progress
<1>3. Rest = <<>> /\ buffer = <<>> /\ log \o buffer \o Rest = due
  BY <1>1 DEF OInv, NothingLost, Rest
<1>4. log \o <<>> \o <<>> = log
  BY ConcatEmptySeq DEF OInv, StreamsTyped
<1>5. \A t \in DOMAIN outcomes, u \in DOMAIN outcomes :
        t < u /\ files[t] = "-" /\ files[u] = "-" /\ outcomes[t] # "error" =>
          outcomes[u] \in {"nothing", "error"}
  BY DEF OInv, StdinReadOnce
<1> QED
  BY <1>2, <1>3, <1>4, <1>5

(* The invariant the two theorems below read off: the exit status, the    *)
(* two streams and standard input at every step of hash_inputs.           *)
THEOREM OutputInvariant == Spec => [](IInv /\ OInv)
<1>1. Init => IInv /\ OInv
  BY InitIInv, InitOInv
<1>2. IInv /\ OInv /\ [Next]_vars => (IInv /\ OInv)'
  BY ProgressStep, FailureStep, StatusStep, TypesStep, NothingLostStep, OutputStoppedStep,
     StdinStep DEF IInv, OInv
<1> QED
  BY <1>1, <1>2, PTL DEF Spec

(* main.rs:119-139, for any number of inputs and of algorithms and any    *)
(* moment at which the reader of stdout goes away: what has gone out on   *)
(* the two streams is a beginning of what the inputs call for, in the     *)
(* order of the command line.                                             *)
THEOREM StreamsInOrder == Spec => []LogInOrder
<1>1. IInv /\ OInv => LogInOrder
  BY OInvTellsOrder DEF IInv
<1> QED
  BY <1>1, OutputInvariant, PTL

(* main.rs:119-148: a run that its output did not stop has written all    *)
(* that its inputs call for, and standard input has been read once.       *)
THEOREM NothingLeftOut == Spec => []CompleteOnExit
<1>1. IInv /\ OInv => CompleteOnExit
  BY OInvTellsComplete
<1> QED
  BY <1>1, OutputInvariant, PTL
=============================================================================
