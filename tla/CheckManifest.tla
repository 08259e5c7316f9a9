---------------------------- MODULE CheckManifest ----------------------------
(***************************************************************************)
(* `crc --check MANIFEST`: check::verify, the final flush and the exit    *)
(* status.  The manifest is parsed whole before anything is hashed, its   *)
(* entries are grouped by path, each path is hashed once for all its      *)
(* entries (module ChecksumStream) and every entry gets a verdict line.   *)
(***************************************************************************)
EXTENDS CliOutput

CONSTANTS
  Manifests,    (* [from, lines]: where the manifest is read from, "-" for *)
                (* standard input, and its lines                           *)
  Contents,     (* what a file can hold                                    *)
  Empty,        (* the content of no bytes                                 *)
  Sum(_, _)     (* Sum(c, a): the checksum of content c under algorithm a  *)

(* "error" is kept for a file that could not be read. *)
ASSUME ManifestAssumption ==
  /\ \A m \in Manifests : m.lines \in Seq(Range(m.lines))
  /\ Empty \in Contents
  /\ "error" \notin Contents

VARIABLES
  manifest,     (* the manifest of this run                                *)
  groups,       (* group_by_path(entries)                                  *)
  g, e,         (* the group being verified, and the entry in it           *)
  pc,           (* the next step of verify()                               *)
  mismatched, unreadable,
  stdin,        (* does standard input still hold its bytes?               *)
  reads         (* history: per call of hash::checksums, the path and the  *)
                (* content hashed, or "error"                              *)

verifyVars == <<manifest, groups, g, e, pc, mismatched, unreadable, stdin, reads>>
vars == <<sink, buffer, log, error, status,
          manifest, groups, g, e, pc, mismatched, unreadable, stdin, reads>>

-----------------------------------------------------------------------------
(* A line is [kind |-> "entry", algo, expected, path], [kind |-> "blank"] *)
(* (comments too) or [kind |-> "bad"].                                    *)
IsEntry(line) == line.kind = "entry"
IsBad(line)   == line.kind = "bad"

(* The members of a set that a list holds, in the order of the list. *)
Only(list, set) ==
  FoldLeft(LAMBDA kept, x : IF x \in set THEN Append(kept, x) ELSE kept, <<>>, list)

(* parse_manifest, when no line is bad. *)
Entries(lines) == Only(lines, {line \in Range(lines) : IsEntry(line)})

(* Mutant: only consecutive entries for a path are grouped. *)
PlaceConsecutive(groupsSoFar, entry) ==
  IF groupsSoFar # <<>> /\ Last(groupsSoFar)[1].path = entry.path
  THEN Front(groupsSoFar) \o <<Append(Last(groupsSoFar), entry)>>
  ELSE Append(groupsSoFar, <<entry>>)

(* group_by_path: an entry joins the group of its path, if there is one. *)
Place(groupsSoFar, entry) ==
  LET n == SelectInSeq(groupsSoFar, LAMBDA group : group[1].path = entry.path)
  IN  IF n = 0 THEN Append(groupsSoFar, <<entry>>)
      ELSE [groupsSoFar EXCEPT ![n] = Append(@, entry)]

GroupByPath(entries) == FoldLeft(Place, <<>>, entries)

Matches(entry, content) == Sum(content, entry.algo) = entry.expected

Verdict(entry, what) ==
  [stream |-> "out", path |-> entry.path, algo |-> entry.algo, verdict |-> what]
Detail(entry)    == [stream |-> "err", path |-> entry.path, algo |-> entry.algo]
Complaint(path)  == [stream |-> "err", path |-> path]
Warning(what, n) == [stream |-> "err", warning |-> what, count |-> n]

(* report(): what it says on stderr of the two counters. *)
Warnings(wrong, missing) ==
  (IF wrong > 0 THEN <<Warning("did_NOT_match", wrong)>> ELSE <<>>) \o
  (IF missing > 0 THEN <<Warning("could_not_be_read", missing)>> ELSE <<>>)

-----------------------------------------------------------------------------
Init ==
  /\ CliInit
  /\ manifest \in Manifests
  /\ groups = <<>>
  /\ g = 1 /\ e = 1
  /\ pc = "manifest"
  /\ mismatched = 0 /\ unreadable = 0
  /\ stdin = TRUE
  /\ reads = <<>>

(* read_manifest and parse_manifest. *)
ParseManifest ==
  /\ Going /\ pc = "manifest"
  /\ ~ \E n \in DOMAIN manifest.lines : IsBad(manifest.lines[n])
  /\ Entries(manifest.lines) # <<>>
  /\ groups' = GroupByPath(Entries(manifest.lines))
  /\ stdin' = (manifest.from # "-")
  /\ pc' = "group"
  /\ UNCHANGED <<cliVars, manifest, g, e, mismatched, unreadable, reads>>

(* The manifest cannot be read, a line of it is malformed, or it has no   *)
(* entry: nothing is hashed.                                              *)
RejectManifest ==
  /\ Going /\ pc = "manifest"
  /\ \/ error' = "io"
     \/ /\ \/ \E n \in DOMAIN manifest.lines : IsBad(manifest.lines[n])
           \/ Entries(manifest.lines) = <<>>
        /\ error' = "manifest"
  /\ UNCHANGED <<sink, buffer, log, status, verifyVars>>

-----------------------------------------------------------------------------
Group == groups[g]
Path  == Group[1].path

(* hash::checksums for the group: standard input is empty once it has     *)
(* been read.                                                             *)
ReadGroup ==
  /\ Going /\ pc = "group"
  /\ g <= Len(groups)
  /\ \E content \in IF Path = "-" /\ ~stdin THEN {Empty} ELSE Contents :
       reads' = Append(reads, [path |-> Path, content |-> content])
  /\ stdin' = (stdin /\ Path # "-")
  /\ pc' = "judge"
  /\ e' = 1
  /\ UNCHANGED <<cliVars, manifest, groups, g, mismatched, unreadable>>

(* Mutant: an unreadable file counts once, not once for each entry. *)
ReadFailsCountedOnce ==
  /\ Going /\ pc = "group"
  /\ g <= Len(groups)
  /\ reads' = Append(reads, [path |-> Path, content |-> "error"])
  /\ IF Path = "-" THEN stdin' \in {stdin, FALSE} ELSE UNCHANGED stdin
  /\ unreadable' = unreadable + 1
  /\ pc' = "unreadable"
  /\ e' = 1
  /\ UNCHANGED <<cliVars, manifest, groups, g, mismatched>>

ReadFails ==
  /\ Going /\ pc = "group"
  /\ g <= Len(groups)
  /\ reads' = Append(reads, [path |-> Path, content |-> "error"])
  /\ IF Path = "-" THEN stdin' \in {stdin, FALSE} ELSE UNCHANGED stdin
  /\ unreadable' = unreadable + Len(Group)
  /\ pc' = "unreadable"
  /\ e' = 1
  /\ UNCHANGED <<cliVars, manifest, groups, g, mismatched>>

PrintOk ==
  /\ Going /\ pc = "judge"
  /\ e <= Len(Group) /\ Matches(Group[e], Last(reads).content)
  /\ WriteLine(Verdict(Group[e], "OK"))
  /\ e' = e + 1
  /\ UNCHANGED <<manifest, groups, g, pc, mismatched, unreadable, stdin, reads>>

PrintFailed ==
  /\ Going /\ pc = "judge"
  /\ e <= Len(Group) /\ ~Matches(Group[e], Last(reads).content)
  /\ mismatched' = mismatched + 1
  /\ WriteLine(Verdict(Group[e], "FAILED"))
  /\ pc' = "detail"
  /\ UNCHANGED <<manifest, groups, g, e, unreadable, stdin, reads>>

(* Mutant: the detail goes to stderr before stdout is flushed. *)
ReportMismatchUnflushed ==
  /\ Going /\ pc = "detail"
  /\ log' = Append(log, Detail(Group[e]))
  /\ e' = e + 1
  /\ pc' = "judge"
  /\ UNCHANGED <<sink, buffer, error, status,
                 manifest, groups, g, mismatched, unreadable, stdin, reads>>

(* After a FAILED line: flush, then the detail on stderr. *)
ReportMismatch ==
  /\ Going /\ pc = "detail"
  /\ FlushThenLog(<<Detail(Group[e])>>)
  /\ e' = e + 1
  /\ pc' = "judge"
  /\ UNCHANGED <<manifest, groups, g, mismatched, unreadable, stdin, reads>>

GroupDone ==
  /\ Going /\ pc = "judge"
  /\ e > Len(Group)
  /\ g' = g + 1
  /\ pc' = "group"
  /\ UNCHANGED <<cliVars, manifest, groups, e, mismatched, unreadable, stdin, reads>>

PrintUnreadable ==
  /\ Going /\ pc = "unreadable"
  /\ e <= Len(Group)
  /\ WriteLine(Verdict(Group[e], "FAILED_open_or_read"))
  /\ e' = e + 1
  /\ UNCHANGED <<manifest, groups, g, pc, mismatched, unreadable, stdin, reads>>

ReportUnreadable ==
  /\ Going /\ pc = "unreadable"
  /\ e > Len(Group)
  /\ FlushThenLog(<<Complaint(Path)>>)
  /\ g' = g + 1
  /\ pc' = "group"
  /\ UNCHANGED <<manifest, groups, e, mismatched, unreadable, stdin, reads>>

(* The flush before report(), and report(). *)
ReportCounts ==
  /\ Going /\ pc = "group"
  /\ g > Len(groups)
  /\ FlushThenLog(Warnings(mismatched, unreadable))
  /\ pc' = "reported"
  /\ UNCHANGED <<manifest, groups, g, e, mismatched, unreadable, stdin, reads>>

(* Mutant: unreadable entries do not make the run fail. *)
FinishMismatchesOnly ==
  /\ Going /\ pc = "reported"
  /\ FinishRun(IF mismatched = 0 THEN 0 ELSE 1)
  /\ UNCHANGED verifyVars

(* The code verify() returns, and the end of run(). *)
Finish ==
  /\ Going /\ pc = "reported"
  /\ FinishRun(IF mismatched = 0 /\ unreadable = 0 THEN 0 ELSE 1)
  /\ UNCHANGED verifyVars

Exit        == Report    /\ UNCHANGED verifyVars
Environment == SinkFails /\ UNCHANGED verifyVars

Program ==
  \/ ParseManifest \/ RejectManifest
  \/ ReadGroup \/ ReadFails
  \/ PrintOk \/ PrintFailed \/ ReportMismatch \/ GroupDone
  \/ PrintUnreadable \/ ReportUnreadable
  \/ ReportCounts \/ Finish \/ Exit

Next == Program \/ Environment

Spec == Init /\ [][Next]_vars

(* The command is a straight-line program: while it can take a step it    *)
(* does.  Nothing is assumed of whoever reads its output.                 *)
FairSpec == Spec /\ WF_vars(Program)

-----------------------------------------------------------------------------
Listed == Entries(manifest.lines)

OfPath(list, path) == Only(list, {entry \in Range(list) : entry.path = path})

(* What is said of entries whose path was read, or could not be. *)
Lines(entry, content) ==
  IF Matches(entry, content) THEN <<Verdict(entry, "OK")>>
                             ELSE <<Verdict(entry, "FAILED"), Detail(entry)>>
Judged(entries, content) ==
  FoldLeft(LAMBDA said, entry : said \o Lines(entry, content), <<>>, entries)
Unjudged(entries) ==
  [n \in DOMAIN entries |-> Verdict(entries[n], "FAILED_open_or_read")]

(* What the manifest calls for once read r has been made, said without    *)
(* groups: the lines of its entries for that path in manifest order, each *)
(* mismatch followed by its detail, or a complaint after them.            *)
Due(list, r) ==
  IF r.content = "error"
  THEN Unjudged(OfPath(list, r.path)) \o <<Complaint(r.path)>>
  ELSE Judged(OfPath(list, r.path), r.content)

DueOf(list, rs) == FoldLeft(LAMBDA said, r : said \o Due(list, r), <<>>, rs)

(* The entries that were read and matched, that were read and did not,    *)
(* and that could not be read.                                            *)
Right(list, rs) ==
  {x \in Range(list) :
     \E r \in Range(rs) : r.path = x.path /\ r.content # "error" /\ Matches(x, r.content)}
Wrong(list, rs) ==
  {x \in Range(list) :
     \E r \in Range(rs) : r.path = x.path /\ r.content # "error" /\ ~Matches(x, r.content)}
Unread(list, rs) ==
  {x \in Range(list) : \E r \in Range(rs) : r.path = x.path /\ r.content = "error"}

HowMany(list, set) == Len(Only(list, set))

Expected == DueOf(Listed, reads)
Summary  == Warnings(HowMany(Listed, Wrong(Listed, reads)), HowMany(Listed, Unread(Listed, reads)))

(* main.rs:135, kept by verify() too: whatever the buffering, stdout and  *)
(* stderr together are a beginning of what the manifest and the reads     *)
(* call for, so that every detail and complaint stands after its verdict  *)
(* and before the next one; then the counts, and the program's last word. *)
LogInOrder ==
  LET verdicts == IF error \in {"output", "io", "manifest"} /\ status # Running
                  THEN Front(log) ELSE log
  IN  \/ IsPrefix(verdicts, Expected)
      \/ pc = "reported" /\ verdicts = Expected \o Summary

(* check.rs:13-14 and :173-174, "a manifest listing all thirteen          *)
(* algorithms for one file reads that file once": no path is hashed       *)
(* twice, and paths are hashed in the order they are first mentioned.     *)
FirstMention(list, path) == SelectInSeq(list, LAMBDA entry : entry.path = path)

EachPathReadOnce ==
  \A m, n \in DOMAIN reads :
    /\ FirstMention(Listed, reads[m].path) # 0
    /\ m < n => FirstMention(Listed, reads[m].path) < FirstMention(Listed, reads[n].path)

(* A run its output did not stop judges every entry of the manifest, says *)
(* so, and counts the entries that failed exactly.                        *)
EveryEntryJudged ==
  status # Running /\ error = "none" =>
    /\ \A n \in DOMAIN Listed : \E r \in DOMAIN reads : reads[r].path = Listed[n].path
    /\ log = Expected \o Summary

(* help.rs:45-46: for a run whose output was read to the end the exit     *)
(* status is 0 exactly when every entry of the manifest could be read and *)
(* matched.                                                               *)
ExitTellsMismatch ==
  status # Running /\ error = "none" =>
    (status = 0 <=> Range(Listed) = Right(Listed, reads))

(* The verification ends. *)
Terminates == <>(status # Running)

(* README.md:95-96: "`crc --check MANIFEST` verifies a saved checksum     *)
(* list and exits non-zero on any mismatch".  The code does not keep this *)
(* when whoever reads its output stops reading.                           *)
ExitNonZeroOnMismatch == status # Running /\ mismatched > 0 => status # 0
=============================================================================
