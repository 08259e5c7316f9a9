--------------------------- MODULE MCCheckManifest ---------------------------
(***************************************************************************)
(* Manifests of up to three lines, from a file or from standard input:    *)
(* entries for a file and for standard input under two algorithms,        *)
(* consecutive or not, a blank line and a malformed one.  All entries     *)
(* record the checksums of content "x"; a file may hold "x", "y" or       *)
(* nothing by the time it is checked.  The first algorithm cannot tell    *)
(* "x" from "y".                                                           *)
(***************************************************************************)
EXTENDS CheckManifest

MCContents == {"x", "y", "empty"}

MCSum(content, algo) ==
  <<algo, IF algo = "nmea" /\ content = "y" THEN "x" ELSE content>>

Entry(algo, path) ==
  [kind |-> "entry", algo |-> algo, expected |-> MCSum("x", algo), path |-> path]

MCEntries == {Entry(algo, path) : algo \in {"nmea", "crc_32"}, path \in {"a", "-"}}

MCLines == BoundedSeq(MCEntries \cup {[kind |-> "blank"], [kind |-> "bad"]}, 3)

MCManifests == [from : {"-", "SUMS"}, lines : MCLines]
=============================================================================
