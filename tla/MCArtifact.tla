------------------------------ MODULE MCArtifact ------------------------------
(***************************************************************************)
(* From the network to the payload: a cache entry that several operations  *)
(* download to, and an archive that one of them extracts.  A behaviour is  *)
(* one of the two, and the other part has ended before it begins.          *)
(***************************************************************************)
EXTENDS DownloadCache, Extraction

CONSTANTS o1, o2, o3, l1, l2

SameLock == [o \in Ops |-> l1]

(* Names: one to three components of two letters, one of them in two cases *)
A == <<1, "lower">>
A2 == <<1, "upper">>
B == <<2, "lower">>
NamesOfEntries ==
  {<<A>>, <<A2>>, <<B>>, <<A, B>>, <<A2, B>>, <<B, A>>, <<A, B, B>>}

Entry(name, kind, size) ==
  [name |-> name, form |-> "plain", kind |-> kind, size |-> size, compressed |-> 0,
   executable |-> FALSE, stream |-> [gives |-> size, state |-> "whole"]]
Dir(name) == Entry(name, "dir", 0)
File(name) == Entry(name, "file", 1)
Entries == {Dir(name) : name \in NamesOfEntries} \cup {File(name) : name \in NamesOfEntries}

Packed(format, bytes, entries) ==
  [format |-> format, regular |-> TRUE, readable |-> TRUE, bytes |-> bytes, entries |-> entries]
Lists == UNION {[1 .. n -> Entries] : n \in 0 .. 2}

(* One entry that is not as the others, between two that are               *)
F == [Entry(<<B, A>>, "file", 2) EXCEPT !.compressed = 1]
OddZip ==
  {[F EXCEPT !.stream = [gives |-> n, state |-> s]] : n \in 0 .. 3, s \in {"whole", "corrupt", "checksum"}}
  \cup {[F EXCEPT !.size = 5], [F EXCEPT !.size = 4, !.stream.gives = 4], [F EXCEPT !.size = 3, !.stream.gives = 3],
        [F EXCEPT !.compressed = 0]}
OddAny ==
  {[F EXCEPT !.kind = k] : k \in {"symlink", "hardlink", "other"}} \cup {[F EXCEPT !.form = "refused"], F}
Around(entries, bytes, format) ==
  {Packed(format, bytes, <<File(<<A, B>>), e, Dir(<<B>>)>>) : e \in entries}
Many == [i \in 1 .. 4 |-> File(<<B, <<i, "lower">>>>)]
Others ==
  Around(OddZip \cup OddAny, 2, "zip") \cup Around(OddAny, 2, "tar.gz") \cup Around(OddZip, 1, "zip")
  \cup {Packed(f, 2, Many) : f \in {"zip", "tar.gz"}} \cup {Packed("tar.gz", 1, SubSeq(Many, 1, 3))}

MCReplacements ==
  {Packed("tar.gz", 2, <<File(<<A, B>>), Dir(<<B>>)>>),
   Packed("tar.gz", 2, <<File(<<A, B>>), [File(<<A, A>>) EXCEPT !.executable = TRUE], Dir(<<B>>)>>),
   Packed("tar.gz", 2, <<[File(<<A, B>>) EXCEPT !.stream = [gives |-> 0, state |-> "corrupt"]]>>),
   [Packed("tar.gz", 2, <<>>) EXCEPT !.readable = FALSE]}
MCArchives ==
  {Packed(f, 4, l) : f \in {"zip", "tar.gz"}, l \in Lists} \cup Others \cup MCReplacements
  \cup {[Packed(f, 2, <<>>) EXCEPT !.regular = FALSE] : f \in {"zip", "tar.gz"}}
(* Below one destination every path fits, below another one component does *)
MCRequests ==
  [format : {"zip", "tar.gz"}, host : {"linux", "windows"}, strip : {0, 1},
   long : {{}, {name \in NamesOfEntries : Len(name) = 2}}]

NoDownload ==
  /\ pc = [o \in Ops |-> "done"] /\ sent = [o \in Ops |-> "good"] /\ used = [o \in Ops |-> "good"]
  /\ part = "absent" /\ cache = "good" /\ rotten = TRUE
NoExtraction ==
  /\ request = [format |-> "zip", host |-> "linux", strip |-> 0, long |-> {}]
  /\ stored = [Packed("zip", 2, <<>>) EXCEPT !.readable = FALSE]
  /\ source = stored /\ replaced = TRUE /\ archiveSize = 0 /\ phase = "done" /\ inspected = <<>>
  /\ written = 0 /\ made = {} /\ tree = <<>> /\ abandoned = TRUE /\ broke = FALSE /\ code = ""
  /\ leftBehind = TRUE

(* an extraction has always made its destination                           *)
ArtifactInit == (Init /\ NoExtraction) \/ (NoDownload /\ ExtractInit)
ArtifactNext ==
  \/ made = {} /\ Next /\ UNCHANGED extractVars
  \/ made # {} /\ ExtractNext /\ UNCHANGED vars
ArtifactSpec == ArtifactInit /\ [][ArtifactNext]_<<vars, extractVars>>
===============================================================================
