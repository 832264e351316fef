------------------------------ MODULE Extraction ------------------------------
(***************************************************************************)
(* Extractor.Extract: an archive is inspected as a whole in a first pass   *)
(* and written in a second one.  A zip is read twice through one handle; a *)
(* tar.gz is opened a second time by its path, under which another process *)
(* may have put another archive meanwhile.  Any call of the file system    *)
(* may fail and the caller may cancel; what fails is undone.               *)
(*                                                                         *)
(* A component of a path is <<letter, spelling>>: components that differ   *)
(* in case only have one letter.  "form" of a name says whether every rule *)
(* on its characters and components holds ("plain").                       *)
(***************************************************************************)
EXTENDS Integers, Sequences, FiniteSets, SequencesExt

CONSTANTS
  Archives,   \* what may be found under the path of the archive
  Replacements, \* and what another process may put there
  Requests,   \* [format, host, strip, long]
  ArchiveEntryMax, ArchiveFileMaxBytes, ArchiveTotalMaxBytes, ArchiveRatioMax

Components == Nat \X STRING
ArchiveEntry ==
  [name : Seq(Components) \ {<<>>}, form : STRING, kind : STRING, size : Nat, compressed : Nat,
   executable : BOOLEAN, stream : [gives : Nat, state : STRING]]

ASSUME ArchiveAssumption ==
  /\ {ArchiveEntryMax, ArchiveFileMaxBytes, ArchiveTotalMaxBytes, ArchiveRatioMax} \subseteq Nat \ {0}
  /\ \A archive \in Archives \cup Replacements : archive.entries \in Seq(ArchiveEntry) /\ archive.bytes \in Nat

VARIABLES
  request,     \* the archive's format, the host, strip_components; the paths that are too long below the destination
  stored,      \* the archive under the path
  replaced,    \* has another process replaced it?
  source,      \* the archive behind the handle
  archiveSize, \* as Stat gave it
  phase,       \* of Extract
  inspected,   \* the entries the first pass let through
  written,     \* how many of them the second pass has written
  made,        \* verifiedDirs: directories known to be directories
  tree,        \* what lies below the destination: kind and size of each path
  abandoned,   \* has the caller cancelled?
  broke,       \* has a call of the file system failed?
  code,        \* the answer, "" before there is one
  leftBehind   \* RemoveAll failed

extractVars == <<request, stored, replaced, source, archiveSize, phase, inspected, written,
                 made, tree, abandoned, broke, code, leftBehind>>

-----------------------------------------------------------------------------
(* archive.go *)

foldKey(path) == [i \in DOMAIN path |-> path[i][1]]
WithParents(path) == Prefixes(path) \ {<<>>}

\* Links and special files are never extracted.
checkEntry(entry) == entry.kind \in {"dir", "file"} /\ entry.form = "plain"

\* What is left of the name, if anything is.
stripComponents(entry, strip) ==
  IF strip = 0 THEN {entry.name} ELSE {Tail(entry.name)} \ {<<>>}

\* The division drops what is left over.
checkRatio(expanded, compressed) ==
  compressed = 0 \/ expanded = 0 \/ expanded \div compressed <= ArchiveRatioMax

\* Bug: only whole paths are compared.
registerNothing(paths) == TRUE
\* One directory is not spelled in two ways.
registerPrefixes(paths) ==
  \A p, q \in UNION {WithParents(path) : path \in paths} : foldKey(p) = foldKey(q) => p = q

\* What the first n numbers come to
Sum(numbers, n) == LET sum[k \in Nat] == IF k = 0 THEN 0 ELSE sum[k - 1] + numbers[k] IN sum[n]
SizeOf(items) == [i \in DOMAIN items |-> items[i].size]
Sizes(items) == Sum(SizeOf(items), Len(items))
\* Entries whose compressed size is not known are left out of the ratio.
RatioHolds(files) ==
  LET known == SelectSeq(files, LAMBDA e : e.compressed > 0) IN
  /\ \A i \in DOMAIN files : checkRatio(files[i].size, files[i].compressed)
  /\ checkRatio(Sizes(known), Sum([i \in DOMAIN known |-> known[i].compressed], Len(known)))

InspectedEntry(entries, strip, index) ==
  LET entry == entries[index] IN
  [index |-> index, path |-> CHOOSE path \in stripComponents(entry, strip) : TRUE,
   kind |-> entry.kind, size |-> entry.size, executable |-> entry.executable]

\* The k-th of some indexes
Nth(indexes, k) == CHOOSE i \in indexes : Cardinality({j \in indexes : j < i}) = k - 1

\* InspectEntriesResult: the entries that are kept, or none when it refuses.
Inspection(entries, strip) ==
  LET kept == {i \in DOMAIN entries : stripComponents(entries[i], strip) # {}}
      items == [k \in 1 .. Cardinality(kept) |-> InspectedEntry(entries, strip, Nth(kept, k))]
      paths == {items[k].path : k \in DOMAIN items}
      files == SelectSeq(entries, LAMBDA e : stripComponents(e, strip) # {} /\ e.kind = "file") IN
  IF /\ Len(entries) <= ArchiveEntryMax
     /\ \A i \in DOMAIN entries : checkEntry(entries[i])
     /\ Cardinality({foldKey(path) : path \in paths}) = Len(items)
     /\ registerPrefixes(paths)
     /\ \A i \in DOMAIN files : files[i].size <= ArchiveFileMaxBytes
     /\ Sizes(files) <= ArchiveTotalMaxBytes
     /\ RatioHolds(files)
  THEN items ELSE <<>>

-----------------------------------------------------------------------------
(* The file system: what lies below the destination *)

\* On Windows one name finds what was created under another spelling.
SamePath(p, q) == IF request.host = "windows" THEN foldKey(p) = foldKey(q) ELSE p = q
Found(path) == {q \in DOMAIN tree : SamePath(q, path)}
FileOnTheWay(path) == \E p \in WithParents(path) : \E q \in Found(p) : tree[q].kind = "file"
WithDirs(paths) ==
  LET new == {p \in paths : Found(p) = {}} IN
  [p \in DOMAIN tree \cup new |-> IF p \in new THEN [kind |-> "dir", size |-> 0] ELSE tree[p]]
WithFile(nodes, path, size) ==
  [p \in DOMAIN nodes \cup {path} |-> IF p = path THEN [kind |-> "file", size |-> size] ELSE nodes[p]]

-----------------------------------------------------------------------------
(* extract.go *)

maxExtractBytes ==
  IF archiveSize = 0 \/ archiveSize > ArchiveTotalMaxBytes \div ArchiveRatioMax THEN ArchiveTotalMaxBytes
  ELSE archiveSize * ArchiveRatioMax

ExtractInit ==
  /\ request \in Requests /\ stored \in {archive \in Archives : archive.format = request.format}
  /\ source = stored /\ replaced = FALSE /\ archiveSize = 0
  /\ phase = "stat" /\ inspected = <<>> /\ written = 0
  /\ made = {<<>>} /\ tree = <<>>
  /\ abandoned = FALSE /\ broke = FALSE /\ code = "" /\ leftBehind = FALSE

\* An error of the second pass or of the first: Extract removes the destination.
Undone(answer) == phase' = "undo" /\ code' = answer
UndoneAs(answer, nodes) == Undone(answer) /\ tree' = nodes /\ UNCHANGED <<inspected, written, made>>
DiskFails == broke' = TRUE /\ Undone("FILESYSTEM")
\* What fails while headers are read is taken for the archive's fault.
ReadFails == DiskFails \/ (broke' = TRUE /\ Undone("ARCHIVE_UNSAFE"))

StatArchive ==
  /\ phase = "stat"
  /\ \/ stored.regular /\ phase' = "inspect" /\ archiveSize' = stored.bytes /\ UNCHANGED <<broke, code>>
     \/ ~stored.regular /\ phase' = "done" /\ code' = "ARCHIVE_UNSAFE" /\ UNCHANGED <<broke, archiveSize>>
     \/ phase' = "done" /\ code' = "FILESYSTEM" /\ broke' = TRUE /\ UNCHANGED archiveSize
  /\ UNCHANGED <<request, stored, replaced, source, inspected, written, made, tree, abandoned, leftBehind>>

\* A zip is read by the size that Stat gave; a tar.gz is unpacked to its end,
\* no further than the limit.
Opens(archive) == archive.readable /\ archive.format = request.format
Readable(archive) ==
  /\ Opens(archive)
  /\ IF request.format = "zip" THEN archive.bytes = archiveSize
     ELSE Sizes(archive.entries) <= maxExtractBytes
          /\ \A i \in DOMAIN archive.entries : archive.entries[i].stream.state # "corrupt"
InspectArchive ==
  /\ phase = "inspect" /\ source' = stored
  /\ \/ /\ inspected' = IF Readable(stored) THEN Inspection(stored.entries, request.strip) ELSE <<>>
        /\ IF inspected' = <<>> THEN Undone("ARCHIVE_UNSAFE")
           ELSE phase' = (IF request.format = "zip" THEN "prepare" ELSE "reopen") /\ UNCHANGED code
        /\ UNCHANGED broke
     \/ ReadFails /\ UNCHANGED inspected
  /\ UNCHANGED <<request, stored, replaced, archiveSize, written, made, tree, abandoned, leftBehind>>

Reopen ==
  /\ phase = "reopen"
  /\ \/ /\ source' = stored
        /\ IF Opens(stored) THEN phase' = "prepare" /\ UNCHANGED code ELSE Undone("ARCHIVE_UNSAFE")
        /\ UNCHANGED broke
     \/ ReadFails /\ UNCHANGED source
  /\ UNCHANGED <<request, stored, replaced, archiveSize, inspected, written, made, tree, abandoned, leftBehind>>

\* newTreeWriter
Prepare ==
  /\ phase = "prepare"
  /\ \/ phase' = "write" /\ UNCHANGED <<broke, code>>
     \/ DiskFails
  /\ UNCHANGED <<request, stored, replaced, source, archiveSize, inspected, written, made, tree, abandoned, leftBehind>>

Item == inspected[written + 1]
\* The header that is read again is the one that was inspected.
verifyTarItem ==
  /\ Item.index <= Len(source.entries)
  /\ Sum(SizeOf(source.entries), Item.index - 1) <= maxExtractBytes
  /\ \A i \in 1 .. Item.index - 1 : source.entries[i].stream.state # "corrupt"
  /\ LET entry == source.entries[Item.index] IN
     /\ checkEntry(entry) /\ Item.path \in stripComponents(entry, request.strip)
     /\ entry.kind = Item.kind /\ entry.size = Item.size /\ entry.executable = Item.executable
Verified == request.format = "zip" \/ verifyTarItem

Written(nodes, dirs) ==
  /\ tree' = nodes /\ made' = made \cup dirs /\ written' = written + 1
  /\ UNCHANGED <<phase, code, inspected, broke>>
\* ensureDir: a directory that was verified is not looked at again.  Nobody else
\* writes below the destination, so that no link is met on the way.
\* Bug: a directory that is there is refused.
BlockedByAny(dir) == dir \notin made /\ (FileOnTheWay(dir) \/ Found(dir) # {})
Blocked(dir) == dir \notin made /\ FileOnTheWay(dir)
Ensured(dir) == IF dir \in made THEN tree ELSE WithDirs(WithParents(dir))

\* security.Join of the destination and a path: the first pass knows nothing of the
\* destination, and what is below a path that is too long is longer.
TooLong(path) == WithParents(path) \cap request.long # {}

WriteDir ==
  /\ Item.kind = "dir"
  /\ IF TooLong(Item.path) THEN UndoneAs("PATH_UNSAFE", tree) /\ UNCHANGED broke
     ELSE IF Blocked(Item.path) THEN UndoneAs("FILESYSTEM", tree) /\ UNCHANGED broke
     ELSE Written(Ensured(Item.path), {Item.path})

\* The bytes written before, and those the stream would give
FileBytes == [i \in DOMAIN inspected |-> IF inspected[i].kind = "file" THEN inspected[i].size ELSE 0]
Before == Sum(FileBytes, written)
Stream == source.entries[Item.index].stream
\* A stream that ends early, goes on too long or has a wrong sum is the
\* archive's fault; any other error of the stream is taken for the disk's.
StreamAnswer ==
  IF Stream.gives > Item.size \/ Before + Stream.gives > maxExtractBytes THEN "ARCHIVE_UNSAFE"
  ELSE IF Stream.state = "corrupt" THEN "FILESYSTEM"
  ELSE IF Stream.gives < Item.size \/ Stream.state = "checksum" THEN "ARCHIVE_UNSAFE"
  ELSE ""
WriteFile ==
  /\ Item.kind = "file"
  /\ LET parent == Front(Item.path)
         nodes == Ensured(parent) IN
     IF TooLong(parent) THEN UndoneAs("PATH_UNSAFE", tree)
     ELSE IF Blocked(parent) THEN UndoneAs("FILESYSTEM", tree)
     ELSE IF TooLong(Item.path) THEN UndoneAs("PATH_UNSAFE", nodes)
     ELSE IF Found(Item.path) # {} THEN UndoneAs("ARCHIVE_UNSAFE", nodes)
     ELSE IF abandoned THEN UndoneAs("CANCELLED", WithFile(nodes, Item.path, 0))
     ELSE IF StreamAnswer # "" THEN UndoneAs(StreamAnswer, WithFile(nodes, Item.path, Stream.gives))
     ELSE Written(WithFile(nodes, Item.path, Item.size), {parent})
  /\ UNCHANGED broke

\* What a call that fails may have made of the entry
Parts ==
  LET dir == IF Item.kind = "dir" THEN Item.path ELSE Front(Item.path)
      nodes == IF TooLong(dir) THEN tree ELSE Ensured(dir) IN
  {tree, nodes} \cup (IF Item.kind = "file" /\ ~TooLong(Item.path) /\ Found(Item.path) = {}
                      THEN {WithFile(nodes, Item.path, 0)} ELSE {})
WriteEntry ==
  /\ phase = "write" /\ written < Len(inspected)
  /\ \/ ~Verified /\ UndoneAs("ARCHIVE_UNSAFE", tree) /\ UNCHANGED broke
     \/ Verified /\ (WriteDir \/ WriteFile)
     \/ /\ Verified /\ ~FileOnTheWay(Item.path) /\ ReadFails
        /\ tree' \in Parts /\ UNCHANGED <<inspected, written, made>>
  /\ UNCHANGED <<request, stored, replaced, source, archiveSize, abandoned, leftBehind>>

Extracted ==
  /\ phase = "write" /\ written = Len(inspected)
  /\ phase' = "done" /\ code' = "OK"
  /\ UNCHANGED <<request, stored, replaced, source, archiveSize, inspected, written, made, tree, abandoned, broke, leftBehind>>

\* RemoveAll of the destination; its error is dropped.
Undo ==
  /\ phase = "undo" /\ phase' = "done"
  /\ \/ tree' = <<>> /\ UNCHANGED leftBehind
     \/ leftBehind' = TRUE /\ UNCHANGED tree
  /\ UNCHANGED <<request, stored, replaced, source, archiveSize, inspected, written, made, abandoned, broke, code>>

\* Another operation renames its download to the path; the caller cancels.
ReplaceArchive ==
  /\ ~replaced /\ phase # "done"
  /\ stored' \in Replacements \ {stored} /\ replaced' = TRUE
  /\ UNCHANGED <<request, source, archiveSize, phase, inspected, written, made, tree, abandoned, broke, code, leftBehind>>
AbandonExtraction ==
  /\ ~abandoned /\ phase # "done" /\ abandoned' = TRUE
  /\ UNCHANGED <<request, stored, replaced, source, archiveSize, phase, inspected, written, made, tree, broke, code, leftBehind>>

ExtractNext ==
  \/ StatArchive \/ InspectArchive \/ Reopen \/ Prepare \/ WriteEntry \/ Extracted \/ Undo
  \/ ReplaceArchive \/ AbandonExtraction
ExtractSpec == ExtractInit /\ [][ExtractNext]_extractVars

-----------------------------------------------------------------------------
(* Properties *)

\* What Extract says is on the disk is there, each entry as it is spelled, with
\* the size that was inspected and nothing beside it; and what it gave up is
\* gone, unless it could not be removed.
AllOrNothing ==
  phase = "done" /\ ~leftBehind =>
    LET items == ToSet(inspected) IN
    IF code = "OK"
    THEN /\ DOMAIN tree = UNION {WithParents(item.path) : item \in items}
         /\ \A item \in items : tree[item.path].kind = item.kind
                                /\ (item.kind = "file" => tree[item.path].size = item.size)
    ELSE tree = <<>>

\* What the first pass lets through the second writes: it stops for a call of
\* the file system that failed, a cancellation, an archive that was replaced or
\* is not what its headers say, a path that is too long below the destination, or
\* total sizes at the limit, where the two passes count differently.  An entry below
\* another that is a file is let through all the same.
Meet(p, q) == p.path \in WithParents(q.path) /\ p.kind = "file"
StoppedFor(answer) ==
  \/ answer \in {"FILESYSTEM", "ARCHIVE_UNSAFE"} /\ broke
  \/ answer = "CANCELLED" /\ abandoned
  \/ answer = "PATH_UNSAFE" /\ \E item \in ToSet(inspected) : TooLong(item.path)
  \/ replaced
  \/ \E p, q \in ToSet(inspected) : p # q /\ Meet(p, q)
  \/ \E item \in ToSet(inspected) :
       item.kind = "file" /\ source.entries[item.index].stream # [gives |-> item.size, state |-> "whole"]
  \/ Sum(FileBytes, Len(inspected)) > maxExtractBytes
StopsForCause == phase = "done" /\ inspected # <<>> /\ code # "OK" => StoppedFor(code)

-----------------------------------------------------------------------------
(* The inductive invariant behind AllOrNothing *)

InspectedItem == [index : Nat, path : Seq(Components) \ {<<>>}, kind : {"dir", "file"}, size : Nat, executable : BOOLEAN]
Paths == {inspected[k].path : k \in DOMAIN inspected}

ExtractTypeOK ==
  /\ stored \in Archives \cup Replacements
  /\ phase \in {"stat", "inspect", "reopen", "prepare", "write", "undo", "done"}
  /\ code \in {"", "OK", "FILESYSTEM", "ARCHIVE_UNSAFE", "PATH_UNSAFE", "CANCELLED"}
  /\ archiveSize \in Nat /\ inspected \in Seq(InspectedItem) /\ written \in 0 .. Len(inspected)

\* Nothing is written before the second pass; what fails is undone and has an answer.
UndoneAsCoded ==
  /\ phase \in {"stat", "inspect", "reopen", "prepare"} =>
       tree = <<>> /\ made = {<<>>} /\ written = 0 /\ code = ""
  /\ phase = "write" => code = ""
  /\ phase = "undo" => code \notin {"", "OK"}
  /\ phase = "done" => code # "" /\ (code = "OK" => written = Len(inspected))
  /\ phase = "done" /\ code # "OK" => leftBehind \/ tree = <<>>
  /\ code = "OK" => phase = "done"

\* No directory of the archive is spelled in two ways, so that below the destination
\* there are the entries written so far with the directories above them, and nothing
\* else; and the directories known to be directories are directories.
TreeAsWritten ==
  /\ registerPrefixes(Paths)
  /\ phase = "write" \/ code = "OK" =>
       /\ DOMAIN tree = UNION {WithParents(inspected[k].path) : k \in 1 .. written}
       /\ \A k \in 1 .. written :
            /\ tree[inspected[k].path].kind = inspected[k].kind
            /\ inspected[k].kind = "file" => tree[inspected[k].path].size = inspected[k].size
       /\ \A p \in DOMAIN tree : tree[p].kind \in {"dir", "file"}
       /\ <<>> \in made
       /\ \A dir \in made \ {<<>>} : dir \in DOMAIN tree /\ WithParents(dir) \subseteq DOMAIN tree /\ tree[dir].kind = "dir"

ExtractInv == ExtractTypeOK /\ UndoneAsCoded /\ TreeAsWritten

\* Behind StopsForCause: while nobody has replaced the archive the one behind the handle
\* is the one that was inspected; a file below the destination is an entry of its own;
\* and what was given up had a cause.
AsInspected ==
  /\ phase \in {"reopen", "prepare", "write"} /\ ~replaced =>
       source = stored /\ Readable(source) /\ inspected = Inspection(source.entries, request.strip)
  /\ phase \in {"stat", "inspect"} => inspected = <<>>
  /\ \A i, j \in DOMAIN inspected : inspected[i].index = inspected[j].index => i = j
FilesAsWritten ==
  phase = "write" =>
    \A p \in DOMAIN tree : tree[p].kind = "file" =>
      \E k \in 1 .. written : inspected[k].path = p /\ inspected[k].kind = "file"
GivenUpForCause == phase \in {"undo", "done"} /\ inspected # <<>> /\ code # "OK" => StoppedFor(code)

CauseInv == AsInspected /\ FilesAsWritten /\ GivenUpForCause
===============================================================================
