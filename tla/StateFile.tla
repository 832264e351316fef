------------------------------ MODULE StateFile ------------------------------
(***************************************************************************)
(* One state file and its `.bak`: WriteState and RestoreFromBackup, run    *)
(* one at a time under the file's lock by processes that may die, over a   *)
(* disk that may refuse or garble a write.                                 *)
(***************************************************************************)
EXTENDS Naturals, FiniteSets

CONSTANTS
  Backup,      \* is the file one of the three that keep a `.bak`?
  Faults,      \* may file operations fail?
  Crashes,     \* may the process die?
  MaxWrites,   \* bound on the writes started
  MaxDamage    \* bound on garbled writes and files gone bad

ASSUME StateAssumption ==
  /\ {Backup, Faults, Crashes} \subseteq BOOLEAN
  /\ {MaxWrites, MaxDamage} \subseteq Nat

VARIABLES
  pc,         \* where the operation that has the lock is
  data,       \* what it is to write
  existing,   \* the file it found
  file, bak,
  outcome,    \* of the last operation
  writes,     \* number of writes started; names their contents
  committed,  \* contents whose write returned success, but for those a caller had taken back
  damage      \* number of garbled writes and files gone bad

vars == <<pc, data, existing, file, bak, outcome, writes, committed, damage>>

\* `own`: has the root ID of this data root; `intact`: can be parsed.
Contents == [id : Nat, own : BOOLEAN, intact : BOOLEAN]
Absent == [id |-> 0, own |-> TRUE, intact |-> FALSE]
Foreign == [id |-> 0, own |-> FALSE, intact |-> TRUE]

\* A `.bak` may have come along with a copied directory.
Init ==
  /\ pc = "idle"
  /\ data = Absent
  /\ existing = Absent
  /\ file = Absent
  /\ bak \in {Absent, Foreign}
  /\ outcome = "none"
  /\ writes = 0
  /\ committed = {}
  /\ damage = 0

-----------------------------------------------------------------------------
Garbled(c) == [c EXCEPT !.intact = FALSE]

\* AtomicWrite of c leaves `new`, which is c as the disk took it.
Stores(new, c) ==
  \/ new = c /\ UNCHANGED damage
  \/ damage < MaxDamage /\ new = Garbled(c) /\ damage' = damage + 1

\* The operation returns.
Returns(result) == pc' = "idle" /\ outcome' = result

\* Bug: the root ID is not compared.
CandidateOfAnyRoot(b) == b.intact

\* checkRestoreCandidate
Candidate(b) == b.intact /\ b.own

\* A caller writes, or has the file restored, whatever state the file is in.
Begin ==
  /\ pc = "idle"
  /\ \/ /\ writes < MaxWrites
        /\ data' = [id |-> writes + 1, own |-> TRUE, intact |-> TRUE]
        /\ writes' = writes + 1
        /\ pc' = "read"
     \/ pc' = "restore" /\ UNCHANGED <<data, writes>>
  /\ outcome' = "none"
  /\ UNCHANGED <<existing, file, bak, committed, damage>>

\* Bug: a `.bak` that is there is kept.
ReadExistingOnce ==
  /\ pc = "read"
  /\ \/ /\ pc' = IF file # Absent /\ Backup /\ bak = Absent THEN "backup" ELSE "replace"
        /\ existing' = file
        /\ UNCHANGED outcome
     \/ Faults /\ Returns("failed") /\ UNCHANGED existing
  /\ UNCHANGED <<data, file, bak, writes, committed, damage>>

\* The content is parsed before anything is written; then the file is read.
ReadExisting ==
  /\ pc = "read"
  /\ \/ /\ pc' = IF file # Absent /\ Backup THEN "backup" ELSE "replace"
        /\ existing' = file
        /\ UNCHANGED outcome
     \/ Faults /\ Returns("failed") /\ UNCHANGED existing
  /\ UNCHANGED <<data, file, bak, writes, committed, damage>>

\* Bug: the new content is kept as the backup.
WriteBackupOfNew ==
  /\ pc = "backup"
  /\ \/ Stores(bak', data) /\ pc' = "replace" /\ UNCHANGED outcome
     \/ Faults /\ Returns("failed") /\ UNCHANGED <<bak, damage>>
  /\ UNCHANGED <<data, existing, file, writes, committed>>

WriteBackup ==
  /\ pc = "backup"
  /\ \/ Stores(bak', existing) /\ pc' = "replace" /\ UNCHANGED outcome
     \/ Faults /\ Returns("failed") /\ UNCHANGED <<bak, damage>>
  /\ UNCHANGED <<data, existing, file, writes, committed>>

\* Bug: the file is removed, then written.
ReplaceRemoving ==
  /\ pc = "replace"
  /\ \/ /\ file # Absent
        /\ file' = Absent
        /\ UNCHANGED <<pc, outcome, damage>>
     \/ file = Absent /\ Stores(file', data) /\ pc' = "verify" /\ UNCHANGED outcome
     \/ Faults /\ Returns("failed") /\ UNCHANGED <<file, damage>>
  /\ UNCHANGED <<data, existing, bak, writes, committed>>

Replace ==
  /\ pc = "replace"
  /\ \/ Stores(file', data) /\ pc' = "verify" /\ UNCHANGED outcome
     \/ Faults /\ Returns("failed") /\ UNCHANGED <<file, damage>>
  /\ UNCHANGED <<data, existing, bak, writes, committed>>

Verify ==
  /\ pc = "verify"
  /\ \/ /\ file = data
        /\ committed' = committed \cup {file}
        /\ Returns("written")
     \/ /\ file # data \/ Faults
        /\ pc' = "rollback"
        /\ UNCHANGED <<outcome, committed>>
  /\ UNCHANGED <<data, existing, file, bak, writes, damage>>

\* After a failed verification the `.bak` is put back, if it is a candidate.
Rollback ==
  /\ pc = "rollback"
  /\ \/ /\ Backup /\ Candidate(bak)
        /\ Stores(file', bak)
        /\ Returns("rolled_back")
     \/ /\ Faults \/ ~(Backup /\ Candidate(bak))
        /\ Returns("failed")
        /\ UNCHANGED <<file, damage>>
  /\ UNCHANGED <<data, existing, bak, writes, committed>>

\* RestoreFromBackup does not look at the file.  The caller that has it put back takes
\* back what was written since.
Restore ==
  /\ pc = "restore"
  /\ \/ /\ Candidate(bak)
        /\ Stores(file', bak)
        /\ committed' = {c \in committed : c.id <= bak.id}
        /\ Returns("restored")
     \/ (Faults \/ ~Candidate(bak)) /\ Returns("corrupt") /\ UNCHANGED <<file, committed, damage>>
  /\ UNCHANGED <<data, existing, bak, writes>>

Crash ==
  /\ Crashes /\ pc # "idle"
  /\ Returns("none")
  /\ UNCHANGED <<data, existing, file, bak, writes, committed, damage>>

\* Between operations a file goes bad.
GoBad ==
  /\ pc = "idle" /\ damage < MaxDamage
  /\ \/ file.intact /\ file' = Garbled(file) /\ UNCHANGED bak
     \/ bak.intact /\ bak' = Garbled(bak) /\ UNCHANGED file
  /\ damage' = damage + 1
  /\ UNCHANGED <<pc, data, existing, outcome, writes, committed>>

Next ==
  \/ Begin \/ ReadExisting \/ WriteBackup \/ Replace \/ Verify \/ Rollback \/ Restore
  \/ Crash \/ GoBad

Spec == Init /\ [][Next]_vars

-----------------------------------------------------------------------------
(* The inductive invariant behind the safety properties *)

Writing == {"read", "backup", "replace", "verify", "rollback"}
TwiceCommitted == \E c, d \in committed : c # d

\* Each variable has its type, and the damage its bound.
TypeOK ==
  /\ pc \in Writing \cup {"idle", "restore"}
  /\ {data, existing, file, bak} \subseteq Contents
  /\ outcome \in {"none", "failed", "written", "rolled_back", "restored", "corrupt"}
  /\ writes \in Nat
  /\ committed \subseteq Contents /\ IsFiniteSet(committed)
  /\ damage \in 0 .. MaxDamage

\* A write has contents of its own, newer than all that was committed.
DataIsNew ==
  /\ data.own
  /\ pc \in Writing => data.intact /\ data.id = writes /\ writes > 0
  /\ \A c \in committed : c.id <= writes

\* What is own is there: it has the number of the write it came from.
OwnIsWritten == \A c \in {existing, file, bak} : c.own => c = Absent \/ c.id > 0

\* What the labels say of the file.
FileAtLabel == pc = "backup" => Backup /\ file = existing /\ file # Absent

\* As long as there is no file there is nothing to restore and nothing committed.
BackupFollowsFile == file = Absent => ~Candidate(bak) /\ committed = {}

\* From the replacement on the `.bak` is what the write found, if it is any good.
BackupIsExisting ==
  Backup /\ pc \in {"replace", "verify", "rollback"} /\ Candidate(bak) => bak = existing

\* On a disk that garbled nothing yet, the file and what a write found are sound and
\* not older than what was committed, and the second commit left a `.bak`.
SoundSoFar ==
  damage = 0 =>
    /\ file = Absent \/ file.intact
    /\ \A c \in committed : file.id >= c.id
    /\ pc \in Writing \ {"read"} =>
         /\ existing = Absent => committed = {}
         /\ existing # Absent => existing.intact /\ existing.own
         /\ \A c \in committed : existing.id >= c.id
         /\ Backup /\ pc # "backup" /\ existing # Absent => Candidate(bak)
    /\ Backup /\ TwiceCommitted => Candidate(bak)

\* The state of another root is never put in place.
OnlyOwnState == file.own

IInv ==
  /\ TypeOK /\ OnlyOwnState /\ DataIsNew /\ OwnIsWritten /\ FileAtLabel
  /\ BackupFollowsFile /\ BackupIsExisting /\ SoundSoFar

-----------------------------------------------------------------------------
(* Properties *)

\* Whatever fails or dies, and even if one write is garbled or one file goes bad,
\* a state written twice can still be read or restored; but for one way to lose both:
\* a write over a file that cannot be read makes that file the backup.
Recoverable ==
  Backup /\ Cardinality(committed) > 1 => file.intact \/ Candidate(bak) \/ bak = file

\* On a disk that garbles nothing the file is never older than the last state
\* whose write was reported successful and that no caller had taken back.
NothingCommittedLost ==
  damage = 0 => \A c \in committed : file.intact /\ file.id >= c.id

\* A write that reports a rollback has put back what it found, as far as the
\* disk takes it.
RollbackIsPrevious ==
  [][outcome' = "rolled_back" /\ outcome # "rolled_back"
       => file' \in {existing, Garbled(existing)}]_vars
=============================================================================
