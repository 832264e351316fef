--------------------------- MODULE StateFile_proofs ---------------------------
(***************************************************************************)
(* Proofs about a state file and its `.bak`, for any number of writes and, *)
(* but for Recoverable, any amount of damage.                              *)
(***************************************************************************)
EXTENDS StateFile, FiniteSetTheorems, TLAPS

(* The three laws of contents the proofs need.                             *)
\* Foreign and absent files are contents; an absent one is of no other root.
LEMMA ContentsAre ==
  /\ Absent \in Contents /\ Foreign \in Contents
  /\ ~Absent.intact /\ Absent.own /\ Absent.id = 0 /\ ~Foreign.own
BY DEF Absent, Foreign, Contents

\* A garbled file differs from what was written in nothing but that it cannot
\* be read.
LEMMA GarbledIs ==
  ASSUME NEW c \in Contents
  PROVE  /\ Garbled(c) \in Contents /\ ~Garbled(c).intact
         /\ Garbled(c).own = c.own /\ Garbled(c).id = c.id
BY DEF Garbled, Contents

\* Garbled, own contents stay there and keep their number.
LEMMA GarbledStays ==
  ASSUME NEW c \in Contents, c.own => c = Absent \/ c.id > 0
  PROVE  Garbled(c).own => Garbled(c) = Absent \/ Garbled(c).id > 0
<1>1. Garbled(Absent) = Absent
  <2>1. Absent \in Contents /\ Absent.intact = FALSE
    BY DEF Absent, Contents
  <2>2. \A d \in Contents : d.intact = FALSE => [d EXCEPT !.intact = FALSE] = d
    BY DEF Contents
  <2> QED BY <2>1, <2>2 DEF Garbled
<1> QED BY <1>1, GarbledIs

\* What AtomicWrite leaves behind is the contents or its garbled form, and the
\* damage counts which.
LEMMA StoresIs ==
  ASSUME TypeOK, NEW c \in Contents, NEW new, Stores(new, c)
  PROVE  /\ new \in Contents /\ new.own = c.own /\ new.id = c.id
         /\ damage' \in 0 .. MaxDamage /\ damage <= damage' /\ (damage' = 0 => damage = 0)
         /\ \/ new = c /\ damage' = damage
            \/ new = Garbled(c) /\ ~new.intact /\ damage' = damage + 1
<1>1. MaxDamage \in Nat /\ damage \in 0 .. MaxDamage
  BY StateAssumption DEF StateAssumption, TypeOK
<1>2. CASE new = c /\ UNCHANGED damage
  BY <1>1, <1>2
<1>3. CASE damage < MaxDamage /\ new = Garbled(c) /\ damage' = damage + 1
  BY <1>1, <1>3, GarbledIs
<1> QED BY <1>2, <1>3 DEF Stores

-----------------------------------------------------------------------------
(* The invariant *)

\* Before the first write there is no file, and a `.bak` of another root at most.
LEMMA InitInv == Init => IInv
<1> SUFFICES ASSUME Init PROVE IInv
  OBVIOUS
<1>1. TypeOK
  BY ContentsAre, FS_EmptySet, StateAssumption DEF Init, TypeOK, Writing, StateAssumption
<1>2. ~Candidate(bak)
  BY ContentsAre DEF Init, Candidate
<1> QED BY <1>1, <1>2, ContentsAre DEF Init, IInv, DataIsNew, FileAtLabel, BackupFollowsFile,
          BackupIsExisting, SoundSoFar, TwiceCommitted, OnlyOwnState, OwnIsWritten, Writing

\* A write begins, or a restoration.
LEMMA BeginInv == ASSUME IInv, Begin PROVE IInv'
<1> USE DEF IInv
<1>0. /\ pc = "idle" /\ UNCHANGED <<existing, file, bak, committed, damage>>
      /\ outcome' = "none"
  BY DEF Begin
<1>1. CASE /\ data' = [id |-> writes + 1, own |-> TRUE, intact |-> TRUE]
           /\ writes' = writes + 1 /\ pc' = "read"
  <2>1. /\ data' \in Contents /\ data'.own /\ data'.intact /\ data'.id = writes'
        /\ writes' \in Nat /\ writes' > 0
        /\ \A c \in committed : c.id <= writes'
    BY <1>1 DEF TypeOK, Contents, DataIsNew
  <2>2. TypeOK' /\ DataIsNew'
    BY <1>0, <1>1, <2>1 DEF TypeOK, DataIsNew, Writing
  <2>3. FileAtLabel' /\ BackupFollowsFile' /\ BackupIsExisting' /\ SoundSoFar' /\ OnlyOwnState' /\ OwnIsWritten'
    BY <1>0, <1>1 DEF OnlyOwnState, OwnIsWritten, FileAtLabel, BackupFollowsFile, BackupIsExisting, SoundSoFar, Candidate,
         TwiceCommitted
  <2> QED BY <2>2, <2>3
<1>2. CASE pc' = "restore" /\ UNCHANGED <<data, writes>>
  BY <1>0, <1>2 DEF TypeOK, DataIsNew, FileAtLabel, BackupFollowsFile, BackupIsExisting, SoundSoFar,
       Candidate, TwiceCommitted, OnlyOwnState, OwnIsWritten, Writing
<1> QED BY <1>1, <1>2 DEF Begin

\* An operation that ends without another change of the files keeps it.
LEMMA EndsInv ==
  ASSUME IInv, pc' = "idle", UNCHANGED <<data, existing, file, bak, writes, committed, damage>>,
         outcome' \in {"none", "failed", "corrupt"}
  PROVE  IInv'
BY DEF IInv, TypeOK, DataIsNew, FileAtLabel, BackupFollowsFile, BackupIsExisting, SoundSoFar,
     Candidate, TwiceCommitted, OnlyOwnState, OwnIsWritten, Writing

\* What a write finds it keeps in `existing`.
LEMMA ReadInv == ASSUME IInv, ReadExisting PROVE IInv'
<1>1. CASE Returns("failed") /\ UNCHANGED existing
  BY <1>1, EndsInv DEF Returns, ReadExisting
<1>2. CASE /\ pc' = (IF file # Absent /\ Backup THEN "backup" ELSE "replace")
           /\ existing' = file /\ UNCHANGED outcome
  <2> USE DEF IInv
  <2>0. pc = "read" /\ UNCHANGED <<data, file, bak, writes, committed, damage>>
    BY DEF ReadExisting
  <2>1. TypeOK' /\ DataIsNew'
    BY <1>2, <2>0 DEF TypeOK, DataIsNew, Writing
  <2>2. FileAtLabel' /\ BackupFollowsFile' /\ OnlyOwnState' /\ OwnIsWritten'
    BY <1>2, <2>0 DEF OnlyOwnState, OwnIsWritten, FileAtLabel, BackupFollowsFile, Candidate
  <2>3. BackupIsExisting'
    BY <1>2, <2>0 DEF BackupIsExisting, BackupFollowsFile, Candidate
  <2>4. SoundSoFar'
    <3>1. file # Absent /\ damage = 0 => file.intact
      BY <2>0 DEF SoundSoFar
    <3> QED BY <1>2, <2>0, <3>1 DEF SoundSoFar, BackupFollowsFile, Candidate, TwiceCommitted, OnlyOwnState
  <2> QED BY <2>1, <2>2, <2>3, <2>4
<1> QED BY <1>1, <1>2 DEF ReadExisting

\* The `.bak` becomes what the write found, or a garbled form of it.
LEMMA BackupInv == ASSUME IInv, WriteBackup PROVE IInv'
<1>1. CASE Returns("failed") /\ UNCHANGED <<bak, damage>>
  BY <1>1, EndsInv DEF Returns, WriteBackup
<1>2. CASE Stores(bak', existing) /\ pc' = "replace" /\ UNCHANGED outcome
  <2> USE DEF IInv
  <2>0. pc = "backup" /\ UNCHANGED <<data, existing, file, writes, committed>>
    BY DEF WriteBackup
  <2>1. existing \in Contents
    BY DEF TypeOK
  <2>2. /\ bak' \in Contents /\ damage' \in 0 .. MaxDamage /\ (damage' = 0 => damage = 0 /\ bak' = existing)
        /\ bak' = existing \/ ~bak'.intact
    <3>1. damage \in Nat
      BY DEF TypeOK
    <3> QED BY <1>2, <2>1, <3>1, StoresIs
  <2>3. TypeOK' /\ DataIsNew'
    BY <1>2, <2>0, <2>2 DEF TypeOK, DataIsNew, Writing
  <2>4. file # Absent /\ file = existing
    BY <2>0 DEF FileAtLabel
  <2>5. FileAtLabel' /\ BackupFollowsFile' /\ BackupIsExisting' /\ OnlyOwnState'
    BY <1>2, <2>0, <2>2, <2>4 DEF FileAtLabel, BackupFollowsFile, BackupIsExisting, OnlyOwnState, Candidate
  <2>6. SoundSoFar'
    BY <1>2, <2>0, <2>2, <2>4 DEF SoundSoFar, OnlyOwnState, Candidate, TwiceCommitted, Writing
  <2>7. OwnIsWritten'
    BY <1>2, <2>0, <2>1, GarbledStays DEF OwnIsWritten, Stores
  <2> QED BY <2>3, <2>5, <2>6, <2>7
<1> QED BY <1>1, <1>2 DEF WriteBackup

\* The file becomes the new contents, or a garbled form of them.
LEMMA ReplaceInv == ASSUME IInv, Replace PROVE IInv'
<1>1. CASE Returns("failed") /\ UNCHANGED <<file, damage>>
  BY <1>1, EndsInv DEF Returns, Replace
<1>2. CASE Stores(file', data) /\ pc' = "verify" /\ UNCHANGED outcome
  <2> USE DEF IInv
  <2>0. pc = "replace" /\ UNCHANGED <<data, existing, bak, writes, committed>>
    BY DEF Replace
  <2>1. /\ data \in Contents /\ data.intact /\ data.own /\ data.id = writes /\ writes \in Nat /\ writes > 0
    BY <2>0 DEF TypeOK, DataIsNew, Writing
  <2>2. /\ file' \in Contents /\ file'.own /\ file'.id = writes
        /\ damage' \in 0 .. MaxDamage /\ (damage' = 0 => damage = 0 /\ file' = data)
    <3>1. damage \in Nat
      BY DEF TypeOK
    <3> QED BY <1>2, <2>1, <3>1, StoresIs
  <2>3. file' # Absent
    BY <2>1, <2>2, ContentsAre
  <2>4. TypeOK' /\ DataIsNew'
    BY <1>2, <2>0, <2>2 DEF TypeOK, DataIsNew, Writing
  <2>5. FileAtLabel' /\ BackupFollowsFile' /\ BackupIsExisting' /\ OnlyOwnState'
    BY <1>2, <2>0, <2>2, <2>3 DEF FileAtLabel, BackupFollowsFile, BackupIsExisting, OnlyOwnState, Candidate
  <2>6. SoundSoFar'
    BY <1>2, <2>0, <2>1, <2>2 DEF SoundSoFar, DataIsNew, Candidate, TwiceCommitted, Writing
  <2>7. OwnIsWritten'
    BY <2>0, <2>1, <2>2 DEF OwnIsWritten
  <2> QED BY <2>4, <2>5, <2>6, <2>7
<1> QED BY <1>1, <1>2 DEF Replace

\* A commit adds what is in the file.  It is the second one only if the write
\* found a file, and then it left a `.bak`.
LEMMA VerifyInv == ASSUME IInv, Verify PROVE IInv'
<1> USE DEF IInv
<1>0. pc = "verify" /\ UNCHANGED <<data, existing, file, bak, writes, damage>>
  BY DEF Verify
<1>1. CASE file = data /\ committed' = committed \cup {file} /\ Returns("written")
  <2>1. /\ data \in Contents /\ data.intact /\ data.id = writes /\ writes \in Nat
        /\ \A c \in committed : c.id <= writes
    BY <1>0 DEF TypeOK, DataIsNew, Writing
  <2>2. IsFiniteSet(committed')
    BY <1>1, FS_AddElement DEF TypeOK
  <2>3. TypeOK' /\ DataIsNew' /\ OnlyOwnState' /\ OwnIsWritten'
    BY <1>0, <1>1, <2>1, <2>2 DEF TypeOK, DataIsNew, OnlyOwnState, OwnIsWritten, Returns, Writing
  <2>4. file # Absent
    BY <1>1, <2>1, ContentsAre
  <2>5. FileAtLabel' /\ BackupFollowsFile' /\ BackupIsExisting'
    BY <1>0, <1>1, <2>4 DEF FileAtLabel, BackupFollowsFile, BackupIsExisting, Candidate, Returns
  <2>6. SoundSoFar'
    <3> SUFFICES ASSUME damage = 0
                 PROVE  /\ file.intact /\ \A c \in committed' : file.id >= c.id
                        /\ Backup /\ TwiceCommitted' => Candidate(bak)
      BY <1>0, <1>1 DEF SoundSoFar, Candidate, Returns, Writing
    <3>1. file.intact /\ \A c \in committed' : file.id >= c.id
      BY <1>1, <2>1
    <3>2. ASSUME Backup, TwiceCommitted' PROVE Candidate(bak)
      <4>1. committed # {}
        BY <1>1, <3>2 DEF TwiceCommitted
      <4>2. existing # Absent
        BY <1>0, <4>1 DEF SoundSoFar, Writing
      <4> QED BY <1>0, <3>2, <4>2 DEF SoundSoFar, Writing
    <3> QED BY <3>1, <3>2
  <2> QED BY <2>3, <2>5, <2>6
<1>2. CASE pc' = "rollback" /\ UNCHANGED <<outcome, committed>>
  BY <1>0, <1>2 DEF TypeOK, OnlyOwnState, OwnIsWritten, DataIsNew, FileAtLabel, BackupFollowsFile, BackupIsExisting,
       SoundSoFar, Candidate, TwiceCommitted, Writing
<1> QED BY <1>1, <1>2 DEF Verify

\* A candidate put back in place of the file is own and, before any damage, not
\* older than what counts as committed.
LEMMA PutBackInv ==
  ASSUME IInv, Candidate(bak), Stores(file', bak), pc' = "idle",
         outcome' \in {"rolled_back", "restored"}, committed' \subseteq committed,
         UNCHANGED <<data, existing, bak, writes>>,
         damage = 0 => \A c \in committed' : bak.id >= c.id
  PROVE  IInv'
<1> USE DEF IInv
<1>1. bak \in Contents /\ bak.intact /\ bak.own /\ damage \in Nat
  BY DEF TypeOK, Candidate
<1>2. /\ file' \in Contents /\ file'.own
      /\ damage' \in 0 .. MaxDamage /\ (damage' = 0 => damage = 0 /\ file' = bak)
  BY <1>1, StoresIs
<1>10. IsFiniteSet(committed')
  BY FS_Subset DEF TypeOK
<1>3. TypeOK' /\ DataIsNew' /\ OnlyOwnState' /\ FileAtLabel' /\ BackupIsExisting'
  BY <1>2, <1>10 DEF TypeOK, DataIsNew, OnlyOwnState, FileAtLabel, BackupIsExisting, Writing
<1>4. file # Absent
  BY DEF BackupFollowsFile
<1>5. SoundSoFar'
  BY <1>1, <1>2 DEF SoundSoFar, Candidate, TwiceCommitted, Writing
<1>6. bak # Absent /\ bak.id > 0
  BY <1>1, ContentsAre DEF OwnIsWritten
<1>7. file'.id = bak.id /\ bak.id \in Nat
  BY <1>1, StoresIs DEF Contents
<1>8. file' # Absent
  BY <1>6, <1>7, ContentsAre
<1>9. OwnIsWritten'
  BY <1>2, <1>6, <1>7 DEF OwnIsWritten
<1> QED BY <1>3, <1>5, <1>8, <1>9 DEF BackupFollowsFile

\* After a verification that failed a `.bak` that is any good is what the write
\* found, which was sound as long as nothing was damaged.
LEMMA RollbackInv == ASSUME IInv, Rollback PROVE IInv'
<1> USE DEF IInv
<1>0. pc = "rollback" /\ UNCHANGED <<data, existing, bak, writes, committed>>
  BY DEF Rollback
<1>1. CASE Backup /\ Candidate(bak) /\ Stores(file', bak) /\ Returns("rolled_back")
  <2>1. bak = existing
    BY <1>0, <1>1 DEF BackupIsExisting
  <2>2. damage = 0 => \A c \in committed : bak.id >= c.id
    BY <1>0, <2>1 DEF SoundSoFar, Writing
  <2> QED BY <1>0, <1>1, <2>2, PutBackInv DEF Returns
<1>2. CASE Returns("failed") /\ UNCHANGED <<file, damage>>
  BY <1>0, <1>2, EndsInv DEF Returns
<1> QED BY <1>1, <1>2 DEF Rollback

\* A restoration goes back to what the `.bak` has, and what is newer no longer counts.
LEMMA RestoreInv == ASSUME IInv, Restore PROVE IInv'
<1> USE DEF IInv
<1>0. pc = "restore" /\ UNCHANGED <<data, existing, bak, writes>>
  BY DEF Restore
<1>1. CASE /\ Candidate(bak) /\ Stores(file', bak) /\ Returns("restored")
           /\ committed' = {c \in committed : c.id <= bak.id}
  <2>1. bak.id \in Nat /\ \A c \in committed : c.id \in Nat
    BY DEF TypeOK, Contents
  <2>2. \A c \in committed' : bak.id >= c.id
    BY <1>1, <2>1
  <2> QED BY <1>0, <1>1, <2>2, PutBackInv DEF Returns
<1>2. CASE Returns("corrupt") /\ UNCHANGED <<file, committed, damage>>
  BY <1>0, <1>2, EndsInv DEF Returns
<1> QED BY <1>1, <1>2 DEF Restore

\* A file that goes bad is there, own and numbered as before.
LEMMA GoBadInv == ASSUME IInv, GoBad PROVE IInv'
<1> USE DEF IInv
<1>0. /\ pc = "idle" /\ damage' = damage + 1 /\ damage < MaxDamage
      /\ UNCHANGED <<pc, data, existing, outcome, writes, committed>>
  BY DEF GoBad
<1>1. file \in Contents /\ bak \in Contents /\ damage \in Nat /\ MaxDamage \in Nat
  BY StateAssumption DEF TypeOK, StateAssumption
<1>2. damage' \in 0 .. MaxDamage /\ damage' # 0
  BY <1>0, <1>1
<1>3. CASE file.intact /\ file' = Garbled(file) /\ UNCHANGED bak
  <2>1. file' \in Contents /\ file'.own /\ file' # Absent
    <3>1. file # Absent
      BY <1>3, ContentsAre
    <3>2. file'.own /\ file'.id > 0
      BY <1>1, <1>3, <3>1, GarbledIs DEF OnlyOwnState, OwnIsWritten
    <3> QED BY <1>1, <1>3, <3>2, GarbledIs, ContentsAre
  <2> QED BY <1>0, <1>1, <1>2, <1>3, <2>1, GarbledStays DEF TypeOK, OnlyOwnState, DataIsNew, OwnIsWritten, FileAtLabel,
        BackupFollowsFile, BackupIsExisting, SoundSoFar, Writing
<1>4. CASE bak.intact /\ bak' = Garbled(bak) /\ UNCHANGED file
  <2>1. bak' \in Contents /\ ~Candidate(bak)'
    BY <1>1, <1>4, GarbledIs DEF Candidate
  <2> QED BY <1>0, <1>1, <1>2, <1>4, <2>1, GarbledStays DEF TypeOK, OnlyOwnState, DataIsNew, OwnIsWritten, FileAtLabel,
        BackupFollowsFile, BackupIsExisting, SoundSoFar, Candidate, Writing
<1> QED BY <1>0, <1>3, <1>4 DEF GoBad

\* Every step keeps the invariant.
LEMMA StepInv == IInv /\ [Next]_vars => IInv'
<1> SUFFICES ASSUME IInv, [Next]_vars PROVE IInv'
  OBVIOUS
<1>1. CASE Crash
  BY <1>1, EndsInv DEF Crash, Returns
<1>2. CASE UNCHANGED vars
  BY <1>2 DEF vars, IInv, TypeOK, OnlyOwnState, DataIsNew, OwnIsWritten, FileAtLabel, BackupFollowsFile,
       BackupIsExisting, SoundSoFar, Candidate, TwiceCommitted, Writing
<1> QED BY <1>1, <1>2, BeginInv, ReadInv, BackupInv, ReplaceInv, VerifyInv, RollbackInv, RestoreInv,
          GoBadInv DEF Next

\* The inductive invariant holds whatever fails, dies or is damaged, with a `.bak`
\* or without one.
THEOREM Invariant == Spec => []IInv
BY InitInv, StepInv, PTL DEF Spec

\* Every variable has its type and the damage its bound.
THEOREM TypeCorrect == Spec => []TypeOK
BY Invariant, PTL DEF IInv

\* The state of another root, whose `.bak` may have come along with a copied
\* directory, is never put in place (checkRestoreCandidate).
THEOREM OwnOnly == Spec => []OnlyOwnState
BY Invariant, PTL DEF IInv

\* On a disk that garbles nothing no crash and no failure, and no rollback or
\* restoration after it, puts the file behind a write that was reported
\* successful.
THEOREM CommittedStays == Spec => []NothingCommittedLost
<1>1. IInv => NothingCommittedLost
  BY DEF IInv, SoundSoFar, BackupFollowsFile, NothingCommittedLost
<1> QED BY <1>1, Invariant, PTL

\* What is put back after a failed verification is what the write found.
THEOREM RollbackFaithful == Spec => RollbackIsPrevious
<1>1. ASSUME IInv, [Next]_vars, outcome' = "rolled_back", outcome # "rolled_back"
      PROVE  file' \in {existing, Garbled(existing)}
  <2>1. Rollback
    BY <1>1 DEF Next, Begin, ReadExisting, WriteBackup, Replace, Verify, Restore, Crash, GoBad, Returns, vars
  <2>2. pc = "rollback" /\ Backup /\ Candidate(bak) /\ Stores(file', bak)
    BY <1>1, <2>1 DEF Rollback, Returns
  <2>3. bak = existing
    BY <1>1, <2>2 DEF IInv, BackupIsExisting
  <2> QED BY <2>2, <2>3 DEF Stores
<1>2. IInv /\ [Next]_vars
        => [outcome' = "rolled_back" /\ outcome # "rolled_back" => file' \in {existing, Garbled(existing)}]_vars
  BY <1>1
<1> QED BY <1>2, Invariant, PTL DEF Spec, RollbackIsPrevious

-----------------------------------------------------------------------------
(* Recovery *)

(* While no more than one thing is damaged, one of the two files is good or *)
(* a write has copied the bad one over the other.                          *)
OneIsGood == Backup /\ TwiceCommitted => file.intact \/ Candidate(bak) \/ bak = file

\* A state committed twice survives the first damage in one of its two files; no
\* step spoils the other one without damage of its own.
LEMMA StepGood ==
  ASSUME MaxDamage <= 1
  PROVE  IInv /\ OneIsGood /\ [Next]_vars => OneIsGood'
<1> SUFFICES ASSUME IInv, OneIsGood, [Next]_vars, Backup, TwiceCommitted' PROVE (file.intact \/ Candidate(bak) \/ bak = file)'
  BY DEF OneIsGood
<1> USE DEF IInv
<1>0. damage \in 0 .. MaxDamage /\ MaxDamage \in Nat
  BY StateAssumption DEF TypeOK, StateAssumption
<1>1. ASSUME UNCHANGED <<file, bak, committed>> PROVE (file.intact \/ Candidate(bak) \/ bak = file)'
  BY <1>1 DEF OneIsGood, TwiceCommitted, Candidate
<1>2. CASE WriteBackup
  <2>1. pc = "backup" /\ UNCHANGED <<existing, file, committed>> /\ file = existing /\ file # Absent
    BY <1>2 DEF WriteBackup, FileAtLabel
  <2>2. CASE file.intact
    BY <2>1, <2>2
  <2>3. CASE ~file.intact
    <3>1. damage = MaxDamage
      BY <1>0, <2>1, <2>3 DEF SoundSoFar
    <3>2. bak' = existing \/ bak' = bak
      BY <1>0, <1>2, <3>1 DEF WriteBackup, Stores
    <3>3. bak' = bak => (file.intact \/ Candidate(bak) \/ bak = file)'
      BY <1>1, <2>1
    <3> QED BY <2>1, <3>2, <3>3
  <2> QED BY <2>2, <2>3
<1>3. CASE Replace
  <2>1. pc = "replace" /\ data.intact /\ UNCHANGED <<bak, committed>>
    BY <1>3 DEF Replace, DataIsNew, Writing
  <2>2. CASE Stores(file', data)
    <3>1. CASE file' = data
      BY <2>1, <3>1
    <3>2. CASE damage < MaxDamage
      <4>1. damage = 0
        BY <1>0, <3>2
      <4>2. Candidate(bak)
        BY <2>1, <4>1 DEF SoundSoFar, TwiceCommitted
      <4> QED BY <2>1, <4>2 DEF Candidate
    <3> QED BY <2>2, <3>1, <3>2 DEF Stores
  <2>3. CASE UNCHANGED file
    BY <1>1, <2>1, <2>3
  <2> QED BY <1>3, <2>2, <2>3 DEF Replace
<1>4. CASE Verify
  <2>1. CASE file = data
    BY <1>4, <2>1 DEF Verify, DataIsNew, Writing
  <2>2. CASE UNCHANGED committed
    BY <1>1, <1>4, <2>2 DEF Verify
  <2> QED BY <1>4, <2>1, <2>2 DEF Verify
<1>5. CASE Rollback \/ Restore
  <2>1. CASE Candidate(bak)
    BY <1>5, <2>1 DEF Rollback, Restore, Candidate
  <2>2. CASE ~Candidate(bak)
    BY <1>1, <1>5, <2>2 DEF Rollback, Restore
  <2> QED BY <2>1, <2>2
<1>6. CASE GoBad
  <2>1. damage = 0 /\ committed' = committed
    BY <1>0, <1>6 DEF GoBad
  <2>2. committed # {} /\ TwiceCommitted
    BY <2>1 DEF TwiceCommitted
  <2>3. Candidate(bak) /\ file.intact
    BY <2>1, <2>2 DEF SoundSoFar, BackupFollowsFile
  <2> QED BY <1>6, <2>3 DEF GoBad, Candidate
<1>7. CASE Begin \/ ReadExisting \/ Crash \/ UNCHANGED vars
  BY <1>1, <1>7 DEF Begin, ReadExisting, Crash, vars
<1> QED BY <1>2, <1>3, <1>4, <1>5, <1>6, <1>7 DEF Next

\* Two contents are needed for more than one.
LEMMA TwiceIsMany == ASSUME TypeOK, Cardinality(committed) > 1 PROVE TwiceCommitted
<1>1. IsFiniteSet(committed)
  BY DEF TypeOK
<1>2. committed # {}
  BY FS_EmptySet
<1>3. PICK c \in committed : TRUE
  BY <1>2
<1>4. committed # {c}
  BY FS_Singleton
<1> QED BY <1>3, <1>4 DEF TwiceCommitted

\* If at most one write is garbled or one file goes bad, a state written twice can
\* be read or restored at every moment, whatever else fails and whoever dies
\* (docs/04-storage-and-data.md:106: the `.bak` comes before the replacement), as long
\* as no write made the bad file the backup.
THEOREM AlwaysRecoverable == ASSUME MaxDamage <= 1 PROVE Spec => []Recoverable
<1>1. Init => OneIsGood
  BY DEF Init, OneIsGood, TwiceCommitted
<1>2. IInv /\ OneIsGood => Recoverable
  BY TwiceIsMany DEF IInv, OneIsGood, Recoverable
<1> QED BY <1>1, <1>2, Invariant, StepGood, PTL DEF Spec
===============================================================================
