--------------------------- MODULE ExecuteInstall ---------------------------
(***************************************************************************)
(* The install transaction: app.ExecuteInstall, the Engine it runs and the *)
(* Committer that publishes a version directory.                           *)
(*                                                                         *)
(* An operation is one gdtvm process executing one approved Plan.  Several *)
(* run at once over one data root.  They share the version directories,    *)
(* the receipt index and one install lock per InstallKey; each owns the    *)
(* operation directory it stages into.                                     *)
(***************************************************************************)
EXTENDS Naturals, FiniteSets

CONSTANTS
  Ops,           \* operations, one process each
  Keys,          \* InstallKeys: (tool, version, platform)
  KeyOf,         \* the InstallKey of an operation's Plan
  Contents,      \* what SameInstall compares of a receipt
  ContentsOf,    \* the receipt contents an operation's probes can lead to
  RoundTrip,     \* the contents that, written and read back, are still equal
  NoOp,          \* "no operation": a free lock, an absent index entry
  NoContent,     \* "no readable receipt"
  Approved,      \* operations whose Approval and Plan identity are in order
  Unencodable,   \* operations handed an index or entry path EncodeReceiptIndex rejects
  Cancellable,   \* operations the user may cancel
  Crashable,     \* operations whose process may die
  Faults,        \* may file operations and fetches fail?
  MaxInputRev,   \* bound on changes of the other eight Plan inputs
  Intruders      \* version directories somebody else may create by hand

ASSUME OpsAssumption ==
  /\ KeyOf \in [Ops -> Keys]
  /\ ContentsOf \in [Ops -> SUBSET Contents]
  /\ RoundTrip \subseteq Contents
  /\ NoOp \notin Ops
  /\ NoContent \notin Contents
  /\ Approved \subseteq Ops /\ Unencodable \subseteq Ops
  /\ Faults \in BOOLEAN

VARIABLES
  pc,         \* where each operation is
  outcome,    \* what ExecuteInstall returned: "none", a success or an error code
  warned,     \* causes of the W_CLEANUP_INCOMPLETE warnings of the result
  plan,       \* the two inputs the Plan pinned
  base,       \* the receipt index the engine was given
  content,    \* the receipt content the operation's run led to
  staging,    \* the operation directory
  dest,       \* the version directory of each InstallKey
  index,      \* state/receipt-index.toml
  lock,       \* the holder of each InstallKey's install lock
  inputRev,   \* identity of root, config, project, definition, catalog, registry, ...
  cancelled   \* the user's context is cancelled

vars == <<pc, outcome, warned, plan, base, content, staging, dest, index, lock,
          inputRev, cancelled>>

Successes == {"installed", "already_installed"}
Errors == {"E_APPROVAL_REQUIRED", "E_PLAN_STALE", "E_INTERNAL", "E_LOCK_TIMEOUT",
           "E_NETWORK", "E_CANCELLED", "E_PROBE_FAILED", "E_PERMISSION",
           "E_FILESYSTEM", "E_PATH_UNSAFE", "E_CONFLICT", "E_STATE_CORRUPT"}

\* A version directory, staged or published: `by` is the receipt's install_id.
Dirs == [kind : {"absent", "empty", "foreign", "install"},
         payload : {"none", "partial", "staged", "hardened"},
         receipt : Contents \cup {NoContent},
         by : Ops \cup {NoOp}]
NoDir == [kind |-> "absent", payload |-> "none", receipt |-> NoContent, by |-> NoOp]

Engine == {"stage", "fetch", "probe", "harden", "receipt", "check", "rename",
           "recheck", "index"}
Critical == {"locked"} \cup Engine \cup {"cleanup", "release"}
Labels == {"idle", "planned", "acquire", "returned", "exited", "crashed"} \cup Critical

Indexes == [rev : Nat, entries : [Keys -> Ops \cup {NoOp}]]

Init ==
  /\ pc = [o \in Ops |-> "idle"]
  /\ outcome = [o \in Ops |-> "none"]
  /\ warned = [o \in Ops |-> {}]
  /\ plan = [o \in Ops |-> [inputs |-> 0, rev |-> 0]]
  /\ index = [rev |-> 1, entries |-> [k \in Keys |-> NoOp]]
  /\ base = [o \in Ops |-> index]
  /\ content = [o \in Ops |-> NoContent]
  /\ staging = [o \in Ops |-> NoDir]
  /\ dest = [k \in Keys |-> NoDir]
  /\ lock = [k \in Keys |-> NoOp]
  /\ inputRev = 0
  /\ cancelled = [o \in Ops |-> FALSE]

-----------------------------------------------------------------------------
(* Helpers *)

Moves(o, from, to) == pc[o] = from /\ pc' = [pc EXCEPT ![o] = to]

\* The step of `o` at `from` settles the outcome; the operation goes on at `to`.
Ends(o, from, to, code) ==
  /\ Moves(o, from, to)
  /\ outcome' = [outcome EXCEPT ![o] = code]

Freed(o) == [k \in Keys |-> IF lock[k] = o THEN NoOp ELSE lock[k]]

\* CheckPlanFreshness: every pinned input still has the value it had.
Fresh(o) == plan[o] = [inputs |-> inputRev, rev |-> index.rev]

\* Bug: any finished install of the key passes for the same one.
SameKeyOnly(o, d) == d.kind = "install"

\* SameInstall on the receipt read back from `d` and the one `o` is about to
\* publish: a receipt that reading changes is not even the same as itself.
SameInstall(o, d) == d.receipt = content[o] /\ content[o] \in RoundTrip

Readable(d) == d.receipt # NoContent

\* upsertIndexEntry, with the revision the engine's copy of the index leads to
Upserted(o) == [rev |-> base[o].rev + 1,
                entries |-> [base[o].entries EXCEPT ![KeyOf[o]] = o]]

\* Rename of a directory: never over an existing entry, except that POSIX may
\* replace an empty directory.
Replaceable(d) == d.kind \in {"absent", "empty"}

-----------------------------------------------------------------------------
(* ExecuteInstall before the engine *)

\* Resolve and Plan: the Plan pins the inputs it was computed from.
MakePlan(o) ==
  /\ Moves(o, "idle", "planned")
  /\ plan' = [plan EXCEPT ![o] = [inputs |-> inputRev, rev |-> index.rev]]
  /\ UNCHANGED <<outcome, warned, base, content, staging, dest, index, lock,
                 inputRev, cancelled>>

\* Identity and Approval, then the first comparison of the inputs.
CheckBeforeLock(o) ==
  /\ \/ o \notin Approved /\ Ends(o, "planned", "returned", "E_APPROVAL_REQUIRED")
     \/ /\ o \in Approved /\ (Faults \/ cancelled[o])
        /\ Ends(o, "planned", "returned", "E_INTERNAL")
     \/ o \in Approved /\ ~Fresh(o) /\ Ends(o, "planned", "returned", "E_PLAN_STALE")
     \/ o \in Approved /\ Fresh(o) /\ Moves(o, "planned", "acquire") /\ UNCHANGED outcome
  /\ UNCHANGED <<warned, plan, base, content, staging, dest, index, lock,
                 inputRev, cancelled>>

Acquire(o) ==
  /\ Moves(o, "acquire", "locked")
  /\ lock[KeyOf[o]] = NoOp
  /\ lock' = [lock EXCEPT ![KeyOf[o]] = o]
  /\ UNCHANGED <<outcome, warned, plan, base, content, staging, dest, index,
                 inputRev, cancelled>>

\* The wait for the lock ends without it: 30 s passed, the context was
\* cancelled, or the lock manager failed.
GiveUp(o) ==
  /\ \/ /\ Faults /\ lock[KeyOf[o]] # NoOp
        /\ Ends(o, "acquire", "returned", "E_LOCK_TIMEOUT")
     \/ /\ cancelled[o] /\ lock[KeyOf[o]] # NoOp
        /\ Ends(o, "acquire", "returned", "E_INTERNAL")
     \/ Faults /\ Ends(o, "acquire", "returned", "E_INTERNAL")
  /\ UNCHANGED <<warned, plan, base, content, staging, dest, index, lock,
                 inputRev, cancelled>>


\* The comparison repeated under the lock.
CheckUnderLock(o) ==
  /\ \/ (Faults \/ cancelled[o]) /\ Ends(o, "locked", "release", "E_INTERNAL")
     \/ ~Fresh(o) /\ Ends(o, "locked", "release", "E_PLAN_STALE")
     \/ Fresh(o) /\ Moves(o, "locked", "stage") /\ UNCHANGED outcome
  /\ UNCHANGED <<warned, plan, base, content, staging, dest, index, lock,
                 inputRev, cancelled>>

-----------------------------------------------------------------------------
(* Engine.Run *)

\* The engine is handed the receipt index and Stage makes the operation directory.
Stage(o) ==
  /\ base' = [base EXCEPT ![o] = index]
  /\ \/ /\ Moves(o, "stage", "fetch")
        /\ staging' = [staging EXCEPT ![o] =
             [NoDir EXCEPT !.kind = "install", !.payload = "partial"]]
        /\ UNCHANGED outcome
     \/ /\ Faults /\ Ends(o, "stage", "cleanup", "E_INTERNAL")
        /\ UNCHANGED staging
  /\ UNCHANGED <<warned, plan, content, dest, index, lock, inputRev, cancelled>>

\* Downloads one after the other, then extracts; each loop tests the context
\* first, a cancelled HTTP request shows as a network error.
Fetch(o) ==
  /\ \/ /\ Moves(o, "fetch", "probe")
        /\ staging' = [staging EXCEPT ![o].payload = "staged"]
        /\ UNCHANGED outcome
     \/ /\ Faults /\ Ends(o, "fetch", "cleanup", "E_NETWORK")
        /\ UNCHANGED staging
     \/ /\ cancelled[o]
        /\ \E code \in {"E_CANCELLED", "E_NETWORK"} : Ends(o, "fetch", "cleanup", code)
        /\ UNCHANGED staging
  /\ UNCHANGED <<warned, plan, base, content, dest, index, lock, inputRev, cancelled>>

\* Probes and the command targets fill the receipt; a probe process that is
\* cancelled is reported as one that could not be started.
Probe(o) ==
  /\ \/ /\ Moves(o, "probe", "harden")
        /\ \E c \in ContentsOf[o] : content' = [content EXCEPT ![o] = c]
        /\ UNCHANGED outcome
     \/ /\ Faults /\ Ends(o, "probe", "cleanup", "E_PROBE_FAILED")
        /\ UNCHANGED content
     \/ /\ cancelled[o]
        /\ \E code \in {"E_CANCELLED", "E_PERMISSION"} : Ends(o, "probe", "cleanup", code)
        /\ UNCHANGED content
  /\ UNCHANGED <<warned, plan, base, staging, dest, index, lock, inputRev, cancelled>>

\* Bug: the error of HardenPayload is dropped.
HardenErrorDropped(o) ==
  /\ Moves(o, "harden", "receipt")
  /\ \/ staging' = [staging EXCEPT ![o].payload = "hardened"]
     \/ Faults /\ UNCHANGED staging
  /\ UNCHANGED <<outcome, warned, plan, base, content, dest, index, lock, inputRev, cancelled>>

\* HardenPayload; a failure in the middle leaves the tree half hardened.
Harden(o) ==
  /\ \/ /\ Moves(o, "harden", "receipt")
        /\ staging' = [staging EXCEPT ![o].payload = "hardened"]
        /\ UNCHANGED outcome
     \/ /\ Faults /\ Ends(o, "harden", "cleanup", "E_FILESYSTEM")
        /\ UNCHANGED staging
  /\ UNCHANGED <<warned, plan, base, content, dest, index, lock, inputRev, cancelled>>

\* Commit, steps 1 and 6: the payload is walked again, the receipt written beside it.
WriteReceipt(o) ==
  /\ \/ /\ Moves(o, "receipt", "check")
        /\ staging' = [staging EXCEPT ![o].receipt = content[o], ![o].by = o]
        /\ UNCHANGED outcome
     \/ /\ Faults
        /\ \E code \in {"E_PATH_UNSAFE", "E_FILESYSTEM"} : Ends(o, "receipt", "cleanup", code)
        /\ UNCHANGED staging
  /\ UNCHANGED <<warned, plan, base, content, dest, index, lock, inputRev, cancelled>>

\* checkDestination before the rename.  A Stat that fails reads as "absent"; a
\* receipt that cannot be read or parsed conflicts like one that differs.
CheckDestination(o) ==
  LET d == dest[KeyOf[o]]
  IN /\ \/ /\ d.kind = "absent" \/ Faults
           /\ Moves(o, "check", "rename") /\ UNCHANGED outcome
        \/ /\ d.kind # "absent" /\ Readable(d) /\ SameInstall(o, d)
           /\ Ends(o, "check", "cleanup", "already_installed")
        \/ /\ d.kind # "absent" /\ (Faults \/ ~(Readable(d) /\ SameInstall(o, d)))
           /\ Ends(o, "check", "cleanup", "E_CONFLICT")
     /\ UNCHANGED <<warned, plan, base, content, staging, dest, index, lock,
                    inputRev, cancelled>>

\* Bug: the error of the rename is dropped.
RenameErrorDropped(o) ==
  /\ Moves(o, "rename", "index")
  /\ IF Replaceable(dest[KeyOf[o]])
     THEN /\ dest' = [dest EXCEPT ![KeyOf[o]] = staging[o]]
          /\ staging' = [staging EXCEPT ![o] = NoDir]
     ELSE UNCHANGED <<dest, staging>>
  /\ UNCHANGED <<outcome, warned, plan, base, content, index, lock, inputRev, cancelled>>

\* The rename publishes the operation directory as the version directory.
Rename(o) ==
  \/ /\ Replaceable(dest[KeyOf[o]])
     /\ Moves(o, "rename", "index")
     /\ dest' = [dest EXCEPT ![KeyOf[o]] = staging[o]]
     /\ staging' = [staging EXCEPT ![o] = NoDir]
     /\ UNCHANGED <<outcome, warned, plan, base, content, index, lock, inputRev, cancelled>>
  \/ /\ Faults \/ dest[KeyOf[o]].kind # "absent"
     /\ Moves(o, "rename", "recheck")
     /\ UNCHANGED <<outcome, warned, plan, base, content, staging, dest, index, lock,
                    inputRev, cancelled>>

\* Bug: any install found after a failed rename counts as the same one.
RecheckAnyInstall(o) ==
  /\ Ends(o, "recheck", "cleanup",
          IF Readable(dest[KeyOf[o]]) THEN "already_installed" ELSE "E_FILESYSTEM")
  /\ UNCHANGED <<warned, plan, base, content, staging, dest, index, lock, inputRev, cancelled>>

\* checkDestination after a failed rename: only an identical install counts.
Recheck(o) ==
  LET d == dest[KeyOf[o]]
  IN /\ \/ /\ Readable(d) /\ SameInstall(o, d)
           /\ Ends(o, "recheck", "cleanup", "already_installed")
        \/ /\ Faults \/ ~(Readable(d) /\ SameInstall(o, d))
           /\ Ends(o, "recheck", "cleanup", "E_FILESYSTEM")
     /\ UNCHANGED <<warned, plan, base, content, staging, dest, index, lock,
                    inputRev, cancelled>>

\* Bug: a failed index write fails the install that is already published.
UpdateIndexFails(o) ==
  /\ \/ Ends(o, "index", "cleanup", "installed") /\ index' = Upserted(o)
     \/ Faults /\ Ends(o, "index", "cleanup", "E_FILESYSTEM") /\ UNCHANGED index
  /\ UNCHANGED <<warned, plan, base, content, staging, dest, lock, inputRev, cancelled>>

\* updateIndex: one entry more than the copy handed to the engine.  A failed
\* write leaves the install successful and the index stale; a failed encoding
\* is an error of the install, which is published by now.
UpdateIndex(o) ==
  /\ \/ /\ o \notin Unencodable
        /\ Ends(o, "index", "cleanup", "installed")
        /\ \/ index' = Upserted(o) /\ UNCHANGED warned
           \/ /\ Faults /\ UNCHANGED index
              /\ warned' = [warned EXCEPT ![o] = @ \cup {"index"}]
     \/ /\ o \in Unencodable
        /\ Ends(o, "index", "cleanup", "E_STATE_CORRUPT")
        /\ UNCHANGED <<index, warned>>
  /\ UNCHANGED <<plan, base, content, staging, dest, lock, inputRev, cancelled>>

-----------------------------------------------------------------------------
(* ExecuteInstall after the engine *)

\* Stager.Cleanup; its failure is a warning of a run that succeeded.
Cleanup(o) ==
  /\ Moves(o, "cleanup", "release")
  /\ \/ staging' = [staging EXCEPT ![o] = NoDir] /\ UNCHANGED warned
     \/ /\ Faults /\ UNCHANGED staging
        /\ warned' = [warned EXCEPT ![o] = IF outcome[o] \in Successes
                                           THEN @ \cup {"cleanup"} ELSE @]
  /\ UNCHANGED <<outcome, plan, base, content, dest, index, lock, inputRev, cancelled>>

\* The deferred Release; its error is dropped and the lock then lives as long
\* as the process.
Release(o) ==
  /\ Moves(o, "release", "returned")
  /\ \/ lock' = Freed(o)
     \/ Faults /\ UNCHANGED lock
  /\ UNCHANGED <<outcome, warned, plan, base, content, staging, dest, index,
                 inputRev, cancelled>>

\* The process ends; the OS drops the locks it still holds.
Exit(o) ==
  /\ Moves(o, "returned", "exited")
  /\ lock' = Freed(o)
  /\ UNCHANGED <<outcome, warned, plan, base, content, staging, dest, index,
                 inputRev, cancelled>>

-----------------------------------------------------------------------------
(* The environment *)

\* The process dies anywhere; its operation directory stays.
Crash(o) ==
  /\ o \in Crashable
  /\ pc[o] \in Critical \cup {"planned", "acquire"}
  /\ pc' = [pc EXCEPT ![o] = "crashed"]
  /\ lock' = Freed(o)
  /\ UNCHANGED <<outcome, warned, plan, base, content, staging, dest, index,
                 inputRev, cancelled>>

Cancel(o) ==
  /\ o \in Cancellable
  /\ pc[o] \notin {"idle", "returned", "exited", "crashed"}
  /\ ~cancelled[o]
  /\ cancelled' = [cancelled EXCEPT ![o] = TRUE]
  /\ UNCHANGED <<pc, outcome, warned, plan, base, content, staging, dest, index,
                 lock, inputRev>>

\* Config, project, definition, catalog, registry, selection or setup changes.
ChangeInputs ==
  /\ inputRev < MaxInputRev
  /\ inputRev' = inputRev + 1
  /\ UNCHANGED <<pc, outcome, warned, plan, base, content, staging, dest, index,
                 lock, cancelled>>

\* Somebody without the lock creates a version directory: an empty or foreign
\* one, or a copy of an earlier install.
Intrude(k) ==
  /\ k \in Intruders
  /\ dest[k].kind = "absent"
  /\ \/ \E kind \in {"empty", "foreign"} :
          dest' = [dest EXCEPT ![k] = [NoDir EXCEPT !.kind = kind]]
     \/ \E c \in Contents :
          dest' = [dest EXCEPT ![k] = [kind |-> "install", payload |-> "hardened",
                                       receipt |-> c, by |-> NoOp]]
  /\ UNCHANGED <<pc, outcome, warned, plan, base, content, staging, index, lock,
                 inputRev, cancelled>>

-----------------------------------------------------------------------------
Step(o) ==
  \/ MakePlan(o) \/ CheckBeforeLock(o) \/ Acquire(o) \/ GiveUp(o) \/ CheckUnderLock(o)
  \/ Stage(o) \/ Fetch(o) \/ Probe(o) \/ Harden(o)
  \/ WriteReceipt(o) \/ CheckDestination(o) \/ Rename(o) \/ Recheck(o) \/ UpdateIndex(o)
  \/ Cleanup(o) \/ Release(o) \/ Exit(o)

Next ==
  \/ \E o \in Ops : Step(o) \/ Crash(o) \/ Cancel(o)
  \/ ChangeInputs
  \/ \E k \in Keys : Intrude(k)

Spec == Init /\ [][Next]_vars

\* A live process keeps executing; a process that waits for a lock which keeps
\* becoming free gets it in the end.
Fairness ==
  \A o \in Ops : WF_vars(Step(o)) /\ SF_vars(Acquire(o))

FairSpec == Spec /\ Fairness

-----------------------------------------------------------------------------
(* Refinement *)

\* An empty directory counts as nothing: the rename may still replace it.
Published(d) ==
  [kind |-> CASE Replaceable(d) -> "nothing"
              [] d.kind = "foreign" -> "foreign"
              [] OTHER -> "install",
   content |-> d.receipt, by |-> d.by]

Answer(o) == CASE outcome[o] = "none" -> "none"
               [] outcome[o] \in Successes -> "success"
               [] OTHER -> "error"

Store == INSTANCE InstallStore WITH
           store <- [k \in Keys |-> Published(dest[k])],
           answer <- [o \in Ops |-> Answer(o)]

\* The transaction with its locks, staging, faults and crashes behaves like an
\* atomic, write-once store of installs.
ImplementsStore == Store!Spec

-----------------------------------------------------------------------------
(* Properties *)

\* Every variable keeps the shape the code gives it.
TypeOK ==
  /\ pc \in [Ops -> Labels]
  /\ outcome \in [Ops -> {"none"} \cup Successes \cup Errors]
  /\ warned \in [Ops -> SUBSET {"index", "cleanup"}]
  /\ plan \in [Ops -> [inputs : Nat, rev : Nat]]
  /\ base \in [Ops -> Indexes]
  /\ content \in [Ops -> Contents \cup {NoContent}]
  /\ staging \in [Ops -> Dirs]
  /\ dest \in [Keys -> Dirs]
  /\ index \in Indexes
  /\ lock \in [Keys -> Ops \cup {NoOp}]
  /\ inputRev \in Nat
  /\ cancelled \in [Ops -> BOOLEAN]

\* Whatever crashes, times out or fails to release, two operations on the same
\* InstallKey are never both between lock acquisition and release.
OneInstallerPerKey ==
  \A o, p \in Ops :
    o # p /\ KeyOf[o] = KeyOf[p] => ~(pc[o] \in Critical /\ pc[p] \in Critical)

\* A version directory an operation published is the complete, hardened payload
\* with the receipt of exactly that operation's run: no crash, fault or
\* interleaving ever exposes a partial one.
PublishedIsComplete ==
  \A k \in Keys :
    LET o == dest[k].by
    IN o # NoOp => /\ KeyOf[o] = k
                   /\ dest[k].kind = "install"
                   /\ dest[k].payload = "hardened"
                   /\ dest[k].receipt = content[o]
                   /\ content[o] \in ContentsOf[o]

\* An operation that reported success finds, at its InstallKey, an install
\* identical to its own.
SuccessIsOnDisk ==
  \A o \in Ops : outcome[o] \in Successes =>
    /\ dest[KeyOf[o]].kind = "install"
    /\ dest[KeyOf[o]].receipt = content[o]

\* An operation that reported an error published nothing and changed no index.
\* The code keeps this as long as no operation is Unencodable.
FailureLeavesNothing ==
  \A o \in Ops : outcome[o] \in Errors =>
    /\ \A k \in Keys : dest[k].by # o
    /\ \A k \in Keys : index.entries[k] # o

\* The receipt index never names an install that is not on disk, even when
\* stale copies of it overwrite each other.
IndexNamesPublished ==
  \A k \in Keys : index.entries[k] # NoOp => dest[k].by = index.entries[k]

\* A version directory, once there, is never replaced or changed by an install:
\* only an empty directory may give way.
DestinationIsFinal ==
  [][\A k \in Keys : ~Replaceable(dest[k]) => dest'[k] = dest[k]]_dest

\* An operation that succeeded without the stale index warning is in the index.
SuccessIsIndexed ==
  \A o \in Ops : outcome[o] = "installed" /\ "index" \notin warned[o]
    => index.entries[KeyOf[o]] = o


-----------------------------------------------------------------------------
(* The inductive invariant behind the safety properties *)

\* An operation between lock acquisition and release holds its key's lock.
HoldsItsLock == \A o \in Ops : pc[o] \in Critical => lock[KeyOf[o]] = o

\* How far the operation directory and the receipt have come at each label.
StagedSoFar ==
  \A o \in Ops :
    /\ pc[o] \in {"fetch", "probe", "harden", "receipt", "check", "rename", "recheck"}
         => staging[o].kind = "install"
    /\ pc[o] \in {"harden", "receipt", "check", "rename", "recheck", "index"}
         => content[o] \in ContentsOf[o]
    /\ pc[o] \in {"receipt", "check", "rename", "recheck"}
         => staging[o].payload = "hardened"
    /\ pc[o] \in {"check", "rename", "recheck"}
         => staging[o].receipt = content[o] /\ staging[o].by = o

Finishing == {"cleanup", "release", "returned", "exited", "crashed"}

\* What the caller owes the engine: an index and an entry path that can be encoded.
AllEncodable == Unencodable = {}

\* The error that may follow a publication.
Unindexed(o) == IF o \in Unencodable THEN {"E_STATE_CORRUPT"} ELSE {}

\* An outcome is settled once, and no other error follows a publication.
OutcomeFollows ==
  \A o \in Ops :
    /\ outcome[o] # "none" => pc[o] \in Finishing
    /\ pc[o] = "index" => dest[KeyOf[o]].by = o
    /\ \A k \in Keys : dest[k].by = o => /\ pc[o] \in Finishing \cup {"index"}
                                         /\ outcome[o] \in {"none", "installed"} \cup Unindexed(o)

\* Only an install has a receipt.
ReceiptOfInstall == \A k \in Keys : Readable(dest[k]) => dest[k].kind = "install"

\* The copies of the index held by engines name what is on disk, too.
CopiesNamePublished ==
  \A o \in Ops, k \in Keys :
    base[o].entries[k] # NoOp => dest[k].by = base[o].entries[k]

\* Together they are preserved by every step.
IInv ==
  /\ TypeOK /\ HoldsItsLock /\ StagedSoFar /\ OutcomeFollows /\ ReceiptOfInstall
  /\ PublishedIsComplete /\ SuccessIsOnDisk /\ IndexNamesPublished /\ CopiesNamePublished

=============================================================================
