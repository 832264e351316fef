---------------------------- MODULE DownloadCache ----------------------------
(***************************************************************************)
(* One entry of the download cache: Downloader.Download by the operations  *)
(* whose Plans name the same destination, and the extraction that reads    *)
(* the file.  They share the entry and its `.part` file.  Operations with  *)
(* the same install lock run one at a time; others may overlap.            *)
(***************************************************************************)
EXTENDS Naturals, FiniteSets

CONSTANTS
  Ops,
  Locks,      \* install locks
  LockOf,     \* the install lock an operation holds while it downloads
  Faults,     \* may network and file operations fail?
  Crashes,    \* may a process die?
  Rot         \* may a cached file go bad between two operations?

ASSUME CacheAssumption ==
  /\ LockOf \in [Ops -> Locks]
  /\ {Faults, Crashes, Rot} \subseteq BOOLEAN

VARIABLES
  pc,       \* where each operation is
  sent,     \* the body its request received, and its hasher hashed
  part,     \* the `.part` file
  cache,    \* the cache entry
  used,     \* what the extraction read
  rotten    \* has the entry gone bad from outside?

vars == <<pc, sent, part, cache, used, rotten>>

Bytes == {"good", "bad"}                        \* matching the expected digest or not
Files == Bytes \cup {"absent", "partial"}
Running == {"reuse", "get", "write", "verify", "rename", "extract"}

Init ==
  /\ pc = [o \in Ops |-> "idle"]
  /\ sent = [o \in Ops |-> "none"]
  /\ part = "absent"
  /\ cache = "absent"
  /\ used = [o \in Ops |-> "none"]
  /\ rotten = FALSE

-----------------------------------------------------------------------------
Goes(o, from, to) == pc[o] = from /\ pc' = [pc EXCEPT ![o] = to]

\* Download returns an error after an attempt to remove the `.part` file.
Fails(o, from) ==
  /\ Goes(o, from, "failed")
  /\ \/ part' = "absent"
     \/ Faults /\ UNCHANGED part
  /\ UNCHANGED <<sent, cache, used, rotten>>

\* An operation runs under its install lock.
Start(o) ==
  /\ \A p \in Ops : LockOf[p] = LockOf[o] => pc[p] \notin Running
  /\ Goes(o, "idle", "reuse")
  /\ UNCHANGED <<sent, part, cache, used, rotten>>

\* Bug: an entry that exists is used.
ReuseExisting(o) ==
  /\ \/ cache # "absent" /\ Goes(o, "reuse", "extract")
     \/ cache = "absent" /\ Goes(o, "reuse", "get")
  /\ UNCHANGED <<sent, part, cache, used, rotten>>

\* Bug: an entry that cannot be read is removed.
ReuseRemoving(o) ==
  /\ \/ cache = "good" /\ Goes(o, "reuse", "extract") /\ UNCHANGED cache
     \/ (cache # "good" \/ Faults) /\ Goes(o, "reuse", "get") /\ cache' = "absent"
  /\ UNCHANGED <<sent, part, used, rotten>>

\* reuseCache: the entry is hashed again and used only if the digest matches.
Reuse(o) ==
  /\ \/ cache = "good" /\ Goes(o, "reuse", "extract")
     \/ (cache # "good" \/ Faults) /\ Goes(o, "reuse", "get")
  /\ UNCHANGED <<sent, part, cache, used, rotten>>

\* The request is answered and WriteStream opens the `.part` file.
Get(o) ==
  \/ /\ Goes(o, "get", "write")
     /\ part' = "partial"
     /\ UNCHANGED <<sent, cache, used, rotten>>
  \/ Faults /\ Fails(o, "get")

\* WriteStream wrote the whole body, or failed.
Write(o) ==
  \/ /\ Goes(o, "write", "verify")
     /\ \E body \in Bytes : sent' = [sent EXCEPT ![o] = body] /\ part' = body
     /\ UNCHANGED <<cache, used, rotten>>
  \/ Faults /\ Fails(o, "write")

\* Bug: only the size is compared.
VerifySize(o) ==
  /\ Goes(o, "verify", "rename")
  /\ UNCHANGED <<sent, part, cache, used, rotten>>

\* Size and digest are those of the body that went through the hasher, not of
\* the file.
Verify(o) ==
  \/ /\ sent[o] = "good"
     /\ Goes(o, "verify", "rename")
     /\ UNCHANGED <<sent, part, cache, used, rotten>>
  \/ sent[o] # "good" /\ Fails(o, "verify")

Rename(o) ==
  \/ /\ part # "absent"
     /\ Goes(o, "rename", "extract")
     /\ cache' = part
     /\ part' = "absent"
     /\ rotten' = FALSE
     /\ UNCHANGED <<sent, used>>
  \/ (part = "absent" \/ Faults) /\ Fails(o, "rename")

\* Stage opens the entry by its path and extracts it.
Extract(o) ==
  /\ Goes(o, "extract", "done")
  /\ used' = [used EXCEPT ![o] = cache]
  /\ UNCHANGED <<sent, part, cache, rotten>>

Crash(o) ==
  /\ Crashes
  /\ pc[o] \in Running
  /\ pc' = [pc EXCEPT ![o] = "failed"]
  /\ UNCHANGED <<sent, part, cache, used, rotten>>

\* The entry goes bad while no operation runs.
GoBad ==
  /\ Rot
  /\ \A o \in Ops : pc[o] \notin Running
  /\ cache = "good"
  /\ cache' = "bad"
  /\ rotten' = TRUE
  /\ UNCHANGED <<pc, sent, part, used>>

Step(o) ==
  Start(o) \/ Reuse(o) \/ Get(o) \/ Write(o) \/ Verify(o) \/ Rename(o) \/ Extract(o)

Next == (\E o \in Ops : Step(o) \/ Crash(o)) \/ GoBad

Spec == Init /\ [][Next]_vars

-----------------------------------------------------------------------------
(* The inductive invariant when one lock covers the entry *)

OneLock == \A o, p \in Ops : LockOf[o] = LockOf[p]

\* One operation runs at a time; what it is about to rename is what it hashed.
OneRuns == \A o, p \in Ops : o # p => ~(pc[o] \in Running /\ pc[p] \in Running)

PartIsHashed ==
  \A o \in Ops :
    /\ pc[o] = "verify" => part = sent[o]
    /\ pc[o] = "rename" => part = "good"
    /\ pc[o] = "extract" => cache = "good"

-----------------------------------------------------------------------------
(* Properties *)

\* Each file is absent, partial, bad or good, and a failed operation has stopped.
TypeOK ==
  /\ pc \in [Ops -> Running \cup {"idle", "done", "failed"}]
  /\ sent \in [Ops -> Bytes \cup {"none"}]
  /\ part \in Files
  /\ cache \in Files
  /\ used \in [Ops -> Files \cup {"none"}]
  /\ rotten \in BOOLEAN

\* Bytes that did not match the expected digest never appear under the name of
\* the cache entry, whatever fails or dies on the way.
CacheHoldsVerified == rotten \/ cache \in {"absent", "good"}

\* What an operation extracts has the expected digest, even from an entry that
\* went bad after it was cached.
ExtractedIsVerified == \A o \in Ops : pc[o] = "done" => used[o] = "good"

\* A download that fails never takes a good entry away.
GoodEntryStays == [][cache = "good" /\ ~rotten' => cache' = "good"]_vars
=============================================================================
