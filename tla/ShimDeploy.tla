----------------------------- MODULE ShimDeploy -----------------------------
(***************************************************************************)
(* Deployer.Deploy over the shim directory: for each command, inspect what *)
(* is at the shim path, take an old link away, make the new link.  Files   *)
(* have inodes: whether a path is a hard link is a matter of how many      *)
(* names its inode has.  Meanwhile the user works in the same directory,   *)
(* replaces the client by another release or copies the whole root.        *)
(***************************************************************************)
EXTENDS Naturals, FiniteSets

CONSTANTS
  Last,         \* the commands are 1 .. Last, in the order of their names
  Strategies,   \* of the host: "symlink" on Linux, "hardlink" on Windows
  Faults,       \* may file operations fail?
  Crashes,      \* may the process die?
  MaxMoves,     \* bound on what happens around the deployments
  MaxInodes     \* bound on inodes

ASSUME ShimAssumption ==
  /\ {Last, MaxInodes} \subseteq Nat \ {0} /\ MaxMoves \in Nat
  /\ Strategies \subseteq {"symlink", "hardlink"}
  /\ {Faults, Crashes} \subseteq BOOLEAN

Commands == 1 .. Last
Inodes == 1 .. MaxInodes

VARIABLES
  strategy,     \* the host's
  pc, at,       \* where Deploy is, and with which command
  planned,      \* what inspect decided for that command
  results,      \* what was done for each command
  outcome,      \* of the last Deploy
  shim,         \* what is at each shim path
  client,       \* the inode at the client path
  meta,         \* size, mode and time of each inode
  elsewhere,    \* inodes with a further name in another place
  inodes,       \* inodes used so far
  moves,        \* number of moves of the user
  users,        \* shim paths with something the user put there
  begun,        \* the shims when Deploy began
  alone,        \* has the user left the shims alone since then?
  raced         \* has the user moved between the look and the unlink of RemoveLink?

disk == <<shim, client, meta, elsewhere, inodes, users>>
vars == <<strategy, pc, at, planned, results, outcome, disk, moves, begun, alone, raced>>

Entries == [kind : {"absent", "file", "symlink", "junction", "dir", "unknown"},
            inode : Inodes \cup {0}, toClient : BOOLEAN]
Plain(kind) == [kind |-> kind, inode |-> 0, toClient |-> FALSE]
Symlink(toClient) == [kind |-> "symlink", inode |-> 0, toClient |-> toClient]
File(i) == [kind |-> "file", inode |-> i, toClient |-> FALSE]
Absent == Plain("absent")

Init ==
  /\ strategy \in Strategies
  /\ pc = "idle" /\ at = 1
  /\ planned = "none"
  /\ results = [c \in Commands |-> "none"]
  /\ outcome = "none"
  /\ shim = [c \in Commands |-> Absent]
  /\ client = 1
  /\ meta = [i \in Inodes |-> 0]
  /\ elsewhere = {}
  /\ inodes = 1
  /\ users = {}
  /\ moves = 0
  /\ begun = shim
  /\ alone = FALSE
  /\ raced = FALSE

-----------------------------------------------------------------------------
(* The file system *)

Names(i) ==
  Cardinality({c \in Commands : shim[c] = File(i)})
    + Cardinality({client, 0} \cap {i}) + Cardinality(elsewhere \cap {i})

\* LinkManager.Kind: a regular file is a hard link when it has another name, and a
\* reparse point that is neither a junction nor a symlink is of unknown kind.
Kind(c) ==
  LET e == shim[c]
  IN CASE e.kind = "file" -> IF Names(e.inode) > 1 THEN "hardlink" ELSE "none"
       [] e.kind = "dir" -> "none"
       [] OTHER -> e.kind

\* pointsAtClient: a symlink by its target, a hard link by size, mode and time.
PointsAtClient(c) ==
  IF strategy = "symlink" THEN shim[c].toClient ELSE meta[shim[c].inode] = meta[client]

LinkKinds == {"symlink", "hardlink", "junction"}

Good(c) == Kind(c) = strategy /\ PointsAtClient(c)

-----------------------------------------------------------------------------
(* Deploy *)

\* MkdirAll may fail; the commands are then taken one by one.
Begin ==
  /\ pc = "idle"
  /\ results' = [c \in Commands |-> "none"]
  /\ \/ pc' = "inspect" /\ outcome' = "none"
     \/ Faults /\ outcome' = "failed" /\ UNCHANGED pc
  /\ at' = 1
  /\ planned' = "none"
  /\ begun' = shim /\ alone' = TRUE
  /\ UNCHANGED <<disk, moves, raced>>

\* The command at hand is done; the next one, if any, follows.
Done(action) ==
  /\ results' = [results EXCEPT ![at] = action]
  /\ IF at = Last
     THEN pc' = "idle" /\ outcome' = "deployed" /\ UNCHANGED at
     ELSE pc' = "inspect" /\ at' = at + 1 /\ UNCHANGED outcome

\* Deploy stops at the first error.
Stops(error) == pc' = "idle" /\ outcome' = error /\ UNCHANGED <<at, results>>

\* Bug: only a link of the other kind is replaced.
InspectKindOnly ==
  /\ pc = "inspect"
  /\ \/ (Kind(at) = "unknown" \/ Faults) /\ Stops("failed") /\ planned' = "none"
     \/ Kind(at) = "none" /\ Stops("foreign") /\ planned' = "none"
     \/ Kind(at) = strategy /\ Done("noop") /\ planned' = "none"
     \/ /\ Kind(at) = "absent"
        /\ pc' = "create" /\ planned' = "create" /\ UNCHANGED <<at, results, outcome>>
     \/ /\ Kind(at) \in LinkKinds /\ Kind(at) # strategy
        /\ pc' = "remove" /\ planned' = "replace" /\ UNCHANGED <<at, results, outcome>>
  /\ UNCHANGED <<disk, moves, begun, alone, raced>>

\* Bug: a link that is there is always made again.
InspectReplacing ==
  /\ pc = "inspect"
  /\ \/ (Kind(at) = "unknown" \/ Faults) /\ Stops("failed") /\ planned' = "none"
     \/ Kind(at) = "none" /\ Stops("foreign") /\ planned' = "none"
     \/ /\ Kind(at) = "absent"
        /\ pc' = "create" /\ planned' = "create" /\ UNCHANGED <<at, results, outcome>>
     \/ /\ Kind(at) \in LinkKinds
        /\ pc' = "remove" /\ planned' = "replace" /\ UNCHANGED <<at, results, outcome>>
  /\ UNCHANGED <<disk, moves, begun, alone, raced>>

\* inspect decides between nothing to do, create, replace and an error.
Inspect ==
  /\ pc = "inspect"
  /\ \/ (Kind(at) = "unknown" \/ Faults) /\ Stops("failed") /\ planned' = "none"
     \/ Kind(at) = "none" /\ Stops("foreign") /\ planned' = "none"
     \/ Good(at) /\ Done("noop") /\ planned' = "none"
     \/ /\ Kind(at) = "absent"
        /\ pc' = "create" /\ planned' = "create" /\ UNCHANGED <<at, results, outcome>>
     \/ /\ Kind(at) \in LinkKinds /\ ~Good(at)
        /\ pc' = "remove" /\ planned' = "replace" /\ UNCHANGED <<at, results, outcome>>
  /\ UNCHANGED <<disk, moves, begun, alone, raced>>

\* Bug: what inspect saw is taken for granted.
CheckNothing ==
  /\ pc = "remove"
  /\ pc' = "unlink" /\ raced' = FALSE
  /\ UNCHANGED <<at, planned, results, outcome, disk, moves, begun, alone>>

\* RemoveLink looks at the kind again and refuses whatever is no link.
CheckLink ==
  /\ pc = "remove"
  /\ \/ Kind(at) \in LinkKinds /\ pc' = "unlink" /\ UNCHANGED <<at, results, outcome>>
     \/ (Faults \/ Kind(at) \notin LinkKinds) /\ Stops("failed")
  /\ raced' = FALSE
  /\ UNCHANGED <<planned, disk, moves, begun, alone>>

\* os.Remove takes away what it finds, an empty directory too; what a link leads to
\* stays.
Remove ==
  /\ pc = "unlink"
  /\ \/ /\ shim[at] # Absent
        /\ shim' = [shim EXCEPT ![at] = Absent]
        /\ users' = users \ {at}
        /\ pc' = "create"
        /\ UNCHANGED <<at, results, outcome>>
     \/ /\ Faults \/ shim[at] \in {Absent, Plain("dir")}
        /\ Stops("failed")
        /\ UNCHANGED <<shim, users>>
  /\ raced' = FALSE
  /\ UNCHANGED <<planned, client, meta, elsewhere, inodes, moves, begun, alone>>

\* Bug: the strategy is ignored.
LinksHard == shim' = [shim EXCEPT ![at] = File(client)]

Links ==
  shim' = [shim EXCEPT ![at] = IF strategy = "symlink" THEN Symlink(TRUE) ELSE File(client)]

\* The link is made where nothing is.
Create ==
  /\ pc = "create"
  /\ \/ shim[at] = Absent /\ Links /\ Done(planned)
     \/ (Faults \/ shim[at] # Absent) /\ Stops("unavailable") /\ UNCHANGED shim
  /\ UNCHANGED <<planned, users, client, meta, elsewhere, inodes, moves, begun, alone, raced>>

Crash ==
  /\ Crashes /\ pc # "idle"
  /\ pc' = "idle" /\ outcome' = "none" /\ raced' = FALSE
  /\ UNCHANGED <<at, planned, results, disk, moves, begun, alone>>

-----------------------------------------------------------------------------
(* The user *)

Move ==
  /\ moves < MaxMoves /\ moves' = moves + 1
  /\ alone' = FALSE
  /\ raced' = (pc = "unlink")
  /\ UNCHANGED <<pc, at, planned, results, outcome, begun>>

Things ==
  {Plain("dir"), Symlink(FALSE)}
    \cup (IF strategy = "hardlink" THEN {Plain("junction"), Plain("unknown")} ELSE {})

\* The user puts something of his own where nothing is: a file, perhaps with a
\* second name, a directory, a link, on Windows a junction or another reparse point,
\* or takes away what is there.
Put(c) ==
  /\ Move
  /\ \/ /\ shim[c] = Absent
        /\ users' = users \cup {c}
        /\ \/ \E e \in Things : shim' = [shim EXCEPT ![c] = e] /\ UNCHANGED <<meta, elsewhere, inodes>>
           \/ /\ inodes < MaxInodes
              /\ inodes' = inodes + 1
              /\ shim' = [shim EXCEPT ![c] = File(inodes + 1)]
              /\ meta' = [meta EXCEPT ![inodes + 1] = inodes + 1]
              /\ elsewhere' \in {elsewhere, elsewhere \cup {inodes + 1}}
     \/ /\ shim[c] # Absent
        /\ users' = users \ {c}
        /\ shim' = [shim EXCEPT ![c] = Absent]
        /\ UNCHANGED <<meta, elsewhere, inodes>>
  /\ UNCHANGED client

\* The second name of a file disappears.
Unlink ==
  /\ Move
  /\ \E i \in elsewhere : elsewhere' = elsewhere \ {i}
  /\ UNCHANGED <<shim, client, meta, inodes, users>>

\* Another release of the client is put in place.
ReplaceClient ==
  /\ Move
  /\ inodes < MaxInodes
  /\ inodes' = inodes + 1
  /\ client' = inodes + 1
  /\ meta' = [meta EXCEPT ![inodes + 1] = inodes + 1]
  /\ UNCHANGED <<shim, elsewhere, users>>

\* The portable root is copied to another volume and used there: every name
\* becomes a file of its own.  Nothing is being deployed.
CopyRoot ==
  /\ Move
  /\ pc = "idle"
  /\ inodes + 1 + Last <= MaxInodes
  /\ inodes' = inodes + 1 + Last
  /\ client' = inodes + 1
  /\ shim' = [c \in Commands |-> IF shim[c].kind = "file" THEN File(inodes + 1 + c) ELSE shim[c]]
  /\ meta' = [i \in Inodes |->
       IF i = inodes + 1 THEN meta[client]
       ELSE IF \E c \in Commands : i = inodes + 1 + c /\ shim[c].kind = "file"
            THEN meta[shim[i - inodes - 1].inode] ELSE meta[i]]
  /\ elsewhere' = {}
  /\ UNCHANGED users

Deploys == Begin \/ Inspect \/ CheckLink \/ Remove \/ Create \/ Crash

Next ==
  /\ Deploys \/ (\E c \in Commands : Put(c)) \/ Unlink \/ ReplaceClient \/ CopyRoot
  /\ UNCHANGED strategy

Spec == Init /\ [][Next]_vars

-----------------------------------------------------------------------------
(* Properties *)

\* Whatever the user does between the steps of a Deploy, it never takes away the last
\* name of a file, a directory or an entry of unknown kind; but for what he does
\* between the two calls of RemoveLink, of which the second trusts the first.
ContentKept ==
  [][moves' = moves /\ ~raced =>
       /\ \A i \in Inodes : Names(i) > 0 => Names(i)' > 0
       /\ \A c \in Commands : shim[c].kind \in {"dir", "unknown"} => shim'[c] = shim[c]]_shim

\* After a Deploy that succeeded every command leads to the client.
DeployedIsComplete ==
  outcome = "deployed" /\ alone => \A c \in Commands : Good(c)

\* Deploy never makes a shim again that was in order.
DeployIsIdempotent ==
  alone => \A c \in Commands : results[c] = "replace" => shim[c] # begun[c]

\* Deploy refuses a shim path as foreign only where the user put something: with
\* symlinks always, with hard links as long as the client is the first one.  Hard
\* links to a client that was replaced or copied away may have no other name left,
\* and are refused as well.
RefusesOnlyForeign ==
  outcome = "foreign" /\ alone => at \in users \/ (strategy = "hardlink" /\ client # 1)

-----------------------------------------------------------------------------
(* The inductive invariant behind the safety properties *)

Shapes ==
  {Absent, Plain("dir"), Plain("junction"), Plain("unknown"), Symlink(TRUE), Symlink(FALSE)} \cup {File(i) : i \in Inodes}

\* Each variable has its type.
TypeOK ==
  /\ strategy \in Strategies /\ pc \in {"idle", "inspect", "remove", "unlink", "create"} /\ at \in Commands
  /\ planned \in {"none", "create", "replace"}
  /\ results \in [Commands -> {"none", "noop", "create", "replace"}]
  /\ outcome \in {"none", "deployed", "failed", "foreign", "unavailable"}
  /\ shim \in [Commands -> Shapes] /\ begun \in [Commands -> Shapes]
  /\ client \in Inodes /\ meta \in [Inodes -> Nat] /\ elsewhere \subseteq Inodes
  /\ inodes \in Inodes /\ moves \in Nat /\ users \subseteq Commands /\ {alone, raced} \subseteq BOOLEAN

\* A directory is the user's, and so is a file where symlinks are made; where hard
\* links are made of the first client, they are its names.
FilesAreUsers ==
  \A c \in Commands \ users :
    /\ shim[c].kind # "dir"
    /\ shim[c].kind = "file" => strategy # "symlink" /\ (client = 1 => shim[c] = File(1))

\* A Deploy that has come to an end has an outcome, and one that has not has done
\* nothing yet about the command at hand and the later ones; it works as planned.
ResultsSoFar ==
  /\ outcome \in {"deployed", "foreign"} => pc = "idle"
  /\ pc # "idle" => \A c \in Commands : c >= at => results[c] = "none"
  /\ pc \in {"remove", "unlink", "create"} => planned # "none"

\* What Links makes.
Link == IF strategy = "symlink" THEN Symlink(TRUE) ELSE File(client)

\* If the user leaves the shims alone those passed stay good, those to come are as
\* found, and the one that is replaced was something else.
DeployedSoFar ==
  alone /\ pc # "idle" =>
    /\ \A c \in Commands : c < at => Good(c)
    /\ \A c \in Commands : c > at => shim[c] = begun[c]
    /\ pc \in {"inspect", "remove", "unlink"} => shim[at] = begun[at]
    /\ pc \in {"remove", "unlink"} => ~Good(at)
    /\ pc \in {"remove", "unlink", "create"} /\ planned = "replace" => begun[at] # Link

\* What RemoveLink is about to take away is a link, unless the user moved since it
\* looked.
LinkIsRemoved ==
  pc = "unlink" /\ ~raced => Kind(at) \in LinkKinds

IInv ==
  /\ TypeOK /\ FilesAreUsers /\ ResultsSoFar /\ DeployedSoFar /\ LinkIsRemoved
  /\ DeployedIsComplete /\ DeployIsIdempotent /\ RefusesOnlyForeign
=============================================================================
