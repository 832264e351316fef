-------------------------- MODULE ShimDeploy_proofs --------------------------
(***************************************************************************)
(* Proofs about the deployment of shims, for any number of commands, with  *)
(* symlinks or hard links, whatever fails or dies and whatever the user    *)
(* does in the directory meanwhile.                                        *)
(***************************************************************************)
EXTENDS ShimDeploy, FiniteSetTheorems, TLAPS

-----------------------------------------------------------------------------
(* What is at a shim path, and the names of an inode *)

\* The fields of an entry tell what it is.
LEMMA ShapesAre ==
  /\ Absent \in Shapes /\ \A kind \in {"dir", "junction", "unknown"} : Plain(kind) \in Shapes
  /\ Absent.kind = "absent" /\ \A kind : Plain(kind).kind = kind
  /\ \A b \in BOOLEAN : Symlink(b) \in Shapes /\ Symlink(b).kind = "symlink" /\ Symlink(b).toClient = b
  /\ \A i \in Inodes : File(i) \in Shapes
  /\ \A i : File(i).kind = "file" /\ File(i).inode = i
  /\ \A e \in Shapes :
       /\ e.kind \in {"absent", "dir", "junction", "unknown", "symlink", "file"}
       /\ e.kind = "dir" => e = Plain("dir")
       /\ e.kind = "absent" => e = Absent
       /\ e.kind = "symlink" => e.toClient \in BOOLEAN /\ e = Symlink(e.toClient)
       /\ e.kind = "file" => e.inode \in Inodes /\ e = File(e.inode)
<1>1. /\ Absent \in Shapes /\ \A kind \in {"dir", "junction", "unknown"} : Plain(kind) \in Shapes
      /\ Absent.kind = "absent" /\ \A kind : Plain(kind).kind = kind
  BY DEF Shapes, Absent, Plain
<1>2. \A b \in BOOLEAN : Symlink(b) \in Shapes
  <2>1. \A b \in BOOLEAN : b = TRUE \/ b = FALSE
    OBVIOUS
  <2> QED BY <2>1 DEF Shapes
<1>3. \A b : Symlink(b).kind = "symlink" /\ Symlink(b).toClient = b
  BY DEF Symlink
<1>4. \A i : File(i).kind = "file" /\ File(i).inode = i
  BY DEF File
<1>5. \A i \in Inodes : File(i) \in Shapes
  BY DEF Shapes
<1>6. ASSUME NEW e \in Shapes
      PROVE  /\ e.kind \in {"absent", "dir", "junction", "unknown", "symlink", "file"}
             /\ e.kind = "dir" => e = Plain("dir")
             /\ e.kind = "absent" => e = Absent
             /\ e.kind = "symlink" => e.toClient \in BOOLEAN /\ e = Symlink(e.toClient)
             /\ e.kind = "file" => e.inode \in Inodes /\ e = File(e.inode)
  <2>1. CASE e \in {Absent, Plain("dir"), Plain("junction"), Plain("unknown")}
    BY <1>1, <2>1
  <2>2. CASE e \in {Symlink(TRUE), Symlink(FALSE)}
    BY <1>3, <2>2
  <2>3. CASE e \in {File(i) : i \in Inodes}
    BY <1>4, <2>3
  <2> QED BY <2>1, <2>2, <2>3 DEF Shapes
<1> QED BY <1>1, <1>2, <1>3, <1>4, <1>5, <1>6

\* There are commands and inodes, and finitely many commands.
LEMMA Bounded ==
  /\ Last \in Nat \ {0} /\ IsFiniteSet(Commands)
  /\ 1 \in Commands /\ Last \in Commands /\ 1 \in Inodes
  /\ \A c \in Commands : c \in Nat
<1>1. Last \in Nat \ {0} /\ MaxInodes \in Nat \ {0}
  BY ShimAssumption DEF ShimAssumption
<1>2. IsFiniteSet(Commands)
  BY <1>1, FS_Interval DEF Commands
<1> QED BY <1>1, <1>2 DEF Commands, Inodes

\* The shims that are names of an inode, and its other names.
Holders(i) == {c \in Commands : shim[c] = File(i)}
Others(i) == Cardinality({client, 0} \cap {i}) + Cardinality(elsewhere \cap {i})

NamesAreCounted ==
  \A i \in Inodes :
    /\ IsFiniteSet(Holders(i)) /\ Cardinality(Holders(i)) \in Nat
    /\ Others(i) \in Nat /\ (i = client => Others(i) >= 1)
    /\ Names(i) = Cardinality(Holders(i)) + Others(i)

\* The names of an inode are its shims and the others; the client path is one of
\* them.
LEMMA NamesAre == NamesAreCounted
<1> SUFFICES ASSUME NEW i \in Inodes
             PROVE  /\ IsFiniteSet(Holders(i)) /\ Cardinality(Holders(i)) \in Nat
                    /\ Others(i) \in Nat /\ (i = client => Others(i) >= 1)
                    /\ Names(i) = Cardinality(Holders(i)) + Others(i)
  BY DEF NamesAreCounted
<1>1. IsFiniteSet(Holders(i)) /\ Cardinality(Holders(i)) \in Nat
  BY Bounded, FS_Subset, FS_CardinalityType DEF Holders
<1>2. Cardinality({}) = 0 /\ Cardinality({i}) = 1
  BY FS_EmptySet, FS_Singleton
<1>3. \A S : S \cap {i} = {} \/ S \cap {i} = {i}
  OBVIOUS
<1>4. \A S : Cardinality(S \cap {i}) \in {0, 1}
  BY <1>2, <1>3
<1>5. i = client => {client, 0} \cap {i} = {i}
  OBVIOUS
<1>6. Cardinality({client, 0} \cap {i}) \in {0, 1} /\ Cardinality(elsewhere \cap {i}) \in {0, 1}
  BY <1>4
<1>7. i = client => Cardinality({client, 0} \cap {i}) = 1
  BY <1>2, <1>5
<1>8. Others(i) \in Nat /\ (i = client => Others(i) >= 1)
  BY <1>6, <1>7 DEF Others
<1>9. Names(i) = Cardinality(Holders(i)) + Others(i)
  BY <1>1, <1>6 DEF Names, Holders, Others
<1> QED BY <1>1, <1>8, <1>9

\* A link taken away is one name less of one inode, if it was a hard link.
LEMMA Unlinked ==
  ASSUME TypeOK, shim' = [shim EXCEPT ![at] = Absent], UNCHANGED <<client, elsewhere>>, NEW i \in Inodes
  PROVE  Names(i)' = IF shim[at] = File(i) THEN Names(i) - 1 ELSE Names(i)
<1>1. shim'[at] = Absent /\ \A c \in Commands : c # at => shim'[c] = shim[c]
  BY DEF TypeOK
<1>2. Absent # File(i)
  BY ShapesAre
<1>3. Holders(i)' = Holders(i) \ {at}
  BY <1>1, <1>2 DEF Holders
<1>4. at \in Holders(i) <=> shim[at] = File(i)
  BY DEF Holders, TypeOK
<1>5. /\ IsFiniteSet(Holders(i)) /\ Cardinality(Holders(i)) \in Nat /\ Others(i) \in Nat
      /\ Names(i) = Cardinality(Holders(i)) + Others(i)
  BY NamesAre DEF NamesAreCounted
<1>6. Cardinality(Holders(i) \ {at})
        = IF at \in Holders(i) THEN Cardinality(Holders(i)) - 1 ELSE Cardinality(Holders(i))
  BY <1>5, FS_RemoveElement
<1>7. NamesAreCounted'
  BY NamesAre, PTL
<1>8. Others(i)' = Others(i)
  BY DEF Others
<1>9. Cardinality(Holders(i))' = Cardinality(Holders(i) \ {at})
  BY <1>3
<1> QED BY <1>4, <1>5, <1>6, <1>7, <1>8, <1>9 DEF NamesAreCounted

\* A link made where nothing was takes no name away, and a hard link is a second
\* name of the client.
LEMMA Linked ==
  ASSUME TypeOK, shim[at] = Absent, shim' = [shim EXCEPT ![at] = Link], UNCHANGED <<client, elsewhere>>,
         NEW i \in Inodes
  PROVE  Names(i)' >= Names(i) /\ (strategy # "symlink" /\ i = client => Names(i)' > 1)
<1>1. shim'[at] = Link /\ \A c \in Commands : c # at => shim'[c] = shim[c]
  BY DEF TypeOK
<1>2. Absent # File(i)
  BY ShapesAre
<1>3. Holders(i) \subseteq Holders(i)'
  BY <1>1, <1>2 DEF Holders
<1>4. /\ IsFiniteSet(Holders(i)) /\ Cardinality(Holders(i)) \in Nat
      /\ Others(i) \in Nat /\ (i = client => Others(i) >= 1)
      /\ Names(i) = Cardinality(Holders(i)) + Others(i)
  BY NamesAre DEF NamesAreCounted
<1>5. NamesAreCounted'
  BY NamesAre, PTL
<1>6. Others(i)' = Others(i)
  BY DEF Others
<1>7. Cardinality(Holders(i)) <= Cardinality(Holders(i)')
  BY <1>3, <1>5, FS_Subset DEF NamesAreCounted
<1>8. strategy # "symlink" /\ i = client => Cardinality(Holders(i)') >= 1
  <2> SUFFICES ASSUME strategy # "symlink", i = client PROVE Cardinality(Holders(i)') >= 1
    OBVIOUS
  <2>1. at \in Holders(i)'
    BY <1>1 DEF Link, Holders, TypeOK
  <2>2. Holders(i)' # {}
    BY <2>1
  <2>3. Cardinality(Holders(i)') # 0
    BY <1>5, <2>2, FS_EmptySet DEF NamesAreCounted
  <2> QED BY <1>5, <2>3 DEF NamesAreCounted
<1> QED BY <1>4, <1>5, <1>6, <1>7, <1>8 DEF NamesAreCounted

\* A shim that is a name of the client is not the only one.
LEMMA ClientIsNamedTwice ==
  ASSUME TypeOK, NEW c \in Commands, shim[c] = File(client) PROVE Names(client) > 1
<1>1. client \in Inodes
  BY DEF TypeOK
<1>2. /\ Cardinality(Holders(client)) \in Nat /\ IsFiniteSet(Holders(client))
      /\ Others(client) \in Nat /\ Others(client) >= 1
      /\ Names(client) = Cardinality(Holders(client)) + Others(client)
  BY <1>1, NamesAre DEF NamesAreCounted
<1>3. Holders(client) # {}
  BY DEF Holders
<1>4. Cardinality(Holders(client)) # 0
  BY <1>2, <1>3, FS_EmptySet
<1> QED BY <1>2, <1>4

\* What Kind tells of an entry.
LEMMA KindIs ==
  TypeOK => \A c \in Commands :
    /\ Kind(c) = "symlink" <=> shim[c].kind = "symlink"
    /\ Kind(c) = "hardlink" <=> shim[c].kind = "file" /\ Names(shim[c].inode) > 1
    /\ Kind(c) = "absent" <=> shim[c].kind = "absent"
    /\ Kind(c) = "junction" <=> shim[c].kind = "junction"
    /\ Kind(c) = "none" => shim[c].kind \in {"file", "dir"}
<1> SUFFICES ASSUME TypeOK, NEW c \in Commands
             PROVE  /\ Kind(c) = "symlink" <=> shim[c].kind = "symlink"
                    /\ Kind(c) = "hardlink" <=> shim[c].kind = "file" /\ Names(shim[c].inode) > 1
                    /\ Kind(c) = "absent" <=> shim[c].kind = "absent"
                    /\ Kind(c) = "junction" <=> shim[c].kind = "junction"
                    /\ Kind(c) = "none" => shim[c].kind \in {"file", "dir"}
  OBVIOUS
<1>1. shim[c].kind \in {"absent", "dir", "junction", "unknown", "symlink", "file"}
  BY ShapesAre DEF TypeOK
<1>2. CASE shim[c].kind = "file"
  BY <1>2 DEF Kind
<1>3. CASE shim[c].kind = "dir"
  BY <1>3 DEF Kind
<1>4. CASE shim[c].kind \in {"absent", "junction", "unknown", "symlink"}
  BY <1>4 DEF Kind
<1> QED BY <1>1, <1>2, <1>3, <1>4

GoodIsLink ==
  \A c \in Commands :
    Good(c) <=> IF strategy = "symlink" THEN shim[c] = Symlink(TRUE)
                ELSE /\ shim[c].kind = "file" /\ Names(shim[c].inode) > 1
                     /\ meta[shim[c].inode] = meta[client]

\* A shim is good as a symlink to the client, or as a second name of a file with
\* the size and time of the client.
LEMMA GoodIs == TypeOK => GoodIsLink
<1> SUFFICES ASSUME TypeOK, NEW c \in Commands
             PROVE  Good(c) <=> IF strategy = "symlink" THEN shim[c] = Symlink(TRUE)
                                ELSE /\ shim[c].kind = "file" /\ Names(shim[c].inode) > 1
                                     /\ meta[shim[c].inode] = meta[client]
  BY DEF GoodIsLink
<1>1. strategy \in {"symlink", "hardlink"}
  BY ShimAssumption DEF ShimAssumption, TypeOK
<1>2. shim[c] \in Shapes
  BY DEF TypeOK
<1>3. CASE strategy = "symlink"
  <2>1. Good(c) <=> shim[c].kind = "symlink" /\ shim[c].toClient
    BY <1>3, KindIs DEF Good, PointsAtClient
  <2>2. shim[c].kind = "symlink" /\ shim[c].toClient <=> shim[c] = Symlink(TRUE)
    BY <1>2, ShapesAre
  <2> QED BY <1>3, <2>1, <2>2
<1>4. CASE strategy = "hardlink"
  BY <1>4, KindIs DEF Good, PointsAtClient
<1> QED BY <1>1, <1>3, <1>4

\* A good shim that is left alone stays good if it keeps a second name.
LEMMA GoodStays ==
  ASSUME TypeOK, TypeOK', UNCHANGED <<strategy, client, meta>>, NEW c \in Commands, Good(c),
         shim'[c] = shim[c], strategy # "symlink" => Names(shim[c].inode)' > 1
  PROVE  Good(c)'
<1>1. GoodIsLink'
  BY GoodIs, PTL
<1>2. GoodIsLink
  BY GoodIs
<1>3. CASE strategy = "symlink"
  BY <1>1, <1>2, <1>3 DEF GoodIsLink
<1>4. CASE strategy # "symlink"
  BY <1>1, <1>2, <1>4 DEF GoodIsLink
<1> QED BY <1>3, <1>4

-----------------------------------------------------------------------------
(* The steps *)

\* At first there is no shim.
LEMMA InitInv == Init => IInv
<1> SUFFICES ASSUME Init PROVE IInv
  OBVIOUS
<1>1. TypeOK
  BY ShapesAre, Bounded DEF Init, TypeOK, Inodes
<1>2. \A c \in Commands : shim[c].kind = "absent"
  BY ShapesAre DEF Init
<1> QED BY <1>1, <1>2 DEF Init, IInv, FilesAreUsers, ResultsSoFar, DeployedSoFar, DeployedIsComplete,
          DeployIsIdempotent, RefusesOnlyForeign, LinkIsRemoved

\* A Deploy begins with the shims as they are.
LEMMA BeginInv == ASSUME IInv, Begin, UNCHANGED strategy PROVE IInv'
<1> USE DEF IInv
<1>1. /\ UNCHANGED <<shim, client, meta, elsewhere, inodes, users, moves, raced>> /\ begun' = shim /\ alone' = TRUE
      /\ at' = 1 /\ planned' = "none" /\ results' = [c \in Commands |-> "none"]
      /\ \/ pc' = "inspect" /\ outcome' = "none"
         \/ pc' = "idle" /\ outcome' = "failed"
  BY DEF Begin, disk
<1>2. TypeOK'
  BY <1>1, Bounded DEF TypeOK
<1>3. /\ FilesAreUsers' /\ ResultsSoFar' /\ LinkIsRemoved'
      /\ DeployedIsComplete' /\ DeployIsIdempotent' /\ RefusesOnlyForeign'
  BY <1>1 DEF FilesAreUsers, ResultsSoFar, LinkIsRemoved, DeployedIsComplete, DeployIsIdempotent,
       RefusesOnlyForeign
<1>4. \A c \in Commands : ~(c < 1)
  BY DEF Commands
<1>5. DeployedSoFar'
  BY <1>1, <1>4 DEF DeployedSoFar
<1> QED BY <1>2, <1>3, <1>5

\* Deploy ends at the command at hand, with an error or killed.
LEMMA StopInv ==
  ASSUME IInv, pc # "idle", pc' = "idle", outcome' \in {"none", "failed", "foreign", "unavailable"},
         planned' \in {"none", "create", "replace"}, raced' \in BOOLEAN,
         UNCHANGED <<strategy, at, results, shim, client, meta, elsewhere, inodes, users, moves, begun, alone>>,
         outcome' = "foreign" => at \in users \/ (strategy = "hardlink" /\ client # 1)
  PROVE  IInv'
<1> USE DEF IInv
<1>1. TypeOK'
  BY DEF TypeOK
<1>2. FilesAreUsers' /\ ResultsSoFar' /\ DeployedSoFar' /\ DeployedIsComplete' /\ DeployIsIdempotent'
  BY DEF FilesAreUsers, ResultsSoFar, DeployedSoFar, DeployedIsComplete, DeployIsIdempotent
<1>3. RefusesOnlyForeign' /\ LinkIsRemoved'
  BY DEF RefusesOnlyForeign, LinkIsRemoved
<1> QED BY <1>1, <1>2, <1>3

\* A command is done: its shim is good, and was not so before if it was replaced.
LEMMA DoneInv ==
  ASSUME IInv, pc # "idle", NEW action \in {"noop", "create", "replace"}, Done(action),
         planned' \in {"none", "create", "replace"}, raced' \in BOOLEAN, shim' \in [Commands -> Shapes],
         \A c \in Commands : c # at => shim'[c] = shim[c],
         FilesAreUsers',
         alone => \A c \in Commands : c <= at => Good(c)',
         alone /\ action = "replace" => shim'[at] # begun[at],
         UNCHANGED <<strategy, client, meta, elsewhere, inodes, users, moves, begun, alone>>
  PROVE  IInv'
<1> USE DEF IInv
<1>1. /\ results' = [results EXCEPT ![at] = action]
      /\ \/ at = Last /\ pc' = "idle" /\ outcome' = "deployed" /\ at' = at
         \/ at # Last /\ pc' = "inspect" /\ at' = at + 1 /\ outcome' = outcome
  BY DEF Done
<1>2. at \in Commands /\ at \in Nat /\ at <= Last
  BY Bounded DEF TypeOK, Commands
<1>3. at' \in Commands
  BY <1>1, <1>2, Bounded DEF Commands
<1>4. TypeOK'
  BY <1>1, <1>3 DEF TypeOK
<1>5. \A c \in Commands : results'[c] = IF c = at THEN action ELSE results[c]
  BY <1>1 DEF TypeOK
<1>6. ResultsSoFar'
  <2>1. outcome' \in {"deployed", "foreign"} => pc' = "idle"
    BY <1>1 DEF ResultsSoFar
  <2>2. ASSUME pc' # "idle", NEW c \in Commands, c >= at' PROVE results'[c] = "none"
    <3>1. at' = at + 1
      BY <1>1, <2>2
    <3>2. c # at /\ c >= at
      BY <1>2, <2>2, <3>1, Bounded
    <3> QED BY <1>5, <3>2 DEF ResultsSoFar
  <2>3. pc' \notin {"remove", "unlink", "create"}
    BY <1>1
  <2> QED BY <2>1, <2>2, <2>3 DEF ResultsSoFar
<1>7. DeployedIsComplete'
  <2> SUFFICES ASSUME outcome' = "deployed", alone, NEW c \in Commands PROVE Good(c)'
    BY DEF DeployedIsComplete
  <2>1. at = Last
    BY <1>1 DEF ResultsSoFar
  <2>2. c <= at
    BY <2>1, Bounded DEF Commands
  <2> QED BY <2>2
<1>8. DeployIsIdempotent'
  <2> SUFFICES ASSUME alone, NEW c \in Commands, results'[c] = "replace" PROVE shim'[c] # begun[c]
    BY DEF DeployIsIdempotent
  <2>1. CASE c = at
    BY <1>5, <2>1
  <2>2. CASE c # at
    BY <1>5, <2>2 DEF DeployIsIdempotent
  <2> QED BY <2>1, <2>2
<1>9. RefusesOnlyForeign' /\ LinkIsRemoved'
  BY <1>1 DEF RefusesOnlyForeign, ResultsSoFar, LinkIsRemoved
<1>10. DeployedSoFar'
  <2> SUFFICES ASSUME alone, at # Last, pc' = "inspect", at' = at + 1
               PROVE  /\ \A c \in Commands : c < at + 1 => Good(c)'
                      /\ \A c \in Commands : c >= at + 1 => shim'[c] = begun[c]
    BY <1>1, <1>2, <1>3, Bounded DEF DeployedSoFar
  <2>1. ASSUME NEW c \in Commands, c < at + 1 PROVE Good(c)'
    <3>1. c \in Nat /\ at \in Nat
      BY <1>2, Bounded
    <3>2. c <= at
      BY <2>1, <3>1
    <3> QED BY <3>2
  <2>2. ASSUME NEW c \in Commands, c >= at + 1 PROVE shim'[c] = begun[c]
    <3>1. c \in Nat /\ at \in Nat
      BY <1>2, Bounded
    <3>2. c > at /\ c # at
      BY <2>2, <3>1
    <3> QED BY <3>2 DEF DeployedSoFar
  <2> QED BY <2>1, <2>2
<1> QED BY <1>4, <1>6, <1>7, <1>8, <1>9, <1>10

\* What inspect decides follows from the shim as it was found.
LEMMA InspectInv == ASSUME IInv, Inspect, UNCHANGED strategy PROVE IInv'
<1> USE DEF IInv
<1>1. /\ pc = "inspect"
      /\ UNCHANGED <<shim, client, meta, elsewhere, inodes, users, moves, begun, alone, raced>>
  BY DEF Inspect, disk
<1>2. at \in Commands
  BY DEF TypeOK
<1>3. CASE Stops("failed") /\ planned' = "none"
  BY <1>1, <1>3, StopInv DEF Stops, TypeOK
<1>4. CASE Kind(at) = "none" /\ Stops("foreign") /\ planned' = "none"
  <2>1. shim[at].kind \in {"file", "dir"} /\ Kind(at) # "hardlink"
    BY <1>2, <1>4, KindIs
  <2>2. shim[at].kind = "file" => ~(Names(shim[at].inode) > 1)
    BY <1>2, <2>1, KindIs
  <2>3. shim[at] # File(client)
    <3> SUFFICES ASSUME shim[at] = File(client) PROVE FALSE
      OBVIOUS
    <3>1. shim[at].kind = "file" /\ shim[at].inode = client
      BY ShapesAre
    <3>2. Names(client) > 1
      BY <1>2, ClientIsNamedTwice
    <3> QED BY <2>2, <3>1, <3>2
  <2>4. strategy \in {"symlink", "hardlink"}
    BY ShimAssumption DEF ShimAssumption, TypeOK
  <2>5. at \in users \/ (strategy = "hardlink" /\ client # 1)
    BY <1>2, <2>1, <2>3, <2>4 DEF FilesAreUsers
  <2>6. planned' \in {"none", "create", "replace"} /\ raced' \in BOOLEAN
    BY <1>1, <1>4 DEF TypeOK
  <2> QED BY <1>1, <1>4, <2>5, <2>6, StopInv DEF Stops
<1>5. CASE Good(at) /\ Done("noop") /\ planned' = "none"
  <2>1. FilesAreUsers'
    BY <1>1 DEF FilesAreUsers
  <2>2. ASSUME alone, NEW c \in Commands, c <= at PROVE Good(c)'
    <3>1. Good(c)
      <4>1. c \in Nat /\ at \in Nat
        BY <1>2, Bounded
      <4>2. c = at \/ c < at
        BY <2>2, <4>1
      <4> QED BY <1>1, <1>5, <2>2, <4>2 DEF DeployedSoFar
    <3> QED BY <1>1, <3>1 DEF Good, Kind, PointsAtClient, Names
  <2> QED BY <1>1, <1>5, <2>1, <2>2, DoneInv DEF TypeOK
<1>6. CASE /\ Kind(at) = "absent"
           /\ pc' = "create" /\ planned' = "create" /\ UNCHANGED <<at, results, outcome>>
  <2>1. TypeOK' /\ FilesAreUsers' /\ ResultsSoFar'
    BY <1>1, <1>6 DEF TypeOK, FilesAreUsers, ResultsSoFar
  <2>2. DeployedSoFar'
    BY <1>1, <1>6 DEF DeployedSoFar, Good, Kind, PointsAtClient, Names
  <2>3. DeployedIsComplete' /\ DeployIsIdempotent' /\ RefusesOnlyForeign' /\ LinkIsRemoved'
    BY <1>1, <1>6 DEF ResultsSoFar, DeployedIsComplete, DeployIsIdempotent, RefusesOnlyForeign, LinkIsRemoved
  <2> QED BY <2>1, <2>2, <2>3
<1>7. CASE /\ Kind(at) \in LinkKinds /\ ~Good(at)
           /\ pc' = "remove" /\ planned' = "replace" /\ UNCHANGED <<at, results, outcome>>
  <2>1. TypeOK' /\ FilesAreUsers' /\ ResultsSoFar'
    BY <1>1, <1>7 DEF TypeOK, FilesAreUsers, ResultsSoFar
  <2>2. shim[at] # Link
    <3>1. CASE strategy = "symlink"
      BY <1>2, <1>7, <3>1, GoodIs DEF GoodIsLink, Link
    <3>2. CASE strategy # "symlink"
      <4> SUFFICES ASSUME shim[at] = File(client) PROVE FALSE
        BY <3>2 DEF Link
      <4>1. shim[at].kind = "file" /\ shim[at].inode = client
        BY ShapesAre
      <4>2. Names(shim[at].inode) > 1
        BY <1>2, <4>1, ClientIsNamedTwice
      <4> QED BY <1>2, <1>7, <3>2, <4>1, <4>2, GoodIs DEF GoodIsLink
    <3> QED BY <3>1, <3>2
  <2>3. DeployedSoFar'
    <3> SUFFICES ASSUME alone
                 PROVE  /\ \A c \in Commands : c < at => Good(c)'
                        /\ \A c \in Commands : c > at => shim[c] = begun[c]
                        /\ shim[at] = begun[at] /\ ~Good(at)' /\ begun[at] # Link
      BY <1>1, <1>7 DEF DeployedSoFar, Link
    <3>1. \A c \in Commands : Good(c)' <=> Good(c)
      BY <1>1 DEF Good, Kind, PointsAtClient, Names
    <3> QED BY <1>1, <1>2, <1>7, <2>2, <3>1 DEF DeployedSoFar
  <2>4. DeployedIsComplete' /\ DeployIsIdempotent' /\ RefusesOnlyForeign' /\ LinkIsRemoved'
    BY <1>1, <1>7 DEF ResultsSoFar, DeployedIsComplete, DeployIsIdempotent, RefusesOnlyForeign, LinkIsRemoved
  <2> QED BY <2>1, <2>3, <2>4
<1> QED BY <1>3, <1>4, <1>5, <1>6, <1>7 DEF Inspect

\* RemoveLink goes on with a link only.
LEMMA CheckInv == ASSUME IInv, CheckLink, UNCHANGED strategy PROVE IInv'
<1> USE DEF IInv
<1>1. /\ pc = "remove" /\ raced' = FALSE
      /\ UNCHANGED <<planned, shim, client, meta, elsewhere, inodes, users, moves, begun, alone>>
  BY DEF CheckLink, disk
<1>2. CASE Stops("failed")
  BY <1>1, <1>2, StopInv DEF Stops, TypeOK
<1>3. CASE Kind(at) \in LinkKinds /\ pc' = "unlink" /\ UNCHANGED <<at, results, outcome>>
  <2>1. \A c \in Commands : Good(c)' <=> Good(c)
    BY <1>1 DEF Good, Kind, PointsAtClient, Names
  <2>2. TypeOK' /\ FilesAreUsers' /\ ResultsSoFar'
    BY <1>1, <1>3 DEF TypeOK, FilesAreUsers, ResultsSoFar
  <2>3. DeployedSoFar'
    BY <1>1, <1>3, <2>1 DEF DeployedSoFar, Link, TypeOK
  <2>4. LinkIsRemoved'
    BY <1>1, <1>3 DEF LinkIsRemoved, Kind, Names
  <2>5. DeployedIsComplete' /\ DeployIsIdempotent' /\ RefusesOnlyForeign'
    BY <1>1, <1>3 DEF ResultsSoFar, DeployedIsComplete, DeployIsIdempotent, RefusesOnlyForeign
  <2> QED BY <2>2, <2>3, <2>4, <2>5
<1> QED BY <1>2, <1>3 DEF CheckLink

\* The link that is taken away is not a good one: no good one loses a name by it.
LEMMA RemoveInv == ASSUME IInv, Remove, UNCHANGED strategy PROVE IInv'
<1> USE DEF IInv
<1>1. pc = "unlink" /\ raced' = FALSE /\ UNCHANGED <<planned, client, meta, elsewhere, inodes, moves, begun, alone>>
  BY DEF Remove
<1>2. at \in Commands
  BY DEF TypeOK
<1>3. CASE Stops("failed") /\ UNCHANGED <<shim, users>>
  BY <1>1, <1>3, StopInv DEF Stops, TypeOK
<1>4. CASE /\ shim' = [shim EXCEPT ![at] = Absent] /\ users' = users \ {at}
           /\ pc' = "create" /\ UNCHANGED <<at, results, outcome>>
  <2>1. shim' = [shim EXCEPT ![at] = Absent] /\ users' = users \ {at}
    BY <1>4
  <2>2. shim'[at] = Absent /\ \A c \in Commands : c # at => shim'[c] = shim[c]
    BY <2>1 DEF TypeOK
  <2>3. TypeOK' /\ ResultsSoFar'
    BY <1>1, <1>4, <2>1, ShapesAre DEF TypeOK, ResultsSoFar
  <2>4. FilesAreUsers'
    BY <1>1, <2>1, <2>2, ShapesAre DEF FilesAreUsers
  <2>5. ASSUME alone, NEW c \in Commands, c < at PROVE Good(c)'
    <3>1. c # at /\ Good(c) /\ ~Good(at)
      BY <1>1, <1>2, <2>5, Bounded DEF DeployedSoFar
    <3>2. ASSUME strategy # "symlink" PROVE Names(shim[c].inode)' > 1
      <4>1. shim[c].kind = "file" /\ Names(shim[c].inode) > 1 /\ meta[shim[c].inode] = meta[client]
        BY <3>1, <3>2, GoodIs DEF GoodIsLink
      <4>2. shim[c].inode \in Inodes
        BY <4>1, ShapesAre DEF TypeOK
      <4>3. shim[at] # File(shim[c].inode)
        <5> SUFFICES ASSUME shim[at] = File(shim[c].inode) PROVE FALSE
          OBVIOUS
        <5>1. shim[at].kind = "file" /\ shim[at].inode = shim[c].inode
          BY ShapesAre
        <5> QED BY <1>2, <3>1, <3>2, <4>1, <5>1, GoodIs DEF GoodIsLink
      <4>4. Names(shim[c].inode)' = Names(shim[c].inode)
        <5> DEFINE i == shim[c].inode
        <5>1. ASSUME NEW j \in Inodes, shim[at] # File(j) PROVE Names(j)' = Names(j)
          BY <1>1, <2>1, <5>1, Unlinked
        <5>2. shim'[c] = shim[c]
          BY <2>2, <3>1
        <5> QED BY <4>2, <4>3, <5>1, <5>2
      <4> QED BY <4>1, <4>4
    <3> QED BY <1>1, <2>2, <2>3, <3>1, <3>2, GoodStays
  <2>6. DeployedSoFar'
    <3> SUFFICES ASSUME alone
                 PROVE  /\ \A c \in Commands : c < at => Good(c)'
                        /\ \A c \in Commands : c > at => shim'[c] = begun[c]
                        /\ planned = "replace" => begun[at] # Link
      BY <1>1, <1>4 DEF DeployedSoFar, Link
    <3>1. ASSUME NEW c \in Commands, c > at PROVE shim'[c] = begun[c]
      BY <1>1, <1>2, <2>2, <3>1, Bounded DEF DeployedSoFar
    <3> QED BY <1>1, <2>5, <3>1 DEF DeployedSoFar
  <2>7. DeployedIsComplete' /\ RefusesOnlyForeign' /\ LinkIsRemoved'
    BY <1>1, <1>4 DEF ResultsSoFar, DeployedIsComplete, RefusesOnlyForeign, LinkIsRemoved
  <2>8. DeployIsIdempotent'
    <3> SUFFICES ASSUME alone, NEW c \in Commands, results[c] = "replace" PROVE shim'[c] # begun[c]
      BY <1>1, <1>4 DEF DeployIsIdempotent
    <3>1. c # at
      BY <1>1, <1>2, Bounded DEF ResultsSoFar
    <3> QED BY <2>2, <3>1 DEF DeployIsIdempotent
  <2> QED BY <2>3, <2>4, <2>6, <2>7, <2>8
<1> QED BY <1>3, <1>4 DEF Remove

\* The link that is made is good, and no other shim loses a name by it.
LEMMA CreateInv == ASSUME IInv, Create, UNCHANGED strategy PROVE IInv'
<1> USE DEF IInv
<1>1. /\ pc = "create"
      /\ UNCHANGED <<planned, users, client, meta, elsewhere, inodes, moves, begun, alone, raced>>
  BY DEF Create
<1>2. at \in Commands /\ client \in Inodes
  BY DEF TypeOK
<1>3. CASE Stops("unavailable") /\ UNCHANGED shim
  BY <1>1, <1>3, StopInv DEF Stops, TypeOK
<1>4. CASE shim[at] = Absent /\ Links /\ Done(planned)
  <2>1. shim' = [shim EXCEPT ![at] = Link]
    BY <1>4 DEF Links, Link
  <2>2. shim'[at] = Link /\ \A c \in Commands : c # at => shim'[c] = shim[c]
    BY <2>1 DEF TypeOK
  <2>3. Link \in Shapes
    BY <1>2, ShapesAre DEF Link
  <2>4. shim' \in [Commands -> Shapes]
    BY <2>1, <2>3 DEF TypeOK
  <2>5. TypeOK'
    <3>1. at' \in Commands
      BY <1>2, <1>4, Bounded DEF Done, Commands
    <3> QED BY <1>1, <1>4, <2>4, <3>1 DEF Done, TypeOK
  <2>6. FilesAreUsers'
    <3>1. Link.kind # "dir" /\ (Link.kind = "file" => strategy # "symlink" /\ Link = File(client))
      BY ShapesAre DEF Link
    <3>2. ASSUME NEW c \in Commands, c \notin users
          PROVE  /\ shim'[c].kind # "dir"
                 /\ shim'[c].kind = "file" => strategy # "symlink" /\ (client = 1 => shim'[c] = File(1))
      <4>1. CASE c = at
        BY <2>2, <3>1, <4>1
      <4>2. CASE c # at
        BY <2>2, <3>2, <4>2 DEF FilesAreUsers
      <4> QED BY <4>1, <4>2
    <3> QED BY <1>1, <3>2 DEF FilesAreUsers
  <2>7. ASSUME NEW i \in Inodes
        PROVE  Names(i)' >= Names(i) /\ (strategy # "symlink" /\ i = client => Names(i)' > 1)
    BY <1>1, <1>4, <2>1, Linked
  <2>8. ASSUME NEW c \in Commands, c = at PROVE Good(c)'
    <3>1. GoodIsLink'
      BY <2>5, GoodIs, PTL
    <3>2. CASE strategy = "symlink"
      BY <2>2, <2>8, <3>1, <3>2 DEF GoodIsLink, Link
    <3>3. CASE strategy # "symlink"
      <4>1. shim'[c].kind = "file" /\ shim'[c].inode = client
        BY <2>2, <2>8, <3>3, ShapesAre DEF Link
      <4>2. \A i \in Inodes : i = client => Names(i)' > 1
        BY <2>7, <3>3
      <4>3. Names(shim[c].inode)' > 1
        BY <1>2, <4>1, <4>2
      <4> QED BY <1>1, <3>1, <3>3, <4>1, <4>3 DEF GoodIsLink
    <3> QED BY <3>2, <3>3
  <2>9. ASSUME alone, NEW c \in Commands, c <= at PROVE Good(c)'
    <3>1. CASE c = at
      BY <2>8, <3>1
    <3>2. CASE c # at
      <4>1. Good(c) /\ shim'[c] = shim[c]
        BY <1>1, <1>2, <2>2, <2>9, <3>2, Bounded DEF DeployedSoFar
      <4>2. ASSUME strategy # "symlink" PROVE Names(shim[c].inode)' > 1
        <5>1. shim[c].kind = "file" /\ Names(shim[c].inode) > 1
          BY <4>1, <4>2, GoodIs DEF GoodIsLink
        <5>2. shim[c].inode \in Inodes
          BY <5>1, ShapesAre DEF TypeOK
        <5>3. Names(shim[c].inode)' >= Names(shim[c].inode)
          BY <2>7, <4>1, <5>2
        <5>4. Names(shim[c].inode) \in Nat /\ Names(shim[c].inode)' \in Nat
          <6>1. NamesAreCounted'
            BY NamesAre, PTL
          <6> QED BY <4>1, <5>2, <6>1, NamesAre DEF NamesAreCounted
        <5> QED BY <5>1, <5>3, <5>4
      <4> QED BY <1>1, <2>5, <4>1, <4>2, GoodStays
    <3> QED BY <3>1, <3>2
  <2>10. planned \in {"create", "replace"}
    BY <1>1 DEF ResultsSoFar, TypeOK
  <2>11. alone /\ planned = "replace" => shim'[at] # begun[at]
    BY <1>1, <2>2 DEF DeployedSoFar
  <2> QED BY <1>1, <1>4, <2>2, <2>4, <2>6, <2>9, <2>10, <2>11, DoneInv DEF TypeOK
<1> QED BY <1>3, <1>4 DEF Create

\* A shim path the user touched is his from then on; the other conjuncts are about
\* shims left alone.
LEMMA UserInv ==
  ASSUME IInv, Move, UNCHANGED strategy, (\E c \in Commands : Put(c)) \/ Unlink \/ ReplaceClient \/ CopyRoot
  PROVE  IInv'
<1> USE DEF IInv
<1>1. /\ UNCHANGED <<pc, at, planned, results, outcome, begun>>
      /\ alone' = FALSE /\ raced' = (pc = "unlink") /\ moves' = moves + 1
  BY DEF Move
<1>2. /\ ResultsSoFar' /\ DeployedSoFar' /\ LinkIsRemoved'
      /\ DeployedIsComplete' /\ DeployIsIdempotent' /\ RefusesOnlyForeign'
  BY <1>1 DEF ResultsSoFar, DeployedSoFar, LinkIsRemoved, DeployedIsComplete, DeployIsIdempotent,
       RefusesOnlyForeign
<1>3. inodes \in Nat /\ MaxInodes \in Nat /\ inodes >= 1
  BY ShimAssumption DEF ShimAssumption, TypeOK, Inodes
<1>4. ASSUME /\ shim' \in [Commands -> Shapes] /\ client' \in Inodes /\ meta' \in [Inodes -> Nat]
             /\ elsewhere' \subseteq Inodes /\ inodes' \in Inodes /\ users' \subseteq Commands
      PROVE  TypeOK'
  <2>1. moves' \in Nat
    BY <1>1 DEF TypeOK
  <2> QED BY <1>1, <1>4, <2>1 DEF TypeOK
<1>5. ASSUME NEW c \in Commands, Put(c) PROVE TypeOK' /\ FilesAreUsers'
  <2>1. client' = client
    BY <1>5 DEF Put
  <2>2. ASSUME NEW e \in Shapes, shim' = [shim EXCEPT ![c] = e], users' = users \cup {c}
        PROVE  shim' \in [Commands -> Shapes] /\ users' \subseteq Commands /\ FilesAreUsers'
    BY <2>1, <2>2 DEF TypeOK, FilesAreUsers
  <2>3. CASE /\ users' = users \cup {c} /\ UNCHANGED <<meta, elsewhere, inodes>>
             /\ \E e \in Things : shim' = [shim EXCEPT ![c] = e]
    <3>1. Things \subseteq Shapes
      BY ShapesAre DEF Things
    <3> QED BY <1>4, <2>1, <2>2, <2>3, <3>1 DEF TypeOK
  <2>4. CASE /\ users' = users \cup {c} /\ inodes < MaxInodes /\ inodes' = inodes + 1
             /\ shim' = [shim EXCEPT ![c] = File(inodes + 1)]
             /\ meta' = [meta EXCEPT ![inodes + 1] = inodes + 1]
             /\ elsewhere' \in {elsewhere, elsewhere \cup {inodes + 1}}
    <3>1. inodes + 1 \in Inodes /\ inodes + 1 \in Nat
      BY <1>3, <2>4 DEF Inodes
    <3>2. File(inodes + 1) \in Shapes
      BY <3>1, ShapesAre
    <3>3. shim' \in [Commands -> Shapes] /\ users' \subseteq Commands /\ FilesAreUsers'
      BY <2>2, <2>4, <3>2
    <3>4. meta' \in [Inodes -> Nat] /\ elsewhere' \subseteq Inodes
      BY <2>4, <3>1 DEF TypeOK
    <3> QED BY <1>4, <2>1, <2>4, <3>1, <3>3, <3>4 DEF TypeOK
  <2>5. CASE /\ users' = users \ {c} /\ shim' = [shim EXCEPT ![c] = Absent]
             /\ UNCHANGED <<meta, elsewhere, inodes>>
    <3>1. shim' \in [Commands -> Shapes] /\ users' \subseteq Commands
      BY <2>5, ShapesAre DEF TypeOK
    <3>2. FilesAreUsers'
      BY <2>1, <2>5, ShapesAre DEF TypeOK, FilesAreUsers
    <3> QED BY <1>4, <2>1, <2>5, <3>1, <3>2 DEF TypeOK
  <2> QED BY <1>5, <2>3, <2>4, <2>5 DEF Put
<1>6. CASE Unlink
  <2>1. elsewhere' \subseteq Inodes
    BY <1>6 DEF Unlink, TypeOK
  <2> QED BY <1>2, <1>4, <1>6, <2>1 DEF Unlink, TypeOK, FilesAreUsers
<1>7. CASE ReplaceClient
  <2>1. inodes + 1 \in Inodes /\ inodes + 1 \in Nat
    BY <1>3, <1>7 DEF ReplaceClient, Inodes
  <2>2. meta' \in [Inodes -> Nat]
    BY <1>7, <2>1 DEF ReplaceClient, TypeOK
  <2>3. FilesAreUsers'
    <3>1. inodes + 1 # 1 /\ client' = inodes + 1 /\ shim' = shim /\ users' = users
      BY <1>3, <1>7 DEF ReplaceClient
    <3> QED BY <3>1 DEF FilesAreUsers
  <2>4. TypeOK'
    BY <1>4, <1>7, <2>1, <2>2 DEF ReplaceClient, TypeOK
  <2> QED BY <1>2, <2>3, <2>4
<1>8. CASE CopyRoot
  <2>1. /\ inodes + 1 + Last <= MaxInodes /\ inodes' = inodes + 1 + Last /\ client' = inodes + 1
        /\ shim' = [c \in Commands |-> IF shim[c].kind = "file" THEN File(inodes + 1 + c) ELSE shim[c]]
        /\ elsewhere' = {} /\ users' = users
    BY <1>8 DEF CopyRoot
  <2>2. inodes' \in Inodes /\ client' \in Inodes /\ \A c \in Commands : inodes + 1 + c \in Inodes
    BY <1>3, <2>1, Bounded DEF Inodes, Commands
  <2>3. shim' \in [Commands -> Shapes]
    BY <2>1, <2>2, ShapesAre DEF TypeOK
  <2>4. meta' \in [Inodes -> Nat]
    <3>1. meta' = [i \in Inodes |->
                     IF i = inodes + 1 THEN meta[client]
                     ELSE IF \E c \in Commands : i = inodes + 1 + c /\ shim[c].kind = "file"
                          THEN meta[shim[i - inodes - 1].inode] ELSE meta[i]]
      BY <1>8 DEF CopyRoot
    <3>2. ASSUME NEW i \in Inodes, NEW c \in Commands, i = inodes + 1 + c, shim[c].kind = "file"
          PROVE  meta[shim[i - inodes - 1].inode] \in Nat
      <4>1. i - inodes - 1 = c
        BY <1>3, <3>2, Bounded
      <4>2. shim[c].inode \in Inodes
        BY <3>2, ShapesAre DEF TypeOK
      <4> QED BY <4>1, <4>2 DEF TypeOK
    <3>3. meta[client] \in Nat /\ \A i \in Inodes : meta[i] \in Nat
      BY DEF TypeOK
    <3> QED BY <3>1, <3>2, <3>3
  <2>5. FilesAreUsers'
    <3>1. client' # 1
      BY <1>3, <2>1
    <3>2. \A c \in Commands : shim'[c].kind = shim[c].kind
      BY <2>1, ShapesAre
    <3> QED BY <2>1, <3>1, <3>2 DEF FilesAreUsers
  <2>6. TypeOK'
    BY <1>4, <2>1, <2>2, <2>3, <2>4 DEF TypeOK
  <2> QED BY <1>2, <2>5, <2>6
<1> QED BY <1>2, <1>5, <1>6, <1>7, <1>8

\* Every step keeps the invariant.
LEMMA StepInv == IInv /\ [Next]_vars => IInv'
<1> SUFFICES ASSUME IInv, [Next]_vars PROVE IInv'
  OBVIOUS
<1>1. CASE Crash /\ UNCHANGED strategy
  <2>1. planned \in {"none", "create", "replace"}
    BY DEF IInv, TypeOK
  <2> QED BY <1>1, <2>1, StopInv DEF Crash, disk
<1>2. CASE UNCHANGED vars
  BY <1>2 DEF vars, disk, IInv, TypeOK, FilesAreUsers, ResultsSoFar, DeployedSoFar, DeployedIsComplete,
       DeployIsIdempotent, RefusesOnlyForeign, LinkIsRemoved, Good, Kind, PointsAtClient, Names, Link
<1>3. CASE ((\E c \in Commands : Put(c)) \/ Unlink \/ ReplaceClient \/ CopyRoot) /\ UNCHANGED strategy
  <2>1. Move
    BY <1>3 DEF Put, Unlink, ReplaceClient, CopyRoot
  <2> QED BY <1>3, <2>1, UserInv
<1> QED BY <1>1, <1>2, <1>3, BeginInv, InspectInv, CheckInv, RemoveInv, CreateInv DEF Next, Deploys

\* RemoveLink takes away links only: a symlink is no name of a file, and a hard link
\* is not the last one.
LEMMA RemoveKeeps ==
  ASSUME IInv, Remove, ~raced
  PROVE  /\ \A i \in Inodes : Names(i) > 0 => Names(i)' > 0
         /\ \A c \in Commands : shim[c].kind \in {"dir", "unknown"} => shim'[c] = shim[c]
<1> USE DEF IInv
<1>1. UNCHANGED <<client, elsewhere>> /\ at \in Commands
  BY DEF Remove, TypeOK
<1>2. CASE shim' = shim
  BY <1>1, <1>2 DEF Names
<1>3. CASE shim' = [shim EXCEPT ![at] = Absent]
  <2>1. shim' = [shim EXCEPT ![at] = Absent] /\ \A c \in Commands : c # at => shim'[c] = shim[c]
    BY <1>3 DEF TypeOK
  <2>2. /\ shim[at].kind \in {"symlink", "junction", "file"}
        /\ shim[at].kind = "file" => Names(shim[at].inode) > 1
    <3>1. Kind(at) \in {"symlink", "hardlink", "junction"}
      BY DEF Remove, LinkIsRemoved, LinkKinds
    <3> QED BY <1>1, <3>1, KindIs
  <2>3. ASSUME NEW i \in Inodes, Names(i) > 0 PROVE Names(i)' > 0
    <3>1. Names(i)' = IF shim[at] = File(i) THEN Names(i) - 1 ELSE Names(i)
      BY <1>1, <2>1, Unlinked
    <3>2. shim[at] = File(i) => Names(i) > 1
      BY <2>2, ShapesAre
    <3>3. Names(i) \in Nat
      BY NamesAre DEF NamesAreCounted
    <3> QED BY <2>3, <3>1, <3>2, <3>3
  <2>4. \A c \in Commands : shim[c].kind \in {"dir", "unknown"} => c # at
    BY <2>2
  <2> QED BY <2>1, <2>3, <2>4
<1> QED BY <1>2, <1>3 DEF Remove

\* A link is made where nothing is.
LEMMA CreateKeeps ==
  ASSUME IInv, Create, UNCHANGED strategy
  PROVE  /\ \A i \in Inodes : Names(i) > 0 => Names(i)' > 0
         /\ \A c \in Commands : shim[c].kind \in {"dir", "unknown"} => shim'[c] = shim[c]
<1> USE DEF IInv
<1>1. UNCHANGED <<client, elsewhere>>
  BY DEF Create
<1>2. CASE shim' = shim
  BY <1>1, <1>2 DEF Names
<1>3. CASE shim[at] = Absent /\ Links
  <2>1. shim' = [shim EXCEPT ![at] = Link] /\ \A c \in Commands : c # at => shim'[c] = shim[c]
    BY <1>3 DEF Links, Link, TypeOK
  <2>2. ASSUME NEW i \in Inodes, Names(i) > 0 PROVE Names(i)' > 0
    <3>1. Names(i)' >= Names(i)
      BY <1>1, <1>3, <2>1, Linked
    <3>2. Names(i) \in Nat
      BY NamesAre DEF NamesAreCounted
    <3>3. Names(i)' \in Nat
      <4>1. NamesAreCounted'
        BY NamesAre, PTL
      <4> QED BY <4>1 DEF NamesAreCounted
    <3> QED BY <2>2, <3>1, <3>2, <3>3
  <2>3. \A c \in Commands : shim[c].kind \in {"dir", "unknown"} => c # at
    BY <1>3, ShapesAre
  <2> QED BY <2>1, <2>2, <2>3
<1> QED BY <1>2, <1>3 DEF Create

\* No other step of Deploy touches a shim, and the user's moves are counted.
LEMMA StepKeeps ==
  ASSUME IInv, [Next]_vars, moves' = moves, ~raced, shim' # shim
  PROVE  /\ \A i \in Inodes : Names(i) > 0 => Names(i)' > 0
         /\ \A c \in Commands : shim[c].kind \in {"dir", "unknown"} => shim'[c] = shim[c]
<1>1. ~Move
  BY DEF IInv, TypeOK, Move
<1>2. ~(Begin \/ Inspect \/ CheckLink \/ Crash)
  BY DEF Begin, Inspect, CheckLink, Crash, disk
<1>3. (Remove \/ Create) /\ UNCHANGED strategy
  BY <1>1, <1>2 DEF Next, Deploys, Put, Unlink, ReplaceClient, CopyRoot, vars, disk
<1> QED BY <1>3, RemoveKeeps, CreateKeeps

-----------------------------------------------------------------------------
(* The theorems *)

\* The inductive invariant holds through faults, crashes and the user's moves.
THEOREM Invariant == Spec => []IInv
BY InitInv, StepInv, PTL DEF Spec

\* Every variable has its type.
THEOREM TypeCorrect == Spec => []TypeOK
BY Invariant, PTL DEF IInv

\* After a Deploy that succeeded every command leads to the client, unless the user
\* was at work.
THEOREM Complete == Spec => []DeployedIsComplete
BY Invariant, PTL DEF IInv

\* Deploy never makes a shim again that was in order.
THEOREM Idempotent == Spec => []DeployIsIdempotent
BY Invariant, PTL DEF IInv

\* Deploy refuses a shim path as foreign only where the user put something; with hard
\* links as long as the client is the first one.
THEOREM RefusesForeign == Spec => []RefusesOnlyForeign
BY Invariant, PTL DEF IInv

\* Whatever the user does between the steps of a Deploy, but for the two calls of
\* RemoveLink, it never takes away the last name of a file, a directory or an entry of
\* unknown kind.
THEOREM ContentStays == Spec => ContentKept
<1>1. IInv /\ [Next]_vars =>
        [moves' = moves /\ ~raced =>
           /\ \A i \in Inodes : Names(i) > 0 => Names(i)' > 0
           /\ \A c \in Commands : shim[c].kind \in {"dir", "unknown"} => shim'[c] = shim[c]]_shim
  BY StepKeeps
<1> QED BY <1>1, Invariant, PTL DEF Spec, ContentKept
==============================================================================
