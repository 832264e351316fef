----------------------- MODULE ExecuteInstall_proofs -----------------------
(***************************************************************************)
(* Proofs about the install transaction, for any number of operations,     *)
(* keys and receipt contents.                                              *)
(***************************************************************************)
EXTENDS ExecuteInstall, TLAPS

-----------------------------------------------------------------------------
(* Types *)

\* Every variable starts with its shape.
LEMMA InitType == Init => TypeOK
BY OpsAssumption DEF Init, TypeOK, Labels, Critical, Indexes, Dirs, NoDir

\* The places an operation can be at.
LEMMA LabelsListed ==
  /\ {"idle", "planned", "acquire", "locked", "stage", "fetch", "probe", "harden",
      "receipt", "check", "rename", "recheck", "index", "cleanup", "release",
      "returned", "exited", "crashed"} \subseteq Labels
BY DEF Labels, Critical, Engine

\* An operation that moves on moves to a place there is.
LEMMA MovesType ==
  ASSUME TypeOK, NEW o \in Ops, NEW from, NEW to \in Labels, Moves(o, from, to)
  PROVE  pc' \in [Ops -> Labels]
BY DEF TypeOK, Moves

Outcomes == {"none"} \cup Successes \cup Errors

\* An operation that is decided has an outcome there is.
LEMMA EndsType ==
  ASSUME TypeOK, NEW o \in Ops, NEW from, NEW to \in Labels, NEW code \in Outcomes,
         Ends(o, from, to, code)
  PROVE  pc' \in [Ops -> Labels] /\ outcome' \in [Ops -> Outcomes]
BY MovesType DEF TypeOK, Ends, Outcomes

Payloads == {"none", "partial", "staged", "hardened"}

\* What the steps of the engine make of a directory is a directory.
LEMMA DirFacts ==
  /\ NoDir \in Dirs
  /\ [NoDir EXCEPT !.kind = "install", !.payload = "partial"] \in Dirs
  /\ \A d \in Dirs, p \in Payloads : [d EXCEPT !.payload = p] \in Dirs
  /\ \A d \in Dirs, c \in Contents, o \in Ops :
       [d EXCEPT !.receipt = c, !.by = o] \in Dirs
BY DEF Dirs, NoDir, Payloads

\* No step of an operation or of the world breaks a shape.
LEMMA StepType == TypeOK /\ [Next]_vars => TypeOK'
<1> SUFFICES ASSUME TypeOK, [Next]_vars PROVE TypeOK'
  OBVIOUS
<1> USE OpsAssumption, LabelsListed, MovesType, EndsType
<1>1. ASSUME NEW o \in Ops, MakePlan(o) PROVE TypeOK'
  <2>1. pc' \in [Ops -> Labels] /\ outcome' \in [Ops -> Outcomes]
    BY <1>1 DEF MakePlan, TypeOK, Outcomes, Errors, Successes
  <2> QED BY <1>1, <2>1 DEF MakePlan, TypeOK, Outcomes, Indexes
<1>2. ASSUME NEW o \in Ops, CheckBeforeLock(o) PROVE TypeOK'
  <2>1. pc' \in [Ops -> Labels] /\ outcome' \in [Ops -> Outcomes]
    BY <1>2 DEF CheckBeforeLock, TypeOK, Outcomes, Errors, Successes
  <2> QED BY <1>2, <2>1 DEF CheckBeforeLock, TypeOK, Outcomes
<1>3. ASSUME NEW o \in Ops, Acquire(o) PROVE TypeOK'
  <2>1. pc' \in [Ops -> Labels] /\ outcome' \in [Ops -> Outcomes]
    BY <1>3 DEF Acquire, TypeOK, Outcomes, Errors, Successes
  <2> QED BY <1>3, <2>1 DEF Acquire, TypeOK, Outcomes
<1>4. ASSUME NEW o \in Ops, GiveUp(o) PROVE TypeOK'
  <2>1. pc' \in [Ops -> Labels] /\ outcome' \in [Ops -> Outcomes]
    BY <1>4 DEF GiveUp, TypeOK, Outcomes, Errors, Successes
  <2> QED BY <1>4, <2>1 DEF GiveUp, TypeOK, Outcomes
<1>5. ASSUME NEW o \in Ops, CheckUnderLock(o) PROVE TypeOK'
  <2>1. pc' \in [Ops -> Labels] /\ outcome' \in [Ops -> Outcomes]
    BY <1>5 DEF CheckUnderLock, TypeOK, Outcomes, Errors, Successes
  <2> QED BY <1>5, <2>1 DEF CheckUnderLock, TypeOK, Outcomes
<1>6. ASSUME NEW o \in Ops, Stage(o) PROVE TypeOK'
  <2>1. pc' \in [Ops -> Labels] /\ outcome' \in [Ops -> Outcomes]
    BY <1>6 DEF Stage, TypeOK, Outcomes, Errors, Successes
  <2>2. staging' \in [Ops -> Dirs]
    BY <1>6, DirFacts DEF Stage, TypeOK
  <2> QED BY <1>6, <2>1, <2>2 DEF Stage, TypeOK, Outcomes
<1>7. ASSUME NEW o \in Ops, Fetch(o) PROVE TypeOK'
  <2>1. pc' \in [Ops -> Labels] /\ outcome' \in [Ops -> Outcomes]
    BY <1>7 DEF Fetch, TypeOK, Outcomes, Errors, Successes
  <2>2. staging' \in [Ops -> Dirs]
    <3>1. staging[o] \in Dirs BY DEF TypeOK
    <3>2. [staging[o] EXCEPT !.payload = "staged"] \in Dirs
      BY <3>1, DirFacts DEF Payloads
    <3> QED BY <1>7, <3>2 DEF Fetch, TypeOK
  <2> QED BY <1>7, <2>1, <2>2 DEF Fetch, TypeOK, Outcomes
<1>8. ASSUME NEW o \in Ops, Probe(o) PROVE TypeOK'
  <2>1. pc' \in [Ops -> Labels] /\ outcome' \in [Ops -> Outcomes]
    BY <1>8 DEF Probe, TypeOK, Outcomes, Errors, Successes
  <2> QED BY <1>8, <2>1 DEF Probe, TypeOK, Outcomes
<1>9. ASSUME NEW o \in Ops, Harden(o) PROVE TypeOK'
  <2>1. pc' \in [Ops -> Labels] /\ outcome' \in [Ops -> Outcomes]
    BY <1>9 DEF Harden, TypeOK, Outcomes, Errors, Successes
  <2>2. staging' \in [Ops -> Dirs]
    <3>1. staging[o] \in Dirs BY DEF TypeOK
    <3>2. [staging[o] EXCEPT !.payload = "hardened"] \in Dirs
      BY <3>1, DirFacts DEF Payloads
    <3> QED BY <1>9, <3>2 DEF Harden, TypeOK
  <2> QED BY <1>9, <2>1, <2>2 DEF Harden, TypeOK, Outcomes
<1>10. ASSUME NEW o \in Ops, WriteReceipt(o) PROVE TypeOK'
  <2>1. pc' \in [Ops -> Labels] /\ outcome' \in [Ops -> Outcomes]
    BY <1>10 DEF WriteReceipt, TypeOK, Outcomes, Errors, Successes
  <2>2. staging' \in [Ops -> Dirs]
    <3>1. staging[o] \in Dirs /\ content[o] \in Contents \cup {NoContent} BY DEF TypeOK
    <3>2. [staging[o] EXCEPT !.receipt = content[o], !.by = o] \in Dirs
      BY <3>1 DEF Dirs
    <3> QED BY <1>10, <3>2 DEF WriteReceipt, TypeOK
  <2> QED BY <1>10, <2>1, <2>2 DEF WriteReceipt, TypeOK, Outcomes
<1>11. ASSUME NEW o \in Ops, CheckDestination(o) PROVE TypeOK'
  <2>1. pc' \in [Ops -> Labels] /\ outcome' \in [Ops -> Outcomes]
    BY <1>11 DEF CheckDestination, TypeOK, Outcomes, Errors, Successes
  <2> QED BY <1>11, <2>1 DEF CheckDestination, TypeOK, Outcomes
<1>12. ASSUME NEW o \in Ops, Rename(o) PROVE TypeOK'
  <2>1. pc' \in [Ops -> Labels] /\ outcome' \in [Ops -> Outcomes]
    BY <1>12 DEF Rename, TypeOK, Outcomes, Errors, Successes
  <2>2. staging' \in [Ops -> Dirs] /\ dest' \in [Keys -> Dirs]
    <3>1. KeyOf[o] \in Keys /\ staging[o] \in Dirs
      BY OpsAssumption DEF TypeOK, OpsAssumption
    <3>2. \/ dest' = [dest EXCEPT ![KeyOf[o]] = staging[o]] /\ staging' = [staging EXCEPT ![o] = NoDir]
          \/ dest' = dest /\ staging' = staging
      BY <1>12 DEF Rename
    <3>3. NoDir \in Dirs
      BY DirFacts
    <3>4. CASE dest' = dest /\ staging' = staging
      BY <3>4 DEF TypeOK
    <3>5. CASE /\ dest' = [dest EXCEPT ![KeyOf[o]] = staging[o]]
               /\ staging' = [staging EXCEPT ![o] = NoDir]
      <4>1. dest' \in [Keys -> Dirs]
        BY <3>1, <3>5 DEF TypeOK
      <4>2. staging' \in [Ops -> Dirs]
        BY <3>3, <3>5 DEF TypeOK
      <4> QED BY <4>1, <4>2
    <3> QED BY <3>2, <3>4, <3>5
  <2> QED BY <1>12, <2>1, <2>2 DEF Rename, TypeOK, Outcomes
<1>13. ASSUME NEW o \in Ops, Recheck(o) PROVE TypeOK'
  <2>1. pc' \in [Ops -> Labels] /\ outcome' \in [Ops -> Outcomes]
    BY <1>13 DEF Recheck, TypeOK, Outcomes, Errors, Successes
  <2> QED BY <1>13, <2>1 DEF Recheck, TypeOK, Outcomes
<1>14. ASSUME NEW o \in Ops, UpdateIndex(o) PROVE TypeOK'
  <2>1. pc' \in [Ops -> Labels] /\ outcome' \in [Ops -> Outcomes]
    BY <1>14 DEF UpdateIndex, TypeOK, Outcomes, Errors, Successes
  <2>2. Upserted(o) \in Indexes
    <3>1. base[o] \in Indexes BY DEF TypeOK
    <3> QED BY <3>1 DEF Upserted, Indexes
  <2>3. index' \in Indexes /\ warned' \in [Ops -> SUBSET {"index", "cleanup"}]
    <3>1. warned[o] \cup {"index"} \in SUBSET {"index", "cleanup"}
      BY DEF TypeOK
    <3>2. index' \in {index, Upserted(o)}
      BY <1>14 DEF UpdateIndex
    <3>3. warned' \in {warned, [warned EXCEPT ![o] = warned[o] \cup {"index"}]}
      BY <1>14 DEF UpdateIndex
    <3> QED BY <2>2, <3>1, <3>2, <3>3 DEF TypeOK
  <2> QED BY <1>14, <2>1, <2>3 DEF UpdateIndex, TypeOK, Outcomes
<1>15. ASSUME NEW o \in Ops, Cleanup(o) PROVE TypeOK'
  <2>1. pc' \in [Ops -> Labels] /\ outcome' \in [Ops -> Outcomes]
    BY <1>15 DEF Cleanup, TypeOK, Outcomes, Errors, Successes
  <2>2. staging' \in [Ops -> Dirs]
    BY <1>15, DirFacts DEF Cleanup, TypeOK
  <2>3. warned' \in [Ops -> SUBSET {"index", "cleanup"}]
    <3>1. warned[o] \cup {"cleanup"} \in SUBSET {"index", "cleanup"}
      BY DEF TypeOK
    <3>2. warned' \in {warned, [warned EXCEPT ![o] = warned[o] \cup {"cleanup"}],
                      [warned EXCEPT ![o] = warned[o]]}
      BY <1>15 DEF Cleanup
    <3> QED BY <3>1, <3>2 DEF TypeOK
  <2> QED BY <1>15, <2>1, <2>2, <2>3 DEF Cleanup, TypeOK, Outcomes
<1>16. ASSUME NEW o \in Ops, Release(o) PROVE TypeOK'
  <2>1. pc' \in [Ops -> Labels] /\ outcome' \in [Ops -> Outcomes]
    BY <1>16 DEF Release, TypeOK, Outcomes, Errors, Successes
  <2> QED BY <1>16, <2>1 DEF Release, TypeOK, Outcomes, Freed
<1>17. ASSUME NEW o \in Ops, Exit(o) PROVE TypeOK'
  <2>1. pc' \in [Ops -> Labels] /\ outcome' \in [Ops -> Outcomes]
    BY <1>17 DEF Exit, TypeOK, Outcomes, Errors, Successes
  <2> QED BY <1>17, <2>1 DEF Exit, TypeOK, Outcomes, Freed
<1>18. ASSUME NEW o \in Ops, Crash(o) PROVE TypeOK'
  <2>1. pc' \in [Ops -> Labels] /\ outcome' \in [Ops -> Outcomes]
    BY <1>18 DEF Crash, TypeOK, Outcomes, Errors, Successes
  <2> QED BY <1>18, <2>1 DEF Crash, TypeOK, Outcomes, Freed
<1>19. ASSUME NEW o \in Ops, Cancel(o) PROVE TypeOK'
  <2>1. pc' \in [Ops -> Labels] /\ outcome' \in [Ops -> Outcomes]
    BY <1>19 DEF Cancel, TypeOK, Outcomes, Errors, Successes
  <2> QED BY <1>19, <2>1 DEF Cancel, TypeOK, Outcomes
<1>20. ASSUME ChangeInputs PROVE TypeOK'
  BY <1>20 DEF ChangeInputs, TypeOK
<1>21. ASSUME NEW k \in Keys, Intrude(k) PROVE TypeOK'
  <2>1. \A kind \in {"empty", "foreign"} : [NoDir EXCEPT !.kind = kind] \in Dirs
    BY DEF Dirs, NoDir
  <2>2. \A c \in Contents : [kind |-> "install", payload |-> "hardened",
                             receipt |-> c, by |-> NoOp] \in Dirs
    BY DEF Dirs
  <2>3. \E d \in Dirs : dest' = [dest EXCEPT ![k] = d]
    BY <1>21, <2>1, <2>2 DEF Intrude
  <2> QED BY <1>21, <2>3 DEF Intrude, TypeOK
<1>22. ASSUME UNCHANGED vars PROVE TypeOK'
  BY <1>22 DEF vars, TypeOK
<1>23. ASSUME NEW o \in Ops, Step(o) PROVE TypeOK'
  BY <1>23, <1>1, <1>2, <1>3, <1>4, <1>5, <1>6, <1>7, <1>8, <1>9, <1>10, <1>11, <1>12, <1>13, <1>14, <1>15, <1>16, <1>17 DEF Step
<1> QED
  BY <1>18, <1>19, <1>20, <1>21, <1>22, <1>23 DEF Next

\* Every variable always has the shape the code gives it, whatever the number
\* of operations and keys.
THEOREM TypeCorrect == Spec => []TypeOK
BY InitType, StepType, PTL DEF Spec
-----------------------------------------------------------------------------
(* The inductive invariant *)

\* Moves takes one operation from one place to another.
LEMMA MovesPc ==
  ASSUME TypeOK, NEW o \in Ops, NEW from, NEW to, Moves(o, from, to)
  PROVE  /\ pc[o] = from /\ pc'[o] = to
         /\ \A p \in Ops : p # o => pc'[p] = pc[p]
BY DEF TypeOK, Moves

\* Ends does that and sets its outcome, nobody else's.
LEMMA EndsPc ==
  ASSUME TypeOK, NEW o \in Ops, NEW from, NEW to, NEW code, Ends(o, from, to, code)
  PROVE  /\ pc[o] = from /\ pc'[o] = to
         /\ \A p \in Ops : p # o => pc'[p] = pc[p]
         /\ outcome'[o] = code
         /\ \A p \in Ops : p # o => outcome'[p] = outcome[p]
BY MovesPc DEF TypeOK, Ends

\* Releasing drops nobody else's lock.
LEMMA FreedLock ==
  ASSUME TypeOK, NEW o \in Ops, lock' = Freed(o)
  PROVE  \A p \in Ops : p # o /\ lock[KeyOf[p]] = p => lock'[KeyOf[p]] = p
BY OpsAssumption DEF OpsAssumption, TypeOK, Freed

\* Between acquisition and release an operation keeps its lock, whatever step is taken.
LEMMA LockStep == TypeOK /\ HoldsItsLock /\ [Next]_vars => HoldsItsLock'
<1> SUFFICES ASSUME TypeOK, HoldsItsLock, [Next]_vars PROVE HoldsItsLock'
  OBVIOUS
<1> DEFINE Keeps(o) == /\ lock' = lock
                       /\ pc'[o] \in Critical => pc[o] \in Critical
                       /\ \A p \in Ops : p # o => pc'[p] = pc[p]
<1>1. ASSUME NEW o \in Ops, Keeps(o) PROVE HoldsItsLock'
  BY <1>1 DEF HoldsItsLock
<1>2. ASSUME NEW o \in Ops, lock' = Freed(o), pc'[o] \notin Critical,
             \A p \in Ops : p # o => pc'[p] = pc[p]
      PROVE  HoldsItsLock'
  BY <1>2, FreedLock DEF HoldsItsLock
<1> HIDE DEF Keeps
<1>3. ASSUME NEW o \in Ops, MakePlan(o) \/ CheckBeforeLock(o) \/ GiveUp(o) PROVE HoldsItsLock'
  <2>1. Keeps(o)
    BY <1>3, MovesPc, EndsPc DEF Keeps, MakePlan, CheckBeforeLock, GiveUp, Critical, Engine
  <2> QED BY <2>1, <1>1
<1>4. ASSUME NEW o \in Ops, Acquire(o) PROVE HoldsItsLock'
  <2>1. /\ pc'[o] = "locked" /\ lock[KeyOf[o]] = NoOp
        /\ \A p \in Ops : p # o => pc'[p] = pc[p]
    BY <1>4, MovesPc DEF Acquire
  <2>2. lock'[KeyOf[o]] = o
    BY <1>4, OpsAssumption DEF Acquire, TypeOK, OpsAssumption
  <2>3. ASSUME NEW p \in Ops, p # o, pc'[p] \in Critical PROVE lock'[KeyOf[p]] = p
    <3>1. lock[KeyOf[p]] = p /\ KeyOf[p] # KeyOf[o]
      BY <2>1, <2>3, OpsAssumption DEF HoldsItsLock, OpsAssumption
    <3> QED BY <1>4, <3>1, OpsAssumption DEF Acquire, TypeOK, OpsAssumption
  <2> QED BY <2>2, <2>3 DEF HoldsItsLock
<1>5. ASSUME NEW o \in Ops, CheckUnderLock(o) \/ Stage(o) \/ Fetch(o) \/ Probe(o) \/ Harden(o)
      PROVE  HoldsItsLock'
  <2>1. Keeps(o)
    BY <1>5, MovesPc, EndsPc DEF Keeps, CheckUnderLock, Stage, Fetch, Probe, Harden, Critical, Engine
  <2> QED BY <2>1, <1>1
<1>6. ASSUME NEW o \in Ops, WriteReceipt(o) \/ CheckDestination(o) \/ Rename(o) \/ Recheck(o)
      PROVE  HoldsItsLock'
  <2>1. Keeps(o)
    BY <1>6, MovesPc, EndsPc DEF Keeps, WriteReceipt, CheckDestination, Rename, Recheck, Critical, Engine
  <2> QED BY <2>1, <1>1
<1>7. ASSUME NEW o \in Ops, UpdateIndex(o) \/ Cleanup(o) PROVE HoldsItsLock'
  <2>1. Keeps(o)
    BY <1>7, MovesPc, EndsPc DEF Keeps, UpdateIndex, Cleanup, Critical, Engine
  <2> QED BY <2>1, <1>1
<1>8. ASSUME NEW o \in Ops, Release(o) \/ Exit(o) PROVE HoldsItsLock'
  <2>1. /\ lock' \in {lock, Freed(o)} /\ pc'[o] \in {"returned", "exited"}
        /\ \A p \in Ops : p # o => pc'[p] = pc[p]
    BY <1>8, MovesPc DEF Release, Exit
  <2>2. pc'[o] \notin Critical
    BY <2>1 DEF Critical, Engine
  <2>3. CASE lock' = lock
    BY <2>1, <2>2, <2>3, <1>1 DEF Keeps
  <2> QED BY <2>1, <2>2, <2>3, <1>2
<1>9. ASSUME NEW o \in Ops, Crash(o) PROVE HoldsItsLock'
  <2>1. pc'[o] = "crashed" /\ \A p \in Ops : p # o => pc'[p] = pc[p]
    BY <1>9 DEF Crash, TypeOK
  <2> QED BY <1>9, <2>1, <1>2 DEF Crash, Critical, Engine
<1>10. ASSUME UNCHANGED <<pc, lock>> PROVE HoldsItsLock'
  BY <1>10 DEF HoldsItsLock
<1>11. ASSUME NEW o \in Ops, Step(o) PROVE HoldsItsLock'
  BY <1>11, <1>3, <1>4, <1>5, <1>6, <1>7, <1>8 DEF Step
<1> QED
  BY <1>9, <1>10, <1>11 DEF Next, Cancel, ChangeInputs, Intrude, vars

\* A step of one operation leaves what the others keep for themselves alone.
Own(p) == <<pc[p], outcome[p], content[p], staging[p], base[p]>>

\* A step of one operation leaves what is another's alone.
LEMMA StepLocal ==
  ASSUME TypeOK, NEW o \in Ops, Step(o) \/ Crash(o) \/ Cancel(o), NEW p \in Ops, p # o
  PROVE  Own(p)' = Own(p)
<1>1. CASE MakePlan(o) \/ CheckBeforeLock(o) \/ Acquire(o) \/ GiveUp(o) \/ CheckUnderLock(o)
  BY <1>1, MovesPc, EndsPc DEF Own, MakePlan, CheckBeforeLock, Acquire, GiveUp, CheckUnderLock
<1>2. CASE Stage(o)
  BY <1>2, MovesPc, EndsPc DEF Own, Stage, TypeOK
<1>3. CASE Fetch(o)
  BY <1>3, MovesPc, EndsPc DEF Own, Fetch, TypeOK
<1>4. CASE Probe(o)
  BY <1>4, MovesPc, EndsPc DEF Own, Probe, TypeOK
<1>5. CASE Harden(o)
  BY <1>5, MovesPc, EndsPc DEF Own, Harden, TypeOK
<1>6. CASE WriteReceipt(o)
  BY <1>6, MovesPc, EndsPc DEF Own, WriteReceipt, TypeOK
<1>7. CASE CheckDestination(o) \/ Recheck(o)
  BY <1>7, MovesPc, EndsPc DEF Own, CheckDestination, Recheck
<1>8. CASE Rename(o)
  BY <1>8, MovesPc DEF Own, Rename, TypeOK
<1>9. CASE UpdateIndex(o)
  BY <1>9, EndsPc DEF Own, UpdateIndex
<1>10. CASE Cleanup(o)
  BY <1>10, MovesPc DEF Own, Cleanup, TypeOK
<1>11. CASE Release(o) \/ Exit(o)
  BY <1>11, MovesPc DEF Own, Release, Exit
<1>12. CASE Crash(o) \/ Cancel(o)
  BY <1>12 DEF Own, Crash, Cancel, TypeOK
<1> QED
  BY <1>1, <1>2, <1>3, <1>4, <1>5, <1>6, <1>7, <1>8, <1>9, <1>10, <1>11, <1>12 DEF Step

\* What StagedSoFar says of one operation.
Staged(o) ==
  /\ pc[o] \in {"fetch", "probe", "harden", "receipt", "check", "rename", "recheck"}
       => staging[o].kind = "install"
  /\ pc[o] \in {"harden", "receipt", "check", "rename", "recheck", "index"}
       => content[o] \in ContentsOf[o]
  /\ pc[o] \in {"receipt", "check", "rename", "recheck"}
       => staging[o].payload = "hardened"
  /\ pc[o] \in {"check", "rename", "recheck"}
       => staging[o].receipt = content[o] /\ staging[o].by = o

\* The staging directory of an operation is as far as its place says.
LEMMA StagedStep == TypeOK /\ StagedSoFar /\ [Next]_vars => StagedSoFar'
<1> SUFFICES ASSUME TypeOK, StagedSoFar, [Next]_vars PROVE StagedSoFar'
  OBVIOUS
<1>0. \A o \in Ops : Staged(o) /\ staging[o] \in Dirs
  BY DEF StagedSoFar, Staged, TypeOK
<1>1. ASSUME NEW o \in Ops, Step(o) \/ Crash(o) \/ Cancel(o), Staged(o)' PROVE StagedSoFar'
  <2>1. ASSUME NEW p \in Ops PROVE Staged(p)'
    <3>1. CASE p # o
      BY <1>0, <1>1, <3>1, StepLocal DEF Staged, Own
    <3> QED BY <3>1, <1>1
  <2> QED BY <2>1 DEF StagedSoFar, Staged
<1>2. ASSUME NEW o \in Ops,
             MakePlan(o) \/ CheckBeforeLock(o) \/ Acquire(o) \/ GiveUp(o) \/ CheckUnderLock(o)
      PROVE  Staged(o)'
  BY <1>2, MovesPc, EndsPc DEF Staged, MakePlan, CheckBeforeLock, Acquire, GiveUp, CheckUnderLock
<1>3. ASSUME NEW o \in Ops, Stage(o) PROVE Staged(o)'
  <2>1. CASE pc'[o] = "cleanup"
    BY <2>1 DEF Staged
  <2>2. CASE pc'[o] = "fetch"
    <3>1. staging'[o] = [NoDir EXCEPT !.kind = "install", !.payload = "partial"]
      BY <1>3, <2>2, EndsPc DEF Stage, TypeOK
    <3> QED BY <2>2, <3>1 DEF Staged, NoDir
  <2> QED BY <1>3, <2>1, <2>2, MovesPc, EndsPc DEF Stage
<1>4. ASSUME NEW o \in Ops, Fetch(o) PROVE Staged(o)'
  <2>1. CASE pc'[o] = "cleanup"
    BY <2>1 DEF Staged
  <2>2. CASE pc'[o] = "probe"
    <3>1. staging'[o] = [staging[o] EXCEPT !.payload = "staged"] /\ pc[o] = "fetch"
      BY <1>4, <2>2, EndsPc, MovesPc DEF Fetch, TypeOK
    <3>2. staging'[o].kind = staging[o].kind
      BY <1>0, <3>1 DEF Dirs
    <3> QED BY <1>0, <2>2, <3>1, <3>2 DEF Staged
  <2> QED BY <1>4, <2>1, <2>2, MovesPc, EndsPc DEF Fetch
<1>5. ASSUME NEW o \in Ops, Probe(o) PROVE Staged(o)'
  <2>1. CASE pc'[o] = "cleanup"
    BY <2>1 DEF Staged
  <2>2. CASE pc'[o] = "harden"
    <3>1. content'[o] \in ContentsOf[o] /\ staging' = staging /\ pc[o] = "probe"
      BY <1>5, <2>2, EndsPc, MovesPc DEF Probe, TypeOK
    <3> QED BY <1>0, <2>2, <3>1 DEF Staged
  <2> QED BY <1>5, <2>1, <2>2, MovesPc, EndsPc DEF Probe
<1>6. ASSUME NEW o \in Ops, Harden(o) PROVE Staged(o)'
  <2>1. CASE pc'[o] = "cleanup"
    BY <2>1 DEF Staged
  <2>2. CASE pc'[o] = "receipt"
    <3>1. /\ staging'[o] = [staging[o] EXCEPT !.payload = "hardened"]
          /\ content' = content /\ pc[o] = "harden"
      BY <1>6, <2>2, EndsPc, MovesPc DEF Harden, TypeOK
    <3>2. staging'[o].kind = staging[o].kind /\ staging'[o].payload = "hardened"
      BY <1>0, <3>1 DEF Dirs
    <3> QED BY <1>0, <2>2, <3>1, <3>2 DEF Staged
  <2> QED BY <1>6, <2>1, <2>2, MovesPc, EndsPc DEF Harden
<1>7. ASSUME NEW o \in Ops, WriteReceipt(o) PROVE Staged(o)'
  <2>1. CASE pc'[o] = "cleanup"
    BY <2>1 DEF Staged
  <2>2. CASE pc'[o] = "check"
    <3>1. /\ staging'[o] = [staging[o] EXCEPT !.receipt = content[o], !.by = o]
          /\ content' = content /\ pc[o] = "receipt"
      BY <1>7, <2>2, EndsPc, MovesPc DEF WriteReceipt, TypeOK
    <3>2. /\ staging'[o].kind = staging[o].kind /\ staging'[o].payload = staging[o].payload
          /\ staging'[o].receipt = content[o] /\ staging'[o].by = o
      BY <1>0, <3>1 DEF Dirs
    <3> QED BY <1>0, <2>2, <3>1, <3>2 DEF Staged
  <2> QED BY <1>7, <2>1, <2>2, MovesPc, EndsPc DEF WriteReceipt
<1>8. ASSUME NEW o \in Ops, CheckDestination(o) \/ Recheck(o) PROVE Staged(o)'
  <2>1. /\ pc'[o] = "cleanup" \/ (pc[o] = "check" /\ pc'[o] = "rename")
        /\ UNCHANGED <<content, staging>>
    BY <1>8, MovesPc, EndsPc DEF CheckDestination, Recheck
  <2> QED BY <1>0, <2>1 DEF Staged
<1>9. ASSUME NEW o \in Ops, Rename(o) PROVE Staged(o)'
  <2>1. /\ pc'[o] = "index" \/ (pc'[o] = "recheck" /\ UNCHANGED staging)
        /\ pc[o] = "rename" /\ UNCHANGED content
    BY <1>9, MovesPc DEF Rename
  <2> QED BY <1>0, <2>1 DEF Staged
<1>10. ASSUME NEW o \in Ops, UpdateIndex(o) \/ Cleanup(o) \/ Release(o) \/ Exit(o) \/ Crash(o)
       PROVE  Staged(o)'
  <2>1. pc'[o] \in {"cleanup", "release", "returned", "exited", "crashed"}
    BY <1>10, MovesPc, EndsPc DEF UpdateIndex, Cleanup, Release, Exit, Crash, TypeOK
  <2> QED BY <2>1 DEF Staged
<1>11. ASSUME UNCHANGED <<pc, content, staging>> PROVE StagedSoFar'
  BY <1>11 DEF StagedSoFar
<1>12. ASSUME NEW o \in Ops, Step(o) PROVE Staged(o)'
  BY <1>12, <1>2, <1>3, <1>4, <1>5, <1>6, <1>7, <1>8, <1>9, <1>10 DEF Step
<1> QED
  BY <1>1, <1>10, <1>11, <1>12 DEF Next, Cancel, ChangeInputs, Intrude, vars

-----------------------------------------------------------------------------
(* What a step does to the disk, the labels, the outcomes and the receipts *)

\* The disk below installs/ changes only where nothing is: by a rename or by the user.
LEMMA DestStep ==
  ASSUME TypeOK, [Next]_vars, NEW k \in Keys, dest'[k] # dest[k]
  PROVE  /\ Replaceable(dest[k])
         /\ \/ \E o \in Ops : /\ Rename(o) /\ k = KeyOf[o] /\ dest'[k] = staging[o]
                              /\ pc[o] = "rename" /\ pc'[o] = "index"
            \/ /\ dest'[k].by = NoOp /\ UNCHANGED <<pc, outcome, content, base, index>>
               /\ Readable(dest'[k]) => dest'[k].kind = "install"
<1>1. ASSUME NEW o \in Ops, Step(o) \/ Crash(o) \/ Cancel(o), ~Rename(o) PROVE dest' = dest
  BY <1>1 DEF Step, MakePlan, CheckBeforeLock, Acquire, GiveUp, CheckUnderLock, Stage, Fetch,
     Probe, Harden, WriteReceipt, CheckDestination, Recheck, UpdateIndex, Cleanup, Release,
     Exit, Crash, Cancel
<1>2. ASSUME NEW o \in Ops, Rename(o)
      PROVE  /\ Replaceable(dest[k]) /\ k = KeyOf[o] /\ dest'[k] = staging[o]
             /\ pc[o] = "rename" /\ pc'[o] = "index"
  <2>1. dest' # dest
    OBVIOUS
  <2>2. /\ Replaceable(dest[KeyOf[o]]) /\ Moves(o, "rename", "index")
        /\ dest' = [dest EXCEPT ![KeyOf[o]] = staging[o]]
    BY <1>2, <2>1 DEF Rename
  <2>3. k = KeyOf[o] /\ dest'[k] = staging[o]
    BY <2>2 DEF TypeOK
  <2> QED BY <2>2, <2>3, MovesPc
<1>3. ASSUME NEW i \in Keys, Intrude(i)
      PROVE  /\ Replaceable(dest[k])
             /\ dest'[k].by = NoOp /\ UNCHANGED <<pc, outcome, content, base, index>>
             /\ Readable(dest'[k]) => dest'[k].kind = "install"
  <2>1. i = k
    BY <1>3 DEF Intrude, TypeOK
  <2>2. \/ \E kind \in {"empty", "foreign"} : dest'[k] = [NoDir EXCEPT !.kind = kind]
        \/ \E c \in Contents : dest'[k] = [kind |-> "install", payload |-> "hardened",
                                           receipt |-> c, by |-> NoOp]
    BY <1>3, <2>1 DEF Intrude, TypeOK
  <2>3. dest'[k].by = NoOp /\ (Readable(dest'[k]) => dest'[k].kind = "install")
    <3>1. ASSUME NEW kind PROVE /\ [NoDir EXCEPT !.kind = kind].by = NoOp
                                /\ [NoDir EXCEPT !.kind = kind].receipt = NoContent
      BY DEF NoDir
    <3>2. CASE \E kind \in {"empty", "foreign"} : dest'[k] = [NoDir EXCEPT !.kind = kind]
      <4>1. PICK kind \in {"empty", "foreign"} : dest'[k] = [NoDir EXCEPT !.kind = kind]
        BY <3>2
      <4>2. dest'[k].by = NoOp /\ dest'[k].receipt = NoContent
        BY <3>1, <4>1
      <4> QED BY <4>2 DEF Readable
    <3>3. CASE \E c \in Contents : dest'[k] = [kind |-> "install", payload |-> "hardened",
                                               receipt |-> c, by |-> NoOp]
      BY <3>3
    <3> QED BY <2>2, <3>2, <3>3
  <2> QED BY <1>3, <2>1, <2>3 DEF Intrude, Replaceable
<1>4. dest' # dest
  OBVIOUS
<1> QED
  BY <1>1, <1>2, <1>3, <1>4 DEF Next, ChangeInputs, vars

\* What is published stays as it is.
LEMMA PublishedStays ==
  ASSUME TypeOK, PublishedIsComplete, ReceiptOfInstall, [Next]_vars, NEW k \in Keys,
         dest[k].by # NoOp \/ Readable(dest[k])
  PROVE  dest'[k] = dest[k]
BY DestStep DEF PublishedIsComplete, ReceiptOfInstall, Replaceable

\* An operation that is decided stays so, and only Rename leads to the index update.
LEMMA LabelStep ==
  ASSUME TypeOK, NEW o \in Ops, Step(o) \/ Crash(o) \/ Cancel(o)
  PROVE  /\ pc[o] \in Finishing => pc'[o] \in Finishing
         /\ pc[o] = "index" => pc'[o] \in Finishing \cup {"index"}
         /\ pc[o] # "index" /\ pc'[o] = "index" => Rename(o)
         /\ pc[o] \in Finishing \cup {"index"} => content'[o] = content[o]
<1>1. CASE MakePlan(o) \/ CheckBeforeLock(o) \/ Acquire(o) \/ GiveUp(o) \/ CheckUnderLock(o)
  BY <1>1, MovesPc, EndsPc DEF MakePlan, CheckBeforeLock, Acquire, GiveUp, CheckUnderLock,
     Finishing
<1>2. CASE Stage(o) \/ Fetch(o) \/ Probe(o) \/ Harden(o)
  BY <1>2, MovesPc, EndsPc DEF Stage, Fetch, Probe, Harden, Finishing
<1>3. CASE WriteReceipt(o) \/ CheckDestination(o) \/ Recheck(o)
  BY <1>3, MovesPc, EndsPc DEF WriteReceipt, CheckDestination, Recheck, Finishing
<1>4. CASE Rename(o)
  BY <1>4, MovesPc DEF Rename, Finishing
<1>5. CASE UpdateIndex(o) \/ Cleanup(o) \/ Release(o) \/ Exit(o)
  BY <1>5, MovesPc, EndsPc DEF UpdateIndex, Cleanup, Release, Exit, Finishing
<1>6. CASE Crash(o)
  BY <1>6 DEF Crash, TypeOK, Finishing
<1>7. CASE Cancel(o)
  BY <1>7 DEF Cancel
<1> QED
  BY <1>1, <1>2, <1>3, <1>4, <1>5, <1>6, <1>7 DEF Step

\* An outcome is settled by a step that touches neither disk nor receipt.
LEMMA OutcomeStep ==
  ASSUME TypeOK, NEW o \in Ops, Step(o) \/ Crash(o) \/ Cancel(o), outcome'[o] # outcome[o]
  PROVE  /\ pc[o] \notin Finishing /\ pc'[o] \in Finishing
         /\ dest' = dest /\ content' = content
         /\ \/ /\ outcome'[o] \in Errors /\ index' = index
               /\ pc[o] = "index" => outcome'[o] \in Unindexed(o)
            \/ /\ outcome'[o] = "already_installed" /\ pc[o] \in {"check", "recheck"} /\ index' = index
               /\ Readable(dest[KeyOf[o]]) /\ SameInstall(o, dest[KeyOf[o]])
            \/ outcome'[o] = "installed" /\ pc[o] = "index"
<1>1. CASE CheckBeforeLock(o) \/ GiveUp(o) \/ CheckUnderLock(o)
  BY <1>1, MovesPc, EndsPc DEF CheckBeforeLock, GiveUp, CheckUnderLock, Finishing, Errors
<1>2. CASE Stage(o) \/ Fetch(o) \/ Probe(o) \/ Harden(o) \/ WriteReceipt(o)
  BY <1>2, MovesPc, EndsPc DEF Stage, Fetch, Probe, Harden, WriteReceipt, Finishing, Errors
<1>3. CASE CheckDestination(o) \/ Recheck(o)
  BY <1>3, MovesPc, EndsPc DEF CheckDestination, Recheck, Finishing, Errors
<1>4. CASE UpdateIndex(o)
  BY <1>4, EndsPc DEF UpdateIndex, Finishing, Errors, Unindexed
<1> QED
  BY <1>1, <1>2, <1>3, <1>4 DEF Step, MakePlan, Acquire, Rename, Cleanup, Release, Exit,
     Crash, Cancel

-----------------------------------------------------------------------------
(* The other conjuncts of the invariant *)

\* An absent directory is nobody's and has no receipt.
LEMMA EmptyDir == NoDir.by = NoOp /\ ~Readable(NoDir)
BY DEF NoDir, Readable

\* Nothing is installed, locked or decided at first.
LEMMA InitInv == Init => IInv
<1> SUFFICES ASSUME Init PROVE IInv
  OBVIOUS
<1>1. TypeOK
  BY InitType
<1>2. HoldsItsLock /\ StagedSoFar
  BY DEF Init, HoldsItsLock, StagedSoFar, Critical, Engine
<1>3. \A k \in Keys : dest[k] = NoDir
  BY DEF Init
<1>4. OutcomeFollows /\ ReceiptOfInstall /\ PublishedIsComplete /\ SuccessIsOnDisk
  BY <1>3, EmptyDir, OpsAssumption DEF Init, OutcomeFollows, ReceiptOfInstall,
     PublishedIsComplete, SuccessIsOnDisk, OpsAssumption, Successes
<1>5. IndexNamesPublished /\ CopiesNamePublished
  BY DEF Init, IndexNamesPublished, CopiesNamePublished
<1> QED BY <1>1, <1>2, <1>4, <1>5 DEF IInv

\* Which process a step is a step of.
LEMMA WhoMoves ==
  ASSUME TypeOK, [Next]_vars
  PROVE  \/ \E o \in Ops : Step(o) \/ Crash(o) \/ Cancel(o)
         \/ UNCHANGED <<pc, outcome, content, base, staging, index>>
BY DEF Next, ChangeInputs, Intrude, vars

\* The receipt content of an operation that has published or ended is settled,
\* and such an operation stays there.
LEMMA LabelStays ==
  ASSUME TypeOK, [Next]_vars, NEW o \in Ops
  PROVE  /\ pc[o] \in Finishing => pc'[o] \in Finishing
         /\ pc[o] = "index" => pc'[o] \in Finishing \cup {"index"}
         /\ pc[o] \in Finishing \cup {"index"} => content'[o] = content[o]
BY WhoMoves, LabelStep, StepLocal DEF Own

\* An outcome changes only by a step of its operation.
LEMMA OutcomeStays ==
  ASSUME TypeOK, [Next]_vars, NEW o \in Ops, outcome'[o] # outcome[o]
  PROVE  Step(o) \/ Crash(o) \/ Cancel(o)
BY WhoMoves, StepLocal DEF Own

\* The index update is reached by Rename only, in the whole system.
LEMMA EntersIndex ==
  ASSUME TypeOK, [Next]_vars, NEW o \in Ops, pc[o] # "index", pc'[o] = "index"
  PROVE  Rename(o)
BY WhoMoves, LabelStep, StepLocal DEF Own

\* An outcome comes after the engine has ended and agrees with who published.
LEMMA OutcomeFollowsStep == IInv /\ [Next]_vars => OutcomeFollows'
<1> SUFFICES ASSUME IInv, [Next]_vars, NEW o \in Ops
             PROVE  /\ outcome'[o] # "none" => pc'[o] \in Finishing
                    /\ pc'[o] = "index" => dest'[KeyOf[o]].by = o
                    /\ \A k \in Keys : dest'[k].by = o =>
                         /\ pc'[o] \in Finishing \cup {"index"}
                         /\ outcome'[o] \in {"none", "installed"} \cup Unindexed(o)
  BY DEF OutcomeFollows
<1> USE DEF IInv
<1>1. outcome'[o] # "none" => pc'[o] \in Finishing
  BY LabelStays, OutcomeStays, OutcomeStep DEF OutcomeFollows
<1>2. pc'[o] = "index" => dest'[KeyOf[o]].by = o
  <2>1. KeyOf[o] \in Keys /\ o # NoOp
    BY OpsAssumption DEF OpsAssumption
  <2>2. CASE pc[o] = "index"
    BY <2>1, <2>2, PublishedStays DEF OutcomeFollows
  <2>3. CASE pc[o] # "index" /\ pc'[o] = "index"
    <3>1. Rename(o)
      BY <2>3, EntersIndex
    <3>2. pc[o] = "rename" /\ dest' = [dest EXCEPT ![KeyOf[o]] = staging[o]]
      BY <2>3, <3>1, MovesPc DEF Rename
    <3>3. dest'[KeyOf[o]] = staging[o]
      BY <2>1, <3>2 DEF TypeOK
    <3> QED BY <3>2, <3>3 DEF StagedSoFar
  <2> QED BY <2>2, <2>3
<1>3. ASSUME NEW k \in Keys, dest'[k].by = o
      PROVE  /\ pc'[o] \in Finishing \cup {"index"}
             /\ outcome'[o] \in {"none", "installed"} \cup Unindexed(o)
  <2>1. CASE dest'[k] = dest[k]
    <3>1. /\ pc[o] \in Finishing \cup {"index"} /\ outcome[o] \in {"none", "installed"} \cup Unindexed(o)
          /\ pc'[o] \in Finishing \cup {"index"}
      BY <2>1, <1>3, LabelStays DEF OutcomeFollows
    <3>2. CASE outcome'[o] # outcome[o]
      BY <3>1, <3>2, OutcomeStays, OutcomeStep DEF Finishing
    <3> QED BY <3>1, <3>2
  <2>2. CASE dest'[k] # dest[k]
    <3>1. o # NoOp
      BY OpsAssumption DEF OpsAssumption
    <3>2. PICK p \in Ops : /\ Rename(p) /\ dest'[k] = staging[p]
                           /\ pc[p] = "rename" /\ pc'[p] = "index"
      BY <1>3, <2>2, <3>1, DestStep
    <3>3. p = o
      BY <1>3, <3>2 DEF StagedSoFar
    <3>4. outcome' = outcome
      BY <3>2 DEF Rename
    <3>5. outcome[o] = "none"
      BY <3>2, <3>3 DEF OutcomeFollows, Finishing
    <3> QED BY <3>2, <3>3, <3>4, <3>5
  <2> QED BY <2>1, <2>2
<1> QED BY <1>1, <1>2, <1>3

\* What stands below installs/ with an author is that author's hardened payload and receipt.
LEMMA DiskStep == IInv /\ [Next]_vars => ReceiptOfInstall' /\ PublishedIsComplete'
<1> SUFFICES ASSUME IInv, [Next]_vars PROVE ReceiptOfInstall' /\ PublishedIsComplete'
  OBVIOUS
<1> USE DEF IInv
<1>1. ASSUME NEW k \in Keys, Readable(dest'[k]) PROVE dest'[k].kind = "install"
  <2>1. CASE dest'[k] = dest[k]
    BY <1>1, <2>1 DEF ReceiptOfInstall
  <2>2. CASE dest'[k] # dest[k]
    BY <1>1, <2>2, DestStep DEF StagedSoFar
  <2> QED BY <2>1, <2>2
<1>2. ASSUME NEW k \in Keys, NEW o, o = dest'[k].by, o # NoOp
      PROVE  /\ KeyOf[o] = k /\ dest'[k].kind = "install" /\ dest'[k].payload = "hardened"
             /\ dest'[k].receipt = content'[o] /\ content'[o] \in ContentsOf[o]
  <2>1. CASE dest'[k] = dest[k]
    <3>1. o \in Ops
      BY <1>2, <2>1 DEF TypeOK, Dirs
    <3>2. content'[o] = content[o]
      BY <1>2, <2>1, <3>1, LabelStays DEF OutcomeFollows
    <3> QED BY <1>2, <2>1, <3>2 DEF PublishedIsComplete
  <2>2. CASE dest'[k] # dest[k]
    <3>1. PICK p \in Ops : /\ Rename(p) /\ k = KeyOf[p] /\ dest'[k] = staging[p]
                           /\ pc[p] = "rename" /\ pc'[p] = "index"
      BY <1>2, <2>2, DestStep
    <3>2. p = o /\ content' = content
      BY <1>2, <3>1 DEF StagedSoFar, Rename
    <3> QED BY <3>1, <3>2 DEF StagedSoFar
  <2> QED BY <2>1, <2>2
<1> QED BY <1>1, <1>2 DEF ReceiptOfInstall, PublishedIsComplete

\* An operation that answered success keeps its receipt on the disk.
LEMMA SuccessStep == IInv /\ [Next]_vars => SuccessIsOnDisk'
<1> SUFFICES ASSUME IInv, [Next]_vars, NEW o \in Ops, outcome'[o] \in Successes
             PROVE  dest'[KeyOf[o]].kind = "install" /\ dest'[KeyOf[o]].receipt = content'[o]
  BY DEF SuccessIsOnDisk
<1> USE DEF IInv
<1>1. KeyOf[o] \in Keys /\ o # NoOp
  BY OpsAssumption DEF OpsAssumption
<1>2. CASE outcome'[o] = outcome[o]
  <2>1. content'[o] = content[o]
    BY <1>2, LabelStays DEF OutcomeFollows, Successes
  <2>2. dest'[KeyOf[o]] = dest[KeyOf[o]]
    BY <1>1, <1>2, DestStep DEF SuccessIsOnDisk, Replaceable
  <2> QED BY <1>2, <2>1, <2>2 DEF SuccessIsOnDisk
<1>3. CASE outcome'[o] # outcome[o]
  <2>1. dest' = dest /\ content' = content
    BY <1>3, OutcomeStays, OutcomeStep
  <2>2. CASE outcome'[o] = "already_installed"
    <3>1. Readable(dest[KeyOf[o]]) /\ SameInstall(o, dest[KeyOf[o]])
      BY <1>3, <2>2, OutcomeStays, OutcomeStep DEF Errors
    <3> QED BY <1>1, <2>1, <3>1 DEF ReceiptOfInstall, SameInstall
  <2>3. CASE outcome'[o] = "installed"
    <3>1. pc[o] = "index"
      BY <1>3, <2>3, OutcomeStays, OutcomeStep DEF Errors
    <3>2. dest[KeyOf[o]].by = o
      BY <3>1 DEF OutcomeFollows
    <3> QED BY <1>1, <2>1, <3>2 DEF PublishedIsComplete
  <2> QED BY <2>2, <2>3 DEF Successes
<1> QED BY <1>2, <1>3

\* Index and captured copies name only what was published by the operation named.
LEMMA IndexStep == IInv /\ [Next]_vars => IndexNamesPublished' /\ CopiesNamePublished'
<1> SUFFICES ASSUME IInv, [Next]_vars PROVE IndexNamesPublished' /\ CopiesNamePublished'
  OBVIOUS
<1> USE DEF IInv
<1> DEFINE Names(i) == \A k \in Keys : i.entries[k] # NoOp => dest[k].by = i.entries[k]
<1>1. Names(index) /\ \A o \in Ops : Names(base[o])
  BY DEF IndexNamesPublished, CopiesNamePublished
<1>2. ASSUME NEW i, Names(i) PROVE \A k \in Keys : i.entries[k] # NoOp => dest'[k].by = i.entries[k]
  BY <1>2, PublishedStays
<1>3. ASSUME NEW o \in Ops, UpdateIndex(o), index' = Upserted(o) PROVE Names(index')
  <2>1. pc[o] = "index" /\ KeyOf[o] \in Keys /\ base[o] \in Indexes
    BY <1>3, EndsPc, OpsAssumption DEF UpdateIndex, OpsAssumption, TypeOK
  <2>2. index'.entries = [base[o].entries EXCEPT ![KeyOf[o]] = o]
    BY <1>3 DEF Upserted
  <2>3. dest[KeyOf[o]].by = o
    BY <2>1 DEF OutcomeFollows
  <2> QED BY <1>1, <2>1, <2>2, <2>3 DEF Indexes
<1>4. index' = index \/ \E o \in Ops : UpdateIndex(o) /\ index' = Upserted(o)
  BY DEF Next, Step, MakePlan, CheckBeforeLock, Acquire, GiveUp, CheckUnderLock, Stage, Fetch,
     Probe, Harden, WriteReceipt, CheckDestination, Rename, Recheck, UpdateIndex, Cleanup,
     Release, Exit, Crash, Cancel, ChangeInputs, Intrude, vars
<1>5. ASSUME NEW o \in Ops PROVE base'[o] \in {base[o], index}
  BY <1>5 DEF Next, Step, MakePlan, CheckBeforeLock, Acquire, GiveUp, CheckUnderLock, Stage, Fetch,
     Probe, Harden, WriteReceipt, CheckDestination, Rename, Recheck, UpdateIndex, Cleanup,
     Release, Exit, Crash, Cancel, ChangeInputs, Intrude, vars, TypeOK
<1>6. Names(index') /\ \A o \in Ops : Names(base'[o])
  BY <1>1, <1>3, <1>4, <1>5
<1> HIDE DEF Names
<1>7. IndexNamesPublished'
  <2>1. \A k \in Keys : index'.entries[k] # NoOp => dest'[k].by = index'.entries[k]
    BY <1>2, <1>6
  <2> QED BY <2>1 DEF IndexNamesPublished
<1>8. CopiesNamePublished'
  <2>1. \A o \in Ops : \A k \in Keys : base'[o].entries[k] # NoOp => dest'[k].by = base'[o].entries[k]
    BY <1>2, <1>6
  <2> QED BY <2>1 DEF CopiesNamePublished
<1> QED BY <1>7, <1>8

\* Every step keeps every conjunct of the invariant.
LEMMA StepInv == IInv /\ [Next]_vars => IInv'
BY StepType, LockStep, StagedStep, OutcomeFollowsStep, DiskStep, SuccessStep, IndexStep DEF IInv

\* The inductive invariant holds in every reachable state.
THEOREM Invariant == Spec => []IInv
BY InitInv, StepInv, PTL DEF Spec

-----------------------------------------------------------------------------
(* What follows *)

\* However many operations compete, crash or fail to release, two on one
\* InstallKey are never both between lock acquisition and release.
THEOREM Exclusion == Spec => []OneInstallerPerKey
<1>1. IInv => OneInstallerPerKey
  BY OpsAssumption DEF IInv, HoldsItsLock, OneInstallerPerKey, OpsAssumption
<1> QED BY <1>1, Invariant, PTL

\* No version directory an operation published is ever partial, unhardened or
\* without the receipt of that very run.
THEOREM PublishedComplete == Spec => []PublishedIsComplete
<1>1. IInv => PublishedIsComplete
  BY DEF IInv
<1> QED BY <1>1, Invariant, PTL

\* A reported success always has an identical install on disk.
THEOREM SuccessOnDisk == Spec => []SuccessIsOnDisk
<1>1. IInv => SuccessIsOnDisk
  BY DEF IInv
<1> QED BY <1>1, Invariant, PTL

\* With index entries that can be encoded a reported error never leaves a version
\* directory or an index entry behind.
THEOREM FailureClean == ASSUME AllEncodable PROVE Spec => []FailureLeavesNothing
<1>1. ASSUME IInv, NEW o \in Ops, outcome[o] \in Errors PROVE \A k \in Keys : dest[k].by # o
  BY <1>1, AllEncodable DEF AllEncodable, Unindexed, IInv, OutcomeFollows, Errors
<1>2. ASSUME IInv, NEW o \in Ops, outcome[o] \in Errors
      PROVE  \A k \in Keys : index.entries[k] # o
  BY <1>1, <1>2, OpsAssumption DEF IInv, IndexNamesPublished, OpsAssumption
<1>3. IInv => FailureLeavesNothing
  BY <1>1, <1>2 DEF FailureLeavesNothing
<1> QED BY <1>3, Invariant, PTL

\* The receipt index, and every copy an engine holds, names only installs that
\* are on disk.
THEOREM IndexTrue == Spec => []IndexNamesPublished
<1>1. IInv => IndexNamesPublished
  BY DEF IInv
<1> QED BY <1>1, Invariant, PTL

\* No step replaces or changes a version directory that is not empty.
THEOREM DestinationFinal == Spec => DestinationIsFinal
<1>1. IInv /\ [Next]_vars => [\A k \in Keys : ~Replaceable(dest[k]) => dest'[k] = dest[k]]_dest
  BY DestStep DEF IInv
<1> QED BY <1>1, Invariant, PTL DEF Spec, DestinationIsFinal

-----------------------------------------------------------------------------
(* The receipt index, when all operations are about one InstallKey *)

\* No two InstallKeys: there the copies of the index do lose entries.
OneInstallKey == \A o, p \in Ops : KeyOf[o] = KeyOf[p]

\* What an operation installed is still there.
InstalledIsOwn == \A o \in Ops : outcome[o] = "installed" => dest[KeyOf[o]].by = o

\* An operation that ends "installed" is at its index update, which wrote its
\* entry or warned.
LEMMA InstalledStep ==
  ASSUME TypeOK, [Next]_vars, NEW o \in Ops, outcome'[o] = "installed", outcome[o] # "installed"
  PROVE  /\ pc[o] = "index" /\ dest' = dest
         /\ index' = Upserted(o) \/ "index" \in warned'[o]
<1>1. Step(o) \/ Crash(o) \/ Cancel(o)
  BY OutcomeStays
<1>2. pc[o] = "index" /\ dest' = dest
  BY <1>1, OutcomeStep DEF Errors
<1>3. UpdateIndex(o)
  BY <1>1, <1>2, MovesPc, EndsPc DEF Step, MakePlan, CheckBeforeLock, Acquire, GiveUp, CheckUnderLock, Stage,
     Fetch, Probe, Harden, WriteReceipt, CheckDestination, Rename, Recheck, Cleanup, Release, Exit, Crash, Cancel
<1>4. index' = Upserted(o) \/ "index" \in warned'[o]
  BY <1>3, EndsPc DEF UpdateIndex, TypeOK
<1> QED BY <1>2, <1>4

\* Warnings are never taken back.
LEMMA WarnedGrows ==
  ASSUME TypeOK, [Next]_vars, NEW o \in Ops
  PROVE  warned[o] \subseteq warned'[o]
<1>1. \/ warned' = warned
      \/ \E p \in Ops : \E w : warned[p] \subseteq w /\ warned' = [warned EXCEPT ![p] = w]
  <2>1. ASSUME NEW p \in Ops, UpdateIndex(p), warned' # warned
        PROVE  warned' = [warned EXCEPT ![p] = warned[p] \cup {"index"}]
    BY <2>1 DEF UpdateIndex
  <2>2. ASSUME NEW p \in Ops, Cleanup(p), warned' # warned
        PROVE  \/ warned' = [warned EXCEPT ![p] = warned[p] \cup {"cleanup"}]
               \/ warned' = [warned EXCEPT ![p] = warned[p]]
    BY <2>2 DEF Cleanup
  <2>3. \/ warned' = warned
        \/ \E p \in Ops : UpdateIndex(p) \/ Cleanup(p)
    BY DEF Next, Step, MakePlan, CheckBeforeLock, Acquire, GiveUp, CheckUnderLock, Stage, Fetch,
       Probe, Harden, WriteReceipt, CheckDestination, Rename, Recheck, Release, Exit, Crash, Cancel,
       ChangeInputs, Intrude, vars
  <2> QED BY <2>1, <2>2, <2>3
<1> QED BY <1>1 DEF TypeOK

\* The index changes by an index update only.
LEMMA IndexChanges ==
  ASSUME TypeOK, [Next]_vars, index' # index
  PROVE  \E p \in Ops : pc[p] = "index"
<1>1. \E p \in Ops : UpdateIndex(p)
  BY DEF Next, Step, MakePlan, CheckBeforeLock, Acquire, GiveUp, CheckUnderLock, Stage, Fetch,
     Probe, Harden, WriteReceipt, CheckDestination, Rename, Recheck, Cleanup, Release, Exit,
     Crash, Cancel, ChangeInputs, Intrude, vars
<1> QED BY <1>1, EndsPc DEF UpdateIndex

\* While one operation's install is in place no other of the same key gets as far
\* as the index.
LEMMA IndexedStep ==
  ASSUME OneInstallKey
  PROVE  IInv /\ InstalledIsOwn /\ SuccessIsIndexed /\ [Next]_vars => InstalledIsOwn' /\ SuccessIsIndexed'
<1> SUFFICES ASSUME IInv, InstalledIsOwn, SuccessIsIndexed, [Next]_vars,
                    NEW o \in Ops, outcome'[o] = "installed"
             PROVE  /\ dest'[KeyOf[o]].by = o
                    /\ "index" \notin warned'[o] => index'.entries[KeyOf[o]] = o
  BY DEF InstalledIsOwn, SuccessIsIndexed
<1> USE DEF IInv
<1>1. KeyOf[o] \in Keys /\ o # NoOp
  BY OpsAssumption DEF OpsAssumption
<1>2. CASE outcome[o] = "installed"
  <2>1. dest[KeyOf[o]].by = o
    BY <1>2 DEF InstalledIsOwn
  <2>2. dest'[KeyOf[o]] = dest[KeyOf[o]]
    BY <1>1, <2>1, PublishedStays
  <2>3. index' = index
    <3> SUFFICES ASSUME NEW p \in Ops, pc[p] = "index" PROVE FALSE
      BY IndexChanges
    <3>1. dest[KeyOf[p]].by = p /\ KeyOf[p] = KeyOf[o]
      BY OneInstallKey DEF OneInstallKey, OutcomeFollows
    <3>2. p = o
      BY <2>1, <3>1
    <3> QED BY <1>2, <3>2 DEF OutcomeFollows, Finishing
  <2>4. "index" \notin warned'[o] => "index" \notin warned[o]
    BY WarnedGrows
  <2> QED BY <1>2, <2>1, <2>2, <2>3, <2>4 DEF SuccessIsIndexed
<1>3. CASE outcome[o] # "installed"
  <2>1. /\ pc[o] = "index" /\ dest' = dest
        /\ index' = Upserted(o) \/ "index" \in warned'[o]
    BY <1>3, InstalledStep
  <2>2. Upserted(o).entries[KeyOf[o]] = o
    <3>1. base[o].entries \in [Keys -> Ops \cup {NoOp}]
      BY DEF TypeOK, Indexes
    <3> QED BY <1>1, <3>1 DEF Upserted
  <2> QED BY <2>1, <2>2 DEF OutcomeFollows
<1> QED BY <1>2, <1>3

\* As long as all operations are about one InstallKey, one that succeeded without
\* the stale index warning is in the receipt index, for good; with two keys it is
\* not so, as install_lost_index shows.
THEOREM SuccessIndexed == ASSUME OneInstallKey PROVE Spec => []SuccessIsIndexed
<1>1. Init => InstalledIsOwn /\ SuccessIsIndexed
  BY DEF Init, InstalledIsOwn, SuccessIsIndexed
<1> QED BY <1>1, Invariant, IndexedStep, PTL DEF Spec

-----------------------------------------------------------------------------
(* Refinement: the transaction implements the write-once store *)

\* How the codes of the program map to the answers of the store.
LEMMA AnswerValues ==
  ASSUME TypeOK, NEW o \in Ops
  PROVE  /\ outcome[o] = "none" => Answer(o) = "none"
         /\ outcome[o] \in Successes => Answer(o) = "success"
         /\ outcome[o] \in Errors => Answer(o) = "error"
BY DEF Answer, TypeOK, Successes, Errors

\* How a directory on the disk maps to a slot of the store.
LEMMA PublishedValues ==
  ASSUME NEW d
  PROVE  /\ Published(d).content = d.receipt /\ Published(d).by = d.by
         /\ d.kind \in {"absent", "empty"} => Published(d).kind = "nothing"
         /\ d.kind = "foreign" => Published(d).kind = "foreign"
         /\ d.kind = "install" => Published(d).kind = "install"
         /\ Published(d) = [kind |-> Published(d).kind, content |-> d.receipt, by |-> d.by]
BY DEF Published, Replaceable

\* Where Rename may go, the store has nothing.
LEMMA NothingThere ==
  ASSUME IInv, NEW k \in Keys, Replaceable(dest[k])
  PROVE  Published(dest[k]) = [kind |-> "nothing", content |-> NoContent, by |-> NoOp]
<1>1. dest[k].by = NoOp /\ dest[k].receipt = NoContent
  BY DEF IInv, PublishedIsComplete, ReceiptOfInstall, Readable, Replaceable
<1> QED BY <1>1, PublishedValues DEF Replaceable

\* The first state is a first state of the store.
LEMMA StoreInit == Init => Store!Init
<1> SUFFICES ASSUME Init PROVE Store!Init
  OBVIOUS
<1>1. \A o \in Ops : Answer(o) = "none"
  <2>1. \A o \in Ops : outcome[o] = "none"
    BY DEF Init
  <2> QED BY <2>1, InitType, AnswerValues
<1>2. \A k \in Keys : dest[k].kind = "absent"
  BY DEF Init, NoDir
<1>3. \A k \in Keys : Published(dest[k]) = Store!Nothing
  BY <1>2, InitInv, NothingThere DEF Replaceable, Store!Nothing
<1> QED BY <1>1, <1>3 DEF Store!Init

\* A step that settles no outcome and changes no version directory is a stutter.
LEMMA Stutters ==
  ASSUME UNCHANGED <<dest, outcome>>
  PROVE  UNCHANGED Store!vars
BY DEF Store!vars, Published, Answer, Replaceable

\* A rename that changes the disk publishes in the store.
LEMMA RenamePublishes ==
  ASSUME IInv, NEW o \in Ops, Rename(o), dest' # dest
  PROVE  Store!Publish(o)
<1> USE DEF IInv
<1>1. /\ Replaceable(dest[KeyOf[o]]) /\ pc[o] = "rename" /\ outcome' = outcome
      /\ dest' = [dest EXCEPT ![KeyOf[o]] = staging[o]]
  BY MovesPc DEF Rename
<1>2. KeyOf[o] \in Keys
  BY OpsAssumption DEF OpsAssumption
<1>3. Answer(o) = "none" /\ \A p \in Ops : Answer(p)' = Answer(p)
  BY <1>1, AnswerValues DEF OutcomeFollows, Finishing, Answer
<1>4. Published(dest[KeyOf[o]]).kind = "nothing"
  BY <1>1, PublishedValues DEF Replaceable
<1>5. /\ content[o] \in ContentsOf[o]
      /\ Published(staging[o]) = [kind |-> "install", content |-> content[o], by |-> o]
  <2>1. /\ content[o] \in ContentsOf[o] /\ staging[o].kind = "install"
        /\ staging[o].receipt = content[o] /\ staging[o].by = o
    BY <1>1 DEF StagedSoFar
  <2> HIDE DEF IInv
  <2>2. Published(staging[o]).kind = "install"
    BY <2>1, PublishedValues
  <2>3. Published(staging[o])
          = [kind |-> Published(staging[o]).kind, content |-> staging[o].receipt,
             by |-> staging[o].by]
    BY PublishedValues
  <2> QED BY <2>1, <2>2, <2>3
<1>6. [k \in Keys |-> Published(dest[k])]'
        = [[k \in Keys |-> Published(dest[k])] EXCEPT ![KeyOf[o]] =
             [kind |-> "install", content |-> content[o], by |-> o]]
  <2>1. \A k \in Keys : Published(dest[k])' = IF k = KeyOf[o] THEN Published(staging[o])
                                                             ELSE Published(dest[k])
    BY <1>1, <1>2 DEF TypeOK, Published, Replaceable
  <2> QED BY <1>5, <2>1
<1>7. [p \in Ops |-> Answer(p)]' = [p \in Ops |-> Answer(p)]
  BY <1>3
<1>8. /\ [p \in Ops |-> Answer(p)][o] = "none"
      /\ [k \in Keys |-> Published(dest[k])][KeyOf[o]].kind = "nothing"
  BY <1>2, <1>3, <1>4
<1> QED BY <1>5, <1>6, <1>7, <1>8 DEF Store!Publish

\* A decision of an operation is an answer of the store.
LEMMA OutcomeAnswers ==
  ASSUME AllEncodable, IInv, IInv', NEW o \in Ops, Step(o) \/ Crash(o) \/ Cancel(o),
         outcome'[o] # outcome[o]
  PROVE  Store!Succeed(o) \/ Store!Fail(o)
<1> USE DEF IInv
<1>1. /\ pc[o] \notin Finishing /\ dest' = dest /\ outcome[o] = "none"
      /\ \A p \in Ops : p # o => outcome'[p] = outcome[p]
  BY OutcomeStep, StepLocal DEF OutcomeFollows, Own
<1>2. [k \in Keys |-> Published(dest[k])]' = [k \in Keys |-> Published(dest[k])]
  BY <1>1 DEF Published, Replaceable
<1>3. Answer(o) = "none" /\ \A p \in Ops : p # o => Answer(p)' = Answer(p)
  BY <1>1, AnswerValues DEF Answer
<1>4. KeyOf[o] \in Keys
  BY OpsAssumption DEF OpsAssumption
<1>5. CASE outcome'[o] \in Errors
  <2>1. Answer(o)' = "error"
    BY <1>5 DEF Answer, Errors, Successes
  <2>2. \A k \in Keys : Published(dest[k]).by # o
    BY <1>1, <1>5, OutcomeStep, PublishedValues DEF OutcomeFollows, Errors, AllEncodable, Unindexed
  <2>3. [p \in Ops |-> Answer(p)]' = [[p \in Ops |-> Answer(p)] EXCEPT ![o] = "error"]
    BY <1>3, <2>1
  <2> QED BY <1>2, <1>3, <2>2, <2>3 DEF Store!Fail
<1>6. CASE outcome'[o] \in Successes
  <2>1. Answer(o)' = "success"
    BY <1>6 DEF Answer, Successes
  <2>2. dest[KeyOf[o]].kind = "install" /\ dest[KeyOf[o]].receipt \in ContentsOf[o]
    <3>1. pc[o] \in {"check", "recheck", "index"}
      BY <1>6, OutcomeStep DEF Successes, Errors
    <3>2. content[o] \in ContentsOf[o]
      BY <3>1 DEF StagedSoFar
    <3> QED BY <1>1, <1>6, <3>2, OutcomeStep DEF SuccessIsOnDisk
  <2>3. [p \in Ops |-> Answer(p)]' = [[p \in Ops |-> Answer(p)] EXCEPT ![o] = "success"]
    BY <1>3, <2>1
  <2> QED BY <1>2, <1>3, <1>4, <2>2, <2>3, PublishedValues DEF Store!Succeed
<1> QED BY <1>5, <1>6, OutcomeStep DEF Successes

\* What the user does below installs/ is an intrusion in the store or nothing.
LEMMA IntrudeIntrudes ==
  ASSUME IInv, NEW k \in Keys, Intrude(k)
  PROVE  Store!Intrude(k) \/ UNCHANGED Store!vars
<1> USE DEF IInv
<1>1. dest[k].kind = "absent" /\ outcome' = outcome
  BY DEF Intrude
<1>2. Published(dest[k]) = [kind |-> "nothing", content |-> NoContent, by |-> NoOp]
  BY <1>1, NothingThere DEF Replaceable
<1>3. [p \in Ops |-> Answer(p)]' = [p \in Ops |-> Answer(p)]
  BY <1>1 DEF Answer
<1>4. ASSUME NEW d, dest' = [dest EXCEPT ![k] = d]
      PROVE  [i \in Keys |-> Published(dest[i])]'
               = [[i \in Keys |-> Published(dest[i])] EXCEPT ![k] = Published(d)]
  <2>1. \A i \in Keys : Published(dest[i])' = IF i = k THEN Published(d) ELSE Published(dest[i])
    BY <1>4 DEF TypeOK, Published, Replaceable
  <2> QED BY <2>1
<1>5. ASSUME NEW kind \in {"empty", "foreign"}, dest' = [dest EXCEPT ![k] = [NoDir EXCEPT !.kind = kind]]
      PROVE  Store!Intrude(k) \/ UNCHANGED Store!vars
  <2> DEFINE d == [NoDir EXCEPT !.kind = kind]
  <2>1. d.kind = kind /\ d.receipt = NoContent /\ d.by = NoOp
    BY DEF NoDir
  <2>2. CASE kind = "empty"
    <3>1. Published(d) = Published(dest[k])
      BY <1>2, <2>1, <2>2, PublishedValues
    <3>2. [i \in Keys |-> Published(dest[i])]' = [i \in Keys |-> Published(dest[i])]
      <4>1. [i \in Keys |-> Published(dest[i])]'
              = [[i \in Keys |-> Published(dest[i])] EXCEPT ![k] = Published(dest[k])]
        BY <1>4, <1>5, <3>1
      <4> QED BY <4>1
    <3> HIDE DEF d
    <3> QED BY <1>3, <3>2 DEF Store!vars
  <2>3. CASE kind = "foreign"
    <3>1. Published(d) = [kind |-> "foreign", content |-> NoContent, by |-> NoOp]
      BY <2>1, <2>3, PublishedValues
    <3>2. Published(d) = [Store!Nothing EXCEPT !.kind = "foreign"]
      BY <3>1 DEF Store!Nothing
    <3>3. [i \in Keys |-> Published(dest[i])]'
            = [[i \in Keys |-> Published(dest[i])] EXCEPT ![k] = Published(d)]
      BY <1>4, <1>5
    <3>4. [i \in Keys |-> Published(dest[i])][k].kind = "nothing"
      BY <1>2
    <3> HIDE DEF d
    <3> QED BY <1>3, <3>2, <3>3, <3>4 DEF Store!Intrude
  <2> QED BY <2>2, <2>3
<1>6. ASSUME NEW c \in Contents, dest' = [dest EXCEPT ![k] =
               [kind |-> "install", payload |-> "hardened", receipt |-> c, by |-> NoOp]]
      PROVE  Store!Intrude(k)
  <2> DEFINE d == [kind |-> "install", payload |-> "hardened", receipt |-> c, by |-> NoOp]
  <2>1. Published(d) = [kind |-> "install", content |-> c, by |-> NoOp]
    BY PublishedValues
  <2>2. [i \in Keys |-> Published(dest[i])]'
          = [[i \in Keys |-> Published(dest[i])] EXCEPT ![k] = Published(d)]
    BY <1>4, <1>6
  <2>3. [i \in Keys |-> Published(dest[i])][k].kind = "nothing"
    BY <1>2
  <2> HIDE DEF d
  <2> QED BY <1>3, <2>1, <2>2, <2>3 DEF Store!Intrude
<1> QED BY <1>5, <1>6 DEF Intrude

\* Every step is a step of the store or nothing.
LEMMA StoreStep ==
  ASSUME AllEncodable
  PROVE  IInv /\ IInv' /\ [Next]_vars => [Store!Next]_Store!vars
<1> SUFFICES ASSUME IInv, IInv', [Next]_vars PROVE Store!Next \/ UNCHANGED Store!vars
  OBVIOUS
<1>1. CASE UNCHANGED <<dest, outcome>>
  BY <1>1, Stutters
<1>2. ASSUME NEW o \in Ops, Step(o) \/ Crash(o) \/ Cancel(o)
      PROVE  Store!Next \/ UNCHANGED Store!vars
  <2>1. CASE outcome'[o] # outcome[o]
    BY <1>2, <2>1, OutcomeAnswers DEF Store!Next
  <2>2. CASE outcome'[o] = outcome[o] /\ dest' # dest
    <3>1. Rename(o)
      BY <1>2, <2>2 DEF Step, MakePlan, CheckBeforeLock, Acquire, GiveUp, CheckUnderLock, Stage,
         Fetch, Probe, Harden, WriteReceipt, CheckDestination, Recheck, UpdateIndex, Cleanup,
         Release, Exit, Crash, Cancel
    <3> QED BY <2>2, <3>1, RenamePublishes DEF Store!Next
  <2>3. CASE outcome'[o] = outcome[o] /\ dest' = dest
    <3>1. \A p \in Ops : outcome'[p] = outcome[p]
      BY <1>2, <2>3, StepLocal DEF Own, IInv
    <3>2. outcome' = outcome
      BY <3>1 DEF IInv, TypeOK
    <3> QED BY <2>3, <3>2, Stutters
  <2> QED BY <2>1, <2>2, <2>3
<1>3. ASSUME NEW k \in Keys, Intrude(k) PROVE Store!Next \/ UNCHANGED Store!vars
  BY <1>3, IntrudeIntrudes DEF Store!Next
<1> QED BY <1>1, <1>2, <1>3 DEF Next, ChangeInputs, vars

\* With all its locks, staging directories, faults and crashes the transaction
\* behaves like an atomic, write-once store of installs, as long as index entries
\* can be encoded.
THEOREM Refinement == ASSUME AllEncodable PROVE Spec => ImplementsStore
BY StoreInit, StoreStep, Invariant, PTL DEF Spec, ImplementsStore, Store!Spec
=============================================================================
