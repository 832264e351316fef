----------------------- MODULE SetupTransaction_proofs -----------------------
(***************************************************************************)
(* Proofs about the setup transaction, for any plans, any steps that change *)
(* nothing or cannot be undone, and any number of faults and crashes.      *)
(***************************************************************************)
EXTENDS SetupTransaction, SequenceTheorems, TLAPS

\* What is inductive: the invariant of a run and what it leaves behind.
IInv == RunInv /\ FailureUndone

\* And, over it, that the setup state is true, at the start of a run and later.
TrueInv == FoundStateIsTrue /\ StateIsTrue

\* A plan that is in order holds steps, each of them once.
LEMMA PlanSteps ==
  ASSUME TypeOK, pc # "idle"
  PROVE  /\ at \in DOMAIN plan /\ DOMAIN plan = 1 .. Len(plan) /\ Len(plan) \in Nat
         /\ \A i \in DOMAIN plan : plan[i] \in Steps
         /\ \A i, j \in DOMAIN plan : i < j => plan[i] < plan[j]
BY DEF TypeOK, InOrder

\* While a run is on, a setup state on the disk was found there, with all that it
\* records, or was made, after all the rest.
LEMMA RunIsTrue ==
  ASSUME StateCommit \notin NoUndo
  PROVE  RunInv /\ FoundStateIsTrue /\ pc # "idle" => StateIsTrue
<1> SUFFICES ASSUME RunInv, FoundStateIsTrue, pc # "idle", undoFailed = {}, disk[StateCommit] = "whole", NEW s \in Writes
             PROVE  disk[s] = "whole"
  BY DEF StateIsTrue
<1> USE DEF RunInv
<1>1. s \in Steps /\ StateCommit \in Steps /\ s <= StateCommit
  BY DEF Writes, Steps, StateCommit
<1>2. CASE start[StateCommit] = "whole"
  BY <1>1, <1>2 DEF FoundStateIsTrue, ChangedIsRecorded
<1>3. CASE start[StateCommit] # "whole"
  <2>1. PICK i \in DOMAIN undo : undo[i] = StateCommit
    BY <1>1, <1>3 DEF ChangedIsRecorded
  <2>2. CASE s = StateCommit
    BY <2>2
  <2>3. CASE s < StateCommit
    BY <2>1, <2>3 DEF PassedIsWhole
  <2> QED BY <1>1, <2>2, <2>3 DEF Steps, StateCommit
<1> QED BY <1>2, <1>3

-----------------------------------------------------------------------------
(* The steps *)

\* At first nothing is on the disk.
LEMMA InitInv == Init => IInv /\ TrueInv
<1> SUFFICES ASSUME Init PROVE IInv /\ TrueInv
  OBVIOUS
<1>1. TypeOK
  BY SetupAssumption DEF Init, TypeOK, SetupAssumption, Nowhere, Parts
<1>2. disk[StateCommit] # "whole"
  BY DEF Init, Nowhere, Steps, StateCommit
<1> QED BY <1>1, <1>2 DEF Init, IInv, TrueInv, RunInv, UndoInOrder, PassedIsWhole, ChangedIsRecorded,
          FoundStateIsTrue, StateIsTrue, FailureUndone

\* A run begins with what the last one left.
LEMMA BeginInv == ASSUME IInv, Begin PROVE IInv'
<1> USE DEF IInv, RunInv
<1>1. /\ undo' = <<>> /\ start' = disk /\ at' = 1 /\ changed' = {}
      /\ UNCHANGED <<plan, disk, undoFailed, faults, crashes>>
  BY DEF Begin
<1>2. outcome' \in {"none", "step_order"}
  BY DEF Begin
<1>3. CASE InOrder(plan) /\ pc' = "apply" /\ outcome' = "none"
  <2>1. 1 \in DOMAIN plan
    BY <1>3 DEF TypeOK, InOrder
  <2>2. TypeOK'
    BY <1>1, <1>3, <2>1 DEF TypeOK, InOrder
  <2>3. \A i \in DOMAIN plan : ~(i < 1)
    BY DEF TypeOK
  <2>4. UndoInOrder' /\ PassedIsWhole'
    BY <1>1, <1>3, <2>3 DEF UndoInOrder, PassedIsWhole
  <2>5. ChangedIsRecorded'
    BY <1>1 DEF ChangedIsRecorded
  <2> QED BY <1>2, <2>2, <2>4, <2>5 DEF FailureUndone
<1>4. CASE outcome' = "step_order" /\ pc' = "idle"
  <2>1. TypeOK'
    BY <1>1, <1>4 DEF TypeOK
  <2> QED BY <1>2, <1>4, <2>1 DEF FailureUndone, UndoInOrder, PassedIsWhole, ChangedIsRecorded
<1> QED BY <1>3, <1>4 DEF Begin

\* A run that ends without another change of the disk: a failed one has nothing left
\* to undo.
LEMMA EndsInv ==
  ASSUME IInv, pc' = "idle", UNCHANGED <<plan, at, undo, changed, disk, start, undoFailed>>,
         faults' \in Nat, crashes' \in Nat,
         \/ outcome' \in {"internal", "crashed"}
         \/ outcome' = "failed" /\ pc = "rollback" /\ undo = <<>>
  PROVE  IInv'
<1> USE DEF IInv, RunInv
<1>1. TypeOK'
  BY DEF TypeOK
<1>2. FailureUndone'
  BY DEF FailureUndone, ChangedIsRecorded
<1> QED BY <1>1, <1>2 DEF UndoInOrder, PassedIsWhole, ChangedIsRecorded

\* An application touches the one step, and reports that it did.
LEMMA AppliedIs ==
  ASSUME TypeOK, NEW s \in Steps, NEW changes \in BOOLEAN, NEW ok \in BOOLEAN, Applied(s, changes, ok)
  PROVE  /\ disk' \in [Steps -> Parts] /\ faults' \in Nat
         /\ \A r \in Steps : r # s => disk'[r] = disk[r]
         /\ changes => s \notin ReadOnly /\ disk[s] # "whole"
         /\ ~changes => disk' = disk
         /\ ok => s \in ReadOnly \/ disk'[s] = "whole"
<1>1. disk \in [Steps -> Parts] /\ faults \in Nat
  BY DEF TypeOK
<1>3. ASSUME NEW part \in {"half", "whole"}, disk' = [disk EXCEPT ![s] = part]
      PROVE  /\ disk' \in [Steps -> Parts] /\ disk'[s] = part
             /\ \A r \in Steps : r # s => disk'[r] = disk[r]
  <2>1. part \in Parts
    BY DEF Parts
  <2> QED BY <1>1, <1>3, <2>1
<1>4. CASE ok = TRUE /\ changes = FALSE
  <2>1. (disk[s] = "whole" \/ s \in ReadOnly) /\ UNCHANGED <<disk, faults>>
    BY <1>4 DEF Applied
  <2> QED BY <1>1, <1>4, <2>1
<1>5. CASE ok = TRUE /\ changes = TRUE
  <2>1. disk[s] # "whole" /\ s \notin ReadOnly /\ disk' = [disk EXCEPT ![s] = "whole"] /\ UNCHANGED faults
    BY <1>5 DEF Applied
  <2> QED BY <1>1, <1>3, <1>5, <2>1
<1>6. CASE ok = FALSE /\ changes = FALSE
  <2>1. UNCHANGED disk /\ faults' = faults + 1
    BY <1>6 DEF Applied, Fault
  <2> QED BY <1>1, <1>6, <2>1
<1>7. CASE ok = FALSE /\ changes = TRUE
  <2>1. /\ disk[s] # "whole" /\ s \notin ReadOnly /\ faults' = faults + 1
        /\ \E part \in {"half", "whole"} : disk' = [disk EXCEPT ![s] = part]
    BY <1>7 DEF Applied, Fault
  <2>2. disk' \in [Steps -> Parts] /\ \A r \in Steps : r # s => disk'[r] = disk[r]
    BY <1>3, <2>1
  <2> QED BY <1>1, <1>7, <2>1, <2>2
<1> QED BY <1>4, <1>5, <1>6, <1>7

\* The undo list grows by a step that changed something.
LEMMA RecordsIs ==
  ASSUME TypeOK, NEW s \in Steps, NEW changes \in BOOLEAN, Records(s, changes)
  PROVE  /\ undo' \in Seq(Steps) /\ changed' \subseteq Steps
         /\ ~changes => undo' = undo
         /\ changes => /\ DOMAIN undo' = 1 .. Len(undo) + 1 /\ DOMAIN undo = 1 .. Len(undo)
                       /\ Len(undo) \in Nat
                       /\ undo'[Len(undo) + 1] = s
                       /\ \A i \in DOMAIN undo : undo'[i] = undo[i]
<1>1. undo \in Seq(Steps)
  BY DEF TypeOK
<1> QED BY <1>1, AppendProperties DEF Records, TypeOK

\* An action done keeps the invariant: it is the greatest step so far, and all it
\* builds on is in place.
LEMMA ApplyInv == ASSUME IInv, Apply PROVE IInv'
<1> USE DEF IInv, RunInv
<1>0. pc = "apply" /\ UNCHANGED <<plan, start, undoFailed, crashes>>
  BY DEF Apply
<1>1. PICK changes, ok \in BOOLEAN :
        /\ Applied(plan[at], changes, ok)
        /\ Records(plan[at], changes)
        /\ CASE ~ok -> pc' = "rollback" /\ UNCHANGED <<at, outcome>>
             [] ok /\ at < Len(plan) -> at' = at + 1 /\ UNCHANGED <<pc, outcome>>
             [] OTHER -> pc' = "idle" /\ outcome' = "done" /\ UNCHANGED at
  BY DEF Apply
<1> DEFINE s == plan[at]
<1>2. /\ at \in DOMAIN plan /\ DOMAIN plan = 1 .. Len(plan) /\ Len(plan) \in Nat
      /\ \A i \in DOMAIN plan : plan[i] \in Steps /\ plan[i] \in Nat
      /\ \A i, j \in DOMAIN plan : i < j => plan[i] < plan[j]
  BY <1>0, PlanSteps DEF Steps
<1>3. s \in Steps
  BY <1>2
<1>4. /\ disk' \in [Steps -> Parts] /\ faults' \in Nat
      /\ \A r \in Steps : r # s => disk'[r] = disk[r]
      /\ changes => s \notin ReadOnly /\ disk[s] # "whole"
      /\ ~changes => disk' = disk
      /\ ok => s \in ReadOnly \/ disk'[s] = "whole"
  BY <1>1, <1>3, AppliedIs
<1>5. /\ undo' \in Seq(Steps) /\ changed' \subseteq Steps
      /\ ~changes => undo' = undo
      /\ changes => /\ DOMAIN undo' = 1 .. Len(undo) + 1 /\ DOMAIN undo = 1 .. Len(undo)
                    /\ Len(undo) \in Nat
                    /\ undo'[Len(undo) + 1] = s
                    /\ \A i \in DOMAIN undo : undo'[i] = undo[i]
  BY <1>1, <1>3, RecordsIs
<1>6. \A i \in DOMAIN plan : i < at => plan[i] \in ReadOnly \/ disk[plan[i]] = "whole"
  BY <1>0 DEF PassedIsWhole
<1>7. \A i \in DOMAIN undo : undo[i] \in Writes /\ undo[i] < s
  BY <1>0 DEF UndoInOrder
<1>8. Writes' = Writes /\ \A r \in Writes : /\ r \in Steps /\ r \in Nat /\ r \notin ReadOnly
                                            /\ \E j \in DOMAIN plan : plan[j] = r
  BY <1>0 DEF Writes, Steps
<1>9. changes => s \in Writes
  BY <1>2, <1>3, <1>4 DEF Writes
<1>10. \A j \in DOMAIN plan : plan[j] < s => j < at
  <2> SUFFICES ASSUME NEW j \in DOMAIN plan, ~(j < at) PROVE ~(plan[j] < s)
    OBVIOUS
  <2>1. j = at \/ at < j
    BY <1>2
  <2> QED BY <1>2, <2>1
<1>11. \A i \in DOMAIN undo' : \/ undo'[i] = s /\ changes
                               \/ i \in DOMAIN undo /\ undo'[i] = undo[i]
  BY <1>5
<1>12. \A i \in DOMAIN undo : i \in DOMAIN undo' /\ undo'[i] = undo[i]
  BY <1>5
<1>13. ChangedIsRecorded'
  <2>2. changes /\ undoFailed = {} => start[s] # "whole"
    BY <1>0, <1>3, <1>4 DEF ChangedIsRecorded
  <2>3. \A i \in DOMAIN undo' : undoFailed = {} => start[undo'[i]] # "whole"
    BY <1>0, <1>11, <2>2 DEF ChangedIsRecorded
  <2>4. ASSUME undoFailed = {}, NEW r \in Steps, disk'[r] # start[r]
        PROVE  start[r] # "whole" /\ (r \in NoUndo \/ \E i \in DOMAIN undo' : undo'[i] = r)
    <3>1. CASE r = s /\ changes
      <4>1. Len(undo) + 1 \in DOMAIN undo' /\ undo'[Len(undo) + 1] = s
        BY <1>5, <3>1
      <4> QED BY <2>2, <2>4, <3>1, <4>1
    <3>2. CASE ~(r = s /\ changes)
      <4>1. disk[r] # start[r]
        BY <1>4, <2>4, <3>2
      <4> QED BY <1>0, <1>12, <2>4, <4>1 DEF ChangedIsRecorded
    <3> QED BY <3>1, <3>2
  <2> QED BY <1>0, <2>3, <2>4 DEF ChangedIsRecorded
<1>14. \A i \in DOMAIN undo' : \A r \in Writes : r < undo'[i] => disk'[r] = "whole"
  <2> SUFFICES ASSUME NEW i \in DOMAIN undo', NEW r \in Writes, r < undo'[i] PROVE disk'[r] = "whole"
    OBVIOUS
  <2>1. CASE undo'[i] = s
    <3>1. PICK j \in DOMAIN plan : plan[j] = r
      BY <1>8
    <3>2. disk[r] = "whole"
      BY <1>6, <1>8, <1>10, <2>1, <3>1
    <3>3. r # s
      BY <1>3, <1>8, <2>1 DEF Steps
    <3> QED BY <1>4, <1>8, <3>2, <3>3
  <2>2. CASE i \in DOMAIN undo /\ undo'[i] = undo[i]
    <3>1. disk[r] = "whole"
      BY <1>0, <2>2 DEF PassedIsWhole
    <3>2. r < s
      BY <1>3, <1>7, <1>8, <2>2 DEF Steps
    <3>3. r # s
      BY <1>3, <1>8, <3>2 DEF Steps
    <3> QED BY <1>4, <1>8, <3>1, <3>3
  <2> QED BY <1>11, <2>1, <2>2
<1>15. /\ \A i \in DOMAIN undo' : undo'[i] \in Writes /\ undo'[i] <= s
       /\ \A i, j \in DOMAIN undo' : i < j => undo'[i] < undo'[j]
  <2>1. \A i \in DOMAIN undo : undo[i] \in Nat
    BY <1>7, <1>8
  <2>2. \A i \in DOMAIN undo' : undo'[i] \in Writes /\ undo'[i] <= s
    BY <1>3, <1>7, <1>9, <1>11, <2>1 DEF Steps
  <2>3. \A i, j \in DOMAIN undo : i < j => undo[i] < undo[j]
    BY <1>0 DEF UndoInOrder
  <2>4. ASSUME NEW i \in DOMAIN undo', NEW j \in DOMAIN undo', i < j PROVE undo'[i] < undo'[j]
    <3>1. CASE ~changes
      BY <1>5, <2>3, <2>4, <3>1
    <3>2. CASE changes
      <4>1. i \in DOMAIN undo /\ (j \in DOMAIN undo \/ j = Len(undo) + 1)
        BY <1>5, <2>4, <3>2
      <4> QED BY <1>5, <1>7, <2>3, <2>4, <3>2, <4>1
    <3> QED BY <3>1, <3>2
  <2> QED BY <2>2, <2>4
<1>16. ASSUME pc' # "idle", outcome' = outcome, at' \in DOMAIN plan,
              pc' = "apply" => ok /\ at' = at + 1,
              pc' = "rollback" => at' = at,
              pc' \in {"apply", "rollback"}
       PROVE  IInv'
  <2>1. TypeOK'
    BY <1>0, <1>4, <1>5, <1>16 DEF TypeOK
  <2>2. s <= plan[at'] /\ (pc' = "apply" => s < plan[at'])
    BY <1>2, <1>16
  <2>3. UndoInOrder'
    <3>1. ASSUME NEW i \in DOMAIN undo'
          PROVE  undo'[i] \in Writes /\ undo'[i] <= plan[at'] /\ (pc' = "apply" => undo'[i] < plan[at'])
      BY <1>2, <1>8, <1>15, <1>16, <2>2
    <3> QED BY <1>0, <1>8, <1>15, <3>1 DEF UndoInOrder
  <2>4. ASSUME pc' = "apply", NEW i \in DOMAIN plan, i < at' PROVE plan[i] \in ReadOnly \/ disk'[plan[i]] = "whole"
    <3>1. CASE i = at
      BY <1>4, <1>16, <2>4, <3>1
    <3>2. CASE i < at
      <4>1. plan[i] # s
        BY <1>2, <3>2
      <4> QED BY <1>2, <1>4, <1>6, <3>2, <4>1
    <3> QED BY <1>2, <1>16, <2>4, <3>1, <3>2
  <2>5. PassedIsWhole'
    BY <1>0, <1>8, <1>14, <2>4 DEF PassedIsWhole
  <2>6. RunInv'
    BY <1>13, <2>1, <2>3, <2>5
  <2>7. FailureUndone'
    BY <1>0, <1>16 DEF FailureUndone, TypeOK
  <2> QED BY <2>6, <2>7
<1>17. CASE ~ok /\ pc' = "rollback" /\ UNCHANGED <<at, outcome>>
  BY <1>2, <1>16, <1>17
<1>18. CASE ok /\ at < Len(plan) /\ at' = at + 1 /\ UNCHANGED <<pc, outcome>>
  BY <1>0, <1>2, <1>16, <1>18
<1>19. CASE ok /\ ~(at < Len(plan)) /\ pc' = "idle" /\ outcome' = "done" /\ UNCHANGED at
  <2>1. TypeOK'
    BY <1>0, <1>4, <1>5, <1>19 DEF TypeOK
  <2> QED BY <1>19, <2>1 DEF UndoInOrder, PassedIsWhole, ChangedIsRecorded, FailureUndone
<1> QED BY <1>1, <1>17, <1>18, <1>19

\* The list loses its last entry.
LEMMA ShorterIs ==
  ASSUME NEW u \in Seq(Steps), u # <<>>
  PROVE  /\ SubSeq(u, 1, Len(u) - 1) \in Seq(Steps)
         /\ DOMAIN SubSeq(u, 1, Len(u) - 1) = 1 .. Len(u) - 1
         /\ DOMAIN u = 1 .. Len(u) /\ Len(u) \in Nat /\ Len(u) \in DOMAIN u
         /\ \A i \in 1 .. Len(u) - 1 : SubSeq(u, 1, Len(u) - 1)[i] = u[i]
<1>1. Len(u) \in Nat /\ Len(u) > 0 /\ DOMAIN u = 1 .. Len(u)
  BY EmptySeq
<1>2. \A i \in 1 .. Len(u) - 1 : u[i] \in Steps
  BY <1>1
<1> QED BY <1>1, <1>2, SubSeqProperties

\* What is undone is the greatest step of the list: nothing left in it builds on
\* that step.
LEMMA RollbackInv == ASSUME IInv, Rollback PROVE IInv'
<1> USE DEF IInv, RunInv
<1> DEFINE n == Len(undo)
           s == undo[n]
<1>0. /\ pc = "rollback" /\ undo # <<>> /\ undo' = SubSeq(undo, 1, n - 1)
      /\ Undone(s) \/ UndoFails(s)
      /\ UNCHANGED <<plan, pc, at, changed, outcome, start, crashes>>
  BY DEF Rollback
<1>1. undo \in Seq(Steps)
  BY DEF TypeOK
<1>2. /\ undo' \in Seq(Steps) /\ DOMAIN undo' = 1 .. n - 1
      /\ DOMAIN undo = 1 .. n /\ n \in Nat /\ n \in DOMAIN undo
      /\ \A i \in 1 .. n - 1 : undo'[i] = undo[i]
  BY <1>0, <1>1, ShorterIs
<1>3. s \in Steps
  BY <1>1, <1>2
<1> HIDE DEF n, s
<1>4. \A i \in DOMAIN undo' : i \in DOMAIN undo /\ undo'[i] = undo[i] /\ undo[i] < s
  BY <1>0, <1>2 DEF UndoInOrder, s
<1>5. /\ disk' \in [Steps -> Parts] /\ faults' \in Nat /\ undoFailed' \subseteq Steps
      /\ \A r \in Steps : r # s => disk'[r] = disk[r]
      /\ undoFailed' = {} => undoFailed = {} /\ Undone(s)
  <2>1. disk \in [Steps -> Parts] /\ faults \in Nat /\ undoFailed \subseteq Steps
    BY DEF TypeOK
  <2>2. CASE Undone(s)
    <3>1. (IF start[s] = "half" THEN "half" ELSE "none") \in Parts
      BY DEF Parts
    <3> QED BY <1>3, <2>1, <2>2, <3>1 DEF Undone
  <2>3. CASE UndoFails(s)
    BY <1>3, <2>1, <2>3 DEF UndoFails, Fault
  <2> QED BY <1>0, <2>2, <2>3
<1>6. TypeOK'
  BY <1>0, <1>2, <1>5 DEF TypeOK
<1>7. UndoInOrder'
  BY <1>0, <1>4 DEF UndoInOrder, Writes
<1>8. PassedIsWhole'
  <2> SUFFICES ASSUME NEW i \in DOMAIN undo', NEW r \in Writes, r < undo'[i] PROVE disk'[r] = "whole"
    <3>1. Writes' = Writes
      BY <1>0 DEF Writes
    <3> QED BY <1>0, <3>1 DEF PassedIsWhole
  <2>1. disk[r] = "whole"
    BY <1>0, <1>4 DEF PassedIsWhole
  <2>2. r \in Steps /\ undo[i] \in Steps
    BY <1>1, <1>4 DEF Writes
  <2>3. r # s
    BY <1>3, <1>4, <2>2 DEF Steps
  <2> QED BY <1>5, <2>1, <2>2, <2>3
<1>9. ChangedIsRecorded'
  <2> SUFFICES ASSUME undoFailed' = {}
               PROVE  /\ \A i \in DOMAIN undo' : start[undo'[i]] # "whole"
                      /\ \A r \in Steps : disk'[r] # start[r] =>
                           start[r] # "whole" /\ (r \in NoUndo \/ \E i \in DOMAIN undo' : undo'[i] = r)
    BY <1>0 DEF ChangedIsRecorded
  <2>1. /\ \A i \in DOMAIN undo : start[undo[i]] # "whole"
        /\ \A r \in Steps : disk[r] # start[r] =>
             start[r] # "whole" /\ (r \in NoUndo \/ \E i \in DOMAIN undo : undo[i] = r)
    BY <1>0, <1>5 DEF ChangedIsRecorded
  <2>2. s \notin NoUndo => disk'[s] = start[s]
    <3>1. start[s] \in {"none", "half"}
      BY <1>2, <1>3, <2>1 DEF s, TypeOK, Parts
    <3> QED BY <1>3, <1>5, <3>1 DEF Undone, TypeOK
  <2>3. ASSUME NEW r \in Steps, disk'[r] # start[r]
        PROVE  start[r] # "whole" /\ (r \in NoUndo \/ \E i \in DOMAIN undo' : undo'[i] = r)
    <3>1. CASE r = s
      BY <1>2, <2>1, <2>2, <2>3, <3>1 DEF s
    <3>2. CASE r # s
      <4>1. disk[r] # start[r]
        BY <1>5, <2>3, <3>2
      <4>2. ASSUME NEW i \in DOMAIN undo, undo[i] = r PROVE i \in DOMAIN undo' /\ undo'[i] = r
        <5>1. i # n
          BY <3>2, <4>2 DEF s
        <5> QED BY <1>2, <4>2, <5>1
      <4> QED BY <2>1, <4>1, <4>2
    <3> QED BY <3>1, <3>2
  <2> QED BY <1>4, <2>1, <2>3
<1>10. FailureUndone'
  BY <1>0 DEF FailureUndone, TypeOK
<1> QED BY <1>6, <1>7, <1>8, <1>9, <1>10

\* Every step keeps the invariant.
LEMMA StepInv == IInv /\ [Next]_vars => IInv'
<1> SUFFICES ASSUME IInv, [Next]_vars PROVE IInv'
  OBVIOUS
<1>1. faults \in Nat /\ crashes \in Nat
  BY DEF IInv, RunInv, TypeOK
<1>2. CASE ApplyMissing
  BY <1>1, <1>2, EndsInv DEF ApplyMissing
<1>3. CASE RollbackEnds
  BY <1>1, <1>3, EndsInv DEF RollbackEnds
<1>4. CASE Crash
  BY <1>1, <1>4, EndsInv DEF Crash
<1>5. CASE UNCHANGED vars
  BY <1>5 DEF vars, IInv, RunInv, TypeOK, UndoInOrder, PassedIsWhole, ChangedIsRecorded, FailureUndone, Writes
<1> QED BY <1>2, <1>3, <1>4, <1>5, BeginInv, ApplyInv, RollbackInv DEF Next, Run

\* The last action done, everything is in place.
LEMMA DoneIsWhole == ASSUME RunInv, Apply, pc' = "idle", NEW r \in Writes PROVE disk'[r] = "whole"
<1> USE DEF RunInv
<1> DEFINE s == plan[at]
<1>1. PICK changes \in BOOLEAN : Applied(s, changes, TRUE) /\ ~(at < Len(plan))
  BY DEF Apply
<1>2. /\ at \in DOMAIN plan /\ DOMAIN plan = 1 .. Len(plan) /\ Len(plan) \in Nat
      /\ \A i \in DOMAIN plan : plan[i] \in Steps
  BY PlanSteps DEF Apply
<1>3. s \in Steps
  BY <1>2
<1>4. /\ \A q \in Steps : q # s => disk'[q] = disk[q]
      /\ s \in ReadOnly \/ disk'[s] = "whole"
  BY <1>1, <1>3, AppliedIs
<1>5. r \in Steps /\ r \notin ReadOnly
  BY DEF Writes
<1>6. PICK j \in DOMAIN plan : plan[j] = r
  BY DEF Writes
<1>7. j = at \/ j < at
  BY <1>1, <1>2
<1>8. CASE r = s
  BY <1>4, <1>5, <1>8
<1>9. CASE r # s
  BY <1>4, <1>5, <1>6, <1>7, <1>9 DEF Apply, PassedIsWhole
<1> QED BY <1>8, <1>9

\* A run keeps the setup state true, and so the next one finds it; a state that
\* cannot be undone may be left without what it records.
LEMMA StepTrue ==
  ASSUME StateCommit \notin NoUndo
  PROVE  IInv /\ IInv' /\ TrueInv /\ [Next]_vars => TrueInv'
<1> SUFFICES ASSUME IInv, IInv', TrueInv, [Next]_vars PROVE TrueInv'
  OBVIOUS
<1> USE DEF TrueInv
<1>1. ASSUME FoundStateIsTrue', pc' # "idle" PROVE TrueInv'
  <2>1. (RunInv /\ FoundStateIsTrue /\ pc # "idle" => StateIsTrue)'
    BY RunIsTrue, PTL
  <2> QED BY <1>1, <2>1 DEF IInv
<1>2. ASSUME UNCHANGED <<plan, disk, undoFailed>>, pc' = "idle" PROVE TrueInv'
  BY <1>2 DEF FoundStateIsTrue, StateIsTrue, Writes
<1>3. CASE Begin
  <2>1. UNCHANGED <<plan, disk, undoFailed>> /\ start' = disk
    BY <1>3 DEF Begin
  <2> QED BY <2>1 DEF FoundStateIsTrue, StateIsTrue, Writes
<1>4. CASE Apply
  <2>1. pc = "apply" /\ UNCHANGED <<plan, start, undoFailed>>
    BY <1>4 DEF Apply
  <2>2. CASE pc' # "idle"
    BY <1>1, <2>1, <2>2 DEF FoundStateIsTrue, Writes
  <2>3. CASE pc' = "idle"
    BY <1>4, <2>1, <2>3, DoneIsWhole DEF IInv, FoundStateIsTrue, StateIsTrue, Writes
  <2> QED BY <2>2, <2>3
<1>5. CASE Rollback
  <2>1. pc' = "rollback" /\ pc = "rollback" /\ UNCHANGED <<plan, start>>
    BY <1>5 DEF Rollback
  <2>2. undoFailed' = {} => undoFailed = {}
    BY <1>5 DEF Rollback, Undone, UndoFails
  <2> QED BY <1>1, <2>1, <2>2 DEF FoundStateIsTrue, Writes
<1>6. CASE ApplyMissing \/ RollbackEnds \/ Crash
  BY <1>2, <1>6 DEF ApplyMissing, RollbackEnds, Crash
<1>7. CASE UNCHANGED vars
  BY <1>7 DEF vars, FoundStateIsTrue, StateIsTrue, Writes
<1> QED BY <1>3, <1>4, <1>5, <1>6, <1>7 DEF Next, Run

-----------------------------------------------------------------------------
(* The theorems *)

\* The inductive invariant holds through failed steps, failed undos and crashes.
THEOREM Invariant == Spec => []IInv
BY InitInv, StepInv, PTL DEF Spec

\* Every variable has its type.
THEOREM TypeCorrect == Spec => []TypeOK
BY Invariant, PTL DEF IInv, RunInv

\* A run in which a step failed leaves each step that can be undone as it found it
\* (rollback: the undo list, backwards), unless an Undo failed.
THEOREM FailureIsUndone == Spec => []FailureUndone
BY Invariant, PTL DEF IInv

\* Nothing a run made and can undo stands without the steps it builds on, between
\* two undos either.
THEOREM NothingEverDangles == Spec => []NothingDangles
<1>1. RunInv => NothingDangles
  <2> SUFFICES ASSUME RunInv, pc # "idle", undoFailed = {}, NEW s \in Writes \ NoUndo, disk[s] # start[s],
                      NEW r \in Writes, r < s
               PROVE  disk[r] = "whole"
    BY DEF NothingDangles
  <2>1. s \in Steps
    BY DEF Writes
  <2>2. PICK i \in DOMAIN undo : undo[i] = s
    BY <2>1 DEF RunInv, ChangedIsRecorded
  <2> QED BY <2>2 DEF RunInv, PassedIsWhole
<1> QED BY <1>1, Invariant, PTL DEF IInv

\* The setup state, if it is a step that can be undone, is on the disk only with all
\* that it records, whatever failed or died, unless an Undo failed.
THEOREM StateAlwaysTrue == ASSUME StateCommit \notin NoUndo PROVE Spec => []StateIsTrue
BY Invariant, InitInv, StepTrue, PTL DEF Spec, TrueInv
=============================================================================
