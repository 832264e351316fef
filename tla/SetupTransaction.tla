-------------------------- MODULE SetupTransaction --------------------------
(***************************************************************************)
(* shell.RunTransaction: the steps of a setup are applied in order; when   *)
(* one fails, those that changed something are undone in reverse.  There   *)
(* is no journal: a run that dies is followed by another run.              *)
(*                                                                         *)
(* What Apply and Undo of a step do is the caller's: a step is on the disk *)
(* not at all, by half or as a whole, and a whole one is left alone.       *)
(***************************************************************************)
EXTENDS Naturals, Sequences, FiniteSets

CONSTANTS
  Plans,       \* the sequences of steps a setup may hand over
  ReadOnly,    \* steps that change nothing: integration-verify
  NoApply,     \* <<plan, position>> of actions handed over without Apply
  NoUndo,      \* steps handed over without Undo
  MaxFaults,   \* bound on applications and undos that fail
  MaxCrashes   \* bound on runs that die

\* StepOrder: root-init, shim, integration-backup, integration,
\* integration-verify, state-commit
Steps == 1 .. 6
StateCommit == 6

ASSUME SetupAssumption ==
  /\ Plans \subseteq Seq(Nat)
  /\ ReadOnly \cup NoUndo \subseteq Steps
  /\ NoApply \subseteq Plans \X Nat
  /\ {MaxFaults, MaxCrashes} \subseteq Nat

VARIABLES
  plan,        \* the actions of the setup
  pc,          \* "idle", "apply" or "rollback"
  at,          \* position of the action at hand
  undo,        \* the undo list
  changed,     \* steps reported as changed by this run
  outcome,     \* of the last run
  disk,        \* how much of each step is on the disk
  start,       \* what was there when the run began
  undoFailed,  \* steps whose Undo failed, in this run or an earlier one
  faults, crashes

vars == <<plan, pc, at, undo, changed, outcome, disk, start, undoFailed, faults, crashes>>

Nowhere == [s \in Steps |-> "none"]

Init ==
  /\ plan \in Plans
  /\ pc = "idle" /\ at = 1
  /\ undo = <<>>
  /\ changed = {}
  /\ outcome = "none"
  /\ disk = Nowhere
  /\ start = Nowhere
  /\ undoFailed = {}
  /\ faults = 0 /\ crashes = 0

-----------------------------------------------------------------------------
\* checkStepOrder: known steps, strictly in the order of StepOrder.
InOrder(p) ==
  p # <<>> /\ (\A i \in DOMAIN p : p[i] \in Steps) /\ \A i, j \in DOMAIN p : i < j => p[i] < p[j]

Begin ==
  /\ pc = "idle"
  /\ IF InOrder(plan)
     THEN pc' = "apply" /\ outcome' = "none"
     ELSE outcome' = "step_order" /\ UNCHANGED pc
  /\ at' = 1
  /\ undo' = <<>>
  /\ changed' = {}
  /\ start' = disk
  /\ UNCHANGED <<plan, disk, undoFailed, faults, crashes>>

Fault == faults < MaxFaults /\ faults' = faults + 1

\* Bug: a step that is already there cannot be applied.
AppliedOnce(s, changes, ok) ==
  \/ ~ok /\ ~changes /\ disk[s] = "whole" /\ UNCHANGED <<disk, faults>>
  \/ ok /\ ~changes /\ s \in ReadOnly /\ UNCHANGED <<disk, faults>>
  \/ /\ ok /\ changes
     /\ disk[s] # "whole" /\ s \notin ReadOnly
     /\ disk' = [disk EXCEPT ![s] = "whole"]
     /\ UNCHANGED faults

\* What Apply of step s does: nothing to what is whole, else the step is made;
\* if it fails, anything from nothing to all of it may have been made.
Applied(s, changes, ok) ==
  \/ /\ ok /\ ~changes
     /\ disk[s] = "whole" \/ s \in ReadOnly
     /\ UNCHANGED <<disk, faults>>
  \/ /\ ok /\ changes
     /\ disk[s] # "whole" /\ s \notin ReadOnly
     /\ disk' = [disk EXCEPT ![s] = "whole"]
     /\ UNCHANGED faults
  \/ ~ok /\ ~changes /\ Fault /\ UNCHANGED disk
  \/ /\ ~ok /\ changes
     /\ disk[s] # "whole" /\ s \notin ReadOnly
     /\ \E part \in {"half", "whole"} : disk' = [disk EXCEPT ![s] = part]
     /\ Fault

\* Bug: every step applied is to be undone.
RecordsAll(s, changes) ==
  /\ undo' = Append(undo, s)
  /\ changed' = IF changes THEN changed \cup {s} ELSE changed

\* A step that changed something, whether or not it failed, is to be undone.
Records(s, changes) ==
  /\ undo' = IF changes THEN Append(undo, s) ELSE undo
  /\ changed' = IF changes THEN changed \cup {s} ELSE changed

\* Bug: a step that failed is not recorded.
ApplyRecordingSuccess ==
  /\ pc = "apply"
  /\ <<plan, at>> \notin NoApply
  /\ \E changes, ok \in BOOLEAN :
       /\ Applied(plan[at], changes, ok)
       /\ Records(plan[at], changes /\ ok)
       /\ CASE ~ok -> pc' = "rollback" /\ UNCHANGED <<at, outcome>>
            [] ok /\ at < Len(plan) -> at' = at + 1 /\ UNCHANGED <<pc, outcome>>
            [] OTHER -> pc' = "idle" /\ outcome' = "done" /\ UNCHANGED at
  /\ UNCHANGED <<plan, start, undoFailed, crashes>>

Apply ==
  /\ pc = "apply"
  /\ <<plan, at>> \notin NoApply
  /\ \E changes, ok \in BOOLEAN :
       /\ Applied(plan[at], changes, ok)
       /\ Records(plan[at], changes)
       /\ CASE ~ok -> pc' = "rollback" /\ UNCHANGED <<at, outcome>>
            [] ok /\ at < Len(plan) -> at' = at + 1 /\ UNCHANGED <<pc, outcome>>
            [] OTHER -> pc' = "idle" /\ outcome' = "done" /\ UNCHANGED at
  /\ UNCHANGED <<plan, start, undoFailed, crashes>>

\* An action without Apply ends the run on the spot, with no rollback.
ApplyMissing ==
  /\ pc = "apply"
  /\ <<plan, at>> \in NoApply
  /\ pc' = "idle" /\ outcome' = "internal"
  /\ UNCHANGED <<plan, at, undo, changed, disk, start, undoFailed, faults, crashes>>

\* Undo takes away what the run made, nothing else.
Undone(s) ==
  /\ disk' = IF s \in NoUndo THEN disk
             ELSE [disk EXCEPT ![s] = IF start[s] = "half" THEN "half" ELSE "none"]
  /\ UNCHANGED <<undoFailed, faults>>

UndoFails(s) ==
  /\ s \notin NoUndo /\ Fault
  /\ undoFailed' = undoFailed \cup {s}
  /\ UNCHANGED disk

\* Bug: the undo list is worked off from its front.
RollbackForward ==
  /\ pc = "rollback" /\ undo # <<>>
  /\ LET s == Head(undo)
     IN /\ undo' = Tail(undo)
        /\ \/ Undone(s)
           \/ UndoFails(s)
  /\ UNCHANGED <<plan, pc, at, changed, outcome, start, crashes>>

\* rollback: the last entry of the list is undone, if it has an Undo.  A failure
\* is noted and the rollback goes on.
Rollback ==
  /\ pc = "rollback" /\ undo # <<>>
  /\ LET s == undo[Len(undo)]
     IN \/ Undone(s)
        \/ UndoFails(s)
  /\ undo' = SubSeq(undo, 1, Len(undo) - 1)
  /\ UNCHANGED <<plan, pc, at, changed, outcome, start, crashes>>

RollbackEnds ==
  /\ pc = "rollback" /\ undo = <<>>
  /\ pc' = "idle" /\ outcome' = "failed"
  /\ UNCHANGED <<plan, at, undo, changed, disk, start, undoFailed, faults, crashes>>

Crash ==
  /\ pc # "idle" /\ crashes < MaxCrashes
  /\ pc' = "idle" /\ outcome' = "crashed"
  /\ crashes' = crashes + 1
  /\ UNCHANGED <<plan, at, undo, changed, disk, start, undoFailed, faults>>

Run == Apply \/ ApplyMissing \/ Rollback \/ RollbackEnds

Next == Begin \/ Run \/ Crash

Spec == Init /\ [][Next]_vars

\* A live run goes on, and a setup that did not succeed is run again.
FairSpec == Spec /\ WF_vars(Run) /\ WF_vars(Begin)

-----------------------------------------------------------------------------
(* The inductive invariant behind the safety properties *)

\* The steps of the plan that write something.
Writes == ({plan[i] : i \in DOMAIN plan} \cap Steps) \ ReadOnly

Parts == {"none", "half", "whole"}

\* Each variable has its type; a run goes through a plan that is in order.
TypeOK ==
  /\ plan \in Seq(Nat) /\ pc \in {"idle", "apply", "rollback"}
  /\ at \in Nat /\ undo \in Seq(Steps) /\ changed \subseteq Steps
  /\ outcome \in {"none", "step_order", "done", "internal", "failed", "crashed"}
  /\ disk \in [Steps -> Parts] /\ start \in [Steps -> Parts]
  /\ undoFailed \subseteq Steps /\ {faults, crashes} \subseteq Nat
  /\ pc # "idle" => InOrder(plan) /\ at \in DOMAIN plan /\ outcome = "none"

\* The undo list names, in the order of the plan, steps that write, up to the one at
\* hand.
UndoInOrder ==
  pc # "idle" =>
    /\ \A i \in DOMAIN undo :
         undo[i] \in Writes /\ undo[i] <= plan[at] /\ (pc = "apply" => undo[i] < plan[at])
    /\ \A i, j \in DOMAIN undo : i < j => undo[i] < undo[j]

\* What is passed is in place; and so is all that a step to be undone builds on.
PassedIsWhole ==
  /\ pc = "apply" => \A i \in DOMAIN plan : i < at => plan[i] \in ReadOnly \/ disk[plan[i]] = "whole"
  /\ pc # "idle" => \A i \in DOMAIN undo : \A r \in Writes : r < undo[i] => disk[r] = "whole"

\* A step that is not as the run found it was not whole, and is to be undone if it
\* can be.
ChangedIsRecorded ==
  pc # "idle" /\ undoFailed = {} =>
    /\ \A i \in DOMAIN undo : start[undo[i]] # "whole"
    /\ \A s \in Steps : disk[s] # start[s] =>
         start[s] # "whole" /\ (s \in NoUndo \/ \E i \in DOMAIN undo : undo[i] = s)

\* The setup state a run finds is true.
FoundStateIsTrue ==
  pc # "idle" /\ undoFailed = {} /\ start[StateCommit] = "whole" => \A s \in Writes : start[s] = "whole"

\* FailureUndone below completes it; and StateIsTrue completes FoundStateIsTrue.
RunInv == TypeOK /\ UndoInOrder /\ PassedIsWhole /\ ChangedIsRecorded

-----------------------------------------------------------------------------
(* Properties *)

\* A run in which a step failed leaves each step that can be undone as it found it, unless
\* an Undo failed.
FailureUndone ==
  outcome = "failed" /\ undoFailed = {} => \A s \in Steps \ NoUndo : disk[s] = start[s]

\* Nothing a run made and can undo ever stands without the steps it builds on,
\* not in the middle of a rollback either, unless an Undo failed.
NothingDangles ==
  pc # "idle" /\ undoFailed = {} =>
    \A s \in Writes \ NoUndo : disk[s] # start[s] => \A r \in Writes : r < s => disk[r] = "whole"

\* The setup state is on the disk only with all that it records: through crashes,
\* failures and repeated runs, unless an Undo failed.
StateIsTrue ==
  undoFailed = {} /\ disk[StateCommit] = "whole" => \A s \in Writes : disk[s] = "whole"

\* Once faults and crashes have ceased a setup that is run again succeeds, and
\* everything is in place from then on.
RerunConverges ==
  InOrder(plan) /\ (\A i \in DOMAIN plan : <<plan, i>> \notin NoApply)
    => <>[](\A s \in Writes : disk[s] = "whole") /\ []<>(outcome = "done")
=============================================================================
