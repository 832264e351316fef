------------------------ MODULE ProcessRunner_proofs ------------------------
(***************************************************************************)
(* Safety of ProcessRunner for any number of processes, of LogRotation for *)
(* any number of writers, files and lines, and of HTTPClient for any       *)
(* request and any answers; a bound on the steps a request takes.          *)
(***************************************************************************)
EXTENDS ProcessRunner, LogRotation, HTTPClient, FiniteSetTheorems, TLAPS

-----------------------------------------------------------------------------
(* A child process and its tree *)

Labels == {"start", "attach", "wait", "graceful", "grace", "terminate", "drain",
           "abandon", "result", "returned"}

TypeOK ==
  /\ system \in {"linux", "windows"}
  /\ captured \in BOOLEAN /\ limited \in BOOLEAN
  /\ pc \in Labels
  /\ proc \in [Procs -> Processes]
  /\ stdin \in {"none", "ends", "silent"} /\ exited \in BOOLEAN /\ stateless \in BOOLEAN
  /\ expired \in BOOLEAN /\ cancelled \in BOOLEAN
  /\ timedOut \in BOOLEAN /\ signalled \in BOOLEAN /\ forced \in BOOLEAN
  /\ outcome \in {"none", "cancelled", "start_failed", "attach_failed", "no_state", "output_limit",
                  "timed_out", "exited"}

\* Only a run that was woken by its context sends signals, and it remembers why
\* it was woken.
SignalledForAReason ==
  /\ expired => limited
  /\ pc \in {"graceful", "grace", "terminate"} \/ signalled => timedOut \/ cancelled

\* The answer comes last.
AnswerIsLast == outcome # "none" => pc = "returned"

\* Before it is attached nothing belongs to the job.
JobIsEmpty ==
  system = "windows" /\ pc \in {"start", "attach", "abandon"}
    => \A p \in Procs : ~proc[p].tree

\* The end of the tree is final: nobody in it is left to start another process.
ForcedIsFinal ==
  forced => /\ pc \in {"drain", "result", "returned"}
            /\ \A p \in Procs : proc[p].tree => proc[p].state # "alive"

IInv ==
  /\ TypeOK
  /\ SignalledForAReason
  /\ AnswerIsLast
  /\ JobIsEmpty
  /\ ForcedIsFinal
  /\ PlainMeansUntouched
  /\ TreeEnds

-----------------------------------------------------------------------------
(* What the actions do to the processes *)

\* Deaths change nothing but the states of processes, and none becomes alive.
Dying ==
  \A p \in Procs :
    /\ proc'[p].tree = proc[p].tree
    /\ proc'[p].state = "alive" => proc[p].state = "alive"

LEMMA ChildIsProc == Child \in Procs
BY RunnerAssumption DEF RunnerAssumption, Child, Procs

\* Killing some processes gives a well-formed table in which they are not alive.
LEMMA DoomedKills ==
  ASSUME TypeOK, NEW hit \in SUBSET Procs
  PROVE  /\ Doomed(hit) \in [Procs -> Processes]
         /\ \A p \in Procs :
              /\ Doomed(hit)[p].tree = proc[p].tree
              /\ Doomed(hit)[p].state = "alive" => proc[p].state = "alive"
              /\ p \in hit => Doomed(hit)[p].state # "alive"
<1>1. \A p \in Procs : proc[p] \in Processes
  BY DEF TypeOK
<1>2. \A p \in Procs : [proc[p] EXCEPT !.state = "dying"] \in Processes
  BY <1>1 DEF Processes
<1>3. \A p \in Procs : /\ [proc[p] EXCEPT !.state = "dying"].tree = proc[p].tree
                       /\ [proc[p] EXCEPT !.state = "dying"].state = "dying"
  BY <1>1 DEF Processes
<1>4. \A p \in Procs :
        Doomed(hit)[p] = IF p \in hit /\ proc[p].state = "alive"
                         THEN [proc[p] EXCEPT !.state = "dying"] ELSE proc[p]
  BY DEF Doomed
<1>5. Doomed(hit) \in [Procs -> Processes]
  BY <1>1, <1>2 DEF Doomed
<1> QED BY <1>3, <1>4, <1>5

\* The death of one process keeps the table well-formed.
LEMMA EndsKills ==
  ASSUME TypeOK, NEW p \in Procs, Ends(p)
  PROVE  proc' \in [Procs -> Processes] /\ Dying
<1>1. \A q \in Procs : proc[q] \in Processes
  BY DEF TypeOK
<1>2. /\ [proc[p] EXCEPT !.state = "dead"] \in Processes
      /\ [proc[p] EXCEPT !.state = "dead"].tree = proc[p].tree
      /\ [proc[p] EXCEPT !.state = "dead"].state = "dead"
  BY <1>1 DEF Processes
<1>3. \A q \in Procs : proc'[q] = IF q = p THEN [proc[p] EXCEPT !.state = "dead"] ELSE proc[q]
  BY DEF Ends, TypeOK
<1>4. proc' \in [Procs -> Processes]
  BY <1>1, <1>2 DEF Ends, TypeOK
<1> QED BY <1>2, <1>3, <1>4 DEF Dying

\* A new process is born into the group or job of the one that starts it.
LEMMA ForkBears ==
  ASSUME TypeOK, NEW p \in Procs, NEW q \in Procs, Fork(p, q)
  PROVE  /\ proc' \in [Procs -> Processes]
         /\ \A r \in Procs \ {q} : proc'[r] = proc[r]
         /\ proc'[q].tree = proc[p].tree
<1>1. proc[p] \in Processes
  BY DEF TypeOK
<1>2. PICK stubborn \in BOOLEAN, pipes \in SUBSET proc[p].pipes :
        proc' = [proc EXCEPT ![q] =
          [state |-> "alive", tree |-> proc[p].tree, pipes |-> pipes, stubborn |-> stubborn]]
  BY DEF Fork
<1>3. [state |-> "alive", tree |-> proc[p].tree, pipes |-> pipes, stubborn |-> stubborn]
        \in Processes
  BY <1>1, <1>2 DEF Processes
<1> QED BY <1>2, <1>3 DEF TypeOK

\* A process that leaves the group remains what it is.
LEMMA LeaveKeeps ==
  ASSUME TypeOK, NEW p \in Procs, Leave(p)
  PROVE  /\ proc' \in [Procs -> Processes]
         /\ \A r \in Procs : /\ proc'[r].tree => proc[r].tree
                             /\ proc'[r].state = proc[r].state
<1>1. \A q \in Procs : proc[q] \in Processes
  BY DEF TypeOK
<1>2. /\ [proc[p] EXCEPT !.tree = FALSE] \in Processes
      /\ [proc[p] EXCEPT !.tree = FALSE].tree = FALSE
      /\ [proc[p] EXCEPT !.tree = FALSE].state = proc[p].state
  BY <1>1 DEF Processes
<1>3. \A q \in Procs : proc'[q] = IF q = p THEN [proc[p] EXCEPT !.tree = FALSE] ELSE proc[q]
  BY DEF Leave, TypeOK
<1>4. proc' \in [Procs -> Processes]
  BY <1>1, <1>2 DEF Leave, TypeOK
<1> QED BY <1>2, <1>3, <1>4

\* The child is born on its own.
LEMMA StartBears ==
  ASSUME TypeOK, Start
  PROVE  /\ proc' \in [Procs -> Processes]
         /\ \A r \in Procs \ {Child} : proc'[r] = proc[r]
         /\ proc' # proc => pc' = "attach" /\ proc'[Child].tree = (system = "linux")
<1>1. CASE proc' = proc
  BY <1>1 DEF TypeOK
<1>2. CASE /\ pc' = "attach"
           /\ \E stubborn \in BOOLEAN :
                proc' = [proc EXCEPT ![Child] =
                  [state |-> "alive", tree |-> system = "linux", pipes |-> Pipes,
                   stubborn |-> stubborn]]
  <2>1. PICK stubborn \in BOOLEAN :
          proc' = [proc EXCEPT ![Child] =
            [state |-> "alive", tree |-> system = "linux", pipes |-> Pipes,
             stubborn |-> stubborn]]
    BY <1>2
  <2>2. (system = "linux") \in BOOLEAN
    OBVIOUS
  <2>3. [state |-> "alive", tree |-> system = "linux", pipes |-> Pipes,
         stubborn |-> stubborn] \in Processes
    <3>1. Pipes \in SUBSET {"in", "out"}
      BY DEF Pipes
    <3> QED BY <2>2, <3>1 DEF Processes
  <2>4. proc'[Child] = [state |-> "alive", tree |-> system = "linux", pipes |-> Pipes,
                        stubborn |-> stubborn]
    BY <2>1, ChildIsProc DEF TypeOK
  <2> QED BY <1>2, <2>1, <2>3, <2>4 DEF TypeOK
<1> QED BY <1>1, <1>2 DEF Start

\* Attaching puts the child into the job, or kills it.
LEMMA AttachKeeps ==
  ASSUME TypeOK, Attach
  PROVE  /\ proc' \in [Procs -> Processes]
         /\ pc' = "abandon" => Dying
<1>1. CASE proc' = [proc EXCEPT ![Child].tree = TRUE] /\ pc' = "wait"
  <2>1. proc[Child] \in Processes
    BY ChildIsProc DEF TypeOK
  <2>2. [proc[Child] EXCEPT !.tree = TRUE] \in Processes
    BY <2>1 DEF Processes
  <2> QED BY <1>1, <2>2 DEF TypeOK
<1>2. CASE proc' = Doomed({Child})
  BY <1>2, ChildIsProc, DoomedKills DEF Dying
<1> QED BY <1>1, <1>2 DEF Attach, Goes

\* The signals, the end of the tree and the release only kill.
LEMMA CutKills ==
  ASSUME TypeOK, SignalGraceful \/ TerminateTree \/ Answer
  PROVE  proc' \in [Procs -> Processes] /\ Dying
<1>1. CASE proc' = proc
  BY <1>1 DEF TypeOK, Dying
<1>2. CASE \E hit \in SUBSET Procs : proc' = Doomed(hit)
  BY <1>2, DoomedKills DEF Dying
<1>3. Tree \in SUBSET Procs
  BY DEF Tree
<1>4. CASE SignalGraceful
  <2>1. CASE \E reached \in IF system = "linux" THEN {Tree} ELSE SUBSET Procs :
               proc' = Doomed({p \in reached : ~proc[p].stubborn})
    <3>1. PICK reached \in SUBSET Procs : proc' = Doomed({p \in reached : ~proc[p].stubborn})
      BY <1>3, <2>1
    <3>2. {p \in reached : ~proc[p].stubborn} \in SUBSET Procs
      OBVIOUS
    <3> QED BY <1>2, <3>1, <3>2
  <2> QED BY <1>1, <1>4, <2>1 DEF SignalGraceful
<1>5. CASE TerminateTree
  BY <1>2, <1>3, <1>5 DEF TerminateTree
<1>6. CASE Answer
  BY <1>1, <1>2, <1>3, <1>6 DEF Answer, Released
<1> QED BY <1>4, <1>5, <1>6

-----------------------------------------------------------------------------
(* The inductive invariant *)

\* Every run begins with no process.
LEMMA InitInv == Init => IInv
<1> SUFFICES ASSUME Init PROVE IInv
  OBVIOUS
<1>1. Nobody \in Processes /\ ~Nobody.tree
  BY DEF Nobody, Processes
<1>2. TypeOK
  BY <1>1, RunnerAssumption DEF Init, TypeOK, Labels, RunnerAssumption
<1>3. JobIsEmpty
  BY <1>1 DEF Init, JobIsEmpty
<1> QED BY <1>2, <1>3 DEF Init, IInv, SignalledForAReason, AnswerIsLast, ForcedIsFinal,
                         PlainMeansUntouched, TreeEnds

\* Every action keeps the shapes.
LEMMA TypeStep == ASSUME TypeOK, [Next]_vars PROVE TypeOK'
<1>1. CASE Start
  BY <1>1, StartBears DEF TypeOK, Labels, Start, Answers, env, joined
<1>2. CASE Attach
  BY <1>2, AttachKeeps DEF TypeOK, Labels, Attach, Goes, env, joined
<1>3. CASE WaitReturns
  <2>1. (proc[Child].state # "dead") \in BOOLEAN /\ Faults \in BOOLEAN
    BY RunnerAssumption
  <2>2. exited' \in BOOLEAN /\ stateless' \in BOOLEAN
    BY <1>3, <2>1 DEF WaitReturns
  <2>3. UNCHANGED <<env, pc, proc, stdin, expired, cancelled, timedOut, signalled, forced, outcome>>
    BY <1>3 DEF WaitReturns
  <2> QED BY <2>2, <2>3 DEF TypeOK, env
<1>4. CASE Wake
  <2>1. timedOut' \in BOOLEAN
    BY <1>4 DEF Wake, TypeOK
  <2>2. pc' \in {"result", "graceful"} /\ UNCHANGED <<env, proc, joined, expired, cancelled, signalled, forced, outcome>>
    BY <1>4 DEF Wake, Goes
  <2> QED BY <2>1, <2>2 DEF TypeOK, Labels, env, joined
<1>5. CASE SignalGraceful
  <2>1. proc' \in [Procs -> Processes]
    BY <1>5, CutKills
  <2>2. /\ pc' \in {"grace", "terminate"}
        /\ UNCHANGED <<env, joined, expired, cancelled, timedOut, forced, outcome>>
    BY <1>5 DEF SignalGraceful, Goes
  <2>3. signalled' \in BOOLEAN
    BY <1>5 DEF SignalGraceful, TypeOK
  <2> QED BY <2>1, <2>2, <2>3 DEF TypeOK, Labels, env, joined
<1>6. CASE Grace
  BY <1>6 DEF TypeOK, Labels, Grace, Goes, env, joined
<1>7. CASE TerminateTree
  BY <1>7, CutKills DEF TypeOK, Labels, TerminateTree, Goes, env, joined
<1>8. CASE Drain
  BY <1>8 DEF TypeOK, Labels, Drain, Goes, env, joined
<1>9. CASE Abandon
  BY <1>9 DEF TypeOK, Labels, Abandon, Answers, env, joined
<1>10. CASE Answer
  BY <1>10, CutKills DEF TypeOK, Labels, Answer, Answers, env, joined
<1>11. CASE Expire
  BY <1>11 DEF TypeOK, Expire, env, joined
<1>12. CASE Cancel
  BY <1>12 DEF TypeOK, Cancel, env, joined
<1>13. ASSUME NEW p \in Procs, Exit(p) \/ Die(p) PROVE TypeOK'
  BY <1>13, EndsKills DEF TypeOK, Exit, Die, Ends, env, joined
<1>14. ASSUME NEW p \in Procs, Leave(p) PROVE TypeOK'
  <2>1. UNCHANGED <<env, pc, joined, expired, cancelled, timedOut, signalled, forced, outcome>>
    BY <1>14 DEF Leave
  <2>2. proc' \in [Procs -> Processes]
    BY <1>14, LeaveKeeps
  <2> QED BY <2>1, <2>2 DEF TypeOK, env, joined
<1>15. ASSUME NEW p \in Procs, NEW q \in Procs, Fork(p, q) PROVE TypeOK'
  <2>1. UNCHANGED <<env, pc, joined, expired, cancelled, timedOut, signalled, forced, outcome>>
    BY <1>15 DEF Fork
  <2>2. proc' \in [Procs -> Processes]
    BY <1>15, ForkBears
  <2> QED BY <2>1, <2>2 DEF TypeOK, env, joined
<1>16. CASE CopyEnds
  BY <1>16 DEF TypeOK, CopyEnds, env, joined
<1>17. CASE UNCHANGED vars
  BY <1>17 DEF TypeOK, vars, env, joined
<1> QED BY <1>1, <1>2, <1>3, <1>4, <1>5, <1>6, <1>7, <1>8, <1>9, <1>10, <1>11, <1>12,
           <1>13, <1>14, <1>15, <1>16, <1>17 DEF Next, Run

\* What the processes and the clock do leaves Run alone; a cancellation adds a reason.
LEMMA RunStep ==
  ASSUME [Next]_vars
  PROVE  \/ Run
         \/ /\ UNCHANGED <<env, pc, timedOut, signalled, forced, outcome>>
            /\ cancelled => cancelled'
            /\ expired' => expired \/ limited
<1> QED BY DEF Next, vars, env, joined, CopyEnds, Expire, Cancel, Exit, Die, Ends, Leave, Fork

\* Signals keep having a reason.
LEMMA SignalledStep ==
  ASSUME TypeOK, SignalledForAReason, AnswerIsLast, PlainMeansUntouched, [Next]_vars
  PROVE  SignalledForAReason' /\ AnswerIsLast' /\ PlainMeansUntouched'
<1> USE DEF SignalledForAReason, AnswerIsLast, PlainMeansUntouched, env, joined
<1>1. CASE Start
  BY <1>1 DEF Start, Answers
<1>2. CASE Attach
  BY <1>2 DEF Attach, Goes
<1>3. CASE WaitReturns
  BY <1>3 DEF WaitReturns
<1>4. CASE Wake
  BY <1>4 DEF Wake, Goes, TypeOK
<1>5. CASE SignalGraceful
  BY <1>5 DEF SignalGraceful, Goes
<1>6. CASE Grace
  BY <1>6 DEF Grace, Goes
<1>7. CASE TerminateTree
  BY <1>7 DEF TerminateTree, Goes
<1>8. CASE Drain
  BY <1>8 DEF Drain, Goes
<1>9. CASE Abandon
  BY <1>9 DEF Abandon, Answers
<1>10. CASE Answer
  BY <1>10 DEF Answer, Answers
<1>11. CASE /\ UNCHANGED <<env, pc, timedOut, signalled, forced, outcome>>
            /\ cancelled => cancelled'
            /\ expired' => expired \/ limited
  BY <1>11 DEF env, joined
<1> QED BY <1>1, <1>2, <1>3, <1>4, <1>5, <1>6, <1>7, <1>8, <1>9, <1>10, <1>11, RunStep DEF Run

\* The job stays empty until the child is in it.
LEMMA JobStep == ASSUME TypeOK, JobIsEmpty, [Next]_vars PROVE JobIsEmpty'
<1> SUFFICES ASSUME system' = "windows", pc' \in {"start", "attach", "abandon"},
                    NEW r \in Procs
             PROVE  ~proc'[r].tree
  BY DEF JobIsEmpty
<1> USE DEF JobIsEmpty
<1>1. CASE Start
  <2>1. system = "windows" /\ pc = "start"
    BY <1>1 DEF Start, env, joined
  <2> QED BY <1>1, <2>1, StartBears
<1>2. CASE Attach
  <2>1. pc' = "abandon" /\ pc = "attach" /\ system = "windows"
    BY <1>2 DEF Attach, Goes, env, joined
  <2> QED BY <1>2, <2>1, AttachKeeps DEF Dying
<1>3. CASE /\ UNCHANGED <<system, pc, proc>>
  BY <1>3
<1>4. CASE Run /\ ~Start /\ ~Attach
  <2>1. WaitReturns
    BY <1>4 DEF Run, Wake, SignalGraceful, Grace, TerminateTree, Drain, Abandon, Answer,
                Answers, Goes
  <2> QED BY <2>1, <1>3 DEF WaitReturns, env, joined
<1>5. ASSUME NEW p \in Procs, Exit(p) \/ Die(p) PROVE ~proc'[r].tree
  BY <1>5, EndsKills DEF Dying, Exit, Die, Ends, env, joined
<1>6. ASSUME NEW p \in Procs, Leave(p) PROVE ~proc'[r].tree
  BY <1>6, LeaveKeeps DEF Leave, env, joined
<1>7. ASSUME NEW p \in Procs, NEW q \in Procs, Fork(p, q) PROVE ~proc'[r].tree
  <2>1. \A s \in Procs : ~proc[s].tree
    BY <1>7 DEF Fork, env, joined
  <2> QED BY <1>7, <2>1, ForkBears
<1>8. CASE CopyEnds \/ Expire \/ Cancel \/ UNCHANGED vars
  BY <1>3, <1>8 DEF CopyEnds, Expire, Cancel, vars, env, joined
<1> QED BY <1>1, <1>2, <1>4, <1>5, <1>6, <1>7, <1>8 DEF Next

\* Once nobody in the tree is alive nobody will be.
LEMMA TreeStaysEnded ==
  ASSUME TypeOK, \A p \in Procs : proc[p].tree => proc[p].state # "alive",
         \E p \in Procs : \/ Exit(p) \/ Die(p) \/ Leave(p) \/ \E q \in Procs : Fork(p, q)
  PROVE  \A p \in Procs : proc'[p].tree => proc'[p].state # "alive"
<1>1. ASSUME NEW p \in Procs, Exit(p) \/ Die(p)
      PROVE  \A r \in Procs : proc'[r].tree => proc'[r].state # "alive"
  BY <1>1, EndsKills DEF Dying, Exit, Die
<1>2. ASSUME NEW p \in Procs, Leave(p)
      PROVE  \A r \in Procs : proc'[r].tree => proc'[r].state # "alive"
  BY <1>2, LeaveKeeps
<1>3. ASSUME NEW p \in Procs, NEW q \in Procs, Fork(p, q)
      PROVE  \A r \in Procs : proc'[r].tree => proc'[r].state # "alive"
  <2>1. proc[p].state = "alive" /\ ~proc[p].tree
    BY <1>3 DEF Fork, TypeOK, Processes
  <2> QED BY <1>3, <2>1, ForkBears
<1> QED BY <1>1, <1>2, <1>3

\* Ending the tree is final, and so is closing the job.
LEMMA TreeStep ==
  ASSUME TypeOK, JobIsEmpty, ForcedIsFinal, TreeEnds, [Next]_vars
  PROVE  ForcedIsFinal' /\ TreeEnds'
<1> DEFINE Ended == \A p \in Procs : proc[p].tree => proc[p].state # "alive"
<1>0. (Tree = {p \in Procs : proc[p].tree}) /\ (Tree' = {p \in Procs : proc'[p].tree})
  BY DEF Tree
<1>1. CASE TerminateTree
  <2>1. forced' /\ pc' = "drain" /\ proc' = Doomed(Tree)
    BY <1>1 DEF TerminateTree, Goes
  <2>2. Tree \in SUBSET Procs
    BY DEF Tree
  <2>3. Ended'
    BY <2>1, <2>2, <1>0, DoomedKills
  <2> QED BY <2>1, <2>3 DEF ForcedIsFinal, TreeEnds
<1>2. CASE Answer
  <2>1. /\ pc = "result" /\ pc' = "returned" /\ UNCHANGED <<system, forced>>
        /\ proc' = Released
    BY <1>2 DEF Answer, Answers, env, joined
  <2>2. Tree \in SUBSET Procs
    BY DEF Tree
  <2>3. system = "windows" => Ended'
    BY <2>1, <2>2, <1>0, DoomedKills DEF Released
  <2>4. forced => Ended'
    <3>1. CASE system = "windows"
      BY <2>3, <3>1
    <3>2. CASE system # "windows"
      BY <2>1, <3>2 DEF Released, ForcedIsFinal
    <3> QED BY <3>1, <3>2
  <2> QED BY <2>1, <2>3, <2>4, <1>0 DEF ForcedIsFinal, TreeEnds
<1>3. CASE Start \/ Abandon
  <2>1. /\ pc \in {"start", "abandon"} /\ UNCHANGED <<system, forced>>
        /\ pc' = "attach" \/ (pc' = "returned" /\ proc' = proc)
    BY <1>3 DEF Start, Abandon, Answers, env, joined
  <2>2. ~forced
    BY <2>1 DEF ForcedIsFinal
  <2>3. pc' = "returned" /\ system = "windows" => Ended'
    BY <2>1 DEF JobIsEmpty
  <2> QED BY <2>1, <2>2, <2>3, <1>0 DEF ForcedIsFinal, TreeEnds
<1>4. CASE Attach \/ SignalGraceful \/ Grace
  <2>1. pc \in {"attach", "graceful", "grace"} /\ UNCHANGED forced /\ pc' # "returned"
    BY <1>4 DEF Attach, SignalGraceful, Grace, Goes
  <2> QED BY <2>1 DEF ForcedIsFinal, TreeEnds
<1>5. CASE WaitReturns \/ Wake \/ Drain
  <2>1. /\ pc # "returned" /\ pc' # "returned" /\ UNCHANGED <<proc, forced>>
        /\ \/ UNCHANGED pc
           \/ pc = "wait"
           \/ pc' = "result"
    BY <1>5 DEF WaitReturns, Wake, Drain, Goes
  <2> QED BY <2>1 DEF ForcedIsFinal, TreeEnds
<1>6. CASE CopyEnds \/ Expire \/ Cancel \/ UNCHANGED vars
  <2>1. UNCHANGED <<system, pc, proc, forced>>
    BY <1>6 DEF CopyEnds, Expire, Cancel, vars, env, joined
  <2> QED BY <2>1, <1>0 DEF ForcedIsFinal, TreeEnds
<1>7. CASE \E p \in Procs :
             \/ Exit(p) \/ Die(p) \/ Leave(p) \/ \E q \in Procs : Fork(p, q)
  <2>1. UNCHANGED <<system, pc, forced>>
    BY <1>7 DEF Exit, Die, Ends, Leave, Fork, env, joined
  <2>2. Ended => Ended'
    BY <1>7, TreeStaysEnded
  <2> QED BY <2>1, <2>2, <1>0 DEF ForcedIsFinal, TreeEnds
<1> QED BY <1>1, <1>2, <1>3, <1>4, <1>5, <1>6, <1>7 DEF Next, Run

\* The invariant is inductive.
LEMMA StepInv == ASSUME IInv, [Next]_vars PROVE IInv'
BY TypeStep, SignalledStep, JobStep, TreeStep DEF IInv

-----------------------------------------------------------------------------
(* Theorems *)

\* In every behaviour of Run, with any number of processes on both systems, the
\* inductive invariant holds.
THEOREM Invariant == Spec => []IInv
<1>1. IInv /\ [Next]_vars => IInv'
  BY StepInv
<1> QED BY InitInv, <1>1, PTL DEF Spec

\* A run that was cut off never passes for a plain end, whatever the race.
THEOREM PlainUntouched == Spec => []PlainMeansUntouched
<1>1. IInv => PlainMeansUntouched
  BY DEF IInv
<1> QED BY Invariant, <1>1, PTL

\* Nothing of the tree outlives a run on Windows, or one that ended it.
THEOREM TreeEnded == Spec => []TreeEnds
<1>1. IInv => TreeEnds
  BY DEF IInv
<1> QED BY Invariant, <1>1, PTL

-----------------------------------------------------------------------------
(* The names that are oldest *)

\* Of two rotated names one is older, and none is older than itself.
LEMMA OlderIsTotal ==
  /\ \A m, n \in Nat \X Nat : OlderName(m, n) \/ OlderName(n, m) \/ m = n
  /\ \A m \in Nat \X Nat : ~OlderName(m, m)
  /\ \A l, m, n \in Nat \X Nat : OlderName(l, m) /\ OlderName(m, n) => OlderName(l, n)
BY DEF OlderName

\* As many names are oldest as are asked for: the number of names older than one is
\* a different one for each, so that every number below that of the names occurs.
LEMMA OldestAreEnough ==
  ASSUME NEW S, IsFiniteSet(S), S \subseteq Nat \X Nat, NEW c \in Nat, c <= Cardinality(S)
  PROVE  IsFiniteSet(Oldest(S, c)) /\ Cardinality(Oldest(S, c)) >= c
<1> DEFINE Older(n) == {m \in S : OlderName(m, n)}
           rank == [n \in S |-> Cardinality(Older(n))]
           size == Cardinality(S)
<1>1. size \in Nat /\ size = Cardinality(S)
  BY FS_CardinalityType
<1>2. \A n \in S : rank[n] = Cardinality(Older(n))
  OBVIOUS
<1>3. rank = [n \in S |-> rank[n]] /\ DOMAIN rank = S
  OBVIOUS
<1> HIDE DEF rank, size
<1>4. ASSUME NEW n \in S
      PROVE  IsFiniteSet(Older(n)) /\ rank[n] \in Nat /\ rank[n] < size
  <2>1. IsFiniteSet(S \ {n}) /\ Cardinality(S \ {n}) = size - 1
    BY <1>1, FS_RemoveElement
  <2>2. Older(n) \subseteq S \ {n}
    BY OlderIsTotal
  <2>3. IsFiniteSet(Older(n)) /\ Cardinality(Older(n)) <= size - 1
    BY <2>1, <2>2, FS_Subset
  <2>4. Cardinality(Older(n)) \in Nat
    BY <2>3, FS_CardinalityType
  <2> QED BY <1>2, <1>1, <2>3, <2>4
<1>5. \A n \in S : rank[n] \in Nat /\ rank[n] < size
  BY <1>4
<1>6. ASSUME NEW m \in S, NEW n \in S, OlderName(m, n) PROVE rank[m] < rank[n]
  <2>1. m \in Older(n) /\ Older(m) \subseteq Older(n) \ {m}
    BY <1>6, OlderIsTotal
  <2>2. IsFiniteSet(Older(n) \ {m}) /\ Cardinality(Older(n) \ {m}) = rank[n] - 1
    BY <1>2, <1>4, <2>1, FS_RemoveElement
  <2>3. Cardinality(Older(m)) <= Cardinality(Older(n) \ {m})
    BY <2>1, <2>2, FS_Subset
  <2>4. rank[m] <= rank[n] - 1
    BY <1>2, <2>2, <2>3
  <2>5. rank[m] \in Nat /\ rank[n] \in Nat
    BY <1>5
  <2> HIDE DEF Older
  <2> QED BY <2>4, <2>5
<1>7. ASSUME NEW m \in S, NEW n \in S, rank[m] = rank[n] PROVE m = n
  <2>1. rank[m] \in Nat /\ rank[n] \in Nat
    BY <1>4
  <2>2. ~OlderName(m, n) /\ ~OlderName(n, m)
    BY <1>6, <1>7, <2>1
  <2> QED BY <2>2, OlderIsTotal
<1>8. ASSUME NEW k \in 0 .. size - 1 PROVE \E n \in S : rank[n] = k
  <2> SUFFICES ASSUME \A n \in S : rank[n] # k PROVE FALSE
    OBVIOUS
  <2> DEFINE T == (0 .. size - 1) \ {k}
  <2>1. IsFiniteSet(0 .. size - 1) /\ Cardinality(0 .. size - 1) = size
    BY <1>1, FS_Interval
  <2>2. IsFiniteSet(T) /\ Cardinality(T) < size
    <3>1. IsFiniteSet(T) /\ Cardinality(T) = Cardinality(0 .. size - 1) - 1
      BY <2>1, FS_RemoveElement
    <3> QED BY <1>1, <2>1, <3>1
  <2>3. rank \in [S -> T]
    <3>1. ASSUME NEW n \in S PROVE rank[n] \in T
      <4>1. rank[n] \in 0 .. size - 1
        BY <1>1, <1>5
      <4> QED BY <4>1
    <3> QED BY <1>3, <3>1
  <2> HIDE DEF T
  <2>4. Cardinality(T) < Cardinality(S)
    BY <1>1, <2>2
  <2>5. \E x, y \in S : x # y /\ rank[x] = rank[y]
    BY <2>2, <2>3, <2>4, FS_PigeonHole
  <2> QED BY <1>7, <2>5
<1>9. Oldest(S, c) = {n \in S : rank[n] < c}
  BY <1>2 DEF Oldest
<1>10. IsFiniteSet(Oldest(S, c)) /\ Cardinality(Oldest(S, c)) \in Nat
  BY <1>9, FS_Subset, FS_CardinalityType
<1>11. Cardinality(Oldest(S, c)) >= c
  <2> SUFFICES ASSUME Cardinality(Oldest(S, c)) < c PROVE FALSE
    BY <1>10
  <2> DEFINE at == [k \in 0 .. c - 1 |-> CHOOSE n \in S : rank[n] = k]
  <2>1. \A k \in 0 .. c - 1 : k \in 0 .. size - 1
    BY <1>1
  <2>2. \A k \in 0 .. c - 1 : at[k] \in S /\ rank[at[k]] = k
    BY <1>8, <2>1
  <2>3. \A k \in 0 .. c - 1 : at[k] \in Oldest(S, c)
    BY <1>9, <2>2
  <2>4. at \in [0 .. c - 1 -> Oldest(S, c)]
    BY <2>3
  <2>5. IsFiniteSet(0 .. c - 1) /\ Cardinality(0 .. c - 1) = c
    BY FS_Interval
  <2> HIDE DEF at
  <2>6. \E x, y \in 0 .. c - 1 : x # y /\ at[x] = at[y]
    BY <1>10, <2>4, <2>5, FS_PigeonHole
  <2> QED BY <2>2, <2>6
<1> QED BY <1>10, <1>11

-----------------------------------------------------------------------------
(* The rotated log *)

\* The names the logger gives are the rotated ones among those that are there.
LEMMA RotatedAre ==
  LogTypeOK => /\ IsFiniteSet(RotatedLogs) /\ RotatedLogs = Names \cap RotatedNames
               /\ Cardinality(RotatedLogs) \in Nat
<1> SUFFICES ASSUME LogTypeOK
             PROVE  /\ IsFiniteSet(RotatedLogs) /\ RotatedLogs = Names \cap RotatedNames
                    /\ Cardinality(RotatedLogs) \in Nat
  OBVIOUS
<1>1. Writers \subseteq Nat \ {0}
  BY LogAssumption DEF LogAssumption
<1>2. \A n \in RotatedNames : n[2] # 0
  BY <1>1 DEF RotatedNames
<1>3. LogFileName[2] = 0 /\ Unlike[2] = 0
  BY DEF LogFileName, Unlike
<1>4. RotatedLogs = Names \cap RotatedNames
  BY <1>2, <1>3 DEF RotatedLogs, parseRotatedLogName, LogTypeOK
<1>5. IsFiniteSet(RotatedLogs)
  BY <1>4, FS_Subset DEF LogTypeOK
<1> QED BY <1>4, <1>5, FS_CardinalityType

\* The current log and the user's file have names of their own.
LEMMA OtherNames ==
  /\ LogFileName # Unlike /\ LogFileName \notin RotatedNames /\ Unlike \notin RotatedNames
  /\ LogFileName[2] = 0 /\ Unlike[2] = 0
<1>1. Writers \subseteq Nat \ {0}
  BY LogAssumption DEF LogAssumption
<1> QED BY <1>1 DEF LogFileName, Unlike, RotatedNames

\* At first nothing is rotated.
LEMMA LogInitInv == LogInit => LogInv
<1> SUFFICES ASSUME LogInit PROVE LogInv
  OBVIOUS
<1>1. PICK kind \in {"file", "directory", "symlink"} :
        logs = [n \in {LogFileName, Unlike} |->
                  [kind |-> IF n = LogFileName THEN kind ELSE "file", lines |-> <<>>]]
  BY DEF LogInit
<1>2. Names = {LogFileName} \cup {Unlike}
  BY <1>1 DEF Names
<1>3. IsFiniteSet({LogFileName} \cup {Unlike})
  BY FS_Singleton, FS_AddElement
<1>4. logging = [p \in Writers |-> Quiet] /\ second = 1
  BY DEF LogInit
<1>5. Quiet.step = "idle" /\ Quiet.doomed = {} /\ Quiet \in Rotations
  BY DEF Quiet, Rotations
<1>6. LogTypeOK
  BY <1>2, <1>3, <1>4, <1>5 DEF LogTypeOK
<1>7. RotatedLogs = {}
  BY <1>2, <1>6, RotatedAre, OtherNames
<1>8. Cardinality(RotatedLogs \ DoomedLogs) = 0
  BY <1>7, FS_EmptySet
<1>9. 0 <= keep
  BY LogAssumption DEF LogAssumption, keep
<1> QED BY <1>2, <1>4, <1>5, <1>6, <1>8, <1>9 DEF LogInv, NamesAreOwn, SurplusIsDoomed

\* What a process may come to.
LEMMA RotationsAre ==
  /\ \A l \in Rotations : \A step \in {"idle", "rename", "list", "remove", "append"} :
       /\ [l EXCEPT !.step = step] \in Rotations
       /\ [l EXCEPT !.step = step].step = step /\ [l EXCEPT !.step = step].doomed = l.doomed
       /\ [l EXCEPT !.step = step].failed = l.failed /\ [l EXCEPT !.step = step].name = l.name
  /\ \A l \in Rotations : \A b \in BOOLEAN :
       LET done == [Quiet EXCEPT !.written = l.written + 1, !.failed = b] IN
       done \in Rotations /\ done.step = "idle" /\ done.doomed = {} /\ done.failed = b
<1>1. ASSUME NEW l \in Rotations, NEW b \in BOOLEAN
      PROVE  LET done == [Quiet EXCEPT !.written = l.written + 1, !.failed = b] IN
             done \in Rotations /\ done.step = "idle" /\ done.doomed = {} /\ done.failed = b
  <2> DEFINE done == [Quiet EXCEPT !.written = l.written + 1, !.failed = b]
  <2>1. l.written + 1 \in Nat
    BY DEF Rotations
  <2>2. Quiet \in Rotations /\ Quiet.step = "idle" /\ Quiet.doomed = {}
    BY DEF Quiet, Rotations
  <2> QED BY <2>1, <2>2 DEF Rotations
<1> QED BY <1>1 DEF Rotations

\* A step that leaves the files alone keeps the invariant if the process fails, owes
\* nothing before and after, or is about to look at the files.
LEMMA LoggingInv ==
  ASSUME LogInv, NEW p \in Writers, NEW new \in Rotations, logging' = [logging EXCEPT ![p] = new],
         UNCHANGED <<logs, second>>, logging[p].failed => new.failed,
         new.step = "rename" => new.name \in Nat \X {p},
         (\A q \in Writers : ~logging[q].failed) /\ ~new.failed =>
           /\ new.step # "remove" => new.doomed = {}
           /\ new.step = "list" \/ (logging[p].step # "list" /\ logging[p].doomed = new.doomed)
  PROVE  LogInv'
<1> USE DEF LogInv
<1>1. logging'[p] = new /\ \A q \in Writers : q # p => logging'[q] = logging[q]
  BY DEF LogTypeOK
<1>2. Names' = Names /\ RotatedLogs' = RotatedLogs
  BY DEF Names, RotatedLogs
<1>3. LogTypeOK'
  BY <1>2 DEF LogTypeOK
<1>4. NamesAreOwn'
  BY <1>1, <1>2 DEF NamesAreOwn
<1>5. ASSUME \A q \in Writers : ~logging'[q].failed
      PROVE  /\ \A q \in Writers : logging'[q].step # "remove" => logging'[q].doomed = {}
             /\ (\E q \in Writers : logging'[q].step = "list") \/ Cardinality(RotatedLogs' \ DoomedLogs') <= keep
  <2>1. \A q \in Writers : ~logging[q].failed /\ ~new.failed
    BY <1>1, <1>5
  <2>2. \A q \in Writers : logging'[q].step # "remove" => logging'[q].doomed = {}
    BY <1>1, <2>1 DEF SurplusIsDoomed
  <2>3. CASE new.step = "list"
    BY <1>1, <2>2, <2>3
  <2>4. CASE logging[p].step # "list" /\ logging[p].doomed = new.doomed
    <3>1. \A q \in Writers : logging'[q].doomed = logging[q].doomed
      BY <1>1, <2>4
    <3>2. DoomedLogs' = DoomedLogs
      BY <3>1 DEF DoomedLogs
    <3>3. \A q \in Writers : logging[q].step = "list" => logging'[q].step = "list"
      BY <1>1, <2>4
    <3> QED BY <1>2, <2>1, <2>2, <3>2, <3>3 DEF SurplusIsDoomed
  <2> QED BY <2>1, <2>3, <2>4
<1>6. SurplusIsDoomed'
  BY <1>5 DEF SurplusIsDoomed, keep
<1> QED BY <1>3, <1>4, <1>6

\* A rotation that fails counts no more.
LEMMA LogFailsInv ==
  ASSUME LogInv, NEW p \in Writers, LogFails(p) \/ LineDone(p, TRUE), UNCHANGED <<logs, second>>
  PROVE  LogInv'
<1>1. logging[p] \in Rotations
  BY DEF LogInv, LogTypeOK
<1>2. CASE LineDone(p, TRUE)
  BY <1>1, <1>2, RotationsAre, LoggingInv DEF LineDone
<1>3. CASE logging' = [logging EXCEPT ![p].step = "append", ![p].failed = TRUE]
  <2> DEFINE new == [logging[p] EXCEPT !.step = "append", !.failed = TRUE]
  <2>1. new \in Rotations /\ new.step = "append" /\ new.failed = TRUE
    BY <1>1 DEF Rotations
  <2>2. logging' = [logging EXCEPT ![p] = new]
    BY <1>1, <1>3
  <2> HIDE DEF new
  <2> QED BY <2>1, <2>2, LoggingInv
<1> QED BY <1>2, <1>3 DEF LogFails

\* RotateLogs and Pruned: the process goes on, or gives its line up.
LEMMA RotateLogsInv ==
  ASSUME LogInv, NEW p \in Writers, RotateLogs(p) \/ Pruned(p)
  PROVE  LogInv'
<1> USE DEF LogInv
<1>1. logging[p] \in Rotations /\ second \in Nat
  BY DEF LogTypeOK
<1>2. UNCHANGED <<logs, second>>
  BY DEF RotateLogs, Pruned
<1>3. /\ logging[p].step \in {"idle", "remove"}
      /\ (\A q \in Writers : ~logging[q].failed) => logging[p].doomed = {}
  BY DEF RotateLogs, Pruned, SurplusIsDoomed
<1>4. CASE LineDone(p, TRUE)
  BY <1>2, <1>4, LogFailsInv
<1>5. CASE Steps(p, "append")
  <2> DEFINE new == [logging[p] EXCEPT !.step = "append"]
  <2>1. /\ new \in Rotations /\ new.step = "append" /\ new.doomed = logging[p].doomed
        /\ new.failed = logging[p].failed
    BY <1>1, RotationsAre
  <2>2. logging' = [logging EXCEPT ![p] = new]
    BY <1>1, <1>5 DEF Steps
  <2> HIDE DEF new
  <2> QED BY <1>2, <1>3, <2>1, <2>2, LoggingInv
<1>6. CASE logging' = [logging EXCEPT ![p].step = "rename", ![p].name = rotatedLogName(second, p)]
  <2> DEFINE new == [logging[p] EXCEPT !.step = "rename", !.name = <<second, p>>]
  <2>1. /\ new \in Rotations /\ new.step = "rename" /\ new.doomed = logging[p].doomed
        /\ new.failed = logging[p].failed /\ new.name \in Nat \X {p}
    BY <1>1 DEF Rotations, RotatedNames
  <2>2. logging' = [logging EXCEPT ![p] = new]
    BY <1>1, <1>6 DEF rotatedLogName
  <2> HIDE DEF new
  <2> QED BY <1>2, <1>3, <2>1, <2>2, LoggingInv
<1> QED BY <1>4, <1>5, <1>6 DEF RotateLogs, Pruned

\* The process that has moved the file is to look for the oldest.
LEMMA RenameLogInv ==
  ASSUME LogInv, NEW p \in Writers, RenameLog(p)
  PROVE  LogInv'
<1> USE DEF LogInv
<1>1. logging[p] \in Rotations /\ logging[p].step = "rename" /\ logging[p].name \in Nat \X {p}
  BY DEF RenameLog, LogTypeOK, NamesAreOwn
<1> DEFINE new == [logging[p] EXCEPT !.step = "list"]
<1>2. /\ new \in Rotations /\ new.step = "list" /\ new.doomed = logging[p].doomed
      /\ new.failed = logging[p].failed
  BY <1>1, RotationsAre
<1>3. Steps(p, "list") => logging' = [logging EXCEPT ![p] = new]
  BY DEF Steps, LogTypeOK
<1> HIDE DEF new
<1>4. CASE LogFails(p) /\ UNCHANGED logs
  BY <1>4, LogFailsInv DEF RenameLog
<1>5. ASSUME UNCHANGED logs, Steps(p, "list") PROVE LogInv'
  <2>1. (\A q \in Writers : ~logging[q].failed) => logging[p].doomed = {}
    BY <1>1 DEF SurplusIsDoomed
  <2> QED BY <1>2, <1>3, <1>5, <2>1, LoggingInv DEF RenameLog
<1>6. CASE /\ LogFileName \in Names
           /\ logs' = [n \in (Names \ {LogFileName}) \cup {logging[p].name} |->
                         IF n = logging[p].name THEN logs[LogFileName] ELSE logs[n]]
           /\ Steps(p, "list")
  <2>1. Names' = (Names \ {LogFileName}) \cup {logging[p].name}
    BY <1>6 DEF Names
  <2>2. logging[p].name \in RotatedNames
    BY <1>1 DEF RotatedNames
  <2>3. IsFiniteSet(Names')
    BY <2>1, FS_RemoveElement, FS_AddElement DEF LogTypeOK
  <2>4. second' = second
    BY DEF RenameLog
  <2>5. LogTypeOK'
    BY <1>2, <1>3, <1>6, <2>1, <2>2, <2>3, <2>4 DEF LogTypeOK
  <2>6. logging'[p] = new /\ \A q \in Writers : q # p => logging'[q] = logging[q]
    BY <1>3, <1>6 DEF LogTypeOK
  <2>7. NamesAreOwn'
    BY <1>2, <2>1, <2>6, OtherNames DEF NamesAreOwn
  <2>8. ASSUME \A q \in Writers : ~logging'[q].failed, NEW q \in Writers, logging'[q].step # "remove"
        PROVE  logging'[q].doomed = {}
    <3>1. \A r \in Writers : ~logging[r].failed
      BY <1>2, <2>6, <2>8
    <3>2. logging[p].doomed = {}
      BY <1>1, <3>1 DEF SurplusIsDoomed
    <3> QED BY <1>2, <2>6, <2>8, <3>1, <3>2 DEF SurplusIsDoomed
  <2>9. \E q \in Writers : logging'[q].step = "list"
    BY <1>2, <2>6
  <2>10. SurplusIsDoomed'
    BY <2>8, <2>9 DEF SurplusIsDoomed
  <2> QED BY <2>5, <2>7, <2>10
<1> QED BY <1>4, <1>5, <1>6 DEF RenameLog

\* What one process dooms is enough: with it gone no file is too many.
LEMMA ListLogsInv ==
  ASSUME LogInv, NEW p \in Writers, ListLogs(p)
  PROVE  LogInv'
<1> USE DEF LogInv
<1> DEFINE oldest == Oldest(RotatedLogs, Cardinality(RotatedLogs) - keep)
           new == [logging[p] EXCEPT !.step = "remove", !.doomed = oldest]
<1>1. /\ logging[p] \in Rotations /\ logging[p].step = "list" /\ UNCHANGED <<logs, second>>
      /\ keep \in Nat
  BY LogAssumption DEF ListLogs, LogTypeOK, LogAssumption, keep
<1>2. CASE LogFails(p)
  BY <1>1, <1>2, LogFailsInv
<1>3. CASE logging' = [logging EXCEPT ![p].step = "remove", ![p].doomed = oldest]
  <2>1. /\ IsFiniteSet(RotatedLogs) /\ RotatedLogs = Names \cap RotatedNames
        /\ Cardinality(RotatedLogs) \in Nat
    BY RotatedAre
  <2>2. oldest \subseteq RotatedLogs
    BY DEF Oldest
  <2>3. IsFiniteSet(RotatedLogs \ oldest) /\ Cardinality(RotatedLogs \ oldest) <= keep
    <3>1. IsFiniteSet(RotatedLogs \ oldest) /\ Cardinality(RotatedLogs \ oldest) <= Cardinality(RotatedLogs)
      BY <2>1, FS_Subset
    <3>2. CASE Cardinality(RotatedLogs) <= keep
      <4>1. Cardinality(RotatedLogs \ oldest) \in Nat
        BY <3>1, FS_CardinalityType
      <4> HIDE DEF oldest
      <4> QED BY <1>1, <2>1, <3>1, <3>2, <4>1
    <3>3. CASE Cardinality(RotatedLogs) > keep
      <4> DEFINE c == Cardinality(RotatedLogs) - keep
      <4>1. c \in Nat /\ c <= Cardinality(RotatedLogs)
        BY <1>1, <2>1, <3>3
      <4>2. RotatedLogs \subseteq Nat \X Nat
        BY <2>1, LogAssumption DEF LogAssumption, RotatedNames
      <4>3. IsFiniteSet(oldest) /\ Cardinality(oldest) >= c
        BY <2>1, <4>1, <4>2, OldestAreEnough
      <4>4. Cardinality(RotatedLogs \ oldest) = Cardinality(RotatedLogs) - Cardinality(RotatedLogs \cap oldest)
        BY <2>1, FS_Difference
      <4>5. RotatedLogs \cap oldest = oldest
        BY <2>2
      <4>6. Cardinality(oldest) \in Nat
        BY <4>3, FS_CardinalityType
      <4>7. Cardinality(RotatedLogs \ oldest) = Cardinality(RotatedLogs) - Cardinality(oldest)
        BY <4>4, <4>5
      <4>8. Cardinality(RotatedLogs) - Cardinality(oldest) <= keep
        <5> HIDE DEF oldest
        <5> QED BY <1>1, <2>1, <4>3, <4>6
      <4> QED BY <3>1, <4>7, <4>8
    <3> QED BY <1>1, <2>1, <3>2, <3>3
  <2>4. oldest \subseteq RotatedNames
    BY <2>1, <2>2
  <2> HIDE DEF oldest
  <2>5. new \in Rotations /\ new.step = "remove" /\ new.doomed = oldest /\ new.failed = logging[p].failed
    BY <1>1, <2>4 DEF Rotations
  <2>6. logging' = [logging EXCEPT ![p] = new]
    BY <1>1, <1>3
  <2> HIDE DEF new
  <2>7. logging'[p] = new /\ \A q \in Writers : q # p => logging'[q] = logging[q]
    BY <2>6 DEF LogTypeOK
  <2>8. Names' = Names /\ RotatedLogs' = RotatedLogs
    BY <1>1 DEF Names, RotatedLogs
  <2>9. LogTypeOK'
    BY <1>1, <2>5, <2>6, <2>8 DEF LogTypeOK
  <2>10. NamesAreOwn'
    BY <2>5, <2>7, <2>8 DEF NamesAreOwn
  <2>11. Cardinality(RotatedLogs' \ DoomedLogs') <= keep
    <3>1. oldest \subseteq DoomedLogs'
      BY <2>5, <2>7 DEF DoomedLogs
    <3>2. RotatedLogs' \ DoomedLogs' \subseteq RotatedLogs \ oldest
      BY <2>8, <3>1
    <3>3. IsFiniteSet(RotatedLogs' \ DoomedLogs')
          /\ Cardinality(RotatedLogs' \ DoomedLogs') <= Cardinality(RotatedLogs \ oldest)
      BY <2>3, <3>2, FS_Subset
    <3>4. Cardinality(RotatedLogs' \ DoomedLogs') \in Nat /\ Cardinality(RotatedLogs \ oldest) \in Nat
      BY <2>3, <3>3, FS_CardinalityType
    <3> QED BY <1>1, <2>3, <3>3, <3>4
  <2>12. SurplusIsDoomed'
    <3>1. ASSUME \A q \in Writers : ~logging'[q].failed, NEW q \in Writers, logging'[q].step # "remove"
          PROVE  logging'[q].doomed = {}
      BY <2>5, <2>7, <3>1 DEF SurplusIsDoomed
    <3> QED BY <2>11, <3>1 DEF SurplusIsDoomed, keep
  <2> QED BY <2>9, <2>10, <2>12
<1> QED BY <1>2, <1>3 DEF ListLogs

\* A name that is removed is doomed no longer; what stays and is not doomed is no more.
LEMMA RemoveLogInv ==
  ASSUME LogInv, NEW p \in Writers, RemoveLog(p)
  PROVE  LogInv'
<1> USE DEF LogInv
<1>1. /\ logging[p] \in Rotations /\ logging[p].step = "remove" /\ second' = second
      /\ keep \in Nat
  BY LogAssumption DEF RemoveLog, LogTypeOK, LogAssumption, keep
<1>2. CASE LogFails(p) /\ UNCHANGED logs
  BY <1>1, <1>2, LogFailsInv
<1>3. ASSUME NEW n \in Oldest(logging[p].doomed, 1), logs' = [m \in Names \ {n} |-> logs[m]],
             logging' = [logging EXCEPT ![p].doomed = @ \ {n}]
      PROVE  LogInv'
  <2> DEFINE new == [logging[p] EXCEPT !.doomed = logging[p].doomed \ {n}]
  <2>1. /\ new \in Rotations /\ new.step = "remove" /\ new.doomed = logging[p].doomed \ {n}
        /\ new.failed = logging[p].failed
    BY <1>1 DEF Rotations
  <2>2. logging' = [logging EXCEPT ![p] = new]
    BY <1>1, <1>3
  <2> HIDE DEF new
  <2>3. logging'[p] = new /\ \A q \in Writers : q # p => logging'[q] = logging[q]
    BY <2>2 DEF LogTypeOK
  <2>4. n \in RotatedNames /\ n \in logging[p].doomed
    BY <1>1 DEF Oldest, Rotations
  <2>5. Names' = Names \ {n}
    BY <1>3 DEF Names
  <2>6. IsFiniteSet(Names')
    BY <2>5, FS_RemoveElement DEF LogTypeOK
  <2>7. LogTypeOK'
    BY <1>1, <2>1, <2>2, <2>5, <2>6 DEF LogTypeOK
  <2>8. NamesAreOwn'
    BY <2>1, <2>3, <2>4, <2>5, OtherNames DEF NamesAreOwn
  <2>9. ASSUME \A q \in Writers : ~logging'[q].failed
        PROVE  /\ \A q \in Writers : logging'[q].step # "remove" => logging'[q].doomed = {}
               /\ (\E q \in Writers : logging'[q].step = "list") \/ Cardinality(RotatedLogs' \ DoomedLogs') <= keep
    <3>1. \A q \in Writers : ~logging[q].failed
      BY <2>1, <2>3, <2>9
    <3>2. \A q \in Writers : logging'[q].step # "remove" => logging'[q].doomed = {}
      BY <2>1, <2>3, <3>1 DEF SurplusIsDoomed
    <3>3. CASE \E q \in Writers : logging[q].step = "list"
      BY <1>1, <2>3, <3>2, <3>3
    <3>4. CASE Cardinality(RotatedLogs \ DoomedLogs) <= keep
      <4>1. RotatedLogs' = RotatedLogs \ {n}
        BY <2>5 DEF RotatedLogs
      <4>2. DoomedLogs \subseteq DoomedLogs' \cup {n}
        BY <2>1, <2>3 DEF DoomedLogs
      <4>3. RotatedLogs' \ DoomedLogs' \subseteq RotatedLogs \ DoomedLogs
        BY <4>1, <4>2
      <4>4. IsFiniteSet(RotatedLogs \ DoomedLogs)
        BY RotatedAre, FS_Subset
      <4>5. IsFiniteSet(RotatedLogs' \ DoomedLogs')
            /\ Cardinality(RotatedLogs' \ DoomedLogs') <= Cardinality(RotatedLogs \ DoomedLogs)
        BY <4>3, <4>4, FS_Subset
      <4>6. Cardinality(RotatedLogs' \ DoomedLogs') \in Nat /\ Cardinality(RotatedLogs \ DoomedLogs) \in Nat
        BY <4>4, <4>5, FS_CardinalityType
      <4>7. Cardinality(RotatedLogs' \ DoomedLogs') <= keep
        BY <1>1, <3>4, <4>5, <4>6
      <4> QED BY <3>2, <4>7
    <3> QED BY <3>1, <3>3, <3>4 DEF SurplusIsDoomed
  <2>10. SurplusIsDoomed'
    BY <2>9 DEF SurplusIsDoomed, keep
  <2> QED BY <2>7, <2>8, <2>10
<1> QED BY <1>2, <1>3 DEF RemoveLog

\* The line goes to the current log; the process is done with it.
LEMMA AppendLineInv ==
  ASSUME LogInv, NEW p \in Writers, AppendLine(p)
  PROVE  LogInv'
<1> USE DEF LogInv
<1>1. logging[p] \in Rotations /\ logging[p].step = "append" /\ logging[p].failed \in BOOLEAN
  BY DEF AppendLine, LogTypeOK, Rotations
<1> DEFINE new == [Quiet EXCEPT !.written = logging[p].written + 1, !.failed = logging[p].failed]
<1>2. new \in Rotations /\ new.step = "idle" /\ new.doomed = {} /\ new.failed = logging[p].failed
  BY <1>1, RotationsAre
<1>3. logging' = [logging EXCEPT ![p] = new] /\ second' = second
  BY DEF AppendLine, LineDone
<1> HIDE DEF new
<1>4. logging'[p] = new /\ \A q \in Writers : q # p => logging'[q] = logging[q]
  BY <1>3 DEF LogTypeOK
<1>5. Names' = Names \cup {LogFileName}
  BY DEF AppendLine, Names
<1>6. IsFiniteSet(Names')
  BY <1>5, FS_AddElement DEF LogTypeOK
<1>7. LogTypeOK'
  BY <1>2, <1>3, <1>5, <1>6 DEF LogTypeOK
<1>8. NamesAreOwn'
  BY <1>2, <1>4, <1>5 DEF NamesAreOwn
<1>9. RotatedLogs' = RotatedLogs
  BY <1>5, OtherNames DEF RotatedLogs, parseRotatedLogName
<1>10. ASSUME \A q \in Writers : ~logging'[q].failed
       PROVE  /\ \A q \in Writers : logging'[q].step # "remove" => logging'[q].doomed = {}
              /\ (\E q \in Writers : logging'[q].step = "list") \/ Cardinality(RotatedLogs' \ DoomedLogs') <= keep
  <2>1. \A q \in Writers : ~logging[q].failed
    BY <1>2, <1>4, <1>10
  <2>2. logging[p].doomed = {}
    BY <1>1, <2>1 DEF SurplusIsDoomed
  <2>3. \A q \in Writers : logging'[q].doomed = logging[q].doomed
    BY <1>2, <1>4, <2>2
  <2>4. DoomedLogs' = DoomedLogs
    BY <2>3 DEF DoomedLogs
  <2>5. \A q \in Writers : logging[q].step = "list" => logging'[q].step = "list"
    BY <1>1, <1>4
  <2>6. \A q \in Writers : logging'[q].step # "remove" => logging'[q].doomed = {}
    BY <1>2, <1>4, <2>1 DEF SurplusIsDoomed
  <2> QED BY <1>9, <2>1, <2>4, <2>5, <2>6 DEF SurplusIsDoomed
<1>11. SurplusIsDoomed'
  BY <1>10 DEF SurplusIsDoomed, keep
<1> QED BY <1>7, <1>8, <1>11

\* Every step keeps the invariant.
LEMMA LogStepInv == LogInv /\ [LogNext]_logVars => LogInv'
<1> SUFFICES ASSUME LogInv, [LogNext]_logVars PROVE LogInv'
  OBVIOUS
<1>1. CASE UNCHANGED <<logs, logging>> /\ second' \in Nat
  BY <1>1 DEF LogInv, LogTypeOK, NamesAreOwn, SurplusIsDoomed, RotatedLogs, DoomedLogs, Names, keep
<1>2. NextSecond \/ UNCHANGED logVars => UNCHANGED <<logs, logging>> /\ second' \in Nat
  BY DEF NextSecond, logVars, LogInv, LogTypeOK
<1> QED BY <1>1, <1>2, RotateLogsInv, RenameLogInv, ListLogsInv, RemoveLogInv, AppendLineInv DEF LogNext

LEMMA LogInvariant == LogSpec => []LogInv
BY LogInitInv, LogStepInv, PTL DEF LogSpec

\* When no process is rotating and none has failed, there are no more files than
\* max_files, whatever the processes did meanwhile.
THEOREM LogIsBounded == LogSpec => []LogsBounded
<1>1. LogInv => LogsBounded
  <2> SUFFICES ASSUME LogInv, \A p \in Writers : logging[p].step = "idle" /\ ~logging[p].failed
               PROVE  Cardinality(RotatedLogs) < MaxFiles
    BY DEF LogsBounded
  <2>1. \A p \in Writers : logging[p].doomed = {}
    BY DEF LogInv, SurplusIsDoomed
  <2>2. RotatedLogs \ DoomedLogs = RotatedLogs
    BY <2>1 DEF DoomedLogs
  <2>3. Cardinality(RotatedLogs) <= keep
    BY <2>2 DEF LogInv, SurplusIsDoomed
  <2> QED BY <2>3, RotatedAre, LogAssumption DEF LogInv, LogAssumption, keep
<1> QED BY <1>1, LogInvariant, PTL

\* A file that was moved aside is removed by the retention of some process or
\* replaced by the process it belongs to, and the user's file stays.
LEMMA KeptStep ==
  ASSUME LogInv, [LogNext]_logVars
  PROVE  /\ Unlike \in Names'
         /\ \A n \in RotatedLogs :
              \/ n \in Names' /\ logs'[n] = logs[n]
              \/ n \notin Names' /\ \E p \in Writers : n \in logging[p].doomed
              \/ logging[n[2]].step = "rename" /\ logging'[n[2]].step = "list"
<1>1. Unlike \in Names'
  BY LogStepInv DEF LogInv, NamesAreOwn
<1>2. ASSUME NEW n \in RotatedLogs
      PROVE  \/ n \in Names' /\ logs'[n] = logs[n]
             \/ n \notin Names' /\ \E p \in Writers : n \in logging[p].doomed
             \/ logging[n[2]].step = "rename" /\ logging'[n[2]].step = "list"
  <2>1. n \in Names /\ n # LogFileName
    BY RotatedAre, OtherNames DEF LogInv
  <2>2. CASE logs' = logs
    BY <2>1, <2>2 DEF Names
  <2>3. ASSUME NEW p \in Writers, RenameLog(p), logs' # logs
        PROVE  \/ n \in Names' /\ logs'[n] = logs[n]
               \/ logging[n[2]].step = "rename" /\ logging'[n[2]].step = "list"
    <3>1. /\ logs' = [m \in (Names \ {LogFileName}) \cup {logging[p].name} |->
                        IF m = logging[p].name THEN logs[LogFileName] ELSE logs[m]]
          /\ logging[p].step = "rename" /\ Steps(p, "list")
      BY <2>3 DEF RenameLog
    <3>2. CASE n # logging[p].name
      BY <2>1, <3>1, <3>2 DEF Names
    <3>3. CASE n = logging[p].name
      <4>1. n[2] = p
        BY <3>1, <3>3 DEF LogInv, NamesAreOwn
      <4>2. logging'[p].step = "list"
        BY <3>1 DEF Steps, LogInv, LogTypeOK, Rotations
      <4> QED BY <3>1, <4>1, <4>2
    <3> QED BY <3>2, <3>3
  <2>4. ASSUME NEW p \in Writers, RemoveLog(p), logs' # logs
        PROVE  \/ n \in Names' /\ logs'[n] = logs[n]
               \/ n \notin Names' /\ \E q \in Writers : n \in logging[q].doomed
    <3>1. PICK m \in Oldest(logging[p].doomed, 1) : logs' = [k \in Names \ {m} |-> logs[k]]
      BY <2>4 DEF RemoveLog
    <3>2. m \in logging[p].doomed
      BY DEF Oldest
    <3> QED BY <2>1, <3>1, <3>2 DEF Names
  <2>5. ASSUME NEW p \in Writers, AppendLine(p)
        PROVE  n \in Names' /\ logs'[n] = logs[n]
    BY <2>1, <2>5 DEF AppendLine, Names
  <2> QED BY <2>2, <2>3, <2>4, <2>5 DEF LogNext, logVars, RotateLogs, ListLogs, Pruned, NextSecond
<1> QED BY <1>1, <1>2

\* For any number of writers and files: a log that was moved aside keeps its name and its
\* lines until the retention removes it or the writer it belongs to moves another there,
\* and the user's file stays.
THEOREM RotatedStay == LogSpec => RotatedLogsKept
<1>1. LogInv /\ [LogNext]_logVars =>
        [/\ Unlike \in Names'
         /\ \A n \in RotatedLogs :
              \/ n \in Names' /\ logs'[n] = logs[n]
              \/ n \notin Names' /\ \E p \in Writers : n \in logging[p].doomed
              \/ logging[n[2]].step = "rename" /\ logging'[n[2]].step = "list"]_logVars
  BY KeptStep
<1> QED BY <1>1, LogInvariant, PTL DEF LogSpec, RotatedLogsKept

-----------------------------------------------------------------------------
(* One HTTP request *)

\* The lesser of two numbers is one of them, and not above the other.
LEMMA LesserIs ==
  ASSUME NEW a \in Int, NEW b \in Int
  PROVE  Min({a, b}) \in {a, b} /\ Min({a, b}) <= a /\ Min({a, b}) <= b
<1> DEFINE least == IF a <= b THEN a ELSE b
<1>1. least \in {a, b} /\ \A n \in {a, b} : least <= n
  OBVIOUS
<1>2. Min({a, b}) \in {a, b} /\ \A n \in {a, b} : Min({a, b}) <= n
  <2> HIDE DEF least
  <2> QED BY <1>1 DEF Min
<1> QED BY <1>2

\* No pause is longer than the longest Retry-After, whatever the header says and
\* however its seconds wrap around.
LEMMA PauseIs ==
  ASSUME NEW header \in RetryAfters \cup {NoRetryAfter}, attempt \in 0 .. 2
  PROVE  Wait(retryAfterOf(header)) \in 0 .. MaxRetryAfter /\ Wait(0) \in 0 .. MaxRetryAfter
<1>1. header.value \in Int
  BY ClientAssumption DEF ClientAssumption, NoRetryAfter
<1>2. Wrapped(header.value) \in Int
  <2>1. DurationMax \in Nat
    BY ClientAssumption DEF ClientAssumption
  <2>2. 2 * DurationMax + 2 \in Nat \ {0} /\ header.value + DurationMax + 1 \in Int
    BY <1>1, <2>1
  <2>3. (header.value + DurationMax + 1) % (2 * DurationMax + 2) \in Int
    BY <2>2
  <2> QED BY <2>1, <2>3 DEF Wrapped
<1>3. retryAfterOf(header) \in Int
  BY <1>1, <1>2 DEF retryAfterOf
<1>4. \A n \in Int : n > 0 => Min({n, MaxRetryAfter}) \in 0 .. MaxRetryAfter
  <2>1. ASSUME NEW n \in Int, n > 0 PROVE Min({n, MaxRetryAfter}) \in 0 .. MaxRetryAfter
    <3>1. Min({n, MaxRetryAfter}) \in {n, MaxRetryAfter} /\ Min({n, MaxRetryAfter}) <= MaxRetryAfter
      BY LesserIs DEF MaxRetryAfter
    <3> QED BY <2>1, <3>1 DEF MaxRetryAfter
  <2> QED BY <2>1
<1>5. retryBackoff[attempt + 1] \in 0 .. MaxRetryAfter
  <2>1. attempt + 1 \in {1, 2, 3}
    OBVIOUS
  <2>2. retryBackoff[1] = 1 /\ retryBackoff[2] = 2 /\ retryBackoff[3] = 4
    BY DEF retryBackoff
  <2> QED BY <2>1, <2>2 DEF MaxRetryAfter
<1> QED BY <1>3, <1>4, <1>5 DEF Wait

Phases == {"validate", "send", "await", "sleep", "body", "done"}
HTTPTypeOK ==
  /\ asked \in Asked /\ sending \in Phases
  /\ attempt \in 0 .. MaxRetries /\ hop \in 0 .. MaxRedirects /\ pause \in 0 .. MaxRetryAfter
  /\ slept \in Nat /\ received \in Nat

\* The invariant behind Due: the client sleeps only while a retry is left, and not
\* longer than it may for each; a body is read only of a GET that succeeded, and not
\* beyond the limit.
HTTPInv ==
  /\ HTTPTypeOK /\ Due
  /\ slept <= attempt * MaxRetryAfter
  /\ sending = "sleep" => attempt < MaxRetries
  /\ sending \notin {"validate", "done"} => asked.bytes > 0 /\ asked.redirects >= 0
  /\ sending \notin {"body", "done"} => received = 0
  /\ sending = "body" =>
       /\ reply.status = "success" /\ reply.length \in Lengths
       /\ asked.method = "GET" /\ received <= offered /\ received <= asked.bytes
  /\ sending # "done" => got = ""

\* The numbers of a request, and those of the client.
LEMMA NumbersAre ==
  ASSUME HTTPInv
  PROVE  /\ attempt \in {0, 1, 2, 3} /\ hop \in Nat /\ hop <= MaxRedirects /\ MaxRedirects \in Nat
         /\ pause \in Nat /\ pause <= 30 /\ slept \in Nat /\ slept <= attempt * 30 /\ received \in Nat
         /\ asked.bytes \in Int /\ asked.redirects \in Int /\ asked.method \in {"GET", "HEAD"}
<1>1. HTTPTypeOK /\ slept <= attempt * MaxRetryAfter
  BY DEF HTTPInv
<1>2. MaxRedirects \in Nat /\ Asked \subseteq [method : {"GET", "HEAD"}, url : {"good", "refused"}, redirects : Int, bytes : Int]
  BY ClientAssumption DEF ClientAssumption
<1>3. asked \in [method : {"GET", "HEAD"}, url : {"good", "refused"}, redirects : Int, bytes : Int]
  BY <1>1, <1>2 DEF HTTPTypeOK
<1>4. attempt \in 0 .. 3 /\ hop \in 0 .. MaxRedirects /\ pause \in 0 .. 30 /\ slept <= attempt * 30
  BY <1>1 DEF HTTPTypeOK, MaxRetries, MaxRetryAfter
<1>5. slept \in Nat /\ received \in Nat
  BY <1>1 DEF HTTPTypeOK
<1>6. attempt \in {0, 1, 2, 3}
  BY <1>4
<1>7. hop \in Nat /\ hop <= MaxRedirects
  BY <1>2, <1>4
<1>8. pause \in Nat /\ pause <= 30
  BY <1>4
<1> QED BY <1>2, <1>3, <1>4, <1>5, <1>6, <1>7, <1>8

\* What a limit of redirects and what is offered of a body are.
LEMMA LimitsAre ==
  ASSUME HTTPInv
  PROVE  /\ asked.bytes \in Int /\ asked.redirects \in Int
         /\ limit \in Int /\ limit <= MaxRedirects
         /\ sending = "body" => /\ reply.length \in Nat /\ offered \in {reply.length, asked.bytes + 1}
                                /\ offered <= reply.length /\ offered <= asked.bytes + 1
<1>1. asked.bytes \in Int /\ asked.redirects \in Int /\ MaxRedirects \in Int
  BY NumbersAre
<1>2. limit \in {asked.redirects, MaxRedirects} /\ limit <= MaxRedirects
  BY <1>1, LesserIs DEF limit
<1>3. ASSUME sending = "body"
      PROVE  /\ reply.length \in Nat /\ offered \in {reply.length, asked.bytes + 1}
             /\ offered <= reply.length /\ offered <= asked.bytes + 1
  <2>1. reply.length \in Nat
    BY <1>3, ClientAssumption DEF ClientAssumption, HTTPInv
  <2>2. reply.length \in Int /\ asked.bytes + 1 \in Int
    BY <1>1, <2>1
  <2> HIDE DEF HTTPInv
  <2> QED BY <2>1, <2>2, LesserIs DEF offered
<1> QED BY <1>1, <1>2, <1>3

\* An attempt that failed is the last one, or is followed by a pause.
LEMMA FailedInv ==
  ASSUME HTTPInv, sending = "await", NEW r \in Responses \cup NetworkErrors,
         r.status \notin {"success", "redirect"}, reply' = r, Failed(r), UNCHANGED <<asked, left>>
  PROVE  HTTPInv'
<1>1. CASE GetEnds("failed") /\ (~Retryable(r) \/ attempt >= MaxRetries)
  <2>1. attempt = MaxRetries \/ ~Retryable(r)
    BY <1>1, NumbersAre DEF MaxRetries
  <2>2. Due'
    BY <1>1, <2>1 DEF GetEnds, HTTPInv, Due
  <2>3. HTTPTypeOK'
    BY <1>1 DEF GetEnds, HTTPInv, HTTPTypeOK, Phases
  <2> QED BY <1>1, <2>2, <2>3 DEF GetEnds, HTTPInv
<1>2. CASE /\ sending' = "sleep" /\ attempt < MaxRetries
           /\ pause' = Wait(IF r.status = "transient" THEN retryAfterOf(r.after) ELSE 0)
           /\ UNCHANGED <<attempt, hop, slept, received, got>>
  <2>1. pause' \in 0 .. MaxRetryAfter
    <3>1. attempt \in 0 .. 2
      BY <1>2, NumbersAre DEF MaxRetries
    <3>2. CASE r.status = "transient"
      <4>1. r.after \in RetryAfters
        BY <3>2 DEF Responses, NetworkErrors
      <4> QED BY <1>2, <3>1, <3>2, <4>1, PauseIs
    <3>3. CASE r.status # "transient"
      BY <1>2, <3>1, <3>3, PauseIs
    <3> QED BY <3>2, <3>3
  <2>2. Due'
    BY <1>2 DEF HTTPInv, Due
  <2>3. HTTPTypeOK'
    BY <1>2, <2>1 DEF HTTPInv, HTTPTypeOK, Phases
  <2> QED BY <1>2, <2>2, <2>3 DEF HTTPInv
<1>3. attempt >= MaxRetries \/ attempt < MaxRetries
  BY NumbersAre DEF MaxRetries
<1> QED BY <1>1, <1>2, <1>3 DEF Failed

LEMMA ReceiveInv == ASSUME HTTPInv, Receive PROVE HTTPInv'
<1>0. sending = "await" /\ UNCHANGED <<asked, left>>
  BY DEF Receive
<1>1. CASE left = "cancelled" /\ GetEnds("cancelled") /\ UNCHANGED reply
  BY <1>0, <1>1 DEF GetEnds, HTTPInv, HTTPTypeOK, Phases, Due
<1>2. ASSUME NEW e \in NetworkErrors, reply' = e, Failed(e) PROVE HTTPInv'
  <2>1. e.status \notin {"success", "redirect"}
    BY DEF NetworkErrors
  <2> QED BY <1>0, <1>2, <2>1, FailedInv
<1>3. ASSUME NEW r \in Responses, reply' = r, Answered(r) PROVE HTTPInv'
  <2>1. CASE GetEnds("failed") /\ (r.status = "redirect" \/ ~readBody(r))
    <3>1. Retryable(r) => ~readBody(r)
      BY <2>1 DEF Retryable
    <3>2. readBody(r) => (readBody(reply))'
      BY <1>0, <1>3 DEF readBody
    <3>3. (~readBody(r)) => ~(readBody(reply))'
      BY <1>0, <1>3 DEF readBody
    <3>4. Due'
      BY <1>0, <1>3, <2>1, <3>1, <3>3 DEF GetEnds, HTTPInv, Due, Retryable
    <3>5. HTTPTypeOK'
      BY <1>0, <2>1 DEF GetEnds, HTTPInv, HTTPTypeOK, Phases
    <3> QED BY <1>0, <2>1, <3>4, <3>5 DEF GetEnds, HTTPInv
  <2>2. CASE r.status = "redirect" /\ sending' = "send" /\ hop < limit /\ hop' = hop + 1 /\ UNCHANGED <<attempt, pause, slept, received, got>>
    <3>1. hop' \in 0 .. MaxRedirects
      BY <2>2, LimitsAre, NumbersAre
    <3> QED BY <1>0, <2>2, <3>1 DEF HTTPInv, HTTPTypeOK, Phases, Due
  <2>3. CASE r.status \notin {"success", "redirect"} /\ Failed(r)
    BY <1>0, <1>3, <2>3, FailedInv
  <2>4. CASE asked.method = "HEAD" /\ GetEnds("whole")
    <3>1. HTTPTypeOK' /\ Due'
      BY <1>0, <2>4 DEF GetEnds, HTTPInv, HTTPTypeOK, Phases, Due
    <3> QED BY <1>0, <2>4, <3>1 DEF GetEnds, HTTPInv
  <2>5. CASE r.status = "success" /\ asked.method # "HEAD" /\ SendGoes("body")
    <3>1. asked.method = "GET" /\ asked.bytes \in Int
      BY <2>5, NumbersAre
    <3>2. r.length \in Lengths /\ r.length \in Nat
      BY <2>5, ClientAssumption DEF ClientAssumption, Responses
    <3>3. received = 0 /\ asked.bytes > 0
      BY <1>0 DEF HTTPInv
    <3>4. offered' = Min({r.length, asked.bytes + 1})
      BY <1>0, <1>3 DEF offered
    <3>5. offered' \in {r.length, asked.bytes + 1}
      <4>1. r.length \in Int /\ asked.bytes + 1 \in Int
        BY <3>1, <3>2
      <4> QED BY <3>4, <4>1, LesserIs
    <3>6. offered' >= 0
      BY <3>1, <3>2, <3>3, <3>5
    <3>7. HTTPTypeOK' /\ Due'
      BY <1>0, <2>5 DEF SendGoes, HTTPInv, HTTPTypeOK, Phases, Due
    <3>8. /\ sending' = "body" /\ reply' = r /\ asked' = asked /\ received' = 0
          /\ UNCHANGED <<slept, attempt, got>>
      BY <1>0, <1>3, <2>5, <3>3 DEF SendGoes
    <3>9. received' <= offered' /\ received' <= asked'.bytes
      BY <3>1, <3>3, <3>6, <3>8
    <3> QED BY <1>0, <2>5, <3>1, <3>2, <3>3, <3>7, <3>8, <3>9 DEF HTTPInv
  <2>6. hop \in Int /\ limit \in Int
    BY LimitsAre, NumbersAre
  <2> QED BY <1>3, <2>1, <2>2, <2>3, <2>4, <2>5, <2>6 DEF Answered
<1> QED BY <1>1, <1>2, <1>3 DEF Receive

LEMMA HTTPStepInv == HTTPInv /\ [HTTPNext]_httpVars => HTTPInv'
<1> SUFFICES ASSUME HTTPInv, [HTTPNext]_httpVars PROVE HTTPInv'
  OBVIOUS
<1>1. CASE Validate
  BY <1>1, LimitsAre DEF Validate, validateRequest, SendGoes, GetEnds, HTTPInv, HTTPTypeOK, Phases, Due
<1>2. CASE Send
  BY <1>2 DEF Send, SendGoes, GetEnds, HTTPInv, HTTPTypeOK, Phases, Due
<1>3. CASE Receive
  BY <1>3, ReceiveInv
<1>4. CASE WakeUp
  <2>1. CASE left # "no" /\ GetEnds("cancelled")
    BY <1>4, <2>1 DEF WakeUp, GetEnds, HTTPInv, HTTPTypeOK, Phases, Due
  <2>2. CASE left = "no" /\ sending' = "send" /\ slept' = slept + pause /\ attempt' = attempt + 1 /\ hop' = 0 /\ UNCHANGED <<pause, received, got>>
    <3>0. sending = "sleep" /\ attempt < 3
      BY <1>4 DEF WakeUp, HTTPInv, MaxRetries
    <3>1. attempt' \in 0 .. 3 /\ slept' \in Nat /\ slept' <= attempt' * 30 /\ slept' <= 3 * 30
      <4> HIDE DEF HTTPInv
      <4> QED BY <2>2, <3>0, NumbersAre
    <3>2. attempt' \in 0 .. MaxRetries /\ slept' <= attempt' * MaxRetryAfter
      BY <3>1 DEF MaxRetries, MaxRetryAfter
    <3>3. slept' <= MaxRetries * MaxRetryAfter
      BY <3>1 DEF MaxRetries, MaxRetryAfter
    <3>4. 0 \in 0 .. MaxRedirects
      BY NumbersAre
    <3>5. HTTPTypeOK'
      BY <1>4, <2>2, <3>1, <3>2, <3>4 DEF WakeUp, HTTPInv, HTTPTypeOK, Phases
    <3>6. Due'
      BY <1>4, <2>2, <3>0, <3>3 DEF WakeUp, HTTPInv, Due
    <3> QED BY <1>4, <2>2, <3>0, <3>2, <3>5, <3>6 DEF WakeUp, HTTPInv
  <2> QED BY <1>4, <2>1, <2>2 DEF WakeUp
<1>5. CASE ReadBody
  <2>0. sending = "body" /\ UNCHANGED <<asked, reply, left>>
    BY <1>5 DEF ReadBody
  <2>1. /\ asked.bytes \in Int /\ reply.length \in Nat /\ offered \in {reply.length, asked.bytes + 1}
        /\ offered <= asked.bytes + 1 /\ received <= offered /\ received <= asked.bytes /\ received \in Nat
    BY <2>0, LimitsAre DEF HTTPInv, HTTPTypeOK
  <2>2. offered' = offered
    BY <2>0 DEF offered
  <2>3. CASE GetEnds("too_long") \/ GetEnds("interrupted")
    BY <2>0, <2>3 DEF GetEnds, HTTPInv, HTTPTypeOK, Phases, Due
  <2>4. CASE received = offered /\ GetEnds("whole")
    <3>1. received = reply.length
      BY <2>1, <2>4
    <3> QED BY <2>0, <2>1, <2>4, <3>1 DEF GetEnds, HTTPInv, HTTPTypeOK, Phases, Due
  <2>5. ASSUME NEW n \in 1 .. offered - received, ~(received + n > asked.bytes), received' = received + n,
               UNCHANGED <<sending, attempt, hop, pause, slept, got>>
        PROVE  HTTPInv'
    <3>1. offered \in Int
      BY <2>1
    <3>2. received' \in Nat /\ received' <= offered /\ received' <= asked.bytes
      BY <2>1, <2>5, <3>1
    <3> QED BY <2>0, <2>1, <2>2, <2>5, <3>2 DEF HTTPInv, HTTPTypeOK, Due
  <2> QED BY <1>5, <2>3, <2>4, <2>5 DEF ReadBody
<1>6. CASE CallerLeaves
  <2>1. offered' = offered
    BY <1>6 DEF CallerLeaves, offered
  <2> QED BY <1>6, <2>1 DEF CallerLeaves, HTTPInv, HTTPTypeOK, Due
<1>7. CASE UNCHANGED httpVars
  <2>1. offered' = offered
    BY <1>7 DEF httpVars, offered
  <2>2. (readBody(reply))' <=> readBody(reply)
    BY <1>7 DEF httpVars, readBody
  <2>3. Due'
    BY <1>7, <2>2 DEF httpVars, HTTPInv, Due
  <2> QED BY <1>7, <2>1, <2>3 DEF httpVars, HTTPInv, HTTPTypeOK
<1> QED BY <1>1, <1>2, <1>3, <1>4, <1>5, <1>6, <1>7 DEF HTTPNext, HTTPStep

LEMMA HTTPInitInv == HTTPInit => HTTPInv
<1> SUFFICES ASSUME HTTPInit PROVE HTTPInv
  OBVIOUS
<1>1. 0 \in 0 .. MaxRedirects /\ 0 \in 0 .. MaxRetries /\ 0 \in 0 .. MaxRetryAfter
  BY ClientAssumption DEF ClientAssumption, MaxRetries, MaxRetryAfter
<1>2. 0 <= 0 * MaxRetryAfter /\ 0 <= MaxRetries * MaxRetryAfter
  BY DEF MaxRetries, MaxRetryAfter
<1>3. HTTPTypeOK /\ Due
  BY <1>1, <1>2 DEF HTTPInit, HTTPTypeOK, Phases, Due
<1> QED BY <1>2, <1>3 DEF HTTPInit, HTTPInv

\* For every request, every sequence of answers and every Retry-After: what the caller
\* is told is due, and the client does not sleep longer than it may.
THEOREM AnswersAreDue == HTTPSpec => []Due
<1>1. HTTPInit => HTTPInv
  BY HTTPInitInv
<1>2. HTTPInv => Due
  BY DEF HTTPInv
<1> QED BY <1>1, <1>2, HTTPStepInv, PTL DEF HTTPSpec


\* How many steps a request may still take: those of the hop it is at, and as many as
\* a hop can take for every hop that is left to it.
allowed == IF asked.bytes > 0 THEN asked.bytes ELSE 0
LeftOfHop ==
  CASE sending = "validate" -> allowed + 4
    [] sending = "send" -> allowed + 3
    [] sending = "await" -> allowed + 2
    [] sending = "body" -> allowed + 1 - received
    [] sending = "sleep" -> 1
    [] OTHER -> 0
HopsLeft == (MaxRetries - attempt) * (MaxRedirects + 1) + (MaxRedirects - hop)
StepsLeft == HopsLeft * (allowed + 5) + LeftOfHop

LEMMA FewerHops ==
  ASSUME NEW m \in Nat, NEW n \in Nat, NEW w \in Nat, NEW x \in Nat, NEW y \in Nat, n < m, y < w
  PROVE  n * w + y < m * w + x
<1> DEFINE k == m - n - 1
<1>1. k \in Nat /\ m = n + 1 + k
  OBVIOUS
<1> HIDE DEF k
<1>2. m * w = n * w + w + k * w
  BY <1>1
<1>3. k * w \in Nat /\ n * w \in Nat
  BY <1>1
<1> QED BY <1>2, <1>3

Counts ==
  /\ allowed \in Nat /\ LeftOfHop \in 0 .. allowed + 4 /\ HopsLeft \in Nat
  /\ sending # "done" => LeftOfHop > 0
LEMMA CountsAre == ASSUME HTTPInv PROVE Counts
<1>0. /\ sending = "body" => asked.bytes > 0 /\ received <= asked.bytes
      /\ sending \in Phases
  BY DEF HTTPInv, HTTPTypeOK
<1>1. allowed \in Nat /\ (asked.bytes > 0 => allowed = asked.bytes)
  BY NumbersAre DEF allowed
<1>2. sending = "body" => received \in Nat /\ received <= allowed
  BY <1>0, <1>1, NumbersAre
<1>3. LeftOfHop \in 0 .. allowed + 4 /\ (sending # "done" => LeftOfHop > 0)
  <2> HIDE DEF HTTPInv
  <2>1. CASE sending = "body"
    BY <1>1, <1>2, <2>1 DEF LeftOfHop
  <2>2. CASE sending # "body"
    BY <1>0, <1>1, <2>2 DEF LeftOfHop, Phases
  <2> QED BY <2>1, <2>2
<1>4. HopsLeft \in Nat
  <2>1. \A a \in {0, 1, 2, 3} : (3 - a) * (MaxRedirects + 1) \in Nat
    BY NumbersAre
  <2>2. MaxRedirects - hop \in Nat
    BY NumbersAre
  <2> QED BY <2>1, <2>2, NumbersAre DEF HopsLeft, MaxRetries
<1> QED BY <1>1, <1>3, <1>4 DEF Counts

\* The next step is of the same hop, and of fewer that are left to it, or of one of
\* fewer hops.
LEMMA Forward ==
  ASSUME Counts, Counts', UNCHANGED asked,
         HopsLeft' < HopsLeft \/ (HopsLeft' = HopsLeft /\ LeftOfHop' < LeftOfHop)
  PROVE  StepsLeft' < StepsLeft
<1> DEFINE w == allowed + 5
<1>1. allowed' = allowed
  BY DEF allowed
<1>2. w \in Nat /\ HopsLeft \in Nat /\ LeftOfHop \in Nat /\ LeftOfHop < w
  BY DEF Counts
<1>3. HopsLeft' \in Nat /\ LeftOfHop' \in 0 .. allowed' + 4 /\ allowed \in Nat
  BY DEF Counts
<1>4. LeftOfHop' \in Nat /\ LeftOfHop' < w
  BY <1>1, <1>3
<1>5. StepsLeft = HopsLeft * w + LeftOfHop /\ StepsLeft' = HopsLeft' * w + LeftOfHop'
  BY <1>1 DEF StepsLeft
<1> HIDE DEF w
<1>6. CASE HopsLeft' < HopsLeft
  BY <1>2, <1>3, <1>4, <1>5, <1>6, FewerHops
<1>7. CASE HopsLeft' = HopsLeft /\ LeftOfHop' < LeftOfHop
  <2> DEFINE others == HopsLeft * w
  <2>1. others \in Nat
    BY <1>2
  <2>2. StepsLeft = others + LeftOfHop /\ StepsLeft' = others + LeftOfHop'
    BY <1>5, <1>7
  <2>3. \A o, x, y \in Nat : x < y => o + x < o + y
    OBVIOUS
  <2>4. LeftOfHop \in Nat /\ LeftOfHop' \in Nat /\ LeftOfHop' < LeftOfHop
    BY <1>2, <1>4, <1>7
  <2> HIDE DEF others
  <2>5. others + LeftOfHop' < others + LeftOfHop
    BY <2>1, <2>3, <2>4
  <2> QED BY <2>2, <2>5
<1> QED BY <1>6, <1>7

\* The steps of a request are bounded by a number that is fixed when it is asked, so
\* that it ends however the network answers and redirects as long as its steps are
\* taken: neither redirects nor retries nor a body go round in a circle.
THEOREM RequestsAreBounded ==
  HTTPSpec => [](StepsLeft \in Nat) /\ [][HTTPStep => StepsLeft' < StepsLeft]_httpVars
<1>1. ASSUME HTTPInv PROVE StepsLeft \in Nat
  <2>1. allowed + 5 \in Nat /\ HopsLeft \in Nat /\ LeftOfHop \in Nat
    BY <1>1, CountsAre DEF Counts
  <2>2. HopsLeft * (allowed + 5) \in Nat
    BY <2>1
  <2> QED BY <2>1, <2>2 DEF StepsLeft
<1>2. ASSUME HTTPInv, Counts, Counts', HTTPStep PROVE StepsLeft' < StepsLeft
  <2>0. asked' = asked /\ sending # "done"
    BY <1>2 DEF HTTPStep, Validate, Send, Receive, WakeUp, ReadBody
  <2>1. allowed' = allowed /\ allowed \in Nat /\ LeftOfHop > 0 /\ LeftOfHop \in Nat
    BY <1>2, <2>0 DEF Counts, allowed
  <2>2. ASSUME UNCHANGED <<attempt, hop>> PROVE HopsLeft' = HopsLeft
    BY <2>2 DEF HopsLeft
  <2>3. ASSUME NEW how, GetEnds(how) PROVE StepsLeft' < StepsLeft
    <3>1. HopsLeft' = HopsLeft /\ LeftOfHop' = 0
      BY <2>2, <2>3 DEF GetEnds, LeftOfHop
    <3> QED BY <1>2, <2>0, <2>1, <3>1, Forward
  <2>4. ASSUME NEW label, SendGoes(label),
               \/ sending = "validate" /\ label = "send"
               \/ sending = "send" /\ label = "await"
               \/ sending = "await" /\ label = "body"
        PROVE  StepsLeft' < StepsLeft
    <3>1. HopsLeft' = HopsLeft
      BY <2>2, <2>4 DEF SendGoes
    <3>2. label = "body" => received' \in Nat
      BY <1>2, <2>4, NumbersAre DEF SendGoes
    <3>3. LeftOfHop' < LeftOfHop
      BY <2>1, <2>4, <3>2 DEF SendGoes, LeftOfHop
    <3> QED BY <1>2, <2>0, <3>1, <3>3, Forward
  <2>5. ASSUME sending = "await", sending' = "sleep", UNCHANGED <<attempt, hop>> PROVE StepsLeft' < StepsLeft
    <3>1. HopsLeft' = HopsLeft
      BY <2>2, <2>5
    <3>2. LeftOfHop' < LeftOfHop
      BY <2>1, <2>5 DEF LeftOfHop
    <3> QED BY <1>2, <2>0, <3>1, <3>2, Forward
  <2>6. ASSUME NEW r, sending = "await", Failed(r) PROVE StepsLeft' < StepsLeft
    BY <2>3, <2>5, <2>6 DEF Failed
  <2>7. CASE Validate
    BY <2>3, <2>4, <2>7 DEF Validate
  <2>8. CASE Send
    BY <2>3, <2>4, <2>8 DEF Send
  <2>9. CASE Receive
    <3>1. sending = "await"
      BY <2>9 DEF Receive
    <3>2. ASSUME hop' = hop + 1, UNCHANGED attempt PROVE StepsLeft' < StepsLeft
      <4>1. HopsLeft' = HopsLeft - 1 /\ HopsLeft \in Nat
        <5>1. \A a \in {0, 1, 2, 3} : (3 - a) * (MaxRedirects + 1) \in Nat
          BY <1>2, NumbersAre
        <5> DEFINE whole == (MaxRetries - attempt) * (MaxRedirects + 1)
        <5>2. whole \in Nat /\ whole' = whole
          BY <1>2, <3>2, <5>1, NumbersAre DEF MaxRetries
        <5>3. HopsLeft = whole + (MaxRedirects - hop) /\ HopsLeft' = whole + (MaxRedirects - (hop + 1))
          BY <3>2, <5>2 DEF HopsLeft
        <5> HIDE DEF whole
        <5> QED BY <1>2, <5>2, <5>3, NumbersAre DEF Counts
      <4>2. HopsLeft' < HopsLeft
        BY <4>1
      <4> QED BY <1>2, <2>0, <4>2, Forward
    <3> QED BY <2>3, <2>4, <2>6, <2>9, <3>1, <3>2 DEF Receive, Answered
  <2>10. CASE WakeUp
    <3>1. ASSUME attempt' = attempt + 1, hop' = 0, sending = "sleep" PROVE StepsLeft' < StepsLeft
      <4>0. attempt < 3
        BY <1>2, <3>1 DEF HTTPInv, MaxRetries
      <4>1. attempt \in {0, 1, 2}
        BY <1>2, <4>0, NumbersAre
      <4>2. \A a \in {0, 1, 2} : (3 - (a + 1)) * (MaxRedirects + 1) + (MaxRedirects - 0)
                                   < (3 - a) * (MaxRedirects + 1) + (MaxRedirects - hop)
        BY <1>2, NumbersAre
      <4>3. HopsLeft' < HopsLeft
        BY <3>1, <4>1, <4>2 DEF HopsLeft, MaxRetries
      <4> QED BY <1>2, <2>0, <4>3, Forward
    <3> QED BY <2>3, <2>10, <3>1 DEF WakeUp
  <2>11. CASE ReadBody
    <3>0. sending = "body"
      BY <2>11 DEF ReadBody
    <3>1. ASSUME NEW n \in 1 .. offered - received, received' = received + n, UNCHANGED <<sending, attempt, hop>>
          PROVE  StepsLeft' < StepsLeft
      <4>1. HopsLeft' = HopsLeft
        BY <2>2, <3>1
      <4>2. received \in Nat /\ n \in Int /\ n > 0
        <5>1. offered \in Int /\ received \in Nat
          BY <1>2, <3>0, LimitsAre, NumbersAre
        <5> QED BY <5>1
      <4>3. LeftOfHop = allowed + 1 - received /\ LeftOfHop' = allowed + 1 - (received + n)
        BY <2>1, <3>0, <3>1 DEF LeftOfHop
      <4>4. LeftOfHop' < LeftOfHop
        BY <2>1, <4>2, <4>3
      <4> QED BY <1>2, <2>0, <4>1, <4>4, Forward
    <3> QED BY <2>3, <2>11, <3>1 DEF ReadBody
  <2> QED BY <1>2, <2>7, <2>8, <2>9, <2>10, <2>11 DEF HTTPStep
<1>3. HTTPInit => HTTPInv
  BY HTTPInitInv
<1>4. HTTPInv /\ Counts /\ Counts' /\ [HTTPNext]_httpVars => [HTTPStep => StepsLeft' < StepsLeft]_httpVars
  BY <1>2
<1>5. HTTPInv => Counts
  BY CountsAre
<1> QED BY <1>1, <1>3, <1>4, <1>5, HTTPStepInv, PTL DEF HTTPSpec

=============================================================================
