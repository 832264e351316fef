---------------------------- MODULE ProcessRunner ----------------------------
(***************************************************************************)
(* ProcessRunner.Run: one child process from its start to the answer.      *)
(* The child may start further processes, which share its process group    *)
(* (Linux) or job object (Windows) and perhaps the pipes of its output and *)
(* its input, may ignore the graceful signal, and may leave the group.     *)
(* Time runs out or the caller cancels at any moment.                      *)
(***************************************************************************)
EXTENDS Naturals

CONSTANTS
  Systems,    \* "linux", "windows"
  MaxProcs,   \* bound on processes; 1 is the child
  Faults      \* may Start, attach and Wait fail?

ASSUME RunnerAssumption ==
  /\ Systems \subseteq {"linux", "windows"}
  /\ MaxProcs \in Nat \ {0}
  /\ Faults \in BOOLEAN

Procs == 1 .. MaxProcs
Child == 1

VARIABLES
  system, captured, limited,   \* the system; is output captured; is there a Timeout?
  pc,          \* where Run is
  proc,        \* the processes
  stdin,       \* what a goroutine copies to the child's input: nothing (any more), a reader
               \* whose Reads return, or one that may keep silent
  exited,      \* has cmd.Wait returned?
  stateless,   \* did it fail, so that there is no ProcessState?
  expired,     \* has the Timeout passed?
  cancelled,   \* has the caller cancelled?
  timedOut,    \* Run's verdict when it was woken
  signalled,   \* has a signal been sent?
  forced,      \* did Run go on to end the tree?
  outcome

env == <<system, captured, limited>>
joined == <<stdin, exited, stateless>>
vars == <<env, pc, proc, joined, expired, cancelled, timedOut, signalled, forced, outcome>>

\* `tree`: in the process group or job object; `pipes`: which of Run's pipes it holds;
\* `stubborn`: ignores the graceful signal.  A "dying" process is about to die.
Processes == [state : {"none", "alive", "dying", "dead"},
              tree : BOOLEAN, pipes : SUBSET {"in", "out"}, stubborn : BOOLEAN]
Nobody == [state |-> "none", tree |-> FALSE, pipes |-> {}, stubborn |-> FALSE]

Init ==
  /\ system \in Systems
  /\ captured \in BOOLEAN /\ limited \in BOOLEAN
  /\ pc = "start"
  /\ proc = [p \in Procs |-> Nobody]
  /\ stdin \in {"none", "ends", "silent"} /\ exited = FALSE /\ stateless = FALSE
  /\ expired = FALSE /\ cancelled = FALSE
  /\ timedOut = FALSE
  /\ signalled = FALSE /\ forced = FALSE
  /\ outcome = "none"

-----------------------------------------------------------------------------
Goes(from, to) == pc = from /\ pc' = to

Running(p) == proc[p].state \in {"alive", "dying"}

\* The processes in `hit` are about to die.
Doomed(hit) ==
  [p \in Procs |-> IF p \in hit /\ proc[p].state = "alive"
                   THEN [proc[p] EXCEPT !.state = "dying"] ELSE proc[p]]

Tree == {p \in Procs : proc[p].tree}

Answers(result) == pc' = "returned" /\ outcome' = result

\* The pipes of a child: without a capture, a Stdin or both there are files in their place.
Pipes == {end \in {"in", "out"} : IF end = "in" THEN stdin # "none" ELSE captured}
Held(end) == \E p \in Procs : Running(p) /\ end \in proc[p].pipes

\* A cancelled context starts nothing.
Start ==
  /\ pc = "start"
  /\ \/ cancelled /\ Answers("cancelled") /\ UNCHANGED proc
     \/ ~cancelled /\ Faults /\ Answers("start_failed") /\ UNCHANGED proc
     \/ /\ ~cancelled
        /\ pc' = "attach"
        /\ \E stubborn \in BOOLEAN :
             proc' = [proc EXCEPT ![Child] =
               [state |-> "alive", tree |-> system = "linux", pipes |-> Pipes,
                stubborn |-> stubborn]]
        /\ UNCHANGED outcome
  /\ UNCHANGED <<env, joined, expired, cancelled, timedOut, signalled, forced>>

\* On Linux the group is there from the start; on Windows the child is put into
\* the job now.  A child that cannot be attached is killed, it alone.
Attach ==
  /\ \/ /\ system = "linux" \/ proc[Child].state # "dead"
        /\ Goes("attach", "wait")
        /\ proc' = [proc EXCEPT ![Child].tree = TRUE]
     \/ /\ system = "windows"
        /\ Faults \/ proc[Child].state = "dead"
        /\ Goes("attach", "abandon")
        /\ proc' = Doomed({Child})
  /\ UNCHANGED <<env, joined, expired, cancelled, timedOut, signalled, forced, outcome>>

\* The copy of Stdin is over when the reader is at its end, or no longer silent when
\* nobody holds the other end of the pipe.
CopyEnds ==
  /\ stdin # "none" /\ pc \notin {"start", "returned"}
  /\ stdin' = "none"
  /\ UNCHANGED <<env, pc, proc, exited, stateless, expired, cancelled, timedOut, signalled, forced, outcome>>
CopyBreaks == stdin = "ends" /\ ~Held("in") /\ CopyEnds

\* cmd.Wait returns when the child is dead, or cannot be waited for, nobody holds the
\* pipe of the output any more, and the copy of Stdin is over.
WaitReturns ==
  /\ pc \in {"wait", "graceful", "grace", "terminate", "drain", "abandon"}
  /\ ~exited /\ stdin = "none"
  /\ proc[Child].state = "dead" \/ Faults
  /\ ~Held("out")
  /\ exited' = TRUE /\ stateless' \in {proc[Child].state # "dead", Faults}
  /\ UNCHANGED <<env, pc, proc, stdin, expired, cancelled, timedOut, signalled, forced, outcome>>

\* select: the child ended, or the context did; when both, either is taken.
Wake ==
  /\ \/ exited /\ Goes("wait", "result") /\ UNCHANGED timedOut
     \/ /\ expired \/ cancelled
        /\ Goes("wait", "graceful")
        /\ timedOut' = (limited /\ ~cancelled)
  /\ UNCHANGED <<env, proc, joined, expired, cancelled, signalled, forced, outcome>>

\* signalGraceful.  SIGTERM reaches the group, CTRL_BREAK those that share the
\* console and its group.  It fails without a group or a console.
SignalGraceful ==
  /\ \/ /\ Goes("graceful", "grace")
        /\ \E reached \in IF system = "linux" THEN {Tree} ELSE SUBSET Procs :
             proc' = Doomed({p \in reached : ~proc[p].stubborn})
        /\ signalled' = TRUE
     \/ /\ system = "windows" \/ \A p \in Tree : ~Running(p)
        /\ Goes("graceful", "terminate")
        /\ UNCHANGED <<proc, signalled>>
  /\ UNCHANGED <<env, joined, expired, cancelled, timedOut, forced, outcome>>

\* Bug: the tree is not ended when the grace period is over.
GraceEndless ==
  /\ exited /\ Goes("grace", "drain")
  /\ UNCHANGED <<env, proc, joined, expired, cancelled, timedOut, signalled, forced, outcome>>

\* The grace period: whoever ends within it is spared the rest.
Grace ==
  /\ \/ exited /\ Goes("grace", "drain")
     \/ Goes("grace", "terminate")
  /\ UNCHANGED <<env, proc, joined, expired, cancelled, timedOut, signalled, forced, outcome>>

\* Bug: the child is killed, not its group.
TerminateChild ==
  /\ Goes("terminate", "drain")
  /\ proc' = Doomed({Child})
  /\ signalled' = TRUE /\ forced' = TRUE
  /\ UNCHANGED <<env, joined, expired, cancelled, timedOut, outcome>>

\* terminateTree: SIGKILL to the group, or the end of the job.
TerminateTree ==
  /\ Goes("terminate", "drain")
  /\ proc' = Doomed(Tree)
  /\ signalled' = TRUE /\ forced' = TRUE
  /\ UNCHANGED <<env, joined, expired, cancelled, timedOut, outcome>>

\* Run waits for the end of the child and its output.
Drain ==
  /\ exited /\ Goes("drain", "result")
  /\ UNCHANGED <<env, proc, joined, expired, cancelled, timedOut, signalled, forced, outcome>>

\* After a failed attach the answer waits for the child just the same.
Abandon ==
  /\ exited /\ pc = "abandon"
  /\ Answers("attach_failed")
  /\ UNCHANGED <<env, proc, joined, expired, cancelled, timedOut, signalled, forced>>

\* release: closing the job ends what is left in it.
Released == IF system = "windows" THEN Doomed(Tree) ELSE proc

\* Without a ProcessState there is no result.  A cancellation that came in time counts
\* before too much output, and that before the verdict.
Answer ==
  /\ pc = "result"
  /\ \/ stateless /\ Answers("no_state")
     \/ ~stateless /\ cancelled /\ ~timedOut /\ Answers("cancelled")
     \/ /\ ~stateless /\ (~cancelled \/ timedOut)
        /\ \E over \in {FALSE, captured} :
             \/ over /\ Answers("output_limit")
             \/ ~over /\ timedOut /\ Answers("timed_out")
             \/ ~over /\ ~timedOut /\ Answers("exited")
  /\ proc' = Released
  /\ UNCHANGED <<env, joined, expired, cancelled, timedOut, signalled, forced>>

-----------------------------------------------------------------------------
(* The processes and the caller *)

\* A process starts another, in the same group or job, which holds some of its pipes.
Fork(p, q) ==
  /\ pc # "returned"
  /\ proc[p].state = "alive" /\ proc[q].state = "none"
  /\ \E stubborn \in BOOLEAN, pipes \in SUBSET proc[p].pipes :
       proc' = [proc EXCEPT ![q] =
         [state |-> "alive", tree |-> proc[p].tree, pipes |-> pipes, stubborn |-> stubborn]]
  /\ UNCHANGED <<env, pc, joined, expired, cancelled, timedOut, signalled, forced, outcome>>

\* A process other than the leader leaves the group.  Nobody leaves a job.
Leave(p) ==
  /\ pc # "returned"
  /\ system = "linux" /\ p # Child /\ proc[p].state = "alive"
  /\ proc' = [proc EXCEPT ![p].tree = FALSE]
  /\ UNCHANGED <<env, pc, joined, expired, cancelled, timedOut, signalled, forced, outcome>>

Ends(p) ==
  /\ proc' = [proc EXCEPT ![p].state = "dead"]
  /\ UNCHANGED <<env, pc, joined, expired, cancelled, timedOut, signalled, forced, outcome>>

Exit(p) == pc # "returned" /\ proc[p].state = "alive" /\ Ends(p)

Die(p) == proc[p].state = "dying" /\ Ends(p)

Expire ==
  /\ limited /\ ~expired /\ pc # "returned"
  /\ expired' = TRUE
  /\ UNCHANGED <<env, pc, proc, joined, cancelled, timedOut, signalled, forced, outcome>>

Cancel ==
  /\ ~cancelled /\ pc # "returned"
  /\ cancelled' = TRUE
  /\ UNCHANGED <<env, pc, proc, joined, expired, timedOut, signalled, forced, outcome>>

Run ==
  \/ Start \/ Attach \/ WaitReturns \/ Wake \/ SignalGraceful \/ Grace \/ TerminateTree
  \/ Drain \/ Abandon \/ Answer

Next ==
  \/ Run \/ CopyEnds \/ Expire \/ Cancel
  \/ \E p \in Procs : Exit(p) \/ Die(p) \/ Leave(p) \/ \E q \in Procs : Fork(p, q)

Spec == Init /\ [][Next]_vars

\* Run goes on, a Timeout passes, a killed process dies, and a copy whose reader does not
\* keep silent breaks off without a process to read it.  No process need exit.
FairSpec ==
  Spec /\ WF_vars(Run) /\ WF_vars(CopyBreaks) /\ WF_vars(Expire) /\ \A p \in Procs : WF_vars(Die(p))

-----------------------------------------------------------------------------
(* Properties *)

\* A plain answer is that of a child nobody interfered with: a run that was cut
\* off, however the timeout, the cancellation and the exit raced, says so.
PlainMeansUntouched == outcome = "exited" => ~signalled

\* No process of the tree outlives a run on Windows, nor one on Linux that went
\* on to end the tree, however many were started meanwhile.
TreeEnds ==
  pc = "returned" /\ (forced \/ system = "windows")
    => \A p \in Tree : proc[p].state # "alive"

\* Someone outside the tree holds a pipe.
Escaped == \E p \in Procs : Running(p) /\ ~proc[p].tree /\ proc[p].pipes # {}

\* A run with a Timeout comes to an end, whatever its processes ignore and however the
\* copy of its input fares, unless a process that left the tree, or was born before the
\* job, keeps a pipe open, or the reader given as Stdin keeps silent.
LimitedRunReturns == limited /\ pc # "returned" ~> pc = "returned" \/ Escaped \/ stdin = "silent"
=============================================================================
