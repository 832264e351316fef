----------------------------- MODULE LockManager -----------------------------
(***************************************************************************)
(* Locks between gdtvm processes: the LockManager port and the manager     *)
(* that implements it.  A process has one manager; its threads acquire     *)
(* locks one after the other, in the order of CompareLocks only, and       *)
(* release them by deferred calls.                                         *)
(***************************************************************************)
EXTENDS Integers, Sequences, FiniteSets

CONSTANTS
  Procs,        \* processes
  Threads,      \* threads (goroutines) of all processes
  ProcOf,       \* the process of a thread
  Keys,         \* lock keys: [class, qualifier]; qualifier 0 stands for "none"
  NoKey,
  Cancellable,  \* threads whose context may be cancelled
  Impatient,    \* threads whose waits may last longer than their limit
  Unlucky,      \* threads for which the manager may fail to acquire or release
  Crashes       \* may a process die?

\* LockClass, in the order locks are taken.
Classes == 1 .. 6
Qualified == {2, 3, 4}      \* catalog, install, storage

\* LockKey rejects a qualifier on the other classes and its absence on these.
KeyIsValid(k) == (k.class \in Qualified) <=> (k.qualifier > 0)

ASSUME LockAssumption ==
  /\ ProcOf \in [Threads -> Procs]
  /\ Keys \subseteq [class : Classes, qualifier : Nat]
  /\ NoKey \notin Keys

VARIABLES
  pc,         \* "run", "wait", "unwind" or "done"
  taken,      \* the locks a thread acquired and has yet to release, in order
  want,       \* the key a thread waits for
  failed,     \* did the thread stop because of a lock error?
  held        \* the keys in a process's manager

vars == <<pc, taken, want, failed, held>>

Init ==
  /\ pc = [t \in Threads |-> "run"]
  /\ taken = [t \in Threads |-> <<>>]
  /\ want = [t \in Threads |-> NoKey]
  /\ failed = [t \in Threads |-> FALSE]
  /\ held = [p \in Procs |-> {}]

-----------------------------------------------------------------------------
\* CompareLocks(j, k) < 0: by class, then by key.
Precedes(j, k) ==
  \/ j.class < k.class
  \/ j.class = k.class /\ j.qualifier < k.qualifier

\* Bug: keys of one class are in no order.
InOrderByClass(p, k) == \A j \in held[p] : j.class <= k.class

\* checkOrderLocked: everything the process holds comes before the new key.
InOrder(p, k) == \A j \in held[p] : Precedes(j, k)

\* owners: what the other processes hold.
Elsewhere(p) == UNION {held[q] : q \in Procs \ {p}}

Gets(t, k) ==
  /\ pc' = [pc EXCEPT ![t] = "run"]
  /\ taken' = [taken EXCEPT ![t] = Append(@, k)]
  /\ held' = [held EXCEPT ![ProcOf[t]] = @ \cup {k}]
  /\ want' = [want EXCEPT ![t] = NoKey]
  /\ UNCHANGED failed

Errs(t) ==
  /\ pc' = [pc EXCEPT ![t] = "unwind"]
  /\ want' = [want EXCEPT ![t] = NoKey]
  /\ failed' = [failed EXCEPT ![t] = TRUE]
  /\ UNCHANGED <<taken, held>>

\* Acquire up to the moment it returns or starts to wait.
Acquire(t, k) ==
  /\ pc[t] = "run"
  /\ \/ (t \in Unlucky \/ ~KeyIsValid(k) \/ ~InOrder(ProcOf[t], k)) /\ Errs(t)
     \/ /\ KeyIsValid(k) /\ InOrder(ProcOf[t], k) /\ k \notin Elsewhere(ProcOf[t])
        /\ Gets(t, k)
     \/ /\ KeyIsValid(k) /\ InOrder(ProcOf[t], k) /\ k \in Elsewhere(ProcOf[t])
        /\ pc' = [pc EXCEPT ![t] = "wait"]
        /\ want' = [want EXCEPT ![t] = k]
        /\ UNCHANGED <<taken, failed, held>>

\* One round of the wait loop that finds the key free.  Neither the order nor
\* the manager's own keys are looked at again.
Granted(t) ==
  /\ pc[t] = "wait"
  /\ want[t] \notin Elsewhere(ProcOf[t])
  /\ Gets(t, want[t])

\* Bug: a wait that times out takes the lock.
WaitFailsTaking(t) ==
  /\ pc[t] = "wait"
  /\ t \in Cancellable \/ (t \in Impatient /\ want[t] \in Elsewhere(ProcOf[t]))
  /\ Gets(t, want[t])

\* The wait ends on a cancelled context or, with the key still held, at the limit.
WaitFails(t) ==
  /\ pc[t] = "wait"
  /\ t \in Cancellable \/ (t \in Impatient /\ want[t] \in Elsewhere(ProcOf[t]))
  /\ Errs(t)

\* The operation is over; its deferred releases run.
Finish(t) ==
  /\ pc[t] = "run"
  /\ pc' = [pc EXCEPT ![t] = "unwind"]
  /\ UNCHANGED <<taken, want, failed, held>>

\* Bug: an operation that failed returns without its deferred releases.
ReleaseUnlessFailed(t) ==
  /\ pc[t] = "unwind"
  /\ IF taken[t] = <<>> \/ failed[t]
     THEN pc' = [pc EXCEPT ![t] = "done"] /\ UNCHANGED <<taken, held>>
     ELSE LET k == taken[t][Len(taken[t])]
          IN /\ taken' = [taken EXCEPT ![t] = SubSeq(@, 1, Len(@) - 1)]
             /\ held' = [held EXCEPT ![ProcOf[t]] = @ \ {k}]
             /\ UNCHANGED pc
  /\ UNCHANGED <<want, failed>>

\* One deferred Release, last lock first; a release that fails leaves the key
\* in the manager until the process ends.
Release(t) ==
  /\ pc[t] = "unwind"
  /\ IF taken[t] = <<>>
     THEN pc' = [pc EXCEPT ![t] = "done"] /\ UNCHANGED <<taken, held>>
     ELSE LET k == taken[t][Len(taken[t])]
          IN /\ taken' = [taken EXCEPT ![t] = SubSeq(@, 1, Len(@) - 1)]
             /\ \/ held' = [held EXCEPT ![ProcOf[t]] = @ \ {k}]
                \/ t \in Unlucky /\ UNCHANGED held
             /\ UNCHANGED pc
  /\ UNCHANGED <<want, failed>>

\* The process is gone, with its locks, and another starts in its place.
Replaced(p) ==
  /\ pc' = [t \in Threads |-> IF ProcOf[t] = p THEN "run" ELSE pc[t]]
  /\ taken' = [t \in Threads |-> IF ProcOf[t] = p THEN <<>> ELSE taken[t]]
  /\ want' = [t \in Threads |-> IF ProcOf[t] = p THEN NoKey ELSE want[t]]
  /\ failed' = [t \in Threads |-> IF ProcOf[t] = p THEN FALSE ELSE failed[t]]
  /\ held' = [held EXCEPT ![p] = {}]

Exit(p) == (\A t \in Threads : ProcOf[t] = p => pc[t] = "done") /\ Replaced(p)

Crash(p) == Crashes /\ Replaced(p)

Step(t) ==
  \/ \E k \in Keys : Acquire(t, k)
  \/ Granted(t) \/ WaitFails(t) \/ Finish(t) \/ Release(t)

Next ==
  \/ \E t \in Threads : Step(t)
  \/ \E p \in Procs : Exit(p) \/ Crash(p)

Spec == Init /\ [][Next]_vars

\* A thread keeps running, a finished process exits, and a wait for a key that
\* becomes free again and again gets it.
Fairness ==
  /\ \A t \in Threads : WF_vars(Step(t)) /\ SF_vars(Granted(t))
  /\ \A p \in Procs : WF_vars(Exit(p))

FairSpec == Spec /\ Fairness

-----------------------------------------------------------------------------
(* Properties *)

\* The four stages of a thread; a manager holds keys only (lockmanager.go:31-45).
TypeOK ==
  /\ pc \in [Threads -> {"run", "wait", "unwind", "done"}]
  /\ taken \in [Threads -> Seq(Keys)]
  /\ want \in [Threads -> Keys \cup {NoKey}]
  /\ failed \in [Threads -> BOOLEAN]
  /\ held \in [Procs -> SUBSET Keys]

\* Two processes never hold the same key.
MutualExclusion ==
  \A p, q \in Procs : p # q => held[p] \cap held[q] = {}

\* A process waits only for a key that comes after everything it holds.  Along
\* a chain of processes each waiting for the next the keys therefore rise, and
\* no chain closes.
WaitsGoUp ==
  \A t \in Threads : pc[t] = "wait" => InOrder(ProcOf[t], want[t])

\* When no release fails, the end of an operation, successful or not, leaves no
\* lock of its behind.
EndReleasesAll ==
  \A p \in Procs :
    (\A t \in Threads : ProcOf[t] = p => pc[t] = "done" /\ t \notin Unlucky) => held[p] = {}

\* Every wait ends.
EveryWaitEnds == \A t \in Threads : pc[t] = "wait" ~> pc[t] # "wait"

=============================================================================
