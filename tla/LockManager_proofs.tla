------------------------- MODULE LockManager_proofs -------------------------
(***************************************************************************)
(* Proofs about the lock manager, for any number of processes, threads and *)
(* keys.                                                                   *)
(***************************************************************************)
EXTENDS LockManager, SequenceTheorems, TLAPS

\* Every variable starts with its shape.
LEMMA InitType == Init => TypeOK
BY DEF Init, TypeOK

\* A thread that gets a key keeps the shapes.
LEMMA GetsType ==
  ASSUME TypeOK, NEW t \in Threads, NEW k \in Keys, Gets(t, k)
  PROVE  TypeOK'
<1>1. ProcOf[t] \in Procs
  BY LockAssumption DEF LockAssumption
<1>2. Append(taken[t], k) \in Seq(Keys)
  BY DEF TypeOK
<1>3. taken' \in [Threads -> Seq(Keys)]
  BY <1>2 DEF TypeOK, Gets
<1>4. held' \in [Procs -> SUBSET Keys]
  BY <1>1 DEF TypeOK, Gets
<1> QED BY <1>3, <1>4 DEF TypeOK, Gets

\* A thread that gets an error keeps the shapes.
LEMMA ErrsType == ASSUME TypeOK, NEW t \in Threads, Errs(t) PROVE TypeOK'
BY DEF TypeOK, Errs

\* A release keeps the shapes.
LEMMA ReleaseType == ASSUME TypeOK, NEW t \in Threads, Release(t) PROVE TypeOK'
<1>1. ProcOf[t] \in Procs /\ taken[t] \in Seq(Keys)
  BY LockAssumption DEF LockAssumption, TypeOK
<1>2. CASE taken[t] = <<>>
  BY <1>2 DEF TypeOK, Release
<1>3. CASE taken[t] # <<>>
  <2> DEFINE k == taken[t][Len(taken[t])]
             shorter == SubSeq(taken[t], 1, Len(taken[t]) - 1)
  <2>1. shorter \in Seq(Keys)
    BY <1>1, <1>3, SubSeqProperties
  <2>2. /\ taken' = [taken EXCEPT ![t] = shorter]
        /\ held' = [held EXCEPT ![ProcOf[t]] = @ \ {k}] \/ held' = held
        /\ UNCHANGED <<pc, want, failed>>
    BY <1>3 DEF Release
  <2> HIDE DEF shorter, k
  <2>3. held' \in [Procs -> SUBSET Keys]
    BY <1>1, <2>2 DEF TypeOK
  <2>4. taken' \in [Threads -> Seq(Keys)]
    BY <2>1, <2>2 DEF TypeOK
  <2> QED BY <2>2, <2>3, <2>4 DEF TypeOK
<1> QED BY <1>2, <1>3

\* A process that is replaced by a new one keeps the shapes.
LEMMA ReplacedType == ASSUME TypeOK, NEW p \in Procs, Replaced(p) PROVE TypeOK'
<1>1. <<>> \in Seq(Keys)
  OBVIOUS
<1>2. taken' \in [Threads -> Seq(Keys)]
  BY <1>1 DEF TypeOK, Replaced
<1> QED BY <1>2 DEF TypeOK, Replaced

\* A thread that waits, waits for a key.
WaitsForKey == \A t \in Threads : pc[t] = "wait" => want[t] \in Keys

\* No step breaks a shape.
LEMMA StepType == TypeOK /\ WaitsForKey /\ [Next]_vars => TypeOK'
<1> SUFFICES ASSUME TypeOK, WaitsForKey, [Next]_vars PROVE TypeOK'
  OBVIOUS
<1>1. ASSUME NEW t \in Threads, NEW k \in Keys, Acquire(t, k) PROVE TypeOK'
  <2>1. CASE Errs(t) \/ Gets(t, k)
    BY <2>1, GetsType, ErrsType
  <2>2. CASE pc' = [pc EXCEPT ![t] = "wait"] /\ want' = [want EXCEPT ![t] = k]
             /\ UNCHANGED <<taken, failed, held>>
    BY <2>2 DEF TypeOK
  <2> QED BY <1>1, <2>1, <2>2 DEF Acquire
<1>2. ASSUME NEW t \in Threads, Granted(t) PROVE TypeOK'
  BY <1>2, GetsType DEF Granted, WaitsForKey
<1>3. ASSUME NEW t \in Threads, WaitFails(t) PROVE TypeOK'
  BY <1>3, ErrsType DEF WaitFails
<1>4. ASSUME NEW t \in Threads, Finish(t) PROVE TypeOK'
  BY <1>4 DEF Finish, TypeOK
<1>5. ASSUME NEW p \in Procs, Exit(p) \/ Crash(p) PROVE TypeOK'
  BY <1>5, ReplacedType DEF Exit, Crash
<1>6. CASE UNCHANGED vars
  BY <1>6 DEF vars, TypeOK
<1> QED
  BY <1>1, <1>2, <1>3, <1>4, <1>5, <1>6, ReleaseType DEF Next, Step

\* A thread waits only after it asked for a key.
LEMMA StepWaits == TypeOK /\ WaitsForKey /\ [Next]_vars => WaitsForKey'
<1> SUFFICES ASSUME TypeOK, WaitsForKey, [Next]_vars PROVE WaitsForKey'
  OBVIOUS
<1> USE DEF TypeOK, WaitsForKey
<1>1. ASSUME NEW t \in Threads, Step(t) PROVE WaitsForKey'
  BY <1>1 DEF Step, Acquire, Granted, WaitFails, Finish, Release, Gets, Errs
<1>2. ASSUME NEW p \in Procs, Exit(p) \/ Crash(p) PROVE WaitsForKey'
  BY <1>2 DEF Exit, Crash, Replaced
<1> QED BY <1>1, <1>2 DEF Next, vars

\* What one step does to the managers: a key is added where no other process
\* holds it, or keys are dropped.
LEMMA HeldStep ==
  ASSUME TypeOK, WaitsForKey, [Next]_vars
  PROVE  \/ \E t \in Threads, k \in Keys :
              k \notin Elsewhere(ProcOf[t])
              /\ held' = [held EXCEPT ![ProcOf[t]] = @ \cup {k}]
         \/ \A p \in Procs : held'[p] \subseteq held[p]
<1>1. ASSUME NEW t \in Threads, NEW k \in Keys, Acquire(t, k)
      PROVE  \/ k \notin Elsewhere(ProcOf[t]) /\ held' = [held EXCEPT ![ProcOf[t]] = @ \cup {k}]
             \/ held' = held
  BY <1>1 DEF Acquire, Gets, Errs
<1>2. ASSUME NEW t \in Threads, Granted(t)
      PROVE  /\ want[t] \in Keys /\ want[t] \notin Elsewhere(ProcOf[t])
             /\ held' = [held EXCEPT ![ProcOf[t]] = @ \cup {want[t]}]
  BY <1>2 DEF Granted, Gets, WaitsForKey
<1>3. ASSUME NEW t \in Threads, WaitFails(t) \/ Finish(t) PROVE held' = held
  BY <1>3 DEF WaitFails, Finish, Errs
<1>4. ASSUME NEW t \in Threads, Release(t) PROVE \A p \in Procs : held'[p] \subseteq held[p]
  BY <1>4 DEF Release, TypeOK
<1>5. ASSUME NEW p \in Procs, Exit(p) \/ Crash(p) PROVE \A q \in Procs : held'[q] \subseteq held[q]
  BY <1>5 DEF Exit, Crash, Replaced, TypeOK
<1> QED BY <1>1, <1>2, <1>3, <1>4, <1>5 DEF Next, Step, vars

\* A key is granted only where no other process holds it.
LEMMA StepExclusion == TypeOK /\ WaitsForKey /\ MutualExclusion /\ [Next]_vars => MutualExclusion'
<1> SUFFICES ASSUME TypeOK, WaitsForKey, MutualExclusion, [Next]_vars PROVE MutualExclusion'
  OBVIOUS
<1>1. ASSUME NEW t \in Threads, NEW k \in Keys, k \notin Elsewhere(ProcOf[t]),
             held' = [held EXCEPT ![ProcOf[t]] = @ \cup {k}]
      PROVE  MutualExclusion'
  <2>1. \A q \in Procs : q # ProcOf[t] => k \notin held[q]
    BY <1>1 DEF Elsewhere
  <2>2. ProcOf[t] \in Procs
    BY LockAssumption DEF LockAssumption
  <2>3. \A q \in Procs : held'[q] = IF q = ProcOf[t] THEN held[q] \cup {k} ELSE held[q]
    BY <1>1, <2>2 DEF TypeOK
  <2>4. ASSUME NEW p \in Procs, NEW q \in Procs, p # q, NEW j \in held'[p], j \in held'[q]
        PROVE  FALSE
    <3>1. j \notin held[p] \/ j \notin held[q]
      BY <2>4 DEF MutualExclusion
    <3>2. j = k
      BY <2>3, <2>4, <3>1
    <3> QED BY <2>1, <2>3, <2>4, <3>2
  <2> QED BY <2>4 DEF MutualExclusion
<1>2. CASE \A p \in Procs : held'[p] \subseteq held[p]
  BY <1>2 DEF MutualExclusion
<1> QED BY <1>1, <1>2, HeldStep

\* Nobody holds or waits at first.
LEMMA InitRest == Init => WaitsForKey /\ MutualExclusion
BY DEF Init, WaitsForKey, MutualExclusion

\* Shapes, waits and exclusion in every reachable state.
THEOREM Invariant == Spec => [](TypeOK /\ WaitsForKey /\ MutualExclusion)
BY InitType, InitRest, StepType, StepWaits, StepExclusion, PTL DEF Spec

\* Every variable keeps its shape.
THEOREM TypeCorrect == Spec => []TypeOK
BY Invariant, PTL

\* With any number of processes and threads, whatever fails, dies or times out,
\* no key is ever in the managers of two processes.
THEOREM Exclusion == Spec => []MutualExclusion
BY Invariant, PTL

-----------------------------------------------------------------------------
(* The order of waits *)

OneThreadEach == \A t, u \in Threads : ProcOf[t] = ProcOf[u] => t = u

\* With one thread to a process a thread starts to wait only above all it holds.
LEMMA StepGoesUp ==
  OneThreadEach /\ TypeOK /\ WaitsForKey /\ WaitsGoUp /\ [Next]_vars => WaitsGoUp'
<1> SUFFICES ASSUME OneThreadEach, TypeOK, WaitsForKey, WaitsGoUp, [Next]_vars,
                    NEW u \in Threads, pc'[u] = "wait"
             PROVE  \A j \in held'[ProcOf[u]] : Precedes(j, want'[u])
  BY DEF WaitsGoUp, InOrder
<1> USE DEF TypeOK
<1>0. ProcOf \in [Threads -> Procs]
  BY LockAssumption DEF LockAssumption
<1>1. ASSUME NEW t \in Threads, NEW k \in Keys, Acquire(t, k)
      PROVE  \A j \in held'[ProcOf[u]] : Precedes(j, want'[u])
  <2>1. CASE t = u
    <3>1. InOrder(ProcOf[u], k) /\ want'[u] = k /\ held' = held
      BY <1>1, <2>1 DEF Acquire, Gets, Errs
    <3> QED BY <3>1 DEF InOrder
  <2>2. CASE t # u
    <3>1. ProcOf[t] # ProcOf[u]
      BY <2>2 DEF OneThreadEach
    <3>2. pc[u] = "wait" /\ want'[u] = want[u] /\ held'[ProcOf[u]] = held[ProcOf[u]]
      BY <1>0, <1>1, <2>2, <3>1 DEF Acquire, Gets, Errs
    <3> QED BY <3>2 DEF WaitsGoUp, InOrder
  <2> QED BY <2>1, <2>2
<1>2. ASSUME NEW t \in Threads, Granted(t) \/ WaitFails(t) \/ Finish(t) \/ Release(t)
      PROVE  \A j \in held'[ProcOf[u]] : Precedes(j, want'[u])
  <2>1. t # u
    BY <1>2 DEF Granted, WaitFails, Finish, Release, Gets, Errs
  <2>2. ProcOf[t] # ProcOf[u]
    BY <2>1 DEF OneThreadEach
  <2>3. pc[u] = "wait" /\ want'[u] = want[u] /\ held'[ProcOf[u]] = held[ProcOf[u]]
    BY <1>0, <1>2, <2>1, <2>2 DEF Granted, WaitFails, Finish, Release, Gets, Errs
  <2> QED BY <2>3 DEF WaitsGoUp, InOrder
<1>3. ASSUME NEW p \in Procs, Exit(p) \/ Crash(p)
      PROVE  \A j \in held'[ProcOf[u]] : Precedes(j, want'[u])
  <2>1. ProcOf[u] # p
    BY <1>3 DEF Exit, Crash, Replaced
  <2>2. pc[u] = "wait" /\ want'[u] = want[u] /\ held'[ProcOf[u]] = held[ProcOf[u]]
    BY <1>0, <1>3, <2>1 DEF Exit, Crash, Replaced
  <2> QED BY <2>2 DEF WaitsGoUp, InOrder
<1>4. CASE UNCHANGED vars
  BY <1>4 DEF vars, WaitsGoUp, InOrder
<1> QED BY <1>1, <1>2, <1>3, <1>4 DEF Next, Step

\* Nobody waits at first.
LEMMA InitGoesUp == Init => WaitsGoUp
BY DEF Init, WaitsGoUp

\* When every process runs one operation at a time, a process waits only for a
\* key above everything it holds.
THEOREM WaitOrder == ASSUME OneThreadEach PROVE Spec => []WaitsGoUp
BY Invariant, InitGoesUp, StepGoesUp, PTL DEF Spec

\* Hence the keys rise from a waiting process to the waiting process that holds
\* what it waits for: no two processes, and no longer chain, wait for each other.
THEOREM WaitsRise ==
  ASSUME OneThreadEach
  PROVE  Spec => [](\A t, u \in Threads :
                      pc[t] = "wait" /\ pc[u] = "wait" /\ want[t] \in held[ProcOf[u]]
                        => Precedes(want[t], want[u]))
<1>1. WaitsGoUp => \A t, u \in Threads :
                      pc[t] = "wait" /\ pc[u] = "wait" /\ want[t] \in held[ProcOf[u]]
                        => Precedes(want[t], want[u])
  BY DEF WaitsGoUp, InOrder
<1> QED BY <1>1, WaitOrder, PTL

-----------------------------------------------------------------------------
(* What is left at the end *)

(* A lock in a manager is one that a thread of the process has yet to       *)
(* release, unless a release of the process may fail.                      *)
Has(t, k) == \E i \in 1..Len(taken[t]) : taken[t][i] = k
OfUnlucky(p) == \E t \in Unlucky \cap Threads : ProcOf[t] = p
HeldIsTaken ==
  \A p \in Procs : \A k \in held[p] : OfUnlucky(p) \/ \E t \in Threads : ProcOf[t] = p /\ Has(t, k)

(* A thread is done only when it has worked off its releases.              *)
DoneHasNothing == \A t \in Threads : pc[t] = "done" => taken[t] = <<>>

\* Nothing is held at first.
LEMMA InitEnd == Init => HeldIsTaken /\ DoneHasNothing
BY DEF Init, HeldIsTaken, DoneHasNothing

\* A thread that gets a key has it, and what was held stays with who has it.
LEMMA GetsEnd ==
  ASSUME TypeOK, HeldIsTaken, DoneHasNothing, NEW t \in Threads, NEW k \in Keys, Gets(t, k)
  PROVE  HeldIsTaken' /\ DoneHasNothing'
<1>0. ProcOf \in [Threads -> Procs] /\ taken[t] \in Seq(Keys)
  BY LockAssumption DEF LockAssumption, TypeOK
<1>1. /\ taken' = [taken EXCEPT ![t] = Append(taken[t], k)]
      /\ held' = [held EXCEPT ![ProcOf[t]] = held[ProcOf[t]] \cup {k}]
      /\ pc' = [pc EXCEPT ![t] = "run"]
  BY DEF Gets
<1>2. /\ Len(Append(taken[t], k)) = Len(taken[t]) + 1 /\ Len(taken[t]) \in Nat
      /\ Append(taken[t], k)[Len(taken[t]) + 1] = k
      /\ \A i \in 1..Len(taken[t]) : Append(taken[t], k)[i] = taken[t][i]
  BY <1>0
<1>3. \A u \in Threads, j \in Keys : Has(u, j) => Has(u, j)'
  <2> SUFFICES ASSUME NEW u \in Threads, NEW j \in Keys, Has(u, j) PROVE Has(u, j)'
    OBVIOUS
  <2>1. CASE u = t
    <3>1. PICK i \in 1..Len(taken[t]) : taken[t][i] = j
      BY <2>1 DEF Has
    <3>2. taken'[t] = Append(taken[t], k)
      BY <1>1 DEF TypeOK
    <3>3. i \in 1..Len(taken'[t]) /\ taken'[t][i] = j
      BY <1>2, <3>1, <3>2
    <3> QED BY <2>1, <3>3 DEF Has
  <2>2. CASE u # t
    BY <1>1, <2>2 DEF Has, TypeOK
  <2> QED BY <2>1, <2>2
<1>4. Has(t, k)'
  <2>1. taken'[t] = Append(taken[t], k)
    BY <1>1 DEF TypeOK
  <2>2. Len(taken[t]) + 1 \in 1..Len(taken'[t]) /\ taken'[t][Len(taken[t]) + 1] = k
    BY <1>2, <2>1
  <2> QED BY <2>2 DEF Has
<1>5. HeldIsTaken'
  <2> SUFFICES ASSUME NEW p \in Procs, NEW j \in held'[p], ~OfUnlucky(p)
               PROVE  \E u \in Threads : ProcOf[u] = p /\ Has(u, j)'
    BY DEF HeldIsTaken, OfUnlucky
  <2>1. (j = k /\ p = ProcOf[t]) \/ j \in held[p]
    BY <1>0, <1>1 DEF TypeOK
  <2>2. CASE j \in held[p]
    <3>1. j \in Keys
      BY <2>2 DEF TypeOK
    <3>2. PICK u \in Threads : ProcOf[u] = p /\ Has(u, j)
      BY <2>2 DEF HeldIsTaken
    <3> QED BY <1>3, <3>1, <3>2
  <2> QED BY <1>4, <2>1, <2>2
<1>6. DoneHasNothing'
  <2> SUFFICES ASSUME NEW u \in Threads, pc'[u] = "done" PROVE taken'[u] = <<>>
    BY DEF DoneHasNothing
  <2>1. u # t
    BY <1>1 DEF TypeOK
  <2>2. pc[u] = "done" /\ taken'[u] = taken[u]
    BY <1>1, <2>1 DEF TypeOK
  <2> QED BY <2>2 DEF DoneHasNothing
<1> QED BY <1>5, <1>6

\* A deferred release takes the last lock of its thread out of both.
LEMMA ReleaseEnd ==
  ASSUME TypeOK, HeldIsTaken, DoneHasNothing, NEW t \in Threads, Release(t)
  PROVE  HeldIsTaken' /\ DoneHasNothing'
<1>0. ProcOf \in [Threads -> Procs] /\ taken[t] \in Seq(Keys)
  BY LockAssumption DEF LockAssumption, TypeOK
<1>1. CASE taken[t] = <<>>
  <2>1. pc' = [pc EXCEPT ![t] = "done"] /\ taken' = taken /\ held' = held
    BY <1>1 DEF Release
  <2> QED BY <1>1, <2>1 DEF HeldIsTaken, DoneHasNothing, Has, OfUnlucky, TypeOK
<1>2. CASE taken[t] # <<>>
  <2> DEFINE n == Len(taken[t])
             k == taken[t][n]
             shorter == SubSeq(taken[t], 1, n - 1)
  <2>1. n \in Nat /\ n > 0
    BY <1>0, <1>2, EmptySeq
  <2>2. Len(shorter) = n - 1 /\ \A i \in 1..(n - 1) : shorter[i] = taken[t][i]
    BY <1>0, <2>1
  <2>3. /\ taken' = [taken EXCEPT ![t] = shorter] /\ pc' = pc /\ pc[t] = "unwind"
        /\ held' = [held EXCEPT ![ProcOf[t]] = held[ProcOf[t]] \ {k}] \/ (t \in Unlucky /\ held' = held)
    BY <1>2 DEF Release
  <2> HIDE DEF shorter
  <2>4. \A u \in Threads, j \in Keys : Has(u, j) /\ j # k => Has(u, j)'
    <3> SUFFICES ASSUME NEW u \in Threads, NEW j \in Keys, Has(u, j), j # k PROVE Has(u, j)'
      OBVIOUS
    <3>1. CASE u = t
      <4>1. PICK i \in 1..n : taken[t][i] = j
        BY <3>1 DEF Has
      <4>2. i # n
        BY <4>1
      <4>3. i \in 1..(n - 1)
        BY <2>1, <4>2
      <4>4. taken'[t] = shorter
        BY <2>3 DEF TypeOK
      <4>5. i \in 1..Len(taken'[t]) /\ taken'[t][i] = j
        BY <2>2, <4>1, <4>3, <4>4
      <4> QED BY <3>1, <4>5 DEF Has
    <3>2. CASE u # t
      BY <2>3, <3>2 DEF Has, TypeOK
    <3> QED BY <3>1, <3>2
  <2>5. \A u \in Threads, j \in Keys : Has(u, j) /\ ProcOf[u] # ProcOf[t] => Has(u, j)'
    BY <2>3 DEF Has, TypeOK
  <2> HIDE DEF k, n
  <2>6. HeldIsTaken'
    <3> SUFFICES ASSUME NEW p \in Procs, NEW j \in held'[p], ~OfUnlucky(p)
                 PROVE  \E u \in Threads : ProcOf[u] = p /\ Has(u, j)'
      BY DEF HeldIsTaken, OfUnlucky
    <3>1. j \in held[p] /\ (p = ProcOf[t] => j # k)
      BY <1>0, <2>3 DEF TypeOK, OfUnlucky
    <3>2. j \in Keys
      BY <3>1 DEF TypeOK
    <3>3. PICK u \in Threads : ProcOf[u] = p /\ Has(u, j)
      BY <3>1 DEF HeldIsTaken
    <3> QED BY <2>4, <2>5, <3>1, <3>2, <3>3
  <2>7. DoneHasNothing'
    BY <2>3 DEF DoneHasNothing, TypeOK
  <2> QED BY <2>6, <2>7
<1> QED BY <1>1, <1>2

\* No step leaves a lock behind that no thread is to release.
LEMMA StepEnd ==
  TypeOK /\ WaitsForKey /\ HeldIsTaken /\ DoneHasNothing /\ [Next]_vars => HeldIsTaken' /\ DoneHasNothing'
<1> SUFFICES ASSUME TypeOK, WaitsForKey, HeldIsTaken, DoneHasNothing, [Next]_vars
             PROVE  HeldIsTaken' /\ DoneHasNothing'
  OBVIOUS
<1>0. ASSUME UNCHANGED <<taken, held>>, \A t \in Threads : pc'[t] = "done" => pc[t] = "done"
      PROVE  HeldIsTaken' /\ DoneHasNothing'
  BY <1>0 DEF HeldIsTaken, DoneHasNothing, Has, OfUnlucky
<1>1. ASSUME NEW t \in Threads, Errs(t) PROVE HeldIsTaken' /\ DoneHasNothing'
  BY <1>0, <1>1 DEF Errs, TypeOK
<1>2. ASSUME NEW t \in Threads, NEW k \in Keys, Acquire(t, k) PROVE HeldIsTaken' /\ DoneHasNothing'
  <2>1. CASE Errs(t) \/ Gets(t, k)
    BY <1>1, <2>1, GetsEnd
  <2>2. CASE pc' = [pc EXCEPT ![t] = "wait"] /\ UNCHANGED <<taken, held>>
    BY <1>0, <2>2 DEF TypeOK
  <2> QED BY <1>2, <2>1, <2>2 DEF Acquire
<1>3. ASSUME NEW t \in Threads, Granted(t) PROVE HeldIsTaken' /\ DoneHasNothing'
  BY <1>3, GetsEnd DEF Granted, WaitsForKey
<1>4. ASSUME NEW t \in Threads, WaitFails(t) PROVE HeldIsTaken' /\ DoneHasNothing'
  BY <1>1, <1>4 DEF WaitFails
<1>5. ASSUME NEW t \in Threads, Finish(t) PROVE HeldIsTaken' /\ DoneHasNothing'
  BY <1>0, <1>5 DEF Finish, TypeOK
<1>6. ASSUME NEW p \in Procs, Replaced(p) PROVE HeldIsTaken' /\ DoneHasNothing'
  <2>1. \A q \in Procs : held'[q] = IF q = p THEN {} ELSE held[q]
    BY <1>6 DEF Replaced, TypeOK
  <2>2. \A t \in Threads : /\ ProcOf[t] # p => taken'[t] = taken[t] /\ pc'[t] = pc[t]
                           /\ ProcOf[t] = p => taken'[t] = <<>>
    BY <1>6 DEF Replaced
  <2>3. HeldIsTaken'
    BY <2>1, <2>2 DEF HeldIsTaken, Has, OfUnlucky
  <2>4. DoneHasNothing'
    BY <2>2 DEF DoneHasNothing
  <2> QED BY <2>3, <2>4
<1>7. CASE UNCHANGED vars
  BY <1>0, <1>7 DEF vars
<1> QED BY <1>2, <1>3, <1>4, <1>5, <1>6, <1>7, ReleaseEnd DEF Next, Step, Exit, Crash

\* Whatever the threads of a process did, whichever of their waits failed and
\* however many of them got one key at once, when all of them are done and none
\* of their releases failed, the manager of the process is empty.
THEOREM EndsEmpty == Spec => []EndReleasesAll
<1>1. HeldIsTaken /\ DoneHasNothing => EndReleasesAll
  <2> SUFFICES ASSUME HeldIsTaken, DoneHasNothing, NEW p \in Procs, NEW k \in held[p],
                      \A t \in Threads : ProcOf[t] = p => pc[t] = "done" /\ t \notin Unlucky
               PROVE  FALSE
    BY DEF EndReleasesAll
  <2>1. PICK t \in Threads : ProcOf[t] = p /\ Has(t, k)
    BY DEF HeldIsTaken, OfUnlucky
  <2>2. taken[t] = <<>>
    BY <2>1 DEF DoneHasNothing
  <2> QED BY <2>1, <2>2 DEF Has
<1> QED BY <1>1, Invariant, InitEnd, StepEnd, PTL DEF Spec
=============================================================================
