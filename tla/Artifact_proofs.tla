--------------------------- MODULE Artifact_proofs ---------------------------
(***************************************************************************)
(* Proofs about the download cache, for any number of operations, and      *)
(* about the extraction of an archive, for any archives and limits.        *)
(***************************************************************************)
EXTENDS DownloadCache, Extraction, FiniteSetTheorems, SequenceTheorems, WellFoundedInduction, TLAPS

-----------------------------------------------------------------------------
(* The download cache *)

\* Every variable starts with its shape.
LEMMA InitType == Init => TypeOK
BY DEF Init, TypeOK, Files, Bytes

\* A download that ends with an error keeps the shapes.
LEMMA FailsType ==
  ASSUME TypeOK, NEW o \in Ops, NEW from, Fails(o, from)
  PROVE  TypeOK'
BY DEF TypeOK, Fails, Goes, Files

\* No step of a download, of the cancel or of the disk breaks a shape.
LEMMA StepType == TypeOK /\ [Next]_vars => TypeOK'
<1> SUFFICES ASSUME TypeOK, [Next]_vars PROVE TypeOK'
  OBVIOUS
<1>1. ASSUME NEW o \in Ops, Start(o) \/ Reuse(o) PROVE TypeOK'
  BY <1>1 DEF Start, Reuse, Goes, TypeOK, Running
<1>2. ASSUME NEW o \in Ops, Get(o) PROVE TypeOK'
  BY <1>2, FailsType DEF Get, Goes, TypeOK, Running, Files
<1>3. ASSUME NEW o \in Ops, Write(o) PROVE TypeOK'
  BY <1>3, FailsType DEF Write, Goes, TypeOK, Running, Files
<1>4. ASSUME NEW o \in Ops, Verify(o) \/ Rename(o) PROVE TypeOK'
  BY <1>4, FailsType DEF Verify, Rename, Goes, TypeOK, Running, Files
<1>5. ASSUME NEW o \in Ops, Extract(o) \/ Crash(o) PROVE TypeOK'
  BY <1>5 DEF Extract, Crash, Goes, TypeOK, Running, Files
<1>6. CASE GoBad
  BY <1>6 DEF GoBad, TypeOK, Files, Bytes
<1>7. CASE UNCHANGED vars
  BY <1>7 DEF vars, TypeOK
<1> QED BY <1>1, <1>2, <1>3, <1>4, <1>5, <1>6, <1>7 DEF Next, Step

\* The files and flags keep their shape.
THEOREM TypeCorrect == Spec => []TypeOK
BY InitType, StepType, PTL DEF Spec

-----------------------------------------------------------------------------
(* One lock over the entry *)

IInv == TypeOK /\ OneRuns /\ PartIsHashed /\ CacheHoldsVerified /\ ExtractedIsVerified

\* Before the first download the invariant holds: there are no files.
LEMMA InitInv == Init => IInv
BY InitType DEF Init, IInv, OneRuns, PartIsHashed, CacheHoldsVerified, ExtractedIsVerified, Running

\* Who fails was running and leaves entry and extractions alone.
LEMMA FailsInv ==
  ASSUME IInv, NEW o \in Ops, NEW from \in Running, Fails(o, from)
  PROVE  IInv'
<1>1. TypeOK'
  BY FailsType DEF IInv
<1>2. /\ pc[o] \in Running /\ pc'[o] = "failed" /\ \A p \in Ops : p # o => pc'[p] = pc[p]
      /\ UNCHANGED <<sent, cache, used, rotten>>
  BY DEF Fails, Goes, IInv, TypeOK
<1>3. \A p \in Ops : p # o => pc'[p] \notin Running
  BY <1>2 DEF IInv, OneRuns
<1>4. OneRuns' /\ PartIsHashed'
  BY <1>2, <1>3 DEF OneRuns, PartIsHashed, Running
<1>5. CacheHoldsVerified' /\ ExtractedIsVerified'
  BY <1>2 DEF IInv, CacheHoldsVerified, ExtractedIsVerified
<1> QED BY <1>1, <1>4, <1>5 DEF IInv

\* With one lock over the entry every step keeps the invariant.
LEMMA StepInv == OneLock /\ IInv /\ [Next]_vars => IInv'
<1> SUFFICES ASSUME OneLock, IInv, [Next]_vars PROVE IInv'
  OBVIOUS
<1>0. TypeOK'
  BY StepType DEF IInv
<1> USE DEF IInv
<1>1. ASSUME NEW o \in Ops, Start(o) PROVE IInv'
  <2>1. /\ \A p \in Ops : pc[p] \notin Running
        /\ pc'[o] = "reuse" /\ \A p \in Ops : p # o => pc'[p] = pc[p]
        /\ UNCHANGED <<sent, part, cache, used, rotten>>
    BY <1>1 DEF Start, Goes, TypeOK, OneLock
  <2> QED BY <1>0, <2>1 DEF OneRuns, PartIsHashed, CacheHoldsVerified, ExtractedIsVerified, Running
<1>2. ASSUME NEW o \in Ops, pc[o] \in Running, \A p \in Ops : p # o => pc'[p] = pc[p]
      PROVE  \A p \in Ops : p # o => pc'[p] \notin Running
  BY <1>2 DEF OneRuns
<1>3. ASSUME NEW o \in Ops, Reuse(o) PROVE IInv'
  <2>1. /\ pc[o] = "reuse" /\ (pc'[o] = "get" \/ (pc'[o] = "extract" /\ cache = "good"))
        /\ \A p \in Ops : p # o => pc'[p] = pc[p]
        /\ UNCHANGED <<sent, part, cache, used, rotten>>
    BY <1>3 DEF Reuse, Goes, TypeOK
  <2>2. \A p \in Ops : p # o => pc'[p] \notin Running
    BY <1>2, <2>1 DEF Running
  <2> QED BY <1>0, <2>1, <2>2 DEF OneRuns, PartIsHashed, CacheHoldsVerified, ExtractedIsVerified, Running
<1>4. ASSUME NEW o \in Ops, Get(o) PROVE IInv'
  <2>1. CASE Fails(o, "get")
    BY <2>1, FailsInv DEF Running
  <2>2. CASE Goes(o, "get", "write") /\ UNCHANGED <<sent, cache, used, rotten>>
    <3>1. pc[o] = "get" /\ pc'[o] = "write" /\ \A p \in Ops : p # o => pc'[p] = pc[p]
      BY <2>2 DEF Goes, TypeOK
    <3>2. \A p \in Ops : p # o => pc'[p] \notin Running
      BY <1>2, <3>1 DEF Running
    <3> QED BY <1>0, <2>2, <3>1, <3>2 DEF OneRuns, PartIsHashed, CacheHoldsVerified,
          ExtractedIsVerified, Running
  <2> QED BY <1>4, <2>1, <2>2 DEF Get
<1>5. ASSUME NEW o \in Ops, Write(o) PROVE IInv'
  <2>1. CASE Fails(o, "write")
    BY <2>1, FailsInv DEF Running
  <2>2. CASE /\ Goes(o, "write", "verify") /\ UNCHANGED <<cache, used, rotten>>
             /\ \E body \in Bytes : sent' = [sent EXCEPT ![o] = body] /\ part' = body
    <3>1. pc[o] = "write" /\ pc'[o] = "verify" /\ \A p \in Ops : p # o => pc'[p] = pc[p]
      BY <2>2 DEF Goes, TypeOK
    <3>2. \A p \in Ops : p # o => pc'[p] \notin Running
      BY <1>2, <3>1 DEF Running
    <3>3. part' = sent'[o]
      BY <2>2 DEF TypeOK
    <3> QED BY <1>0, <2>2, <3>1, <3>2, <3>3 DEF OneRuns, PartIsHashed, CacheHoldsVerified,
          ExtractedIsVerified, Running
  <2> QED BY <1>5, <2>1, <2>2 DEF Write
<1>6. ASSUME NEW o \in Ops, Verify(o) PROVE IInv'
  <2>1. CASE Fails(o, "verify")
    BY <2>1, FailsInv DEF Running
  <2>2. CASE /\ sent[o] = "good" /\ Goes(o, "verify", "rename")
             /\ UNCHANGED <<sent, part, cache, used, rotten>>
    <3>1. pc[o] = "verify" /\ pc'[o] = "rename" /\ \A p \in Ops : p # o => pc'[p] = pc[p]
      BY <2>2 DEF Goes, TypeOK
    <3>2. \A p \in Ops : p # o => pc'[p] \notin Running
      BY <1>2, <3>1 DEF Running
    <3>3. part' = "good"
      BY <2>2, <3>1 DEF PartIsHashed
    <3> QED BY <1>0, <2>2, <3>1, <3>2, <3>3 DEF OneRuns, PartIsHashed, CacheHoldsVerified,
          ExtractedIsVerified, Running
  <2> QED BY <1>6, <2>1, <2>2 DEF Verify
<1>7. ASSUME NEW o \in Ops, Rename(o) PROVE IInv'
  <2>1. CASE Fails(o, "rename")
    BY <2>1, FailsInv DEF Running
  <2>2. CASE /\ Goes(o, "rename", "extract") /\ cache' = part /\ rotten' = FALSE
             /\ UNCHANGED <<sent, used>>
    <3>1. pc[o] = "rename" /\ pc'[o] = "extract" /\ \A p \in Ops : p # o => pc'[p] = pc[p]
      BY <2>2 DEF Goes, TypeOK
    <3>2. \A p \in Ops : p # o => pc'[p] \notin Running
      BY <1>2, <3>1 DEF Running
    <3>3. cache' = "good"
      BY <2>2, <3>1 DEF PartIsHashed
    <3> QED BY <1>0, <2>2, <3>1, <3>2, <3>3 DEF OneRuns, PartIsHashed, CacheHoldsVerified,
          ExtractedIsVerified, Running
  <2> QED BY <1>7, <2>1, <2>2 DEF Rename
<1>8. ASSUME NEW o \in Ops, Extract(o) \/ Crash(o) PROVE IInv'
  <2>1. /\ pc[o] \in Running /\ pc'[o] \in {"done", "failed"}
        /\ pc'[o] = "done" => pc[o] = "extract" /\ used'[o] = cache
        /\ \A p \in Ops : p # o => pc'[p] = pc[p] /\ used'[p] = used[p]
        /\ UNCHANGED <<cache, rotten>>
    BY <1>8 DEF Extract, Crash, Goes, TypeOK, Running
  <2>2. \A p \in Ops : p # o => pc'[p] \notin Running
    BY <1>2, <2>1
  <2>3. OneRuns' /\ PartIsHashed'
    BY <2>1, <2>2 DEF OneRuns, PartIsHashed, Running
  <2>4. CacheHoldsVerified' /\ ExtractedIsVerified'
    BY <2>1 DEF CacheHoldsVerified, ExtractedIsVerified, PartIsHashed
  <2> QED BY <1>0, <2>3, <2>4
<1>9. CASE GoBad
  BY <1>0, <1>9 DEF GoBad, OneRuns, PartIsHashed, CacheHoldsVerified, ExtractedIsVerified, Running
<1>10. CASE UNCHANGED vars
  BY <1>0, <1>10 DEF vars, OneRuns, PartIsHashed, CacheHoldsVerified, ExtractedIsVerified
<1> QED
  BY <1>1, <1>3, <1>4, <1>5, <1>6, <1>7, <1>8, <1>9, <1>10 DEF Next, Step

\* The invariant holds in every run whose downloads of the entry are serial.
LEMMA Invariant == ASSUME OneLock PROVE Spec => []IInv
BY InitInv, StepInv, PTL DEF Spec

\* Under one lock no unverified byte ever has the name of the cache entry.
THEOREM CacheVerified == ASSUME OneLock PROVE Spec => []CacheHoldsVerified
BY Invariant, PTL DEF IInv

\* Under one lock every extraction reads verified bytes, whatever rots, fails or
\* dies between operations.
THEOREM ExtractionVerified == ASSUME OneLock PROVE Spec => []ExtractedIsVerified
BY Invariant, PTL DEF IInv

\* An entry is written by a rename of verified bytes only, and nothing of a
\* download removes it.
LEMMA EntryStep == OneLock /\ IInv /\ [Next]_vars => (cache = "good" /\ ~rotten' => cache' = "good")
<1> SUFFICES ASSUME OneLock, IInv, [Next]_vars, cache = "good", ~rotten' PROVE cache' = "good"
  OBVIOUS
<1>1. IInv'
  BY StepInv
<1>2. cache' # "absent"
  <2>1. ASSUME NEW o \in Ops, Step(o) \/ Crash(o) PROVE cache' # "absent"
    BY <2>1 DEF Step, Crash, Start, Reuse, Get, Write, Verify, Rename, Extract, Fails
  <2>2. CASE GoBad
    BY <2>2 DEF GoBad
  <2>3. CASE UNCHANGED vars
    BY <2>3 DEF vars
  <2> QED BY <2>1, <2>2, <2>3 DEF Next
<1> QED BY <1>1, <1>2 DEF IInv, CacheHoldsVerified

\* Under one lock a good entry is never lost to a download, neither one that
\* fails nor one that could not read the entry and fetched it again.
THEOREM EntryStays == ASSUME OneLock PROVE Spec => GoodEntryStays
<1>1. OneLock /\ IInv /\ [Next]_vars => [cache = "good" /\ ~rotten' => cache' = "good"]_vars
  BY EntryStep
<1> QED BY <1>1, Invariant, PTL DEF Spec, GoodEntryStays

-----------------------------------------------------------------------------
(* Sums *)

\* What holds of 0 and passes from each number to the next holds of all.
LEMMA Induction ==
  ASSUME NEW S, 0 \in S, \A n \in Nat : n \in S => n + 1 \in S
  PROVE  \A n \in Nat : n \in S
<1> SUFFICES ASSUME Nat \ S # {} PROVE FALSE
  OBVIOUS
<1>1. PICK x \in Nat \ S : \A y \in Nat \ S : <<y, x>> \notin OpToRel(<, Nat)
  BY NatLessThanWellFounded, WFMin
<1>2. x \in Nat /\ x \notin S /\ x # 0
  BY <1>1
<1>3. x - 1 \in Nat /\ x - 1 + 1 = x
  BY <1>2
<1>4. x - 1 \in S
  <2>1. <<x - 1, x>> \in Nat \X Nat /\ x - 1 < x
    BY <1>2, <1>3
  <2>2. <<x - 1, x>> \in OpToRel(<, Nat)
    BY <2>1 DEF OpToRel
  <2> QED BY <1>1, <1>3, <2>2
<1> QED BY <1>2, <1>3, <1>4

\* The sum of n + 1 numbers is that of n of them and the last.
LEMMA SumIs ==
  ASSUME NEW numbers
  PROVE  /\ Sum(numbers, 0) = 0
         /\ \A n \in Nat : Sum(numbers, n + 1) = Sum(numbers, n) + numbers[n + 1]
<1> DEFINE Follows(g, n) == /\ DOMAIN g = Nat /\ g[0] = 0
                            /\ \A k \in 1 .. n : g[k] = g[k - 1] + numbers[k]
           sums == {n \in Nat : \E g : Follows(g, n)}
           single == {n \in Nat : \A g, h : Follows(g, n) /\ Follows(h, n) => g[n] = h[n]}
           sum == [n \in Nat |-> (CHOOSE g : Follows(g, n))[n]]
<1>1. \A n \in Nat : n \in sums
  <2>1. 0 \in sums
    <3>1. Follows([n \in Nat |-> 0], 0)
      OBVIOUS
    <3> QED BY <3>1
  <2>2. ASSUME NEW n \in Nat, n \in sums PROVE n + 1 \in sums
    <3>1. PICK g : Follows(g, n)
      BY <2>2
    <3> DEFINE h == [g EXCEPT ![n + 1] = g[n] + numbers[n + 1]]
    <3>2. DOMAIN h = Nat /\ h[0] = 0
      BY <3>1
    <3>3. h[n + 1] = g[n] + numbers[n + 1] /\ h[n] = g[n]
      BY <3>1
    <3>4. \A k \in 1 .. n : h[k] = g[k] /\ h[k - 1] = g[k - 1]
      BY <3>1
    <3>5. \A k \in 1 .. n + 1 : k \in 1 .. n \/ k = n + 1
      OBVIOUS
    <3> HIDE DEF h
    <3>6. ASSUME NEW k \in 1 .. n + 1 PROVE h[k] = h[k - 1] + numbers[k]
      <4>1. CASE k \in 1 .. n
        BY <3>1, <3>4, <4>1
      <4>2. CASE k = n + 1
        <5>1. k - 1 = n
          BY <4>2
        <5> QED BY <3>3, <4>2, <5>1
      <4> QED BY <3>5, <4>1, <4>2
    <3> QED BY <3>2, <3>6
  <2> HIDE DEF sums
  <2> QED BY <2>1, <2>2, Induction
<1>2. \A n \in Nat : n \in single
  <2>1. 0 \in single
    OBVIOUS
  <2>2. ASSUME NEW n \in Nat, n \in single PROVE n + 1 \in single
    <3>1. ASSUME NEW g, NEW h, Follows(g, n + 1), Follows(h, n + 1) PROVE g[n + 1] = h[n + 1]
      <4>1. n + 1 \in 1 .. n + 1 /\ n + 1 - 1 = n /\ \A k \in 1 .. n : k \in 1 .. n + 1
        OBVIOUS
      <4>2. Follows(g, n) /\ Follows(h, n)
        BY <3>1, <4>1
      <4>3. g[n] = h[n]
        BY <2>2, <4>2
      <4>4. g[n + 1] = g[n] + numbers[n + 1] /\ h[n + 1] = h[n] + numbers[n + 1]
        BY <3>1, <4>1
      <4> QED BY <4>3, <4>4
    <3> HIDE DEF Follows
    <3> QED BY <3>1
  <2> HIDE DEF single
  <2> QED BY <2>1, <2>2, Induction
<1>3. \A n \in Nat : Follows(CHOOSE g : Follows(g, n), n)
  <2> HIDE DEF Follows
  <2> QED BY <1>1
<1>4. sum[0] = 0
  BY <1>3
<1>5. ASSUME NEW n \in Nat PROVE sum[n + 1] = sum[n] + numbers[n + 1]
  <2> DEFINE g == CHOOSE q : Follows(q, n + 1)
             h == CHOOSE q : Follows(q, n)
  <2>1. Follows(g, n + 1) /\ Follows(h, n) /\ sum[n + 1] = g[n + 1] /\ sum[n] = h[n]
    BY <1>3
  <2> HIDE DEF g, h, sum
  <2>2. n + 1 \in 1 .. n + 1 /\ n + 1 - 1 = n /\ \A k \in 1 .. n : k \in 1 .. n + 1
    OBVIOUS
  <2>3. Follows(g, n) /\ g[n + 1] = g[n] + numbers[n + 1]
    BY <2>1, <2>2
  <2> HIDE DEF Follows
  <2>4. g[n] = h[n]
    BY <1>2, <2>1, <2>3
  <2> QED BY <2>1, <2>3, <2>4
<1>6. sum = [k \in Nat |-> IF k = 0 THEN 0 ELSE sum[k - 1] + numbers[k]]
  <2>1. ASSUME NEW k \in Nat, k # 0 PROVE sum[k] = sum[k - 1] + numbers[k]
    <3>1. k - 1 \in Nat /\ k - 1 + 1 = k
      BY <2>1
    <3> HIDE DEF sum
    <3> QED BY <1>5, <3>1
  <2>2. DOMAIN sum = Nat /\ sum = [k \in Nat |-> sum[k]]
    OBVIOUS
  <2> HIDE DEF sum
  <2> QED BY <1>4, <2>1, <2>2
<1> DEFINE total == CHOOSE t : t = [k \in Nat |-> IF k = 0 THEN 0 ELSE t[k - 1] + numbers[k]]
<1>7. total = [k \in Nat |-> IF k = 0 THEN 0 ELSE total[k - 1] + numbers[k]]
  <2> HIDE DEF sum
  <2> QED BY <1>6
<1>8. \A n : Sum(numbers, n) = total[n]
  BY DEF Sum
<1> HIDE DEF total
<1>9. total[0] = 0
  BY <1>7
<1>10. ASSUME NEW n \in Nat PROVE total[n + 1] = total[n] + numbers[n + 1]
  <2>1. n + 1 \in Nat /\ n + 1 # 0 /\ n + 1 - 1 = n
    OBVIOUS
  <2>2. total[n + 1] = total[n + 1 - 1] + numbers[n + 1]
    BY <1>7, <2>1
  <2> QED BY <2>1, <2>2
<1> QED BY <1>8, <1>9, <1>10

\* Fewer numbers come to less.
LEMMA SumGrows ==
  ASSUME NEW N \in Nat, NEW numbers, \A i \in 1 .. N : numbers[i] \in Nat
  PROVE  \A n \in 0 .. N : \A m \in 0 .. n :
           Sum(numbers, m) \in Nat /\ Sum(numbers, n) \in Nat /\ Sum(numbers, m) <= Sum(numbers, n)
<1> DEFINE S == {n \in Nat : n <= N => /\ Sum(numbers, n) \in Nat
                                       /\ \A m \in 0 .. n : Sum(numbers, m) \in Nat /\ Sum(numbers, m) <= Sum(numbers, n)}
<1>1. 0 \in S
  <2>1. \A m \in 0 .. 0 : m = 0
    OBVIOUS
  <2> QED BY <2>1, SumIs
<1>2. ASSUME NEW n \in Nat, n \in S PROVE n + 1 \in S
  <2> SUFFICES ASSUME n + 1 <= N
               PROVE  /\ Sum(numbers, n + 1) \in Nat
                      /\ \A m \in 0 .. n + 1 : Sum(numbers, m) \in Nat /\ Sum(numbers, m) <= Sum(numbers, n + 1)
    OBVIOUS
  <2>1. n <= N /\ numbers[n + 1] \in Nat
    OBVIOUS
  <2>2. /\ Sum(numbers, n) \in Nat
        /\ \A m \in 0 .. n : Sum(numbers, m) \in Nat /\ Sum(numbers, m) <= Sum(numbers, n)
    BY <1>2, <2>1
  <2>3. Sum(numbers, n + 1) = Sum(numbers, n) + numbers[n + 1]
    BY SumIs
  <2>4. \A m \in 0 .. n + 1 : m \in 0 .. n \/ m = n + 1
    OBVIOUS
  <2> QED BY <2>1, <2>2, <2>3, <2>4
<1>3. \A n \in Nat : n \in S
  <2> HIDE DEF S
  <2> QED BY <1>1, <1>2, Induction
<1> QED BY <1>3

-----------------------------------------------------------------------------
(* Paths and the entries of an archive *)

\* Of finitely many numbers there is a first, a second and so on to the last: as many
\* numbers are below each as below no other.
LEMMA NthIsOne ==
  ASSUME NEW K, IsFiniteSet(K), K \subseteq Nat, NEW k \in 1 .. Cardinality(K)
  PROVE  Nth(K, k) \in K /\ Cardinality({m \in K : m < Nth(K, k)}) = k - 1
<1> DEFINE Lower(n) == {m \in K : m < n}
           rank == [n \in K |-> Cardinality(Lower(n))]
           size == Cardinality(K)
<1>1. size \in Nat /\ size = Cardinality(K)
  BY FS_CardinalityType
<1>2. \A n \in K : rank[n] = Cardinality(Lower(n))
  OBVIOUS
<1>3. rank = [n \in K |-> rank[n]] /\ DOMAIN rank = K
  OBVIOUS
<1> HIDE DEF rank, size
<1>4. ASSUME NEW n \in K
      PROVE  IsFiniteSet(Lower(n)) /\ rank[n] \in Nat /\ rank[n] < size
  <2>1. IsFiniteSet(K \ {n}) /\ Cardinality(K \ {n}) = size - 1
    BY <1>1, FS_RemoveElement
  <2>2. Lower(n) \subseteq K \ {n}
    OBVIOUS
  <2>3. IsFiniteSet(Lower(n)) /\ Cardinality(Lower(n)) <= size - 1
    BY <2>1, <2>2, FS_Subset
  <2>4. Cardinality(Lower(n)) \in Nat
    BY <2>3, FS_CardinalityType
  <2> QED BY <1>1, <1>2, <2>3, <2>4
<1>5. \A n \in K : rank[n] \in Nat /\ rank[n] < size
  BY <1>4
<1>6. ASSUME NEW m \in K, NEW n \in K, m < n PROVE rank[m] < rank[n]
  <2>1. m \in Lower(n) /\ Lower(m) \subseteq Lower(n) \ {m}
    <3>1. m \in Nat /\ n \in Nat /\ \A l \in K : l \in Nat
      OBVIOUS
    <3>2. \A l \in K : l < m => l < n /\ l # m
      BY <1>6, <3>1
    <3> QED BY <1>6, <3>2
  <2>2. IsFiniteSet(Lower(n) \ {m}) /\ Cardinality(Lower(n) \ {m}) = rank[n] - 1
    BY <1>2, <1>4, <2>1, FS_RemoveElement
  <2>3. Cardinality(Lower(m)) <= Cardinality(Lower(n) \ {m})
    BY <2>1, <2>2, FS_Subset
  <2>4. rank[m] <= rank[n] - 1
    BY <1>2, <2>2, <2>3
  <2>5. rank[m] \in Nat /\ rank[n] \in Nat
    BY <1>5
  <2> HIDE DEF Lower
  <2> QED BY <2>4, <2>5
<1>7. ASSUME NEW m \in K, NEW n \in K, rank[m] = rank[n] PROVE m = n
  <2>1. rank[m] \in Nat /\ rank[n] \in Nat /\ m \in Nat /\ n \in Nat
    BY <1>5
  <2>2. ~(m < n) /\ ~(n < m)
    BY <1>6, <1>7, <2>1
  <2> QED BY <2>1, <2>2
<1>8. \E n \in K : rank[n] = k - 1
  <2> SUFFICES ASSUME \A n \in K : rank[n] # k - 1 PROVE FALSE
    OBVIOUS
  <2> DEFINE T == (0 .. size - 1) \ {k - 1}
  <2>1. IsFiniteSet(0 .. size - 1) /\ Cardinality(0 .. size - 1) = size /\ k - 1 \in 0 .. size - 1
    <3>1. k \in 1 .. size
      BY <1>1
    <3>2. k - 1 \in 0 .. size - 1 /\ 0 \in Int /\ size - 1 \in Int
      BY <1>1, <3>1
    <3> QED BY <1>1, <3>2, FS_Interval
  <2>2. IsFiniteSet(T) /\ Cardinality(T) < Cardinality(K)
    <3>1. IsFiniteSet(T) /\ Cardinality(T) = Cardinality(0 .. size - 1) - 1
      BY <2>1, FS_RemoveElement
    <3> QED BY <1>1, <2>1, <3>1
  <2>3. rank \in [K -> T]
    <3>1. ASSUME NEW n \in K PROVE rank[n] \in T
      <4>1. rank[n] \in 0 .. size - 1
        BY <1>1, <1>5
      <4> QED BY <4>1
    <3> QED BY <1>3, <3>1
  <2> HIDE DEF T
  <2>4. \E x, y \in K : x # y /\ rank[x] = rank[y]
    BY <2>2, <2>3, FS_PigeonHole
  <2> QED BY <1>7, <2>4
<1>9. \E n \in K : Cardinality({m \in K : m < n}) = k - 1
  BY <1>2, <1>8
<1> QED BY <1>9 DEF Nth

\* The directories above a path are those above its parent, and its parent.
LEMMA ParentsAre ==
  /\ WithParents(<<>>) = {}
  /\ \A path \in Seq(Components) \ {<<>>} :
       /\ path \in WithParents(path) /\ path \notin WithParents(Front(path))
       /\ Front(path) \in Seq(Components) /\ Front(path) # path
       /\ WithParents(path) = WithParents(Front(path)) \cup {path}
       /\ Front(path) # <<>> => Front(path) \in WithParents(Front(path))
<1>1. WithParents(<<>>) = {}
  <2>1. \A l \in 0 .. Len(<<>>) : SubSeq(<<>>, 1, l) = <<>>
    BY EmptySeq, SubSeqEmpty
  <2> QED BY <2>1 DEF WithParents, Prefixes
<1>2. ASSUME NEW path \in Seq(Components), path # <<>>
      PROVE  path \in WithParents(path)
  BY <1>2, SubSeqFull, LenProperties DEF WithParents, Prefixes
<1>3. ASSUME NEW path \in Seq(Components), path # <<>>
      PROVE  /\ Front(path) \in Seq(Components) /\ Len(Front(path)) = Len(path) - 1
             /\ WithParents(path) = WithParents(Front(path)) \cup {path}
             /\ path \notin WithParents(Front(path))
  <2>1. Len(path) \in Nat \ {0} /\ path \in [1 .. Len(path) -> Components]
    BY <1>3, EmptySeq, LenProperties
  <2>2. Front(path) \in Seq(Components) /\ Len(Front(path)) = Len(path) - 1
    <3>1. \A i \in 1 .. Len(path) - 1 : path[i] \in Components
      BY <2>1
    <3> QED BY <2>1, <3>1, SubSeqProperties DEF Front
  <2>3. SubSeq(path, 1, Len(path)) = path
    BY SubSeqFull
  <2>4. ASSUME NEW l \in 0 .. Len(path) - 1 PROVE SubSeq(Front(path), 1, l) = SubSeq(path, 1, l)
    <3>1. CASE l = 0
      BY <3>1, SubSeqEmpty
    <3>2. CASE l # 0
      <4>1. 1 \in 1 .. Len(path) /\ Len(path) - 1 \in 1 .. Len(path)
            /\ 1 \in 1 .. (Len(path) - 1) - 1 + 1 /\ l \in 1 .. (Len(path) - 1) - 1 + 1
        BY <2>1, <3>2
      <4>2. SubSeq(SubSeq(path, 1, Len(path) - 1), 1, l) = SubSeq(path, 1 + 1 - 1, 1 + l - 1)
        BY <4>1, SubSeqOfSubSeq
      <4> QED BY <2>1, <4>2 DEF Front
    <3> QED BY <3>1, <3>2
  <2>5. Prefixes(path) = {SubSeq(path, 1, l) : l \in 0 .. Len(path) - 1} \cup {path}
    <3>1. 0 .. Len(path) = (0 .. Len(path) - 1) \cup {Len(path)}
      BY <2>1
    <3> QED BY <2>3, <3>1 DEF Prefixes
  <2>6. Prefixes(Front(path)) = {SubSeq(path, 1, l) : l \in 0 .. Len(path) - 1}
    BY <2>2, <2>4 DEF Prefixes
  <2>7. \A l \in 0 .. Len(path) - 1 : SubSeq(path, 1, l) # path
    <3>1. ASSUME NEW l \in 0 .. Len(path) - 1 PROVE Len(SubSeq(path, 1, l)) = l
      <4>1. \A i \in 1 .. l : path[i] \in Components
        BY <2>1
      <4> QED BY <2>1, <4>1, SubSeqProperties
    <3>2. ASSUME NEW l \in 0 .. Len(path) - 1 PROVE l # Len(path)
      <4>1. Len(path) \in Nat
        BY <2>1
      <4> QED BY <4>1
    <3> QED BY <3>1, <3>2
  <2> QED BY <1>3, <2>2, <2>5, <2>6, <2>7 DEF WithParents
<1>4. ASSUME NEW path \in Seq(Components) \ {<<>>} PROVE Front(path) # path
  BY <1>3, LenProperties
<1> QED BY <1>1, <1>2, <1>3, <1>4

\* The item of the first pass is what is left of the entry with its index.
ComesFrom(item, entries, strip) ==
  /\ item.index \in DOMAIN entries /\ checkEntry(entries[item.index])
  /\ item.path \in stripComponents(entries[item.index], strip) /\ item.kind = entries[item.index].kind
  /\ item.size = entries[item.index].size /\ item.executable = entries[item.index].executable

\* What the first pass lets through is a list of files and directories with paths of
\* their own, no directory spelled in two ways.
LEMMA InspectionIs ==
  ASSUME NEW entries \in Seq(ArchiveEntry), NEW strip
  PROVE  /\ Inspection(entries, strip) \in Seq(InspectedItem)
         /\ registerPrefixes({Inspection(entries, strip)[k].path : k \in DOMAIN Inspection(entries, strip)})
         /\ \A k, l \in DOMAIN Inspection(entries, strip) :
              Inspection(entries, strip)[k].index = Inspection(entries, strip)[l].index => k = l
         /\ \A k \in DOMAIN Inspection(entries, strip) : ComesFrom(Inspection(entries, strip)[k], entries, strip)
<1> DEFINE kept == {i \in DOMAIN entries : stripComponents(entries[i], strip) # {}}
           items == [k \in 1 .. Cardinality(kept) |-> InspectedEntry(entries, strip, Nth(kept, k))]
<1>1. CASE Inspection(entries, strip) = <<>>
  <2>1. {Inspection(entries, strip)[k].path : k \in DOMAIN Inspection(entries, strip)} = {} /\ DOMAIN Inspection(entries, strip) = {}
    BY <1>1
  <2> QED BY <1>1, <2>1, EmptySeq DEF registerPrefixes
<1>2. CASE Inspection(entries, strip) # <<>>
  <2>1. /\ Inspection(entries, strip) = items
        /\ \A i \in DOMAIN entries : checkEntry(entries[i])
        /\ registerPrefixes({items[k].path : k \in DOMAIN items})
    BY <1>2 DEF Inspection
  <2>2. DOMAIN entries = 1 .. Len(entries) /\ Len(entries) \in Nat /\ entries \in [1 .. Len(entries) -> ArchiveEntry]
    BY LenProperties
  <2>3. IsFiniteSet(kept) /\ kept \subseteq Nat
    <3>1. IsFiniteSet(1 .. Len(entries))
      BY <2>2, FS_Interval
    <3> QED BY <2>2, <3>1, FS_Subset
  <2>4. Cardinality(kept) \in Nat
    BY <2>3, FS_CardinalityType
  <2>5. ASSUME NEW k \in 1 .. Cardinality(kept) PROVE items[k] \in InspectedItem
    <3> DEFINE i == Nth(kept, k)
               path == CHOOSE path \in stripComponents(entries[i], strip) : TRUE
    <3>1. i \in kept
      BY <2>3, NthIsOne
    <3>2. items[k] = [index |-> i, path |-> path, kind |-> entries[i].kind, size |-> entries[i].size,
                      executable |-> entries[i].executable]
      BY DEF InspectedEntry
    <3> HIDE DEF i
    <3>3. i \in Nat /\ entries[i] \in ArchiveEntry /\ stripComponents(entries[i], strip) # {} /\ i \in DOMAIN entries
      BY <2>2, <3>1
    <3>4. path \in stripComponents(entries[i], strip)
      BY <3>3
    <3> HIDE DEF path
    <3>5. entries[i].name \in Seq(Components) /\ entries[i].name # <<>>
      BY <3>3 DEF ArchiveEntry
    <3>6. Tail(entries[i].name) \in Seq(Components)
      BY <3>5, HeadTailProperties
    <3>7. path \in Seq(Components) \ {<<>>}
      BY <3>4, <3>5, <3>6 DEF stripComponents
    <3>8. entries[i].kind \in {"dir", "file"} /\ entries[i].size \in Nat /\ entries[i].executable \in BOOLEAN
      BY <2>1, <3>3 DEF checkEntry, ArchiveEntry
    <3> QED BY <3>3, <3>7, <3>8, <3>2 DEF InspectedItem
  <2>8. ASSUME NEW k \in 1 .. Cardinality(kept) PROVE ComesFrom(items[k], entries, strip)
    <3> DEFINE i == Nth(kept, k)
               path == CHOOSE path \in stripComponents(entries[i], strip) : TRUE
    <3>1. i \in kept
      BY <2>3, NthIsOne
    <3>2. items[k] = [index |-> i, path |-> path, kind |-> entries[i].kind, size |-> entries[i].size,
                      executable |-> entries[i].executable]
      BY DEF InspectedEntry
    <3> HIDE DEF i
    <3>3. stripComponents(entries[i], strip) # {} /\ i \in DOMAIN entries
      BY <3>1
    <3>4. path \in stripComponents(entries[i], strip)
      BY <3>3
    <3> HIDE DEF path, items
    <3> QED BY <2>1, <3>2, <3>3, <3>4 DEF ComesFrom
  <2>9. ASSUME NEW k \in 1 .. Cardinality(kept), NEW l \in 1 .. Cardinality(kept), items[k].index = items[l].index
        PROVE  k = l
    <3>1. items[k].index = Nth(kept, k) /\ items[l].index = Nth(kept, l)
      BY DEF InspectedEntry
    <3>2. /\ Cardinality({m \in kept : m < Nth(kept, k)}) = k - 1
          /\ Cardinality({m \in kept : m < Nth(kept, l)}) = l - 1
      BY <2>3, NthIsOne
    <3>3. Nth(kept, k) = Nth(kept, l)
      BY <2>9, <3>1
    <3> HIDE DEF kept, items
    <3>4. k - 1 = l - 1 /\ k \in Int /\ l \in Int
      BY <2>4, <3>2, <3>3
    <3> QED BY <3>4
  <2>6. items \in [1 .. Cardinality(kept) -> InspectedItem]
    BY <2>5
  <2>7. items \in Seq(InspectedItem)
    <3> DEFINE n == Cardinality(kept)
    <3>1. n \in Nat /\ items \in [1 .. n -> InspectedItem]
      BY <2>4, <2>6
    <3> HIDE DEF n, items
    <3> QED BY <3>1, SeqDef
  <2>10. DOMAIN items = 1 .. Cardinality(kept)
    OBVIOUS
  <2> HIDE DEF kept, items
  <2> QED BY <2>1, <2>7, <2>8, <2>9, <2>10
<1> QED BY <1>1, <1>2

-----------------------------------------------------------------------------
(* The second pass *)

\* The entry at hand is one that was inspected.
LEMMA ItemIs ==
  ASSUME ExtractTypeOK, written < Len(inspected)
  PROVE  /\ written \in Nat /\ written + 1 \in DOMAIN inspected /\ Item.path \in Paths /\ Item \in InspectedItem
         /\ Item.path \in Seq(Components) \ {<<>>} /\ Item.kind \in {"dir", "file"}
         /\ DOMAIN inspected = 1 .. Len(inspected) /\ Len(inspected) \in Nat
<1>1. /\ Len(inspected) \in Nat /\ DOMAIN inspected = 1 .. Len(inspected)
      /\ inspected \in [1 .. Len(inspected) -> InspectedItem]
  BY LenProperties DEF ExtractTypeOK
<1>2. written \in Nat /\ written + 1 \in DOMAIN inspected
  <2>1. written \in 0 .. Len(inspected)
    BY DEF ExtractTypeOK
  <2> QED BY <1>1, <2>1
<1>3. Item \in InspectedItem
  BY <1>1, <1>2 DEF Item
<1> QED BY <1>1, <1>2, <1>3 DEF Item, Paths, InspectedItem

\* Below the destination a directory of the entry at hand is found as it is spelled.
LEMMA FoundIs ==
  ASSUME ExtractInv, phase = "write", written < Len(inspected), NEW p \in WithParents(Item.path)
  PROVE  Found(p) = {p} \cap DOMAIN tree
<1> USE DEF ExtractInv
<1>1. Item.path \in Paths /\ DOMAIN inspected = 1 .. Len(inspected) /\ Len(inspected) \in Nat /\ written \in Nat
  BY ItemIs
<1>2. DOMAIN tree = UNION {WithParents(inspected[k].path) : k \in 1 .. written}
  BY DEF TreeAsWritten
<1>3. \A k \in 1 .. written : inspected[k].path \in Paths
  BY <1>1 DEF Paths
<1>4. ASSUME NEW q \in DOMAIN tree PROVE SamePath(q, p) <=> q = p
  <2>1. PICK k \in 1 .. written : q \in WithParents(inspected[k].path)
    BY <1>2
  <2>2. /\ p \in UNION {WithParents(path) : path \in Paths}
        /\ q \in UNION {WithParents(path) : path \in Paths}
    BY <1>1, <1>3, <2>1
  <2>3. foldKey(p) = foldKey(q) => p = q
    BY <2>2 DEF TreeAsWritten, registerPrefixes
  <2> QED BY <2>3 DEF SamePath
<1> QED BY <1>4 DEF Found

\* A directory that nothing blocks is there with those above it, and nothing else
\* is touched.
LEMMA EnsuredIs ==
  ASSUME ExtractInv, phase = "write", written < Len(inspected), NEW dir, ~Blocked(dir),
         WithParents(dir) \subseteq WithParents(Item.path), dir # <<>> => dir \in WithParents(dir)
  PROVE  /\ DOMAIN Ensured(dir) = DOMAIN tree \cup WithParents(dir)
         /\ \A p \in DOMAIN tree : Ensured(dir)[p] = tree[p]
         /\ \A p \in DOMAIN Ensured(dir) : Ensured(dir)[p].kind \in {"dir", "file"}
         /\ dir # <<>> => Ensured(dir)[dir].kind = "dir"
         /\ \A p \in DOMAIN Ensured(dir) \ DOMAIN tree : Ensured(dir)[p].kind = "dir"
<1> USE DEF ExtractInv
<1>1. /\ <<>> \in made
      /\ \A p \in DOMAIN tree : tree[p].kind \in {"dir", "file"}
      /\ \A d \in made \ {<<>>} : d \in DOMAIN tree /\ WithParents(d) \subseteq DOMAIN tree /\ tree[d].kind = "dir"
  BY DEF TreeAsWritten
<1>2. CASE dir \in made
  <2>1. Ensured(dir) = tree
    BY <1>2 DEF Ensured
  <2> QED BY <1>1, <1>2, <2>1, ParentsAre
<1>3. CASE dir \notin made
  <2>1. \A p \in WithParents(dir) : Found(p) = {p} \cap DOMAIN tree
    BY FoundIs
  <2>2. {p \in WithParents(dir) : Found(p) = {}} = WithParents(dir) \ DOMAIN tree
    BY <2>1
  <2>3. Ensured(dir) = [p \in DOMAIN tree \cup (WithParents(dir) \ DOMAIN tree) |->
                          IF p \in WithParents(dir) \ DOMAIN tree THEN [kind |-> "dir", size |-> 0] ELSE tree[p]]
    BY <1>3, <2>2 DEF Ensured, WithDirs
  <2>4. dir # <<>> /\ dir \in WithParents(dir)
    <3>1. <<>> \in made
      BY <1>1
    <3>2. dir # <<>>
      BY <1>3, <3>1
    <3> QED BY <3>2
  <2>5. ASSUME dir \in DOMAIN tree PROVE tree[dir].kind = "dir"
    <3>1. dir \in Found(dir)
      BY <2>1, <2>4, <2>5
    <3>2. ~FileOnTheWay(dir)
      BY <1>3 DEF Blocked
    <3>3. tree[dir].kind # "file"
      BY <2>4, <3>1, <3>2 DEF FileOnTheWay
    <3> QED BY <1>1, <2>5, <3>3
  <2> QED BY <1>1, <2>3, <2>4, <2>5
<1> QED BY <1>2, <1>3

\* An entry that is written is there, with the directories above it.
LEMMA WrittenInv ==
  ASSUME ExtractInv, phase = "write", written < Len(inspected), NEW nodes, NEW dir, Written(nodes, {dir}),
         UNCHANGED <<stored, archiveSize, leftBehind>>,
         DOMAIN nodes = DOMAIN tree \cup WithParents(Item.path),
         \A p \in DOMAIN tree : nodes[p] = tree[p],
         \A p \in DOMAIN nodes : nodes[p].kind \in {"dir", "file"},
         nodes[Item.path].kind = Item.kind,
         Item.kind = "file" => nodes[Item.path].size = Item.size,
         dir # <<>> => dir \in WithParents(dir) /\ WithParents(dir) \subseteq DOMAIN nodes /\ nodes[dir].kind = "dir"
  PROVE  ExtractInv'
<1> USE DEF ExtractInv
<1>1. /\ written \in Nat /\ DOMAIN inspected = 1 .. Len(inspected) /\ Len(inspected) \in Nat
      /\ inspected \in [1 .. Len(inspected) -> InspectedItem]
  BY ItemIs, LenProperties DEF ExtractTypeOK
<1>2. /\ tree' = nodes /\ made' = made \cup {dir} /\ written' = written + 1
      /\ UNCHANGED <<phase, code, inspected>>
  BY DEF Written
<1>3. written' \in 0 .. Len(inspected)
  BY <1>1, <1>2
<1>4. ExtractTypeOK'
  BY <1>2, <1>3 DEF ExtractTypeOK
<1>5. UndoneAsCoded'
  BY <1>2 DEF UndoneAsCoded
<1>6. /\ DOMAIN tree = UNION {WithParents(inspected[k].path) : k \in 1 .. written}
      /\ \A k \in 1 .. written :
           /\ tree[inspected[k].path].kind = inspected[k].kind
           /\ inspected[k].kind = "file" => tree[inspected[k].path].size = inspected[k].size
      /\ \A d \in made \ {<<>>} : d \in DOMAIN tree /\ WithParents(d) \subseteq DOMAIN tree /\ tree[d].kind = "dir"
      /\ registerPrefixes(Paths) /\ <<>> \in made
  BY DEF TreeAsWritten
<1>7. 1 .. written + 1 = (1 .. written) \cup {written + 1}
  BY <1>1
<1>8. DOMAIN nodes = UNION {WithParents(inspected[k].path) : k \in 1 .. written + 1}
  BY <1>6, <1>7 DEF Item
<1>9. ASSUME NEW k \in 1 .. written PROVE inspected[k].path \in DOMAIN tree
  <2>1. k \in 1 .. Len(inspected)
    BY <1>1
  <2>2. inspected[k] \in InspectedItem
    BY <1>1, <2>1
  <2>3. inspected[k].path \in WithParents(inspected[k].path)
    BY <2>2, ParentsAre DEF InspectedItem
  <2> QED BY <1>6, <2>3
<1>10. \A k \in 1 .. written + 1 :
         /\ nodes[inspected[k].path].kind = inspected[k].kind
         /\ inspected[k].kind = "file" => nodes[inspected[k].path].size = inspected[k].size
  BY <1>6, <1>7, <1>9 DEF Item
<1>11. \A d \in made' \ {<<>>} : d \in DOMAIN nodes /\ WithParents(d) \subseteq DOMAIN nodes /\ nodes[d].kind = "dir"
  BY <1>2, <1>6
<1>12. Paths' = Paths
  BY <1>2 DEF Paths
<1>13. TreeAsWritten'
  <2>1. registerPrefixes(Paths')
    BY <1>6, <1>12
  <2>2. <<>> \in made'
    BY <1>2, <1>6
  <2>3. \A p \in DOMAIN nodes : nodes[p].kind \in {"dir", "file"}
    OBVIOUS
  <2>4. (DOMAIN tree = UNION {WithParents(inspected[k].path) : k \in 1 .. written})'
    BY <1>2, <1>8
  <2>5. (\A k \in 1 .. written : /\ tree[inspected[k].path].kind = inspected[k].kind
                                 /\ inspected[k].kind = "file" => tree[inspected[k].path].size = inspected[k].size)'
    BY <1>2, <1>10
  <2>6. (\A p \in DOMAIN tree : tree[p].kind \in {"dir", "file"})'
    BY <1>2, <2>3
  <2>7. (\A d \in made \ {<<>>} : d \in DOMAIN tree /\ WithParents(d) \subseteq DOMAIN tree /\ tree[d].kind = "dir")'
    BY <1>2, <1>11
  <2> QED BY <2>1, <2>2, <2>4, <2>5, <2>6, <2>7 DEF TreeAsWritten
<1> QED BY <1>4, <1>5, <1>13

\* What fails is to be undone.
LEMMA UndoneInv ==
  ASSUME ExtractInv, phase' = "undo", code' \in {"FILESYSTEM", "ARCHIVE_UNSAFE", "PATH_UNSAFE", "CANCELLED"},
         stored' \in Archives \cup Replacements, archiveSize' \in Nat,
         inspected' \in Seq(InspectedItem), registerPrefixes(Paths'), written' \in 0 .. Len(inspected')
  PROVE  ExtractInv'
BY DEF ExtractInv, ExtractTypeOK, UndoneAsCoded, TreeAsWritten

\* What is undone without a change of what was inspected
LEMMA FailureInv ==
  ASSUME ExtractInv, phase' = "undo", code' \in {"FILESYSTEM", "ARCHIVE_UNSAFE", "PATH_UNSAFE", "CANCELLED"},
         stored' = stored, archiveSize' = archiveSize, inspected' = inspected, written' = written
  PROVE  ExtractInv'
<1>1. Paths' = Paths
  BY DEF Paths
<1>2. stored' \in Archives \cup Replacements /\ archiveSize' \in Nat /\ inspected' \in Seq(InspectedItem) /\ written' \in 0 .. Len(inspected')
  BY DEF ExtractInv, ExtractTypeOK
<1>3. registerPrefixes(Paths')
  BY <1>1 DEF ExtractInv, TreeAsWritten
<1> QED BY <1>2, <1>3, UndoneInv

LEMMA ReadFailsInv ==
  ASSUME ExtractInv, ReadFails, stored' = stored, archiveSize' = archiveSize, inspected' = inspected, written' = written
  PROVE  ExtractInv'
BY FailureInv DEF ReadFails, DiskFails, Undone

\* A directory of the archive
LEMMA WriteDirInv ==
  ASSUME ExtractInv, phase = "write", written < Len(inspected), WriteDir, UNCHANGED <<stored, archiveSize, leftBehind>>
  PROVE  ExtractInv'
<1> DEFINE path == Item.path
<1>1. path \in Seq(Components) \ {<<>>} /\ Item.kind = "dir" /\ path \in WithParents(path)
  BY ItemIs, ParentsAre DEF ExtractInv, WriteDir
<1>2. CASE TooLong(path) \/ Blocked(path)
  BY <1>2, FailureInv DEF WriteDir, UndoneAs, Undone
<1>3. CASE ~TooLong(path) /\ ~Blocked(path)
  <2>1. Written(Ensured(path), {path})
    BY <1>3 DEF WriteDir
  <2>2. /\ DOMAIN Ensured(path) = DOMAIN tree \cup WithParents(path)
        /\ \A p \in DOMAIN tree : Ensured(path)[p] = tree[p]
        /\ \A p \in DOMAIN Ensured(path) : Ensured(path)[p].kind \in {"dir", "file"}
        /\ Ensured(path)[path].kind = "dir"
    BY <1>1, <1>3, EnsuredIs
  <2>3. WithParents(path) \subseteq DOMAIN Ensured(path)
    BY <2>2
  <2> QED BY <1>1, <2>1, <2>2, <2>3, WrittenInv
<1> QED BY <1>2, <1>3

\* A file of the archive: nothing is where it is to be, so that nothing is overwritten.
LEMMA WriteFileInv ==
  ASSUME ExtractInv, phase = "write", written < Len(inspected), WriteFile, UNCHANGED <<stored, archiveSize, leftBehind>>
  PROVE  ExtractInv'
<1> DEFINE path == Item.path
           parent == Front(path)
           ensured == Ensured(parent)
           nodes == WithFile(ensured, path, Item.size)
<1>1. /\ path \in Seq(Components) \ {<<>>} /\ Item.kind = "file" /\ path \in WithParents(path)
      /\ parent # path /\ WithParents(path) = WithParents(parent) \cup {path}
      /\ parent # <<>> => parent \in WithParents(parent)
  BY ItemIs, ParentsAre DEF ExtractInv, WriteFile
<1>2. \/ UndoneAs("PATH_UNSAFE", tree) \/ UndoneAs("PATH_UNSAFE", ensured)
      \/ UndoneAs("FILESYSTEM", tree) \/ UndoneAs("ARCHIVE_UNSAFE", ensured)
      \/ UndoneAs("CANCELLED", WithFile(ensured, path, 0))
      \/ StreamAnswer # "" /\ UndoneAs(StreamAnswer, WithFile(ensured, path, Stream.gives))
      \/ ~Blocked(parent) /\ Found(path) = {} /\ Written(nodes, {parent})
  BY DEF WriteFile
<1>3. CASE phase' = "undo" /\ code' \in {"FILESYSTEM", "ARCHIVE_UNSAFE", "PATH_UNSAFE", "CANCELLED"} /\ UNCHANGED <<inspected, written>>
  BY <1>3, FailureInv
<1>4. StreamAnswer # "" => StreamAnswer \in {"FILESYSTEM", "ARCHIVE_UNSAFE"}
  BY DEF StreamAnswer
<1>5. CASE ~Blocked(parent) /\ Found(path) = {} /\ Written(nodes, {parent})
  <2>1. /\ DOMAIN ensured = DOMAIN tree \cup WithParents(parent)
        /\ \A p \in DOMAIN tree : ensured[p] = tree[p]
        /\ \A p \in DOMAIN ensured : ensured[p].kind \in {"dir", "file"}
        /\ parent # <<>> => ensured[parent].kind = "dir"
    BY <1>1, <1>5, EnsuredIs
  <2>2. path \notin DOMAIN tree
    BY <1>1, <1>5, FoundIs
  <2> HIDE DEF ensured, parent, path
  <2>3. /\ DOMAIN nodes = DOMAIN ensured \cup {path}
        /\ nodes[path] = [kind |-> "file", size |-> Item.size]
        /\ \A p \in DOMAIN ensured \ {path} : nodes[p] = ensured[p]
    BY DEF WithFile
  <2> HIDE DEF nodes
  <2>4. DOMAIN nodes = DOMAIN tree \cup WithParents(path)
    BY <1>1, <2>1, <2>3
  <2>5. \A p \in DOMAIN tree : nodes[p] = tree[p]
    BY <2>1, <2>2, <2>3
  <2>6. \A p \in DOMAIN nodes : nodes[p].kind \in {"dir", "file"}
    BY <2>1, <2>3
  <2>7. nodes[path].kind = Item.kind /\ nodes[path].size = Item.size
    BY <1>1, <2>3
  <2>8. parent # <<>> => parent \in WithParents(parent) /\ WithParents(parent) \subseteq DOMAIN nodes /\ nodes[parent].kind = "dir"
    BY <1>1, <2>1, <2>3
  <2>9. Written(nodes, {parent})
    BY <1>5
  <2> QED BY <2>4, <2>5, <2>6, <2>7, <2>8, <2>9, WrittenInv DEF path
<1> HIDE DEF path, parent, ensured, nodes
<1> QED BY <1>2, <1>3, <1>4, <1>5 DEF UndoneAs, Undone

-----------------------------------------------------------------------------
(* The steps of an extraction *)

\* A step that leaves what was inspected and written as it is
LEMMA TreeKept ==
  ASSUME TreeAsWritten, inspected' = inspected, written' = written, made' = made, tree' = tree,
         (phase = "write" \/ code = "OK")' => phase = "write" \/ code = "OK"
  PROVE  TreeAsWritten'
<1>1. Paths' = Paths
  BY DEF Paths
<1> QED BY <1>1 DEF TreeAsWritten

LEMMA ExtractInitInv == ExtractInit => ExtractInv
<1> SUFFICES ASSUME ExtractInit PROVE ExtractInv
  OBVIOUS
<1>1. inspected = <<>>
  BY DEF ExtractInit
<1>2. Paths = {}
  <2>1. DOMAIN inspected = {}
    BY <1>1
  <2> QED BY <2>1 DEF Paths
<1>3. registerPrefixes(Paths)
  BY <1>2 DEF registerPrefixes
<1>4. inspected \in Seq(InspectedItem) /\ 0 \in 0 .. Len(inspected)
  BY <1>1, EmptySeq
<1> QED BY <1>1, <1>3, <1>4 DEF ExtractInit, ExtractInv, ExtractTypeOK, UndoneAsCoded, TreeAsWritten

\* The first pass: whatever lies under the path when it is opened
LEMMA InspectArchiveInv ==
  ASSUME ExtractInv, InspectArchive
  PROVE  ExtractInv'
<1>1. stored \in Archives \cup Replacements /\ stored.entries \in Seq(ArchiveEntry)
  BY ArchiveAssumption DEF ExtractInv, ExtractTypeOK
<1>2. CASE ReadFails /\ UNCHANGED inspected
  BY <1>2, ReadFailsInv DEF InspectArchive
<1>3. CASE inspected' = IF Readable(stored) THEN Inspection(stored.entries, request.strip) ELSE <<>>
  <2>1. inspected' \in Seq(InspectedItem) /\ registerPrefixes({inspected'[k].path : k \in DOMAIN inspected'})
    <3>1. CASE Readable(stored)
      <4> DEFINE items == Inspection(stored.entries, request.strip)
      <4>1. items \in Seq(InspectedItem) /\ registerPrefixes({items[k].path : k \in DOMAIN items})
        BY <1>1, InspectionIs
      <4>2. inspected' = items
        BY <1>3, <3>1
      <4> HIDE DEF items
      <4> QED BY <4>1, <4>2
    <3>2. CASE ~Readable(stored)
      <4>1. inspected' = <<>> /\ {inspected'[k].path : k \in DOMAIN inspected'} = {}
        BY <1>3, <3>2
      <4> QED BY <4>1, EmptySeq DEF registerPrefixes
    <3> QED BY <3>1, <3>2
  <2>2. registerPrefixes(Paths')
    BY <2>1 DEF Paths
  <2>3. written' = 0 /\ 0 \in 0 .. Len(inspected') /\ stored' = stored /\ archiveSize' = archiveSize /\ archiveSize \in Nat
    <3>1. Len(inspected') \in Nat
      BY <2>1, LenProperties
    <3>2. written' = 0 /\ stored' = stored /\ archiveSize' = archiveSize /\ archiveSize \in Nat
      BY DEF InspectArchive, ExtractInv, UndoneAsCoded, ExtractTypeOK
    <3> QED BY <3>1, <3>2
  <2>4. CASE Undone("ARCHIVE_UNSAFE")
    BY <1>1, <2>1, <2>2, <2>3, <2>4, UndoneInv DEF Undone
  <2>5. CASE phase' \in {"prepare", "reopen"} /\ UNCHANGED code
    <3>1. UNCHANGED <<code, tree, made, written, stored, archiveSize>> /\ tree = <<>> /\ made = {<<>>} /\ code = ""
      BY <2>5 DEF InspectArchive, ExtractInv, UndoneAsCoded
    <3>2. ExtractTypeOK'
      BY <2>1, <2>3, <2>5, <3>1 DEF ExtractInv, ExtractTypeOK
    <3>3. UndoneAsCoded'
      BY <2>3, <2>5, <3>1 DEF UndoneAsCoded
    <3>4. TreeAsWritten'
      BY <2>2, <2>5, <3>1 DEF TreeAsWritten
    <3> QED BY <3>2, <3>3, <3>4 DEF ExtractInv
  <2>6. \/ Undone("ARCHIVE_UNSAFE")
        \/ (phase' \in {"prepare", "reopen"} /\ UNCHANGED code)
        \/ ReadFails /\ UNCHANGED inspected
    BY DEF InspectArchive
  <2> QED BY <1>2, <2>4, <2>5, <2>6
<1> QED BY <1>2, <1>3 DEF InspectArchive

\* The second pass
LEMMA WriteEntryInv ==
  ASSUME ExtractInv, WriteEntry
  PROVE  ExtractInv'
<1>1. phase = "write" /\ written < Len(inspected) /\ UNCHANGED <<stored, archiveSize, leftBehind>>
  BY DEF WriteEntry
<1>2. CASE UndoneAs("ARCHIVE_UNSAFE", tree)
  BY <1>1, <1>2, FailureInv DEF UndoneAs, Undone
<1>3. CASE WriteDir
  BY <1>1, <1>3, WriteDirInv
<1>4. CASE WriteFile
  BY <1>1, <1>4, WriteFileInv
<1>5. CASE ReadFails /\ UNCHANGED <<inspected, written>>
  BY <1>1, <1>5, ReadFailsInv
<1> QED BY <1>2, <1>3, <1>4, <1>5 DEF WriteEntry

\* An extraction keeps the invariant whatever lies under the path and whatever fails.
LEMMA ExtractStepInv == ExtractInv /\ [ExtractNext]_extractVars => ExtractInv'
<1> SUFFICES ASSUME ExtractInv, [ExtractNext]_extractVars PROVE ExtractInv'
  OBVIOUS
<1> USE DEF ExtractInv
<1>1. CASE StatArchive
  <2>1. archiveSize' \in Nat
    BY <1>1, ArchiveAssumption DEF StatArchive, ExtractTypeOK
  <2> QED BY <1>1, <2>1, TreeKept DEF StatArchive, ExtractTypeOK, UndoneAsCoded
<1>2. CASE InspectArchive
  BY <1>2, InspectArchiveInv
<1>3. CASE Reopen
  <2>1. CASE Undone("ARCHIVE_UNSAFE")
    BY <1>3, <2>1, FailureInv DEF Reopen, Undone
  <2>2. CASE ReadFails
    BY <1>3, <2>2, ReadFailsInv DEF Reopen
  <2>3. CASE phase' = "prepare" /\ UNCHANGED code
    BY <1>3, <2>3, TreeKept DEF Reopen, ExtractTypeOK, UndoneAsCoded
  <2> QED BY <1>3, <2>1, <2>2, <2>3 DEF Reopen
<1>4. CASE Prepare
  <2>1. CASE DiskFails
    BY <1>4, <2>1, FailureInv DEF Prepare, DiskFails, Undone
  <2>2. CASE phase' = "write" /\ UNCHANGED code
    <3>1. tree = <<>> /\ made = {<<>>} /\ written = 0 /\ code = ""
      BY <1>4 DEF Prepare, UndoneAsCoded
    <3>2. 1 .. written = {} /\ DOMAIN tree = {} /\ made \ {<<>>} = {}
      <4>1. tree = <<>>
        BY <3>1
      <4>2. DOMAIN tree = {}
        BY <4>1
      <4>3. 1 .. 0 = {}
        OBVIOUS
      <4> QED BY <3>1, <4>2, <4>3
    <3>3. UNION {WithParents(inspected[k].path) : k \in 1 .. written} = {}
      BY <3>2
    <3>4. UNCHANGED <<inspected, written, made, tree, stored, archiveSize>> /\ Paths' = Paths
      BY <1>4 DEF Prepare, Paths
    <3>5. TreeAsWritten'
      <4>1. registerPrefixes(Paths')
        BY <3>4 DEF ExtractInv, TreeAsWritten
      <4>2. /\ (DOMAIN tree = UNION {WithParents(inspected[k].path) : k \in 1 .. written})'
            /\ (1 .. written)' = {} /\ (DOMAIN tree)' = {} /\ made' = {<<>>}
        BY <3>1, <3>2, <3>3, <3>4
      <4> QED BY <4>1, <4>2 DEF TreeAsWritten
    <3>6. ExtractTypeOK'
      BY <2>2, <3>4 DEF ExtractTypeOK
    <3>7. UndoneAsCoded'
      BY <2>2, <3>1, <3>4 DEF UndoneAsCoded
    <3> QED BY <3>5, <3>6, <3>7
  <2> QED BY <1>4, <2>1, <2>2 DEF Prepare
<1>5. CASE WriteEntry
  BY <1>5, WriteEntryInv
<1>6. CASE Extracted
  BY <1>6, TreeKept DEF Extracted, ExtractTypeOK, UndoneAsCoded
<1>7. CASE Undo
  <2>1. UNCHANGED <<inspected, written, made, code, stored, archiveSize>> /\ phase' = "done" /\ code \notin {"", "OK"} /\ Paths' = Paths
    BY <1>7 DEF Undo, UndoneAsCoded, Paths
  <2>2. TreeAsWritten'
    BY <2>1 DEF TreeAsWritten
  <2>3. ExtractTypeOK'
    BY <2>1 DEF ExtractTypeOK
  <2>4. UndoneAsCoded'
    BY <1>7, <2>1 DEF Undo, UndoneAsCoded
  <2> QED BY <2>2, <2>3, <2>4
<1>8. CASE ReplaceArchive \/ AbandonExtraction
  BY <1>8, TreeKept DEF ReplaceArchive, AbandonExtraction, ExtractTypeOK, UndoneAsCoded
<1>9. CASE UNCHANGED extractVars
  BY <1>9, TreeKept DEF extractVars, ExtractTypeOK, UndoneAsCoded
<1> QED BY <1>1, <1>2, <1>3, <1>4, <1>5, <1>6, <1>7, <1>8, <1>9 DEF ExtractNext

\* For all archives, all that may replace them and all limits: what Extract says it
\* has extracted is on the disk, every entry as it is spelled and with its size and
\* nothing else, and what it gave up is gone unless it could not be removed.
THEOREM ExtractsWhole == ExtractSpec => []AllOrNothing
<1>1. ExtractInv => AllOrNothing
  <2> SUFFICES ASSUME ExtractInv, phase = "done", ~leftBehind
               PROVE  AllOrNothing
    BY DEF AllOrNothing
  <2>1. CASE code # "OK"
    BY <2>1 DEF AllOrNothing, ExtractInv, UndoneAsCoded
  <2>2. CASE code = "OK"
    <3>1. /\ inspected \in Seq(InspectedItem) /\ written = Len(inspected)
          /\ DOMAIN inspected = 1 .. written
      BY <2>2, LenProperties DEF ExtractInv, ExtractTypeOK, UndoneAsCoded
    <3>2. ToSet(inspected) = {inspected[k] : k \in 1 .. written}
      BY <3>1 DEF ToSet
    <3>3. /\ DOMAIN tree = UNION {WithParents(inspected[k].path) : k \in 1 .. written}
          /\ \A k \in 1 .. written :
               /\ tree[inspected[k].path].kind = inspected[k].kind
               /\ inspected[k].kind = "file" => tree[inspected[k].path].size = inspected[k].size
      BY <2>2 DEF ExtractInv, TreeAsWritten
    <3>4. DOMAIN tree = UNION {WithParents(item.path) : item \in ToSet(inspected)}
      BY <3>2, <3>3
    <3>5. \A item \in ToSet(inspected) : /\ tree[item.path].kind = item.kind
                                         /\ item.kind = "file" => tree[item.path].size = item.size
      BY <3>2, <3>3
    <3> QED BY <2>2, <3>4, <3>5 DEF AllOrNothing
  <2> QED BY <2>1, <2>2
<1> QED BY <1>1, ExtractInitInv, ExtractStepInv, PTL DEF ExtractSpec

-----------------------------------------------------------------------------
(* Why an extraction stops *)

\* A cause stays a cause.
LEMMA CauseStays ==
  ASSUME NEW answer, StoppedFor(answer), inspected' = inspected, source' = source, archiveSize' = archiveSize,
         request' = request, broke => broke', abandoned => abandoned', replaced => replaced'
  PROVE  StoppedFor(answer)'
<1>1. FileBytes' = FileBytes /\ maxExtractBytes' = maxExtractBytes
  BY DEF FileBytes, maxExtractBytes
<1> QED BY <1>1 DEF StoppedFor, TooLong

\* What is given up in the second pass, or before it, for a cause
LEMMA GivenUp ==
  ASSUME CauseInv, phase' = "undo", inspected' = inspected, StoppedFor(code)'
  PROVE  CauseInv'
<1>1. AsInspected'
  BY DEF CauseInv, AsInspected
<1>2. FilesAsWritten'
  BY DEF FilesAsWritten
<1>3. GivenUpForCause'
  BY DEF GivenUpForCause
<1> QED BY <1>1, <1>2, <1>3 DEF CauseInv

\* A call that fails is a cause.
LEMMA BrokenIsCause ==
  ASSUME CauseInv, ReadFails, inspected' = inspected
  PROVE  CauseInv'
<1>1. phase' = "undo" /\ code' \in {"FILESYSTEM", "ARCHIVE_UNSAFE"} /\ broke'
  BY DEF ReadFails, DiskFails, Undone
<1>2. StoppedFor(code)'
  BY <1>1 DEF StoppedFor
<1> QED BY <1>1, <1>2, GivenUp

\* No more than so many bytes are unpacked.
LEMMA LimitIs ==
  ASSUME ExtractTypeOK
  PROVE  maxExtractBytes \in Nat
<1>1. archiveSize \in Nat /\ ArchiveRatioMax \in Nat /\ ArchiveTotalMaxBytes \in Nat
  BY ArchiveAssumption DEF ExtractTypeOK
<1>2. archiveSize * ArchiveRatioMax \in Nat
  BY <1>1
<1> QED BY <1>1, <1>2 DEF maxExtractBytes

\* The second pass reads what the first one read, unless the archive was replaced.
LEMMA ReadAgain ==
  ASSUME ExtractInv, CauseInv, phase = "write", written < Len(inspected), ~replaced
  PROVE  Verified
<1>1. request.format = "zip" => Verified
  BY DEF Verified
<1> SUFFICES ASSUME request.format # "zip" PROVE verifyTarItem
  BY <1>1 DEF Verified
<1> DEFINE entries == source.entries
           n == Item.index
<1>2. source = stored /\ Readable(source) /\ inspected = Inspection(entries, request.strip) /\ entries \in Seq(ArchiveEntry)
  BY ArchiveAssumption DEF CauseInv, AsInspected, ExtractInv, ExtractTypeOK
<1>3. ComesFrom(Item, entries, request.strip)
  BY <1>2, ItemIs, InspectionIs DEF ExtractInv, Item
<1>4. /\ Len(entries) \in Nat /\ DOMAIN entries = 1 .. Len(entries)
      /\ entries \in [1 .. Len(entries) -> ArchiveEntry] /\ n \in 1 .. Len(entries)
  BY <1>2, <1>3, LenProperties DEF ComesFrom
<1>5. /\ Sizes(entries) <= maxExtractBytes
      /\ \A i \in DOMAIN entries : entries[i].stream.state # "corrupt"
  BY <1>2 DEF Readable
<1>6. maxExtractBytes \in Nat
  BY LimitIs DEF ExtractInv
<1>7. \A i \in 1 .. Len(entries) : SizeOf(entries)[i] \in Nat
  BY <1>4 DEF SizeOf, ArchiveEntry
<1> HIDE DEF entries, n
<1>8. /\ Sum(SizeOf(entries), n - 1) \in Nat /\ Sum(SizeOf(entries), Len(entries)) \in Nat
      /\ Sum(SizeOf(entries), n - 1) <= Sum(SizeOf(entries), Len(entries))
  <2>1. Len(entries) \in 0 .. Len(entries) /\ n - 1 \in 0 .. Len(entries)
    BY <1>4
  <2> QED BY <1>4, <1>7, <2>1, SumGrows
<1>9. Sum(SizeOf(entries), n - 1) <= maxExtractBytes
  BY <1>5, <1>6, <1>8 DEF Sizes
<1>10. \A i \in 1 .. n - 1 : entries[i].stream.state # "corrupt"
  BY <1>4, <1>5
<1>11. n <= Len(entries)
  BY <1>4
<1> QED BY <1>3, <1>9, <1>10, <1>11 DEF verifyTarItem, ComesFrom, entries, n

\* The next step of the same extraction
LEMMA SameArchive ==
  ASSUME CauseInv, phase \in {"reopen", "prepare", "write"}, phase' \in {"reopen", "prepare", "write"},
         inspected' = inspected, request' = request, archiveSize' = archiveSize,
         ~replaced' => ~replaced /\ stored' = stored /\ source' = source, FilesAsWritten'
  PROVE  CauseInv'
<1>1. ASSUME ~replaced'
      PROVE  source' = stored' /\ Readable(source)' /\ (inspected = Inspection(source.entries, request.strip))'
  <2>1. /\ source = stored /\ Readable(source) /\ inspected = Inspection(source.entries, request.strip)
        /\ source' = source /\ stored' = stored
    BY <1>1 DEF CauseInv, AsInspected
  <2>2. Readable(source)'
    BY <2>1 DEF Readable, Opens, maxExtractBytes
  <2> QED BY <2>1, <2>2
<1> QED BY <1>1 DEF CauseInv, AsInspected, GivenUpForCause

\* The files below the destination are the entries written, and the one at hand.
LEMMA WrittenCause ==
  ASSUME ExtractInv, CauseInv, phase = "write", written < Len(inspected), written' = written + 1,
         UNCHANGED <<stored, replaced, source, archiveSize, request>>, UNCHANGED <<phase, inspected>>,
         \A p \in DOMAIN tree' : tree'[p].kind = "file" =>
           \/ p \in DOMAIN tree /\ tree[p].kind = "file"
           \/ p = Item.path /\ Item.kind = "file"
  PROVE  CauseInv'
<1>1. written \in Nat
  BY ItemIs DEF ExtractInv
<1>2. ASSUME NEW p \in DOMAIN tree', tree'[p].kind = "file"
      PROVE  \E k \in 1 .. written + 1 : inspected[k].path = p /\ inspected[k].kind = "file"
  <2>1. CASE p \in DOMAIN tree /\ tree[p].kind = "file"
    <3>1. PICK k \in 1 .. written : inspected[k].path = p /\ inspected[k].kind = "file"
      BY <2>1 DEF CauseInv, FilesAsWritten
    <3>2. k \in 1 .. written + 1
      BY <1>1
    <3> QED BY <3>1, <3>2
  <2>2. CASE p = Item.path /\ Item.kind = "file"
    <3>1. written + 1 \in 1 .. written + 1
      BY <1>1
    <3> QED BY <2>2, <3>1 DEF Item
  <2> QED BY <1>2, <2>1, <2>2
<1>3. FilesAsWritten'
  BY <1>2 DEF FilesAsWritten
<1> QED BY <1>3, SameArchive

\* The file at hand is among the entries that were inspected.
LEMMA BytesWritten ==
  ASSUME ExtractInv, written < Len(inspected), Item.kind = "file", Before + Item.size > maxExtractBytes
  PROVE  Sum(FileBytes, Len(inspected)) > maxExtractBytes
<1>1. /\ written \in Nat /\ DOMAIN inspected = 1 .. Len(inspected) /\ Len(inspected) \in Nat
      /\ written + 1 \in DOMAIN inspected /\ inspected \in [1 .. Len(inspected) -> InspectedItem]
  BY ItemIs, LenProperties DEF ExtractInv, ExtractTypeOK
<1>2. \A i \in 1 .. Len(inspected) : FileBytes[i] \in Nat
  BY <1>1 DEF FileBytes, InspectedItem
<1>3. FileBytes[written + 1] = Item.size
  BY <1>1 DEF FileBytes, Item
<1>4. Sum(FileBytes, written + 1) = Before + Item.size
  BY <1>1, <1>3, SumIs DEF Before
<1>5. /\ Sum(FileBytes, written + 1) \in Nat /\ Sum(FileBytes, Len(inspected)) \in Nat
      /\ Sum(FileBytes, written + 1) <= Sum(FileBytes, Len(inspected))
  <2>1. Len(inspected) \in 0 .. Len(inspected) /\ written + 1 \in 0 .. Len(inspected)
    BY <1>1
  <2> QED BY <1>1, <1>2, <2>1, SumGrows
<1>6. maxExtractBytes \in Nat
  BY LimitIs DEF ExtractInv
<1> QED BY <1>4, <1>5, <1>6

\* A file on the way to a directory of the entry at hand is an entry of its own.
LEMMA FileInTheWay ==
  ASSUME ExtractInv, CauseInv, phase = "write", written < Len(inspected), NEW dir, Blocked(dir),
         WithParents(dir) \subseteq WithParents(Item.path),
         Item.kind = "file" => Item.path \notin WithParents(dir)
  PROVE  \E p, q \in ToSet(inspected) : p # q /\ Meet(p, q)
<1>1. PICK p \in WithParents(dir) : \E q \in Found(p) : tree[q].kind = "file"
  BY DEF Blocked, FileOnTheWay
<1>2. p \in DOMAIN tree /\ tree[p].kind = "file"
  <2>1. Found(p) = {p} \cap DOMAIN tree
    BY FoundIs
  <2> QED BY <1>1, <2>1
<1>3. PICK k \in 1 .. written : inspected[k].path = p /\ inspected[k].kind = "file"
  BY <1>2 DEF CauseInv, FilesAsWritten
<1>4. k \in DOMAIN inspected /\ written + 1 \in DOMAIN inspected
  BY ItemIs DEF ExtractInv
<1>5. inspected[k] \in ToSet(inspected) /\ Item \in ToSet(inspected)
  BY <1>4 DEF ToSet, Item
<1>6. inspected[k] # Item /\ Meet(inspected[k], Item)
  BY <1>1, <1>3 DEF Meet
<1> QED BY <1>5, <1>6

\* A path that is too long below the destination
LEMMA TooLongIsCause ==
  ASSUME ExtractInv, CauseInv, written < Len(inspected), TooLong(Item.path), request' = request,
         phase' = "undo", code' = "PATH_UNSAFE", inspected' = inspected
  PROVE  CauseInv'
<1>1. Item \in ToSet(inspected)
  <2>1. written + 1 \in DOMAIN inspected
    BY ItemIs DEF ExtractInv
  <2> QED BY <2>1 DEF Item, ToSet
<1>2. \E item \in ToSet(inspected) : TooLong(item.path)
  BY <1>1
<1>3. \E item \in ToSet(inspected') : TooLong(item.path)'
  BY <1>2 DEF TooLong
<1>4. StoppedFor(code)'
  BY <1>3 DEF StoppedFor
<1> QED BY <1>4, GivenUp

\* A directory that is refused
LEMMA DirCause ==
  ASSUME ExtractInv, CauseInv, phase = "write", written < Len(inspected), WriteDir,
         UNCHANGED <<stored, replaced, source, archiveSize, abandoned, request>>
  PROVE  CauseInv'
<1> DEFINE path == Item.path
<1>1. path \in Seq(Components) \ {<<>>} /\ Item.kind = "dir" /\ path \in WithParents(path)
  BY ItemIs, ParentsAre DEF ExtractInv, WriteDir
<1>4. CASE TooLong(path)
  <2>1. phase' = "undo" /\ code' = "PATH_UNSAFE" /\ inspected' = inspected
    BY <1>4 DEF WriteDir, UndoneAs, Undone
  <2> QED BY <1>4, <2>1, TooLongIsCause
<1>2. CASE ~TooLong(path) /\ Blocked(path)
  <2>1. \E p, q \in ToSet(inspected) : p # q /\ Meet(p, q)
    BY <1>1, <1>2, FileInTheWay
  <2>2. phase' = "undo" /\ inspected' = inspected
    BY <1>2 DEF WriteDir, UndoneAs, Undone
  <2>3. StoppedFor(code)'
    BY <2>1, <2>2 DEF StoppedFor
  <2> QED BY <2>2, <2>3, GivenUp
<1>3. CASE ~TooLong(path) /\ ~Blocked(path)
  <2>1. tree' = Ensured(path) /\ written' = written + 1 /\ UNCHANGED <<phase, code, inspected, broke>>
    BY <1>3 DEF WriteDir, Written
  <2>2. /\ DOMAIN Ensured(path) = DOMAIN tree \cup WithParents(path)
        /\ \A p \in DOMAIN tree : Ensured(path)[p] = tree[p]
        /\ \A p \in DOMAIN Ensured(path) \ DOMAIN tree : Ensured(path)[p].kind = "dir"
    BY <1>1, <1>3, EnsuredIs
  <2>3. \A p \in DOMAIN tree' : tree'[p].kind = "file" => p \in DOMAIN tree /\ tree[p].kind = "file"
    BY <2>1, <2>2
  <2> QED BY <2>1, <2>3, WrittenCause
<1> QED BY <1>2, <1>3, <1>4

\* A file that is refused
LEMMA FileCause ==
  ASSUME ExtractInv, CauseInv, phase = "write", written < Len(inspected), WriteFile,
         UNCHANGED <<stored, replaced, source, archiveSize, abandoned, request>>
  PROVE  CauseInv'
<1> DEFINE path == Item.path
           parent == Front(path)
           ensured == Ensured(parent)
           nodes == WithFile(ensured, path, Item.size)
           Fits == ~TooLong(parent) /\ ~TooLong(path)
<1>1. /\ path \in Seq(Components) \ {<<>>} /\ Item.kind = "file" /\ path \in WithParents(path)
      /\ path \notin WithParents(parent) /\ WithParents(path) = WithParents(parent) \cup {path}
      /\ parent # <<>> => parent \in WithParents(parent)
  <2>1. path \in Seq(Components) \ {<<>>} /\ Item.kind = "file"
    BY ItemIs DEF ExtractInv, WriteFile
  <2> HIDE DEF path
  <2> QED BY <2>1, ParentsAre
<1>2. Item \in ToSet(inspected)
  <2>1. written + 1 \in DOMAIN inspected
    BY ItemIs DEF ExtractInv
  <2> QED BY <2>1 DEF Item, ToSet
<1>8. CASE TooLong(parent) \/ (~Blocked(parent) /\ TooLong(path))
  <2>1. TooLong(path)
    BY <1>1, <1>8 DEF TooLong
  <2>2. phase' = "undo" /\ code' = "PATH_UNSAFE" /\ inspected' = inspected
    BY <1>8 DEF WriteFile, UndoneAs, Undone
  <2> QED BY <2>1, <2>2, TooLongIsCause
<1>3. CASE ~TooLong(parent) /\ Blocked(parent)
  <2>1. \E p, q \in ToSet(inspected) : p # q /\ Meet(p, q)
    BY <1>1, <1>3, FileInTheWay
  <2>2. phase' = "undo" /\ inspected' = inspected
    BY <1>3 DEF WriteFile, UndoneAs, Undone
  <2>3. StoppedFor(code)'
    BY <2>1, <2>2 DEF StoppedFor
  <2> QED BY <2>2, <2>3, GivenUp
<1>4. CASE Fits /\ ~Blocked(parent) /\ Found(path) # {}
  <2>1. path \in DOMAIN tree
    BY <1>1, <1>4, FoundIs
  <2>2. PICK k \in 1 .. written : path \in WithParents(inspected[k].path)
    BY <2>1 DEF ExtractInv, TreeAsWritten
  <2>3. k \in DOMAIN inspected /\ written + 1 \in DOMAIN inspected /\ k # written + 1
    BY ItemIs DEF ExtractInv
  <2>4. inspected[k].index # Item.index
    BY <2>3 DEF CauseInv, AsInspected, Item
  <2>5. inspected[k] \in ToSet(inspected) /\ Item # inspected[k] /\ Meet(Item, inspected[k])
    BY <1>1, <2>2, <2>3, <2>4 DEF Meet, ToSet
  <2>6. phase' = "undo" /\ inspected' = inspected
    BY <1>4 DEF WriteFile, UndoneAs, Undone
  <2>7. \E p, q \in ToSet(inspected) : p # q /\ Meet(p, q)
    BY <1>2, <2>5
  <2>8. StoppedFor(code)'
    BY <2>6, <2>7 DEF StoppedFor
  <2> QED BY <2>6, <2>8, GivenUp
<1>5. CASE Fits /\ ~Blocked(parent) /\ Found(path) = {} /\ abandoned
  <2>1. phase' = "undo" /\ inspected' = inspected /\ code' = "CANCELLED" /\ abandoned'
    BY <1>5 DEF WriteFile, UndoneAs, Undone
  <2> QED BY <2>1, GivenUp DEF StoppedFor
<1>6. CASE Fits /\ ~Blocked(parent) /\ Found(path) = {} /\ ~abandoned /\ StreamAnswer # ""
  <2>1. phase' = "undo" /\ inspected' = inspected
    BY <1>6 DEF WriteFile, UndoneAs, Undone
  <2>2. CASE Stream # [gives |-> Item.size, state |-> "whole"]
    <3>1. \E item \in ToSet(inspected) :
            item.kind = "file" /\ source.entries[item.index].stream # [gives |-> item.size, state |-> "whole"]
      BY <1>1, <1>2, <2>2 DEF Stream
    <3>2. StoppedFor(code)'
      BY <2>1, <3>1 DEF StoppedFor
    <3> QED BY <2>1, <3>2, GivenUp
  <2>3. CASE Stream = [gives |-> Item.size, state |-> "whole"]
    <3>1. Item.size \in Nat /\ Before + Item.size > maxExtractBytes
      <4>1. Stream.gives = Item.size /\ Stream.state = "whole" /\ Item.size \in Nat
        BY <2>3, ItemIs DEF ExtractInv, InspectedItem
      <4> QED BY <1>6, <4>1 DEF StreamAnswer
    <3>2. Sum(FileBytes, Len(inspected)) > maxExtractBytes
      BY <1>1, <3>1, BytesWritten
    <3>3. FileBytes' = FileBytes /\ maxExtractBytes' = maxExtractBytes
      BY <2>1 DEF FileBytes, maxExtractBytes
    <3>4. StoppedFor(code)'
      BY <2>1, <3>2, <3>3 DEF StoppedFor
    <3> QED BY <2>1, <3>4, GivenUp
  <2> QED BY <2>2, <2>3
<1>7. CASE Fits /\ ~Blocked(parent) /\ Found(path) = {} /\ ~abandoned /\ StreamAnswer = ""
  <2>1. tree' = nodes /\ written' = written + 1 /\ UNCHANGED <<phase, code, inspected, broke>>
    BY <1>7 DEF WriteFile, Written
  <2>2. /\ \A p \in DOMAIN tree : ensured[p] = tree[p]
        /\ \A p \in DOMAIN ensured \ DOMAIN tree : ensured[p].kind = "dir"
    BY <1>1, <1>7, EnsuredIs
  <2> HIDE DEF ensured, parent
  <2>3. \A p \in DOMAIN nodes : p = path \/ (p \in DOMAIN ensured /\ nodes[p] = ensured[p])
    BY DEF WithFile
  <2> HIDE DEF nodes, path
  <2>4. \A p \in DOMAIN tree' : tree'[p].kind = "file" => p = path \/ (p \in DOMAIN tree /\ tree[p].kind = "file")
    BY <2>1, <2>2, <2>3
  <2> QED BY <1>1, <2>1, <2>4, WrittenCause DEF path
<1> QED BY <1>3, <1>4, <1>5, <1>6, <1>7, <1>8

\* The second pass
LEMMA WriteEntryCause ==
  ASSUME ExtractInv, CauseInv, WriteEntry
  PROVE  CauseInv'
<1>1. /\ phase = "write" /\ written < Len(inspected)
      /\ UNCHANGED <<stored, replaced, source, archiveSize, abandoned, request>>
  BY DEF WriteEntry
<1>2. CASE ~Verified /\ UndoneAs("ARCHIVE_UNSAFE", tree)
  <2>1. replaced' /\ phase' = "undo" /\ inspected' = inspected
    BY <1>1, <1>2, ReadAgain DEF UndoneAs, Undone
  <2> QED BY <2>1, GivenUp DEF StoppedFor
<1>3. CASE WriteDir
  BY <1>1, <1>3, DirCause
<1>4. CASE WriteFile
  BY <1>1, <1>4, FileCause
<1>5. CASE ReadFails /\ UNCHANGED inspected
  BY <1>5, BrokenIsCause
<1> QED BY <1>2, <1>3, <1>4, <1>5 DEF WriteEntry

\* Whatever lies under the path, whatever fails and whoever cancels
LEMMA CauseStepInv == ExtractInv /\ CauseInv /\ [ExtractNext]_extractVars => CauseInv'
<1> SUFFICES ASSUME ExtractInv, CauseInv, [ExtractNext]_extractVars PROVE CauseInv'
  OBVIOUS
<1>1. CASE StatArchive
  BY <1>1 DEF StatArchive, CauseInv, AsInspected, FilesAsWritten, GivenUpForCause
<1>2. CASE InspectArchive
  <2>1. inspected = <<>>
    BY <1>2 DEF InspectArchive, CauseInv, AsInspected
  <2>2. CASE ReadFails /\ UNCHANGED inspected
    BY <2>2, BrokenIsCause
  <2>3. CASE inspected' = (IF Readable(stored) THEN Inspection(stored.entries, request.strip) ELSE <<>>) /\ inspected' = <<>>
             /\ Undone("ARCHIVE_UNSAFE")
    BY <2>1, <2>3 DEF CauseInv, AsInspected, FilesAsWritten, GivenUpForCause, Undone
  <2>4. CASE inspected' = (IF Readable(stored) THEN Inspection(stored.entries, request.strip) ELSE <<>>) /\ inspected' # <<>>
             /\ phase' \in {"prepare", "reopen"}
    <3>1. Readable(stored) /\ inspected' = Inspection(stored.entries, request.strip) /\ stored.entries \in Seq(ArchiveEntry)
      BY <2>4, ArchiveAssumption DEF ExtractInv, ExtractTypeOK
    <3>2. source' = stored' /\ stored' = stored /\ UNCHANGED <<request, archiveSize>>
      BY <1>2 DEF InspectArchive
    <3>3. Readable(source)' /\ (inspected = Inspection(source.entries, request.strip))'
      <4>1. source' = stored /\ request' = request
        BY <1>2 DEF InspectArchive
      <4>2. Readable(source)'
        BY <3>1, <3>2, <4>1 DEF Readable, Opens, maxExtractBytes
      <4> QED BY <3>1, <4>1, <4>2
    <3>4. \A i, j \in DOMAIN inspected' : inspected'[i].index = inspected'[j].index => i = j
      BY <3>1, InspectionIs
    <3> QED BY <2>4, <3>2, <3>3, <3>4 DEF CauseInv, AsInspected, FilesAsWritten, GivenUpForCause
  <2> QED BY <1>2, <2>2, <2>3, <2>4 DEF InspectArchive
<1>3. CASE Reopen
  <2>1. CASE ReadFails
    BY <1>3, <2>1, BrokenIsCause DEF Reopen
  <2>2. CASE ~Opens(stored) /\ Undone("ARCHIVE_UNSAFE")
    <3>1. replaced
      BY <1>3, <2>2 DEF Reopen, CauseInv, AsInspected, Readable
    <3>2. replaced' /\ phase' = "undo" /\ inspected' = inspected
      BY <1>3, <2>2, <3>1 DEF Reopen, Undone
    <3> QED BY <3>2, GivenUp DEF StoppedFor
  <2>3. CASE source' = stored /\ phase' = "prepare" /\ UNCHANGED code
    <3>1. UNCHANGED <<stored, replaced, inspected, request, archiveSize>> /\ phase = "reopen"
      BY <1>3 DEF Reopen
    <3>2. ~replaced => source' = source
      BY <1>3, <2>3 DEF Reopen, CauseInv, AsInspected
    <3>3. FilesAsWritten'
      BY <2>3 DEF FilesAsWritten
    <3> QED BY <2>3, <3>1, <3>2, <3>3, SameArchive
  <2> QED BY <1>3, <2>1, <2>2, <2>3 DEF Reopen
<1>4. CASE Prepare
  <2>1. CASE DiskFails
    BY <1>4, <2>1, BrokenIsCause DEF Prepare, ReadFails
  <2>2. CASE phase' = "write" /\ UNCHANGED code
    <3>1. UNCHANGED <<stored, source, replaced, inspected, request, archiveSize, tree>> /\ phase = "prepare"
      BY <1>4 DEF Prepare
    <3>2. DOMAIN tree = {}
      <4>1. tree = <<>>
        BY <3>1 DEF ExtractInv, UndoneAsCoded
      <4> QED BY <4>1
    <3>3. FilesAsWritten'
      BY <3>1, <3>2 DEF FilesAsWritten
    <3> QED BY <2>2, <3>1, <3>3, SameArchive
  <2> QED BY <1>4, <2>1, <2>2 DEF Prepare
<1>5. CASE WriteEntry
  BY <1>5, WriteEntryCause
<1>6. CASE Extracted
  BY <1>6 DEF Extracted, CauseInv, AsInspected, FilesAsWritten, GivenUpForCause
<1>7. CASE Undo
  <2>1. /\ UNCHANGED <<request, inspected, source, archiveSize, broke, abandoned, replaced, code>>
        /\ phase = "undo" /\ phase' = "done"
    BY <1>7 DEF Undo
  <2>2. GivenUpForCause'
    <3>1. PICK answer : answer = code
      OBVIOUS
    <3>2. inspected # <<>> /\ code # "OK" => StoppedFor(answer)'
      BY <2>1, <3>1, CauseStays DEF CauseInv, GivenUpForCause
    <3> QED BY <2>1, <3>1, <3>2 DEF GivenUpForCause
  <2> QED BY <2>1, <2>2 DEF CauseInv, AsInspected, FilesAsWritten
<1>8. CASE ReplaceArchive \/ AbandonExtraction
  <2>1. /\ UNCHANGED <<request, source, archiveSize, phase, inspected, written, tree, broke, code>>
        /\ abandoned => abandoned'
        /\ replaced' \/ (~replaced /\ ~replaced' /\ stored' = stored)
    BY <1>8 DEF ReplaceArchive, AbandonExtraction
  <2>2. GivenUpForCause'
    <3>1. PICK answer : answer = code
      OBVIOUS
    <3>2. phase \in {"undo", "done"} /\ inspected # <<>> /\ code # "OK" => StoppedFor(answer)'
      <4>1. (replaced => replaced') /\ (broke => broke')
        BY <1>8 DEF ReplaceArchive, AbandonExtraction
      <4> QED BY <2>1, <3>1, <4>1, CauseStays DEF CauseInv, GivenUpForCause
    <3> QED BY <2>1, <3>1, <3>2 DEF GivenUpForCause
  <2>3. FilesAsWritten'
    BY <2>1 DEF CauseInv, FilesAsWritten
  <2>4. CASE phase \in {"reopen", "prepare", "write"}
    BY <2>1, <2>3, <2>4, SameArchive
  <2>5. CASE phase \notin {"reopen", "prepare", "write"}
    BY <2>1, <2>2, <2>3, <2>5 DEF CauseInv, AsInspected
  <2> QED BY <2>4, <2>5
<1>9. CASE UNCHANGED extractVars
  <2>1. /\ UNCHANGED <<request, source, archiveSize, phase, inspected, written, tree, broke, code>>
        /\ UNCHANGED <<abandoned, replaced, stored>>
    BY <1>9 DEF extractVars
  <2>2. GivenUpForCause'
    <3>1. PICK answer : answer = code
      OBVIOUS
    <3>2. phase \in {"undo", "done"} /\ inspected # <<>> /\ code # "OK" => StoppedFor(answer)'
      BY <2>1, <3>1, CauseStays DEF CauseInv, GivenUpForCause
    <3> QED BY <2>1, <3>1, <3>2 DEF GivenUpForCause
  <2>3. FilesAsWritten'
    BY <2>1 DEF CauseInv, FilesAsWritten
  <2>4. CASE phase \in {"reopen", "prepare", "write"}
    BY <2>1, <2>3, <2>4, SameArchive
  <2>5. CASE phase \notin {"reopen", "prepare", "write"}
    BY <2>1, <2>2, <2>3, <2>5 DEF CauseInv, AsInspected
  <2> QED BY <2>4, <2>5
<1> QED BY <1>1, <1>2, <1>3, <1>4, <1>5, <1>6, <1>7, <1>8, <1>9 DEF ExtractNext

\* For all archives, all that may replace them and all limits: what the first pass let
\* through is written whole, unless a call of the file system fails, the caller cancels,
\* the archive is replaced or not what its headers say, one entry lies below another
\* that is a file, or the bytes come to more than the limit.
THEOREM StopsExplained == ExtractSpec => []StopsForCause
<1>1. ExtractInit => CauseInv
  <2> SUFFICES ASSUME ExtractInit PROVE CauseInv
    OBVIOUS
  <2>1. inspected = <<>> /\ phase = "stat"
    BY DEF ExtractInit
  <2>2. DOMAIN inspected = {}
    BY <2>1
  <2> QED BY <2>1, <2>2 DEF CauseInv, AsInspected, FilesAsWritten, GivenUpForCause
<1>2. CauseInv => StopsForCause
  BY DEF CauseInv, GivenUpForCause, StopsForCause
<1> QED BY <1>1, <1>2, ExtractInitInv, ExtractStepInv, CauseStepInv, PTL DEF ExtractSpec
=============================================================================
