----------------------------- MODULE Rules_proofs -----------------------------
(***************************************************************************)
(* Proofs about the rules a definition meets on its way to an install, and *)
(* about the cached catalog.  The versions of one scheme are totally       *)
(* ordered by Compare, so that the latest of a catalog is its greatest;    *)
(* the license parser accepts what its grammar derives; nothing of a       *)
(* definition is dropped without a diagnostic; the scope of a plan lets    *)
(* pass what the plan names; and whatever operations share a cache file,   *)
(* each is answered with a catalog that fits what it asked for.            *)
(***************************************************************************)
EXTENDS CatalogRefresh, Pipeline, FiniteSetTheorems, WellFoundedInduction, TLAPS

-----------------------------------------------------------------------------
(* The order of versions *)

Versions ==
  [scheme : Schemes, text : VersionTexts, stage : Nat, major : Nat, minor : Nat, patch : Nat,
   stageNum : Nat, pre : Seq(Ident)]

(* a is before b at the first place where they differ.                     *)
Shared(a, b) == DOMAIN a \cap DOMAIN b
Before(a, b) ==
  \E i \in Shared(a, b) : a[i] < b[i] /\ \A j \in Shared(a, b) : j < i => a[j] = b[j]

(* The same of identifiers and of lists of them: up to i they agree, and at *)
(* i the first list has ended or has the lesser identifier.                *)
IdentBefore(x, y) ==
  \/ x.numeric /\ ~y.numeric
  \/ (x.numeric <=> y.numeric) /\ x.rank < y.rank
BeforeAt(l, r, i) ==
  /\ \A j \in 1..(i - 1) : j \in DOMAIN l /\ l[j] = r[j]
  /\ i = Len(l) + 1 \/ (i \in DOMAIN l /\ IdentBefore(l[i], r[i]))
PreBefore(l, r) == l # <<>> /\ (r = <<>> \/ \E i \in DOMAIN r : BeforeAt(l, r, i))

(* What Compare finds to be equal, and what it finds to be lower.          *)
Pre(v) == IF v.scheme = "semver" THEN v.pre ELSE <<>>
SameVersion(v, w) == Numbers(v) = Numbers(w) /\ Pre(v) = Pre(w)
VersionBefore(v, w) ==
  \/ Before(Numbers(v), Numbers(w))
  \/ Numbers(v) = Numbers(w) /\ PreBefore(Pre(v), Pre(w))

-----------------------------------------------------------------------------
\* A set of naturals that is not empty has a least element.
LEMMA LeastOf ==
  ASSUME NEW S \in SUBSET Nat, S # {}
  PROVE  \E n \in S : \A m \in S : n <= m
<1>1. \E n \in S : \A m \in S : ~(<<m, n>> \in OpToRel(<, Nat))
  BY NatLessThanWellFounded, WFMin
<1>2. \E n \in S : \A m \in S : ~(m < n)
  BY <1>1 DEF OpToRel
<1> QED BY <1>2

\* What holds of 0 and passes from each number to the next holds of all.
LEMMA Induction ==
  ASSUME NEW S, 0 \in S, \A n \in Nat : n \in S => n + 1 \in S
  PROVE  \A n \in Nat : n \in S
<1> SUFFICES ASSUME Nat \ S # {} PROVE FALSE
  OBVIOUS
<1>1. PICK x \in Nat \ S : \A y \in Nat \ S : <<y, x>> \notin OpToRel(<, Nat)
  BY NatLessThanWellFounded, WFMin
<1>2. x \in Nat /\ x \notin S /\ x # 0
  BY <1>1
<1>3. x - 1 \in Nat /\ x - 1 + 1 = x
  BY <1>2
<1>4. x - 1 \in S
  <2>1. <<x - 1, x>> \in Nat \X Nat /\ x - 1 < x
    BY <1>2, <1>3
  <2>2. <<x - 1, x>> \in OpToRel(<, Nat)
    BY <2>1 DEF OpToRel
  <2> QED BY <1>1, <1>3, <2>2
<1> QED BY <1>2, <1>3, <1>4

\* What decides is the first place where two sequences differ.
LEMMA FirstDiffers ==
  ASSUME NEW a \in Seq(Nat), NEW b \in Seq(Nat), Differ(a, b) # {}
  PROVE  /\ First(a, b) \in Differ(a, b)
         /\ \A j \in Differ(a, b) : First(a, b) <= j
<1>1. Differ(a, b) \subseteq Nat
  BY DEF Differ
<1>2. \E n \in Differ(a, b) : \A m \in Differ(a, b) : n <= m
  BY <1>1, LeastOf
<1> QED BY <1>2 DEF First

\* Lexicographic says which of two sequences is before the other.
LEMMA LexicographicIs ==
  ASSUME NEW a \in Seq(Nat), NEW b \in Seq(Nat)
  PROVE  /\ Lexicographic(a, b) \in {-1, 0, 1}
         /\ Lexicographic(a, b) = -1 <=> Before(a, b)
         /\ Lexicographic(a, b) = 1 <=> Before(b, a)
         /\ Lexicographic(a, b) = 0 <=> Differ(a, b) = {}
<1>0. \A i \in Shared(a, b) : a[i] \in Nat /\ b[i] \in Nat /\ i \in Nat
  BY DEF Shared
<1>1. Shared(a, b) = Shared(b, a)
  BY DEF Shared
<1>2. CASE Differ(a, b) = {}
  <2>1. \A i \in Shared(a, b) : a[i] = b[i]
    BY <1>2 DEF Differ, Shared
  <2>2. ~Before(a, b) /\ ~Before(b, a)
    BY <2>1, <1>0, <1>1 DEF Before
  <2> QED BY <1>2, <2>2 DEF Lexicographic
<1>3. CASE Differ(a, b) # {}
  <2> DEFINE f == First(a, b)
  <2>1. f \in Differ(a, b) /\ \A j \in Differ(a, b) : f <= j
    BY <1>3, FirstDiffers
  <2>2. f \in Shared(a, b) /\ a[f] # b[f]
    BY <2>1 DEF Differ, Shared
  <2>3. \A j \in Shared(a, b) : j < f => a[j] = b[j]
    <3> SUFFICES ASSUME NEW j \in Shared(a, b), j < f, a[j] # b[j] PROVE FALSE
      OBVIOUS
    <3>1. j \in Differ(a, b)
      BY DEF Differ, Shared
    <3> QED BY <3>1, <2>1, <2>2, <1>0
  <2>4. Lexicographic(a, b) = Compare2(a[f], b[f])
    BY <1>3 DEF Lexicographic
  <2> HIDE DEF f
  <2>5. \A i \in Shared(a, b) :
          (\A j \in Shared(a, b) : j < i => a[j] = b[j]) /\ a[i] # b[i] => i = f
    BY <2>2, <2>3, <1>0
  <2>6. Before(a, b) <=> a[f] < b[f]
    <3>1. a[f] < b[f] => Before(a, b)
      BY <2>2, <2>3 DEF Before
    <3>2. ASSUME Before(a, b) PROVE a[f] < b[f]
      <4>1. PICK i \in Shared(a, b) :
              a[i] < b[i] /\ \A j \in Shared(a, b) : j < i => a[j] = b[j]
        BY <3>2 DEF Before
      <4>2. a[i] # b[i]
        BY <4>1, <1>0
      <4>3. i = f
        BY <4>1, <4>2, <2>5
      <4> QED BY <4>1, <4>3
    <3> QED BY <3>1, <3>2
  <2>7. Before(b, a) <=> b[f] < a[f]
    <3>1. b[f] < a[f] => Before(b, a)
      BY <2>2, <2>3, <1>1 DEF Before
    <3>2. ASSUME Before(b, a) PROVE b[f] < a[f]
      <4>1. PICK i \in Shared(a, b) :
              b[i] < a[i] /\ \A j \in Shared(a, b) : j < i => b[j] = a[j]
        BY <3>2, <1>1 DEF Before
      <4>2. a[i] # b[i]
        BY <4>1, <1>0
      <4>3. i = f
        BY <4>1, <4>2, <2>5
      <4> QED BY <4>1, <4>3
    <3> QED BY <3>1, <3>2
  <2> QED BY <1>3, <2>2, <2>4, <2>6, <2>7, <1>0 DEF Compare2
<1> QED BY <1>2, <1>3

\* Of sequences of one length, what is before what is before is before.
LEMMA BeforeTransitive ==
  ASSUME NEW a \in Seq(Nat), NEW b \in Seq(Nat), NEW c \in Seq(Nat),
         Len(a) = Len(b), Len(b) = Len(c), Before(a, b), Before(b, c)
  PROVE  Before(a, c)
<1>1. DOMAIN a = DOMAIN b /\ DOMAIN b = DOMAIN c /\ DOMAIN a \subseteq Nat
  OBVIOUS
<1>2. \A i \in DOMAIN a : a[i] \in Nat /\ b[i] \in Nat /\ c[i] \in Nat
  BY <1>1
<1>3. PICK i \in DOMAIN a : a[i] < b[i] /\ \A j \in DOMAIN a : j < i => a[j] = b[j]
  BY <1>1 DEF Before, Shared
<1>4. PICK k \in DOMAIN a : b[k] < c[k] /\ \A j \in DOMAIN a : j < k => b[j] = c[j]
  BY <1>1 DEF Before, Shared
<1>5. \E m \in DOMAIN a : a[m] < c[m] /\ \A j \in DOMAIN a : j < m => a[j] = c[j]
  <2>1. CASE i <= k
    <3>1. a[i] < c[i]
      <4>1. CASE i = k
        BY <4>1, <1>2, <1>3, <1>4
      <4>2. CASE i < k
        BY <4>2, <1>2, <1>3, <1>4
      <4> QED BY <2>1, <4>1, <4>2, <1>1
    <3> QED BY <2>1, <3>1, <1>1, <1>3, <1>4
  <2>2. CASE k < i
    <3>1. a[k] < c[k]
      BY <2>2, <1>1, <1>2, <1>3, <1>4
    <3> QED BY <2>2, <3>1, <1>1, <1>3, <1>4
  <2> QED BY <2>1, <2>2, <1>1
<1> QED BY <1>1, <1>5 DEF Before, Shared

-----------------------------------------------------------------------------
\* Of two pairs the one with the lesser first number is before the other,
\* and of two with the same first number the one with the lesser second.
LEMMA BeforePairs ==
  ASSUME NEW p \in Nat, NEW q \in Nat, NEW s \in Nat, NEW t \in Nat
  PROVE  Before(<<p, q>>, <<s, t>>) <=> p < s \/ (p = s /\ q < t)
<1> DEFINE a == <<p, q>>
           b == <<s, t>>
<1>1. Shared(a, b) = {1, 2} /\ a[1] = p /\ a[2] = q /\ b[1] = s /\ b[2] = t
  BY DEF Shared
<1> HIDE DEF a, b
<1>2. ASSUME Before(a, b) PROVE p < s \/ (p = s /\ q < t)
  <2>1. PICK i \in {1, 2} : a[i] < b[i] /\ \A j \in {1, 2} : j < i => a[j] = b[j]
    BY <1>1, <1>2 DEF Before
  <2> QED BY <2>1, <1>1
<1>3. ASSUME p < s PROVE Before(a, b)
  BY <1>1, <1>3 DEF Before
<1>4. ASSUME p = s, q < t PROVE Before(a, b)
  BY <1>1, <1>4 DEF Before
<1> QED BY <1>2, <1>3, <1>4 DEF a, b

\* IdentCompare orders identifiers: numeric ones first, then by rank.
LEMMA IdentCompareIs ==
  ASSUME NEW x \in Ident, NEW y \in Ident
  PROVE  /\ IdentCompare(x, y) \in {-1, 0, 1}
         /\ IdentCompare(x, y) = -1 <=> IdentBefore(x, y)
         /\ IdentCompare(x, y) = 1 <=> IdentBefore(y, x)
         /\ IdentCompare(x, y) = 0 <=> x = y
<1> DEFINE wx == IF x.numeric THEN 0 ELSE 1
           wy == IF y.numeric THEN 0 ELSE 1
<1>0. x.rank \in Nat /\ y.rank \in Nat /\ x.numeric \in BOOLEAN /\ y.numeric \in BOOLEAN
  BY DEF Ident
<1>1. wx \in Nat /\ wy \in Nat
  OBVIOUS
<1>2. Weight(x) = <<wx, x.rank>> /\ Weight(y) = <<wy, y.rank>>
  BY DEF Weight
<1>3. /\ (wx < wy <=> x.numeric /\ ~y.numeric)
      /\ (wy < wx <=> y.numeric /\ ~x.numeric)
      /\ (wx = wy <=> (x.numeric <=> y.numeric))
  OBVIOUS
<1> HIDE DEF wx, wy
<1>4. Weight(x) \in Seq(Nat) /\ Weight(y) \in Seq(Nat) /\ Shared(Weight(x), Weight(y)) = {1, 2}
  BY <1>0, <1>1, <1>2 DEF Shared
<1>5. Before(Weight(x), Weight(y)) <=> wx < wy \/ (wx = wy /\ x.rank < y.rank)
  BY <1>0, <1>1, <1>2, BeforePairs
<1>6. Before(Weight(y), Weight(x)) <=> wy < wx \/ (wx = wy /\ y.rank < x.rank)
  BY <1>0, <1>1, <1>2, BeforePairs
<1>7. Differ(Weight(x), Weight(y)) = {} <=> wx = wy /\ x.rank = y.rank
  BY <1>0, <1>1, <1>2, <1>4 DEF Differ, Shared
<1>8. x = y <=> (x.numeric <=> y.numeric) /\ x.rank = y.rank
  <2>1. x = [numeric |-> x.numeric, rank |-> x.rank] /\ y = [numeric |-> y.numeric, rank |-> y.rank]
    BY DEF Ident
  <2>2. (x.numeric <=> y.numeric) <=> x.numeric = y.numeric
    BY <1>0
  <2> QED BY <2>1, <2>2
<1> QED BY <1>3, <1>4, <1>5, <1>6, <1>7, <1>8, LexicographicIs DEF IdentCompare, IdentBefore

\* The order of identifiers is transitive and no identifier is before itself.
LEMMA IdentBeforeTransitive ==
  ASSUME NEW x \in Ident, NEW y \in Ident, NEW z \in Ident
  PROVE  /\ ~IdentBefore(x, x)
         /\ IdentBefore(x, y) /\ IdentBefore(y, z) => IdentBefore(x, z)
  BY DEF IdentBefore, Ident

\* What decides is the first place where two lists of identifiers differ.
LEMMA PreFirstDiffers ==
  ASSUME NEW l \in Seq(Ident), NEW r \in Seq(Ident), PreDiffer(l, r) # {}
  PROVE  /\ PreFirst(l, r) \in PreDiffer(l, r)
         /\ \A j \in PreDiffer(l, r) : PreFirst(l, r) <= j
<1>1. PreDiffer(l, r) \subseteq Nat
  BY DEF PreDiffer
<1>2. \E n \in PreDiffer(l, r) : \A m \in PreDiffer(l, r) : n <= m
  BY <1>1, LeastOf
<1> QED BY <1>2 DEF PreFirst

\* PreBefore is transitive.
LEMMA PreBeforeTransitive ==
  ASSUME NEW l \in Seq(Ident), NEW m \in Seq(Ident), NEW r \in Seq(Ident),
         PreBefore(l, m), PreBefore(m, r)
  PROVE  PreBefore(l, r)
<1>0. l # <<>> /\ m # <<>>
  BY DEF PreBefore
<1>1. CASE r = <<>>
  BY <1>0, <1>1 DEF PreBefore
<1>2. CASE r # <<>>
  <2>0. /\ DOMAIN l = 1..Len(l) /\ DOMAIN m = 1..Len(m) /\ DOMAIN r = 1..Len(r)
        /\ Len(l) \in Nat /\ Len(m) \in Nat /\ Len(r) \in Nat
    OBVIOUS
  <2>1. PICK i \in DOMAIN m : BeforeAt(l, m, i)
    BY <1>0 DEF PreBefore
  <2>2. PICK k \in DOMAIN r : BeforeAt(m, r, k)
    BY <1>2 DEF PreBefore
  <2>3. \A j \in 1..(i - 1) : j \in DOMAIN l /\ l[j] = m[j]
    BY <2>1 DEF BeforeAt
  <2>4. \A j \in 1..(k - 1) : j \in DOMAIN m /\ m[j] = r[j]
    BY <2>2 DEF BeforeAt
  <2>5. i = Len(l) + 1 \/ (i \in DOMAIN l /\ IdentBefore(l[i], m[i]))
    BY <2>1 DEF BeforeAt
  <2>6. k = Len(m) + 1 \/ (k \in DOMAIN m /\ IdentBefore(m[k], r[k]))
    BY <2>2 DEF BeforeAt
  <2>7. CASE i < k
    <3>1. m[i] = r[i] /\ i \in DOMAIN r
      BY <2>7, <2>0, <2>4
    <3>2. \A j \in 1..(i - 1) : j \in DOMAIN l /\ l[j] = r[j]
      BY <2>7, <2>0, <2>3, <2>4
    <3>3. BeforeAt(l, r, i)
      BY <3>1, <3>2, <2>5 DEF BeforeAt
    <3> QED BY <3>1, <3>3, <1>0 DEF PreBefore
  <2>8. CASE i = k
    <3>1. IdentBefore(m[i], r[i]) /\ i \in DOMAIN r
      BY <2>8, <2>0, <2>6
    <3>2. \A j \in 1..(i - 1) : j \in DOMAIN l /\ l[j] = r[j]
      BY <2>8, <2>3, <2>4
    <3>3. i \in DOMAIN l /\ IdentBefore(l[i], m[i]) => IdentBefore(l[i], r[i])
      BY <3>1, <2>0, IdentBeforeTransitive
    <3>4. BeforeAt(l, r, i)
      BY <3>2, <3>3, <2>5 DEF BeforeAt
    <3> QED BY <3>1, <3>4, <1>0 DEF PreBefore
  <2>9. CASE k < i
    <3>1. k \in DOMAIN l /\ l[k] = m[k] /\ k \in DOMAIN m
      BY <2>9, <2>0, <2>3
    <3>2. k # Len(m) + 1
      BY <2>9, <2>0
    <3>3. IdentBefore(l[k], r[k])
      BY <3>1, <3>2, <2>6
    <3>4. \A j \in 1..(k - 1) : j \in DOMAIN l /\ l[j] = r[j]
      BY <2>9, <2>0, <2>3, <2>4
    <3>5. BeforeAt(l, r, k)
      BY <3>1, <3>3, <3>4 DEF BeforeAt
    <3> QED BY <3>5, <1>0 DEF PreBefore
  <2> QED BY <2>0, <2>7, <2>8, <2>9
<1> QED BY <1>1, <1>2

\* ComparePre says which of two lists of identifiers is before the other,
\* and finds no difference only between a list and itself.
LEMMA ComparePreIs ==
  ASSUME NEW l \in Seq(Ident), NEW r \in Seq(Ident)
  PROVE  /\ ComparePre(l, r) = -1 <=> PreBefore(l, r)
         /\ ComparePre(l, r) = -ComparePre(r, l)
         /\ ComparePre(l, r) \in {-1, 0, 1}
         /\ ComparePre(l, r) = 0 <=> l = r
<1>0. /\ DOMAIN l = 1..Len(l) /\ DOMAIN r = 1..Len(r) /\ Len(l) \in Nat /\ Len(r) \in Nat
      /\ \A i \in DOMAIN l : l[i] \in Ident
      /\ \A i \in DOMAIN r : r[i] \in Ident
  OBVIOUS
<1>1. CASE l = <<>> \/ r = <<>>
  <2>1. CASE l = <<>>
    <3>1. ~PreBefore(l, r)
      BY <2>1 DEF PreBefore
    <3> QED BY <2>1, <3>1 DEF ComparePre, Compare2
  <2>2. CASE l # <<>> /\ r = <<>>
    <3>1. PreBefore(l, r)
      BY <2>2 DEF PreBefore
    <3> QED BY <2>2, <3>1 DEF ComparePre, Compare2
  <2> QED BY <1>1, <2>1, <2>2
<1>2. CASE l # <<>> /\ r # <<>> /\ PreDiffer(l, r) = {}
  <2>1. \A i \in DOMAIN l \cap DOMAIN r : l[i] = r[i]
    <3> SUFFICES ASSUME NEW i \in DOMAIN l \cap DOMAIN r PROVE l[i] = r[i]
      OBVIOUS
    <3>1. IdentCompare(l[i], r[i]) = 0
      BY <1>2 DEF PreDiffer
    <3> QED BY <3>1, <1>0, IdentCompareIs
  <2>2. PreDiffer(r, l) = {}
    <3> SUFFICES ASSUME NEW i \in DOMAIN l \cap DOMAIN r PROVE IdentCompare(r[i], l[i]) = 0
      BY DEF PreDiffer
    <3> QED BY <2>1, <1>0, IdentCompareIs
  <2>3. ComparePre(l, r) = Compare2(Len(l), Len(r)) /\ ComparePre(r, l) = Compare2(Len(r), Len(l))
    BY <1>2, <2>2 DEF ComparePre
  <2>4. PreBefore(l, r) <=> Len(l) < Len(r)
    <3>1. ASSUME Len(l) < Len(r) PROVE PreBefore(l, r)
      <4>1. Len(l) + 1 \in DOMAIN r
        BY <1>0, <3>1
      <4>2. \A j \in 1..Len(l) : j \in DOMAIN l /\ l[j] = r[j]
        BY <1>0, <3>1, <2>1
      <4>3. BeforeAt(l, r, Len(l) + 1)
        BY <4>2, <1>0 DEF BeforeAt
      <4> QED BY <1>2, <4>1, <4>3 DEF PreBefore
    <3>2. ASSUME PreBefore(l, r) PROVE Len(l) < Len(r)
      <4>1. PICK i \in DOMAIN r : BeforeAt(l, r, i)
        BY <1>2, <3>2 DEF PreBefore
      <4>2. ~(i \in DOMAIN l /\ IdentBefore(l[i], r[i]))
        BY <2>1, <1>0, IdentBeforeTransitive
      <4>3. i = Len(l) + 1
        BY <4>1, <4>2 DEF BeforeAt
      <4> QED BY <4>3, <1>0
    <3> QED BY <3>1, <3>2
  <2>5. Len(l) = Len(r) <=> l = r
    <3>1. ASSUME Len(l) = Len(r) PROVE l = r
      BY <1>0, <2>1, <3>1
    <3> QED BY <3>1
  <2>6. \A m, n \in Nat :
          /\ Compare2(m, n) = -1 <=> m < n
          /\ Compare2(m, n) = -Compare2(n, m)
          /\ Compare2(m, n) \in {-1, 0, 1}
          /\ Compare2(m, n) = 0 <=> m = n
    BY DEF Compare2
  <2>7. /\ ComparePre(l, r) = -1 <=> Len(l) < Len(r)
        /\ ComparePre(l, r) = -ComparePre(r, l)
        /\ ComparePre(l, r) \in {-1, 0, 1}
        /\ ComparePre(l, r) = 0 <=> Len(l) = Len(r)
    BY <2>3, <2>6, <1>0
  <2> QED BY <2>4, <2>5, <2>7
<1>3. CASE l # <<>> /\ r # <<>> /\ PreDiffer(l, r) # {}
  <2> DEFINE f == PreFirst(l, r)
             g == PreFirst(r, l)
  <2>1. \A i \in DOMAIN l \cap DOMAIN r :
          /\ IdentCompare(l[i], r[i]) \in {-1, 0, 1}
          /\ IdentCompare(l[i], r[i]) = -1 <=> IdentBefore(l[i], r[i])
          /\ IdentCompare(l[i], r[i]) = 0 <=> l[i] = r[i]
          /\ IdentCompare(r[i], l[i]) = -IdentCompare(l[i], r[i])
    <3> SUFFICES ASSUME NEW i \in DOMAIN l \cap DOMAIN r
                 PROVE  /\ IdentCompare(l[i], r[i]) \in {-1, 0, 1}
                        /\ IdentCompare(l[i], r[i]) = -1 <=> IdentBefore(l[i], r[i])
                        /\ IdentCompare(l[i], r[i]) = 0 <=> l[i] = r[i]
                        /\ IdentCompare(r[i], l[i]) = -IdentCompare(l[i], r[i])
      OBVIOUS
    <3>1. l[i] \in Ident /\ r[i] \in Ident
      BY <1>0
    <3>2. /\ IdentCompare(l[i], r[i]) \in {-1, 0, 1}
          /\ IdentCompare(l[i], r[i]) = -1 <=> IdentBefore(l[i], r[i])
          /\ IdentCompare(l[i], r[i]) = 1 <=> IdentBefore(r[i], l[i])
          /\ IdentCompare(l[i], r[i]) = 0 <=> l[i] = r[i]
      BY <3>1, IdentCompareIs
    <3>3. /\ IdentCompare(r[i], l[i]) \in {-1, 0, 1}
          /\ IdentCompare(r[i], l[i]) = -1 <=> IdentBefore(r[i], l[i])
          /\ IdentCompare(r[i], l[i]) = 1 <=> IdentBefore(l[i], r[i])
      BY <3>1, IdentCompareIs
    <3> QED BY <3>2, <3>3
  <2>2. PreDiffer(r, l) = PreDiffer(l, r)
    BY <2>1 DEF PreDiffer
  <2>3. f \in PreDiffer(l, r) /\ \A j \in PreDiffer(l, r) : f <= j
    BY <1>3, PreFirstDiffers
  <2>4. g = f
    BY <2>2 DEF PreFirst
  <2>5. ComparePre(l, r) = IdentCompare(l[f], r[f]) /\ ComparePre(r, l) = IdentCompare(r[f], l[f])
    BY <1>3, <2>2, <2>4 DEF ComparePre
  <2> HIDE DEF f, g
  <2>6. f \in DOMAIN l \cap DOMAIN r /\ l[f] # r[f]
    BY <2>1, <2>3 DEF PreDiffer
  <2>7. \A j \in DOMAIN l \cap DOMAIN r : j < f => l[j] = r[j]
    <3> SUFFICES ASSUME NEW j \in DOMAIN l \cap DOMAIN r, j < f, l[j] # r[j] PROVE FALSE
      OBVIOUS
    <3>1. j \in PreDiffer(l, r)
      BY <2>1 DEF PreDiffer
    <3> QED BY <3>1, <2>3, <2>6, <1>0
  <2>8. PreBefore(l, r) <=> IdentBefore(l[f], r[f])
    <3>1. ASSUME IdentBefore(l[f], r[f]) PROVE PreBefore(l, r)
      <4>1. \A j \in 1..(f - 1) : j \in DOMAIN l /\ l[j] = r[j]
        BY <2>6, <2>7, <1>0
      <4>2. BeforeAt(l, r, f)
        BY <3>1, <4>1, <2>6 DEF BeforeAt
      <4> QED BY <1>3, <4>2, <2>6 DEF PreBefore
    <3>2. ASSUME PreBefore(l, r) PROVE IdentBefore(l[f], r[f])
      <4>1. PICK i \in DOMAIN r : BeforeAt(l, r, i)
        BY <1>3, <3>2 DEF PreBefore
      <4>2. \A j \in 1..(i - 1) : j \in DOMAIN l /\ l[j] = r[j]
        BY <4>1 DEF BeforeAt
      <4>3. ~(f < i)
        BY <4>2, <2>6, <1>0
      <4>4. i \in DOMAIN l /\ IdentBefore(l[i], r[i])
        BY <4>1, <4>3, <2>6, <1>0 DEF BeforeAt
      <4>5. l[i] # r[i]
        BY <4>4, <1>0, IdentBeforeTransitive
      <4>6. ~(i < f)
        BY <4>4, <4>5, <2>7
      <4>7. i = f
        BY <4>3, <4>6, <2>6, <1>0
      <4> QED BY <4>4, <4>7
    <3> QED BY <3>1, <3>2
  <2>9. l # r
    BY <2>6
  <2> QED BY <2>1, <2>5, <2>6, <2>8, <2>9
<1> QED BY <1>1, <1>2, <1>3

-----------------------------------------------------------------------------
\* Versions of one scheme have as many numbers, and the same ones if no place
\* tells them apart.
LEMMA NumbersOfScheme ==
  ASSUME NEW v \in Versions, NEW w \in Versions, v.scheme = w.scheme
  PROVE  /\ Numbers(v) \in Seq(Nat) /\ Numbers(w) \in Seq(Nat)
         /\ Len(Numbers(v)) = Len(Numbers(w))
         /\ Differ(Numbers(v), Numbers(w)) = {} <=> Numbers(v) = Numbers(w)
<1>1. /\ v.major \in Nat /\ v.minor \in Nat /\ v.patch \in Nat /\ v.stage \in Nat /\ v.stageNum \in Nat
      /\ w.major \in Nat /\ w.minor \in Nat /\ w.patch \in Nat /\ w.stage \in Nat /\ w.stageNum \in Nat
  BY DEF Versions
<1>2. /\ Numbers(v) \in Seq(Nat) /\ Numbers(w) \in Seq(Nat)
      /\ Len(Numbers(v)) = Len(Numbers(w))
  <2>1. CASE v.scheme = "go"
    BY <1>1, <2>1 DEF Numbers
  <2>2. CASE v.scheme = "python"
    BY <1>1, <2>2 DEF Numbers
  <2>3. CASE v.scheme # "go" /\ v.scheme # "python"
    BY <1>1, <2>3 DEF Numbers
  <2> QED BY <2>1, <2>2, <2>3
<1>3. \A a, b \in Seq(Nat) : Len(a) = Len(b) => (Differ(a, b) = {} <=> a = b)
  <2> SUFFICES ASSUME NEW a \in Seq(Nat), NEW b \in Seq(Nat), Len(a) = Len(b)
               PROVE  Differ(a, b) = {} <=> a = b
    OBVIOUS
  <2>1. ASSUME Differ(a, b) = {} PROVE a = b
    <3>1. DOMAIN a = 1..Len(a) /\ DOMAIN b = 1..Len(a)
      OBVIOUS
    <3>2. \A i \in 1..Len(a) : a[i] = b[i]
      BY <2>1, <3>1 DEF Differ
    <3> QED BY <3>1, <3>2
  <2>2. ASSUME a = b PROVE Differ(a, b) = {}
    BY <2>2 DEF Differ
  <2> QED BY <2>1, <2>2
<1> QED BY <1>2, <1>3

\* Before is asymmetric, and no sequence is before itself.
LEMMA BeforeAsymmetric ==
  ASSUME NEW a \in Seq(Nat), NEW b \in Seq(Nat)
  PROVE  ~Before(a, a) /\ ~(Before(a, b) /\ Before(b, a))
<1>1. Lexicographic(a, b) = -1 <=> Before(a, b)
  BY LexicographicIs
<1>2. Lexicographic(a, b) = 1 <=> Before(b, a)
  BY LexicographicIs
<1>3. ~Before(a, a)
  <2>1. \A i \in Shared(a, a) : a[i] \in Nat
    BY DEF Shared
  <2> QED BY <2>1 DEF Before
<1> QED BY <1>1, <1>2, <1>3

\* Compare says which of two versions of one scheme is before the other.
LEMMA CompareIs ==
  ASSUME NEW v \in Versions, NEW w \in Versions, v.scheme = w.scheme
  PROVE  /\ Compare(v, w) \in {-1, 0, 1}
         /\ Compare(v, w) = -1 <=> VersionBefore(v, w)
         /\ Compare(v, w) = 1 <=> VersionBefore(w, v)
         /\ Compare(v, w) = 0 <=> SameVersion(v, w)
<1> DEFINE a == Numbers(v)
           b == Numbers(w)
           c == Lexicographic(a, b)
<1>1. a \in Seq(Nat) /\ b \in Seq(Nat) /\ (Differ(a, b) = {} <=> a = b)
  BY NumbersOfScheme
<1>2. /\ c \in {-1, 0, 1}
      /\ c = -1 <=> Before(a, b)
      /\ c = 1 <=> Before(b, a)
      /\ c = 0 <=> a = b
  BY <1>1, LexicographicIs
<1>3. ~Before(a, a) /\ ~Before(b, b)
  BY <1>1, BeforeAsymmetric
<1>4. v.pre \in Seq(Ident) /\ w.pre \in Seq(Ident)
  BY DEF Versions
<1>5. /\ ComparePre(v.pre, w.pre) \in {-1, 0, 1}
      /\ ComparePre(v.pre, w.pre) = -1 <=> PreBefore(v.pre, w.pre)
      /\ ComparePre(v.pre, w.pre) = 1 <=> PreBefore(w.pre, v.pre)
      /\ ComparePre(v.pre, w.pre) = 0 <=> v.pre = w.pre
  <2>1. /\ ComparePre(v.pre, w.pre) \in {-1, 0, 1}
        /\ ComparePre(v.pre, w.pre) = -1 <=> PreBefore(v.pre, w.pre)
        /\ ComparePre(v.pre, w.pre) = -ComparePre(w.pre, v.pre)
        /\ ComparePre(v.pre, w.pre) = 0 <=> v.pre = w.pre
    BY <1>4, ComparePreIs
  <2>2. /\ ComparePre(w.pre, v.pre) \in {-1, 0, 1}
        /\ ComparePre(w.pre, v.pre) = -1 <=> PreBefore(w.pre, v.pre)
    BY <1>4, ComparePreIs
  <2> QED BY <2>1, <2>2
<1>6. Compare(v, w) = IF c = 0 /\ v.scheme = "semver" THEN ComparePre(v.pre, w.pre) ELSE c
  BY DEF Compare
<1>7. /\ VersionBefore(v, w) <=> Before(a, b) \/ (a = b /\ PreBefore(Pre(v), Pre(w)))
      /\ VersionBefore(w, v) <=> Before(b, a) \/ (a = b /\ PreBefore(Pre(w), Pre(v)))
      /\ SameVersion(v, w) <=> a = b /\ Pre(v) = Pre(w)
  BY DEF VersionBefore, SameVersion
<1> HIDE DEF a, b, c
<1>8. CASE v.scheme = "semver"
  <2>1. Pre(v) = v.pre /\ Pre(w) = w.pre
    BY <1>8 DEF Pre
  <2> QED BY <1>2, <1>3, <1>5, <1>6, <1>7, <1>8, <2>1
<1>9. CASE v.scheme # "semver"
  <2>1. Pre(v) = <<>> /\ Pre(w) = <<>> /\ ~PreBefore(<<>>, <<>>)
    BY <1>9 DEF Pre, PreBefore
  <2> QED BY <1>2, <1>3, <1>6, <1>7, <1>9, <2>1
<1> QED BY <1>8, <1>9

\* Of any two versions of one scheme Compare finds one above the other or
\* the two the same, and it answers the opposite when they change places
\* (domain.Version.Compare, which the resolutions and the catalog's sorting
\* and pruning rely on).
THEOREM CompareIsTotal ==
  ASSUME NEW v \in Versions, NEW w \in Versions, v.scheme = w.scheme
  PROVE  /\ Above(v, w) \/ Above(w, v) \/ SameVersion(v, w)
         /\ Compare(v, w) = -Compare(w, v)
<1>1. /\ Compare(v, w) \in {-1, 0, 1}
      /\ Compare(v, w) = -1 <=> VersionBefore(v, w)
      /\ Compare(v, w) = 1 <=> VersionBefore(w, v)
      /\ Compare(v, w) = 0 <=> SameVersion(v, w)
  BY CompareIs
<1>2. /\ Compare(w, v) \in {-1, 0, 1}
      /\ Compare(w, v) = -1 <=> VersionBefore(w, v)
      /\ Compare(w, v) = 1 <=> VersionBefore(v, w)
      /\ Compare(w, v) = 0 <=> SameVersion(w, v)
  BY CompareIs
<1>3. SameVersion(v, w) <=> SameVersion(w, v)
  BY DEF SameVersion
<1> QED BY <1>1, <1>2, <1>3 DEF Above

\* What is above what is above a version is above that version: the numbers
\* decide before the identifiers, and the identifiers of a semver prerelease
\* may be of different numbers and kinds (compareSemverPre).
THEOREM AboveIsTransitive ==
  ASSUME NEW u \in Versions, NEW v \in Versions, NEW w \in Versions,
         u.scheme = v.scheme, v.scheme = w.scheme, Above(u, v), Above(v, w)
  PROVE  Above(u, w)
<1>1. VersionBefore(v, u) /\ VersionBefore(w, v)
  BY CompareIs DEF Above
<1>2. /\ Numbers(u) \in Seq(Nat) /\ Numbers(v) \in Seq(Nat) /\ Numbers(w) \in Seq(Nat)
      /\ Len(Numbers(u)) = Len(Numbers(v)) /\ Len(Numbers(v)) = Len(Numbers(w))
  BY NumbersOfScheme
<1>3. Pre(u) \in Seq(Ident) /\ Pre(v) \in Seq(Ident) /\ Pre(w) \in Seq(Ident)
  BY DEF Pre, Versions
<1>4. CASE Before(Numbers(w), Numbers(v)) /\ Before(Numbers(v), Numbers(u))
  <2>1. Before(Numbers(w), Numbers(u))
    BY <1>2, <1>4, BeforeTransitive
  <2> QED BY <2>1, CompareIs DEF Above, VersionBefore
<1>5. CASE Numbers(w) = Numbers(v) /\ Before(Numbers(v), Numbers(u))
  BY <1>5, CompareIs DEF Above, VersionBefore
<1>6. CASE Before(Numbers(w), Numbers(v)) /\ Numbers(v) = Numbers(u)
  BY <1>6, CompareIs DEF Above, VersionBefore
<1>7. CASE /\ Numbers(w) = Numbers(v) /\ Numbers(v) = Numbers(u)
           /\ PreBefore(Pre(w), Pre(v)) /\ PreBefore(Pre(v), Pre(u))
  <2>1. PreBefore(Pre(w), Pre(u))
    BY <1>3, <1>7, PreBeforeTransitive
  <2> QED BY <1>7, <2>1, CompareIs DEF Above, VersionBefore
<1> QED BY <1>1, <1>4, <1>5, <1>6, <1>7 DEF VersionBefore

\* What ParseVersion answers for any text is a version of the scheme it was
\* asked for, so that the two theorems above are about every version there is.
THEOREM ParsedAreVersions ==
  ASSUME NEW kind \in Schemes, NEW text \in VersionTexts, NEW v \in ParseVersion(kind, text)
  PROVE  v \in Versions /\ v.scheme = kind /\ v.text = text
<1>0. text.nums \in Seq(Nat) /\ text.num \in Nat /\ text.pre \in Seq(Ident)
  BY DEF VersionTexts
<1>1. \A i \in {1, 2, 3} : Number(text, i) \in Nat
  BY <1>0 DEF Number
<1>2. Stage(text.tag) \in Nat /\ GoStage(text.tag) \in Nat
  BY DEF Stage, GoStage
<1>3. PICK stage \in Nat : v = Parsed(kind, text, stage)
  BY <1>2 DEF ParseVersion
<1>4. <<>> \in Seq(Ident)
  OBVIOUS
<1>5. (IF text.tag = "-" THEN text.pre ELSE <<>>) \in Seq(Ident)
  BY <1>0, <1>4
<1>6. (IF text.tag \in {"", "-"} THEN 0 ELSE text.num) \in Nat
  BY <1>0
<1> QED BY <1>1, <1>3, <1>5, <1>6 DEF Parsed, Versions

-----------------------------------------------------------------------------
(* The choice of the latest version *)

(* A list of items, of versions of one scheme; what else they say is free. *)
OfScheme(kind, items) ==
  /\ isList(items)
  /\ \A i \in DOMAIN items : items[i].version \in Versions /\ items[i].version.scheme = kind
AtLeast(v, w) == Compare(v, w) >= 0

\* What is above one version is above all that are not above that one, and what is
\* not below it is not below those.
LEMMA AtLeastTransitive ==
  ASSUME NEW u \in Versions, NEW v \in Versions, NEW w \in Versions,
         u.scheme = v.scheme, v.scheme = w.scheme, AtLeast(u, v), AtLeast(v, w)
  PROVE  AtLeast(u, w) /\ (Above(u, v) => Above(u, w))
<1>1. /\ \A x, y \in {u, v, w} : Compare(x, y) \in {-1, 0, 1}
      /\ \A x, y \in {u, v, w} : Compare(x, y) = -1 <=> VersionBefore(x, y)
      /\ \A x, y \in {u, v, w} : Compare(x, y) = 1 <=> VersionBefore(y, x)
      /\ \A x, y \in {u, v, w} : Compare(x, y) = 0 <=> SameVersion(x, y)
  BY CompareIs
<1>2. (Above(u, v) \/ SameVersion(u, v)) /\ (Above(v, w) \/ SameVersion(v, w))
  BY <1>1 DEF AtLeast, Above
<1>3. CASE SameVersion(v, w)
  <2>1. VersionBefore(u, w) <=> VersionBefore(u, v)
    BY <1>3 DEF SameVersion, VersionBefore
  <2>2. VersionBefore(w, u) <=> VersionBefore(v, u)
    BY <1>3 DEF SameVersion, VersionBefore
  <2> QED BY <1>1, <2>1, <2>2 DEF AtLeast, Above
<1>4. CASE Above(v, w) /\ SameVersion(u, v)
  <2>1. VersionBefore(w, u) <=> VersionBefore(w, v)
    BY <1>4 DEF SameVersion, VersionBefore
  <2>2. ~Above(u, v)
    BY <1>1, <1>4 DEF Above
  <2> QED BY <1>1, <1>4, <2>1, <2>2 DEF AtLeast, Above
<1>5. CASE Above(v, w) /\ Above(u, v)
  <2>1. Above(u, w)
    BY <1>5, AboveIsTransitive
  <2> QED BY <2>1 DEF AtLeast, Above
<1> QED BY <1>2, <1>3, <1>4, <1>5

\* In a catalog in order no item is below a later one, however far apart they are.
LEMMA Descending ==
  ASSUME NEW kind \in Schemes, NEW items, OfScheme(kind, items),
         requireCatalogItemOrder(items),
         NEW i \in DOMAIN items, NEW j \in DOMAIN items, i <= j
  PROVE  AtLeast(items[i].version, items[j].version)
<1> DEFINE V(k) == items[k].version
           S == {d \in Nat : \A k \in DOMAIN items : k + d \in DOMAIN items => AtLeast(V(k), V(k + d))}
<1>1. DOMAIN items = 1 .. Len(items) /\ Len(items) \in Nat
  BY DEF OfScheme, isList
<1>2. \A k \in DOMAIN items : V(k) \in Versions /\ V(k).scheme = kind
  BY DEF OfScheme
<1>3. 0 \in S
  <2>1. \A k \in DOMAIN items : AtLeast(V(k), V(k))
    <3>1. \A k \in DOMAIN items : SameVersion(V(k), V(k))
      BY DEF SameVersion
    <3> QED BY <1>2, <3>1, CompareIs DEF AtLeast
  <2>2. \A k \in DOMAIN items : k + 0 = k
    BY <1>1
  <2> QED BY <2>1, <2>2
<1>4. ASSUME NEW d \in Nat, d \in S PROVE d + 1 \in S
  <2> SUFFICES ASSUME NEW k \in DOMAIN items, k + (d + 1) \in DOMAIN items
               PROVE  AtLeast(V(k), V(k + (d + 1)))
    OBVIOUS
  <2>1. k + d \in DOMAIN items /\ k + (d + 1) \in 2 .. Len(items) /\ k + (d + 1) - 1 = k + d
    BY <1>1
  <2>2. AtLeast(V(k), V(k + d))
    BY <1>4, <2>1
  <2>3. Newer(items[k + d], items[k + (d + 1)])
    BY <2>1 DEF requireCatalogItemOrder
  <2>4. AtLeast(V(k + d), V(k + (d + 1)))
    BY <2>3 DEF Newer, Above, AtLeast
  <2> HIDE DEF V
  <2> QED BY <1>2, <2>1, <2>2, <2>4, AtLeastTransitive
<1>5. \A d \in Nat : d \in S
  <2> HIDE DEF S
  <2> QED BY <1>3, <1>4, Induction
<1>6. j - i \in Nat /\ i + (j - i) = j
  BY <1>1
<1>7. j - i \in S
  BY <1>5, <1>6
<1> QED BY <1>6, <1>7

\* The least of some indexes is one of them, and before all others.
LEMMA LeastIs ==
  ASSUME NEW indexes \in SUBSET Nat, indexes # {}
  PROVE  Least(indexes) \in indexes /\ \A j \in indexes : Least(indexes) <= j
BY LeastOf DEF Least

\* In every catalog that passes the check of its order, for any number of items and
\* any versions of one scheme, ResolveLatest finds the one candidate that no other
\* equals or exceeds, and refuses exactly when there is none, although it looks at
\* the first two candidates only.
THEOREM LatestIsTheGreatest ==
  ASSUME NEW kind \in Schemes, NEW items, OfScheme(kind, items),
         \A i \in DOMAIN items : items[i].lifecycle \in Lifecycles,
         requireCatalogItemOrder(items)
  PROVE  /\ \A i \in DOMAIN items : Greatest(items) = {i} => Latest(items) = {items[i]}
         /\ Latest(items) # {} => \E i \in DOMAIN items : Greatest(items) = {i}
<1> DEFINE V(k) == items[k].version
           C == Candidates(items)
           best == Least(C)
           second == Least(C \ {best})
<1>1. DOMAIN items = 1 .. Len(items) /\ Len(items) \in Nat
  BY DEF OfScheme, isList
<1>2. \A k \in DOMAIN items : V(k) \in Versions /\ V(k).scheme = kind
  BY DEF OfScheme
<1>3. C = Offered(items)
  BY DEF Candidates, isLatestCandidate, Offered, Lifecycles
<1>4. C \subseteq DOMAIN items /\ C \subseteq Nat
  BY <1>1 DEF Candidates
<1>5. Greatest(items) = {k \in C : \A j \in C : AtLeast(V(k), V(j))}
  BY <1>3 DEF Greatest, AtLeast
<1>6. \A k, j \in DOMAIN items : k <= j => AtLeast(V(k), V(j))
  BY Descending
<1>7. \A k, j \in DOMAIN items : /\ Compare(V(k), V(j)) \in {-1, 0, 1}
                                 /\ Compare(V(k), V(j)) = - Compare(V(j), V(k))
  BY <1>2, CompareIs, CompareIsTotal
<1>8. CASE C = {}
  BY <1>5, <1>8 DEF Latest
<1>9. CASE C # {}
  <2>1. best \in C /\ (\A j \in C : best <= j) /\ best \in DOMAIN items
    BY <1>4, <1>9, LeastIs
  <2>2. best \in Greatest(items)
    BY <1>4, <1>5, <1>6, <2>1
  <2>3. CASE C = {best}
    <3>1. Greatest(items) = {best}
      BY <1>5, <2>2, <2>3
    <3>2. Latest(items) = {items[best]}
      BY <2>3, <1>9 DEF Latest
    <3> QED BY <2>1, <3>1, <3>2
  <2>4. CASE C # {best}
    <3>1. C \ {best} # {} /\ C \ {best} \subseteq Nat
      BY <1>4, <2>1, <2>4
    <3>2. second \in C \ {best} /\ \A j \in C \ {best} : second <= j
      BY <3>1, LeastIs
    <3>3. second \in DOMAIN items /\ \A j \in C \ {best} : AtLeast(V(second), V(j))
      BY <1>4, <1>6, <3>2
    <3>4. CASE Compare(V(best), V(second)) = 0
      <4>1. AtLeast(V(second), V(best))
        BY <1>7, <2>1, <3>3, <3>4 DEF AtLeast
      <4>2. second \in Greatest(items)
        BY <1>5, <3>2, <3>3, <4>1
      <4>3. Latest(items) = {}
        BY <2>4, <3>4 DEF Latest
      <4> QED BY <2>2, <3>2, <4>2, <4>3
    <3>5. CASE Compare(V(best), V(second)) # 0
      <4>1. Above(V(best), V(second)) /\ AtLeast(V(best), V(second))
        BY <1>5, <1>7, <2>1, <2>2, <3>2, <3>3, <3>5 DEF AtLeast, Above
      <4>2. ASSUME NEW j \in C \ {best} PROVE j \notin Greatest(items)
        <5>1. j \in DOMAIN items /\ AtLeast(V(second), V(j))
          BY <1>4, <3>3
        <5>2. Above(V(best), V(j))
          <6> HIDE DEF V, best, second
          <6> QED BY <1>2, <2>1, <3>3, <4>1, <5>1, AtLeastTransitive
        <5>3. ~AtLeast(V(j), V(best))
          BY <1>7, <2>1, <5>1, <5>2 DEF Above, AtLeast
        <5> QED BY <1>5, <2>1, <5>3
      <4>3. Greatest(items) = {best}
        BY <1>5, <2>2, <4>2
      <4>4. Latest(items) = {items[best]}
        BY <1>9, <2>4, <3>5 DEF Latest
      <4> QED BY <2>1, <4>3, <4>4
    <3> QED BY <3>4, <3>5
  <2> QED BY <2>3, <2>4
<1> QED BY <1>8, <1>9

-----------------------------------------------------------------------------
(* Recursion, and the license expressions *)

\* The values of f below n; what it has from n on is no longer told.
Below(f, n, x) == [m \in Nat |-> IF m < n THEN f[m] ELSE x]

Rules(X) == [Nat \X [Nat -> X] -> X]
MadeBy(R, x, f) == \A n \in Nat : f[n] = R[<<n, Below(f, n, x)>>]

\* A rule that makes the value at each number from the values below it makes a function.
LEMMA Recursion ==
  ASSUME NEW X, NEW x \in X, NEW R \in Rules(X)
  PROVE  \E f \in [Nat -> X] : MadeBy(R, x, f)
<1> DEFINE F == [Nat -> X]
           Value(g, n) == R[<<n, Below(g, n, x)>>]
           Follows(g, n) == \A k \in Nat : k < n => g[k] = Value(g, k)
           S == {n \in Nat : \E g \in F : Follows(g, n)}
           Agree == {n \in Nat : \A g, h \in F : Follows(g, n) /\ Follows(h, n) => \A k \in Nat : k < n => g[k] = h[k]}
<1>1. \A g \in F, n \in Nat : Value(g, n) \in X
  <2>1. \A g \in F, n \in Nat : Below(g, n, x) \in F
    BY DEF Below
  <2> QED BY <2>1 DEF Rules
<1>2. ASSUME NEW g \in F, NEW h \in F, NEW n \in Nat, \A k \in Nat : k < n => g[k] = h[k]
      PROVE  Value(g, n) = Value(h, n)
  <2>1. Below(g, n, x) = Below(h, n, x)
    BY <1>2 DEF Below
  <2> QED BY <2>1
<1> HIDE DEF F, Value
<1>3. \A n \in Nat : n \in S
  <2>1. 0 \in S
    <3>1. [m \in Nat |-> x] \in F
      BY DEF F
    <3> QED BY <3>1
  <2>2. ASSUME NEW n \in Nat, n \in S PROVE n + 1 \in S
    <3>1. PICK g \in F : Follows(g, n)
      BY <2>2
    <3>2. PICK h \in F : h[n] = Value(g, n) /\ \A k \in Nat : k < n => h[k] = g[k]
      <4>1. Value(g, n) \in X
        BY <1>1, <3>1
      <4> DEFINE h == [m \in Nat |-> IF m = n THEN Value(g, n) ELSE g[m]]
      <4>2. h \in F
        BY <3>1, <4>1 DEF F
      <4>3. h[n] = Value(g, n) /\ \A k \in Nat : k < n => h[k] = g[k]
        OBVIOUS
      <4> HIDE DEF h
      <4> QED BY <4>2, <4>3
    <3>3. ASSUME NEW k \in Nat, k < n + 1 PROVE h[k] = Value(h, k)
      <4>1. k < n \/ k = n
        BY <3>3
      <4>2. \A m \in Nat : m < k => h[m] = g[m]
        BY <3>2, <4>1
      <4>3. Value(h, k) = Value(g, k)
        BY <1>2, <4>2
      <4> QED BY <3>1, <3>2, <4>1, <4>3
    <3>4. Follows(h, n + 1) /\ n + 1 \in Nat
      BY <3>3
    <3> QED BY <3>4
  <2> HIDE DEF S
  <2> QED BY <2>1, <2>2, Induction
<1>4. \A n \in Nat : n \in Agree
  <2>1. 0 \in Agree
    OBVIOUS
  <2>2. ASSUME NEW n \in Nat, n \in Agree PROVE n + 1 \in Agree
    <3>1. ASSUME NEW g \in F, NEW h \in F, Follows(g, n + 1), Follows(h, n + 1), NEW k \in Nat, k < n + 1
          PROVE  g[k] = h[k]
      <4>1. \A m \in Nat : m < n => m < n + 1
        OBVIOUS
      <4>2. Follows(g, n) /\ Follows(h, n)
        BY <3>1, <4>1
      <4>3. \A m \in Nat : m < n => g[m] = h[m]
        BY <2>2, <4>2
      <4>4. k < n \/ k = n
        BY <3>1
      <4>5. Value(g, n) = Value(h, n)
        BY <1>2, <4>3
      <4>6. n < n + 1
        OBVIOUS
      <4>7. g[n] = h[n]
        BY <3>1, <4>5, <4>6
      <4> QED BY <4>3, <4>4, <4>7
    <3>2. n + 1 \in Nat
      OBVIOUS
    <3> QED BY <3>1, <3>2
  <2> HIDE DEF Agree
  <2> QED BY <2>1, <2>2, Induction
<1> DEFINE Of(n) == CHOOSE g : g \in F /\ Follows(g, n)
           f == [n \in Nat |-> Of(n + 1)[n]]
<1>5. ASSUME NEW n \in Nat PROVE Of(n + 1) \in F /\ Follows(Of(n + 1), n + 1)
  <2>1. n + 1 \in S
    <3> HIDE DEF S
    <3> QED BY <1>3
  <2> HIDE DEF Follows
  <2> QED BY <2>1
<1>6. \A n \in Nat : f[n] = Of(n + 1)[n]
  OBVIOUS
<1>7. f \in F
  <2>1. \A n \in Nat : Of(n + 1)[n] \in X
    <3> HIDE DEF Of
    <3> QED BY <1>5 DEF F
  <2> QED BY <2>1 DEF F
<1> HIDE DEF Of, f
<1>8. ASSUME NEW n \in Nat PROVE f[n] = Value(f, n)
  <2>1. PICK g \in F : g = Of(n + 1) /\ Follows(g, n + 1)
    BY <1>5
  <2>2. ASSUME NEW k \in Nat, k < n PROVE f[k] = g[k]
    <3>1. PICK h \in F : h = Of(k + 1) /\ Follows(h, k + 1)
      BY <1>5
    <3>2. \A m \in Nat : m < k + 1 => m < n + 1
      BY <2>2
    <3>3. Follows(g, k + 1)
      BY <2>1, <3>2
    <3>4. k + 1 \in Agree /\ k < k + 1
      <4> HIDE DEF Agree
      <4> QED BY <1>4
    <3>5. h[k] = g[k]
      BY <3>1, <3>3, <3>4
    <3> QED BY <1>6, <3>1, <3>5
  <2>3. Value(f, n) = Value(g, n)
    BY <1>2, <1>7, <2>2
  <2>4. n < n + 1
    OBVIOUS
  <2>5. g[n] = Value(g, n)
    BY <2>1, <2>4
  <2> QED BY <1>6, <2>1, <2>3, <2>5
<1> QED BY <1>7, <1>8 DEF F, Value, MadeBy

\* Only inside a text there are tokens, and none of them is "end".
LEMMA AtIs ==
  ASSUME NEW t \in Seq(Grammar!Tokens), NEW i \in Int
  PROVE  /\ i \in 1 .. Len(t) <=> Grammar!At(t, i) # "end"
         /\ i \in 1 .. Len(t) <=> Grammar!At(t, i) \in Grammar!Tokens
<1>1. i \in 1 .. Len(t) => t[i] \in Grammar!Tokens
  OBVIOUS
<1>2. "end" \notin Grammar!Tokens
  BY DEF Grammar!Tokens, Grammar!Signs
<1> QED BY <1>1, <1>2 DEF Grammar!At

\* Where an expression may end that begins when m tokens are left: later, or nowhere.
Later(t, end, m) == end = 0 \/ (end \in 1 .. Len(t) + 1 /\ Len(t) + 1 - m < end)

\* The parser never goes back, so that it reads only what it has made of later places.
LEMMA ParserGoesOn ==
  ASSUME NEW t \in Seq(Grammar!Tokens), NEW left \in Nat, NEW g, NEW h,
         \A m \in Nat : m < left => Later(t, g[m], m) /\ h[m] = g[m]
  PROVE  /\ Later(t, Grammar!ExpressionFrom(t, g, left), left)
         /\ Grammar!ExpressionFrom(t, h, left) = Grammar!ExpressionFrom(t, g, left)
<1> DEFINE n == Len(t)
           i == n + 1 - left
           inside(f) == IF left = 0 THEN 0 ELSE f[left - 1]
           end(f) == Grammar!Compound(t, i, inside(f))
<1>1. n \in Nat /\ i \in Int
  OBVIOUS
<1>2. left # 0 => left - 1 \in Nat /\ left - 1 < left
  OBVIOUS
<1>3. inside(g) = inside(h)
  BY <1>2
<1>4. end(g) = end(h)
  BY <1>3
<1>5. inside(g) = 0 \/ inside(g) \in i + 2 .. n + 1
  <2>1. left # 0 => Later(t, g[left - 1], left - 1)
    BY <1>2
  <2> QED BY <1>1, <2>1 DEF Later
<1>6. end(g) = 0 \/ (end(g) \in 1 .. n + 1 /\ i < end(g))
  <2>1. CASE Grammar!At(t, i) = "("
    <3>1. Grammar!At(t, inside(g)) = ")" => inside(g) \in 1 .. n
      <4>1. inside(g) \in Int
        BY <1>1, <1>5
      <4> HIDE DEF inside
      <4> QED BY <4>1, AtIs
    <3> HIDE DEF inside, i, n
    <3>2. end(g) = IF inside(g) # 0 /\ Grammar!At(t, inside(g)) = ")" THEN inside(g) + 1 ELSE 0
      BY <2>1 DEF Grammar!Compound
    <3> QED BY <1>1, <1>5, <3>1, <3>2
  <2>2. CASE Grammar!At(t, i) # "(" /\ Grammar!At(t, i) \in Grammar!SimpleTokens
    <3>1. i \in 1 .. n
      BY <1>1, <2>2, AtIs DEF Grammar!SimpleTokens
    <3>2. Grammar!At(t, i + 2) \in Grammar!IDStrings => i + 2 \in 1 .. n
      BY <1>1, AtIs DEF Grammar!IDStrings
    <3>3. end(g) = Grammar!With(t, i + 1)
      BY <1>1, <2>2, <3>1 DEF Grammar!Compound, Grammar!Simple
    <3>4. end(g) \in {0, i + 1} \/ (end(g) = i + 3 /\ Grammar!At(t, i + 2) \in Grammar!IDStrings)
      <4>1. i + 1 + 1 = i + 2 /\ i + 1 + 2 = i + 3
        BY <1>1
      <4> HIDE DEF end, i
      <4> QED BY <3>3, <4>1 DEF Grammar!With
    <3> HIDE DEF end, i, n
    <3> QED BY <1>1, <3>1, <3>2, <3>4
  <2>3. CASE Grammar!At(t, i) # "(" /\ Grammar!At(t, i) \notin Grammar!SimpleTokens
    BY <2>3 DEF Grammar!Compound, Grammar!Simple
  <2> QED BY <2>1, <2>2, <2>3
<1>7. CASE end(g) # 0 /\ Grammar!At(t, end(g)) \in {"AND", "OR"}
  <2> DEFINE e == end(g)
             m == n - e
  <2>1. e \in 1 .. n + 1 /\ i < e /\ e \in Int
    <3> HIDE DEF i, n
    <3>1. end(g) \in 1 .. n + 1 /\ i < end(g)
      BY <1>6, <1>7
    <3> HIDE DEF end
    <3> QED BY <1>1, <3>1
  <2> HIDE DEF end
  <2>2. e \in 1 .. n
    <3>1. Grammar!At(t, e) # "end"
      BY <1>7
    <3> HIDE DEF e
    <3> QED BY <2>1, <3>1, AtIs
  <2> HIDE DEF e
  <2>3. m \in Nat /\ m < left
    BY <1>1, <2>1, <2>2
  <2>4. Later(t, g[m], m) /\ h[m] = g[m]
    BY <2>3
  <2>5. Later(t, g[m], left)
    BY <1>1, <2>3, <2>4 DEF Later
  <2>6. Grammar!ExpressionFrom(t, g, left) = g[m] /\ Grammar!ExpressionFrom(t, h, left) = h[m]
    BY <1>4, <1>7 DEF Grammar!ExpressionFrom, e, end
  <2> QED BY <2>4, <2>5, <2>6
<1>8. CASE ~(end(g) # 0 /\ Grammar!At(t, end(g)) \in {"AND", "OR"})
  <2>1. Grammar!ExpressionFrom(t, g, left) = end(g) /\ Grammar!ExpressionFrom(t, h, left) = end(g)
    <3>1. Grammar!ExpressionFrom(t, g, left) = end(g)
      BY <1>8 DEF Grammar!ExpressionFrom
    <3>2. Grammar!ExpressionFrom(t, h, left) = end(h)
      BY <1>4, <1>8 DEF Grammar!ExpressionFrom
    <3> QED BY <1>4, <3>1, <3>2
  <2>2. Later(t, end(g), left)
    <3> HIDE DEF end
    <3> QED BY <1>6 DEF Later
  <2> QED BY <2>1, <2>2
<1> QED BY <1>7, <1>8

\* There is such a parser, it ends for every text, and it never goes back.
LEMMA ParserIs ==
  ASSUME NEW t \in Seq(Grammar!Tokens), NEW left \in Nat
  PROVE  /\ Grammar!Ends(t)[left] = Grammar!ExpressionFrom(t, Grammar!Ends(t), left)
         /\ Later(t, Grammar!Ends(t)[left], left)
<1> DEFINE Total(g, n) == IF Grammar!ExpressionFrom(t, g, n) \in Nat THEN Grammar!ExpressionFrom(t, g, n) ELSE 0
           R == [p \in Nat \X [Nat -> Nat] |-> Total(p[2], p[1])]
<1>1. R \in [Nat \X [Nat -> Nat] -> Nat]
  OBVIOUS
<1>2. PICK f \in [Nat -> Nat] : \A n \in Nat : f[n] = R[<<n, Below(f, n, 0)>>]
  <2>1. 0 \in Nat
    OBVIOUS
  <2> HIDE DEF R
  <2>2. \E f \in [Nat -> Nat] : MadeBy(R, 0, f)
    BY <1>1, <2>1, Recursion DEF Rules
  <2> QED BY <2>2 DEF MadeBy
<1>3. \A n \in Nat : f[n] = Total(Below(f, n, 0), n)
  <2>1. \A n \in Nat : Below(f, n, 0) \in [Nat -> Nat]
    BY DEF Below
  <2> HIDE DEF Total
  <2> QED BY <1>2, <2>1
<1>4. \A n \in Nat, m \in Nat : m < n => Below(f, n, 0)[m] = f[m]
  BY DEF Below
<1> DEFINE S == {n \in Nat : \A m \in Nat : m < n => Later(t, f[m], m)}
<1>5. ASSUME NEW n \in Nat, n \in S
      PROVE  Later(t, f[n], n) /\ f[n] = Grammar!ExpressionFrom(t, f, n)
  <2>1. /\ Later(t, Grammar!ExpressionFrom(t, f, n), n)
        /\ Grammar!ExpressionFrom(t, Below(f, n, 0), n) = Grammar!ExpressionFrom(t, f, n)
    BY <1>4, <1>5, ParserGoesOn
  <2>2. Grammar!ExpressionFrom(t, f, n) \in Nat
    <3>1. \A v : Later(t, v, n) => v \in Nat
      BY DEF Later
    <3> QED BY <2>1, <3>1
  <2> QED BY <1>3, <2>1, <2>2
<1>6. \A n \in Nat : n \in S
  <2>1. 0 \in S
    OBVIOUS
  <2>2. ASSUME NEW n \in Nat, n \in S PROVE n + 1 \in S
    <3>1. \A m \in Nat : m < n + 1 => m < n \/ m = n
      OBVIOUS
    <3> QED BY <1>5, <2>2, <3>1
  <2> HIDE DEF S
  <2> QED BY <2>1, <2>2, Induction
<1>7. f = [n \in Nat |-> Grammar!ExpressionFrom(t, f, n)]
  BY <1>5, <1>6
<1> DEFINE e == Grammar!Ends(t)
<1>8. e = [n \in Nat |-> Grammar!ExpressionFrom(t, e, n)]
  <2>1. \E g : g = [n \in Nat |-> Grammar!ExpressionFrom(t, g, n)]
    BY <1>7
  <2> QED BY <2>1 DEF Grammar!Ends
<1> HIDE DEF e
<1>9. \A n \in Nat : e[n] = Grammar!ExpressionFrom(t, e, n)
  BY <1>8
<1> DEFINE Q == {n \in Nat : \A m \in Nat : m < n => Later(t, e[m], m)}
<1>10. ASSUME NEW n \in Nat, n \in Q PROVE Later(t, e[n], n)
  <2>1. Later(t, Grammar!ExpressionFrom(t, e, n), n)
    BY <1>10, ParserGoesOn
  <2> QED BY <1>9, <2>1
<1>11. \A n \in Nat : n \in Q
  <2>1. 0 \in Q
    OBVIOUS
  <2>2. ASSUME NEW n \in Nat, n \in Q PROVE n + 1 \in Q
    <3>1. \A m \in Nat : m < n + 1 => m < n \/ m = n
      OBVIOUS
    <3> QED BY <1>10, <2>2, <3>1
  <2> HIDE DEF Q
  <2> QED BY <2>1, <2>2, Induction
<1> QED BY <1>9, <1>10, <1>11 DEF e

\* What the grammar derives of some length depends on the shorter expressions only.
LEMMA StartsOfBelow ==
  ASSUME NEW t \in Seq(Grammar!Tokens), NEW n \in Nat, NEW g, NEW h, \A m \in Nat : m < n => g[m] = h[m]
  PROVE  Grammar!StartsOf(t, g, n) = Grammar!StartsOf(t, h, n)
<1>1. \A i, k \in Int : k <= n => (Grammar!CompoundAt(t, g, i, k) <=> Grammar!CompoundAt(t, h, i, k))
  <2> SUFFICES ASSUME NEW i \in Int, NEW k \in Int, k <= n PROVE Grammar!CompoundAt(t, g, i, k) <=> Grammar!CompoundAt(t, h, i, k)
    OBVIOUS
  <2>1. k >= 3 => k - 2 \in Nat /\ k - 2 < n
    OBVIOUS
  <2>2. k >= 3 => g[k - 2] = h[k - 2]
    BY <2>1
  <2> QED BY <2>2 DEF Grammar!CompoundAt
<1>2. \A k \in 1 .. n - 2 : k \in Int /\ k <= n /\ g[n - k - 1] = h[n - k - 1]
  <2> SUFFICES ASSUME NEW k \in 1 .. n - 2 PROVE k \in Int /\ k <= n /\ g[n - k - 1] = h[n - k - 1]
    OBVIOUS
  <2>1. n - k - 1 \in Nat /\ n - k - 1 < n
    OBVIOUS
  <2> QED BY <2>1
<1>3. \A i \in 1 .. Len(t) + 1 - n : i \in Int
  OBVIOUS
<1>4. n \in Int /\ n <= n
  OBVIOUS
<1> QED BY <1>1, <1>2, <1>3, <1>4 DEF Grammar!StartsOf

\* The grammar has an answer for every text and length.
LEMMA StartsIs ==
  ASSUME NEW t \in Seq(Grammar!Tokens), NEW n \in Nat
  PROVE  Grammar!Starts(t)[n] = Grammar!StartsOf(t, Grammar!Starts(t), n)
<1> DEFINE X == SUBSET Nat
           R == [p \in Nat \X [Nat -> X] |-> Grammar!StartsOf(t, p[2], p[1])]
<1>1. \A g, m : m \in Nat => Grammar!StartsOf(t, g, m) \in X
  BY DEF Grammar!StartsOf
<1>2. R \in Rules(X)
  BY <1>1 DEF Rules
<1>3. PICK f \in [Nat -> X] : MadeBy(R, {}, f)
  <2>1. {} \in X
    OBVIOUS
  <2> HIDE DEF R, X
  <2> QED BY <1>2, <2>1, Recursion
<1>4. \A m \in Nat : f[m] = Grammar!StartsOf(t, Below(f, m, {}), m)
  <2>1. \A m \in Nat : Below(f, m, {}) \in [Nat -> X]
    BY DEF Below
  <2> HIDE DEF X
  <2> QED BY <1>3, <2>1 DEF MadeBy
<1>5. \A m \in Nat : f[m] = Grammar!StartsOf(t, f, m)
  <2> SUFFICES ASSUME NEW m \in Nat PROVE f[m] = Grammar!StartsOf(t, f, m)
    OBVIOUS
  <2>1. \A k \in Nat : k < m => Below(f, m, {})[k] = f[k]
    BY DEF Below
  <2>2. Grammar!StartsOf(t, Below(f, m, {}), m) = Grammar!StartsOf(t, f, m)
    BY <2>1, StartsOfBelow
  <2> QED BY <1>4, <2>2
<1>6. f = [m \in Nat |-> Grammar!StartsOf(t, f, m)]
  <2> HIDE DEF X
  <2> QED BY <1>5
<1>7. \E g : g = [m \in Nat |-> Grammar!StartsOf(t, g, m)]
  BY <1>6
<1> DEFINE e == Grammar!Starts(t)
<1>8. e = [m \in Nat |-> Grammar!StartsOf(t, e, m)]
  BY <1>7 DEF Grammar!Starts
<1> HIDE DEF e
<1>9. e[n] = Grammar!StartsOf(t, e, n)
  BY <1>8
<1> QED BY <1>9 DEF e

\* Where the parser goes on after a compound, the grammar derives one up to there.
LEMMA CompoundParsed ==
  ASSUME NEW t \in Seq(Grammar!Tokens), NEW i \in Int, NEW inside \in Nat, NEW c,
         c = Grammar!Compound(t, i, inside), c # 0,
         inside # 0 => i + 1 < inside /\ i + 1 \in Grammar!Starts(t)[inside - (i + 1)]
  PROVE  /\ i \in 1 .. Len(t) /\ c \in Nat /\ i < c
         /\ Grammar!CompoundAt(t, Grammar!Starts(t), i, c - i)
<1>1. CASE Grammar!At(t, i) = "("
  <2>1. inside # 0 /\ Grammar!At(t, inside) = ")" /\ c = inside + 1
    BY <1>1 DEF Grammar!Compound
  <2>2. i \in 1 .. Len(t)
    BY <1>1, AtIs
  <2>3. c - i >= 3 /\ c - i - 2 = inside - (i + 1) /\ i + (c - i) - 1 = inside
    BY <2>1, <2>2
  <2> QED BY <1>1, <2>1, <2>2, <2>3 DEF Grammar!CompoundAt
<1>2. CASE Grammar!At(t, i) # "("
  <2>1. Grammar!At(t, i) \in Grammar!SimpleTokens /\ c = Grammar!With(t, i + 1)
    BY <1>2 DEF Grammar!Compound, Grammar!Simple
  <2>2. i \in 1 .. Len(t)
    BY <2>1, AtIs DEF Grammar!SimpleTokens
  <2>3. CASE c = i + 1
    <3>1. c - i = 1
      BY <2>3
    <3> QED BY <2>1, <2>2, <2>3, <3>1 DEF Grammar!CompoundAt
  <2>4. CASE c # i + 1
    <3>1. i + 1 + 1 = i + 2 /\ i + 1 + 2 = i + 3
      OBVIOUS
    <3>2. Grammar!At(t, i + 1) = "WITH" /\ Grammar!At(t, i + 2) \in Grammar!IDStrings /\ c = i + 3
      BY <2>1, <2>4, <3>1 DEF Grammar!With
    <3>3. c - i = 3
      BY <3>2
    <3> QED BY <2>1, <2>2, <3>2, <3>3 DEF Grammar!CompoundAt
  <2> QED BY <2>3, <2>4
<1> QED BY <1>1, <1>2

\* What the parser takes for an expression is one.
LEMMA ParsedIsDerived ==
  ASSUME NEW t \in Seq(Grammar!Tokens), NEW left \in Nat, Grammar!Ends(t)[left] # 0
  PROVE  Len(t) + 1 - left \in Grammar!Starts(t)[Grammar!Ends(t)[left] - (Len(t) + 1 - left)]
<1> DEFINE len == Len(t)
           E(m) == Grammar!Ends(t)[m]
           Is(m) == E(m) # 0 => len + 1 - m \in Grammar!Starts(t)[E(m) - (len + 1 - m)]
           S == {n \in Nat : \A m \in Nat : m < n => Is(m)}
<1>0. len \in Nat
  OBVIOUS
<1>1. ASSUME NEW n \in Nat, n \in S PROVE Is(n)
  <2> SUFFICES ASSUME E(n) # 0 PROVE len + 1 - n \in Grammar!Starts(t)[E(n) - (len + 1 - n)]
    OBVIOUS
  <2> DEFINE i == len + 1 - n
             inside == IF n = 0 THEN 0 ELSE E(n - 1)
             c == Grammar!Compound(t, i, inside)
  <2>0. \A m \in Nat : Later(t, E(m), m) /\ E(m) = Grammar!ExpressionFrom(t, Grammar!Ends(t), m)
    BY ParserIs
  <2>1. inside \in Nat /\ (inside # 0 => i + 1 < inside /\ i + 1 \in Grammar!Starts(t)[inside - (i + 1)])
    <3>1. CASE n = 0
      BY <3>1
    <3>2. CASE n # 0
      <4>1. n - 1 \in Nat /\ n - 1 < n /\ len + 1 - (n - 1) = i + 1
        BY <1>0, <3>2
      <4>2. Is(n - 1) /\ Later(t, E(n - 1), n - 1)
        BY <1>1, <2>0, <4>1
      <4> QED BY <1>0, <3>2, <4>1, <4>2 DEF Later
    <3> QED BY <3>1, <3>2
  <2>2. E(n) = IF c # 0 /\ Grammar!At(t, c) \in {"AND", "OR"} THEN E(len - c) ELSE c
    BY <2>0 DEF Grammar!ExpressionFrom
  <2> HIDE DEF inside, c, E
  <2>3. c # 0
    BY <2>2
  <2>4. /\ i \in 1 .. len /\ c \in Nat /\ i < c
        /\ Grammar!CompoundAt(t, Grammar!Starts(t), i, c - i)
    <3>1. i \in Int
      BY <1>0
    <3>2. c = Grammar!Compound(t, i, inside)
      BY DEF c
    <3> HIDE DEF i
    <3> QED BY <2>1, <2>3, <3>1, <3>2, CompoundParsed
  <2>5. E(n) \in 1 .. len + 1
    BY <2>0 DEF Later
  <2>6. CASE Grammar!At(t, c) \in {"AND", "OR"}
    <3> DEFINE m == len - c
               e == E(m)
               size == e - i
               k == c - i
    <3>1. c \in 1 .. len
      BY <2>4, <2>6, AtIs
    <3>2. m \in Nat /\ m < n /\ len + 1 - m = c + 1
      BY <1>0, <2>4, <3>1
    <3>3. e # 0 /\ E(n) = e
      BY <2>2, <2>3, <2>6
    <3>4. c + 1 \in Grammar!Starts(t)[e - (c + 1)]
      BY <1>1, <3>2, <3>3
    <3>5. e \in 1 .. len + 1 /\ c + 1 < e
      BY <2>0, <3>2, <3>3 DEF Later
    <3> HIDE DEF i, e
    <3>6. /\ size \in Nat /\ k \in 1 .. size - 2 /\ i \in 1 .. len + 1 - size
          /\ i + k = c /\ i + k + 1 = c + 1 /\ size - k - 1 = e - (c + 1)
      BY <1>0, <2>4, <3>1, <3>5
    <3> HIDE DEF size, k
    <3>7. /\ Grammar!CompoundAt(t, Grammar!Starts(t), i, k) /\ Grammar!At(t, i + k) \in {"AND", "OR"}
          /\ i + k + 1 \in Grammar!Starts(t)[size - k - 1]
      BY <2>4, <2>6, <3>4, <3>6 DEF k
    <3>8. i \in Grammar!StartsOf(t, Grammar!Starts(t), size)
      BY <3>6, <3>7 DEF Grammar!StartsOf
    <3>9. i \in Grammar!Starts(t)[size]
      BY <3>6, <3>8, StartsIs
    <3> QED BY <3>3, <3>9 DEF size, i
  <2>7. CASE Grammar!At(t, c) \notin {"AND", "OR"}
    <3>1. E(n) = c
      BY <2>2, <2>7
    <3> DEFINE size == c - i
    <3>2. size \in Nat /\ i \in 1 .. len + 1 - size
      BY <1>0, <2>4, <2>5, <3>1
    <3>3. i \in Grammar!StartsOf(t, Grammar!Starts(t), size)
      BY <2>4, <3>2 DEF Grammar!StartsOf
    <3>4. i \in Grammar!Starts(t)[size]
      BY <3>2, <3>3, StartsIs
    <3> QED BY <3>1, <3>4
  <2> QED BY <2>6, <2>7
<1>2. \A n \in Nat : n \in S
  <2>1. 0 \in S
    OBVIOUS
  <2>2. ASSUME NEW n \in Nat, n \in S PROVE n + 1 \in S
    <3>1. \A m \in Nat : m < n + 1 => m < n \/ m = n
      OBVIOUS
    <3> HIDE DEF Is
    <3> QED BY <1>1, <2>2, <3>1
  <2> HIDE DEF S
  <2> QED BY <2>1, <2>2, Induction
<1> QED BY <1>1, <1>2

\* What may follow an expression: nothing, or the parenthesis that closes it
EndsAt(t, i) == Grammar!At(t, i) \in {"end", ")"}
\* The parser takes each expression of n tokens that ends so for one.
AllParsed(t, n) ==
  \A i \in Nat : i \in Grammar!Starts(t)[n] /\ EndsAt(t, i + n) => Grammar!Ends(t)[Len(t) + 1 - i] = i + n

\* The parser takes for a compound what the grammar derives as one, unless a "WITH"
\* follows it, if it does so for the expression in parentheses.
LEMMA CompoundTaken ==
  ASSUME NEW t \in Seq(Grammar!Tokens), NEW i \in 1 .. Len(t), NEW k \in Nat, NEW inside \in Nat,
         Grammar!CompoundAt(t, Grammar!Starts(t), i, k), Grammar!At(t, i + k) # "WITH",
         inside = Grammar!Ends(t)[Len(t) - i], k >= 3 => AllParsed(t, k - 2)
  PROVE  Grammar!Compound(t, i, inside) = i + k
<1>1. CASE k = 1 /\ Grammar!At(t, i) \in Grammar!SimpleTokens
  <2>1. Grammar!At(t, i) # "(" /\ Grammar!Simple(t, i) # 0
    BY <1>1 DEF Grammar!Simple, Grammar!SimpleTokens
  <2>2. Grammar!With(t, i + 1) = i + 1
    BY <1>1 DEF Grammar!With
  <2> QED BY <1>1, <2>1, <2>2 DEF Grammar!Compound
<1>2. CASE k = 3 /\ Grammar!At(t, i) \in Grammar!SimpleTokens /\ Grammar!At(t, i + 1) = "WITH" /\ Grammar!At(t, i + 2) \in Grammar!IDStrings
  <2>1. Grammar!At(t, i) # "(" /\ Grammar!Simple(t, i) # 0
    BY <1>2 DEF Grammar!Simple, Grammar!SimpleTokens
  <2>2. i + 1 + 1 = i + 2 /\ i + 1 + 2 = i + 3
    OBVIOUS
  <2>3. Grammar!With(t, i + 1) = i + 3
    BY <1>2, <2>2 DEF Grammar!With
  <2> QED BY <1>2, <2>1, <2>3 DEF Grammar!Compound
<1>3. CASE k >= 3 /\ Grammar!At(t, i) = "(" /\ i + 1 \in Grammar!Starts(t)[k - 2] /\ Grammar!At(t, i + k - 1) = ")"
  <2>1. i + 1 \in Nat /\ i + 1 + (k - 2) = i + k - 1 /\ Len(t) + 1 - (i + 1) = Len(t) - i
    BY <1>3
  <2>2. EndsAt(t, i + 1 + (k - 2))
    BY <1>3, <2>1 DEF EndsAt
  <2>3. inside = i + k - 1
    BY <1>3, <2>1, <2>2 DEF AllParsed
  <2> QED BY <1>3, <2>3 DEF Grammar!Compound
<1> QED BY <1>1, <1>2, <1>3 DEF Grammar!CompoundAt

\* What the grammar derives, and is not followed by more, the parser takes.
LEMMA DerivedIsParsed ==
  ASSUME NEW t \in Seq(Grammar!Tokens), NEW n \in Nat
  PROVE  AllParsed(t, n)
<1> DEFINE len == Len(t)
           E(m) == Grammar!Ends(t)[m]
           S == {m \in Nat : \A k \in Nat : k < m => AllParsed(t, k)}
<1>0. len \in Nat
  OBVIOUS
<1>1. ASSUME NEW m \in Nat, m \in S PROVE AllParsed(t, m)
  <2> SUFFICES ASSUME NEW i \in Nat, i \in Grammar!Starts(t)[m], EndsAt(t, i + m)
               PROVE  E(len + 1 - i) = i + m
    BY DEF AllParsed
  <2>1. i \in Grammar!StartsOf(t, Grammar!Starts(t), m)
    BY StartsIs
  <2>2. /\ i \in 1 .. len + 1 - m
        /\ \/ Grammar!CompoundAt(t, Grammar!Starts(t), i, m)
           \/ \E k \in 1 .. m - 2 : /\ Grammar!CompoundAt(t, Grammar!Starts(t), i, k) /\ Grammar!At(t, i + k) \in {"AND", "OR"}
                                    /\ i + k + 1 \in Grammar!Starts(t)[m - k - 1]
    BY <2>1 DEF Grammar!StartsOf
  <2>3. m >= 1
    BY <2>2 DEF Grammar!CompoundAt
  <2>4. i \in 1 .. len
    BY <1>0, <2>2, <2>3
  <2> DEFINE left == len + 1 - i
             inside == E(len - i)
             c == Grammar!Compound(t, i, inside)
  <2>5. left \in Nat /\ left # 0 /\ left - 1 = len - i /\ len + 1 - left = i /\ len - i \in Nat
    BY <1>0, <2>4
  <2>6. inside \in Nat
    BY <2>5, ParserIs DEF Later
  <2>7. E(left) = Grammar!ExpressionFrom(t, Grammar!Ends(t), left)
    BY <2>5, ParserIs
  <2>8. E(left) = IF c # 0 /\ Grammar!At(t, c) \in {"AND", "OR"} THEN E(len - c) ELSE c
    BY <2>5, <2>7 DEF Grammar!ExpressionFrom
  <2>9. ASSUME NEW k \in Nat, k <= m, Grammar!CompoundAt(t, Grammar!Starts(t), i, k), Grammar!At(t, i + k) # "WITH"
        PROVE  c = i + k
    <3>1. k >= 3 => k - 2 \in Nat /\ k - 2 < m
      BY <2>9
    <3>2. k >= 3 => AllParsed(t, k - 2)
      BY <1>1, <3>1
    <3>3. inside = Grammar!Ends(t)[Len(t) - i]
      OBVIOUS
    <3> HIDE DEF inside
    <3> QED BY <2>4, <2>6, <2>9, <3>2, <3>3, CompoundTaken
  <2> HIDE DEF c, inside, E
  <2>10. CASE Grammar!CompoundAt(t, Grammar!Starts(t), i, m)
    <3>1. Grammar!At(t, i + m) \notin {"AND", "OR", "WITH"}
      BY DEF EndsAt
    <3>2. c = i + m
      BY <2>9, <2>10, <3>1
    <3> QED BY <2>8, <3>1, <3>2
  <2>11. ASSUME NEW k \in 1 .. m - 2, Grammar!CompoundAt(t, Grammar!Starts(t), i, k), Grammar!At(t, i + k) \in {"AND", "OR"},
                i + k + 1 \in Grammar!Starts(t)[m - k - 1]
         PROVE  E(left) = i + m
    <3>1. k \in Nat /\ k <= m /\ m - k - 1 \in Nat /\ m - k - 1 < m
      BY <2>11
    <3>2. c = i + k /\ c # 0
      BY <2>4, <2>9, <2>11, <3>1
    <3>3. E(left) = E(len - c)
      BY <2>8, <2>11, <3>2
    <3>4. AllParsed(t, m - k - 1)
      BY <1>1, <3>1
    <3>5. i + k + 1 \in Nat /\ i + k + 1 + (m - k - 1) = i + m /\ len + 1 - (i + k + 1) = len - c
      BY <1>0, <3>1, <3>2
    <3>6. E(len - c) = i + m
      BY <2>11, <3>4, <3>5 DEF AllParsed, E
    <3> QED BY <3>3, <3>6
  <2> QED BY <2>2, <2>10, <2>11
<1>2. \A m \in Nat : m \in S
  <2>1. 0 \in S
    OBVIOUS
  <2>2. ASSUME NEW m \in Nat, m \in S PROVE m + 1 \in S
    <3>1. \A k \in Nat : k < m + 1 => k < m \/ k = m
      OBVIOUS
    <3> QED BY <1>1, <2>2, <3>1
  <2> HIDE DEF S
  <2> QED BY <2>1, <2>2, Induction
<1> QED BY <1>1, <1>2

\* The license parser accepts exactly the texts the grammar in its comment derives,
\* however long they are and however deep their parentheses: it never stops early,
\* never goes past an end and needs no second try.
THEOREM ParserIsGrammar ==
  ASSUME NEW t \in Seq(Grammar!Tokens)
  PROVE  Grammar!License(t) <=> Grammar!Derived(t)
<1>1. Len(t) \in Nat /\ Len(t) + 1 # 0 /\ Len(t) + 1 - Len(t) = 1 /\ Len(t) + 1 - 1 = Len(t)
      /\ 1 + Len(t) = Len(t) + 1
  OBVIOUS
<1>2. ASSUME Grammar!License(t) PROVE Grammar!Derived(t)
  <2>1. Grammar!Ends(t)[Len(t)] = Len(t) + 1
    BY <1>2 DEF Grammar!License
  <2>2. 1 \in Grammar!Starts(t)[Grammar!Ends(t)[Len(t)] - 1]
    BY <1>1, <2>1, ParsedIsDerived
  <2> QED BY <1>1, <2>1, <2>2 DEF Grammar!Derived
<1>3. ASSUME Grammar!Derived(t) PROVE Grammar!License(t)
  <2>1. AllParsed(t, Len(t))
    BY <1>1, DerivedIsParsed
  <2>2. EndsAt(t, Len(t) + 1)
    BY DEF EndsAt, Grammar!At
  <2> QED BY <1>1, <1>3, <2>1, <2>2 DEF AllParsed, Grammar!Derived, Grammar!License
<1> QED BY <1>2, <1>3

-----------------------------------------------------------------------------
(* The catalog cache *)

\* A catalog is a record; none is no record.
LEMMA CatalogsAre ==
  \A c \in Catalogs : c # NoCatalog /\ c.content \in Nat /\ c.fetched \in Nat
BY CatalogAssumption DEF CatalogAssumption, Catalogs

\* At first nothing is cached or held.
LEMMA InitInv == Init => IInv
<1> SUFFICES ASSUME Init PROVE IInv
  OBVIOUS
<1>1. 0 \in Nat /\ 1 \in Nat /\ FALSE \in BOOLEAN
  OBVIOUS
<1>2. TypeOK
  BY <1>1 DEF Init, TypeOK, Codes
<1>3. \A o \in Ops : /\ pc[o] = "idle" /\ outcome[o] = "none"
                      /\ loaded[o] = NoCatalog /\ built[o] = NoCatalog /\ answer[o] = NoCatalog
  BY DEF Init
<1>4. HeldIsOwn /\ HeldIsStale
  BY <1>3 DEF HeldIsOwn, HeldIsStale, Running
<1>5. OfflineExactServed
  BY <1>3, CatalogAssumption DEF CatalogAssumption, OfflineExactServed
<1> QED BY <1>2, <1>4, <1>5 DEF IInv

\* An operation that ends is answered with nothing or with a catalog of its
\* definition; it finds none only if it held none that had expired.
LEMMA ReturnsInv ==
  ASSUME IInv, NEW o \in Ops, NEW from, NEW code \in Codes, NEW found \in Catalogs \cup {NoCatalog},
         Returns(o, from, code, found),
         found # NoCatalog /\ DefOf[o] # NoDef => found.def = DefOf[o],
         o \in Exact \ Forced /\ code = "E_CATALOG_MISSING" => loaded[o] = NoCatalog,
         cache' \in Catalogs \cup {NoCatalog},
         UNCHANGED <<loaded, stale, got, built, clock, upstream>>
  PROVE  IInv'
<1> USE DEF IInv
<1>1. /\ pc' = [pc EXCEPT ![o] = "done"] /\ outcome' = [outcome EXCEPT ![o] = code]
      /\ answer' = [answer EXCEPT ![o] = found]
  BY DEF Returns, Goes
<1>2. TypeOK'
  BY <1>1 DEF TypeOK
<1>3. HeldIsOwn'
  BY <1>1 DEF TypeOK, HeldIsOwn
<1>4. HeldIsStale'
  BY <1>1 DEF TypeOK, HeldIsStale, Running
<1>5. OfflineExactServed'
  BY <1>1 DEF TypeOK, OfflineExactServed
<1> QED BY <1>2, <1>3, <1>4, <1>5

\* A request that fails leaves the expired catalog to an exact resolution.
LEMMA FailsInv ==
  ASSUME IInv, NEW o \in Ops, NEW from \in Running, Fails(o, from)
  PROVE  IInv'
<1> USE DEF IInv
<1>1. /\ UNCHANGED <<loaded, stale, got, built, cache, clock, upstream>> /\ pc[o] = from
      /\ cache' \in Catalogs \cup {NoCatalog} /\ loaded[o] \in Catalogs \cup {NoCatalog}
      /\ loaded[o] # NoCatalog /\ DefOf[o] # NoDef => loaded[o].def = DefOf[o]
  BY DEF Fails, FallsBack, Returns, Goes, TypeOK, HeldIsOwn
<1>2. CASE Returns(o, from, "stale", loaded[o])
  BY <1>1, <1>2, ReturnsInv DEF Codes
<1>3. CASE Returns(o, from, "E_NETWORK", NoCatalog)
  BY <1>1, <1>3, ReturnsInv DEF Codes
<1>4. CASE Returns(o, from, "E_CATALOG_MISSING", NoCatalog) /\ ~(stale[o] /\ o \in Exact)
  <2>1. o \in Exact \ Forced => loaded[o] = NoCatalog
    BY <1>1, <1>4 DEF HeldIsStale
  <2> QED BY <1>1, <1>4, <2>1, ReturnsInv DEF Codes
<1> QED BY <1>2, <1>3, <1>4 DEF Fails, FallsBack

\* What is loaded is of the operation's definition, and it is kept only if it has
\* expired or --refresh asks for another.
LEMMA LoadInv == ASSUME IInv, NEW o \in Ops, Load(o) PROVE IInv'
<1> USE DEF IInv
<1>1. PICK c \in {cache, NoCatalog} :
        LET found == IF Usable(o, c) THEN c ELSE NoCatalog
            old == found # NoCatalog /\ Expired(found)
        IN /\ loaded' = [loaded EXCEPT ![o] = found]
           /\ stale' = [stale EXCEPT ![o] = old]
           /\ IF found # NoCatalog /\ ~old /\ o \notin Forced
              THEN Returns(o, "idle", "cached", found)
              ELSE Goes(o, "idle", "collect") /\ UNCHANGED <<outcome, answer>>
  BY DEF Load
<1> DEFINE found == IF Usable(o, c) THEN c ELSE NoCatalog
           old == found # NoCatalog /\ Expired(found)
<1>2. /\ found \in Catalogs \cup {NoCatalog} /\ old \in BOOLEAN
      /\ found # NoCatalog /\ DefOf[o] # NoDef => found.def = DefOf[o]
  BY DEF Usable, TypeOK
<1>3. /\ loaded' = [loaded EXCEPT ![o] = found] /\ stale' = [stale EXCEPT ![o] = old]
      /\ UNCHANGED <<got, built, cache, clock, upstream>>
      /\ pc[o] = "idle" /\ outcome[o] = "none" /\ answer[o] = NoCatalog
  BY <1>1 DEF Load, Returns, Goes, HeldIsStale
<1>4. \/ /\ pc' = [pc EXCEPT ![o] = "done"] /\ outcome' = [outcome EXCEPT ![o] = "cached"]
         /\ answer' = [answer EXCEPT ![o] = found]
      \/ /\ pc' = [pc EXCEPT ![o] = "collect"] /\ UNCHANGED <<outcome, answer>>
         /\ found = NoCatalog \/ old \/ o \in Forced
  BY <1>1 DEF Returns, Goes
<1> HIDE DEF found, old
<1>5. TypeOK'
  BY <1>2, <1>3, <1>4 DEF TypeOK, Codes, Running
<1>6. HeldIsOwn'
  BY <1>2, <1>3, <1>4 DEF TypeOK, HeldIsOwn
<1>7. HeldIsStale'
  BY <1>2, <1>3, <1>4 DEF TypeOK, HeldIsStale, Running
<1>8. OfflineExactServed'
  <2> SUFFICES ASSUME NEW q \in Exact \ Forced, outcome'[q] = "E_CATALOG_MISSING" PROVE loaded'[q] = NoCatalog
    BY DEF OfflineExactServed
  <2>1. q \in Ops /\ outcome \in [Ops -> Codes] /\ loaded \in [Ops -> Catalogs \cup {NoCatalog}]
    BY CatalogAssumption DEF CatalogAssumption, TypeOK
  <2>2. q # o /\ outcome[q] = "E_CATALOG_MISSING"
    BY <1>3, <1>4, <2>1
  <2> QED BY <1>3, <2>1, <2>2 DEF OfflineExactServed
<1> QED BY <1>5, <1>6, <1>7, <1>8

\* What is built is of the operation's definition.
LEMMA AskInv == ASSUME IInv, NEW o \in Ops, Collect(o) \/ Build(o) PROVE IInv'
<1> USE DEF IInv
<1>1. CASE Fails(o, "collect") \/ Fails(o, "build")
  BY <1>1, FailsInv DEF Running
<1>2. CASE /\ Goes(o, "collect", "build") /\ got' = [got EXCEPT ![o] = upstream]
           /\ UNCHANGED <<loaded, stale, built, outcome, answer, cache, clock, upstream>>
  <2>1. TypeOK'
    BY <1>2 DEF Goes, TypeOK, Running
  <2> QED BY <1>2, <2>1 DEF Goes, TypeOK, HeldIsOwn, HeldIsStale, OfflineExactServed, Running
<1>3. CASE /\ Goes(o, "build", "save")
           /\ built' = [built EXCEPT ![o] = [content |-> got[o], def |-> DefOf[o], fetched |-> clock]]
           /\ UNCHANGED <<loaded, stale, got, outcome, answer, cache, clock, upstream>>
  <2> DEFINE new == [content |-> got[o], def |-> DefOf[o], fetched |-> clock]
  <2>1. new \in Catalogs /\ new.def = DefOf[o] /\ new # NoCatalog
    BY CatalogAssumption, CatalogsAre DEF CatalogAssumption, Catalogs, TypeOK
  <2>2. built' = [built EXCEPT ![o] = new]
    BY <1>3
  <2> HIDE DEF new
  <2>3. TypeOK'
    BY <1>3, <2>1, <2>2 DEF Goes, TypeOK, Running
  <2>4. HeldIsOwn'
    BY <1>3, <2>1, <2>2 DEF TypeOK, HeldIsOwn
  <2>5. HeldIsStale' /\ OfflineExactServed'
    BY <1>3, <2>1, <2>2 DEF Goes, TypeOK, HeldIsStale, OfflineExactServed, Running
  <2> QED BY <2>3, <2>4, <2>5
<1> QED BY <1>1, <1>2, <1>3 DEF Collect, Build

\* What is saved is what was built.
LEMMA SaveInv == ASSUME IInv, NEW o \in Ops, Save(o) PROVE IInv'
<1> USE DEF IInv
<1>1. built[o] \in Catalogs \cup {NoCatalog} /\ (built[o] # NoCatalog /\ DefOf[o] # NoDef => built[o].def = DefOf[o])
  BY DEF TypeOK, HeldIsOwn
<1>2. CASE Returns(o, "save", "refreshed", built[o]) /\ cache' = built[o]
  BY <1>1, <1>2, ReturnsInv DEF Save, Codes
<1>3. CASE Returns(o, "save", "E_FILESYSTEM", NoCatalog) /\ UNCHANGED cache
  <2>1. cache' \in Catalogs \cup {NoCatalog}
    BY <1>3 DEF TypeOK
  <2> QED BY <1>3, <2>1, ReturnsInv DEF Save, Codes
<1>4. CASE Returns(o, "save", "catalog.invalid", NoCatalog) /\ UNCHANGED cache
  <2>1. cache' \in Catalogs \cup {NoCatalog}
    BY <1>4 DEF TypeOK
  <2> QED BY <1>4, <2>1, ReturnsInv DEF Save, Codes
<1> QED BY <1>2, <1>3, <1>4 DEF Save

\* Every step keeps the invariant.
LEMMA StepInv == IInv /\ [Next]_vars => IInv'
<1> SUFFICES ASSUME IInv, [Next]_vars PROVE IInv'
  OBVIOUS
<1> USE DEF IInv
<1>1. ASSUME NEW o \in Ops, Forgets(o) PROVE IInv'
  <2>1. TypeOK'
    BY <1>1 DEF Forgets, TypeOK, Codes
  <2>2. HeldIsOwn'
    BY <1>1 DEF Forgets, TypeOK, HeldIsOwn
  <2>3. HeldIsStale' /\ OfflineExactServed'
    BY <1>1 DEF Forgets, TypeOK, HeldIsStale, OfflineExactServed, Running
  <2> QED BY <2>1, <2>2, <2>3
<1>2. CASE Tick
  <2>1. upstream' \in Nat /\ clock' \in Nat
    BY <1>2 DEF Tick, TypeOK
  <2> QED BY <1>2, <2>1 DEF Tick, TypeOK, HeldIsOwn, HeldIsStale, OfflineExactServed
<1>3. CASE UNCHANGED vars
  BY <1>3 DEF vars, TypeOK, HeldIsOwn, HeldIsStale, OfflineExactServed
<1> QED BY <1>1, <1>2, <1>3, LoadInv, AskInv, SaveInv DEF Next, Step, Again, Crash

\* The invariant holds for any operations, definitions and times.
LEMMA Invariant == Spec => []IInv
BY InitInv, StepInv, PTL DEF Spec

\* Operations with different definitions overwrite each other's file, yet none that
\* names its own is answered with a catalog of another.
THEOREM AnswerIsOwn == Spec => []AnswerMatchesDefinition
<1>1. IInv => AnswerMatchesDefinition
  BY DEF IInv, HeldIsOwn, AnswerMatchesDefinition
<1> QED BY <1>1, Invariant, PTL

\* Being offline is an error for an exact resolution only when there was no catalog
\* of its definition to use, or when --refresh asked for one.
THEOREM ExactServedOffline == Spec => []OfflineExactServed
BY Invariant, PTL DEF IInv

\* A catalog that an operation did not build answers it if it has not expired, or if
\* it resolves an exact version.
LEMMA AnswerStep ==
  ASSUME IInv, [Next]_vars, NEW o \in Ops \ Exact, answer'[o] \notin {answer[o], NoCatalog, built[o]}, Ttl > 0
  PROVE  clock < answer'[o].fetched + Ttl
<1> USE DEF IInv
<1>1. ASSUME NEW q \in Ops, NEW from, NEW code, NEW found, Returns(q, from, code, found)
      PROVE  q = o /\ answer'[o] = found
  BY <1>1 DEF Returns, TypeOK
<1>2. PICK q \in Ops : Step(q)
  BY DEF Next, Tick, vars
<1>3. ~Forgets(q)
  BY DEF Forgets, TypeOK
<1>4. ~Fails(q, "collect") /\ ~Fails(q, "build")
  BY <1>1 DEF Fails, FallsBack
<1>5. ~Collect(q) /\ ~Build(q) /\ ~Save(q)
  BY <1>1, <1>4 DEF Collect, Build, Save
<1>6. Load(q)
  BY <1>2, <1>3, <1>5 DEF Step, Again, Crash
<1>7. PICK c \in {cache, NoCatalog} :
        LET found == IF Usable(q, c) THEN c ELSE NoCatalog
            old == found # NoCatalog /\ Expired(found)
        IN IF found # NoCatalog /\ ~old /\ q \notin Forced
           THEN Returns(q, "idle", "cached", found)
           ELSE Goes(q, "idle", "collect") /\ UNCHANGED <<outcome, answer>>
  BY <1>6 DEF Load
<1>8. c # NoCatalog /\ ~Expired(c) /\ Returns(q, "idle", "cached", c)
  BY <1>7
<1>9. answer'[o] = c /\ c \in Catalogs
  BY <1>1, <1>8 DEF TypeOK
<1>10. clock \in Nat /\ Ttl \in Nat /\ c.fetched \in Nat
  BY <1>9, CatalogAssumption, CatalogsAre DEF CatalogAssumption, TypeOK
<1> QED BY <1>8, <1>9, <1>10 DEF Expired

\* An operation that lists or wants the latest version is answered with what it has
\* just built, or with a catalog that has not expired at that moment.
THEOREM LatestCurrent == Spec => LatestIsCurrent
<1>1. IInv /\ [Next]_vars =>
        [\A o \in Ops \ Exact :
           answer'[o] \notin {answer[o], NoCatalog, built[o]} /\ Ttl > 0
             => clock < answer'[o].fetched + Ttl]_vars
  BY AnswerStep
<1> QED BY <1>1, Invariant, PTL DEF Spec, LatestIsCurrent
-----------------------------------------------------------------------------
(* The way of a definition to an install: what Parse made of the file stays *)
(* the platform, and a definition with a diagnostic goes no further.       *)

ReadInv ==
  /\ given \in Inputs
  /\ step # "file" =>
       IF Read(given.definition).why = {} THEN platform = Read(given.definition).platforms[1]
       ELSE step = "end" /\ ended = "definition"

\* Whatever stops the pipeline leaves what was read as it was.
LEMMA ReadInvStep == ReadInv /\ [PipelineNext]_pipelineVars => ReadInv'
<1> SUFFICES ASSUME ReadInv, [PipelineNext]_pipelineVars PROVE ReadInv'
  OBVIOUS
<1> USE DEF ReadInv
<1>1. CASE Parse
  BY <1>1 DEF Parse, Stop
<1>2. CASE Refresh
  BY <1>2 DEF Refresh, Stop
<1>3. CASE Choose
  BY <1>3 DEF Choose
<1>4. CASE MakePlan
  BY <1>4 DEF MakePlan, Stop
<1>5. CASE Approve
  BY <1>5 DEF Approve, Stop
<1>6. CASE RunProbe
  BY <1>6 DEF RunProbe, Stop
<1>7. CASE Record
  BY <1>7 DEF Record, Stop
<1>8. CASE UNCHANGED pipelineVars
  BY <1>8 DEF pipelineVars
<1> QED BY <1>1, <1>2, <1>3, <1>4, <1>5, <1>6, <1>7, <1>8 DEF PipelineNext

LEMMA ReadInvariant == PipelineSpec => []ReadInv
<1>1. PipelineInit => ReadInv
  BY DEF PipelineInit, ReadInv
<1> QED BY <1>1, ReadInvStep, PTL DEF PipelineSpec

\* Of all that is checked of a tool only its license is refused as a license.
LEMMA LicenseRefused ==
  ASSUME NEW tool, NEW basename, tool # Absent, tool.license # Absent
  PROVE  "license" \in Tool(tool, basename).why
           <=> ~(tool.license.form = "license" /\ tool.license.n \in 1 .. NameMaxBytes)
<1> DEFINE others == {ToolID(tool.id), Optional(tool.id, Check(~ToolID(tool.id).ok \/ tool.id = basename, "basename")),
                      Text(tool.name, NameMaxBytes), Aliases(tool.aliases, tool.id), Text(tool.description, DescriptionMaxBytes),
                      URL(tool.homepage, "reference"), Enum(tool.version_scheme, Schemes)}
<1>1. \A key : "license" \notin ToolID(key).why
  BY DEF ToolID, Identifier, Require, Check, Fine, Bad
<1>2. "license" \notin Aliases(tool.aliases, tool.id).why
  <2>1. "license" \notin Unique(tool.aliases).why
    BY DEF Unique, Check, Fine, Bad
  <2> DEFINE own == Check(~ToolID(tool.id).ok \/ tool.id \notin tool.aliases.entries, "duplicate")
             answers == {ToolID(a) : a \in tool.aliases.entries} \cup {Unique(tool.aliases), own}
  <2>2. "license" \notin own.why
    BY DEF Check, Fine, Bad
  <2>3. \A a \in answers : "license" \notin a.why
    <3> HIDE DEF own
    <3> QED BY <1>1, <2>1, <2>2
  <2>4. "license" \notin All(answers).why
    <3> HIDE DEF answers
    <3> QED BY <2>3 DEF All
  <2> HIDE DEF answers
  <2> QED BY <2>4 DEF Aliases, Require, Bad, answers
<1>3. "license" \notin Optional(tool.id, Check(~ToolID(tool.id).ok \/ tool.id = basename, "basename")).why
  BY DEF Optional, Check, Fine, Bad
<1>4. \A key, max : "license" \notin Text(key, max).why
  BY DEF Text, Require, Check, Fine, Bad
<1>5. "license" \notin URL(tool.homepage, "reference").why
  BY DEF URL, Require, Check, Fine, Bad
<1>6. "license" \notin Enum(tool.version_scheme, Schemes).why
  BY DEF Enum, Require, Check, Fine, Bad
<1>7. \A a \in others : "license" \notin a.why
  BY <1>1, <1>2, <1>3, <1>4, <1>5, <1>6
<1>8. Tool(tool, basename).why = UNION {a.why : a \in others \cup {License(tool.license)}}
  BY DEF Tool, All
<1>9. "license" \in Tool(tool, basename).why <=> "license" \in License(tool.license).why
  <2> HIDE DEF others
  <2> QED BY <1>7, <1>8
<1> QED BY <1>9 DEF License, Require, Check, Fine, Bad

\* A license is refused exactly when the grammar does not derive it or when it is
\* too long, and a definition whose license is refused is not used: for every
\* definition, however its license is nested.
THEOREM LicensesDecided == PipelineSpec => []LicenseParsed
<1>1. ASSUME ReadInv PROVE LicenseParsed
  <2> DEFINE tool == given.definition.tool
             license == tool.license
             refused == "license" \in Tool(tool, given.definition.basename).why
  <2> SUFFICES ASSUME tool # Absent, license # Absent, step # "file"
               PROVE  /\ refused <=> ~Grammar!Derived(license.tokens) \/ license.n > NameMaxBytes
                      /\ refused => ended = "definition"
    BY DEF LicenseParsed
  <2>1. spelled(license)
    BY <1>1, InputsAssumption DEF ReadInv, InputsAssumption, isDefinition
  <2>2. Grammar!License(license.tokens) <=> Grammar!Derived(license.tokens)
    BY <2>1, ParserIsGrammar DEF spelled
  <2>3. ~Grammar!Derived(<<>>)
    <3>1. <<>> \in Seq(Grammar!Tokens) /\ 0 \in Nat /\ Len(<<>>) = 0
      OBVIOUS
    <3>2. \A i : i \notin Grammar!StartsOf(<<>>, Grammar!Starts(<<>>), 0)
      BY <3>1 DEF Grammar!StartsOf, Grammar!CompoundAt
    <3>3. Grammar!Starts(<<>>)[0] = Grammar!StartsOf(<<>>, Grammar!Starts(<<>>), 0)
      BY <3>1, StartsIs
    <3> QED BY <3>1, <3>2, <3>3 DEF Grammar!Derived
  <2>4. refused <=> ~(license.form = "license" /\ license.n \in 1 .. NameMaxBytes)
    BY LicenseRefused
  <2>5. refused <=> ~Grammar!Derived(license.tokens) \/ license.n > NameMaxBytes
    <3>1. license.n = 0 => ~Grammar!Derived(license.tokens)
      BY <2>1, <2>3 DEF spelled
    <3>2. license.form = "license" <=> Grammar!Derived(license.tokens)
      BY <2>1, <2>2 DEF spelled
    <3>3. license.n \in Nat
      BY <2>1 DEF spelled
    <3>4. license.n = 0 \/ license.n > NameMaxBytes \/ license.n \in 1 .. NameMaxBytes
      BY <3>3 DEF NameMaxBytes
    <3>5. license.n > NameMaxBytes => license.n \notin 1 .. NameMaxBytes
      BY <3>3 DEF NameMaxBytes
    <3>6. license.n \in 1 .. NameMaxBytes => license.n # 0
      BY DEF NameMaxBytes
    <3> QED BY <2>4, <3>1, <3>2, <3>4, <3>5, <3>6
  <2>6. ASSUME refused PROVE ended = "definition"
    <3>1. ~Decodes(given.definition.file) => "decode" \in Read(given.definition).why
      BY DEF Read, File, Bad
    <3>2. Decodes(given.definition.file) => "license" \in Read(given.definition).why
      BY <2>6 DEF Read, DefinitionRead
    <3> QED BY <1>1, <3>1, <3>2 DEF ReadInv
  <2> QED BY <2>5, <2>6
<1> QED BY <1>1, ReadInvariant, PTL

(* A check that is not passed says why: without a word an entry would be   *)
(* left out of a definition that is then accepted.                         *)
Spoken(verdict) == verdict.why = {} => verdict.ok = TRUE

LEMMA SpokenParts ==
  /\ Spoken(Fine)
  /\ \A reason : Spoken(Bad(reason))
  /\ \A holds, reason : Spoken(Check(holds, reason))
  /\ \A key, verdict : Spoken(verdict) => Spoken(Require(key, verdict)) /\ Spoken(Optional(key, verdict))
<1>1. Spoken(Fine) /\ \A reason : Spoken(Bad(reason))
  BY DEF Spoken, Fine, Bad
<1> QED BY <1>1 DEF Check, Require, Optional

LEMMA SpokenAll ==
  ASSUME NEW answers, \A a \in answers : Spoken(a)
  PROVE  Spoken(All(answers))
<1> SUFFICES ASSUME UNION {a.why : a \in answers} = {}
             PROVE  \A a \in answers : a.ok
  BY DEF Spoken, All
<1>1. \A a \in answers : a.why = {}
  OBVIOUS
<1> QED BY <1>1 DEF Spoken

\* The checks of single keys.
LEMMA SpokenKeys ==
  /\ \A key, values : Spoken(Enum(key, values))
  /\ \A key : /\ Spoken(ScopedID(key)) /\ Spoken(CommandName(key)) /\ Spoken(StoragePath(key)) /\ Spoken(Bool(key))
              /\ Spoken(RegexSyntax(key)) /\ Spoken(Forbid(key)) /\ Spoken(Unique(key))
  /\ \A key, name : Spoken(Capture(key, name))
  /\ \A key, lo, hi : Spoken(Duration(key, lo, hi))
<1>1. \A key, values : Spoken(Enum(key, values))
  BY SpokenParts DEF Enum
<1>2. \A key, forms, max : Spoken(Identifier(key, forms, max))
  BY SpokenParts DEF Identifier
<1>3. \A key : Spoken(ScopedID(key)) /\ Spoken(CommandName(key))
  BY <1>2 DEF ScopedID, CommandName
<1>4. \A key : Spoken(StoragePath(key)) /\ Spoken(Bool(key)) /\ Spoken(RegexSyntax(key))
  BY SpokenParts DEF StoragePath, Bool, RegexSyntax
<1>5. \A key : Spoken(Forbid(key)) /\ Spoken(Unique(key))
  BY SpokenParts DEF Forbid, Unique
<1>6. \A key, name : Spoken(Capture(key, name))
  BY SpokenParts DEF Capture
<1>7. \A key, lo, hi : Spoken(Duration(key, lo, hi))
  BY SpokenParts DEF Duration
<1> QED BY <1>1, <1>3, <1>4, <1>5, <1>6, <1>7

\* The checks of templates and of lists of them.
LEMMA SpokenTemplates ==
  ASSUME NEW scope0, NEW context
  PROVE  /\ \A x : Spoken(PathTemplate(x, scope0, context)) /\ Spoken(LiteralArg(x))
         /\ \A key : Spoken(Args(key, scope0, context))
         /\ \A key : Spoken(RequiredPaths(key, context)) /\ Spoken(PathList(key, context)) /\ Spoken(NameList(key))
         /\ \A key, windows : Spoken(EnvironmentSet(key, context, windows))
<1>1. \A x, any : Spoken(PathTemplate(x, any, context)) /\ Spoken(LiteralArg(x))
  BY SpokenParts DEF PathTemplate, LiteralArg
<1>2. ASSUME NEW key PROVE Spoken(Args(key, scope0, context))
  <2> DEFINE answers == {IF IsPathTemplate(x) THEN PathTemplate(x, scope0, context) ELSE LiteralArg(x) : x \in key.entries}
  <2>1. \A a \in answers : Spoken(a)
    BY <1>1
  <2> HIDE DEF answers
  <2>2. Spoken(All(answers))
    BY <2>1, SpokenAll
  <2> QED BY <2>2, SpokenParts DEF Args, answers
<1>3. ASSUME NEW key PROVE Spoken(RequiredPaths(key, context))
  <2> DEFINE answers == {IF r.kind \notin {"file", "directory"} THEN Bad("enum")
                         ELSE PathTemplate(r.path, ProbeScope, context) : r \in key.entries} \cup {Unique(key)}
  <2>1. \A a \in answers : Spoken(a)
    BY <1>1, SpokenParts, SpokenKeys
  <2> HIDE DEF answers
  <2>2. Spoken(All(answers))
    BY <2>1, SpokenAll
  <2> QED BY <2>2, SpokenParts DEF RequiredPaths, answers
<1>4. ASSUME NEW key PROVE Spoken(PathList(key, context))
  <2> DEFINE answers == {PathTemplate(x, CommandScope, context) : x \in key.entries} \cup {Unique(key)}
  <2>1. \A a \in answers : Spoken(a)
    BY <1>1, SpokenKeys
  <2> HIDE DEF answers
  <2>2. Spoken(All(answers))
    BY <2>1, SpokenAll
  <2> QED BY <2>2, SpokenParts DEF PathList, answers
<1>5. ASSUME NEW key PROVE Spoken(NameList(key))
  <2> DEFINE answers == {Check(EnvironmentName(n), "environment") : n \in key.entries} \cup {Unique(key)}
  <2>1. \A a \in answers : Spoken(a)
    BY SpokenParts, SpokenKeys
  <2> HIDE DEF answers
  <2>2. Spoken(All(answers))
    BY <2>1, SpokenAll
  <2> QED BY <2>2, SpokenParts DEF NameList, answers
<1>6. ASSUME NEW key, NEW windows PROVE Spoken(EnvironmentSet(key, context, windows))
  <2> DEFINE names == {Check(EnvironmentName(n), "environment") : n \in key.names}
             values == {IF IsPathTemplate(x) THEN PathTemplate(x, CommandScope, context)
                        ELSE LiteralArg(x) : x \in key.entries}
             answers == names \cup values \cup {IF windows THEN Unique(key) ELSE Fine}
  <2>1. \A a \in names : Spoken(a)
    BY SpokenParts
  <2>2. \A a \in values : Spoken(a)
    BY <1>1
  <2>3. Spoken(IF windows THEN Unique(key) ELSE Fine)
    BY SpokenParts, SpokenKeys
  <2>4. EnvironmentSet(key, context, windows) =
          Require(key, IF key.count > EnvironmentEntryMax THEN Bad("limit") ELSE All(answers))
    BY DEF EnvironmentSet
  <2> HIDE DEF names, values
  <2>5. \A a \in answers : Spoken(a)
    BY <2>1, <2>2, <2>3
  <2> HIDE DEF answers
  <2>6. Spoken(All(answers))
    BY <2>5, SpokenAll
  <2> QED BY <2>4, <2>6, SpokenParts
<1> QED BY <1>1, <1>2, <1>3, <1>4, <1>5, <1>6

\* The checks of whole entries, of the four lists of a platform.
LEMMA SpokenEntries ==
  /\ \A s : Spoken(Storage(s))
  /\ \A e, context, windows : Spoken(Profile(e, context, windows))
  /\ \A c, context, profiles : Spoken(Command(c, context, profiles))
  /\ \A v, context, commands : Spoken(Probe(v, context, commands))
<1>1. ASSUME NEW s PROVE Spoken(Storage(s))
  <2> DEFINE last == IF Absent \in {s.scope, s.purge} THEN Fine ELSE Check(s.purge \in PurgesOf(s.scope), "conditional")
             answers == {ScopedID(s.id), Enum(s.kind, StorageKinds), Enum(s.scope, {"tool", "version"}),
                         Enum(s.purge, {"retain", "explicit", "with-version"}), StoragePath(s.path), last}
  <2>1. Spoken(last)
    BY SpokenParts
  <2>2. Storage(s) = All(answers)
    BY DEF Storage
  <2> HIDE DEF last
  <2>3. \A a \in answers : Spoken(a)
    BY <2>1, SpokenKeys
  <2> HIDE DEF answers
  <2> QED BY <2>2, <2>3, SpokenAll
<1>2. ASSUME NEW e, NEW context, NEW windows PROVE Spoken(Profile(e, context, windows))
  <2> DEFINE set == EnvironmentSet(e.set, context, windows)
             unset == NameList(e.unset)
             last == IF set.ok /\ unset.ok THEN Conflicts(e, windows) ELSE Fine
             answers == {ScopedID(e.id), PathList(e.path_prepend, context), PathList(e.path_append, context),
                         set, unset, NameList(e.override_allowed), NameList(e.shell_export), last}
  <2>1. Spoken(last)
    BY SpokenParts DEF Conflicts
  <2>2. Profile(e, context, windows) = All(answers)
    BY DEF Profile
  <2>3. Spoken(set) /\ Spoken(unset)
    BY SpokenTemplates
  <2> HIDE DEF last, set, unset
  <2>4. \A a \in answers : Spoken(a)
    BY <2>1, <2>3, SpokenKeys, SpokenTemplates
  <2> HIDE DEF answers
  <2> QED BY <2>2, <2>4, SpokenAll
<1>3. ASSUME NEW c, NEW context, NEW profiles PROVE Spoken(Command(c, context, profiles))
  <2> DEFINE target == Require(c.target, PathTemplate(c.target, TargetScope, context))
             profile == Require(c.environment_profile, Check(c.environment_profile \in profiles, "conditional"))
             answers == {CommandName(c.name), target, Args(c.args, CommandScope, context), profile,
                         Bool(c.required), Bool(c.passthrough_signals),
                         Enum(c.working_directory, {"inherit", "payload"})}
  <2>1. Spoken(target) /\ Spoken(profile)
    BY SpokenParts, SpokenTemplates
  <2>2. Command(c, context, profiles) = All(answers)
    BY DEF Command
  <2> HIDE DEF target, profile
  <2>3. \A a \in answers : Spoken(a)
    BY <2>1, SpokenKeys, SpokenTemplates
  <2> HIDE DEF answers
  <2> QED BY <2>2, <2>3, SpokenAll
<1>4. ASSUME NEW v, NEW context PROVE Spoken(Expectation(v, context))
  <2> DEFINE version == Require(v.expected_version, PathTemplate(v.expected_version, VersionScope, context))
             root == ExpectedRoot(v.expected_root, context)
             regex == Optional(v.regex, RegexSyntax(v.regex))
  <2>1. Spoken(version) /\ Spoken(root) /\ Spoken(regex)
    BY SpokenParts, SpokenKeys, SpokenTemplates DEF ExpectedRoot
  <2> HIDE DEF version, root, regex
  <2>2. \A a \in {Capture(v.regex, "version"), version, Forbid(v.expected_root)} : Spoken(a)
    BY <2>1, SpokenKeys
  <2>3. \A a \in {regex, Forbid(v.expected_version), Forbid(v.expected_root)} : Spoken(a)
    BY <2>1, SpokenKeys
  <2>4. \A a \in {Capture(v.regex, "path"), root, Forbid(v.expected_version)} : Spoken(a)
    BY <2>1, SpokenKeys
  <2>5. /\ Spoken(All({Capture(v.regex, "version"), version, Forbid(v.expected_root)}))
        /\ Spoken(All({regex, Forbid(v.expected_version), Forbid(v.expected_root)}))
        /\ Spoken(All({Capture(v.regex, "path"), root, Forbid(v.expected_version)}))
    BY <2>2, <2>3, <2>4, SpokenAll
  <2> QED BY <2>5, SpokenParts DEF Expectation, version, root, regex
<1>5. ASSUME NEW v, NEW context, NEW commands PROVE Spoken(Probe(v, context, commands))
  <2> DEFINE command == Require(v.runtime_command, Check(v.runtime_command \in commands, "conditional"))
             answers == {ScopedID(v.id), command, Args(v.args, ProbeScope, context),
                         Enum(v.stream, {"stdout", "stderr", "combined"}), Bool(v.required),
                         Duration(v.timeout, 1, 120), RequiredPaths(v.required_paths, context),
                         Enum(v.expect, {"version", "success", "path-within"}), Expectation(v, context)}
  <2>1. Spoken(command)
    BY SpokenParts
  <2>2. Probe(v, context, commands) = All(answers)
    BY DEF Probe
  <2> HIDE DEF command
  <2>3. \A a \in answers : Spoken(a)
    BY <1>4, <2>1, SpokenKeys, SpokenTemplates
  <2> HIDE DEF answers
  <2> QED BY <2>2, <2>3, SpokenAll
<1> QED BY <1>1, <1>2, <1>3, <1>5

\* A list without a diagnostic was there and is kept as it is.
Kept(key, list) == list.why = {} => key # Absent /\ list.kept = key.entries

LEMMA BuiltKept ==
  ASSUME NEW key, key # Absent, NEW verdict, \A e \in key.entries : Spoken(verdict[e])
  PROVE  Kept(key, Built(key, verdict))
<1> SUFFICES ASSUME Built(key, verdict).why = {} PROVE Built(key, verdict).kept = key.entries
  BY DEF Kept
<1> DEFINE why == UNION {verdict[e].why : e \in key.entries}
<1>1. CASE key.unique
  <2>1. why = {}
    BY <1>1 DEF Built
  <2>2. \A e \in key.entries : verdict[e].why = {}
    BY <2>1
  <2> QED BY <1>1, <2>2 DEF Built, Spoken
<1>2. CASE ~key.unique
  <2>1. "duplicate" \in Built(key, verdict).why
    BY <1>2 DEF Built, Refused
  <2> QED BY <2>1
<1> QED BY <1>1, <1>2

LEMMA RefusedSaysWhy == \A reason : Refused(reason).why = {reason}
BY DEF Refused

LEMMA ListsKept ==
  /\ \A key : Kept(key, Storages(key))
  /\ \A key, context, windows : Kept(key, Profiles(key, context, windows))
  /\ \A key, context, profiles : Kept(key, Commands(key, context, profiles))
  /\ \A v, context, commands : v # Absent => Kept(v.probes, Validation(v, context, commands))
<1>1. ASSUME NEW key PROVE Kept(key, Storages(key))
  <2> DEFINE verdict == [e \in key.entries |-> Storage(e)]
             list == Tables(key, 0, StorageMax, Storage)
  <2>1. key # Absent => Kept(key, Built(key, verdict))
    BY BuiltKept, SpokenEntries
  <2>2. Kept(key, list)
    BY <2>1, RefusedSaysWhy DEF Tables, Kept
  <2> HIDE DEF list
  <2>3. list.ok /\ ~Disjoint(list.kept) => "storage_path" \in Separate(list).why
    BY DEF Separate, Refused
  <2>4. ~(list.ok /\ ~Disjoint(list.kept)) => Separate(list) = list
    BY DEF Separate
  <2> QED BY <2>2, <2>3, <2>4 DEF Kept, Storages, list
<1>2. ASSUME NEW key, NEW context, NEW windows PROVE Kept(key, Profiles(key, context, windows))
  <2> DEFINE verdict == [e \in key.entries |-> Profile(e, context, windows)]
  <2>1. key # Absent => Kept(key, Built(key, verdict))
    BY BuiltKept, SpokenEntries
  <2> QED BY <2>1, RefusedSaysWhy DEF Profiles, Tables, Kept
<1>3. ASSUME NEW key, NEW context, NEW profiles PROVE Kept(key, Commands(key, context, profiles))
  <2> DEFINE verdict == [c \in key.entries |-> Command(c, context, {e.id : e \in profiles.kept})]
  <2>1. key # Absent => Kept(key, Built(key, verdict))
    BY BuiltKept, SpokenEntries
  <2> QED BY <2>1, RefusedSaysWhy DEF Commands, Tables, Kept
<1>4. ASSUME NEW v, NEW context, NEW commands, v # Absent PROVE Kept(v.probes, Validation(v, context, commands))
  <2> DEFINE verdict == [probe \in v.probes.entries |-> Probe(probe, context, {c.name : c \in commands})]
  <2>1. v.probes # Absent => Kept(v.probes, Built(v.probes, verdict))
    BY BuiltKept, SpokenEntries
  <2> QED BY <1>4, <2>1, RefusedSaysWhy DEF Validation, Tables, Kept
<1> QED BY <1>1, <1>2, <1>3, <1>4

\* A platform without a diagnostic is used with the lists it was written with.
LEMMA PlatformKept ==
  ASSUME NEW p, NEW kind, Platform(p, kind).why = {}
  PROVE  /\ p.runtime # Absent /\ p.validation # Absent
         /\ \A pair \in Lists(p, Platform(p, kind).value) : pair[1] # Absent /\ pair[2] = pair[1].entries
<1> DEFINE storages == Storages(p.storage)
           context == Context(p.version_source, storages.kept)
           runtime == Runtime(p.runtime, context, OnWindows(p))
           probes == Validation(p.validation, context, runtime.commands.kept)
           made == PlatformRead(p, kind, context, storages, runtime, probes)
           profiles == Profiles(p.runtime.environment, context, OnWindows(p))
           commands == Commands(p.runtime.commands, context, profiles)
<1>1. Platform(p, kind) = made
  BY DEF Platform
<1>2. storages.why = {} /\ runtime.profiles.why = {} /\ runtime.commands.why = {} /\ probes.why = {}
  <2>1. UNION {storages.why, runtime.profiles.why, runtime.commands.why, probes.why} \subseteq made.why
    <3> HIDE DEF storages, context, runtime, probes
    <3> QED BY DEF PlatformRead
  <2>2. made.why = {}
    BY <1>1
  <2> HIDE DEF storages, runtime, probes, made
  <2> QED BY <2>1, <2>2
<1>3. /\ made.value.storages = storages.kept /\ made.value.profiles = runtime.profiles.kept
      /\ made.value.commands = runtime.commands.kept /\ made.value.probes = probes.kept
  <2> HIDE DEF storages, context, runtime, probes
  <2> QED BY DEF PlatformRead
<1>4. p.storage # Absent /\ storages.kept = p.storage.entries
  BY <1>2, ListsKept DEF Kept
<1>5. p.runtime # Absent
  BY <1>2 DEF Runtime, Refused
<1>6. runtime.profiles = profiles /\ runtime.commands = commands
  BY <1>5 DEF Runtime, WithProfiles
<1>7. /\ p.runtime.environment # Absent /\ runtime.profiles.kept = p.runtime.environment.entries
      /\ p.runtime.commands # Absent /\ runtime.commands.kept = p.runtime.commands.entries
  <2>1. Kept(p.runtime.environment, profiles) /\ Kept(p.runtime.commands, commands)
    BY ListsKept
  <2> HIDE DEF profiles, commands, runtime
  <2> QED BY <1>2, <1>6, <2>1 DEF Kept
<1>8. p.validation # Absent
  BY <1>2 DEF Validation, Refused
<1>9. p.validation.probes # Absent /\ probes.kept = p.validation.probes.entries
  <2>1. Kept(p.validation.probes, probes)
    BY <1>8, ListsKept
  <2> HIDE DEF probes
  <2> QED BY <1>2, <2>1 DEF Kept
<1> HIDE DEF storages, context, runtime, probes, made, profiles, commands
<1> QED BY <1>1, <1>3, <1>4, <1>5, <1>7, <1>8, <1>9 DEF Lists

\* What was accepted of a definition was read of its first platform.
LEMMA AcceptedIsRead ==
  ASSUME ReadInv, step # "file", step # "end" \/ ended # "definition"
  PROVE  /\ platform = Platform(given.definition.platforms[1], SchemeOf(given.definition.tool)).value
         /\ Platform(given.definition.platforms[1], SchemeOf(given.definition.tool)).why = {}
         /\ 1 \in DOMAIN given.definition.platforms
         /\ Tool(given.definition.tool, given.definition.basename).why = {}
         /\ Read(given.definition).why = {}
<1> DEFINE d == given.definition
           kind == SchemeOf(d.tool)
           all == Platforms(d.platforms, kind)
<1>1. Read(d).why = {} /\ platform = Read(d).platforms[1] /\ isList(d.platforms)
  BY InputsAssumption DEF ReadInv, InputsAssumption, isDefinition
<1>2. Decodes(d.file)
  BY <1>1 DEF Read, File, Bad
<1>3. Read(d) = DefinitionRead(d, all)
  BY <1>2 DEF Read
<1>4. /\ \A i \in DOMAIN all : all[i].why = {}
      /\ DOMAIN Read(d).platforms = DOMAIN all /\ \A i \in DOMAIN all : Read(d).platforms[i] = all[i].value
      /\ Tool(d.tool, d.basename).why = {}
  <2> HIDE DEF all
  <2> QED BY <1>1, <1>3 DEF DefinitionRead
<1>5. Len(d.platforms) # 0 /\ ~(Len(d.platforms) > PlatformMax)
  <2>1. Len(d.platforms) = 0 => 1 \in DOMAIN all /\ all[1].why = {"missing"}
    BY DEF Platforms
  <2>2. Len(d.platforms) # 0 /\ Len(d.platforms) > PlatformMax => 1 \in DOMAIN all /\ all[1].why = {"limit"}
    BY DEF Platforms
  <2> HIDE DEF all
  <2> QED BY <1>4, <2>1, <2>2
<1>6. all = [i \in DOMAIN d.platforms |-> Platform(d.platforms[i], kind)]
  BY <1>5 DEF Platforms
<1>7. 1 \in DOMAIN d.platforms
  BY <1>1, <1>5 DEF isList
<1>8. all[1] = Platform(d.platforms[1], kind) /\ 1 \in DOMAIN all
  BY <1>6, <1>7
<1> HIDE DEF all, kind
<1> QED BY <1>1, <1>4, <1>7, <1>8 DEF kind

\* Nothing of a definition that was accepted is lost, whatever entries it has: every
\* check that leaves an entry out says why.
THEOREM NothingIsDropped == PipelineSpec => []NothingDroppedSilently
<1>1. ReadInv => NothingDroppedSilently
  BY AcceptedIsRead, PlatformKept DEF NothingDroppedSilently
<1> QED BY <1>1, ReadInvariant, PTL

-----------------------------------------------------------------------------
(* What an operation does and what it may do: the paths of a plan lie in   *)
(* the data root, and the scope derived from the plan lets them pass.      *)

\* What is joined to a directory lies in it.
LEMMA JoinedIsInside ==
  ASSUME NEW S, NEW root, root.parts \in Seq(S), root.parts # <<>>, NEW components \in Seq(S),
         NEW windows, NEW path \in Join(root, components, windows)
  PROVE  IsContained(root, path, windows) /\ path.parts = root.parts \o components
<1> DEFINE n == root.n + FoldSeq(LAMBDA c, sum : sum + c.n + 1, 0, components)
           holds == /\ \A i \in DOMAIN components : ValidateComponent(components[i], windows)
                    /\ n <= LogicalPathMaxBytes
<1>0. root # Absent => Join(root, components, windows) = When(holds, Path(root.role, root.parts \o components, n))
  BY DEF Join
<1>1. path.parts = root.parts \o components
  <2> HIDE DEF n, holds
  <2>1. root # Absent
    BY DEF Join
  <2>2. path = Path(root.role, root.parts \o components, n)
    BY <1>0, <2>1 DEF When
  <2> QED BY <2>2 DEF Path
<1>2. /\ Len(root.parts) \in 1 .. Len(root.parts \o components)
      /\ \A i \in DOMAIN root.parts : root.parts[i] = (root.parts \o components)[i]
  OBVIOUS
<1> QED BY <1>1, <1>2 DEF IsContained

\* What lies in a directory that lies in another lies in that one.
LEMMA InsideIsTransitive ==
  ASSUME NEW S, NEW outer, NEW middle, NEW inner, NEW windows,
         outer.parts \in Seq(S), middle.parts \in Seq(S), inner.parts \in Seq(S),
         IsContained(outer, middle, windows), IsContained(middle, inner, windows)
  PROVE  IsContained(outer, inner, windows)
<1>1. Len(outer.parts) \in 1 .. Len(middle.parts) /\ Len(middle.parts) \in 1 .. Len(inner.parts)
  BY DEF IsContained
<1>2. /\ DOMAIN outer.parts = 1 .. Len(outer.parts) /\ DOMAIN middle.parts = 1 .. Len(middle.parts)
      /\ Len(outer.parts) \in Nat /\ Len(middle.parts) \in Nat /\ Len(inner.parts) \in Nat
  OBVIOUS
<1>3. DOMAIN outer.parts \subseteq DOMAIN middle.parts
  BY <1>1, <1>2
<1>4. \A i \in DOMAIN outer.parts : Fold(outer.parts[i], windows) = Fold(inner.parts[i], windows)
  BY <1>3 DEF IsContained
<1>5. Len(outer.parts) \in 1 .. Len(inner.parts)
  BY <1>1, <1>2
<1> QED BY <1>4, <1>5 DEF IsContained

LEMMA OneIs == ASSUME NEW results, results # {} PROVE One(results) \in results
BY DEF One

(* What a plan takes from its request.                                     *)
TakenFrom(req, made) ==
  /\ made.writes = <<>> /\ made.client = req.client /\ made.invocation = req.invocation
  /\ DOMAIN made.downloads = {1} /\ made.downloads[1].url = req.item.url
  /\ made.downloads[1].destination = req.download /\ made.extracts[1].destination = req.staging
  /\ \A i \in DOMAIN made.storage : \E id \in DOMAIN req.roots.storage : made.storage[i].target = req.roots.storage[id]
  /\ DOMAIN made.probes = DOMAIN SetToSeq(req.platform.probes)
  /\ \A i \in DOMAIN made.probes :
       \E temp \in Join(req.probeTempRoot, <<SetToSeq(req.platform.probes)[i].id>>, req.roots.windows) :
         made.probes[i].writePaths = {temp}

LEMMA PlanIs ==
  ASSUME NEW req, "probeTemp" \in DOMAIN req.roots, NEW made \in BuildInstallPlan(req)
  PROVE  TakenFrom(req, made)
<1>1. PICK download \in buildPlanDownload(req), storage \in buildPlanStorage(req), probes \in buildPlanProbes(req) :
        made = [client |-> req.client, invocation |-> req.invocation, operation |-> req.operation,
                kind |-> "install", createdAt |-> req.createdAt, setup |-> Absent, inputs |-> req.inputs,
                summary |-> buildPlanSummary(req, buildPlanWarnings(req)),
                downloads |-> <<download>>, extracts |-> <<buildPlanExtract(req)>>, probes |-> probes,
                writes |-> <<>>, storage |-> storage, warnings |-> buildPlanWarnings(req)]
  BY DEF BuildInstallPlan, Then
<1>2. download.url = req.item.url /\ download.destination = req.download
  BY DEF buildPlanDownload, When
<1>3. ASSUME NEW i \in DOMAIN storage
      PROVE  \E id \in DOMAIN req.roots.storage : storage[i].target = req.roots.storage[id]
  <2> DEFINE s == SetToSeq(req.platform.storages)[i]
             entry == [id |-> s.id, kind |-> s.kind, scope |-> s.scope, purge |-> s.purge,
                       target |-> req.roots.storage[s.id], action |-> "create"]
             verdict == When(s.id \in DOMAIN req.roots.storage, entry)
  <2>1. verdict # {} /\ storage[i] = One(verdict)
    BY <1>3 DEF buildPlanStorage, Each
  <2>2. storage[i] \in verdict
    BY <2>1, OneIs
  <2> QED BY <2>2 DEF When
<1>4. /\ DOMAIN probes = DOMAIN SetToSeq(req.platform.probes)
      /\ \A i \in DOMAIN probes : \E temp \in Join(req.probeTempRoot, <<SetToSeq(req.platform.probes)[i].id>>, req.roots.windows) :
           probes[i].writePaths = {temp}
  <2>1. DOMAIN probes = DOMAIN SetToSeq(req.platform.probes)
    BY DEF buildPlanProbes, Each
  <2>2. ASSUME NEW i \in DOMAIN probes
        PROVE  \E temp \in Join(req.probeTempRoot, <<SetToSeq(req.platform.probes)[i].id>>, req.roots.windows) :
                 probes[i].writePaths = {temp}
    <3> DEFINE probe == SetToSeq(req.platform.probes)[i]
               verdict == UNION {buildPlanProbe(req, probe, rendered) : rendered \in probeRoots(req, probe)}
    <3>1. verdict # {} /\ probes[i] = One(verdict)
      BY <2>2 DEF buildPlanProbes, Each, Then
    <3>2. probes[i] \in verdict
      BY <3>1, OneIs
    <3>3. PICK rendered \in probeRoots(req, probe) : probes[i] \in buildPlanProbe(req, probe, rendered)
      BY <3>2
    <3>4. probes[i].writePaths = {rendered.probeTemp}
      BY <3>3 DEF buildPlanProbe, Then, IfGiven
    <3>5. PICK temp \in Join(req.probeTempRoot, <<probe.id>>, req.roots.windows) : rendered = [req.roots EXCEPT !.probeTemp = temp]
      BY DEF probeRoots, Then
    <3>6. rendered.probeTemp = temp
      BY <3>5
    <3> QED BY <3>4, <3>6
  <2> QED BY <2>1, <2>2
<1>5. made.writes = <<>> /\ made.client = req.client /\ made.invocation = req.invocation
  BY <1>1
<1>6. made.downloads = <<download>> /\ made.extracts = <<buildPlanExtract(req)>> /\ made.storage = storage /\ made.probes = probes
  BY <1>1
<1>7. /\ DOMAIN made.downloads = {1} /\ made.downloads[1].url = req.item.url
      /\ made.downloads[1].destination = req.download
  BY <1>2, <1>6
<1>8. made.extracts[1].destination = req.staging
  BY <1>6 DEF buildPlanExtract
<1> QED BY <1>3, <1>4, <1>5, <1>6, <1>7, <1>8 DEF TakenFrom

LEMMA DirectoryIs ==
  ASSUME NEW role, NEW S, NEW names \in Seq(S)
  PROVE  /\ Directory(role, names).parts \in Seq({Component(name) : name \in S})
         /\ Len(Directory(role, names).parts) = Len(names)
         /\ \A i \in DOMAIN names : Directory(role, names).parts[i] = Component(names[i])
<1> DEFINE parts == [i \in 1 .. Len(names) |-> Component(names[i])]
<1>1. Len(names) \in Nat /\ DOMAIN names = 1 .. Len(names)
  OBVIOUS
<1>2. Directory(role, names).parts = parts
  BY <1>1 DEF Directory, Path
<1>3. \A i \in 1 .. Len(names) : Component(names[i]) \in {Component(name) : name \in S}
  BY <1>1
<1>4. parts \in Seq({Component(name) : name \in S}) /\ Len(parts) = Len(names)
  <2> DEFINE X == {Component(name) : name \in S}
  <2>1. parts \in [1 .. Len(names) -> X]
    BY <1>3
  <2> HIDE DEF X
  <2>2. DOMAIN parts = 1 .. Len(names)
    OBVIOUS
  <2> HIDE DEF parts
  <2>3. parts \in Seq(X)
    BY <1>1, <2>1
  <2> QED BY <1>1, <2>2, <2>3 DEF X
<1> QED BY <1>1, <1>2, <1>4

\* The roots an operation writes below are of one component.
LEMMA RootsAre ==
  /\ DataRoot.parts \in Seq({Component("data")}) /\ Len(DataRoot.parts) = 1 /\ DataRoot.parts[1] = Component("data")
  /\ Len(Distribution.parts) = 1
  /\ DataRoot.role = "data-root" /\ Distribution.role = "distribution-root"
<1>1. /\ <<"data">> \in Seq({"data"}) /\ <<"distribution">> \in Seq({"distribution"})
      /\ Len(<<"data">>) = 1 /\ Len(<<"distribution">>) = 1 /\ 1 \in DOMAIN <<"data">> /\ <<"data">>[1] = "data"
  OBVIOUS
<1>2. /\ DataRoot.parts \in Seq({Component(name) : name \in {"data"}}) /\ Len(DataRoot.parts) = 1
      /\ DataRoot.parts[1] = Component("data")
  <2> DEFINE root == Directory("data-root", <<"data">>)
  <2>1. /\ root.parts \in Seq({Component(name) : name \in {"data"}}) /\ Len(root.parts) = Len(<<"data">>)
        /\ \A i \in DOMAIN <<"data">> : root.parts[i] = Component(<<"data">>[i])
    BY <1>1, DirectoryIs
  <2> HIDE DEF root
  <2>2. root.parts[1] = Component("data")
    BY <1>1, <2>1
  <2> QED BY <1>1, <2>1, <2>2 DEF DataRoot, root
<1>3. Len(Distribution.parts) = 1
  BY <1>1, DirectoryIs DEF Distribution
<1>4. {Component(name) : name \in {"data"}} = {Component("data")}
  OBVIOUS
<1> QED BY <1>2, <1>3, <1>4 DEF DataRoot, Distribution, Directory, Path

\* A path that begins with the component of the data root lies in it.
LEMMA InData ==
  ASSUME NEW path, NEW S, path.parts \in Seq(S), path.parts # <<>>, path.parts[1] = Component("data")
  PROVE  IsContained(DataRoot, path, onWindows)
<1>1. 1 \in 1 .. Len(path.parts)
  OBVIOUS
<1>2. DOMAIN DataRoot.parts = {1}
  BY RootsAre
<1> QED BY <1>1, <1>2, RootsAre DEF IsContained

\* The scope of a plan holds the two roots, as the plan of an installation writes
\* nowhere else, and what the plan downloads and runs.
LEMMA ScopeIs ==
  ASSUME plan.writes = <<>>
  PROVE  scope = [roots |-> {DataRoot, Distribution}, windows |-> onWindows,
                  processes |-> {processOf(plan.probes[i]) : i \in DOMAIN plan.probes},
                  downloads |-> {plan.downloads[i].url : i \in DOMAIN plan.downloads}]
<1> DEFINE its == [roots |-> {DataRoot, Distribution}, windows |-> onWindows,
                   processes |-> {processOf(plan.probes[i]) : i \in DOMAIN plan.probes},
                   downloads |-> {plan.downloads[i].url : i \in DOMAIN plan.downloads}]
<1>1. DOMAIN plan.writes = {}
  OBVIOUS
<1>2. {j \in DOMAIN plan.writes : plan.writes[j].action # "registry-value"} = {}
  BY <1>1
<1>3. planScopeRoots(plan, DataRoot, Distribution) = {{DataRoot, Distribution}}
  BY <1>2, RootsAre DEF planScopeRoots, When
<1>4. ScopeFromPlan(plan, DataRoot, Distribution, onWindows) = {its}
  BY <1>3 DEF ScopeFromPlan, Then
<1> HIDE DEF its
<1>5. One({its}) = its
  BY OneIs
<1> QED BY <1>4, <1>5 DEF scope, its

\* A write below the data root is allowed, as no deeper root has it.
LEMMA WriteAllowed ==
  ASSUME plan.writes = <<>>, NEW path, IsContained(DataRoot, path, onWindows)
  PROVE  AllowsWrite(scope, path) # {}
<1> DEFINE holds == {r \in scope.roots : IsContained(r, path, scope.windows)}
<1>1. scope.roots = {DataRoot, Distribution} /\ scope.windows = onWindows
  BY ScopeIs
<1>2. DataRoot \in holds /\ \A s \in holds : s \in {DataRoot, Distribution}
  BY <1>1
<1> HIDE DEF holds
<1>3. \A s \in holds : Len(s.parts) <= Len(DataRoot.parts)
  <2>1. \A s \in {DataRoot, Distribution} : Len(s.parts) = 1
    BY RootsAre
  <2>2. 1 <= 1
    OBVIOUS
  <2> QED BY <1>2, <2>1, <2>2
<1>4. DataRoot \in {r \in holds : \A s \in holds : Len(s.parts) <= Len(r.parts)}
  BY <1>2, <1>3
<1>5. AllowsWrite(scope, path) = {r.role : r \in {r \in holds : \A s \in holds : Len(s.parts) <= Len(r.parts)}}
  BY DEF AllowsWrite, holds
<1> QED BY <1>4, <1>5

\* A finite set as a sequence has each of its elements once.
LEMMA SetToSeqIs ==
  ASSUME NEW S, IsFiniteSet(S)
  PROVE  /\ Cardinality(S) \in Nat /\ SetToSeq(S) \in [1 .. Cardinality(S) -> S] /\ SetToSeq(S) \in Seq(S)
         /\ Len(SetToSeq(S)) = Cardinality(S) /\ IsInjective(SetToSeq(S))
         /\ \A e \in S : \E i \in DOMAIN SetToSeq(S) : SetToSeq(S)[i] = e
<1> DEFINE n == Cardinality(S)
           s == SetToSeq(S)
<1>1. n \in Nat /\ ExistsBijection(1 .. n, S)
  BY FS_CardinalityType
<1>2. PICK f \in Bijection(1 .. n, S) : TRUE
  BY <1>1 DEF ExistsBijection
<1>3. f \in [1 .. n -> S] /\ IsInjective(f)
  BY <1>2 DEF Bijection, Injection, IsInjective
<1>4. s \in [1 .. n -> S] /\ IsInjective(s)
  BY <1>3 DEF SetToSeq
<1> HIDE DEF s
<1>5. s \in Seq(S) /\ Len(s) = n /\ DOMAIN s = 1 .. n
  BY <1>1, <1>4
<1> DEFINE image == {s[i] : i \in 1 .. n}
<1>6. s \in Surjection(1 .. n, image) /\ s \in Injection(1 .. n, image)
  BY <1>4 DEF Injection, Surjection
<1>7. IsFiniteSet(1 .. n) /\ Cardinality(1 .. n) = n
  BY <1>1, FS_Interval
<1>8. image \subseteq S
  BY <1>4
<1>9. image = S
  <2> HIDE DEF image
  <2>1. Cardinality(image) = n
    BY <1>6, <1>7, FS_Surjection
  <2> QED BY <1>8, <2>1, FS_Subset
<1>10. \A e \in S : \E i \in DOMAIN s : s[i] = e
  BY <1>5, <1>9
<1> QED BY <1>1, <1>4, <1>5, <1>10 DEF s

(* While a plan is carried out it is the one that was made of what is now  *)
(* chosen; the outcomes are those of its first probes.                     *)
ScopeInv ==
  /\ ReadInv /\ ended # "scope"
  /\ step \in {"planned", "staged"} => plan \in BuildInstallPlan(request)
  /\ outcomes \in Seq(ToSet(outcomes))

\* The probes of a platform that was accepted are finite in number.
LEMMA ProbesFinite ==
  ASSUME ReadInv, step \notin {"file", "end"}
  PROVE  IsFiniteSet(platform.probes)
<1> DEFINE p == given.definition.platforms[1]
           kind == SchemeOf(given.definition.tool)
<1>1. platform = Platform(p, kind).value /\ Platform(p, kind).why = {} /\ 1 \in DOMAIN given.definition.platforms
  BY AcceptedIsRead
<1>2. isPlatform(p)
  BY <1>1, InputsAssumption DEF ReadInv, InputsAssumption, isDefinition
<1> HIDE DEF p, kind
<1>3. p.validation # Absent /\ p.validation.probes # Absent /\ platform.probes = p.validation.probes.entries
  BY <1>1, PlatformKept DEF Lists
<1> QED BY <1>2, <1>3 DEF isPlatform, isTable

\* The directories of an operation lie in the data root.
LEMMA DirectoriesInData ==
  LET S == {"data", "operations", operation, "probe", "payload", "cache", "archive"} IN
  /\ IsContained(DataRoot, request.download, onWindows)
  /\ IsContained(DataRoot, request.staging, onWindows)
  /\ IsContained(DataRoot, request.probeTempRoot, onWindows)
  /\ request.probeTempRoot.parts \in Seq({Component(name) : name \in S}) /\ request.probeTempRoot.parts # <<>>
  /\ \A id \in DOMAIN roots.storage : IsContained(DataRoot, roots.storage[id], onWindows)
<1> DEFINE S == {"data", "operations", operation, "probe", "payload", "cache", "archive"}
           X == {Component(name) : name \in S}
<1>1. ASSUME NEW role, NEW names \in Seq(S), Len(names) # 0, names[1] = "data"
      PROVE  /\ IsContained(DataRoot, Directory(role, names), onWindows)
             /\ Directory(role, names).parts \in Seq(X) /\ Directory(role, names).parts # <<>>
  <2> HIDE DEF S
  <2>1. /\ Directory(role, names).parts \in Seq(X) /\ Len(Directory(role, names).parts) = Len(names)
        /\ \A i \in DOMAIN names : Directory(role, names).parts[i] = Component(names[i])
    BY DirectoryIs
  <2> HIDE DEF X
  <2>2. 1 \in DOMAIN names /\ Len(<<>>) = 0
    BY <1>1
  <2>3. Directory(role, names).parts[1] = Component("data") /\ Directory(role, names).parts # <<>>
    BY <1>1, <2>1, <2>2
  <2> QED BY <2>1, <2>3, InData
<1>2. request.download = Directory("download-cache", <<"data", "cache", "archive">>)
  BY DEF request
<1>3. request.staging = Directory("staging", <<"data", "operations", operation, "payload">>)
  BY DEF request
<1>4. request.probeTempRoot = Directory("staging", <<"data", "operations", operation, "probe">>)
  BY DEF request
<1>5. ASSUME NEW names \in {<<"data", "cache", "archive">>, <<"data", "operations", operation, "payload">>,
                            <<"data", "operations", operation, "probe">>}
      PROVE  names \in Seq(S) /\ Len(names) # 0 /\ names[1] = "data"
  <2>1. /\ <<"data", "cache", "archive">> \in Seq(S) /\ <<"data", "operations", operation, "payload">> \in Seq(S)
        /\ <<"data", "operations", operation, "probe">> \in Seq(S)
    OBVIOUS
  <2>2. /\ Len(<<"data", "cache", "archive">>) = 3 /\ Len(<<"data", "operations", operation, "payload">>) = 4
        /\ Len(<<"data", "operations", operation, "probe">>) = 4
    OBVIOUS
  <2>3. /\ <<"data", "cache", "archive">>[1] = "data" /\ <<"data", "operations", operation, "payload">>[1] = "data"
        /\ <<"data", "operations", operation, "probe">>[1] = "data" /\ 3 # 0 /\ 4 # 0
    OBVIOUS
  <2> HIDE DEF S
  <2> QED BY <1>5, <2>1, <2>2, <2>3
<1>6. ASSUME NEW id \in DOMAIN roots.storage PROVE IsContained(DataRoot, roots.storage[id], onWindows)
  <2> DEFINE parts == <<Component("data"), Component("storage"), id>>
  <2>1. roots.storage[id] = Path("storage", parts, 40)
    BY <1>6 DEF roots
  <2>2. parts \in Seq({Component("data"), Component("storage"), id}) /\ parts # <<>> /\ parts[1] = Component("data")
    OBVIOUS
  <2> HIDE DEF parts
  <2>3. roots.storage[id].parts = parts
    BY <2>1 DEF Path
  <2> QED BY <2>2, <2>3, InData
<1> HIDE DEF S, X
<1>7. /\ IsContained(DataRoot, request.download, onWindows) /\ IsContained(DataRoot, request.staging, onWindows)
      /\ IsContained(DataRoot, request.probeTempRoot, onWindows)
      /\ request.probeTempRoot.parts \in Seq(X) /\ request.probeTempRoot.parts # <<>>
  BY <1>1, <1>2, <1>3, <1>4, <1>5
<1> QED BY <1>6, <1>7 DEF X, S

\* What the plan of a request writes lies in the data root.
LEMMA WrittenInData ==
  ASSUME plan \in BuildInstallPlan(request), NEW path \in Written
  PROVE  IsContained(DataRoot, path, onWindows)
<1>1. "probeTemp" \in DOMAIN request.roots /\ request.roots.windows = onWindows /\ request.roots.storage = roots.storage
  BY DEF request, roots
<1>2. TakenFrom(request, plan)
  BY <1>1, PlanIs
<1>3. /\ plan.downloads[1].destination = request.download /\ plan.extracts[1].destination = request.staging
      /\ \A i \in DOMAIN plan.storage : \E id \in DOMAIN request.roots.storage : plan.storage[i].target = request.roots.storage[id]
      /\ \A i \in DOMAIN plan.probes : \E temp \in Join(request.probeTempRoot, <<SetToSeq(request.platform.probes)[i].id>>, request.roots.windows) :
           plan.probes[i].writePaths = {temp}
  BY <1>2 DEF TakenFrom
<1>4. CASE path = plan.downloads[1].destination \/ path = plan.extracts[1].destination
  BY <1>3, <1>4, DirectoriesInData
<1>5. ASSUME NEW i \in DOMAIN plan.storage, path = plan.storage[i].target PROVE IsContained(DataRoot, path, onWindows)
  BY <1>1, <1>3, <1>5, DirectoriesInData
<1>6. ASSUME NEW i \in DOMAIN plan.probes, path \in plan.probes[i].writePaths PROVE IsContained(DataRoot, path, onWindows)
  <2> DEFINE id == SetToSeq(request.platform.probes)[i].id
             X == {Component(name) : name \in {"data", "operations", operation, "probe", "payload", "cache", "archive"}}
             S == X \cup {id}
             root == request.probeTempRoot
  <2>1. PICK temp \in Join(root, <<id>>, request.roots.windows) : plan.probes[i].writePaths = {temp}
    BY <1>3
  <2>2. path = temp
    BY <1>6, <2>1
  <2>3. root.parts \in Seq(X) /\ root.parts # <<>> /\ IsContained(DataRoot, root, onWindows)
    BY DirectoriesInData
  <2>4. Component("data") \in X
    OBVIOUS
  <2> HIDE DEF X, id, root
  <2>5. root.parts \in Seq(S) /\ <<id>> \in Seq(S)
    BY <2>3
  <2>6. DataRoot.parts \in Seq(S)
    <3>1. DataRoot.parts \in Seq({Component("data")})
      BY RootsAre
    <3>2. {Component("data")} \subseteq S
      BY <2>4
    <3> HIDE DEF S
    <3> QED BY <3>1, <3>2
  <2> HIDE DEF S
  <2>7. IsContained(root, temp, onWindows) /\ temp.parts = root.parts \o <<id>>
    BY <1>1, <2>1, <2>3, <2>5, JoinedIsInside
  <2>8. temp.parts \in Seq(S)
    BY <2>5, <2>7
  <2> QED BY <2>2, <2>3, <2>5, <2>6, <2>7, <2>8, InsideIsTransitive
<1> QED BY <1>4, <1>5, <1>6 DEF Written

LEMMA AppendIsSeq ==
  ASSUME NEW s, s \in Seq(ToSet(s)), NEW e
  PROVE  Append(s, e) \in Seq(ToSet(Append(s, e))) /\ Len(Append(s, e)) = Len(s) + 1
<1> DEFINE t == Append(s, e)
           X == ToSet(s) \cup {e}
<1>1. s \in Seq(X)
  OBVIOUS
<1> HIDE DEF X
<1>2. e \in X
  BY DEF X
<1>3. t \in Seq(X) /\ Len(t) = Len(s) + 1 /\ Len(t) \in Nat
  BY <1>1, <1>2
<1> HIDE DEF t
<1>4. \A i \in 1 .. Len(t) : t[i] \in ToSet(t)
  BY <1>3 DEF ToSet
<1>5. t \in [1 .. Len(t) -> ToSet(t)]
  BY <1>3, <1>4
<1>6. t \in Seq(ToSet(t))
  BY <1>3, <1>5
<1> QED BY <1>3, <1>6 DEF t

LEMMA ScopeInvStep == ScopeInv /\ [PipelineNext]_pipelineVars => ScopeInv'
<1> SUFFICES ASSUME ScopeInv, [PipelineNext]_pipelineVars PROVE ScopeInv'
  OBVIOUS
<1>0. ReadInv' /\ ReadInv
  BY ReadInvStep DEF ScopeInv
<1>1. ASSUME UNCHANGED <<platform, catalog, chosen, receipts>> PROVE request' = request
  BY <1>1 DEF request, roots, operation, onWindows
<1>2. CASE Parse
  BY <1>0, <1>2 DEF Parse, Stop, ScopeInv
<1>3. CASE Refresh
  BY <1>0, <1>3 DEF Refresh, Stop, ScopeInv
<1>4. CASE Choose
  <2>1. \A text : (IF text = Absent THEN ResolveLatest(catalog.items) ELSE ResolveExact(catalog.items, text)).code # "scope"
    BY DEF ResolveLatest, ResolveExact, Ok, Error
  <2> QED BY <1>0, <1>4, <2>1 DEF Choose, ScopeInv
<1>5. CASE MakePlan
  <2> DEFINE made == BuildInstallPlan(request)
  <2>1. CASE \E it \in made : EncodePlan(it)
    <3>1. plan' = One(made) /\ step' = "planned" /\ UNCHANGED <<platform, catalog, chosen, receipts, outcomes, ended>>
      BY <1>5, <2>1 DEF MakePlan
    <3>2. plan' \in made
      BY <2>1, <3>1, OneIs
    <3>3. request' = request
      BY <1>1, <3>1
    <3> QED BY <1>0, <3>1, <3>2, <3>3 DEF ScopeInv
  <2>2. CASE ~\E it \in made : EncodePlan(it)
    <3>1. Stop("plan")
      BY <1>5, <2>2 DEF MakePlan
    <3> QED BY <1>0, <3>1 DEF Stop, ScopeInv
  <2> QED BY <2>1, <2>2
<1>6. CASE Approve
  <2>1. step = "planned" /\ plan \in BuildInstallPlan(request) /\ plan.writes = <<>>
    <3>1. step = "planned" /\ plan \in BuildInstallPlan(request)
      BY <1>6 DEF Approve, ScopeInv
    <3>2. "probeTemp" \in DOMAIN request.roots
      BY DEF request, roots
    <3> QED BY <3>1, <3>2, PlanIs DEF TakenFrom
  <2>2. AllowsDownload(scope, chosen.url)
    <3>1. "probeTemp" \in DOMAIN request.roots /\ request.item = chosen
      BY DEF request, roots
    <3>2. DOMAIN plan.downloads = {1} /\ plan.downloads[1].url = chosen.url
      BY <2>1, <3>1, PlanIs DEF TakenFrom
    <3>3. scope.downloads = {plan.downloads[i].url : i \in DOMAIN plan.downloads}
      BY <2>1, ScopeIs
    <3> QED BY <3>2, <3>3 DEF AllowsDownload
  <2>3. \A path \in Written : AllowsWrite(scope, path) # {}
    BY <2>1, WrittenInData, WriteAllowed
  <2>4. Stop("approval") \/ (step' = "staged" /\ UNCHANGED <<given, platform, asked, catalog, chosen, plan, outcomes, receipts, ended>>)
    BY <1>6, <2>2, <2>3 DEF Approve
  <2>5. CASE Stop("approval")
    BY <1>0, <2>5 DEF Stop, ScopeInv
  <2>6. CASE step' = "staged" /\ UNCHANGED <<given, platform, asked, catalog, chosen, plan, outcomes, receipts, ended>>
    <3>1. request' = request
      BY <1>1, <2>6
    <3> QED BY <1>0, <2>1, <2>6, <3>1 DEF ScopeInv
  <2> QED BY <2>4, <2>5, <2>6
<1>7. CASE RunProbe
  <2> DEFINE probe == plan.probes[Len(outcomes) + 1]
  <2>1. step = "staged" /\ plan \in BuildInstallPlan(request) /\ Len(outcomes) < Len(plan.probes) /\ outcomes \in Seq(ToSet(outcomes))
    BY <1>7 DEF RunProbe, ScopeInv
  <2>2. "probeTemp" \in DOMAIN request.roots /\ request.platform = platform
    BY DEF request, roots
  <2>3. plan.writes = <<>> /\ DOMAIN plan.probes = DOMAIN SetToSeq(platform.probes)
    BY <2>1, <2>2, PlanIs DEF TakenFrom
  <2>4. Len(outcomes) + 1 \in DOMAIN plan.probes
    <3>1. IsFiniteSet(platform.probes)
      BY <1>0, <2>1, ProbesFinite
    <3> DEFINE n == Cardinality(platform.probes)
    <3>2. n \in Nat /\ DOMAIN plan.probes = 1 .. n
      BY <2>3, <3>1, SetToSeqIs
    <3> HIDE DEF n
    <3>3. Len(plan.probes) = n
      BY <3>2
    <3>4. Len(outcomes) \in Nat
      BY <2>1
    <3> QED BY <2>1, <3>2, <3>3, <3>4
  <2>5. AllowsProcess(scope, processOf(probe))
    <3>1. scope.processes = {processOf(plan.probes[i]) : i \in DOMAIN plan.probes}
      BY <2>3, ScopeIs
    <3> QED BY <2>4, <3>1 DEF AllowsProcess
  <2>6. \/ Stop("probe")
        \/ \E value : outcomes' = Append(outcomes, value) /\ UNCHANGED <<given, platform, step, asked, catalog, chosen, plan, receipts, ended>>
    BY <1>7, <2>5 DEF RunProbe
  <2>7. CASE Stop("probe")
    BY <1>0, <2>7 DEF Stop, ScopeInv
  <2>8. ASSUME NEW value, outcomes' = Append(outcomes, value), UNCHANGED <<given, platform, step, asked, catalog, chosen, plan, receipts, ended>>
        PROVE  ScopeInv'
    <3>1. request' = request
      BY <1>1, <2>8
    <3>2. outcomes' \in Seq(ToSet(outcomes'))
      BY <2>1, <2>8, AppendIsSeq
    <3> QED BY <1>0, <2>1, <2>8, <3>1, <3>2 DEF ScopeInv
  <2> QED BY <2>6, <2>7, <2>8
<1>8. CASE Record
  <2>1. <<>> \in Seq(ToSet(<<>>))
    OBVIOUS
  <2> QED BY <1>0, <1>8, <2>1 DEF Record, Stop, ScopeInv
<1>9. CASE UNCHANGED pipelineVars
  <2>1. request' = request
    BY <1>1, <1>9 DEF pipelineVars
  <2> QED BY <1>0, <1>9, <2>1 DEF pipelineVars, ScopeInv
<1> QED BY <1>2, <1>3, <1>4, <1>5, <1>6, <1>7, <1>8, <1>9 DEF PipelineNext

\* What is allowed to an operation is enough for what its plan does: a download, a
\* write or a process of an approved plan is never refused by the guarded ports,
\* whatever the definition, the version and the paths are.
THEOREM ScopeNeverRefuses == PipelineSpec => [](ended # "scope")
<1>1. PipelineInit => ScopeInv
  <2>1. <<>> \in Seq(ToSet(<<>>))
    OBVIOUS
  <2> QED BY <2>1 DEF PipelineInit, ReadInv, ScopeInv
<1>2. ScopeInv => ended # "scope"
  BY DEF ScopeInv
<1> QED BY <1>1, <1>2, ScopeInvStep, PTL DEF PipelineSpec

-----------------------------------------------------------------------------
(* The latest version, as the pipeline chooses it *)

\* A text is parsed to one version at most.
LEMMA ParsedOnce ==
  ASSUME NEW kind, NEW text, NEW v \in ParseVersion(kind, text)
  PROVE  ParseVersion(kind, text) = {v} /\ kind \in Schemes
BY DEF ParseVersion, Schemes

\* What LatestIsTheGreatest says, with the greatest items counted.
LEMMA LatestCounted ==
  ASSUME NEW kind \in Schemes, NEW items, OfScheme(kind, items),
         \A i \in DOMAIN items : items[i].lifecycle \in Lifecycles,
         requireCatalogItemOrder(items)
  PROVE  IF Latest(items) = {} THEN Cardinality(Greatest(items)) # 1
         ELSE /\ Cardinality(Greatest(items)) = 1
              /\ \A item : Latest(items) = {item} => {items[i] : i \in Greatest(items)} = {item}
<1>1. /\ \A i \in DOMAIN items : Greatest(items) = {i} => Latest(items) = {items[i]}
      /\ Latest(items) # {} => \E i \in DOMAIN items : Greatest(items) = {i}
  BY LatestIsTheGreatest
<1>2. Greatest(items) \subseteq DOMAIN items
  BY DEF Greatest, Offered
<1>3. IsFiniteSet(Greatest(items))
  <2>1. DOMAIN items = 1 .. Len(items) /\ Len(items) \in Nat
    BY DEF OfScheme, isList
  <2>2. IsFiniteSet(1 .. Len(items))
    BY <2>1, FS_Interval
  <2> QED BY <1>2, <2>1, <2>2, FS_Subset
<1>4. Cardinality(Greatest(items)) = 1 <=> \E i \in DOMAIN items : Greatest(items) = {i}
  BY <1>2, <1>3, FS_Singleton
<1>5. CASE Latest(items) = {}
  <2>1. \A i \in DOMAIN items : Greatest(items) # {i}
    BY <1>1, <1>5
  <2> QED BY <1>4, <1>5, <2>1
<1>6. CASE Latest(items) # {}
  <2>1. PICK i \in DOMAIN items : Greatest(items) = {i}
    BY <1>1, <1>6
  <2>2. Latest(items) = {items[i]} /\ {items[k] : k \in Greatest(items)} = {items[i]}
    BY <1>1, <2>1
  <2> QED BY <1>4, <1>6, <2>1, <2>2
<1> QED BY <1>5, <1>6

\* The codec of a catalog lets nothing through that is not in the order that the
\* choice of the latest version relies on.
LEMMA EncodedInOrder ==
  ASSUME VersionsParsed, catalog # Absent, EncodeCatalog(catalog, scheme)
  PROVE  /\ \E kind \in Schemes : OfScheme(kind, catalog.items)
         /\ \A i \in DOMAIN catalog.items : catalog.items[i].lifecycle \in Lifecycles
         /\ requireCatalogItemOrder(catalog.items)
<1> DEFINE items == catalog.items
           reread == [i \in DOMAIN items |-> [version |-> One(ParseVersion(scheme, items[i].version.text))]]
<1>1. isList(items)
  BY DEF VersionsParsed
<1>2. \A i \in DOMAIN items : /\ items[i].version.text \in VersionTexts
                              /\ items[i].version \in ParseVersion(scheme, items[i].version.text)
  BY DEF VersionsParsed
<1>3. \A i \in DOMAIN items : items[i].lifecycle \in Lifecycles
  BY DEF EncodeCatalog, catalogItemFields
<1>4. requireCatalogItemOrder(reread)
  BY DEF EncodeCatalog
<1> HIDE DEF items
<1>5. \A i \in DOMAIN items : reread[i].version = items[i].version
  <2> SUFFICES ASSUME NEW i \in DOMAIN items PROVE One(ParseVersion(scheme, items[i].version.text)) = items[i].version
    OBVIOUS
  <2>1. ParseVersion(scheme, items[i].version.text) = {items[i].version}
    BY <1>2, ParsedOnce
  <2>2. One({items[i].version}) = items[i].version
    BY DEF One
  <2> QED BY <2>1, <2>2
<1>6. DOMAIN reread = DOMAIN items /\ Len(reread) = Len(items)
  <2>1. DOMAIN reread = 1 .. Len(items) /\ Len(items) \in Nat
    BY <1>1 DEF isList
  <2>2. Len(reread) = Len(items)
    BY <2>1
  <2> QED BY <2>2
<1> HIDE DEF reread
<1>7. requireCatalogItemOrder(items)
  <2> SUFFICES ASSUME NEW i \in 2 .. Len(items) PROVE Newer(items[i - 1], items[i])
    BY DEF requireCatalogItemOrder
  <2>1. i \in DOMAIN items /\ i - 1 \in DOMAIN items
    BY <1>1 DEF isList
  <2>2. Newer(reread[i - 1], reread[i])
    BY <1>4, <1>6 DEF requireCatalogItemOrder
  <2> QED BY <1>5, <2>1, <2>2 DEF Newer
<1>8. \E kind \in Schemes : OfScheme(kind, items)
  <2>1. CASE DOMAIN items = {}
    BY <1>1, <2>1 DEF OfScheme, Schemes
  <2>2. CASE DOMAIN items # {}
    <3>1. scheme \in Schemes
      BY <1>2, <2>2, ParsedOnce
    <3>2. \A i \in DOMAIN items : items[i].version \in Versions /\ items[i].version.scheme = scheme
      BY <1>2, <3>1, ParsedAreVersions
    <3> QED BY <1>1, <3>1, <3>2 DEF OfScheme
  <2> QED BY <2>1, <2>2
<1> QED BY <1>3, <1>7, <1>8 DEF items

\* Nothing is chosen before there is a catalog, a catalog has passed its codec, and
\* what was chosen without a version being asked for is what ResolveLatest found in it.
LatestInv ==
  /\ step \in {"file", "definition"} => catalog = Absent
  /\ step \in {"file", "definition", "catalog"} => chosen = Absent
  /\ catalog # Absent => EncodeCatalog(catalog, scheme)
  /\ catalog # Absent /\ step # "catalog" /\ asked = Absent =>
       IF Latest(catalog.items) = {} THEN chosen = Absent ELSE chosen = One(Latest(catalog.items))

LEMMA LatestInvStep == LatestInv /\ [PipelineNext]_pipelineVars => LatestInv'
<1> SUFFICES ASSUME LatestInv, [PipelineNext]_pipelineVars PROVE LatestInv'
  OBVIOUS
<1>1. ASSUME UNCHANGED <<given, catalog, chosen, asked>>,
             step \in {"definition", "chosen", "planned", "staged", "end"} \/ catalog = Absent,
             step' = step \/ step' \in {"definition", "chosen", "planned", "staged", "end"},
             step' = "definition" => step \in {"file", "definition"}
      PROVE  LatestInv'
  BY <1>1 DEF LatestInv, scheme
<1>2. CASE Parse
  <2>1. UNCHANGED <<given, catalog, chosen, asked>> /\ catalog = Absent /\ step = "file"
    BY <1>2 DEF Parse, Stop, LatestInv
  <2>2. step' \in {"definition", "end"}
    BY <1>2 DEF Parse, Stop
  <2> QED BY <1>1, <2>1, <2>2
<1>3. CASE Refresh
  <2>1. step = "definition" /\ catalog = Absent /\ chosen = Absent
    BY <1>3 DEF Refresh, LatestInv
  <2>2. CASE step' = "end"
    <3>1. UNCHANGED <<given, catalog, chosen, asked>>
      BY <1>3, <2>2 DEF Refresh, Stop
    <3> QED BY <1>1, <2>1, <2>2, <3>1
  <2>3. CASE step' # "end"
    <3>1. EncodeCatalog(catalog', scheme) /\ step' = "catalog" /\ UNCHANGED <<given, chosen>>
      BY <1>3, <2>3 DEF Refresh, Stop
    <3> QED BY <2>1, <3>1 DEF LatestInv, scheme
  <2> QED BY <2>2, <2>3
<1>4. CASE Choose
  <2>1. step = "catalog" /\ chosen = Absent /\ step' \in {"chosen", "end"} /\ UNCHANGED <<given, catalog>>
    BY <1>4 DEF Choose, LatestInv
  <2>2. asked' = Absent => IF Latest(catalog.items) = {} THEN chosen' = Absent ELSE chosen' = One(Latest(catalog.items))
    <3> SUFFICES ASSUME asked' = Absent PROVE IF Latest(catalog.items) = {} THEN chosen' = Absent ELSE chosen' = One(Latest(catalog.items))
      OBVIOUS
    <3> DEFINE found == ResolveLatest(catalog.items)
    <3>1. IF found.code = "OK" THEN chosen' = found.value ELSE UNCHANGED chosen
      BY <1>4 DEF Choose
    <3>2. IF Latest(catalog.items) = {} THEN found.code # "OK" ELSE found.code = "OK" /\ found.value = One(Latest(catalog.items))
      BY DEF ResolveLatest, Ok, Error
    <3> QED BY <2>1, <3>1, <3>2
  <2> QED BY <2>1, <2>2 DEF LatestInv, scheme
<1>5. CASE MakePlan
  BY <1>1, <1>5 DEF MakePlan, Stop
<1>6. CASE Approve
  BY <1>1, <1>6 DEF Approve, Stop
<1>7. CASE RunProbe
  BY <1>1, <1>7 DEF RunProbe, Stop
<1>8. CASE Record
  BY <1>1, <1>8 DEF Record, Stop
<1>9. CASE UNCHANGED pipelineVars
  BY <1>9 DEF pipelineVars, LatestInv, scheme
<1> QED BY <1>2, <1>3, <1>4, <1>5, <1>6, <1>7, <1>8, <1>9 DEF PipelineNext

\* Whatever the catalog holds, in however many items of however many digits, the
\* version that is chosen when none is asked for is the greatest of those that are
\* offered as stable and still supported, as long as every item has the version of
\* its text; that it has is the part of AcceptedInstalls that needs the sort itself.
THEOREM LatestIsChosen == PipelineSpec /\ []VersionsParsed => []LatestIsGreatest
<1>1. ASSUME LatestInv, VersionsParsed PROVE LatestIsGreatest
  <2> SUFFICES ASSUME step # "catalog", catalog # Absent, asked = Absent
               PROVE  IF chosen = Absent THEN Cardinality(Greatest(catalog.items)) # 1
                      ELSE /\ {catalog.items[i] : i \in Greatest(catalog.items)} = {chosen}
                           /\ Cardinality(Greatest(catalog.items)) = 1
    BY DEF LatestIsGreatest
  <2>1. EncodeCatalog(catalog, scheme)
    BY <1>1 DEF LatestInv
  <2>2. IF Latest(catalog.items) = {} THEN chosen = Absent ELSE chosen = One(Latest(catalog.items))
    BY <1>1 DEF LatestInv
  <2>3. PICK kind \in Schemes : OfScheme(kind, catalog.items)
    BY <1>1, <2>1, EncodedInOrder
  <2>4. /\ \A i \in DOMAIN catalog.items : catalog.items[i].lifecycle \in Lifecycles
        /\ requireCatalogItemOrder(catalog.items)
    BY <1>1, <2>1, EncodedInOrder
  <2>5. IF Latest(catalog.items) = {} THEN Cardinality(Greatest(catalog.items)) # 1
        ELSE /\ Cardinality(Greatest(catalog.items)) = 1
             /\ \A item : Latest(catalog.items) = {item} => {catalog.items[i] : i \in Greatest(catalog.items)} = {item}
    BY <2>3, <2>4, LatestCounted
  <2>6. CASE Latest(catalog.items) = {}
    BY <2>2, <2>5, <2>6
  <2>7. CASE Latest(catalog.items) # {}
    <3>1. PICK i \in DOMAIN catalog.items : Greatest(catalog.items) = {i}
      BY <2>3, <2>4, <2>7, LatestIsTheGreatest
    <3>2. Latest(catalog.items) = {catalog.items[i]}
      BY <2>3, <2>4, <3>1, LatestIsTheGreatest
    <3>3. One({catalog.items[i]}) = catalog.items[i]
      BY DEF One
    <3>4. chosen = catalog.items[i] /\ chosen # Absent
      BY <1>1, <2>2, <2>7, <3>2, <3>3 DEF VersionsParsed
    <3> QED BY <2>5, <2>7, <3>2, <3>4
  <2> QED BY <2>6, <2>7
<1>2. PipelineInit => LatestInv
  BY DEF PipelineInit, LatestInv
<1> QED BY <1>1, <1>2, LatestInvStep, PTL DEF PipelineSpec

-----------------------------------------------------------------------------
(* Two installs of the same: what of a probe and of the targets depends on *)
(* the operation is what lies in a directory of its own.                   *)

ownParts(op, last) == <<Component("data"), Component("operations"), Component(op), Component(last)>>
payloadAt(op) == Directory("payload", <<"data", "operations", op, "payload">>)
probesAt(op) == Directory("staging", <<"data", "operations", op, "probe">>)
storageParts(id) == <<Component("data"), Component("storage"), id>>
storageDirs == [id \in {s.id : s \in platform.storages} |-> Path("storage", storageParts(id), 40)]
rootsAt(op, temp) ==
  [version |-> chosen.version.text, platform |-> platform.id, payload |-> payloadAt(op),
   probeTemp |-> temp, windows |-> onWindows, storage |-> storageDirs]

\* The roots of a request, of a probe and of the targets are those of the operation.
LEMMA RootsOfOperation ==
  /\ roots = rootsAt(operation, Absent)
  /\ \A temp : [request.roots EXCEPT !.probeTemp = temp] = rootsAt(operation, temp)
  /\ [roots EXCEPT !.probeTemp = Absent] = rootsAt(operation, Absent)
  /\ request.probeTempRoot = probesAt(operation)
<1>1. roots = rootsAt(operation, Absent)
  BY DEF roots, rootsAt, payloadAt, storageDirs, storageParts
<1>2. request.roots = roots /\ request.probeTempRoot = probesAt(operation)
  BY DEF request, probesAt
<1>3. \A temp : [rootsAt(operation, Absent) EXCEPT !.probeTemp = temp] = rootsAt(operation, temp)
  BY DEF rootsAt
<1> QED BY <1>1, <1>2, <1>3

\* The directories of an operation, component by component.
LEMMA OwnParts ==
  ASSUME NEW op
  PROVE  payloadAt(op).parts = ownParts(op, "payload") /\ probesAt(op).parts = ownParts(op, "probe")
<1>1. ASSUME NEW role, NEW last PROVE Directory(role, <<"data", "operations", op, last>>).parts = ownParts(op, last)
  <2> DEFINE names == <<"data", "operations", op, last>>
  <2>1. DOMAIN names = 1 .. 4 /\ names[1] = "data" /\ names[2] = "operations" /\ names[3] = op /\ names[4] = last
    OBVIOUS
  <2>2. Directory(role, names).parts = [i \in DOMAIN names |-> Component(names[i])]
    BY DEF Directory, Path
  <2> HIDE DEF names
  <2>3. [i \in DOMAIN names |-> Component(names[i])] = ownParts(op, last)
    BY <2>1 DEF ownParts
  <2>4. Directory(role, names).parts = ownParts(op, last)
    BY <2>2, <2>3
  <2> QED BY <2>4 DEF names
<1> QED BY <1>1 DEF payloadAt, probesAt

\* What Join answers, if it does.
LEMMA JoinIs ==
  ASSUME NEW root, NEW components, NEW windows
  PROVE  /\ \A p \in Join(root, components, windows) : p.parts = root.parts \o components
         /\ \A p, q \in Join(root, components, windows) : p = q
<1> DEFINE n == root.n + FoldSeq(LAMBDA c, sum : sum + c.n + 1, 0, components)
           holds == /\ \A i \in DOMAIN components : ValidateComponent(components[i], windows)
                    /\ n <= LogicalPathMaxBytes
           joined == Path(root.role, root.parts \o components, n)
<1>1. root # Absent => Join(root, components, windows) = When(holds, joined)
  BY DEF Join
<1>2. root = Absent => Join(root, components, windows) = {}
  BY DEF Join
<1>3. joined.parts = root.parts \o components
  BY DEF Path
<1> HIDE DEF joined, holds
<1> QED BY <1>1, <1>2, <1>3 DEF When

\* A component of a list that was appended to.
LEMMA HeadStays ==
  ASSUME NEW S, NEW T0, NEW head \in Seq(S), NEW rest \in Seq(T0)
  PROVE  /\ Len(head \o rest) = Len(head) + Len(rest)
         /\ \A i \in DOMAIN head : i \in DOMAIN (head \o rest) /\ (head \o rest)[i] = head[i]
         /\ SubSeq(head \o rest, Len(head) + 1, Len(head \o rest)) = rest
<1> DEFINE X == S \cup T0
<1>1. head \in Seq(X) /\ rest \in Seq(X)
  OBVIOUS
<1> HIDE DEF X
<1>2. /\ Len(head \o rest) = Len(head) + Len(rest) /\ head \o rest \in Seq(X)
      /\ Len(head) \in Nat /\ Len(rest) \in Nat /\ DOMAIN head = 1 .. Len(head) /\ DOMAIN rest = 1 .. Len(rest)
      /\ DOMAIN (head \o rest) = 1 .. Len(head \o rest)
      /\ \A i \in 1 .. Len(head) : (head \o rest)[i] = head[i]
      /\ \A i \in 1 .. Len(rest) : (head \o rest)[Len(head) + i] = rest[i]
  BY <1>1
<1>3. SubSeq(head \o rest, Len(head) + 1, Len(head \o rest)) = rest
  <2> DEFINE all == head \o rest
             cut == SubSeq(all, Len(head) + 1, Len(all))
  <2>1. cut = [i \in 1 .. Len(rest) |-> all[Len(head) + i]]
    <3> HIDE DEF all
    <3>1. cut = [i \in 1 .. (Len(all) - (Len(head) + 1) + 1) |-> all[i + (Len(head) + 1) - 1]]
      BY <1>2, SMT DEF all
    <3>2. Len(all) - (Len(head) + 1) + 1 = Len(rest)
      BY <1>2 DEF all
    <3>3. \A i \in 1 .. Len(rest) : i + (Len(head) + 1) - 1 = Len(head) + i
      BY <1>2
    <3> QED BY <3>1, <3>2, <3>3
  <2>2. cut = [i \in 1 .. Len(rest) |-> rest[i]]
    BY <1>2, <2>1
  <2>3. rest = [i \in 1 .. Len(rest) |-> rest[i]]
    BY <1>2
  <2> QED BY <2>2, <2>3
<1> QED BY <1>2, <1>3

\* Components of an operation's directories, of two operations and of the storage.
LEMMA OwnComponents ==
  ASSUME NEW op, NEW last
  PROVE  /\ ownParts(op, last) \in Seq(ToSet(ownParts(op, last))) /\ Len(ownParts(op, last)) = 4
         /\ DOMAIN ownParts(op, last) = 1 .. 4
         /\ \A q : Component(op) = Component(q) => op = q
         /\ ownParts(op, last)[3] = Component(op) /\ ownParts(op, last)[2] = Component("operations")
<1>1. DOMAIN ownParts(op, last) = 1 .. 4 /\ Len(ownParts(op, last)) = 4
  BY DEF ownParts
<1>2. ownParts(op, last)[3] = Component(op) /\ ownParts(op, last)[2] = Component("operations")
  BY DEF ownParts
<1>3. \A q : Component(op) = Component(q) => op = q
  BY DEF Component, T
<1>4. ownParts(op, last) \in Seq(ToSet(ownParts(op, last)))
  BY DEF ownParts, ToSet
<1> QED BY <1>1, <1>2, <1>3, <1>4


\* The temporary directory of a probe lies in its operation's.
LEMMA TempParts ==
  ASSUME NEW op, NEW id, NEW windows, NEW temp \in Join(probesAt(op), <<id>>, windows)
  PROVE  /\ temp.parts = ownParts(op, "probe") \o <<id>>
         /\ temp.parts \in Seq(ToSet(ownParts(op, "probe")) \cup {id})
         /\ Len(temp.parts) = 5 /\ 3 \in DOMAIN temp.parts /\ temp.parts[3] = Component(op)
<1>1. temp.parts = ownParts(op, "probe") \o <<id>>
  BY JoinIs, OwnParts
<1> DEFINE head == ownParts(op, "probe")
           S == ToSet(head)
<1>2. head \in Seq(S) /\ Len(head) = 4 /\ DOMAIN head = 1 .. 4 /\ head[3] = Component(op)
  BY OwnComponents
<1> DEFINE last == <<id>>
<1>3. last \in Seq({id}) /\ Len(last) = 1
  OBVIOUS
<1> HIDE DEF head, S, last
<1>4. Len(head \o last) = 5 /\ 3 \in DOMAIN (head \o last) /\ (head \o last)[3] = Component(op)
  <2>1. /\ Len(head \o last) = Len(head) + Len(last)
        /\ \A i \in DOMAIN head : i \in DOMAIN (head \o last) /\ (head \o last)[i] = head[i]
    <3>1. head \in Seq(S) /\ last \in Seq({id})
      BY <1>2, <1>3
    <3> QED BY <3>1, HeadStays
  <2>2. 3 \in DOMAIN head
    BY <1>2
  <2> QED BY <1>2, <1>3, <2>1, <2>2
<1>5. head \o last \in Seq(S \cup {id})
  BY <1>2, <1>3
<1> QED BY <1>1, <1>4, <1>5 DEF head, S, last

\* A path in a directory of the operation is another one for another operation.
LEMMA OwnPathsDiffer ==
  ASSUME NEW op, NEW other, op # other, NEW S1, NEW S2, NEW root, NEW twin, NEW windows,
         root.parts \in Seq(S1), twin.parts \in Seq(S2),
         3 \in DOMAIN root.parts, root.parts[3] = Component(op),
         3 \in DOMAIN twin.parts, twin.parts[3] = Component(other),
         NEW components, components \in Seq(ToSet(components)),
         NEW p \in Join(root, components, windows), NEW q \in Join(twin, components, windows)
  PROVE  p # q
<1>1. p.parts = root.parts \o components /\ q.parts = twin.parts \o components
  BY JoinIs
<1>2. (root.parts \o components)[3] = Component(op)
  BY HeadStays
<1>3. (twin.parts \o components)[3] = Component(other)
  BY HeadStays
<1>4. Component(op) # Component(other)
  BY OwnComponents
<1> QED BY <1>1, <1>2, <1>3, <1>4

(* The directories two operations have for the same probe.                 *)
Temps(op, id) == Join(probesAt(op), <<id>>, onWindows)

\* A path that is rendered for two operations is the same just when it is in no
\* directory of the operation.
LEMMA PathsAgree ==
  ASSUME NEW op, NEW other, op # other, NEW id, NEW temp \in Temps(op, id), NEW twin \in Temps(other, id),
         NEW x, isPath(x), NEW p \in RenderPath(x, rootsAt(op, temp)), NEW q \in RenderPath(x, rootsAt(other, twin))
  PROVE  p = q <=> ~ofOperation(x)
<1> DEFINE left == rootsAt(op, temp)
           right == rootsAt(other, twin)
<1>1. /\ left.payload = payloadAt(op) /\ right.payload = payloadAt(other) /\ left.probeTemp = temp
      /\ right.probeTemp = twin /\ left.storage = storageDirs /\ right.storage = storageDirs
      /\ left.windows = onWindows /\ right.windows = onWindows
  BY DEF rootsAt
<1> HIDE DEF left, right
<1>2. PICK from \in resolvePathRoot(x.root, left), to \in resolvePathRoot(x.root, right) :
        p \in Join(from, x.parts, onWindows) /\ q \in Join(to, x.parts, onWindows)
  <2>1. p \in RenderPath(x, left) /\ q \in RenderPath(x, right)
    BY DEF left, right
  <2> QED BY <1>1, <2>1 DEF RenderPath, Then
<1>3. x.parts \in Seq(ToSet(x.parts))
  BY DEF isPath
<1>4. CASE x.root.kind = "payload"
  <2>1. from = payloadAt(op) /\ to = payloadAt(other)
    BY <1>1, <1>2, <1>4 DEF resolvePathRoot
  <2>2. /\ from.parts = ownParts(op, "payload") /\ to.parts = ownParts(other, "payload")
        /\ 3 \in 1 .. 4
    BY <2>1, OwnParts
  <2>3. /\ from.parts \in Seq(ToSet(from.parts)) /\ 3 \in DOMAIN from.parts /\ from.parts[3] = Component(op)
        /\ to.parts \in Seq(ToSet(to.parts)) /\ 3 \in DOMAIN to.parts /\ to.parts[3] = Component(other)
    BY <2>2, OwnComponents
  <2>4. p # q
    BY <1>2, <1>3, <2>3, OwnPathsDiffer
  <2> QED BY <1>4, <2>4 DEF ofOperation
<1>5. CASE x.root.kind = "probe_temp"
  <2>1. from = temp /\ to = twin
    BY <1>1, <1>2, <1>5 DEF resolvePathRoot
  <2> DEFINE S1 == ToSet(ownParts(op, "probe")) \cup {id}
             S2 == ToSet(ownParts(other, "probe")) \cup {id}
  <2>2. /\ from.parts \in Seq(S1) /\ 3 \in DOMAIN from.parts /\ from.parts[3] = Component(op)
        /\ to.parts \in Seq(S2) /\ 3 \in DOMAIN to.parts /\ to.parts[3] = Component(other)
    BY <2>1, TempParts DEF Temps
  <2> HIDE DEF S1, S2
  <2>3. p # q
    BY <1>2, <1>3, <2>2, OwnPathsDiffer
  <2> QED BY <1>5, <2>3 DEF ofOperation
<1>6. CASE x.root.kind \notin {"payload", "probe_temp"}
  <2>1. from = storageDirs[x.root.name] /\ to = storageDirs[x.root.name]
    BY <1>1, <1>2, <1>6 DEF resolvePathRoot
  <2>2. p = q
    BY <1>2, <2>1, JoinIs
  <2> QED BY <1>6, <2>2 DEF ofOperation
<1> QED BY <1>4, <1>5, <1>6

\* The same of an argument, which may be no path at all.
LEMMA ArgsAgree ==
  ASSUME NEW op, NEW other, op # other, NEW id, NEW temp \in Temps(op, id), NEW twin \in Temps(other, id),
         NEW x, isPath(x), NEW a \in ArgOf(x, rootsAt(op, temp)), NEW b \in ArgOf(x, rootsAt(other, twin))
  PROVE  a.value = b.value <=> ~ofOperation(x)
<1>1. CASE x.tokens = {}
  <2>1. a.value = x /\ b.value = x
    BY <1>1 DEF ArgOf, Then
  <2>2. x.root = NoToken
    BY <1>1 DEF isPath
  <2>3. ~ofOperation(x)
    <3>1. NoToken.kind = "none"
      BY DEF NoToken, Token
    <3> QED BY <2>2, <3>1 DEF ofOperation
  <2> QED BY <2>1, <2>3
<1>2. CASE x.tokens # {}
  <2>1. a.value \in RenderPath(x, rootsAt(op, temp)) /\ b.value \in RenderPath(x, rootsAt(other, twin))
    BY <1>2 DEF ArgOf, Then
  <2> QED BY <2>1, PathsAgree
<1> QED BY <1>1, <1>2

(* A path as it is below the payload of an operation.                      *)
Remainder(op, p) == SubSeq(p.parts, Len(payloadAt(op).parts) + 1, Len(p.parts))

\* What a command's text has below the payload is the same for two operations, and
\* a text that is elsewhere for one is elsewhere for the other.
LEMMA RelativeAgrees ==
  ASSUME NEW op, NEW other, NEW x, isPath(x),
         NEW p \in RenderPath(x, rootsAt(op, Absent)), IsContained(payloadAt(op), p, onWindows),
         NEW q \in RenderPath(x, rootsAt(other, Absent))
  PROVE  IsContained(payloadAt(other), q, onWindows) /\ Remainder(op, p) = Remainder(other, q)
<1> DEFINE left == rootsAt(op, Absent)
           right == rootsAt(other, Absent)
<1>1. /\ left.payload = payloadAt(op) /\ right.payload = payloadAt(other) /\ left.probeTemp = Absent
      /\ left.storage = storageDirs /\ left.windows = onWindows /\ right.windows = onWindows
  BY DEF rootsAt
<1> HIDE DEF left, right
<1>2. PICK from \in resolvePathRoot(x.root, left), to \in resolvePathRoot(x.root, right) :
        p \in Join(from, x.parts, onWindows) /\ q \in Join(to, x.parts, onWindows)
  <2>1. p \in RenderPath(x, left) /\ q \in RenderPath(x, right)
    BY DEF left, right
  <2> QED BY <1>1, <2>1 DEF RenderPath, Then
<1>3. x.parts \in Seq(ToSet(x.parts)) /\ p.parts = from.parts \o x.parts /\ q.parts = to.parts \o x.parts
  BY <1>2, JoinIs DEF isPath
<1>4. CASE x.root.kind = "payload"
  <2> DEFINE head == ownParts(op, "payload")
             tail == ownParts(other, "payload")
  <2>1. from = payloadAt(op) /\ to = payloadAt(other)
    BY <1>1, <1>2, <1>4 DEF resolvePathRoot
  <2>2. from.parts = head /\ to.parts = tail
    BY <2>1, OwnParts
  <2>3. head \in Seq(ToSet(head)) /\ tail \in Seq(ToSet(tail)) /\ Len(head) = 4 /\ Len(tail) = 4
    BY OwnComponents
  <2> HIDE DEF head, tail
  <2>4. SubSeq(head \o x.parts, Len(head) + 1, Len(head \o x.parts)) = x.parts
    <3> DEFINE rest == x.parts
               S == ToSet(head)
               T0 == ToSet(rest)
    <3>1. head \in Seq(S) /\ rest \in Seq(T0)
      BY <1>3, <2>3
    <3> HIDE DEF rest, S, T0
    <3>2. SubSeq(head \o rest, Len(head) + 1, Len(head \o rest)) = rest
      BY <3>1, HeadStays
    <3> QED BY <3>2 DEF rest
  <2>5. SubSeq(tail \o x.parts, Len(tail) + 1, Len(tail \o x.parts)) = x.parts
    <3> DEFINE rest == x.parts
               S == ToSet(tail)
               T0 == ToSet(rest)
    <3>1. tail \in Seq(S) /\ rest \in Seq(T0)
      BY <1>3, <2>3
    <3> HIDE DEF rest, S, T0
    <3>2. SubSeq(tail \o rest, Len(tail) + 1, Len(tail \o rest)) = rest
      BY <3>1, HeadStays
    <3> QED BY <3>2 DEF rest
  <2>6. IsContained(to, q, onWindows)
    <3> DEFINE S == ToSet(tail) \cup ToSet(x.parts)
    <3>1. to.parts \in Seq(S) /\ x.parts \in Seq(S)
      BY <1>3, <2>2, <2>3
    <3>2. to.parts # <<>>
      BY <2>2 DEF tail, ownParts
    <3> HIDE DEF S
    <3> QED BY <1>2, <3>1, <3>2, JoinedIsInside
  <2> QED BY <1>3, <2>1, <2>2, <2>4, <2>5, <2>6 DEF Remainder
<1>5. CASE x.root.kind # "payload"
  <2>1. from = storageDirs[x.root.name] /\ x.root.name \in DOMAIN storageDirs
    BY <1>1, <1>2, <1>5 DEF resolvePathRoot
  <2> DEFINE head == storageParts(x.root.name)
  <2>2. from.parts = head
    BY <2>1 DEF storageDirs, Path
  <2>3. head \in Seq(ToSet(head)) /\ DOMAIN head = 1 .. 3 /\ head[2] = Component("storage")
    BY DEF storageParts, ToSet
  <2> HIDE DEF head
  <2>4. p.parts[2] = Component("storage")
    BY <1>3, <2>2, <2>3, HeadStays
  <2>5. 2 \in DOMAIN payloadAt(op).parts /\ payloadAt(op).parts[2] = Component("operations")
    BY OwnParts, OwnComponents
  <2>6. Fold(Component("operations"), onWindows) = Fold(Component("storage"), onWindows)
    BY <2>4, <2>5 DEF IsContained
  <2>7. \A name \in {"operations", "storage"} : Fold(Component(name), onWindows) = Component(name)
    BY DEF Fold, Component, T
  <2>8. Component("operations") = Component("storage")
    BY <2>6, <2>7
  <2> QED BY <2>8 DEF Component, T
<1> QED BY <1>4, <1>5

(* The texts of a command that are rendered to find its targets.           *)
TextsOf(c) == {c.target} \cup {a \in c.args.entries : a.tokens # {}}

rendered(op) == UNION {PathsOfCommand(c, rootsAt(op, Absent)) : c \in RequiredCommands(platform)}

\* A command target below the payload of one operation is one below that of another.
LEMMA TargetsWithin ==
  ASSUME NEW op, NEW other, \A c \in RequiredCommands(platform) : \A x \in TextsOf(c) : isPath(x),
         NEW s \in CollectCommandTargets(platform, rootsAt(op, Absent)),
         NEW t \in CollectCommandTargets(platform, rootsAt(other, Absent))
  PROVE  s \subseteq t
<1>1. /\ {} \notin rendered(op) /\ s = payloadRelative(UNION rendered(op), rootsAt(op, Absent))
      /\ {} \notin rendered(other) /\ t = payloadRelative(UNION rendered(other), rootsAt(other, Absent))
  BY DEF CollectCommandTargets, When, rendered
<1>2. \A o, c : PathsOfCommand(c, rootsAt(o, Absent)) = {RenderPath(x, rootsAt(o, Absent)) : x \in TextsOf(c)}
  BY DEF PathsOfCommand, TextsOf
<1>3. \A o : rootsAt(o, Absent).payload = payloadAt(o) /\ rootsAt(o, Absent).windows = onWindows
  BY DEF rootsAt
<1> SUFFICES ASSUME NEW e \in s PROVE e \in t
  OBVIOUS
<1>4. PICK p \in UNION rendered(op) :
        /\ IsContained(payloadAt(op), p, onWindows) /\ e # <<>>
        /\ e = SubSeq(p.parts, Len(payloadAt(op).parts) + 1, Len(p.parts))
  <2> QED BY <1>1, <1>3 DEF payloadRelative
<1>5. PICK c \in RequiredCommands(platform) : \E x \in TextsOf(c) : p \in RenderPath(x, rootsAt(op, Absent))
  BY <1>2, <1>4 DEF rendered
<1>0. PICK x \in TextsOf(c) : p \in RenderPath(x, rootsAt(op, Absent))
  BY <1>5
<1>6. RenderPath(x, rootsAt(other, Absent)) \in rendered(other)
  BY <1>0, <1>2 DEF rendered
<1>7. PICK q \in RenderPath(x, rootsAt(other, Absent)) : TRUE
  <2> QED BY <1>1, <1>6
<1>8. /\ IsContained(payloadAt(other), q, onWindows)
      /\ e = SubSeq(q.parts, Len(payloadAt(other).parts) + 1, Len(q.parts))
  <2>1. isPath(x)
    BY <1>0
  <2>2. /\ p \in RenderPath(x, rootsAt(op, Absent)) /\ IsContained(payloadAt(op), p, onWindows)
        /\ q \in RenderPath(x, rootsAt(other, Absent))
    BY <1>0, <1>4, <1>7
  <2>3. IsContained(payloadAt(other), q, onWindows) /\ Remainder(op, p) = Remainder(other, q)
    BY <2>1, <2>2, RelativeAgrees
  <2> QED BY <1>4, <2>3 DEF Remainder
<1>9. q \in UNION rendered(other)
  <2> QED BY <1>6, <1>7
<1> QED BY <1>1, <1>3, <1>4, <1>8, <1>9 DEF payloadRelative

\* Two finite sets one after the other, as a sequence, have the elements of both.
LEMMA BothInOrder ==
  ASSUME NEW A, NEW B, IsFiniteSet(A), IsFiniteSet(B)
  PROVE  LET both == SetToSeq(A) \o SetToSeq(B) IN
         /\ \A j \in DOMAIN both : both[j] \in A \cup B
         /\ \A x \in A \cup B : \E j \in DOMAIN both : both[j] = x
<1> DEFINE a == SetToSeq(A)
           b == SetToSeq(B)
           both == a \o b
<1>1. /\ a \in Seq(A) /\ \A e \in A : \E i \in DOMAIN a : a[i] = e
      /\ b \in Seq(B) /\ \A e \in B : \E i \in DOMAIN b : b[i] = e
  BY SetToSeqIs
<1> HIDE DEF a, b
<1>2. a \in Seq(A \cup B) /\ b \in Seq(A \cup B)
  BY <1>1
<1>3. /\ both \in Seq(A \cup B) /\ Len(a) \in Nat /\ Len(b) \in Nat /\ Len(both) = Len(a) + Len(b)
      /\ DOMAIN a = 1 .. Len(a) /\ DOMAIN b = 1 .. Len(b) /\ DOMAIN both = 1 .. Len(both)
      /\ \A i \in 1 .. Len(a) : both[i] = a[i]
      /\ \A i \in 1 .. Len(b) : both[Len(a) + i] = b[i]
  BY <1>2
<1> HIDE DEF both
<1>4. \A j \in DOMAIN both : both[j] \in A \cup B
  BY <1>3
<1>5. ASSUME NEW x \in A PROVE \E j \in DOMAIN both : both[j] = x
  <2>1. PICK i \in DOMAIN a : a[i] = x
    BY <1>1, <1>5
  <2>2. i \in DOMAIN both /\ both[i] = x
    BY <1>3, <2>1
  <2> QED BY <2>2
<1>6. ASSUME NEW x \in B PROVE \E j \in DOMAIN both : both[j] = x
  <2>1. PICK i \in DOMAIN b : b[i] = x
    BY <1>1, <1>6
  <2>2. Len(a) + i \in DOMAIN both /\ both[Len(a) + i] = x
    BY <1>3, <2>1
  <2> QED BY <2>2
<1> QED BY <1>4, <1>5, <1>6 DEF both, a, b

(* The arguments as they are run and recorded.                             *)
valuesOf(list) == [j \in DOMAIN list |-> list[j].value]

\* The arguments of a probe are the same for two operations just when none of them is a
\* path in a directory of the operation.
LEMMA ArgListsAgree ==
  ASSUME NEW op, NEW other, op # other, NEW id, NEW temp \in Temps(op, id), NEW twin \in Temps(other, id),
         NEW c, NEW args, IsFiniteSet(c.args.entries), IsFiniteSet(args.entries),
         \A x \in c.args.entries \cup args.entries : isPath(x),
         NEW a \in buildPlanArgs(c, args, rootsAt(op, temp)), NEW b \in buildPlanArgs(c, args, rootsAt(other, twin))
  PROVE  valuesOf(a) = valuesOf(b) <=> \A x \in c.args.entries \cup args.entries : ~ofOperation(x)
<1> DEFINE A == c.args.entries
           B == args.entries
           list == SetToSeq(A) \o SetToSeq(B)
<1>1. DOMAIN a = DOMAIN list /\ \A j \in DOMAIN list : a[j] \in ArgOf(list[j], rootsAt(op, temp))
  <2> DEFINE F(x) == ArgOf(x, rootsAt(op, temp))
  <2>1. a = [j \in DOMAIN list |-> One(F(list[j]))] /\ \A j \in DOMAIN list : F(list[j]) # {}
    BY DEF buildPlanArgs, Each
  <2> HIDE DEF list
  <2>2. \A j \in DOMAIN list : One(F(list[j])) \in F(list[j])
    BY <2>1, OneIs
  <2> QED BY <2>1, <2>2
<1>2. DOMAIN b = DOMAIN list /\ \A j \in DOMAIN list : b[j] \in ArgOf(list[j], rootsAt(other, twin))
  <2> DEFINE F(x) == ArgOf(x, rootsAt(other, twin))
  <2>1. b = [j \in DOMAIN list |-> One(F(list[j]))] /\ \A j \in DOMAIN list : F(list[j]) # {}
    BY DEF buildPlanArgs, Each
  <2> HIDE DEF list
  <2>2. \A j \in DOMAIN list : One(F(list[j])) \in F(list[j])
    BY <2>1, OneIs
  <2> QED BY <2>1, <2>2
<1>3. /\ \A j \in DOMAIN list : list[j] \in A \cup B
      /\ \A x \in A \cup B : \E j \in DOMAIN list : list[j] = x
  BY BothInOrder
<1>4. \A x \in A \cup B : isPath(x)
  OBVIOUS
<1> HIDE DEF A, B, list
<1>5. \A j \in DOMAIN list : a[j].value = b[j].value <=> ~ofOperation(list[j])
  <2> SUFFICES ASSUME NEW j \in DOMAIN list PROVE a[j].value = b[j].value <=> ~ofOperation(list[j])
    OBVIOUS
  <2>1. isPath(list[j]) /\ a[j] \in ArgOf(list[j], rootsAt(op, temp)) /\ b[j] \in ArgOf(list[j], rootsAt(other, twin))
    BY <1>1, <1>2, <1>3, <1>4
  <2> QED BY <2>1, ArgsAgree
<1>6. valuesOf(a) = valuesOf(b) <=> \A j \in DOMAIN list : a[j].value = b[j].value
  <2>1. valuesOf(a) = [j \in DOMAIN list |-> a[j].value] /\ valuesOf(b) = [j \in DOMAIN list |-> b[j].value]
    BY <1>1, <1>2 DEF valuesOf
  <2>2. ASSUME valuesOf(a) = valuesOf(b), NEW j \in DOMAIN list PROVE a[j].value = b[j].value
    <3>1. valuesOf(a)[j] = a[j].value /\ valuesOf(b)[j] = b[j].value
      BY <2>1
    <3> QED BY <2>2, <3>1
  <2>3. ASSUME \A j \in DOMAIN list : a[j].value = b[j].value PROVE valuesOf(a) = valuesOf(b)
    BY <2>1, <2>3
  <2> QED BY <2>2, <2>3
<1>7. (\A j \in DOMAIN list : ~ofOperation(list[j])) <=> \A x \in A \cup B : ~ofOperation(x)
  BY <1>3
<1> QED BY <1>5, <1>6, <1>7 DEF A, B

\* A sequence of as many values as another one has elements is empty when that one is.
LEMMA EmptyIs ==
  ASSUME NEW n \in Nat, NEW f, DOMAIN f = 1 .. n, f = [j \in 1 .. n |-> f[j]]
  PROVE  f = <<>> <=> n = 0
<1>1. f \in Seq({f[j] : j \in 1 .. n}) /\ Len(f) = n
  OBVIOUS
<1> QED BY <1>1

\* The arguments of a probe are none when neither it nor its command has one.
LEMMA ArgsEmpty ==
  ASSUME NEW op, NEW temp, NEW c, NEW args, IsFiniteSet(c.args.entries), IsFiniteSet(args.entries),
         NEW a \in buildPlanArgs(c, args, rootsAt(op, temp))
  PROVE  valuesOf(a) = <<>> <=> c.args.entries \cup args.entries = {}
<1> DEFINE A == c.args.entries
           B == args.entries
           list == SetToSeq(A) \o SetToSeq(B)
<1>1. DOMAIN a = DOMAIN list
  <2> DEFINE G(x) == ArgOf(x, rootsAt(op, temp))
  <2>1. a = [j \in DOMAIN list |-> One(G(list[j]))]
    BY DEF buildPlanArgs, Each
  <2> HIDE DEF list, G
  <2> QED BY <2>1
<1>2. /\ \A j \in DOMAIN list : list[j] \in A \cup B
      /\ \A x \in A \cup B : \E j \in DOMAIN list : list[j] = x
  BY BothInOrder
<1>3. Len(list) \in Nat /\ DOMAIN list = 1 .. Len(list)
  <2>1. SetToSeq(A) \in Seq(A) /\ SetToSeq(B) \in Seq(B)
    BY SetToSeqIs
  <2>2. SetToSeq(A) \in Seq(A \cup B) /\ SetToSeq(B) \in Seq(A \cup B)
    BY <2>1
  <2> QED BY <2>2
<1> HIDE DEF A, B, list
<1>4. A \cup B = {} <=> Len(list) = 0
  <2>1. A \cup B = {} <=> DOMAIN list = {}
    BY <1>2
  <2>2. CASE Len(list) = 0
    BY <1>3, <2>1, <2>2
  <2>3. CASE Len(list) # 0
    <3>1. 1 \in DOMAIN list
      BY <1>3, <2>3
    <3> QED BY <2>1, <2>3, <3>1
  <2> QED BY <2>2, <2>3
<1>5. valuesOf(a) = <<>> <=> Len(list) = 0
  BY <1>1, <1>3, EmptyIs DEF valuesOf
<1> QED BY <1>4, <1>5 DEF A, B

areRequired(required) ==
  required # Absent => IsFiniteSet(required.entries) /\ \A r \in required.entries : isPath(r.path)
ownRequired(required) == required # Absent /\ \E r \in required.entries : ofOperation(r.path)

\* The same of the paths a probe wants to be there.
LEMMA RequiredAgree ==
  ASSUME NEW op, NEW other, op # other, NEW id, NEW temp \in Temps(op, id), NEW twin \in Temps(other, id),
         NEW required, areRequired(required),
         NEW a \in buildRequiredPaths(required, rootsAt(op, temp)), NEW b \in buildRequiredPaths(required, rootsAt(other, twin))
  PROVE  a = b <=> ~ownRequired(required)
<1> USE DEF areRequired, ownRequired
<1>1. CASE required = Absent
  BY <1>1 DEF buildRequiredPaths
<1>2. CASE required # Absent
  <2> DEFINE A == required.entries
             list == SetToSeq(A)
             F(r) == UNION {{[kind |-> r.kind, path |-> path]} : path \in RenderPath(r.path, rootsAt(op, temp))}
             G(r) == UNION {{[kind |-> r.kind, path |-> path]} : path \in RenderPath(r.path, rootsAt(other, twin))}
  <2>1. /\ a = [j \in DOMAIN list |-> One(F(list[j]))] /\ \A j \in DOMAIN list : F(list[j]) # {}
        /\ b = [j \in DOMAIN list |-> One(G(list[j]))] /\ \A j \in DOMAIN list : G(list[j]) # {}
    BY <1>2 DEF buildRequiredPaths, Each, Then
  <2>2. /\ \A j \in DOMAIN list : list[j] \in A
        /\ \A x \in A : \E j \in DOMAIN list : list[j] = x
    <3>1. list \in Seq(A) /\ \A x \in A : \E j \in DOMAIN list : list[j] = x
      BY <1>2, SetToSeqIs
    <3> HIDE DEF list
    <3>2. DOMAIN list = 1 .. Len(list) /\ \A j \in 1 .. Len(list) : list[j] \in A
      BY <3>1
    <3> QED BY <3>1, <3>2
  <2> HIDE DEF list
  <2>3. ASSUME NEW j \in DOMAIN list PROVE a[j] = b[j] <=> ~ofOperation(list[j].path)
    <3>1. a[j] \in F(list[j]) /\ b[j] \in G(list[j])
      BY <2>1, OneIs
    <3>2. PICK p \in RenderPath(list[j].path, rootsAt(op, temp)) : a[j] = [kind |-> list[j].kind, path |-> p]
      BY <3>1
    <3>3. PICK q \in RenderPath(list[j].path, rootsAt(other, twin)) : b[j] = [kind |-> list[j].kind, path |-> q]
      BY <3>1
    <3>4. isPath(list[j].path)
      BY <1>2, <2>2
    <3>5. p = q <=> ~ofOperation(list[j].path)
      BY <3>4, PathsAgree
    <3>6. a[j] = b[j] <=> p = q
      BY <3>2, <3>3
    <3> QED BY <3>5, <3>6
  <2>4. a = b <=> \A j \in DOMAIN list : a[j] = b[j]
    BY <2>1
  <2>5. a = b <=> \A j \in DOMAIN list : ~ofOperation(list[j].path)
    BY <2>3, <2>4
  <2> QED BY <1>2, <2>2, <2>5
<1> QED BY <1>1, <1>2

\* A probe has no path that has to be there when none is written.
LEMMA RequiredEmpty ==
  ASSUME NEW op, NEW temp, NEW required, areRequired(required), NEW a \in buildRequiredPaths(required, rootsAt(op, temp))
  PROVE  a = <<>> <=> required = Absent \/ required.entries = {}
<1>1. CASE required = Absent
  BY <1>1 DEF buildRequiredPaths
<1>2. CASE required # Absent
  <2> DEFINE list == SetToSeq(required.entries)
             G(r) == Then(RenderPath(r.path, rootsAt(op, temp)), LAMBDA path : {[kind |-> r.kind, path |-> path]})
  <2>1. a = [j \in DOMAIN list |-> One(G(list[j]))]
    BY <1>2 DEF buildRequiredPaths, Each
  <2>2. /\ list \in Seq(required.entries) /\ Len(list) = Cardinality(required.entries) /\ Len(list) \in Nat
        /\ Cardinality(required.entries) = 0 <=> required.entries = {}
    BY <1>2, SetToSeqIs, FS_EmptySet DEF areRequired
  <2> HIDE DEF list, G
  <2>3. a = <<>> <=> Len(list) = 0
    <3>1. DOMAIN list = 1 .. Len(list)
      BY <2>2
    <3> QED BY <2>1, <2>2, <3>1, EmptyIs
  <2> QED BY <1>2, <2>2, <2>3
<1> QED BY <1>1, <1>2

(* What a probe expects to be told, with the roots it is rendered with.    *)
versionsOf(v, rooted) == IfGiven(v.expected_version, LAMBDA x : RenderText(x, rooted))
(* What is planned of a probe for an operation, and what is recorded when  *)
(* it has run.                                                             *)
Planned(op, v, q) ==
  \E temp \in Temps(op, v.id), c \in lookupCommand(platform, v.runtime_command) :
    /\ q.id = v.id /\ q.command = c.name /\ q.stream = v.stream /\ q.expect = v.expect
    /\ q.regex = v.regex /\ q.timeout = v.timeout /\ q.required = v.required /\ q.expectedRoot = Absent
    /\ q.expectedVersion \in versionsOf(v, rootsAt(op, temp))
    /\ q.args \in buildPlanArgs(c, v.args, rootsAt(op, temp))
    /\ q.requiredPaths \in buildRequiredPaths(v.required_paths, rootsAt(op, temp))
RecordWith(q, at, args, paths) ==
  [id |-> q.id, command |-> q.command, stream |-> q.stream, args |-> args, expect |-> q.expect,
   regex |-> q.regex, expectedVersion |-> q.expectedVersion, expectedRoot |-> q.expectedRoot,
   requiredPaths |-> paths, timeout |-> q.timeout, required |-> q.required, status |-> "passed",
   reported |-> IF q.expect = "version" THEN q.expectedVersion ELSE Absent, finishedAt |-> at]
RecordOf(q, at) == RecordWith(q, at, Made(valuesOf(q.args)), Made(q.requiredPaths))
(* What is read of the record of a probe.                                  *)
ReadOf(record) ==
  [record EXCEPT !.args = readList(record.args), !.requiredPaths = readList(record.requiredPaths)]

(* Commands and probes have names of their own, and their texts are as     *)
(* they were written.                                                      *)
probeList == SetToSeq(platform.probes)
isCommand(c) == isPath(c.target) /\ IsFiniteSet(c.args.entries) /\ \A x \in c.args.entries : isPath(x)
isProbe(v) ==
  IsFiniteSet(v.args.entries) /\ (\A x \in v.args.entries : isPath(x)) /\ areRequired(v.required_paths)
WellWritten ==
  /\ IsFiniteSet(platform.probes) /\ \A v \in platform.probes : isProbe(v)
  /\ \A c \in platform.commands : isCommand(c)
  /\ \A c, d \in platform.commands : c.name = d.name => c = d
  /\ \A i, j \in DOMAIN probeList : probeList[i].id = probeList[j].id => i = j
ownText(v) ==
  \/ \E x \in v.args.entries : ofOperation(x)
  \/ ownRequired(v.required_paths)
  \/ \E c \in lookupCommand(platform, v.runtime_command) : \E x \in c.args.entries : ofOperation(x)
emptyText(v) ==
  \/ v.required_paths = Absent \/ v.required_paths.entries = {}
  \/ \A c \in lookupCommand(platform, v.runtime_command) : c.args.entries \cup v.args.entries = {}

\* A list that is read back is the list that was made just when it is not empty.
LEMMA ReadListIs ==
  ASSUME NEW s, NEW t
  PROVE  readList(Made(s)) = Made(t) <=> s = t /\ s # <<>>
<1> DEFINE none == s = <<>>
<1>1. readList(Made(s)) = [items |-> s, nil |-> none] /\ Made(t) = [items |-> t, nil |-> FALSE]
  BY DEF readList, Made
<1>2. CASE s = <<>>
  <2>1. none = TRUE
    BY <1>2
  <2>2. [items |-> s, nil |-> TRUE].nil # [items |-> t, nil |-> FALSE].nil
    OBVIOUS
  <2> QED BY <1>1, <1>2, <2>1, <2>2
<1>3. CASE s # <<>>
  <2>1. none = FALSE
    BY <1>3
  <2>2. [items |-> s, nil |-> FALSE] = [items |-> t, nil |-> FALSE] <=> s = t
    OBVIOUS
  <2> QED BY <1>1, <1>3, <2>1, <2>2
<1> QED BY <1>2, <1>3

\* A record is made of what was planned, its time and its two lists; what is read back
\* of it differs in the lists.
LEMMA RecordsAre ==
  /\ \A q, at, args, paths, other :
       [RecordWith(q, at, args, paths) EXCEPT !.finishedAt = other] = RecordWith(q, other, args, paths)
  /\ \A q, at : ReadOf(RecordOf(q, at)) = RecordWith(q, at, readList(Made(valuesOf(q.args))), readList(Made(q.requiredPaths)))
  /\ \A q, at, args, paths : /\ RecordWith(q, at, args, paths).args = args
                             /\ RecordWith(q, at, args, paths).requiredPaths = paths
                             /\ RecordWith(q, at, args, paths).id = q.id
<1>1. \A q, at, args, paths, other :
        [RecordWith(q, at, args, paths) EXCEPT !.finishedAt = other] = RecordWith(q, other, args, paths)
  BY DEF RecordWith
<1>2. \A q, at, args, paths : /\ RecordWith(q, at, args, paths).args = args
                             /\ RecordWith(q, at, args, paths).requiredPaths = paths
                             /\ RecordWith(q, at, args, paths).id = q.id
  BY DEF RecordWith
<1>3. \A q, at, args, paths, others : [RecordWith(q, at, args, paths) EXCEPT !.args = others] = RecordWith(q, at, others, paths)
  BY DEF RecordWith
<1>4. \A q, at, args, paths, others :
        [RecordWith(q, at, args, paths) EXCEPT !.requiredPaths = others] = RecordWith(q, at, args, others)
  BY DEF RecordWith
<1>5. ASSUME NEW q, NEW at
      PROVE  ReadOf(RecordOf(q, at)) = RecordWith(q, at, readList(Made(valuesOf(q.args))), readList(Made(q.requiredPaths)))
  <2> DEFINE record == RecordOf(q, at)
             args == readList(Made(valuesOf(q.args)))
             paths == readList(Made(q.requiredPaths))
             middle == [record EXCEPT !.args = args]
  <2>1. record.args = Made(valuesOf(q.args)) /\ record.requiredPaths = Made(q.requiredPaths)
    BY <1>2 DEF RecordOf
  <2>2. middle = RecordWith(q, at, args, Made(q.requiredPaths))
    BY <1>3 DEF RecordOf
  <2>3. ReadOf(record) = [record EXCEPT !.args = args, !.requiredPaths = paths]
    <3> HIDE DEF record
    <3> QED BY <2>1 DEF ReadOf
  <2> HIDE DEF record, args, paths
  <2>4. [record EXCEPT !.args = args, !.requiredPaths = paths] = [middle EXCEPT !.requiredPaths = paths]
    OBVIOUS
  <2> HIDE DEF middle
  <2>5. [middle EXCEPT !.requiredPaths = paths] = RecordWith(q, at, args, paths)
    BY <1>4, <2>2
  <2> QED BY <2>3, <2>4, <2>5 DEF record, args, paths
<1> QED BY <1>1, <1>2, <1>5

\* The record of a probe, read back, is the same for two operations just when the probe
\* has no text that names a path of the operation and neither of its lists is empty.
LEMMA ProbesAgree ==
  ASSUME WellWritten, NEW op, NEW other, op # other, NEW v \in platform.probes,
         NEW q, Planned(op, v, q), NEW r, Planned(other, v, r), NEW at
  PROVE  ReadOf(RecordOf(q, at)) = RecordOf(r, at) <=> ~ownText(v) /\ ~emptyText(v)
<1> DEFINE versions(o, temp) == versionsOf(v, rootsAt(o, temp))
<1>1. PICK temp \in Temps(op, v.id), c \in lookupCommand(platform, v.runtime_command) :
        /\ q.id = v.id /\ q.command = c.name /\ q.stream = v.stream /\ q.expect = v.expect
        /\ q.regex = v.regex /\ q.timeout = v.timeout /\ q.required = v.required /\ q.expectedRoot = Absent
        /\ q.expectedVersion \in versions(op, temp)
        /\ q.args \in buildPlanArgs(c, v.args, rootsAt(op, temp))
        /\ q.requiredPaths \in buildRequiredPaths(v.required_paths, rootsAt(op, temp))
  BY DEF Planned
<1>2. PICK twin \in Temps(other, v.id), d \in lookupCommand(platform, v.runtime_command) :
        /\ r.id = v.id /\ r.command = d.name /\ r.stream = v.stream /\ r.expect = v.expect
        /\ r.regex = v.regex /\ r.timeout = v.timeout /\ r.required = v.required /\ r.expectedRoot = Absent
        /\ r.expectedVersion \in versions(other, twin)
        /\ r.args \in buildPlanArgs(d, v.args, rootsAt(other, twin))
        /\ r.requiredPaths \in buildRequiredPaths(v.required_paths, rootsAt(other, twin))
  BY DEF Planned
<1>3. c = d /\ c \in platform.commands /\ \A e \in lookupCommand(platform, v.runtime_command) : e = c
  BY DEF WellWritten, lookupCommand
<1>4. q.expectedVersion = r.expectedVersion
  <2>1. \A x : RenderText(x, rootsAt(op, temp)) = RenderText(x, rootsAt(other, twin))
    BY DEF RenderText, resolveScalar, rootsAt
  <2>2. versions(op, temp) = versions(other, twin)
    BY <2>1 DEF IfGiven, versionsOf
  <2>3. \A a, b \in versions(op, temp) : a = b
    BY DEF IfGiven, RenderText, When, versionsOf
  <2> HIDE DEF versions
  <2> QED BY <1>1, <1>2, <2>2, <2>3
<1> HIDE DEF versions
<1>5. valuesOf(q.args) = valuesOf(r.args) <=> \A x \in c.args.entries \cup v.args.entries : ~ofOperation(x)
  <2>1. IsFiniteSet(c.args.entries) /\ IsFiniteSet(v.args.entries) /\ \A x \in c.args.entries \cup v.args.entries : isPath(x)
    BY <1>3 DEF WellWritten, isCommand, isProbe
  <2>2. r.args \in buildPlanArgs(c, v.args, rootsAt(other, twin)) /\ q.args \in buildPlanArgs(c, v.args, rootsAt(op, temp))
    BY <1>1, <1>2, <1>3
  <2> QED BY <2>1, <2>2, ArgListsAgree
<1>6. q.requiredPaths = r.requiredPaths <=> ~ownRequired(v.required_paths)
  <2>1. areRequired(v.required_paths)
    BY DEF WellWritten, isProbe
  <2> QED BY <1>1, <1>2, <2>1, RequiredAgree
<1>7. ownText(v) <=> \/ \E x \in c.args.entries \cup v.args.entries : ofOperation(x)
                     \/ ownRequired(v.required_paths)
  BY <1>3 DEF ownText
<1>8. ReadOf(RecordOf(q, at)) = RecordOf(r, at)
        <=> /\ readList(Made(valuesOf(q.args))) = Made(valuesOf(r.args))
            /\ readList(Made(q.requiredPaths)) = Made(r.requiredPaths)
  <2>1. \A args, paths : RecordWith(q, at, args, paths) = RecordWith(r, at, args, paths)
    BY <1>1, <1>2, <1>3, <1>4 DEF RecordWith
  <2> QED BY <2>1, RecordsAre DEF RecordOf
<1>9. emptyText(v) <=> valuesOf(q.args) = <<>> \/ q.requiredPaths = <<>>
  <2>1. valuesOf(q.args) = <<>> <=> c.args.entries \cup v.args.entries = {}
    <3>1. IsFiniteSet(c.args.entries) /\ IsFiniteSet(v.args.entries)
      BY <1>3 DEF WellWritten, isCommand, isProbe
    <3> QED BY <1>1, <3>1, ArgsEmpty
  <2>2. q.requiredPaths = <<>> <=> v.required_paths = Absent \/ v.required_paths.entries = {}
    <3>1. areRequired(v.required_paths)
      BY DEF WellWritten, isProbe
    <3> QED BY <1>1, <3>1, RequiredEmpty
  <2>3. c \in lookupCommand(platform, v.runtime_command)
    BY <1>1
  <2> QED BY <1>3, <2>1, <2>2, <2>3 DEF emptyText
<1> QED BY <1>5, <1>6, <1>7, <1>8, <1>9, ReadListIs

(* What the receipt of an operation is made of.                            *)
installedArtifact ==
  [kind |-> chosen.providerKind, name |-> platform.provider.name, release |-> chosen.release,
   url |-> chosen.url, file |-> chosen.file, size |-> chosen.size, digest |-> chosen.digest,
   checksumSource |-> chosen.checksumSource, thirdPartyApproved |-> chosen.providerKind = "third-party"]
ReceiptOf(op, at, probes, targets) ==
  [installID |-> op, installedAt |-> at, platform |-> platform.id,
   tool |-> catalog.tool, version |-> chosen.version,
   artifact |-> installedArtifact,
   storage |-> SetToSeq(platform.storages), profiles |-> SetToSeq(platform.profiles),
   commands |-> SetToSeq(platform.commands), probes |-> probes, targets |-> targets]
recordsOf(planned, times) == [i \in DOMAIN probeList |-> RecordOf(planned[i], times[i])]
MadeOf(op, receipt, targets, at, planned, times) ==
  /\ targets \in CollectCommandTargets(platform, rootsAt(op, Absent))
  /\ \A i \in DOMAIN probeList : Planned(op, probeList[i], planned[i])
  /\ receipt = ReceiptOf(op, at, recordsOf(planned, times), targets)
Recorded(op, receipt) ==
  \E targets, at, planned, times : MadeOf(op, receipt, targets, at, planned, times)

(* Where the probe stands that is read back as the one at i; the probes    *)
(* without their times, and as they are read back.                         *)
placeOf(i, n) == IF given.byID THEN i ELSE (n - i) + 1
unclocked(probes) == [i \in DOMAIN probes |-> [probes[i] EXCEPT !.finishedAt = Absent]]
readBackOf(probes, n) == [i \in 1 .. n |-> ReadOf(probes[placeOf(i, n)])]

\* What comparableReceipt leaves of a receipt.
LEMMA ComparableIs ==
  ASSUME NEW op, NEW at, NEW probes, NEW targets
  PROVE  comparableReceipt(ReceiptOf(op, at, probes, targets)) =
           ReceiptOf(Absent, Absent, unclocked(probes), targets)
<1> DEFINE bare == unclocked(probes)
<1>1. ReceiptOf(op, at, probes, targets).probes = probes
  BY DEF ReceiptOf
<1>2. comparableReceipt(ReceiptOf(op, at, probes, targets)) =
        [ReceiptOf(op, at, probes, targets) EXCEPT !.installID = Absent, !.installedAt = Absent, !.probes = bare]
  BY <1>1 DEF comparableReceipt, unclocked
<1> HIDE DEF bare
<1>3. [ReceiptOf(op, at, probes, targets) EXCEPT !.installID = Absent, !.installedAt = Absent, !.probes = bare] =
        ReceiptOf(Absent, Absent, bare, targets)
  <2> DEFINE receipt == ReceiptOf(op, at, probes, targets)
  <2>1. [receipt EXCEPT !.installID = Absent] = ReceiptOf(Absent, at, probes, targets)
    BY DEF ReceiptOf
  <2>2. [ReceiptOf(Absent, at, probes, targets) EXCEPT !.installedAt = Absent] = ReceiptOf(Absent, Absent, probes, targets)
    BY DEF ReceiptOf
  <2>3. [ReceiptOf(Absent, Absent, probes, targets) EXCEPT !.probes = bare] = ReceiptOf(Absent, Absent, bare, targets)
    BY DEF ReceiptOf
  <2> HIDE DEF receipt
  <2>4. [receipt EXCEPT !.installID = Absent, !.installedAt = Absent, !.probes = bare] =
          [[[receipt EXCEPT !.installID = Absent] EXCEPT !.installedAt = Absent] EXCEPT !.probes = bare]
    OBVIOUS
  <2> QED BY <2>1, <2>2, <2>3, <2>4 DEF receipt
<1> QED BY <1>2, <1>3 DEF bare


\* A receipt with other probes.
LEMMA WithProbes ==
  ASSUME NEW op, NEW at, NEW probes, NEW targets, NEW others
  PROVE  [ReceiptOf(op, at, probes, targets) EXCEPT !.probes = others] = ReceiptOf(op, at, others, targets)
BY DEF ReceiptOf

\* What is read back of a receipt: its probes in their order, each with its lists read.
LEMMA ParsedIs ==
  ASSUME given.byID \in BOOLEAN, NEW op, NEW at, NEW n \in Nat, NEW probes, DOMAIN probes = 1 .. n,
         probes = [i \in 1 .. n |-> probes[i]], NEW targets
  PROVE  onDisk(ReceiptOf(op, at, probes, targets)) =
           ReceiptOf(op, at, readBackOf(probes, n), targets)
<1> DEFINE turned == IF given.byID THEN probes ELSE Reverse(probes)
           listed == [i \in DOMAIN turned |-> ReadOf(turned[i])]
<1>1. Len(probes) = n
  BY DEF Len
<1>2. DOMAIN turned = 1 .. n /\ \A i \in 1 .. n : turned[i] = probes[placeOf(i, n)]
  BY <1>1 DEF Reverse, placeOf
<1>3. listed = readBackOf(probes, n)
  <2> HIDE DEF turned
  <2> QED BY <1>2 DEF readBackOf
<1>4. ReceiptOf(op, at, probes, targets).probes = probes
  BY DEF ReceiptOf
<1>5. onDisk(ReceiptOf(op, at, probes, targets)) = [ReceiptOf(op, at, probes, targets) EXCEPT !.probes = listed]
  BY <1>4 DEF onDisk, ParseReceipt, ReadOf
<1> HIDE DEF listed
<1>6. [ReceiptOf(op, at, probes, targets) EXCEPT !.probes = listed] = ReceiptOf(op, at, listed, targets)
  BY WithProbes
<1> QED BY <1>3, <1>5, <1>6

\* A record that is read back and stripped of its time is the stripped one, read back.
LEMMA BareIs ==
  /\ \A q, t : [RecordOf(q, t) EXCEPT !.finishedAt = Absent] = RecordOf(q, Absent)
  /\ \A q, t : [ReadOf(RecordOf(q, t)) EXCEPT !.finishedAt = Absent] = ReadOf(RecordOf(q, Absent))
<1>1. \A q, t : [RecordOf(q, t) EXCEPT !.finishedAt = Absent] = RecordOf(q, Absent)
  BY RecordsAre DEF RecordOf
<1>2. ASSUME NEW q, NEW t PROVE [ReadOf(RecordOf(q, t)) EXCEPT !.finishedAt = Absent] = ReadOf(RecordOf(q, Absent))
  <2> DEFINE args == readList(Made(valuesOf(q.args)))
             paths == readList(Made(q.requiredPaths))
             record == ReadOf(RecordOf(q, t))
  <2>1. record = RecordWith(q, t, args, paths) /\ ReadOf(RecordOf(q, Absent)) = RecordWith(q, Absent, args, paths)
    BY RecordsAre
  <2> HIDE DEF args, paths, record
  <2>2. [record EXCEPT !.finishedAt = Absent] = RecordWith(q, Absent, args, paths)
    BY <2>1, RecordsAre
  <2> QED BY <2>1, <2>2 DEF record
<1> QED BY <1>1, <1>2

(* The records as they are compared: made, and read back.                  *)
bareOf(planned, n) == [i \in 1 .. n |-> RecordOf(planned[i], Absent)]
bareReadOf(planned, n) == [i \in 1 .. n |-> ReadOf(RecordOf(planned[placeOf(i, n)], Absent))]

\* What an operation made and what is read back of it, for the comparison.
LEMMA ComparedAre ==
  ASSUME given.byID \in BOOLEAN, NEW op, NEW at, NEW n \in Nat, DOMAIN probeList = 1 .. n,
         NEW planned, NEW times, NEW targets
  PROVE  /\ comparableReceipt(ReceiptOf(op, at, recordsOf(planned, times), targets)) =
              ReceiptOf(Absent, Absent, bareOf(planned, n), targets)
         /\ comparableReceipt(onDisk(ReceiptOf(op, at, recordsOf(planned, times), targets))) =
              ReceiptOf(Absent, Absent, bareReadOf(planned, n), targets)
<1> DEFINE probes == recordsOf(planned, times)
           readBack == readBackOf(probes, n)
<1>1. DOMAIN probes = 1 .. n /\ probes = [i \in 1 .. n |-> probes[i]] /\ \A i \in 1 .. n : probes[i] = RecordOf(planned[i], times[i])
  BY DEF recordsOf
<1>2. \A i \in 1 .. n : placeOf(i, n) \in 1 .. n
  BY DEF placeOf
<1> HIDE DEF probes
<1>3. unclocked(probes) = bareOf(planned, n)
  BY <1>1, BareIs DEF unclocked, bareOf
<1>4. DOMAIN readBack = 1 .. n /\ \A i \in 1 .. n : readBack[i] = ReadOf(RecordOf(planned[placeOf(i, n)], times[placeOf(i, n)]))
  BY <1>1, <1>2 DEF readBackOf
<1>5. onDisk(ReceiptOf(op, at, probes, targets)) = ReceiptOf(op, at, readBack, targets)
  BY <1>1, ParsedIs
<1> HIDE DEF readBack
<1>6. unclocked(readBack) = bareReadOf(planned, n)
  BY <1>4, BareIs DEF unclocked, bareReadOf
<1> QED BY <1>3, <1>5, <1>6, ComparableIs DEF probes

\* Two recorded installs of two operations, one of them read back, are the same just
\* when no probe names a path in a directory of its operation, no list of a probe is
\* empty, and the probes are read back in their order.
LEMMA TwinsAgree ==
  ASSUME WellWritten, given.byID \in BOOLEAN, NEW op, NEW other, op # other,
         NEW left, Recorded(op, left), NEW right, Recorded(other, right)
  PROVE  SameInstall(onDisk(left), right) <=> ~(pathInProbe \/ emptyListInProbe \/ probesOutOfOrder)
<1>1. PICK s, at1, p, times1 : MadeOf(op, left, s, at1, p, times1)
  BY DEF Recorded
<1>2. PICK t, at2, q, times2 : MadeOf(other, right, t, at2, q, times2)
  BY DEF Recorded
<1>3. /\ s \in CollectCommandTargets(platform, rootsAt(op, Absent))
      /\ \A i \in DOMAIN probeList : Planned(op, probeList[i], p[i])
      /\ left = ReceiptOf(op, at1, recordsOf(p, times1), s)
  BY <1>1 DEF MadeOf
<1>4. /\ t \in CollectCommandTargets(platform, rootsAt(other, Absent))
      /\ \A i \in DOMAIN probeList : Planned(other, probeList[i], q[i])
      /\ right = ReceiptOf(other, at2, recordsOf(q, times2), t)
  BY <1>2 DEF MadeOf
<1>5. s = t
  <2>1. \A c \in RequiredCommands(platform) : \A x \in TextsOf(c) : isPath(x)
    BY DEF WellWritten, isCommand, RequiredCommands, TextsOf
  <2>2. s \subseteq t
    BY <1>3, <1>4, <2>1, TargetsWithin
  <2>3. t \subseteq s
    BY <1>3, <1>4, <2>1, TargetsWithin
  <2> QED BY <2>2, <2>3
<1> DEFINE n == Cardinality(platform.probes)
           place(i) == placeOf(i, n)
           l == bareReadOf(p, n)
           r == bareOf(q, n)
<1>6. /\ n \in Nat /\ DOMAIN probeList = 1 .. n
      /\ \A i \in 1 .. n : probeList[i] \in platform.probes
      /\ \A v \in platform.probes : \E i \in 1 .. n : probeList[i] = v
  <2>1. n \in Nat /\ probeList \in [1 .. n -> platform.probes]
        /\ \A v \in platform.probes : \E i \in DOMAIN probeList : probeList[i] = v
    BY SetToSeqIs DEF WellWritten, probeList
  <2> HIDE DEF n
  <2> QED BY <2>1
<1> HIDE DEF n
<1>7. \A i \in 1 .. n : place(i) \in 1 .. n
  BY <1>6 DEF placeOf
<1>8. SameInstall(onDisk(left), right) <=> l = r
  <2>1. comparableReceipt(onDisk(left)) = ReceiptOf(Absent, Absent, l, s) /\ comparableReceipt(right) = ReceiptOf(Absent, Absent, r, s)
    BY <1>3, <1>4, <1>5, <1>6, ComparedAre
  <2> HIDE DEF l, r
  <2>2. ReceiptOf(Absent, Absent, l, s).probes = l /\ ReceiptOf(Absent, Absent, r, s).probes = r
    BY DEF ReceiptOf
  <2> QED BY <2>1, <2>2 DEF SameInstall
<1>9. l = r <=> \A i \in 1 .. n : ReadOf(RecordOf(p[place(i)], Absent)) = RecordOf(q[i], Absent)
  <2>1. \A i \in 1 .. n : l[i] = ReadOf(RecordOf(p[place(i)], Absent)) /\ r[i] = RecordOf(q[i], Absent)
    BY DEF bareReadOf, bareOf
  <2>2. DOMAIN l = 1 .. n /\ DOMAIN r = 1 .. n /\ l = [i \in 1 .. n |-> l[i]] /\ r = [i \in 1 .. n |-> r[i]]
    BY DEF bareReadOf, bareOf
  <2> HIDE DEF l, r, place
  <2> QED BY <2>1, <2>2
<1>10. CASE probesOutOfOrder
  <2>1. 1 \in 1 .. n /\ place(1) # 1 /\ place(1) \in 1 .. n
    BY <1>6, <1>7, <1>10 DEF probesOutOfOrder, probesOf, n, placeOf
  <2>2. p[place(1)].id = probeList[place(1)].id /\ q[1].id = probeList[1].id
    BY <1>3, <1>4, <1>6, <2>1 DEF Planned
  <2>3. probeList[place(1)].id # probeList[1].id
    BY <1>6, <2>1 DEF WellWritten
  <2>4. ReadOf(RecordOf(p[place(1)], Absent)) # RecordOf(q[1], Absent)
    <3> HIDE DEF place
    <3>1. ReadOf(RecordOf(p[place(1)], Absent)).id = p[place(1)].id /\ RecordOf(q[1], Absent).id = q[1].id
      BY RecordsAre DEF RecordOf
    <3> QED BY <2>2, <2>3, <3>1
  <2> HIDE DEF l, r, place
  <2> QED BY <1>8, <1>9, <1>10, <2>1, <2>4
<1>11. CASE ~probesOutOfOrder
  <2>1. \A i \in 1 .. n : place(i) = i
    BY <1>6, <1>11 DEF probesOutOfOrder, probesOf, n, placeOf
  <2>2. \A i \in 1 .. n :
          ReadOf(RecordOf(p[i], Absent)) = RecordOf(q[i], Absent) <=> ~ownText(probeList[i]) /\ ~emptyText(probeList[i])
    BY <1>3, <1>4, <1>6, ProbesAgree
  <2>3. (pathInProbe <=> \E v \in platform.probes : ownText(v)) /\ (emptyListInProbe <=> \E v \in platform.probes : emptyText(v))
    BY DEF pathInProbe, emptyListInProbe, probesOf, ownText, ownRequired, emptyText
  <2> HIDE DEF l, r, place
  <2>4. l = r <=> \A i \in 1 .. n : ~ownText(probeList[i]) /\ ~emptyText(probeList[i])
    BY <1>9, <2>1, <2>2
  <2> QED BY <1>6, <1>8, <1>11, <2>3, <2>4
<1> QED BY <1>10, <1>11

\* What is planned of each probe, in the order of the plan.
LEMMA ProbeIsPlanned ==
  ASSUME NEW req, "probeTemp" \in DOMAIN req.roots, NEW v, NEW rooted \in probeRoots(req, v),
         NEW q \in buildPlanProbe(req, v, rooted)
  PROVE  \E temp \in Join(req.probeTempRoot, <<v.id>>, req.roots.windows),
            c \in lookupCommand(req.platform, v.runtime_command) :
           /\ rooted = [req.roots EXCEPT !.probeTemp = temp]
           /\ q.id = v.id /\ q.command = c.name /\ q.stream = v.stream /\ q.expect = v.expect
           /\ q.regex = v.regex /\ q.timeout = v.timeout /\ q.required = v.required /\ q.expectedRoot = Absent
           /\ q.expectedVersion \in versionsOf(v, rooted)
           /\ q.args \in buildPlanArgs(c, v.args, rooted)
           /\ q.requiredPaths \in buildRequiredPaths(v.required_paths, rooted)
<1> DEFINE versions == versionsOf(v, rooted)
           tops == IfGiven(v.expected_root, LAMBDA word : RenderPath(WordTemplate(word), rooted))
           entry(c, executable, args, version, top, required) ==
             [id |-> v.id, command |-> c.name, executable |-> executable, args |-> args,
              url |-> req.item.url, digest |-> req.item.digest, workingDirectory |-> rooted.probeTemp,
              writePaths |-> {rooted.probeTemp}, stream |-> v.stream, expect |-> v.expect,
              regex |-> v.regex, expectedVersion |-> version, expectedRoot |-> top,
              requiredPaths |-> required, timeout |-> v.timeout, required |-> v.required]
<1>1. PICK temp \in Join(req.probeTempRoot, <<v.id>>, req.roots.windows) : rooted = [req.roots EXCEPT !.probeTemp = temp]
  BY DEF probeRoots, Then
<1> DEFINE withVersion(c, executable, args, version, top) ==
             UNION {{entry(c, executable, args, version, top, required)} : required \in buildRequiredPaths(v.required_paths, rooted)}
           withArgs(c, executable, args, version) == UNION {withVersion(c, executable, args, version, top) : top \in tops}
           withExecutable(c, executable, args) == UNION {withArgs(c, executable, args, version) : version \in versions}
           withCommand(c, executable) == UNION {withExecutable(c, executable, args) : args \in buildPlanArgs(c, v.args, rooted)}
           made(c) == UNION {withCommand(c, executable) : executable \in RenderPath(c.target, rooted)}
<1>2. PICK c \in lookupCommand(req.platform, v.runtime_command) : \E executable \in RenderPath(c.target, rooted) :
        \E args \in buildPlanArgs(c, v.args, rooted), version \in versions, top \in tops,
           required \in buildRequiredPaths(v.required_paths, rooted) :
          q = entry(c, executable, args, version, top, required)
  <2>1. buildPlanProbe(req, v, rooted) = UNION {made(c) : c \in lookupCommand(req.platform, v.runtime_command)}
    BY DEF buildPlanProbe, Then, versionsOf
  <2> HIDE DEF made
  <2>2. PICK c \in lookupCommand(req.platform, v.runtime_command) : q \in made(c)
    BY <2>1
  <2> USE DEF made
  <2> HIDE DEF withCommand
  <2>3. PICK executable \in RenderPath(c.target, rooted) : q \in withCommand(c, executable)
    BY <2>2
  <2> USE DEF withCommand
  <2> HIDE DEF withExecutable
  <2>4. PICK args \in buildPlanArgs(c, v.args, rooted) : q \in withExecutable(c, executable, args)
    BY <2>3
  <2> USE DEF withExecutable
  <2> HIDE DEF withArgs, versions
  <2>5. PICK version \in versions : q \in withArgs(c, executable, args, version)
    BY <2>4
  <2> USE DEF withArgs
  <2> HIDE DEF withVersion, tops
  <2>6. PICK top \in tops : q \in withVersion(c, executable, args, version, top)
    BY <2>5
  <2> USE DEF withVersion
  <2> HIDE DEF entry
  <2>7. PICK required \in buildRequiredPaths(v.required_paths, rooted) : q = entry(c, executable, args, version, top, required)
    BY <2>6
  <2> QED BY <2>7
<1>0. PICK executable \in RenderPath(c.target, rooted) :
        \E args \in buildPlanArgs(c, v.args, rooted), version \in versions, top \in tops,
           required \in buildRequiredPaths(v.required_paths, rooted) :
          q = entry(c, executable, args, version, top, required)
  BY <1>2
<1>3. PICK args \in buildPlanArgs(c, v.args, rooted), version \in versions, top \in tops,
           required \in buildRequiredPaths(v.required_paths, rooted) :
        q = entry(c, executable, args, version, top, required)
  BY <1>0
<1>4. top = Absent
  <2>1. \A word : RenderPath(WordTemplate(word), rooted) = {}
    <3>1. ASSUME NEW word PROVE ~IsPathTemplate(WordTemplate(word))
      BY DEF IsPathTemplate, WordTemplate
    <3> QED BY <3>1 DEF RenderPath
  <2>2. tops \subseteq {Absent}
    BY <2>1 DEF IfGiven
  <2> QED BY <2>2
<1> HIDE DEF versions, tops, made
<1>5. /\ q.id = v.id /\ q.command = c.name /\ q.stream = v.stream /\ q.expect = v.expect
      /\ q.regex = v.regex /\ q.timeout = v.timeout /\ q.required = v.required /\ q.expectedRoot = top
      /\ q.expectedVersion = version /\ q.args = args /\ q.requiredPaths = required
  BY <1>3
<1> HIDE DEF entry
<1> QED BY <1>1, <1>2, <1>3, <1>4, <1>5 DEF versions

(* The probes of a plan of the operation op.                               *)
probesPlanned(op, planned) ==
  DOMAIN planned = DOMAIN probeList /\ \A i \in DOMAIN probeList : Planned(op, probeList[i], planned[i])

\* The probes of a plan are those of the platform, each as it is planned.
LEMMA PlanProbes ==
  ASSUME NEW made \in BuildInstallPlan(request)
  PROVE  probesPlanned(operation, made.probes)
<1>1. /\ "probeTemp" \in DOMAIN request.roots /\ request.platform = platform /\ request.roots.windows = onWindows
      /\ request.probeTempRoot = probesAt(operation)
      /\ \A temp : [request.roots EXCEPT !.probeTemp = temp] = rootsAt(operation, temp)
  BY RootsOfOperation DEF request, roots
<1>2. made.probes \in buildPlanProbes(request)
  BY DEF BuildInstallPlan, Then
<1> DEFINE F(v) == UNION {buildPlanProbe(request, v, rooted) : rooted \in probeRoots(request, v)}
           list == made.probes
<1>3. list = [i \in DOMAIN probeList |-> One(F(probeList[i]))] /\ \A i \in DOMAIN probeList : F(probeList[i]) # {}
  <2>1. buildPlanProbes(request) =
          IF \E i \in DOMAIN probeList : F(probeList[i]) = {} THEN {} ELSE {[i \in DOMAIN probeList |-> One(F(probeList[i]))]}
    BY <1>1 DEF buildPlanProbes, Each, Then, probeList
  <2> HIDE DEF F
  <2> QED BY <1>2, <2>1
<1> HIDE DEF list
<1>4. ASSUME NEW i \in DOMAIN probeList PROVE Planned(operation, probeList[i], list[i])
  <2> DEFINE v == probeList[i]
  <2>1. list[i] \in F(v)
    <3>1. list[i] = One(F(v)) /\ F(v) # {}
      BY <1>3, <1>4
    <3> QED BY <3>1, OneIs
  <2> HIDE DEF v
  <2>2. PICK rooted \in probeRoots(request, v) : list[i] \in buildPlanProbe(request, v, rooted)
    BY <2>1
  <2> DEFINE q == list[i]
             its(temp, c) ==
               /\ rooted = [request.roots EXCEPT !.probeTemp = temp]
               /\ q.id = v.id /\ q.command = c.name /\ q.stream = v.stream /\ q.expect = v.expect
               /\ q.regex = v.regex /\ q.timeout = v.timeout /\ q.required = v.required /\ q.expectedRoot = Absent
               /\ q.expectedVersion \in versionsOf(v, rooted)
               /\ q.args \in buildPlanArgs(c, v.args, rooted)
               /\ q.requiredPaths \in buildRequiredPaths(v.required_paths, rooted)
  <2>3. \E temp \in Join(request.probeTempRoot, <<v.id>>, request.roots.windows),
           c \in lookupCommand(request.platform, v.runtime_command) : its(temp, c)
    <3>1. q \in buildPlanProbe(request, v, rooted)
      BY <2>2
    <3> HIDE DEF q
    <3> QED BY <1>1, <2>2, <3>1, ProbeIsPlanned
  <2>4. PICK temp \in Temps(operation, v.id), c \in lookupCommand(platform, v.runtime_command) : its(temp, c)
    <3> HIDE DEF its
    <3> QED BY <1>1, <2>3 DEF Temps
  <2>5. rooted = rootsAt(operation, temp)
    BY <1>1, <2>4
  <2>6. Planned(operation, v, q)
    <3>1. /\ q.id = v.id /\ q.command = c.name /\ q.stream = v.stream /\ q.expect = v.expect
          /\ q.regex = v.regex /\ q.timeout = v.timeout /\ q.required = v.required /\ q.expectedRoot = Absent
          /\ q.expectedVersion \in versionsOf(v, rootsAt(operation, temp))
          /\ q.args \in buildPlanArgs(c, v.args, rootsAt(operation, temp))
          /\ q.requiredPaths \in buildRequiredPaths(v.required_paths, rootsAt(operation, temp))
      BY <2>4, <2>5
    <3> HIDE DEF q
    <3> QED BY <3>1 DEF Planned
  <2> QED BY <2>6 DEF q, v
<1> QED BY <1>3, <1>4 DEF probesPlanned, list
\* What a probe that passed has reported.
LEMMA OutcomeIs ==
  ASSUME NEW q, NEW result, NEW windows, NEW ran, ran = runOne(q, result, windows), ran.code = "OK"
  PROVE  ran.value.id = q.id /\ (q.expect = "version" => ran.value.reported = q.expectedVersion)
<1> DEFINE reported == reportedVersion(q, result, windows)
<1>1. reported.code = "OK" /\ ran.value = [id |-> q.id, reported |-> reported.value, finishedAt |-> result.at]
  <2> HIDE DEF reported
  <2>1. runOne(q, result, windows) = IF ~result.started THEN Error("PERMISSION")
                                     ELSE IF ~evaluate(result) THEN Error("PROBE_FAILED")
                                     ELSE IF reported.code # "OK" THEN reported
                                     ELSE IF checkRequiredPaths(q)
                                     THEN Ok([id |-> q.id, reported |-> reported.value, finishedAt |-> result.at])
                                     ELSE Error("PROBE_FAILED")
    BY DEF runOne, reported
  <2> QED BY <2>1 DEF Ok, Error
<1>2. q.expect = "version" => reported.value = q.expectedVersion
  BY <1>1 DEF reportedVersion, Error
<1> HIDE DEF reported
<1> QED BY <1>1, <1>2

\* The arguments and targets that have to be there are there, when there is no
\* diagnostic.
LEMMA BuiltFine ==
  ASSUME NEW key, NEW verdict, Built(key, verdict).why = {}
  PROVE  \A e \in key.entries : verdict[e].why = {}
<1> DEFINE why == UNION {verdict[e].why : e \in key.entries}
<1>1. CASE key.unique
  <2>1. why = {}
    BY <1>1 DEF Built
  <2> QED BY <2>1
<1>2. CASE ~key.unique
  <2>1. "duplicate" \in Built(key, verdict).why
    BY <1>2 DEF Built, Refused
  <2> QED BY <2>1
<1> QED BY <1>1, <1>2

\* Answers that are fine together are fine each, and what is required is there.
LEMMA FineSaysNothing ==
  ASSUME NEW answers, All(answers).why = {}
  PROVE  \A a \in answers : a.why = {}
<1>1. UNION {a.why : a \in answers} = {}
  BY DEF All
<1> QED BY <1>1

LEMMA RequiredIsThere ==
  ASSUME NEW key, NEW verdict, Require(key, verdict).why = {}
  PROVE  key # Absent
BY DEF Require, Bad

LEMMA EntriesAreThere ==
  /\ \A key, context, profiles :
       Commands(key, context, profiles).why = {} => \A c \in key.entries : c.target # Absent /\ c.args # Absent
  /\ \A v, context, commands :
       v # Absent /\ Validation(v, context, commands).why = {} => \A q \in v.probes.entries : q.args # Absent
<1>1. ASSUME NEW key, NEW context, NEW profiles, Commands(key, context, profiles).why = {}, NEW c \in key.entries
      PROVE  c.target # Absent /\ c.args # Absent
  <2> DEFINE verdict == [e \in key.entries |-> Command(e, context, {p.id : p \in profiles.kept})]
  <2>1. Built(key, verdict).why = {}
    BY <1>1, RefusedSaysWhy DEF Commands, Tables
  <2>2. Command(c, context, {p.id : p \in profiles.kept}).why = {}
    <3>1. verdict[c].why = {}
      BY <1>1, <2>1, BuiltFine
    <3> QED BY <1>1, <3>1
  <2> DEFINE target == Require(c.target, PathTemplate(c.target, TargetScope, context))
             answers == {CommandName(c.name), target, Args(c.args, CommandScope, context),
                         Require(c.environment_profile, Check(c.environment_profile \in {p.id : p \in profiles.kept}, "conditional")),
                         Bool(c.required), Bool(c.passthrough_signals),
                         Enum(c.working_directory, {"inherit", "payload"})}
  <2>3. Command(c, context, {p.id : p \in profiles.kept}) = All(answers)
    BY DEF Command
  <2>4. target \in answers /\ Args(c.args, CommandScope, context) \in answers
    OBVIOUS
  <2> HIDE DEF answers
  <2>5. target.why = {} /\ Args(c.args, CommandScope, context).why = {}
    BY <2>2, <2>3, <2>4, FineSaysNothing
  <2> QED BY <2>5, RequiredIsThere DEF Args
<1>2. ASSUME NEW v, NEW context, NEW commands, v # Absent, Validation(v, context, commands).why = {},
             NEW q \in v.probes.entries
      PROVE  q.args # Absent
  <2> DEFINE names == {c.name : c \in commands}
             verdict == [e \in v.probes.entries |-> Probe(e, context, names)]
  <2>1. Built(v.probes, verdict).why = {}
    BY <1>2, RefusedSaysWhy DEF Validation, Tables
  <2>2. Probe(q, context, names).why = {}
    <3>1. verdict[q].why = {}
      BY <1>2, <2>1, BuiltFine
    <3> QED BY <1>2, <3>1
  <2> DEFINE answers == {ScopedID(q.id), Require(q.runtime_command, Check(q.runtime_command \in names, "conditional")),
                         Args(q.args, ProbeScope, context),
                         Enum(q.stream, {"stdout", "stderr", "combined"}), Bool(q.required),
                         Duration(q.timeout, 1, 120), RequiredPaths(q.required_paths, context),
                         Enum(q.expect, {"version", "success", "path-within"}), Expectation(q, context)}
  <2>3. Probe(q, context, names) = All(answers)
    BY DEF Probe
  <2>4. Args(q.args, ProbeScope, context) \in answers
    OBVIOUS
  <2> HIDE DEF answers
  <2>5. Args(q.args, ProbeScope, context).why = {}
    BY <2>2, <2>3, <2>4, FineSaysNothing
  <2> QED BY <2>5, RequiredIsThere DEF Args
<1> QED BY <1>1, <1>2

\* The texts that commands and probes need are there, in a platform without a diagnostic.
LEMMA TextsAreThere ==
  ASSUME NEW p, NEW kind, Platform(p, kind).why = {}
  PROVE  /\ \A c \in Platform(p, kind).value.commands : c.target # Absent /\ c.args # Absent
         /\ \A v \in Platform(p, kind).value.probes : v.args # Absent
<1> DEFINE storages == Storages(p.storage)
           context == Context(p.version_source, storages.kept)
           runtime == Runtime(p.runtime, context, OnWindows(p))
           probes == Validation(p.validation, context, runtime.commands.kept)
           made == PlatformRead(p, kind, context, storages, runtime, probes)
           profiles == Profiles(p.runtime.environment, context, OnWindows(p))
           commands == Commands(p.runtime.commands, context, profiles)
<1>1. runtime.commands.why = {} /\ probes.why = {}
  <2>1. Platform(p, kind) = made
    BY DEF Platform
  <2>2. UNION {storages.why, runtime.profiles.why, runtime.commands.why, probes.why} \subseteq made.why
    <3> HIDE DEF storages, context, runtime, probes
    <3> QED BY DEF PlatformRead
  <2>3. made.why = {}
    BY <2>1
  <2> HIDE DEF storages, runtime, probes, made
  <2> QED BY <2>2, <2>3
<1>2. p.runtime # Absent /\ p.validation # Absent
  BY PlatformKept
<1>3. runtime.commands = commands
  BY <1>2 DEF Runtime, WithProfiles
<1>4. \A c \in p.runtime.commands.entries : c.target # Absent /\ c.args # Absent
  <2> HIDE DEF context, profiles
  <2> QED BY <1>1, <1>3, EntriesAreThere
<1>5. \A v \in p.validation.probes.entries : v.args # Absent
  <2> HIDE DEF context, runtime
  <2> QED BY <1>1, <1>2, EntriesAreThere
<1>6. /\ Platform(p, kind).value.commands = p.runtime.commands.entries
      /\ Platform(p, kind).value.probes = p.validation.probes.entries
  <2>1. Platform(p, kind).value.commands = runtime.commands.kept /\ Platform(p, kind).value.probes = probes.kept
    <3>1. Platform(p, kind) = made
      BY DEF Platform
    <3> HIDE DEF storages, context, runtime, probes
    <3> QED BY <3>1 DEF PlatformRead
  <2>2. Kept(p.runtime.commands, commands) /\ Kept(p.validation.probes, probes)
    BY <1>2, ListsKept
  <2> HIDE DEF commands, probes, runtime
  <2> QED BY <1>1, <1>3, <2>1, <2>2 DEF Kept
<1> QED BY <1>4, <1>5, <1>6

(* The texts of the platform's probes and commands, but for the names.     *)
textsWritten ==
  /\ IsFiniteSet(platform.probes) /\ \A v \in platform.probes : isProbe(v)
  /\ IsFiniteSet(platform.commands) /\ \A c \in platform.commands : isCommand(c)

\* The texts of a platform that was accepted are as they were written.
LEMMA AcceptedTexts ==
  ASSUME ReadInv, step \notin {"file", "end"}
  PROVE  textsWritten
<1> DEFINE p == given.definition.platforms[1]
           kind == SchemeOf(given.definition.tool)
<1>1. platform = Platform(p, kind).value /\ Platform(p, kind).why = {} /\ 1 \in DOMAIN given.definition.platforms
  BY AcceptedIsRead
<1>2. isPlatform(p)
  BY <1>1, InputsAssumption DEF ReadInv, InputsAssumption, isDefinition
<1> HIDE DEF p, kind
<1>3. /\ p.validation # Absent /\ p.validation.probes # Absent /\ platform.probes = p.validation.probes.entries
      /\ p.runtime # Absent /\ p.runtime.commands # Absent /\ platform.commands = p.runtime.commands.entries
  BY <1>1, PlatformKept DEF Lists
<1>4. /\ \A c \in platform.commands : c.target # Absent /\ c.args # Absent
      /\ \A v \in platform.probes : v.args # Absent
  BY <1>1, TextsAreThere
<1>5. /\ IsFiniteSet(platform.probes)
      /\ \A v \in platform.probes : /\ isTable(v.args, isPath)
                                    /\ isTable(v.required_paths, LAMBDA r : isPath(r.path))
  BY <1>2, <1>3 DEF isPlatform, isTable
<1>6. /\ IsFiniteSet(platform.commands)
      /\ \A c \in platform.commands : (c.target # Absent => isPath(c.target)) /\ isTable(c.args, isPath)
  BY <1>2, <1>3 DEF isPlatform, isTable
<1>7. \A v \in platform.probes : isProbe(v)
  BY <1>4, <1>5 DEF isTable, isProbe, areRequired
<1>8. \A c \in platform.commands : isCommand(c)
  BY <1>4, <1>6 DEF isTable, isCommand
<1> QED BY <1>5, <1>6, <1>7, <1>8 DEF textsWritten

(* What the probes that have run have said.                                *)
answersOf(planned) ==
  \A i \in DOMAIN outcomes :
    /\ outcomes[i].id = planned[i].id
    /\ planned[i].expect = "version" => outcomes[i].reported = planned[i].expectedVersion

\* What the codec of a receipt makes sure of: probes and commands have names of
\* their own, and a probe reports a version just when it expects one.
LEMMA EncodedProbes ==
  ASSUME NEW receipt, EncodeReceipt(receipt)
  PROVE  /\ \A i, j \in DOMAIN receipt.probes : receipt.probes[i].id = receipt.probes[j].id => i = j
         /\ \A i, j \in DOMAIN receipt.commands : receipt.commands[i].name = receipt.commands[j].name => i = j
         /\ \A i \in DOMAIN receipt.probes :
              receipt.probes[i].expect # "version" => receipt.probes[i].reported = Absent
<1>1. /\ requireUnique(receipt.probes, ID) /\ \A i \in DOMAIN receipt.probes : receiptProbe(receipt.probes[i])
      /\ requireUnique(receipt.commands, Name)
  BY DEF EncodeReceipt, receiptTable, requireTable
<1>2. /\ \A i, j \in DOMAIN receipt.probes : i # j => receipt.probes[i].id # receipt.probes[j].id
      /\ \A i, j \in DOMAIN receipt.commands : i # j => receipt.commands[i].name # receipt.commands[j].name
  BY <1>1 DEF requireUnique, ID, Name
<1>3. ASSUME NEW q, receiptProbe(q), q.expect # "version" PROVE q.reported = Absent
  <2>1. checkProbeExpectFields(q, q.reported)
    BY <1>3 DEF receiptProbe, probeFields
  <2> QED BY <1>3, <2>1 DEF checkProbeExpectFields
<1> QED BY <1>1, <1>2, <1>3

\* The outcomes, merged with the probes of the plan, are the records of those probes.
LEMMA MergedIs ==
  ASSUME NEW planned, NEW n \in Nat, DOMAIN planned = 1 .. n, outcomes \in Seq(ToSet(outcomes)), Len(outcomes) = n,
         answersOf(planned),
         NEW merged, merged = mergeProbeOutcomes(planned, ToSet(outcomes)),
         \A i, j \in DOMAIN merged : merged[i].id = merged[j].id => i = j,
         \A i \in DOMAIN merged : merged[i].expect # "version" => merged[i].reported = Absent
  PROVE  merged = [i \in 1 .. n |-> RecordOf(planned[i], outcomes[i].finishedAt)]
<1> DEFINE ran(i) == {o \in ToSet(outcomes) : o.id = planned[i].id}
           entry(i) ==
     [id |-> planned[i].id, command |-> planned[i].command, stream |-> planned[i].stream,
      args |-> Made([j \in DOMAIN planned[i].args |-> planned[i].args[j].value]),
      expect |-> planned[i].expect, regex |-> planned[i].regex,
      expectedVersion |-> planned[i].expectedVersion, expectedRoot |-> planned[i].expectedRoot,
      requiredPaths |-> Made(planned[i].requiredPaths), timeout |-> planned[i].timeout,
      required |-> planned[i].required, status |-> IF ran(i) = {} THEN "skipped" ELSE "passed",
      reported |-> IF ran(i) = {} THEN Absent ELSE One(ran(i)).reported,
      finishedAt |-> IF ran(i) = {} THEN Absent ELSE One(ran(i)).finishedAt]
<1>1. merged = [i \in 1 .. n |-> entry(i)]
  BY DEF mergeProbeOutcomes
<1>2. \A i : entry(i).id = planned[i].id /\ entry(i).expect = planned[i].expect
             /\ entry(i).reported = IF ran(i) = {} THEN Absent ELSE One(ran(i)).reported
  OBVIOUS
<1>3. DOMAIN outcomes = 1 .. n /\ \A i \in 1 .. n : outcomes[i] \in ToSet(outcomes)
  BY DEF ToSet
<1>4. ASSUME NEW i \in 1 .. n PROVE ran(i) = {outcomes[i]}
  <2>1. outcomes[i] \in ran(i)
    BY <1>3, <1>4 DEF answersOf
  <2>2. ASSUME NEW o \in ran(i) PROVE o = outcomes[i]
    <3>1. PICK j \in 1 .. n : o = outcomes[j]
      BY <1>3 DEF ToSet
    <3>2. planned[j].id = planned[i].id
      BY <1>3, <3>1 DEF answersOf
    <3> HIDE DEF entry
    <3>3. merged[i].id = merged[j].id /\ i \in DOMAIN merged /\ j \in DOMAIN merged
      BY <1>1, <1>2, <3>2
    <3>4. i = j
      BY <3>3
    <3> QED BY <3>1, <3>4
  <2> HIDE DEF ran
  <2> QED BY <2>1, <2>2
<1>5. \A i \in 1 .. n : ran(i) # {} /\ One(ran(i)) = outcomes[i]
  <2> HIDE DEF ran
  <2>1. \A o : One({o}) = o /\ {o} # {}
    BY OneIs
  <2> QED BY <1>4, <2>1
<1>6. ASSUME NEW i \in 1 .. n PROVE outcomes[i].reported = IF planned[i].expect = "version" THEN planned[i].expectedVersion ELSE Absent
  <2> HIDE DEF ran, entry
  <2>1. merged[i].expect = planned[i].expect /\ merged[i].reported = outcomes[i].reported /\ i \in DOMAIN merged
    BY <1>1, <1>2, <1>5, <1>6
  <2>2. planned[i].expect = "version" => outcomes[i].reported = planned[i].expectedVersion
    BY <1>3, <1>6 DEF answersOf
  <2> QED BY <2>1, <2>2
<1>7. ASSUME NEW i \in 1 .. n PROVE entry(i) = RecordOf(planned[i], outcomes[i].finishedAt)
  <2>1. ran(i) # {} /\ One(ran(i)) = outcomes[i]
    BY <1>5, <1>7
  <2> HIDE DEF ran
  <2>2. entry(i) = [id |-> planned[i].id, command |-> planned[i].command, stream |-> planned[i].stream,
      args |-> Made([j \in DOMAIN planned[i].args |-> planned[i].args[j].value]),
      expect |-> planned[i].expect, regex |-> planned[i].regex,
      expectedVersion |-> planned[i].expectedVersion, expectedRoot |-> planned[i].expectedRoot,
      requiredPaths |-> Made(planned[i].requiredPaths), timeout |-> planned[i].timeout,
      required |-> planned[i].required, status |-> "passed",
      reported |-> outcomes[i].reported, finishedAt |-> outcomes[i].finishedAt]
    BY <2>1
  <2> HIDE DEF entry
  <2> QED BY <1>6, <1>7, <2>2 DEF RecordOf, RecordWith, valuesOf
<1> HIDE DEF entry, ran
<1> QED BY <1>1, <1>7

\* A receipt that is recorded is made of what was planned for its operation, and of
\* a platform whose texts are well written.
LEMMA ReceiptIsRecorded ==
  ASSUME ScopeInv, step = "staged", answersOf(plan.probes), Len(outcomes) = Len(plan.probes),
         NEW targets \in CollectCommandTargets(platform, [roots EXCEPT !.probeTemp = Absent]),
         EncodeReceipt(Receipt(targets))
  PROVE  WellWritten /\ Recorded(operation, Receipt(targets))
<1> DEFINE receipt == Receipt(targets)
           merged == mergeProbeOutcomes(plan.probes, ToSet(outcomes))
           n == Cardinality(platform.probes)
           list == SetToSeq(platform.commands)
<1>1. textsWritten
  BY AcceptedTexts DEF ScopeInv
<1>2. plan \in BuildInstallPlan(request) /\ outcomes \in Seq(ToSet(outcomes))
  BY DEF ScopeInv
<1>3. probesPlanned(operation, plan.probes)
  BY <1>2, PlanProbes
<1>4. n \in Nat /\ DOMAIN probeList = 1 .. n
  BY <1>1, SetToSeqIs DEF textsWritten, probeList
<1>5. DOMAIN plan.probes = 1 .. n /\ Len(plan.probes) = n
  <2> HIDE DEF n
  <2>1. DOMAIN plan.probes = 1 .. n
    BY <1>3, <1>4 DEF probesPlanned
  <2> QED BY <1>4, <2>1
<1>6. receipt.probes = merged /\ receipt.commands = list
  <2> HIDE DEF merged, list
  <2> QED BY DEF Receipt, merged, list
<1>7. /\ \A i, j \in DOMAIN merged : merged[i].id = merged[j].id => i = j
      /\ \A i, j \in DOMAIN list : list[i].name = list[j].name => i = j
      /\ \A i \in DOMAIN merged : merged[i].expect # "version" => merged[i].reported = Absent
  <2> HIDE DEF receipt, merged, list
  <2>1. EncodeReceipt(receipt)
    BY DEF receipt
  <2> QED BY <1>6, <2>1, EncodedProbes
<1>8. \A c, d \in platform.commands : c.name = d.name => c = d
  <2>1. \A c \in platform.commands : \E i \in DOMAIN list : list[i] = c
    BY <1>1, SetToSeqIs DEF textsWritten
  <2> HIDE DEF list
  <2> QED BY <1>7, <2>1
<1>9. WellWritten
  <2>1. \A i \in DOMAIN probeList : i \in DOMAIN merged /\ merged[i].id = probeList[i].id
    <3> SUFFICES ASSUME NEW i \in DOMAIN probeList PROVE i \in DOMAIN merged /\ merged[i].id = probeList[i].id
      OBVIOUS
    <3>1. plan.probes[i].id = probeList[i].id
      BY <1>3 DEF probesPlanned, Planned
    <3>2. i \in DOMAIN plan.probes
      BY <1>4, <1>5
    <3> QED BY <3>1, <3>2 DEF mergeProbeOutcomes
  <2>2. \A i, j \in DOMAIN probeList : probeList[i].id = probeList[j].id => i = j
    <3> HIDE DEF merged
    <3> QED BY <1>7, <2>1
  <2> QED BY <1>1, <1>8, <2>2 DEF textsWritten, WellWritten
<1> DEFINE times == [i \in 1 .. n |-> outcomes[i].finishedAt]
<1>10. merged = recordsOf(plan.probes, times)
  <2>1. merged = [i \in 1 .. n |-> RecordOf(plan.probes[i], outcomes[i].finishedAt)]
    <3> HIDE DEF n
    <3> DEFINE planned == plan.probes
    <3>1. DOMAIN planned = 1 .. n /\ Len(outcomes) = n /\ answersOf(planned) /\ n \in Nat
          /\ merged = mergeProbeOutcomes(planned, ToSet(outcomes))
      BY <1>4, <1>5
    <3> HIDE DEF planned, merged
    <3>2. merged = [i \in 1 .. n |-> RecordOf(planned[i], outcomes[i].finishedAt)]
      BY <1>2, <1>7, <3>1, MergedIs
    <3> QED BY <3>2 DEF planned
  <2> HIDE DEF n, merged
  <2> QED BY <1>4, <2>1 DEF recordsOf
<1>11. receipt = ReceiptOf(operation, Now + Len(receipts), merged, targets)
  <2> HIDE DEF merged
  <2> QED BY DEF Receipt, ReceiptOf, installedArtifact, merged
<1>12. targets \in CollectCommandTargets(platform, rootsAt(operation, Absent))
  BY RootsOfOperation
<1>13. Recorded(operation, receipt)
  <2> HIDE DEF merged, times, receipt
  <2>1. receipt = ReceiptOf(operation, Now + Len(receipts), recordsOf(plan.probes, times), targets)
    BY <1>10, <1>11
  <2>2. MadeOf(operation, receipt, targets, Now + Len(receipts), plan.probes, times)
    BY <1>3, <1>12, <2>1 DEF MadeOf, probesPlanned
  <2> QED BY <2>2 DEF Recorded
<1> QED BY <1>9, <1>13

(* Every receipt is recorded for its own operation; as long as the pipeline *)
(* goes on there is an operation that has none.                            *)
TwinInv ==
  /\ ScopeInv
  /\ receipts \in Seq(ToSet(receipts)) /\ DOMAIN receipts \subseteq DOMAIN Operations
  /\ step # "end" => Len(receipts) < Len(Operations)
  /\ receipts # <<>> => step \notin {"file", "definition", "catalog"} /\ WellWritten
  /\ step \notin {"staged", "end"} => outcomes = <<>>
  /\ step = "staged" => answersOf(plan.probes)
  /\ \A k \in DOMAIN receipts : Recorded(Operations[k], receipts[k])

\* What was recorded stays recorded as long as platform, catalog and version stay.
LEMMA RecordedStays ==
  ASSUME UNCHANGED <<platform, catalog, chosen>>
  PROVE  (WellWritten => WellWritten') /\ \A op, receipt : Recorded(op, receipt) => Recorded(op, receipt)'
<1>1. WellWritten => WellWritten'
  BY DEF WellWritten, isProbe, isCommand, areRequired, isPath, probeList
<1>2. /\ onWindows' = onWindows /\ storageDirs' = storageDirs /\ probeList' = probeList
      /\ installedArtifact' = installedArtifact
  BY DEF onWindows, storageDirs, probeList, installedArtifact, storageParts
<1>3. ASSUME NEW op, NEW planned, NEW i, Planned(op, probeList[i], planned[i])
      PROVE  Planned(op, probeList[i], planned[i])'
  BY <1>2, <1>3 DEF Planned, Temps, rootsAt, payloadAt, probesAt
<1>4. ASSUME NEW op, NEW receipt, NEW targets, NEW at, NEW planned, NEW times,
             MadeOf(op, receipt, targets, at, planned, times)
      PROVE  MadeOf(op, receipt, targets, at, planned, times)'
  <2>1. targets \in CollectCommandTargets(platform, rootsAt(op, Absent))'
    BY <1>2, <1>4 DEF MadeOf, rootsAt, payloadAt
  <2>2. \A i \in DOMAIN probeList' : Planned(op, probeList[i], planned[i])'
    BY <1>2, <1>3, <1>4 DEF MadeOf
  <2>3. receipt = ReceiptOf(op, at, recordsOf(planned, times), targets)'
    <3>1. recordsOf(planned, times)' = recordsOf(planned, times)
      BY <1>2 DEF recordsOf
    <3> HIDE DEF recordsOf
    <3> QED BY <1>2, <1>4, <3>1 DEF MadeOf, ReceiptOf
  <2> QED BY <2>1, <2>2, <2>3 DEF MadeOf
<1>5. \A op, receipt : Recorded(op, receipt) => Recorded(op, receipt)'
  BY <1>4 DEF Recorded
<1> QED BY <1>1, <1>5

\* A list that got one more element.
LEMMA AppendedIs ==
  ASSUME NEW s, s \in Seq(ToSet(s)), NEW e
  PROVE  /\ Len(s) \in Nat /\ DOMAIN s = 1 .. Len(s) /\ DOMAIN Append(s, e) = 1 .. (Len(s) + 1)
         /\ Append(s, e)[Len(s) + 1] = e /\ Append(s, e) # <<>>
         /\ \A i \in DOMAIN s : Append(s, e)[i] = s[i]
         /\ \A i \in DOMAIN Append(s, e) : i \in DOMAIN s \/ i = Len(s) + 1
OBVIOUS

\* Every step of the pipeline keeps it so that each receipt is recorded for its operation.
LEMMA TwinInvStep == TwinInv /\ [PipelineNext]_pipelineVars => TwinInv'
<1> SUFFICES ASSUME TwinInv, [PipelineNext]_pipelineVars PROVE TwinInv'
  OBVIOUS
<1>0. ScopeInv /\ ScopeInv'
  BY ScopeInvStep DEF TwinInv
<1>1. ASSUME UNCHANGED <<platform, catalog, chosen>>,
             NEW k, NEW receipt, Recorded(Operations[k], receipt), receipts'[k] = receipt
      PROVE  Recorded(Operations[k], receipts[k])'
  <2>1. Recorded(Operations[k], receipt)'
    BY <1>1, RecordedStays
  <2> QED BY <1>1, <2>1 DEF Recorded, MadeOf
<1>2. ASSUME UNCHANGED <<platform, catalog, chosen, receipts>>
      PROVE  /\ receipts' \in Seq(ToSet(receipts')) /\ DOMAIN receipts' \subseteq DOMAIN Operations
             /\ receipts' # <<>> => WellWritten'
             /\ \A k \in DOMAIN receipts' : Recorded(Operations[k], receipts[k])'
  <2>1. /\ receipts \in Seq(ToSet(receipts)) /\ DOMAIN receipts \subseteq DOMAIN Operations
        /\ receipts # <<>> => WellWritten
        /\ \A k \in DOMAIN receipts : Recorded(Operations[k], receipts[k])
    BY DEF TwinInv
  <2>2. /\ receipts' \in Seq(ToSet(receipts')) /\ DOMAIN receipts' \subseteq DOMAIN Operations
        /\ (receipts' # <<>> => WellWritten')
    BY <1>2, <2>1, RecordedStays
  <2> QED BY <1>1, <1>2, <2>1, <2>2
<1>3. ASSUME NEW at, Stop(at) PROVE TwinInv'
  <2>1. step' = "end" /\ UNCHANGED <<platform, catalog, chosen, receipts>>
    BY <1>3 DEF Stop
  <2> QED BY <1>0, <1>2, <2>1 DEF TwinInv
<1>4. ASSUME UNCHANGED <<platform, catalog, chosen, receipts, outcomes>>,
             step \in {"chosen", "planned"}, step' \in {"chosen", "planned", "staged"}
      PROVE  TwinInv'
  <2>1. outcomes = <<>> /\ Len(receipts) < Len(Operations)
    BY <1>4 DEF TwinInv
  <2>2. answersOf(plan.probes)'
    <3>1. DOMAIN <<>> = {}
      OBVIOUS
    <3> QED BY <1>4, <2>1, <3>1 DEF answersOf
  <2>3. /\ step' # "end" => Len(receipts') < Len(Operations)
        /\ step' \notin {"file", "definition", "catalog"}
        /\ outcomes' = <<>>
    BY <1>4, <2>1
  <2> QED BY <1>0, <1>2, <1>4, <2>2, <2>3 DEF TwinInv
<1>5. ASSUME step \in {"file", "definition", "catalog"}, step' \notin {"staged"}, UNCHANGED <<outcomes, receipts>>
      PROVE  TwinInv'
  <2>1. receipts = <<>> /\ outcomes = <<>> /\ Len(receipts) < Len(Operations)
    BY <1>5 DEF TwinInv
  <2>2. <<>> \in Seq(ToSet(<<>>)) /\ DOMAIN <<>> = {}
    OBVIOUS
  <2> QED BY <1>0, <1>5, <2>1, <2>2 DEF TwinInv
<1>6. CASE Parse
  <2>1. step = "file" /\ (step' = "definition" \/ step' = "end") /\ UNCHANGED <<outcomes, receipts>>
    BY <1>6 DEF Parse, Stop
  <2> QED BY <1>5, <2>1
<1>7. CASE Refresh
  <2>1. step = "definition" /\ (step' = "catalog" \/ step' = "end") /\ UNCHANGED <<outcomes, receipts>>
    BY <1>7 DEF Refresh, Stop
  <2> QED BY <1>5, <2>1
<1>8. CASE Choose
  <2>1. step = "catalog" /\ (step' = "chosen" \/ step' = "end") /\ UNCHANGED <<outcomes, receipts>>
    BY <1>8 DEF Choose
  <2> QED BY <1>5, <2>1
<1>9. CASE MakePlan
  <2>1. \/ Stop("plan")
        \/ step = "chosen" /\ step' = "planned" /\ UNCHANGED <<platform, catalog, chosen, receipts, outcomes>>
    BY <1>9 DEF MakePlan
  <2> QED BY <1>3, <1>4, <2>1
<1>10. CASE Approve
  <2>1. \/ Stop("approval") \/ Stop("scope")
        \/ step = "planned" /\ step' = "staged" /\ UNCHANGED <<platform, catalog, chosen, receipts, outcomes>>
    BY <1>10 DEF Approve
  <2> QED BY <1>3, <1>4, <2>1
<1>11. CASE RunProbe
  <2> DEFINE n == Len(outcomes) + 1
             planned == plan.probes
  <2>1. \/ Stop("scope") \/ Stop("probe")
        \/ \E result : /\ runOne(planned[n], result, onWindows).code = "OK"
                       /\ outcomes' = Append(outcomes, runOne(planned[n], result, onWindows).value)
                       /\ UNCHANGED <<platform, catalog, chosen, receipts, plan, step>>
    BY <1>11 DEF RunProbe
  <2>2. CASE Stop("scope") \/ Stop("probe")
    BY <1>3, <2>2
  <2>3. ASSUME NEW result, runOne(planned[n], result, onWindows).code = "OK",
               outcomes' = Append(outcomes, runOne(planned[n], result, onWindows).value),
               UNCHANGED <<platform, catalog, chosen, receipts, plan, step>>
        PROVE  TwinInv'
    <3> DEFINE ran == runOne(planned[n], result, onWindows)
    <3>1. /\ ran.value.id = planned[n].id
          /\ planned[n].expect = "version" => ran.value.reported = planned[n].expectedVersion
      <4> HIDE DEF n, planned
      <4>1. ran.code = "OK"
        BY <2>3
      <4> HIDE DEF ran
      <4>2. ran = runOne(planned[n], result, onWindows)
        BY DEF ran
      <4> QED BY <4>1, <4>2, OutcomeIs
    <3>2. step = "staged" /\ answersOf(planned) /\ outcomes \in Seq(ToSet(outcomes)) /\ Len(receipts) < Len(Operations)
          /\ (receipts # <<>> => WellWritten)
      BY <1>11 DEF RunProbe, TwinInv, ScopeInv
    <3>3. outcomes' = Append(outcomes, ran.value)
      BY <2>3
    <3> HIDE DEF ran
    <3>4. /\ \A i \in DOMAIN outcomes : outcomes'[i] = outcomes[i]
          /\ \A i \in DOMAIN outcomes' : i \in DOMAIN outcomes \/ i = n
          /\ outcomes'[n] = ran.value
      BY <3>2, <3>3, AppendedIs
    <3> HIDE DEF n
    <3>5. \A i \in DOMAIN outcomes' :
            /\ outcomes'[i].id = planned[i].id
            /\ planned[i].expect = "version" => outcomes'[i].reported = planned[i].expectedVersion
      BY <3>1, <3>2, <3>4 DEF answersOf
    <3>6. planned' = planned
      BY <2>3
    <3>7. answersOf(plan.probes)'
      BY <3>5, <3>6 DEF answersOf
    <3>8. step' = "staged" /\ (step' # "end" => Len(receipts') < Len(Operations))
      BY <2>3, <3>2
    <3> QED BY <1>0, <1>2, <2>3, <3>7, <3>8 DEF TwinInv
  <2> HIDE DEF n, planned
  <2> QED BY <2>1, <2>2, <2>3
<1>12. CASE Record
  <2>1. step = "staged" /\ Len(outcomes) = Len(plan.probes) /\ ScopeInv /\ answersOf(plan.probes)
    BY <1>0, <1>12 DEF Record, TwinInv
  <2>2. \/ Stop("targets") \/ Stop("receipt")
        \/ \E targets \in CollectCommandTargets(platform, [roots EXCEPT !.probeTemp = Absent]) :
             /\ EncodeReceipt(Receipt(targets)) /\ receipts' = Append(receipts, Receipt(targets))
             /\ step' = IF Len(receipts) + 1 = Len(Operations) THEN "end" ELSE "chosen"
             /\ outcomes' = <<>> /\ UNCHANGED <<platform, catalog, chosen>>
    BY <1>12, OneIs DEF Record
  <2>3. CASE Stop("targets") \/ Stop("receipt")
    BY <1>3, <2>3
  <2>4. ASSUME NEW targets \in CollectCommandTargets(platform, [roots EXCEPT !.probeTemp = Absent]),
               EncodeReceipt(Receipt(targets)), receipts' = Append(receipts, Receipt(targets)),
               step' = IF Len(receipts) + 1 = Len(Operations) THEN "end" ELSE "chosen",
               outcomes' = <<>>, UNCHANGED <<platform, catalog, chosen>>
        PROVE  TwinInv'
    <3> DEFINE receipt == Receipt(targets)
               n == Len(receipts) + 1
    <3>1. WellWritten /\ Recorded(Operations[n], receipt)
      BY <2>1, <2>4, ReceiptIsRecorded DEF operation
    <3>2. receipts \in Seq(ToSet(receipts)) /\ Len(receipts) < Len(Operations)
          /\ \A k \in DOMAIN receipts : Recorded(Operations[k], receipts[k])
      BY <2>1 DEF TwinInv
    <3> HIDE DEF receipt
    <3>3. /\ \A k \in DOMAIN receipts : receipts'[k] = receipts[k]
          /\ \A k \in DOMAIN receipts' : k \in DOMAIN receipts \/ k = n
          /\ receipts'[n] = receipt
      BY <2>4, <3>2, AppendedIs DEF receipt
    <3>4. receipts' \in Seq(ToSet(receipts')) /\ Len(receipts') = n
      BY <2>4, <3>2, AppendIsSeq
    <3>5. step' # "end" => Len(receipts') < Len(Operations)
      <4>1. Len(receipts) \in Nat /\ Len(Operations) \in Nat
        BY <3>2, OperationsAssumption DEF OperationsAssumption
      <4>2. step' # "end" => n # Len(Operations)
        BY <2>4
      <4> QED BY <3>2, <3>4, <4>1, <4>2
    <3>6. n \in DOMAIN Operations
      <4>1. Len(receipts) \in Nat /\ Len(Operations) \in Nat /\ DOMAIN Operations = 1 .. Len(Operations)
        BY <3>2, OperationsAssumption DEF OperationsAssumption
      <4> QED BY <3>2, <4>1
    <3>7. DOMAIN receipts' \subseteq DOMAIN Operations
      <4>1. DOMAIN receipts \subseteq DOMAIN Operations
        BY DEF TwinInv
      <4> HIDE DEF n
      <4> QED BY <3>3, <3>6, <4>1
    <3> HIDE DEF n
    <3>8. \A k \in DOMAIN receipts' : Recorded(Operations[k], receipts[k])'
      <4> SUFFICES ASSUME NEW k \in DOMAIN receipts' PROVE Recorded(Operations[k], receipts[k])'
        OBVIOUS
      <4>1. Recorded(Operations[k], receipts'[k])
        BY <3>1, <3>2, <3>3
      <4> QED BY <1>1, <2>4, <4>1
    <3>9. WellWritten'
      BY <2>4, <3>1, RecordedStays
    <3>10. step' \in {"end", "chosen"}
      BY <2>4
    <3> QED BY <1>0, <2>4, <3>4, <3>5, <3>7, <3>8, <3>9, <3>10 DEF TwinInv
  <2> QED BY <2>2, <2>3, <2>4
<1>13. CASE UNCHANGED pipelineVars
  <2>1. UNCHANGED <<platform, catalog, chosen, receipts, step, outcomes, plan>>
    BY <1>13 DEF pipelineVars
  <2>2. answersOf(plan.probes) => answersOf(plan.probes)'
    BY <2>1 DEF answersOf
  <2> QED BY <1>0, <1>2, <2>1, <2>2 DEF TwinInv
<1> QED BY <1>6, <1>7, <1>8, <1>9, <1>10, <1>11, <1>12, <1>13 DEF PipelineNext

\* Two installs of the same, one of them read back from the disk, agree but for three
\* gaps: whatever the definition, the version and the two operations are, what the first
\* one recorded and the second one makes differ in nothing but identity and time exactly
\* when no argument and no required path of a probe lies in the payload or in the probe's
\* own directory, every probe has an argument and a required path, and the probes are
\* listed by their IDs.
THEOREM TwinsDifferWhen == PipelineSpec => []TwinInstallsAgree
<1>1. PipelineInit => TwinInv
  <2>1. <<>> \in Seq(ToSet(<<>>)) /\ DOMAIN <<>> = {} /\ Len(<<>>) = 0
    OBVIOUS
  <2>2. 0 < Len(Operations)
    <3>1. Operations \in Seq(ToSet(Operations)) /\ Operations # <<>>
      BY OperationsAssumption DEF OperationsAssumption
    <3> QED BY <3>1
  <2> QED BY <2>1, <2>2 DEF PipelineInit, ReadInv, ScopeInv, TwinInv
<1>2. TwinInv => TwinInstallsAgree
  <2> SUFFICES ASSUME TwinInv, Len(receipts) = 2
               PROVE  SameInstall(onDisk(receipts[1]), receipts[2]) <=> ~(pathInProbe \/ emptyListInProbe \/ probesOutOfOrder)
    BY DEF TwinInstallsAgree
  <2>1. 1 \in DOMAIN receipts /\ 2 \in DOMAIN receipts /\ receipts # <<>>
    BY DEF TwinInv
  <2>2. Recorded(Operations[1], receipts[1]) /\ Recorded(Operations[2], receipts[2]) /\ WellWritten
    BY <2>1 DEF TwinInv
  <2>3. Operations[1] # Operations[2]
    <3>1. 1 \in DOMAIN Operations /\ 2 \in DOMAIN Operations
      BY <2>1 DEF TwinInv
    <3> QED BY <3>1, OperationsAssumption DEF OperationsAssumption, IsInjective
  <2>4. given.byID \in BOOLEAN
    BY InputsAssumption DEF InputsAssumption, TwinInv, ScopeInv, ReadInv
  <2> QED BY <2>2, <2>3, <2>4, TwinsAgree
<1> QED BY <1>1, <1>2, TwinInvStep, PTL DEF PipelineSpec
===============================================================================
