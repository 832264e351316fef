----------------------------- MODULE CatalogOrder -----------------------------
(***************************************************************************)
(* The order of the items of a catalog, as package catalog makes it and    *)
(* package store checks it, and the choice of the latest version, which    *)
(* relies on it.                                                           *)
(***************************************************************************)
EXTENDS VersionRules

\* The newest first, texts of one version by their bytes (of two texts of one
\* version the shorter is a prefix of the longer).
TextBelow(v, w) == Len(v.text.nums) < Len(w.text.nums)
Newer(l, r) ==
  Above(l.version, r.version) \/ (Compare(l.version, r.version) = 0 /\ TextBelow(l.version, r.version))
requireCatalogItemOrder(items) == \A i \in 2 .. Len(items) : Newer(items[i - 1], items[i])

isLatestCandidate(item) == item.installable /\ item.channel = "stable" /\ item.lifecycle # "eol"
Candidates(items) == {i \in DOMAIN items : isLatestCandidate(items[i])}
Least(indexes) == CHOOSE i \in indexes : \A j \in indexes : i <= j

\* Bug: two candidates of one version are not looked for.
LatestFirst(items) ==
  IF Candidates(items) = {} THEN {} ELSE {items[Least(Candidates(items))]}
\* The first candidate, unless the second one is the same version
Latest(items) ==
  LET best == Least(Candidates(items))
      second == Least(Candidates(items) \ {best}) IN
  IF \/ Candidates(items) = {}
     \/ Candidates(items) # {best} /\ Compare(items[best].version, items[second].version) = 0
  THEN {} ELSE {items[best]}

-----------------------------------------------------------------------------
\* What is wanted: of those that are offered as stable and still supported one that
\* no other is above.
Offered(items) ==
  {i \in DOMAIN items : /\ items[i].installable /\ items[i].channel = "stable"
                        /\ items[i].lifecycle \in {"supported", "unknown"}}
Greatest(items) ==
  {i \in Offered(items) : \A j \in Offered(items) : Compare(items[i].version, items[j].version) >= 0}
===============================================================================
