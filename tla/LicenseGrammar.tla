--------------------------- MODULE LicenseGrammar ---------------------------
(***************************************************************************)
(* The parser of license expressions (definition/license.go) beside the    *)
(* grammar it is meant to parse.  A token is one of the signs, "id" (a     *)
(* license identifier), "id+" (with a plus), "ref" (LicenseRef- and a      *)
(* name), "docref" (DocumentRef- with a colon and a "ref"), "stub" (such a *)
(* beginning without the rest: a string of the characters of identifiers   *)
(* that names no license) or "bad" (any other string).                     *)
(***************************************************************************)
EXTENDS Integers, Sequences

Signs == {"AND", "OR", "WITH", "(", ")"}
Tokens == Signs \cup {"id", "id+", "ref", "docref", "stub", "bad"}
\* What parseSimple takes, and what spdxIDStringRe matches
SimpleTokens == {"id", "id+", "ref", "docref"}
IDStrings == {"id", "ref", "stub"}

At(t, i) == IF i \in 1 .. Len(t) THEN t[i] ELSE "end"

-----------------------------------------------------------------------------
(* The parser: each part answers where it goes on in t, or 0, its error.   *)

Simple(t, i) == IF At(t, i) \in SimpleTokens THEN i + 1 ELSE 0
\* Bug: an exception may carry a plus.
WithPlus(t, i) ==
  IF At(t, i) # "WITH" THEN i ELSE IF At(t, i + 1) \in IDStrings \cup {"id+"} THEN i + 2 ELSE 0
With(t, i) ==
  IF At(t, i) # "WITH" THEN i ELSE IF At(t, i + 1) \in IDStrings THEN i + 2 ELSE 0

\* inside is where the expression after an opening parenthesis ends.
Compound(t, i, inside) ==
  IF At(t, i) = "(" THEN (IF inside # 0 /\ At(t, inside) = ")" THEN inside + 1 ELSE 0)
  ELSE IF Simple(t, i) = 0 THEN 0 ELSE With(t, i + 1)

\* parseExpression when so many tokens are left
ExpressionFrom(t, ends, left) ==
  LET end == Compound(t, Len(t) + 1 - left, IF left = 0 THEN 0 ELSE ends[left - 1]) IN
  IF end # 0 /\ At(t, end) \in {"AND", "OR"} THEN ends[Len(t) - end] ELSE end
Ends(t) == LET ends[left \in Nat] == ExpressionFrom(t, ends, left) IN ends

License(t) == Ends(t)[Len(t)] = Len(t) + 1

-----------------------------------------------------------------------------
(* The grammar: where in t the expressions of each length begin.           *)

CompoundAt(t, starts, i, n) ==
  \/ n = 1 /\ At(t, i) \in SimpleTokens
  \/ n = 3 /\ At(t, i) \in SimpleTokens /\ At(t, i + 1) = "WITH" /\ At(t, i + 2) \in IDStrings
  \/ n >= 3 /\ At(t, i) = "(" /\ i + 1 \in starts[n - 2] /\ At(t, i + n - 1) = ")"
StartsOf(t, starts, n) ==
  {i \in 1 .. Len(t) + 1 - n :
     \/ CompoundAt(t, starts, i, n)
     \/ \E k \in 1 .. n - 2 : /\ CompoundAt(t, starts, i, k) /\ At(t, i + k) \in {"AND", "OR"}
                              /\ i + k + 1 \in starts[n - k - 1]}
Starts(t) == LET starts[n \in Nat] == StartsOf(t, starts, n) IN starts

Derived(t) == 1 \in Starts(t)[Len(t)]
=============================================================================
