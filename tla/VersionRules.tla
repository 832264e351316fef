---------------------------- MODULE VersionRules ----------------------------
(***************************************************************************)
(* The versions of package domain: their texts under three schemes, and    *)
(* their order.                                                            *)
(*                                                                         *)
(* A text is abstracted to what the three grammars tell apart: its numbers,*)
(* its tag ("" for none, "-" for a semver prerelease), the number after    *)
(* the tag and the identifiers after the hyphen.  An identifier of text is *)
(* its rank in the byte order.  A text with anything else in it (a leading *)
(* zero, a leading v, build metadata, a number over 64 bits) has the tag   *)
(* "malformed".                                                            *)
(***************************************************************************)
EXTENDS Integers, Sequences

Schemes == {"semver", "go", "python"}
Ident == [numeric : BOOLEAN, rank : Nat]
VersionTexts == [nums : Seq(Nat), tag : STRING, num : Nat, pre : Seq(Ident)]

(* stageGoBeta, stageGoRC, stagePythonA, ...: final is above every other   *)
Stage(tag) == IF tag = "" THEN 9
              ELSE IF tag \in {"-", "beta", "a"} THEN 1
              ELSE IF tag = "b" THEN 2 ELSE 3
GoStage(tag) == IF tag = "rc" THEN 2 ELSE Stage(tag)

Number(text, i) == IF i <= Len(text.nums) THEN text.nums[i] ELSE 0

Parsed(scheme, text, stage) ==
  [scheme |-> scheme, text |-> text, stage |-> stage,
   major |-> Number(text, 1), minor |-> Number(text, 2), patch |-> Number(text, 3),
   stageNum |-> IF text.tag \in {"", "-"} THEN 0 ELSE text.num,
   pre |-> IF text.tag = "-" THEN text.pre ELSE <<>>]

Semver(text) ==
  /\ Len(text.nums) = 3
  /\ text.tag = "" \/ (text.tag = "-" /\ text.pre # <<>>)

Go(text) ==
  \/ Len(text.nums) \in {2, 3} /\ text.tag = ""
  \/ Len(text.nums) = 2 /\ text.tag \in {"beta", "rc"} /\ text.num >= 1

Python(text) ==
  /\ Len(text.nums) = 3
  /\ text.tag = "" \/ (text.tag \in {"a", "b", "rc"} /\ text.num >= 1)

(* ParseVersion: the set of its results, empty when it refuses the text.   *)
ParseVersion(scheme, text) ==
  IF scheme = "semver" /\ Semver(text) THEN {Parsed(scheme, text, Stage(text.tag))}
  ELSE IF scheme = "go" /\ Go(text) THEN {Parsed(scheme, text, GoStage(text.tag))}
  ELSE IF scheme = "python" /\ Python(text) THEN {Parsed(scheme, text, Stage(text.tag))}
  ELSE {}

IsPrerelease(v) == v.stage # 9

Compare2(a, b) == IF a < b THEN -1 ELSE IF a > b THEN 1 ELSE 0

(* The first place where two sequences of numbers differ decides.          *)
Differ(a, b) == {i \in DOMAIN a \cap DOMAIN b : a[i] # b[i]}
First(a, b) == CHOOSE i \in Differ(a, b) : \A j \in Differ(a, b) : i <= j
Lexicographic(a, b) ==
  IF Differ(a, b) = {} THEN 0 ELSE Compare2(a[First(a, b)], b[First(a, b)])

(* Numeric identifiers are below the others; a longer list with the same   *)
(* beginning is above the shorter one; no list at all is above every list. *)
Weight(ident) == <<IF ident.numeric THEN 0 ELSE 1, ident.rank>>
IdentCompare(l, r) == Lexicographic(Weight(l), Weight(r))
PreDiffer(l, r) == {i \in DOMAIN l \cap DOMAIN r : IdentCompare(l[i], r[i]) # 0}
PreFirst(l, r) == CHOOSE i \in PreDiffer(l, r) : \A j \in PreDiffer(l, r) : i <= j
ComparePre(l, r) ==
  IF l = <<>> \/ r = <<>> THEN Compare2(IF l = <<>> THEN 1 ELSE 0, IF r = <<>> THEN 1 ELSE 0)
  ELSE IF PreDiffer(l, r) = {} THEN Compare2(Len(l), Len(r))
  ELSE IdentCompare(l[PreFirst(l, r)], r[PreFirst(l, r)])

(* A go version has no patch while it has a stage, so its stage comes      *)
(* before its patch; a python version has both, so its patch comes first.  *)
Numbers(v) ==
  IF v.scheme = "go" THEN <<v.major, v.minor, v.stage, v.stageNum, v.patch>>
  ELSE IF v.scheme = "python" THEN <<v.major, v.minor, v.patch, v.stage, v.stageNum>>
  ELSE <<v.major, v.minor, v.patch>>

(* Compare, of two versions of one scheme                                  *)
Compare(v, w) ==
  LET c == Lexicographic(Numbers(v), Numbers(w)) IN
  IF c = 0 /\ v.scheme = "semver" THEN ComparePre(v.pre, w.pre) ELSE c

Above(v, w) == Compare(v, w) = 1
=============================================================================
