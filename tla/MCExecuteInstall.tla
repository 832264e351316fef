------------------------- MODULE MCExecuteInstall -------------------------
(***************************************************************************)
(* Bounded instances of ExecuteInstall: which operation works on which     *)
(* InstallKey, and what its receipt can be.                                *)
(***************************************************************************)
EXTENDS ExecuteInstall, TLC

CONSTANTS o1, o2, o3, k1, k2, c1, c2

\* o1 and o2 on different keys.
Apart == (o1 :> k1) @@ (o2 :> k2)
OneKey == [o \in Ops |-> k1]

\* o1 leads to c1; an optional probe makes o2 end in c1 or c2.
Probing == [o \in Ops |-> IF o = o1 THEN {c1} ELSE {c1, c2}]
SameContent == [o \in Ops |-> {c1}]
=============================================================================
