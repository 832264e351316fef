--------------------------- MODULE MCDownloadCache ---------------------------
(***************************************************************************)
(* Bounded instances of DownloadCache.                                     *)
(***************************************************************************)
EXTENDS DownloadCache, TLC

CONSTANTS o1, o2, o3, l1, l2

SameLock == [o \in Ops |-> l1]
\* o1 and o3 install one key, o2 another whose artifact has the same destination.
OtherKey == (o1 :> l1) @@ (o2 :> l2) @@ (o3 :> l1)
=============================================================================
