---------------------------- MODULE MCLockManager ----------------------------
(***************************************************************************)
(* A bounded instance of LockManager: three processes of one thread each.  *)
(***************************************************************************)
EXTENDS LockManager, TLC

CONSTANTS p1, p2, p3, t1, t2, t3

\* state, two installs, and a malformed request.
FourKeys == {[class |-> 1, qualifier |-> 0], [class |-> 3, qualifier |-> 1],
             [class |-> 3, qualifier |-> 2], [class |-> 6, qualifier |-> 1]}

OneEach == (t1 :> p1) @@ (t2 :> p2) @@ (t3 :> p3)
=============================================================================
