----------------------------- MODULE MCStateFile -----------------------------
(***************************************************************************)
(* StateFile needs no definitions for its instances: every constant is a   *)
(* number or a Boolean.                                                    *)
(***************************************************************************)
EXTENDS StateFile, TLC
=============================================================================
