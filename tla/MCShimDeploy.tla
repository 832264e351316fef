---------------------------- MODULE MCShimDeploy ----------------------------
(***************************************************************************)
(* ShimDeploy needs no definitions for its instances: every constant is a  *)
(* number, a Boolean or the name of a strategy.                            *)
(***************************************************************************)
EXTENDS ShimDeploy, TLC
=============================================================================
