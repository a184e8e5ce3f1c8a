---------------------------- MODULE MCTokenRing ----------------------------
(* Instances of TokenRing for TLC.                                         *)
EXTENDS TokenRing
=============================================================================
