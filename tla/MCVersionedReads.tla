-------------------------- MODULE MCVersionedReads --------------------------
(* Instances of VersionedReads for TLC: the nodes are interchangeable.     *)
EXTENDS VersionedReads, TLC

NodeSymmetry == Permutations(Nodes)
=============================================================================
