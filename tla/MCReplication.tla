---------------------------- MODULE MCReplication ----------------------------
(* Instances of Replication for TLC.  Clients' nodes are 1 and 3; the first *)
(* two entries of the preference list are those of putHandler: the target   *)
(* of every write is node 2, its handoff node is node 3.                    *)
EXTENDS Replication, TLC

DeployedPrefLst == <<2, 3, 1>>

(* For a replication factor of 3: two targets and two handoff nodes.       *)
WidePrefLst == <<2, 3, 4, 5, 1>>

OnePut == {<<1, 0>>}
TwoPuts == {<<2, 0>>}
PutAndGet == {<<1, 1>>}
PutOrGet == {<<1, 0>>, <<0, 1>>}

(* Two writes, or a write and two reads.                                   *)
WritesOrReads == {<<2, 0>>, <<1, 2>>}

(* Nothing tells one key from another.                                     *)
KeySymmetry == Permutations(Keys)
=============================================================================
