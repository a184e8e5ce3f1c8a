------------------------------ MODULE MCMerkle ------------------------------
(* Instances of Merkle for TLC.                                            *)
EXTENDS Merkle

(* Both keys have number 0: number 1 has an empty tree.                    *)
OneNumber == [k \in Keys |-> 0]

(* Every node has one token, [0, 1].                                       *)
Token == [n \in Nodes |-> <<0, 1>>]

(* An entry for every number at both nodes; one entry at node 1 and none   *)
(* at node 2, as in main.go.                                               *)
AllOrHardly == {[n \in Nodes |-> Numbers],
                [n \in Nodes |-> IF n = 1 THEN {0} ELSE {}]}
=============================================================================
