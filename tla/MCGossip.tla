------------------------------ MODULE MCGossip ------------------------------
(* Instances of Gossip for TLC.                                            *)
EXTENDS Gossip

(* What the nodes 0, 1 and 2 draw in their first and their second life: a  *)
(* range that is their own, two that are another's here and there, or the  *)
(* same two as everybody.                                                  *)
Apart == [n \in Nodes |-> <<{n}, {n}>>]
Overlapping == [n \in Nodes |-> CASE n = 0 -> <<{1, 2}, {2, 3}>>
                                   [] n = 1 -> <<{3, 4}, {1, 2}>>
                                   [] n = 2 -> <<{1, 3}, {4, 5}>>]
Equal == [n \in Nodes |-> <<{1, 2}, {1, 2}>>]

(* Two seeds whose messages cross, with failures and a crash; rumours of   *)
(* failures that a third node passes on; and rumours about a node that was *)
(* started again with other tokens.                                        *)
CrossingAndRumours ==
    {[nodes |-> {0, 1}, inFlight |-> 3, failures |-> 4, faulty |-> {0, 1}, crashes |-> 1, tokens |-> Overlapping],
     [nodes |-> {0, 1, 2}, inFlight |-> 1, failures |-> 3, faulty |-> {0, 1, 2}, crashes |-> 0, tokens |-> Equal],
     [nodes |-> {0, 1, 2}, inFlight |-> 1, failures |-> 3, faulty |-> {2}, crashes |-> 1, tokens |-> Overlapping]}

(* A restart of any node, and exchanges that all succeed.                  *)
OneRestart ==
    {[nodes |-> {0, 1, 2}, inFlight |-> 1, failures |-> 0, faulty |-> {0, 1, 2}, crashes |-> 1, tokens |-> Apart]}
=============================================================================
