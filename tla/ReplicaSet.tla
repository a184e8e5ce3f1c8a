----------------------------- MODULE ReplicaSet -----------------------------
(***************************************************************************)
(* What the replicas of a value promise, whatever is lost, late or ends    *)
(* (abstract specification, implemented by Replication): a node other than *)
(* the coordinator stores a value only because its write was answered with *)
(* success, because it holds the value for another node, or because it is  *)
(* the node that the value was held for.  Clients see values of PUTs only. *)
(* It is not promised that any copy is ever made, nor that one is kept.    *)
(***************************************************************************)
EXTENDS Integers

CONSTANT Nodes

VARIABLES asked,     (* how many PUTs there were: the values are 1..asked    *)
          succeeded, (* the values whose PUT was answered with success       *)
          seen,      (* the values that reads were answered with             *)
          copies,    (* <<node, value>>: a replication message stored it     *)
          held       (* <<node, value, target>>: held for target             *)

vars == <<asked, succeeded, seen, copies, held>>

Init == asked = 0 /\ succeeded = {} /\ seen = {} /\ copies = {} /\ held = {}

Ask ==
    /\ asked' = asked + 1
    /\ UNCHANGED <<succeeded, seen, copies, held>>

Succeed(value) ==
    /\ succeeded' = succeeded \cup {value}
    /\ UNCHANGED <<asked, seen, copies, held>>

AnswerRead(values) ==
    /\ seen' = seen \cup values
    /\ UNCHANGED <<asked, succeeded, copies, held>>

Hold(node, value, target) ==
    /\ node # target
    /\ held' = held \cup {<<node, value, target>>}
    /\ copies' = copies \cup {<<node, value>>}
    /\ UNCHANGED <<asked, succeeded, seen>>

Copy(node, value) ==
    /\ value \in succeeded \/ \E h \in Nodes : <<h, value, node>> \in held
    /\ copies' = copies \cup {<<node, value>>}
    /\ UNCHANGED <<asked, succeeded, seen, held>>

Next ==
    \/ \E values \in SUBSET (1..asked) : AnswerRead(values)
    \/ Ask
    \/ \E value \in 1..asked :
           \/ Succeed(value)
           \/ \E node \in Nodes : Copy(node, value) \/ \E target \in Nodes : Hold(node, value, target)

Spec == Init /\ [][Next]_vars
=============================================================================
