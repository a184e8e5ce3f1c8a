--------------------------- MODULE VersionedReads ---------------------------
(***************************************************************************)
(* The life of versions: putHandler (pkg/node/node.go) gives an object its *)
(* clock, replicas answer a read with versions of theirs, checkReadQuorum  *)
(* (pkg/data_replication/replication.go) reconciles the answers, and a     *)
(* client writes again with the context of an object it was given.         *)
(*                                                                         *)
(* Which version a replica holds is left open here: any version written so *)
(* far, or none.  Module Replication says how versions get to replicas.    *)
(***************************************************************************)
EXTENDS DataVersioning, FiniteSets, SequencesExt

CONSTANTS Nodes,        (* the coordinators and replicas                    *)
          Keys,         (* keys of client objects                           *)
          ZeroKey,      (* "", the key of the zero DataObject               *)
          R,            (* the read quorum, Replicator.R                    *)
          MaxResponses, (* nodes that answer a read: N - 1 targets and the
                           coordinator itself                               *)
          MaxVersions   (* bound on the number of PUTs                      *)

ASSUME ZeroKeyIsNoKey == ZeroKey \notin Keys
ASSUME BoundsAssumption == MaxResponses \in Nat /\ MaxVersions \in Nat

VARIABLES written,   (* the objects of all PUTs; an object's value is its
                        place in this sequence                              *)
          past,      (* history: the versions each version was derived from *)
          by,        (* history: the coordinator of each version's PUT      *)
          readKey,   (* the key being read, ZeroKey when there is no read   *)
          readCheck, (* Replicator.ReadCheck: the answers by responder      *)
          answer     (* what the last read gave its client                  *)

vars == <<written, past, by, readKey, readCheck, answer>>

ZeroObject == [key |-> ZeroKey, value |-> 0, context |-> <<>>]

Object(key, value, context) == [key |-> key, value |-> value, context |-> context]

Versions == 1..Len(written)

VersionsOf(key) == {v \in Versions : written[v].key = key}

NoAnswer == [success |-> FALSE, objects |-> <<>>]

TypeOK ==
    /\ Len(written) <= MaxVersions
    /\ \A v \in Versions : /\ written[v].key \in Keys
                           /\ written[v].value = v
                           /\ IsClock(written[v].context, Nodes)
    /\ DOMAIN past = Versions
    /\ \A v \in Versions : past[v] \subseteq 1..v - 1
    /\ DOMAIN by = Versions
    /\ \A v \in Versions : by[v] \in DOMAIN written[v].context
    /\ readKey \in Keys \cup {ZeroKey}
    /\ DOMAIN readCheck \subseteq Nodes
    /\ \A n \in DOMAIN readCheck :
           readCheck[n] = ZeroObject \/ \E v \in Versions : readCheck[n] = written[v]
    /\ answer.success \in BOOLEAN
    /\ DOMAIN answer.objects \subseteq Keys \cup {ZeroKey}

Init ==
    /\ written = <<>>
    /\ past = <<>>
    /\ by = <<>>
    /\ readKey = ZeroKey
    /\ readCheck = <<>>
    /\ answer = NoAnswer

-----------------------------------------------------------------------------
Write(node, key, context, derivedFrom) ==
    /\ Len(written) < MaxVersions
    /\ written' = Append(written, Object(key, Len(written) + 1, context))
    /\ past' = Append(past, derivedFrom)
    /\ by' = Append(by, node)
    /\ UNCHANGED <<readKey, readCheck, answer>>

(* A PUT without a context, at coordinator node.                           *)
PutNew(node, key) == Write(node, key, NewVectorClock(node), {})

(* A PUT with the context of a version v that a read, or a PUT, returned.  *)
PutUpdate(node, v) ==
    Write(node, written[v].key, UpdateVectorClock(node, written[v].context),
          past[v] \cup {v})

(* ReplicateReads makes a new ReadCheck.                                   *)
BeginRead(key) ==
    /\ readKey = ZeroKey
    /\ readKey' = key
    /\ readCheck' = <<>>
    /\ UNCHANGED <<written, past, by, answer>>

(* AddSuccessfulRead, or readOwnValue at the coordinator: a replica that   *)
(* has no value for the key answers with the zero object.                  *)
Respond(node, object) ==
    /\ readKey # ZeroKey
    /\ node \notin DOMAIN readCheck
    /\ Cardinality(DOMAIN readCheck) < MaxResponses
    /\ readCheck' = [n \in DOMAIN readCheck \cup {node} |->
                        IF n = node THEN object ELSE readCheck[n]]
    /\ UNCHANGED <<written, past, by, readKey, answer>>

(* The slice is made with numResponses zero objects and then appended to,  *)
(* in the order in which the iteration over the map happens to go.         *)
DataObjects(order) ==
    [i \in 1..Len(order) |-> ZeroObject] \o [i \in 1..Len(order) |-> readCheck[order[i]]]

CheckReadQuorum ==
    /\ readKey # ZeroKey
    /\ \E order \in SetToSeqs(DOMAIN readCheck) :
           answer' = [success |-> Len(order) >= R,
                      objects |-> GetResponseDataObjects(DataObjects(order))]
    /\ readKey' = ZeroKey
    /\ UNCHANGED <<written, past, by, readCheck>>

Next ==
    \/ \E node \in Nodes, key \in Keys : PutNew(node, key)
    \/ \E node \in Nodes, v \in Versions : PutUpdate(node, v)
    \/ \E key \in Keys : BeginRead(key)
    \/ \E node \in Nodes :
           Respond(node, ZeroObject) \/ \E v \in VersionsOf(readKey) : Respond(node, written[v])
    \/ CheckReadQuorum

Spec == Init /\ [][Next]_vars

-----------------------------------------------------------------------------
(* A version is stale with respect to every version derived from it, at    *)
(* any distance and through any coordinators, and never the other way      *)
(* round: reconciliation may drop the ancestor and never the descendant.   *)
AncestorsAreStale ==
    \A v \in Versions : \A u \in past[v] :
        /\ IsStale(written[u], written[v])
        /\ ~IsStale(written[v], written[u])

(* A version that is taken for an ancestor of another without being one    *)
(* owes it to a coordinator that gave one count twice: putHandler counts   *)
(* on from the context the client sent, so two PUTs with equal contexts,   *)
(* or two without any, get the same count from the same node.  Where every *)
(* coordinator gives each count once, clocks tell the whole history.       *)
FalseAncestorsShareACount ==
    \A u, v \in Versions :
        u # v /\ u \notin past[v] /\ IsStale(written[u], written[v]) =>
            \E w \in past[v] \cup {v} :
                /\ by[w] = by[u]
                /\ written[w].context[by[u]] = written[u].context[by[u]]

Answered == readKey = ZeroKey /\ readCheck # <<>>

(* No response is strictly newer than the object the client is given for   *)
(* its key, whatever the order of the map.  checkReadQuorum compares every *)
(* pair and lets the last one decide: with the two responses that N = 2    *)
(* allows that is the only pair, with three the newest can be lost.        *)
AnswerNotDominated ==
    Answered =>
        \A n \in DOMAIN readCheck :
            LET response == readCheck[n]
                given == answer.objects[response.key]
            IN  IsStale(given, response) => IsStale(response, given)
=============================================================================
