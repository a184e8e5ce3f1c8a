------------------------------- MODULE Gossip -------------------------------
(***************************************************************************)
(* Membership and failure detection (pkg/gossip/gossip.go): every node     *)
(* keeps a map of the nodes it knows, sends it to a random one of them,    *)
(* and both sides adopt entries of the other's map.                        *)
(*                                                                         *)
(* A node's key and the last character of its container name are one       *)
(* number here.  A TokenSet is compared by its length only, which is the   *)
(* same for all that are generated; main.go generates one at every start,  *)
(* so that a TokenSet is named by the life of the node that it belongs to, *)
(* and NoTokens is the empty one.  What ranges it has, which may be those  *)
(* of other nodes too, is part of the scenario, as is everything random    *)
(* that the maps depend on.  An entry's Id is left out: populate           *)
(* makes the entries of the seeds without one, so an Id is the node's key  *)
(* exactly in the entries with tokens, which main.go made.  failCount is   *)
(* not exported: JSON drops it and an entry that was received has count 0. *)
(*                                                                         *)
(* askMerkle, which is started when a node that was down is heard of, ends *)
(* in a panic of the Merkler that is recovered: it changes nothing.        *)
(***************************************************************************)
EXTENDS Integers, FiniteSets, Sequences
LOCAL INSTANCE Functions

CONSTANTS Nodes,     (* node ids, integers                                   *)
          Seeds,     (* SEEDNODES                                            *)
          Ranges,    (* the ranges of the ring                               *)
          NumTokens, (* how many of them GenTokenSet draws                   *)
          Scenarios  (* bounds on a behaviour: records of the nodes that are
                        ever started (nodes), of how many messages are on
                        their way at a time (inFlight), of the nodes that
                        faults befall (faulty): how often an exchange with
                        one of them as the server fails (failures) and how
                        often one of their processes ends (crashes); and the
                        ranges that each node draws in each of its lives
                        (tokens)                                             *)

ASSUME NodesAssumption == Nodes \subseteq Nat /\ IsFiniteSet(Nodes)
(* With a single seed getRandNode of that seed would search for ever.      *)
ASSUME SeedsAssumption == Seeds \subseteq Nodes /\ \A s \in Seeds : Seeds # {s}
(* floor(64 / NODE_TOTAL), of which there are at most 64.                  *)
ASSUME NumTokensAssumption == NumTokens \in Nat \ {0}

TokenSets == {ranges \in SUBSET Ranges : Cardinality(ranges) = NumTokens}

ASSUME ScenariosAssumption ==
    /\ Scenarios \subseteq [nodes : {ns \in SUBSET Nodes : Seeds \subseteq ns},
                            inFlight : Nat, failures : Nat, faulty : SUBSET Nodes, crashes : Nat,
                            tokens : [Nodes -> Seq(TokenSets)]]
    /\ \A s \in Scenarios : \A n \in Nodes : Len(s.tokens[n]) > s.crashes

VARIABLES
    scenario,       (* the scenario of this behaviour                        *)
    up,             (* is the node's process running?                        *)
    life,           (* how many times the node's process was started         *)
    phase,          (* where Gossip.Start is                                 *)
    commNodeMap,    (* Gossip.CommNodeMap                                    *)
    virtualNodeMap, (* Gossip.VirtualNodeMap: from ranges to the key of the
                       node that was entered for them last                   *)
    requests,       (* gossip requests on their way; open while the client
                       still waits for the answer                            *)
    replies,        (* answers on their way                                  *)
    failures,       (* how many exchanges have failed so far                 *)
    crashes

vars == <<scenario, up, life, phase, commNodeMap, virtualNodeMap, requests, replies, failures, crashes>>

NoTokens == 0

Entries == [tokens : Nat, down : BOOLEAN, fails : 0..2]

IsMap(map) ==
    /\ DOMAIN map \subseteq Nodes
    /\ \A k \in DOMAIN map : map[k] \in Entries /\ map[k].tokens <= life[k]

Phases == {"starting", "seeding", "party"}

TypeOK ==
    /\ scenario \in Scenarios
    /\ up \in [Nodes -> BOOLEAN]
    /\ phase \in [Nodes -> Phases]
    /\ life \in [Nodes -> 1..1 + crashes]
    /\ DOMAIN commNodeMap = Nodes /\ DOMAIN virtualNodeMap = Nodes
    /\ \A n \in Nodes : /\ IsMap(commNodeMap[n])
                        /\ DOMAIN virtualNodeMap[n] \subseteq Ranges
                        /\ \A range \in DOMAIN virtualNodeMap[n] : virtualNodeMap[n][range] \in Nodes
    /\ \A r \in requests : /\ r \in [from : Nodes, to : Nodes, map : {r.map}, open : BOOLEAN]
                           /\ IsMap(r.map)
    /\ \A r \in replies : /\ r \in [from : Nodes, to : Nodes, update : BOOLEAN, map : {r.map}]
                          /\ IsMap(r.map)
    /\ failures \in 0..scenario.failures
    /\ crashes \in 0..scenario.crashes

(* What main.go gives a node that starts: its own entry and tokens.        *)
OwnMap(n, tokens) == [k \in {n} |-> [tokens |-> tokens, down |-> FALSE, fails |-> 0]]

OwnRing(n, tokens) == [range \in scenario.tokens[n][tokens] |-> n]

Init ==
    /\ scenario \in Scenarios
    /\ up = [n \in Nodes |-> n \in scenario.nodes]
    /\ phase = [n \in Nodes |-> "starting"]
    /\ life = [n \in Nodes |-> 1]
    /\ commNodeMap = [n \in Nodes |-> OwnMap(n, 1)]
    /\ virtualNodeMap = [n \in Nodes |-> OwnRing(n, 1)]
    /\ requests = {}
    /\ replies = {}
    /\ failures = 0
    /\ crashes = 0

-----------------------------------------------------------------------------
(* Merging of maps.                                                        *)

(* Mutant of Heard: the status of a node that is heard of is not reset.    *)
HeardButStillDown(map, node) ==
    IF node \in DOMAIN map THEN [map EXCEPT ![node].fails = 0] ELSE map

Heard(map, node) ==
    IF node \in DOMAIN map
    THEN [map EXCEPT ![node].fails = 0, ![node].down = FALSE]
    ELSE map

(* /checkHeartbeat answers in plain text, which the caller fails to decode *)
(* as JSON: the verdict is "down" whether or not there was an answer.      *)
VerifyNodeDown(node) == TRUE

(* Mutant of Prefers: tokens that have changed are taken over.             *)
PrefersChangedTokens(map, node, entry) ==
    IF map[node].down # entry.down
    THEN VerifyNodeDown(node) = entry.down
    ELSE entry.tokens # NoTokens /\ map[node].tokens # entry.tokens

(* Does a node with this map take over the entry that another has for a    *)
(* node it knows itself?                                                   *)
Prefers(map, node, entry) ==
    IF map[node].down # entry.down
    THEN VerifyNodeDown(node) = entry.down
    ELSE entry.tokens # NoTokens /\ map[node].tokens = NoTokens

(* Mutant of Adopted: entries of unknown nodes are passed over.            *)
AdoptedIfKnown(map, theirs, excluded) ==
    {k \in DOMAIN theirs : k \in DOMAIN map /\ k \notin excluded /\ Prefers(map, k, theirs[k])}

(* The keys of theirs that are adopted: the unknown ones and, of the known *)
(* ones that are not excluded, the preferred ones.                         *)
Adopted(map, theirs, excluded) ==
    {k \in DOMAIN theirs :
        \/ k \notin DOMAIN map
        \/ k \notin excluded /\ Prefers(map, k, theirs[k])}

Merge(map, theirs, adopted) ==
    [k \in DOMAIN map \cup adopted |->
        IF k \in adopted THEN [theirs[k] EXCEPT !.fails = 0] ELSE map[k]]

(* The ranges of the TokenSet in a node's entry.                           *)
TokenSet(map, k) == IF map[k].tokens = NoTokens THEN {} ELSE scenario.tokens[k][map[k].tokens]

RangesOf(map, keys) == UNION {TokenSet(map, k) : k \in keys}

(* Who of those that drew a range comes last, for each order in which an   *)
(* iteration over a Go map may go through the keys.                        *)
LastDrawers(map, keys) ==
    {last \in [RangesOf(map, keys) -> keys] :
        \E order \in Injection(keys, 1..Cardinality(keys)) :
            \A range \in RangesOf(map, keys) :
                /\ range \in TokenSet(map, last[range])
                /\ \A k \in keys : range \in TokenSet(map, k) => order[k] <= order[last[range]]}

(* The ring after the entries of some keys were entered: a range that      *)
(* several nodes have drawn is the last one's, whoever had it before.      *)
Entered(ring, map, keys) ==
    {[range \in DOMAIN ring \cup RangesOf(map, keys) |->
          IF range \in RangesOf(map, keys) THEN last[range] ELSE ring[range]] :
     last \in LastDrawers(map, keys)}

(* Which entries the answer has: those the sender lacks and the seeds',    *)
(* provided that there is one it lacks or that it has no tokens of a seed. *)
UpdateForSender(merged, theirs) ==
    \/ DOMAIN merged \ DOMAIN theirs # {}
    \/ \E s \in Seeds : s \in DOMAIN theirs => theirs[s].tokens = NoTokens

MapForSender(merged, theirs) ==
    [k \in (DOMAIN merged \ DOMAIN theirs) \cup (Seeds \cap DOMAIN merged) |-> merged[k]]

-----------------------------------------------------------------------------
(* populate: the entries of the seeds, the node's own one included, are    *)
(* replaced by ones without tokens.  A seed sleeps for a minute before, a  *)
(* node that is none gossips with the seeds for a minute after.            *)
Populate(n) ==
    /\ up[n]
    /\ phase[n] = "starting"
    /\ commNodeMap' = [commNodeMap EXCEPT ![n] =
           [k \in DOMAIN @ \cup Seeds |->
               IF k \in Seeds THEN [tokens |-> NoTokens, down |-> FALSE, fails |-> 0] ELSE @[k]]]
    /\ phase' = [phase EXCEPT ![n] = IF n \in Seeds THEN "party" ELSE "seeding"]
    /\ UNCHANGED <<scenario, up, life, virtualNodeMap, requests, replies, failures, crashes>>

PartyTime(n) ==
    /\ up[n]
    /\ phase[n] = "seeding"
    /\ phase' = [phase EXCEPT ![n] = "party"]
    /\ UNCHANGED <<scenario, up, life, commNodeMap, virtualNodeMap, requests, replies, failures, crashes>>

(* getRandNode draws below the size of the map and takes the number for a  *)
(* key.  (A number that is no key leads to a request to the node itself,   *)
(* which changes nothing.)                                                 *)
Drawn(n) == 0..Cardinality(DOMAIN commNodeMap[n]) - 1

GossipTargets(n) ==
    CASE phase[n] = "starting" -> {}
      [] phase[n] = "seeding"  -> Seeds
      [] phase[n] = "party"    -> (Drawn(n) \cap DOMAIN commNodeMap[n]) \ {n}

Waiting(n) == \/ \E r \in requests : r.from = n /\ r.open
              \/ \E r \in replies : r.to = n

(* The ticker's ten seconds are longer than the client's timeout, so a     *)
(* node waits for one answer at a time.                                    *)
SendGossip(n, target) ==
    /\ up[n]
    /\ ~Waiting(n)
    /\ Cardinality(requests) + Cardinality(replies) < scenario.inFlight
    /\ target \in GossipTargets(n)
    /\ requests' = requests \cup
           {[from |-> n, to |-> target, map |-> commNodeMap[n], open |-> TRUE]}
    /\ UNCHANGED <<scenario, up, life, phase, commNodeMap, virtualNodeMap, replies, failures, crashes>>

(* Mutant of NewlyKnown: no token ranges are entered for them.             *)
NoneNewlyKnown(heard, adopted) == {}

NewlyKnown(heard, adopted) == adopted \ DOMAIN heard

(* The server's side, in one critical section.  Token ranges are entered   *)
(* in VirtualNodeMap for nodes that were unknown only.                     *)
CompareAndUpdate(r) ==
    LET n == r.to
        heard == Heard(commNodeMap[n], r.from)
        adopted == Adopted(heard, r.map, {n})
        merged == Merge(heard, r.map, adopted)
        update == UpdateForSender(merged, r.map)
    IN
    /\ r \in requests
    /\ up[n]
    /\ commNodeMap' = [commNodeMap EXCEPT ![n] = merged]
    /\ \E ring \in Entered(virtualNodeMap[n], merged, NewlyKnown(heard, adopted)) :
           virtualNodeMap' = [virtualNodeMap EXCEPT ![n] = ring]
    /\ requests' = requests \ {r}
    /\ replies' = IF r.open
                  THEN replies \cup {[from |-> n, to |-> r.from, update |-> update,
                                      map |-> IF update THEN MapForSender(merged, r.map)
                                                        ELSE <<>>]}
                  ELSE replies
    /\ UNCHANGED <<scenario, up, life, phase, failures, crashes>>

(* The client's side: here the node's own entry is not excluded, and the   *)
(* ranges of everything adopted are entered.                               *)
RecvGossipMsg(r) ==
    LET n == r.to
        heard == Heard(commNodeMap[n], r.from)
        adopted == IF r.update THEN Adopted(heard, r.map, {}) ELSE {}
        merged == Merge(heard, r.map, adopted)
    IN
    /\ r \in replies
    /\ replies' = replies \ {r}
    /\ commNodeMap' = [commNodeMap EXCEPT ![n] = merged]
    /\ \E ring \in Entered(virtualNodeMap[n], merged, adopted) :
           virtualNodeMap' = [virtualNodeMap EXCEPT ![n] = ring]
    /\ UNCHANGED <<scenario, up, life, phase, requests, failures, crashes>>

(* Mutants of CountFailure: down after the second failure, or the fourth.  *)
CountTwoFailures(map, target) ==
    IF target \notin DOMAIN map \/ map[target].down THEN map
    ELSE IF map[target].fails + 1 >= 2 THEN [map EXCEPT ![target].down = TRUE, ![target].fails = 0]
                                   ELSE [map EXCEPT ![target].fails = @ + 1]

CountFourFailures(map, target) ==
    IF target \notin DOMAIN map \/ map[target].down THEN map
    ELSE IF map[target].fails + 1 > 3 THEN [map EXCEPT ![target].down = TRUE, ![target].fails = 0]
                                   ELSE [map EXCEPT ![target].fails = @ + 1]

(* clientSendMsgWithHTTP panics on a failed exchange, and its deferred     *)
(* function counts it: the third one in a row makes the target down.       *)
CountFailure(map, target) ==
    IF target \notin DOMAIN map \/ map[target].down THEN map
    ELSE IF map[target].fails + 1 >= 3 THEN [map EXCEPT ![target].down = TRUE, ![target].fails = 0]
                                   ELSE [map EXCEPT ![target].fails = @ + 1]

ExchangeFailed(n, target) ==
    /\ commNodeMap' = [commNodeMap EXCEPT ![n] = CountFailure(@, target)]
    /\ failures' = failures + 1
    /\ UNCHANGED <<scenario, up, life, phase, virtualNodeMap, crashes>>

(* No answer in time: the request is lost, or processed later for nothing. *)
RequestFailed(r) ==
    /\ r \in requests /\ r.open /\ r.to \in scenario.faulty
    /\ failures < scenario.failures
    /\ \/ requests' = requests \ {r}
       \/ up[r.to] /\ requests' = (requests \ {r}) \cup {[r EXCEPT !.open = FALSE]}
    /\ UNCHANGED replies
    /\ ExchangeFailed(r.from, r.to)

(* An answer that does not come is a failed exchange; one that cannot be   *)
(* decoded, because the rest of it does not come, is dropped and not       *)
(* counted.                                                                *)
ReplyLost(r) ==
    /\ r \in replies /\ r.from \in scenario.faulty
    /\ failures < scenario.failures
    /\ replies' = replies \ {r}
    /\ UNCHANGED requests
    /\ \/ ExchangeFailed(r.to, r.from)
       \/ UNCHANGED <<scenario, up, life, phase, commNodeMap, virtualNodeMap, failures, crashes>>

Crash(n) ==
    /\ up[n] /\ n \in scenario.faulty
    /\ crashes < scenario.crashes
    /\ crashes' = crashes + 1
    /\ up' = [up EXCEPT ![n] = FALSE]
    /\ requests' = {r \in requests : r.from # n \/ ~r.open}
    /\ replies' = {r \in replies : r.to # n}
    /\ UNCHANGED <<scenario, life, phase, commNodeMap, virtualNodeMap, failures>>

Restart(n) ==
    /\ ~up[n] /\ n \in scenario.nodes
    /\ up' = [up EXCEPT ![n] = TRUE]
    /\ phase' = [phase EXCEPT ![n] = "starting"]
    /\ life' = [life EXCEPT ![n] = @ + 1]
    /\ commNodeMap' = [commNodeMap EXCEPT ![n] = OwnMap(n, life'[n])]
    /\ virtualNodeMap' = [virtualNodeMap EXCEPT ![n] = OwnRing(n, life'[n])]
    /\ UNCHANGED <<scenario, requests, replies, failures, crashes>>

Next ==
    \/ \E n \in Nodes : Populate(n) \/ PartyTime(n) \/ Crash(n) \/ Restart(n)
    \/ \E n, target \in Nodes : SendGossip(n, target)
    \/ \E r \in requests : CompareAndUpdate(r) \/ RequestFailed(r)
    \/ \E r \in replies : RecvGossipMsg(r) \/ ReplyLost(r)

Spec == Init /\ [][Next]_vars

(* The goroutines and the network make progress, and rand.Intn draws every *)
(* number again and again.                                                 *)
Fairness ==
    \A n \in Nodes :
        /\ WF_vars(Populate(n) \/ PartyTime(n) \/ Restart(n))
        /\ \A target \in Nodes \ {n} : SF_vars(SendGossip(n, target))
        /\ WF_vars(\/ \E r \in requests : r.from = n /\ CompareAndUpdate(r)
                   \/ \E r \in replies : r.to = n /\ RecvGossipMsg(r))

FairSpec == Spec /\ Fairness

-----------------------------------------------------------------------------
(* No node ever takes itself for down, and one that is no seed never loses *)
(* its own tokens, although recvGossipMsg would adopt an entry for the     *)
(* node itself: whoever answers a node has just reset its entry.           *)
SelfEntrySound ==
    \A n \in Nodes : /\ n \in DOMAIN commNodeMap[n]
                     /\ ~commNodeMap[n][n].down
                     /\ n \notin Seeds => commNodeMap[n][n].tokens = life[n]

(* It takes three failed exchanges to bring about a rumour that a node is  *)
(* down, wherever the rumour has got to.                                   *)
DownNeedsThreeFailures ==
    \A n \in Nodes : \A k \in DOMAIN commNodeMap[n] :
        commNodeMap[n][k].down => failures >= 3

(* Every range in the ring belongs to a node in the map, which drew it in  *)
(* this life or an earlier one; and of every node in the map that is no    *)
(* seed the ring has all the ranges that it drew in one of its lives,      *)
(* although CompareAndUpdate enters no ranges when it adopts an entry of a *)
(* node it knows: only seeds are ever known without their tokens.  (The    *)
(* ranges need not be its own: another node that drew them too may have    *)
(* been entered after it, so that a node in the map may own none.)         *)
RingMatchesMap ==
    \A n \in Nodes :
        LET map == commNodeMap[n]
            ring == virtualNodeMap[n]
        IN
        /\ \A range \in DOMAIN ring :
               /\ ring[range] \in DOMAIN map
               /\ \E tokens \in 1..life[ring[range]] : range \in scenario.tokens[ring[range]][tokens]
        /\ \A k \in DOMAIN map \ Seeds :
               \E tokens \in 1..life[k] : scenario.tokens[k][tokens] \subseteq DOMAIN ring

(* The tokens that a node knows of another stay what they are for as long  *)
(* as it runs, whatever the other has generated since: only with a rumour  *)
(* that the other is down, passed on by somebody who met its later life,   *)
(* do they change.  (No length of a TokenSet ever exceeds another's.)      *)
TokensChangeWithRumours ==
    [][\A n \in Nodes : up[n] /\ phase[n] # "starting" =>
           \A k \in DOMAIN commNodeMap[n] \ {n} :
               LET old == commNodeMap[n][k]
                   new == commNodeMap'[n][k]
               IN  \/ ~up'[n] \/ old.tokens = NoTokens \/ new.tokens = old.tokens
                   \/ new.down /\ ~old.down]_vars

(* Every node comes to know every other, through the seeds.                *)
MembershipSpreads == <>[](\A n \in scenario.nodes :
                               DOMAIN commNodeMap[n] = scenario.nodes)
=============================================================================
