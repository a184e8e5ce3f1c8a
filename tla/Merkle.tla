------------------------------- MODULE Merkle -------------------------------
(***************************************************************************)
(* Anti-entropy (pkg/merkletree/merkletree.go, the merkle handlers of      *)
(* pkg/node/node.go, askMerkle of pkg/gossip/gossip.go): a tree over the   *)
(* values of each hash number, kept beside redis by putHandler, and        *)
(* exchanged when a node that was down is heard of again.                  *)
(*                                                                         *)
(* main.go makes the Merkler without its mutex and every method panics     *)
(* (Replication, MerklerReady).  Here it has one; which hash numbers have  *)
(* an entry in HashNumberToKey is left open (Wirings), as no line of the   *)
(* code ever makes one.                                                    *)
(*                                                                         *)
(* A value is what a client sent (value), wrapped in JSON depth times.     *)
(* The object that redis holds for a value is not told from the value:     *)
(* it has a vector clock exactly if depth is 0.                            *)
(*                                                                         *)
(* github.com/cbergoon/merkletree is not in the repository.  That its      *)
(* nodes point back at their tree and parent, so that a tree which is not  *)
(* empty has no JSON, is left open too: it may be sent or not (CheckSent). *)
(***************************************************************************)
EXTENDS Integers, Sequences, FiniteSets, SequencesExt, FiniteSetsExt

CONSTANTS Nodes,       (* node ids                                            *)
          Keys,        (* client keys, numbered as sort.Strings orders them   *)
          Numbers,     (* hash numbers                                        *)
          HashNumber,  (* GetMD5Hash: the number of each key                  *)
          TokenNumbers, (* for each node both ends of each of its tokens      *)
          Values,      (* what clients send                                   *)
          Wirings,     (* for each node the numbers that have an entry        *)
          MaxWrites,   (* bound on PUTs and writes of replication messages    *)
          MaxChecks    (* bound on calls of askMerkle                         *)

ASSUME KeysAssumption == Keys \subseteq Nat /\ HashNumber \in [Keys -> Numbers]
ASSUME NodesAssumption == Nodes \subseteq Nat
(* GenTokenSet gives a node at least one token, and a token has two ends.   *)
ASSUME TokensAssumption == TokenNumbers \in [Nodes -> Seq(Numbers) \ {<<>>}]
ASSUME WiringsAssumption == Wirings \subseteq [Nodes -> SUBSET Numbers]

VARIABLES
    ranges,    (* the wiring of this behaviour                                *)
    up,        (* is the node's process running?                              *)
    db,        (* redis: the values by key                                    *)
    tree,      (* HashNumberToKey[...].M of all numbers: the values by key    *)
    muLeaked,  (* merkler.mu was locked by a goroutine that panicked          *)
    handlers,  (* PUT handlers between SET and UpdateMapData                  *)
    checks,    (* goroutines in InitiateMerkleCheck                           *)
    received,  (* goroutines in ReceivedMerkleTree                            *)
    overlaps,  (* history: <<node, key>> on which writers overlapped, or that
                  a replication message wrote, since a writer of both tree and
                  redis last had them for itself                              *)
    writes, asked

bounds == <<writes, asked>>
vars == <<ranges, up, db, tree, muLeaked, handlers, checks, received, overlaps, bounds>>

Data == [value : Values, depth : Nat]

(* The JSON of the object that redis holds for a value.                    *)
Marshal(data) == [data EXCEPT !.depth = @ + 1]

NodeKeys(n, number) == {k \in DOMAIN tree[n] : HashNumber[k] = number}

(* MerkleTree.Leafs: the values in the order of their keys, the last one   *)
(* twice when their number is odd.  The root depends on nothing else.      *)
Leafs(map, keys) ==
    LET data == [i \in 1..Cardinality(keys) |-> map[SetToSortSeq(keys, <)[i]]]
    IN  IF Len(data) % 2 = 0 THEN data ELSE Append(data, Last(data))

Tree(n, number) == Leafs(tree[n], NodeKeys(n, number))

TypeOK ==
    /\ ranges \in Wirings
    /\ up \in [Nodes -> BOOLEAN]
    /\ DOMAIN db = Nodes /\ DOMAIN tree = Nodes
    /\ \A n \in Nodes : \A map \in {db[n], tree[n]} :
           /\ DOMAIN map \subseteq Keys
           /\ \A k \in DOMAIN map : map[k] \in Data
    /\ \A n \in Nodes : \A k \in DOMAIN tree[n] : HashNumber[k] \in ranges[n]
    /\ muLeaked \in [Nodes -> BOOLEAN]
    /\ handlers \subseteq [at : Nodes, key : Keys, data : Data]
    /\ checks \subseteq [from : Nodes, to : Nodes, todo : Seq(Numbers) \ {<<>>}]
    /\ \A r \in received :
           /\ r \in [at : Nodes, number : Numbers, tree : {r.tree},
                     pc : {"compare", "ask", "apply", "write"},
                     keys : SUBSET NodeKeys(r.at, r.number), result : {r.result}]
           /\ DOMAIN r.result \subseteq NodeKeys(r.at, r.number)
           /\ \A k \in DOMAIN r.result : r.result[k] \in Data
           /\ r.pc \in {"compare", "ask"} => r.result = <<>>
           /\ r.pc = "apply" => r.keys = DOMAIN r.result
           /\ r.pc = "write" => r.keys \subseteq DOMAIN r.result /\ r.result # <<>>
    /\ \A r, s \in received : r.at = s.at /\ r.pc = "write" /\ s.pc = "write" => r = s

Init ==
    /\ ranges \in Wirings
    /\ up = [n \in Nodes |-> TRUE]
    /\ db = [n \in Nodes |-> <<>>]
    /\ tree = [n \in Nodes |-> <<>>]
    /\ muLeaked = [n \in Nodes |-> FALSE]
    /\ handlers = {}
    /\ checks = {}
    /\ received = {}
    /\ overlaps = {}
    /\ writes = 0 /\ asked = 0

-----------------------------------------------------------------------------
With(map, new) == [k \in DOMAIN map \cup DOMAIN new |-> IF k \in DOMAIN new THEN new[k] ELSE map[k]]

Holds(key, data) == [k \in {key} |-> data]

(* Which keys are between their two writes: a PUT handler has written to   *)
(* redis and not to the tree yet, a goroutine that applies an answer to    *)
(* the tree and not to redis yet.                                          *)
Written(r) == IF r.pc = "write" THEN DOMAIN r.result \ r.keys ELSE {}

Writing(n, key) ==
    \/ \E h \in handlers : h.at = n /\ h.key = key
    \/ \E r \in received : r.at = n /\ key \in Written(r)

(* merkler.mu: a goroutine that applies an answer holds it to the end.     *)
MuFree(n) == ~muLeaked[n] /\ \A r \in received : r.at = n => r.pc # "write"

(* redis SET                                                               *)
Set(n, new) == db' = [db EXCEPT ![n] = With(@, new)]

(* A writer of both tree and redis begins.                                 *)
Begins(n, key) ==
    overlaps' = IF Writing(n, key) THEN overlaps \cup {<<n, key>>} ELSE overlaps \ {<<n, key>>}

(* putHandler stores the value,                                            *)
PutStore(n, key, value) ==
    LET data == [value |-> value, depth |-> 0] IN
    /\ up[n] /\ writes < MaxWrites
    /\ writes' = writes + 1
    /\ Set(n, Holds(key, data))
    /\ handlers' = handlers \cup {[at |-> n, key |-> key, data |-> data]}
    /\ Begins(n, key)
    /\ UNCHANGED <<ranges, up, tree, muLeaked, checks, received, asked>>

(* and then tells the Merkler, whatever was stored since.                  *)
Update(h) ==
    /\ h \in handlers /\ MuFree(h.at)
    /\ handlers' = handlers \ {h}
    /\ UNCHANGED <<ranges, up, db, checks, received, overlaps, bounds>>

(* Mutants of UpdateMapData: a missing entry is made, or mu is not given   *)
(* back.                                                                   *)
UpdateMapDataAnyway(h) ==
    /\ Update(h)
    /\ tree' = [tree EXCEPT ![h.at] = With(@, Holds(h.key, h.data))]
    /\ UNCHANGED muLeaked

UpdateMapDataLocked(h) ==
    /\ Update(h)
    /\ muLeaked' = [muLeaked EXCEPT ![h.at] = TRUE]
    /\ tree' = IF HashNumber[h.key] \in ranges[h.at]
               THEN [tree EXCEPT ![h.at] = With(@, Holds(h.key, h.data))]
               ELSE tree

(* A number without an entry panics with mu held; net/http recovers.       *)
UpdateMapData(h) ==
    /\ Update(h)
    /\ IF HashNumber[h.key] \in ranges[h.at]
       THEN /\ tree' = [tree EXCEPT ![h.at] = With(@, Holds(h.key, h.data))]
            /\ UNCHANGED muLeaked
       ELSE /\ muLeaked' = [muLeaked EXCEPT ![h.at] = TRUE]
            /\ UNCHANGED tree

(* HandleCommit and the handoff handlers write to redis only: a value that *)
(* was PUT at another node is stored, or handoff data deleted.             *)
OtherWrite(n, key) ==
    /\ up[n] /\ writes < MaxWrites
    /\ writes' = writes + 1
    /\ \/ \E value \in Values : Set(n, Holds(key, [value |-> value, depth |-> 0]))
       \/ db' = [db EXCEPT ![n] = Restrict(@, DOMAIN @ \ {key})]
    /\ overlaps' = overlaps \cup {<<n, key>>}
    /\ UNCHANGED <<ranges, up, tree, muLeaked, handlers, checks, received, asked>>

-----------------------------------------------------------------------------
CheckPreferenceList(x, y) == y > x /\ y <= x + 2

(* The handler starts a goroutine that goes through the list it is given.  *)
InitiateMerkleCheck(n, numbers, target) == [from |-> n, to |-> target, todo |-> numbers]

(* When a node that was down is heard of, the node asks itself to compare  *)
(* trees with it, for both ends of every token of its own.                 *)
AskMerkle(n, target) ==
    /\ up[n] /\ CheckPreferenceList(n, target)
    /\ asked < MaxChecks
    /\ asked' = asked + 1
    /\ checks' = checks \cup {InitiateMerkleCheck(n, TokenNumbers[n], target)}
    /\ UNCHANGED <<ranges, up, db, tree, muLeaked, handlers, received, overlaps, writes>>

(* InitiateMerkleCheck, for the first number of the list.  A number that   *)
(* has no entry panics with mu held.  So does the POST that fails, without *)
(* mu; the deferred functions recover when the loop has ended already, and *)
(* what they put into failList is not looked at: the rest is dropped.      *)
CheckPanics(c) ==
    /\ c \in checks /\ MuFree(c.from)
    /\ checks' = checks \ {c}
    /\ \/ /\ Head(c.todo) \notin ranges[c.from]
          /\ muLeaked' = [muLeaked EXCEPT ![c.from] = TRUE]
       \/ /\ Head(c.todo) \in ranges[c.from]
          /\ UNCHANGED muLeaked
    /\ UNCHANGED <<ranges, up, db, tree, handlers, received, overlaps, bounds>>

(* The handler starts a goroutine.                                        *)
MerkleCheck(node, number, sent) ==
    [at |-> node, number |-> number, tree |-> sent, pc |-> "compare", keys |-> {}, result |-> <<>>]

(* The message names its receiver, and it is the receiver of the tree that *)
(* will be asked for values.  A tree that is not empty may have no JSON,   *)
(* and an empty body is refused.  Without an answer the rest is dropped.   *)
CheckSent(c) ==
    LET number == Head(c.todo)
        sent == Tree(c.from, number)
        next == [c EXCEPT !.todo = Tail(@)]
    IN
    /\ c \in checks /\ MuFree(c.from)
    /\ number \in ranges[c.from]
    /\ up[c.to]
    /\ \/ received' = received \cup {MerkleCheck(c.to, number, sent)}
       \/ sent # <<>> /\ UNCHANGED received
    /\ checks' \in {checks \ {c},
                   (checks \ {c}) \cup {d \in {next} : d.todo # <<>>}}
    /\ UNCHANGED <<ranges, up, db, tree, muLeaked, handlers, overlaps, bounds>>

-----------------------------------------------------------------------------
(* The process ends: maps and goroutines are gone, redis has what its last *)
(* snapshot had: here some of the keys, with their last values.            *)
Crashed(n) ==
    /\ up' = [up EXCEPT ![n] = FALSE]
    /\ \E kept \in SUBSET DOMAIN db[n] : db' = [db EXCEPT ![n] = Restrict(@, kept)]
    /\ tree' = [tree EXCEPT ![n] = <<>>]
    /\ muLeaked' = [muLeaked EXCEPT ![n] = FALSE]
    /\ handlers' = {h \in handlers : h.at # n}
    /\ checks' = {c \in checks : c.from # n}
    /\ received' = {r \in received : r.at # n}
    /\ overlaps' = {o \in overlaps : o[1] # n}
    /\ UNCHANGED <<ranges, bounds>>

Restart(n) ==
    /\ ~up[n]
    /\ up' = [up EXCEPT ![n] = TRUE]
    /\ UNCHANGED <<ranges, db, tree, muLeaked, handlers, checks, received,
                   overlaps, bounds>>

(* ReceivedMerkleTree compares under mu.  The panic of a missing entry, of *)
(* an own tree that is still nil or of a nil tree received is recovered by *)
(* nobody.                                                                 *)
CompareTree(r) ==
    LET own == NodeKeys(r.at, r.number) IN
    /\ r \in received /\ r.pc = "compare" /\ MuFree(r.at)
    /\ \/ /\ r.number \notin ranges[r.at] \/ own = {} \/ r.tree = <<>>
          /\ Crashed(r.at)
       \/ /\ r.number \in ranges[r.at] /\ own # {} /\ r.tree # <<>>
          /\ received' = (received \ {r}) \cup
                 IF r.tree = Tree(r.at, r.number) THEN {}
                 ELSE {[r EXCEPT !.pc = "ask",
                                 !.keys = {k \in own : tree[r.at][k] \in Range(r.tree)}]}
          /\ UNCHANGED <<ranges, up, db, tree, muLeaked, handlers, checks, overlaps,
                         bounds>>

ReceivedUnchanged == UNCHANGED <<ranges, up, muLeaked, handlers, checks, bounds>>

(* The request for the keys goes to the node itself, which its message has *)
(* named.  merkleUpdate gives the JSON of their objects, or, if there is   *)
(* one that redis has not, an error that is read as no values.             *)
MerkleUpdate(r) ==
    LET answer == IF r.keys \subseteq DOMAIN db[r.at]
                  THEN [k \in r.keys |-> Marshal(db[r.at][k])] ELSE <<>>
    IN
    /\ r \in received /\ r.pc = "ask" /\ up[r.at]
    /\ received' = (received \ {r}) \cup
           {[r EXCEPT !.pc = "apply", !.keys = DOMAIN answer, !.result = answer]}
    /\ UNCHANGED <<db, tree, overlaps>>
    /\ ReceivedUnchanged

(* No answer: the goroutine panics, recovers and begins again.             *)
MerkleUpdateFails(r) ==
    /\ r \in received /\ r.pc = "ask"
    /\ received' = (received \ {r}) \cup {[r EXCEPT !.pc = "compare", !.keys = {}]}
    /\ UNCHANGED <<db, tree, overlaps>>
    /\ ReceivedUnchanged

(* The answer is applied key by key, in any order, without giving back mu: *)
(* the JSON that came is entered in the tree as the value,                 *)
ApplyToTree(r) ==
    /\ r \in received /\ r.keys = DOMAIN r.result
    /\ r.pc = "write" \/ (r.pc = "apply" /\ MuFree(r.at))
    /\ \E k \in r.keys :
           /\ tree' = [tree EXCEPT ![r.at] = With(@, Holds(k, r.result[k]))]
           /\ received' = (received \ {r}) \cup
                  {[r EXCEPT !.pc = "write", !.keys = @ \ {k}]}
           /\ Begins(r.at, k)
    /\ UNCHANGED db
    /\ ReceivedUnchanged

(* The keys still to be applied; without any mu is given back.             *)
StillApplying(r) ==
    IF r.keys = {} THEN {} ELSE {[r EXCEPT !.result = Restrict(@, r.keys)]}

(* Mutant of ApplyToStore: the value is not stored.                        *)
ApplyToStoreForgotten(r) ==
    /\ r \in received /\ r.pc = "write" /\ Written(r) # {}
    /\ received' = (received \ {r}) \cup StillApplying(r)
    /\ UNCHANGED <<db, tree, overlaps>>
    /\ ReceivedUnchanged

(* and becomes the value of an object without a clock in redis.            *)
ApplyToStore(r) ==
    /\ r \in received /\ r.pc = "write" /\ Written(r) # {}
    /\ Set(r.at, Restrict(r.result, Written(r)))
    /\ received' = (received \ {r}) \cup StillApplying(r)
    /\ UNCHANGED <<tree, overlaps>>
    /\ ReceivedUnchanged

NothingToApply(r) ==
    /\ r \in received /\ r.pc = "apply" /\ MuFree(r.at)
    /\ r.result = <<>>
    /\ received' = received \ {r}
    /\ UNCHANGED <<db, tree, overlaps>>
    /\ ReceivedUnchanged

Apply(r) == ApplyToTree(r) \/ ApplyToStore(r) \/ NothingToApply(r)

Next ==
    \/ \E n \in Nodes, k \in Keys : OtherWrite(n, k) \/ \E v \in Values : PutStore(n, k, v)
    \/ \E h \in handlers : UpdateMapData(h)
    \/ \E n, target \in Nodes : AskMerkle(n, target)
    \/ \E c \in checks : CheckPanics(c) \/ CheckSent(c)
    \/ \E r \in received :
           CompareTree(r) \/ MerkleUpdate(r) \/ MerkleUpdateFails(r) \/ Apply(r)
    \/ \E n \in Nodes : Restart(n)

Spec == Init /\ [][Next]_vars

(* Goroutines run, docker restarts containers, and a node that asks itself *)
(* again and again gets an answer some time.                               *)
Fairness ==
    \A n \in Nodes :
        /\ WF_vars(\E h \in handlers : h.at = n /\ UpdateMapData(h))
        /\ WF_vars(\E c \in checks : c.from = n /\ (CheckPanics(c) \/ CheckSent(c)))
        /\ WF_vars(\E r \in received : r.at = n /\ (CompareTree(r) \/ Apply(r)))
        /\ SF_vars(\E r \in received : r.at = n /\ MerkleUpdate(r))
        /\ WF_vars(Restart(n))

FairSpec == Spec /\ Fairness

-----------------------------------------------------------------------------
(* Once a PUT handler or a goroutine that applies an answer has written a  *)
(* key to both tree and redis, without another writer in between, the two  *)
(* have the same value until the next write of the key: by a replication   *)
(* message, which does not write to the tree, or by writers that overlap.  *)
TreeMatchesStore ==
    \A n \in Nodes : \A k \in DOMAIN tree[n] :
        \/ <<n, k>> \in overlaps \/ Writing(n, k)
        \/ k \in DOMAIN db[n] /\ db[n][k] = tree[n][k]

Busy(n) ==
    \/ \E h \in handlers : h.at = n
    \/ \E c \in checks : c.from = n
    \/ \E r \in received : r.at = n

(* In a node that has an entry for every number no goroutine waits for mu  *)
(* or asks for ever: PUT handlers, checks and comparisons all end.         *)
MerkleWorkEnds == \A n \in Nodes : ranges[n] = Numbers => []<>~Busy(n)
=============================================================================
