----------------------------- MODULE TokenRing -----------------------------
(***************************************************************************)
(* The hash ring: GenTokenSet and GetPreferenceList (pkg/node/node.go) and *)
(* the VirtualNodeMap that main.go starts and gossip fills.                *)
(*                                                                         *)
(* A token is a range [start, start + 1] of the ring, named by its start.  *)
(* When a node takes over another's entry is the business of module        *)
(* Gossip: here it may do so at any time, with the ranges (Adopt), or it   *)
(* knows a seed by the entry of populate, which has neither tokens nor an  *)
(* Id (Populate).                                                          *)
(***************************************************************************)
EXTENDS Integers, Sequences, FiniteSets, Functions

CONSTANTS Nodes,    (* node ids                                             *)
          Seeds,    (* SEEDNODES                                            *)
          NumTokens, (* 64 / NODE_TOTAL                                     *)
          MaxStart, (* the greatest start of a range, 63                    *)
          MaxId     (* GetPreferenceList counts up to this id, 9            *)

ASSUME NodesAssumption == Nodes \subseteq 0..MaxId /\ Seeds \subseteq Nodes
ASSUME RingAssumption == NumTokens \in Nat /\ MaxStart \in Nat /\ MaxId \in Nat

VARIABLES
    tokenSet,  (* the starts of the tokens that GenTokenSet has so far        *)
    randInt,   (* the number it considers, NoNumber between two               *)
    dup,       (* its flag: the number was assigned already                   *)
    known,     (* CommNodeMap: for each node known, is its entry complete,
                  with tokens and Id?  Empty until the node is started        *)
    populated, (* has populate run?                                           *)
    ring       (* VirtualNodeMap: from starts of ranges to their nodes        *)

vars == <<tokenSet, randInt, dup, known, populated, ring>>

generation == <<tokenSet, randInt, dup>>
membership == <<known, populated, ring>>

NoNumber == -1

(* rand.Intn(63 - 0) + 0: the last range of the ring is never drawn.       *)
Numbers == 0..MaxStart - 1

Started(n) == DOMAIN known[n] # {}

TypeOK ==
    /\ tokenSet \in [Nodes -> Seq(Numbers)]
    /\ \A n \in Nodes : Len(tokenSet[n]) <= NumTokens
    /\ randInt \in [Nodes -> Numbers \cup {NoNumber}]
    /\ dup \in [Nodes -> BOOLEAN]
    /\ populated \in [Nodes -> BOOLEAN]
    /\ DOMAIN known = Nodes /\ DOMAIN ring = Nodes
    /\ \A n \in Nodes :
           /\ DOMAIN known[n] \subseteq Nodes
           /\ \A start \in DOMAIN ring[n] :
                  ring[n][start] \in DOMAIN known[n] /\ start \in Range(tokenSet[ring[n][start]])

Init ==
    /\ tokenSet = [n \in Nodes |-> <<>>]
    /\ randInt = [n \in Nodes |-> NoNumber]
    /\ dup = [n \in Nodes |-> FALSE]
    /\ known = [n \in Nodes |-> <<>>]
    /\ populated = [n \in Nodes |-> FALSE]
    /\ ring = [n \in Nodes |-> <<>>]

-----------------------------------------------------------------------------
(* GenTokenSet.                                                            *)

(* Mutant of Draw: the last range of the ring is drawn as well.            *)
DrawAll(n) ==
    /\ Len(tokenSet[n]) < NumTokens
    /\ randInt[n] = NoNumber
    /\ \E number \in 0..MaxStart : randInt' = [randInt EXCEPT ![n] = number]
    /\ dup' = [dup EXCEPT ![n] = FALSE]
    /\ UNCHANGED <<tokenSet, membership>>

Draw(n) ==
    /\ Len(tokenSet[n]) < NumTokens
    /\ randInt[n] = NoNumber
    /\ \E number \in Numbers : randInt' = [randInt EXCEPT ![n] = number]
    /\ dup' = [dup EXCEPT ![n] = FALSE]
    /\ UNCHANGED <<tokenSet, membership>>

Assigned(n) == randInt[n] \in Range(tokenSet[n])

(* The inner loop: a number that is assigned already is drawn again.       *)
Redraw(n) ==
    /\ Assigned(n)
    /\ \E number \in Numbers : randInt' = [randInt EXCEPT ![n] = number]
    /\ dup' = [dup EXCEPT ![n] = TRUE]
    /\ UNCHANGED <<tokenSet, membership>>

(* Mutants of AddToken: the check comes to nothing, or is the wrong way    *)
(* round.                                                                  *)
AddTokenUnchecked(n) ==
    /\ randInt[n] # NoNumber
    /\ tokenSet' = [tokenSet EXCEPT ![n] = Append(@, randInt[n])]
    /\ randInt' = [randInt EXCEPT ![n] = NoNumber]
    /\ UNCHANGED <<dup, membership>>

AddTokenOnDuplicate(n) ==
    /\ randInt[n] # NoNumber
    /\ ~Assigned(n) /\ dup[n]
    /\ tokenSet' = [tokenSet EXCEPT ![n] = Append(@, randInt[n])]
    /\ randInt' = [randInt EXCEPT ![n] = NoNumber]
    /\ UNCHANGED <<dup, membership>>

(* The outer loop ends for a number that was no duplicate.  dup stays TRUE *)
(* for the numbers that were drawn instead of one: the loop goes round for *)
(* ever, although nothing is left to redraw.                               *)
AddToken(n) ==
    /\ randInt[n] # NoNumber
    /\ ~Assigned(n) /\ ~dup[n]
    /\ tokenSet' = [tokenSet EXCEPT ![n] = Append(@, randInt[n])]
    /\ randInt' = [randInt EXCEPT ![n] = NoNumber]
    /\ UNCHANGED <<dup, membership>>

-----------------------------------------------------------------------------
(* The maps of a node that has its tokens.                                 *)

WithRanges(map, node) ==
    [start \in DOMAIN map \cup Range(tokenSet[node]) |->
        IF start \in Range(tokenSet[node]) THEN node ELSE map[start]]

WithEntry(map, node, complete) ==
    [k \in DOMAIN map \cup {node} |-> IF k = node THEN complete ELSE map[k]]

(* main.go                                                                 *)
Start(n) ==
    /\ ~Started(n)
    /\ Len(tokenSet[n]) = NumTokens
    /\ known' = [known EXCEPT ![n] = WithEntry(@, n, TRUE)]
    /\ ring' = [ring EXCEPT ![n] = WithRanges(@, n)]
    /\ UNCHANGED <<populated, generation>>

Populate(n) ==
    /\ Started(n) /\ ~populated[n]
    /\ populated' = [populated EXCEPT ![n] = TRUE]
    /\ known' = [known EXCEPT ![n] =
           [k \in DOMAIN @ \cup Seeds |-> IF k \in Seeds THEN FALSE ELSE @[k]]]
    /\ UNCHANGED <<ring, generation>>

(* An entry from another map.  CompareAndUpdate enters no ranges for a     *)
(* node that it knew.                                                      *)
AdoptComplete(n, k) ==
    /\ Started(n) /\ Started(k)
    /\ k \in DOMAIN known[n] => ~known[n][k]
    /\ known' = [known EXCEPT ![n] = WithEntry(@, k, TRUE)]
    /\ \/ ring' = [ring EXCEPT ![n] = WithRanges(@, k)]
       \/ k \in DOMAIN known[n] /\ UNCHANGED ring
    /\ UNCHANGED <<populated, generation>>

AdoptSeed(n, k) ==
    /\ Started(n)
    /\ k \in Seeds \ DOMAIN known[n]
    /\ known' = [known EXCEPT ![n] = WithEntry(@, k, FALSE)]
    /\ UNCHANGED <<populated, ring, generation>>

Next ==
    \E n \in Nodes :
        \/ Draw(n) \/ Redraw(n) \/ AddToken(n) \/ Start(n) \/ Populate(n)
        \/ \E k \in Nodes : AdoptComplete(n, k) \/ AdoptSeed(n, k)

Spec == Init /\ [][Next]_vars

(* GenTokenSet runs; nothing is assumed of what is drawn.                  *)
FairSpec ==
    Spec /\ \A n \in Nodes : WF_vars(Draw(n) \/ Redraw(n) \/ AddToken(n) \/ Start(n))

-----------------------------------------------------------------------------
(* GetPreferenceList for the range that begins at start, when the nodes in *)
(* down are known to be down.  A range that is in no token of a node known *)
(* reads as the zero GossipNode, whose Id is 0, as is the Id of an entry   *)
(* that populate made.                                                     *)

PrimaryNode(n, start) == IF start \in DOMAIN ring[n] THEN ring[n][start] ELSE 0

NodeMapIds(n, down) ==
    {IF known[n][k] THEN k ELSE 0 : k \in DOMAIN known[n] \ down}

(* A loop over the ids from first to last, which takes those in ids.       *)
Listed(first, last, ids) ==
    LET list[i \in first - 1..last] ==
            IF i = first - 1 THEN <<>>
            ELSE IF i \in ids THEN Append(list[i - 1], i) ELSE list[i - 1]
    IN  list[last]

(* Mutant of GetPreferenceList: the second loop goes too far.              *)
GetPreferenceListToPrimary(n, start, down) ==
    LET primary == PrimaryNode(n, start)
        ids == NodeMapIds(n, down)
    IN  Listed(primary + 1, MaxId, ids) \o Listed(0, primary, ids)

GetPreferenceList(n, start, down) ==
    LET primary == PrimaryNode(n, start)
        ids == NodeMapIds(n, down)
    IN  Listed(primary + 1, MaxId, ids) \o Listed(0, primary - 1, ids)

-----------------------------------------------------------------------------
(* The tokens of a node are NumTokens different ranges: a duplicate would  *)
(* leave it fewer, as the map holds a range once.                          *)
TokensDistinct ==
    \A n \in Nodes : Started(n) => Cardinality(Range(tokenSet[n])) = NumTokens

(* A node whose numbers were all different gets its tokens and starts.     *)
(* (The first number drawn twice keeps it in GenTokenSet for ever.)        *)
StartsUnlessDuplicate == \A n \in Nodes : <>(Started(n) \/ dup[n])

(* The preference list goes round the ids once, clockwise from the primary *)
(* node and without it, and has exactly the known nodes that are not down  *)
(* (a seed without its tokens counts as node 0).                           *)
PreferenceOrder ==
    \A n \in Nodes : \A start \in 0..MaxStart : \A down \in SUBSET DOMAIN known[n] :
        LET list == GetPreferenceList(n, start, down)
            distance(id) == (id - PrimaryNode(n, start)) % (MaxId + 1)
        IN  /\ Range(list) = NodeMapIds(n, down) \ {PrimaryNode(n, start)}
            /\ \A i \in 1..Len(list) - 1 : distance(list[i]) < distance(list[i + 1])
=============================================================================
