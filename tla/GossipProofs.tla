---------------------------- MODULE GossipProofs ----------------------------
(***************************************************************************)
(* What the rumours of Gossip can and cannot do, for any number of nodes,  *)
(* seeds, failures and crashes.  The maps on their way matter as much as   *)
(* those of the nodes: what a node adopts was in a map that was sent, by a *)
(* process that may have ended since.  The inductive invariant says of     *)
(* every map, wherever it is, that it is sound, and of those on their way  *)
(* what they may say of their sender and of their receiver.                *)
(***************************************************************************)
EXTENDS Gossip, TLAPS

(* Nobody is rumoured down for nothing, and only seeds are known without   *)
(* their tokens.                                                           *)
Sound(map) ==
    /\ IsMap(map)
    /\ \A k \in DOMAIN map : /\ map[k].down => failures >= 3
                             /\ k \notin Seeds => map[k].tokens # NoTokens

(* No count of failures is larger than their number.                       *)
Counted(map) == \A k \in DOMAIN map : map[k].fails <= failures

(* A node that sends its map is in it and is not down in it.               *)
RequestSound(r) ==
    /\ r \in [from : Nodes, to : Nodes, map : {r.map}, open : BOOLEAN]
    /\ r.from # r.to /\ Sound(r.map)
    /\ r.from \in DOMAIN r.map /\ ~r.map[r.from].down

(* An answer has the entry of the node that asked only if that is a seed.  *)
ReplySound(r) ==
    /\ r \in [from : Nodes, to : Nodes, update : BOOLEAN, map : {r.map}]
    /\ r.from # r.to /\ Sound(r.map)
    /\ r.to \in DOMAIN r.map => r.to \in Seeds /\ ~r.map[r.to].down
    /\ r.from \in DOMAIN r.map => ~r.map[r.from].down

(* Of itself a node says that it is up, with the tokens that it drew last. *)
SelfSound(n) ==
    /\ n \in DOMAIN commNodeMap[n]
    /\ ~commNodeMap[n][n].down
    /\ n \notin Seeds => commNodeMap[n][n].tokens = life[n]

(* A node has drawn a range, or all of them, in one of its lives.          *)
HasDrawn(k, range) == \E tokens \in 1..life[k] : range \in scenario.tokens[k][tokens]

HasDrawnSome(k, ranges) == \E tokens \in 1..life[k] : scenario.tokens[k][tokens] \subseteq ranges

(* The ring has ranges of nodes in the map only, of their life as it is or *)
(* as it was before, and leaves none of a node that is no seed out.        *)
RingSound(n) ==
    /\ \A range \in DOMAIN virtualNodeMap[n] :
           /\ virtualNodeMap[n][range] \in DOMAIN commNodeMap[n]
           /\ HasDrawn(virtualNodeMap[n][range], range)
    /\ \A k \in DOMAIN commNodeMap[n] \ Seeds : HasDrawnSome(k, DOMAIN virtualNodeMap[n])

(* All of what is said of one node's state.                                *)
NodeSound(n) ==
    /\ Sound(commNodeMap[n]) /\ Counted(commNodeMap[n])
    /\ phase[n] = "seeding" => n \notin Seeds
    /\ SelfSound(n)
    /\ RingSound(n)

(* A process is started again only after it has ended.                     *)
LivesSound ==
    \A n \in scenario.nodes : life[n] + (IF up[n] THEN 0 ELSE 1) <= 1 + crashes

(* What does not concern the maps.                                         *)
BasicsOK ==
    /\ scenario \in Scenarios
    /\ up \in [Nodes -> BOOLEAN]
    /\ phase \in [Nodes -> Phases]
    /\ life \in [Nodes -> 1..1 + crashes]
    /\ DOMAIN commNodeMap = Nodes /\ DOMAIN virtualNodeMap = Nodes
    /\ failures \in 0..scenario.failures
    /\ crashes \in 0..scenario.crashes
    /\ LivesSound

(* The inductive invariant.                                                *)
IInv ==
    /\ BasicsOK
    /\ \A n \in Nodes : NodeSound(n)
    /\ \A r \in requests : RequestSound(r)
    /\ \A r \in replies : ReplySound(r)

-----------------------------------------------------------------------------
LEMMA ScenarioTypes ==
    ASSUME BasicsOK
    PROVE  /\ scenario.nodes \subseteq Nodes /\ Seeds \subseteq scenario.nodes
           /\ scenario.failures \in Nat /\ scenario.crashes \in Nat
           /\ failures \in Nat /\ crashes \in Nat
           /\ life \in [Nodes -> Nat \ {0}]
  BY ScenariosAssumption DEF BasicsOK

(* Lives and failures only grow: a sound map stays sound.                  *)
LEMMA SoundStays ==
    ASSUME life \in [Nodes -> Nat], life' \in [Nodes -> Nat], \A n \in Nodes : life[n] <= life'[n],
           failures \in Nat, failures' \in Nat, failures <= failures',
           NEW map, Sound(map)
    PROVE  Sound(map)'
  BY DEF Sound, IsMap, Entries

(* What hearing of a node, and adopting entries, makes of a map.           *)
LEMMA HeardEffect ==
    ASSUME NEW map, IsMap(map), NEW node, NEW heard, heard = Heard(map, node)
    PROVE  /\ DOMAIN heard = DOMAIN map
           /\ \A k \in DOMAIN map : /\ heard[k] \in Entries /\ heard[k].tokens = map[k].tokens
                                    /\ heard[k].down => map[k].down
                                    /\ heard[k].fails \in {0, map[k].fails}
                                    /\ k # node => heard[k] = map[k]
                                    /\ k = node => ~heard[k].down
<1>1. \A k \in DOMAIN map : map[k] \in Entries
  BY DEF IsMap
<1>2. CASE node \notin DOMAIN map
  BY <1>1, <1>2 DEF Heard, Entries
<1>3. CASE node \in DOMAIN map
  <2> DEFINE new == [map[node] EXCEPT !.fails = 0, !.down = FALSE]
  <2>1. /\ new \in Entries /\ new.tokens = map[node].tokens /\ ~new.down /\ new.fails = 0
    <3>1. ASSUME NEW entry \in Entries, NEW e, e = [entry EXCEPT !.fails = 0, !.down = FALSE]
          PROVE  e \in Entries /\ e.tokens = entry.tokens /\ ~e.down /\ e.fails = 0
      <4>1. e.tokens = entry.tokens /\ ~e.down /\ e.fails = 0
        BY <3>1 DEF Entries
      <4>2. [entry EXCEPT !.fails = 0] \in Entries
        BY DEF Entries
      <4>3. \A x \in Entries : [x EXCEPT !.down = FALSE] \in Entries
        BY DEF Entries
      <4>4. e = [[entry EXCEPT !.fails = 0] EXCEPT !.down = FALSE]
        BY <3>1
      <4> QED BY <4>1, <4>2, <4>3, <4>4
    <3>2. map[node] \in Entries
      BY <1>1, <1>3
    <3> QED BY <3>1, <3>2
  <2>2. /\ DOMAIN Heard(map, node) = DOMAIN map /\ Heard(map, node)[node] = new
        /\ \A k \in DOMAIN map \ {node} : Heard(map, node)[k] = map[k]
    BY <1>3 DEF Heard
  <2> HIDE DEF new
  <2>3. \A k \in DOMAIN map \ {node} : map[k].fails \in {0, map[k].fails}
    OBVIOUS
  <2> QED BY <1>1, <1>3, <2>1, <2>2, <2>3
<1> QED BY <1>2, <1>3

(* A count that starts again changes nothing else of an entry.             *)
LEMMA EntryEffect ==
    ASSUME NEW entry \in Entries
    PROVE  LET new == [entry EXCEPT !.fails = 0] IN
           /\ new \in Entries /\ new.fails = 0
           /\ new.tokens = entry.tokens /\ new.down = entry.down
  BY DEF Entries

(* A merged map, whatever was adopted.                                     *)
MergedFrom(merged, map, node, theirs, adopted) ==
    /\ DOMAIN merged = DOMAIN map \cup adopted
    /\ \A k \in adopted : /\ merged[k].tokens = theirs[k].tokens
                         /\ merged[k].down = theirs[k].down
    /\ node \in DOMAIN map \ adopted => ~merged[node].down
    /\ \A k \in DOMAIN map \ adopted : /\ merged[k].tokens = map[k].tokens
                                       /\ merged[k].down => map[k].down

LEMMA MergedSound ==
    ASSUME failures \in Nat, NEW map, Sound(map), Counted(map), NEW theirs, Sound(theirs),
           NEW node, NEW adopted, adopted \subseteq DOMAIN theirs,
           NEW merged, merged = Merge(Heard(map, node), theirs, adopted)
    PROVE  /\ Sound(merged) /\ Counted(merged)
           /\ MergedFrom(merged, map, node, theirs, adopted)
<1>0. PICK heard : heard = Heard(map, node)
  OBVIOUS
<1>1. IsMap(map) /\ IsMap(theirs)
  BY DEF Sound
<1>2. /\ DOMAIN heard = DOMAIN map
      /\ \A k \in DOMAIN map : /\ heard[k] \in Entries /\ heard[k].tokens = map[k].tokens
                               /\ heard[k].down => map[k].down
                               /\ heard[k].fails \in {0, map[k].fails}
                               /\ k = node => ~heard[k].down
  BY <1>0, <1>1, HeardEffect
<1>9. merged = Merge(heard, theirs, adopted)
  BY <1>0
<1>3. /\ DOMAIN merged = DOMAIN heard \cup adopted
      /\ \A k \in adopted : /\ merged[k] \in Entries /\ merged[k].fails = 0
                            /\ merged[k].tokens = theirs[k].tokens
                            /\ merged[k].down = theirs[k].down
      /\ \A k \in DOMAIN heard \ adopted : merged[k] = heard[k]
  <2>1. \A k \in adopted : theirs[k] \in Entries
    BY <1>1 DEF IsMap
  <2>2. DOMAIN merged = DOMAIN heard \cup adopted
    BY <1>9 DEF Merge
  <2>3. \A k \in adopted : merged[k] = [theirs[k] EXCEPT !.fails = 0]
    BY <1>9 DEF Merge
  <2>4. \A k \in DOMAIN heard \ adopted : merged[k] = heard[k]
    BY <1>9 DEF Merge
  <2>5. ASSUME NEW k \in adopted
        PROVE  /\ merged[k] \in Entries /\ merged[k].fails = 0
               /\ merged[k].tokens = theirs[k].tokens
               /\ merged[k].down = theirs[k].down
    <3>1. PICK entry \in Entries : entry = theirs[k]
      BY <2>1
    <3>2. merged[k] = [entry EXCEPT !.fails = 0]
      BY <2>3, <3>1
    <3> QED BY <3>1, <3>2, EntryEffect
  <2> QED BY <2>2, <2>4, <2>5
<1>4. Sound(merged)
  <2>1. DOMAIN merged \subseteq Nodes
    BY <1>1, <1>2, <1>3 DEF IsMap
  <2>2. ASSUME NEW k \in DOMAIN merged
        PROVE  /\ merged[k] \in Entries /\ merged[k].tokens <= life[k]
               /\ merged[k].down => failures >= 3
               /\ k \notin Seeds => merged[k].tokens # NoTokens
    <3>1. CASE k \in adopted
      BY <1>3, <3>1 DEF Sound, IsMap
    <3>2. CASE k \notin adopted
      BY <1>2, <1>3, <2>2, <3>2 DEF Sound, IsMap
    <3> QED BY <3>1, <3>2
  <2> QED BY <2>1, <2>2 DEF Sound, IsMap
<1>5. \A k \in DOMAIN merged : merged[k].fails <= failures
  BY <1>2, <1>3 DEF Counted
<1>6. \A k \in DOMAIN map \ adopted : /\ merged[k].tokens = map[k].tokens
                                      /\ merged[k].down => map[k].down
  BY <1>2, <1>3
<1>7. DOMAIN merged = DOMAIN map \cup adopted
  BY <1>2, <1>3
<1>8. \A k \in adopted : merged[k].tokens = theirs[k].tokens /\ (merged[k].down = theirs[k].down)
  BY <1>3
<1>10. node \in DOMAIN map \ adopted => ~merged[node].down
  BY <1>2, <1>3
<1> QED BY <1>4, <1>5, <1>6, <1>7, <1>8, <1>10 DEF MergedFrom, Counted

-----------------------------------------------------------------------------
(* The state beside the maps, through every step.                          *)
LEMMA NextBasicsOK == ASSUME BasicsOK, [Next]_vars PROVE BasicsOK'
<1>0. /\ scenario.nodes \subseteq Nodes /\ failures \in Nat /\ crashes \in Nat
      /\ scenario.failures \in Nat /\ scenario.crashes \in Nat
      /\ life \in [Nodes -> Nat \ {0}] /\ LivesSound
  BY ScenarioTypes DEF BasicsOK
<1>1. ASSUME NEW n \in Nodes, Populate(n) \/ PartyTime(n) PROVE BasicsOK'
  BY <1>1 DEF Populate, PartyTime, BasicsOK, LivesSound, Phases
<1>2. ASSUME NEW n \in Nodes, Crash(n) PROVE BasicsOK'
  <2>1. /\ UNCHANGED <<scenario, phase, life, commNodeMap, virtualNodeMap, failures>>
        /\ up' = [up EXCEPT ![n] = FALSE] /\ crashes' = crashes + 1 /\ crashes < scenario.crashes
    BY <1>2 DEF Crash
  <2>2. life \in [Nodes -> 1..1 + crashes'] /\ crashes' \in 0..scenario.crashes
    BY <1>0, <2>1 DEF BasicsOK
  <2>3. up' \in [Nodes -> BOOLEAN]
    BY <2>1 DEF BasicsOK
  <2>4. LivesSound'
    <3> SUFFICES ASSUME NEW i \in scenario.nodes
                 PROVE  life[i] + (IF up'[i] THEN 0 ELSE 1) <= 1 + crashes'
      BY <2>1 DEF LivesSound
    <3>1. i \in Nodes /\ life[i] \in Nat /\ life[i] + (IF up[i] THEN 0 ELSE 1) <= 1 + crashes
      BY <1>0 DEF LivesSound
    <3> QED BY <1>0, <2>1, <3>1
  <2> QED BY <2>1, <2>2, <2>3, <2>4 DEF BasicsOK
<1>3. ASSUME NEW n \in Nodes, Restart(n) PROVE BasicsOK'
  <2>1. /\ UNCHANGED <<scenario, failures, crashes>> /\ up' = [up EXCEPT ![n] = TRUE]
        /\ n \in scenario.nodes /\ ~up[n] /\ life' = [life EXCEPT ![n] = @ + 1]
        /\ phase' = [phase EXCEPT ![n] = "starting"]
        /\ DOMAIN commNodeMap' = Nodes /\ DOMAIN virtualNodeMap' = Nodes
    BY <1>3 DEF Restart, BasicsOK
  <2>2. life[n] + 1 <= 1 + crashes /\ life[n] \in Nat
    BY <1>0, <2>1 DEF LivesSound
  <2>3. life' \in [Nodes -> 1..1 + crashes]
    BY <1>0, <2>1, <2>2 DEF BasicsOK
  <2>4. up' \in [Nodes -> BOOLEAN] /\ phase' \in [Nodes -> Phases]
    BY <2>1 DEF BasicsOK, Phases
  <2>5. LivesSound'
    <3> SUFFICES ASSUME NEW i \in scenario.nodes
                 PROVE  life'[i] + (IF up'[i] THEN 0 ELSE 1) <= 1 + crashes
      BY <2>1 DEF LivesSound
    <3>1. i \in Nodes /\ life[i] \in Nat /\ life[i] + (IF up[i] THEN 0 ELSE 1) <= 1 + crashes
      BY <1>0 DEF LivesSound
    <3>2. CASE i = n
      BY <1>0, <2>1, <2>2, <3>1, <3>2 DEF BasicsOK
    <3>3. CASE i # n
      BY <1>0, <2>1, <3>1, <3>3 DEF BasicsOK
    <3> QED BY <3>2, <3>3
  <2> QED BY <2>1, <2>3, <2>4, <2>5 DEF BasicsOK
<1>4. ASSUME NEW n, NEW target, ExchangeFailed(n, target), failures < scenario.failures PROVE BasicsOK'
  BY <1>0, <1>4 DEF ExchangeFailed, BasicsOK, LivesSound
<1>5. ASSUME NEW r, CompareAndUpdate(r) \/ RecvGossipMsg(r) PROVE BasicsOK'
  BY <1>5 DEF CompareAndUpdate, RecvGossipMsg, BasicsOK, LivesSound
<1>6. CASE (\E n, target \in Nodes : SendGossip(n, target)) \/ UNCHANGED vars
  BY <1>6 DEF SendGossip, vars, BasicsOK, LivesSound
<1>7. CASE UNCHANGED <<scenario, up, life, phase, commNodeMap, virtualNodeMap, failures, crashes>>
  BY <1>7 DEF BasicsOK, LivesSound
<1>8. ASSUME NEW r, ReplyLost(r) PROVE BasicsOK'
  BY <1>4, <1>7, <1>8 DEF ReplyLost
<1> QED BY <1>1, <1>2, <1>3, <1>4, <1>5, <1>6, <1>8 DEF Next, RequestFailed

(* Failures, crashes and lives only grow.                                  *)
LEMMA TimeGoesOn ==
    ASSUME BasicsOK, [Next]_vars
    PROVE  (\A n \in Nodes : life[n] <= life'[n]) /\ failures <= failures'
<1>1. failures \in Nat /\ life \in [Nodes -> Nat \ {0}]
  BY ScenarioTypes
<1>2. failures' = failures \/ failures' = failures + 1
  BY DEF Next, vars, Populate, PartyTime, Crash, Restart, SendGossip, CompareAndUpdate, RequestFailed,
     RecvGossipMsg, ReplyLost, ExchangeFailed
<1>3. life' = life \/ \E n \in Nodes : life' = [life EXCEPT ![n] = @ + 1]
  BY DEF Next, vars, Populate, PartyTime, Crash, Restart, SendGossip, CompareAndUpdate, RequestFailed,
     RecvGossipMsg, ReplyLost, ExchangeFailed
<1> QED BY <1>1, <1>2, <1>3

(* What holds of a map, of a message and of a node that a step leaves      *)
(* alone holds after it.                                                   *)
LEMMA SoundMapsStay ==
    ASSUME BasicsOK, [Next]_vars, NEW map, Sound(map)
    PROVE  Sound(map)'
<1>1. life \in [Nodes -> Nat] /\ failures \in Nat
  BY ScenarioTypes
<1>2. BasicsOK'
  BY NextBasicsOK
<1>3. life' \in [Nodes -> Nat] /\ failures' \in Nat
  BY <1>2, ScenariosAssumption DEF BasicsOK
<1> QED BY <1>1, <1>3, TimeGoesOn, SoundStays

(* What a node has drawn it has drawn for ever.                            *)
LEMMA DrawsStay ==
    ASSUME BasicsOK, [Next]_vars, NEW k \in Nodes
    PROVE  /\ \A range : HasDrawn(k, range) => HasDrawn(k, range)'
           /\ \A ranges : HasDrawnSome(k, ranges) => HasDrawnSome(k, ranges)'
<1>1. scenario' = scenario
  BY DEF Next, vars, Populate, PartyTime, Crash, Restart, SendGossip, CompareAndUpdate, RequestFailed,
     RecvGossipMsg, ReplyLost, ExchangeFailed
<1>2. life[k] \in Nat /\ life'[k] \in Nat /\ life[k] <= life'[k]
  <2>1. BasicsOK'
    BY NextBasicsOK
  <2>2. life' \in [Nodes -> Nat]
    BY <2>1, ScenariosAssumption DEF BasicsOK
  <2> QED BY <2>2, ScenarioTypes, TimeGoesOn
<1>3. 1..life[k] \subseteq 1..life'[k]
  BY <1>2
<1> QED BY <1>1, <1>3 DEF HasDrawn, HasDrawnSome

(* So what was sound stays sound while it is left alone.                   *)
LEMMA SoundMessagesStay ==
    ASSUME BasicsOK, [Next]_vars, NEW r
    PROVE  /\ RequestSound(r) => RequestSound(r)'
           /\ ReplySound(r) => ReplySound(r)'
  BY SoundMapsStay DEF RequestSound, ReplySound

LEMMA SoundNodesStay ==
    ASSUME IInv, [Next]_vars, NEW n \in Nodes, life'[n] = life[n],
           commNodeMap'[n] = commNodeMap[n], virtualNodeMap'[n] = virtualNodeMap[n],
           phase'[n] = "seeding" => phase[n] = "seeding" \/ n \notin Seeds
    PROVE  NodeSound(n)'
<1>1. BasicsOK /\ NodeSound(n)
  BY DEF IInv
<1>2. PICK map : map = commNodeMap[n]
  OBVIOUS
<1>3. Sound(map)'
  BY <1>1, <1>2, SoundMapsStay DEF NodeSound
<1>4. /\ failures \in Nat /\ failures' \in Nat /\ failures <= failures'
      /\ life \in [Nodes -> Nat] /\ life' \in [Nodes -> Nat] /\ \A i \in Nodes : life[i] <= life'[i]
  <2>1. BasicsOK'
    BY <1>1, NextBasicsOK
  <2>2. failures' \in Nat /\ life' \in [Nodes -> Nat]
    BY <2>1, ScenariosAssumption DEF BasicsOK
  <2> QED BY <1>1, <2>2, ScenarioTypes, TimeGoesOn
<1>5. \A k \in DOMAIN map : map[k].fails <= failures'
  <2>1. \A k \in DOMAIN map : map[k].fails \in Nat /\ map[k].fails <= failures
    BY <1>1, <1>2 DEF NodeSound, Counted, Sound, IsMap, Entries
  <2> QED BY <1>4, <2>1
<1>6. SelfSound(n)'
  BY <1>1 DEF NodeSound, SelfSound
<1>7. RingSound(n)'
  <2>1. DOMAIN commNodeMap[n] \subseteq Nodes
    BY <1>1 DEF NodeSound, Sound, IsMap
  <2>2. ASSUME NEW range \in DOMAIN virtualNodeMap[n]
        PROVE  /\ virtualNodeMap[n][range] \in DOMAIN commNodeMap[n]
               /\ HasDrawn(virtualNodeMap[n][range], range)'
    <3>1. PICK k : k = virtualNodeMap[n][range]
      OBVIOUS
    <3>2. k \in DOMAIN commNodeMap[n] /\ HasDrawn(k, range)
      BY <1>1, <3>1 DEF NodeSound, RingSound
    <3>3. HasDrawn(k, range)'
      BY <1>1, <2>1, <3>2, DrawsStay
    <3>4. virtualNodeMap'[n][range] = k
      BY <3>1
    <3> QED BY <3>1, <3>2, <3>3, <3>4 DEF HasDrawn
  <2>3. ASSUME NEW k \in DOMAIN commNodeMap[n] \ Seeds
        PROVE  HasDrawnSome(k, DOMAIN virtualNodeMap[n])'
    <3>1. PICK ranges : ranges = DOMAIN virtualNodeMap[n]
      OBVIOUS
    <3>2. HasDrawnSome(k, ranges)
      BY <1>1, <3>1 DEF NodeSound, RingSound
    <3>3. HasDrawnSome(k, ranges)'
      BY <1>1, <2>1, <3>2, DrawsStay
    <3> QED BY <3>1, <3>3 DEF HasDrawnSome
  <2>4. \A range \in DOMAIN virtualNodeMap'[n] :
            /\ virtualNodeMap'[n][range] \in DOMAIN commNodeMap'[n]
            /\ HasDrawn(virtualNodeMap[n][range], range)'
    BY <2>2
  <2> QED BY <2>3, <2>4 DEF RingSound
<1> QED BY <1>1, <1>2, <1>3, <1>5, <1>6, <1>7 DEF NodeSound, Counted

-----------------------------------------------------------------------------
(* A range that is entered is one of those who drew it; nothing is lost.   *)
LEMMA EnteredEffect ==
    ASSUME NEW ring, NEW map, NEW keys, NEW new \in Entered(ring, map, keys)
    PROVE  /\ DOMAIN new = DOMAIN ring \cup RangesOf(map, keys)
           /\ \A range \in DOMAIN new :
                  \/ range \in DOMAIN ring /\ new[range] = ring[range]
                  \/ new[range] \in keys /\ range \in TokenSet(map, new[range])
<1>1. PICK ranges : ranges = RangesOf(map, keys)
  OBVIOUS
<1>2. PICK last \in LastDrawers(map, keys) :
          new = [range \in DOMAIN ring \cup ranges |-> IF range \in ranges THEN last[range] ELSE ring[range]]
  BY <1>1 DEF Entered
<1>3. \A range \in ranges : last[range] \in keys /\ range \in TokenSet(map, last[range])
  BY <1>1, <1>2 DEF LastDrawers
<1>4. /\ DOMAIN new = DOMAIN ring \cup ranges
      /\ \A range \in DOMAIN new : new[range] = IF range \in ranges THEN last[range] ELSE ring[range]
  BY <1>2
<1> QED BY <1>1, <1>3, <1>4

(* A node that merges a map into its own: CompareAndUpdate enters the      *)
(* ranges of the new nodes, RecvGossipMsg those of all it has adopted.     *)
LEMMA MergedNode ==
    ASSUME IInv, NEW n \in Nodes, NEW theirs, Sound(theirs), NEW node,
           NEW adopted, adopted \subseteq DOMAIN theirs,
           NEW entered, entered \subseteq adopted, adopted \ DOMAIN commNodeMap[n] \subseteq entered,
           n \in adopted => n \in Seeds /\ ~theirs[n].down,
           NEW merged, merged = Merge(Heard(commNodeMap[n], node), theirs, adopted),
           commNodeMap'[n] = merged,
           virtualNodeMap'[n] \in Entered(virtualNodeMap[n], merged, entered),
           UNCHANGED <<scenario, life, failures, phase>>
    PROVE  NodeSound(n)'
<1>1. BasicsOK /\ NodeSound(n)
  BY DEF IInv
<1>2. PICK map : map = commNodeMap[n]
  OBVIOUS
<1>3. /\ failures \in Nat /\ life \in [Nodes -> Nat \ {0}]
      /\ Sound(map) /\ Counted(map)
  BY <1>1, <1>2, ScenarioTypes DEF NodeSound
<1>4. merged = Merge(Heard(map, node), theirs, adopted)
  BY <1>2
<1>5. Sound(merged) /\ Counted(merged) /\ MergedFrom(merged, map, node, theirs, adopted)
  BY <1>3, <1>4, MergedSound
<1>6. SelfSound(n)'
  <2>1. n \in DOMAIN map /\ ~map[n].down /\ (n \notin Seeds => map[n].tokens = life[n])
    BY <1>1, <1>2 DEF NodeSound, SelfSound
  <2>2. n \in DOMAIN merged /\ ~merged[n].down /\ (n \notin Seeds => merged[n].tokens = life[n])
    <3>1. CASE n \in adopted
      <4>1. n \in Seeds /\ ~theirs[n].down
        BY <3>1
      <4> QED BY <1>5, <3>1, <4>1 DEF MergedFrom
    <3>2. CASE n \notin adopted
      BY <1>5, <2>1, <3>2 DEF MergedFrom
    <3> QED BY <3>1, <3>2
  <2> QED BY <2>2 DEF SelfSound
<1>7. RingSound(n)'
  <2> DEFINE ring == virtualNodeMap[n]
             new == virtualNodeMap'[n]
  <2>1. /\ DOMAIN new = DOMAIN ring \cup RangesOf(merged, entered)
        /\ \A range \in DOMAIN new :
               \/ range \in DOMAIN ring /\ new[range] = ring[range]
               \/ new[range] \in entered /\ range \in TokenSet(merged, new[range])
    BY EnteredEffect
  <2>2. ASSUME NEW k \in entered, merged[k].tokens # NoTokens
        PROVE  /\ k \in DOMAIN merged /\ merged[k].tokens \in 1..life[k]
               /\ TokenSet(merged, k) = scenario.tokens[k][merged[k].tokens]
    <3>1. k \in DOMAIN merged
      BY <1>5 DEF MergedFrom
    <3>2. merged[k].tokens \in Nat /\ merged[k].tokens <= life[k] /\ k \in Nodes
      BY <1>5, <3>1 DEF Sound, IsMap, Entries
    <3> QED BY <1>3, <2>2, <3>1, <3>2 DEF NoTokens, TokenSet
  <2>3. ASSUME NEW range \in DOMAIN new
        PROVE  new[range] \in DOMAIN merged /\ HasDrawn(new[range], range)
    <3>1. CASE range \in DOMAIN ring /\ new[range] = ring[range]
      BY <1>1, <1>2, <1>5, <3>1 DEF NodeSound, RingSound, MergedFrom
    <3>2. CASE new[range] \in entered /\ range \in TokenSet(merged, new[range])
      <4>1. merged[new[range]].tokens # NoTokens
        BY <3>2 DEF TokenSet
      <4> QED BY <2>2, <3>2, <4>1 DEF HasDrawn
    <3> QED BY <2>1, <3>1, <3>2
  <2>4. ASSUME NEW k \in DOMAIN merged \ Seeds
        PROVE  HasDrawnSome(k, DOMAIN new)
    <3>1. CASE k \in DOMAIN map
      <4>1. HasDrawnSome(k, DOMAIN ring)
        BY <1>1, <1>2, <2>4, <3>1 DEF NodeSound, RingSound
      <4> QED BY <2>1, <4>1 DEF HasDrawnSome
    <3>2. CASE k \notin DOMAIN map
      <4>1. k \in entered
        BY <1>2, <1>5, <2>4, <3>2 DEF MergedFrom
      <4>2. merged[k].tokens # NoTokens
        BY <1>5, <2>4 DEF Sound
      <4>3. TokenSet(merged, k) \subseteq DOMAIN new
        BY <2>1, <4>1 DEF RangesOf
      <4> QED BY <2>2, <4>1, <4>2, <4>3 DEF HasDrawnSome
    <3> QED BY <3>1, <3>2
  <2> HIDE DEF new
  <2>5. virtualNodeMap'[n] = new
    BY DEF new
  <2> QED BY <2>3, <2>4, <2>5 DEF RingSound, HasDrawn, HasDrawnSome
<1>8. n \in Seeds => phase'[n] # "seeding"
  BY <1>1 DEF NodeSound
<1>9. Sound(merged)'
  BY <1>5 DEF Sound, IsMap
<1> QED BY <1>5, <1>6, <1>7, <1>8, <1>9 DEF NodeSound, Counted

(* A step changes the maps of one node at most, and what is on its way.    *)
LEMMA OneNodeAtATime ==
    ASSUME IInv, [Next]_vars, NEW n \in Nodes, NodeSound(n)',
           \A i \in Nodes \ {n} : /\ life'[i] = life[i] /\ phase'[i] = phase[i]
                                  /\ commNodeMap'[i] = commNodeMap[i]
                                  /\ virtualNodeMap'[i] = virtualNodeMap[i],
           \A r \in requests' \ requests : RequestSound(r)',
           \A r \in replies' \ replies : ReplySound(r)'
    PROVE  IInv'
<1>1. BasicsOK'
  BY NextBasicsOK DEF IInv
<1>2. \A i \in Nodes : NodeSound(i)'
  BY SoundNodesStay
<1>3. BasicsOK
  BY DEF IInv
<1>4. ASSUME NEW r \in requests' PROVE RequestSound(r)'
  <2>1. CASE r \in requests
    <3>1. RequestSound(r)
      BY <2>1 DEF IInv
    <3> QED BY <1>3, <3>1, SoundMessagesStay
  <2> QED BY <2>1
<1>5. ASSUME NEW r \in replies' PROVE ReplySound(r)'
  <2>1. CASE r \in replies
    <3>1. ReplySound(r)
      BY <2>1 DEF IInv
    <3> QED BY <1>3, <3>1, SoundMessagesStay
  <2> QED BY <2>1
<1> QED BY <1>1, <1>2, <1>4, <1>5 DEF IInv

(* What is adopted is theirs, and an excluded node that is known is not.   *)
LEMMA AdoptedKeys ==
    ASSUME NEW map, IsMap(map), NEW node, NEW theirs, NEW excluded,
           NEW adopted, adopted = Adopted(Heard(map, node), theirs, excluded)
    PROVE  /\ adopted \subseteq DOMAIN theirs
           /\ DOMAIN theirs \ DOMAIN map \subseteq adopted
           /\ excluded \cap DOMAIN map \cap adopted = {}
<1>1. PICK heard : heard = Heard(map, node)
  OBVIOUS
<1>2. DOMAIN heard = DOMAIN map
  BY <1>1, HeardEffect
<1> QED BY <1>1, <1>2 DEF Adopted

(* The answer to a request tells its sender of itself only what a seed's   *)
(* entry says, and never that it is down.                                  *)
LEMMA AnswerSound ==
    ASSUME NEW n \in Nodes, NEW r, RequestSound(r), r.to = n, NEW map, NEW adopted, NEW merged,
           Sound(merged), MergedFrom(merged, map, r.from, r.map, adopted),
           n \in DOMAIN merged => ~merged[n].down, NEW update \in BOOLEAN,
           NEW answer, answer = [from |-> n, to |-> r.from, update |-> update,
                                 map |-> IF update THEN MapForSender(merged, r.map) ELSE <<>>]
    PROVE  ReplySound(answer)
<1>1. /\ answer.from = n /\ answer.to = r.from /\ answer.update = update
      /\ answer.map = IF update THEN MapForSender(merged, r.map) ELSE <<>>
      /\ r.from \in Nodes /\ r.from # n
      /\ answer \in [from : Nodes, to : Nodes, update : BOOLEAN, map : {answer.map}]
  BY DEF RequestSound
<1>2. PICK theirs : theirs = r.map /\ r.from \in DOMAIN theirs /\ ~theirs[r.from].down
  BY DEF RequestSound
<1>3. CASE ~update
  <2>1. answer.map = <<>> /\ DOMAIN answer.map = {}
    BY <1>1, <1>3
  <2>2. Sound(answer.map)
    BY <2>1 DEF Sound, IsMap
  <2> QED BY <1>1, <2>1, <2>2 DEF ReplySound
<1>4. CASE update
  <2>1. PICK told : told = MapForSender(merged, theirs) /\ answer.map = told
    BY <1>1, <1>2, <1>4
  <2>2. /\ DOMAIN told = (DOMAIN merged \ DOMAIN theirs) \cup (Seeds \cap DOMAIN merged)
        /\ \A k \in DOMAIN told : told[k] = merged[k]
    BY <2>1 DEF MapForSender
  <2>3. Sound(told)
    BY <2>2 DEF Sound, IsMap
  <2>4. r.from \in DOMAIN told => r.from \in Seeds /\ ~told[r.from].down
    <3>1. ASSUME r.from \in DOMAIN told PROVE r.from \in Seeds /\ r.from \in DOMAIN merged
      BY <1>2, <2>2, <3>1
    <3>2. ASSUME r.from \in DOMAIN merged PROVE ~merged[r.from].down
      <4>1. CASE r.from \in adopted
        BY <1>2, <4>1 DEF MergedFrom
      <4>2. CASE r.from \notin adopted
        BY <3>2, <4>2 DEF MergedFrom
      <4> QED BY <4>1, <4>2
    <3> QED BY <2>2, <3>1, <3>2
  <2>5. n \in DOMAIN told => ~told[n].down
    BY <2>2
  <2> QED BY <1>1, <2>1, <2>3, <2>4, <2>5 DEF ReplySound
<1> QED BY <1>3, <1>4

LEMMA CompareAndUpdateIInv ==
    ASSUME IInv, [Next]_vars, NEW r \in requests, CompareAndUpdate(r)
    PROVE  IInv'
<1>1. BasicsOK /\ RequestSound(r)
  BY DEF IInv
<1>2. PICK n \in Nodes : n = r.to
  BY <1>1 DEF RequestSound
<1>3. /\ DOMAIN commNodeMap = Nodes /\ DOMAIN virtualNodeMap = Nodes /\ failures \in Nat
      /\ Sound(r.map) /\ NodeSound(n)
  BY <1>1, ScenarioTypes DEF BasicsOK, RequestSound, IInv
<1>4. PICK map : map = commNodeMap[n] /\ IsMap(map) /\ Sound(map) /\ Counted(map)
  BY <1>3 DEF NodeSound, Sound
<1>5. PICK adopted : adopted = Adopted(Heard(map, r.from), r.map, {n})
  OBVIOUS
<1>6. PICK merged : merged = Merge(Heard(map, r.from), r.map, adopted)
  OBVIOUS
<1>7. PICK entered : entered = NewlyKnown(Heard(map, r.from), adopted)
  OBVIOUS
<1>8. PICK update : update = UpdateForSender(merged, r.map)
  OBVIOUS
<1>9. /\ commNodeMap' = [commNodeMap EXCEPT ![n] = merged]
      /\ \E ring \in Entered(virtualNodeMap[n], merged, entered) :
             virtualNodeMap' = [virtualNodeMap EXCEPT ![n] = ring]
      /\ requests' = requests \ {r}
      /\ replies' = IF r.open
                    THEN replies \cup {[from |-> n, to |-> r.from, update |-> update,
                                        map |-> IF update THEN MapForSender(merged, r.map)
                                                          ELSE <<>>]}
                    ELSE replies
      /\ UNCHANGED <<scenario, life, phase, failures>>
  BY <1>2, <1>4, <1>5, <1>6, <1>7, <1>8 DEF CompareAndUpdate
<1>10. /\ adopted \subseteq DOMAIN r.map /\ DOMAIN r.map \ DOMAIN map \subseteq adopted
       /\ {n} \cap DOMAIN map \cap adopted = {}
  BY <1>4, <1>5, AdoptedKeys
<1>11. n \in DOMAIN map /\ n \notin adopted
  BY <1>3, <1>4, <1>10 DEF NodeSound, SelfSound
<1>12. entered = adopted \ DOMAIN map
  <2>1. PICK heard : heard = Heard(map, r.from)
    OBVIOUS
  <2>2. DOMAIN heard = DOMAIN map
    BY <1>4, <2>1, HeardEffect
  <2> QED BY <1>7, <2>1, <2>2 DEF NewlyKnown
<1>13. Sound(merged) /\ MergedFrom(merged, map, r.from, r.map, adopted)
  BY <1>3, <1>4, <1>6, <1>10, MergedSound
<1>14. NodeSound(n)'
  <2>1. /\ commNodeMap'[n] = merged
        /\ virtualNodeMap'[n] \in Entered(virtualNodeMap[n], merged, entered)
    BY <1>3, <1>9
  <2>2. merged = Merge(Heard(commNodeMap[n], r.from), r.map, adopted)
    BY <1>4, <1>6
  <2>3. entered \subseteq adopted /\ adopted \ DOMAIN commNodeMap[n] \subseteq entered
    BY <1>4, <1>12
  <2> QED BY <1>3, <1>9, <1>10, <1>11, <2>1, <2>2, <2>3, MergedNode
<1>15. \A i \in Nodes \ {n} : /\ life'[i] = life[i] /\ phase'[i] = phase[i]
                              /\ commNodeMap'[i] = commNodeMap[i]
                              /\ virtualNodeMap'[i] = virtualNodeMap[i]
  BY <1>3, <1>9
<1>16. ASSUME NEW answer \in replies' \ replies
       PROVE  ReplySound(answer)'
  <2>1. answer = [from |-> n, to |-> r.from, update |-> update,
                  map |-> IF update THEN MapForSender(merged, r.map) ELSE <<>>]
    BY <1>9, <1>16
  <2>2. n \in DOMAIN merged => ~merged[n].down
    <3>1. ~map[n].down
      BY <1>3, <1>4 DEF NodeSound, SelfSound
    <3> QED BY <1>11, <1>13, <3>1 DEF MergedFrom
  <2>3. update \in BOOLEAN
    BY <1>8 DEF UpdateForSender
  <2>4. ReplySound(answer)
    BY <1>1, <1>2, <1>13, <2>1, <2>2, <2>3, AnswerSound
  <2> QED BY <1>1, <2>4, SoundMessagesStay
<1> QED BY <1>9, <1>14, <1>15, <1>16, OneNodeAtATime

LEMMA RecvGossipMsgIInv ==
    ASSUME IInv, [Next]_vars, NEW r \in replies, RecvGossipMsg(r)
    PROVE  IInv'
<1>1. BasicsOK /\ ReplySound(r)
  BY DEF IInv
<1>2. PICK n \in Nodes : n = r.to
  BY <1>1 DEF ReplySound
<1>3. /\ DOMAIN commNodeMap = Nodes /\ DOMAIN virtualNodeMap = Nodes /\ failures \in Nat
      /\ Sound(r.map) /\ NodeSound(n)
  BY <1>1, ScenarioTypes DEF BasicsOK, ReplySound, IInv
<1>4. PICK map : map = commNodeMap[n] /\ IsMap(map)
  BY <1>3 DEF NodeSound, Sound
<1>5. PICK adopted : adopted = IF r.update THEN Adopted(Heard(map, r.from), r.map, {}) ELSE {}
  OBVIOUS
<1>6. PICK merged : merged = Merge(Heard(map, r.from), r.map, adopted)
  OBVIOUS
<1>7. /\ commNodeMap' = [commNodeMap EXCEPT ![n] = merged]
      /\ \E ring \in Entered(virtualNodeMap[n], merged, adopted) :
             virtualNodeMap' = [virtualNodeMap EXCEPT ![n] = ring]
      /\ requests' = requests /\ replies' = replies \ {r}
      /\ UNCHANGED <<scenario, life, phase, failures>>
  BY <1>2, <1>4, <1>5, <1>6 DEF RecvGossipMsg
<1>8. adopted \subseteq DOMAIN r.map
  BY <1>4, <1>5, AdoptedKeys
<1>9. n \in adopted => n \in Seeds /\ ~r.map[n].down
  BY <1>1, <1>2, <1>8 DEF ReplySound
<1>10. NodeSound(n)'
  <2>1. /\ commNodeMap'[n] = merged
        /\ virtualNodeMap'[n] \in Entered(virtualNodeMap[n], merged, adopted)
    BY <1>3, <1>7
  <2>2. merged = Merge(Heard(commNodeMap[n], r.from), r.map, adopted)
    BY <1>4, <1>6
  <2> QED BY <1>3, <1>7, <1>8, <1>9, <2>1, <2>2, MergedNode
<1>11. \A i \in Nodes \ {n} : /\ life'[i] = life[i] /\ phase'[i] = phase[i]
                              /\ commNodeMap'[i] = commNodeMap[i]
                              /\ virtualNodeMap'[i] = virtualNodeMap[i]
  BY <1>3, <1>7
<1> QED BY <1>7, <1>10, <1>11, OneNodeAtATime

-----------------------------------------------------------------------------
(* Counting a failure: a target goes down with the third only.             *)
LEMMA CountFailureSound ==
    ASSUME failures \in Nat, failures' = failures + 1, life' = life,
           NEW map, Sound(map), Counted(map), NEW target,
           NEW new, new = CountFailure(map, target)
    PROVE  /\ DOMAIN new = DOMAIN map /\ Sound(new)' /\ Counted(new)'
           /\ \A k \in DOMAIN map : new[k].tokens = map[k].tokens /\ (k # target => new[k] = map[k])
<1>1. /\ DOMAIN map \subseteq Nodes
      /\ \A k \in DOMAIN map : map[k] \in Entries /\ map[k].tokens <= life[k]
  BY DEF Sound, IsMap
<1>2. CASE ~(target \in DOMAIN map /\ ~map[target].down)
  <2>1. new = map
    BY <1>2 DEF CountFailure
  <2>2. \A k \in DOMAIN map : map[k].fails \in Nat /\ map[k].fails <= failures
    BY <1>1 DEF Counted, Entries
  <2> QED BY <1>1, <2>1, <2>2 DEF Sound, IsMap, Counted
<1>3. CASE target \in DOMAIN map /\ ~map[target].down
  <2>1. PICK entry \in Entries : entry = map[target]
    BY <1>1, <1>3
  <2>2. PICK after : after = IF entry.fails + 1 >= 3 THEN [entry EXCEPT !.down = TRUE, !.fails = 0]
                                                    ELSE [entry EXCEPT !.fails = @ + 1]
    OBVIOUS
  <2>3. new = [map EXCEPT ![target] = after]
    <3>1. CASE map[target].fails + 1 >= 3
      BY <1>3, <2>1, <2>2, <3>1 DEF CountFailure
    <3>2. CASE ~(map[target].fails + 1 >= 3)
      BY <1>3, <2>1, <2>2, <3>2 DEF CountFailure
    <3> QED BY <3>1, <3>2
  <2>4. entry.fails \in 0..2 /\ entry.fails <= failures /\ entry.tokens <= life[target]
    BY <1>1, <1>3, <2>1 DEF Counted, Entries
  <2>5. /\ after \in Entries /\ after.tokens = entry.tokens
        /\ after.fails <= failures + 1 /\ (after.down => failures + 1 >= 3)
    <3>1. CASE entry.fails + 1 >= 3
      <4>1. after = [[entry EXCEPT !.down = TRUE] EXCEPT !.fails = 0]
        BY <2>2, <3>1
      <4>2. /\ [entry EXCEPT !.down = TRUE] \in Entries
            /\ [entry EXCEPT !.down = TRUE].tokens = entry.tokens
        BY DEF Entries
      <4>3. \A x \in Entries : [x EXCEPT !.fails = 0] \in Entries /\ [x EXCEPT !.fails = 0].fails = 0
                               /\ [x EXCEPT !.fails = 0].tokens = x.tokens
        BY DEF Entries
      <4>4. entry.fails = 2
        BY <2>4, <3>1
      <4>5. after \in Entries /\ after.tokens = entry.tokens /\ after.fails = 0
        BY <4>1, <4>2, <4>3
      <4>6. 0 <= failures + 1 /\ failures + 1 >= 3
        BY <2>4, <4>4
      <4> QED BY <4>5, <4>6
    <3>2. CASE ~(entry.fails + 1 >= 3)
      <4>1. after = [entry EXCEPT !.fails = entry.fails + 1] /\ entry.fails + 1 \in 0..2
        BY <2>2, <2>4, <3>2
      <4>2. /\ after \in Entries /\ after.tokens = entry.tokens /\ after.down = entry.down
            /\ after.fails = entry.fails + 1
        BY <4>1 DEF Entries
      <4>3. ~entry.down
        BY <1>3, <2>1
      <4>4. after.fails <= failures + 1
        BY <2>4, <4>2
      <4> QED BY <4>2, <4>3, <4>4
    <3> QED BY <3>1, <3>2
  <2>6. /\ DOMAIN new = DOMAIN map /\ new[target] = after
        /\ \A k \in DOMAIN map \ {target} : new[k] = map[k]
    BY <1>3, <2>3
  <2>7. ASSUME NEW k \in DOMAIN map
        PROVE  /\ new[k] \in Entries /\ new[k].tokens <= life[k] /\ new[k].fails <= failures + 1
               /\ new[k].down => failures + 1 >= 3
               /\ new[k].tokens = map[k].tokens
    <3>1. CASE k = target
      BY <2>1, <2>4, <2>5, <2>6, <3>1
    <3>2. CASE k # target
      <4>1. new[k] = map[k] /\ map[k] \in Entries /\ map[k].fails <= failures
            /\ (map[k].down => failures >= 3) /\ map[k].tokens <= life[k]
        BY <1>1, <2>6, <3>2 DEF Sound, Counted
      <4>2. map[k].fails \in Nat
        BY <4>1 DEF Entries
      <4> QED BY <4>1, <4>2
    <3> QED BY <3>1, <3>2
  <2>8. \A k \in DOMAIN map : k \notin Seeds => map[k].tokens # NoTokens
    BY DEF Sound
  <2>9. Sound(new)'
    BY <1>1, <2>6, <2>7, <2>8 DEF Sound, IsMap
  <2>10. Counted(new)'
    BY <2>6, <2>7 DEF Counted
  <2> QED BY <2>6, <2>7, <2>9, <2>10
<1> QED BY <1>2, <1>3

LEMMA ExchangeFailedNode ==
    ASSUME IInv, NEW n \in Nodes, NEW target, target # n, ExchangeFailed(n, target)
    PROVE  NodeSound(n)'
<1>1. BasicsOK /\ NodeSound(n) /\ failures \in Nat
  BY ScenarioTypes DEF IInv
<1>2. PICK map : map = commNodeMap[n]
  OBVIOUS
<1>3. PICK new : new = CountFailure(map, target)
  OBVIOUS
<1>4. /\ commNodeMap'[n] = new /\ failures' = failures + 1
      /\ UNCHANGED <<scenario, life, phase, virtualNodeMap>>
  BY <1>1, <1>2, <1>3 DEF ExchangeFailed, BasicsOK
<1>5. Sound(map) /\ Counted(map) /\ SelfSound(n) /\ RingSound(n)
  BY <1>1, <1>2 DEF NodeSound
<1>6. /\ DOMAIN new = DOMAIN map /\ Sound(new)' /\ Counted(new)'
      /\ \A k \in DOMAIN map : new[k].tokens = map[k].tokens /\ (k # target => new[k] = map[k])
  BY <1>1, <1>3, <1>4, <1>5, CountFailureSound
<1>7. SelfSound(n)'
  BY <1>2, <1>4, <1>5, <1>6 DEF SelfSound
<1>8. RingSound(n)'
  BY <1>2, <1>4, <1>5, <1>6 DEF RingSound, HasDrawn, HasDrawnSome
<1>9. phase'[n] = "seeding" => n \notin Seeds
  BY <1>1, <1>4 DEF NodeSound
<1>10. Sound(commNodeMap[n])' /\ Counted(commNodeMap[n])'
  BY <1>4, <1>6 DEF Sound, Counted, IsMap
<1> QED BY <1>7, <1>8, <1>9, <1>10 DEF NodeSound

LEMMA FailuresIInv ==
    ASSUME IInv, [Next]_vars, NEW r,
           \/ r \in requests /\ RequestFailed(r)
           \/ r \in replies /\ ReplyLost(r)
    PROVE  IInv'
<1>1. BasicsOK /\ DOMAIN commNodeMap = Nodes
  BY DEF IInv, BasicsOK
<1>2. CASE r \in requests /\ RequestFailed(r)
  <2>1. RequestSound(r)
    BY <1>2 DEF IInv
  <2>2. PICK n \in Nodes, target \in Nodes : n = r.from /\ target = r.to /\ target # n
    BY <2>1 DEF RequestSound
  <2>3. ExchangeFailed(n, target) /\ replies' = replies
    BY <1>2, <2>2 DEF RequestFailed
  <2>4. NodeSound(n)'
    BY <2>2, <2>3, ExchangeFailedNode
  <2>5. \A i \in Nodes \ {n} : /\ life'[i] = life[i] /\ phase'[i] = phase[i]
                               /\ commNodeMap'[i] = commNodeMap[i]
                               /\ virtualNodeMap'[i] = virtualNodeMap[i]
    BY <1>1, <2>3 DEF ExchangeFailed
  <2>6. ASSUME NEW q \in requests' \ requests PROVE RequestSound(q)'
    <3>1. q = [r EXCEPT !.open = FALSE]
      BY <1>2, <2>6 DEF RequestFailed
    <3>2. PICK map : map = r.map /\ r \in [from : Nodes, to : Nodes, map : {map}, open : BOOLEAN]
      BY <2>1 DEF RequestSound
    <3>3. /\ q.from = r.from /\ q.to = r.to /\ q.map = r.map
          /\ q \in [from : Nodes, to : Nodes, map : {map}, open : BOOLEAN]
      BY <3>1, <3>2
    <3>4. RequestSound(q)
      BY <2>1, <3>2, <3>3 DEF RequestSound
    <3> QED BY <1>1, <3>4, SoundMessagesStay
  <2> QED BY <2>2, <2>3, <2>4, <2>5, <2>6, OneNodeAtATime
<1>3. CASE r \in replies /\ ReplyLost(r)
  <2>1. ReplySound(r)
    BY <1>3 DEF IInv
  <2>2. PICK n \in Nodes, target \in Nodes : n = r.to /\ target = r.from /\ target # n
    BY <2>1 DEF ReplySound
  <2>3. /\ replies' = replies \ {r} /\ requests' = requests
        /\ \/ ExchangeFailed(n, target)
           \/ UNCHANGED <<life, phase, commNodeMap, virtualNodeMap>>
    BY <1>3, <2>2 DEF ReplyLost
  <2>4. NodeSound(n)'
    BY <2>2, <2>3, ExchangeFailedNode, SoundNodesStay
  <2>5. \A i \in Nodes \ {n} : /\ life'[i] = life[i] /\ phase'[i] = phase[i]
                               /\ commNodeMap'[i] = commNodeMap[i]
                               /\ virtualNodeMap'[i] = virtualNodeMap[i]
    BY <1>1, <2>3 DEF ExchangeFailed
  <2> QED BY <2>2, <2>3, <2>4, <2>5, OneNodeAtATime
<1> QED BY <1>2, <1>3

(* A seed that writes its entry anew.                                      *)
LEMMA PopulateIInv == ASSUME IInv, [Next]_vars, NEW n \in Nodes, Populate(n) PROVE IInv'
<1>1. BasicsOK /\ NodeSound(n) /\ DOMAIN commNodeMap = Nodes /\ phase \in [Nodes -> Phases]
      /\ failures \in Nat /\ life \in [Nodes -> Nat \ {0}]
  BY ScenarioTypes DEF IInv, BasicsOK
<1>2. PICK map : map = commNodeMap[n] /\ Sound(map) /\ Counted(map)
  BY <1>1 DEF NodeSound
<1>3. PICK fresh : fresh = [tokens |-> NoTokens, down |-> FALSE, fails |-> 0]
  OBVIOUS
<1>4. fresh \in Entries /\ fresh.tokens = 0 /\ ~fresh.down /\ fresh.fails = 0
  BY <1>3 DEF Entries, NoTokens
<1>5. PICK new : new = [k \in DOMAIN map \cup Seeds |-> IF k \in Seeds THEN fresh ELSE map[k]]
  OBVIOUS
<1>6. /\ commNodeMap' = [commNodeMap EXCEPT ![n] = new]
      /\ phase' = [phase EXCEPT ![n] = IF n \in Seeds THEN "party" ELSE "seeding"]
      /\ UNCHANGED <<scenario, life, virtualNodeMap, requests, replies, failures>>
  BY <1>2, <1>3, <1>5 DEF Populate
<1>7. /\ DOMAIN new = DOMAIN map \cup Seeds
      /\ \A k \in Seeds : new[k] = fresh
      /\ \A k \in DOMAIN map \ Seeds : new[k] = map[k]
  BY <1>5
<1>8. Sound(new)' /\ Counted(new)'
  <2>1. DOMAIN new \subseteq Nodes
    BY <1>2, <1>7, SeedsAssumption DEF Sound, IsMap
  <2>2. ASSUME NEW k \in DOMAIN new
        PROVE  /\ new[k] \in Entries /\ new[k].tokens <= life[k] /\ new[k].fails <= failures
               /\ new[k].down => failures >= 3
               /\ k \notin Seeds => new[k].tokens # NoTokens
    <3>1. CASE k \in Seeds
      BY <1>1, <1>4, <1>7, <2>1, <3>1
    <3>2. CASE k \notin Seeds
      BY <1>2, <1>7, <3>2 DEF Sound, IsMap, Counted
    <3> QED BY <3>1, <3>2
  <2> QED BY <1>6, <2>1, <2>2 DEF Sound, IsMap, Counted
<1>9. commNodeMap'[n] = new
  BY <1>1, <1>6
<1>10. SelfSound(n)'
  <2>1. n \in DOMAIN map /\ ~map[n].down /\ (n \notin Seeds => map[n].tokens = life[n])
    BY <1>1, <1>2 DEF NodeSound, SelfSound
  <2>2. n \in DOMAIN new /\ ~new[n].down /\ (n \notin Seeds => new[n].tokens = life[n])
    BY <1>4, <1>7, <2>1
  <2> QED BY <1>6, <1>9, <2>2 DEF SelfSound
<1>11. RingSound(n)'
  BY <1>1, <1>2, <1>6, <1>7, <1>9 DEF NodeSound, RingSound, HasDrawn, HasDrawnSome
<1>12. phase'[n] = "seeding" => n \notin Seeds
  BY <1>1, <1>6
<1>13. NodeSound(n)'
  BY <1>8, <1>9, <1>10, <1>11, <1>12 DEF NodeSound, Sound, Counted, IsMap
<1>14. \A i \in Nodes \ {n} : /\ life'[i] = life[i] /\ phase'[i] = phase[i]
                              /\ commNodeMap'[i] = commNodeMap[i]
                              /\ virtualNodeMap'[i] = virtualNodeMap[i]
  BY <1>1, <1>6
<1> QED BY <1>6, <1>13, <1>14, OneNodeAtATime

(* A node that starts has its own entry only.                              *)
LEMMA OwnMapEffect ==
    ASSUME NEW n, NEW tokens \in Nat, NEW map, map = OwnMap(n, tokens)
    PROVE  DOMAIN map = {n} /\ map[n] \in Entries /\ map[n].tokens = tokens
           /\ ~map[n].down /\ map[n].fails = 0
  BY DEF OwnMap, Entries

LEMMA OwnRingEffect ==
    ASSUME NEW n, NEW tokens, NEW ring, ring = OwnRing(n, tokens)
    PROVE  DOMAIN ring = scenario.tokens[n][tokens] /\ \A range \in DOMAIN ring : ring[range] = n
  BY DEF OwnRing

(* A process that is started again, with other tokens and an empty ring.   *)
LEMMA RestartIInv == ASSUME IInv, [Next]_vars, NEW n \in Nodes, Restart(n) PROVE IInv'
<1>1. /\ DOMAIN commNodeMap = Nodes /\ DOMAIN virtualNodeMap = Nodes /\ phase \in [Nodes -> Phases]
      /\ failures \in Nat /\ life \in [Nodes -> Nat \ {0}]
  BY ScenarioTypes DEF IInv, BasicsOK
<1>2. PICK tokens \in Nat \ {0} : tokens = life'[n]
  BY <1>1 DEF Restart
<1>3. PICK new : new = OwnMap(n, tokens)
  OBVIOUS
<1>4. DOMAIN new = {n} /\ new[n] \in Entries /\ new[n].tokens = tokens /\ ~new[n].down /\ new[n].fails = 0
  BY <1>3, OwnMapEffect
<1>5. /\ commNodeMap' = [commNodeMap EXCEPT ![n] = new]
      /\ virtualNodeMap' = [virtualNodeMap EXCEPT ![n] = OwnRing(n, tokens)]
      /\ phase' = [phase EXCEPT ![n] = "starting"] /\ life' = [life EXCEPT ![n] = @ + 1]
      /\ UNCHANGED <<scenario, requests, replies, failures>>
  BY <1>2, <1>3 DEF Restart
<1>6. commNodeMap'[n] = new /\ virtualNodeMap'[n] = OwnRing(n, tokens) /\ phase'[n] = "starting"
  BY <1>1, <1>5
<1>7. Sound(new)' /\ Counted(new)'
  BY <1>1, <1>2, <1>4, <1>5 DEF Sound, IsMap, Counted, NoTokens
<1>8. SelfSound(n)'
  BY <1>2, <1>4, <1>6 DEF SelfSound
<1>9. RingSound(n)'
  <2>1. PICK ring : ring = OwnRing(n, tokens)
    OBVIOUS
  <2>2. DOMAIN ring = scenario.tokens[n][tokens] /\ \A range \in DOMAIN ring : ring[range] = n
    BY <2>1, OwnRingEffect
  <2>3. /\ virtualNodeMap'[n] = ring /\ DOMAIN commNodeMap'[n] = {n} /\ scenario' = scenario
    BY <1>4, <1>5, <1>6, <2>1
  <2>7. tokens \in 1..life'[n]
    <3>1. life'[n] = tokens /\ tokens \in Nat \ {0}
      BY <1>2
    <3> QED BY <3>1
  <2>4. \A range \in DOMAIN ring : HasDrawn(n, range)'
    BY <2>2, <2>3, <2>7 DEF HasDrawn
  <2>5. HasDrawnSome(n, DOMAIN ring)'
    BY <2>2, <2>3, <2>7 DEF HasDrawnSome
  <2>6. \A range \in DOMAIN ring : ring[range] = n
    BY <2>2
  <2> QED BY <2>3, <2>4, <2>5, <2>6 DEF RingSound, HasDrawn, HasDrawnSome
<1>10. NodeSound(n)'
  BY <1>6, <1>7, <1>8, <1>9 DEF NodeSound, Sound, Counted, IsMap
<1>11. \A i \in Nodes \ {n} : /\ life'[i] = life[i] /\ phase'[i] = phase[i]
                              /\ commNodeMap'[i] = commNodeMap[i]
                              /\ virtualNodeMap'[i] = virtualNodeMap[i]
  BY <1>1, <1>5
<1> QED BY <1>5, <1>10, <1>11, OneNodeAtATime

(* A map that leaves its node.                                             *)
LEMMA SendGossipIInv ==
    ASSUME IInv, [Next]_vars, NEW n \in Nodes, NEW target \in Nodes, SendGossip(n, target)
    PROVE  IInv'
<1>1. BasicsOK /\ NodeSound(n) /\ phase \in [Nodes -> Phases]
  BY DEF IInv, BasicsOK
<1>2. /\ UNCHANGED <<life, phase, commNodeMap, virtualNodeMap, replies, failures>>
      /\ requests' = requests \cup
             {[from |-> n, to |-> target, map |-> commNodeMap[n], open |-> TRUE]}
  BY DEF SendGossip
<1>3. target # n
  <2>1. target \in GossipTargets(n) /\ phase[n] \in {"starting", "seeding", "party"}
    BY <1>1 DEF SendGossip, Phases
  <2>2. CASE phase[n] = "starting"
    BY <2>1, <2>2 DEF GossipTargets
  <2>3. CASE phase[n] = "seeding"
    <3>1. target \in Seeds /\ n \notin Seeds
      BY <1>1, <2>1, <2>3 DEF GossipTargets, NodeSound
    <3> QED BY <3>1
  <2>4. CASE phase[n] = "party"
    BY <2>1, <2>4 DEF GossipTargets
  <2> QED BY <2>1, <2>2, <2>3, <2>4
<1>4. ASSUME NEW r \in requests' \ requests PROVE RequestSound(r)'
  <2>1. r = [from |-> n, to |-> target, map |-> commNodeMap[n], open |-> TRUE]
    BY <1>2, <1>4
  <2>2. RequestSound(r)
    BY <1>1, <1>3, <2>1 DEF RequestSound, NodeSound, SelfSound
  <2> QED BY <1>1, <2>2, SoundMessagesStay
<1>5. NodeSound(n)'
  BY <1>2, SoundNodesStay
<1> QED BY <1>2, <1>4, <1>5, OneNodeAtATime

LEMMA PhaseAndCrashIInv ==
    ASSUME IInv, [Next]_vars, NEW n \in Nodes, PartyTime(n) \/ Crash(n)
    PROVE  IInv'
<1>1. phase \in [Nodes -> Phases]
  BY DEF IInv, BasicsOK
<1>2. /\ UNCHANGED <<life, commNodeMap, virtualNodeMap>>
      /\ requests' \subseteq requests /\ replies' \subseteq replies
      /\ \A i \in Nodes \ {n} : phase'[i] = phase[i]
      /\ phase'[n] = "seeding" => phase[n] = "seeding"
  BY <1>1 DEF PartyTime, Crash
<1>3. NodeSound(n)'
  BY <1>2, SoundNodesStay
<1> QED BY <1>2, <1>3, OneNodeAtATime

-----------------------------------------------------------------------------
LEMMA InitIInv == Init => IInv
<1> SUFFICES ASSUME Init PROVE IInv
  OBVIOUS
<1>1. /\ DOMAIN commNodeMap = Nodes /\ DOMAIN virtualNodeMap = Nodes
      /\ failures = 0 /\ crashes = 0 /\ requests = {} /\ replies = {}
      /\ \A n \in Nodes : /\ phase[n] = "starting" /\ life[n] = 1
                          /\ virtualNodeMap[n] = OwnRing(n, 1)
  BY DEF Init
<1>2. /\ scenario \in Scenarios /\ scenario.failures \in Nat /\ scenario.crashes \in Nat
      /\ scenario.nodes \subseteq Nodes
  BY ScenariosAssumption DEF Init
<1>3. BasicsOK
  <2>1. \A n \in scenario.nodes : n \in Nodes /\ up[n] = TRUE /\ life[n] = 1
    BY <1>1, <1>2 DEF Init
  <2>3. LivesSound
    BY <1>1, <2>1 DEF LivesSound
  <2>2. 0 \in 0..scenario.failures /\ 0 \in 0..scenario.crashes /\ 1 \in 1..1 + 0
    BY <1>2
  <2> QED BY <1>1, <1>2, <2>2, <2>3 DEF Init, BasicsOK, Phases
<1>4. ASSUME NEW n \in Nodes PROVE NodeSound(n)
  <2>0. PICK one \in Nat \ {0} : one = life[n] /\ one = 1
    BY <1>1
  <2>1. PICK map : map = commNodeMap[n] /\ map = OwnMap(n, one)
    BY <2>0 DEF Init
  <2>2. DOMAIN map = {n} /\ map[n] \in Entries /\ map[n].tokens = one /\ ~map[n].down /\ map[n].fails = 0
    BY <2>1, OwnMapEffect
  <2>3. Sound(map) /\ Counted(map)
    BY <1>1, <2>0, <2>2 DEF Sound, IsMap, Counted, NoTokens
  <2>4. SelfSound(n)
    BY <2>0, <2>1, <2>2 DEF SelfSound
  <2>5. RingSound(n)
    <3>1. PICK ring : ring = OwnRing(n, one)
      OBVIOUS
    <3>2. DOMAIN ring = scenario.tokens[n][one] /\ \A range \in DOMAIN ring : ring[range] = n
      BY <3>1, OwnRingEffect
    <3>3. virtualNodeMap[n] = ring /\ DOMAIN commNodeMap[n] = {n} /\ one \in 1..life[n]
      BY <1>1, <2>0, <2>1, <2>2, <3>1
    <3>4. (\A range \in DOMAIN ring : HasDrawn(n, range)) /\ HasDrawnSome(n, DOMAIN ring)
      BY <3>2, <3>3 DEF HasDrawn, HasDrawnSome
    <3> QED BY <3>2, <3>3, <3>4 DEF RingSound
  <2> QED BY <1>1, <2>1, <2>3, <2>4, <2>5 DEF NodeSound
<1> QED BY <1>1, <1>3, <1>4 DEF IInv

LEMMA NextIInv == ASSUME IInv, [Next]_vars PROVE IInv'
<1>1. ASSUME NEW n \in Nodes, Populate(n) \/ PartyTime(n) \/ Crash(n) \/ Restart(n) PROVE IInv'
  BY <1>1, PopulateIInv, PhaseAndCrashIInv, RestartIInv
<1>2. ASSUME NEW n \in Nodes, NEW target \in Nodes, SendGossip(n, target) PROVE IInv'
  BY <1>2, SendGossipIInv
<1>3. ASSUME NEW r \in requests, CompareAndUpdate(r) \/ RequestFailed(r) PROVE IInv'
  BY <1>3, CompareAndUpdateIInv, FailuresIInv
<1>4. ASSUME NEW r \in replies, RecvGossipMsg(r) \/ ReplyLost(r) PROVE IInv'
  BY <1>4, RecvGossipMsgIInv, FailuresIInv
<1>5. CASE UNCHANGED vars
  <2>1. /\ UNCHANGED <<life, phase, commNodeMap, virtualNodeMap>>
        /\ requests' = requests /\ replies' = replies
    BY <1>5 DEF vars
  <2>2. \A n \in Nodes : NodeSound(n)'
    BY <2>1, SoundNodesStay
  <2>3. BasicsOK /\ BasicsOK'
    BY NextBasicsOK DEF IInv
  <2>4. (\A r \in requests : RequestSound(r)) /\ (\A r \in replies : ReplySound(r))
    BY DEF IInv
  <2> QED BY <2>1, <2>2, <2>3, <2>4, SoundMessagesStay DEF IInv
<1> QED BY <1>1, <1>2, <1>3, <1>4, <1>5 DEF Next

LEMMA Invariance == Spec => []IInv
  BY InitIInv, NextIInv, PTL DEF Spec

(* What a node draws in its lives are ranges.                              *)
LEMMA DrawsAreRanges ==
    ASSUME BasicsOK, NEW k \in Nodes, NEW range, HasDrawn(k, range)
    PROVE  range \in Ranges
<1>1. PICK tokens \in 1..life[k] : range \in scenario.tokens[k][tokens]
  BY DEF HasDrawn
<1>2. /\ scenario.tokens[k] \in Seq(TokenSets) /\ Len(scenario.tokens[k]) > scenario.crashes
      /\ scenario.crashes \in Nat
  BY ScenariosAssumption DEF BasicsOK
<1>3. life[k] \in 1..1 + crashes /\ crashes \in 0..scenario.crashes
  BY DEF BasicsOK
<1>4. Len(scenario.tokens[k]) \in Nat
  BY <1>2
<1>5. tokens \in 1..Len(scenario.tokens[k])
  BY <1>2, <1>3, <1>4
<1>6. scenario.tokens[k][tokens] \in TokenSets
  BY <1>2, <1>5
<1> QED BY <1>1, <1>6 DEF TokenSets

(* The maps, the ring and the messages have their types whatever happens.  *)
THEOREM TypeCorrect == Spec => []TypeOK
<1>1. ASSUME IInv PROVE TypeOK
  <2>1. BasicsOK
    BY <1>1 DEF IInv
  <2>2. ASSUME NEW n \in Nodes
        PROVE  /\ IsMap(commNodeMap[n])
               /\ DOMAIN virtualNodeMap[n] \subseteq Ranges
               /\ \A range \in DOMAIN virtualNodeMap[n] : virtualNodeMap[n][range] \in Nodes
    <3>1. NodeSound(n)
      BY <1>1 DEF IInv
    <3>2. IsMap(commNodeMap[n]) /\ DOMAIN commNodeMap[n] \subseteq Nodes
      BY <3>1 DEF NodeSound, Sound, IsMap
    <3>3. \A range \in DOMAIN virtualNodeMap[n] :
              virtualNodeMap[n][range] \in Nodes /\ HasDrawn(virtualNodeMap[n][range], range)
      BY <3>1, <3>2 DEF NodeSound, RingSound
    <3>4. ASSUME NEW k \in Nodes, NEW range, HasDrawn(k, range) PROVE range \in Ranges
      BY <2>1, <3>4, DrawsAreRanges
    <3> QED BY <3>2, <3>3, <3>4
  <2>3. \A r \in requests : /\ r \in [from : Nodes, to : Nodes, map : {r.map}, open : BOOLEAN]
                            /\ IsMap(r.map)
    BY <1>1 DEF IInv, RequestSound, Sound
  <2>4. \A r \in replies : /\ r \in [from : Nodes, to : Nodes, update : BOOLEAN, map : {r.map}]
                           /\ IsMap(r.map)
    BY <1>1 DEF IInv, ReplySound, Sound
  <2> QED BY <2>1, <2>2, <2>3, <2>4 DEF TypeOK, BasicsOK
<1> QED BY <1>1, Invariance, PTL

(* No node takes itself for down or loses its own tokens, although         *)
(* recvGossipMsg does not exclude the node's own entry.                    *)
THEOREM OwnEntryIsSafe == Spec => []SelfEntrySound
<1>1. ASSUME IInv PROVE SelfEntrySound
  BY <1>1 DEF IInv, NodeSound, SelfSound, SelfEntrySound
<1> QED BY <1>1, Invariance, PTL

(* Wherever a rumour that a node is down has got to, three exchanges have  *)
(* failed.                                                                 *)
THEOREM NobodyIsSlandered == Spec => []DownNeedsThreeFailures
<1>1. ASSUME IInv PROVE DownNeedsThreeFailures
  BY <1>1 DEF IInv, NodeSound, Sound, DownNeedsThreeFailures
<1> QED BY <1>1, Invariance, PTL

(* Every range of a ring belongs to a node in the map that has drawn it,   *)
(* and the ring leaves no range of such a node out, seeds excepted, though *)
(* it may give it to another that drew it too.                             *)
THEOREM RingFollowsMap == Spec => []RingMatchesMap
<1>1. ASSUME IInv PROVE RingMatchesMap
  <2>1. \A n \in Nodes : RingSound(n)
    BY <1>1 DEF IInv, NodeSound
  <2> QED BY <2>1 DEF RingSound, HasDrawn, HasDrawnSome, RingMatchesMap
<1> QED BY <1>1, Invariance, PTL

(* Merging a map into one's own, a node takes over tokens of another only  *)
(* if it had none or if the other is said to be down.                      *)
LEMMA TokensAfterMerge ==
    ASSUME failures \in Nat, NEW map, Sound(map), Counted(map), NEW theirs, Sound(theirs),
           NEW node, node \in DOMAIN theirs => ~theirs[node].down,
           NEW excluded, NEW adopted,
           adopted = {} \/ adopted = Adopted(Heard(map, node), theirs, excluded),
           NEW merged, merged = Merge(Heard(map, node), theirs, adopted), NEW k \in DOMAIN map
    PROVE  \/ map[k].tokens = NoTokens \/ merged[k].tokens = map[k].tokens
           \/ merged[k].down /\ ~map[k].down
<1>1. PICK heard : heard = Heard(map, node)
  OBVIOUS
<1>2. IsMap(map)
  BY DEF Sound
<1>3. /\ DOMAIN heard = DOMAIN map /\ heard[k] \in Entries /\ heard[k].tokens = map[k].tokens
      /\ k # node => heard[k] = map[k]
      /\ k = node => ~heard[k].down
  BY <1>1, <1>2, HeardEffect
<1>4. adopted \subseteq DOMAIN theirs
  BY <1>2, AdoptedKeys
<1>5. MergedFrom(merged, map, node, theirs, adopted)
  BY <1>4, MergedSound
<1>6. CASE k \notin adopted
  BY <1>5, <1>6 DEF MergedFrom
<1>7. CASE k \in adopted
  <2>1. adopted = Adopted(heard, theirs, excluded)
    BY <1>1, <1>7
  <2>2. k \in DOMAIN theirs /\ Prefers(heard, k, theirs[k])
    BY <1>3, <1>7, <2>1 DEF Adopted
  <2>3. merged[k].tokens = theirs[k].tokens /\ merged[k].down = theirs[k].down
    BY <1>5, <1>7 DEF MergedFrom
  <2>4. theirs[k].down \in BOOLEAN /\ heard[k].down \in BOOLEAN
    BY <1>3, <2>2 DEF Sound, IsMap, Entries
  <2>5. CASE heard[k].down = theirs[k].down
    <3>1. heard[k].tokens = NoTokens
      BY <2>2, <2>5 DEF Prefers
    <3> QED BY <1>3, <3>1
  <2>6. CASE heard[k].down # theirs[k].down
    <3>1. theirs[k].down = TRUE /\ heard[k].down = FALSE
      BY <2>2, <2>4, <2>6 DEF Prefers, VerifyNodeDown
    <3>2. k # node
      BY <2>2, <3>1
    <3>3. map[k].down = FALSE
      BY <1>3, <3>1, <3>2
    <3> QED BY <2>3, <3>1, <3>3
  <2> QED BY <2>5, <2>6
<1> QED BY <1>6, <1>7

(* As long as a node runs, the tokens that it knows of another change only *)
(* with a rumour that the other is down.                                   *)
THEOREM TokensStay == Spec => TokensChangeWithRumours
<1> DEFINE Stay(n, k) == \/ ~up'[n] \/ commNodeMap[n][k].tokens = NoTokens
                         \/ commNodeMap'[n][k].tokens = commNodeMap[n][k].tokens
                         \/ commNodeMap'[n][k].down /\ ~commNodeMap[n][k].down
<1>1. ASSUME IInv, [Next]_vars, NEW n \in Nodes, up[n], phase[n] # "starting",
             NEW k \in DOMAIN commNodeMap[n] \ {n}
      PROVE  Stay(n, k)
  <2>1. /\ BasicsOK /\ NodeSound(n) /\ failures \in Nat /\ DOMAIN commNodeMap = Nodes
    BY <1>1, ScenarioTypes DEF IInv, BasicsOK
  <2>2. PICK map : map = commNodeMap[n] /\ Sound(map) /\ Counted(map) /\ k \in DOMAIN map
    BY <1>1, <2>1 DEF NodeSound
  <2>3. CASE commNodeMap'[n] = commNodeMap[n]
    BY <2>3
  <2>4. ASSUME NEW i \in Nodes, Populate(i) \/ Restart(i), i = n PROVE Stay(n, k)
    BY <1>1, <2>4 DEF Populate, Restart
  <2>5. ASSUME NEW r \in requests, CompareAndUpdate(r), r.to = n PROVE Stay(n, k)
    <3>1. PICK adopted, merged :
              /\ adopted = Adopted(Heard(map, r.from), r.map, {n})
              /\ merged = Merge(Heard(map, r.from), r.map, adopted) /\ commNodeMap'[n] = merged
      BY <2>1, <2>2, <2>5 DEF CompareAndUpdate
    <3>2. Sound(r.map) /\ (r.from \in DOMAIN r.map => ~r.map[r.from].down)
      BY <1>1, <2>5 DEF IInv, RequestSound
    <3>3. \/ map[k].tokens = NoTokens \/ merged[k].tokens = map[k].tokens
          \/ merged[k].down /\ ~map[k].down
      BY <2>1, <2>2, <3>1, <3>2, TokensAfterMerge
    <3> QED BY <2>2, <3>1, <3>3
  <2>6. ASSUME NEW r \in replies, RecvGossipMsg(r), r.to = n PROVE Stay(n, k)
    <3>1. PICK adopted, merged :
              /\ adopted = {} \/ adopted = Adopted(Heard(map, r.from), r.map, {})
              /\ merged = Merge(Heard(map, r.from), r.map, adopted) /\ commNodeMap'[n] = merged
      BY <2>1, <2>2, <2>6 DEF RecvGossipMsg
    <3>2. Sound(r.map) /\ (r.from \in DOMAIN r.map => ~r.map[r.from].down)
      BY <1>1, <2>6 DEF IInv, ReplySound
    <3>3. \/ map[k].tokens = NoTokens \/ merged[k].tokens = map[k].tokens
          \/ merged[k].down /\ ~map[k].down
      BY <2>1, <2>2, <3>1, <3>2, TokensAfterMerge
    <3> QED BY <2>2, <3>1, <3>3
  <2>7. ASSUME NEW i \in Nodes, NEW target, ExchangeFailed(i, target), life' = life, i = n
        PROVE  Stay(n, k)
    <3>1. PICK new : new = CountFailure(map, target) /\ commNodeMap'[n] = new
      BY <2>1, <2>2, <2>7 DEF ExchangeFailed
    <3>2. failures' = failures + 1
      BY <2>7 DEF ExchangeFailed
    <3>3. \A j \in DOMAIN map : new[j].tokens = map[j].tokens
      BY <2>1, <2>2, <2>7, <3>1, <3>2, CountFailureSound
    <3> QED BY <2>2, <3>1, <3>3
  <2>8. \A i, target : ExchangeFailed(i, target) => life' = life /\ (i # n => commNodeMap'[n] = commNodeMap[n])
    BY <2>1 DEF ExchangeFailed
  <2>9. ASSUME NEW r \in requests, CompareAndUpdate(r) \/ RequestFailed(r) PROVE Stay(n, k)
    <3>1. r.from \in Nodes /\ r.to \in Nodes
      BY <1>1 DEF IInv, RequestSound
    <3>2. CASE CompareAndUpdate(r)
      <4>1. r.to # n => commNodeMap'[n] = commNodeMap[n]
        BY <2>1, <3>2 DEF CompareAndUpdate
      <4> QED BY <2>3, <2>5, <3>2, <4>1
    <3>3. CASE RequestFailed(r)
      <4>1. ExchangeFailed(r.from, r.to)
        BY <3>3 DEF RequestFailed
      <4> QED BY <2>3, <2>7, <2>8, <3>1, <4>1
    <3> QED BY <2>9, <3>2, <3>3
  <2>10. ASSUME NEW r \in replies, RecvGossipMsg(r) \/ ReplyLost(r) PROVE Stay(n, k)
    <3>1. r.from \in Nodes /\ r.to \in Nodes
      BY <1>1 DEF IInv, ReplySound
    <3>2. CASE RecvGossipMsg(r)
      <4>1. r.to # n => commNodeMap'[n] = commNodeMap[n]
        BY <2>1, <3>2 DEF RecvGossipMsg
      <4> QED BY <2>3, <2>6, <3>2, <4>1
    <3>3. CASE ReplyLost(r)
      <4>1. ExchangeFailed(r.to, r.from) \/ commNodeMap' = commNodeMap
        BY <3>3 DEF ReplyLost
      <4> QED BY <2>3, <2>7, <2>8, <3>1, <4>1
    <3> QED BY <2>10, <3>2, <3>3
  <2>11. ASSUME NEW i \in Nodes, Populate(i) \/ PartyTime(i) \/ Crash(i) \/ Restart(i)
         PROVE  Stay(n, k)
    <3>1. CASE i # n \/ PartyTime(i) \/ Crash(i)
      <4>1. commNodeMap'[n] = commNodeMap[n]
        BY <2>1, <2>11, <3>1 DEF Populate, PartyTime, Crash, Restart
      <4> QED BY <2>3, <4>1
    <3>2. CASE ~(i # n \/ PartyTime(i) \/ Crash(i))
      BY <2>4, <2>11, <3>2
    <3> QED BY <3>1, <3>2
  <2>12. CASE (\E i, target \in Nodes : SendGossip(i, target)) \/ UNCHANGED vars
    BY <2>3, <2>12 DEF SendGossip, vars
  <2> HIDE DEF Stay
  <2> QED BY <1>1, <2>9, <2>10, <2>11, <2>12 DEF Next
<1>2. ASSUME IInv, [Next]_vars
      PROVE  [\A n \in Nodes : up[n] /\ phase[n] # "starting" =>
                  \A k \in DOMAIN commNodeMap[n] \ {n} :
                      LET old == commNodeMap[n][k]
                          new == commNodeMap'[n][k]
                      IN  \/ ~up'[n] \/ old.tokens = NoTokens \/ new.tokens = old.tokens
                          \/ new.down /\ ~old.down]_vars
  BY <1>1, <1>2
<1> QED BY <1>2, Invariance, PTL DEF Spec, TokensChangeWithRumours
=============================================================================
