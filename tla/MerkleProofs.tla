---------------------------- MODULE MerkleProofs ----------------------------
(***************************************************************************)
(* What the trees of Merkle are worth, for any nodes, keys, values, hash   *)
(* numbers, wirings, tokens and numbers of writes and checks: once a       *)
(* writer of both tree and redis has had a key for itself, the two agree   *)
(* on it until a replication message or two overlapping writers write it.  *)
(* For that, what a PUT handler still has to put into the tree must be     *)
(* what redis has, and what a goroutine still has to store, which holds    *)
(* merkler.mu, must be what the tree has.                                  *)
(***************************************************************************)
EXTENDS Merkle, TLAPS

(* A map from some of the keys to data, as redis and the trees are.        *)
MapOK(map) ==
    /\ DOMAIN map \subseteq Keys
    /\ \A k \in DOMAIN map : map[k] \in Data

Phases == {"compare", "ask", "apply", "write"}

Goroutine(sent, keysets, result) ==
    [at : Nodes, number : Numbers, tree : {sent}, pc : Phases, keys : keysets, result : {result}]

(* A comparison asks and applies for keys of its own hash number only.     *)
ReceivedOK(r) ==
    /\ r \in Goroutine(r.tree, SUBSET NodeKeys(r.at, r.number), r.result)
    /\ DOMAIN r.result \subseteq NodeKeys(r.at, r.number)
    /\ \A k \in DOMAIN r.result : r.result[k] \in Data
    /\ r.pc \in {"compare", "ask"} => r.result = <<>>
    /\ r.pc = "apply" => r.keys = DOMAIN r.result
    /\ r.pc = "write" => r.keys \subseteq DOMAIN r.result /\ r.result # <<>>

(* merkler.mu: at most one goroutine of a node applies an answer.          *)
OneApplies ==
    \A r, s \in received : r.at = s.at /\ r.pc = "write" /\ s.pc = "write" => r = s

(* The nodes, their handlers and the goroutines that check.                *)
ProcessesOK ==
    /\ ranges \in Wirings
    /\ up \in [Nodes -> BOOLEAN]
    /\ muLeaked \in [Nodes -> BOOLEAN]
    /\ handlers \subseteq [at : Nodes, key : Keys, data : Data]
    /\ checks \subseteq [from : Nodes, to : Nodes, todo : Seq(Numbers) \ {<<>>}]

(* Redis and the trees: a tree has keys of the entries that exist.         *)
StoresOK ==
    /\ DOMAIN db = Nodes /\ DOMAIN tree = Nodes
    /\ \A n \in Nodes : MapOK(db[n]) /\ MapOK(tree[n])
    /\ \A n \in Nodes : \A k \in DOMAIN tree[n] : HashNumber[k] \in ranges[n]

(* TypeOK, taken apart.                                                    *)
Typed == ProcessesOK /\ StoresOK /\ (\A r \in received : ReceivedOK(r)) /\ OneApplies

(* Redis of n has data under key.                                          *)
Held(n, key, data) == key \in DOMAIN db[n] /\ db[n][key] = data

(* What a handler is about to put into the tree is what redis has, and it  *)
(* is the only one between two writes of the key, unless there was another *)
(* writer.                                                                 *)
HandlersInv ==
    \A h \in handlers :
        \/ <<h.at, h.key>> \in overlaps
        \/ /\ Held(h.at, h.key, h.data)
           /\ \A g \in handlers : g.at = h.at /\ g.key = h.key => g = h
           /\ \A r \in received : r.at = h.at => h.key \notin Written(r)

(* What a goroutine is about to store is what the tree has.                *)
AppliedInv ==
    \A r \in received : \A k \in Written(r) :
        k \in DOMAIN tree[r.at] /\ tree[r.at][k] = r.result[k]

(* The inductive invariant.                                                *)
Agreement == HandlersInv /\ AppliedInv /\ TreeMatchesStore
IInv == Typed /\ Agreement

-----------------------------------------------------------------------------
LEMMA TypedIsTypeOK == Typed <=> TypeOK
  BY DEF Typed, TypeOK, ProcessesOK, StoresOK, MapOK, ReceivedOK, OneApplies, Goroutine, Phases

(* A map with the values of another over its own.                          *)
Overlaid(result, map, new) ==
    /\ DOMAIN result = DOMAIN map \cup DOMAIN new
    /\ \A k \in DOMAIN new : result[k] = new[k]
    /\ \A k \in DOMAIN map \ DOMAIN new : result[k] = map[k]

LEMMA WithEffect ==
    ASSUME NEW map, MapOK(map), NEW new, MapOK(new), NEW result, result = With(map, new)
    PROVE  MapOK(result) /\ Overlaid(result, map, new)
  BY DEF With, MapOK, Overlaid

LEMMA HoldsEffect ==
    ASSUME NEW key \in Keys, NEW data \in Data, NEW map, map = Holds(key, data)
    PROVE  MapOK(map) /\ DOMAIN map = {key} /\ map[key] = data
  BY DEF Holds, MapOK

LEMMA RestrictEffect ==
    ASSUME NEW map, MapOK(map), NEW keys, keys \subseteq DOMAIN map,
           NEW result, result = Restrict(map, keys)
    PROVE  /\ MapOK(result) /\ DOMAIN result = keys
           /\ \A k \in keys : result[k] = map[k]
  BY DEF Restrict, MapOK

LEMMA MarshalEffect ==
    ASSUME NEW data \in Data
    PROVE  Marshal(data) \in Data /\ Marshal(data).value = data.value
  BY DEF Marshal, Data

(* A comparison that is under way stays well formed while its node's tree  *)
(* gains keys.                                                             *)
LEMMA ReceivedStays ==
    ASSUME NEW r, ReceivedOK(r), DOMAIN tree[r.at] \subseteq DOMAIN tree'[r.at]
    PROVE  ReceivedOK(r)'
<1>1. SUBSET NodeKeys(r.at, r.number) \subseteq SUBSET (NodeKeys(r.at, r.number)')
  BY DEF NodeKeys
<1>2. NodeKeys(r.at, r.number) \subseteq NodeKeys(r.at, r.number)'
  BY DEF NodeKeys
<1> QED BY <1>1, <1>2 DEF ReceivedOK, Goroutine

(* What EXCEPT makes of a goroutine.                                       *)
Became(new, r, pc, keys, result) ==
    /\ new.at = r.at /\ new.number = r.number /\ new.tree = r.tree
    /\ new.pc = pc /\ new.keys = keys /\ new.result = result

GoesOn(r, pc, keys, result) == [r EXCEPT !.pc = pc, !.keys = keys, !.result = result]

LEMMA GoroutineGoesOn ==
    ASSUME NEW sent, NEW keysets, NEW result, NEW r, r \in Goroutine(sent, keysets, result),
           NEW pc, pc \in Phases, NEW keys, keys \in keysets, NEW answer, NEW new,
           new = GoesOn(r, pc, keys, answer)
    PROVE  Became(new, r, pc, keys, answer) /\ new \in Goroutine(sent, keysets, answer)
<1>1. PICK a : a = [r EXCEPT !.pc = pc]
  OBVIOUS
<1>2. /\ a \in Goroutine(sent, keysets, result) /\ a.pc = pc
      /\ a.at = r.at /\ a.number = r.number /\ a.tree = r.tree
  BY <1>1 DEF Goroutine
<1>3. PICK b : b = [a EXCEPT !.keys = keys]
  OBVIOUS
<1>4. /\ b \in Goroutine(sent, keysets, result) /\ b.pc = pc /\ b.keys = keys
      /\ b.at = r.at /\ b.number = r.number /\ b.tree = r.tree
  BY <1>2, <1>3 DEF Goroutine
<1>5. new = [b EXCEPT !.result = answer]
  BY <1>1, <1>3 DEF GoesOn
<1> QED BY <1>4, <1>5 DEF Goroutine, Became

(* A step of a goroutine that leaves the other ones and the trees' keys.   *)
LEMMA GoroutineKeepsTypes ==
    ASSUME Typed, ProcessesOK', StoresOK', \A n \in Nodes : DOMAIN tree[n] \subseteq DOMAIN tree'[n],
           \A r \in received' \ received : ReceivedOK(r) /\ r.at \in Nodes,
           OneApplies'
    PROVE  Typed'
<1>1. \A r \in received' : ReceivedOK(r) /\ r.at \in Nodes
  BY DEF Typed, ReceivedOK, Goroutine
<1>2. \A r \in received' : ReceivedOK(r)'
  BY <1>1, ReceivedStays
<1> QED BY <1>2 DEF Typed

-----------------------------------------------------------------------------
(* Each step keeps the types.                                              *)
LEMMA WritesKeepTypes ==
    ASSUME Typed, NEW n \in Nodes, NEW key \in Keys,
           OtherWrite(n, key) \/ \E v \in Values : PutStore(n, key, v)
    PROVE  Typed'
<1>1. UNCHANGED <<ranges, up, tree, muLeaked, checks, received>>
  BY DEF OtherWrite, PutStore
<1>2. /\ DOMAIN db = Nodes /\ DOMAIN tree = Nodes /\ MapOK(db[n])
      /\ \A i \in Nodes : MapOK(db[i]) /\ MapOK(tree[i])
  BY DEF Typed, StoresOK
<1>3. ASSUME NEW data \in Data, Set(n, Holds(key, data))
      PROVE  StoresOK'
  <2>1. PICK new : new = Holds(key, data) /\ MapOK(new)
    BY HoldsEffect
  <2>2. PICK result : result = With(db[n], new)
    OBVIOUS
  <2>3. MapOK(result)
    BY <1>2, <2>1, <2>2, WithEffect
  <2>4. db' = [db EXCEPT ![n] = result]
    BY <1>3, <2>1, <2>2 DEF Set
  <2>5. DOMAIN db' = Nodes /\ \A i \in Nodes : MapOK(db'[i])
    BY <1>2, <2>3, <2>4
  <2> QED BY <1>1, <1>2, <2>5 DEF Typed, StoresOK, MapOK
<1>4. StoresOK' /\ handlers' \subseteq [at : Nodes, key : Keys, data : Data]
  <2>1. handlers \subseteq [at : Nodes, key : Keys, data : Data]
    BY DEF Typed, ProcessesOK
  <2>2. ASSUME NEW v \in Values, PutStore(n, key, v)
        PROVE  StoresOK' /\ handlers' \subseteq [at : Nodes, key : Keys, data : Data]
    <3>1. PICK data \in Data : data = [value |-> v, depth |-> 0]
      BY DEF Data
    <3>2. /\ Set(n, Holds(key, data))
          /\ handlers' = handlers \cup {[at |-> n, key |-> key, data |-> data]}
      BY <2>2, <3>1 DEF PutStore
    <3> QED BY <1>3, <2>1, <3>2
  <2>3. ASSUME OtherWrite(n, key) PROVE StoresOK' /\ handlers' = handlers
    <3>1. handlers' = handlers
      BY <2>3 DEF OtherWrite
    <3>2. CASE \E m \in Nodes, value \in Values :
                   Set(n, Holds(key, [value |-> value, depth |-> 0]))
      <4>1. \A value \in Values : [value |-> value, depth |-> 0] \in Data
        BY DEF Data
      <4> QED BY <1>3, <3>1, <3>2, <4>1
    <3>3. CASE db' = [db EXCEPT ![n] = Restrict(@, DOMAIN @ \ {key})]
      <4>1. PICK keys : keys = DOMAIN db[n] \ {key}
        OBVIOUS
      <4>2. PICK result : result = Restrict(db[n], keys)
        OBVIOUS
      <4>3. MapOK(result)
        BY <1>2, <4>1, <4>2, RestrictEffect
      <4>4. db' = [db EXCEPT ![n] = result]
        BY <3>3, <4>1, <4>2
      <4>5. DOMAIN db' = Nodes /\ \A i \in Nodes : MapOK(db'[i])
        BY <1>2, <4>3, <4>4
      <4> QED BY <1>1, <1>2, <3>1, <4>5 DEF Typed, StoresOK, MapOK
    <3> QED BY <2>3, <3>2, <3>3 DEF OtherWrite
  <2> QED BY <2>1, <2>2, <2>3
<1>5. (\A r \in received' : ReceivedOK(r)') /\ OneApplies'
  BY <1>1 DEF Typed, ReceivedOK, NodeKeys, OneApplies
<1> QED BY <1>1, <1>4, <1>5 DEF Typed, ProcessesOK

LEMMA UpdateKeepsTypes ==
    ASSUME Typed, NEW h \in handlers, UpdateMapData(h)
    PROVE  Typed'
<1>1. UNCHANGED <<ranges, up, db, checks, received>> /\ handlers' = handlers \ {h}
  BY DEF UpdateMapData, Update
<1>2. /\ h.at \in Nodes /\ h.key \in Keys /\ h.data \in Data
      /\ DOMAIN db = Nodes /\ DOMAIN tree = Nodes
      /\ \A i \in Nodes : MapOK(db[i]) /\ MapOK(tree[i])
      /\ muLeaked \in [Nodes -> BOOLEAN]
  BY DEF Typed, ProcessesOK, StoresOK
<1>3. CASE HashNumber[h.key] \in ranges[h.at]
  <2>1. PICK new : new = Holds(h.key, h.data) /\ MapOK(new) /\ DOMAIN new = {h.key}
    BY <1>2, HoldsEffect
  <2>0. PICK map : map = tree[h.at] /\ MapOK(map)
    BY <1>2
  <2>2. PICK result : result = With(map, new)
    OBVIOUS
  <2>3. MapOK(result) /\ DOMAIN result = DOMAIN tree[h.at] \cup {h.key}
    <3>1. Overlaid(result, map, new) /\ MapOK(result)
      BY <2>0, <2>1, <2>2, WithEffect
    <3> QED BY <2>0, <2>1, <3>1 DEF Overlaid
  <2>4. tree' = [tree EXCEPT ![h.at] = result] /\ muLeaked' = muLeaked
    BY <1>3, <2>0, <2>1, <2>2 DEF UpdateMapData
  <2>5. StoresOK'
    <3>1. ASSUME NEW i \in Nodes, NEW k \in DOMAIN tree'[i] PROVE HashNumber[k] \in ranges'[i]
      BY <1>1, <1>2, <1>3, <2>3, <2>4 DEF Typed, StoresOK
    <3>2. DOMAIN tree' = Nodes /\ \A i \in Nodes : MapOK(tree'[i])
      BY <1>2, <2>3, <2>4
    <3> QED BY <1>1, <1>2, <3>1, <3>2 DEF StoresOK, MapOK
  <2>6. \A r \in received' : ReceivedOK(r)'
    <3>1. \A i \in Nodes : DOMAIN tree[i] \subseteq DOMAIN tree'[i]
      BY <1>2, <2>3, <2>4
    <3>2. \A r \in received : ReceivedOK(r) /\ r.at \in Nodes
      BY DEF Typed, ReceivedOK, Goroutine
    <3> QED BY <1>1, <3>1, <3>2, ReceivedStays
  <2> QED BY <1>1, <2>4, <2>5, <2>6 DEF Typed, ProcessesOK, OneApplies
<1>4. CASE HashNumber[h.key] \notin ranges[h.at]
  <2>1. muLeaked' = [muLeaked EXCEPT ![h.at] = TRUE] /\ tree' = tree
    BY <1>4 DEF UpdateMapData
  <2>2. muLeaked' \in [Nodes -> BOOLEAN]
    BY <1>2, <2>1
  <2> QED BY <1>1, <2>1, <2>2
             DEF Typed, ProcessesOK, StoresOK, MapOK, ReceivedOK, NodeKeys, OneApplies
<1> QED BY <1>3, <1>4

LEMMA ChecksKeepTypes ==
    ASSUME Typed,
           \/ \E n, target \in Nodes : AskMerkle(n, target)
           \/ \E c \in checks : CheckPanics(c) \/ CheckSent(c)
    PROVE  Typed'
<1>1. UNCHANGED <<ranges, up, db, tree, handlers>>
  BY DEF AskMerkle, CheckPanics, CheckSent
<1>2. /\ checks \subseteq [from : Nodes, to : Nodes, todo : Seq(Numbers) \ {<<>>}]
      /\ muLeaked \in [Nodes -> BOOLEAN]
      /\ \A r \in received : ReceivedOK(r)
  BY DEF Typed, ProcessesOK
<1>3. ASSUME checks' \subseteq [from : Nodes, to : Nodes, todo : Seq(Numbers) \ {<<>>}],
             muLeaked' \in [Nodes -> BOOLEAN],
             \A r \in received' \ received : ReceivedOK(r) /\ r.at \in Nodes /\ r.pc # "write"
      PROVE  Typed'
  <2>1. OneApplies'
    BY <1>3 DEF Typed, OneApplies
  <2>2. StoresOK' /\ ProcessesOK'
    BY <1>1, <1>3 DEF Typed, ProcessesOK, StoresOK, MapOK
  <2>3. \A n \in Nodes : DOMAIN tree[n] \subseteq DOMAIN tree'[n]
    BY <1>1
  <2> QED BY <1>3, <2>1, <2>2, <2>3, GoroutineKeepsTypes
<1>4. ASSUME NEW n \in Nodes, NEW target \in Nodes, AskMerkle(n, target) PROVE Typed'
  <2>1. /\ checks' = checks \cup {InitiateMerkleCheck(n, TokenNumbers[n], target)}
        /\ UNCHANGED <<muLeaked, received>>
    BY <1>4 DEF AskMerkle
  <2>2. InitiateMerkleCheck(n, TokenNumbers[n], target)
            \in [from : Nodes, to : Nodes, todo : Seq(Numbers) \ {<<>>}]
    BY TokensAssumption DEF InitiateMerkleCheck
  <2> QED BY <1>2, <1>3, <2>1, <2>2
<1>5. ASSUME NEW c \in checks, CheckPanics(c) PROVE Typed'
  <2>1. /\ checks' = checks \ {c} /\ received' = received /\ c.from \in Nodes
        /\ muLeaked' = [muLeaked EXCEPT ![c.from] = TRUE] \/ muLeaked' = muLeaked
    BY <1>2, <1>5 DEF CheckPanics
  <2>2. muLeaked' \in [Nodes -> BOOLEAN]
    BY <1>2, <2>1
  <2> QED BY <1>2, <1>3, <2>1, <2>2
<1>6. ASSUME NEW c \in checks, CheckSent(c) PROVE Typed'
  <2>1. /\ c.from \in Nodes /\ c.to \in Nodes
        /\ Head(c.todo) \in Numbers /\ Tail(c.todo) \in Seq(Numbers)
    <3>1. c \in [from : Nodes, to : Nodes, todo : Seq(Numbers) \ {<<>>}]
      BY <1>2
    <3>2. PICK list \in Seq(Numbers) : list = c.todo /\ list # <<>>
      BY <3>1
    <3>3. Head(list) \in Numbers /\ Tail(list) \in Seq(Numbers)
      BY <3>2
    <3> QED BY <3>1, <3>2, <3>3
  <2>2. PICK number \in Numbers : number = Head(c.todo)
    BY <2>1
  <2>3. PICK todo \in Seq(Numbers) : todo = Tail(c.todo)
    BY <2>1
  <2>4. PICK sent : sent = Tree(c.from, number)
    OBVIOUS
  <2>5. PICK next : next = [c EXCEPT !.todo = todo]
    OBVIOUS
  <2>6. /\ received' \subseteq received \cup {MerkleCheck(c.to, number, sent)}
        /\ checks' \in {checks \ {c}, (checks \ {c}) \cup {d \in {next} : d.todo # <<>>}}
        /\ muLeaked' = muLeaked
    BY <1>6, <2>2, <2>3, <2>4, <2>5 DEF CheckSent
  <2>7. PICK new : new = MerkleCheck(c.to, number, sent)
    OBVIOUS
  <2>12. /\ new.at = c.to /\ new.number = number /\ new.tree = sent /\ new.pc = "compare"
         /\ new.keys = {} /\ new.result = <<>> /\ DOMAIN new.result = {}
         /\ new \in Goroutine(sent, SUBSET NodeKeys(c.to, number), <<>>)
    BY <2>1, <2>2, <2>7 DEF MerkleCheck, Goroutine, Phases
  <2>13. ReceivedOK(new) /\ new.at \in Nodes /\ new.pc # "write"
    BY <2>1, <2>12 DEF ReceivedOK
  <2>8. next.todo # <<>> => next \in [from : Nodes, to : Nodes, todo : Seq(Numbers) \ {<<>>}]
    BY <1>2, <2>1, <2>3, <2>5
  <2>9. checks' \subseteq checks \cup {d \in {next} : d.todo # <<>>}
    BY <2>6
  <2>10. checks' \subseteq [from : Nodes, to : Nodes, todo : Seq(Numbers) \ {<<>>}]
    BY <1>2, <2>8, <2>9
  <2>11. \A r \in received' \ received : ReceivedOK(r) /\ r.at \in Nodes /\ r.pc # "write"
    BY <2>6, <2>7, <2>13
  <2> QED BY <1>2, <1>3, <2>6, <2>10, <2>11
<1> QED BY <1>4, <1>5, <1>6

(* What a crash makes of the stores.                                       *)
LEMMA CrashEffect ==
    ASSUME Typed, NEW n \in Nodes, Crashed(n)
    PROVE  /\ UNCHANGED ranges
           /\ \A i \in Nodes \ {n} : db'[i] = db[i] /\ tree'[i] = tree[i]
           /\ DOMAIN db' = Nodes /\ DOMAIN tree' = Nodes
           /\ DOMAIN tree'[n] = {} /\ MapOK(db'[n])
           /\ \A k \in DOMAIN db'[n] : k \in DOMAIN db[n] /\ db'[n][k] = db[n][k]
           /\ handlers' = {h \in handlers : h.at # n}
           /\ received' = {r \in received : r.at # n}
           /\ overlaps' = {o \in overlaps : o[1] # n}
<1>1. DOMAIN db = Nodes /\ DOMAIN tree = Nodes /\ MapOK(db[n])
  BY DEF Typed, StoresOK
<1>2. PICK kept : kept \subseteq DOMAIN db[n] /\ db' = [db EXCEPT ![n] = Restrict(@, kept)]
  BY DEF Crashed
<1>3. PICK map, result : map = db[n] /\ result = Restrict(map, kept) /\ MapOK(map)
  BY <1>1
<1>4. MapOK(result) /\ DOMAIN result = kept /\ \A k \in kept : result[k] = map[k]
  BY <1>2, <1>3, RestrictEffect
<1>5. DOMAIN db' = Nodes /\ db'[n] = result /\ \A i \in Nodes \ {n} : db'[i] = db[i]
  BY <1>1, <1>2, <1>3
<1>6. /\ tree' = [tree EXCEPT ![n] = <<>>] /\ UNCHANGED ranges
      /\ handlers' = {h \in handlers : h.at # n}
      /\ received' = {r \in received : r.at # n}
      /\ overlaps' = {o \in overlaps : o[1] # n}
  BY DEF Crashed
<1>7. /\ DOMAIN tree' = Nodes /\ tree'[n] = <<>> /\ DOMAIN tree'[n] = {}
      /\ \A i \in Nodes \ {n} : tree'[i] = tree[i]
  BY <1>1, <1>6
<1>8. \A k \in DOMAIN db'[n] : k \in DOMAIN db[n] /\ db'[n][k] = db[n][k]
  BY <1>2, <1>3, <1>4, <1>5
<1>9. MapOK(db'[n])
  BY <1>4, <1>5
<1> QED BY <1>5, <1>6, <1>7, <1>8, <1>9

LEMMA CrashKeepsTypes == ASSUME Typed, NEW n \in Nodes, Crashed(n) PROVE Typed'
<1>1. ProcessesOK'
  <2>1. /\ up' = [up EXCEPT ![n] = FALSE] /\ muLeaked' = [muLeaked EXCEPT ![n] = FALSE]
        /\ handlers' \subseteq handlers /\ checks' \subseteq checks /\ ranges' = ranges
    BY DEF Crashed
  <2>2. up' \in [Nodes -> BOOLEAN] /\ muLeaked' \in [Nodes -> BOOLEAN]
    BY <2>1 DEF Typed, ProcessesOK
  <2> QED BY <2>1, <2>2 DEF Typed, ProcessesOK
<1>2. /\ DOMAIN db' = Nodes /\ DOMAIN tree' = Nodes /\ DOMAIN tree'[n] = {} /\ MapOK(db'[n])
      /\ \A i \in Nodes \ {n} : db'[i] = db[i] /\ tree'[i] = tree[i]
      /\ ranges' = ranges /\ received' = {r \in received : r.at # n}
  BY CrashEffect
<1>3. StoresOK'
  <2>1. \A i \in Nodes : MapOK(db[i]) /\ MapOK(tree[i])
    BY DEF Typed, StoresOK
  <2>2. MapOK(tree'[n])
    BY <1>2 DEF MapOK
  <2>3. \A i \in Nodes : MapOK(db'[i]) /\ MapOK(tree'[i])
    BY <1>2, <2>1, <2>2
  <2>4. \A i \in Nodes : \A k \in DOMAIN tree'[i] : HashNumber[k] \in ranges'[i]
    BY <1>2 DEF Typed, StoresOK
  <2> QED BY <1>2, <2>3, <2>4 DEF StoresOK, MapOK
<1>4. ASSUME NEW r \in received' PROVE ReceivedOK(r)'
  <2>1. r \in received /\ r.at # n /\ ReceivedOK(r) /\ r.at \in Nodes
    BY <1>2, <1>4 DEF Typed, ReceivedOK, Goroutine
  <2>2. DOMAIN tree[r.at] \subseteq DOMAIN tree'[r.at]
    BY <1>2, <2>1
  <2> QED BY <2>1, <2>2, ReceivedStays
<1>5. OneApplies'
  BY <1>2 DEF Typed, OneApplies
<1> QED BY <1>1, <1>3, <1>4, <1>5 DEF Typed

LEMMA ComparisonsKeepTypes ==
    ASSUME Typed, NEW r \in received, CompareTree(r) \/ MerkleUpdate(r) \/ MerkleUpdateFails(r)
    PROVE  Typed'
<1>1. ReceivedOK(r) /\ r.at \in Nodes
  BY DEF Typed, ReceivedOK, Goroutine
<1>2. PICK sent, keysets, result :
          /\ sent = r.tree /\ keysets = SUBSET NodeKeys(r.at, r.number) /\ result = r.result
          /\ r \in Goroutine(sent, keysets, result)
  BY <1>1 DEF ReceivedOK
<1>3. ASSUME UNCHANGED <<ranges, up, db, tree, muLeaked, handlers, checks>>,
             \A q \in received' \ received : ReceivedOK(q) /\ q.at \in Nodes /\ q.pc # "write"
      PROVE  Typed'
  <2>1. OneApplies'
    BY <1>3 DEF Typed, OneApplies
  <2>2. StoresOK' /\ ProcessesOK'
    BY <1>3 DEF Typed, ProcessesOK, StoresOK, MapOK
  <2>3. \A n \in Nodes : DOMAIN tree[n] \subseteq DOMAIN tree'[n]
    BY <1>3
  <2> QED BY <1>3, <2>1, <2>2, <2>3, GoroutineKeepsTypes
<1>4. CASE CompareTree(r)
  <2>1. CASE Crashed(r.at)
    BY <1>1, <2>1, CrashKeepsTypes
  <2>2. CASE ~Crashed(r.at)
    <3>0. PICK keys \in keysets :
              keys = {k \in NodeKeys(r.at, r.number) : tree[r.at][k] \in Range(r.tree)}
      BY <1>2
    <3>5. PICK next : next = GoesOn(r, "ask", keys, result)
      OBVIOUS
    <3>1. /\ r.pc = "compare" /\ UNCHANGED <<ranges, up, db, tree, muLeaked, handlers, checks>>
          /\ received' = (received \ {r}) \cup
                 IF r.tree = Tree(r.at, r.number) THEN {}
                 ELSE {[r EXCEPT !.pc = "ask",
                                 !.keys = {k \in NodeKeys(r.at, r.number) :
                                               tree[r.at][k] \in Range(r.tree)}]}
      BY <1>4, <2>2, Zenon DEF CompareTree
    <3>6. received' \subseteq received \cup {[r EXCEPT !.pc = "ask", !.keys = keys]}
      BY <3>0, <3>1
    <3>7. next = [r EXCEPT !.pc = "ask", !.keys = keys]
      <4>1. PICK a : a = [r EXCEPT !.pc = "ask", !.keys = keys]
        OBVIOUS
      <4>2. next = [a EXCEPT !.result = result]
        BY <3>5, <4>1 DEF GoesOn
      <4>3. a = [a EXCEPT !.result = result]
        BY <1>2, <4>1 DEF Goroutine, Phases
      <4> QED BY <4>1, <4>2, <4>3
    <3>2. Became(next, r, "ask", keys, result) /\ next \in Goroutine(sent, keysets, result)
      <4>1. "ask" \in Phases
        BY DEF Phases
      <4> QED BY <1>2, <3>5, <4>1, GoroutineGoesOn
    <3>3. r.result = <<>>
      BY <1>1, <3>1 DEF ReceivedOK
    <3>4. ReceivedOK(next) /\ next.at \in Nodes /\ next.pc # "write"
      BY <1>1, <1>2, <3>2, <3>3 DEF ReceivedOK, Became
    <3> QED BY <1>3, <3>1, <3>4, <3>6, <3>7
  <2> QED BY <2>1, <2>2
<1>5. CASE MerkleUpdateFails(r)
  <2>1. PICK next : next = GoesOn(r, "compare", {}, result)
    OBVIOUS
  <2>2. next = [r EXCEPT !.pc = "compare", !.keys = {}]
    <3>1. PICK a : a = [r EXCEPT !.pc = "compare", !.keys = {}]
      OBVIOUS
    <3>2. next = [a EXCEPT !.result = result]
      BY <2>1, <3>1 DEF GoesOn
    <3>3. a = [a EXCEPT !.result = result]
      BY <1>2, <3>1 DEF Goroutine, Phases
    <3> QED BY <3>1, <3>2, <3>3
  <2>3. Became(next, r, "compare", {}, result) /\ next \in Goroutine(sent, keysets, result)
    <3>1. "compare" \in Phases /\ {} \in keysets
      BY <1>2 DEF Phases
    <3> QED BY <1>2, <2>1, <3>1, GoroutineGoesOn
  <2>4. /\ received' = (received \ {r}) \cup {next} /\ r.result = <<>>
        /\ UNCHANGED <<ranges, up, db, tree, muLeaked, handlers, checks>>
    BY <1>1, <1>5, <2>2 DEF MerkleUpdateFails, ReceivedUnchanged, ReceivedOK
  <2>5. ReceivedOK(next) /\ next.at \in Nodes /\ next.pc # "write"
    BY <1>1, <1>2, <2>3, <2>4 DEF ReceivedOK, Became
  <2> QED BY <1>3, <2>4, <2>5
<1>6. CASE MerkleUpdate(r)
  <2>1. PICK answer : answer = IF r.keys \subseteq DOMAIN db[r.at]
                               THEN [k \in r.keys |-> Marshal(db[r.at][k])] ELSE <<>>
    OBVIOUS
  <2>2. PICK keys : keys = DOMAIN answer
    OBVIOUS
  <2>3. DOMAIN answer \subseteq r.keys /\ \A k \in DOMAIN answer : answer[k] \in Data
    <3>1. MapOK(db[r.at])
      BY <1>1 DEF Typed, StoresOK
    <3>2. CASE r.keys \subseteq DOMAIN db[r.at]
      BY <2>1, <3>1, <3>2, MarshalEffect DEF MapOK
    <3>3. CASE ~(r.keys \subseteq DOMAIN db[r.at])
      BY <2>1, <3>3
    <3> QED BY <3>2, <3>3
  <2>4. r.keys \in keysets /\ keys \in keysets /\ DOMAIN answer \subseteq NodeKeys(r.at, r.number)
    BY <1>2, <2>2, <2>3 DEF Goroutine
  <2>5. PICK next : next = GoesOn(r, "apply", keys, answer)
    OBVIOUS
  <2>6. /\ received' = (received \ {r}) \cup {next}
        /\ UNCHANGED <<ranges, up, db, tree, muLeaked, handlers, checks>>
    BY <1>6, <2>1, <2>2, <2>5 DEF MerkleUpdate, ReceivedUnchanged, GoesOn
  <2>7. Became(next, r, "apply", keys, answer) /\ next \in Goroutine(sent, keysets, answer)
    <3>1. "apply" \in Phases
      BY DEF Phases
    <3> QED BY <1>2, <2>4, <2>5, <3>1, GoroutineGoesOn
  <2>8. ReceivedOK(next) /\ next.at \in Nodes /\ next.pc # "write"
    BY <1>1, <1>2, <2>2, <2>3, <2>4, <2>7 DEF ReceivedOK, Became
  <2> QED BY <1>3, <2>6, <2>8
<1> QED BY <1>4, <1>5, <1>6

(* What a goroutine does that applies an answer to the tree,               *)
LEMMA ApplyToTreeEffect ==
    ASSUME Typed, NEW r \in received, ApplyToTree(r)
    PROVE  \E k, next :
               /\ k \in DOMAIN r.result
               /\ r.at \in Nodes /\ Written(r) = {}
               /\ \A q \in received : q.at = r.at /\ q.pc = "write" => q = r
               /\ k \in DOMAIN tree[r.at] /\ DOMAIN tree' = Nodes
               /\ \A i \in Nodes : DOMAIN tree'[i] = DOMAIN tree[i] /\ MapOK(tree'[i])
               /\ tree'[r.at][k] = r.result[k]
               /\ \A i \in Nodes : \A l \in DOMAIN tree[i] :
                      i # r.at \/ l # k => tree'[i][l] = tree[i][l]
               /\ Begins(r.at, k)
               /\ received' = (received \ {r}) \cup {next}
               /\ ReceivedOK(next) /\ next.at = r.at /\ next.pc = "write"
               /\ next.result = r.result /\ Written(next) = {k}
               /\ UNCHANGED <<db, ranges, up, muLeaked, handlers, checks>>
<1>1. ReceivedOK(r) /\ r.at \in Nodes
  BY DEF Typed, ReceivedOK, Goroutine
<1>2. PICK sent, keysets, result :
          /\ sent = r.tree /\ keysets = SUBSET NodeKeys(r.at, r.number) /\ result = r.result
          /\ r \in Goroutine(sent, keysets, result)
  BY <1>1 DEF ReceivedOK
<1>3. /\ r.keys = DOMAIN result /\ UNCHANGED <<db, ranges, up, muLeaked, handlers, checks>>
      /\ r.pc = "write" \/ (r.pc = "apply" /\ MuFree(r.at))
  BY <1>2 DEF ApplyToTree, ReceivedUnchanged
<1>4. PICK k \in DOMAIN result :
          /\ tree' = [tree EXCEPT ![r.at] = With(tree[r.at], Holds(k, result[k]))]
          /\ received' = (received \ {r}) \cup {[r EXCEPT !.pc = "write", !.keys = r.keys \ {k}]}
          /\ Begins(r.at, k)
  BY <1>2, <1>3 DEF ApplyToTree
<1>5. Written(r) = {} /\ \A q \in received : q.at = r.at /\ q.pc = "write" => q = r
  BY <1>2, <1>3 DEF Written, MuFree, Typed, OneApplies
<1>6. /\ k \in DOMAIN tree[r.at] /\ k \in Keys /\ result[k] \in Data
      /\ DOMAIN tree = Nodes /\ \A i \in Nodes : MapOK(tree[i])
  BY <1>1, <1>2, <1>4 DEF ReceivedOK, NodeKeys, Typed, StoresOK, MapOK
<1>7. /\ DOMAIN tree' = Nodes
      /\ \A i \in Nodes : DOMAIN tree'[i] = DOMAIN tree[i] /\ MapOK(tree'[i])
      /\ tree'[r.at][k] = result[k]
      /\ \A i \in Nodes : \A l \in DOMAIN tree[i] :
             i # r.at \/ l # k => tree'[i][l] = tree[i][l]
  <2>1. PICK new : new = Holds(k, result[k]) /\ MapOK(new) /\ DOMAIN new = {k} /\ new[k] = result[k]
    BY <1>6, HoldsEffect
  <2>2. PICK map : map = tree[r.at] /\ MapOK(map)
    BY <1>1, <1>6
  <2>3. PICK changed : changed = With(map, new)
    OBVIOUS
  <2>4. MapOK(changed) /\ Overlaid(changed, map, new)
    BY <2>1, <2>2, <2>3, WithEffect
  <2>5. tree' = [tree EXCEPT ![r.at] = changed]
    BY <1>4, <2>1, <2>2, <2>3
  <2>6. DOMAIN tree' = Nodes /\ tree'[r.at] = changed /\ \A i \in Nodes \ {r.at} : tree'[i] = tree[i]
    BY <1>1, <1>6, <2>5
  <2>7. /\ DOMAIN changed = DOMAIN map /\ changed[k] = result[k]
        /\ \A l \in DOMAIN map \ {k} : changed[l] = map[l]
    BY <1>6, <2>1, <2>2, <2>4 DEF Overlaid
  <2> QED BY <1>6, <2>2, <2>4, <2>6, <2>7
<1>8. PICK keys \in keysets : keys = r.keys \ {k}
  BY <1>2 DEF Goroutine
<1>9. PICK next : next = GoesOn(r, "write", keys, result)
  OBVIOUS
<1>10. next = [r EXCEPT !.pc = "write", !.keys = keys]
  <2>1. PICK a : a = [r EXCEPT !.pc = "write", !.keys = keys]
    OBVIOUS
  <2>2. next = [a EXCEPT !.result = result]
    BY <1>9, <2>1 DEF GoesOn
  <2>3. a = [a EXCEPT !.result = result]
    BY <1>2, <2>1 DEF Goroutine, Phases
  <2> QED BY <2>1, <2>2, <2>3
<1>11. received' = (received \ {r}) \cup {next}
  BY <1>4, <1>8, <1>10
<1>12. Became(next, r, "write", keys, result) /\ next \in Goroutine(sent, keysets, result)
  <2>1. "write" \in Phases
    BY DEF Phases
  <2>2. r \in Goroutine(sent, keysets, result) /\ keys \in keysets
    BY <1>2, <1>8
  <2> QED BY ONLY <1>9, <2>1, <2>2, GoroutineGoesOn
<1>13. ReceivedOK(next)
  <2>1. result # <<>>
    <3>1. DOMAIN <<>> = {}
      OBVIOUS
    <3> QED BY <1>4, <3>1
  <2> QED BY <1>1, <1>2, <1>3, <1>8, <1>12, <2>1 DEF ReceivedOK, Became
<1>14. Written(next) = {k}
  BY <1>3, <1>4, <1>8, <1>12 DEF Written, Became
<1>15. next.at = r.at /\ next.pc = "write" /\ next.result = r.result
  BY <1>2, <1>12 DEF Became
<1> QED BY <1>1, <1>2, <1>3, <1>4, <1>5, <1>6, <1>7, <1>11, <1>13, <1>14, <1>15

(* and to redis.                                                           *)
LEMMA ApplyToStoreEffect ==
    ASSUME Typed, NEW r \in received, ApplyToStore(r)
    PROVE  \E new :
               /\ r.at \in Nodes /\ r.pc = "write" /\ MapOK(new) /\ Set(r.at, new)
               /\ DOMAIN new = Written(r) /\ \A k \in DOMAIN new : new[k] = r.result[k]
               /\ received \ {r} \subseteq received'
               /\ \A q \in received' \ (received \ {r}) :
                      ReceivedOK(q) /\ q.at = r.at /\ q.pc = "write" /\ Written(q) = {}
               /\ \A p, q \in received' \ (received \ {r}) : p = q
               /\ UNCHANGED <<tree, overlaps, ranges, up, muLeaked, handlers, checks>>
<1>1. ReceivedOK(r) /\ r.at \in Nodes
  BY DEF Typed, ReceivedOK, Goroutine
<1>2. PICK sent, keysets, result :
          /\ sent = r.tree /\ keysets = SUBSET NodeKeys(r.at, r.number) /\ result = r.result
          /\ r \in Goroutine(sent, keysets, result)
  BY <1>1 DEF ReceivedOK
<1>3. /\ r.pc = "write" /\ Set(r.at, Restrict(result, Written(r)))
      /\ received' = (received \ {r}) \cup StillApplying(r)
      /\ UNCHANGED <<tree, overlaps, ranges, up, muLeaked, handlers, checks>>
  BY <1>2 DEF ApplyToStore, ReceivedUnchanged
<1>4. MapOK(result) /\ r.keys \subseteq DOMAIN result /\ r.keys \in keysets
  <2>1. NodeKeys(r.at, r.number) \subseteq Keys
    BY <1>1 DEF NodeKeys, Typed, StoresOK, MapOK
  <2> QED BY <1>1, <1>2, <1>3, <2>1 DEF ReceivedOK, MapOK, Goroutine
<1>5. Written(r) \subseteq DOMAIN result
  BY <1>2, <1>3 DEF Written
<1>6. PICK new : new = Restrict(result, Written(r))
  OBVIOUS
<1>7. MapOK(new) /\ DOMAIN new = Written(r) /\ \A k \in Written(r) : new[k] = result[k]
  BY <1>4, <1>5, <1>6, RestrictEffect
<1>8. PICK rest : rest = Restrict(result, r.keys)
  OBVIOUS
<1>9. MapOK(rest) /\ DOMAIN rest = r.keys
  BY <1>4, <1>8, RestrictEffect
<1>10. PICK next : next = GoesOn(r, "write", r.keys, rest)
  OBVIOUS
<1>11. next = [r EXCEPT !.result = rest]
  <2>1. r = [r EXCEPT !.pc = "write", !.keys = r.keys]
    BY <1>2, <1>3 DEF Goroutine
  <2>2. PICK a : a = [r EXCEPT !.pc = "write", !.keys = r.keys]
    OBVIOUS
  <2>3. next = [a EXCEPT !.result = rest] /\ a = r
    BY <1>10, <2>1, <2>2 DEF GoesOn
  <2> QED BY <2>3
<1>12. Became(next, r, "write", r.keys, rest) /\ next \in Goroutine(sent, keysets, rest)
  <2>1. "write" \in Phases
    BY DEF Phases
  <2>2. r \in Goroutine(sent, keysets, result) /\ r.keys \in keysets
    BY <1>2, <1>4
  <2> QED BY ONLY <1>10, <2>1, <2>2, GoroutineGoesOn
<1>13. StillApplying(r) = IF r.keys = {} THEN {} ELSE {next}
  BY <1>2, <1>8, <1>11 DEF StillApplying
<1>14. next.at = r.at /\ next.pc = "write" /\ Written(next) = {}
  BY <1>9, <1>12 DEF Became, Written
<1>15. r.keys # {} => ReceivedOK(next)
  <2>1. DOMAIN <<>> = {}
    OBVIOUS
  <2>2. DOMAIN rest \subseteq NodeKeys(r.at, r.number) /\ \A k \in DOMAIN rest : rest[k] \in Data
    BY <1>2, <1>4, <1>9 DEF MapOK
  <2> QED BY <1>2, <1>9, <1>12, <2>1, <2>2 DEF ReceivedOK, Became
<1>16. /\ received \ {r} \subseteq received'
       /\ \A q \in received' \ (received \ {r}) : q = next /\ r.keys # {}
  BY <1>3, <1>13
<1> QED BY <1>1, <1>2, <1>3, <1>6, <1>7, <1>14, <1>15, <1>16

LEMMA ApplyKeepsTypes == ASSUME Typed, NEW r \in received, Apply(r) PROVE Typed'
<1>1. CASE ApplyToTree(r)
  <2>1. PICK k, next :
            /\ k \in DOMAIN r.result
            /\ r.at \in Nodes
            /\ \A q \in received : q.at = r.at /\ q.pc = "write" => q = r
            /\ DOMAIN tree' = Nodes
            /\ \A i \in Nodes : DOMAIN tree'[i] = DOMAIN tree[i] /\ MapOK(tree'[i])
            /\ received' = (received \ {r}) \cup {next}
            /\ ReceivedOK(next) /\ next.at = r.at
            /\ UNCHANGED <<db, ranges, up, muLeaked, handlers, checks>>
    BY <1>1, ApplyToTreeEffect
  <2>2. ProcessesOK' /\ StoresOK'
    BY <2>1 DEF Typed, ProcessesOK, StoresOK, MapOK
  <2>3. OneApplies'
    BY <2>1 DEF Typed, OneApplies
  <2>4. \A i \in Nodes : DOMAIN tree[i] \subseteq DOMAIN tree'[i]
    BY <2>1
  <2>5. \A q \in received' \ received : ReceivedOK(q) /\ q.at \in Nodes
    BY <2>1
  <2> QED BY <2>2, <2>3, <2>4, <2>5, GoroutineKeepsTypes
<1>2. CASE ApplyToStore(r)
  <2>1. PICK new :
            /\ r.at \in Nodes /\ r.pc = "write" /\ MapOK(new) /\ Set(r.at, new)
            /\ \A q \in received' \ (received \ {r}) : ReceivedOK(q) /\ q.at = r.at
            /\ \A p, q \in received' \ (received \ {r}) : p = q
            /\ UNCHANGED <<tree, ranges, up, muLeaked, handlers, checks>>
    BY <1>2, ApplyToStoreEffect
  <2>2. ProcessesOK'
    BY <2>1 DEF Typed, ProcessesOK
  <2>3. StoresOK'
    <3>1. DOMAIN db = Nodes /\ DOMAIN tree = Nodes /\ \A i \in Nodes : MapOK(db[i]) /\ MapOK(tree[i])
      BY DEF Typed, StoresOK
    <3>2. PICK map, result : map = db[r.at] /\ result = With(map, new) /\ MapOK(map)
      BY <2>1, <3>1
    <3>3. MapOK(result)
      BY <2>1, <3>2, WithEffect
    <3>4. db' = [db EXCEPT ![r.at] = result]
      BY <2>1, <3>2 DEF Set
    <3>5. DOMAIN db' = Nodes /\ \A i \in Nodes : MapOK(db'[i])
      BY <3>1, <3>3, <3>4
    <3> QED BY <2>1, <3>1, <3>5 DEF Typed, StoresOK, MapOK
  <2>4. OneApplies'
    <3>1. \A q \in received : q.at = r.at /\ q.pc = "write" => q = r
      BY <2>1 DEF Typed, OneApplies
    <3>2. \A q \in received' : q.at = r.at /\ q.pc = "write" => q \notin received \ {r}
      BY <3>1
    <3>3. \A q \in received' : q \in received \ {r} \/ q.at = r.at
      BY <2>1
    <3> QED BY <2>1, <3>2, <3>3 DEF Typed, OneApplies
  <2>5. \A i \in Nodes : DOMAIN tree[i] \subseteq DOMAIN tree'[i]
    BY <2>1
  <2>6. \A q \in received' \ received : ReceivedOK(q) /\ q.at \in Nodes
    BY <2>1
  <2> QED BY <2>2, <2>3, <2>4, <2>5, <2>6, GoroutineKeepsTypes
<1>3. CASE NothingToApply(r)
  <2>1. received' = received \ {r} /\ UNCHANGED <<db, tree, ranges, up, muLeaked, handlers, checks>>
    BY <1>3 DEF NothingToApply, ReceivedUnchanged
  <2>2. ProcessesOK' /\ StoresOK' /\ OneApplies'
    BY <2>1 DEF Typed, ProcessesOK, StoresOK, MapOK, OneApplies
  <2>3. \A i \in Nodes : DOMAIN tree[i] \subseteq DOMAIN tree'[i]
    BY <2>1
  <2>4. \A q \in received' \ received : ReceivedOK(q) /\ q.at \in Nodes
    BY <2>1
  <2> QED BY <2>2, <2>3, <2>4, GoroutineKeepsTypes
<1> QED BY <1>1, <1>2, <1>3 DEF Apply

LEMMA NextTyped == ASSUME Typed, [Next]_vars PROVE Typed'
<1>1. ASSUME NEW n \in Nodes, Restart(n) PROVE Typed'
  <2>1. UNCHANGED <<ranges, db, tree, muLeaked, handlers, checks, received>>
        /\ up' \in [Nodes -> BOOLEAN]
    BY <1>1 DEF Restart, Typed, ProcessesOK
  <2> QED BY <2>1 DEF Typed, ProcessesOK, StoresOK, MapOK, ReceivedOK, NodeKeys, OneApplies
<1>2. CASE UNCHANGED vars
  BY <1>2 DEF vars, Typed, ProcessesOK, StoresOK, MapOK, ReceivedOK, NodeKeys, OneApplies
<1> QED BY <1>1, <1>2, WritesKeepTypes, UpdateKeepsTypes, ChecksKeepTypes, ComparisonsKeepTypes,
           ApplyKeepsTypes DEF Next

-----------------------------------------------------------------------------
(* What a step does to the value under a key.                              *)
Same(n, key) ==
    /\ key \in DOMAIN db[n] <=> key \in DOMAIN db'[n]
    /\ key \in DOMAIN db[n] => db'[n][key] = db[n][key]

LEMMA HeldIfSame ==
    ASSUME NEW n, NEW key, NEW data, Same(n, key), Held(n, key, data)
    PROVE  Held(n, key, data)'
  BY DEF Same, Held

LEMMA SetEffect ==
    ASSUME Typed, NEW n \in Nodes, NEW new, MapOK(new), Set(n, new)
    PROVE  /\ \A i \in Nodes : \A k : i # n \/ k \notin DOMAIN new => Same(i, k)
           /\ \A k \in DOMAIN new : Held(n, k, new[k])'
<1>1. DOMAIN db = Nodes /\ MapOK(db[n])
  BY DEF Typed, StoresOK
<1>2. PICK map, result : map = db[n] /\ result = With(map, new) /\ MapOK(map)
  BY <1>1
<1>3. Overlaid(result, map, new)
  BY <1>2, WithEffect
<1>4. db'[n] = result /\ \A i \in Nodes \ {n} : db'[i] = db[i]
  BY <1>1, <1>2 DEF Set
<1> QED BY <1>2, <1>3, <1>4 DEF Same, Held, Overlaid

LEMMA PutEffect ==
    ASSUME Typed, NEW n \in Nodes, NEW key \in Keys, NEW v \in Values, PutStore(n, key, v),
           NEW data, data = [value |-> v, depth |-> 0]
    PROVE  /\ \A i \in Nodes : \A k : i # n \/ k # key => Same(i, k)
           /\ Held(n, key, data)'
           /\ handlers' = handlers \cup {[at |-> n, key |-> key, data |-> data]}
           /\ UNCHANGED <<tree, received>>
           /\ Begins(n, key)
<1>1. PICK same \in Data : same = data
  BY DEF Data
<1>2. PICK new : new = Holds(key, same)
  OBVIOUS
<1>3. MapOK(new) /\ DOMAIN new = {key} /\ new[key] = data
  BY <1>1, <1>2, HoldsEffect
<1>4. Set(n, new)
  BY <1>1, <1>2 DEF PutStore
<1>5. /\ \A i \in Nodes : \A k : i # n \/ k \notin DOMAIN new => Same(i, k)
      /\ \A k \in DOMAIN new : Held(n, k, new[k])'
  BY <1>3, <1>4, SetEffect
<1>6. Held(n, key, data)'
  BY <1>3, <1>5
<1> QED BY <1>3, <1>5, <1>6 DEF PutStore

LEMMA OtherWriteEffect ==
    ASSUME Typed, NEW n \in Nodes, NEW key \in Keys, OtherWrite(n, key)
    PROVE  /\ \A i \in Nodes : \A k : i # n \/ k # key => Same(i, k)
           /\ overlaps' = overlaps \cup {<<n, key>>}
           /\ UNCHANGED <<tree, handlers, received>>
<1>1. ASSUME NEW value \in Values, Set(n, Holds(key, [value |-> value, depth |-> 0]))
      PROVE  \A i \in Nodes : \A k : i # n \/ k # key => Same(i, k)
  <2>1. PICK data \in Data : data = [value |-> value, depth |-> 0]
    BY DEF Data
  <2>2. PICK new : new = Holds(key, data)
    OBVIOUS
  <2>3. MapOK(new) /\ DOMAIN new = {key}
    BY <2>2, HoldsEffect
  <2>4. Set(n, new)
    BY <1>1, <2>1, <2>2
  <2>5. \A i \in Nodes : \A k : i # n \/ k \notin DOMAIN new => Same(i, k)
    BY <2>3, <2>4, SetEffect
  <2> QED BY <2>3, <2>5
<1>2. ASSUME db' = [db EXCEPT ![n] = Restrict(@, DOMAIN @ \ {key})]
      PROVE  \A i \in Nodes : \A k : i # n \/ k # key => Same(i, k)
  <2>1. DOMAIN db = Nodes /\ MapOK(db[n])
    BY DEF Typed, StoresOK
  <2>2. PICK map, keys, result : /\ map = db[n] /\ keys = DOMAIN map \ {key}
                                 /\ result = Restrict(map, keys) /\ MapOK(map)
    BY <2>1
  <2>3. DOMAIN result = keys /\ \A k \in keys : result[k] = map[k]
    BY <2>2, RestrictEffect
  <2>4. db'[n] = result /\ \A i \in Nodes \ {n} : db'[i] = db[i]
    BY <1>2, <2>1, <2>2
  <2> QED BY <2>2, <2>3, <2>4 DEF Same
<1>3. overlaps' = overlaps \cup {<<n, key>>} /\ UNCHANGED <<tree, handlers, received>>
  BY DEF OtherWrite
<1>4. \/ \E value \in Values : Set(n, Holds(key, [value |-> value, depth |-> 0]))
      \/ db' = [db EXCEPT ![n] = Restrict(@, DOMAIN @ \ {key})]
  BY DEF OtherWrite
<1> QED BY <1>1, <1>2, <1>3, <1>4

(* The key that a writer begins with is the only one whose overlap may be  *)
(* noted or forgotten; it is noted if the writer is not the only one.      *)
LEMMA BeginsEffect ==
    ASSUME NEW n, NEW key, Begins(n, key)
    PROVE  /\ \A i, k : i # n \/ k # key => (<<i, k>> \in overlaps' <=> <<i, k>> \in overlaps)
           /\ Writing(n, key) => <<n, key>> \in overlaps'
<1>1. \A i, k : <<i, k>> = <<n, key>> <=> i = n /\ k = key
  OBVIOUS
<1>2. \/ Writing(n, key) /\ overlaps' = overlaps \cup {<<n, key>>}
      \/ ~Writing(n, key) /\ overlaps' = overlaps \ {<<n, key>>}
  BY DEF Begins
<1> QED BY <1>1, <1>2

-----------------------------------------------------------------------------
(* Steps of goroutines that are not between two writes.                    *)
LEMMA QuietStep ==
    ASSUME Agreement, UNCHANGED <<db, tree, handlers, overlaps>>,
           \A r \in received' \ received : Written(r) = {},
           \A r \in received \ received' : Written(r) = {}
    PROVE  Agreement'
<1>1. HandlersInv'
  BY DEF Agreement, HandlersInv, Held
<1>2. AppliedInv'
  BY DEF Agreement, AppliedInv
<1>3. TreeMatchesStore'
  <2>1. \A i, k : Writing(i, k) => Writing(i, k)'
    BY DEF Writing
  <2> QED BY <2>1 DEF Agreement, TreeMatchesStore
<1> QED BY <1>1, <1>2, <1>3 DEF Agreement

LEMMA PutKeepsInv ==
    ASSUME IInv, NEW n \in Nodes, NEW key \in Keys, NEW v \in Values, PutStore(n, key, v)
    PROVE  Agreement'
<1>1. PICK data : data = [value |-> v, depth |-> 0]
  OBVIOUS
<1>2. Typed /\ HandlersInv /\ AppliedInv /\ TreeMatchesStore
  BY DEF IInv, Agreement
<1>3. /\ \A i \in Nodes : \A k : i # n \/ k # key => Same(i, k)
      /\ Held(n, key, data)'
      /\ handlers' = handlers \cup {[at |-> n, key |-> key, data |-> data]}
      /\ UNCHANGED <<tree, received>>
      /\ Begins(n, key)
  BY <1>1, <1>2, PutEffect
<1>4. /\ \A i, k : i # n \/ k # key => (<<i, k>> \in overlaps' <=> <<i, k>> \in overlaps)
      /\ Writing(n, key) => <<n, key>> \in overlaps'
  BY <1>3, BeginsEffect
<1>5. PICK mine : mine = [at |-> n, key |-> key, data |-> data]
  OBVIOUS
<1>6. mine.at = n /\ mine.key = key /\ mine.data = data /\ handlers' = handlers \cup {mine}
  BY <1>3, <1>5
<1>7. HandlersInv'
  <2>1. ASSUME NEW h \in handlers'
        PROVE  \/ <<h.at, h.key>> \in overlaps'
               \/ /\ Held(h.at, h.key, h.data)'
                  /\ \A g \in handlers' : g.at = h.at /\ g.key = h.key => g = h
                  /\ \A r \in received' : r.at = h.at => h.key \notin Written(r)
    <3>1. CASE Writing(n, key) /\ h.at = n /\ h.key = key
      BY <1>4, <3>1
    <3>2. CASE ~Writing(n, key) /\ h.at = n /\ h.key = key
      <4>1. \A g \in handlers' : g.at = n /\ g.key = key => g = mine
        BY <1>6, <3>2 DEF Writing
      <4>2. h = mine
        BY <2>1, <3>2, <4>1
      <4>3. \A r \in received' : r.at = n => key \notin Written(r)
        BY <1>3, <3>2 DEF Writing
      <4> QED BY <1>3, <1>6, <4>1, <4>2, <4>3
    <3>3. CASE h.at # n \/ h.key # key
      <4>1. h \in handlers /\ h.at \in Nodes
        BY <1>2, <1>6, <2>1, <3>3 DEF Typed, ProcessesOK
      <4>2. CASE <<h.at, h.key>> \in overlaps
        BY <1>4, <3>3, <4>2
      <4>3. CASE <<h.at, h.key>> \notin overlaps
        <5>1. /\ Held(h.at, h.key, h.data)
              /\ \A g \in handlers : g.at = h.at /\ g.key = h.key => g = h
              /\ \A r \in received : r.at = h.at => h.key \notin Written(r)
          BY <1>2, <4>1, <4>3 DEF HandlersInv
        <5>2. Held(h.at, h.key, h.data)'
          BY <1>3, <3>3, <4>1, <5>1, HeldIfSame
        <5> QED BY <1>3, <1>6, <3>3, <5>1, <5>2
      <4> QED BY <4>2, <4>3
    <3> QED BY <3>1, <3>2, <3>3
  <2> QED BY <2>1 DEF HandlersInv
<1>8. TreeMatchesStore'
  <2>1. ASSUME NEW i \in Nodes, NEW k \in DOMAIN tree'[i]
        PROVE  \/ <<i, k>> \in overlaps' \/ Writing(i, k)'
               \/ k \in DOMAIN db'[i] /\ db'[i][k] = tree'[i][k]
    <3>1. CASE i = n /\ k = key
      BY <1>6, <3>1 DEF Writing
    <3>2. CASE i # n \/ k # key
      <4>1. \/ <<i, k>> \in overlaps \/ Writing(i, k)
            \/ k \in DOMAIN db[i] /\ db[i][k] = tree[i][k]
        BY <1>2, <1>3, <2>1 DEF TreeMatchesStore
      <4>2. Same(i, k)
        BY <1>3, <3>2
      <4>3. Writing(i, k) => Writing(i, k)'
        BY <1>3, <1>6 DEF Writing
      <4> QED BY <1>3, <1>4, <3>2, <4>1, <4>2, <4>3 DEF Same
    <3> QED BY <3>1, <3>2
  <2> QED BY <2>1 DEF TreeMatchesStore
<1>9. AppliedInv'
  BY <1>2, <1>3 DEF AppliedInv
<1> QED BY <1>7, <1>8, <1>9 DEF Agreement

LEMMA OtherWriteKeepsInv ==
    ASSUME IInv, NEW n \in Nodes, NEW key \in Keys, OtherWrite(n, key)
    PROVE  Agreement'
<1>1. Typed /\ HandlersInv /\ AppliedInv /\ TreeMatchesStore
  BY DEF IInv, Agreement
<1>2. /\ \A i \in Nodes : \A k : i # n \/ k # key => Same(i, k)
      /\ overlaps' = overlaps \cup {<<n, key>>}
      /\ UNCHANGED <<tree, handlers, received>>
  BY <1>1, OtherWriteEffect
<1>3. HandlersInv'
  <2>1. ASSUME NEW h \in handlers, <<h.at, h.key>> \notin overlaps'
        PROVE  /\ Held(h.at, h.key, h.data)'
               /\ \A g \in handlers : g.at = h.at /\ g.key = h.key => g = h
               /\ \A r \in received : r.at = h.at => h.key \notin Written(r)
    <3>1. h.at \in Nodes /\ (h.at # n \/ h.key # key) /\ <<h.at, h.key>> \notin overlaps
      BY <1>1, <1>2, <2>1 DEF Typed, ProcessesOK
    <3>2. /\ Held(h.at, h.key, h.data)
          /\ \A g \in handlers : g.at = h.at /\ g.key = h.key => g = h
          /\ \A r \in received : r.at = h.at => h.key \notin Written(r)
      BY <1>1, <3>1 DEF HandlersInv
    <3> QED BY <1>2, <3>1, <3>2, HeldIfSame
  <2> QED BY <1>2, <2>1 DEF HandlersInv
<1>4. TreeMatchesStore'
  <2>1. ASSUME NEW i \in Nodes, NEW k \in DOMAIN tree[i], <<i, k>> \notin overlaps', ~Writing(i, k)
        PROVE  k \in DOMAIN db'[i] /\ db'[i][k] = tree[i][k]
    <3>1. Same(i, k) /\ <<i, k>> \notin overlaps
      BY <1>2, <2>1
    <3> QED BY <1>1, <2>1, <3>1 DEF TreeMatchesStore, Same
  <2> QED BY <1>2, <2>1 DEF TreeMatchesStore, Writing
<1>5. AppliedInv'
  BY <1>1, <1>2 DEF AppliedInv
<1> QED BY <1>3, <1>4, <1>5 DEF Agreement

LEMMA UpdateKeepsInv ==
    ASSUME IInv, NEW h \in handlers, UpdateMapData(h)
    PROVE  Agreement'
<1>1. Typed /\ HandlersInv /\ AppliedInv /\ TreeMatchesStore
  BY DEF IInv, Agreement
<1>2. h.at \in Nodes /\ h.key \in Keys /\ h.data \in Data /\ DOMAIN tree = Nodes
  BY <1>1 DEF Typed, ProcessesOK, StoresOK
<1>3. /\ UNCHANGED <<ranges, db, received, overlaps>> /\ handlers' = handlers \ {h}
      /\ \A r \in received : r.at = h.at => Written(r) = {}
  BY DEF UpdateMapData, Update, MuFree, Written
<1>4. HandlersInv'
  BY <1>1, <1>3 DEF HandlersInv, Held
<1>5. \A i \in Nodes : \A k : i # h.at \/ k # h.key =>
          (k \in DOMAIN tree'[i] => k \in DOMAIN tree[i] /\ tree'[i][k] = tree[i][k])
  <2>1. CASE HashNumber[h.key] \notin ranges[h.at]
    BY <2>1 DEF UpdateMapData
  <2>2. CASE HashNumber[h.key] \in ranges[h.at]
    <3>0. PICK new : new = Holds(h.key, h.data)
      OBVIOUS
    <3>1. new = Holds(h.key, h.data) /\ DOMAIN new = {h.key}
      BY <3>0 DEF Holds
    <3>2. PICK result : result = With(tree[h.at], new)
      OBVIOUS
    <3>5. tree' = [tree EXCEPT ![h.at] = result]
      BY <2>2, <3>1, <3>2 DEF UpdateMapData
    <3>3. tree'[h.at] = result /\ \A i \in Nodes \ {h.at} : tree'[i] = tree[i]
      BY <1>2, <3>5
    <3>4. /\ DOMAIN result = DOMAIN tree[h.at] \cup {h.key}
          /\ \A k \in DOMAIN tree[h.at] \ {h.key} : result[k] = tree[h.at][k]
      BY <3>1, <3>2 DEF With
    <3> QED BY <3>3, <3>4
  <2> QED BY <2>1, <2>2
<1>6. h.key \in DOMAIN tree'[h.at] => tree'[h.at][h.key] = h.data
  <2>1. CASE HashNumber[h.key] \notin ranges[h.at]
    BY <1>1, <1>2, <2>1 DEF UpdateMapData, Typed, StoresOK
  <2>2. CASE HashNumber[h.key] \in ranges[h.at]
    <3>0. PICK new : new = Holds(h.key, h.data)
      OBVIOUS
    <3>1. new = Holds(h.key, h.data) /\ h.key \in DOMAIN new /\ new[h.key] = h.data
      BY <3>0 DEF Holds
    <3>2. PICK result : result = With(tree[h.at], new)
      OBVIOUS
    <3>5. tree' = [tree EXCEPT ![h.at] = result]
      BY <2>2, <3>1, <3>2 DEF UpdateMapData
    <3>3. tree'[h.at] = result
      BY <1>2, <3>5
    <3>4. result[h.key] = h.data
      BY <3>1, <3>2 DEF With
    <3> QED BY <3>3, <3>4
  <2> QED BY <2>1, <2>2
<1>7. TreeMatchesStore'
  <2>1. ASSUME NEW i \in Nodes, NEW k \in DOMAIN tree'[i], <<i, k>> \notin overlaps, ~Writing(i, k)'
        PROVE  k \in DOMAIN db[i] /\ db[i][k] = tree'[i][k]
    <3>1. CASE i = h.at /\ k = h.key
      <4>1. Held(i, k, h.data)
        BY <1>1, <2>1, <3>1 DEF HandlersInv
      <4> QED BY <1>6, <2>1, <3>1, <4>1 DEF Held
    <3>2. CASE i # h.at \/ k # h.key
      <4>1. k \in DOMAIN tree[i] /\ tree'[i][k] = tree[i][k]
        BY <1>5, <2>1, <3>2
      <4>2. ~Writing(i, k)
        BY <1>3, <2>1, <3>2 DEF Writing
      <4> QED BY <1>1, <2>1, <4>1, <4>2 DEF TreeMatchesStore
    <3> QED BY <3>1, <3>2
  <2> QED BY <1>3, <2>1 DEF TreeMatchesStore
<1>8. \A i \in Nodes \ {h.at} : tree'[i] = tree[i]
  <2>1. tree' = tree \/ \E map : tree' = [tree EXCEPT ![h.at] = map]
    BY DEF UpdateMapData
  <2> QED BY <1>2, <2>1
<1>9. AppliedInv'
  <2>1. ASSUME NEW r \in received, NEW k \in Written(r)
        PROVE  k \in DOMAIN tree'[r.at] /\ tree'[r.at][k] = r.result[k]
    <3>1. r.at \in Nodes \ {h.at}
      BY <1>1, <1>3, <2>1 DEF Typed, ReceivedOK, Goroutine
    <3> QED BY <1>1, <1>8, <2>1, <3>1 DEF AppliedInv
  <2> QED BY <1>3, <2>1 DEF AppliedInv
<1> QED BY <1>4, <1>7, <1>9 DEF Agreement

LEMMA CrashKeepsInv ==
    ASSUME IInv, NEW n \in Nodes, Crashed(n)
    PROVE  Agreement'
<1>1. /\ Typed /\ HandlersInv /\ AppliedInv /\ TreeMatchesStore
      /\ handlers \subseteq [at : Nodes, key : Keys, data : Data]
      /\ \A r \in received : r.at \in Nodes
  BY DEF IInv, Agreement, Typed, ProcessesOK, ReceivedOK, Goroutine
<1>2. /\ \A i \in Nodes \ {n} : db'[i] = db[i] /\ tree'[i] = tree[i]
      /\ DOMAIN tree'[n] = {}
      /\ handlers' = {h \in handlers : h.at # n}
      /\ received' = {r \in received : r.at # n}
      /\ overlaps' = {o \in overlaps : o[1] # n}
  BY <1>1, CrashEffect
<1>3. HandlersInv'
  <2>1. ASSUME NEW h \in handlers'
        PROVE  \/ <<h.at, h.key>> \in overlaps'
               \/ /\ Held(h.at, h.key, h.data)'
                  /\ \A g \in handlers' : g.at = h.at /\ g.key = h.key => g = h
                  /\ \A r \in received' : r.at = h.at => h.key \notin Written(r)
    <3>1. h \in handlers /\ h.at \in Nodes \ {n}
      BY <1>1, <1>2, <2>1
    <3>2. CASE <<h.at, h.key>> \in overlaps
      <4>1. <<h.at, h.key>>[1] # n
        BY <3>1
      <4> QED BY <1>2, <3>2, <4>1
    <3>3. CASE <<h.at, h.key>> \notin overlaps
      <4>1. /\ Held(h.at, h.key, h.data)
            /\ \A g \in handlers : g.at = h.at /\ g.key = h.key => g = h
            /\ \A r \in received : r.at = h.at => h.key \notin Written(r)
        BY <1>1, <3>1, <3>3 DEF HandlersInv
      <4> QED BY <1>2, <3>1, <4>1 DEF Held
    <3> QED BY <3>2, <3>3
  <2> QED BY <2>1 DEF HandlersInv
<1>4. TreeMatchesStore'
  <2>1. ASSUME NEW i \in Nodes, NEW k \in DOMAIN tree'[i]
        PROVE  \/ <<i, k>> \in overlaps' \/ Writing(i, k)'
               \/ k \in DOMAIN db'[i] /\ db'[i][k] = tree'[i][k]
    <3>1. i # n /\ db'[i] = db[i] /\ tree'[i] = tree[i]
      BY <1>2, <2>1
    <3>2. \/ <<i, k>> \in overlaps \/ Writing(i, k)
          \/ k \in DOMAIN db[i] /\ db[i][k] = tree[i][k]
      BY <1>1, <2>1, <3>1 DEF TreeMatchesStore
    <3>3. <<i, k>>[1] # n
      BY <3>1
    <3>4. Writing(i, k) => Writing(i, k)'
      BY <1>2, <3>1 DEF Writing
    <3> QED BY <1>2, <3>1, <3>2, <3>3, <3>4
  <2> QED BY <2>1 DEF TreeMatchesStore
<1>5. AppliedInv'
  BY <1>1, <1>2 DEF AppliedInv
<1> QED BY <1>3, <1>4, <1>5 DEF Agreement

LEMMA ApplyToTreeKeepsInv ==
    ASSUME IInv, NEW r \in received, ApplyToTree(r)
    PROVE  Agreement'
<1>1. /\ Typed /\ HandlersInv /\ AppliedInv /\ TreeMatchesStore
      /\ \A h \in handlers : h.at \in Nodes
      /\ \A q \in received : q.at \in Nodes
  BY DEF IInv, Agreement, Typed, ProcessesOK, ReceivedOK, Goroutine
<1>2. PICK key, next :
          /\ key \in DOMAIN r.result
          /\ r.at \in Nodes /\ Written(r) = {}
          /\ \A q \in received : q.at = r.at /\ q.pc = "write" => q = r
          /\ key \in DOMAIN tree[r.at]
          /\ \A i \in Nodes : DOMAIN tree'[i] = DOMAIN tree[i]
          /\ tree'[r.at][key] = r.result[key]
          /\ \A i \in Nodes : \A k \in DOMAIN tree[i] :
                 i # r.at \/ k # key => tree'[i][k] = tree[i][k]
          /\ Begins(r.at, key)
          /\ received' = (received \ {r}) \cup {next}
          /\ next.at = r.at /\ next.result = r.result /\ Written(next) = {key}
          /\ UNCHANGED <<db, handlers>> /\ DOMAIN tree' = Nodes
  BY <1>1, ApplyToTreeEffect
<1>3. PICK n \in Nodes : n = r.at
  BY <1>2
<1>4. /\ \A i, k : i # n \/ k # key => (<<i, k>> \in overlaps' <=> <<i, k>> \in overlaps)
      /\ Writing(n, key) => <<n, key>> \in overlaps'
  BY <1>2, <1>3, BeginsEffect
<1>5. HandlersInv'
  <2>1. ASSUME NEW h \in handlers, <<h.at, h.key>> \notin overlaps'
        PROVE  /\ Held(h.at, h.key, h.data)'
               /\ \A g \in handlers : g.at = h.at /\ g.key = h.key => g = h
               /\ \A q \in received' : q.at = h.at => h.key \notin Written(q)
    <3>1. Writing(h.at, h.key) /\ (h.at # n \/ h.key # key) /\ <<h.at, h.key>> \notin overlaps
      BY <1>4, <2>1 DEF Writing
    <3>2. /\ Held(h.at, h.key, h.data)
          /\ \A g \in handlers : g.at = h.at /\ g.key = h.key => g = h
          /\ \A q \in received : q.at = h.at => h.key \notin Written(q)
      BY <1>1, <2>1, <3>1 DEF HandlersInv
    <3>3. next.at = h.at => h.key \notin Written(next)
      BY <1>2, <1>3, <3>1
    <3> QED BY <1>2, <3>2, <3>3 DEF Held
  <2> QED BY <1>2, <2>1 DEF HandlersInv
<1>6. TreeMatchesStore'
  <2>1. ASSUME NEW i \in Nodes, NEW k \in DOMAIN tree'[i]
        PROVE  \/ <<i, k>> \in overlaps' \/ Writing(i, k)'
               \/ k \in DOMAIN db'[i] /\ db'[i][k] = tree'[i][k]
    <3>1. CASE i = n /\ k = key
      BY <1>2, <1>3, <3>1 DEF Writing
    <3>2. CASE i # n \/ k # key
      <4>1. \/ <<i, k>> \in overlaps \/ Writing(i, k)
            \/ k \in DOMAIN db[i] /\ db[i][k] = tree[i][k]
        BY <1>1, <1>2, <2>1 DEF TreeMatchesStore
      <4>2. tree'[i][k] = tree[i][k]
        BY <1>2, <1>3, <2>1, <3>2
      <4>3. Writing(i, k) => Writing(i, k)'
        BY <1>2 DEF Writing
      <4> QED BY <1>2, <1>4, <3>2, <4>1, <4>2, <4>3
    <3> QED BY <3>1, <3>2
  <2> QED BY <2>1 DEF TreeMatchesStore
<1>7. AppliedInv'
  <2>1. ASSUME NEW q \in received', NEW k \in Written(q)
        PROVE  k \in DOMAIN tree'[q.at] /\ tree'[q.at][k] = q.result[k]
    <3>1. CASE q = next
      BY <1>2, <2>1, <3>1
    <3>2. CASE q # next
      <4>1. q \in received /\ q # r /\ q.pc = "write"
        BY <1>2, <2>1, <3>2 DEF Written
      <4>2. q.at \in Nodes /\ q.at # r.at
        BY <1>1, <1>2, <4>1
      <4>3. k \in DOMAIN tree[q.at] /\ tree[q.at][k] = q.result[k]
        BY <1>1, <2>1, <4>1 DEF AppliedInv
      <4> QED BY <1>2, <4>2, <4>3
    <3> QED BY <3>1, <3>2
  <2> QED BY <2>1 DEF AppliedInv
<1> QED BY <1>5, <1>6, <1>7 DEF Agreement

LEMMA ApplyToStoreKeepsInv ==
    ASSUME IInv, NEW r \in received, ApplyToStore(r)
    PROVE  Agreement'
<1>1. /\ Typed /\ HandlersInv /\ AppliedInv /\ TreeMatchesStore
      /\ \A h \in handlers : h.at \in Nodes
  BY DEF IInv, Agreement, Typed, ProcessesOK
<1>2. PICK new :
          /\ r.at \in Nodes /\ MapOK(new) /\ Set(r.at, new)
          /\ DOMAIN new = Written(r) /\ \A k \in DOMAIN new : new[k] = r.result[k]
          /\ received \ {r} \subseteq received'
          /\ \A q \in received' \ (received \ {r}) : Written(q) = {}
          /\ UNCHANGED <<tree, overlaps, handlers>>
  BY <1>1, ApplyToStoreEffect
<1>3. /\ \A i \in Nodes : \A k : i # r.at \/ k \notin DOMAIN new => Same(i, k)
      /\ \A k \in DOMAIN new : Held(r.at, k, new[k])'
  BY <1>1, <1>2, SetEffect
<1>4. HandlersInv'
  <2>1. ASSUME NEW h \in handlers, <<h.at, h.key>> \notin overlaps
        PROVE  /\ Held(h.at, h.key, h.data)'
               /\ \A g \in handlers : g.at = h.at /\ g.key = h.key => g = h
               /\ \A q \in received' : q.at = h.at => h.key \notin Written(q)
    <3>1. /\ Held(h.at, h.key, h.data)
          /\ \A g \in handlers : g.at = h.at /\ g.key = h.key => g = h
          /\ \A q \in received : q.at = h.at => h.key \notin Written(q)
      BY <1>1, <2>1 DEF HandlersInv
    <3>2. Same(h.at, h.key)
      BY <1>1, <1>2, <1>3, <3>1
    <3>3. Held(h.at, h.key, h.data)'
      BY <3>1, <3>2, HeldIfSame
    <3>4. \A q \in received' : q.at = h.at => h.key \notin Written(q)
      BY <1>2, <3>1
    <3> QED BY <3>1, <3>3, <3>4
  <2> QED BY <1>2, <2>1 DEF HandlersInv
<1>5. TreeMatchesStore'
  <2>1. ASSUME NEW i \in Nodes, NEW k \in DOMAIN tree[i]
        PROVE  \/ <<i, k>> \in overlaps \/ Writing(i, k)'
               \/ k \in DOMAIN db'[i] /\ db'[i][k] = tree[i][k]
    <3>1. CASE i = r.at /\ k \in DOMAIN new
      <4>1. tree[i][k] = r.result[k]
        BY <1>1, <1>2, <3>1 DEF AppliedInv
      <4>2. Held(i, k, new[k])'
        BY <1>3, <3>1
      <4>3. new[k] = r.result[k]
        BY <1>2, <3>1
      <4> QED BY <4>1, <4>2, <4>3 DEF Held
    <3>2. CASE i # r.at \/ k \notin DOMAIN new
      <4>1. \/ <<i, k>> \in overlaps \/ Writing(i, k)
            \/ k \in DOMAIN db[i] /\ db[i][k] = tree[i][k]
        BY <1>1, <2>1 DEF TreeMatchesStore
      <4>2. Same(i, k)
        BY <1>3, <3>2
      <4>3. Writing(i, k) => Writing(i, k)'
        BY <1>2, <3>2 DEF Writing
      <4> QED BY <4>1, <4>2, <4>3 DEF Same
    <3> QED BY <3>1, <3>2
  <2> QED BY <1>2, <2>1 DEF TreeMatchesStore
<1>6. AppliedInv'
  BY <1>1, <1>2 DEF AppliedInv
<1> QED BY <1>4, <1>5, <1>6 DEF Agreement

-----------------------------------------------------------------------------
LEMMA InitIInv == Init => IInv
<1> SUFFICES ASSUME Init PROVE IInv
  OBVIOUS
<1>1. /\ DOMAIN db = Nodes /\ DOMAIN tree = Nodes
      /\ \A n \in Nodes : /\ db[n] = <<>> /\ tree[n] = <<>>
                          /\ DOMAIN db[n] = {} /\ DOMAIN tree[n] = {}
  BY DEF Init
<1>2. Typed
  BY <1>1 DEF Init, Typed, ProcessesOK, StoresOK, MapOK, OneApplies
<1>3. Agreement
  BY <1>1 DEF Init, Agreement, HandlersInv, AppliedInv, TreeMatchesStore
<1> QED BY <1>2, <1>3 DEF IInv

LEMMA NextIInv == ASSUME IInv, [Next]_vars PROVE IInv'
<1>1. Typed'
  BY NextTyped DEF IInv
<1>7. Agreement /\ \A r \in received : r \in Goroutine(r.tree, SUBSET NodeKeys(r.at, r.number), r.result)
  BY DEF IInv, Typed, ReceivedOK
<1>2. ASSUME NEW r \in received, CompareTree(r) \/ MerkleUpdate(r) \/ MerkleUpdateFails(r)
      PROVE  Agreement'
  <2>1. CASE Crashed(r.at)
    <3>1. r.at \in Nodes
      BY <1>7 DEF Goroutine
    <3> QED BY <2>1, <3>1, CrashKeepsInv
  <2>2. CASE ~Crashed(r.at)
    <3>1. /\ UNCHANGED <<db, tree, handlers, overlaps>> /\ received \ {r} \subseteq received'
          /\ r.pc \in {"compare", "ask"}
      BY <1>2, <2>2 DEF CompareTree, MerkleUpdate, MerkleUpdateFails, ReceivedUnchanged
    <3>2. Written(r) = {}
      BY <3>1 DEF Written
    <3>3. ASSUME NEW q \in received' \ received PROVE q.pc # "write"
      <4>1. PICK sent, keysets, result : r \in Goroutine(sent, keysets, result)
        BY <1>7
      <4>2. \/ \E keys : q = [r EXCEPT !.pc = "ask", !.keys = keys]
            \/ \E keys, answer : q = [r EXCEPT !.pc = "apply", !.keys = keys, !.result = answer]
            \/ q = [r EXCEPT !.pc = "compare", !.keys = {}]
        BY <1>2, <2>2, <3>3 DEF CompareTree, MerkleUpdate, MerkleUpdateFails
      <4> QED BY <4>1, <4>2 DEF Goroutine
    <3>4. \A q \in received' \ received : Written(q) = {}
      BY <3>3 DEF Written
    <3> QED BY <1>7, <3>1, <3>2, <3>4, QuietStep
  <2> QED BY <2>1, <2>2
<1>3. ASSUME NEW c \in checks, CheckPanics(c) \/ CheckSent(c) PROVE Agreement'
  <2>1. UNCHANGED <<db, tree, handlers, overlaps>> /\ received \subseteq received'
    BY <1>3 DEF CheckPanics, CheckSent
  <2>2. \A r \in received' \ received : Written(r) = {}
    BY <1>3 DEF CheckPanics, CheckSent, MerkleCheck, Written
  <2> QED BY <1>7, <2>1, <2>2, QuietStep
<1>4. ASSUME \/ \E n, target \in Nodes : AskMerkle(n, target)
             \/ \E n \in Nodes : Restart(n)
             \/ UNCHANGED vars
      PROVE  Agreement'
  <2>1. UNCHANGED <<db, tree, handlers, overlaps, received>>
    BY <1>4 DEF AskMerkle, Restart, vars
  <2> QED BY <1>7, <2>1, QuietStep
<1>5. ASSUME NEW r \in received, NothingToApply(r) PROVE Agreement'
  <2>1. UNCHANGED <<db, tree, handlers, overlaps>> /\ received' = received \ {r} /\ Written(r) = {}
    BY <1>5 DEF NothingToApply, ReceivedUnchanged, Written
  <2> QED BY <1>7, <2>1, QuietStep
<1>6. Agreement'
  <2>1. ASSUME NEW n \in Nodes, NEW k \in Keys, OtherWrite(n, k) \/ \E v \in Values : PutStore(n, k, v)
        PROVE  Agreement'
    BY <2>1, PutKeepsInv, OtherWriteKeepsInv
  <2>2. ASSUME NEW h \in handlers, UpdateMapData(h) PROVE Agreement'
    BY <2>2, UpdateKeepsInv
  <2>3. ASSUME NEW r \in received, Apply(r) PROVE Agreement'
    BY <1>5, <2>3, ApplyToTreeKeepsInv, ApplyToStoreKeepsInv DEF Apply
  <2> QED BY <1>2, <1>3, <1>4, <2>1, <2>2, <2>3 DEF Next
<1> QED BY <1>1, <1>6 DEF IInv

LEMMA Invariance == Spec => []IInv
  BY InitIInv, NextIInv, PTL DEF Spec

(* Stores, trees, handlers and goroutines have their types; a comparison   *)
(* is of keys that the tree of its node has, and one goroutine of a node   *)
(* at a time applies an answer.                                            *)
THEOREM TypeCorrect == Spec => []TypeOK
<1>1. IInv => TypeOK
  BY TypedIsTypeOK DEF IInv
<1> QED BY <1>1, Invariance, PTL

(* Where a PUT handler or a goroutine that applies an answer was the last  *)
(* to write a key and the only one while it did, the tree of a node and    *)
(* its redis agree, however these two writes were interleaved with those   *)
(* of other keys, checks, comparisons, panics and crashes.                 *)
THEOREM TreesAgree == Spec => []TreeMatchesStore
<1>1. IInv => TreeMatchesStore
  BY DEF IInv, Agreement
<1> QED BY <1>1, Invariance, PTL
=============================================================================
