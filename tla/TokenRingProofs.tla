-------------------------- MODULE TokenRingProofs --------------------------
(***************************************************************************)
(* What GenTokenSet gives a node that starts, for every number of tokens,  *)
(* every ring and whatever numbers are drawn: NumTokens different ranges.  *)
(* That the flag dup is never reset costs nodes that do not start; it      *)
(* gives no node the wrong tokens.  And what the two loops of              *)
(* GetPreferenceList list, for every greatest id.                          *)
(***************************************************************************)
EXTENDS TokenRing, Loops, FiniteSetTheorems, TLAPS

(* No number is in a list of tokens twice.                                 *)
NoDuplicates(tokens) ==
    \A i, j \in DOMAIN tokens : tokens[i] = tokens[j] => i = j

(* A number is being considered only while tokens are missing, and a node  *)
(* has entries only once it has all of its tokens.                         *)
Complete ==
    \A n \in Nodes :
        /\ randInt[n] # NoNumber => Len(tokenSet[n]) < NumTokens
        /\ Started(n) => Len(tokenSet[n]) = NumTokens

IInv == TypeOK /\ Complete /\ \A n \in Nodes : NoDuplicates(tokenSet[n])

-----------------------------------------------------------------------------
(* Appending a number.                                                     *)
LEMMA AppendNumber ==
    ASSUME NEW S, NEW tokens \in Seq(S), NEW number \in S
    PROVE  /\ Append(tokens, number) \in Seq(S)
           /\ Len(Append(tokens, number)) = Len(tokens) + 1
           /\ Range(Append(tokens, number)) = Range(tokens) \cup {number}
           /\ number \notin Range(tokens) /\ NoDuplicates(tokens)
                => NoDuplicates(Append(tokens, number))
<1> DEFINE new == Append(tokens, number)
<1>1. /\ new \in Seq(S) /\ Len(new) = Len(tokens) + 1
      /\ Len(tokens) \in Nat /\ DOMAIN tokens = 1..Len(tokens)
      /\ DOMAIN new = 1..Len(tokens) + 1
      /\ new[Len(tokens) + 1] = number
      /\ \A i \in 1..Len(tokens) : new[i] = tokens[i]
  OBVIOUS
<1>2. Range(new) = Range(tokens) \cup {number}
  BY <1>1 DEF Range
<1>3. ASSUME number \notin Range(tokens), NoDuplicates(tokens)
      PROVE  NoDuplicates(new)
  BY <1>1, <1>3 DEF Range, NoDuplicates
<1> QED BY <1>1, <1>2, <1>3

(* As many different numbers as the list is long.                          *)
LEMMA CountNumbers ==
    ASSUME NEW S, NEW tokens \in Seq(S), NoDuplicates(tokens)
    PROVE  Cardinality(Range(tokens)) = Len(tokens)
<1>1. /\ DOMAIN tokens = 1..Len(tokens) /\ Len(tokens) \in Nat
      /\ tokens \in [1..Len(tokens) -> Range(tokens)]
  BY DEF Range
<1>2. tokens \in Bijection(1..Len(tokens), Range(tokens))
  BY <1>1 DEF Bijection, Injection, Surjection, IsInjective, NoDuplicates, Range
<1> QED BY <1>1, <1>2, FS_CountingElements DEF ExistsBijection

-----------------------------------------------------------------------------
(* GetPreferenceList.                                                      *)

(* What its loops have listed of ids when they are at last.                *)
ListsUpTo(list, first, last, ids) ==
    /\ list \in Seq(Int)
    /\ Range(list) = ids \cap first..last
    /\ \A i \in 1..Len(list) - 1 : list[i] < list[i + 1]

(* One pass of the loop.                                                   *)
LEMMA ListsOneMore ==
    ASSUME NEW first \in Int, NEW i \in Int, first <= i, NEW ids, NEW list,
           ListsUpTo(list, first, i - 1, ids)
    PROVE  ListsUpTo(IF i \in ids THEN Append(list, i) ELSE list, first, i, ids)
<1>1. /\ list \in Seq(Int) /\ Range(list) = ids \cap first..i - 1
      /\ \A j \in 1..Len(list) - 1 : list[j] < list[j + 1]
  BY DEF ListsUpTo
<1>2. first..i = first..i - 1 \cup {i}
  OBVIOUS
<1>3. CASE i \notin ids
  BY <1>1, <1>2, <1>3 DEF ListsUpTo
<1>4. CASE i \in ids
  <2> DEFINE new == Append(list, i)
  <2>1. new \in Seq(Int) /\ Len(new) = Len(list) + 1 /\ Range(new) = Range(list) \cup {i}
    BY <1>1, AppendNumber
  <2>2. /\ Len(list) \in Nat /\ DOMAIN list = 1..Len(list)
        /\ new[Len(list) + 1] = i /\ \A j \in 1..Len(list) : new[j] = list[j]
    BY <1>1
  <2>3. \A j \in 1..Len(list) : list[j] \in Int /\ list[j] < i
    <3>1. \A j \in 1..Len(list) : list[j] \in Range(list)
      BY <2>2 DEF Range
    <3> QED BY <1>1, <3>1
  <2> HIDE DEF new
  <2>4. \A j \in 1..Len(new) - 1 : new[j] < new[j + 1]
    <3> TAKE j \in 1..Len(new) - 1
    <3>1. j \in 1..Len(list) /\ new[j] = list[j]
      BY <2>1, <2>2
    <3>2. CASE j = Len(list)
      BY <2>2, <2>3, <3>1, <3>2
    <3>3. CASE j # Len(list)
      <4>1. j \in 1..Len(list) - 1 /\ j + 1 \in 1..Len(list)
        <5>1. Len(list) \in Nat
          BY <2>2
        <5> QED BY <3>1, <3>3, <5>1
      <4>2. list[j] < list[j + 1]
        BY <1>1, <4>1
      <4>3. new[j + 1] = list[j + 1]
        BY <2>2, <4>1
      <4> QED BY <3>1, <4>2, <4>3
    <3> QED BY <3>2, <3>3
  <2>5. Range(new) = ids \cap first..i
    BY <1>1, <1>2, <1>4, <2>1
  <2>6. ListsUpTo(new, first, i, ids)
    BY <2>1, <2>4, <2>5 DEF ListsUpTo
  <2> QED BY <1>4, <2>6 DEF new
<1> QED BY <1>3, <1>4

(* The loop lists the ids from first to last, in order.                    *)
LEMMA ListedIds ==
    ASSUME NEW first \in Int, NEW last \in Int, first - 1 <= last, NEW ids
    PROVE  ListsUpTo(Listed(first, last, ids), first, last, ids)
<1> DEFINE step == [p \in Seq(Int) \X Int |-> IF p[2] \in ids THEN Append(p[1], p[2]) ELSE p[1]]
<1>1. /\ step \in [Seq(Int) \X Int -> Seq(Int)]
      /\ \A s \in Seq(Int), i \in Int : step[<<s, i>>] = IF i \in ids THEN Append(s, i) ELSE s
  OBVIOUS
<1> HIDE DEF step
<1>2. PICK f \in [first - 1..last -> Seq(Int)] : Follows(f, first - 1, last, <<>>, step)
  <2>1. first - 1 \in Int /\ <<>> \in Seq(Int)
    OBVIOUS
  <2> QED BY <1>1, <2>1, Recursion
<1>3. f[first - 1] = <<>>
  BY <1>2 DEF Follows
<1>4. ASSUME NEW i \in first..last
      PROVE  f[i] = IF i \in ids THEN Append(f[i - 1], i) ELSE f[i - 1]
  <2>1. i \in first - 1 + 1..last /\ i - 1 \in first - 1..last
    OBVIOUS
  <2>2. f[i] = step[<<f[i - 1], i>>]
    BY <1>2, <2>1 DEF Follows
  <2>3. f[i - 1] \in Seq(Int) /\ i \in Int
    BY <2>1
  <2> QED BY <1>1, <2>2, <2>3
<1>5. f = [i \in first - 1..last |-> IF i = first - 1 THEN <<>>
              ELSE IF i \in ids THEN Append(f[i - 1], i) ELSE f[i - 1]]
  <2>1. ASSUME NEW i \in first - 1..last
        PROVE  f[i] = IF i = first - 1 THEN <<>>
                      ELSE IF i \in ids THEN Append(f[i - 1], i) ELSE f[i - 1]
    <3>1. i = first - 1 \/ i \in first..last
      OBVIOUS
    <3>2. i \in first..last => i # first - 1
      OBVIOUS
    <3> QED BY <1>3, <1>4, <3>1, <3>2
  <2>2. f = [i \in first - 1..last |-> f[i]]
    OBVIOUS
  <2> QED BY <2>1, <2>2, Zenon
<1> DEFINE list[i \in first - 1..last] ==
               IF i = first - 1 THEN <<>>
               ELSE IF i \in ids THEN Append(list[i - 1], i) ELSE list[i - 1]
<1>6. list = [i \in first - 1..last |-> IF i = first - 1 THEN <<>>
                 ELSE IF i \in ids THEN Append(list[i - 1], i) ELSE list[i - 1]]
  BY <1>5, Zenon
<1>7. Listed(first, last, ids) = list[last]
  BY DEF Listed
<1> HIDE DEF list
<1>8. list[first - 1] = <<>>
  <2>1. first - 1 \in first - 1..last
    OBVIOUS
  <2> QED BY <1>6, <2>1
<1>9. ASSUME NEW i \in first..last
      PROVE  list[i] = IF i \in ids THEN Append(list[i - 1], i) ELSE list[i - 1]
  <2>1. i \in first - 1..last /\ i # first - 1
    OBVIOUS
  <2> QED BY <1>6, <2>1
<1> DEFINE Good == {i \in first - 1..last : ListsUpTo(list[i], first, i, ids)}
<1>10. first - 1 \in Good
  <2>1. first..first - 1 = {} /\ first - 1 \in first - 1..last
    OBVIOUS
  <2>2. <<>> \in Seq(Int) /\ Range(<<>>) = {} /\ Len(<<>>) = 0
    BY DEF Range
  <2>3. ListsUpTo(<<>>, first, first - 1, ids)
    BY <2>1, <2>2 DEF ListsUpTo
  <2> QED BY <1>8, <2>1, <2>3
<1>11. ASSUME NEW i \in first - 1 + 1..last, i - 1 \in Good PROVE i \in Good
  <2>1. i \in first..last /\ i \in first - 1..last /\ first <= i /\ i \in Int
    OBVIOUS
  <2>2. ListsUpTo(list[i - 1], first, i - 1, ids)
    BY <1>11
  <2>3. ListsUpTo(IF i \in ids THEN Append(list[i - 1], i) ELSE list[i - 1], first, i, ids)
    BY <2>1, <2>2, ListsOneMore
  <2> QED BY <1>9, <2>1, <2>3
<1>12. last \in Good
  <2> HIDE DEF Good
  <2>1. first - 1 \in Int /\ last \in first - 1..last
    OBVIOUS
  <2> QED BY <1>10, <1>11, <2>1, LoopInduction
<1> QED BY <1>7, <1>12

-----------------------------------------------------------------------------
LEMMA InitIInv == Init => IInv
<1> SUFFICES ASSUME Init PROVE IInv
  OBVIOUS
<1>1. <<>> \in Seq(Numbers) /\ Len(<<>>) = 0 /\ DOMAIN <<>> = {}
  OBVIOUS
<1>2. TypeOK
  BY <1>1, RingAssumption DEF Init, TypeOK, NoNumber
<1>3. Complete
  BY <1>1 DEF Init, Complete, Started
<1>4. \A n \in Nodes : NoDuplicates(tokenSet[n])
  BY <1>1 DEF Init, NoDuplicates
<1> QED BY <1>2, <1>3, <1>4 DEF IInv

(* Drawing a number.                                                       *)
LEMMA DrawKeepsIInv ==
    ASSUME IInv, NEW n \in Nodes, Draw(n) \/ Redraw(n)
    PROVE  IInv'
<1>1. PICK number \in Numbers : randInt' = [randInt EXCEPT ![n] = number]
  BY DEF Draw, Redraw
<1>2. dup' \in [Nodes -> BOOLEAN] /\ UNCHANGED <<tokenSet, known, populated, ring>>
  BY DEF Draw, Redraw, IInv, TypeOK, membership
<1>3. Len(tokenSet[n]) < NumTokens
  <2>1. CASE Draw(n)
    BY <2>1 DEF Draw
  <2>2. CASE Redraw(n)
    <3>1. tokenSet[n] \in Seq(Numbers) /\ randInt[n] \in Range(tokenSet[n])
      BY <2>2 DEF Redraw, Assigned, IInv, TypeOK
    <3>2. Range(tokenSet[n]) \subseteq Numbers
      BY <3>1 DEF Range
    <3>3. randInt[n] # NoNumber
      BY <3>1, <3>2, RingAssumption DEF Numbers, NoNumber
    <3> QED BY <3>3 DEF IInv, Complete
  <2> QED BY <2>1, <2>2
<1>4. TypeOK'
  BY <1>1, <1>2 DEF IInv, TypeOK
<1>5. Complete'
  BY <1>1, <1>2, <1>3 DEF IInv, TypeOK, Complete, Started
<1> QED BY <1>2, <1>4, <1>5 DEF IInv

(* The number considered becomes a token.                                  *)
LEMMA AddTokenKeepsIInv ==
    ASSUME IInv, NEW n \in Nodes, AddToken(n)
    PROVE  IInv'
<1>1. /\ tokenSet[n] \in Seq(Numbers) /\ randInt[n] \in Numbers
      /\ randInt[n] \notin Range(tokenSet[n])
      /\ Len(tokenSet[n]) < NumTokens /\ ~Started(n)
  BY DEF AddToken, Assigned, IInv, TypeOK, Complete
<1> DEFINE new == Append(tokenSet[n], randInt[n])
<1>2. /\ new \in Seq(Numbers) /\ Len(new) = Len(tokenSet[n]) + 1
      /\ Range(new) = Range(tokenSet[n]) \cup {randInt[n]}
      /\ NoDuplicates(new)
  BY <1>1, AppendNumber DEF IInv
<1>3. /\ tokenSet' = [tokenSet EXCEPT ![n] = new]
      /\ randInt' = [randInt EXCEPT ![n] = NoNumber]
      /\ UNCHANGED <<dup, known, populated, ring>>
  BY DEF AddToken, membership
<1>4. Len(tokenSet[n]) \in Nat /\ NumTokens \in Nat
  BY <1>1, RingAssumption
<1> HIDE DEF new
<1>5. \A k \in Nodes : Range(tokenSet[k]) \subseteq Range(tokenSet'[k])
  BY <1>2, <1>3 DEF IInv, TypeOK
<1>6. TypeOK'
  <2>1. /\ tokenSet' \in [Nodes -> Seq(Numbers)]
        /\ \A k \in Nodes : Len(tokenSet'[k]) <= NumTokens
    BY <1>1, <1>2, <1>3, <1>4 DEF IInv, TypeOK
  <2>2. randInt' \in [Nodes -> Numbers \cup {NoNumber}]
    BY <1>3 DEF IInv, TypeOK
  <2> QED BY <1>3, <1>5, <2>1, <2>2 DEF IInv, TypeOK
<1>7. Complete'
  BY <1>1, <1>3 DEF IInv, TypeOK, Complete, Started
<1>8. \A k \in Nodes : NoDuplicates(tokenSet'[k])
  BY <1>2, <1>3 DEF IInv, TypeOK
<1> QED BY <1>6, <1>7, <1>8 DEF IInv

(* One node's maps get new entries.                                        *)
LEMMA EntriesKeepIInv ==
    ASSUME IInv, NEW n \in Nodes, UNCHANGED generation,
           populated' \in [Nodes -> BOOLEAN],
           DOMAIN known' = Nodes, DOMAIN ring' = Nodes,
           \A m \in Nodes \ {n} : known'[m] = known[m] /\ ring'[m] = ring[m],
           DOMAIN known'[n] \subseteq Nodes,
           DOMAIN known'[n] # {} => Len(tokenSet[n]) = NumTokens,
           \A start \in DOMAIN ring'[n] :
               /\ ring'[n][start] \in DOMAIN known'[n]
               /\ start \in Range(tokenSet[ring'[n][start]])
    PROVE  IInv'
<1>1. UNCHANGED <<tokenSet, randInt, dup>>
  BY DEF generation
<1>2. TypeOK'
  <2>1. \A m \in Nodes :
            /\ DOMAIN known'[m] \subseteq Nodes
            /\ \A start \in DOMAIN ring'[m] :
                   /\ ring'[m][start] \in DOMAIN known'[m]
                   /\ start \in Range(tokenSet[ring'[m][start]])
    BY DEF IInv, TypeOK
  <2> QED BY <1>1, <2>1 DEF IInv, TypeOK
<1>3. Complete'
  BY <1>1 DEF IInv, TypeOK, Complete, Started
<1> QED BY <1>1, <1>2, <1>3 DEF IInv

(* The ranges of a node's tokens have that node as their owner.            *)
LEMMA RangesOwned ==
    ASSUME NEW map, NEW node, NEW domain,
           \A start \in DOMAIN map :
               map[start] \in domain /\ start \in Range(tokenSet[map[start]])
    PROVE  \A start \in DOMAIN WithRanges(map, node) :
               /\ WithRanges(map, node)[start] \in domain \cup {node}
               /\ start \in Range(tokenSet[WithRanges(map, node)[start]])
BY DEF WithRanges

(* Start-up and gossip.                                                    *)
LEMMA MapsKeepIInv ==
    ASSUME IInv, NEW n \in Nodes,
           \/ Start(n)
           \/ Populate(n)
           \/ \E k \in Nodes : AdoptComplete(n, k) \/ AdoptSeed(n, k)
    PROVE  IInv'
<1> USE DEF IInv
<1>1. /\ DOMAIN known = Nodes /\ DOMAIN ring = Nodes
      /\ DOMAIN known[n] \subseteq Nodes
      /\ Started(n) => Len(tokenSet[n]) = NumTokens
      /\ \A start \in DOMAIN ring[n] :
             ring[n][start] \in DOMAIN known[n] /\ start \in Range(tokenSet[ring[n][start]])
  BY DEF TypeOK, Complete
<1>2. CASE Start(n)
  <2> DEFINE map == WithEntry(known[n], n, TRUE)
             owners == WithRanges(ring[n], n)
  <2>1. /\ known' = [known EXCEPT ![n] = map] /\ ring' = [ring EXCEPT ![n] = owners]
        /\ UNCHANGED generation /\ populated' \in [Nodes -> BOOLEAN]
        /\ Len(tokenSet[n]) = NumTokens
    BY <1>2 DEF Start, TypeOK
  <2>2. DOMAIN map = DOMAIN known[n] \cup {n}
    BY DEF WithEntry
  <2>3. \A start \in DOMAIN owners :
            owners[start] \in DOMAIN map /\ start \in Range(tokenSet[owners[start]])
    BY <1>1, <2>2, RangesOwned
  <2> HIDE DEF map, owners
  <2>4. /\ DOMAIN known' = Nodes /\ DOMAIN ring' = Nodes
        /\ known'[n] = map /\ ring'[n] = owners
        /\ \A m \in Nodes \ {n} : known'[m] = known[m] /\ ring'[m] = ring[m]
    BY <1>1, <2>1
  <2> QED BY <1>1, <2>1, <2>2, <2>3, <2>4, EntriesKeepIInv
<1>3. ASSUME NEW map, known' = [known EXCEPT ![n] = map], UNCHANGED ring,
             DOMAIN known[n] \subseteq DOMAIN map, DOMAIN map \subseteq Nodes,
             Started(n), UNCHANGED generation, populated' \in [Nodes -> BOOLEAN]
      PROVE  IInv'
  <2>1. /\ DOMAIN known' = Nodes /\ known'[n] = map
        /\ \A m \in Nodes \ {n} : known'[m] = known[m]
    BY <1>1, <1>3
  <2> QED BY <1>1, <1>3, <2>1, EntriesKeepIInv
<1>4. CASE Populate(n)
  <2> DEFINE map == [k \in DOMAIN known[n] \cup Seeds |->
                        IF k \in Seeds THEN FALSE ELSE known[n][k]]
  <2>1. /\ known' = [known EXCEPT ![n] = map] /\ UNCHANGED ring
        /\ UNCHANGED generation /\ populated' \in [Nodes -> BOOLEAN]
        /\ Started(n)
    BY <1>4 DEF Populate, TypeOK
  <2>2. DOMAIN map = DOMAIN known[n] \cup Seeds
    OBVIOUS
  <2> HIDE DEF map
  <2> QED BY <1>1, <1>3, <2>1, <2>2, NodesAssumption
<1>5. ASSUME NEW k \in Nodes, AdoptComplete(n, k) PROVE IInv'
  <2> DEFINE map == WithEntry(known[n], k, TRUE)
             owners == WithRanges(ring[n], k)
  <2>1. /\ known' = [known EXCEPT ![n] = map]
        /\ UNCHANGED generation /\ populated' \in [Nodes -> BOOLEAN]
        /\ Started(n)
        /\ ring' = [ring EXCEPT ![n] = owners] \/ UNCHANGED ring
    BY <1>5 DEF AdoptComplete, TypeOK
  <2>2. DOMAIN map = DOMAIN known[n] \cup {k}
    BY DEF WithEntry
  <2>3. \A start \in DOMAIN owners :
            owners[start] \in DOMAIN map /\ start \in Range(tokenSet[owners[start]])
    BY <1>1, <2>2, RangesOwned
  <2> HIDE DEF map, owners
  <2>4. CASE ring' = [ring EXCEPT ![n] = owners]
    <3>1. /\ DOMAIN known' = Nodes /\ DOMAIN ring' = Nodes
          /\ known'[n] = map /\ ring'[n] = owners
          /\ \A m \in Nodes \ {n} : known'[m] = known[m] /\ ring'[m] = ring[m]
      BY <1>1, <2>1, <2>4
    <3> QED BY <1>1, <2>1, <2>2, <2>3, <3>1, EntriesKeepIInv
  <2>5. CASE UNCHANGED ring
    BY <1>1, <1>3, <2>1, <2>2, <2>5
  <2> QED BY <2>1, <2>4, <2>5
<1>6. ASSUME NEW k \in Nodes, AdoptSeed(n, k) PROVE IInv'
  <2> DEFINE map == WithEntry(known[n], k, FALSE)
  <2>1. /\ known' = [known EXCEPT ![n] = map] /\ UNCHANGED ring
        /\ UNCHANGED generation /\ populated' \in [Nodes -> BOOLEAN]
        /\ Started(n)
    BY <1>6 DEF AdoptSeed, TypeOK
  <2>2. DOMAIN map = DOMAIN known[n] \cup {k}
    BY DEF WithEntry
  <2> HIDE DEF map
  <2> QED BY <1>1, <1>3, <2>1, <2>2
<1> QED BY <1>2, <1>4, <1>5, <1>6

LEMMA NextIInv == IInv /\ [Next]_vars => IInv'
<1> SUFFICES ASSUME IInv, [Next]_vars PROVE IInv'
  OBVIOUS
<1>1. ASSUME NEW n \in Nodes, Draw(n) \/ Redraw(n) PROVE IInv'
  BY <1>1, DrawKeepsIInv
<1>2. ASSUME NEW n \in Nodes, AddToken(n) PROVE IInv'
  BY <1>2, AddTokenKeepsIInv
<1>3. ASSUME NEW n \in Nodes,
             \/ Start(n)
             \/ Populate(n)
             \/ \E k \in Nodes : AdoptComplete(n, k) \/ AdoptSeed(n, k)
      PROVE  IInv'
  BY <1>3, MapsKeepIInv
<1>4. CASE UNCHANGED vars
  BY <1>4 DEF vars, IInv, TypeOK, Complete, Started
<1> QED BY <1>1, <1>2, <1>3, <1>4 DEF Next

-----------------------------------------------------------------------------
(* The variables keep their types; in particular every range in a ring     *)
(* belongs to a node that is known, and is one of its tokens.              *)
THEOREM TypeCorrect == Spec => []TypeOK
<1>1. IInv => TypeOK
  BY DEF IInv
<1> QED BY <1>1, InitIInv, NextIInv, PTL DEF Spec

(* A node that starts has NumTokens different ranges, whatever was drawn.  *)
THEOREM DifferentTokens == Spec => []TokensDistinct
<1>1. ASSUME IInv PROVE TokensDistinct
  <2> SUFFICES ASSUME NEW n \in Nodes, Started(n)
               PROVE  Cardinality(Range(tokenSet[n])) = NumTokens
    BY DEF TokensDistinct
  <2>1. /\ tokenSet[n] \in Seq(Numbers) /\ NoDuplicates(tokenSet[n])
        /\ Len(tokenSet[n]) = NumTokens
    BY <1>1 DEF IInv, TypeOK, Complete
  <2> QED BY <2>1, CountNumbers
<1> QED BY <1>1, InitIInv, NextIInv, PTL DEF Spec
(* x comes before y when one goes round the ring from the primary node.    *)
Nearer(x, y, primary) ==
    (x - primary) % (MaxId + 1) < (y - primary) % (MaxId + 1)

(* The ids after the primary node come in order, then those before it.     *)
LEMMA Distances ==
    ASSUME NEW primary \in 0..MaxId, NEW x \in 0..MaxId, NEW y \in 0..MaxId,
           \/ x < y /\ (x >= primary \/ y < primary)
           \/ x >= primary /\ y < primary
    PROVE  Nearer(x, y, primary)
<1>1. MaxId \in Nat
  BY RingAssumption
<1>2. ASSUME NEW id \in 0..MaxId
      PROVE  /\ id >= primary => (id - primary) % (MaxId + 1) = id - primary
             /\ id < primary => (id - primary) % (MaxId + 1) = id - primary + MaxId + 1
  <2>1. CASE id >= primary
    <3>1. id - primary \in 0..MaxId
      BY <1>1, <2>1
    <3>2. \A a \in 0..MaxId : a % (MaxId + 1) = a
      BY <1>1
    <3> QED BY <2>1, <3>1, <3>2
  <2>2. CASE id < primary
    <3>1. PICK a \in 1..MaxId : a = primary - id
      BY <1>1, <2>2
    <3>2. (0 - a) % (MaxId + 1) = MaxId + 1 - a
      BY <1>1
    <3>3. id - primary = 0 - a /\ MaxId + 1 - a = id - primary + MaxId + 1
      BY <1>1, <3>1
    <3>4. ~(id >= primary)
      BY <2>2
    <3> QED BY <3>2, <3>3, <3>4
  <2> QED BY <2>1, <2>2
<1>3. PICK c \in Int, d \in Int :
          c = (x - primary) % (MaxId + 1) /\ d = (y - primary) % (MaxId + 1)
  BY <1>1
<1>4. c < d
  BY <1>1, <1>2, <1>3
<1> QED BY <1>3, <1>4 DEF Nearer

(* Two loops, the second of which goes on from where the first began.      *)
LEMMA RoundTheRing ==
    ASSUME NEW primary \in 0..MaxId, NEW ids \in SUBSET (0..MaxId), NEW a, NEW b,
           ListsUpTo(a, primary + 1, MaxId, ids), ListsUpTo(b, 0, primary - 1, ids)
    PROVE  /\ Range(a \o b) = ids \ {primary}
           /\ \A i \in 1..Len(a \o b) - 1 : Nearer((a \o b)[i], (a \o b)[i + 1], primary)
<1> DEFINE list == a \o b
<1>1. /\ a \in Seq(Int) /\ Range(a) = ids \cap primary + 1..MaxId
      /\ \A i \in 1..Len(a) - 1 : a[i] < a[i + 1]
      /\ b \in Seq(Int) /\ Range(b) = ids \cap 0..primary - 1
      /\ \A i \in 1..Len(b) - 1 : b[i] < b[i + 1]
  BY DEF ListsUpTo
<1>2. /\ Len(a) \in Nat /\ Len(b) \in Nat /\ Len(list) = Len(a) + Len(b)
      /\ DOMAIN a = 1..Len(a) /\ DOMAIN b = 1..Len(b) /\ DOMAIN list = 1..Len(a) + Len(b)
      /\ \A i \in 1..Len(a) : list[i] = a[i]
      /\ \A i \in Len(a) + 1..Len(a) + Len(b) : list[i] = b[i - Len(a)]
  BY <1>1
<1> HIDE DEF list
<1>3. \A i \in 1..Len(a) : a[i] \in ids \cap primary + 1..MaxId
  BY <1>1, <1>2 DEF Range
<1>4. \A i \in 1..Len(b) : b[i] \in ids \cap 0..primary - 1
  BY <1>1, <1>2 DEF Range
<1>5. Range(list) = Range(a) \cup Range(b)
  <2>1. Range(list) \subseteq Range(a) \cup Range(b)
    <3> SUFFICES ASSUME NEW i \in 1..Len(a) + Len(b)
                 PROVE  list[i] \in Range(a) \cup Range(b)
      BY <1>2 DEF Range
    <3>1. CASE i \in 1..Len(a)
      BY <1>2, <3>1 DEF Range
    <3>2. CASE i \notin 1..Len(a)
      <4>1. i \in Len(a) + 1..Len(a) + Len(b) /\ i - Len(a) \in 1..Len(b)
        BY <1>2, <3>2
      <4> QED BY <1>2, <4>1 DEF Range
    <3> QED BY <3>1, <3>2
  <2>2. Range(a) \subseteq Range(list)
    <3>1. \A i \in 1..Len(a) : i \in 1..Len(a) + Len(b)
      BY <1>2
    <3> QED BY <1>2, <3>1 DEF Range
  <2>3. Range(b) \subseteq Range(list)
    <3>1. ASSUME NEW i \in 1..Len(b) PROVE b[i] \in Range(list)
      <4>1. /\ Len(a) + i \in Len(a) + 1..Len(a) + Len(b)
            /\ Len(a) + i \in 1..Len(a) + Len(b) /\ Len(a) + i - Len(a) = i
        BY <1>2
      <4>2. list[Len(a) + i] = b[i]
        BY <1>2, <4>1
      <4> QED BY <1>2, <4>1, <4>2 DEF Range
    <3> QED BY <1>2, <3>1 DEF Range
  <2> QED BY <2>1, <2>2, <2>3
<1>6. Range(list) = ids \ {primary}
  <2>1. \A id \in ids : id \in primary + 1..MaxId \/ id \in 0..primary - 1 \/ id = primary
    OBVIOUS
  <2>2. primary \notin primary + 1..MaxId /\ primary \notin 0..primary - 1
    OBVIOUS
  <2> QED BY <1>1, <1>5, <2>1, <2>2
<1>7. ASSUME NEW i \in 1..Len(list) - 1
      PROVE  Nearer(list[i], list[i + 1], primary)
  <2>1. MaxId \in Nat /\ i \in Int /\ i < Len(a) + Len(b) /\ 1 <= i
    BY <1>2, RingAssumption
  <2>2. CASE i + 1 <= Len(a)
    <3>1. i \in 1..Len(a) - 1 /\ i \in 1..Len(a) /\ i + 1 \in 1..Len(a)
      BY <1>2, <2>1, <2>2
    <3>2. /\ list[i] = a[i] /\ list[i + 1] = a[i + 1] /\ a[i] < a[i + 1]
          /\ a[i] \in primary + 1..MaxId /\ a[i + 1] \in primary + 1..MaxId
      BY <1>1, <1>2, <1>3, <3>1
    <3>3. a[i] \in 0..MaxId /\ a[i + 1] \in 0..MaxId /\ a[i] >= primary
      BY <2>1, <3>2
    <3> QED BY <3>2, <3>3, Distances
  <2>3. CASE i = Len(a)
    <3>1. /\ i \in 1..Len(a) /\ i + 1 \in Len(a) + 1..Len(a) + Len(b)
          /\ i + 1 - Len(a) = 1 /\ 1 \in 1..Len(b)
      BY <1>2, <2>1, <2>3
    <3>2. /\ list[i] = a[i] /\ list[i + 1] = b[1]
          /\ a[i] \in primary + 1..MaxId /\ b[1] \in 0..primary - 1
      BY <1>2, <1>3, <1>4, <3>1
    <3>3. a[i] \in 0..MaxId /\ b[1] \in 0..MaxId /\ a[i] >= primary /\ b[1] < primary
      BY <2>1, <3>2
    <3> QED BY <3>2, <3>3, Distances
  <2>4. CASE i > Len(a)
    <3>1. PICK j \in Int : j = i - Len(a)
      BY <1>2, <2>1
    <3>2. /\ i \in Len(a) + 1..Len(a) + Len(b) /\ i + 1 \in Len(a) + 1..Len(a) + Len(b)
          /\ j \in 1..Len(b) - 1 /\ j \in 1..Len(b) /\ j + 1 \in 1..Len(b)
          /\ i - Len(a) = j /\ i + 1 - Len(a) = j + 1
      BY <1>2, <2>1, <2>4, <3>1
    <3>3. /\ list[i] = b[j] /\ list[i + 1] = b[j + 1] /\ b[j] < b[j + 1]
          /\ b[j] \in 0..primary - 1 /\ b[j + 1] \in 0..primary - 1
      <4>1. list[i] = b[i - Len(a)] /\ list[i + 1] = b[i + 1 - Len(a)]
        BY <1>2, <3>2
      <4>2. list[i] = b[j] /\ list[i + 1] = b[j + 1]
        BY <3>2, <4>1
      <4>3. b[j] < b[j + 1]
        BY <1>1, <3>2
      <4>4. b[j] \in 0..primary - 1 /\ b[j + 1] \in 0..primary - 1
        BY <1>4, <3>2
      <4> QED BY <4>2, <4>3, <4>4
    <3>4. b[j] \in 0..MaxId /\ b[j + 1] \in 0..MaxId /\ b[j + 1] < primary
      BY <2>1, <3>3
    <3> QED BY <3>3, <3>4, Distances
  <2>5. i + 1 <= Len(a) \/ i = Len(a) \/ i > Len(a)
    <3>1. i \in Int /\ Len(a) \in Nat
      BY <1>2, <2>1
    <3> QED BY <3>1
  <2> QED BY <2>2, <2>3, <2>4, <2>5
<1> QED BY <1>6, <1>7 DEF list

(* However many ids there are, and whoever is down, the preference list    *)
(* goes round the ring once from the primary node.                         *)
THEOREM ListsGoRound == Spec => []PreferenceOrder
<1>1. ASSUME IInv PROVE PreferenceOrder
  <2> SUFFICES ASSUME NEW n \in Nodes, NEW start \in 0..MaxStart,
                      NEW down \in SUBSET DOMAIN known[n]
               PROVE  LET list == GetPreferenceList(n, start, down)
                          distance(id) == (id - PrimaryNode(n, start)) % (MaxId + 1)
                      IN  /\ Range(list) = NodeMapIds(n, down) \ {PrimaryNode(n, start)}
                          /\ \A i \in 1..Len(list) - 1 : distance(list[i]) < distance(list[i + 1])
    BY DEF PreferenceOrder
  <2> DEFINE primary == PrimaryNode(n, start)
             ids == NodeMapIds(n, down)
             a == Listed(primary + 1, MaxId, ids)
             b == Listed(0, primary - 1, ids)
  <2>1. MaxId \in Nat /\ 0 \in 0..MaxId /\ DOMAIN known[n] \subseteq 0..MaxId
    <3>1. DOMAIN known[n] \subseteq Nodes
      BY <1>1 DEF IInv, TypeOK
    <3>2. MaxId \in Nat
      BY RingAssumption
    <3>3. 0 \in 0..MaxId
      BY <3>2
    <3> QED BY <3>1, <3>2, <3>3, NodesAssumption
  <2>2. primary \in 0..MaxId
    <3>1. start \in DOMAIN ring[n] => ring[n][start] \in DOMAIN known[n]
      BY <1>1 DEF IInv, TypeOK
    <3> QED BY <2>1, <3>1 DEF PrimaryNode
  <2>3. ids \in SUBSET (0..MaxId)
    BY <2>1 DEF NodeMapIds
  <2>4. GetPreferenceList(n, start, down) = a \o b
    BY DEF GetPreferenceList
  <2> HIDE DEF primary, ids, a, b
  <2>5. ListsUpTo(a, primary + 1, MaxId, ids)
    <3>1. PICK first \in Int : first = primary + 1
      BY <2>2
    <3>2. MaxId \in Int /\ first - 1 <= MaxId
      BY <2>1, <2>2, <3>1
    <3>3. ListsUpTo(Listed(first, MaxId, ids), first, MaxId, ids)
      BY <3>2, ListedIds
    <3> QED BY <3>1, <3>3 DEF a
  <2>6. ListsUpTo(b, 0, primary - 1, ids)
    <3>1. 0 \in Int /\ primary - 1 \in Int /\ 0 - 1 <= primary - 1
      BY <2>2
    <3>2. ListsUpTo(Listed(0, primary - 1, ids), 0, primary - 1, ids)
      BY <3>1, ListedIds
    <3> QED BY <3>2 DEF b
  <2>7. /\ Range(a \o b) = ids \ {primary}
        /\ \A i \in 1..Len(a \o b) - 1 : Nearer((a \o b)[i], (a \o b)[i + 1], primary)
    BY <2>2, <2>3, <2>5, <2>6, RoundTheRing
  <2> QED BY <2>4, <2>7, Zenon DEF primary, ids, Nearer
<1> QED BY <1>1, InitIInv, NextIInv, PTL DEF Spec
=============================================================================
