------------------------ MODULE VersionedReadsProofs ------------------------
(***************************************************************************)
(* Vector clocks order a version after everything it was derived from, for *)
(* any number of nodes, keys and PUTs.  The lemmas are facts about the     *)
(* operators of DataVersioning; AncestorsAreStale is then inductive        *)
(* together with the shape of the history (History).  That a version is    *)
(* taken for an ancestor only when a count was given twice follows from    *)
(* CountsGiven: every count in a clock was given by the coordinator it     *)
(* belongs to, on the way to that clock.  What a client is given follows   *)
(* from what the two loops of GetResponseDataObjects leave, for any        *)
(* objects, and from what ReadCheck holds (ReadInv).                       *)
(***************************************************************************)
EXTENDS VersionedReads, Loops, SequenceTheorems, FiniteSetTheorems, TLAPS

IsObject(o) == IsClock(o.context, Nodes)

(* A clock counts every node: the ones it does not mention count zero.     *)
LEMMA CounterIsNat ==
    ASSUME NEW clock, IsClock(clock, Nodes), NEW node
    PROVE  /\ Counter(clock, node) \in Nat
           /\ node \in DOMAIN clock => Counter(clock, node) = clock[node]
           /\ node \notin DOMAIN clock => Counter(clock, node) = 0
  BY DEF IsClock, Counter

(* Staleness is transitive, although a counter that is missing from the    *)
(* clock in the middle is read as zero.                                    *)
LEMMA StaleTransitive ==
    ASSUME NEW a, NEW b, NEW c, IsObject(a), IsObject(b), IsObject(c),
           IsStale(a, b), IsStale(b, c)
    PROVE  IsStale(a, c)
<1> SUFFICES ASSUME NEW n \in DOMAIN a.context
             PROVE  a.context[n] <= Counter(c.context, n)
  BY DEF IsStale
<1>1. a.context[n] \in Nat /\ a.context[n] <= Counter(b.context, n)
  BY DEF IsStale, IsObject, IsClock
<1>2. Counter(b.context, n) \in Nat /\ Counter(c.context, n) \in Nat
  BY CounterIsNat DEF IsObject
<1>3. Counter(b.context, n) <= Counter(c.context, n)
  <2>1. CASE n \in DOMAIN b.context
    BY <2>1, CounterIsNat DEF IsStale, IsObject
  <2>2. CASE n \notin DOMAIN b.context
    BY <1>2, <2>2, CounterIsNat DEF IsObject
  <2> QED BY <2>1, <2>2
<1> QED BY <1>1, <1>2, <1>3

(* UpdateVectorClock gives a clock that is strictly newer.                 *)
LEMMA UpdateIsNewer ==
    ASSUME NEW a, NEW b, IsObject(a), NEW node \in Nodes,
           b.context = UpdateVectorClock(node, a.context)
    PROVE  IsObject(b) /\ IsStale(a, b) /\ ~IsStale(b, a)
<1>1. /\ DOMAIN b.context = DOMAIN a.context \cup {node}
      /\ b.context[node] = Counter(a.context, node) + 1
      /\ \A n \in DOMAIN a.context \ {node} : b.context[n] = a.context[n]
  BY DEF UpdateVectorClock
<1>2. Counter(a.context, node) \in Nat
  BY CounterIsNat DEF IsObject
<1>3. IsObject(b)
  BY <1>1, <1>2 DEF IsObject, IsClock
<1>4. IsStale(a, b)
  <2>1. ASSUME NEW n \in DOMAIN a.context
        PROVE  a.context[n] <= Counter(b.context, n)
    BY <1>1, <1>2 DEF Counter, IsObject, IsClock
  <2> QED BY <2>1 DEF IsStale
<1>5. ~IsStale(b, a)
  BY <1>1, <1>2 DEF IsStale
<1> QED BY <1>3, <1>4, <1>5

(* DeConflictDataObjects reports the same conflict for (a, b) as for       *)
(* (b, a), and none between an object and one with the same clock.         *)
LEMMA ConflictIsSymmetric ==
    ASSUME NEW a, NEW b, IsObject(a), IsObject(b)
    PROVE  /\ Conflict(a, b) <=> Conflict(b, a)
           /\ a.context = b.context => ~Conflict(a, b)
<1>1. Conflict(a, b) <=> Conflict(b, a)
  BY DEF Conflict
<1>2. ASSUME a.context = b.context PROVE IsStale(a, b)
  BY <1>2 DEF IsStale, IsObject, IsClock, Counter
<1> QED BY <1>1, <1>2 DEF Conflict

-----------------------------------------------------------------------------
(* What the loops of GetResponseDataObjects have when they end.            *)

(* Maps from keys to objects of O that have that key.                      *)
MapsOf(O) ==
    {map \in UNION {[keys -> O] : keys \in SUBSET {o.key : o \in O}} :
        \A k \in DOMAIN map : map[k].key = k}

(* Storing an object.                                                      *)
LEMMA StoreInMaps ==
    ASSUME NEW O, NEW o \in O, NEW map \in MapsOf(O)
    PROVE  /\ Store(map, o) \in MapsOf(O)
           /\ DOMAIN Store(map, o) = DOMAIN map \cup {o.key}
           /\ Store(map, o)[o.key] = o
<1> DEFINE new == Store(map, o)
           keys == DOMAIN map \cup {o.key}
<1>1. /\ map \in [DOMAIN map -> O] /\ DOMAIN map \subseteq {x.key : x \in O}
      /\ \A k \in DOMAIN map : map[k].key = k
  BY DEF MapsOf
<1>2. new = [k \in keys |-> IF k = o.key THEN o ELSE map[k]]
  BY DEF Store
<1>3. /\ DOMAIN new = keys /\ new[o.key] = o
      /\ \A k \in keys : new[k] \in O /\ new[k].key = k
  BY <1>1, <1>2
<1>4. new \in [keys -> O] /\ keys \in SUBSET {x.key : x \in O}
  BY <1>1, <1>2, <1>3
<1> HIDE DEF new
<1>5. new \in MapsOf(O)
  BY <1>3, <1>4 DEF MapsOf
<1> QED BY <1>3, <1>5 DEF new

(* DeConflictDataObjects stores one of its objects or both, and loses no   *)
(* key.                                                                    *)
LEMMA DeConflictInMaps ==
    ASSUME NEW O, NEW a \in O, NEW b \in O, NEW map \in MapsOf(O)
    PROVE  /\ DeConflictDataObjects(a, b, map) \in MapsOf(O)
           /\ DOMAIN map \subseteq DOMAIN DeConflictDataObjects(a, b, map)
           /\ IsStale(a, b) => b.key \in DOMAIN DeConflictDataObjects(a, b, map)
<1>1. \A o \in O, m \in MapsOf(O) : /\ Store(m, o) \in MapsOf(O)
                                    /\ DOMAIN Store(m, o) = DOMAIN m \cup {o.key}
  BY StoreInMaps
<1> QED BY <1>1 DEF DeConflictDataObjects

(* The inner loop.                                                         *)
LEMMA InnerLoop ==
    ASSUME NEW O, NEW objects \in Seq(O), NEW i \in 1..Len(objects), NEW found \in MapsOf(O)
    PROVE  \E f \in [i..Len(objects) -> MapsOf(O)] :
               /\ WithLater(objects, i, found) = f[Len(objects)]
               /\ f[i] = found
               /\ \A j \in i + 1..Len(objects) :
                      f[j] = DeConflictDataObjects(objects[i], objects[j], f[j - 1])
<1> DEFINE n == Len(objects)
           S == MapsOf(O)
           step == [p \in S \X Int |-> IF p[2] \in 1..n
                                       THEN DeConflictDataObjects(objects[i], objects[p[2]], p[1])
                                       ELSE p[1]]
<1>1. n \in Nat /\ i \in Int /\ i <= n /\ 1 <= i /\ \A j \in 1..n : objects[j] \in O
  OBVIOUS
<1>2. \A s \in S : \A j \in 1..n : DeConflictDataObjects(objects[i], objects[j], s) \in S
  BY <1>1, DeConflictInMaps
<1> HIDE DEF S
<1>3. step \in [S \X Int -> S]
  BY <1>2
<1>4. \A s \in S, j \in 1..n : step[<<s, j>>] = DeConflictDataObjects(objects[i], objects[j], s)
  BY <1>1
<1> HIDE DEF step, n
<1>5. PICK f \in [i..n -> S] : Follows(f, i, n, found, step)
  <2>1. found \in S /\ n \in Int
    BY <1>1 DEF S
  <2> QED BY <1>1, <1>3, <2>1, Recursion
<1>6. f[i] = found
  BY <1>5 DEF Follows
<1>7. ASSUME NEW j \in i + 1..n
      PROVE  f[j] = DeConflictDataObjects(objects[i], objects[j], f[j - 1])
  <2>1. j - 1 \in i..n /\ j \in 1..n
    BY <1>1
  <2>2. f[j] = step[<<f[j - 1], j>>]
    BY <1>5 DEF Follows
  <2>3. f[j - 1] \in S
    BY <2>1
  <2> QED BY <1>4, <2>1, <2>2, <2>3
<1>8. f = [j \in i..n |-> IF j = i THEN found
                          ELSE DeConflictDataObjects(objects[i], objects[j], f[j - 1])]
  <2>1. ASSUME NEW j \in i..n
        PROVE  f[j] = IF j = i THEN found
                      ELSE DeConflictDataObjects(objects[i], objects[j], f[j - 1])
    <3>1. j = i \/ j \in i + 1..n
      BY <1>1
    <3>2. j \in i + 1..n => j # i
      BY <1>1
    <3> QED BY <1>6, <1>7, <3>1, <3>2
  <2>2. f = [j \in i..n |-> f[j]]
    OBVIOUS
  <2> QED BY <2>1, <2>2, Zenon
<1> DEFINE after[j \in i..n] ==
               IF j = i THEN found ELSE DeConflictDataObjects(objects[i], objects[j], after[j - 1])
<1>9. after = [j \in i..n |-> IF j = i THEN found
                              ELSE DeConflictDataObjects(objects[i], objects[j], after[j - 1])]
  BY <1>8, Zenon
<1>10. WithLater(objects, i, found) = after[n]
  BY DEF WithLater, n
<1> HIDE DEF after
<1>11. after[i] = found
  <2>1. i \in i..n
    BY <1>1
  <2> QED BY <1>9, <2>1
<1>12. ASSUME NEW j \in i + 1..n
       PROVE  after[j] = DeConflictDataObjects(objects[i], objects[j], after[j - 1])
  <2>1. j \in i..n /\ j # i
    BY <1>1
  <2> QED BY <1>9, <2>1
<1>13. \A j \in i..n : after[j] \in S
  <2> DEFINE Good == {j \in i..n : after[j] \in S}
  <2>1. i \in Good
    BY <1>1, <1>11 DEF S
  <2>2. ASSUME NEW j \in i + 1..n, j - 1 \in Good PROVE j \in Good
    <3>1. j \in i..n /\ j \in 1..n
      BY <1>1
    <3> QED BY <1>2, <1>12, <2>2, <3>1 DEF n
  <2> HIDE DEF Good
  <2>3. \A j \in i..n : j \in Good
    <3>1. i \in Int /\ n \in Int /\ i <= n
      BY <1>1
    <3> QED BY <2>1, <2>2, <3>1, LoopInduction
  <2> QED BY <2>3 DEF Good
<1>14. after \in [i..n -> S]
  <2>1. DOMAIN after = i..n /\ after = [j \in i..n |-> after[j]]
    BY <1>9
  <2> QED BY <1>13, <2>1
<1> QED BY <1>10, <1>11, <1>12, <1>14 DEF n, S

(* The outer loop: the i-th object has been compared with all later ones.  *)
LEMMA OuterLoop ==
    ASSUME NEW O, NEW objects \in Seq(O), objects # <<>>
    PROVE  \E f \in [0..Len(objects) -> MapsOf(O)] :
               /\ GetResponseDataObjects(objects) = f[Len(objects)]
               /\ \A i \in 1..Len(objects) : f[i] = WithLater(objects, i, f[i - 1])
<1> DEFINE n == Len(objects)
           S == MapsOf(O)
           base == Store(<<>>, objects[1])
           step == [p \in S \X Int |-> IF p[2] \in 1..n THEN WithLater(objects, p[2], p[1]) ELSE p[1]]
<1>1. n \in Nat /\ 0 <= n /\ \A j \in 1..n : objects[j] \in O
  OBVIOUS
<1>2. \A s \in S : \A j \in 1..n : WithLater(objects, j, s) \in S
  <2> SUFFICES ASSUME NEW s \in S, NEW j \in 1..n PROVE WithLater(objects, j, s) \in S
    OBVIOUS
  <2>1. PICK f \in [j..Len(objects) -> MapsOf(O)] : WithLater(objects, j, s) = f[Len(objects)]
    BY InnerLoop
  <2>2. Len(objects) \in j..Len(objects)
    BY <1>1
  <2> QED BY <2>1, <2>2
<1>3. base \in S
  <2>1. objects[1] \in O
    BY <1>1
  <2>2. [k \in {} |-> objects[1]] \in MapsOf(O)
    <3>1. [k \in {} |-> objects[1]] \in [{} -> O]
      OBVIOUS
    <3> QED BY <3>1 DEF MapsOf
  <2>3. Store([k \in {} |-> objects[1]], objects[1]) \in MapsOf(O)
    BY <2>1, <2>2, StoreInMaps
  <2>4. base = Store([k \in {} |-> objects[1]], objects[1])
    BY DEF Store
  <2> QED BY <2>3, <2>4
<1> HIDE DEF S, base
<1>4. /\ step \in [S \X Int -> S]
      /\ \A s \in S, j \in 1..n : step[<<s, j>>] = WithLater(objects, j, s)
  BY <1>1, <1>2
<1> HIDE DEF step, n
<1>5. PICK f \in [0..n -> S] : Follows(f, 0, n, base, step)
  <2>1. 0 \in Int /\ n \in Int
    BY <1>1
  <2> QED BY <1>1, <1>3, <1>4, <2>1, Recursion
<1>6. f[0] = base
  BY <1>5 DEF Follows
<1>7. ASSUME NEW i \in 1..n
      PROVE  f[i] = WithLater(objects, i, f[i - 1])
  <2>1. i - 1 \in 0..n /\ i \in 0 + 1..n
    BY <1>1
  <2>2. f[i] = step[<<f[i - 1], i>>]
    BY <1>5, <2>1 DEF Follows
  <2>3. f[i - 1] \in S
    BY <2>1
  <2> QED BY <1>4, <2>2, <2>3
<1>8. f = [i \in 0..n |-> IF i = 0 THEN base ELSE WithLater(objects, i, f[i - 1])]
  <2>1. ASSUME NEW i \in 0..n
        PROVE  f[i] = IF i = 0 THEN base ELSE WithLater(objects, i, f[i - 1])
    <3>1. i = 0 \/ i \in 1..n
      BY <1>1
    <3>2. i \in 1..n => i # 0
      BY <1>1
    <3> QED BY <1>6, <1>7, <3>1, <3>2
  <2>2. f = [i \in 0..n |-> f[i]]
    OBVIOUS
  <2> QED BY <2>1, <2>2, Zenon
<1> DEFINE after[i \in 0..n] ==
               IF i = 0 THEN base ELSE WithLater(objects, i, after[i - 1])
<1>9. after = [i \in 0..n |-> IF i = 0 THEN base ELSE WithLater(objects, i, after[i - 1])]
  BY <1>8, Zenon
<1>10. GetResponseDataObjects(objects) = after[n]
  BY DEF GetResponseDataObjects, n, base
<1> HIDE DEF after
<1>11. after[0] = base
  <2>1. 0 \in 0..n
    BY <1>1
  <2> QED BY <1>9, <2>1
<1>12. ASSUME NEW i \in 1..n
       PROVE  after[i] = WithLater(objects, i, after[i - 1])
  <2>1. i \in 0..n /\ i # 0
    BY <1>1
  <2> QED BY <1>9, <2>1
<1>13. \A i \in 0..n : after[i] \in S
  <2> DEFINE Good == {i \in 0..n : after[i] \in S}
  <2>1. 0 \in Good
    BY <1>1, <1>3, <1>11
  <2>2. ASSUME NEW i \in 0 + 1..n, i - 1 \in Good PROVE i \in Good
    <3>1. i \in 0..n /\ i \in 1..n
      BY <1>1
    <3> QED BY <1>2, <1>12, <2>2, <3>1 DEF n
  <2> HIDE DEF Good
  <2>3. \A i \in 0..n : i \in Good
    <3>1. 0 \in Int /\ n \in Int
      BY <1>1
    <3> QED BY <1>1, <2>1, <2>2, <3>1, LoopInduction
  <2> QED BY <2>3 DEF Good
<1>14. after \in [0..n -> S]
  <2>1. after = [i \in 0..n |-> after[i]]
    BY <1>9
  <2> QED BY <1>13, <2>1
<1> QED BY <1>10, <1>12, <1>14 DEF n, S


(* The result has the key of every object after the first, as the first,   *)
(* with no context, is stale to all; and the last pair has the last word.  *)
LEMMA ResponseObjects ==
    ASSUME NEW O, NEW objects \in Seq(O), Len(objects) >= 2,
           DOMAIN objects[1].context = {}
    PROVE  LET n == Len(objects) IN
           \E map \in MapsOf(O) :
               /\ GetResponseDataObjects(objects)
                      = DeConflictDataObjects(objects[n - 1], objects[n], map)
               /\ \A j \in 2..n : objects[j].key \in DOMAIN GetResponseDataObjects(objects)
<1> DEFINE n == Len(objects)
           S == MapsOf(O)
<1>1. n \in Nat /\ 2 <= n /\ objects # <<>> /\ \A j \in 1..n : objects[j] \in O
  OBVIOUS
<1>2. ASSUME NEW i \in 1..n, NEW s \in S
      PROVE  /\ WithLater(objects, i, s) \in S
             /\ DOMAIN s \subseteq DOMAIN WithLater(objects, i, s)
             /\ i = 1 => \A j \in 2..n : objects[j].key \in DOMAIN WithLater(objects, i, s)
             /\ i = n => WithLater(objects, i, s) = s
             /\ i = n - 1 => WithLater(objects, i, s)
                                 = DeConflictDataObjects(objects[n - 1], objects[n], s)
  <2>1. PICK f \in [i..n -> S] :
            /\ WithLater(objects, i, s) = f[n]
            /\ f[i] = s
            /\ \A j \in i + 1..n : f[j] = DeConflictDataObjects(objects[i], objects[j], f[j - 1])
    BY InnerLoop
  <2>2. n \in Int /\ i \in Int /\ i <= n /\ n \in i..n /\ i \in 1..n
    BY <1>1
  <2>3. ASSUME NEW j \in i + 1..n
        PROVE  /\ DOMAIN f[j - 1] \subseteq DOMAIN f[j]
               /\ IsStale(objects[i], objects[j]) => objects[j].key \in DOMAIN f[j]
    <3>1. j - 1 \in i..n /\ j \in 1..n
      BY <2>2
    <3>2. f[j - 1] \in S /\ objects[i] \in O /\ objects[j] \in O
      BY <1>1, <2>2, <3>1
    <3>3. f[j] = DeConflictDataObjects(objects[i], objects[j], f[j - 1])
      BY <2>1
    <3> QED BY <3>2, <3>3, DeConflictInMaps
  <2> HIDE DEF n, S
  <2>4. DOMAIN s \subseteq DOMAIN f[n]
    <3> DEFINE Good == {j \in i..n : DOMAIN s \subseteq DOMAIN f[j]}
    <3>1. i \in Good
      BY <2>1, <2>2
    <3>2. ASSUME NEW j \in i + 1..n, j - 1 \in Good PROVE j \in Good
      <4>1. j \in i..n
        BY <2>2
      <4> QED BY <2>3, <3>2, <4>1
    <3> HIDE DEF Good
    <3>3. \A j \in i..n : j \in Good
      BY <2>2, <3>1, <3>2, LoopInduction
    <3> QED BY <2>2, <3>3 DEF Good
  <2>5. ASSUME i = 1, NEW j \in 2..n PROVE objects[j].key \in DOMAIN f[n]
    <3> DEFINE Good == {k \in j..n : objects[j].key \in DOMAIN f[k]}
    <3>1. j \in Int /\ j \in i + 1..n /\ j <= n /\ n \in j..n /\ j \in j..n
      BY <1>1, <2>5
    <3>2. j \in Good
      <4>1. IsStale(objects[i], objects[j])
        BY <2>5 DEF IsStale
      <4> QED BY <2>3, <3>1, <4>1
    <3>3. ASSUME NEW k \in j + 1..n, k - 1 \in Good PROVE k \in Good
      <4>1. k \in j..n /\ k \in i + 1..n
        BY <2>2, <3>1
      <4> QED BY <2>3, <3>3, <4>1
    <3> HIDE DEF Good
    <3>4. \A k \in j..n : k \in Good
      BY <2>2, <3>1, <3>2, <3>3, LoopInduction
    <3> QED BY <3>1, <3>4 DEF Good
  <2>6. f[n] \in S
    BY <2>2
  <2>7. ASSUME i = n - 1 PROVE f[n] = DeConflictDataObjects(objects[n - 1], objects[n], s)
    <3>1. n \in i + 1..n /\ n - 1 = i
      BY <2>2, <2>7
    <3> QED BY <2>1, <3>1
  <2> QED BY <2>1, <2>4, <2>5, <2>6, <2>7
<1>3. PICK f \in [0..n -> S] :
          /\ GetResponseDataObjects(objects) = f[n]
          /\ \A i \in 1..n : f[i] = WithLater(objects, i, f[i - 1])
  BY <1>1, OuterLoop
<1> HIDE DEF n, S
<1>4. \A i \in 1..n : i - 1 \in 0..n /\ f[i - 1] \in S
  BY <1>1
<1>5. ASSUME NEW j \in 2..n PROVE objects[j].key \in DOMAIN f[n]
  <2> DEFINE Good == {i \in 1..n : objects[j].key \in DOMAIN f[i]}
  <2>1. 1 \in Int /\ n \in Int /\ 1 <= n /\ 1 \in 1..n /\ n \in 1..n
    BY <1>1
  <2>2. 1 \in Good
    BY <1>2, <1>3, <1>4, <2>1
  <2>3. ASSUME NEW i \in 1 + 1..n, i - 1 \in Good PROVE i \in Good
    <3>1. i \in 1..n
      BY <2>1
    <3>2. f[i] = WithLater(objects, i, f[i - 1]) /\ f[i - 1] \in S
      BY <1>3, <1>4, <3>1
    <3>3. DOMAIN f[i - 1] \subseteq DOMAIN f[i]
      BY <1>2, <3>1, <3>2
    <3> QED BY <2>3, <3>1, <3>3
  <2> HIDE DEF Good
  <2>4. \A i \in 1..n : i \in Good
    BY <2>1, <2>2, <2>3, LoopInduction
  <2> QED BY <2>1, <2>4 DEF Good
<1>6. f[n] = DeConflictDataObjects(objects[n - 1], objects[n], f[n - 2]) /\ f[n - 2] \in S
  <2>1. n \in 1..n /\ n - 1 \in 1..n /\ n - 1 - 1 = n - 2
    BY <1>1
  <2>2. f[n - 1] \in S /\ f[n - 2] \in S
    BY <1>4, <2>1
  <2>3. f[n] = WithLater(objects, n, f[n - 1])
    BY <1>3, <2>1
  <2>4. f[n - 1] = WithLater(objects, n - 1, f[n - 2])
    BY <1>3, <2>1
  <2>5. WithLater(objects, n, f[n - 1]) = f[n - 1]
    BY <1>2, <2>1, <2>2
  <2>6. WithLater(objects, n - 1, f[n - 2])
            = DeConflictDataObjects(objects[n - 1], objects[n], f[n - 2])
    BY <1>2, <2>1, <2>2
  <2> QED BY <2>2, <2>3, <2>4, <2>5, <2>6
<1> QED BY <1>3, <1>5, <1>6 DEF n, S

-----------------------------------------------------------------------------
(* The history: versions are numbered in the order of their PUTs, derive   *)
(* from earlier ones, and carry clocks of the nodes.                       *)
Clocks == UNION {[ids -> Nat \ {0}] : ids \in SUBSET Nodes}

Objects == [key : Keys, value : Nat, context : Clocks]

History ==
    /\ written \in Seq(Objects)
    /\ past \in Seq(SUBSET Nat)
    /\ by \in Seq(Nodes)
    /\ Len(past) = Len(written) /\ Len(by) = Len(written)
    /\ \A v \in Versions : past[v] \subseteq 1..v - 1

(* The coordinator of w gave it the count c of its own.                    *)
Gave(w, n, c) ==
    by[w] = n /\ n \in DOMAIN written[w].context /\ written[w].context[n] = c

CountsGiven ==
    \A v \in Versions :
        /\ by[v] \in DOMAIN written[v].context
        /\ \A n \in DOMAIN written[v].context : \A c \in 1..written[v].context[n] :
               \E w \in past[v] \cup {v} : Gave(w, n, c)

IInv == History /\ AncestorsAreStale /\ CountsGiven

LEMMA ObjectsAreObjects ==
    ASSUME NEW o \in Objects
    PROVE  IsObject(o)
  BY DEF Objects, Clocks, IsObject, IsClock

LEMMA NewClocks ==
    ASSUME NEW node \in Nodes, NEW clock \in Clocks
    PROVE  NewVectorClock(node) \in Clocks /\ UpdateVectorClock(node, clock) \in Clocks
<1>1. NewVectorClock(node) \in [{node} -> Nat \ {0}] /\ {node} \in SUBSET Nodes
  BY DEF NewVectorClock
<1>2. PICK ids \in SUBSET Nodes : clock \in [ids -> Nat \ {0}]
  BY DEF Clocks
<1>3. Counter(clock, node) \in Nat
  BY <1>2 DEF Counter
<1>4. UpdateVectorClock(node, clock) \in [ids \cup {node} -> Nat \ {0}]
  BY <1>2, <1>3 DEF UpdateVectorClock
<1>5. ids \cup {node} \in SUBSET Nodes
  BY <1>2
<1> QED BY <1>1, <1>4, <1>5 DEF Clocks

(* A PUT of any object, derived from versions that its clock is newer      *)
(* than, keeps the invariant.                                              *)
LEMMA WriteKeepsIInv ==
    ASSUME IInv, NEW node \in Nodes, NEW key \in Keys, NEW context \in Clocks,
           NEW derivedFrom \in SUBSET Versions, Write(node, key, context, derivedFrom),
           node \in DOMAIN context,
           \A n \in DOMAIN context : \A c \in 1..context[n] :
               \/ n = node /\ c = context[n]
               \/ \E w \in derivedFrom : Gave(w, n, c),
           \A u \in derivedFrom :
               /\ IsStale(written[u], Object(key, Len(written) + 1, context))
               /\ ~IsStale(Object(key, Len(written) + 1, context), written[u])
    PROVE  IInv'
<1> DEFINE new == Object(key, Len(written) + 1, context)
<1>1. /\ Len(written) \in Nat /\ Len(past) = Len(written) /\ Len(by) = Len(written)
      /\ written \in Seq(Objects) /\ past \in Seq(SUBSET Nat) /\ by \in Seq(Nodes)
  BY LenProperties DEF IInv, History
<1>2. new \in Objects
  BY <1>1 DEF Objects, Object
<1>3. derivedFrom \in SUBSET Nat
  BY <1>1 DEF Versions
<1> HIDE DEF new
<1>4. /\ written' = Append(written, new) /\ past' = Append(past, derivedFrom)
      /\ by' = Append(by, node)
  BY DEF Write, new
<1>5. /\ written' \in Seq(Objects)
      /\ Len(written') = Len(written) + 1
      /\ \A i \in 1..Len(written) + 1 :
             written'[i] = IF i = Len(written) + 1 THEN new ELSE written[i]
  BY <1>1, <1>2, <1>4
<1>6. /\ past' \in Seq(SUBSET Nat)
      /\ Len(past') = Len(past) + 1
      /\ \A i \in 1..Len(past) + 1 :
             past'[i] = IF i = Len(past) + 1 THEN derivedFrom ELSE past[i]
  BY <1>1, <1>3, <1>4
<1>6a. /\ by' \in Seq(Nodes)
       /\ Len(by') = Len(by) + 1
       /\ \A i \in 1..Len(by) + 1 : by'[i] = IF i = Len(by) + 1 THEN node ELSE by[i]
  BY <1>1, <1>4
<1>7. Versions' = 1..Len(written) + 1
  BY <1>5 DEF Versions
<1>8. ASSUME NEW v \in Versions'
      PROVE  /\ past'[v] \subseteq 1..v - 1
             /\ \A u \in past'[v] : /\ IsStale(written'[u], written'[v])
                                    /\ ~IsStale(written'[v], written'[u])
  <2>1. CASE v = Len(written) + 1
    <3>1. past'[v] = derivedFrom /\ written'[v] = new
      BY <1>1, <1>5, <1>6, <1>7, <2>1
    <3>2. derivedFrom \subseteq 1..v - 1
      BY <1>1, <2>1 DEF Versions
    <3>3. \A u \in derivedFrom : written'[u] = written[u]
      BY <1>1, <1>5 DEF Versions
    <3> QED BY <3>1, <3>2, <3>3 DEF new
  <2>2. CASE v # Len(written) + 1
    <3>1. v \in Versions /\ v \in 1..Len(written)
      BY <1>1, <1>7, <2>2 DEF Versions
    <3>2. past'[v] = past[v] /\ written'[v] = written[v]
      BY <1>1, <1>5, <1>6, <2>2, <3>1
    <3>3. past[v] \subseteq 1..v - 1
      BY <3>1 DEF IInv, History
    <3>4. \A u \in past[v] : written'[u] = written[u]
      BY <1>1, <1>5, <3>1, <3>3
    <3> QED BY <3>1, <3>2, <3>3, <3>4 DEF IInv, AncestorsAreStale
  <2> QED BY <2>1, <2>2
<1>9. History'
  BY <1>1, <1>5, <1>6, <1>6a, <1>8 DEF History
<1>10. AncestorsAreStale'
  BY <1>8 DEF AncestorsAreStale
<1>11. \A w \in Versions : by'[w] = by[w] /\ written'[w] = written[w]
  BY <1>1, <1>5, <1>6a DEF Versions
<1>12. ASSUME NEW v \in Versions'
       PROVE  /\ by'[v] \in DOMAIN written'[v].context
              /\ \A n \in DOMAIN written'[v].context : \A c \in 1..written'[v].context[n] :
                     \E w \in past'[v] \cup {v} : Gave(w, n, c)'
  <2>1. CASE v = Len(written) + 1
    <3>1. past'[v] = derivedFrom /\ written'[v] = new /\ by'[v] = node
      BY <1>1, <1>5, <1>6, <1>6a, <1>7, <2>1
    <3>2. new.context = context
      BY DEF new, Object
    <3>3. ASSUME NEW n \in DOMAIN context, NEW c \in 1..context[n]
          PROVE  \E w \in derivedFrom \cup {v} : Gave(w, n, c)'
      <4>1. CASE n = node /\ c = context[n]
        BY <3>1, <3>2, <4>1 DEF Gave
      <4>2. ASSUME NEW w \in derivedFrom, Gave(w, n, c)
            PROVE  Gave(w, n, c)'
        <5>1. w \in Versions
          OBVIOUS
        <5> QED BY <1>11, <4>2, <5>1 DEF Gave
      <4> QED BY <4>1, <4>2
    <3> QED BY <3>1, <3>2, <3>3
  <2>2. CASE v # Len(written) + 1
    <3>1. v \in Versions
      BY <1>1, <1>7, <2>2 DEF Versions
    <3>2. past'[v] = past[v] /\ written'[v] = written[v] /\ by'[v] = by[v]
      BY <1>1, <1>5, <1>6, <1>6a, <1>7, <2>2
    <3>3. past[v] \cup {v} \subseteq Versions
      BY <1>1, <3>1 DEF IInv, History, Versions
    <3>4. \A n, c : \A w \in past[v] \cup {v} : Gave(w, n, c) => Gave(w, n, c)'
      BY <1>11, <3>3 DEF Gave
    <3> QED BY <3>1, <3>2, <3>4 DEF IInv, CountsGiven
  <2> QED BY <2>1, <2>2
<1>13. CountsGiven'
  BY <1>12 DEF CountsGiven
<1> QED BY <1>9, <1>10, <1>13 DEF IInv

LEMMA NextIInv == IInv /\ [Next]_vars => IInv'
<1> SUFFICES ASSUME IInv, [Next]_vars PROVE IInv'
  OBVIOUS
<1>a. /\ Len(written) \in Nat
      /\ \A v \in Versions : written[v] \in Objects /\ past[v] \subseteq 1..v - 1
  BY LenProperties, ElementOfSeq DEF IInv, History, Versions
<1>1. ASSUME NEW node \in Nodes, NEW key \in Keys, PutNew(node, key) PROVE IInv'
  <2>1. NewVectorClock(node) \in Clocks
    <3>1. [n \in {} |-> 1] \in [{} -> Nat \ {0}]
      OBVIOUS
    <3>2. [n \in {} |-> 1] \in Clocks
      BY <3>1 DEF Clocks
    <3> QED BY <3>2, NewClocks
  <2>2. /\ node \in DOMAIN NewVectorClock(node)
        /\ \A n \in DOMAIN NewVectorClock(node) : \A c \in 1..NewVectorClock(node)[n] :
               n = node /\ c = NewVectorClock(node)[n]
    BY DEF NewVectorClock
  <2>3. Write(node, key, NewVectorClock(node), {}) /\ {} \in SUBSET Versions
    BY <1>1 DEF PutNew
  <2> QED BY <2>1, <2>2, <2>3, WriteKeepsIInv
<1>2. ASSUME NEW node \in Nodes, NEW v \in Versions, PutUpdate(node, v) PROVE IInv'
  <2> DEFINE key == written[v].key
             context == UpdateVectorClock(node, written[v].context)
             derivedFrom == past[v] \cup {v}
             new == Object(key, Len(written) + 1, context)
  <2>1. written[v] \in Objects /\ v \in 1..Len(written) /\ past[v] \subseteq 1..v - 1
    BY <1>a DEF Versions
  <2>2. key \in Keys /\ written[v].context \in Clocks
    BY <2>1 DEF Objects
  <2>3. context \in Clocks
    BY <2>2, NewClocks
  <2>4. derivedFrom \in SUBSET Versions
    BY <1>a, <2>1 DEF Versions
  <2>5. IsObject(new) /\ IsStale(written[v], new) /\ ~IsStale(new, written[v])
    <3>1. new.context = UpdateVectorClock(node, written[v].context)
      BY DEF Object
    <3> HIDE DEF new
    <3> QED BY <2>1, <3>1, ObjectsAreObjects, UpdateIsNewer
  <2>6. ASSUME NEW u \in past[v]
        PROVE  IsStale(written[u], new) /\ ~IsStale(new, written[u])
    <3> HIDE DEF new
    <3>1. IsStale(written[u], written[v]) /\ ~IsStale(written[v], written[u])
      BY DEF IInv, AncestorsAreStale
    <3>2. IsObject(written[u]) /\ IsObject(written[v])
      BY <1>a, <2>1, <2>4, ObjectsAreObjects
    <3>3. IsStale(written[u], new)
      BY <2>5, <3>1, <3>2, StaleTransitive
    <3>4. ~IsStale(new, written[u])
      BY <2>5, <3>1, <3>2, StaleTransitive
    <3> QED BY <3>3, <3>4
  <2>7. \A u \in derivedFrom : IsStale(written[u], new) /\ ~IsStale(new, written[u])
    BY <2>5, <2>6
  <2>8. Write(node, key, context, derivedFrom)
    BY <1>2 DEF PutUpdate
  <2>9. /\ node \in DOMAIN context
        /\ \A n \in DOMAIN context : \A c \in 1..context[n] :
               \/ n = node /\ c = context[n]
               \/ \E w \in derivedFrom : Gave(w, n, c)
    <3> DEFINE old == written[v].context
    <3>1. \A n \in DOMAIN old : old[n] \in Nat /\ \A c \in 1..old[n] :
              \E w \in past[v] \cup {v} : Gave(w, n, c)
      BY <2>2 DEF IInv, CountsGiven, Clocks
    <3>2. /\ DOMAIN context = DOMAIN old \cup {node}
          /\ context[node] = Counter(old, node) + 1
          /\ \A n \in DOMAIN old \ {node} : context[n] = old[n]
      BY DEF UpdateVectorClock
    <3>3. ASSUME NEW n \in DOMAIN context, NEW c \in 1..context[n]
          PROVE  \/ n = node /\ c = context[n]
                 \/ \E w \in derivedFrom : Gave(w, n, c)
      <4> HIDE DEF context, old
      <4>1. CASE n # node
        BY <3>1, <3>2, <4>1
      <4>2. CASE n = node /\ node \in DOMAIN old
        <5>1. context[n] = old[n] + 1 /\ old[n] \in Nat
          BY <3>1, <3>2, <4>2 DEF Counter
        <5>2. c = context[n] \/ c \in 1..old[n]
          BY <5>1
        <5> QED BY <3>1, <4>2, <5>2
      <4>3. CASE n = node /\ node \notin DOMAIN old
        BY <3>2, <4>3 DEF Counter
      <4> QED BY <4>1, <4>2, <4>3
    <3> HIDE DEF old, context
    <3> QED BY <3>2, <3>3
  <2> HIDE DEF key, context, derivedFrom
  <2> QED BY <2>2, <2>3, <2>4, <2>7, <2>8, <2>9, WriteKeepsIInv
<1>3. ASSUME UNCHANGED <<written, past, by>> PROVE IInv'
  BY <1>3 DEF IInv, History, AncestorsAreStale, CountsGiven, Gave, Versions
<1>4. CASE UNCHANGED vars
  BY <1>3, <1>4 DEF vars
<1> QED
  BY <1>1, <1>2, <1>3, <1>4 DEF Next, BeginRead, Respond, CheckReadQuorum

LEMMA InitIInv == Init => IInv
<1> SUFFICES ASSUME Init PROVE IInv
  OBVIOUS
<1>1. /\ written \in Seq(Objects) /\ past \in Seq(SUBSET Nat) /\ by \in Seq(Nodes)
      /\ Versions = {}
  BY EmptySeq DEF Init, Versions
<1> QED BY <1>1 DEF Init, IInv, History, AncestorsAreStale, CountsGiven

-----------------------------------------------------------------------------
(* Reads.                                                                  *)

(* Every answer is a version of the key or the zero object.                *)
AnswersFor(key) ==
    \A n \in DOMAIN readCheck :
        \/ readCheck[n] = ZeroObject
        \/ \E v \in Versions : readCheck[n] = written[v] /\ written[v].key = key

AnswersOfOneKey ==
    \E key : key # ZeroKey /\ AnswersFor(key) /\ (readKey # ZeroKey => key = readKey)

(* No answer is strictly newer than what objects has for its key.          *)
NotDominated(objects) ==
    \A n \in DOMAIN readCheck :
        LET response == readCheck[n]
            given == objects[response.key]
        IN  IsStale(given, response) => IsStale(response, given)

(* The inductive invariant of reads.                                       *)
ReadInv ==
    /\ Len(written) <= MaxVersions
    /\ \A v \in Versions : written[v].value = v
    /\ readKey \in Keys \cup {ZeroKey}
    /\ DOMAIN readCheck \subseteq Nodes
    /\ IsFiniteSet(DOMAIN readCheck) /\ Cardinality(DOMAIN readCheck) <= MaxResponses
    /\ AnswersOfOneKey
    /\ answer.success \in BOOLEAN
    /\ DOMAIN answer.objects \subseteq Keys \cup {ZeroKey}
    /\ MaxResponses <= 2 => AnswerNotDominated

(* The zero object mentions no node.                                       *)
LEMMA ZeroIsStale == DOMAIN ZeroObject.context = {} /\ ZeroObject.key = ZeroKey
  BY DEF ZeroObject

(* The last pair decides, and decides right.                               *)
LEMMA LastPair ==
    ASSUME NEW key, key # ZeroKey,
           NEW a \in {ZeroObject} \cup {o \in Objects : o.key = key},
           NEW b \in {ZeroObject} \cup {o \in Objects : o.key = key},
           NEW map \in MapsOf({ZeroObject, a, b}), NEW response \in {a, b},
           response.key \in DOMAIN DeConflictDataObjects(a, b, map)
    PROVE  LET given == DeConflictDataObjects(a, b, map)[response.key]
           IN  IsStale(given, response) => IsStale(response, given)
<1> DEFINE O == {ZeroObject, a, b}
           result == DeConflictDataObjects(a, b, map)
           given == result[response.key]
<1>1. result \in MapsOf(O)
  BY DeConflictInMaps
<1>2. given \in O /\ given.key = response.key
  <2> HIDE DEF O, result
  <2>1. \A k \in DOMAIN result : result[k] \in O /\ result[k].key = k
    BY <1>1 DEF MapsOf
  <2> QED BY <2>1 DEF result
<1>3. ASSUME NEW o \in {a, b} PROVE o = ZeroObject \/ o.key = key
  OBVIOUS
<1>4. ZeroObject.key = ZeroKey
  BY ZeroIsStale
<1>5. CASE a = ZeroObject \/ b = ZeroObject \/ response = ZeroObject
  <2> HIDE DEF given
  <2>1. given = response
    BY <1>2, <1>3, <1>4, <1>5
  <2> QED BY <2>1 DEF given
<1>6. CASE a # ZeroObject /\ b # ZeroObject /\ response # ZeroObject
  <2>1. a.key = key /\ b.key = key /\ response.key = key
    BY <1>3, <1>6
  <2>2. \A o \in O : \A m \in MapsOf(O) : Store(m, o) \in MapsOf(O) /\ Store(m, o)[o.key] = o
    BY StoreInMaps
  <2>3. given = IF IsStale(a, b) THEN b ELSE IF IsStale(b, a) THEN a ELSE b
    BY <2>1, <2>2 DEF DeConflictDataObjects
  <2> HIDE DEF given
  <2>4. IsStale(given, response) => IsStale(response, given)
    BY <2>3
  <2> QED BY <2>4 DEF given
<1> QED BY <1>5, <1>6

(* What checkReadQuorum reconciles.                                        *)
LEMMA DataObjectsShape ==
    ASSUME NEW O, ZeroObject \in O, \A n \in DOMAIN readCheck : readCheck[n] \in O,
           IsFiniteSet(DOMAIN readCheck), NEW order \in SetToSeqs(DOMAIN readCheck)
    PROVE  LET c == Cardinality(DOMAIN readCheck) IN
           /\ Len(order) = c /\ c \in Nat
           /\ order \in [1..c -> DOMAIN readCheck]
           /\ \A n \in DOMAIN readCheck : \E i \in 1..c : order[i] = n
           /\ DataObjects(order) \in Seq(O) /\ Len(DataObjects(order)) = c + c
           /\ \A i \in 1..c : /\ DataObjects(order)[i] = ZeroObject
                              /\ DataObjects(order)[c + i] = readCheck[order[i]]
<1> DEFINE D == DOMAIN readCheck
           c == Cardinality(D)
           zeros == [i \in 1..c |-> ZeroObject]
           answers == [i \in 1..c |-> readCheck[order[i]]]
<1>1. c \in Nat
  BY FS_CardinalityType
<1>2. order \in [1..c -> D] /\ \A i, j \in 1..c : i # j => order[i] # order[j]
  BY DEF SetToSeqs
<1>3. Len(order) = c
  BY <1>1, <1>2
<1>4. \A n \in D : \E i \in 1..c : order[i] = n
  <2>1. order \in Injection(1..c, D)
    BY <1>2 DEF Injection, IsInjective
  <2>2. Cardinality(1..c) = c
    <3>1. 1 \in Int /\ c \in Int
      BY <1>1
    <3>2. Cardinality(1..c) = IF 1 > c THEN 0 ELSE c - 1 + 1
      BY <3>1, FS_Interval
    <3> QED BY <1>1, <3>2
  <2>3. order \in Surjection(1..c, D)
    BY <2>1, <2>2, FS_Injection
  <2> QED BY <2>3 DEF Surjection
<1> HIDE DEF c
<1>5. zeros \in Seq(O) /\ Len(zeros) = c /\ answers \in Seq(O) /\ Len(answers) = c
  <2>1. zeros \in [1..c -> O] /\ answers \in [1..c -> O]
    BY <1>2
  <2> QED BY <1>1, <2>1
<1>6. DataObjects(order) = zeros \o answers
  BY <1>3 DEF DataObjects
<1>7. /\ zeros \o answers \in Seq(O) /\ Len(zeros \o answers) = c + c
      /\ \A i \in 1..c : /\ (zeros \o answers)[i] = zeros[i]
                         /\ (zeros \o answers)[c + i] = answers[i]
  <2> HIDE DEF zeros, answers
  <2> QED BY <1>1, <1>5
<1>8. \A i \in 1..c : zeros[i] = ZeroObject /\ answers[i] = readCheck[order[i]]
  OBVIOUS
<1> HIDE DEF zeros, answers
<1>9. \A i \in 1..c : /\ DataObjects(order)[i] = ZeroObject
                      /\ DataObjects(order)[c + i] = readCheck[order[i]]
  BY <1>6, <1>7, <1>8
<1>10. DataObjects(order) \in Seq(O) /\ Len(DataObjects(order)) = c + c
  BY <1>6, <1>7
<1> QED BY <1>1, <1>2, <1>3, <1>4, <1>9, <1>10 DEF c

(* Whatever the order of the map, the answer has keys of objects or of the *)
(* zero object, and nothing in it is older than one of two responses.      *)
LEMMA Reconciled ==
    ASSUME ReadInv, written \in Seq(Objects), NEW order \in SetToSeqs(DOMAIN readCheck)
    PROVE  LET objects == GetResponseDataObjects(DataObjects(order)) IN
           /\ DOMAIN objects \subseteq Keys \cup {ZeroKey}
           /\ MaxResponses <= 2 => NotDominated(objects)
<1> DEFINE D == DOMAIN readCheck
           c == Cardinality(D)
           dataObjects == DataObjects(order)
           objects == GetResponseDataObjects(dataObjects)
<1>1. PICK key : key # ZeroKey /\ AnswersFor(key)
  BY DEF ReadInv, AnswersOfOneKey
<1>2. \A n \in D : readCheck[n] \in {ZeroObject} \cup {o \in Objects : o.key = key}
  BY <1>1 DEF AnswersFor, Versions
<1>3. IsFiniteSet(D) /\ c \in Nat /\ c <= MaxResponses
  BY FS_CardinalityType DEF ReadInv
<1>4. CASE c = 0
  <2>1. D = {}
    BY <1>3, <1>4, FS_EmptySet
  <2>2. /\ dataObjects \in Seq({ZeroObject}) /\ Len(dataObjects) = 0
    <3>1. \A n \in DOMAIN readCheck : readCheck[n] \in {ZeroObject}
      BY <2>1
    <3>2. IsFiniteSet(DOMAIN readCheck) /\ ZeroObject \in {ZeroObject}
      BY <1>3
    <3>3. LET k == Cardinality(DOMAIN readCheck)
          IN  DataObjects(order) \in Seq({ZeroObject}) /\ Len(DataObjects(order)) = k + k
      BY <3>1, <3>2, DataObjectsShape
    <3> QED BY <1>4, <3>3
  <2> HIDE DEF dataObjects
  <2>3. dataObjects = <<>>
    BY <2>2
  <2>4. objects = <<>> /\ DOMAIN objects = {}
    BY <2>3 DEF GetResponseDataObjects
  <2> QED BY <2>1, <2>4 DEF NotDominated, dataObjects
<1>5. CASE c # 0
  <2> DEFINE O == {ZeroObject} \cup {readCheck[n] : n \in D}
  <2>1. /\ Len(order) = c /\ order \in [1..c -> D]
        /\ \A n \in D : \E i \in 1..c : order[i] = n
        /\ dataObjects \in Seq(O) /\ Len(dataObjects) = c + c
        /\ \A i \in 1..c : dataObjects[i] = ZeroObject /\ dataObjects[c + i] = readCheck[order[i]]
    <3>1. ZeroObject \in O /\ \A n \in D : readCheck[n] \in O
      OBVIOUS
    <3> HIDE DEF O
    <3> QED BY <1>3, <3>1, DataObjectsShape
  <2> HIDE DEF dataObjects, c
  <2>2. Len(dataObjects) >= 2 /\ DOMAIN dataObjects[1].context = {}
    <3>1. 1 \in 1..c /\ c + c >= 2
      BY <1>3, <1>5
    <3> QED BY <2>1, <3>1, ZeroIsStale
  <2>3. PICK map \in MapsOf(O) :
            /\ objects = DeConflictDataObjects(dataObjects[c + c - 1], dataObjects[c + c], map)
            /\ \A j \in 2..c + c : dataObjects[j].key \in DOMAIN objects
    <3> HIDE DEF O, objects
    <3>1. dataObjects \in Seq(O)
      BY <2>1
    <3>2. PICK map \in MapsOf(O) :
              /\ GetResponseDataObjects(dataObjects)
                     = DeConflictDataObjects(dataObjects[Len(dataObjects) - 1],
                                             dataObjects[Len(dataObjects)], map)
              /\ \A j \in 2..Len(dataObjects) :
                     dataObjects[j].key \in DOMAIN GetResponseDataObjects(dataObjects)
      BY <2>2, <3>1, ResponseObjects
    <3>3. PICK n \in Nat : n = c + c /\ n = Len(dataObjects)
      BY <1>3, <2>1
    <3>4. objects = DeConflictDataObjects(dataObjects[c + c - 1], dataObjects[c + c], map)
      BY <1>3, <3>2, <3>3 DEF objects
    <3>5. \A j \in 2..c + c : dataObjects[j].key \in DOMAIN objects
      BY <3>2, <3>3 DEF objects
    <3> QED BY <3>4, <3>5
  <2> HIDE DEF objects
  <2>4. DOMAIN objects \subseteq Keys \cup {ZeroKey}
    <3>1. c + c - 1 \in 1..c + c /\ c + c \in 1..c + c
      BY <1>3, <1>5
    <3>2. dataObjects[c + c - 1] \in O /\ dataObjects[c + c] \in O
      BY <2>1, <3>1
    <3>3. \A o \in O : o.key \in Keys \cup {ZeroKey}
      BY <1>2, ZeroIsStale DEF Objects
    <3> HIDE DEF O
    <3>4. objects \in MapsOf(O)
      BY <2>3, <3>2, DeConflictInMaps
    <3>5. DOMAIN objects \subseteq {o.key : o \in O}
      BY <3>4 DEF MapsOf
    <3> QED BY <3>3, <3>5
  <2>5. ASSUME MaxResponses <= 2 PROVE NotDominated(objects)
    <3> SUFFICES ASSUME NEW n \in D
                 PROVE  LET response == readCheck[n]
                            given == objects[response.key]
                        IN  IsStale(given, response) => IsStale(response, given)
      BY DEF NotDominated
    <3> DEFINE a == dataObjects[c + c - 1]
               b == dataObjects[c + c]
    <3>1. c = 1 \/ c = 2
      BY <1>3, <1>5, <2>5, BoundsAssumption
    <3>2. /\ a = IF c = 1 THEN ZeroObject ELSE readCheck[order[1]]
          /\ b = readCheck[order[c]]
      <4>1. CASE c = 1
        <5>1. 1 \in 1..c /\ c + c - 1 = 1 /\ c + c = c + 1
          BY <4>1
        <5>2. a = ZeroObject /\ b = readCheck[order[1]]
          BY <2>1, <5>1
        <5> QED BY <4>1, <5>2
      <4>2. CASE c = 2
        <5>1. 1 \in 1..c /\ 2 \in 1..c /\ c + c - 1 = c + 1 /\ c + c = c + 2 /\ c # 1
          BY <4>2
        <5>2. a = readCheck[order[1]] /\ b = readCheck[order[2]]
          BY <2>1, <5>1
        <5> QED BY <4>2, <5>1, <5>2
      <4> QED BY <3>1, <4>1, <4>2
    <3>3. \A m \in D : readCheck[m] \in {a, b}
      <4> SUFFICES ASSUME NEW m \in D PROVE readCheck[m] \in {a, b}
        OBVIOUS
      <4>1. PICK i \in 1..c : order[i] = m
        BY <2>1
      <4>2. i = c \/ (c = 2 /\ i = 1)
        BY <3>1
      <4>3. CASE i = c
        BY <3>2, <4>1, <4>3
      <4>4. CASE c = 2 /\ i = 1
        BY <3>2, <4>1, <4>4
      <4> QED BY <4>2, <4>3, <4>4
    <3>4. 1 \in 1..c /\ c \in 1..c /\ order[1] \in D /\ order[c] \in D
      <4>1. 1 \in 1..c /\ c \in 1..c
        BY <3>1
      <4> QED BY <2>1, <4>1
    <3>5. /\ a \in {ZeroObject} \cup {o \in Objects : o.key = key}
          /\ b \in {ZeroObject} \cup {o \in Objects : o.key = key}
      BY <1>2, <3>2, <3>4
    <3> HIDE DEF a, b
    <3>6. O \subseteq {ZeroObject, a, b} /\ {ZeroObject, a, b} \subseteq O
      BY <3>2, <3>3, <3>4
    <3>7. map \in MapsOf({ZeroObject, a, b})
      <4>1. O = {ZeroObject, a, b}
        BY <3>6
      <4> HIDE DEF O
      <4> QED BY <4>1
    <3>8. readCheck[n] \in {a, b} /\ readCheck[n].key \in DOMAIN objects
      <4>1. PICK i \in 1..c : order[i] = n
        BY <2>1
      <4>2. c + i \in 2..c + c /\ dataObjects[c + i] = readCheck[n]
        BY <1>3, <2>1, <4>1
      <4>3. readCheck[n].key \in DOMAIN objects
        BY <2>3, <4>2
      <4> QED BY <3>3, <4>3
    <3>9. objects = DeConflictDataObjects(a, b, map)
      BY <2>3 DEF a, b
    <3> QED BY <1>1, <3>5, <3>7, <3>8, <3>9, LastPair
  <2> QED BY <2>4, <2>5 DEF objects, dataObjects
<1> QED BY <1>4, <1>5

(* Reconciliation never takes a descendant for older than an ancestor: a   *)
(* version derived from another, at any distance, is strictly newer.       *)
THEOREM DescendantsAreNewer == Spec => []AncestorsAreStale
<1>1. IInv => AncestorsAreStale
  BY DEF IInv
<1> QED BY <1>1, InitIInv, NextIInv, PTL DEF Spec

(* A version is taken for an ancestor of another without being one only    *)
(* where one coordinator has given the same count twice: clocks lose       *)
(* nothing else of the history, however many nodes and writes there are.   *)
THEOREM OnlySharedCountsDeceive == Spec => []FalseAncestorsShareACount
<1>1. ASSUME IInv PROVE FalseAncestorsShareACount
  <2> SUFFICES ASSUME NEW u \in Versions, NEW v \in Versions,
                      IsStale(written[u], written[v])
               PROVE  \E w \in past[v] \cup {v} :
                          /\ by[w] = by[u]
                          /\ written[w].context[by[u]] = written[u].context[by[u]]
    BY DEF FalseAncestorsShareACount
  <2>1. by[u] \in DOMAIN written[u].context
    BY <1>1 DEF IInv, CountsGiven
  <2>2. written[u] \in Objects /\ written[v] \in Objects
    BY <1>1, LenProperties, ElementOfSeq DEF IInv, History, Versions
  <2> DEFINE c == written[u].context[by[u]]
  <2>3. c \in Nat \ {0} /\ c <= Counter(written[v].context, by[u])
    BY <2>1, <2>2 DEF IsStale, Objects, Clocks
  <2>4. by[u] \in DOMAIN written[v].context /\ c <= written[v].context[by[u]]
    BY <2>3 DEF Counter
  <2>5. written[v].context[by[u]] \in Nat
    BY <2>2, <2>4 DEF Objects, Clocks
  <2>6. PICK w \in past[v] \cup {v} : Gave(w, by[u], c)
    BY <1>1, <2>3, <2>4, <2>5 DEF IInv, CountsGiven
  <2> QED BY <2>6 DEF Gave
<1> QED BY <1>1, InitIInv, NextIInv, PTL DEF Spec
-----------------------------------------------------------------------------
(* There is no read at first.                                              *)
LEMMA InitReadInv == Init => ReadInv
<1> SUFFICES ASSUME Init PROVE ReadInv
  OBVIOUS
<1>1. /\ Len(written) = 0 /\ Versions = {}
      /\ DOMAIN readCheck = {} /\ readCheck = <<>> /\ DOMAIN answer.objects = {}
      /\ answer.success \in BOOLEAN /\ readKey = ZeroKey
  BY DEF Init, Versions, NoAnswer
<1>2. IsFiniteSet(DOMAIN readCheck) /\ Cardinality(DOMAIN readCheck) = 0
  BY <1>1, FS_EmptySet
<1>3. AnswersOfOneKey
  <2>1. \E key : key # ZeroKey
    <3>1. 0 # ZeroKey \/ 1 # ZeroKey
      OBVIOUS
    <3> QED BY <3>1
  <2>2. \A key : AnswersFor(key)
    BY <1>1 DEF AnswersFor
  <2> QED BY <1>1, <2>1, <2>2 DEF AnswersOfOneKey
<1>4. AnswerNotDominated
  BY <1>1 DEF AnswerNotDominated, Answered
<1> QED BY <1>1, <1>2, <1>3, <1>4, BoundsAssumption DEF ReadInv

(* A PUT leaves the read alone, and the versions that were there.          *)
LEMMA WriteKeepsReadInv ==
    ASSUME ReadInv, written \in Seq(Objects), NEW node, NEW key \in Keys,
           NEW context \in Clocks, NEW derivedFrom, Write(node, key, context, derivedFrom)
    PROVE  ReadInv'
<1> DEFINE new == Object(key, Len(written) + 1, context)
<1>1. Len(written) \in Nat /\ Len(written) < MaxVersions
  BY LenProperties DEF Write
<1>2. new \in Objects /\ new.value = Len(written) + 1
  BY <1>1 DEF Objects, Object
<1> HIDE DEF new
<1>3. written' = Append(written, new) /\ UNCHANGED <<readKey, readCheck, answer>>
  BY DEF Write, new
<1>4. /\ Len(written') = Len(written) + 1
      /\ \A i \in 1..Len(written) + 1 :
             written'[i] = IF i = Len(written) + 1 THEN new ELSE written[i]
  BY <1>1, <1>2, <1>3
<1>5. /\ Versions' = Versions \cup {Len(written) + 1}
      /\ \A v \in Versions : written'[v] = written[v]
      /\ written'[Len(written) + 1] = new
  BY <1>1, <1>4 DEF Versions
<1>6. Len(written') <= MaxVersions /\ \A v \in Versions' : written'[v].value = v
  BY <1>1, <1>2, <1>4, <1>5, BoundsAssumption DEF ReadInv
<1>7. ASSUME NEW k, AnswersFor(k) PROVE AnswersFor(k)'
  <2>1. \A v \in Versions : v \in Versions' /\ written'[v] = written[v]
    BY <1>5
  <2>2. readCheck' = readCheck
    BY <1>3
  <2> QED BY <1>7, <2>1, <2>2 DEF AnswersFor
<1>8. AnswersOfOneKey'
  BY <1>3, <1>7 DEF ReadInv, AnswersOfOneKey
<1>9. (MaxResponses <= 2 => AnswerNotDominated)'
  BY <1>3 DEF ReadInv, AnswerNotDominated, Answered
<1> QED BY <1>3, <1>6, <1>8, <1>9 DEF ReadInv

(* An answer is counted.                                                   *)
LEMMA RespondKeepsReadInv ==
    ASSUME ReadInv, NEW node \in Nodes, NEW object, Respond(node, object),
           object = ZeroObject \/ \E v \in VersionsOf(readKey) : object = written[v]
    PROVE  ReadInv'
<1>1. /\ readKey # ZeroKey /\ node \notin DOMAIN readCheck
      /\ Cardinality(DOMAIN readCheck) < MaxResponses
      /\ UNCHANGED <<written, readKey, answer>>
      /\ readCheck' = [n \in DOMAIN readCheck \cup {node} |->
                          IF n = node THEN object ELSE readCheck[n]]
  BY DEF Respond
<1>2. /\ DOMAIN readCheck' = DOMAIN readCheck \cup {node}
      /\ \A n \in DOMAIN readCheck' : readCheck'[n] = IF n = node THEN object ELSE readCheck[n]
  BY <1>1
<1>3. /\ IsFiniteSet(DOMAIN readCheck')
      /\ Cardinality(DOMAIN readCheck') = Cardinality(DOMAIN readCheck) + 1
      /\ Cardinality(DOMAIN readCheck) \in Nat
  BY <1>1, <1>2, FS_AddElement, FS_CardinalityType DEF ReadInv
<1>4. Cardinality(DOMAIN readCheck') <= MaxResponses
  BY <1>1, <1>3, BoundsAssumption
<1>5. AnswersFor(readKey)'
  <2>1. AnswersFor(readKey)
    BY <1>1 DEF ReadInv, AnswersOfOneKey
  <2>2. object = ZeroObject \/ \E v \in Versions : object = written[v] /\ written[v].key = readKey
    BY DEF VersionsOf
  <2>3. Versions' = Versions
    BY <1>1 DEF Versions
  <2> QED BY <1>1, <1>2, <2>1, <2>2, <2>3 DEF AnswersFor
<1>6. AnswersOfOneKey'
  BY <1>1, <1>5 DEF ReadInv, AnswersOfOneKey
<1>7. ~Answered'
  BY <1>1 DEF Answered
<1> QED BY <1>1, <1>2, <1>3, <1>4, <1>6, <1>7 DEF ReadInv, Versions, AnswerNotDominated

(* The answers are reconciled.                                             *)
LEMMA CheckKeepsReadInv ==
    ASSUME ReadInv, written \in Seq(Objects), CheckReadQuorum
    PROVE  ReadInv'
<1>1. PICK order \in SetToSeqs(DOMAIN readCheck) :
          answer' = [success |-> Len(order) >= R,
                     objects |-> GetResponseDataObjects(DataObjects(order))]
  BY DEF CheckReadQuorum
<1>2. readKey' = ZeroKey /\ UNCHANGED <<written, readCheck>>
  BY DEF CheckReadQuorum
<1> DEFINE objects == GetResponseDataObjects(DataObjects(order))
<1>3. DOMAIN objects \subseteq Keys \cup {ZeroKey} /\ (MaxResponses <= 2 => NotDominated(objects))
  BY Reconciled
<1> HIDE DEF objects
<1>4. answer'.objects = objects /\ answer'.success \in BOOLEAN
  BY <1>1 DEF objects
<1>5. (MaxResponses <= 2 => AnswerNotDominated)'
  BY <1>2, <1>3, <1>4 DEF AnswerNotDominated, NotDominated
<1>6. AnswersOfOneKey'
  <2>1. \A key : AnswersFor(key) => AnswersFor(key)'
    BY <1>2 DEF AnswersFor, Versions
  <2> QED BY <1>2, <2>1 DEF ReadInv, AnswersOfOneKey
<1> QED BY <1>2, <1>3, <1>4, <1>5, <1>6 DEF ReadInv, Versions

LEMMA NextReadInv == IInv /\ ReadInv /\ [Next]_vars => ReadInv'
<1> SUFFICES ASSUME IInv, ReadInv, [Next]_vars PROVE ReadInv'
  OBVIOUS
<1>1. /\ written \in Seq(Objects)
      /\ \A v \in Versions : written[v] \in Objects
  BY LenProperties, ElementOfSeq DEF IInv, History, Versions
<1>2. ASSUME NEW node \in Nodes, NEW key \in Keys, PutNew(node, key) PROVE ReadInv'
  <2>1. NewVectorClock(node) \in Clocks
    <3>1. NewVectorClock(node) \in [{node} -> Nat \ {0}] /\ {node} \in SUBSET Nodes
      BY DEF NewVectorClock
    <3> QED BY <3>1 DEF Clocks
  <2> QED BY <1>1, <1>2, <2>1, WriteKeepsReadInv DEF PutNew
<1>3. ASSUME NEW node \in Nodes, NEW v \in Versions, PutUpdate(node, v) PROVE ReadInv'
  <2>1. written[v].key \in Keys /\ written[v].context \in Clocks
    BY <1>1 DEF Objects
  <2>2. UpdateVectorClock(node, written[v].context) \in Clocks
    BY <2>1, NewClocks
  <2> QED BY <1>1, <1>3, <2>1, <2>2, WriteKeepsReadInv DEF PutUpdate
<1>4. ASSUME NEW key \in Keys, BeginRead(key) PROVE ReadInv'
  <2>1. /\ readKey' = key /\ key # ZeroKey /\ readCheck' = <<>> /\ DOMAIN readCheck' = {}
        /\ UNCHANGED <<written, answer>>
    BY <1>4, ZeroKeyIsNoKey DEF BeginRead
  <2>2. IsFiniteSet(DOMAIN readCheck') /\ Cardinality(DOMAIN readCheck') = 0
    BY <2>1, FS_EmptySet
  <2>3. AnswersOfOneKey' /\ ~Answered'
    BY <2>1 DEF AnswersOfOneKey, AnswersFor, Answered
  <2> QED BY <2>1, <2>2, <2>3, BoundsAssumption DEF ReadInv, Versions, AnswerNotDominated
<1>5. ASSUME NEW node \in Nodes,
             Respond(node, ZeroObject) \/ \E v \in VersionsOf(readKey) : Respond(node, written[v])
      PROVE  ReadInv'
  BY <1>5, RespondKeepsReadInv
<1>6. CASE CheckReadQuorum
  BY <1>1, <1>6, CheckKeepsReadInv
<1>7. CASE UNCHANGED vars
  BY <1>7 DEF vars, ReadInv, AnswersOfOneKey, AnswersFor, Versions, AnswerNotDominated, Answered
<1> QED BY <1>2, <1>3, <1>4, <1>5, <1>6, <1>7 DEF Next

(* The variables keep their types: in particular clocks count from one, a  *)
(* version is derived from earlier ones, and whatever the responses, their *)
(* number and their order, a client is given objects under the keys of     *)
(* objects that were stored, or under that of the zero object.             *)
THEOREM TypeCorrect == Spec => []TypeOK
<1>1. ASSUME IInv, ReadInv PROVE TypeOK
  <2>1. /\ written \in Seq(Objects) /\ Len(written) \in Nat
        /\ past \in Seq(SUBSET Nat) /\ by \in Seq(Nodes)
        /\ Len(past) = Len(written) /\ Len(by) = Len(written)
    BY <1>1, LenProperties DEF IInv, History
  <2>2. DOMAIN past = Versions /\ DOMAIN by = Versions
    BY <2>1, LenProperties DEF Versions
  <2>3. \A v \in Versions : written[v] \in Objects
    BY <2>1, ElementOfSeq DEF Versions
  <2>4. \A v \in Versions : written[v].key \in Keys /\ IsClock(written[v].context, Nodes)
    BY <2>3, ObjectsAreObjects DEF Objects, IsObject
  <2>5. \A v \in Versions : past[v] \subseteq 1..v - 1 /\ by[v] \in DOMAIN written[v].context
    BY <1>1 DEF IInv, History, CountsGiven
  <2>6. \A n \in DOMAIN readCheck :
            readCheck[n] = ZeroObject \/ \E v \in Versions : readCheck[n] = written[v]
    BY <1>1 DEF ReadInv, AnswersOfOneKey, AnswersFor
  <2> QED BY <1>1, <2>2, <2>4, <2>5, <2>6 DEF ReadInv, TypeOK
<1> QED BY <1>1, InitIInv, NextIInv, InitReadInv, NextReadInv, PTL DEF Spec

(* With no more than two responses, the newest is never lost: no response  *)
(* is strictly newer than what the client is given for its key.            *)
THEOREM NewestIsReturned ==
    ASSUME MaxResponses <= 2
    PROVE  Spec => []AnswerNotDominated
<1>1. ReadInv => AnswerNotDominated
  BY DEF ReadInv
<1> QED BY <1>1, InitIInv, NextIInv, InitReadInv, NextReadInv, PTL DEF Spec
=============================================================================
