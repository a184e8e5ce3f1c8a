--------------------------- MODULE DataVersioning ---------------------------
(***************************************************************************)
(* pkg/data_versioning/clock.go: the vector clocks that putHandler gives   *)
(* to the objects it stores, and the reconciliation of the objects that a  *)
(* read collects.                                                          *)
(*                                                                         *)
(* A vector clock is a function from the node ids it mentions to counters. *)
(* LastUpdated is left out: nothing reads it.  A map from object keys to   *)
(* objects is a function whose domain is the set of keys present.          *)
(***************************************************************************)
EXTENDS Integers, Sequences

(* A map read at a key that is not there gives the zero Clock.             *)
Counter(clock, node) == IF node \in DOMAIN clock THEN clock[node] ELSE 0

(* Mutant of NewVectorClock: it counts from zero.                          *)
NewVectorClockFromZero(node) == [n \in {node} |-> 0]

NewVectorClock(node) == [n \in {node} |-> 1]

(* Mutants of UpdateVectorClock: the node's counter starts again, or every *)
(* counter goes up.                                                        *)
UpdateVectorClockAnew(node, clock) ==
    [n \in DOMAIN clock \cup {node} |-> IF n = node THEN 1 ELSE clock[n]]

UpdateVectorClockAll(node, clock) ==
    [n \in DOMAIN clock \cup {node} |-> Counter(clock, n) + 1]

UpdateVectorClock(node, clock) ==
    [n \in DOMAIN clock \cup {node} |->
        IF n = node THEN Counter(clock, n) + 1 ELSE clock[n]]

IsClock(clock, nodes) ==
    /\ DOMAIN clock \subseteq nodes
    /\ \A n \in DOMAIN clock : clock[n] \in Nat \ {0}

(* aIsStale for a = older, b = newer: no counter of a exceeds b's.  The    *)
(* keys of the two objects are not compared.                               *)
IsStale(older, newer) ==
    \A n \in DOMAIN older.context : older.context[n] <= Counter(newer.context, n)

Conflict(a, b) == ~IsStale(a, b) /\ ~IsStale(b, a)

Store(objects, object) ==
    [k \in DOMAIN objects \cup {object.key} |->
        IF k = object.key THEN object ELSE objects[k]]

(* Mutant of DeConflictDataObjects: a stale second object is kept.         *)
DeConflictKeepsStale(a, b, objects) ==
    IF IsStale(a, b) THEN Store(objects, b)
    ELSE IF IsStale(b, a) THEN Store(objects, b)
    ELSE Store(Store(objects, a), b)

(* The first result of DeConflictDataObjects is Conflict(a, b); this is    *)
(* the second.  Two objects of one key do not both fit in the map.         *)
DeConflictDataObjects(a, b, objects) ==
    IF IsStale(a, b) THEN Store(objects, b)
    ELSE IF IsStale(b, a) THEN Store(objects, a)
    ELSE Store(Store(objects, a), b)

(* The inner loop: the i-th object is compared with all that come later.   *)
WithLater(objects, i, found) ==
    LET after[j \in i..Len(objects)] ==
            IF j = i THEN found ELSE DeConflictDataObjects(objects[i], objects[j], after[j - 1])
    IN  after[Len(objects)]

(* Every pair i < j, in order, over the map that starts with the first     *)
(* object.                                                                 *)
GetResponseDataObjects(objects) ==
    LET after[i \in 0..Len(objects)] ==
            IF i = 0 THEN Store(<<>>, objects[1]) ELSE WithLater(objects, i, after[i - 1])
    IN  IF objects = <<>> THEN <<>> ELSE after[Len(objects)]
=============================================================================
