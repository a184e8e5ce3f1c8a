-------------------------- MODULE ReplicationTypes --------------------------
(***************************************************************************)
(* The type invariant of Replication, for any nodes, preference list,      *)
(* quorum, keys, requests and failures.  It is not inductive alone: what a *)
(* worker may index, iterate over or count depends on the phase it is in,  *)
(* so WorkerInv ties the worker's phase to its queue, to the map it counts *)
(* answers in and to the nodes it has still to reach.                      *)
(***************************************************************************)
EXTENDS Replication, FiniteSetTheorems, SequenceTheorems, TLAPS

(* The phases of ReplicateWrites and of ReplicateReads.                    *)
WritePhases == {"prep", "handoff", "wait", "answered", "commit"}
ReadPhases == {"query", "waitRead"}

(* The nodes a write falls back on when targets cannot be reached.         *)
HandoffSet == {PrefLst[i] : i \in N..2 * (N - 1)}

(* What the phase of n's worker says of the request, maps and lists it     *)
(* works with.                                                             *)
WorkerSound(n) ==
    /\ worker[n].pc = "idle" <=> queue[n] = <<>>
    /\ worker[n].pc \in WritePhases => Request(n).isWrite /\ writeCheck[n] # NilMap
    /\ worker[n].pc \in ReadPhases => ~Request(n).isWrite /\ readCheck[n] # NilMap
    /\ worker[n].pc \in {"prep", "query"} => worker[n].todo \in Seq(TargetSet)
    /\ worker[n].pc \in {"prep", "handoff"} => worker[n].failed \in Seq(TargetSet)
    /\ worker[n].pc = "prep" => /\ Len(worker[n].todo) + Len(worker[n].failed) <= N - 1
                                /\ worker[n].count = 0
    /\ worker[n].pc = "handoff" => /\ worker[n].todo \in Seq(HandoffSet)
                                   /\ worker[n].todo # <<>>
                                   /\ worker[n].count < Len(worker[n].failed)

(* For every worker.                                                       *)
WorkerInv == \A n \in Nodes : WorkerSound(n)

-----------------------------------------------------------------------------
LEMMA TargetNodes ==
    /\ Targets \in Seq(TargetSet) /\ Len(Targets) = N - 1
    /\ TargetSet = {PrefLst[i] : i \in 1..N - 1}
    /\ TargetSet \subseteq Nodes
<1> USE QuorumAssumption, PrefLstAssumption
<1>1. DOMAIN Targets = 1..N - 1 /\ N - 1 \in Nat
  BY DEF Targets, GetNodes
<1>2. ASSUME NEW i \in 1..N - 1 PROVE Targets[i] = PrefLst[i] /\ PrefLst[i] \in Nodes
  <2>1. (1 + i - 1) % Len(PrefLst) = i
    OBVIOUS
  <2> QED BY <2>1 DEF Targets, GetNodes
<1>3. TargetSet = {PrefLst[i] : i \in 1..N - 1}
  BY <1>1, <1>2 DEF TargetSet
<1>4. Targets \in [1..N - 1 -> TargetSet]
  BY <1>1 DEF TargetSet, Targets, GetNodes
<1>5. Targets \in Seq(TargetSet) /\ Len(Targets) = N - 1
  BY <1>1, <1>4
<1>6. TargetSet \subseteq Nodes
  BY <1>2, <1>3
<1> QED BY <1>3, <1>5, <1>6

LEMMA HandoffNodes ==
    /\ \A k \in 0..N - 1 : GetNodes(k, N) \in Seq(HandoffSet) /\ Len(GetNodes(k, N)) = k
    /\ HandoffSet \subseteq Nodes
    /\ HandoffSet \cap TargetSet = {}
<1> USE QuorumAssumption, PrefLstAssumption
<1>1. ASSUME NEW k \in 0..N - 1 PROVE GetNodes(k, N) \in [1..k -> HandoffSet]
  <2>1. ASSUME NEW i \in 1..k
        PROVE (N + i - 1) % Len(PrefLst) = N + i - 1 /\ N + i - 1 \in N..2 * (N - 1)
    OBVIOUS
  <2> QED BY <2>1 DEF GetNodes, HandoffSet
<1>2. /\ \A i \in N..2 * (N - 1) : i \in 1..Len(PrefLst) /\ i \notin 1..N - 1
      /\ \A i \in 1..N - 1 : i \in 1..Len(PrefLst)
  OBVIOUS
<1>3. HandoffSet \cap TargetSet = {}
  BY <1>2, TargetNodes DEF HandoffSet
<1>4. HandoffSet \subseteq Nodes
  BY <1>2 DEF HandoffSet
<1>5. ASSUME NEW k \in 0..N - 1
      PROVE  GetNodes(k, N) \in Seq(HandoffSet) /\ Len(GetNodes(k, N)) = k
  BY <1>1, <1>5
<1> QED BY <1>3, <1>4, <1>5

-----------------------------------------------------------------------------
(* Types.                                                                  *)

LEMMA SameTypes ==
    ASSUME puts' = puts
    PROVE  /\ Objects' = Objects /\ Written' = Written
           /\ Requests' = Requests /\ Messages' = Messages
  BY DEF Objects, Written, Requests, Messages

(* The parts of TypeOK speak of values that were PUT: more PUTs never hurt *)
(* what a step leaves alone.                                               *)
LEMMA MorePuts ==
    ASSUME puts \in Nat, puts' \in {puts, puts + 1}
    PROVE  /\ 0..puts \subseteq 0..puts' /\ 1..puts \subseteq 1..puts'
           /\ Objects \subseteq Objects' /\ Written \subseteq Written'
           /\ Requests \subseteq Requests'
           /\ Messages \subseteq Messages'
<1>1. puts' \in Nat /\ puts <= puts'
  OBVIOUS
<1>2. 0..puts \subseteq 0..puts' /\ 1..puts \subseteq 1..puts'
  BY <1>1
<1>3. Objects \subseteq Objects' /\ Written \subseteq Written'
  BY <1>2 DEF Objects, Written
<1>4. Requests \subseteq Requests' /\ Messages \subseteq Messages'
  BY <1>3 DEF Requests, Messages
<1> QED BY <1>2, <1>3, <1>4

LEMMA QueuesStay ==
    ASSUME TypeOK, puts' \in {puts, puts + 1}, UNCHANGED <<queue, worker>>
    PROVE  QueuesOK'
<1>1. Requests \subseteq Requests'
  BY MorePuts DEF TypeOK, StoresOK
<1>2. ASSUME NEW n \in Nodes PROVE queue[n] \in Seq(Requests')
  BY <1>1 DEF TypeOK, QueuesOK
<1> QED BY <1>2 DEF TypeOK, QueuesOK, Workers, WorkerStates

LEMMA ChecksStay ==
    ASSUME TypeOK, puts' \in {puts, puts + 1}, UNCHANGED <<writeCheck, readCheck, muLeaked>>
    PROVE  ChecksOK'
  BY MorePuts DEF TypeOK, StoresOK, ChecksOK, IsCheck

LEMMA MessagesStay ==
    ASSUME TypeOK, puts' \in {puts, puts + 1}, UNCHANGED <<tasks, retries, handoffs>>
    PROVE  MessagesOK'
  BY MorePuts DEF TypeOK, StoresOK, MessagesOK

LEMMA StoresStay ==
    ASSUME TypeOK, UNCHANGED <<nodeVars, db, handlers, puts>>, gets' \in Nat
    PROVE  StoresOK'
  BY SameTypes DEF TypeOK, StoresOK, nodeVars

LEMMA SendEffect ==
    ASSUME NEW m, NEW res, Send(m, res)
    PROVE  /\ tasks' \in {tasks, tasks \cup {m}}
           /\ res # 1 => tasks' = tasks \cup {m}
  BY DEF Send, Deliver

LEMMA HeadOfQueue ==
    ASSUME TypeOK, WorkerInv, NEW n \in Nodes, worker[n].pc # "idle"
    PROVE  Request(n) \in Requests
<1>1. queue[n] \in Seq(Requests) /\ queue[n] # <<>>
  BY DEF TypeOK, QueuesOK, WorkerInv, WorkerSound
<1> QED BY <1>1 DEF Request

(* A request that is appended leaves the queues well-typed.                *)
LEMMA AddRequestTypes ==
    ASSUME TypeOK, NEW n \in Nodes, NEW request \in Requests, AddRequest(n, request),
           puts' = puts
    PROVE  QueuesOK'
<1>1. Append(queue[n], request) \in Seq(Requests)
  BY DEF TypeOK, QueuesOK
<1>2. queue' \in [Nodes -> Seq(Requests)]
  BY <1>1 DEF AddRequest, TypeOK, QueuesOK
<1>3. worker' \in [Nodes -> Workers]
  <2>1. worker[n] \in Workers /\ worker \in [Nodes -> Workers]
    BY DEF TypeOK, QueuesOK
  <2>2. [worker[n] EXCEPT !.pc = "begin"] \in Workers
    BY <2>1 DEF Workers, WorkerStates
  <2>3. [worker EXCEPT ![n].pc = "begin"] = [worker EXCEPT ![n] = [worker[n] EXCEPT !.pc = "begin"]]
    BY <2>1
  <2> QED BY <2>1, <2>2, <2>3 DEF AddRequest
<1> QED BY <1>2, <1>3, SameTypes DEF QueuesOK, Workers, WorkerStates

LEMMA ClientKeepsTypeOK ==
    ASSUME TypeOK, WorkerInv,
           NEW n \in Coordinators,
           \/ \E k \in Keys : PutStore(n, k) \/ Get(n, k)
           \/ \E object \in handlers[n] : PutSubmit(n, object)
    PROVE  TypeOK'
<1> n \in Nodes
  BY NodesAssumption
<1>1. ASSUME NEW k \in Keys, PutStore(n, k) PROVE TypeOK'
  <2>1. /\ puts' = puts + 1 /\ puts' \in Nat
        /\ puts + 1 \in 0..puts'
    BY <1>1 DEF PutStore, TypeOK, StoresOK
  <2>2. 0..puts \subseteq 0..puts' /\ Written \subseteq Written'
    BY <2>1, MorePuts DEF TypeOK, StoresOK
  <2>3. db' \in [Nodes -> [Keys -> 0..puts']] /\ disk' \in [Nodes -> [Keys -> 0..puts']]
    BY <1>1, <2>1, <2>2 DEF PutStore, TypeOK, StoresOK, nodeVars
  <2>4. handlers' \in [Nodes -> SUBSET Written']
    <3>1. [key |-> k, value |-> puts + 1] \in Written'
      BY <2>1 DEF Objects, Written, NoValue, TypeOK, StoresOK
    <3> QED BY <1>1, <2>2, <3>1 DEF PutStore, TypeOK, StoresOK
  <2>5. StoresOK'
    BY <1>1, <2>1, <2>3, <2>4 DEF PutStore, TypeOK, StoresOK, nodeVars
  <2>6. QueuesOK' /\ ChecksOK' /\ MessagesOK'
    BY <1>1, <2>1, QueuesStay, ChecksStay, MessagesStay DEF PutStore
  <2> QED BY <2>5, <2>6 DEF TypeOK
<1>2. ASSUME NEW k \in Keys, Get(n, k) PROVE TypeOK'
  <2>1. [isWrite |-> FALSE, object |-> [key |-> k, value |-> NoValue]] \in Requests
    BY DEF Requests, Objects, NoValue, TypeOK, StoresOK
  <2>2. QueuesOK'
    BY <1>2, <2>1, AddRequestTypes DEF Get
  <2>3. StoresOK' /\ ChecksOK' /\ MessagesOK'
    BY <1>2, StoresStay, ChecksStay, MessagesStay DEF Get, TypeOK, StoresOK
  <2> QED BY <2>2, <2>3 DEF TypeOK
<1>3. ASSUME NEW object \in handlers[n], PutSubmit(n, object) PROVE TypeOK'
  <2>1. object \in Written
    BY DEF TypeOK, StoresOK
  <2>2. [isWrite |-> TRUE, object |-> object] \in Requests
    BY <2>1 DEF Requests, Written
  <2>3. QueuesOK'
    BY <1>3, <2>2, AddRequestTypes, QueuesStay DEF PutSubmit
  <2>4. StoresOK'
    BY <1>3, SameTypes DEF PutSubmit, TypeOK, StoresOK, nodeVars
  <2>5. ChecksOK' /\ MessagesOK'
    BY <1>3, ChecksStay, MessagesStay DEF PutSubmit
  <2> QED BY <2>3, <2>4, <2>5 DEF TypeOK
<1> QED BY <1>1, <1>2, <1>3

LEMMA WorkerFrame ==
    ASSUME NEW n \in Nodes, WorkerStep(n)
    PROVE  UNCHANGED <<nodeVars, clientVars, applied, handedOff, db, muLeaked, handoffs>>
<1> USE DEF ReplicationUnchanged
<1>1. CASE BeginWrite(n) \/ SendPrep(n) \/ PrepsSent(n) \/ SendHandoff(n)
  BY <1>1 DEF BeginWrite, SendPrep, PrepsSent, SendHandoff
<1>2. CASE AnswerWrite(n) \/ BeginCommits(n) \/ SendCommit(n) \/ CommitsSent(n)
  BY <1>2 DEF AnswerWrite, BeginCommits, SendCommit, CommitsSent
<1>3. CASE BeginRead(n) \/ SendQuery(n) \/ ReadOwnValue(n) \/ AnswerRead(n)
  BY <1>3 DEF BeginRead, SendQuery, ReadOwnValue, AnswerRead
<1>4. CASE HandleNextInQueue(n)
  BY <1>4 DEF HandleNextInQueue
<1> QED BY <1>1, <1>2, <1>3, <1>4 DEF WorkerStep

LEMMA WorkerChange ==
    ASSUME TypeOK, NEW n \in Nodes, NEW w \in Workers, worker' = [worker EXCEPT ![n] = w],
           queue' = queue, puts' = puts
    PROVE  QueuesOK'
  BY SameTypes DEF TypeOK, QueuesOK, Workers, WorkerStates

(* What the worker of n does to its own record and queue.                  *)
LEMMA WorkerKeepsQueuesOK ==
    ASSUME TypeOK, WorkerInv, NEW n \in Nodes, WorkerStep(n)
    PROVE  QueuesOK'
<1> DEFINE w == worker[n]
<1>1. w \in Workers /\ worker \in [Nodes -> Workers]
  BY DEF TypeOK, QueuesOK
<1>2. puts' = puts
  BY WorkerFrame DEF clientVars
<1>3. IdleWorker \in Workers
  BY DEF IdleWorker, Workers, WorkerStates
<1>4. Targets \in Seq(Nodes)
  BY TargetNodes
<1>5. w.todo # <<>> => Head(w.todo) \in Nodes /\ Tail(w.todo) \in Seq(Nodes)
  BY <1>1 DEF Workers
<1>6. WorkerSound(n)
  BY DEF WorkerInv
<1>7. CASE BeginWrite(n) \/ BeginRead(n)
  <2>1. PICK pc \in {"prep", "query"} :
            worker' = [worker EXCEPT ![n] = [IdleWorker EXCEPT !.pc = pc, !.todo = Targets]]
    BY <1>7 DEF BeginWrite, BeginRead
  <2>2. [IdleWorker EXCEPT !.pc = pc, !.todo = Targets] \in Workers
    BY <1>3, <1>4 DEF Workers, WorkerStates
  <2> QED BY <1>2, <1>7, <2>1, <2>2, WorkerChange DEF BeginWrite, BeginRead
<1>8. CASE SendPrep(n)
  <2>1. PICK res \in {0, 1} :
            worker' = [worker EXCEPT
                          ![n].todo = Tail(@),
                          ![n].failed = IF res = 1 THEN Append(@, Head(w.todo)) ELSE @]
    BY <1>8 DEF SendPrep
  <2> DEFINE failed == IF res = 1 THEN Append(w.failed, Head(w.todo)) ELSE w.failed
  <2>2. failed \in Seq(Nodes) /\ Tail(w.todo) \in Seq(Nodes)
    BY <1>1, <1>5, <1>8 DEF Workers, SendPrep
  <2>3. worker' = [worker EXCEPT ![n] = [w EXCEPT !.todo = Tail(@), !.failed = failed]]
    BY <1>1, <2>1
  <2>4. [w EXCEPT !.todo = Tail(@), !.failed = failed] \in Workers
    BY <1>1, <2>2 DEF Workers
  <2> QED BY <1>2, <1>8, <2>3, <2>4, WorkerChange DEF SendPrep
<1>9. CASE PrepsSent(n)
  <2> DEFINE new == [w EXCEPT !.pc = IF w.failed = <<>> THEN "wait" ELSE "handoff",
                              !.todo = GetNodes(Len(w.failed), N)]
  <2>1. Len(w.failed) \in 0..N - 1
    <3>1. w.failed \in Seq(Nodes) /\ Len(w.failed) <= N - 1
      BY <1>1, <1>9, <1>6 DEF PrepsSent, WorkerSound, Workers
    <3> QED BY <3>1, QuorumAssumption
  <2>2. GetNodes(Len(w.failed), N) \in Seq(Nodes)
    BY <2>1, HandoffNodes
  <2>3. worker' = [worker EXCEPT ![n] = new]
    BY <1>1, <1>9 DEF PrepsSent
  <2>4. new \in Workers
    BY <1>1, <2>2 DEF Workers, WorkerStates
  <2> QED BY <1>2, <1>9, <2>3, <2>4, WorkerChange DEF PrepsSent
<1>10. CASE SendHandoff(n)
  <2>1. PICK res \in {0, 1}, ends \in BOOLEAN :
            worker' = [worker EXCEPT
                          ![n].pc = IF ends THEN "wait" ELSE "handoff",
                          ![n].todo = IF ends THEN <<>> ELSE Tail(@),
                          ![n].count = w.count + (1 - res)]
    BY <1>10 DEF SendHandoff
  <2> DEFINE new == [w EXCEPT !.pc = IF ends THEN "wait" ELSE "handoff",
                              !.todo = IF ends THEN <<>> ELSE Tail(@),
                              !.count = w.count + (1 - res)]
  <2>2. w.todo # <<>> /\ w.count + (1 - res) \in Nat
    <3>1. w.count \in Nat
      BY <1>1 DEF Workers
    <3>2. w.count + (1 - res) \in Nat
      BY <3>1
    <3> QED BY <1>10, <1>6, <3>2 DEF SendHandoff, WorkerSound
  <2>3. worker' = [worker EXCEPT ![n] = new]
    BY <1>1, <2>1
  <2> DEFINE count == w.count + (1 - res)
             todo == IF ends THEN <<>> ELSE Tail(w.todo)
  <2>4. todo \in Seq(Nodes)
    BY <1>5, <2>2
  <2> HIDE DEF count, todo
  <2>5. [w EXCEPT !.pc = IF ends THEN "wait" ELSE "handoff", !.todo = todo, !.count = count] \in Workers
    BY <1>1, <2>2, <2>4 DEF Workers, WorkerStates, count
  <2>6. new \in Workers
    BY <2>5 DEF count, todo
  <2> QED BY <1>2, <1>10, <2>3, <2>6, WorkerChange DEF SendHandoff
<1>11. CASE SendQuery(n)
  <2>1. worker' = [worker EXCEPT ![n] = [w EXCEPT !.todo = Tail(@)]]
    BY <1>1, <1>11 DEF SendQuery
  <2>2. [w EXCEPT !.todo = Tail(@)] \in Workers
    BY <1>1, <1>5, <1>11 DEF Workers, SendQuery
  <2> QED BY <1>2, <1>11, <2>1, <2>2, WorkerChange DEF SendQuery
<1>12. CASE BeginCommits(n) \/ SendCommit(n)
  <2>1. DOMAIN writeCheck[n] \subseteq Nodes
    BY <1>12, <1>6 DEF BeginCommits, SendCommit, WorkerSound, WritePhases, TypeOK, ChecksOK, IsCheck
  <2>2. \E pc \in WorkerStates, due, visited \in SUBSET Nodes :
            worker' = [worker EXCEPT ![n] = [w EXCEPT !.pc = pc, !.due = due, !.visited = visited]]
    <3>1. CASE BeginCommits(n)
      <4>1. worker' = [worker EXCEPT ![n] = [w EXCEPT !.pc = "commit", !.due = DOMAIN writeCheck[n],
                                                      !.visited = w.visited]]
        BY <1>1, <3>1 DEF BeginCommits, Workers
      <4> QED BY <1>1, <2>1, <4>1 DEF Workers, WorkerStates
    <3>2. CASE SendCommit(n)
      <4>1. PICK target \in DOMAIN writeCheck[n] :
                worker' = [worker EXCEPT ![n] = [w EXCEPT !.pc = w.pc, !.due = w.due,
                                                          !.visited = @ \cup {target}]]
        BY <1>1, <3>2 DEF SendCommit, Workers
      <4> QED BY <1>1, <2>1, <4>1 DEF Workers
    <3> QED BY <1>12, <3>1, <3>2
  <2>3. ASSUME NEW pc \in WorkerStates, NEW due \in SUBSET Nodes, NEW visited \in SUBSET Nodes
        PROVE  [w EXCEPT !.pc = pc, !.due = due, !.visited = visited] \in Workers
    BY <1>1 DEF Workers
  <2> QED BY <1>2, <1>12, <2>2, <2>3, WorkerChange DEF BeginCommits, SendCommit
<1>13. CASE AnswerWrite(n) \/ CommitsSent(n) \/ ReadOwnValue(n) \/ AnswerRead(n)
  <2>1. PICK pc \in {"answered", "next", "waitRead"} : worker' = [worker EXCEPT ![n].pc = pc]
    BY <1>13 DEF AnswerWrite, CommitsSent, ReadOwnValue, AnswerRead
  <2>2. worker' = [worker EXCEPT ![n] = [w EXCEPT !.pc = pc]]
    BY <1>1, <2>1
  <2>3. [w EXCEPT !.pc = pc] \in Workers
    BY <1>1 DEF Workers, WorkerStates
  <2> QED BY <1>2, <1>13, <2>2, <2>3, WorkerChange
          DEF AnswerWrite, CommitsSent, ReadOwnValue, AnswerRead
<1>14. CASE HandleNextInQueue(n)
  <2>1. queue[n] \in Seq(Requests) /\ queue[n] # <<>>
    BY <1>14, <1>6 DEF TypeOK, QueuesOK, WorkerSound, HandleNextInQueue
  <2>2. SubSeq(queue[n], 1, Len(queue[n]) - 1) \in Seq(Requests)
    BY <2>1, SubSeqProperties
  <2>3. queue' \in [Nodes -> Seq(Requests)]
    BY <1>14, <2>2 DEF HandleNextInQueue, TypeOK, QueuesOK
  <2>4. [IdleWorker EXCEPT !.pc = "begin"] \in Workers
    BY <1>3 DEF Workers, WorkerStates
  <2>5. worker' \in [Nodes -> Workers]
    BY <1>1, <1>3, <1>14, <2>4 DEF HandleNextInQueue
  <2> QED BY <1>2, <2>3, <2>5, SameTypes DEF QueuesOK, Workers, WorkerStates
<1> QED BY <1>7, <1>8, <1>9, <1>10, <1>11, <1>12, <1>13, <1>14 DEF WorkerStep

LEMMA AnswerAdded ==
    ASSUME NEW map, NEW S, IsCheck(map, S), map # NilMap, NEW responder \in Nodes, NEW answer \in S,
           S \subseteq Nat \/ S \subseteq [key : Keys \cup {ZeroKey}, value : Nat]
    PROVE  /\ IsCheck(WithAnswer(map, responder, answer), S)
           /\ WithAnswer(map, responder, answer) # NilMap
<1> DEFINE new == WithAnswer(map, responder, answer)
<1>1. IsCheck(new, S)
  BY DEF IsCheck, WithAnswer
<1>2. DOMAIN new \in SUBSET Nodes /\ new \in [DOMAIN new -> S]
  BY DEF IsCheck, WithAnswer
<1> HIDE DEF new
<1>3. ASSUME S \subseteq Nat PROVE new # NilMap
  <2>1. new \in [DOMAIN new -> Nat]
    BY <1>2, <1>3
  <2>2. NilMap \notin [DOMAIN new -> Nat]
    BY <1>2, NilMapAssumption
  <2> QED BY <2>1, <2>2
<1>4. ASSUME S \subseteq [key : Keys \cup {ZeroKey}, value : Nat] PROVE new # NilMap
  <2>1. new \in [DOMAIN new -> [key : Keys \cup {ZeroKey}, value : Nat]]
    BY <1>2, <1>4
  <2>2. NilMap \notin [DOMAIN new -> [key : Keys \cup {ZeroKey}, value : Nat]]
    BY <1>2, NilMapAssumption
  <2> QED BY <2>1, <2>2
<1> QED BY <1>1, <1>3, <1>4 DEF new

LEMMA EmptyMap == <<>> # NilMap /\ DOMAIN <<>> = {} /\ \A S : IsCheck(<<>>, S)
<1>1. <<>> \in [{} -> Nat]
  OBVIOUS
<1>2. <<>> # NilMap
  BY <1>1, NilMapAssumption
<1> QED BY <1>2 DEF IsCheck

LEMMA WorkerKeepsChecksOK ==
    ASSUME TypeOK, WorkerInv, NEW n \in Nodes, WorkerStep(n)
    PROVE  ChecksOK'
<1>1. puts' = puts /\ muLeaked' = muLeaked
  BY WorkerFrame DEF clientVars
<1>2. CASE UNCHANGED <<writeCheck, readCheck>>
  BY <1>1, <1>2, ChecksStay
<1>3. CASE BeginWrite(n) \/ BeginRead(n)
  BY <1>1, <1>3, EmptyMap DEF BeginWrite, BeginRead, TypeOK, ChecksOK, IsCheck
<1>4. CASE ReadOwnValue(n) /\ readCheck' # readCheck
  <2> DEFINE key == Request(n).object.key
             answers == [key : Keys \cup {ZeroKey}, value : 0..puts]
  <2>1. readCheck[n] # NilMap /\ IsCheck(readCheck[n], answers)
    BY <1>4 DEF ReadOwnValue, TypeOK, ChecksOK, WorkerInv, WorkerSound, ReadPhases
  <2>2. [key |-> key, value |-> db[n][key]] \in answers
    <3>1. key \in Keys
      BY <1>4, HeadOfQueue DEF ReadOwnValue, Requests, Objects
    <3>2. db[n][key] \in 0..puts
      BY <3>1 DEF TypeOK, StoresOK
    <3> QED BY <3>1, <3>2
  <2>3. answers \subseteq [key : Keys \cup {ZeroKey}, value : Nat]
    OBVIOUS
  <2> DEFINE new == WithAnswer(readCheck[n], n, [key |-> key, value |-> db[n][key]])
  <2>4. IsCheck(new, answers)
    BY <2>1, <2>2, <2>3, AnswerAdded
  <2>5. readCheck' = [readCheck EXCEPT ![n] = new] /\ writeCheck' = writeCheck
    BY <1>4 DEF ReadOwnValue, AddRead
  <2> QED BY <1>1, <2>4, <2>5 DEF TypeOK, ChecksOK
<1> QED
  BY <1>2, <1>3, <1>4 DEF WorkerStep, SendPrep, PrepsSent, SendHandoff, AnswerWrite, BeginCommits,
     SendCommit, CommitsSent, SendQuery, ReadOwnValue, AnswerRead, HandleNextInQueue

(* What a worker may send, and where it is then.                           *)
WorkerSends(n, m) ==
    /\ m \in Messages /\ m.from = n /\ m.object = Request(n).object
    /\ tasks' \in {tasks, tasks \cup {m}}
    /\ retries' \in {retries, retries \cup {m}}
    /\ queue' = queue /\ results' = results
    /\ \/ /\ m.code = 0 /\ worker[n].pc = "prep" /\ m.to \in TargetSet
       \/ /\ m.code = 5 /\ worker[n].pc = "handoff"
          /\ m.to \in HandoffSet /\ m.intended \in TargetSet
       \/ /\ m.code = 2 /\ worker[n].pc = "commit" /\ m.to \in DOMAIN writeCheck[n]
       \/ /\ m.code = 7 /\ worker[n].pc = "query" /\ m.to \in TargetSet
    /\ m.code # 2 => retries' = retries

LEMMA WorkerSendsThese ==
    ASSUME TypeOK, WorkerInv, NEW n \in Nodes, WorkerStep(n)
    PROVE  UNCHANGED <<tasks, retries>> \/ \E m : WorkerSends(n, m)
<1>0. WorkerSound(n) /\ worker[n] \in Workers /\ TargetSet \subseteq Nodes /\ HandoffSet \subseteq Nodes
  BY TargetNodes, HandoffNodes DEF WorkerInv, TypeOK, QueuesOK
<1> DEFINE object == Request(n).object
<1>1. worker[n].pc # "idle" => /\ Request(n) \in Requests /\ object \in Objects
                               /\ Request(n).isWrite => object \in Written
  BY HeadOfQueue DEF Requests
<1>2. ASSUME SendPrep(n) PROVE \E m : WorkerSends(n, m)
  <2> DEFINE m == Message(0, n, Head(worker[n].todo), object, 0)
  <2>1. Head(worker[n].todo) \in TargetSet
    BY <1>0, <1>2 DEF SendPrep, WorkerSound
  <2>2. object \in Objects /\ object \in Written
    BY <1>0, <1>1, <1>2 DEF SendPrep, WorkerSound, WritePhases
  <2>3. m \in Messages
    BY <1>0, <2>1, <2>2 DEF Messages, Message
  <2>4. tasks' \in {tasks, tasks \cup {m}} /\ UNCHANGED <<queue, results, retries>>
    BY <1>2, SendEffect DEF SendPrep
  <2>5. WorkerSends(n, m)
    BY <1>2, <2>1, <2>3, <2>4 DEF WorkerSends, SendPrep, Message
  <2> QED BY <2>5
<1>3. ASSUME SendHandoff(n) PROVE \E m : WorkerSends(n, m)
  <2> DEFINE intended == worker[n].failed[worker[n].count + 1]
             m == Message(5, n, Head(worker[n].todo), object, intended)
  <2>1. Head(worker[n].todo) \in HandoffSet
    <3>1. worker[n].pc = "handoff"
      BY <1>3 DEF SendHandoff
    <3> QED BY <1>0, <3>1 DEF WorkerSound
  <2>2. intended \in TargetSet
    <3>1. /\ worker[n].failed \in Seq(TargetSet) /\ worker[n].count \in Nat
          /\ worker[n].count < Len(worker[n].failed)
      BY <1>0, <1>3 DEF SendHandoff, WorkerSound, Workers
    <3> QED BY <3>1
  <2>3. object \in Objects /\ object \in Written
    BY <1>0, <1>1, <1>3 DEF SendHandoff, WorkerSound, WritePhases
  <2>4. m \in Messages
    BY <1>0, <2>1, <2>2, <2>3 DEF Messages, Message
  <2>5. tasks' \in {tasks, tasks \cup {m}} /\ UNCHANGED <<queue, results, retries>>
    BY <1>3, SendEffect DEF SendHandoff
  <2>6. WorkerSends(n, m)
    BY <1>3, <2>1, <2>2, <2>4, <2>5 DEF WorkerSends, SendHandoff, Message
  <2> QED BY <2>6
<1>4. ASSUME SendCommit(n) PROVE \E m : WorkerSends(n, m)
  <2>1. PICK target \in DOMAIN writeCheck[n], res \in {0, 1} :
            LET m == Message(2, n, target, object, 0) IN
            Send(m, res) /\ retries' = IF res = 1 THEN retries \cup {m} ELSE retries
    BY <1>4 DEF SendCommit
  <2> DEFINE m == Message(2, n, target, object, 0)
  <2>2. target \in Nodes
    BY <1>0, <1>4 DEF SendCommit, WorkerSound, WritePhases, TypeOK, ChecksOK, IsCheck
  <2>3. object \in Objects /\ object \in Written
    BY <1>0, <1>1, <1>4 DEF SendCommit, WorkerSound, WritePhases
  <2>4. m \in Messages
    BY <2>2, <2>3 DEF Messages, Message
  <2>5. tasks' \in {tasks, tasks \cup {m}} /\ UNCHANGED <<queue, results>>
    BY <1>4, <2>1, SendEffect DEF SendCommit
  <2>6. WorkerSends(n, m)
    BY <1>4, <2>1, <2>4, <2>5 DEF WorkerSends, SendCommit, Message
  <2> QED BY <2>6
<1>5. ASSUME SendQuery(n) PROVE \E m : WorkerSends(n, m)
  <2> DEFINE m == Message(7, n, Head(worker[n].todo), object, 0)
  <2>1. Head(worker[n].todo) \in TargetSet
    BY <1>0, <1>5 DEF SendQuery, WorkerSound
  <2>2. m \in Messages
    BY <1>0, <1>1, <1>5, <2>1 DEF SendQuery, Messages, Message
  <2>3. tasks' \in {tasks, tasks \cup {m}} /\ UNCHANGED <<queue, results, retries>>
    BY <1>5, SendEffect DEF SendQuery
  <2>4. WorkerSends(n, m)
    BY <1>5, <2>1, <2>2, <2>3 DEF WorkerSends, SendQuery, Message
  <2> QED BY <2>4
<1> QED
  BY <1>2, <1>3, <1>4, <1>5 DEF WorkerStep, BeginWrite, PrepsSent, AnswerWrite, BeginCommits,
     CommitsSent, BeginRead, ReadOwnValue, AnswerRead, HandleNextInQueue

LEMMA WorkerKeepsTypeOK ==
    ASSUME TypeOK, WorkerInv, NEW n \in Nodes, WorkerStep(n)
    PROVE  TypeOK'
<1>1. UNCHANGED <<nodeVars, db, handlers, puts, gets, handoffs>>
  BY WorkerFrame DEF clientVars
<1>2. StoresOK'
  BY <1>1, StoresStay DEF TypeOK, StoresOK
<1>3. MessagesOK'
  <2>1. tasks' \subseteq Messages /\ retries' \subseteq Messages
    BY WorkerSendsThese DEF WorkerSends, TypeOK, MessagesOK
  <2> QED BY <1>1, <2>1, SameTypes DEF TypeOK, MessagesOK
<1> QED BY <1>2, <1>3, WorkerKeepsQueuesOK, WorkerKeepsChecksOK DEF TypeOK

LEMMA CrashKeepsTypeOK ==
    ASSUME TypeOK, NEW n \in Nodes, CrashEffect(n),
           tasks' \subseteq tasks, readCheck' \in {readCheck, [readCheck EXCEPT ![n] = NilMap]},
           crashes' \in Nat
    PROVE  TypeOK'
<1>1. puts' = puts /\ gets' = gets
  BY DEF CrashEffect
<1>2. StoresOK'
  BY <1>1, SameTypes DEF CrashEffect, TypeOK, StoresOK
<1>3. QueuesOK'
  <2>1. IdleWorker \in Workers
    BY DEF IdleWorker, Workers, WorkerStates
  <2>2. <<>> \in Seq(Requests)
    OBVIOUS
  <2>3. queue' \in [Nodes -> Seq(Requests)] /\ worker' \in [Nodes -> Workers]
    BY <2>1, <2>2 DEF CrashEffect, TypeOK, QueuesOK
  <2> QED BY <1>1, <2>3, SameTypes DEF QueuesOK, Workers, WorkerStates
<1>4. ChecksOK'
  BY <1>1 DEF CrashEffect, TypeOK, ChecksOK, IsCheck
<1>5. MessagesOK'
  BY <1>1, SameTypes DEF CrashEffect, TypeOK, MessagesOK
<1> QED BY <1>2, <1>3, <1>4, <1>5 DEF TypeOK

LEMMA TaskKeepsTypeOK ==
    ASSUME TypeOK, NEW m \in tasks, TaskStep(m)
    PROVE  TypeOK'
<1>1. /\ m \in Messages /\ m.to \in Nodes /\ m.from \in Nodes /\ m.object \in Objects
      /\ m.code # 7 => m.object \in Written
  BY DEF TypeOK, MessagesOK, Messages
<1>2. ASSUME Acknowledge(m) PROVE TypeOK'
  <2>1. UNCHANGED <<nodeVars, db, handlers, puts, gets, queue, worker, retries, handoffs, readCheck>>
    BY <1>2 DEF Acknowledge, HandlerUnchanged, clientVars
  <2>2. StoresOK' /\ QueuesOK'
    BY <2>1, StoresStay, QueuesStay DEF TypeOK, StoresOK
  <2>3. MessagesOK'
    BY <1>2, <2>1, SameTypes DEF Acknowledge, TypeOK, MessagesOK
  <2>4. ChecksOK'
    <3>1. CASE UNCHANGED writeCheck
      BY <1>1, <1>2, <2>1, <3>1 DEF Acknowledge, TypeOK, ChecksOK, IsCheck
    <3>2. CASE /\ writeCheck[m.from] # NilMap /\ muLeaked' = muLeaked
               /\ writeCheck' = [writeCheck EXCEPT ![m.from] = WithAnswer(@, m.to, m.object.value)]
      <4>1. m.object.value \in 1..puts /\ 1..puts \subseteq Nat
        BY <1>1, <1>2 DEF Acknowledge, Written, Objects, NoValue, TypeOK, StoresOK
      <4>2. IsCheck(writeCheck[m.from], 1..puts)
        BY <1>1 DEF TypeOK, ChecksOK
      <4>3. IsCheck(WithAnswer(writeCheck[m.from], m.to, m.object.value), 1..puts)
        BY <1>1, <3>2, <4>1, <4>2, AnswerAdded
      <4> QED BY <1>1, <2>1, <3>2, <4>3 DEF TypeOK, ChecksOK
    <3> QED BY <1>2, <3>1, <3>2 DEF Acknowledge
  <2> QED BY <2>2, <2>3, <2>4 DEF TypeOK
<1>3. ASSUME Commit(m) PROVE TypeOK'
  <2>1. /\ UNCHANGED <<nodeVars, handlers, puts, gets, queue, worker, retries, handoffs>>
        /\ UNCHANGED <<writeCheck, readCheck, muLeaked>>
    BY <1>3 DEF Commit, HandlerUnchanged, clientVars
  <2>2. QueuesOK' /\ ChecksOK'
    BY <2>1, ChecksStay, QueuesStay DEF TypeOK, StoresOK
  <2>3. MessagesOK'
    BY <1>3, <2>1, SameTypes DEF Commit, TypeOK, MessagesOK
  <2>4. StoresOK'
    BY <1>1, <1>3, <2>1, SameTypes DEF Commit, Set, Objects, TypeOK, StoresOK, nodeVars
  <2> QED BY <2>2, <2>3, <2>4 DEF TypeOK
<1>4. ASSUME HandoffCommit(m) PROVE TypeOK'
  <2>1. /\ UNCHANGED <<nodeVars, handlers, puts, gets, queue, worker, retries>>
        /\ UNCHANGED <<writeCheck, readCheck, muLeaked>>
    BY <1>4 DEF HandoffCommit, HandlerUnchanged, clientVars
  <2>2. QueuesOK' /\ ChecksOK'
    BY <2>1, ChecksStay, QueuesStay DEF TypeOK, StoresOK
  <2>3. Message(6, m.to, m.intended, m.object, 0) \in Messages
    BY <1>1, <1>4 DEF HandoffCommit, Message, Messages, Written
  <2>4. MessagesOK'
    <3>1. [message |-> Message(6, m.to, m.intended, m.object, 0), delivered |-> FALSE]
              \in [message : Messages, delivered : BOOLEAN]
      BY <2>3
    <3> QED BY <1>4, <2>1, <3>1, SameTypes DEF HandoffCommit, TypeOK, MessagesOK
  <2>5. StoresOK'
    BY <1>1, <1>4, <2>1, SameTypes DEF HandoffCommit, Set, Objects, TypeOK, StoresOK, nodeVars
  <2> QED BY <2>2, <2>4, <2>5 DEF TypeOK
<1>5. ASSUME RespondRead(m) PROVE TypeOK'
  <2> DEFINE value == db[m.to][m.object.key]
             answer == [key |-> IF value = NoValue THEN ZeroKey ELSE m.object.key, value |-> value]
             answers == [key : Keys \cup {ZeroKey}, value : 0..puts]
  <2>1. CASE CrashEffect(m.from) /\ tasks' \subseteq tasks /\ UNCHANGED <<crashes, readCheck>>
    BY <1>1, <2>1, CrashKeepsTypeOK DEF TypeOK, StoresOK
  <2>2. CASE /\ UNCHANGED <<nodeVars, clientVars, db, queue, worker, writeCheck, muLeaked,
                            retries, handoffs>>
             /\ tasks' \subseteq tasks
             /\ \/ UNCHANGED readCheck
                \/ readCheck[m.from] # NilMap /\ AddRead(m.from, m.to, answer)
    <3>1. StoresOK' /\ QueuesOK'
      BY <2>2, StoresStay, QueuesStay DEF TypeOK, StoresOK, clientVars
    <3>2. MessagesOK'
      BY <2>2, SameTypes DEF TypeOK, MessagesOK, clientVars
    <3>3. ChecksOK'
      <4>1. CASE UNCHANGED readCheck
        BY <2>2, <4>1, ChecksStay DEF clientVars
      <4>2. CASE readCheck[m.from] # NilMap /\ AddRead(m.from, m.to, answer)
        <5>1. value \in 0..puts /\ m.object.key \in Keys
          BY <1>1 DEF Objects, TypeOK, StoresOK
        <5>2. answer \in answers /\ answers \subseteq [key : Keys \cup {ZeroKey}, value : Nat]
          BY <5>1
        <5>3. IsCheck(readCheck[m.from], answers)
          BY <1>1 DEF TypeOK, ChecksOK
        <5> HIDE DEF answer, answers
        <5>4. IsCheck(WithAnswer(readCheck[m.from], m.to, answer), answers)
          BY <1>1, <4>2, <5>2, <5>3, AnswerAdded DEF answers
        <5>5. readCheck' = [readCheck EXCEPT ![m.from] = WithAnswer(@, m.to, answer)]
          BY <4>2 DEF AddRead
        <5> QED BY <1>1, <2>2, <5>4, <5>5 DEF answers, TypeOK, ChecksOK, clientVars
      <4> QED BY <2>2, <4>1, <4>2
    <3> QED BY <3>1, <3>2, <3>3 DEF TypeOK
  <2> QED BY <1>5, <2>1, <2>2 DEF RespondRead, TasksElsewhere
<1> QED BY <1>2, <1>3, <1>4, <1>5 DEF TaskStep

(* Retries and handoffs send what is pending already.                      *)
LEMMA ResendKeepsTypeOK ==
    ASSUME TypeOK,
           \/ \E m \in retries, res \in {0, 1} : Retry(m, res)
           \/ \E h \in handoffs : HandoffDelete(h) \/ \E res \in {0, 1} : HandoffSend(h, res)
    PROVE  TypeOK'
<1> DEFINE delivering == [message : Messages, delivered : BOOLEAN]
<1>1. ASSUME NEW m \in retries, NEW res \in {0, 1}, Retry(m, res) PROVE TypeOK'
  <2>1. UNCHANGED <<nodeVars, handlers, puts, gets, db, queue, worker>>
        /\ UNCHANGED <<writeCheck, readCheck, muLeaked, handoffs>>
    BY <1>1 DEF Retry, clientVars
  <2>2. tasks' \subseteq Messages /\ retries' \subseteq Messages
    BY <1>1, SendEffect DEF Retry, TypeOK, MessagesOK
  <2> QED
    BY <2>1, <2>2, SameTypes, StoresStay, QueuesStay, ChecksStay DEF TypeOK, StoresOK, MessagesOK
<1>2. ASSUME NEW h \in handoffs, NEW res \in {0, 1}, HandoffSend(h, res) PROVE TypeOK'
  <2>1. UNCHANGED <<nodeVars, handlers, puts, gets, db, queue, worker, retries>>
        /\ UNCHANGED <<writeCheck, readCheck, muLeaked>>
    BY <1>2 DEF HandoffSend, HandlerUnchanged, clientVars
  <2>2. h \in delivering /\ h.message \in Messages
    BY DEF TypeOK, MessagesOK
  <2>3. tasks' \subseteq Messages
    BY <1>2, <2>2, SendEffect DEF HandoffSend, TypeOK, MessagesOK
  <2>4. [h EXCEPT !.delivered = TRUE] \in delivering
    BY <2>2
  <2>5. handoffs' \subseteq delivering
    BY <1>2, <2>4 DEF HandoffSend, TypeOK, MessagesOK
  <2> QED
    BY <2>1, <2>3, <2>5, SameTypes, StoresStay, QueuesStay, ChecksStay
    DEF TypeOK, StoresOK, MessagesOK
<1>3. ASSUME NEW h \in handoffs, HandoffDelete(h) PROVE TypeOK'
  <2>1. UNCHANGED <<nodeVars, handlers, puts, gets, queue, worker, retries, tasks>>
        /\ UNCHANGED <<writeCheck, readCheck, muLeaked>> /\ handoffs' \subseteq handoffs
    BY <1>3 DEF HandoffDelete, HandlerUnchanged, clientVars
  <2>2. StoresOK'
    <3>1. h.message.from \in Nodes /\ h.message.object.key \in Keys
      BY DEF TypeOK, MessagesOK, Messages, Objects
    <3>2. db' \in [Nodes -> [Keys -> 0..puts]]
      BY <1>3, <3>1 DEF HandoffDelete, NoValue, TypeOK, StoresOK
    <3> QED BY <2>1, <3>2, SameTypes DEF TypeOK, StoresOK, nodeVars
  <2> QED
    BY <2>1, <2>2, SameTypes, QueuesStay, ChecksStay DEF TypeOK, StoresOK, MessagesOK
<1> QED BY <1>1, <1>2, <1>3

LEMMA NodeKeepsTypeOK ==
    ASSUME TypeOK, NEW n \in Nodes, Crash(n) \/ Restart(n) \/ Snapshot(n)
    PROVE  TypeOK'
<1>1. ASSUME Crash(n) PROVE TypeOK'
  <2>1. /\ CrashEffect(n) /\ tasks' \subseteq tasks
        /\ readCheck' = [readCheck EXCEPT ![n] = NilMap] /\ crashes' \in Nat
    BY <1>1 DEF Crash, TasksElsewhere, TypeOK, StoresOK
  <2> QED BY <2>1, CrashKeepsTypeOK
<1>2. ASSUME Restart(n) \/ Snapshot(n) PROVE TypeOK'
  <2>1. UNCHANGED <<queue, worker, writeCheck, readCheck, muLeaked, tasks, retries, handoffs, puts>>
    BY <1>2 DEF Restart, Snapshot, clientVars
  <2>2. StoresOK'
    <3>1. up' \in [Nodes -> BOOLEAN] /\ UNCHANGED <<db, handlers, crashed, puts, gets, crashes>>
      BY <1>2 DEF Restart, Snapshot, clientVars, TypeOK, StoresOK
    <3>2. disk' \in [Nodes -> [Keys -> 0..puts]]
      BY <1>2 DEF Restart, Snapshot, TypeOK, StoresOK
    <3> QED BY <3>1, <3>2, SameTypes DEF TypeOK, StoresOK
  <2> QED BY <2>1, <2>2, QueuesStay, ChecksStay, MessagesStay DEF TypeOK
<1> QED BY <1>1, <1>2

LEMMA NextKeepsTypeOK == ASSUME TypeOK, WorkerInv, [Next]_vars PROVE TypeOK'
<1>1. ASSUME NEW n \in Coordinators, WorkerStep(n) PROVE TypeOK'
  BY <1>1, NodesAssumption, WorkerKeepsTypeOK
<1>2. CASE UNCHANGED vars
  BY <1>2, StoresStay, QueuesStay, ChecksStay, MessagesStay
  DEF TypeOK, StoresOK, vars, nodeVars, clientVars
<1> QED
  BY <1>1, <1>2, ClientKeepsTypeOK, TaskKeepsTypeOK, ResendKeepsTypeOK, NodeKeepsTypeOK DEF Next

LEMMA InitTypeOK == Init => TypeOK
<1> SUFFICES ASSUME Init PROVE TypeOK
  OBVIOUS
<1>1. StoresOK
  BY DEF Init, StoresOK, NoValue
<1>2. IdleWorker \in Workers /\ <<>> \in Seq(Requests)
  BY DEF IdleWorker, Workers, WorkerStates
<1>3. QueuesOK
  BY <1>2 DEF Init, QueuesOK
<1>4. ChecksOK
  BY DEF Init, ChecksOK, IsCheck
<1>5. MessagesOK
  BY DEF Init, MessagesOK
<1> QED BY <1>1, <1>3, <1>4, <1>5 DEF TypeOK

-----------------------------------------------------------------------------
(* The worker and its queue.                                               *)

LEMMA WorkerSoundStays ==
    ASSUME NEW n, WorkerSound(n), queue'[n] = queue[n], worker'[n] = worker[n],
           writeCheck[n] # NilMap => writeCheck'[n] # NilMap,
           readCheck[n] # NilMap => readCheck'[n] # NilMap
    PROVE  WorkerSound(n)'
  BY DEF WorkerSound, Request

(* A worker that is at work is not disturbed by AddRequest.                *)
LEMMA AddRequestEffect ==
    ASSUME TypeOK, NEW n \in Nodes, NEW request \in Requests, AddRequest(n, request)
    PROVE  /\ \A i \in Nodes \ {n} : queue'[i] = queue[i] /\ worker'[i] = worker[i]
           /\ queue'[n] # <<>>
           /\ queue[n] # <<>> => worker'[n] = worker[n] /\ Request(n)' = Request(n)
           /\ queue[n] = <<>> => worker'[n].pc = "begin"
<1>1. queue \in [Nodes -> Seq(Requests)] /\ worker \in [Nodes -> Workers]
  BY DEF TypeOK, QueuesOK
<1>2. queue'[n] = Append(queue[n], request) /\ queue[n] \in Seq(Requests)
  BY <1>1 DEF AddRequest
<1>3. queue'[n] # <<>> /\ (queue[n] # <<>> => Head(queue'[n]) = Head(queue[n]))
  BY <1>2
<1>4. queue[n] = <<>> => worker'[n].pc = "begin"
  BY <1>1 DEF AddRequest, Workers
<1>5. ASSUME NEW i \in Nodes \ {n} PROVE queue'[i] = queue[i] /\ worker'[i] = worker[i]
  BY <1>1 DEF AddRequest
<1> QED BY <1>1, <1>3, <1>4, <1>5 DEF AddRequest, Request

LEMMA ClientKeepsWorkerInv ==
    ASSUME TypeOK, WorkerInv, NEW n \in Coordinators,
           \/ \E k \in Keys : PutStore(n, k) \/ Get(n, k)
           \/ \E object \in handlers[n] : PutSubmit(n, object)
    PROVE  WorkerInv'
<1> n \in Nodes
  BY NodesAssumption
<1>1. UNCHANGED <<writeCheck, readCheck>>
  BY DEF PutStore, Get, PutSubmit
<1>2. ASSUME UNCHANGED <<queue, worker>> PROVE WorkerInv'
  BY <1>1, <1>2, WorkerSoundStays DEF WorkerInv
<1>3. ASSUME NEW request \in Requests, AddRequest(n, request) PROVE WorkerInv'
  <2>1. WorkerSound(n)'
    <3>1. CASE queue[n] # <<>>
      BY <1>1, <1>3, <3>1, AddRequestEffect DEF WorkerInv, WorkerSound
    <3>2. CASE queue[n] = <<>>
      BY <1>3, <3>2, AddRequestEffect DEF WorkerSound, WritePhases, ReadPhases
    <3> QED BY <3>1, <3>2
  <2>2. ASSUME NEW i \in Nodes \ {n} PROVE WorkerSound(i)'
    BY <1>1, <1>3, AddRequestEffect, WorkerSoundStays DEF WorkerInv
  <2> QED BY <2>1, <2>2 DEF WorkerInv
<1>4. ASSUME NEW k \in Keys, Get(n, k) PROVE WorkerInv'
  <2>1. [isWrite |-> FALSE, object |-> [key |-> k, value |-> NoValue]] \in Requests
    BY DEF Requests, Objects, NoValue, TypeOK, StoresOK
  <2> QED BY <1>3, <1>4, <2>1 DEF Get
<1>5. ASSUME NEW object \in handlers[n], PutSubmit(n, object) PROVE WorkerInv'
  <2>1. [isWrite |-> TRUE, object |-> object] \in Requests
    BY DEF Requests, Written, TypeOK, StoresOK
  <2> QED BY <1>2, <1>3, <1>5, <2>1 DEF PutSubmit
<1> QED BY <1>2, <1>4, <1>5 DEF PutStore

(* A worker touches nothing of the other nodes.                            *)
LEMMA WorkerLeavesOthers ==
    ASSUME TypeOK, NEW n \in Nodes, WorkerStep(n), NEW i \in Nodes \ {n}
    PROVE  /\ queue'[i] = queue[i] /\ worker'[i] = worker[i]
           /\ writeCheck'[i] = writeCheck[i] /\ readCheck'[i] = readCheck[i]
<1>1. /\ queue \in [Nodes -> Seq(Requests)] /\ worker \in [Nodes -> Workers]
      /\ DOMAIN writeCheck = Nodes /\ DOMAIN readCheck = Nodes
  BY DEF TypeOK, QueuesOK, ChecksOK
<1>2. CASE BeginWrite(n) \/ SendPrep(n) \/ PrepsSent(n) \/ SendHandoff(n)
  BY <1>1, <1>2 DEF BeginWrite, SendPrep, PrepsSent, SendHandoff
<1>3. CASE AnswerWrite(n) \/ BeginCommits(n) \/ SendCommit(n) \/ CommitsSent(n)
  BY <1>1, <1>3 DEF AnswerWrite, BeginCommits, SendCommit, CommitsSent
<1>4. CASE BeginRead(n) \/ SendQuery(n) \/ ReadOwnValue(n) \/ AnswerRead(n)
  BY <1>1, <1>4 DEF BeginRead, SendQuery, ReadOwnValue, AnswerRead, AddRead
<1>5. CASE HandleNextInQueue(n)
  BY <1>1, <1>5 DEF HandleNextInQueue
<1> QED BY <1>2, <1>3, <1>4, <1>5 DEF WorkerStep

LEMMA WorkerKeepsItself ==
    ASSUME TypeOK, WorkerInv, NEW n \in Nodes, WorkerStep(n)
    PROVE  WorkerSound(n)'
<1> DEFINE w == worker[n]
<1>1. /\ w \in Workers /\ worker \in [Nodes -> Workers] /\ queue \in [Nodes -> Seq(Requests)]
      /\ DOMAIN writeCheck = Nodes /\ DOMAIN readCheck = Nodes
      /\ IsCheck(readCheck[n], [key : Keys \cup {ZeroKey}, value : 0..puts])
  BY DEF TypeOK, QueuesOK, ChecksOK
<1>2. WorkerSound(n)
  BY DEF WorkerInv
<1>3. CASE BeginWrite(n)
  <2>1. /\ worker'[n] = [IdleWorker EXCEPT !.pc = "prep", !.todo = Targets]
        /\ queue' = queue /\ writeCheck'[n] = <<>> /\ Request(n).isWrite /\ w.pc = "begin"
    BY <1>1, <1>3 DEF BeginWrite
  <2>2. /\ worker'[n].pc = "prep" /\ worker'[n].todo \in Seq(TargetSet)
        /\ worker'[n].failed \in Seq(TargetSet)
        /\ Len(worker'[n].todo) + Len(worker'[n].failed) <= N - 1 /\ worker'[n].count = 0
    <3>1. Targets \in Seq(TargetSet) /\ Len(Targets) = N - 1
      BY TargetNodes
    <3> QED BY <2>1, <3>1, QuorumAssumption DEF IdleWorker
  <2> QED BY <1>2, <2>1, <2>2, EmptyMap DEF WorkerSound, Request, ReadPhases
<1>4. CASE BeginRead(n)
  <2>1. /\ worker'[n] = [IdleWorker EXCEPT !.pc = "query", !.todo = Targets]
        /\ queue' = queue /\ readCheck'[n] = <<>> /\ ~Request(n).isWrite /\ w.pc = "begin"
    BY <1>1, <1>4 DEF BeginRead
  <2>2. worker'[n].pc = "query" /\ worker'[n].todo \in Seq(TargetSet)
    <3>1. Targets \in Seq(TargetSet)
      BY TargetNodes
    <3> QED BY <2>1, <3>1 DEF IdleWorker
  <2> QED BY <1>2, <2>1, <2>2, EmptyMap DEF WorkerSound, Request, WritePhases
<1>5. CASE SendPrep(n)
  <2>1. PICK res \in {0, 1} :
            worker' = [worker EXCEPT
                          ![n].todo = Tail(@),
                          ![n].failed = IF res = 1 THEN Append(@, Head(w.todo)) ELSE @]
    BY <1>5 DEF SendPrep
  <2>2. /\ w.pc = "prep" /\ w.todo # <<>> /\ queue' = queue /\ UNCHANGED <<writeCheck, readCheck>>
    BY <1>5 DEF SendPrep
  <2>3. /\ w.todo \in Seq(TargetSet) /\ w.failed \in Seq(TargetSet)
        /\ Len(w.todo) + Len(w.failed) <= N - 1 /\ w.count = 0
        /\ queue[n] # <<>> /\ Request(n).isWrite /\ writeCheck[n] # NilMap
    BY <1>2, <2>2 DEF WorkerSound, WritePhases
  <2>4. /\ worker'[n].pc = "prep" /\ worker'[n].todo = Tail(w.todo) /\ worker'[n].count = w.count
        /\ worker'[n].failed = IF res = 1 THEN Append(w.failed, Head(w.todo)) ELSE w.failed
    BY <1>1, <2>1, <2>2 DEF Workers
  <2>5. /\ worker'[n].todo \in Seq(TargetSet) /\ worker'[n].failed \in Seq(TargetSet)
        /\ Len(worker'[n].todo) + Len(worker'[n].failed) <= N - 1
    <3>1. /\ Head(w.todo) \in TargetSet /\ Tail(w.todo) \in Seq(TargetSet)
          /\ Len(Tail(w.todo)) = Len(w.todo) - 1 /\ Len(w.todo) \in Nat
      BY <2>2, <2>3
    <3>2. /\ Append(w.failed, Head(w.todo)) \in Seq(TargetSet)
          /\ Len(Append(w.failed, Head(w.todo))) = Len(w.failed) + 1 /\ Len(w.failed) \in Nat
      BY <2>3, <3>1
    <3>3. worker'[n].todo \in Seq(TargetSet) /\ worker'[n].failed \in Seq(TargetSet)
      BY <2>3, <2>4, <3>1, <3>2
    <3>4. /\ Len(worker'[n].todo) = Len(w.todo) - 1
          /\ Len(worker'[n].failed) \in {Len(w.failed), Len(w.failed) + 1}
      BY <2>4, <3>1, <3>2
    <3>5. ASSUME NEW a \in Nat, NEW b \in Nat, NEW c \in {b, b + 1}, a + b <= N - 1
          PROVE  a - 1 + c <= N - 1
      BY <3>5, QuorumAssumption
    <3>6. Len(worker'[n].todo) + Len(worker'[n].failed) <= N - 1
      BY <2>3, <3>1, <3>2, <3>4, <3>5
    <3> QED BY <3>3, <3>6
  <2> QED BY <2>2, <2>3, <2>4, <2>5 DEF WorkerSound, Request, ReadPhases
<1>6. CASE PrepsSent(n)
  <2>1. /\ w.pc = "prep" /\ w.todo = <<>> /\ queue' = queue /\ UNCHANGED <<writeCheck, readCheck>>
        /\ worker'[n].pc = IF w.failed = <<>> THEN "wait" ELSE "handoff"
        /\ worker'[n].todo = GetNodes(Len(w.failed), N)
        /\ worker'[n].failed = w.failed /\ worker'[n].count = w.count
    BY <1>1, <1>6 DEF PrepsSent, Workers
  <2>2. /\ w.failed \in Seq(TargetSet) /\ Len(w.failed) \in 0..N - 1
        /\ queue[n] # <<>> /\ Request(n).isWrite /\ writeCheck[n] # NilMap
    BY <1>2, <2>1, QuorumAssumption DEF WorkerSound, WritePhases
  <2>3. GetNodes(Len(w.failed), N) \in Seq(HandoffSet) /\ Len(GetNodes(Len(w.failed), N)) = Len(w.failed)
    BY <2>2, HandoffNodes
  <2>4. w.failed # <<>> => GetNodes(Len(w.failed), N) # <<>> /\ 0 < Len(w.failed)
    BY <2>2, <2>3
  <2>5. w.count = 0
    BY <1>2, <2>1 DEF WorkerSound
  <2> QED BY <2>1, <2>2, <2>3, <2>4, <2>5 DEF WorkerSound, Request, ReadPhases, WritePhases
<1>7. CASE SendHandoff(n)
  <2>1. PICK res \in {0, 1} :
            LET count == w.count + (1 - res)
                ends == \/ Tail(w.todo) = <<>>
                        \/ count = Len(w.failed)
                        \/ res = 0 /\ N + (Len(w.failed) - Len(w.todo)) - w.count = n
            IN  worker' = [worker EXCEPT
                          ![n].pc = IF ends THEN "wait" ELSE "handoff",
                          ![n].todo = IF ends THEN <<>> ELSE Tail(@),
                          ![n].count = count]
    BY <1>7 DEF SendHandoff
  <2>2. /\ w.pc = "handoff" /\ queue' = queue /\ UNCHANGED <<writeCheck, readCheck>>
    BY <1>7 DEF SendHandoff
  <2>3. /\ w.todo \in Seq(HandoffSet) /\ w.todo # <<>> /\ w.failed \in Seq(TargetSet)
        /\ w.count < Len(w.failed) /\ w.count \in Nat
        /\ queue[n] # <<>> /\ Request(n).isWrite /\ writeCheck[n] # NilMap
    BY <1>1, <1>2, <2>2 DEF WorkerSound, WritePhases, Workers
  <2>4. /\ worker'[n].pc \in {"wait", "handoff"} /\ worker'[n].failed = w.failed
        /\ worker'[n].pc = "handoff" => /\ worker'[n].todo = Tail(w.todo)
                                        /\ Tail(w.todo) # <<>>
                                        /\ worker'[n].count = w.count + (1 - res)
                                        /\ worker'[n].count # Len(w.failed)
    BY <1>1, <2>1 DEF Workers
  <2>5. worker'[n].pc = "handoff" => /\ worker'[n].todo \in Seq(HandoffSet)
                                     /\ worker'[n].count < Len(worker'[n].failed)
    <3>1. Tail(w.todo) \in Seq(HandoffSet) /\ Len(w.failed) \in Nat
      BY <2>3
    <3>2. ASSUME NEW a \in Nat, NEW b \in Nat, a < b, a + (1 - res) # b
          PROVE  a + (1 - res) < b
      BY <3>2
    <3>3. worker'[n].pc = "handoff" => w.count + (1 - res) < Len(w.failed)
      BY <2>3, <2>4, <3>1, <3>2
    <3> QED BY <2>4, <3>1, <3>3
  <2> QED BY <2>2, <2>3, <2>4, <2>5 DEF WorkerSound, Request, ReadPhases, WritePhases
<1>8. CASE SendQuery(n)
  <2>1. /\ worker'[n].pc = "query" /\ worker'[n].todo = Tail(w.todo) /\ w.todo # <<>>
        /\ w.pc = "query" /\ queue' = queue /\ readCheck' = readCheck
    BY <1>1, <1>8 DEF SendQuery, Workers
  <2>2. /\ w.todo \in Seq(TargetSet) /\ queue[n] # <<>> /\ ~Request(n).isWrite
        /\ readCheck[n] # NilMap
    BY <1>2, <2>1 DEF WorkerSound, ReadPhases
  <2>3. worker'[n].todo \in Seq(TargetSet)
    BY <2>1, <2>2
  <2> QED BY <2>1, <2>2, <2>3 DEF WorkerSound, Request, ReadPhases, WritePhases
<1>9. CASE ReadOwnValue(n)
  <2>1. /\ worker'[n].pc = "waitRead" /\ w.pc = "query" /\ queue' = queue
        /\ \/ readCheck' = readCheck
           \/ /\ readCheck'[n] = WithAnswer(readCheck[n], n, [key |-> Request(n).object.key,
                                                  value |-> db[n][Request(n).object.key]])
              /\ db[n][Request(n).object.key] # NoValue
    BY <1>1, <1>9 DEF ReadOwnValue, AddRead, Workers
  <2>2. queue[n] # <<>> /\ ~Request(n).isWrite /\ readCheck[n] # NilMap
    BY <1>2, <2>1 DEF WorkerSound, ReadPhases
  <2>3. readCheck'[n] # NilMap
    <3>1. Request(n).object.key \in Keys
      BY <2>1, HeadOfQueue DEF Requests, Objects
    <3>2. db[n][Request(n).object.key] \in 0..puts
      BY <3>1 DEF TypeOK, StoresOK
    <3> DEFINE answers == [key : Keys \cup {ZeroKey}, value : 0..puts]
               answer == [key |-> Request(n).object.key, value |-> db[n][Request(n).object.key]]
    <3>3. answer \in answers /\ answers \subseteq [key : Keys \cup {ZeroKey}, value : Nat]
      BY <3>1, <3>2
    <3>4. IsCheck(readCheck[n], answers)
      BY <1>1
    <3> HIDE DEF answers, answer
    <3>5. WithAnswer(readCheck[n], n, answer) # NilMap
      BY <2>2, <3>3, <3>4, AnswerAdded
    <3> QED BY <2>1, <2>2, <3>5 DEF answer
  <2> QED BY <2>1, <2>2, <2>3 DEF WorkerSound, Request, ReadPhases, WritePhases
<1>10. CASE AnswerWrite(n) \/ BeginCommits(n) \/ SendCommit(n)
  <2>1. /\ w.pc \in {"wait", "answered", "commit"} /\ worker'[n].pc \in {"answered", "commit", "next"}
        /\ queue' = queue /\ UNCHANGED <<writeCheck, readCheck>>
    BY <1>1, <1>10 DEF AnswerWrite, BeginCommits, SendCommit, Workers
  <2> QED BY <1>2, <2>1 DEF WorkerSound, Request, ReadPhases, WritePhases
<1>11. CASE CommitsSent(n) \/ AnswerRead(n)
  <2>1. w.pc \in {"commit", "waitRead"} /\ worker'[n].pc = "next" /\ queue' = queue
    BY <1>1, <1>11 DEF CommitsSent, AnswerRead, Workers
  <2> QED BY <1>2, <2>1 DEF WorkerSound, Request, ReadPhases, WritePhases
<1>12. CASE HandleNextInQueue(n)
  <2>1. worker'[n].pc = IF queue'[n] = <<>> THEN "idle" ELSE "begin"
    BY <1>1, <1>12 DEF HandleNextInQueue, IdleWorker
  <2> QED BY <2>1 DEF WorkerSound, ReadPhases, WritePhases
<1> QED
  BY <1>3, <1>4, <1>5, <1>6, <1>7, <1>8, <1>9, <1>10, <1>11, <1>12 DEF WorkerStep

(* Once made, a map stays a map until its process ends.                    *)
LEMMA TaskEffect ==
    ASSUME TypeOK, NEW m \in tasks, TaskStep(m)
    PROVE  \/ /\ UNCHANGED <<queue, worker>>
              /\ \A n \in Nodes : /\ writeCheck[n] # NilMap => writeCheck'[n] # NilMap
                                  /\ readCheck[n] # NilMap => readCheck'[n] # NilMap
           \/ /\ m.from \in Nodes /\ RespondRead(m) /\ CrashEffect(m.from)
              /\ UNCHANGED readCheck /\ readCheck[m.from] = NilMap
<1>1. /\ m \in Messages /\ m.to \in Nodes /\ m.from \in Nodes
      /\ DOMAIN writeCheck = Nodes /\ DOMAIN readCheck = Nodes
  BY DEF TypeOK, MessagesOK, Messages, ChecksOK
<1>2. CASE Acknowledge(m)
  <2>1. UNCHANGED <<queue, worker, readCheck>>
    BY <1>2 DEF Acknowledge, HandlerUnchanged
  <2>2. CASE writeCheck' = writeCheck
    BY <2>1, <2>2
  <2>3. CASE /\ writeCheck[m.from] # NilMap
             /\ writeCheck' = [writeCheck EXCEPT ![m.from] = WithAnswer(@, m.to, m.object.value)]
    <3>1. m.object.value \in 1..puts /\ 1..puts \subseteq Nat
      BY <1>1, <1>2 DEF Acknowledge, Messages, Written, Objects, NoValue, TypeOK, StoresOK
    <3>2. IsCheck(writeCheck[m.from], 1..puts)
      BY <1>1 DEF TypeOK, ChecksOK
    <3>3. WithAnswer(writeCheck[m.from], m.to, m.object.value) # NilMap
      BY <1>1, <2>3, <3>1, <3>2, AnswerAdded
    <3> QED BY <1>1, <2>1, <2>3, <3>3
  <2> QED BY <1>2, <2>2, <2>3 DEF Acknowledge
<1>3. CASE Commit(m) \/ HandoffCommit(m)
  BY <1>3 DEF Commit, HandoffCommit, HandlerUnchanged
<1>4. CASE RespondRead(m)
  <2> DEFINE value == db[m.to][m.object.key]
             answer == [key |-> IF value = NoValue THEN ZeroKey ELSE m.object.key, value |-> value]
             answers == [key : Keys \cup {ZeroKey}, value : 0..puts]
  <2>1. CASE /\ readCheck[m.from] # NilMap /\ AddRead(m.from, m.to, answer)
             /\ UNCHANGED <<queue, worker, writeCheck>>
    <3>1. value \in 0..puts /\ m.object.key \in Keys
      BY <1>1 DEF Messages, Objects, TypeOK, StoresOK
    <3>2. answer \in answers /\ answers \subseteq [key : Keys \cup {ZeroKey}, value : Nat]
      BY <3>1
    <3>3. IsCheck(readCheck[m.from], answers)
      BY <1>1 DEF TypeOK, ChecksOK
    <3> HIDE DEF answer, answers
    <3>4. WithAnswer(readCheck[m.from], m.to, answer) # NilMap
      BY <1>1, <2>1, <3>2, <3>3, AnswerAdded DEF answers
    <3> QED BY <1>1, <2>1, <3>4 DEF AddRead
  <2> QED BY <1>1, <1>4, <2>1 DEF RespondRead
<1> QED BY <1>2, <1>3, <1>4 DEF TaskStep

LEMMA CrashKeepsWorkerInv ==
    ASSUME TypeOK, WorkerInv, NEW n \in Nodes, CrashEffect(n),
           \A i \in Nodes \ {n} : readCheck'[i] = readCheck[i]
    PROVE  WorkerInv'
<1>1. /\ queue \in [Nodes -> Seq(Requests)] /\ worker \in [Nodes -> Workers]
      /\ DOMAIN writeCheck = Nodes
  BY DEF TypeOK, QueuesOK, ChecksOK
<1>2. WorkerSound(n)'
  BY <1>1 DEF CrashEffect, WorkerSound, IdleWorker, WritePhases, ReadPhases
<1>3. ASSUME NEW i \in Nodes \ {n} PROVE WorkerSound(i)'
  BY <1>1, WorkerSoundStays DEF CrashEffect, WorkerInv
<1> QED BY <1>2, <1>3 DEF WorkerInv

LEMMA OthersKeepWorkerInv ==
    ASSUME TypeOK, WorkerInv,
           \/ \E m \in tasks : TaskStep(m)
           \/ \E m \in retries, res \in {0, 1} : Retry(m, res)
           \/ \E h \in handoffs : HandoffDelete(h) \/ \E res \in {0, 1} : HandoffSend(h, res)
           \/ \E n \in Nodes : Crash(n) \/ Restart(n) \/ Snapshot(n)
    PROVE  WorkerInv'
<1>1. ASSUME UNCHANGED <<queue, worker>>,
             \A n \in Nodes : /\ writeCheck[n] # NilMap => writeCheck'[n] # NilMap
                              /\ readCheck[n] # NilMap => readCheck'[n] # NilMap
      PROVE  WorkerInv'
  BY <1>1, WorkerSoundStays DEF WorkerInv
<1>2. ASSUME NEW m \in tasks, TaskStep(m) PROVE WorkerInv'
  BY <1>1, <1>2, TaskEffect, CrashKeepsWorkerInv
<1>3. ASSUME \/ \E m \in retries, res \in {0, 1} : Retry(m, res)
             \/ \E h \in handoffs : HandoffDelete(h) \/ \E res \in {0, 1} : HandoffSend(h, res)
             \/ \E n \in Nodes : Restart(n) \/ Snapshot(n)
      PROVE  WorkerInv'
  <2>1. UNCHANGED <<queue, worker, writeCheck, readCheck>>
    BY <1>3 DEF Retry, HandoffDelete, HandoffSend, HandlerUnchanged, Restart, Snapshot
  <2> QED BY <1>1, <2>1
<1>4. ASSUME NEW n \in Nodes, Crash(n) PROVE WorkerInv'
  <2>1. \A i \in Nodes \ {n} : readCheck'[i] = readCheck[i]
    BY <1>4 DEF Crash, TypeOK, ChecksOK
  <2> QED BY <1>4, <2>1, CrashKeepsWorkerInv DEF Crash
<1> QED BY <1>2, <1>3, <1>4

(* The inductive invariant.                                                *)
Typed == TypeOK /\ WorkerInv

LEMMA InitTyped == Init => Typed
<1> SUFFICES ASSUME Init PROVE WorkerInv
  BY InitTypeOK DEF Typed
<1> QED BY DEF Init, WorkerInv, WorkerSound, IdleWorker, WritePhases, ReadPhases

LEMMA NextTyped == ASSUME Typed, [Next]_vars PROVE Typed'
<1>1. ASSUME NEW n \in Coordinators, WorkerStep(n) PROVE WorkerInv'
  <2>1. n \in Nodes
    BY NodesAssumption
  <2>2. ASSUME NEW i \in Nodes \ {n} PROVE WorkerSound(i)'
    BY <1>1, <2>1, WorkerLeavesOthers, WorkerSoundStays DEF Typed, WorkerInv
  <2> QED BY <1>1, <2>1, <2>2, WorkerKeepsItself DEF Typed, WorkerInv
<1>2. ASSUME UNCHANGED vars PROVE WorkerInv'
  BY <1>2, WorkerSoundStays DEF Typed, WorkerInv, vars
<1> QED
  BY <1>1, <1>2, ClientKeepsWorkerInv, OthersKeepWorkerInv, NextKeepsTypeOK DEF Typed, Next

(* Types are kept by every step of every instance.                         *)
THEOREM TypeCorrect == Spec => []TypeOK
<1>1. Typed => TypeOK
  BY DEF Typed
<1> QED BY <1>1, InitTyped, NextTyped, PTL DEF Spec

(* The worker of a node works on the head of its queue.                    *)
THEOREM AllTyped == Spec => []Typed
  BY InitTyped, NextTyped, PTL DEF Spec
=============================================================================
