----------------------------- MODULE Replication -----------------------------
(***************************************************************************)
(* Quorum replication with hinted handoff: the Replicator of every node    *)
(* (pkg/data_replication/replication.go) under the handlers that call it   *)
(* (putHandler, getHandler and replicationHandler of pkg/node/node.go),    *)
(* over an unreliable network and nodes that crash and are restarted.      *)
(*                                                                         *)
(* A node replicates one request at a time (module RequestQueue), so the   *)
(* goroutines of ReplicateWrites and ReplicateReads are one worker per     *)
(* node.  An HTTP message whose handler starts a goroutine is a member of  *)
(* tasks from its delivery until that goroutine has done its work; two     *)
(* equal messages that are pending together count as one.                  *)
(*                                                                         *)
(* Values are numbered in the order of the PUTs; their vector clocks are   *)
(* the business of modules DataVersioning and VersionedReads.              *)
(***************************************************************************)
EXTENDS Integers, Sequences, FiniteSets

CONSTANTS
    Nodes,         (* node ids, integers                                      *)
    Coordinators,  (* the nodes that clients talk to                          *)
    PrefLst,       (* the preference list written into putHandler, getHandler *)
    N, R, W,       (* replication factor and quorums                          *)
    Keys,          (* client keys                                             *)
    MerklerReady,  (* does the Merkler have its mutex and its trees?  main.go
                      gives it neither, and putHandler panics in UpdateMapData *)
    Timely,        (* TRUE: replies come within the second that the worker
                      sleeps.  FALSE: they may come at any time               *)
    Lossy,         (* may a message to a live node time out?                  *)
    ZeroKey,       (* "", the key of the zero DataObject                      *)
    NilMap,        (* a map field of the Replicator before make(...)          *)
    Workloads,     (* bound on the clients: pairs of how many PUTs and GETs   *)
    MaxCrashes     (* bound on the crashes                                    *)

ASSUME NodesAssumption == Nodes \subseteq Nat /\ Coordinators \subseteq Nodes
ASSUME QuorumAssumption == N \in Nat \ {0} /\ R \in Nat /\ W \in Nat \ {0}
ASSUME PrefLstAssumption ==
    /\ PrefLst \in Seq(Nodes)
    /\ 2 * (N - 1) < Len(PrefLst)
    /\ \A i, j \in 1..Len(PrefLst) : PrefLst[i] = PrefLst[j] => i = j
ASSUME NilMapAssumption ==
    \A S \in SUBSET Nodes : /\ NilMap \notin [S -> Nat]
                            /\ NilMap \notin [S -> [key : Keys \cup {ZeroKey}, value : Nat]]
ASSUME ZeroKeyAssumption == ZeroKey \notin Keys
ASSUME BoundsAssumption == Workloads \subseteq Nat \X Nat /\ MaxCrashes \in Nat

VARIABLES
    up,         (* is the node's process running?                             *)
    db,         (* redis: the value of each key, 0 when there is none         *)
    disk,       (* the last redis snapshot (--save 60 1), what a crash leaves *)
    handlers,   (* PUT handlers between storing a value and AddRequest        *)
    queue,      (* Replicator.Queue                                           *)
    worker,     (* the goroutine replicating the head of the queue            *)
    writeCheck, (* Replicator.WriteCheck: for each node that acknowledged,
                   the value it did so for (the code only has true)           *)
    readCheck,  (* Replicator.ReadCheck: the answers by responder             *)
    muLeaked,   (* r.mu was locked by a handler that panicked                 *)
    tasks,      (* messages accepted whose goroutine has not finished         *)
    retries,    (* goroutines in HandleFailedSend                             *)
    handoffs,   (* goroutines in the loop of HandleHandoffCommit              *)
    applied,    (* history: <<node, value>> stored by a replication message   *)
    handedOff,  (* history: <<handoff node, object, intended node>>           *)
    results,    (* history: what the requests were answered, and which of
                   their messages had not been answered by then (late)        *)
    crashed,    (* history: the nodes whose process has ended at some time    *)
    puts, gets, crashes

nodeVars == <<up, disk, crashed, crashes>>
clientVars == <<handlers, puts, gets>>
history == <<applied, handedOff, results>>
vars == <<nodeVars, clientVars, history, db, queue, worker, writeCheck, readCheck,
          muLeaked, tasks, retries, handoffs>>

-----------------------------------------------------------------------------
NoValue == 0
Values == UNION {1..load[1] : load \in Workloads}

(* No PUT has given another value than these yet.                          *)
Objects == [key : Keys, value : 0..puts]
Written == {object \in Objects : object.value # NoValue}

Requests == {request \in [isWrite : BOOLEAN, object : Objects] :
                request.isWrite => request.object \in Written}

(* 0 prep, 2 commit, 5 commit to handoff, 6 handoff to intended, 7 read.   *)
(* Codes 1 and 8 are the replies to 0 and 7 and take effect at once.       *)
(* Nothing sends code 3, so nothing sends code 4 either.                   *)
Message(code, from, to, object, intended) ==
    [code |-> code, from |-> from, to |-> to, object |-> object, intended |-> intended]

Messages == {m \in [code : {0, 2, 5, 6, 7}, from : Nodes, to : Nodes, object : Objects,
                    intended : Nodes \cup {0}] :
                /\ m.code # 7 => m.object \in Written
                /\ m.code = 5 => m.intended \in Nodes}

(* todo: nodes still to be contacted; failed: targets whose prep failed;   *)
(* count: handoff nodes contacted; due, visited: nodes to commit to, and   *)
(* those committed to.                                                     *)
IdleWorker == [pc |-> "idle", todo |-> <<>>, failed |-> <<>>, count |-> 0,
               due |-> {}, visited |-> {}]

(* Mutant of GetNodes: off by one.                                         *)
GetNodesFromNext(numNodes, startingPt) ==
    [i \in 1..numNodes |->
        LET position == (startingPt + i) % Len(PrefLst)
        IN  IF position = 0 THEN 0 ELSE PrefLst[position]]

(* getNodes: positions modulo the length of a map that has no position 0,  *)
(* where Go reads the zero node id.                                        *)
GetNodes(numNodes, startingPt) ==
    [i \in 1..numNodes |->
        LET position == (startingPt + i - 1) % Len(PrefLst)
        IN  IF position = 0 THEN 0 ELSE PrefLst[position]]

Targets == GetNodes(N - 1, 1)
TargetSet == {Targets[i] : i \in DOMAIN Targets}

StoresOK ==
    /\ up \in [Nodes -> BOOLEAN]
    /\ db \in [Nodes -> [Keys -> 0..puts]]
    /\ disk \in [Nodes -> [Keys -> 0..puts]]
    /\ handlers \in [Nodes -> SUBSET Written]
    /\ crashed \subseteq Nodes
    /\ puts \in Nat /\ gets \in Nat /\ crashes \in Nat

WorkerStates == {"idle", "begin", "prep", "handoff", "wait", "answered", "commit",
                 "query", "waitRead", "next"}

Workers == [pc : WorkerStates, todo : Seq(Nodes), failed : Seq(Nodes), count : Nat,
            due : SUBSET Nodes, visited : SUBSET Nodes]

QueuesOK ==
    /\ queue \in [Nodes -> Seq(Requests)]
    /\ worker \in [Nodes -> Workers]

IsCheck(map, answers) ==
    map # NilMap => /\ DOMAIN map \subseteq Nodes
                    /\ \A m \in DOMAIN map : map[m] \in answers

ChecksOK ==
    /\ DOMAIN writeCheck = Nodes /\ DOMAIN readCheck = Nodes
    /\ \A n \in Nodes :
           /\ IsCheck(writeCheck[n], 1..puts)
           /\ IsCheck(readCheck[n], [key : Keys \cup {ZeroKey}, value : 0..puts])
    /\ muLeaked \in [Nodes -> BOOLEAN]

MessagesOK ==
    /\ tasks \subseteq Messages
    /\ retries \subseteq Messages
    /\ handoffs \subseteq [message : Messages, delivered : BOOLEAN]

TypeOK == StoresOK /\ QueuesOK /\ ChecksOK /\ MessagesOK

Init ==
    /\ up = [n \in Nodes |-> TRUE]
    /\ db = [n \in Nodes |-> [k \in Keys |-> NoValue]]
    /\ disk = [n \in Nodes |-> [k \in Keys |-> NoValue]]
    /\ handlers = [n \in Nodes |-> {}]
    /\ queue = [n \in Nodes |-> <<>>]
    /\ worker = [n \in Nodes |-> IdleWorker]
    /\ writeCheck = [n \in Nodes |-> NilMap]
    /\ readCheck = [n \in Nodes |-> NilMap]
    /\ muLeaked = [n \in Nodes |-> FALSE]
    /\ tasks = {}
    /\ retries = {}
    /\ handoffs = {}
    /\ applied = {}
    /\ handedOff = {}
    /\ results = {}
    /\ crashed = {}
    /\ puts = 0
    /\ gets = 0
    /\ crashes = 0

-----------------------------------------------------------------------------
(* SendReplicationMessage returns 0 when the request was answered and 1    *)
(* when it was not.  A message that timed out may still have been          *)
(* delivered.                                                              *)
Deliver(m) == up[m.to] /\ tasks' = tasks \cup {m}

Send(m, res) ==
    \/ res = 0 /\ Deliver(m)
    \/ res = 1 /\ (Lossy \/ ~up[m.to]) /\ UNCHANGED tasks
    \/ res = 1 /\ Lossy /\ Deliver(m)

(* redis SET at node, on behalf of a replication message.                  *)
Set(node, object) ==
    /\ db' = [db EXCEPT ![node][object.key] = object.value]
    /\ applied' = applied \cup {<<node, object.value>>}

(* An assignment to WriteCheck or ReadCheck.                               *)
WithAnswer(map, node, answer) ==
    [m \in DOMAIN map \cup {node} |-> IF m = node THEN answer ELSE map[m]]

AddRequest(n, request) ==
    /\ queue' = [queue EXCEPT ![n] = Append(@, request)]
    /\ worker' = IF queue[n] = <<>> THEN [worker EXCEPT ![n].pc = "begin"] ELSE worker

-----------------------------------------------------------------------------
(* putHandler up to its own redis SET: the value is stored here before     *)
(* anything is asked of the other replicas.                                *)
PutStore(n, key) ==
    /\ up[n]
    /\ \E load \in Workloads : puts < load[1] /\ gets <= load[2]
    /\ puts' = puts + 1
    /\ db' = [db EXCEPT ![n][key] = puts + 1]
    /\ handlers' = [handlers EXCEPT ![n] = @ \cup {[key |-> key, value |-> puts + 1]}]
    /\ UNCHANGED <<nodeVars, history, gets, queue, worker, writeCheck, readCheck, muLeaked,
                   tasks, retries, handoffs>>

(* The rest of putHandler.  A Merkler that is not ready panics, net/http   *)
(* recovers, and the handler ends before AddRequest.                       *)
PutSubmit(n, object) ==
    /\ object \in handlers[n]
    /\ handlers' = [handlers EXCEPT ![n] = @ \ {object}]
    /\ IF MerklerReady
       THEN AddRequest(n, [isWrite |-> TRUE, object |-> object])
       ELSE UNCHANGED <<queue, worker>>
    /\ UNCHANGED <<nodeVars, history, puts, gets, db, writeCheck, readCheck, muLeaked,
                   tasks, retries, handoffs>>

Get(n, key) ==
    /\ up[n]
    /\ \E load \in Workloads : puts <= load[1] /\ gets < load[2]
    /\ gets' = gets + 1
    /\ AddRequest(n, [isWrite |-> FALSE, object |-> [key |-> key, value |-> NoValue]])
    /\ UNCHANGED <<nodeVars, history, handlers, puts, db, writeCheck, readCheck, muLeaked,
                   tasks, retries, handoffs>>

-----------------------------------------------------------------------------
(* ReplicateWrites and ReplicateReads, for the head of the queue.          *)

Request(n) == Head(queue[n])

ReplicationUnchanged == UNCHANGED <<nodeVars, clientVars, applied, handedOff, db, muLeaked>>

(* Mutants of BeginWrite: the map is made once only, or never.             *)
BeginWriteOnOldMap(n) ==
    /\ worker[n].pc = "begin"
    /\ Request(n).isWrite
    /\ writeCheck' = [writeCheck EXCEPT ![n] = IF @ = NilMap THEN <<>> ELSE @]
    /\ worker' = [worker EXCEPT ![n] = [IdleWorker EXCEPT !.pc = "prep", !.todo = Targets]]
    /\ UNCHANGED <<queue, readCheck, tasks, retries, handoffs, results>>
    /\ ReplicationUnchanged

BeginWriteOnNilMap(n) ==
    /\ worker[n].pc = "begin"
    /\ Request(n).isWrite
    /\ worker' = [worker EXCEPT ![n] = [IdleWorker EXCEPT !.pc = "prep", !.todo = Targets]]
    /\ UNCHANGED <<queue, writeCheck, readCheck, tasks, retries, handoffs, results>>
    /\ ReplicationUnchanged

(* The maps are reset without holding r.mu.                                *)
BeginWrite(n) ==
    /\ worker[n].pc = "begin"
    /\ Request(n).isWrite
    /\ writeCheck' = [writeCheck EXCEPT ![n] = <<>>]
    /\ worker' = [worker EXCEPT ![n] = [IdleWorker EXCEPT !.pc = "prep", !.todo = Targets]]
    /\ UNCHANGED <<queue, readCheck, tasks, retries, handoffs, results>>
    /\ ReplicationUnchanged

SendPrep(n) ==
    LET w == worker[n] IN
    /\ w.pc = "prep"
    /\ w.todo # <<>>
    /\ \E res \in {0, 1} :
           /\ Send(Message(0, n, Head(w.todo), Request(n).object, 0), res)
           /\ worker' = [worker EXCEPT
                            ![n].todo = Tail(@),
                            ![n].failed = IF res = 1 THEN Append(@, Head(w.todo)) ELSE @]
    /\ UNCHANGED <<queue, writeCheck, readCheck, retries, handoffs, results>>
    /\ ReplicationUnchanged

(* As many handoff nodes are tried as preps failed, each once.             *)
PrepsSent(n) ==
    LET w == worker[n] IN
    /\ w.pc = "prep"
    /\ w.todo = <<>>
    /\ worker' = [worker EXCEPT
                     ![n].pc = IF w.failed = <<>> THEN "wait" ELSE "handoff",
                     ![n].todo = GetNodes(Len(w.failed), N)]
    /\ UNCHANGED <<queue, writeCheck, readCheck, tasks, retries, handoffs, results>>
    /\ ReplicationUnchanged

(* startingPt counts the failed handoffs on from N; when it happens to be  *)
(* this node's id the loop ends after a success.                           *)
SendHandoff(n) ==
    LET w == worker[n]
        startingPt == N + (Len(w.failed) - Len(w.todo)) - w.count
        count(res) == w.count + (1 - res)
        ends(res) == \/ Tail(w.todo) = <<>>
                     \/ count(res) = Len(w.failed)
                     \/ res = 0 /\ startingPt = n
    IN
    /\ w.pc = "handoff"
    /\ \E res \in {0, 1} :
           /\ Send(Message(5, n, Head(w.todo), Request(n).object, w.failed[w.count + 1]), res)
           /\ worker' = [worker EXCEPT
                            ![n].pc = IF ends(res) THEN "wait" ELSE "handoff",
                            ![n].todo = IF ends(res) THEN <<>> ELSE Tail(@),
                            ![n].count = count(res)]
    /\ UNCHANGED <<queue, writeCheck, readCheck, retries, handoffs, results>>
    /\ ReplicationUnchanged

(* The worker sleeps for a second before it looks at the replies.  A query *)
(* is not answered where r.mu is never free; a prep does not need r.mu.    *)
RepliesIn(n, code) ==
    Timely => \A m \in tasks :
                  m.from = n /\ m.code = code => code = 7 /\ muLeaked[m.to]

(* HandoffCheck is filled by code 4 only, which is never sent.             *)
HandoffCheck == {}

(* The preps or queries of a node that nobody has answered yet.            *)
Unanswered(n, code) == {m \in tasks : m.from = n /\ m.code = code}

CheckWriteQuorum(n) == Cardinality(DOMAIN writeCheck[n]) + Cardinality(HandoffCheck) >= W

(* Mutants of AnswerWrite: the value is committed without a quorum, or the *)
(* answer waits for one.                                                   *)
AnswerWriteAnyway(n) ==
    /\ worker[n].pc = "wait"
    /\ RepliesIn(n, 0)
    /\ ~muLeaked[n]
    /\ results' = results \cup
           {[at |-> n, request |-> Request(n), success |-> CheckWriteQuorum(n),
             handoffNodes |-> worker[n].count, late |-> Unanswered(n, 0)]}
    /\ worker' = [worker EXCEPT ![n].pc = "answered"]
    /\ UNCHANGED <<queue, writeCheck, readCheck, tasks, retries, handoffs>>
    /\ ReplicationUnchanged

AnswerWriteOnQuorum(n) ==
    /\ worker[n].pc = "wait"
    /\ RepliesIn(n, 0)
    /\ ~muLeaked[n]
    /\ CheckWriteQuorum(n)
    /\ results' = results \cup
           {[at |-> n, request |-> Request(n), success |-> TRUE,
             handoffNodes |-> worker[n].count, late |-> Unanswered(n, 0)]}
    /\ worker' = [worker EXCEPT ![n].pc = "answered"]
    /\ UNCHANGED <<queue, writeCheck, readCheck, tasks, retries, handoffs>>
    /\ ReplicationUnchanged

(* checkWriteQuorum, for which r.mu has to be free, and the client's       *)
(* answer, which is sent before anything is committed.                     *)
AnswerWrite(n) ==
    /\ worker[n].pc = "wait"
    /\ RepliesIn(n, 0)
    /\ ~muLeaked[n]
    /\ results' = results \cup
           {[at |-> n, request |-> Request(n), success |-> CheckWriteQuorum(n),
             handoffNodes |-> worker[n].count, late |-> Unanswered(n, 0)]}
    /\ worker' = [worker EXCEPT ![n].pc = IF CheckWriteQuorum(n) THEN "answered" ELSE "next"]
    /\ UNCHANGED <<queue, writeCheck, readCheck, tasks, retries, handoffs>>
    /\ ReplicationUnchanged

(* The loop over WriteCheck begins, without r.mu, on the entries it has.   *)
BeginCommits(n) ==
    /\ worker[n].pc = "answered"
    /\ worker' = [worker EXCEPT ![n].pc = "commit", ![n].due = DOMAIN writeCheck[n]]
    /\ UNCHANGED <<queue, writeCheck, readCheck, tasks, retries, handoffs, results>>
    /\ ReplicationUnchanged

(* Mutant of SendCommit: a failed commit is not sent again.                *)
SendCommitOnce(n) ==
    /\ worker[n].pc = "commit"
    /\ \E target \in DOMAIN writeCheck[n] \ worker[n].visited, res \in {0, 1} :
           /\ Send(Message(2, n, target, Request(n).object, 0), res)
           /\ worker' = [worker EXCEPT ![n].visited = @ \cup {target}]
    /\ UNCHANGED <<queue, writeCheck, readCheck, retries, handoffs, results>>
    /\ ReplicationUnchanged

(* One turn of the loop, which goes over the live map in any order.        *)
SendCommit(n) ==
    /\ worker[n].pc = "commit"
    /\ \E target \in DOMAIN writeCheck[n] \ worker[n].visited, res \in {0, 1} :
           LET m == Message(2, n, target, Request(n).object, 0) IN
           /\ Send(m, res)
           /\ retries' = IF res = 1 THEN retries \cup {m} ELSE retries
           /\ worker' = [worker EXCEPT ![n].visited = @ \cup {target}]
    /\ UNCHANGED <<queue, writeCheck, readCheck, handoffs, results>>
    /\ ReplicationUnchanged

(* An entry added during the loop may be visited or not.                   *)
CommitsSent(n) ==
    /\ worker[n].pc = "commit"
    /\ worker[n].due \subseteq worker[n].visited
    /\ worker' = [worker EXCEPT ![n].pc = "next"]
    /\ UNCHANGED <<queue, writeCheck, readCheck, tasks, retries, handoffs, results>>
    /\ ReplicationUnchanged

(* Mutant of BeginRead: the map is made once only.                         *)
BeginReadOnOldMap(n) ==
    /\ worker[n].pc = "begin"
    /\ ~Request(n).isWrite
    /\ readCheck' = [readCheck EXCEPT ![n] = IF @ = NilMap THEN <<>> ELSE @]
    /\ worker' = [worker EXCEPT ![n] = [IdleWorker EXCEPT !.pc = "query", !.todo = Targets]]
    /\ UNCHANGED <<queue, writeCheck, tasks, retries, handoffs, results>>
    /\ ReplicationUnchanged

BeginRead(n) ==
    /\ worker[n].pc = "begin"
    /\ ~Request(n).isWrite
    /\ readCheck' = [readCheck EXCEPT ![n] = <<>>]
    /\ worker' = [worker EXCEPT ![n] = [IdleWorker EXCEPT !.pc = "query", !.todo = Targets]]
    /\ UNCHANGED <<queue, writeCheck, tasks, retries, handoffs, results>>
    /\ ReplicationUnchanged

(* A failed query is only logged.                                          *)
SendQuery(n) ==
    LET w == worker[n] IN
    /\ w.pc = "query"
    /\ w.todo # <<>>
    /\ \E res \in {0, 1} : Send(Message(7, n, Head(w.todo), Request(n).object, 0), res)
    /\ worker' = [worker EXCEPT ![n].todo = Tail(@)]
    /\ UNCHANGED <<queue, writeCheck, readCheck, retries, handoffs, results>>
    /\ ReplicationUnchanged

AddRead(n, responder, object) ==
    readCheck' = [readCheck EXCEPT ![n] = WithAnswer(@, responder, object)]

(* readOwnValue: a key that is not in redis leaves the map as it is.       *)
ReadOwnValue(n) ==
    LET key == Request(n).object.key IN
    /\ worker[n].pc = "query"
    /\ worker[n].todo = <<>>
    /\ ~muLeaked[n]
    /\ IF db[n][key] = NoValue
       THEN UNCHANGED readCheck
       ELSE AddRead(n, n, [key |-> key, value |-> db[n][key]])
    /\ worker' = [worker EXCEPT ![n].pc = "waitRead"]
    /\ UNCHANGED <<queue, writeCheck, tasks, retries, handoffs, results>>
    /\ ReplicationUnchanged

(* checkReadQuorum; what it makes of the responses is in VersionedReads.   *)
AnswerRead(n) ==
    /\ worker[n].pc = "waitRead"
    /\ RepliesIn(n, 7)
    /\ ~muLeaked[n]
    /\ results' = results \cup
           {[at |-> n, request |-> Request(n),
             success |-> Cardinality(DOMAIN readCheck[n]) >= R,
             responses |-> {readCheck[n][m] : m \in DOMAIN readCheck[n]},
             late |-> Unanswered(n, 7)]}
    /\ worker' = [worker EXCEPT ![n].pc = "next"]
    /\ UNCHANGED <<queue, writeCheck, readCheck, tasks, retries, handoffs>>
    /\ ReplicationUnchanged

(* HandleNextInQueue pops the last request and replicates the head (again).*)
HandleNextInQueue(n) ==
    /\ worker[n].pc = "next"
    /\ queue' = [queue EXCEPT ![n] = SubSeq(@, 1, Len(@) - 1)]
    /\ worker' = [worker EXCEPT ![n] = IF queue'[n] = <<>>
                                       THEN IdleWorker
                                       ELSE [IdleWorker EXCEPT !.pc = "begin"]]
    /\ UNCHANGED <<writeCheck, readCheck, tasks, retries, handoffs, results>>
    /\ ReplicationUnchanged

WorkerStep(n) ==
    \/ BeginWrite(n) \/ SendPrep(n) \/ PrepsSent(n) \/ SendHandoff(n) \/ AnswerWrite(n)
    \/ BeginCommits(n) \/ SendCommit(n) \/ CommitsSent(n)
    \/ BeginRead(n) \/ SendQuery(n) \/ ReadOwnValue(n) \/ AnswerRead(n)
    \/ HandleNextInQueue(n)

-----------------------------------------------------------------------------
(* What the goroutines started by replicationHandler do.                   *)

HandlerUnchanged ==
    UNCHANGED <<nodeVars, clientVars, results, queue, worker, retries>>

(* Mutant of Acknowledge: the value of a prep is stored at once.           *)
AcknowledgeAndStore(m) ==
    /\ m \in tasks /\ m.code = 0
    /\ tasks' = tasks \ {m}
    /\ Set(m.to, m.object)
    /\ \/ /\ up[m.from] /\ ~muLeaked[m.from] /\ writeCheck[m.from] # NilMap
          /\ writeCheck' = [writeCheck EXCEPT ![m.from] =
                                WithAnswer(@, m.to, m.object.value)]
       \/ UNCHANGED writeCheck
    /\ UNCHANGED <<handedOff, muLeaked, readCheck, handoffs>>
    /\ HandlerUnchanged

(* HandleWriteResponse: the ack (code 1) may be lost.  At the coordinator  *)
(* replicationHandler calls AddSuccessfulWrite in the handler itself: if   *)
(* no write was begun since the process started, the map is nil and the    *)
(* assignment panics with r.mu held; net/http keeps the process alive.     *)
Acknowledge(m) ==
    /\ m \in tasks /\ m.code = 0
    /\ tasks' = tasks \ {m}
    /\ \/ /\ up[m.from] /\ ~muLeaked[m.from]
          /\ IF writeCheck[m.from] = NilMap
             THEN /\ muLeaked' = [muLeaked EXCEPT ![m.from] = TRUE]
                  /\ UNCHANGED writeCheck
             ELSE /\ writeCheck' = [writeCheck EXCEPT ![m.from] =
                                        WithAnswer(@, m.to, m.object.value)]
                  /\ UNCHANGED muLeaked
       \/ /\ Lossy \/ ~up[m.from] \/ muLeaked[m.from]
          /\ UNCHANGED <<writeCheck, muLeaked>>
    /\ UNCHANGED <<applied, handedOff, db, readCheck, handoffs>>
    /\ HandlerUnchanged

(* HandleCommit and HandleHandoffToIntended: the value is stored whatever  *)
(* is there already; the clocks are not compared.                          *)
Commit(m) ==
    /\ m \in tasks /\ m.code \in {2, 6}
    /\ tasks' = tasks \ {m}
    /\ Set(m.to, m.object)
    /\ UNCHANGED <<handedOff, writeCheck, readCheck, muLeaked, handoffs>>
    /\ HandlerUnchanged

(* HandleHandoffCommit: the value is stored in the node's own database,    *)
HandoffCommit(m) ==
    /\ m \in tasks /\ m.code = 5
    /\ tasks' = tasks \ {m}
    /\ Set(m.to, m.object)
    /\ handedOff' = handedOff \cup {<<m.to, m.object, m.intended>>}
    /\ handoffs' = handoffs \cup
           {[message |-> Message(6, m.to, m.intended, m.object, 0), delivered |-> FALSE]}
    /\ UNCHANGED <<writeCheck, readCheck, muLeaked>>
    /\ HandlerUnchanged

(* Mutant of HandoffSend: one attempt only.                                *)
HandoffSendOnce(h, res) ==
    /\ h \in handoffs /\ ~h.delivered
    /\ Send(h.message, res)
    /\ handoffs' = (handoffs \ {h}) \cup {[h EXCEPT !.delivered = TRUE]}
    /\ UNCHANGED <<applied, handedOff, db, writeCheck, readCheck, muLeaked>>
    /\ HandlerUnchanged

(* offered to its intended node every two seconds until that answers,      *)
HandoffSend(h, res) ==
    /\ h \in handoffs /\ ~h.delivered
    /\ Send(h.message, res)
    /\ handoffs' = IF res = 0 THEN (handoffs \ {h}) \cup {[h EXCEPT !.delivered = TRUE]}
                              ELSE handoffs
    /\ UNCHANGED <<applied, handedOff, db, writeCheck, readCheck, muLeaked>>
    /\ HandlerUnchanged

(* Mutant of HandoffDelete: the key is left.                               *)
HandoffLeave(h) ==
    /\ h \in handoffs /\ h.delivered
    /\ handoffs' = handoffs \ {h}
    /\ UNCHANGED <<applied, handedOff, db, writeCheck, readCheck, muLeaked, tasks>>
    /\ HandlerUnchanged

(* and then the key is deleted, whatever value it has by now.              *)
HandoffDelete(h) ==
    /\ h \in handoffs /\ h.delivered
    /\ handoffs' = handoffs \ {h}
    /\ db' = [db EXCEPT ![h.message.from][h.message.object.key] = NoValue]
    /\ UNCHANGED <<applied, handedOff, writeCheck, readCheck, muLeaked, tasks>>
    /\ HandlerUnchanged

(* HandleFailedSend, every second until it succeeds.                       *)
Retry(m, res) ==
    /\ m \in retries
    /\ Send(m, res)
    /\ retries' = IF res = 0 THEN retries \ {m} ELSE retries
    /\ UNCHANGED <<nodeVars, clientVars, history, db, queue, worker, writeCheck, readCheck,
                   muLeaked, handoffs>>

-----------------------------------------------------------------------------
(* The process ends, and with it the container: its goroutines are gone,   *)
(* redis comes back with its last snapshot.                                *)
CrashEffect(n) ==
    /\ up' = [up EXCEPT ![n] = FALSE]
    /\ crashed' = crashed \cup {n}
    /\ db' = [db EXCEPT ![n] = disk[n]]
    /\ handlers' = [handlers EXCEPT ![n] = {}]
    /\ queue' = [queue EXCEPT ![n] = <<>>]
    /\ worker' = [worker EXCEPT ![n] = IdleWorker]
    /\ writeCheck' = [writeCheck EXCEPT ![n] = NilMap]
    /\ muLeaked' = [muLeaked EXCEPT ![n] = FALSE]
    /\ retries' = {m \in retries : m.from # n}
    /\ handoffs' = {h \in handoffs : h.message.from # n}
    /\ UNCHANGED <<disk, puts, gets, history>>

TasksElsewhere(n) == {m \in tasks : m.to # n}

Crash(n) ==
    /\ up[n]
    /\ crashes < MaxCrashes
    /\ crashes' = crashes + 1
    /\ CrashEffect(n)
    /\ readCheck' = [readCheck EXCEPT ![n] = NilMap]
    /\ tasks' = TasksElsewhere(n)

(* HandleReadResponse: the value read (a zero object when there is none)   *)
(* is sent back; AddSuccessfulRead at the coordinator runs in a goroutine  *)
(* of its own, where a write to a nil map ends the process.                *)
RespondRead(m) ==
    LET value == db[m.to][m.object.key] IN
    /\ m \in tasks /\ m.code = 7
    /\ ~muLeaked[m.to]
    /\ \/ /\ up[m.from] /\ ~muLeaked[m.from] /\ readCheck[m.from] = NilMap
          /\ tasks' = TasksElsewhere(m.from) \ {m}
          /\ CrashEffect(m.from)
          /\ UNCHANGED <<crashes, readCheck>>
       \/ /\ up[m.from] /\ ~muLeaked[m.from] /\ readCheck[m.from] # NilMap
          /\ tasks' = tasks \ {m}
          /\ AddRead(m.from, m.to, [key |-> IF value = NoValue THEN ZeroKey ELSE m.object.key,
                                    value |-> value])
          /\ UNCHANGED <<nodeVars, clientVars, history, db, queue, worker, writeCheck,
                         muLeaked, retries, handoffs>>
       \/ /\ Lossy \/ ~up[m.from] \/ muLeaked[m.from]
          /\ tasks' = tasks \ {m}
          /\ UNCHANGED <<nodeVars, clientVars, history, db, queue, worker, writeCheck,
                         readCheck, muLeaked, retries, handoffs>>

(* restart: unless-stopped                                                 *)
Restart(n) ==
    /\ ~up[n]
    /\ up' = [up EXCEPT ![n] = TRUE]
    /\ UNCHANGED <<disk, crashed, crashes, clientVars, history, db, queue, worker, writeCheck, readCheck,
                   muLeaked, tasks, retries, handoffs>>

(* Snapshots matter only to a crash that is still to come.                 *)
Snapshot(n) ==
    /\ up[n]
    /\ crashes < MaxCrashes
    /\ disk' = [disk EXCEPT ![n] = db[n]]
    /\ UNCHANGED <<up, crashed, crashes, clientVars, history, db, queue, worker, writeCheck, readCheck,
                   muLeaked, tasks, retries, handoffs>>

TaskStep(m) == Acknowledge(m) \/ Commit(m) \/ HandoffCommit(m) \/ RespondRead(m)

Next ==
    \/ \E n \in Coordinators :
           \/ \E k \in Keys : PutStore(n, k) \/ Get(n, k)
           \/ \E object \in handlers[n] : PutSubmit(n, object)
           \/ WorkerStep(n)
    \/ \E m \in tasks : TaskStep(m)
    \/ \E m \in retries, res \in {0, 1} : Retry(m, res)
    \/ \E h \in handoffs : HandoffDelete(h) \/ \E res \in {0, 1} : HandoffSend(h, res)
    \/ \E n \in Nodes : Crash(n) \/ Restart(n) \/ Snapshot(n)

Spec == Init /\ [][Next]_vars

(* The goroutines run; a message that is sent over and over to a node that *)
(* is up most of the time gets through (HandleFailedSend and the handoff   *)
(* loop have no other way to end); docker restarts a container that ended. *)
Fairness ==
    /\ \A n \in Coordinators : WF_vars(WorkerStep(n))
    /\ WF_vars(\E n \in Coordinators : \E object \in handlers[n] : PutSubmit(n, object))
    /\ WF_vars(\E m \in tasks : TaskStep(m))
    /\ SF_vars(\E m \in retries : Retry(m, 0))
    /\ SF_vars(\E h \in handoffs : HandoffSend(h, 0))
    /\ WF_vars(\E h \in handoffs : HandoffDelete(h))
    /\ \A n \in Nodes : WF_vars(Restart(n))

FairSpec == Spec /\ Fairness

-----------------------------------------------------------------------------
Succeeded(n, object) ==
    \E res \in results : /\ res.at = n /\ res.success
                         /\ res.request = [isWrite |-> TRUE, object |-> object]

(* No replica is told to commit a value before its coordinator has found a *)
(* write quorum for that value and answered its client.                    *)
CommitsFollowQuorum ==
    \A m \in tasks \cup retries : m.code = 2 => Succeeded(m.from, m.object)

(* The client is answered before anything is committed: until a target     *)
(* has the value of a successful write, the coordinator still has to send  *)
(* it, or is sending it again, or a target has accepted it and not stored  *)
(* it yet.  Only the end of the coordinator or of a target breaks this,    *)
(* and then the write may be at its coordinator alone.                     *)
SuccessOwedOrCopied ==
    \A res \in results : res.request.isWrite /\ res.success =>
        LET value == res.request.object.value
            w == worker[res.at]
        IN
        \/ crashed \cap ({res.at} \cup TargetSet) # {}
        \/ \E target \in TargetSet : <<target, value>> \in applied
        \/ \E m \in tasks \cup retries :
               m.code = 2 /\ m.from = res.at /\ m.object.value = value
        \/ /\ queue[res.at] # <<>> /\ Request(res.at) = res.request
           /\ \/ w.pc = "answered"
              \/ w.pc = "commit" /\ w.due \ w.visited # {}

(* What the replicas promise, whatever fails: module ReplicaSet.           *)
Replicas == INSTANCE ReplicaSet WITH
    asked     <- puts,
    succeeded <- {res.request.object.value :
                     res \in {r \in results : r.request.isWrite /\ r.success}},
    seen      <- UNION {{object.value : object \in res.responses} \ {NoValue} :
                     res \in {r \in results : ~r.request.isWrite}},
    copies    <- applied,
    held      <- {<<entry[1], entry[2].value, entry[3]>> : entry \in handedOff}

(* No copy of a value anywhere but for a reason: also with lost, late and  *)
(* repeated messages, retries and restarts a value is stored only where a  *)
(* quorum was answered or a handoff chain leads.                           *)
ImplementsReplicaSet == Replicas!Spec

(* The messages that were unanswered when an earlier request of n was.     *)
TooLate(n) == UNION {res.late : res \in {r \in results : r.at = n}}

(* The acks in WriteCheck when the quorum is counted are acks of the write *)
(* that is being replicated.  The message has no request id: only an ack   *)
(* that comes after the second the worker sleeps can be another write's,   *)
(* as long as no life of the coordinator before this one is answered.      *)
AcksAreForThisWrite ==
    \A n \in Nodes \ crashed : worker[n].pc \in {"wait", "answered", "commit"} =>
        \A m \in DOMAIN writeCheck[n] :
            \/ writeCheck[n][m] = Request(n).object.value
            \/ \E q \in TooLate(n) : q.code = 0 /\ q.to = m /\ q.object.value = writeCheck[n][m]

(* A read is answered from values of its own key (or zero objects), but    *)
(* for replies that come after the second of an earlier read: the reply    *)
(* has no request id either.                                               *)
ReadAnswersOwnKey ==
    \A res \in results : ~res.request.isWrite /\ res.at \notin crashed =>
        \A object \in res.responses :
            \/ object.key \in {res.request.object.key, ZeroKey}
            \/ \E q \in TooLate(res.at) : q.code = 7 /\ q.object.key = object.key

(* A value handed to another node is always somewhere on its way: waiting  *)
(* in that node's loop, accepted by the intended node, or stored there.    *)
(* Only the end of one of the two processes can lose it: the loop and the  *)
(* goroutine live in memory, and nothing resumes them.                     *)
HandoffNotLost ==
    \A entry \in handedOff :
        \/ entry[1] \in crashed \/ entry[3] \in crashed
        \/ <<entry[3], entry[2].value>> \in applied
        \/ \E m \in tasks : m.code = 6 /\ m.to = entry[3] /\ m.object = entry[2]
        \/ \E h \in handoffs : /\ h.message.from = entry[1] /\ h.message.to = entry[3]
                               /\ h.message.object = entry[2] /\ ~h.delivered

Settled ==
    /\ tasks = {} /\ retries = {} /\ handoffs = {}
    /\ \A n \in Nodes : up[n] /\ handlers[n] = {} /\ queue[n] = <<>>

Holders(key) == {i \in DOMAIN Targets : db[Targets[i]][key] # NoValue}

(* Some value of the key was handed to the node, for another.              *)
HeldFor(n, key) == \E entry \in handedOff : entry[1] = n /\ entry[2].key = key

(* When everything has come to rest and no process has ended, a key that   *)
(* was written has W copies at the targets if the write succeeded, and one *)
(* if it was handed off; it has one at the coordinator, unless that held a *)
(* value of the same key for another node and deleted the key with it (see *)
(* DeletesOnlyHandoffData); and no handoff node has kept what it held.     *)
SettledCopies ==
    Settled /\ crashed = {} =>
        /\ \A res \in results : res.request.isWrite =>
               LET key == res.request.object.key IN
               /\ db[res.at][key] # NoValue \/ HeldFor(res.at, key)
               /\ res.success => Cardinality(Holders(key)) >= W
               /\ res.handoffNodes > 0 => Holders(key) # {}
        /\ \A entry \in handedOff : db[entry[1]][entry[2].key] # entry[2].value

(* A successful write reaches a replica, a handed off one its intended     *)
(* node: the retries do not give up.                                       *)
SuccessfulWriteIsCopied ==
    \A n \in Coordinators, k \in Keys, v \in Values :
        Succeeded(n, [key |-> k, value |-> v]) ~> (\E m \in Nodes : <<m, v>> \in applied)

HandoffReturns ==
    \A target \in TargetSet, v \in Values :
        (\E entry \in handedOff : entry[2].value = v /\ entry[3] = target) ~> (<<target, v>> \in applied)

(* A write is answered even if every other node is unreachable.            *)
WorkerReturns ==
    \A n \in Coordinators : (worker[n].pc # "idle") ~> (worker[n].pc = "idle")

(* A lock can only be leaked by an ack to a write of an earlier life of    *)
(* the same process: in every write of this life the map was made first.   *)
LeakNeedsRestart == \A n \in Nodes : muLeaked[n] => n \in crashed

(* replication.go, HandleHandoffCommit: it is the handoff data that is     *)
(* deleted.                                                                *)
DeletesOnlyHandoffData ==
    [][\A h \in handoffs : HandoffDelete(h) =>
           db[h.message.from][h.message.object.key] \in {h.message.object.value, NoValue}]_vars

(* putHandler hands every value it has stored to the Replicator.           *)
StoredPutIsReplicated ==
    [][\A n \in Coordinators : \A object \in handlers[n] :
           PutSubmit(n, object) => queue'[n] # queue[n]]_vars
=============================================================================
