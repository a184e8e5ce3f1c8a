---------------------------- MODULE RequestQueue ----------------------------
(***************************************************************************)
(* The request queue of one node's Replicator: AddRequest and              *)
(* HandleNextInQueue of pkg/data_replication/replication.go over the slice *)
(* of pkg/data_replication/priorityQueue.go.                               *)
(*                                                                         *)
(* AddRequest runs in the goroutine of an HTTP handler.  The caller that   *)
(* finds the queue empty starts a worker: the chain of goroutines          *)
(* ReplicateWrites/Reads -> HandleNextInQueue -> ReplicateWrites/Reads ... *)
(* in which each goroutine starts the next one as its last statement.      *)
(* worker[r] is the chain started by the AddRequest call of request r.     *)
(* What a replication does to the network and the databases is the         *)
(* business of module Replication; here it only produces a result.         *)
(***************************************************************************)
EXTENDS Naturals, Sequences, FiniteSets

CONSTANTS Requests,  (* the client requests handed to AddRequest              *)
          ChanCap,   (* capacity of a request's result channel, 10 in the code *)
          Idle       (* stands for "no request is being replicated"           *)

ASSUME ChanCapAssumption == ChanCap \in Nat \ {0}
ASSUME IdleIsNoRequest == Idle \notin Requests

VARIABLES queue,   (* the slice: requests in the order they were pushed       *)
          caller,  (* the goroutine blocked in AddRequest, one per request    *)
          worker,  (* the goroutine chain started for a request               *)
          chan     (* number of results buffered in a request's channel       *)

vars == <<queue, caller, worker, chan>>

CallerStates == {"new", "waiting", "answered"}

(* "spawned": the go statement has run, the goroutine has not yet begun;   *)
(* "replicating": before the result is sent; "committing": after it;       *)
(* "next": in HandleNextInQueue; "ended": the queue was found empty.       *)
ActiveStates == {"spawned", "replicating", "committing", "next"}
WorkerStates == ActiveStates \cup {"none", "ended"}

Active(t) == worker[t].pc \in ActiveStates

TypeOK ==
    /\ queue \in Seq(Requests)
    /\ caller \in [Requests -> CallerStates]
    /\ worker \in [Requests -> [pc : WorkerStates, req : Requests]]
    /\ chan \in [Requests -> 0..ChanCap]

-----------------------------------------------------------------------------
(* The slice.  Pop is the method of the type, called directly and not      *)
(* through container/heap: it cuts off the last element.  Front is the     *)
(* first element; a caller tells an empty queue by the zero Timestamp.     *)

Push(q, r) == Append(q, r)

Pop(q) == SubSeq(q, 1, Len(q) - 1)

IsEmpty(q) == q = <<>>

Front(q) == q[1]

-----------------------------------------------------------------------------
Init ==
    /\ queue = <<>>
    /\ caller = [r \in Requests |-> "new"]
    /\ worker = [r \in Requests |-> [pc |-> "none", req |-> r]]
    /\ chan = [r \in Requests |-> 0]

(* Mutants of AddRequest: a worker is started for every request, or the    *)
(* head is read after the push and none is.                                *)
AddRequestAlwaysStarts(r) ==
    /\ caller[r] = "new"
    /\ caller' = [caller EXCEPT ![r] = "waiting"]
    /\ queue' = Push(queue, r)
    /\ worker' = [worker EXCEPT ![r] = [pc |-> "spawned", req |-> r]]
    /\ UNCHANGED chan

AddRequestPushesFirst(r) ==
    /\ caller[r] = "new"
    /\ caller' = [caller EXCEPT ![r] = "waiting"]
    /\ queue' = Push(queue, r)
    /\ UNCHANGED <<worker, chan>>

(* The critical section of AddRequest (queueLock): the head is read before *)
(* the request is pushed, and a worker is started when there was none.     *)
(* The caller then blocks on its channel.                                  *)
AddRequest(r) ==
    /\ caller[r] = "new"
    /\ caller' = [caller EXCEPT ![r] = "waiting"]
    /\ queue' = Push(queue, r)
    /\ worker' = IF IsEmpty(queue)
                 THEN [worker EXCEPT ![r] = [pc |-> "spawned", req |-> r]]
                 ELSE worker
    /\ UNCHANGED chan

(* res := <-c *)
ReceiveResult(r) ==
    /\ caller[r] = "waiting"
    /\ chan[r] > 0
    /\ caller' = [caller EXCEPT ![r] = "answered"]
    /\ chan' = [chan EXCEPT ![r] = @ - 1]
    /\ UNCHANGED <<queue, worker>>

Goto(t, from, to) ==
    /\ worker[t].pc = from
    /\ worker' = [worker EXCEPT ![t].pc = to]

BeginReplication(t) ==
    /\ Goto(t, "spawned", "replicating")
    /\ UNCHANGED <<queue, caller, chan>>

(* Mutants of SendResult: the send does not wait for room in the channel;  *)
(* the channel holds one result less; the result goes to the last request; *)
(* no result is sent when the replication failed.                          *)
SendResultUnbounded(t) ==
    /\ Goto(t, "replicating", "committing")
    /\ chan' = [chan EXCEPT ![worker[t].req] = @ + 1]
    /\ UNCHANGED <<queue, caller>>

SendResultShortChannel(t) ==
    /\ Goto(t, "replicating", "committing")
    /\ chan[worker[t].req] < ChanCap - 1
    /\ chan' = [chan EXCEPT ![worker[t].req] = @ + 1]
    /\ UNCHANGED <<queue, caller>>

SendResultToLast(t) ==
    /\ Goto(t, "replicating", "committing")
    /\ chan[queue[Len(queue)]] < ChanCap
    /\ chan' = [chan EXCEPT ![queue[Len(queue)]] = @ + 1]
    /\ UNCHANGED <<queue, caller>>

SendResultOnSuccess(t) ==
    /\ Goto(t, "replicating", "committing")
    /\ chan[worker[t].req] < ChanCap
    /\ \/ chan' = [chan EXCEPT ![worker[t].req] = @ + 1]
       \/ UNCHANGED chan
    /\ UNCHANGED <<queue, caller>>

(* *req.resChannel <- Result{...}: blocks while the channel is full.       *)
SendResult(t) ==
    /\ Goto(t, "replicating", "committing")
    /\ chan[worker[t].req] < ChanCap
    /\ chan' = [chan EXCEPT ![worker[t].req] = @ + 1]
    /\ UNCHANGED <<queue, caller>>

(* The rest of the replication, then go r.HandleNextInQueue().             *)
FinishReplication(t) ==
    /\ Goto(t, "committing", "next")
    /\ UNCHANGED <<queue, caller, chan>>

(* Mutant of HandleNextInQueue: the head is read before the pop.           *)
HandleNextOldHead(t) ==
    /\ worker[t].pc = "next"
    /\ queue' = Pop(queue)
    /\ worker' = IF IsEmpty(queue)
                 THEN [worker EXCEPT ![t].pc = "ended"]
                 ELSE [worker EXCEPT ![t] = [pc |-> "spawned", req |-> Front(queue)]]
    /\ UNCHANGED <<caller, chan>>

(* Pop, read the new head, and replicate it if there is one.  Pop of an    *)
(* empty slice would panic: invariant QueueServed says it never happens.   *)
HandleNextInQueue(t) ==
    /\ worker[t].pc = "next"
    /\ queue' = Pop(queue)
    /\ worker' = IF IsEmpty(queue')
                 THEN [worker EXCEPT ![t].pc = "ended"]
                 ELSE [worker EXCEPT ![t] = [pc |-> "spawned", req |-> Front(queue')]]
    /\ UNCHANGED <<caller, chan>>

WorkerStep(t) ==
    \/ BeginReplication(t)
    \/ SendResult(t)
    \/ FinishReplication(t)
    \/ HandleNextInQueue(t)

Next == \E r \in Requests : AddRequest(r) \/ ReceiveResult(r) \/ WorkerStep(r)

Spec == Init /\ [][Next]_vars

(* The Go scheduler runs every runnable goroutine: a worker with an        *)
(* enabled step and a caller with a result waiting take it eventually.     *)
(* Clients are under no obligation to send requests.                       *)
Fairness == \A r \in Requests : WF_vars(ReceiveResult(r)) /\ WF_vars(WorkerStep(r))

FairSpec == Spec /\ Fairness

-----------------------------------------------------------------------------
(* At most one replication is in progress: WriteCheck, HandoffCheck and    *)
(* ReadCheck are fields of the Replicator that every replication resets    *)
(* without a lock, so two at once would mix up their responses.            *)
SingleFlight == \A t, u \in Requests : Active(t) /\ Active(u) => t = u

(* A worker is active exactly while the queue is not empty: no request is  *)
(* left in a queue nobody serves, and HandleNextInQueue never pops an      *)
(* empty slice (which would panic outside any recover).                    *)
QueueServed == (queue # <<>>) <=> (\E t \in Requests : Active(t))

(* What is being replicated is the request at the head of the queue.       *)
RunsHead == \A t \in Requests :
                Active(t) /\ queue # <<>> => worker[t].req = Front(queue)

(* The refinement mapping to SerialReplication.                            *)
Running == IF \E t \in Requests : Active(t)
           THEN worker[CHOOSE t \in Requests : Active(t)].req
           ELSE Idle

Replied == \E t \in Requests : worker[t].pc \in {"committing", "next"}

Serial == INSTANCE SerialReplication WITH
              submitted <- {r \in Requests : caller[r] # "new"},
              running <- Running,
              replied <- Replied,
              results <- [r \in Requests |->
                             chan[r] + (IF caller[r] = "answered" THEN 1 ELSE 0)]

(* The queue and its workers implement one-at-a-time replication: module   *)
(* Replication relies on this when it gives each coordinator one worker.   *)
ImplementsSerialReplication == Serial!Spec

(* The request that opens a busy period always gets its answer, however    *)
(* many requests arrive behind it.                                         *)
OpenerAnswered ==
    \A r \in Requests : (worker[r].pc = "spawned") ~> (caller[r] = "answered")

(* replication.go, ReplicateWrites and ReplicateReads: the result is sent  *)
(* back to the client, so that whoever has called AddRequest gets one.     *)
CallsAnswered ==
    \A r \in Requests : (caller[r] = "waiting") ~> (caller[r] = "answered")

(* As long as no more than ChanCap + 1 requests come in, the worker gets   *)
(* past the send on the result channel: the head is replicated once for    *)
(* each of them, ChanCap results fit in its channel and its caller takes   *)
(* one.  One request more can block the worker for good.                   *)
WorkerNotBlocked ==
    [](Cardinality({r \in Requests : caller[r] # "new"}) <= ChanCap + 1) =>
        \A t \in Requests : (worker[t].pc = "replicating") ~> (worker[t].pc = "committing")
=============================================================================
