------------------------- MODULE RequestQueueProofs -------------------------
(***************************************************************************)
(* The safety properties of RequestQueue for every set of requests and     *)
(* every channel capacity.  They are not inductive one by one: that the    *)
(* queue is served depends on there being one worker, and that the worker  *)
(* runs the head depends on the queue being served.  IInv is their         *)
(* conjunction with what has to be known of the requests being replicated. *)
(***************************************************************************)
EXTENDS RequestQueue, SequenceTheorems, TLAPS

(* A request that is being replicated, or has a result in its channel, is  *)
(* one whose AddRequest call started a worker, and was submitted.          *)
OpenersOnly ==
    /\ \A t \in Requests : Active(t) => /\ worker[worker[t].req].pc # "none"
                                        /\ caller[worker[t].req] # "new"
    /\ \A r \in Requests : chan[r] > 0 => worker[r].pc # "none"

IInv ==
    /\ TypeOK
    /\ SingleFlight
    /\ QueueServed
    /\ RunsHead
    /\ OpenersOnly

-----------------------------------------------------------------------------
(* Popping the last element of a queue of two or more keeps its head:      *)
(* HandleNextInQueue replicates the same request again.                    *)
LEMMA PopKeepsFront ==
    ASSUME NEW q \in Seq(Requests), q # <<>>
    PROVE  /\ Pop(q) \in Seq(Requests)
           /\ Pop(q) # <<>> => Front(Pop(q)) = Front(q)
           /\ Front(q) \in Requests
<1>1. Len(q) \in Nat \ {0} /\ \A i \in 1..Len(q) : q[i] \in Requests
  BY EmptySeq, LenProperties
<1> DEFINE n == Len(q) - 1
<1>2. /\ SubSeq(q, 1, n) \in Seq(Requests)
      /\ Len(SubSeq(q, 1, n)) = n
      /\ \A i \in 1..n : SubSeq(q, 1, n)[i] = q[i]
  <2>1. n \in Int /\ 1 \in Int /\ \A i \in 1..n : q[i] \in Requests
    BY <1>1
  <2> HIDE DEF n
  <2>2. /\ SubSeq(q, 1, n) \in Seq(Requests)
        /\ Len(SubSeq(q, 1, n)) = IF 1 <= n THEN n - 1 + 1 ELSE 0
        /\ \A i \in 1..n - 1 + 1 : SubSeq(q, 1, n)[i] = q[1 + i - 1]
    BY <2>1, SubSeqProperties
  <2>3. n >= 0
    BY <1>1 DEF n
  <2> QED
    BY <2>1, <2>2, <2>3
<1>3. CASE Len(q) = 1
  BY <1>1, <1>3, SubSeqEmpty DEF Pop, Front
<1>4. CASE Len(q) # 1
  BY <1>1, <1>2, <1>4 DEF Pop, Front
<1> QED
  BY <1>3, <1>4

(* Pushing a request on a queue that has one keeps its head.               *)
LEMMA PushKeepsFront ==
    ASSUME NEW q \in Seq(Requests), NEW r \in Requests
    PROVE  /\ Push(q, r) \in Seq(Requests)
           /\ Push(q, r) # <<>>
           /\ Front(Push(q, r)) = IF q = <<>> THEN r ELSE Front(q)
<1>1. /\ Append(q, r) \in Seq(Requests)
      /\ Len(Append(q, r)) = Len(q) + 1
      /\ \A i \in 1..Len(q) + 1 : Append(q, r)[i] = IF i = Len(q) + 1 THEN r ELSE q[i]
  BY LenProperties
<1>2. Len(q) \in Nat /\ (q = <<>> <=> Len(q) = 0)
  BY EmptySeq, LenProperties
<1> QED
  BY <1>1, <1>2, EmptySeq DEF Push, Front

LEMMA InitIInv == Init => IInv
<1> SUFFICES ASSUME Init PROVE IInv
  OBVIOUS
<1> USE DEF Init, Active, ActiveStates, WorkerStates, CallerStates
<1>1. TypeOK
  BY ChanCapAssumption, EmptySeq DEF TypeOK
<1>2. \A t \in Requests : ~Active(t) /\ chan[t] = 0 /\ caller[t] = "new"
  OBVIOUS
<1>3. SingleFlight /\ RunsHead
  BY <1>2 DEF SingleFlight, RunsHead
<1>4. QueueServed
  BY <1>2 DEF QueueServed
<1>5. OpenersOnly
  BY <1>2 DEF OpenersOnly
<1> QED
  BY <1>1, <1>3, <1>4, <1>5 DEF IInv

LEMMA NextIInv == IInv /\ [Next]_vars => IInv'
<1> SUFFICES ASSUME IInv, [Next]_vars PROVE IInv'
  OBVIOUS
<1> USE ChanCapAssumption DEF IInv, TypeOK, Active, ActiveStates, WorkerStates, CallerStates
<1>1. ASSUME NEW r \in Requests, AddRequest(r) PROVE IInv'
  <2>1. queue' \in Seq(Requests) /\ queue' # <<>>
    BY <1>1, PushKeepsFront DEF AddRequest
  <2>2. TypeOK'
    BY <1>1, <2>1 DEF AddRequest
  <2>3. CASE queue = <<>>
    <3>1. \A t \in Requests : ~Active(t)
      BY <2>3 DEF QueueServed
    <3>2. worker' = [worker EXCEPT ![r] = [pc |-> "spawned", req |-> r]]
      BY <1>1, <2>3 DEF AddRequest, IsEmpty
    <3>3. \A t \in Requests : Active(t)' <=> t = r
      BY <3>1, <3>2
    <3>4. SingleFlight' /\ QueueServed'
      BY <2>1, <3>3 DEF SingleFlight, QueueServed
    <3>5. RunsHead'
      <4>1. Front(queue') = r /\ worker'[r].req = r
        <5>1. Front(Push(queue, r)) = r
          BY <2>3, PushKeepsFront
        <5>2. queue' = Push(queue, r)
          BY <1>1 DEF AddRequest
        <5> QED BY <3>2, <5>1, <5>2
      <4> QED BY <3>3, <4>1 DEF RunsHead, Front
    <3>6. OpenersOnly'
      BY <1>1, <3>2, <3>3 DEF OpenersOnly, AddRequest
    <3> QED BY <2>2, <3>4, <3>5, <3>6
  <2>4. CASE queue # <<>>
    <3>1. worker' = worker /\ queue' = Push(queue, r)
      BY <1>1, <2>4 DEF AddRequest, IsEmpty
    <3>2. SingleFlight' /\ QueueServed'
      BY <2>1, <2>4, <3>1 DEF SingleFlight, QueueServed
    <3>3. RunsHead'
      BY <2>4, <3>1, PushKeepsFront DEF RunsHead, Front
    <3>4. OpenersOnly'
      BY <1>1, <3>1 DEF OpenersOnly, AddRequest
    <3> QED BY <2>2, <3>2, <3>3, <3>4
  <2> QED BY <2>3, <2>4
<1>2. ASSUME NEW r \in Requests, ReceiveResult(r) PROVE IInv'
  <2>1. TypeOK'
    BY <1>2 DEF ReceiveResult
  <2>2. SingleFlight' /\ QueueServed' /\ RunsHead'
    BY <1>2 DEF ReceiveResult, SingleFlight, QueueServed, RunsHead, Front
  <2>3. OpenersOnly'
    BY <1>2 DEF ReceiveResult, OpenersOnly
  <2> QED BY <2>1, <2>2, <2>3
<1>3. ASSUME NEW t \in Requests,
             BeginReplication(t) \/ SendResult(t) \/ FinishReplication(t)
      PROVE  IInv'
  (* The three steps move an active worker on and leave queue and head.    *)
  <2>1. PICK pc \in ActiveStates : worker' = [worker EXCEPT ![t].pc = pc]
    BY <1>3 DEF BeginReplication, SendResult, FinishReplication, Goto
  <2>2. Active(t) /\ queue' = queue /\ caller' = caller
    BY <1>3 DEF BeginReplication, SendResult, FinishReplication, Goto
  <2>3. \A u \in Requests : /\ Active(u)' <=> Active(u)
                            /\ worker'[u].req = worker[u].req
                            /\ worker[u].pc # "none" => worker'[u].pc # "none"
    BY <2>1, <2>2
  <2>4. chan' \in [Requests -> 0..ChanCap]
    BY <1>3 DEF BeginReplication, SendResult, FinishReplication
  <2>5. TypeOK'
    BY <2>1, <2>2, <2>4
  <2>6. SingleFlight' /\ QueueServed' /\ RunsHead'
    BY <2>2, <2>3 DEF SingleFlight, QueueServed, RunsHead, Front
  <2>7. \A r \in Requests : chan'[r] > 0 => chan[r] > 0 \/ r = worker[t].req
    BY <1>3 DEF BeginReplication, SendResult, FinishReplication
  <2>8. OpenersOnly'
    BY <2>2, <2>3, <2>7 DEF OpenersOnly
  <2> QED BY <2>5, <2>6, <2>8
<1>4. ASSUME NEW t \in Requests, HandleNextInQueue(t) PROVE IInv'
  <2>1. Active(t) /\ queue # <<>>
    BY <1>4 DEF HandleNextInQueue, QueueServed
  <2>2. /\ queue' \in Seq(Requests)
        /\ queue' # <<>> => Front(queue') = Front(queue)
        /\ Front(queue) \in Requests
    BY <1>4, <2>1, PopKeepsFront DEF HandleNextInQueue
  <2>3. worker[t].req = Front(queue)
    BY <2>1 DEF RunsHead
  <2>4. caller' = caller /\ chan' = chan
    BY <1>4 DEF HandleNextInQueue
  <2>5. CASE queue' = <<>>
    <3>1. worker' = [worker EXCEPT ![t].pc = "ended"]
      BY <1>4, <2>5 DEF HandleNextInQueue, IsEmpty
    <3>2. \A u \in Requests : ~Active(u)'
      BY <2>1, <3>1 DEF SingleFlight
    <3>3. SingleFlight' /\ QueueServed' /\ RunsHead'
      BY <2>5, <3>2 DEF SingleFlight, QueueServed, RunsHead
    <3>4. OpenersOnly'
      BY <2>1, <2>4, <3>1, <3>2 DEF OpenersOnly
    <3>5. TypeOK'
      BY <2>2, <2>4, <3>1
    <3> QED BY <3>3, <3>4, <3>5
  <2>6. CASE queue' # <<>>
    <3>1. worker' = [worker EXCEPT ![t] = [pc |-> "spawned", req |-> worker[t].req]]
      BY <1>4, <2>2, <2>3, <2>6 DEF HandleNextInQueue, IsEmpty
    <3>2. \A u \in Requests : /\ Active(u)' <=> Active(u)
                              /\ worker'[u].req = worker[u].req
                              /\ worker[u].pc # "none" => worker'[u].pc # "none"
      BY <2>1, <3>1
    <3>3. SingleFlight' /\ QueueServed'
      BY <2>1, <2>6, <3>2 DEF SingleFlight, QueueServed
    <3>4. RunsHead'
      BY <2>1, <2>2, <3>2 DEF RunsHead, Front
    <3>5. OpenersOnly'
      BY <2>4, <3>2 DEF OpenersOnly
    <3>6. TypeOK'
      BY <2>2, <2>4, <3>1
    <3> QED BY <3>3, <3>4, <3>5, <3>6
  <2> QED BY <2>5, <2>6
<1>5. CASE UNCHANGED vars
  BY <1>5 DEF vars, SingleFlight, QueueServed, RunsHead, OpenersOnly,
              Front
<1> QED
  BY <1>1, <1>2, <1>3, <1>4, <1>5 DEF Next, WorkerStep

(* The inductive invariant holds throughout.                               *)
THEOREM Invariance == Spec => []IInv
<1>1. Init => IInv
  BY InitIInv
<1>2. IInv /\ [Next]_vars => IInv'
  BY NextIInv
<1> QED
  BY <1>1, <1>2, PTL DEF Spec

-----------------------------------------------------------------------------
(* Every variable keeps its type: in particular a result channel never     *)
(* holds more than its capacity.                                           *)
THEOREM TypeCorrect == Spec => []TypeOK
<1>1. IInv => TypeOK
  BY DEF IInv
<1> QED BY <1>1, Invariance, PTL

(* At most one replication of the node is in progress, so the maps that    *)
(* ReplicateWrites and ReplicateReads reset are never reset under another  *)
(* one's feet.                                                             *)
THEOREM OneReplicationAtATime == Spec => []SingleFlight
<1>1. IInv => SingleFlight
  BY DEF IInv
<1> QED BY <1>1, Invariance, PTL

(* A queue that is not empty has its worker, and HandleNextInQueue never   *)
(* pops an empty one.                                                      *)
THEOREM QueueIsServed == Spec => []QueueServed
<1>1. IInv => QueueServed
  BY DEF IInv
<1> QED BY <1>1, Invariance, PTL

(* The request being replicated is the one at the head of the queue.       *)
THEOREM HeadIsReplicated == Spec => []RunsHead
<1>1. IInv => RunsHead
  BY DEF IInv
<1> QED BY <1>1, Invariance, PTL

-----------------------------------------------------------------------------
(* The refinement of SerialReplication.                                    *)

(* With one worker active the CHOOSE of the mapping finds that worker.     *)
Submitted == {r \in Requests : caller[r] # "new"}

Results == [r \in Requests |-> chan[r] + (IF caller[r] = "answered" THEN 1 ELSE 0)]

MappedState ==
    /\ \A t \in Requests : Active(t) => /\ Running = worker[t].req
                                        /\ Replied <=> worker[t].pc \in {"committing", "next"}
                                        /\ Running \in Submitted
    /\ (\A t \in Requests : ~Active(t)) => Running = Idle /\ ~Replied
    /\ Replied \in BOOLEAN

LEMMA Mapping == IInv => MappedState
<1> SUFFICES ASSUME IInv PROVE MappedState
  OBVIOUS
<1>1. \A t \in Requests : Active(t) => Running = worker[t].req
  BY DEF IInv, SingleFlight, Running
<1>2. \A t \in Requests : Active(t) => worker[t].req \in Submitted
  BY DEF IInv, TypeOK, OpenersOnly, Submitted
<1>3. \A t \in Requests :
          Active(t) => (Replied <=> worker[t].pc \in {"committing", "next"})
  BY DEF IInv, SingleFlight, Replied, Active, ActiveStates
<1>4. (\A t \in Requests : ~Active(t)) => Running = Idle /\ ~Replied
  BY DEF Running, Replied, Active, ActiveStates
<1> QED
  BY <1>1, <1>2, <1>3, <1>4 DEF MappedState, Replied

LEMMA InitRefines == Init => Serial!Init
<1> SUFFICES ASSUME Init PROVE Serial!Init
  OBVIOUS
<1>1. \A t \in Requests : ~Active(t) /\ worker[t].pc = "none"
  BY DEF Init, Active, ActiveStates
<1>2. Running = Idle /\ Replied = FALSE
  BY <1>1 DEF Running, Replied
<1>3. Submitted = {}
  BY DEF Init, Submitted
<1>4. Results = [r \in Requests |-> 0]
  BY DEF Init, Results
<1> QED
  BY <1>2, <1>3, <1>4 DEF Serial!Init, Submitted, Results

LEMMA StepRefines == IInv /\ IInv' /\ [Next]_vars => [Serial!Next]_Serial!vars
<1> SUFFICES ASSUME IInv, IInv', [Next]_vars PROVE [Serial!Next]_Serial!vars
  OBVIOUS
<1> USE IdleIsNoRequest, ChanCapAssumption
    DEF TypeOK, Active, ActiveStates, WorkerStates, CallerStates
<1>a. TypeOK /\ TypeOK'
  BY DEF IInv
<1>b. MappedState
  BY Mapping
<1>c. MappedState'
  BY Mapping, PTL
<1>d. ASSUME Submitted' = Submitted, Results' = Results, Running' = Running,
             Replied' = Replied
      PROVE  [Serial!Next]_Serial!vars
  BY <1>d DEF Serial!vars, Submitted, Results
<1>1. ASSUME NEW r \in Requests, AddRequest(r) PROVE [Serial!Next]_Serial!vars
  <2>1. r \notin Submitted /\ Submitted' = Submitted \cup {r}
    BY <1>1, <1>a DEF AddRequest, Submitted
  <2>2. Results' = Results
    BY <1>1, <1>a DEF AddRequest, Results
  <2>3. CASE queue = <<>>
    <3>1. Running = Idle
      BY <1>b, <2>3 DEF MappedState, IInv, QueueServed
    <3>2. worker'[r] = [pc |-> "spawned", req |-> r]
      BY <1>1, <1>a, <2>3 DEF AddRequest, IsEmpty
    <3>3. Running' = r /\ Replied' = FALSE
      BY <1>c, <3>2 DEF MappedState
    <3>4. Serial!Start(r)
      BY <2>1, <2>2, <3>1, <3>3 DEF Serial!Start, Submitted, Results
    <3> QED BY <3>4 DEF Serial!Next
  <2>4. CASE queue # <<>>
    <3>1. PICK t \in Requests : Active(t)
      BY <2>4 DEF IInv, QueueServed
    <3>2. Running # Idle
      BY <1>a, <1>b, <3>1 DEF MappedState
    <3>3. worker' = worker
      BY <1>1, <2>4 DEF AddRequest, IsEmpty
    <3>4. Running' = Running /\ Replied' = Replied
      BY <3>3 DEF Running, Replied
    <3>5. Serial!Wait(r)
      BY <2>1, <2>2, <3>2, <3>4 DEF Serial!Wait, Submitted, Results
    <3> QED BY <3>5 DEF Serial!Next
  <2> QED BY <2>3, <2>4
<1>2. ASSUME NEW r \in Requests, ReceiveResult(r) PROVE [Serial!Next]_Serial!vars
  <2>1. Submitted' = Submitted
    BY <1>2, <1>a DEF ReceiveResult, Submitted
  <2>2. Results' = Results
    <3>1. ASSUME NEW s \in Requests
          PROVE  chan'[s] + (IF caller'[s] = "answered" THEN 1 ELSE 0)
                   = chan[s] + (IF caller[s] = "answered" THEN 1 ELSE 0)
      BY <1>2, <1>a DEF ReceiveResult
    <3> QED BY <3>1 DEF Results
  <2>3. Running' = Running /\ Replied' = Replied
    BY <1>2 DEF ReceiveResult, Running, Replied
  <2> QED BY <1>d, <2>1, <2>2, <2>3
<1>3. ASSUME NEW t \in Requests, BeginReplication(t) \/ FinishReplication(t)
      PROVE  [Serial!Next]_Serial!vars
  <2>1. Submitted' = Submitted /\ Results' = Results
    BY <1>3 DEF BeginReplication, FinishReplication, Submitted, Results
  <2>2. Active(t) /\ Active(t)' /\ worker'[t].req = worker[t].req
    BY <1>3, <1>a DEF BeginReplication, FinishReplication, Goto
  <2>3. worker[t].pc \in {"committing", "next"} <=> worker'[t].pc \in {"committing", "next"}
    BY <1>3, <1>a DEF BeginReplication, FinishReplication, Goto
  <2>4. Running' = Running /\ Replied' = Replied
    BY <1>b, <1>c, <2>2, <2>3 DEF MappedState
  <2> QED BY <1>d, <2>1, <2>4
<1>4. ASSUME NEW t \in Requests, SendResult(t) PROVE [Serial!Next]_Serial!vars
  <2>1. Submitted' = Submitted
    BY <1>4 DEF SendResult, Submitted
  <2>2. /\ worker[t].pc = "replicating" /\ worker'[t].pc = "committing"
        /\ worker'[t].req = worker[t].req
    BY <1>4, <1>a DEF SendResult, Goto
  <2>3. /\ Running = worker[t].req /\ Running' = Running
        /\ Replied = FALSE /\ Replied' = TRUE
    BY <1>b, <1>c, <2>2 DEF MappedState
  <2>4. Results' = [Results EXCEPT ![Running] = @ + 1]
    <3>1. chan' = [chan EXCEPT ![Running] = @ + 1] /\ caller' = caller
      BY <1>4, <2>3 DEF SendResult
    <3>2. Running \in Requests
      BY <1>a, <2>3
    <3>3. /\ chan'[Running] = chan[Running] + 1
          /\ \A r \in Requests \ {Running} : chan'[r] = chan[r]
      BY <1>a, <3>1, <3>2
    <3>4. chan[Running] \in Nat
      BY <1>a, <3>2
    <3> DEFINE s == IF caller[Running] = "answered" THEN 1 ELSE 0
    <3>5. Results'[Running] = chan[Running] + 1 + s
      BY <3>1, <3>2, <3>3 DEF Results
    <3>6. Results[Running] = chan[Running] + s
      BY <3>2 DEF Results
    <3>7. Results'[Running] = Results[Running] + 1
      BY <3>4, <3>5, <3>6
    <3>8. \A r \in Requests \ {Running} : Results'[r] = Results[r]
      BY <3>1, <3>3 DEF Results
    <3> QED BY <3>2, <3>7, <3>8 DEF Results
  <2>5. Serial!Reply
    BY <1>a, <2>1, <2>3, <2>4 DEF Serial!Reply, Submitted, Results
  <2> QED BY <2>5 DEF Serial!Next
<1>5. ASSUME NEW t \in Requests, HandleNextInQueue(t) PROVE [Serial!Next]_Serial!vars
  <2>1. Submitted' = Submitted /\ Results' = Results
    BY <1>5 DEF HandleNextInQueue, Submitted, Results
  <2>2. Active(t) /\ worker[t].pc = "next"
    BY <1>5 DEF HandleNextInQueue
  <2>3. Running \in Submitted /\ Running # Idle /\ Running \in Requests /\ Replied = TRUE
    BY <1>b, <2>2 DEF MappedState, Submitted
  <2>4. CASE queue' = <<>>
    <3>1. Running' = Idle /\ Replied' = FALSE
      BY <1>c, <2>4 DEF MappedState, IInv, QueueServed
    <3>2. Serial!Finish
      BY <2>1, <2>3, <3>1 DEF Serial!Finish, Submitted, Results
    <3> QED BY <3>2 DEF Serial!Next
  <2>5. CASE queue' # <<>>
    <3>1. worker'[t].pc = "spawned"
      BY <1>5, <1>a, <2>5 DEF HandleNextInQueue, IsEmpty
    <3>2. Replied' = FALSE /\ Running' \in Submitted
      BY <1>c, <2>1, <3>1 DEF MappedState
    <3>3. Running' \in Requests
      BY <3>2 DEF Submitted
    <3>4. Serial!Handover(Running')
      BY <2>1, <2>3, <3>2 DEF Serial!Handover, Submitted, Results
    <3> QED BY <3>3, <3>4 DEF Serial!Next
  <2> QED BY <2>4, <2>5
<1>6. CASE UNCHANGED vars
  BY <1>d, <1>6 DEF vars, Submitted, Results, Running, Replied
<1> QED
  BY <1>1, <1>2, <1>3, <1>4, <1>5, <1>6 DEF Next, WorkerStep

(* AddRequest and HandleNextInQueue, with Pop as it is, give the           *)
(* replication above them one run at a time and one result per run.        *)
THEOREM QueueRefinesSerial == Spec => ImplementsSerialReplication
<1>1. Spec => []IInv
  BY Invariance
<1> QED
  BY <1>1, InitRefines, StepRefines, PTL DEF Spec, ImplementsSerialReplication, Serial!Spec
=============================================================================
