-------------------------- MODULE ReplicationProofs --------------------------
(***************************************************************************)
(* The safety of Replication: commits, answers and handoffs are earned,    *)
(* the code implements the abstract ReplicaSet, and copies are where they  *)
(* were promised when everything has come to rest.  A commit is a message  *)
(* by the time it can do harm, so the invariant has to say of every        *)
(* message that is pending, retried or held by a handoff node what its     *)
(* sender had established (MessageInv), and of every worker that answered  *)
(* or commits that its request succeeded (CommitInv).                      *)
(***************************************************************************)
EXTENDS ReplicationTypes

(* What a message that is pending says about its past.                     *)
MessageSound(m) ==
    /\ m.code \in {0, 2} => m.to \in TargetSet
    /\ m.code = 2 => Succeeded(m.from, m.object)
    /\ m.code = 5 => m.to \in HandoffSet /\ m.intended \in TargetSet
    /\ m.code = 6 => <<m.from, m.object, m.to>> \in handedOff

(* The same of every pending message, failed commit and held handoff.      *)
MessageInv ==
    /\ \A m \in tasks : MessageSound(m)
    /\ \A m \in retries : MessageSound(m) /\ m.code = 2
    /\ \A h \in handoffs : MessageSound(h.message) /\ h.message.code = 6

(* The worker commits what succeeded, to somebody.                         *)
CommitSound(n) ==
    /\ writeCheck[n] # NilMap => DOMAIN writeCheck[n] \subseteq TargetSet
    /\ worker[n].pc \in {"answered", "commit"} => Succeeded(n, Request(n).object)
    /\ worker[n].pc = "answered" => DOMAIN writeCheck[n] # {}
    /\ worker[n].pc \in WritePhases \ {"commit"} => worker[n].visited = {}

CommitInv == \A n \in Nodes : CommitSound(n)

(* The inductive invariant of the safety properties.                       *)
IInv == Typed /\ MessageInv /\ CommitInv

-----------------------------------------------------------------------------
(* No step takes back what happened.                                       *)
LEMMA HistoryGrows ==
    ASSUME Typed, [Next]_vars
    PROVE  /\ results \subseteq results' /\ applied \subseteq applied'
           /\ handedOff \subseteq handedOff' /\ crashed \subseteq crashed'
<1>2. CASE \E n \in Coordinators : \/ \E k \in Keys : PutStore(n, k) \/ Get(n, k)
                                   \/ \E object \in handlers[n] : PutSubmit(n, object)
  BY <1>2 DEF PutStore, Get, PutSubmit, nodeVars, history
<1>3. ASSUME NEW n \in Coordinators, WorkerStep(n)
      PROVE  results \subseteq results' /\ UNCHANGED <<applied, handedOff, crashed>>
  <2>1. UNCHANGED <<applied, handedOff, crashed>>
    BY <1>3, NodesAssumption, WorkerFrame DEF nodeVars
  <2>2. results \subseteq results'
    BY <1>3 DEF WorkerStep, BeginWrite, SendPrep, PrepsSent, SendHandoff, AnswerWrite, BeginCommits,
       SendCommit, CommitsSent, BeginRead, SendQuery, ReadOwnValue, AnswerRead, HandleNextInQueue
  <2> QED BY <2>1, <2>2
<1>4. CASE \E m \in tasks : TaskStep(m)
  BY <1>4 DEF TaskStep, Acknowledge, Commit, HandoffCommit, RespondRead, HandlerUnchanged, Set,
     CrashEffect, nodeVars, history
<1>5. CASE \/ \E m \in retries, res \in {0, 1} : Retry(m, res)
           \/ \E h \in handoffs : HandoffDelete(h) \/ \E res \in {0, 1} : HandoffSend(h, res)
  BY <1>5 DEF Retry, HandoffDelete, HandoffSend, HandlerUnchanged, nodeVars, history
<1>6. CASE \E n \in Nodes : Crash(n) \/ Restart(n) \/ Snapshot(n)
  BY <1>6 DEF Crash, Restart, Snapshot, CrashEffect, nodeVars, history
<1>7. CASE UNCHANGED vars
  BY <1>7 DEF vars, nodeVars, history
<1> QED BY <1>2, <1>3, <1>4, <1>5, <1>6, <1>7 DEF Next

(* Where the messages that are pending after a step come from.             *)
LEMMA NewMessages ==
    ASSUME Typed, [Next]_vars
    PROVE  /\ \A x \in tasks' : \/ x \in tasks \/ x \in retries
                                \/ \E h \in handoffs : x = h.message
                                \/ \E n \in Nodes : WorkerStep(n) /\ WorkerSends(n, x)
           /\ \A x \in retries' : \/ x \in retries
                                  \/ \E n \in Nodes : /\ WorkerStep(n) /\ WorkerSends(n, x)
                                                      /\ x.code = 2
           /\ \A x \in handoffs' : \/ \E h \in handoffs : x.message = h.message
                                   \/ \E m \in tasks : /\ HandoffCommit(m)
                                                       /\ x.message = Message(6, m.to, m.intended, m.object, 0)
<1>1. CASE \E n \in Coordinators : \/ \E k \in Keys : PutStore(n, k) \/ Get(n, k)
                                   \/ \E object \in handlers[n] : PutSubmit(n, object)
  BY <1>1 DEF PutStore, Get, PutSubmit
<1>2. ASSUME NEW n \in Coordinators, WorkerStep(n)
      PROVE  /\ handoffs' = handoffs
             /\ \A x \in tasks' : x \in tasks \/ WorkerSends(n, x)
             /\ \A x \in retries' : x \in retries \/ (WorkerSends(n, x) /\ x.code = 2)
  <2>1. n \in Nodes
    BY NodesAssumption
  <2>2. handoffs' = handoffs
    BY <1>2, <2>1, WorkerFrame
  <2>3. CASE UNCHANGED <<tasks, retries>>
    BY <2>2, <2>3
  <2>4. ASSUME NEW m, WorkerSends(n, m)
        PROVE  /\ \A x \in tasks' : x \in tasks \/ WorkerSends(n, x)
               /\ \A x \in retries' : x \in retries \/ (WorkerSends(n, x) /\ x.code = 2)
    <3>1. \A x \in tasks' : x \in tasks \/ x = m
      BY <2>4 DEF WorkerSends
    <3>2. \A x \in retries' : x \in retries \/ (x = m /\ m.code = 2)
      BY <2>4 DEF WorkerSends
    <3> QED BY <2>4, <3>1, <3>2
  <2> QED BY <1>2, <2>1, <2>2, <2>3, <2>4, WorkerSendsThese DEF Typed
<1>3. ASSUME NEW m \in tasks, TaskStep(m)
      PROVE  /\ tasks' \subseteq tasks /\ retries' \subseteq retries
             /\ \/ handoffs' \subseteq handoffs
                \/ HandoffCommit(m) /\ handoffs' = handoffs \cup
                     {[message |-> Message(6, m.to, m.intended, m.object, 0), delivered |-> FALSE]}
  BY <1>3 DEF TaskStep, Acknowledge, Commit, HandoffCommit, RespondRead, HandlerUnchanged,
     CrashEffect, TasksElsewhere
<1>4. ASSUME NEW m \in retries, NEW res \in {0, 1}, Retry(m, res)
      PROVE  tasks' \subseteq tasks \cup {m} /\ retries' \subseteq retries /\ handoffs' = handoffs
  BY <1>4, SendEffect DEF Retry
<1>5. ASSUME NEW h \in handoffs, NEW res \in {0, 1}, HandoffSend(h, res)
      PROVE  /\ tasks' \subseteq tasks \cup {h.message} /\ retries' = retries
             /\ \A x \in handoffs' : x \in handoffs \/ x.message = h.message
  <2>1. h \in [message : Messages, delivered : BOOLEAN]
    BY DEF Typed, TypeOK, MessagesOK
  <2> QED BY <1>5, <2>1, SendEffect DEF HandoffSend, HandlerUnchanged
<1>6. ASSUME NEW h \in handoffs, HandoffDelete(h)
      PROVE  tasks' = tasks /\ retries' = retries /\ handoffs' \subseteq handoffs
  BY <1>6 DEF HandoffDelete, HandlerUnchanged
<1>7. ASSUME NEW n \in Nodes, Crash(n) \/ Restart(n) \/ Snapshot(n)
      PROVE  tasks' \subseteq tasks /\ retries' \subseteq retries /\ handoffs' \subseteq handoffs
  BY <1>7 DEF Crash, CrashEffect, TasksElsewhere, Restart, Snapshot
<1>8. CASE UNCHANGED vars
  BY <1>8 DEF vars
<1>9. CASE \E n \in Coordinators : WorkerStep(n)
  BY <1>2, <1>9, NodesAssumption
<1>10. CASE \E m \in tasks : TaskStep(m)
  BY <1>3, <1>10
<1>11. CASE \/ \E m \in retries, res \in {0, 1} : Retry(m, res)
            \/ \E h \in handoffs : HandoffDelete(h) \/ \E res \in {0, 1} : HandoffSend(h, res)
  BY <1>4, <1>5, <1>6, <1>11
<1>12. CASE \E n \in Nodes : Crash(n) \/ Restart(n) \/ Snapshot(n)
  BY <1>7, <1>12
<1> QED BY <1>1, <1>8, <1>9, <1>10, <1>11, <1>12 DEF Next

(* So a message that was sound stays sound.                                *)
LEMMA SoundMessagesStay ==
    ASSUME Typed, [Next]_vars, NEW m, MessageSound(m)
    PROVE  MessageSound(m)'
  BY HistoryGrows DEF MessageSound, Succeeded

LEMMA NextKeepsMessageInv == ASSUME IInv, [Next]_vars PROVE MessageInv'
<1> USE DEF IInv
<1>1. ASSUME NEW n \in Nodes, WorkerStep(n), NEW m, WorkerSends(n, m) PROVE MessageSound(m)'
  <2>1. CASE m.code = 2
    <3>1. m.from = n /\ m.object = Request(n).object /\ worker[n].pc = "commit"
          /\ m.to \in DOMAIN writeCheck[n]
      BY <1>1, <2>1 DEF WorkerSends
    <3>2. Succeeded(n, Request(n).object) /\ m.to \in TargetSet
      BY <3>1 DEF CommitInv, CommitSound, Typed, WorkerInv, WorkerSound, WritePhases
    <3> QED BY <2>1, <3>1, <3>2, HistoryGrows DEF MessageSound, Succeeded
  <2>2. CASE m.code # 2
    BY <1>1, <2>2 DEF WorkerSends, MessageSound
  <2> QED BY <2>1, <2>2
<1>2. ASSUME NEW m \in tasks, HandoffCommit(m)
      PROVE  LET x == Message(6, m.to, m.intended, m.object, 0) IN MessageSound(x)' /\ x.code = 6
  BY <1>2 DEF HandoffCommit, Message, MessageSound
<1>3. ASSUME NEW x \in tasks' PROVE MessageSound(x)'
  BY <1>1, <1>3, NewMessages, SoundMessagesStay DEF MessageInv
<1>4. ASSUME NEW x \in retries' PROVE MessageSound(x)' /\ x.code = 2
  BY <1>1, <1>4, NewMessages, SoundMessagesStay DEF MessageInv
<1>5. ASSUME NEW x \in handoffs' PROVE MessageSound(x.message)' /\ x.message.code = 6
  BY <1>2, <1>5, NewMessages, SoundMessagesStay DEF MessageInv
<1> QED BY <1>3, <1>4, <1>5 DEF MessageInv

-----------------------------------------------------------------------------
LEMMA CommitSoundStays ==
    ASSUME Typed, [Next]_vars, NEW n \in Nodes, CommitSound(n),
           worker'[n] = worker[n], worker[n].pc # "idle" => Request(n)' = Request(n),
           writeCheck'[n] = writeCheck[n]
    PROVE  CommitSound(n)'
  BY HistoryGrows DEF CommitSound, Succeeded, WritePhases

LEMMA ClientKeepsCommitInv ==
    ASSUME IInv, [Next]_vars, NEW n \in Coordinators,
           \/ \E k \in Keys : PutStore(n, k) \/ Get(n, k)
           \/ \E object \in handlers[n] : PutSubmit(n, object)
    PROVE  CommitInv'
<1> USE DEF IInv
<1> n \in Nodes
  BY NodesAssumption
<1>1. writeCheck' = writeCheck
  BY DEF PutStore, Get, PutSubmit
<1>2. ASSUME UNCHANGED <<queue, worker>> PROVE CommitInv'
  BY <1>1, <1>2, CommitSoundStays DEF CommitInv, Request
<1>3. ASSUME NEW request \in Requests, AddRequest(n, request) PROVE CommitInv'
  <2>1. ASSUME NEW i \in Nodes \ {n} PROVE CommitSound(i)'
    BY <1>1, <1>3, AddRequestEffect, CommitSoundStays DEF CommitInv, Request, Typed
  <2>2. CASE queue[n] # <<>>
    <3>1. CommitSound(n)'
      BY <1>1, <1>3, <2>2, AddRequestEffect, CommitSoundStays DEF CommitInv, Typed
    <3> QED BY <2>1, <3>1 DEF CommitInv
  <2>3. CASE queue[n] = <<>>
    <3>1. worker'[n].pc = "begin"
      BY <1>3, <2>3, AddRequestEffect DEF Typed
    <3>2. CommitSound(n)'
      BY <1>1, <3>1 DEF CommitSound, WritePhases, CommitInv
    <3> QED BY <2>1, <3>2 DEF CommitInv
  <2> QED BY <2>2, <2>3
<1>4. ASSUME NEW k \in Keys, Get(n, k) PROVE CommitInv'
  <2>1. [isWrite |-> FALSE, object |-> [key |-> k, value |-> NoValue]] \in Requests
    BY DEF Requests, Objects, NoValue, Typed, TypeOK, StoresOK
  <2> QED BY <1>3, <1>4, <2>1 DEF Get
<1>5. ASSUME NEW object \in handlers[n], PutSubmit(n, object) PROVE CommitInv'
  <2>1. [isWrite |-> TRUE, object |-> object] \in Requests
    BY DEF Requests, Written, Typed, TypeOK, StoresOK
  <2> QED BY <1>2, <1>3, <1>5, <2>1 DEF PutSubmit
<1> QED BY <1>2, <1>4, <1>5 DEF PutStore

(* The answer to a write goes out before its first commit.                 *)
LEMMA AnswerWriteEffect ==
    ASSUME Typed, NEW n \in Nodes, AnswerWrite(n)
    PROVE  /\ queue' = queue /\ worker[n].pc = "wait" /\ queue[n] # <<>>
           /\ worker'[n].pc = IF CheckWriteQuorum(n) THEN "answered" ELSE "next"
           /\ worker'[n].visited = worker[n].visited
           /\ \E count \in Nat :
                  results' = results \cup
                     {[at |-> n, request |-> [isWrite |-> TRUE, object |-> Request(n).object],
                       success |-> CheckWriteQuorum(n), handoffNodes |-> count,
                       late |-> Unanswered(n, 0)]}
           /\ CheckWriteQuorum(n) => DOMAIN writeCheck[n] # {}
<1>1. worker[n] \in Workers /\ worker \in [Nodes -> Workers] /\ worker[n].pc = "wait"
  BY DEF Typed, TypeOK, QueuesOK, AnswerWrite
<1>2. Request(n) \in Requests /\ Request(n).isWrite /\ queue[n] # <<>>
  BY <1>1, HeadOfQueue DEF Typed, WorkerInv, WorkerSound, WritePhases
<1>3. Request(n) = [isWrite |-> TRUE, object |-> Request(n).object]
  BY <1>2 DEF Requests
<1>4. worker[n].count \in Nat
  BY <1>1 DEF Workers
<1>5. ASSUME CheckWriteQuorum(n), DOMAIN writeCheck[n] = {} PROVE FALSE
  <2>1. Cardinality({}) = 0
    BY FS_EmptySet
  <2> QED BY <1>5, <2>1, QuorumAssumption DEF CheckWriteQuorum, HandoffCheck
<1>6. results' = results \cup
         {[at |-> n, request |-> [isWrite |-> TRUE, object |-> Request(n).object],
           success |-> CheckWriteQuorum(n), handoffNodes |-> worker[n].count,
           late |-> Unanswered(n, 0)]}
  BY <1>3 DEF AnswerWrite
<1>7. /\ worker'[n].pc = IF CheckWriteQuorum(n) THEN "answered" ELSE "next"
      /\ worker'[n].visited = worker[n].visited /\ queue' = queue
  BY <1>1 DEF AnswerWrite, Workers
<1> QED BY <1>1, <1>2, <1>4, <1>5, <1>6, <1>7

LEMMA WorkerKeepsCommitSound ==
    ASSUME IInv, [Next]_vars, NEW n \in Nodes, WorkerStep(n)
    PROVE  CommitSound(n)'
<1> USE DEF IInv
<1>1. /\ worker[n] \in Workers /\ worker \in [Nodes -> Workers] /\ DOMAIN writeCheck = Nodes
      /\ CommitSound(n)
  BY DEF Typed, TypeOK, QueuesOK, ChecksOK, CommitInv
<1>2. CASE BeginWrite(n) \/ BeginRead(n)
  <2>1. /\ worker'[n].visited = {} /\ worker'[n].pc \in {"prep", "query"}
        /\ writeCheck'[n] = <<>> \/ writeCheck'[n] = writeCheck[n]
    <3>1. PICK pc \in {"prep", "query"} :
              worker' = [worker EXCEPT ![n] = [IdleWorker EXCEPT !.pc = pc, !.todo = Targets]]
      BY <1>2 DEF BeginWrite, BeginRead
    <3>2. worker'[n].visited = {} /\ worker'[n].pc = pc
      BY <1>1, <3>1 DEF IdleWorker
    <3>3. writeCheck'[n] = <<>> \/ writeCheck'[n] = writeCheck[n]
      BY <1>1, <1>2 DEF BeginWrite, BeginRead
    <3> QED BY <3>2, <3>3
  <2>2. writeCheck'[n] # NilMap => DOMAIN writeCheck'[n] \subseteq TargetSet
    BY <1>1, <2>1, EmptyMap DEF CommitSound
  <2> QED BY <2>1, <2>2 DEF CommitSound
<1>3. CASE SendPrep(n) \/ PrepsSent(n) \/ SendHandoff(n) \/ SendQuery(n) \/ ReadOwnValue(n) \/ CommitsSent(n)
           \/ AnswerRead(n)
  <2>1. /\ writeCheck' = writeCheck /\ worker'[n].visited = worker[n].visited
        /\ worker'[n].pc \notin {"answered", "commit"}
        /\ worker'[n].pc \in WritePhases => worker[n].pc \in WritePhases \ {"commit"}
    <3>1. CASE SendPrep(n)
      BY <1>1, <3>1 DEF SendPrep, WritePhases, Workers
    <3>2. CASE PrepsSent(n)
      <4>1. worker'[n].pc \in {"wait", "handoff"} /\ worker'[n].visited = worker[n].visited
        BY <1>1, <3>2 DEF PrepsSent, Workers
      <4> QED BY <3>2, <4>1 DEF PrepsSent, WritePhases
    <3>3. CASE SendHandoff(n)
      <4>1. PICK pc \in {"wait", "handoff"} : \E todo, count :
                worker' = [worker EXCEPT ![n].pc = pc, ![n].todo = todo, ![n].count = count]
        BY <3>3 DEF SendHandoff
      <4>2. worker'[n].pc \in {"wait", "handoff"} /\ worker'[n].visited = worker[n].visited
        BY <1>1, <4>1 DEF Workers
      <4> QED BY <3>3, <4>2 DEF SendHandoff, WritePhases
    <3>4. CASE SendQuery(n)
      BY <1>1, <3>4 DEF SendQuery, WritePhases, Workers
    <3>6. CASE ReadOwnValue(n)
      BY <1>1, <3>6 DEF ReadOwnValue, WritePhases, Workers
    <3>5. CASE CommitsSent(n) \/ AnswerRead(n)
      BY <1>1, <3>5 DEF CommitsSent, AnswerRead, WritePhases, Workers
    <3> QED BY <1>3, <3>1, <3>2, <3>3, <3>4, <3>5, <3>6
  <2> QED BY <1>1, <2>1 DEF CommitSound
<1>4. CASE AnswerWrite(n)
  <2>1. writeCheck' = writeCheck
    BY <1>4 DEF AnswerWrite
  <2>2. worker'[n].pc = "answered" => Succeeded(n, Request(n).object)'
    <3>1. PICK count \in Nat :
              results' = results \cup
                     {[at |-> n, request |-> [isWrite |-> TRUE, object |-> Request(n).object],
                       success |-> CheckWriteQuorum(n), handoffNodes |-> count, late |-> Unanswered(n, 0)]}
      BY <1>4, AnswerWriteEffect
    <3>2. queue' = queue /\ (worker'[n].pc = "answered" => CheckWriteQuorum(n))
      BY <1>4, AnswerWriteEffect
    <3> DEFINE res == [at |-> n, request |-> [isWrite |-> TRUE, object |-> Request(n).object],
                       success |-> CheckWriteQuorum(n), handoffNodes |-> count, late |-> Unanswered(n, 0)]
    <3>3. res \in results' /\ Request(n)' = Request(n)
      BY <3>1, <3>2 DEF Request
    <3> QED BY <3>2, <3>3 DEF Succeeded
  <2> QED BY <1>1, <1>4, <2>1, <2>2, AnswerWriteEffect DEF CommitSound, WritePhases
<1>5. CASE BeginCommits(n) \/ SendCommit(n)
  <2>1. /\ writeCheck' = writeCheck /\ queue' = queue /\ worker'[n].pc = "commit"
        /\ worker[n].pc \in {"answered", "commit"}
    BY <1>1, <1>5 DEF BeginCommits, SendCommit, Workers
  <2> QED BY <1>1, <2>1, HistoryGrows DEF CommitSound, Succeeded, Request
<1>6. CASE HandleNextInQueue(n)
  <2>1. writeCheck' = writeCheck /\ worker'[n].pc \in {"idle", "begin"}
    BY <1>1, <1>6 DEF HandleNextInQueue, IdleWorker
  <2> QED BY <1>1, <2>1 DEF CommitSound, WritePhases
<1> QED BY <1>2, <1>3, <1>4, <1>5, <1>6 DEF WorkerStep

LEMMA TaskKeepsCommitInv ==
    ASSUME IInv, [Next]_vars, NEW m \in tasks, TaskStep(m)
    PROVE  CommitInv'
<1> USE DEF IInv
<1>1. /\ m.from \in Nodes /\ m.to \in Nodes /\ DOMAIN writeCheck = Nodes
      /\ worker \in [Nodes -> Workers] /\ queue \in [Nodes -> Seq(Requests)]
  BY DEF Typed, TypeOK, MessagesOK, Messages, ChecksOK, QueuesOK
<1>2. ASSUME UNCHANGED <<queue, worker, writeCheck>> PROVE CommitInv'
  BY <1>2, CommitSoundStays DEF CommitInv, Request
<1>3. CASE Acknowledge(m) /\ writeCheck' # writeCheck
  <2>1. /\ writeCheck' = [writeCheck EXCEPT ![m.from] = WithAnswer(@, m.to, m.object.value)]
        /\ writeCheck[m.from] # NilMap /\ m.code = 0 /\ UNCHANGED <<queue, worker>>
    BY <1>3 DEF Acknowledge, HandlerUnchanged
  <2>2. m.to \in TargetSet
    BY <2>1 DEF MessageInv, MessageSound
  <2>3. ASSUME NEW n \in Nodes \ {m.from} PROVE CommitSound(n)'
    BY <1>1, <2>1, CommitSoundStays DEF CommitInv, Request
  <2>4. DOMAIN writeCheck'[m.from] = DOMAIN writeCheck[m.from] \cup {m.to}
    BY <1>1, <2>1 DEF WithAnswer
  <2>5. CommitSound(m.from)'
    BY <1>1, <2>1, <2>2, <2>4, HistoryGrows DEF CommitInv, CommitSound, Succeeded, Request
  <2> QED BY <2>3, <2>5 DEF CommitInv
<1>4. CASE RespondRead(m)
  <2>1. CASE CrashEffect(m.from)
    <3>1. ASSUME NEW n \in Nodes \ {m.from} PROVE CommitSound(n)'
      BY <1>1, <2>1, CommitSoundStays DEF CrashEffect, CommitInv, Request
    <3>2. CommitSound(m.from)'
      BY <1>1, <2>1 DEF CrashEffect, CommitSound, IdleWorker, WritePhases
    <3> QED BY <3>1, <3>2 DEF CommitInv
  <2> QED BY <1>2, <1>4, <2>1 DEF RespondRead
<1> QED
  BY <1>2, <1>3, <1>4 DEF TaskStep, Acknowledge, Commit, HandoffCommit, HandlerUnchanged

LEMMA NextKeepsCommitInv == ASSUME IInv, [Next]_vars PROVE CommitInv'
<1> USE DEF IInv
<1>1. ASSUME UNCHANGED <<queue, worker, writeCheck>> PROVE CommitInv'
  BY <1>1, CommitSoundStays DEF CommitInv, Request
<1>2. ASSUME NEW n \in Coordinators, WorkerStep(n) PROVE CommitInv'
  <2>1. n \in Nodes
    BY NodesAssumption
  <2>2. ASSUME NEW i \in Nodes \ {n} PROVE CommitSound(i)'
    BY <1>2, <2>1, WorkerLeavesOthers, CommitSoundStays DEF CommitInv, Request, Typed
  <2> QED BY <1>2, <2>1, <2>2, WorkerKeepsCommitSound DEF CommitInv
<1>3. CASE \/ \E m \in retries, res \in {0, 1} : Retry(m, res)
           \/ \E h \in handoffs : HandoffDelete(h) \/ \E res \in {0, 1} : HandoffSend(h, res)
           \/ \E n \in Nodes : Restart(n) \/ Snapshot(n)
  BY <1>1, <1>3 DEF Retry, HandoffDelete, HandoffSend, HandlerUnchanged, Restart, Snapshot
<1>4. ASSUME NEW n \in Nodes, Crash(n) PROVE CommitInv'
  <2>1. /\ DOMAIN writeCheck = Nodes
        /\ worker \in [Nodes -> Workers] /\ queue \in [Nodes -> Seq(Requests)]
    BY DEF Typed, TypeOK, ChecksOK, QueuesOK
  <2>2. CrashEffect(n)
    BY <1>4 DEF Crash
  <2>3. ASSUME NEW i \in Nodes \ {n} PROVE CommitSound(i)'
    BY <2>1, <2>2, CommitSoundStays DEF CrashEffect, CommitInv, Request
  <2>4. CommitSound(n)'
    BY <2>1, <2>2 DEF CrashEffect, CommitSound, IdleWorker, WritePhases
  <2> QED BY <2>3, <2>4 DEF CommitInv
<1>5. CASE UNCHANGED vars
  BY <1>1, <1>5 DEF vars
<1> QED
  BY <1>2, <1>3, <1>4, <1>5, ClientKeepsCommitInv, TaskKeepsCommitInv DEF Next

LEMMA InitIInv == Init => IInv
<1> SUFFICES ASSUME Init PROVE MessageInv /\ CommitInv
  BY InitTyped DEF IInv
<1>1. MessageInv
  BY DEF Init, MessageInv
<1>2. CommitInv
  BY DEF Init, CommitInv, CommitSound, IdleWorker, WritePhases
<1> QED BY <1>1, <1>2

LEMMA NextIInv == IInv /\ [Next]_vars => IInv'
  BY NextTyped, NextKeepsMessageInv, NextKeepsCommitInv DEF IInv

LEMMA Invariance == Spec => []IInv
  BY InitIInv, NextIInv, PTL DEF Spec

(* A commit is only pending for a write that its coordinator has answered  *)
(* with success.                                                           *)
THEOREM CommitsAreEarned == Spec => []CommitsFollowQuorum
<1>1. IInv => CommitsFollowQuorum
  BY DEF IInv, MessageInv, MessageSound, CommitsFollowQuorum
<1> QED BY <1>1, Invariance, PTL

-----------------------------------------------------------------------------
(* The maps and the mutex of a process in its first life.                  *)

LEMMA MapsStay ==
    ASSUME IInv, [Next]_vars, NEW n \in Nodes \ crashed'
    PROVE  /\ writeCheck[n] # NilMap => writeCheck'[n] # NilMap
           /\ readCheck[n] # NilMap => readCheck'[n] # NilMap
<1> USE DEF IInv
<1>1. DOMAIN writeCheck = Nodes /\ DOMAIN readCheck = Nodes
  BY DEF Typed, TypeOK, ChecksOK
<1>2. ASSUME NEW i \in Coordinators, WorkerStep(i)
      PROVE  /\ writeCheck[n] # NilMap => writeCheck'[n] # NilMap
             /\ readCheck[n] # NilMap => readCheck'[n] # NilMap
  <2>1. i \in Nodes
    BY NodesAssumption
  <2>2. CASE i # n
    BY <1>2, <2>1, <2>2, WorkerLeavesOthers DEF Typed
  <2>3. CASE i = n
    <3>1. CASE BeginWrite(n) \/ BeginRead(n)
      BY <1>1, <3>1, EmptyMap DEF BeginWrite, BeginRead
    <3>2. CASE ReadOwnValue(n)
      <4>1. worker'[n].pc = "waitRead" /\ writeCheck' = writeCheck
        BY <3>2 DEF ReadOwnValue, Typed, TypeOK, QueuesOK, Workers
      <4>2. WorkerSound(n)'
        BY <1>2, <2>3, WorkerKeepsItself DEF Typed
      <4> QED BY <4>1, <4>2 DEF WorkerSound, ReadPhases
    <3> QED
      BY <1>2, <2>3, <3>1, <3>2 DEF WorkerStep, SendPrep, PrepsSent, SendHandoff, AnswerWrite,
         BeginCommits, SendCommit, CommitsSent, SendQuery, AnswerRead, HandleNextInQueue
  <2> QED BY <2>2, <2>3
<1>3. CASE \E i \in Coordinators : \/ \E k \in Keys : PutStore(i, k) \/ Get(i, k)
                                   \/ \E object \in handlers[i] : PutSubmit(i, object)
  BY <1>3 DEF PutStore, Get, PutSubmit
<1>4. ASSUME NEW m \in tasks, TaskStep(m)
      PROVE  /\ writeCheck[n] # NilMap => writeCheck'[n] # NilMap
             /\ readCheck[n] # NilMap => readCheck'[n] # NilMap
  <2>1. CASE m.from \in Nodes /\ CrashEffect(m.from) /\ UNCHANGED readCheck
    <3>1. n # m.from
      BY <2>1 DEF CrashEffect
    <3> QED BY <1>1, <2>1, <3>1 DEF CrashEffect
  <2> QED BY <1>4, <2>1, TaskEffect DEF Typed
<1>5. CASE \/ \E m \in retries, res \in {0, 1} : Retry(m, res)
           \/ \E h \in handoffs : HandoffDelete(h) \/ \E res \in {0, 1} : HandoffSend(h, res)
           \/ \E i \in Nodes : Restart(i) \/ Snapshot(i)
  BY <1>5 DEF Retry, HandoffDelete, HandoffSend, HandlerUnchanged, Restart, Snapshot
<1>6. ASSUME NEW i \in Nodes, Crash(i)
      PROVE  /\ writeCheck[n] # NilMap => writeCheck'[n] # NilMap
             /\ readCheck[n] # NilMap => readCheck'[n] # NilMap
  <2>1. n # i
    BY <1>6 DEF Crash, CrashEffect
  <2> QED BY <1>1, <1>6, <2>1 DEF Crash, CrashEffect
<1>7. CASE UNCHANGED vars
  BY <1>7 DEF vars
<1> QED BY <1>2, <1>3, <1>4, <1>5, <1>6, <1>7 DEF Next

(* A prep or a query of this life was sent after the map was made.         *)
FirstLife(n) ==
    n \notin crashed =>
        /\ ~muLeaked[n]
        /\ \A m \in tasks : m.from = n => /\ m.code = 0 => writeCheck[n] # NilMap
                                          /\ m.code = 7 => readCheck[n] # NilMap

(* For every node; this is what LeakNeedsRestart needs.                    *)
LifeInv == \A n \in Nodes : FirstLife(n)

(* r.mu of a process in its first life is locked by nobody for good.       *)
LEMMA MuStays ==
    ASSUME IInv, LifeInv, [Next]_vars, NEW n \in Nodes \ crashed'
    PROVE  ~muLeaked'[n]
<1> USE DEF IInv
<1>1. n \notin crashed /\ ~muLeaked[n] /\ muLeaked \in [Nodes -> BOOLEAN]
  BY HistoryGrows DEF LifeInv, FirstLife, Typed, TypeOK, ChecksOK
<1>2. CASE muLeaked' = muLeaked
  BY <1>1, <1>2
<1>3. ASSUME NEW i, CrashEffect(i) PROVE ~muLeaked'[n]
  BY <1>1, <1>3 DEF CrashEffect
<1>4. ASSUME NEW m \in tasks, Acknowledge(m) PROVE ~muLeaked'[n]
  <2>1. m.code = 0 /\ (muLeaked' = muLeaked \/
            (writeCheck[m.from] = NilMap /\ muLeaked' = [muLeaked EXCEPT ![m.from] = TRUE]))
    BY <1>4 DEF Acknowledge
  <2>2. m.from = n => writeCheck[n] # NilMap
    BY <1>1, <2>1 DEF LifeInv, FirstLife
  <2> QED BY <1>1, <2>1, <2>2
<1>5. ASSUME NEW m \in tasks, TaskStep(m) PROVE ~muLeaked'[n]
  BY <1>2, <1>3, <1>4, <1>5 DEF TaskStep, Commit, HandoffCommit, RespondRead
<1>6. ASSUME NEW i \in Coordinators, WorkerStep(i) PROVE ~muLeaked'[n]
  <2>1. muLeaked' = muLeaked
    BY <1>6, NodesAssumption, WorkerFrame
  <2> QED BY <1>2, <2>1
<1>7. CASE \/ \E i \in Coordinators : \/ \E k \in Keys : PutStore(i, k) \/ Get(i, k)
                                      \/ \E object \in handlers[i] : PutSubmit(i, object)
           \/ \E m \in retries, res \in {0, 1} : Retry(m, res)
           \/ \E h \in handoffs : HandoffDelete(h) \/ \E res \in {0, 1} : HandoffSend(h, res)
           \/ \E i \in Nodes : Restart(i) \/ Snapshot(i)
           \/ UNCHANGED vars
  <2>1. muLeaked' = muLeaked
    BY <1>7 DEF PutStore, Get, PutSubmit, Retry, HandoffDelete, HandoffSend, Restart, Snapshot, vars
  <2> QED BY <1>2, <2>1
<1>8. ASSUME NEW i \in Nodes, Crash(i) PROVE ~muLeaked'[n]
  BY <1>3, <1>8 DEF Crash
<1> QED BY <1>5, <1>6, <1>7, <1>8 DEF Next

LEMMA NextLifeInv == IInv /\ LifeInv /\ [Next]_vars => LifeInv'
<1> SUFFICES ASSUME IInv, LifeInv, [Next]_vars, NEW n \in Nodes, n \notin crashed',
                    NEW m \in tasks', m.from = n
             PROVE  /\ m.code = 0 => writeCheck'[n] # NilMap
                    /\ m.code = 7 => readCheck'[n] # NilMap
  BY MuStays DEF LifeInv, FirstLife
<1> USE DEF IInv
<1>1. CASE m \in tasks
  BY <1>1, MapsStay, HistoryGrows DEF LifeInv, FirstLife
<1>2. CASE m \in retries \/ \E h \in handoffs : m = h.message
  BY <1>2 DEF MessageInv
<1>3. ASSUME NEW i \in Nodes, WorkerStep(i), WorkerSends(i, m)
      PROVE  /\ m.code = 0 => writeCheck'[n] # NilMap
             /\ m.code = 7 => readCheck'[n] # NilMap
  <2>1. i = n
    BY <1>3 DEF WorkerSends
  <2>2. /\ m.code = 0 => writeCheck[n] # NilMap
        /\ m.code = 7 => readCheck[n] # NilMap
    <3>1. m.code = 0 => worker[n].pc \in WritePhases
      BY <1>3, <2>1 DEF WorkerSends, WritePhases
    <3>2. m.code = 7 => worker[n].pc \in ReadPhases
      BY <1>3, <2>1 DEF WorkerSends, ReadPhases
    <3> QED BY <3>1, <3>2 DEF Typed, WorkerInv, WorkerSound
  <2> QED BY <2>2, MapsStay
<1> QED BY <1>1, <1>2, <1>3, NewMessages

LEMMA LifeInvariance == Spec => []LifeInv
<1>1. Init => LifeInv
  BY DEF Init, LifeInv, FirstLife
<1> QED BY <1>1, NextLifeInv, Invariance, PTL DEF Spec

(* r.mu is only leaked where a process has ended before: in its first life *)
(* a node has made the map before the first prep is out.                   *)
THEOREM LeakOnlyAfterRestart == Spec => []LeakNeedsRestart
<1>1. LifeInv => LeakNeedsRestart
  BY DEF LifeInv, FirstLife, LeakNeedsRestart
<1> QED BY <1>1, LifeInvariance, PTL

-----------------------------------------------------------------------------
(* What has become of a value that was on its way: it has arrived, or a    *)
(* process has ended.                                                      *)
LEMMA MessagesGone ==
    ASSUME Typed, [Next]_vars
    PROVE  /\ \A x \in tasks \ tasks' : x.code \in {2, 6} =>
                  x.to \in crashed' \/ <<x.to, x.object.value>> \in applied'
           /\ \A x \in retries \ retries' : x.from \in crashed' \/ x \in tasks'
           /\ \A h \in handoffs \ handoffs' :
                  h.message.from \in crashed' \/ h.delivered \/ h.message \in tasks'
<1>1. CASE \E n \in Coordinators : \/ \E k \in Keys : PutStore(n, k) \/ Get(n, k)
                                   \/ \E object \in handlers[n] : PutSubmit(n, object)
  BY <1>1 DEF PutStore, Get, PutSubmit
<1>2. ASSUME NEW n \in Coordinators, WorkerStep(n)
      PROVE  tasks \subseteq tasks' /\ retries \subseteq retries' /\ handoffs' = handoffs
  <2>1. n \in Nodes
    BY NodesAssumption
  <2>2. tasks \subseteq tasks' /\ retries \subseteq retries'
    BY <1>2, <2>1, WorkerSendsThese DEF WorkerSends, Typed
  <2> QED BY <1>2, <2>1, <2>2, WorkerFrame
<1>3. ASSUME NEW n \in Nodes, CrashEffect(n)
      PROVE  /\ n \in crashed'
             /\ \A x \in retries \ retries' : x.from = n
             /\ \A h \in handoffs \ handoffs' : h.message.from = n
  BY <1>3 DEF CrashEffect
<1>4. ASSUME NEW m \in tasks, RespondRead(m)
      PROVE  /\ \A x \in tasks \ tasks' : x.code \in {2, 6} =>  x.to \in crashed'
             /\ \A x \in retries \ retries' : x.from \in crashed'
             /\ \A h \in handoffs \ handoffs' : h.message.from \in crashed'
  <2>1. m.from \in Nodes /\ m.code = 7
    BY <1>4 DEF RespondRead, Typed, TypeOK, MessagesOK, Messages
  <2>2. CASE CrashEffect(m.from) /\ tasks' = TasksElsewhere(m.from) \ {m}
    BY <1>3, <2>1, <2>2 DEF TasksElsewhere
  <2>3. CASE tasks' = tasks \ {m} /\ UNCHANGED <<retries, handoffs>>
    BY <2>1, <2>3
  <2> QED BY <1>4, <2>2, <2>3 DEF RespondRead
<1>5. CASE \E m \in tasks : Acknowledge(m) \/ Commit(m) \/ HandoffCommit(m)
  BY <1>5 DEF Acknowledge, Commit, HandoffCommit, HandlerUnchanged, Set
<1>6. ASSUME NEW m \in retries, NEW res \in {0, 1}, Retry(m, res)
      PROVE  /\ tasks \subseteq tasks' /\ handoffs' = handoffs
             /\ \A x \in retries \ retries' : x \in tasks'
  BY <1>6, SendEffect DEF Retry
<1>7. ASSUME NEW h \in handoffs, NEW res \in {0, 1}, HandoffSend(h, res)
      PROVE  /\ tasks \subseteq tasks' /\ retries' = retries
             /\ \A x \in handoffs \ handoffs' : x.message \in tasks'
  BY <1>7, SendEffect DEF HandoffSend, HandlerUnchanged
<1>8. ASSUME NEW h \in handoffs, HandoffDelete(h)
      PROVE  /\ UNCHANGED <<tasks, retries>>
             /\ \A x \in handoffs \ handoffs' : x.delivered
  BY <1>8 DEF HandoffDelete, HandlerUnchanged
<1>9. ASSUME NEW n \in Nodes, Crash(n)
      PROVE  /\ \A x \in tasks \ tasks' : x.to \in crashed'
             /\ \A x \in retries \ retries' : x.from \in crashed'
             /\ \A h \in handoffs \ handoffs' : h.message.from \in crashed'
  BY <1>3, <1>9 DEF Crash, TasksElsewhere
<1>10. CASE \E n \in Nodes : Restart(n) \/ Snapshot(n)
  BY <1>10 DEF Restart, Snapshot
<1>11. CASE UNCHANGED vars
  BY <1>11 DEF vars
<1>12. CASE \E n \in Coordinators : WorkerStep(n)
  BY <1>2, <1>12
<1>13. CASE \E m \in tasks : TaskStep(m)
  BY <1>4, <1>5, <1>13 DEF TaskStep
<1>14. CASE \E m \in retries, res \in {0, 1} : Retry(m, res)
  BY <1>6, <1>14
<1>15. CASE \E h \in handoffs : HandoffDelete(h) \/ \E res \in {0, 1} : HandoffSend(h, res)
  BY <1>7, <1>8, <1>15
<1>16. CASE \E n \in Nodes : Crash(n) \/ Restart(n) \/ Snapshot(n)
  BY <1>9, <1>10, <1>16
<1> QED BY <1>1, <1>11, <1>12, <1>13, <1>14, <1>15, <1>16 DEF Next

LEMMA NewHandoffs ==
    ASSUME Typed, [Next]_vars, NEW entry \in handedOff', entry \notin handedOff
    PROVE  \E m \in tasks : /\ HandoffCommit(m)
                            /\ entry = <<m.to, m.object, m.intended>>
<1>1. CASE \E n \in Coordinators : \/ \E k \in Keys : PutStore(n, k) \/ Get(n, k)
                                   \/ \E object \in handlers[n] : PutSubmit(n, object)
  BY <1>1 DEF PutStore, Get, PutSubmit, history
<1>2. CASE \E n \in Coordinators : WorkerStep(n)
  BY <1>2, NodesAssumption, WorkerFrame
<1>3. CASE \E m \in tasks : TaskStep(m)
  BY <1>3 DEF TaskStep, Acknowledge, Commit, HandoffCommit, RespondRead, CrashEffect, history
<1>4. CASE \/ \E m \in retries, res \in {0, 1} : Retry(m, res)
           \/ \E h \in handoffs : HandoffDelete(h) \/ \E res \in {0, 1} : HandoffSend(h, res)
           \/ \E n \in Nodes : Crash(n) \/ Restart(n) \/ Snapshot(n)
           \/ UNCHANGED vars
  BY <1>4 DEF Retry, HandoffDelete, HandoffSend, Crash, CrashEffect, Restart, Snapshot, vars, history
<1> QED BY <1>1, <1>2, <1>3, <1>4 DEF Next

LEMMA NextHandoffNotLost == IInv /\ HandoffNotLost /\ [Next]_vars => HandoffNotLost'
<1> SUFFICES ASSUME IInv, HandoffNotLost, [Next]_vars, NEW entry \in handedOff'
             PROVE  \/ entry[1] \in crashed' \/ entry[3] \in crashed'
                    \/ <<entry[3], entry[2].value>> \in applied'
                    \/ \E m \in tasks' : m.code = 6 /\ m.to = entry[3] /\ m.object = entry[2]
                    \/ \E h \in handoffs' :
                           /\ h.message.from = entry[1] /\ h.message.to = entry[3]
                           /\ h.message.object = entry[2] /\ ~h.delivered
  BY DEF HandoffNotLost
<1> USE DEF IInv
<1>1. CASE entry \notin handedOff
  <2>1. PICK m \in tasks : HandoffCommit(m) /\ entry = <<m.to, m.object, m.intended>>
    BY <1>1, NewHandoffs
  <2> DEFINE h == [message |-> Message(6, m.to, m.intended, m.object, 0), delivered |-> FALSE]
  <2>2. h \in handoffs'
    BY <2>1 DEF HandoffCommit
  <2>3. /\ h.message.from = entry[1] /\ h.message.to = entry[3]
        /\ h.message.object = entry[2] /\ ~h.delivered
    BY <2>1 DEF Message
  <2> QED BY <2>2, <2>3
<1>2. CASE entry \in handedOff /\ \E m \in tasks : /\ m.code = 6 /\ m.to = entry[3]
                                                   /\ m.object = entry[2]
  BY <1>2, MessagesGone
<1>3. CASE entry \in handedOff /\ \E h \in handoffs :
               /\ h.message.from = entry[1] /\ h.message.to = entry[3]
               /\ h.message.object = entry[2] /\ ~h.delivered
  BY <1>3, MessagesGone DEF MessageInv
<1>4. CASE /\ entry \in handedOff
           /\ entry[1] \in crashed \/ entry[3] \in crashed \/ <<entry[3], entry[2].value>> \in applied
  BY <1>4, HistoryGrows
<1> QED BY <1>1, <1>2, <1>3, <1>4 DEF HandoffNotLost

(* Between its storing at a handoff node and its arrival at the intended   *)
(* node a value is always somewhere, unless one of the two processes ends. *)
THEOREM HandoffsAreKept == Spec => []HandoffNotLost
<1>1. Init => HandoffNotLost
  BY DEF Init, HandoffNotLost
<1> QED BY <1>1, NextHandoffNotLost, Invariance, PTL DEF Spec

-----------------------------------------------------------------------------
LEMMA NewResults ==
    ASSUME Typed, [Next]_vars, NEW res \in results', res \notin results
    PROVE  \E n \in Coordinators :
               \/ AnswerRead(n) /\ res.at = n /\ res.request = Request(n)
               \/ /\ AnswerWrite(n) /\ res.at = n /\ res.request = Request(n)
                  /\ res.request.isWrite /\ (res.success <=> CheckWriteQuorum(n))
                  /\ res.handoffNodes = worker[n].count
<1>1. CASE \E n \in Coordinators : \/ \E k \in Keys : PutStore(n, k) \/ Get(n, k)
                                   \/ \E object \in handlers[n] : PutSubmit(n, object)
  BY <1>1 DEF PutStore, Get, PutSubmit, history
<1>2. ASSUME NEW n \in Coordinators, WorkerStep(n)
      PROVE  \/ AnswerRead(n) /\ res.at = n /\ res.request = Request(n)
             \/ /\ AnswerWrite(n) /\ res.at = n /\ res.request = Request(n)
                /\ res.request.isWrite /\ (res.success <=> CheckWriteQuorum(n))
                /\ res.handoffNodes = worker[n].count
  <2>1. n \in Nodes
    BY NodesAssumption
  <2>2. CASE AnswerRead(n)
    BY <2>2 DEF AnswerRead
  <2>3. CASE AnswerWrite(n)
    <3>1. Request(n).isWrite
      BY <2>1, <2>3 DEF AnswerWrite, Typed, WorkerInv, WorkerSound, WritePhases
    <3>2. /\ res.at = n /\ res.request = Request(n)
          /\ res.success = CheckWriteQuorum(n) /\ res.handoffNodes = worker[n].count
      BY <2>3 DEF AnswerWrite
    <3> QED BY <2>3, <3>1, <3>2
  <2> QED
    BY <1>2, <2>2, <2>3 DEF WorkerStep, BeginWrite, SendPrep, PrepsSent, SendHandoff, BeginCommits,
       SendCommit, CommitsSent, BeginRead, SendQuery, ReadOwnValue, HandleNextInQueue
<1>3. CASE \E m \in tasks : TaskStep(m)
  BY <1>3 DEF TaskStep, Acknowledge, Commit, HandoffCommit, RespondRead, HandlerUnchanged,
     CrashEffect, history
<1>4. CASE \/ \E m \in retries, r \in {0, 1} : Retry(m, r)
           \/ \E h \in handoffs : HandoffDelete(h) \/ \E r \in {0, 1} : HandoffSend(h, r)
           \/ \E n \in Nodes : Crash(n) \/ Restart(n) \/ Snapshot(n)
           \/ UNCHANGED vars
  BY <1>4 DEF Retry, HandoffDelete, HandoffSend, HandlerUnchanged, Crash, CrashEffect, Restart,
     Snapshot, vars, history
<1>5. CASE \E n \in Coordinators : WorkerStep(n)
  BY <1>2, <1>5
<1> QED BY <1>1, <1>3, <1>4, <1>5 DEF Next

(* Nobody but the worker and a crash interferes with a request that is     *)
(* being replicated.                                                       *)
LEMMA HeadStays ==
    ASSUME Typed, [Next]_vars, NEW n \in Nodes \ crashed', ~WorkerStep(n), queue[n] # <<>>
    PROVE  worker'[n] = worker[n] /\ Request(n)' = Request(n) /\ queue'[n] # <<>>
<1>0. worker \in [Nodes -> Workers] /\ queue \in [Nodes -> Seq(Requests)]
  BY DEF Typed, TypeOK, QueuesOK
<1>1. CASE UNCHANGED <<queue, worker>>
  BY <1>1 DEF Request
<1>2. ASSUME NEW i \in Coordinators, NEW request \in Requests, AddRequest(i, request)
      PROVE  worker'[n] = worker[n] /\ Request(n)' = Request(n) /\ queue'[n] # <<>>
  <2>1. i \in Nodes
    BY NodesAssumption
  <2> QED BY <1>2, <2>1, AddRequestEffect DEF Typed, Request
<1>3. ASSUME NEW i \in Coordinators, NEW k \in Keys, Get(i, k)
      PROVE  worker'[n] = worker[n] /\ Request(n)' = Request(n) /\ queue'[n] # <<>>
  <2>1. [isWrite |-> FALSE, object |-> [key |-> k, value |-> NoValue]] \in Requests
    BY DEF Requests, Objects, NoValue, Typed, TypeOK, StoresOK
  <2> QED BY <1>2, <1>3, <2>1 DEF Get
<1>4. ASSUME NEW i \in Coordinators, NEW object \in handlers[i], PutSubmit(i, object)
      PROVE  worker'[n] = worker[n] /\ Request(n)' = Request(n) /\ queue'[n] # <<>>
  <2>1. [isWrite |-> TRUE, object |-> object] \in Requests
    BY NodesAssumption DEF Requests, Written, Typed, TypeOK, StoresOK
  <2> QED BY <1>1, <1>2, <1>4, <2>1 DEF PutSubmit
<1>5. ASSUME NEW i \in Coordinators, WorkerStep(i)
      PROVE  worker'[n] = worker[n] /\ Request(n)' = Request(n) /\ queue'[n] # <<>>
  BY <1>5, NodesAssumption, WorkerLeavesOthers DEF Typed, Request
<1>6. ASSUME NEW i, CrashEffect(i)
      PROVE  worker'[n] = worker[n] /\ Request(n)' = Request(n) /\ queue'[n] # <<>>
  <2>1. i # n
    BY <1>6 DEF CrashEffect
  <2> QED BY <1>0, <1>6, <2>1 DEF CrashEffect, Request
<1>7. ASSUME NEW m \in tasks, TaskStep(m)
      PROVE  worker'[n] = worker[n] /\ Request(n)' = Request(n) /\ queue'[n] # <<>>
  BY <1>1, <1>6, <1>7, TaskEffect DEF Typed
<1>8. CASE \/ \E i \in Coordinators, k \in Keys : PutStore(i, k)
           \/ \E m \in retries, r \in {0, 1} : Retry(m, r)
           \/ \E h \in handoffs : HandoffDelete(h) \/ \E r \in {0, 1} : HandoffSend(h, r)
           \/ \E i \in Nodes : Restart(i) \/ Snapshot(i)
           \/ UNCHANGED vars
  <2>1. UNCHANGED <<queue, worker>>
    BY <1>8 DEF PutStore, Retry, HandoffDelete, HandoffSend, HandlerUnchanged, Restart, Snapshot, vars
  <2> QED BY <1>1, <2>1
<1> QED BY <1>3, <1>4, <1>5, <1>6, <1>7, <1>8 DEF Next, Crash

(* A successful write is owed to the targets, or a target has it.          *)
Serving(n, request) ==
    /\ queue[n] # <<>> /\ Request(n) = request
    /\ \/ worker[n].pc = "answered"
       \/ worker[n].pc = "commit" /\ worker[n].due \ worker[n].visited # {}

(* What SuccessOwedOrCopied says of one result, the worker's part of it    *)
(* spelled out.                                                            *)
Owed(res) ==
    \/ crashed \cap ({res.at} \cup TargetSet) # {}
    \/ \E target \in TargetSet : <<target, res.request.object.value>> \in applied
    \/ \E m \in tasks \cup retries :
           m.code = 2 /\ m.from = res.at /\ m.object.value = res.request.object.value
    \/ Serving(res.at, res.request)

(* Every successful write is owed or copied.                               *)
OwedInv ==
    \A res \in results : /\ res.at \in Nodes
                         /\ res.request.isWrite /\ res.success => Owed(res)

(* The worker goes from the answer to the loop, and every turn of the loop *)
(* sends a commit or leaves it to HandleFailedSend.                        *)
LEMMA WorkerServes ==
    ASSUME IInv, NEW n \in Nodes, WorkerStep(n), NEW request, Serving(n, request)
    PROVE  \/ Serving(n, request)'
           \/ \E m \in tasks' \cup retries' :
                  m.code = 2 /\ m.from = n /\ m.object.value = request.object.value
<1> USE DEF IInv
<1>1. worker \in [Nodes -> Workers] /\ CommitSound(n)
  BY DEF Typed, TypeOK, QueuesOK, CommitInv
<1>2. CASE BeginCommits(n)
  <2>1. /\ worker'[n].pc = "commit" /\ worker'[n].due = DOMAIN writeCheck[n]
        /\ worker'[n].visited = worker[n].visited /\ queue' = queue /\ worker[n].pc = "answered"
    BY <1>1, <1>2 DEF BeginCommits, Workers
  <2> QED BY <1>1, <2>1 DEF CommitSound, WritePhases, Serving, Request
<1>3. CASE SendCommit(n)
  <2>1. PICK target \in DOMAIN writeCheck[n], res \in {0, 1} :
            LET m == Message(2, n, target, Request(n).object, 0) IN
            Send(m, res) /\ retries' = IF res = 1 THEN retries \cup {m} ELSE retries
    BY <1>3 DEF SendCommit
  <2> DEFINE m == Message(2, n, target, Request(n).object, 0)
  <2>2. m \in tasks' \cup retries'
    BY <2>1, SendEffect
  <2>3. m.code = 2 /\ m.from = n /\ m.object.value = request.object.value
    BY DEF Message, Serving
  <2> QED BY <2>2, <2>3
<1> QED
  BY <1>2, <1>3 DEF Serving, WorkerStep, BeginWrite, SendPrep, PrepsSent, SendHandoff, AnswerWrite,
     CommitsSent, BeginRead, SendQuery, ReadOwnValue, AnswerRead, HandleNextInQueue

LEMMA NextOwedInv == IInv /\ OwedInv /\ [Next]_vars => OwedInv'
<1> SUFFICES ASSUME IInv, OwedInv, [Next]_vars, NEW res \in results'
             PROVE  res.at \in Nodes /\ (res.request.isWrite /\ res.success => Owed(res)')
  BY DEF OwedInv
<1> USE DEF IInv
<1>1. CASE res \notin results
  <2>1. PICK n \in Nodes : \/ AnswerRead(n) /\ res.at = n /\ res.request = Request(n)
                           \/ /\ AnswerWrite(n) /\ res.at = n /\ res.request = Request(n)
                              /\ res.request.isWrite /\ (res.success <=> CheckWriteQuorum(n))
    BY <1>1, NewResults, NodesAssumption
  <2>2. CASE AnswerRead(n)
    <3>1. ~Request(n).isWrite
      BY <2>2 DEF AnswerRead, Typed, WorkerInv, WorkerSound, ReadPhases
    <3>2. worker[n].pc = "waitRead" /\ ~AnswerWrite(n)
      BY <2>2 DEF AnswerRead, AnswerWrite
    <3> QED BY <2>1, <3>1, <3>2
  <2>3. CASE AnswerWrite(n) /\ res.success
    <3>1. CheckWriteQuorum(n) /\ res.at = n /\ res.request = Request(n)
      BY <2>1, <2>3 DEF AnswerRead, AnswerWrite
    <3>2. worker'[n].pc = "answered" /\ queue' = queue /\ queue[n] # <<>>
      BY <2>3, <3>1, AnswerWriteEffect
    <3>3. Serving(n, Request(n))'
      BY <3>2 DEF Serving, Request
    <3>4. Request(n)' = Request(n)
      BY <3>2 DEF Request
    <3> QED BY <3>1, <3>3, <3>4 DEF Owed
  <2>4. res.at \in Nodes
    BY <2>1
  <2> QED BY <2>1, <2>2, <2>3, <2>4
<1>2. CASE res \in results /\ res.request.isWrite /\ res.success
  <2>1. Owed(res) /\ res.at \in Nodes
    BY <1>2 DEF OwedInv
  <2>2. CASE \/ crashed \cap ({res.at} \cup TargetSet) # {}
             \/ \E target \in TargetSet : <<target, res.request.object.value>> \in applied
    BY <2>1, <2>2, HistoryGrows DEF Owed
  <2>3. ASSUME NEW m \in tasks \cup retries,
               m.code = 2, m.from = res.at, m.object.value = res.request.object.value
        PROVE  Owed(res)'
    <3>1. m \in tasks => m.to \in TargetSet
      BY <2>3 DEF MessageInv, MessageSound
    <3>2. CASE m \in tasks' \cup retries'
      BY <2>3, <3>2 DEF Owed
    <3>3. CASE m \in tasks \ tasks'
      <4>1. m.to \in crashed' \/ <<m.to, m.object.value>> \in applied'
        BY <2>3, <3>3, MessagesGone
      <4> QED BY <2>3, <3>1, <3>3, <4>1 DEF Owed
    <3>4. CASE m \in retries \ retries' /\ m.from \in crashed'
      BY <2>3, <3>4 DEF Owed
    <3> QED BY <3>2, <3>3, <3>4, MessagesGone
  <2>4. CASE Serving(res.at, res.request)
    <3>1. CASE res.at \in crashed'
      BY <2>1, <3>1 DEF Owed
    <3>2. CASE WorkerStep(res.at)
      <4>1. \/ Serving(res.at, res.request)'
            \/ \E m \in tasks' \cup retries' :
                   m.code = 2 /\ m.from = res.at /\ m.object.value = res.request.object.value
        BY <2>1, <2>4, <3>2, WorkerServes
      <4> QED BY <2>1, <4>1 DEF Owed
    <3>3. CASE res.at \notin crashed' /\ ~WorkerStep(res.at)
      <4>1. /\ worker'[res.at] = worker[res.at] /\ Request(res.at)' = Request(res.at)
            /\ queue'[res.at] # <<>>
        BY <2>1, <2>4, <3>3, HeadStays DEF Serving
      <4>2. Serving(res.at, res.request)'
        BY <2>4, <4>1 DEF Serving
      <4> QED BY <2>1, <4>2 DEF Owed
    <3> QED BY <3>1, <3>2, <3>3
  <2> QED BY <2>1, <2>2, <2>3, <2>4 DEF Owed
<1> QED BY <1>1, <1>2 DEF OwedInv

(* A write that was answered with success is copied to a target or still   *)
(* owed to one, unless its coordinator or a target has ended.              *)
THEOREM SuccessIsOwed == Spec => []SuccessOwedOrCopied
<1>1. Init => OwedInv
  BY DEF Init, OwedInv
<1>2. OwedInv => SuccessOwedOrCopied
  BY DEF OwedInv, Owed, Serving, SuccessOwedOrCopied
<1> QED BY <1>1, <1>2, NextOwedInv, Invariance, PTL DEF Spec

-----------------------------------------------------------------------------
(* The replies carry no request id.                                        *)

(* An ack, or an answer under this key, was pending when an earlier        *)
(* request of the node was answered.                                       *)
LateAck(n, node, value) ==
    \E q \in TooLate(n) : q.code = 0 /\ q.to = node /\ q.object.value = value

LateAnswer(n, key) == \E q \in TooLate(n) : q.code = 7 /\ q.object.key = key

(* What is pending, or counted already, is for the request at the head, or *)
(* was too late for an earlier one.                                        *)
PromptWrites(n) ==
    n \notin crashed =>
        /\ \A m \in tasks : m.from = n /\ m.code = 0 =>
               \/ m \in TooLate(n)
               \/ worker[n].pc \in {"prep", "handoff", "wait"} /\ m.object = Request(n).object
        /\ worker[n].pc \in WritePhases =>
               \A m \in DOMAIN writeCheck[n] :
                   \/ writeCheck[n][m] = Request(n).object.value
                   \/ LateAck(n, m, writeCheck[n][m])

(* Likewise for reads.                                                     *)
PromptReads(n) ==
    n \notin crashed =>
        /\ \A m \in tasks : m.from = n /\ m.code = 7 =>
               \/ m \in TooLate(n)
               \/ worker[n].pc \in ReadPhases /\ m.object = Request(n).object
        /\ worker[n].pc \in ReadPhases =>
               \A m \in DOMAIN readCheck[n] :
                   \/ readCheck[n][m].key \in {Request(n).object.key, ZeroKey}
                   \/ LateAnswer(n, readCheck[n][m].key)

(* For every node; this is what the two properties about replies need.     *)
PromptInv == \A n \in Nodes : PromptWrites(n) /\ PromptReads(n)

LEMMA IdleStays ==
    ASSUME Typed, [Next]_vars, NEW n \in Nodes, queue[n] = <<>>
    PROVE  worker'[n].pc \in {"idle", "begin"}
<1>0. worker \in [Nodes -> Workers] /\ worker[n].pc = "idle"
  BY DEF Typed, TypeOK, QueuesOK, WorkerInv, WorkerSound
<1>1. CASE UNCHANGED worker
  BY <1>0, <1>1
<1>2. ASSUME NEW i, NEW request, AddRequest(i, request)
      PROVE  worker'[n].pc \in {"idle", "begin"}
  BY <1>0, <1>2 DEF AddRequest, Workers
<1>3. ASSUME NEW i \in Coordinators, WorkerStep(i)
      PROVE  worker'[n].pc \in {"idle", "begin"}
  <2>1. i # n
    BY <1>0, <1>3 DEF WorkerStep, BeginWrite, SendPrep, PrepsSent, SendHandoff, AnswerWrite, BeginCommits,
       SendCommit, CommitsSent, BeginRead, SendQuery, ReadOwnValue, AnswerRead, HandleNextInQueue
  <2>2. worker'[n] = worker[n]
    BY <1>3, <2>1, NodesAssumption, WorkerLeavesOthers DEF Typed
  <2> QED BY <1>0, <2>2
<1>4. ASSUME NEW i, CrashEffect(i) PROVE worker'[n].pc \in {"idle", "begin"}
  BY <1>0, <1>4 DEF CrashEffect, IdleWorker
<1>5. CASE \E i \in Coordinators : \/ \E k \in Keys : PutStore(i, k) \/ Get(i, k)
                                   \/ \E object \in handlers[i] : PutSubmit(i, object)
  BY <1>1, <1>2, <1>5 DEF PutStore, Get, PutSubmit
<1>6. ASSUME NEW m \in tasks, TaskStep(m) PROVE worker'[n].pc \in {"idle", "begin"}
  BY <1>1, <1>4, <1>6, TaskEffect DEF Typed
<1>7. CASE \/ \E m \in retries, r \in {0, 1} : Retry(m, r)
           \/ \E h \in handoffs : HandoffDelete(h) \/ \E r \in {0, 1} : HandoffSend(h, r)
           \/ \E i \in Nodes : Restart(i) \/ Snapshot(i)
           \/ UNCHANGED vars
  <2>1. UNCHANGED worker
    BY <1>7 DEF Retry, HandoffDelete, HandoffSend, HandlerUnchanged, Restart, Snapshot, vars
  <2> QED BY <1>1, <2>1
<1> QED BY <1>3, <1>4, <1>5, <1>6, <1>7 DEF Next, Crash

(* New preps and queries are the worker's.                                 *)
LEMMA NewQuestions ==
    ASSUME IInv, [Next]_vars, NEW x \in tasks', x \notin tasks, x.code \in {0, 7}
    PROVE  /\ WorkerStep(x.from) /\ x.object = Request(x.from).object
           /\ x.code = 0 => worker[x.from].pc = "prep"
           /\ x.code = 7 => worker[x.from].pc = "query"
<1>1. PICK n \in Nodes : WorkerStep(n) /\ WorkerSends(n, x)
  BY NewMessages DEF IInv, MessageInv
<1> QED BY <1>1 DEF WorkerSends

(* What was late once remains late.                                        *)
LEMMA LateGrows ==
    ASSUME Typed, [Next]_vars, NEW n
    PROVE  /\ TooLate(n) \subseteq TooLate(n)'
           /\ \A m, value : LateAck(n, m, value) => LateAck(n, m, value)'
           /\ \A key : LateAnswer(n, key) => LateAnswer(n, key)'
<1>1. results \subseteq results'
  BY HistoryGrows
<1>2. TooLate(n) \subseteq TooLate(n)'
  BY <1>1 DEF TooLate
<1> QED BY <1>2 DEF LateAck, LateAnswer

(* What others than the worker write into its maps.                        *)
LEMMA AnswersArrive ==
    ASSUME Typed, [Next]_vars, NEW n \in Nodes \ crashed', ~WorkerStep(n)
    PROVE  /\ \/ writeCheck'[n] = writeCheck[n]
              \/ \E m \in tasks : /\ m.from = n /\ m.code = 0
                                  /\ writeCheck'[n] = WithAnswer(writeCheck[n], m.to, m.object.value)
           /\ \/ readCheck'[n] = readCheck[n]
              \/ \E m \in tasks : \E key, value :
                     /\ m.from = n /\ m.code = 7 /\ ~muLeaked[m.to]
                     /\ key \in {m.object.key, ZeroKey}
                     /\ readCheck'[n] = WithAnswer(readCheck[n], m.to, [key |-> key, value |-> value])
<1>0. DOMAIN writeCheck = Nodes /\ DOMAIN readCheck = Nodes
  BY DEF Typed, TypeOK, ChecksOK
<1>1. ASSUME NEW m \in tasks, Acknowledge(m)
      PROVE  /\ readCheck' = readCheck
             /\ \/ writeCheck'[n] = writeCheck[n]
                \/ /\ m.from = n /\ m.code = 0
                   /\ writeCheck'[n] = WithAnswer(writeCheck[n], m.to, m.object.value)
  BY <1>0, <1>1 DEF Acknowledge
<1>2. ASSUME NEW i, CrashEffect(i)
      PROVE  writeCheck'[n] = writeCheck[n]
  <2>1. i # n
    BY <1>2 DEF CrashEffect
  <2> QED BY <1>0, <1>2, <2>1 DEF CrashEffect
<1>3. ASSUME NEW m \in tasks, RespondRead(m)
      PROVE  /\ writeCheck'[n] = writeCheck[n]
             /\ \/ readCheck'[n] = readCheck[n]
                \/ \E key, value :
                     /\ m.from = n /\ m.code = 7 /\ ~muLeaked[m.to]
                     /\ key \in {m.object.key, ZeroKey}
                     /\ readCheck'[n] = WithAnswer(readCheck[n], m.to, [key |-> key, value |-> value])
  <2>1. CASE UNCHANGED readCheck
    BY <1>2, <1>3, <2>1 DEF RespondRead
  <2>2. CASE readCheck' # readCheck
    <3> DEFINE value == db[m.to][m.object.key]
               key == IF value = NoValue THEN ZeroKey ELSE m.object.key
    <3>1. /\ readCheck' = [readCheck EXCEPT ![m.from] = WithAnswer(@, m.to, [key |-> key, value |-> value])]
          /\ writeCheck' = writeCheck /\ m.code = 7 /\ ~muLeaked[m.to]
      BY <1>3, <2>2 DEF RespondRead, AddRead
    <3>2. key \in {m.object.key, ZeroKey}
      OBVIOUS
    <3> HIDE DEF value, key
    <3> QED BY <1>0, <3>1, <3>2
  <2> QED BY <2>1, <2>2
<1>4. CASE \E m \in tasks : Commit(m) \/ HandoffCommit(m)
  BY <1>4 DEF Commit, HandoffCommit
<1>5. ASSUME NEW i \in Coordinators, WorkerStep(i)
      PROVE  writeCheck'[n] = writeCheck[n] /\ readCheck'[n] = readCheck[n]
  BY <1>5, NodesAssumption, WorkerLeavesOthers DEF Typed
<1>6. CASE \/ \E i \in Coordinators : \/ \E k \in Keys : PutStore(i, k) \/ Get(i, k)
                                      \/ \E object \in handlers[i] : PutSubmit(i, object)
           \/ \E m \in retries, r \in {0, 1} : Retry(m, r)
           \/ \E h \in handoffs : HandoffDelete(h) \/ \E r \in {0, 1} : HandoffSend(h, r)
           \/ \E i \in Nodes : Restart(i) \/ Snapshot(i)
           \/ UNCHANGED vars
  BY <1>6 DEF PutStore, Get, PutSubmit, Retry, HandoffDelete, HandoffSend, Restart, Snapshot, vars
<1>7. ASSUME NEW i \in Nodes, Crash(i)
      PROVE  writeCheck'[n] = writeCheck[n] /\ readCheck'[n] = readCheck[n]
  <2>1. i # n
    BY <1>7 DEF Crash, CrashEffect
  <2> QED BY <1>0, <1>2, <1>7, <2>1 DEF Crash
<1>8. ASSUME NEW m \in tasks, TaskStep(m)
      PROVE  /\ \/ writeCheck'[n] = writeCheck[n]
                \/ /\ m.from = n /\ m.code = 0
                   /\ writeCheck'[n] = WithAnswer(writeCheck[n], m.to, m.object.value)
             /\ \/ readCheck'[n] = readCheck[n]
                \/ \E key, value :
                     /\ m.from = n /\ m.code = 7 /\ ~muLeaked[m.to]
                     /\ key \in {m.object.key, ZeroKey}
                     /\ readCheck'[n] = WithAnswer(readCheck[n], m.to, [key |-> key, value |-> value])
  <2>1. CASE Acknowledge(m)
    BY <1>1, <2>1
  <2>2. CASE RespondRead(m)
    BY <1>3, <2>2
  <2> QED BY <1>4, <1>8, <2>1, <2>2 DEF TaskStep, Commit, HandoffCommit
<1> QED BY <1>5, <1>6, <1>7, <1>8 DEF Next

(* A step of somebody else.                                                *)
LEMMA OthersKeepPrompt ==
    ASSUME IInv, [Next]_vars, NEW n \in Nodes \ crashed', ~WorkerStep(n),
           PromptWrites(n), PromptReads(n)
    PROVE  PromptWrites(n)' /\ PromptReads(n)'
<1> USE DEF IInv
<1>1. n \notin crashed /\ WorkerSound(n)
  BY HistoryGrows DEF Typed, WorkerInv
<1>2. \/ /\ worker'[n] = worker[n] /\ Request(n)' = Request(n)
      \/ worker'[n].pc \in {"idle", "begin"} /\ worker[n].pc = "idle"
  BY <1>1, HeadStays, IdleStays DEF WorkerSound
<1>3. \A x \in tasks' : x.from = n /\ x.code \in {0, 7} => x \in tasks
  BY NewQuestions
<1>4. ASSUME worker'[n].pc \in WritePhases, NEW m \in DOMAIN writeCheck'[n]
      PROVE  writeCheck'[n][m] = Request(n)'.object.value \/ LateAck(n, m, writeCheck[n][m])'
  <2>1. worker'[n] = worker[n] /\ Request(n)' = Request(n) /\ worker[n].pc \in WritePhases
    BY <1>2, <1>4 DEF WritePhases
  <2>2. \A i \in DOMAIN writeCheck[n] : \/ writeCheck[n][i] = Request(n).object.value
                                        \/ LateAck(n, i, writeCheck[n][i])
    BY <1>1, <2>1 DEF PromptWrites
  <2>3. PICK value : value = writeCheck'[n][m]
    OBVIOUS
  <2>4. value = Request(n).object.value \/ LateAck(n, m, value)
    <3>1. CASE writeCheck'[n] = writeCheck[n]
      BY <1>4, <2>2, <2>3, <3>1
    <3>2. ASSUME NEW x \in tasks, x.from = n, x.code = 0,
                 writeCheck'[n] = WithAnswer(writeCheck[n], x.to, x.object.value)
          PROVE  value = Request(n).object.value \/ LateAck(n, m, value)
      <4>1. x.object = Request(n).object \/ LateAck(n, x.to, x.object.value)
        BY <1>1, <3>2 DEF PromptWrites, LateAck
      <4>2. CASE m = x.to
        <5>1. value = x.object.value
          BY <2>3, <3>2, <4>2 DEF WithAnswer
        <5> QED BY <4>1, <4>2, <5>1
      <4>3. CASE m # x.to
        <5>1. m \in DOMAIN writeCheck[n] /\ value = writeCheck[n][m]
          BY <1>4, <2>3, <3>2, <4>3 DEF WithAnswer
        <5> QED BY <2>2, <5>1
      <4> QED BY <4>2, <4>3
    <3> QED BY <3>1, <3>2, AnswersArrive
  <2>5. LateAck(n, m, value) => LateAck(n, m, writeCheck[n][m])'
    BY <2>3, LateGrows DEF LateAck
  <2> QED BY <2>1, <2>3, <2>4, <2>5
<1>5. ASSUME worker'[n].pc \in ReadPhases, NEW m \in DOMAIN readCheck'[n]
      PROVE  \/ readCheck'[n][m].key \in {Request(n)'.object.key, ZeroKey}
             \/ LateAnswer(n, readCheck[n][m].key)'
  <2>1. worker'[n] = worker[n] /\ Request(n)' = Request(n) /\ worker[n].pc \in ReadPhases
    BY <1>2, <1>5 DEF ReadPhases
  <2>2. \A i \in DOMAIN readCheck[n] : \/ readCheck[n][i].key \in {Request(n).object.key, ZeroKey}
                                       \/ LateAnswer(n, readCheck[n][i].key)
    BY <1>1, <2>1 DEF PromptReads
  <2>0. \/ readCheck'[n] = readCheck[n]
        \/ \E x \in tasks : \E key, value :
               /\ x.from = n /\ x.code = 7 /\ ~muLeaked[x.to]
               /\ key \in {x.object.key, ZeroKey}
               /\ readCheck'[n] = WithAnswer(readCheck[n], x.to, [key |-> key, value |-> value])
    BY AnswersArrive
  <2>3. PICK key : key = readCheck'[n][m].key
    OBVIOUS
  <2>4. key \in {Request(n).object.key, ZeroKey} \/ LateAnswer(n, key)
    <3>1. CASE readCheck'[n] = readCheck[n]
      BY <1>5, <2>2, <2>3, <3>1
    <3>2. ASSUME NEW x \in tasks, NEW k, NEW v, x.from = n, x.code = 7, k \in {x.object.key, ZeroKey},
                 readCheck'[n] = WithAnswer(readCheck[n], x.to, [key |-> k, value |-> v])
          PROVE  key \in {Request(n).object.key, ZeroKey} \/ LateAnswer(n, key)
      <4>1. x.object = Request(n).object \/ LateAnswer(n, x.object.key)
        BY <1>1, <3>2 DEF PromptReads, LateAnswer
      <4>2. CASE m = x.to
        <5>1. key = k
          BY <2>3, <3>2, <4>2 DEF WithAnswer
        <5> QED BY <3>2, <4>1, <5>1
      <4>3. CASE m # x.to
        <5>1. m \in DOMAIN readCheck[n] /\ key = readCheck[n][m].key
          BY <1>5, <2>3, <3>2, <4>3 DEF WithAnswer
        <5> QED BY <2>2, <5>1
      <4> QED BY <4>2, <4>3
    <3>3. CASE readCheck'[n] # readCheck[n]
      <4>1. PICK x, k, v :
                 /\ x \in tasks /\ x.from = n /\ x.code = 7 /\ k \in {x.object.key, ZeroKey}
                 /\ readCheck'[n] = WithAnswer(readCheck[n], x.to, [key |-> k, value |-> v])
        BY <2>0, <3>3
      <4> QED BY <3>2, <4>1
    <3> QED BY <3>1, <3>3
  <2>5. LateAnswer(n, key) => LateAnswer(n, readCheck[n][m].key)'
    BY <2>3, LateGrows DEF LateAnswer
  <2> QED BY <2>1, <2>3, <2>4, <2>5
<1>6. PromptWrites(n)'
  <2>1. ASSUME NEW x \in tasks', x.from = n, x.code = 0
        PROVE  \/ x \in TooLate(n)'
               \/ worker'[n].pc \in {"prep", "handoff", "wait"} /\ x.object = Request(n)'.object
    <3>1. x \in TooLate(n) \/ (worker[n].pc \in {"prep", "handoff", "wait"} /\ x.object = Request(n).object)
      BY <1>1, <1>3, <2>1 DEF PromptWrites
    <3> QED BY <1>2, <3>1, LateGrows
  <2> QED BY <1>4, <2>1 DEF PromptWrites
<1>7. PromptReads(n)'
  <2>1. ASSUME NEW x \in tasks', x.from = n, x.code = 7
        PROVE  x \in TooLate(n)' \/ (worker'[n].pc \in ReadPhases /\ x.object = Request(n)'.object)
    <3>1. x \in TooLate(n) \/ (worker[n].pc \in ReadPhases /\ x.object = Request(n).object)
      BY <1>1, <1>3, <2>1 DEF PromptReads
    <3> QED BY <1>2, <3>1, LateGrows DEF ReadPhases
  <2> QED BY <1>5, <2>1 DEF PromptReads
<1> QED BY <1>6, <1>7

LEMMA WorkerKeepsPromptWrites ==
    ASSUME IInv, [Next]_vars, NEW n \in Nodes \ crashed', WorkerStep(n), PromptWrites(n)
    PROVE  PromptWrites(n)'
<1> USE DEF IInv
<1>1. /\ worker \in [Nodes -> Workers] /\ DOMAIN writeCheck = Nodes /\ n \notin crashed
  BY HistoryGrows DEF Typed, TypeOK, QueuesOK, ChecksOK
<1>2. \A x \in tasks' : x.from = n /\ x.code = 0 =>
          \/ x \in TooLate(n)'
          \/ /\ x \in tasks \/ worker[n].pc = "prep"
             /\ x.object = Request(n).object /\ worker[n].pc \in {"prep", "handoff", "wait"}
  BY <1>1, NewQuestions, LateGrows DEF PromptWrites
<1>3. ASSUME UNCHANGED <<queue, writeCheck>>, worker[n].pc \in WritePhases,
             NEW m \in DOMAIN writeCheck'[n]
      PROVE  writeCheck'[n][m] = Request(n)'.object.value \/ LateAck(n, m, writeCheck[n][m])'
  <2>1. writeCheck[n][m] = Request(n).object.value \/ LateAck(n, m, writeCheck[n][m])
    BY <1>1, <1>3 DEF PromptWrites
  <2>2. LateAck(n, m, writeCheck[n][m]) => LateAck(n, m, writeCheck[n][m])'
    BY <1>3, LateGrows DEF LateAck
  <2> QED BY <1>3, <2>1, <2>2 DEF Request
<1>4. CASE SendPrep(n) \/ PrepsSent(n) \/ SendHandoff(n)
  <2>1. UNCHANGED <<queue, writeCheck>> /\ worker[n].pc \in WritePhases
    BY <1>4 DEF SendPrep, PrepsSent, SendHandoff, WritePhases
  <2>2. worker'[n].pc \in {"prep", "handoff", "wait"}
    <3>1. CASE SendPrep(n)
      BY <1>1, <3>1 DEF SendPrep, Workers
    <3>2. CASE PrepsSent(n)
      BY <1>1, <3>2 DEF PrepsSent, Workers
    <3>3. CASE SendHandoff(n)
      <4>1. PICK pc \in {"wait", "handoff"} : \E todo, count :
                worker' = [worker EXCEPT ![n].pc = pc, ![n].todo = todo, ![n].count = count]
        BY <3>3 DEF SendHandoff
      <4> QED BY <1>1, <4>1 DEF Workers
    <3> QED BY <1>4, <3>1, <3>2, <3>3
  <2>3. Request(n)' = Request(n)
    BY <2>1 DEF Request
  <2> QED BY <1>2, <1>3, <2>1, <2>2, <2>3 DEF PromptWrites
<1>5. ASSUME \A x \in tasks' : x.from = n /\ x.code = 0 => x \in TooLate(n)',
             worker'[n].pc \in WritePhases =>
                 \/ writeCheck'[n] = <<>>
                 \/ worker[n].pc \in WritePhases /\ UNCHANGED <<queue, writeCheck>>
      PROVE  PromptWrites(n)'
  <2>1. worker'[n].pc \in WritePhases =>
            \A m \in DOMAIN writeCheck'[n] :
                writeCheck'[n][m] = Request(n)'.object.value \/ LateAck(n, m, writeCheck[n][m])'
    BY <1>3, <1>5, EmptyMap
  <2> QED BY <1>5, <2>1 DEF PromptWrites
<1>6. CASE BeginWrite(n)
  <2>1. worker[n].pc = "begin" /\ writeCheck'[n] = <<>>
    BY <1>1, <1>6 DEF BeginWrite
  <2> QED BY <1>2, <1>5, <2>1
<1>7. CASE AnswerWrite(n)
  <2>1. UNCHANGED <<queue, writeCheck, tasks>> /\ worker[n].pc \in WritePhases
    BY <1>7 DEF AnswerWrite, WritePhases
  <2>2. Unanswered(n, 0) \subseteq TooLate(n)'
    <3> DEFINE res == [at |-> n, request |-> Request(n), success |-> CheckWriteQuorum(n),
                       handoffNodes |-> worker[n].count, late |-> Unanswered(n, 0)]
    <3>1. res \in results'
      BY <1>7 DEF AnswerWrite
    <3>2. res.at = n /\ res.late = Unanswered(n, 0)
      OBVIOUS
    <3> HIDE DEF res
    <3> QED BY <3>1, <3>2 DEF TooLate
  <2> QED BY <1>5, <2>1, <2>2 DEF Unanswered
<1>8. CASE BeginCommits(n) \/ SendCommit(n) \/ CommitsSent(n)
  <2>1. worker[n].pc \in {"answered", "commit"} /\ UNCHANGED <<queue, writeCheck>>
    BY <1>8 DEF BeginCommits, SendCommit, CommitsSent
  <2> QED BY <1>2, <1>5, <2>1 DEF WritePhases
<1>9. CASE BeginRead(n) \/ SendQuery(n) \/ ReadOwnValue(n) \/ AnswerRead(n) \/ HandleNextInQueue(n)
  <2>1. /\ worker[n].pc \in {"begin", "query", "waitRead", "next"}
        /\ worker'[n].pc \in {"query", "waitRead", "next", "idle", "begin"}
    <3>1. CASE BeginRead(n)
      BY <1>1, <3>1 DEF BeginRead, IdleWorker
    <3>2. CASE SendQuery(n)
      BY <1>1, <3>2 DEF SendQuery, Workers
    <3>3. CASE ReadOwnValue(n)
      BY <1>1, <3>3 DEF ReadOwnValue, Workers
    <3>4. CASE AnswerRead(n)
      BY <1>1, <3>4 DEF AnswerRead, Workers
    <3>5. CASE HandleNextInQueue(n)
      BY <1>1, <3>5 DEF HandleNextInQueue, IdleWorker
    <3> QED BY <1>9, <3>1, <3>2, <3>3, <3>4, <3>5
  <2> QED BY <1>2, <1>5, <2>1 DEF WritePhases
<1> QED BY <1>4, <1>6, <1>7, <1>8, <1>9 DEF WorkerStep

LEMMA WorkerKeepsPromptReads ==
    ASSUME IInv, [Next]_vars, NEW n \in Nodes \ crashed', WorkerStep(n), PromptReads(n)
    PROVE  PromptReads(n)'
<1> USE DEF IInv
<1>1. /\ worker \in [Nodes -> Workers] /\ DOMAIN readCheck = Nodes /\ n \notin crashed
  BY HistoryGrows DEF Typed, TypeOK, QueuesOK, ChecksOK
<1>2. \A x \in tasks' : x.from = n /\ x.code = 7 =>
          \/ x \in TooLate(n)'
          \/ x.object = Request(n).object /\ worker[n].pc \in ReadPhases
  BY <1>1, NewQuestions, LateGrows DEF PromptReads, ReadPhases
<1>3. CASE SendQuery(n) \/ ReadOwnValue(n)
  <2>1. queue' = queue /\ worker[n].pc \in ReadPhases
    BY <1>3 DEF SendQuery, ReadOwnValue, ReadPhases
  <2>2. worker'[n].pc \in ReadPhases
    <3>1. CASE SendQuery(n)
      BY <1>1, <3>1 DEF SendQuery, Workers, ReadPhases
    <3>2. CASE ReadOwnValue(n)
      BY <1>1, <3>2 DEF ReadOwnValue, Workers, ReadPhases
    <3> QED BY <1>3, <3>1, <3>2
  <2>3. \A m \in DOMAIN readCheck[n] : \/ readCheck[n][m].key \in {Request(n).object.key, ZeroKey}
                                       \/ LateAnswer(n, readCheck[n][m].key)
    BY <1>1, <2>1 DEF PromptReads
  <2>4. ASSUME NEW m \in DOMAIN readCheck'[n]
        PROVE  \/ readCheck'[n][m].key \in {Request(n).object.key, ZeroKey}
               \/ LateAnswer(n, readCheck[n][m].key)'
    <3>1. PICK key : key = readCheck'[n][m].key
      OBVIOUS
    <3>2. key \in {Request(n).object.key, ZeroKey} \/ LateAnswer(n, key)
      <4>1. CASE readCheck' = readCheck
        BY <2>3, <2>4, <3>1, <4>1
      <4>2. CASE \E value : readCheck'[n] = WithAnswer(readCheck[n], n, [key |-> Request(n).object.key,
                                                                         value |-> value])
        BY <2>3, <2>4, <3>1, <4>2 DEF WithAnswer
      <4> QED BY <1>1, <1>3, <4>1, <4>2 DEF SendQuery, ReadOwnValue, AddRead
    <3>3. LateAnswer(n, key) => LateAnswer(n, readCheck[n][m].key)'
      BY <3>1, LateGrows DEF LateAnswer
    <3> QED BY <3>1, <3>2, <3>3
  <2>5. Request(n)' = Request(n)
    BY <2>1 DEF Request
  <2> QED BY <1>2, <2>2, <2>4, <2>5 DEF PromptReads
<1>4. ASSUME \A x \in tasks' : x.from = n /\ x.code = 7 => x \in TooLate(n)',
             worker'[n].pc \in ReadPhases => readCheck'[n] = <<>>
      PROVE  PromptReads(n)'
  BY <1>4, EmptyMap DEF PromptReads
<1>5. CASE BeginRead(n)
  <2>1. worker[n].pc = "begin" /\ readCheck'[n] = <<>>
    BY <1>1, <1>5 DEF BeginRead
  <2> QED BY <1>2, <1>4, <2>1 DEF ReadPhases
<1>6. CASE AnswerRead(n)
  <2>1. tasks' = tasks /\ worker'[n].pc = "next"
    BY <1>1, <1>6 DEF AnswerRead, Workers
  <2>2. Unanswered(n, 7) \subseteq TooLate(n)'
    <3> DEFINE res == [at |-> n, request |-> Request(n),
                       success |-> Cardinality(DOMAIN readCheck[n]) >= R,
                       responses |-> {readCheck[n][m] : m \in DOMAIN readCheck[n]},
                       late |-> Unanswered(n, 7)]
    <3>1. res \in results'
      BY <1>6 DEF AnswerRead
    <3>2. res.at = n /\ res.late = Unanswered(n, 7)
      OBVIOUS
    <3> HIDE DEF res
    <3> QED BY <3>1, <3>2 DEF TooLate
  <2> QED BY <1>4, <2>1, <2>2 DEF ReadPhases, Unanswered
<1>7. CASE \/ BeginWrite(n) \/ SendPrep(n) \/ PrepsSent(n) \/ SendHandoff(n) \/ AnswerWrite(n)
           \/ BeginCommits(n) \/ SendCommit(n) \/ CommitsSent(n) \/ HandleNextInQueue(n)
  <2>1. worker[n].pc \notin ReadPhases
    BY <1>7 DEF BeginWrite, SendPrep, PrepsSent, SendHandoff, AnswerWrite, BeginCommits,
       SendCommit, CommitsSent, HandleNextInQueue, ReadPhases
  <2>2. worker'[n].pc \notin ReadPhases
    <3>1. CASE BeginWrite(n)
      BY <1>1, <3>1 DEF BeginWrite, IdleWorker, ReadPhases
    <3>6. CASE HandleNextInQueue(n)
      BY <1>1, <3>6 DEF HandleNextInQueue, IdleWorker, ReadPhases
    <3>2. CASE SendPrep(n)
      BY <1>1, <3>2 DEF SendPrep, Workers, ReadPhases
    <3>3. CASE PrepsSent(n)
      BY <1>1, <3>3 DEF PrepsSent, Workers, ReadPhases
    <3>4. CASE SendHandoff(n)
      <4>1. PICK pc \in {"wait", "handoff"} : \E todo, count :
                worker' = [worker EXCEPT ![n].pc = pc, ![n].todo = todo, ![n].count = count]
        BY <3>4 DEF SendHandoff
      <4> QED BY <1>1, <4>1 DEF Workers, ReadPhases
    <3>5. CASE AnswerWrite(n) \/ BeginCommits(n)
      BY <1>1, <3>5 DEF AnswerWrite, BeginCommits, Workers, ReadPhases
    <3>7. CASE SendCommit(n)
      <4>1. PICK visited : worker' = [worker EXCEPT ![n].visited = visited]
        BY <3>7 DEF SendCommit
      <4> QED BY <1>1, <3>7, <4>1 DEF SendCommit, Workers, ReadPhases
    <3>8. CASE CommitsSent(n)
      BY <1>1, <3>8 DEF CommitsSent, Workers, ReadPhases
    <3> QED BY <1>7, <3>1, <3>2, <3>3, <3>4, <3>5, <3>6, <3>7, <3>8
  <2> QED BY <1>2, <1>4, <2>1, <2>2
<1> QED BY <1>3, <1>5, <1>6, <1>7 DEF WorkerStep

LEMMA PromptInvariance == Spec => []PromptInv
<1>1. Init => PromptInv
  BY DEF Init, PromptInv, PromptWrites, PromptReads, IdleWorker, WritePhases, ReadPhases
<1>2. IInv /\ PromptInv /\ [Next]_vars => PromptInv'
  <2> SUFFICES ASSUME IInv, PromptInv, [Next]_vars, NEW n \in Nodes
               PROVE  PromptWrites(n)' /\ PromptReads(n)'
    BY DEF PromptInv
  <2>1. CASE n \in crashed'
    BY <2>1 DEF PromptWrites, PromptReads
  <2>2. CASE n \notin crashed' /\ WorkerStep(n)
    BY <2>2, WorkerKeepsPromptWrites, WorkerKeepsPromptReads DEF PromptInv
  <2>3. CASE n \notin crashed' /\ ~WorkerStep(n)
    BY <2>3, OthersKeepPrompt DEF PromptInv
  <2> QED BY <2>1, <2>2, <2>3
<1> QED BY <1>1, <1>2, Invariance, PTL DEF Spec

(* Wherever the process has not ended, an ack that is counted for a write  *)
(* is one of that write, or of an earlier one whose ack came more than a   *)
(* second late.                                                            *)
THEOREM AcksBelong == Spec => []AcksAreForThisWrite
<1>1. PromptInv => AcksAreForThisWrite
  BY DEF PromptInv, PromptWrites, LateAck, AcksAreForThisWrite, WritePhases
<1> QED BY <1>1, PromptInvariance, PTL

(* A read is answered from values of its own key, but for answers to an    *)
(* earlier read that came more than a second late.                         *)
THEOREM ReadsOwnKey == Spec => []ReadAnswersOwnKey
<1>1. Init => ReadAnswersOwnKey
  BY DEF Init, ReadAnswersOwnKey
<1>2. IInv /\ PromptInv /\ ReadAnswersOwnKey /\ [Next]_vars => ReadAnswersOwnKey'
  <2> SUFFICES ASSUME IInv, PromptInv, ReadAnswersOwnKey, [Next]_vars, NEW res \in results',
                      ~res.request.isWrite, res.at \notin crashed', NEW object \in res.responses
               PROVE  \/ object.key \in {res.request.object.key, ZeroKey}
                      \/ LateAnswer(res.at, object.key)'
    BY DEF ReadAnswersOwnKey, LateAnswer
  <2>1. CASE res \in results
    BY <2>1, HistoryGrows, LateGrows DEF IInv, ReadAnswersOwnKey, LateAnswer
  <2>2. CASE res \notin results
    <3>1. PICK n \in Nodes : AnswerRead(n) /\ res.at = n /\ res.request = Request(n)
      BY <2>2, NewResults, NodesAssumption DEF IInv
    <3>2. res.responses = {readCheck[n][m] : m \in DOMAIN readCheck[n]}
      BY <2>2, <3>1 DEF AnswerRead
    <3>3. worker[n].pc \in ReadPhases /\ n \notin crashed
      BY <3>1, HistoryGrows DEF AnswerRead, ReadPhases, IInv
    <3>4. object.key \in {Request(n).object.key, ZeroKey} \/ LateAnswer(n, object.key)
      BY <3>2, <3>3 DEF PromptInv, PromptReads
    <3> QED BY <3>1, <3>4, LateGrows DEF IInv
  <2> QED BY <2>1, <2>2
<1> QED BY <1>1, <1>2, PromptInvariance, Invariance, PTL DEF Spec

-----------------------------------------------------------------------------
(* The refinement of ReplicaSet.                                           *)

(* The abstract variables as the refinement mapping has them.              *)
SucceededValues == {res.request.object.value : res \in {r \in results : r.request.isWrite /\ r.success}}

SeenValues == UNION {{object.value : object \in res.responses} \ {NoValue} :
                        res \in {r \in results : ~r.request.isWrite}}

HeldValues == {<<entry[1], entry[2].value, entry[3]>> : entry \in handedOff}

LEMMA MappedStutter ==
    ASSUME UNCHANGED <<puts, results, applied, handedOff>>
    PROVE  UNCHANGED Replicas!vars
  BY DEF Replicas!vars

(* An answer to a write is a Succeed, or nothing.                          *)
LEMMA AnswerWriteRefines ==
    ASSUME IInv, NEW n \in Nodes, AnswerWrite(n), UNCHANGED <<puts, applied, handedOff>>
    PROVE  [Replicas!Next]_Replicas!vars
<1> USE DEF IInv
<1> DEFINE value == Request(n).object.value
<1>1. PICK count \in Nat :
          results' = results \cup
             {[at |-> n, request |-> [isWrite |-> TRUE, object |-> Request(n).object],
               success |-> CheckWriteQuorum(n), handoffNodes |-> count, late |-> Unanswered(n, 0)]}
  BY AnswerWriteEffect
<1> DEFINE res == [at |-> n, request |-> [isWrite |-> TRUE, object |-> Request(n).object],
                   success |-> CheckWriteQuorum(n), handoffNodes |-> count, late |-> Unanswered(n, 0)]
<1>2. /\ res.request.isWrite /\ res.request.object.value = value
      /\ res.success <=> CheckWriteQuorum(n)
  OBVIOUS
<1>3. results' = results \cup {res}
  BY <1>1
<1> HIDE DEF res
<1>4. SeenValues' = SeenValues
  BY <1>2, <1>3 DEF SeenValues
<1>5. CASE CheckWriteQuorum(n)
  <2>1. SucceededValues' = SucceededValues \cup {value}
    BY <1>2, <1>3, <1>5 DEF SucceededValues
  <2>2. value \in 1..puts
    <3>1. Request(n) \in Requests /\ Request(n).isWrite
      BY HeadOfQueue DEF AnswerWrite, Typed, WorkerInv, WorkerSound, WritePhases
    <3>2. Request(n).object \in Written /\ puts \in Nat
      BY <3>1 DEF Requests, Typed, TypeOK, StoresOK
    <3> QED BY <3>2 DEF Written, Objects, NoValue
  <2>3. PICK v \in 1..puts : v = value
    BY <2>2
  <2>4. Replicas!Succeed(v)
    BY <1>4, <2>1, <2>3 DEF Replicas!Succeed, SucceededValues, SeenValues
  <2> QED BY <2>4 DEF Replicas!Next
<1>6. CASE ~CheckWriteQuorum(n)
  <2>1. SucceededValues' = SucceededValues
    BY <1>2, <1>3, <1>6 DEF SucceededValues
  <2> QED BY <1>4, <2>1 DEF Replicas!vars, SucceededValues, SeenValues
<1> QED BY <1>5, <1>6

(* An answer to a read is an AnswerRead of the abstract specification.     *)
LEMMA AnswerReadRefines ==
    ASSUME IInv, NEW n \in Nodes, AnswerRead(n), UNCHANGED <<puts, applied, handedOff>>
    PROVE  [Replicas!Next]_Replicas!vars
<1> USE DEF IInv
<1> DEFINE res == [at |-> n, request |-> Request(n),
                   success |-> Cardinality(DOMAIN readCheck[n]) >= R,
                   responses |-> {readCheck[n][m] : m \in DOMAIN readCheck[n]},
                   late |-> Unanswered(n, 7)]
           values == {object.value : object \in res.responses} \ {NoValue}
<1>1. results' = results \cup {res}
  BY DEF AnswerRead
<1>2. worker[n].pc \in ReadPhases
  BY DEF AnswerRead, ReadPhases
<1>3. ~res.request.isWrite /\ readCheck[n] # NilMap
  BY <1>2 DEF Typed, WorkerInv, WorkerSound
<1>4. values \in SUBSET (1..puts)
  <2>1. \A object \in res.responses : object.value \in 0..puts
    BY <1>3 DEF Typed, TypeOK, ChecksOK, IsCheck
  <2> QED BY <2>1 DEF NoValue, Typed, TypeOK, StoresOK
<1> HIDE DEF res
<1>5. SucceededValues' = SucceededValues
  BY <1>1, <1>3 DEF SucceededValues
<1>6. SeenValues' = SeenValues \cup values
  BY <1>1, <1>3 DEF SeenValues
<1>7. PICK seen \in SUBSET (1..puts) : seen = values
  BY <1>4
<1>8. Replicas!AnswerRead(seen)
  BY <1>5, <1>6, <1>7 DEF Replicas!AnswerRead, SucceededValues, SeenValues
<1> QED BY <1>8 DEF Replicas!Next

LEMMA WorkerRefines ==
    ASSUME IInv, NEW n \in Nodes, WorkerStep(n)
    PROVE  [Replicas!Next]_Replicas!vars
<1>1. UNCHANGED <<puts, applied, handedOff>>
  BY WorkerFrame DEF clientVars
<1>2. CASE results' = results
  BY <1>1, <1>2, MappedStutter
<1> QED
  BY <1>1, <1>2, AnswerWriteRefines, AnswerReadRefines DEF WorkerStep, BeginWrite, SendPrep, PrepsSent,
     SendHandoff, BeginCommits, SendCommit, CommitsSent, BeginRead, SendQuery, ReadOwnValue,
     HandleNextInQueue

(* A message that is handled is a Copy, a Hold, or nothing.                *)
LEMMA TaskRefines ==
    ASSUME IInv, NEW m \in tasks, TaskStep(m)
    PROVE  [Replicas!Next]_Replicas!vars
<1> USE DEF IInv
<1>1. /\ m \in Messages /\ m.to \in Nodes /\ m.from \in Nodes /\ MessageSound(m)
      /\ m.code # 7 => m.object.value \in 1..puts
  BY DEF Typed, TypeOK, StoresOK, MessagesOK, Messages, Written, Objects, NoValue, MessageInv
<1>2. CASE Acknowledge(m) \/ RespondRead(m)
  <2>1. UNCHANGED <<puts, results, applied, handedOff>>
    BY <1>2 DEF Acknowledge, RespondRead, CrashEffect, HandlerUnchanged, clientVars, history
  <2> QED BY <2>1, MappedStutter
<1>3. CASE Commit(m)
  <2>1. /\ UNCHANGED <<puts, results, handedOff>>
        /\ applied' = applied \cup {<<m.to, m.object.value>>}
    BY <1>3 DEF Commit, Set, HandlerUnchanged, clientVars
  <2>2. m.object.value \in SucceededValues \/ \E h \in Nodes : <<h, m.object.value, m.to>> \in HeldValues
    <3>1. CASE m.code = 2
      <4>1. PICK res \in results :
                res.success /\ res.request = [isWrite |-> TRUE, object |-> m.object]
        BY <1>1, <3>1 DEF MessageSound, Succeeded
      <4> QED BY <4>1 DEF SucceededValues
    <3>2. CASE m.code = 6
      <4>1. <<m.from, m.object, m.to>> \in handedOff
        BY <1>1, <3>2 DEF MessageSound
      <4> QED BY <1>1, <4>1 DEF HeldValues
    <3> QED BY <1>3, <3>1, <3>2 DEF Commit
  <2>3. Replicas!Copy(m.to, m.object.value)
    BY <2>1, <2>2 DEF Replicas!Copy, SucceededValues, HeldValues
  <2> QED BY <1>1, <1>3, <2>3 DEF Replicas!Next, Commit
<1>4. CASE HandoffCommit(m)
  <2>1. /\ UNCHANGED <<puts, results>> /\ m.code = 5
        /\ applied' = applied \cup {<<m.to, m.object.value>>}
        /\ handedOff' = handedOff \cup {<<m.to, m.object, m.intended>>}
    BY <1>4 DEF HandoffCommit, Set, HandlerUnchanged, clientVars
  <2>2. m.to # m.intended /\ m.intended \in Nodes
    BY <1>1, <2>1, HandoffNodes, TargetNodes DEF MessageSound
  <2>3. HeldValues' = HeldValues \cup {<<m.to, m.object.value, m.intended>>}
    <3> DEFINE new == <<m.to, m.object, m.intended>>
    <3>1. new[1] = m.to /\ new[2] = m.object /\ new[3] = m.intended
      OBVIOUS
    <3>2. handedOff' = handedOff \cup {new}
      BY <2>1
    <3> HIDE DEF new
    <3> QED BY <3>1, <3>2 DEF HeldValues
  <2>4. Replicas!Hold(m.to, m.object.value, m.intended)
    BY <2>1, <2>2, <2>3 DEF Replicas!Hold, HeldValues
  <2> QED BY <1>1, <2>1, <2>2, <2>4 DEF Replicas!Next
<1> QED BY <1>2, <1>3, <1>4 DEF TaskStep

(* Every step is one of the abstract specification's or a stutter.         *)
LEMMA StepRefines == IInv /\ [Next]_vars => [Replicas!Next]_Replicas!vars
<1> SUFFICES ASSUME IInv, [Next]_vars PROVE [Replicas!Next]_Replicas!vars
  OBVIOUS
<1>1. ASSUME NEW n \in Coordinators, NEW k \in Keys, PutStore(n, k)
      PROVE  [Replicas!Next]_Replicas!vars
  <2>1. Replicas!Ask
    BY <1>1 DEF PutStore, Replicas!Ask, history
  <2> QED BY <2>1 DEF Replicas!Next
<1>2. CASE \E n \in Coordinators : WorkerStep(n)
  BY <1>2, NodesAssumption, WorkerRefines
<1>3. CASE \E n \in Coordinators : \/ \E k \in Keys : Get(n, k)
                                   \/ \E object \in handlers[n] : PutSubmit(n, object)
  <2>1. UNCHANGED <<puts, results, applied, handedOff>>
    BY <1>3 DEF Get, PutSubmit, history
  <2> QED BY <2>1, MappedStutter
<1>4. CASE \/ \E m \in retries, res \in {0, 1} : Retry(m, res)
           \/ \E h \in handoffs : HandoffDelete(h) \/ \E res \in {0, 1} : HandoffSend(h, res)
           \/ \E n \in Nodes : Crash(n) \/ Restart(n) \/ Snapshot(n)
           \/ UNCHANGED vars
  <2>1. UNCHANGED <<puts, results, applied, handedOff>>
    BY <1>4 DEF Retry, HandoffDelete, HandoffSend, HandlerUnchanged, Crash, CrashEffect, Restart,
       Snapshot, vars, clientVars, history
  <2> QED BY <2>1, MappedStutter
<1> QED BY <1>1, <1>2, <1>3, <1>4, TaskRefines DEF Next

(* Whatever is lost, late or ends: copies are made only of what was        *)
(* answered with success or handed on, and clients see only values of PUTs.*)
THEOREM ReplicationRefinesReplicaSet == Spec => ImplementsReplicaSet
<1>1. Init => Replicas!Init
  BY DEF Init, Replicas!Init
<1> QED
  BY <1>1, StepRefines, Invariance, PTL DEF Spec, ImplementsReplicaSet, Replicas!Spec

-----------------------------------------------------------------------------
(* Where the copies of a written key are when everything has come to rest  *)
(* (SettledCopies), for every number of nodes, of targets and of requests. *)
(* In a run in which no process has ended, every promise of a copy is kept *)
(* track of: the copy is there, or the message that makes it is pending,   *)
(* or a goroutine has still to send it.                                    *)

(* Redis of n has a value under the object's key.                          *)
Stored(n, object) == db[n][object.key] # NoValue

(* Redis of n has a value under the key, unless it held one for another    *)
(* node, and may have deleted the key with that.                           *)
Kept(n, key) == db[n][key] # NoValue \/ HeldFor(n, key)

(* Handoffs are of values that were PUT, from handoff nodes to targets.    *)
EntryInv ==
    \A entry \in handedOff :
        entry[1] \in HandoffSet /\ entry[2] \in Written /\ entry[3] \in TargetSet

-----------------------------------------------------------------------------
LEMMA WrittenGrows ==
    ASSUME Typed, [Next]_vars
    PROVE  Written \subseteq Written'
<1>1. puts \in Nat
  BY DEF Typed, TypeOK, StoresOK
<1>2. CASE puts' = puts
  BY <1>2 DEF Written, Objects
<1>3. CASE puts' = puts + 1
  BY <1>1, <1>3 DEF Written, Objects
<1>4. CASE \E n \in Coordinators : \/ \E k \in Keys : PutStore(n, k) \/ Get(n, k)
                                   \/ \E object \in handlers[n] : PutSubmit(n, object)
  BY <1>2, <1>3, <1>4 DEF PutStore, Get, PutSubmit
<1>5. CASE \E n \in Coordinators : WorkerStep(n)
  BY <1>2, <1>5, NodesAssumption, WorkerFrame DEF clientVars
<1>6. CASE \E m \in tasks : TaskStep(m)
  BY <1>2, <1>6 DEF TaskStep, Acknowledge, Commit, HandoffCommit, RespondRead, HandlerUnchanged,
     CrashEffect, clientVars
<1>7. CASE \/ \E m \in retries, res \in {0, 1} : Retry(m, res)
           \/ \E h \in handoffs : HandoffDelete(h) \/ \E res \in {0, 1} : HandoffSend(h, res)
           \/ \E n \in Nodes : Crash(n) \/ Restart(n) \/ Snapshot(n)
           \/ UNCHANGED vars
  <2>1. puts' = puts
    BY <1>7 DEF Retry, HandoffDelete, HandoffSend, HandlerUnchanged, Crash, CrashEffect, Restart,
       Snapshot, vars, clientVars
  <2> QED BY <1>2, <2>1
<1> QED BY <1>4, <1>5, <1>6, <1>7 DEF Next

LEMMA NextEntryInv == IInv /\ EntryInv /\ [Next]_vars => EntryInv'
<1> SUFFICES ASSUME IInv, EntryInv, [Next]_vars, NEW entry \in handedOff'
             PROVE  entry[1] \in HandoffSet /\ entry[2] \in Written /\ entry[3] \in TargetSet
  BY WrittenGrows DEF EntryInv, IInv
<1>1. CASE entry \in handedOff
  BY <1>1 DEF EntryInv
<1>2. CASE entry \notin handedOff
  <2>1. PICK m \in tasks : HandoffCommit(m) /\ entry = <<m.to, m.object, m.intended>>
    BY <1>2, NewHandoffs DEF IInv
  <2>2. m.code = 5 /\ m.object \in Written
    BY <2>1 DEF HandoffCommit, IInv, Typed, TypeOK, MessagesOK, Messages
  <2> QED BY <2>1, <2>2 DEF IInv, MessageInv, MessageSound
<1> QED BY <1>1, <1>2

(* Without a crash a message is pending until its handler has run.         *)
LEMMA TaskDone ==
    ASSUME IInv, [Next]_vars, crashed' = {}, NEW x \in tasks, x \notin tasks'
    PROVE  TaskStep(x)
<1> USE DEF IInv
<1>1. ASSUME NEW i, CrashEffect(i) PROVE FALSE
  BY <1>1 DEF CrashEffect
<1>2. CASE \E n \in Coordinators : \/ \E k \in Keys : PutStore(n, k) \/ Get(n, k)
                                   \/ \E object \in handlers[n] : PutSubmit(n, object)
  BY <1>2 DEF PutStore, Get, PutSubmit
<1>3. CASE \E n \in Coordinators : WorkerStep(n)
  BY <1>3, NodesAssumption, WorkerSendsThese DEF WorkerSends, Typed
<1>4. ASSUME NEW m \in tasks, TaskStep(m) PROVE x = m
  <2>1. tasks' = tasks \ {m}
    BY <1>1, <1>4 DEF TaskStep, Acknowledge, Commit, HandoffCommit, RespondRead
  <2> QED BY <2>1
<1>5. CASE \/ \E m \in retries, res \in {0, 1} : Retry(m, res)
           \/ \E h \in handoffs : HandoffDelete(h) \/ \E res \in {0, 1} : HandoffSend(h, res)
  BY <1>5, SendEffect DEF Retry, HandoffDelete, HandoffSend
<1>6. CASE \E n \in Nodes : Crash(n) \/ Restart(n) \/ Snapshot(n)
  BY <1>1, <1>6 DEF Crash, Restart, Snapshot
<1>7. CASE UNCHANGED vars
  BY <1>7 DEF vars
<1> QED BY <1>2, <1>3, <1>4, <1>5, <1>6, <1>7 DEF Next

(* The value of a message that was stored is stored.                       *)
LEMMA SetStores ==
    ASSUME Typed, NEW m \in tasks, m.code # 7, Set(m.to, m.object)
    PROVE  /\ db'[m.to][m.object.key] # NoValue
           /\ \A n \in Nodes, k \in Keys : db'[n][k] # db[n][k] => n = m.to /\ k = m.object.key
<1>1. /\ m.to \in Nodes /\ m.object.key \in Keys /\ m.object.value # NoValue
      /\ db \in [Nodes -> [Keys -> 0..puts]]
  BY DEF Typed, TypeOK, StoresOK, MessagesOK, Messages, Written, Objects
<1> QED BY <1>1 DEF Set

(* What a step does to a database.                                         *)
LEMMA DbEffect ==
    ASSUME IInv, [Next]_vars, crashed' = {}, NEW n \in Nodes, NEW k \in Keys, db'[n][k] # db[n][k]
    PROVE  \/ n \in Coordinators /\ PutStore(n, k) /\ db'[n][k] # NoValue
           \/ \E m \in tasks : /\ Commit(m) \/ HandoffCommit(m)
                               /\ m.to = n /\ m.object.key = k /\ db'[n][k] # NoValue
           \/ \E h \in handoffs : HandoffDelete(h) /\ h.message.from = n /\ h.message.object.key = k
<1> USE DEF IInv
<1>0. db \in [Nodes -> [Keys -> 0..puts]] /\ puts \in Nat
  BY DEF Typed, TypeOK, StoresOK
<1>1. ASSUME NEW i, CrashEffect(i) PROVE FALSE
  BY <1>1 DEF CrashEffect
<1>2. ASSUME NEW i \in Coordinators, NEW key \in Keys, PutStore(i, key)
      PROVE  n = i /\ k = key /\ db'[n][k] # NoValue
  <2>1. i \in Nodes
    BY NodesAssumption
  <2>2. db' = [db EXCEPT ![i][key] = puts + 1] /\ puts + 1 # 0
    BY <1>0, <1>2 DEF PutStore
  <2> QED BY <1>0, <2>1, <2>2 DEF NoValue
<1>3. ASSUME NEW m \in tasks, Commit(m) \/ HandoffCommit(m)
      PROVE  m.to = n /\ m.object.key = k /\ db'[n][k] # NoValue
  <2>1. m.code # 7 /\ Set(m.to, m.object)
    BY <1>3 DEF Commit, HandoffCommit
  <2> QED BY <2>1, SetStores
<1>4. ASSUME NEW h \in handoffs, HandoffDelete(h)
      PROVE  h.message.from = n /\ h.message.object.key = k
  <2>1. h.message.from \in Nodes /\ h.message.object.key \in Keys
    BY DEF Typed, TypeOK, MessagesOK, Messages, Objects
  <2> QED BY <1>0, <1>4, <2>1 DEF HandoffDelete
<1>5. ASSUME NEW i \in Coordinators, WorkerStep(i) PROVE FALSE
  BY <1>5, NodesAssumption, WorkerFrame
<1>6. ASSUME NEW m \in tasks, Acknowledge(m) \/ RespondRead(m) PROVE FALSE
  BY <1>1, <1>6 DEF Acknowledge, RespondRead
<1>7. CASE \/ \E i \in Coordinators : \/ \E key \in Keys : Get(i, key)
                                      \/ \E object \in handlers[i] : PutSubmit(i, object)
           \/ \E m \in retries, res \in {0, 1} : Retry(m, res)
           \/ \E h \in handoffs, res \in {0, 1} : HandoffSend(h, res)
           \/ \E i \in Nodes : Restart(i) \/ Snapshot(i)
           \/ UNCHANGED vars
  BY <1>7 DEF Get, PutSubmit, Retry, HandoffSend, Restart, Snapshot, vars
<1> QED
  BY <1>1, <1>2, <1>3, <1>4, <1>5, <1>6, <1>7 DEF Next, TaskStep, Crash

(* Only handoff nodes ever lose a key.                                     *)
LEMMA DbStays ==
    ASSUME IInv, EntryInv, [Next]_vars, crashed' = {}, NEW n \in Nodes \ HandoffSet, NEW k \in Keys,
           db[n][k] # NoValue
    PROVE  db'[n][k] # NoValue
<1>1. ASSUME NEW h \in handoffs PROVE h.message.from \in HandoffSet
  BY DEF IInv, MessageInv, MessageSound, EntryInv
<1> QED BY <1>1, DbEffect

-----------------------------------------------------------------------------
(* A coordinator keeps what was PUT at it, as far as it can.               *)
OwnCopies ==
    \A n \in Coordinators :
        /\ \A object \in handlers[n] : Kept(n, object.key)
        /\ \A i \in 1..Len(queue[n]) : queue[n][i].isWrite => Kept(n, queue[n][i].object.key)

(* So it does when the write has been answered.                            *)
OwnResults ==
    \A res \in results : res.request.isWrite =>
        /\ res.at \in Coordinators /\ res.request.object.key \in Keys
        /\ Kept(res.at, res.request.object.key)

LEMMA StoredStays ==
    ASSUME IInv, EntryInv, [Next]_vars, crashed' = {}, NEW n \in Nodes \ HandoffSet,
           NEW object, object.key \in Keys, Stored(n, object)
    PROVE  Stored(n, object)'
  BY DbStays DEF Stored

LEMMA KeptStays ==
    ASSUME IInv, [Next]_vars, crashed' = {}, NEW n \in Nodes, NEW key \in Keys, Kept(n, key)
    PROVE  Kept(n, key)'
<1>1. CASE HeldFor(n, key)
  BY <1>1, HistoryGrows DEF IInv, HeldFor, Kept
<1>2. CASE db'[n][key] = db[n][key] \/ db'[n][key] # NoValue
  BY <1>1, <1>2 DEF Kept
<1>3. ASSUME NEW h \in handoffs, h.message.from = n, h.message.object.key = key
      PROVE  HeldFor(n, key)
  <2>1. <<n, h.message.object, h.message.to>> \in handedOff
    BY <1>3 DEF IInv, MessageInv, MessageSound
  <2> QED BY <1>3, <2>1 DEF HeldFor
<1> QED BY <1>1, <1>2, <1>3, DbEffect

(* Where the requests in a queue come from.                                *)
LEMMA NewRequests ==
    ASSUME IInv, [Next]_vars, crashed' = {}, NEW n \in Coordinators, NEW i \in 1..Len(queue'[n])
    PROVE  \/ \E j \in 1..Len(queue[n]) : queue'[n][i] = queue[n][j]
           \/ ~queue'[n][i].isWrite
           \/ \E object \in handlers[n] : queue'[n][i].object = object
<1> USE DEF IInv
<1>0. n \in Nodes /\ queue \in [Nodes -> Seq(Requests)]
  BY NodesAssumption DEF Typed, TypeOK, QueuesOK
<1>1. ASSUME NEW c \in Coordinators, NEW request, AddRequest(c, request)
      PROVE  (\E j \in 1..Len(queue[n]) : queue'[n][i] = queue[n][j])
             \/ (c = n /\ queue'[n][i] = request)
  BY <1>0, <1>1, NodesAssumption DEF AddRequest
<1>2. CASE queue' = queue
  BY <1>2
<1>3. ASSUME NEW c \in Coordinators, NEW k \in Keys, Get(c, k)
      PROVE  (\E j \in 1..Len(queue[n]) : queue'[n][i] = queue[n][j]) \/ ~queue'[n][i].isWrite
  BY <1>1, <1>3 DEF Get
<1>4. ASSUME NEW c \in Coordinators, NEW object \in handlers[c], PutSubmit(c, object)
      PROVE  (\E j \in 1..Len(queue[n]) : queue'[n][i] = queue[n][j])
             \/ \E o \in handlers[n] : queue'[n][i].object = o
  BY <1>1, <1>2, <1>4 DEF PutSubmit
<1>5. ASSUME NEW c \in Coordinators, WorkerStep(c), queue' # queue
      PROVE  \E j \in 1..Len(queue[n]) : queue'[n][i] = queue[n][j]
  <2>1. HandleNextInQueue(c)
    BY <1>5 DEF WorkerStep, BeginWrite, SendPrep, PrepsSent, SendHandoff, AnswerWrite, BeginCommits,
       SendCommit, CommitsSent, BeginRead, SendQuery, ReadOwnValue, AnswerRead
  <2>2. CASE c = n
    <3>1. queue'[n] = SubSeq(queue[n], 1, Len(queue[n]) - 1)
      BY <1>0, <2>1, <2>2 DEF HandleNextInQueue
    <3>2. queue[n] # <<>>
      BY <1>0, <2>1, <2>2 DEF HandleNextInQueue, Typed, WorkerInv, WorkerSound
    <3>3. i \in 1..Len(queue[n]) /\ queue'[n][i] = queue[n][i]
      BY <1>0, <3>1, <3>2
    <3> QED BY <3>3
  <2>3. CASE c # n
    BY <1>0, <2>1, <2>3 DEF HandleNextInQueue
  <2> QED BY <2>2, <2>3
<1>6. ASSUME NEW c, CrashEffect(c) PROVE FALSE
  BY <1>6 DEF CrashEffect
<1>7. CASE \/ \E c \in Coordinators, k \in Keys : PutStore(c, k)
           \/ \E m \in retries, r \in {0, 1} : Retry(m, r)
           \/ \E h \in handoffs : HandoffDelete(h) \/ \E r \in {0, 1} : HandoffSend(h, r)
           \/ \E c \in Nodes : Restart(c) \/ Snapshot(c)
           \/ UNCHANGED vars
  <2>1. queue' = queue
    BY <1>7 DEF PutStore, Retry, HandoffDelete, HandoffSend, HandlerUnchanged, Restart, Snapshot, vars
  <2> QED BY <1>2, <2>1
<1>8. CASE \E m \in tasks : TaskStep(m)
  <2>1. queue' = queue
    BY <1>6, <1>8, TaskEffect DEF Typed
  <2> QED BY <1>2, <2>1
<1>9. CASE \E c \in Coordinators : WorkerStep(c)
  BY <1>2, <1>5, <1>9
<1> QED BY <1>3, <1>4, <1>6, <1>7, <1>8, <1>9 DEF Next, Crash

LEMMA NewPuts ==
    ASSUME IInv, [Next]_vars, crashed' = {}, NEW n \in Coordinators, NEW object \in handlers'[n],
           object \notin handlers[n]
    PROVE  object.key \in Keys /\ db'[n][object.key] # NoValue
<1> USE DEF IInv
<1>0. /\ n \in Nodes /\ DOMAIN handlers = Nodes /\ puts \in Nat
      /\ db \in [Nodes -> [Keys -> 0..puts]]
  BY NodesAssumption DEF Typed, TypeOK, StoresOK
<1>1. ASSUME NEW c \in Coordinators, NEW k \in Keys, PutStore(c, k)
      PROVE  object.key \in Keys /\ db'[n][object.key] # NoValue
  <2>1. c \in Nodes
    BY NodesAssumption
  <2>2. c = n /\ object = [key |-> k, value |-> puts + 1]
    BY <1>0, <1>1, <2>1 DEF PutStore
  <2>3. db' = [db EXCEPT ![n][k] = puts + 1] /\ puts + 1 # 0
    BY <1>0, <1>1, <2>2 DEF PutStore
  <2> QED BY <1>0, <2>2, <2>3 DEF NoValue
<1>2. CASE handlers' = handlers
  BY <1>2
<1>3. ASSUME NEW c \in Coordinators, NEW o \in handlers[c], PutSubmit(c, o) PROVE FALSE
  BY <1>0, <1>3, NodesAssumption DEF PutSubmit
<1>4. ASSUME NEW c, CrashEffect(c) PROVE FALSE
  BY <1>4 DEF CrashEffect
<1>5. CASE \E c \in Coordinators : WorkerStep(c)
  <2>1. handlers' = handlers
    BY <1>5, NodesAssumption, WorkerFrame DEF clientVars
  <2> QED BY <1>2, <2>1
<1>6. CASE \/ \E c \in Coordinators, k \in Keys : Get(c, k)
           \/ \E m \in tasks : TaskStep(m)
           \/ \E m \in retries, r \in {0, 1} : Retry(m, r)
           \/ \E h \in handoffs : HandoffDelete(h) \/ \E r \in {0, 1} : HandoffSend(h, r)
           \/ \E c \in Nodes : Restart(c) \/ Snapshot(c)
           \/ UNCHANGED vars
  <2>1. handlers' = handlers
    BY <1>4, <1>6 DEF Get, TaskStep, Acknowledge, Commit, HandoffCommit, RespondRead, Retry,
       HandoffDelete, HandoffSend, HandlerUnchanged, Restart, Snapshot, vars, clientVars
  <2> QED BY <1>2, <2>1
<1> QED BY <1>1, <1>3, <1>4, <1>5, <1>6 DEF Next, Crash

LEMMA NextOwnCopies ==
    ASSUME IInv, OwnCopies, OwnResults, [Next]_vars, crashed' = {}
    PROVE  OwnCopies' /\ OwnResults'
<1> USE DEF IInv
<1>0. \A n \in Coordinators : /\ n \in Nodes
                              /\ \A object \in handlers[n] : object.key \in Keys
                              /\ \A i \in 1..Len(queue[n]) : queue[n][i].object.key \in Keys
  <2> SUFFICES ASSUME NEW n \in Coordinators
               PROVE  /\ n \in Nodes
                      /\ \A object \in handlers[n] : object.key \in Keys
                      /\ \A i \in 1..Len(queue[n]) : queue[n][i].object.key \in Keys
    OBVIOUS
  <2>1. n \in Nodes
    BY NodesAssumption
  <2>2. \A object \in handlers[n] : object.key \in Keys
    BY <2>1 DEF Typed, TypeOK, StoresOK, Written, Objects
  <2>3. ASSUME NEW i \in 1..Len(queue[n]) PROVE queue[n][i].object.key \in Keys
    <3>1. queue[n] \in Seq(Requests)
      BY <2>1 DEF Typed, TypeOK, QueuesOK
    <3>2. queue[n][i] \in Requests
      BY <3>1
    <3> QED BY <3>2 DEF Requests, Objects
  <2> QED BY <2>1, <2>2, <2>3
<1>1. ASSUME NEW n \in Coordinators, NEW object \in handlers'[n] PROVE Kept(n, object.key)'
  <2>1. CASE object \in handlers[n]
    BY <1>0, <2>1, KeptStays DEF OwnCopies
  <2>2. CASE object \notin handlers[n]
    BY <2>2, NewPuts DEF Kept
  <2> QED BY <2>1, <2>2
<1>2. ASSUME NEW n \in Coordinators, NEW i \in 1..Len(queue'[n]), queue'[n][i].isWrite
      PROVE  Kept(n, queue[n][i].object.key)'
  <2>1. CASE \E j \in 1..Len(queue[n]) : queue'[n][i] = queue[n][j]
    <3>1. PICK j \in 1..Len(queue[n]) : queue'[n][i] = queue[n][j]
      BY <2>1
    <3>2. PICK key \in Keys : key = queue[n][j].object.key
      BY <1>0
    <3>3. Kept(n, key)'
      BY <1>0, <1>2, <3>1, <3>2, KeptStays DEF OwnCopies
    <3> QED BY <3>1, <3>2, <3>3 DEF Kept, HeldFor
  <2>2. ASSUME NEW object \in handlers[n], queue'[n][i].object = object
        PROVE  Kept(n, queue[n][i].object.key)'
    <3>1. Kept(n, object.key)'
      BY <1>0, KeptStays DEF OwnCopies
    <3> QED BY <2>2, <3>1 DEF Kept, HeldFor
  <2> QED BY <1>2, <2>1, <2>2, NewRequests
<1>3. ASSUME NEW res \in results', res.request.isWrite
      PROVE  /\ res.at \in Coordinators /\ res.request.object.key \in Keys
             /\ Kept(res.at, res.request.object.key)'
  <2>1. CASE res \in results
    BY <1>0, <1>3, <2>1, KeptStays DEF OwnResults
  <2>2. CASE res \notin results
    <3>1. PICK n \in Coordinators : /\ AnswerRead(n) \/ AnswerWrite(n)
                                    /\ res.at = n /\ res.request = Request(n)
      BY <2>2, NewResults
    <3>2. n \in Nodes /\ queue[n] \in Seq(Requests) /\ queue[n] # <<>>
      BY <1>0, <3>1 DEF Typed, TypeOK, QueuesOK, WorkerInv, WorkerSound, AnswerRead, AnswerWrite
    <3>3. 1 \in 1..Len(queue[n]) /\ Request(n) = queue[n][1]
      BY <3>2 DEF Request
    <3>4. Kept(n, res.request.object.key) /\ res.request.object.key \in Keys
      BY <1>0, <1>3, <3>1, <3>3 DEF OwnCopies
    <3>5. Kept(n, res.request.object.key)'
      BY <1>0, <3>4, KeptStays
    <3> QED BY <3>1, <3>4, <3>5
  <2> QED BY <2>1, <2>2
<1> QED BY <1>1, <1>2, <1>3 DEF OwnCopies, OwnResults

-----------------------------------------------------------------------------
(* Enough targets are promised the value of a successful write.            *)
Serves(n, request, target) ==
    /\ queue[n] # <<>> /\ Request(n) = request
    /\ \/ worker[n].pc = "answered" /\ target \in DOMAIN writeCheck[n]
       \/ worker[n].pc = "commit" /\ target \in worker[n].due \ worker[n].visited

(* The commit of object to target is pending or is sent again.             *)
Committing(object, target) ==
    \E m \in tasks \cup retries : m.code = 2 /\ m.to = target /\ m.object = object

(* Target has a value for the request of n, or will.                       *)
Promised(n, request, target) ==
    Stored(target, request.object) \/ Committing(request.object, target) \/ Serves(n, request, target)

(* W targets are promised a value for every successful write.              *)
QuorumCopies ==
    \A res \in results : res.request.isWrite /\ res.success =>
        \E S \in SUBSET TargetSet :
            Cardinality(S) >= W /\ \A target \in S : Promised(res.at, res.request, target)

LEMMA TargetsApart == TargetSet \subseteq Nodes \ HandoffSet
  BY TargetNodes, HandoffNodes

LEMMA CommittingStays ==
    ASSUME IInv, EntryInv, [Next]_vars, crashed' = {}, NEW target \in TargetSet,
           NEW object, Committing(object, target)
    PROVE  Stored(target, object)' \/ Committing(object, target)'
<1>1. PICK m \in tasks \cup retries : m.code = 2 /\ m.to = target /\ m.object = object
  BY DEF Committing
<1>2. CASE m \in tasks' \cup retries'
  BY <1>1, <1>2 DEF Committing
<1>3. CASE m \in tasks \ tasks'
  <2>1. TaskStep(m)
    BY <1>3, TaskDone
  <2>2. Set(m.to, m.object)
    BY <1>1, <2>1 DEF TaskStep, Acknowledge, Commit, HandoffCommit, RespondRead
  <2> QED BY <1>1, <1>3, <2>2, SetStores DEF IInv, Stored
<1>4. CASE m \in retries \ retries'
  BY <1>2, <1>4, MessagesGone DEF IInv
<1> QED BY <1>1, <1>2, <1>3, <1>4

LEMMA WorkerServesTarget ==
    ASSUME IInv, NEW n \in Nodes, WorkerStep(n), NEW request, NEW target, Serves(n, request, target)
    PROVE  Serves(n, request, target)' \/ Committing(request.object, target)'
<1> USE DEF IInv
<1>1. worker \in [Nodes -> Workers] /\ CommitSound(n)
  BY DEF Typed, TypeOK, QueuesOK, CommitInv
<1>2. CASE BeginCommits(n)
  <2>1. /\ worker'[n].pc = "commit" /\ worker'[n].due = DOMAIN writeCheck[n]
        /\ worker'[n].visited = worker[n].visited /\ queue' = queue /\ worker[n].pc = "answered"
    BY <1>1, <1>2 DEF BeginCommits, Workers
  <2> QED BY <1>1, <2>1 DEF CommitSound, WritePhases, Serves, Request
<1>3. CASE SendCommit(n)
  <2>1. PICK to \in DOMAIN writeCheck[n], res \in {0, 1} :
            LET m == Message(2, n, to, Request(n).object, 0) IN
            /\ Send(m, res) /\ retries' = IF res = 1 THEN retries \cup {m} ELSE retries
            /\ worker' = [worker EXCEPT ![n].visited = @ \cup {to}]
    BY <1>3 DEF SendCommit
  <2> DEFINE m == Message(2, n, to, Request(n).object, 0)
  <2>2. CASE to = target
    <3>1. m \in tasks' \cup retries'
      BY <2>1, SendEffect
    <3>2. m.code = 2 /\ m.to = target /\ m.object = request.object
      BY <2>2 DEF Message, Serves
    <3> QED BY <3>1, <3>2 DEF Committing
  <2>3. CASE to # target
    <3>1. /\ queue' = queue /\ worker'[n].pc = worker[n].pc /\ worker'[n].due = worker[n].due
          /\ worker'[n].visited = worker[n].visited \cup {to} /\ worker[n].pc = "commit"
      BY <1>1, <1>3, <2>1 DEF SendCommit, Workers
    <3> QED BY <2>3, <3>1 DEF Serves, Request
  <2> QED BY <2>2, <2>3
<1> QED
  BY <1>2, <1>3 DEF Serves, WorkerStep, BeginWrite, SendPrep, PrepsSent, SendHandoff, AnswerWrite,
     CommitsSent, BeginRead, SendQuery, ReadOwnValue, AnswerRead, HandleNextInQueue

LEMMA ServesStays ==
    ASSUME IInv, [Next]_vars, crashed' = {}, NEW n \in Nodes, ~WorkerStep(n),
           NEW request, NEW target, Serves(n, request, target)
    PROVE  Serves(n, request, target)'
<1>1. worker'[n] = worker[n] /\ Request(n)' = Request(n) /\ queue'[n] # <<>>
  BY HeadStays DEF IInv, Serves
<1>2. DOMAIN writeCheck[n] \subseteq DOMAIN writeCheck'[n]
  <2>1. \A map, node, answer : DOMAIN map \subseteq DOMAIN WithAnswer(map, node, answer)
    BY DEF WithAnswer
  <2>2. \/ writeCheck'[n] = writeCheck[n]
        \/ \E m \in tasks : writeCheck'[n] = WithAnswer(writeCheck[n], m.to, m.object.value)
    BY AnswersArrive DEF IInv
  <2> QED BY <2>1, <2>2
<1> QED BY <1>1, <1>2 DEF Serves

LEMMA PromiseStays ==
    ASSUME IInv, EntryInv, [Next]_vars, crashed' = {}, NEW n \in Nodes, NEW request,
           request.object.key \in Keys, NEW target \in TargetSet, Promised(n, request, target)
    PROVE  Promised(n, request, target)'
<1>1. CASE Stored(target, request.object)
  <2>1. Stored(target, request.object)'
    BY <1>1, TargetsApart, StoredStays
  <2> QED BY <2>1 DEF Promised
<1>2. CASE Committing(request.object, target)
  <2>1. Stored(target, request.object)' \/ Committing(request.object, target)'
    BY <1>2, CommittingStays
  <2> QED BY <2>1 DEF Promised
<1>3. CASE Serves(n, request, target)
  <2>1. Serves(n, request, target)' \/ Committing(request.object, target)'
    BY <1>3, WorkerServesTarget, ServesStays
  <2> QED BY <2>1 DEF Promised
<1> QED BY <1>1, <1>2, <1>3 DEF Promised

(* Targets are counted by their places in Targets.                         *)
LEMMA TargetsCounted ==
    ASSUME NEW S \in SUBSET TargetSet, NEW J \in SUBSET (1..N - 1),
           \A target \in S : \E i \in J : Targets[i] = target
    PROVE  IsFiniteSet(S) /\ Cardinality(S) <= Cardinality(J)
<1> DEFINE f == [target \in S |-> CHOOSE i \in J : Targets[i] = target]
<1>1. f \in [S -> J] /\ \A target \in S : Targets[f[target]] = target
  OBVIOUS
<1>2. f \in Injection(S, J)
  BY <1>1 DEF Injection, IsInjective
<1>3. IsFiniteSet(J)
  <2>1. 1 \in Int /\ N - 1 \in Int
    BY QuorumAssumption
  <2>2. IsFiniteSet(1..N - 1)
    BY <2>1, FS_Interval
  <2> QED BY <2>2, FS_Subset
<1> HIDE DEF f
<1> QED BY <1>2, <1>3, FS_Injection

LEMMA TargetsFinite == ASSUME NEW S \in SUBSET TargetSet PROVE Cardinality(S) \in Nat
<1>1. \A target \in S : \E i \in 1..N - 1 : Targets[i] = target
  BY QuorumAssumption, TargetNodes DEF TargetSet
<1> QED BY <1>1, TargetsCounted, FS_CardinalityType

LEMMA NextQuorumCopies ==
    ASSUME IInv, EntryInv, OwnResults, QuorumCopies, [Next]_vars, crashed' = {}
    PROVE  QuorumCopies'
<1> USE DEF IInv
<1> SUFFICES ASSUME NEW res \in results', res.request.isWrite, res.success
             PROVE  \E S \in SUBSET TargetSet :
                        /\ Cardinality(S) >= W
                        /\ \A target \in S : Promised(res.at, res.request, target)'
  BY DEF QuorumCopies
<1>1. CASE res \in results
  <2>1. res.at \in Nodes /\ res.request.object.key \in Keys
    BY <1>1, NodesAssumption DEF OwnResults
  <2>2. PICK S \in SUBSET TargetSet :
            Cardinality(S) >= W /\ \A target \in S : Promised(res.at, res.request, target)
    BY <1>1 DEF QuorumCopies
  <2>3. ASSUME NEW target \in S PROVE Promised(res.at, res.request, target)'
    BY <2>1, <2>2, PromiseStays
  <2> QED BY <2>2, <2>3
<1>2. CASE res \notin results
  <2>1. PICK n \in Coordinators : \/ AnswerRead(n) /\ res.at = n /\ res.request = Request(n)
                                  \/ /\ AnswerWrite(n) /\ res.at = n /\ res.request = Request(n)
                                     /\ res.request.isWrite /\ (res.success <=> CheckWriteQuorum(n))
    BY <1>2, NewResults
  <2>2. n \in Nodes /\ res.at = n /\ res.request = Request(n)
    BY <2>1, NodesAssumption
  <2>3. ~AnswerRead(n)
    BY <2>2 DEF AnswerRead, Typed, WorkerInv, WorkerSound, ReadPhases
  <2>4. AnswerWrite(n) /\ CheckWriteQuorum(n)
    BY <2>1, <2>3
  <2>5. /\ worker'[n].pc = "answered" /\ queue' = queue /\ queue[n] # <<>>
        /\ writeCheck' = writeCheck /\ worker[n].pc = "wait"
    BY <2>2, <2>4, AnswerWriteEffect DEF AnswerWrite
  <2> DEFINE S == DOMAIN writeCheck[n]
  <2>6. S \in SUBSET TargetSet
    BY <2>2, <2>5 DEF CommitInv, CommitSound, Typed, WorkerInv, WorkerSound, WritePhases
  <2>7. Cardinality(S) >= W
    <3>1. Cardinality(S) \in Nat
      BY <2>6, TargetsFinite
    <3> QED BY <2>4, <3>1, FS_EmptySet DEF CheckWriteQuorum, HandoffCheck
  <2>8. ASSUME NEW target \in S PROVE Promised(res.at, res.request, target)'
    <3>1. Serves(res.at, res.request, target)'
      BY <2>2, <2>5 DEF Serves, Request
    <3> QED BY <3>1 DEF Promised
  <2> HIDE DEF S
  <2> QED BY <2>6, <2>7, <2>8
<1> QED BY <1>1, <1>2

-----------------------------------------------------------------------------
(* A value that was handed off has come back to a target or is on its way. *)
Returning(object, target) ==
    \/ Stored(target, object)
    \/ \E m \in tasks : \/ m.code = 5 /\ m.intended = target /\ m.object = object
                        \/ m.code = 6 /\ m.to = target /\ m.object = object
    \/ \E h \in handoffs : ~h.delivered /\ h.message.to = target /\ h.message.object = object

(* Some target has it or gets it back.                                     *)
HandedOff(object) == \E target \in TargetSet : Returning(object, target)

(* What the worker counted as handed off, and what it answered so.         *)
HandoffCopies ==
    /\ \A res \in results : res.request.isWrite /\ res.handoffNodes > 0 => HandedOff(res.request.object)
    /\ \A n \in Nodes : worker[n].pc \in {"handoff", "wait"} /\ worker[n].count > 0 =>
           HandedOff(Request(n).object)

LEMMA ReturningStays ==
    ASSUME IInv, EntryInv, [Next]_vars, crashed' = {}, NEW object, object.key \in Keys,
           NEW target \in TargetSet, Returning(object, target)
    PROVE  Returning(object, target)'
<1> USE DEF IInv
<1>1. CASE Stored(target, object)
  <2>1. Stored(target, object)'
    BY <1>1, TargetsApart, StoredStays
  <2> QED BY <2>1 DEF Returning
<1>2. ASSUME NEW m \in tasks, m.code = 5, m.intended = target, m.object = object
      PROVE  Returning(object, target)'
  <2>1. CASE m \in tasks'
    BY <1>2, <2>1 DEF Returning
  <2>2. CASE m \notin tasks'
    <3>1. TaskStep(m)
      BY <2>2, TaskDone
    <3>2. HandoffCommit(m)
      BY <1>2, <3>1 DEF TaskStep, Acknowledge, Commit, RespondRead
    <3> DEFINE h == [message |-> Message(6, m.to, m.intended, m.object, 0), delivered |-> FALSE]
    <3>3. h \in handoffs'
      BY <3>2 DEF HandoffCommit
    <3>4. ~h.delivered /\ h.message.to = target /\ h.message.object = object
      BY <1>2 DEF Message
    <3> QED BY <3>3, <3>4 DEF Returning
  <2> QED BY <2>1, <2>2
<1>3. ASSUME NEW m \in tasks, m.code = 6, m.to = target, m.object = object
      PROVE  Returning(object, target)'
  <2>1. CASE m \in tasks'
    BY <1>3, <2>1 DEF Returning
  <2>2. CASE m \notin tasks'
    <3>1. TaskStep(m)
      BY <2>2, TaskDone
    <3>2. Set(m.to, m.object)
      BY <1>3, <3>1 DEF TaskStep, Acknowledge, Commit, HandoffCommit, RespondRead
    <3>3. Stored(target, object)'
      BY <1>3, <3>2, SetStores DEF Stored
    <3> QED BY <3>3 DEF Returning
  <2> QED BY <2>1, <2>2
<1>4. ASSUME NEW h \in handoffs, ~h.delivered, h.message.to = target, h.message.object = object
      PROVE  Returning(object, target)'
  <2>1. CASE h \in handoffs'
    BY <1>4, <2>1 DEF Returning
  <2>2. CASE h \notin handoffs'
    <3>1. h.message \in tasks' /\ h.message.code = 6
      BY <1>4, <2>2, MessagesGone DEF MessageInv
    <3> QED BY <1>4, <3>1 DEF Returning
  <2> QED BY <2>1, <2>2
<1> QED BY <1>1, <1>2, <1>3, <1>4 DEF Returning

LEMMA HandedOffStays ==
    ASSUME IInv, EntryInv, [Next]_vars, crashed' = {}, NEW object, object.key \in Keys, HandedOff(object)
    PROVE  HandedOff(object)'
<1>1. PICK target \in TargetSet : Returning(object, target)
  BY DEF HandedOff
<1>2. Returning(object, target)'
  BY <1>1, ReturningStays
<1> QED BY <1>2 DEF HandedOff

(* A worker that has counted a handoff had counted one, or has just sent it.*)
LEMMA WorkerCounts ==
    ASSUME IInv, NEW n \in Nodes, WorkerStep(n),
           worker'[n].pc \in {"handoff", "wait"}, worker'[n].count > 0
    PROVE  /\ queue' = queue /\ worker[n].pc = "handoff"
           /\ \/ worker[n].count > 0
              \/ \E m \in tasks' : /\ m.code = 5 /\ m.intended \in TargetSet
                                   /\ m.object = Request(n).object
<1> USE DEF IInv
<1>1. /\ worker \in [Nodes -> Workers] /\ WorkerSound(n)
      /\ worker[n].count \in Nat
  BY DEF Typed, TypeOK, QueuesOK, WorkerInv, Workers
<1>2. CASE SendHandoff(n)
  <2>1. worker[n].pc = "handoff" /\ queue' = queue
    BY <1>2 DEF SendHandoff
  <2>2. PICK res \in {0, 1} :
            /\ Send(Message(5, n, Head(worker[n].todo), Request(n).object,
                            worker[n].failed[worker[n].count + 1]), res)
            /\ worker'[n].count = worker[n].count + (1 - res)
    <3>1. PICK res \in {0, 1}, ends \in BOOLEAN :
              /\ Send(Message(5, n, Head(worker[n].todo), Request(n).object,
                              worker[n].failed[worker[n].count + 1]), res)
              /\ worker' = [worker EXCEPT
                               ![n].pc = IF ends THEN "wait" ELSE "handoff",
                               ![n].todo = IF ends THEN <<>> ELSE Tail(@),
                               ![n].count = worker[n].count + (1 - res)]
      BY <1>2 DEF SendHandoff
    <3>2. worker'[n].count = worker[n].count + (1 - res)
      BY <1>1, <3>1 DEF Workers
    <3> QED BY <3>1, <3>2
  <2>3. CASE worker[n].count = 0
    <3> DEFINE m == Message(5, n, Head(worker[n].todo), Request(n).object, worker[n].failed[1])
    <3>1. res # 1
      BY <2>2, <2>3
    <3>2. m \in tasks'
      BY <2>2, <2>3, <3>1, SendEffect
    <3>3. worker[n].failed \in Seq(TargetSet) /\ 0 < Len(worker[n].failed)
      BY <1>1, <2>1, <2>3 DEF WorkerSound
    <3>4. worker[n].failed[1] \in TargetSet
      BY <3>3
    <3>5. m.code = 5 /\ m.intended \in TargetSet /\ m.object = Request(n).object
      BY <3>4 DEF Message
    <3> QED BY <2>1, <3>2, <3>5
  <2> QED BY <1>1, <2>1, <2>3
<1>3. CASE PrepsSent(n)
  <2>1. worker'[n].count = worker[n].count /\ worker[n].pc = "prep"
    BY <1>1, <1>3 DEF PrepsSent, Workers
  <2> QED BY <1>1, <2>1 DEF WorkerSound
<1>4. ASSUME BeginWrite(n) \/ BeginRead(n) \/ HandleNextInQueue(n) PROVE FALSE
  <2>1. worker'[n].pc \in {"prep", "query", "idle", "begin"}
    <3>1. CASE BeginWrite(n)
      BY <1>1, <3>1 DEF BeginWrite, IdleWorker
    <3>2. CASE BeginRead(n)
      BY <1>1, <3>2 DEF BeginRead, IdleWorker
    <3>3. CASE HandleNextInQueue(n)
      BY <1>1, <3>3 DEF HandleNextInQueue, IdleWorker
    <3> QED BY <1>4, <3>1, <3>2, <3>3
  <2> QED BY <2>1
<1>5. ASSUME SendPrep(n) PROVE FALSE
  BY <1>1, <1>5 DEF SendPrep, Workers
<1>6. ASSUME SendCommit(n) PROVE FALSE
  <2>1. PICK visited : worker' = [worker EXCEPT ![n].visited = visited]
    BY <1>6 DEF SendCommit
  <2> QED BY <1>1, <1>6, <2>1 DEF SendCommit, Workers
<1>7. ASSUME AnswerWrite(n) \/ BeginCommits(n) \/ CommitsSent(n) PROVE FALSE
  BY <1>1, <1>7 DEF AnswerWrite, BeginCommits, CommitsSent, Workers
<1>8. ASSUME SendQuery(n) \/ ReadOwnValue(n) \/ AnswerRead(n) PROVE FALSE
  BY <1>1, <1>8 DEF SendQuery, ReadOwnValue, AnswerRead, Workers
<1> QED BY <1>2, <1>3, <1>4, <1>5, <1>6, <1>7, <1>8 DEF WorkerStep

LEMMA NextHandoffCopies ==
    ASSUME IInv, EntryInv, OwnResults, HandoffCopies, [Next]_vars, crashed' = {}
    PROVE  HandoffCopies'
<1> USE DEF IInv
<1>1. ASSUME NEW res \in results', res.request.isWrite, res.handoffNodes > 0
      PROVE  HandedOff(res.request.object)'
  <2>1. CASE res \in results
    BY <1>1, <2>1, HandedOffStays DEF HandoffCopies, OwnResults
  <2>2. CASE res \notin results
    <3>1. PICK n \in Nodes : \/ AnswerRead(n) /\ res.at = n /\ res.request = Request(n)
                             \/ /\ AnswerWrite(n) /\ res.at = n /\ res.request = Request(n)
                                /\ res.handoffNodes = worker[n].count
      BY <2>2, NewResults, NodesAssumption
    <3>2. ~AnswerRead(n)
      BY <1>1, <3>1 DEF AnswerRead, Typed, WorkerInv, WorkerSound, ReadPhases
    <3>3. worker[n].pc = "wait" /\ worker[n].count > 0 /\ res.request = Request(n)
      BY <1>1, <3>1, <3>2 DEF AnswerWrite
    <3>4. PICK object : object = Request(n).object
      OBVIOUS
    <3>5. Request(n) \in Requests
      BY <3>3, HeadOfQueue DEF Typed
    <3>6. HandedOff(object) /\ object.key \in Keys
      BY <3>3, <3>4, <3>5 DEF HandoffCopies, Requests, Objects
    <3>7. HandedOff(object)'
      BY <3>6, HandedOffStays
    <3> QED BY <3>3, <3>4, <3>7 DEF HandedOff, Returning, Stored
  <2> QED BY <2>1, <2>2
<1>2. ASSUME NEW n \in Nodes, worker'[n].pc \in {"handoff", "wait"}, worker'[n].count > 0
      PROVE  HandedOff(Request(n).object)'
  <2>1. PICK object : object = Request(n).object
    OBVIOUS
  <2>2. CASE WorkerStep(n)
    <3>1. queue' = queue /\ worker[n].pc = "handoff"
      BY <1>2, <2>2, WorkerCounts
    <3>2. object' = object /\ Request(n)' = Request(n)
      BY <3>1 DEF Request
    <3>3. CASE worker[n].count > 0
      <4>1. Request(n) \in Requests
        BY <3>1, HeadOfQueue DEF Typed
      <4>2. HandedOff(object) /\ object.key \in Keys
        BY <2>1, <3>1, <3>3, <4>1 DEF HandoffCopies, Requests, Objects
      <4>3. HandedOff(object)'
        BY <4>2, HandedOffStays
      <4> QED BY <2>1, <3>2, <4>3 DEF HandedOff, Returning, Stored
    <3>4. ASSUME NEW m \in tasks', m.code = 5, m.intended \in TargetSet, m.object = Request(n).object
          PROVE  HandedOff(Request(n).object)'
      BY <3>2, <3>4 DEF HandedOff, Returning
    <3> QED BY <1>2, <2>2, <3>3, <3>4, WorkerCounts
  <2>3. CASE ~WorkerStep(n)
    <3>1. queue[n] # <<>>
      BY <1>2, IdleStays
    <3>2. worker'[n] = worker[n] /\ Request(n)' = Request(n)
      BY <2>3, <3>1, HeadStays
    <3>3. Request(n) \in Requests
      BY <1>2, <3>2, HeadOfQueue DEF Typed
    <3>4. HandedOff(object) /\ object.key \in Keys
      BY <1>2, <2>1, <3>2, <3>3 DEF HandoffCopies, Requests, Objects
    <3>5. HandedOff(object)'
      BY <3>4, HandedOffStays
    <3> QED BY <2>1, <3>2, <3>5 DEF HandedOff, Returning, Stored
  <2> QED BY <2>2, <2>3
<1> QED BY <1>1, <1>2 DEF HandoffCopies

-----------------------------------------------------------------------------
(* What a handoff node keeps of what it was handed is in a handoff loop,   *)
(* which will delete it.                                                   *)
HoldsInv ==
    \A entry \in handedOff : db[entry[1]][entry[2].key] = entry[2].value =>
        \E h \in handoffs : h.message.from = entry[1] /\ h.message.object = entry[2]

(* Only HandoffDelete ends a handoff loop.                                 *)
LEMMA HandoffStays ==
    ASSUME IInv, [Next]_vars, crashed' = {}, NEW h \in handoffs, ~HandoffDelete(h)
    PROVE  \E new \in handoffs' : new.message = h.message
<1> USE DEF IInv
<1>1. ASSUME NEW i, CrashEffect(i) PROVE FALSE
  BY <1>1 DEF CrashEffect
<1>2. CASE \E n \in Coordinators : \/ \E k \in Keys : PutStore(n, k) \/ Get(n, k)
                                   \/ \E object \in handlers[n] : PutSubmit(n, object)
  BY <1>2 DEF PutStore, Get, PutSubmit
<1>3. CASE \E n \in Coordinators : WorkerStep(n)
  BY <1>3, NodesAssumption, WorkerFrame
<1>4. CASE \E m \in tasks : TaskStep(m)
  BY <1>1, <1>4 DEF TaskStep, Acknowledge, Commit, HandoffCommit, RespondRead
<1>5. ASSUME NEW x \in handoffs, NEW res \in {0, 1}, HandoffSend(x, res)
      PROVE  \E new \in handoffs' : new.message = h.message
  <2>1. x \in [message : Messages, delivered : BOOLEAN]
    BY DEF Typed, TypeOK, MessagesOK
  <2>2. [x EXCEPT !.delivered = TRUE].message = x.message
    BY <2>1
  <2> QED BY <1>5, <2>2 DEF HandoffSend
<1>6. ASSUME NEW x \in handoffs, HandoffDelete(x)
      PROVE  \E new \in handoffs' : new.message = h.message
  BY <1>6 DEF HandoffDelete
<1>7. CASE \/ \E m \in retries, res \in {0, 1} : Retry(m, res)
           \/ \E n \in Nodes : Restart(n) \/ Snapshot(n)
           \/ UNCHANGED vars
  BY <1>7 DEF Retry, Restart, Snapshot, vars
<1> QED BY <1>1, <1>2, <1>3, <1>4, <1>5, <1>6, <1>7 DEF Next, Crash

LEMMA NextHoldsInv ==
    ASSUME IInv, EntryInv, HoldsInv, [Next]_vars, crashed' = {}
    PROVE  HoldsInv'
<1> USE DEF IInv
<1> SUFFICES ASSUME NEW entry \in handedOff', db'[entry[1]][entry[2].key] = entry[2].value
             PROVE  \E h \in handoffs' : h.message.from = entry[1] /\ h.message.object = entry[2]
  BY DEF HoldsInv
<1>1. ASSUME NEW m \in tasks, HandoffCommit(m), m.to = entry[1], m.object = entry[2]
      PROVE  \E h \in handoffs' : h.message.from = entry[1] /\ h.message.object = entry[2]
  <2> DEFINE h == [message |-> Message(6, m.to, m.intended, m.object, 0), delivered |-> FALSE]
  <2>1. h \in handoffs'
    BY <1>1 DEF HandoffCommit
  <2>2. h.message.from = entry[1] /\ h.message.object = entry[2]
    BY <1>1 DEF Message
  <2> QED BY <2>1, <2>2
<1>2. CASE entry \notin handedOff
  <2>1. PICK m \in tasks : HandoffCommit(m) /\ entry = <<m.to, m.object, m.intended>>
    BY <1>2, NewHandoffs
  <2> QED BY <1>1, <2>1
<1>3. CASE entry \in handedOff
  <2> DEFINE x == entry[1]
             k == entry[2].key
  <2>1. /\ x \in HandoffSet /\ x \in Nodes /\ entry[2] \in Written /\ k \in Keys
        /\ entry[2] = [key |-> k, value |-> entry[2].value]
        /\ puts \in Nat /\ entry[2].value \in 1..puts
        /\ db \in [Nodes -> [Keys -> 0..puts]]
    BY <1>3, HandoffNodes DEF EntryInv, Written, Objects, NoValue, Typed, TypeOK, StoresOK
  <2>2. ASSUME NEW h \in handoffs, HandoffDelete(h), h.message.from = x, h.message.object.key = k
        PROVE  FALSE
    <3>1. db'[x][k] = NoValue
      BY <2>1, <2>2 DEF HandoffDelete
    <3> QED BY <2>1, <3>1 DEF NoValue
  <2>3. CASE db'[x][k] = db[x][k]
    <3>1. PICK h \in handoffs : h.message.from = x /\ h.message.object = entry[2]
      BY <1>3, <2>3 DEF HoldsInv
    <3>2. ~HandoffDelete(h)
      BY <2>2, <3>1
    <3>3. \E new \in handoffs' : new.message = h.message
      BY <3>2, HandoffStays
    <3> QED BY <3>1, <3>3
  <2>4. ASSUME PutStore(x, k) PROVE FALSE
    <3>1. db'[x][k] = puts + 1
      BY <2>1, <2>4 DEF PutStore
    <3> QED BY <2>1, <3>1
  <2>5. ASSUME NEW m \in tasks, Commit(m) PROVE m.to # x
    <3>1. MessageSound(m) /\ m.code \in {2, 6}
      BY <2>5 DEF MessageInv, Commit
    <3>2. m.to \in TargetSet
      BY <3>1 DEF MessageSound, EntryInv
    <3> QED BY <2>1, <3>2, HandoffNodes
  <2>6. ASSUME NEW m \in tasks, HandoffCommit(m), m.to = x, m.object.key = k
        PROVE  m.object = entry[2]
    <3>1. m.code = 5 /\ m.object \in Written
      BY <2>6 DEF HandoffCommit, Typed, TypeOK, MessagesOK, Messages
    <3>2. m.object = [key |-> m.object.key, value |-> m.object.value]
      BY <3>1 DEF Written, Objects
    <3>3. db'[x][k] = m.object.value
      BY <2>1, <2>6 DEF HandoffCommit, Set
    <3> QED BY <2>1, <2>6, <3>2, <3>3
  <2> HIDE DEF x, k
  <2>7. CASE db'[x][k] # db[x][k]
    <3>1. \E m \in tasks : HandoffCommit(m) /\ m.to = x /\ m.object.key = k
      BY <2>1, <2>2, <2>4, <2>5, <2>7, DbEffect
    <3> QED BY <1>1, <2>6, <3>1 DEF x
  <2> QED BY <2>3, <2>7
<1> QED BY <1>2, <1>3

-----------------------------------------------------------------------------
(* The inductive invariant of the copies, as long as no process has ended. *)
CopiesInv ==
    EntryInv /\ (crashed = {} => OwnCopies /\ OwnResults /\ QuorumCopies /\ HandoffCopies /\ HoldsInv)

LEMMA CopiesInvariance == Spec => [](IInv /\ CopiesInv)
<1>1. Init => CopiesInv
  <2> SUFFICES ASSUME Init PROVE CopiesInv
    OBVIOUS
  <2>1. \A n \in Nodes : worker[n].pc = "idle"
    BY DEF Init, IdleWorker
  <2>2. \A n \in Coordinators : handlers[n] = {} /\ Len(queue[n]) = 0
    BY NodesAssumption DEF Init
  <2>4. results = {} /\ handedOff = {}
    BY DEF Init
  <2>5. OwnCopies
    BY <2>2 DEF OwnCopies
  <2>6. HandoffCopies
    BY <2>1, <2>4 DEF HandoffCopies
  <2> QED BY <2>4, <2>5, <2>6 DEF CopiesInv, EntryInv, OwnResults, QuorumCopies, HoldsInv
<1>2. IInv /\ CopiesInv /\ [Next]_vars => CopiesInv'
  <2> SUFFICES ASSUME IInv, CopiesInv, [Next]_vars PROVE CopiesInv'
    OBVIOUS
  <2>1. EntryInv'
    BY NextEntryInv DEF CopiesInv
  <2>2. ASSUME crashed' = {} PROVE crashed = {}
    BY <2>2, HistoryGrows DEF IInv
  <2> QED
    BY <2>1, <2>2, NextOwnCopies, NextQuorumCopies, NextHandoffCopies, NextHoldsInv DEF CopiesInv
<1> QED BY <1>1, <1>2, Invariance, PTL DEF Spec

LEMMA CopiesSettle == IInv /\ CopiesInv => SettledCopies
<1> SUFFICES ASSUME IInv, CopiesInv, Settled, crashed = {}
             PROVE  /\ \A res \in results : res.request.isWrite =>
                           LET key == res.request.object.key IN
                           /\ Kept(res.at, key)
                           /\ res.success => Cardinality(Holders(key)) >= W
                           /\ res.handoffNodes > 0 => Holders(key) # {}
                    /\ \A entry \in handedOff : db[entry[1]][entry[2].key] # entry[2].value
  BY DEF SettledCopies, Kept
<1> USE DEF CopiesInv
<1>0. \A entry \in handedOff : db[entry[1]][entry[2].key] # entry[2].value
  BY DEF Settled, HoldsInv
<1> SUFFICES ASSUME NEW res \in results, res.request.isWrite
             PROVE  LET key == res.request.object.key IN
                    /\ Kept(res.at, key)
                    /\ res.success => Cardinality(Holders(key)) >= W
                    /\ res.handoffNodes > 0 => Holders(key) # {}
  BY <1>0
<1> DEFINE key == res.request.object.key
<1>1. key \in Keys /\ Kept(res.at, key)
  BY DEF OwnResults
<1>2. Holders(key) \in SUBSET (1..N - 1) /\ DOMAIN Targets = 1..N - 1
  BY QuorumAssumption, TargetNodes DEF Holders
<1>3. ASSUME NEW target \in TargetSet, db[target][key] # NoValue
      PROVE  \E i \in Holders(key) : Targets[i] = target
  BY <1>3 DEF TargetSet, Holders
<1>4. ASSUME res.success PROVE Cardinality(Holders(key)) >= W
  <2>1. PICK S \in SUBSET TargetSet :
            Cardinality(S) >= W /\ \A target \in S : Promised(res.at, res.request, target)
    BY <1>4 DEF QuorumCopies
  <2>2. \A target \in S : db[target][key] # NoValue
    <3>1. SUFFICES ASSUME NEW target \in S PROVE db[target][key] # NoValue
      OBVIOUS
    <3>2. res.at \in Nodes
      BY NodesAssumption DEF OwnResults
    <3>3. ~Serves(res.at, res.request, target)
      BY <3>2 DEF Settled, Serves
    <3>4. ~Committing(res.request.object, target)
      BY DEF Settled, Committing
    <3> QED BY <2>1, <3>3, <3>4 DEF Promised, Stored
  <2>3. \A target \in S : \E i \in Holders(key) : Targets[i] = target
    BY <1>3, <2>2
  <2>4. Cardinality(S) <= Cardinality(Holders(key))
    BY <1>2, <2>3, TargetsCounted
  <2>5. IsFiniteSet(Holders(key))
    <3>1. 1 \in Int /\ N - 1 \in Int
      BY QuorumAssumption
    <3> QED BY <1>2, <3>1, FS_Interval, FS_Subset
  <2>6. Cardinality(Holders(key)) \in Nat /\ Cardinality(S) \in Nat
    BY <2>5, TargetsFinite, FS_CardinalityType
  <2> QED BY <2>1, <2>4, <2>6, QuorumAssumption
<1>5. ASSUME res.handoffNodes > 0 PROVE Holders(key) # {}
  <2>1. PICK target \in TargetSet : Returning(res.request.object, target)
    BY <1>5 DEF HandoffCopies, HandedOff
  <2>2. db[target][key] # NoValue
    BY <2>1 DEF Settled, Returning, Stored
  <2> QED BY <1>3, <2>2
<1> QED BY <1>1, <1>4, <1>5

(* When everything has come to rest and no process has ended, a written    *)
(* key is at W targets if the write succeeded and at one if it was handed  *)
(* off, at its coordinator unless that held a value of the key for another *)
(* node, and no handoff node has kept a value that it was handed.          *)
THEOREM CopiesAreMade == Spec => []SettledCopies
  BY CopiesInvariance, CopiesSettle, PTL
=============================================================================
