-------------------------- MODULE SerialReplication --------------------------
(***************************************************************************)
(* What the request queue promises to the replication protocol above it,   *)
(* without the queue: replications of one node run one at a time, each     *)
(* produces one result for the request it runs, a request waits only while *)
(* another one is being replicated, and when a replication ends a request  *)
(* submitted before (perhaps the same one) is replicated next.             *)
(* It does not promise that every request has its turn.                    *)
(***************************************************************************)
EXTENDS Naturals

CONSTANTS Requests, Idle   (* Idle stands for no request: it is not in Requests *)

VARIABLES submitted,  (* requests handed to AddRequest so far                *)
          running,    (* the request being replicated, or Idle               *)
          replied,    (* has the current replication produced its result?    *)
          results     (* results produced for each request                   *)

vars == <<submitted, running, replied, results>>

TypeOK ==
    /\ submitted \subseteq Requests
    /\ running \in Requests \cup {Idle}
    /\ replied \in BOOLEAN
    /\ results \in [Requests -> Nat]

Init ==
    /\ submitted = {}
    /\ running = Idle
    /\ replied = FALSE
    /\ results = [r \in Requests |-> 0]

(* A request that finds no replication running starts one at once.         *)
Start(r) ==
    /\ running = Idle
    /\ r \notin submitted
    /\ submitted' = submitted \cup {r}
    /\ running' = r
    /\ replied' = FALSE
    /\ UNCHANGED results

Wait(r) ==
    /\ running # Idle
    /\ r \notin submitted
    /\ submitted' = submitted \cup {r}
    /\ UNCHANGED <<running, replied, results>>

Reply ==
    /\ running # Idle
    /\ ~replied
    /\ replied' = TRUE
    /\ results' = [results EXCEPT ![running] = @ + 1]
    /\ UNCHANGED <<submitted, running>>

Handover(r) ==
    /\ running # Idle
    /\ replied
    /\ r \in submitted
    /\ running' = r
    /\ replied' = FALSE
    /\ UNCHANGED <<submitted, results>>

Finish ==
    /\ running # Idle
    /\ replied
    /\ running' = Idle
    /\ replied' = FALSE
    /\ UNCHANGED <<submitted, results>>

Next ==
    \/ \E r \in Requests : Start(r) \/ Wait(r) \/ Handover(r)
    \/ Reply
    \/ Finish

Spec == Init /\ [][Next]_vars
=============================================================================
