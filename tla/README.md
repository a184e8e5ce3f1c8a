# ShoppiDB in TLA+

ShoppiDB is a Dynamo-style key-value store: ten Go processes (`src/main.go`), each with a redis of
its own in its container, behind an nginx load balancer, used by a shopping cart in the browser.
This directory holds TLA+ models of its protocols, the TLC configurations that check them on small
instances, and TLAPS proofs about them. Paths below are relative to the repository.

## 1. The system

| component | source | state | operations |
|---|---|---|---|
| HTTP handlers of a node | `pkg/node/node.go` | none of their own | `putHandler`, `getHandler`, `replicationHandler`, `gossipHandler`, `checkHeartbeat`, merkle and byzantine handlers |
| request queue | `pkg/data_replication/replication.go` 61-97, `priorityQueue.go` | `Queue`, one result channel per request | `AddRequest`, `HandleNextInQueue`, `Push`, `Pop`, `Front` |
| replication | `pkg/data_replication/replication.go` | `WriteCheck`, `HandoffCheck`, `ReadCheck`, `mu`; goroutines | `ReplicateWrites`, `ReplicateReads`, message codes 0 to 8, `HandleFailedSend`, the handoff loop |
| data versioning | `pkg/data_versioning/clock.go` | the clock inside each stored object | `NewVectorClock`, `UpdateVectorClock`, `DeConflictDataObjects`, `GetResponseDataObjects` |
| gossip | `pkg/gossip/gossip.go` | `CommNodeMap`, `VirtualNodeMap`, `mu` | `Start`, `populate`, `getRandNode`, `clientSendMsgWithHTTP`, `recvGossipMsg`, `CompareAndUpdate`, `verifyNodeDown`, `askMerkle` |
| Merkle trees | `pkg/merkletree/merkletree.go` | `HashNumberToKey`, `mu` | `UpdateMapData`, `InitiateMerkleCheck`, `ReceivedMerkleTree`, `CompareTree` |
| token sets, preference list | `pkg/node/node.go` 376-449 | none | `GenTokenSet`, `GetPreferenceList` (not called) |
| hashing | `pkg/consistent_hashing` | none that is used | `GetMD5Hash` |
| store | `pkg/redisDB`, `wrapper_services.sh` | the redis database and its snapshot | GET, SET, DEL; `--save 60 1` |
| cart client | `shoppi_market/src` (`cartSlice.ts`, `Cart.tsx`, `api.ts`) | the cart, its key and context | reducers, optimistic updates, `putCart`, `getCartByKey` |
| load balancer, containers | `loadBalancer/nginx.conf`, `docker-compose.yml` | | round robin, restart |
| byzantine, nonces, `pkg/api` | `pkg/byzantine`, `pkg/api` | | echo; not imported |

**How they interact.** A client's request goes through nginx to any node, its *coordinator*.
`putHandler` gives the object a vector clock, stores it in its own redis, updates the Merkler and
calls `AddRequest`; `getHandler` calls `AddRequest` at once. `AddRequest` queues the request,
starts a goroutine if there is none, and waits on a channel. The goroutine asks the targets (prep,
code 0) by HTTP POST; a target answers by an HTTP POST of its own (ack, code 1), which
`replicationHandler` of the coordinator turns into an entry of `WriteCheck`. After a second the
goroutine counts the entries, answers the client, and only then sends the value (code 2), for ever
to those that cannot be reached. For each target whose prep failed a handoff node gets the value at
once (code 5), stores it, offers it to the target every two seconds (code 6) and then deletes it.
Reads go the same way with codes 7 and 8, and the answers are reconciled by
`GetResponseDataObjects`. Gossip runs beside all this and shares nothing with it, because the
handlers use a preference list written into the code. Gossip does start the exchange of Merkle
trees: a node that hears again of one it took for down, and that follows it within two ids, asks
itself over HTTP (`askMerkle`) to send that node its trees; the receiver compares them with its own
and asks for the values of some keys.

**What is hard.**
Several goroutines per node share the fields of one `Replicator`, some of them without its lock;
messages carry no request id; a time-out does not tell whether a message was delivered; the worker
waits a fixed second; goroutines in retry loops die with the process; redis returns to its last
snapshot; gossip messages cross, rumours of a failure outlive the failure, and a node comes back
with other tokens; trees and redis are written one after the other. PROJECT.json lists
each of these at its line under `hazards`, with the properties that are aimed at it.

**What makes each part correct.** The queue: one replication at a time, no queue that is not
served, an answer for everybody (the last does not hold). Replication: no commit without a quorum,
replies counted only for their own request, no successful write and no handed-off value lost but
with a process, no copy without a reason, no left-over copies, retries that end. Versions: an
ancestor is recognised and never wins, and nothing else is taken for one without a repeated count.
Gossip: no node takes itself for down, no rumour without failures, the ring keeps up with the map,
everybody gets to know everybody. Tokens: as many different ranges as were asked for, a preference
list that goes once round the nodes that are alive. Merkle trees: a tree is of what redis holds, an
exchange ends, and brings the values of the other node (the last does not hold).

## 2. Modules

| module | models | composed with |
|---|---|---|
| `RequestQueue` | `AddRequest`, the worker chain, `HandleNextInQueue`, the slice, the channels | implements `SerialReplication` |
| `SerialReplication` | the abstract specification: one replication at a time, one result each, no promise of a turn | |
| `DataVersioning` | the functions of `clock.go`, as operators | extended by `VersionedReads` |
| `VersionedReads` | clocks in `putHandler`, `ReadCheck`, `checkReadQuorum`, clients that write with a context | |
| `Replication` | `ReplicateWrites`, `ReplicateReads`, all message handlers, `putHandler`, `getHandler`, crashes, restarts, snapshots, over a lossy network | implements `ReplicaSet`; one worker per node, as `SerialReplication` allows |
| `ReplicaSet` | the abstract specification: why a node may store a value, with any faults | |
| `Gossip` | `pkg/gossip` with crashes and restarts | says when entries travel, which `TokenRing` leaves open |
| `TokenRing` | `GenTokenSet`, `VirtualNodeMap`, `GetPreferenceList` | |
| `Merkle` | `pkg/merkletree`, the merkle handlers, `askMerkle`, crashes, redis beside the trees | with the mutex whose lack `Replication` models |
| `RequestQueueProofs`, `VersionedReadsProofs`, `TokenRingProofs`, `GossipProofs`, `MerkleProofs` | theorems about these modules and their proofs | |
| `ReplicationTypes`, `ReplicationProofs` | the same about `Replication`: types and the phases of the worker; the safety properties, the refinement, and where the copies are in the end | the second extends the first |
| `Loops` | lemmas about recursive functions over integers: existence, induction | extended by `VersionedReadsProofs` and `TokenRingProofs` |
| `MC...` | instances for TLC: preference lists, workloads, scenarios, symmetry sets | |

Operators and actions have the names of the functions they stand for where there is one; a function
that blocks or sends is cut into one action for each stretch between two points where another
goroutine or node can be seen. PROJECT.json's `map` names the lines of each definition.

### RequestQueue
`queue` is the slice, `caller[r]` the goroutine in `AddRequest`, `worker[r]` the chain of
goroutines that the call of r started, `chan[r]` the number of results in its channel. One critical
section of `queueLock` is one action. What a replication does is left out: it produces a result
(`SendResult`) and goes on. Mutants aside, the one thing assumed is that no request has the zero
timestamp, by which the code recognises an empty queue.

### DataVersioning and VersionedReads
A clock is a function from the node ids it mentions to counters, an object a key, a value and a
clock, a Go map from keys to objects a function whose domain is the set of keys. `VersionedReads`
lets a coordinator write a new object or one derived from any version (a read or the answer to a
PUT may have returned it), and lets each responder answer with any version of the key or none:
more than any replica may hold, so what holds here holds over `Replication`. The order in which the
map of answers is iterated is chosen freely. `past` and `by` are history: what each version was
derived from, and whose PUT it was. Clocks are only as good as the contexts that clients send:
two PUTs with one context through one coordinator get equal clocks, and one of them is lost without
having been seen. `FalseAncestorsShareACount` says that nothing else has this effect: if `u` is
taken for an ancestor of `v` without being one, some coordinator gave the same count to two versions.

### Replication
Each node has a database, a snapshot, a queue and one worker. `tasks` holds the messages whose
handler has answered 202 and started a goroutine which has not finished; sending is delivering to
`tasks`, or failing, or both (`Send`). Acks and read replies take effect within the goroutine that
sends them. `worker[n].pc` is the statement the goroutine of `ReplicateWrites` or `ReplicateReads`
is at. Values are numbers in the order of the PUTs. `applied`, `handedOff`, `results`, `crashed` and
the values in `writeCheck` are history: the code keeps none of them. A result also has the messages
that were still unanswered when it was given (`late`); `TooLate` collects those of a node, whose
replies come after the second of the request they are for.

`ReplicaSet` has five actions: a PUT is asked, it succeeds, a read shows values, a node holds a value
for another, and a node copies a value. A node other than the coordinator stores a value only if the
write was answered with success or a third node held it for that node. There is nothing about
messages, timing or crashes in it, so that what `Replication` implements is the promise that
survives all of them: `ImplementsReplicaSet` is checked in the run with a crash, a restart and
replies at any time, where `applied`, `handedOff` and `results` are mapped to its variables, and
proved for any number of these (section 4). That
copies are made at all is the business of `SuccessOwedOrCopied`: a write that was answered with
success is at another node than its coordinator, or a commit of it is due, under way or being
retried, or the coordinator or a target has ended since.

Two equal messages pending at the same time are one task; the second of two equal deliveries does
nothing that the first did not, as storing a value twice in a row is storing it once, but a second
delivery after the first was *processed* is modelled.

`MerklerReady` says whether the Merkler has its mutex and its trees. `main.go:40` gives it neither,
so that as wired every PUT ends in a panic after the value was stored (run `ReplicationAsWired`).
The other runs set it to TRUE: they show what the replication protocol does once it is reached.
`Timely` says whether replies arrive within the second that the worker sleeps. Nothing in the code
makes them: `Timely` is FALSE in the runs `ReplicationRequests` and `ReplicationCrash`, and no theorem
assumes it. The other runs set it to TRUE to have fewer states.

### Gossip
A node's key in the maps and the digit of its container name are one number. A token set is named by
the life of the node that drew it, since `main.go` draws one at every start and the code compares
nothing but lengths, which are equal. The ranges of each token set are part of the scenario, and
several nodes may have drawn the same. `virtualNodeMap` is the ring: a function from ranges to the
node that was entered for them last. Entering a token set overwrites (`Entered`): where several of
the nodes that are entered together drew a range, it is the one that comes last in the iteration
over the Go map, and `LastDrawers` has the outcomes of every order. An
entry's `Id` is not modelled: exactly the entries that `populate` makes have none, and those are the
ones without tokens.

`CompareAndUpdate` and `recvGossipMsg` are one action each: they hold `g.mu` throughout, also while
they call `verifyNodeDown`. Both call the same operators (`Heard`, `Adopted`, `Merge`), with the two
differences the code has: the server excludes its own entry and enters no ranges for nodes it knew.
Requests that a node sends to itself, when it draws a number that is no key, change nothing and are
left out; what `askMerkle` starts is module `Merkle`. The map that is sent is the map at the time of
sending (the code marshals the live map, without the lock).

An exchange that fails counts against the server, also when it was processed and only the answer is
lost; an answer that comes and cannot be decoded is dropped and not counted (`ReplyLost` allows
both).

`RingMatchesMap` is what the overwriting leaves true. Every range in the ring belongs to a node in
the map that drew it in one of its lives; and every range that a known node drew, seeds excepted, is
in the ring, though perhaps as the range of another node that drew it too. A node that is known may
own no range at all, when each of its ranges was drawn and entered again: `GetPreferenceList` would
never begin with it.

`TokensChangeWithRumours` is what a restart comes to: the others keep the token set of the life
before, as the new one is not longer. Only when a rumour that the node is down reaches them from
somebody who has met it since do they take the new one, and then `CompareAndUpdate` puts it into the
map and leaves the ring as it was. A seed that restarts even gets its own old tokens back, from the
answer of a node that knew it. A later version that hands requests to `GetPreferenceList` would have
nodes disagree about ranges for good.

### TokenRing
Each draw of `GenTokenSet` is an action, so that every sequence of random numbers is covered, the one
with a duplicate included: `dup` stays TRUE and the loop never ends (`Redraw` has nothing to redraw
and `AddToken` is not enabled). The maps are reduced to what `GetPreferenceList` reads: which nodes
are known, whether the entry has an `Id` and tokens, and whose each range is. When entries travel is
left open (`AdoptComplete`, `AdoptSeed`), which gives more states than gossip does.
`PreferenceOrder` evaluates `GetPreferenceList` for every range and every set of nodes that are down
in every such state. A node that knows a seed only through `populate` takes it for node 0, and a
range that nobody is known to own has primary 0.

### Merkle
`db[n]` is redis and `tree[n]` the maps `M` of all hash numbers together: the trees are a function of
them (`Leafs`). A value is what the client sent and the number of times it has been wrapped in JSON:
`merkleUpdate` returns the JSON of the stored object, which `ReceivedMerkleTree` stores as the value
of a new object. `PutStore` and `UpdateMapData` are the two steps of `putHandler`; `OtherWrite` is
every write of a replication message, none of which tells the Merkler. An answer is applied key by
key, in any order: first the tree (`ApplyToTree`), then redis (`ApplyToStore`), with `mu` held from
the first key to the last (`MuFree`), so that other users of the trees wait but `SET`s of PUT and
replication handlers come in between.

Three things decide whether the code does anything at all, and the model leaves two of them open. The
mutex, which `main.go` does not make: here it is there. The entries of `HashNumberToKey`, which
nothing makes: a member of `Wirings` says which there are. Whether a tree that is not empty can be
sent: the library is not in the repository, and its nodes point back to their parents, which
`encoding/json` refuses; `CheckSent` allows either.

What holds over all of them is `TreeMatchesStore`. Tree and redis have two kinds of writers that
write both, PUT handlers and goroutines that apply an answer, and one that writes redis only, the
replication messages. The property says: from the moment on that a writer of both has written a key
to the two, with no other writer of that key in between, tree and redis agree on it until the next
write. It excuses, by `Writing`, a key that somebody has written to one of the two and not yet to
the other; and, by `overlaps`, a key that a replication message wrote, or on which two writers
overlapped, until a writer of both has it to itself again. That the two differ there is what the
code does: nothing tells the Merkler of replicated values, and two PUTs of a key may reach redis in
one order and the tree in the other.

What the exchange brings is nothing: the message that carries a tree names its *receiver*
(`MerkleCheck`), who then asks itself for the keys (`MerkleUpdate`) and gets its own values, wrapped
in JSON once more. `MerkleWorkEnds` is about nodes with all entries; a missing one leaves `mu`
locked, and every later PUT of the node hangs.

## 3. Runs

Bounds are CONSTANTS whose names begin with Max, `Workloads` and `Scenarios`; `ChanCap` is the code's
10 made smaller, as are `NumTokens`, `MaxStart` and `MaxId` of `TokenRing` its 6, 63 and 9. All runs pass `CHECK_DEADLOCK FALSE`: the clients' requests are bounded, and a system
without requests rests; in `RequestQueue` the worker may also block for good, which
`WorkerNotBlocked` and `OpenerAnswered` are about. `ReplicationRequests` and `VersionedReads`, which
check no liveness, have a symmetry set, of the keys and of the nodes: nothing tells one key from
another, or one coordinator.

| run | properties | instance | what it shows |
|---|---|---|---|
| `RequestQueue` | `TypeOK SingleFlight QueueServed RunsHead ImplementsSerialReplication OpenerAnswered WorkerNotBlocked` | 4 requests, capacity 2, fairness | several busy periods, requests that arrive in every state of the worker, a full channel; the queue implements `SerialReplication` |
| `VersionedReads` | `TypeOK AncestorsAreStale AnswerNotDominated FalseAncestorsShareACount` | 3 nodes, 1 key, 4 versions, 2 responses, symmetry of the nodes | every history of four versions, both orders of two answers, contexts used twice |
| `ReplicationRequests` | `TypeOK AcksAreForThisWrite ReadAnswersOwnKey HandoffNotLost SettledCopies` | nodes 1 (coordinator), 2 (target), 3 (handoff); 2 keys; 2 PUTs, or 1 PUT and 2 GETs; replies at any time; symmetry of the keys | writes, and reads of different keys, whose messages overlap, with replies that come within the second and after it |
| `ReplicationCrash` | `CommitsFollowQuorum LeakNeedsRestart HandoffNotLost SuccessOwedOrCopied ImplementsReplicaSet` | the same nodes, 1 PUT, 1 GET, 1 crash, replies at any time | restarts in every state; what survives them, and that only the processes concerned can lose a write or a handoff |
| `ReplicationWide` | `SettledCopies SuccessfulWriteIsCopied HandoffReturns WorkerReturns` | N = 3, R = W = 2, 5 nodes, coordinators 1 and 4, of which 4 is a handoff node, a PUT or a GET, fairness | failed preps and failed handoffs in every combination; retries that end; a handoff node that deletes the copy it has as the coordinator |
| `Gossip` | `TypeOK SelfEntrySound DownNeedsThreeFailures RingMatchesMap TokensChangeWithRumours` | 5 ranges, 2 tokens, three scenarios: 2 seeds, 3 messages, 4 failures, 1 crash; 3 nodes that draw equal tokens, 1 message, 3 failures; 3 nodes, 1 message, 3 failures and 1 crash of the one that is no seed | messages that cross; rumours passed on by a third node; rumours about a node that has restarted; ranges that several nodes drew, one or all of them |
| `GossipLive` | `MembershipSpreads` | 3 nodes, 1 message, 1 crash, fairness | the node that is no seed and the second seed meet through the others, also after a restart |
| `TokenRing` | `TypeOK TokensDistinct PreferenceOrder StartsUnlessDuplicate` | nodes 1 and 3 of the ids 0 to 4, node 1 the seed, 3 tokens of a ring of 5 ranges, fairness | all sequences of draws, tokens of two nodes that collide, entries with and without an Id, every set of dead nodes |
| `Merkle` | `TypeOK TreeMatchesStore MerkleWorkEnds` | 2 nodes, 2 keys of one hash number, 2 values, 3 writes, 2 exchanges, fairness | trees that are equal, that differ and that agree in part, an empty tree, missing entries, two comparisons at a time, PUTs and replicated writes between the steps of an answer being applied |

Why the bounds are enough. In `RequestQueue` a request is discarded when two are queued and the
worker can block for good when `ChanCap` + 2 come in, which is what the four requests are. In
`Replication` one write has a handoff, a retry and late messages already; two requests are what it
takes for one to disturb the other (`Workloads` is the set of the mixes of requests). In `Gossip` a
rumour takes three failures to start and a third node to be passed on; a fourth failure is one that
comes after a restart. Two tokens of five ranges are enough for two nodes to share one range, or
both, and for a restarted node to give up one and keep another. A scenario limits how many exchanges
overlap and to which nodes faults befall: two in flight at three nodes, together with failures
everywhere, are beyond the time a run should take. In `TokenRing` three tokens allow a duplicate of
either of two, a node's id is neither the least nor the greatest, and there are ids that no node has
on both sides of it. In `Merkle` it
takes three writes for two trees that have one of two values in common, and a second number to see
what an empty tree and a list of several numbers do.

`AnswerNotDominated` is checked for two responses, which is what N = 2 gives. With three (N = 3) it
does not hold: every pair is compared and the last one decides, so an older pair compared later can
put a stale version back.

Some properties are checked without crashes because they need that: a coordinator or a handoff node
that restarts has lost its retry loops (`SuccessfulWriteIsCopied`, `HandoffReturns`; the invariants
`SuccessOwedOrCopied` and `HandoffNotLost` say whose crash it takes). `AcksAreForThisWrite` and
`ReadAnswersOwnKey` are checked with replies at any time. No message names its request, so a late
reply is counted for the request that is at the head by then; the two say that nothing else is: where
an ack or answer of another request is counted, it was too late for its own. Both speak of nodes in their first life:
a message that an earlier life sent is answered to the one after it. `SettledCopies` is about
executions in which no process ends. A coordinator keeps its copy unless a value of the same key was
handed to it for another node, whose deletion takes the copy along (`HeldFor`); in `ReplicationWide`
node 4 is such a coordinator, and `ReplicationHandoffDelete` shows what it loses.

`StartsUnlessDuplicate` excuses the draws in which the endless loop of `GenTokenSet` begins.

### Runs that end in a violation
Each checks one statement of a comment or a log line of the repository that the code does not keep;
PROJECT.json quotes the lines under `findings`.

| run | what the counterexample shows |
|---|---|
| `RequestQueueCalls` | a request that waits behind another is never answered: `Pop` discards the newest request, not the one that was replicated |
| `ReplicationHandoffDelete` | the handoff node deletes a newer value of its own |
| `ReplicationAsWired` | a stored PUT is never replicated, because the Merkler has no mutex and panics |

More statements of comments and names are not kept, which the models show without such a run: of two
conflicting versions of a key the client gets one, as the result map has one place per key, although
"semantic reconciliation is required at the client" if there are several (`clock.go:77`; `OuterLoop`
of `GetResponseDataObjects`); the exchange of Merkle trees, which is to
"ask for updated data based on key" (`merkletree.go:127`), asks the node that needs the data
(`MerkleUpdate`); handoff nodes never count towards W, since nothing sends codes 3 and 4
(`HandoffCheck` is the empty set; `replication.go:254`); an ack that reaches a restarted coordinator panics with `mu` locked
(`Acknowledge`; `LeakNeedsRestart` says that this is the only way; `replication.go:391`); and a
rumour that a node is down is always verified (`VerifyNodeDown` is TRUE; `gossip.go:223`).

### Fairness
`RequestQueue`, in both runs: weak fairness of each goroutine with something to do; clients need not
send.
`Replication`: weak fairness of the workers, the handlers' goroutines and restarts (docker's
`restart: unless-stopped`); strong fairness of the *successful* attempt of a send that is repeated
for ever, since `HandleFailedSend` and the handoff loop end in no other way. Preps, acks and
queries are sent once and may all be lost: nothing is assumed of them. `Gossip`: weak fairness of
the goroutines, strong fairness of sending to each target that can be drawn again and again, which
is what `rand.Intn` gives with probability one; `GossipLive` has no failed
exchanges, so it shows that the choice of targets and the merging are enough, not that the network
is. `TokenRing`: `GenTokenSet` runs; nothing is assumed of the numbers drawn. `Merkle`: weak fairness
of the goroutines and restarts, and strong fairness of the answer to a request that a node sends to
itself again and again; exchanges need not start.

### Mutants
Next to some definitions there is a second one with a comment "Mutant of ...": the same definition
with a plausible mistake in it. PROJECT.json pairs each property of each passing run with one:
with the mutant in place of the definition that run reports that property as violated. Nothing uses
the mutants otherwise.

## 4. Proofs

Every theorem holds for all values of the constants that satisfy the named assumptions of its module;
TLC evaluates those on every run. Every invariant of a passing run, both refinements and the action
property of run `Gossip` are proved; the exceptions at the end of this section are the liveness
properties.

### The queue
`RequestQueueProofs` proves for every set of requests and every capacity:

- `TypeCorrect`, `OneReplicationAtATime`, `QueueIsServed` and `HeadIsReplicated`: the four
  invariants of run `RequestQueue`;
- `QueueRefinesSerial`: `Spec => Serial!Spec`.

They rest on the two assumptions of the module: the capacity is positive, `Idle` is no request.
Apart from `TypeOK` none of the properties is inductive. `IInv` adds `OpenersOnly` to them: the
request an active worker runs was submitted and opened a busy period, and only such requests have
results in their channels. The refinement needs this; `RunsHead` needs `QueueServed`;
`SingleFlight` needs `QueueServed` too (a second worker starts only when the queue is empty, and
then there is no first), and `QueueServed` needs `SingleFlight` (when the worker that empties the
queue ends, no other must be active): they are proved together. For the refinement each action maps
to a step of `SerialReplication` or a stutter; `HandleNextInQueue` is `Handover` or `Finish`
according to whether the queue is empty after the pop, and `SendResult` is `Reply`.

### Versions
`VersionedReadsProofs` proves `DescendantsAreNewer`: `Spec => []AncestorsAreStale` for any nodes,
keys and number of writes, over lemmas about the operators of `DataVersioning` (staleness is
transitive, an updated clock is strictly newer). The invariant is strengthened by `History`: the
typing of the clocks, without which counters could not be compared, and that a version derives from
earlier ones.

`OnlySharedCountsDeceive`: `Spec => []FalseAncestorsShareACount`, also for all instances. Its
invariant `CountsGiven` says where a count in a clock comes from: the coordinator gave it to the
version itself or to one of its past. A version that is stale to another without being in its past
has its coordinator's count in a clock where another version must have brought it.

`NewestIsReturned` (`AnswerNotDominated`) and `TypeCorrect` are about what the two nested loops of
`GetResponseDataObjects` compute. They are recursive functions here, and three lemmas say what is
left when they end, for any number of objects: the result has each object under its own key
(`InnerLoop`, `OuterLoop`); it has the key of every response, because the first object is a zero
object, which is stale to all, so that the first pass of the outer loop stores them all; and it is
what the last pair makes of an earlier map (`ResponseObjects`). With at most two responses
(`MaxResponses <= 2`, the theorem's assumption and what N = 2 gives) the last pair is the
two responses, or a zero object and the only one, and `LastPair` shows that its decision is right.
For three responses the statement is false (section 3), and the proof shows where it takes two: a
third response is in no last pair. `ReadInv` supplies what a read is: answers are versions of one
key or zero objects, and the map has no more of them than may answer.

### Loops
A function defined by recursion is a `CHOOSE` in TLA+, of which nothing is known until such a
function is shown to exist. `Recursion` shows it for a loop from m to n whose passes map a set to
itself, by induction (`Induction`, `LoopInduction`). The induction is over sets of
numbers, as the library's theorems over operators cannot be used with the provers at hand: a set of
natural numbers has a least one (`LeastNumber`) because finite sets are well-founded by inclusion,
which the library has, and a number is less than another exactly when its interval is included.

### Replication
The assumptions: coordinators are nodes, N and W are positive, the preference list has different
nodes and more of them than the targets and handoff nodes of a write (else `getNodes` reads position
0 and sends to node 0), `NilMap` is no map. Nothing is assumed of the number of requests, crashes or
lost messages.

`ReplicationTypes` proves `TypeCorrect`. `TypeOK` is not inductive: that `failedTargets[count]` is in
range, that the worker's request exists and that the map it counts in is not nil depends on the
statement it is at. `WorkerInv` says so: the worker is idle exactly when its queue is empty, in the
phases of a write the head of the queue is a write and `WriteCheck` has been made, in the handoff
phase fewer handoffs are done than preps failed.

`ReplicationProofs` proves the safety properties from `IInv`, which adds two parts.
`MessageInv` says what a message stands for while it is pending, retried or offered by a handoff loop:
a commit is of a write that its sender has answered with success, code 6 is of something handed off,
code 5 goes to a handoff node. `CommitInv` says that a worker which has answered, or commits,
has a successful result of the very request at the head of its queue.

| theorem | property | what it takes beside `IInv` |
|---|---|---|
| `CommitsAreEarned` | `CommitsFollowQuorum` | |
| `LeakOnlyAfterRestart` | `LeakNeedsRestart` | `LifeInv`: in a first life no prep is pending before the first map was made |
| `HandoffsAreKept` | `HandoffNotLost` | itself; every action that takes a message away stores it or is a crash |
| `SuccessIsOwed` | `SuccessOwedOrCopied` | `OwedInv`, the same with the worker's two phases told apart: the due nodes of a worker that begins to commit are not empty, as a success takes W > 0 acks |
| `AcksBelong` | `AcksAreForThisWrite` | `PromptInv`: a prep or query that is pending is of the request at the head, or was too late for its own (`LateAck`, `LateAnswer`) |
| `ReadsOwnKey` | `ReadAnswersOwnKey` | the same |
| `ReplicationRefinesReplicaSet` | `ImplementsReplicaSet` | `AnswerWrite` is `Succeed`, `HandoffCommit` is `Hold`, a commit is `Copy`, for the reason that `MessageInv` has kept |

None of these assumes `Timely`: they hold with replies at any time, and also for instances where
replies are prompt.

It also proves `CopiesAreMade`: `SettledCopies` for any N, W, number of requests and set of
coordinators, handoff nodes among them, as in the deployment. The property speaks of the end of an
execution; `CopiesInv` says of every state on the way where each copy that is owed is. A success
is a set of W targets each of which has the value, is sent it by a pending or repeated commit, or is
among those the worker is still to commit to (`QuorumCopies`); a handoff is a target that has the
value, or a chain that leads there (`HandoffCopies`); a coordinator has what it stored, as long as
the write waits (`OwnCopies`) and after it was answered (`OwnResults`), unless it was handed a value
of the key for another node; and a value that was handed to a node has a loop that will delete it
(`HoldsInv`). That only handoff nodes are handed anything (`EntryInv`) is why targets keep their
copies.

### Gossip
`GossipProofs` proves the four invariants and the action property of run `Gossip`, for any nodes,
seeds, messages under way, failures and crashes. What a node takes over was in a map that was sent
some time ago, so that the invariant must hold of the maps in `requests` and `replies` as well, and
differently: a request's map has its sender in it, and not down, since every node has itself so; a
reply's map has its receiver in it only if that is a seed, and not down, since an answer has the
seeds and what the asker's map lacked, and the server has just reset the asker's entry. From this no
merge can bring a node a bad entry of its own, although nothing in `recvGossipMsg` excludes that
(`OwnEntryIsSafe`). `Sound` keeps for every map, wherever it is, that an entry says down only after
three failures (`NobodyIsSlandered`) and that only seeds are without tokens, which is why
`CompareAndUpdate` can forget the ranges of nodes it knows and `RingFollowsMap` still holds. Of the
ring (`RingSound`) it takes that no range is ever taken out again, only given to another node, and
that whoever is entered has drawn the range, whatever the order of the iteration. The counts of
failures that a rumour rests on are bounded by the number of failures there were.
`TokensStay` needs of the invariant that nobody's map says of its sender that it is down: otherwise a
merge could replace tokens by the way of marking the sender up again.

### Tokens
`TokenRingProofs` proves `TypeCorrect` (`TypeOK`, which says whose the ranges in a ring are) and
`DifferentTokens` (`TokensDistinct`) for any ring, any number of tokens, any seeds and all numbers
drawn, from the assumption that the constants are natural numbers. The invariant adds that no
list of tokens has a number twice, that a number is considered only while tokens are missing, and
that a node has entries only with all of its tokens; a lemma counts the elements of a list without
duplicates.

`ListsGoRound` is `PreferenceOrder` for any greatest id: `ListedIds` says, by induction over the loop
variable, that each loop lists its ids in increasing order and no others; `RoundTheRing` that the
second list goes on, clockwise, where the first ends. `TypeOK` makes the primary node an id in range,
so that neither loop begins beyond its end.

### Merkle trees
`MerkleProofs` proves the two invariants of run `Merkle` for any keys, hash numbers, wirings and
numbers of writes and exchanges. `TypeCorrect` needs nothing more; that one goroutine of a node at a
time is between the first and the last key of an answer is a part of `TypeOK`. `TreesAgree` needs two
facts about keys that are between their two writes. `HandlersInv`: unless writers of the key
overlapped, a PUT handler carries the value that redis has, and neither another PUT handler nor a
goroutine that applies an answer is between its writes of that key. `AppliedInv`: what a goroutine is
about to store is what the tree has, since nobody else gets `mu` before it has stored it.

### Only model-checked
Liveness under fairness: `OpenerAnswered`, `WorkerNotBlocked`, `WorkerReturns`, `HandoffReturns`,
`SuccessfulWriteIsCopied`, `MembershipSpreads`, `StartsUnlessDuplicate`, `MerkleWorkEnds`. The
prover does no `ENABLED`.

## 5. Not modelled, and the plan

Not modelled: rendering and navigation of the shop; nginx's failure counting; hashing (arithmetic on
big floats, of which a constant function is left in `Merkle`); byzantine messages (an echo that keeps
no state); `pkg/api` (not imported); errors of redis; decoding errors of requests. The reducers of
the cart client and its optimistic updates are not modelled either: what reaches the nodes from it,
PUTs with the context of any earlier answer, is in `VersionedReads`. `redis` in `Merkle` comes back
from a crash with some of its keys, not with older values of them, as `Replication` has it.

The order of the work, by importance to the system:

1. done: the queue, versions, replication with its abstract specification, gossip with restarts,
   tokens, Merkle trees, and the proofs above;
2. a module for the cart client: reducers, optimistic updates and answers that come out of order,
   over `DataVersioning`.
