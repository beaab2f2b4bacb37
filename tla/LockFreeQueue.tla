---------------------------- MODULE LockFreeQueue ----------------------------
(***************************************************************************)
(* util/lock_free_queue.hpp: the linked queue that carries functors from   *)
(* any thread to the thread of an EventLoop.  One action per atomic access *)
(* to shared memory.  Nodes come from and go back to an allocator that may *)
(* hand a freed address out again at once.                                 *)
(***************************************************************************)
EXTENDS Naturals, Sequences, Functions

CONSTANTS
  Producers,  \* threads that call enqueue
  Node,       \* addresses of DataNode objects
  NoNode,     \* nullptr
  Value,      \* T
  NoValue     \* data_ == nullptr, and the output of a dequeue that failed

ASSUME NodeAssumption == Node # {} /\ NoNode \notin Node
ASSUME PayloadAssumption == NoValue \notin Value

VARIABLES
  head,       \* head_: the node enqueued last
  tail,       \* tail_: the dummy in front of the first element
  next,       \* next_ of every address
  data,       \* data_ of every address
  allocated,  \* addresses that hold a live DataNode
  pc,         \* per producer: where it is in enqueue
  node,       \* per producer: enqueue's local `node'
  prev,       \* per producer: enqueue's local `prev'
  cpc,        \* where the consumer is in dequeue or in the destructor
  cnode,      \* dequeue's local `next' (at "take"), then its local `tail'
  output,     \* outcome of the last completed dequeue
  closing,    \* the destructor has begun
  chain       \* history: the nodes from tail to head in the order of the
              \* exchanges, linked or not (never read by the algorithm)

producerVars == <<pc, node, prev>>
consumerVars == <<cpc, cnode, output, closing>>
vars == <<head, tail, next, data, allocated, producerVars, consumerVars, chain>>

TypeOK ==
  /\ head \in Node /\ tail \in Node
  /\ next \in [Node -> Node \union {NoNode}]
  /\ data \in [Node -> Value \union {NoValue}]
  /\ allocated \subseteq Node
  /\ pc \in [Producers -> {"idle", "exchange", "link"}]
  /\ node \in [Producers -> Node \union {NoNode}]
  /\ prev \in [Producers -> Node \union {NoNode}]
  /\ cpc \in {"idle", "take", "reclaim", "destroyed"}
  /\ cnode \in Node \union {NoNode}
  /\ output \in Value \union {NoValue}
  /\ closing \in BOOLEAN
  /\ chain \in Seq(Node)

(* LockFreeQueue(): one dummy node, head_ and tail_ both point to it. *)
Init ==
  \E dummy \in Node :
    /\ head = dummy /\ tail = dummy
    /\ next = [n \in Node |-> NoNode]
    /\ data = [n \in Node |-> NoValue]
    /\ allocated = {dummy}
    /\ pc = [p \in Producers |-> "idle"]
    /\ node = [p \in Producers |-> NoNode]
    /\ prev = [p \in Producers |-> NoNode]
    /\ cpc = "idle" /\ cnode = NoNode /\ output = NoValue
    /\ closing = FALSE
    /\ chain = <<dummy>>

(* The slips the properties must notice: each variant below stands for a   *)
(* plausible bug of the definition that follows it.                        *)

(* next_ without its initializer keeps whatever the address held before. *)
EnqueueNewKeepsNext(p, v) ==
  /\ pc[p] = "idle" /\ ~closing
  /\ \E n \in Node \ allocated :
       /\ allocated' = allocated \union {n}
       /\ data' = [data EXCEPT ![n] = v]
       /\ node' = [node EXCEPT ![p] = n]
  /\ pc' = [pc EXCEPT ![p] = "exchange"]
  /\ UNCHANGED <<head, tail, next, prev, consumerVars, chain>>

(* enqueue: new DataNode(input) at any address that is free. *)
EnqueueNew(p, v) ==
  /\ pc[p] = "idle" /\ ~closing
  /\ \E n \in Node \ allocated :
       /\ allocated' = allocated \union {n}
       /\ data' = [data EXCEPT ![n] = v]
       /\ next' = [next EXCEPT ![n] = NoNode]
       /\ node' = [node EXCEPT ![p] = n]
  /\ pc' = [pc EXCEPT ![p] = "exchange"]
  /\ UNCHANGED <<head, tail, prev, consumerVars, chain>>

(* prev = head_.exchange(node): the element's place in the order. *)
EnqueueExchange(p) ==
  /\ pc[p] = "exchange"
  /\ prev' = [prev EXCEPT ![p] = head]
  /\ head' = node[p]
  /\ pc' = [pc EXCEPT ![p] = "link"]
  /\ chain' = Append(chain, node[p])
  /\ UNCHANGED <<tail, next, data, allocated, node, consumerVars>>

(* prev->next_.store(node): the element becomes reachable. *)
EnqueueLink(p) ==
  /\ pc[p] = "link"
  /\ next' = [next EXCEPT ![prev[p]] = node[p]]
  /\ pc' = [pc EXCEPT ![p] = "idle"]
  /\ node' = [node EXCEPT ![p] = NoNode]
  /\ prev' = [prev EXCEPT ![p] = NoNode]
  /\ UNCHANGED <<head, tail, data, allocated, consumerVars, chain>>

(* dequeue and empty read tail_ and tail->next_; with no next the answer   *)
(* is "nothing there".  In the destructor that ends the draining loop.     *)
DequeueEmpty ==
  /\ cpc = "idle" /\ ~closing
  /\ next[tail] = NoNode
  /\ output' = NoValue
  /\ UNCHANGED <<head, tail, next, data, allocated, producerVars, cpc, cnode,
                 closing, chain>>

DequeueLoad ==
  /\ cpc = "idle"
  /\ next[tail] # NoNode
  /\ cnode' = next[tail]
  /\ cpc' = "take"
  /\ UNCHANGED <<head, tail, next, data, allocated, producerVars, output,
                 closing, chain>>

(* Deleting the node that has just become the dummy. *)
DequeueTakeDeletesNext ==
  /\ cpc = "take"
  /\ output' = data[cnode]
  /\ data' = [data EXCEPT ![cnode] = NoValue]
  /\ tail' = cnode
  /\ cpc' = "reclaim"
  /\ chain' = Tail(chain)
  /\ UNCHANGED <<head, next, allocated, producerVars, cnode, closing>>

(* Reading the payload of the dummy instead of that of its successor. *)
DequeueTakeFromDummy ==
  /\ cpc = "take"
  /\ output' = data[tail]
  /\ data' = [data EXCEPT ![cnode] = NoValue]
  /\ tail' = cnode
  /\ cnode' = tail
  /\ cpc' = "reclaim"
  /\ chain' = Tail(chain)
  /\ UNCHANGED <<head, next, allocated, producerVars, closing>>

(* The payload of next moves to output and is deleted; tail_.store(next). *)
DequeueTake ==
  /\ cpc = "take"
  /\ output' = data[cnode]
  /\ data' = [data EXCEPT ![cnode] = NoValue]
  /\ tail' = cnode
  /\ cnode' = tail
  /\ cpc' = "reclaim"
  /\ chain' = Tail(chain)
  /\ UNCHANGED <<head, next, allocated, producerVars, closing>>

(* delete tail: the old dummy goes back to the allocator. *)
DequeueReclaim ==
  /\ cpc = "reclaim"
  /\ allocated' = allocated \ {cnode}
  /\ cnode' = NoNode
  /\ cpc' = "idle"
  /\ UNCHANGED <<head, tail, next, data, producerVars, output, closing, chain>>

(* ~LockFreeQueue: the owner destroys the queue when no thread is inside   *)
(* enqueue any more; it dequeues until nothing is left and deletes head_.  *)
DestroyBegin ==
  /\ cpc = "idle" /\ ~closing
  /\ \A p \in Producers : pc[p] = "idle"
  /\ closing' = TRUE
  /\ UNCHANGED <<head, tail, next, data, allocated, producerVars, cpc, cnode,
                 output, chain>>

(* Forgetting the dummy in the destructor. *)
DestroyEndLeaks ==
  /\ cpc = "idle" /\ closing
  /\ next[tail] = NoNode
  /\ output' = NoValue
  /\ cpc' = "destroyed"
  /\ UNCHANGED <<head, tail, next, data, allocated, producerVars, cnode, closing,
                 chain>>

DestroyEnd ==
  /\ cpc = "idle" /\ closing
  /\ next[tail] = NoNode
  /\ allocated' = allocated \ {head}
  /\ output' = NoValue
  /\ cpc' = "destroyed"
  /\ UNCHANGED <<head, tail, next, data, producerVars, cnode, closing, chain>>

Next ==
  \/ \E p \in Producers :
       \/ \E v \in Value : EnqueueNew(p, v)
       \/ EnqueueExchange(p)
       \/ EnqueueLink(p)
  \/ DequeueEmpty \/ DequeueLoad \/ DequeueTake \/ DequeueReclaim
  \/ DestroyBegin \/ DestroyEnd

Spec == Init /\ [][Next]_vars

-----------------------------------------------------------------------------
(* Properties. *)

(* No thread follows a pointer to a deleted node: the node a producer is    *)
(* about to link behind, the two nodes dequeue works on and the dummy that  *)
(* dequeue and empty start from are alive when they are read or written     *)
(* (lock_free_queue.hpp:34, 46-56, 61-62).                                  *)
NoDanglingAccess ==
  /\ \A p \in Producers : pc[p] = "link" => prev[p] \in allocated
  /\ cpc # "destroyed" => tail \in allocated
  /\ cpc \in {"take", "reclaim"} => cnode \in allocated

(* Every node that new returned has exactly one owner: the chain, the       *)
(* enqueue that made it, or the dequeue that is about to delete it.  So no  *)
(* node leaks or is deleted twice, none is left after the destructor, and   *)
(* no payload outlives its node (lock_free_queue.hpp:20-28, 53-55).         *)
Fresh == {node[p] : p \in {q \in Producers : pc[q] = "exchange"}}
Chained == IF cpc = "destroyed" THEN {} ELSE Range(chain)
Retired == IF cpc = "reclaim" THEN {cnode} ELSE {}

NodesAccounted ==
  /\ allocated = Fresh \union Chained \union Retired
  /\ \A n \in Node \ allocated : data[n] = NoValue

(* The list as the threads leave it at every instant: the nodes from tail_ *)
(* to head_ are distinct and every gap between two neighbours is the work   *)
(* of exactly one producer between its exchange and its link.               *)
ChainEnds ==
  /\ Len(chain) >= 1
  /\ chain[1] = tail
  /\ chain[Len(chain)] = head
  /\ next[head] = NoNode

ChainDistinct ==
  \A i, j \in 1..Len(chain) : chain[i] = chain[j] => i = j

LinkedBy(p, i) ==
  /\ pc[p] = "link"
  /\ prev[p] = chain[i]
  /\ node[p] = chain[i + 1]

GapsOwned ==
  /\ \A i \in 1..(Len(chain) - 1) :
       \/ next[chain[i]] = chain[i + 1]
       \/ next[chain[i]] = NoNode /\ \E p \in Producers : LinkedBy(p, i)
  /\ \A p \in Producers :
       pc[p] = "link" => \E i \in 1..(Len(chain) - 1) :
                           LinkedBy(p, i) /\ next[chain[i]] = NoNode

FreshPrivate ==
  /\ \A p \in Producers :
       pc[p] = "exchange" => /\ node[p] \in Node
                             /\ node[p] \notin Range(chain)
                             /\ next[node[p]] = NoNode
                             /\ data[node[p]] \in Value
  /\ \A p, q \in Producers :
       pc[p] # "idle" /\ pc[q] # "idle" /\ node[p] = node[q] => p = q

ConsumerHolds ==
  /\ cpc = "take" => Len(chain) >= 2 /\ cnode = chain[2] /\ next[tail] = cnode
  /\ data[tail] = NoValue
  /\ cpc = "reclaim" => cnode \notin Range(chain) \union Fresh /\ data[cnode] = NoValue
  /\ cpc = "destroyed" => closing
  /\ closing => \A p \in Producers : pc[p] = "idle"

(* The inductive invariant: the shape of the list together with what every *)
(* thread in the middle of an operation knows about its own nodes.         *)
ListIntact ==
  /\ ChainEnds /\ ChainDistinct /\ GapsOwned /\ FreshPrivate /\ ConsumerHolds
  /\ NodesAccounted

(* The queue implements MpscQueue: an exchange claims the next place, a    *)
(* link publishes it, and advancing tail_ takes the first slot, in the     *)
(* order of the exchanges, each value once.                                *)
ChainSlots ==
  [i \in 1..(Len(chain) - 1) |->
     [val |-> data[chain[i + 1]], published |-> next[chain[i]] # NoNode]]

Abstract == INSTANCE MpscQueue WITH slots <- ChainSlots, result <- output

RefinesMpscQueue == Abstract!QueueSpec
==============================================================================
