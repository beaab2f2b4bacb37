------------------------- MODULE LockFreeQueueProofs -------------------------
(***************************************************************************)
(* The list of LockFreeQueue is intact at every instant, for any number of *)
(* producers, nodes and values: TypeOK /\ ListIntact is inductive.  Memory *)
(* safety (NoDanglingAccess) follows from it.                              *)
(***************************************************************************)
EXTENDS LockFreeQueue, SequenceTheorems, TLAPS

IInv == TypeOK /\ ListIntact

USE NodeAssumption, PayloadAssumption

(* Advancing tail_ drops the first node of the chain and nothing else.     *)
LEMMA TailOfChain ==
  ASSUME NEW s \in Seq(Node), Len(s) >= 2
  PROVE  /\ Tail(s) \in Seq(Node)
         /\ Len(Tail(s)) = Len(s) - 1
         /\ \A i \in 1..(Len(s) - 1) : Tail(s)[i] = s[i + 1]
         /\ Range(s) = {s[1]} \union Range(Tail(s))
<1>1. /\ Tail(s) \in Seq(Node)
      /\ Len(Tail(s)) = Len(s) - 1
      /\ \A i \in 1..(Len(s) - 1) : Tail(s)[i] = s[i + 1]
  OBVIOUS
<1>2. Range(s) = {s[i] : i \in 1..Len(s)}
  BY DEF Range
<1>3. Range(Tail(s)) = {s[i + 1] : i \in 1..(Len(s) - 1)}
  <2> DEFINE t == Tail(s)
  <2>0. DOMAIN t = 1..(Len(s) - 1)
    BY <1>1
  <2> HIDE DEF t
  <2>1. Range(t) = {t[i] : i \in 1..(Len(s) - 1)}
    BY <2>0 DEF Range
  <2> USE DEF t
  <2> QED BY <2>1, <1>1
<1>4. ASSUME NEW x \in Range(s) PROVE x \in {s[1]} \union Range(Tail(s))
  <2>1. PICK i \in 1..Len(s) : x = s[i]
    BY <1>2
  <2>2. CASE i = 1
    BY <2>1, <2>2
  <2>3. CASE i # 1
    <3>1. i - 1 \in 1..(Len(s) - 1) /\ s[(i - 1) + 1] = x
      BY <2>1, <2>3
    <3> QED BY <3>1, <1>3
  <2> QED BY <2>2, <2>3
<1>5. ASSUME NEW x \in {s[1]} \union Range(Tail(s)) PROVE x \in Range(s)
  <2>1. CASE x = s[1]
    BY <2>1, <1>2
  <2>2. CASE x \in Range(Tail(s))
    <3>1. PICK i \in 1..(Len(s) - 1) : x = s[i + 1]
      BY <2>2, <1>3
    <3>2. i + 1 \in 1..Len(s)
      BY <3>1
    <3> QED BY <3>1, <3>2, <1>2
  <2> QED BY <2>1, <2>2
<1> QED BY <1>1, <1>4, <1>5

(* An exchange of head_ adds one node at the end of the chain.             *)
LEMMA AppendToChain ==
  ASSUME NEW s \in Seq(Node), NEW n \in Node
  PROVE  /\ Append(s, n) \in Seq(Node)
         /\ Len(Append(s, n)) = Len(s) + 1
         /\ \A i \in 1..Len(s) : Append(s, n)[i] = s[i]
         /\ Append(s, n)[Len(s) + 1] = n
         /\ Range(Append(s, n)) = Range(s) \union {n}
<1>1. /\ Append(s, n) \in Seq(Node)
      /\ Len(Append(s, n)) = Len(s) + 1
      /\ \A i \in 1..Len(s) : Append(s, n)[i] = s[i]
      /\ Append(s, n)[Len(s) + 1] = n
  OBVIOUS
<1>2. Range(s) = {s[i] : i \in 1..Len(s)}
  BY DEF Range
<1>3. Range(Append(s, n)) = {Append(s, n)[i] : i \in 1..(Len(s) + 1)}
  BY <1>1 DEF Range
<1> QED BY <1>1, <1>2, <1>3

LEMMA FunctionIsSeq ==
  ASSUME NEW S, NEW k \in Nat, NEW f \in [1..k -> S]
  PROVE  f \in Seq(S) /\ Len(f) = k
<1>1. f \in UNION {[1..n -> S] : n \in Nat}
  OBVIOUS
<1>2. f \in Seq(S)
  BY <1>1, SeqDef
<1> QED BY <1>2

LEMMA RangeOfChain ==
  ASSUME NEW s \in Seq(Node)
  PROVE  \A n : n \in Range(s) <=> \E i \in 1..Len(s) : n = s[i]
BY DEF Range

-----------------------------------------------------------------------------
(* The constructor leaves an intact list. *)
LEMMA InitIntact == Init => IInv
<1> SUFFICES ASSUME Init PROVE IInv
  OBVIOUS
<1>1. PICK dummy \in Node : chain = <<dummy>> /\ head = dummy /\ tail = dummy
                            /\ allocated = {dummy}
  BY DEF Init
<1>2. TypeOK
  <2>1. <<dummy>> \in Seq(Node)
    OBVIOUS
  <2> QED BY <1>1, <2>1 DEF Init, TypeOK
<1>3. Range(chain) = {dummy}
  BY <1>1 DEF Range
<1>4. ListIntact
  BY <1>1, <1>3 DEF Init, ListIntact, ChainEnds, ChainDistinct, GapsOwned,
     FreshPrivate, ConsumerHolds, NodesAccounted, Fresh, Chained, Retired
<1> QED BY <1>2, <1>4 DEF IInv

(* Every node of the chain is alive until the destructor is done.          *)
LEMMA ChainAlive ==
  ASSUME IInv, cpc # "destroyed"
  PROVE  \A i \in 1..Len(chain) : chain[i] \in allocated
BY RangeOfChain DEF IInv, TypeOK, ListIntact, NodesAccounted, Chained

(* A new node is none of those the threads hold.                           *)
LEMMA NewKeepsIntact ==
  ASSUME IInv, NEW p \in Producers, NEW v \in Value, EnqueueNew(p, v)
  PROVE  IInv'
<1> USE DEF IInv, TypeOK, ListIntact
<1>1. PICK n \in Node \ allocated :
        /\ allocated' = allocated \union {n}
        /\ data' = [data EXCEPT ![n] = v]
        /\ next' = [next EXCEPT ![n] = NoNode]
        /\ node' = [node EXCEPT ![p] = n]
  BY DEF EnqueueNew
<1>2. /\ pc[p] = "idle" /\ ~closing
      /\ pc' = [pc EXCEPT ![p] = "exchange"]
      /\ UNCHANGED <<head, tail, prev, cpc, cnode, output, closing, chain>>
  BY DEF EnqueueNew, consumerVars
<1>3. cpc # "destroyed" /\ \A i \in 1..Len(chain) : chain[i] # n
  BY <1>2, ChainAlive DEF ConsumerHolds
<1>4. n \notin Range(chain)
  BY <1>3, RangeOfChain
<1>5. n \notin Fresh /\ (cpc = "reclaim" => n # cnode)
  BY DEF NodesAccounted, Retired
<1>6. \A q \in Producers : q # p /\ pc[q] # "idle" => node[q] # n
  BY <1>3, <1>5 DEF GapsOwned, LinkedBy, Fresh
<1>7. TypeOK'
  BY <1>1, <1>2
<1>8. ChainEnds' /\ ChainDistinct'
  BY <1>1, <1>2, <1>3 DEF ChainEnds, ChainDistinct
<1>9. GapsOwned'
  <2>1. ASSUME NEW q \in Producers, NEW i \in 1..(Len(chain) - 1)
        PROVE  LinkedBy(q, i)' <=> LinkedBy(q, i)
    BY <1>1, <1>2 DEF LinkedBy
  <2>2. \A i \in 1..(Len(chain) - 1) : next'[chain'[i]] = next[chain[i]]
    BY <1>1, <1>2, <1>3
  <2>3. \A q \in Producers : pc'[q] = "link" <=> pc[q] = "link"
    BY <1>2
  <2> QED BY <1>2, <2>1, <2>2, <2>3 DEF GapsOwned
<1>10. FreshPrivate'
  <2>1. ASSUME NEW q \in Producers, pc'[q] = "exchange"
        PROVE  /\ node'[q] \in Node
               /\ node'[q] \notin Range(chain)
               /\ next'[node'[q]] = NoNode
               /\ data'[node'[q]] \in Value
    BY <1>1, <1>2, <1>4, <1>6, <2>1 DEF FreshPrivate
  <2>2. ASSUME NEW q \in Producers, NEW r \in Producers,
               pc'[q] # "idle", pc'[r] # "idle", node'[q] = node'[r]
        PROVE  q = r
    BY <1>1, <1>2, <1>6, <2>2 DEF FreshPrivate
  <2> QED BY <1>2, <2>1, <2>2 DEF FreshPrivate
<1>11. Fresh' = Fresh \union {n}
  BY <1>1, <1>2 DEF Fresh
<1>12. ConsumerHolds'
  BY <1>1, <1>2, <1>3, <1>5, <1>11 DEF ConsumerHolds, ChainEnds
<1>13. NodesAccounted'
  BY <1>1, <1>2, <1>11 DEF NodesAccounted, Chained, Retired
<1> QED BY <1>7, <1>8, <1>9, <1>10, <1>12, <1>13

(* An exchange appends the node and makes its producer the owner of the    *)
(* new gap.                                                                *)
LEMMA ExchangeKeepsIntact ==
  ASSUME IInv, NEW p \in Producers, EnqueueExchange(p)
  PROVE  IInv'
<1> USE DEF IInv, TypeOK, ListIntact
<1>a. PICK n : n = node[p]
  OBVIOUS
<1>b. PICK len \in Nat : len = Len(chain)
  OBVIOUS
<1>1. /\ pc[p] = "exchange"
      /\ prev' = [prev EXCEPT ![p] = head]
      /\ head' = n
      /\ pc' = [pc EXCEPT ![p] = "link"]
      /\ chain' = Append(chain, n)
      /\ UNCHANGED <<tail, next, data, allocated, node, cpc, cnode, output, closing>>
  BY <1>a DEF EnqueueExchange, consumerVars
<1>2. n \in Node /\ n \notin Range(chain) /\ next[n] = NoNode
  BY <1>a, <1>1 DEF FreshPrivate
<1>3. /\ chain' \in Seq(Node) /\ Len(chain') = len + 1
      /\ \A i \in 1..len : chain'[i] = chain[i]
      /\ chain'[len + 1] = n
      /\ Range(chain') = Range(chain) \union {n}
  BY <1>b, <1>1, <1>2, AppendToChain
<1>4. len \in Nat /\ len >= 1 /\ chain[1] = tail /\ chain[len] = head
      /\ next[head] = NoNode
  BY <1>b DEF ChainEnds
<1>5. \A i \in 1..len : chain[i] # n
  BY <1>b, <1>2, RangeOfChain
<1>6. TypeOK'
  BY <1>1, <1>2, <1>3
<1>7. ChainEnds'
  BY <1>1, <1>2, <1>3, <1>4 DEF ChainEnds
<1>8. ChainDistinct'
  BY <1>b, <1>3, <1>4, <1>5 DEF ChainDistinct
<1>9. GapsOwned'
  <2>1. LinkedBy(p, len)' /\ next'[chain'[len]] = NoNode
    BY <1>a, <1>1, <1>3, <1>4 DEF LinkedBy
  <2>2. ASSUME NEW q \in Producers, NEW i \in 1..(len - 1), LinkedBy(q, i)
        PROVE  LinkedBy(q, i)'
    BY <1>1, <1>3, <1>4, <2>2 DEF LinkedBy
  <2>3. ASSUME NEW i \in 1..(Len(chain') - 1)
        PROVE  \/ next'[chain'[i]] = chain'[i + 1]
               \/ next'[chain'[i]] = NoNode /\ \E q \in Producers : LinkedBy(q, i)'
    <3>1. CASE i = len
      BY <2>1, <3>1
    <3>2. CASE i # len
      <4>1. i \in 1..(len - 1) /\ i \in 1..len /\ i + 1 \in 1..len
        BY <1>3, <1>4, <3>2
      <4>2. \/ next[chain[i]] = chain[i + 1]
            \/ next[chain[i]] = NoNode /\ \E q \in Producers : LinkedBy(q, i)
        BY <1>b, <4>1 DEF GapsOwned
      <4> QED BY <1>1, <1>3, <2>2, <4>1, <4>2
    <3> QED BY <3>1, <3>2
  <2>4. ASSUME NEW q \in Producers, pc'[q] = "link"
        PROVE  \E i \in 1..(Len(chain') - 1) :
                 LinkedBy(q, i)' /\ next'[chain'[i]] = NoNode
    <3>1. CASE q = p
      <4>1. len \in 1..(Len(chain') - 1)
        BY <1>3, <1>4
      <4> QED BY <2>1, <3>1, <4>1
    <3>2. CASE q # p
      <4>1. pc[q] = "link"
        BY <1>1, <2>4, <3>2
      <4>2. PICK i \in 1..(len - 1) : LinkedBy(q, i) /\ next[chain[i]] = NoNode
        BY <1>b, <4>1 DEF GapsOwned
      <4>3. i \in 1..len /\ i \in 1..(Len(chain') - 1)
        BY <1>3, <1>4
      <4> QED BY <1>1, <1>3, <2>2, <4>2, <4>3
    <3> QED BY <3>1, <3>2
  <2> QED BY <2>3, <2>4 DEF GapsOwned
<1>10. FreshPrivate'
  <2>1. ASSUME NEW q \in Producers, pc'[q] = "exchange"
        PROVE  /\ node'[q] \in Node
               /\ node'[q] \notin Range(chain')
               /\ next'[node'[q]] = NoNode
               /\ data'[node'[q]] \in Value
    BY <1>a, <1>1, <1>3, <2>1 DEF FreshPrivate
  <2> QED BY <1>1, <2>1 DEF FreshPrivate
<1>11. /\ Fresh' \subseteq Fresh
       /\ Fresh \subseteq Fresh' \union {n}
       /\ n \in Fresh
  BY <1>a, <1>1 DEF Fresh
<1>12. cpc # "destroyed"
  BY <1>1 DEF ConsumerHolds
<1>13. ConsumerHolds'
  <2>1. cpc = "take" => len >= 2 /\ cnode = chain[2] /\ next[tail] = cnode
    BY <1>b DEF ConsumerHolds
  <2>2. cpc' = "take" => Len(chain') >= 2 /\ cnode' = chain'[2] /\ next'[tail'] = cnode'
    BY <1>1, <1>3, <1>4, <2>1
  <2>3. ~closing
    BY <1>1 DEF ConsumerHolds
  <2> QED BY <1>1, <1>3, <1>11, <2>2, <2>3 DEF ConsumerHolds
<1>14. NodesAccounted'
  BY <1>1, <1>3, <1>11, <1>12 DEF NodesAccounted, Chained, Retired
<1> QED BY <1>6, <1>7, <1>8, <1>9, <1>10, <1>13, <1>14

(* A producer that stands between its exchange and its link owns exactly   *)
(* one gap, and nobody else owns it.                                       *)
LEMMA GapOfProducer ==
  ASSUME IInv, NEW p \in Producers, pc[p] = "link"
  PROVE  \E i \in 1..(Len(chain) - 1) :
           /\ LinkedBy(p, i) /\ next[chain[i]] = NoNode
           /\ \A q \in Producers, j \in 1..(Len(chain) - 1) :
                LinkedBy(q, j) => (q = p <=> j = i)
<1> USE DEF IInv, TypeOK, ListIntact
<1>1. PICK i \in 1..(Len(chain) - 1) : LinkedBy(p, i) /\ next[chain[i]] = NoNode
  BY DEF GapsOwned
<1>2. ASSUME NEW q \in Producers, NEW j \in 1..(Len(chain) - 1), LinkedBy(q, j)
      PROVE  q = p <=> j = i
  <2>1. q = p => j = i
    BY <1>1, <1>2 DEF LinkedBy, ChainDistinct
  <2>2. j = i => node[q] = node[p]
    BY <1>1, <1>2 DEF LinkedBy
  <2>3. j = i => q = p
    BY <1>2, <2>2 DEF LinkedBy, FreshPrivate
  <2> QED BY <2>1, <2>3
<1> QED BY <1>1, <1>2

(* A link closes the gap of its producer and touches no other.             *)
LEMMA LinkKeepsIntact ==
  ASSUME IInv, NEW p \in Producers, EnqueueLink(p)
  PROVE  IInv'
<1> USE DEF IInv, TypeOK, ListIntact
<1>1. /\ pc[p] = "link"
      /\ next' = [next EXCEPT ![prev[p]] = node[p]]
      /\ pc' = [pc EXCEPT ![p] = "idle"]
      /\ node' = [node EXCEPT ![p] = NoNode]
      /\ prev' = [prev EXCEPT ![p] = NoNode]
      /\ UNCHANGED <<head, tail, data, allocated, cpc, cnode, output, closing, chain>>
  BY DEF EnqueueLink, consumerVars
<1>2. PICK i \in 1..(Len(chain) - 1) :
        /\ LinkedBy(p, i) /\ next[chain[i]] = NoNode
        /\ \A q \in Producers, j \in 1..(Len(chain) - 1) :
             LinkedBy(q, j) => (q = p <=> j = i)
  BY <1>1, GapOfProducer
<1>3. /\ i \in 1..Len(chain) /\ i + 1 \in 1..Len(chain)
      /\ chain[i] \in Node /\ chain[i + 1] \in Node
      /\ prev[p] = chain[i] /\ node[p] = chain[i + 1]
  BY <1>2 DEF LinkedBy
<1>4. /\ next' = [next EXCEPT ![chain[i]] = chain[i + 1]]
      /\ \A j \in 1..Len(chain) : j # i => next'[chain[j]] = next[chain[j]]
      /\ next'[chain[i]] = chain[i + 1]
  BY <1>1, <1>3 DEF ChainDistinct
<1>5. TypeOK'
  BY <1>1, <1>3
<1>6. ChainEnds' /\ ChainDistinct'
  BY <1>1, <1>2, <1>3, <1>4 DEF ChainEnds, ChainDistinct
<1>7. \A q \in Producers, j \in 1..(Len(chain) - 1) :
        q # p => LinkedBy(q, j)' = LinkedBy(q, j)
  BY <1>1 DEF LinkedBy
<1>8. GapsOwned'
  <2>1. ASSUME NEW j \in 1..(Len(chain) - 1)
        PROVE  \/ next'[chain[j]] = chain[j + 1]
               \/ next'[chain[j]] = NoNode /\ \E q \in Producers : LinkedBy(q, j)'
    <3>1. CASE j = i
      BY <1>4, <3>1
    <3>2. CASE j # i
      <4>1. next'[chain[j]] = next[chain[j]]
        BY <1>4, <3>2
      <4>2. \A q \in Producers : LinkedBy(q, j) => q # p
        BY <1>2, <3>2
      <4> QED BY <1>7, <4>1, <4>2 DEF GapsOwned
    <3> QED BY <3>1, <3>2
  <2>2. ASSUME NEW q \in Producers, pc'[q] = "link"
        PROVE  \E j \in 1..(Len(chain) - 1) :
                 LinkedBy(q, j)' /\ next'[chain[j]] = NoNode
    <3>1. q # p /\ pc[q] = "link"
      BY <1>1, <2>2
    <3>2. PICK j \in 1..(Len(chain) - 1) : LinkedBy(q, j) /\ next[chain[j]] = NoNode
      BY <3>1 DEF GapsOwned
    <3>3. j # i /\ j \in 1..Len(chain)
      BY <1>2, <3>1, <3>2
    <3> QED BY <1>4, <1>7, <3>1, <3>2, <3>3
  <2> QED BY <1>1, <2>1, <2>2 DEF GapsOwned
<1>9. FreshPrivate'
  <2>1. ASSUME NEW q \in Producers, pc'[q] = "exchange"
        PROVE  /\ node'[q] \in Node
               /\ node'[q] \notin Range(chain)
               /\ next'[node'[q]] = NoNode
               /\ data'[node'[q]] \in Value
    <3>1. /\ pc[q] = "exchange" /\ node'[q] = node[q] /\ node[q] \in Node
          /\ node[q] \notin Range(chain) /\ next[node[q]] = NoNode
          /\ data[node[q]] \in Value
      BY <1>1, <2>1 DEF FreshPrivate
    <3>2. node[q] # chain[i]
      BY <1>3, <3>1, RangeOfChain
    <3>3. next'[node[q]] = next[node[q]]
      BY <1>3, <1>4, <3>1, <3>2
    <3> QED BY <1>1, <3>1, <3>3
  <2> QED BY <1>1, <2>1 DEF FreshPrivate
<1>10. Fresh' = Fresh
  BY <1>1 DEF Fresh
<1>11. ConsumerHolds'
  <2>1. cpc = "take" => i # 1
    BY <1>2, <1>3 DEF ConsumerHolds, ChainEnds
  <2>2. cpc = "take" => next'[tail] = next[tail]
    BY <1>4, <2>1 DEF ConsumerHolds, ChainEnds
  <2> QED BY <1>1, <1>10, <2>2 DEF ConsumerHolds
<1>12. NodesAccounted'
  BY <1>1, <1>10 DEF NodesAccounted, Chained, Retired
<1> QED BY <1>5, <1>6, <1>8, <1>9, <1>11, <1>12

(* What the consumer sees behind the dummy is the second node of the chain. *)
LEMMA SecondOfChain ==
  ASSUME IInv, next[tail] # NoNode
  PROVE  Len(chain) >= 2 /\ chain[2] \in Node /\ next[tail] = chain[2]
<1> USE DEF IInv, TypeOK, ListIntact
<1>1. Len(chain) # 1
  BY DEF ChainEnds
<1>2. Len(chain) >= 2 /\ 1 \in 1..(Len(chain) - 1)
  BY <1>1 DEF ChainEnds
<1> QED BY <1>2 DEF GapsOwned, ChainEnds

LEMMA LoadKeepsIntact ==
  ASSUME IInv, DequeueLoad
  PROVE  IInv'
<1> USE DEF IInv, TypeOK, ListIntact
<1>1. /\ cpc = "idle" /\ next[tail] # NoNode
      /\ cnode' = next[tail] /\ cpc' = "take"
      /\ UNCHANGED <<head, tail, next, data, allocated, pc, node, prev, output,
                     closing, chain>>
  BY DEF DequeueLoad, producerVars
<1>2. Len(chain) >= 2 /\ chain[2] \in Node /\ next[tail] = chain[2]
  BY <1>1, SecondOfChain
<1>3. TypeOK' /\ ChainEnds' /\ ChainDistinct'
  BY <1>1, <1>2 DEF ChainEnds, ChainDistinct
<1>4. GapsOwned'
  BY <1>1 DEF GapsOwned, LinkedBy
<1>5. FreshPrivate' /\ Fresh' = Fresh
  BY <1>1 DEF FreshPrivate, Fresh
<1>6. ConsumerHolds'
  BY <1>1, <1>2 DEF ConsumerHolds
<1>7. NodesAccounted'
  BY <1>1, <1>5 DEF NodesAccounted, Chained, Retired
<1> QED BY <1>3, <1>4, <1>5, <1>6, <1>7

(* Advancing tail_ drops the dummy; no producer stands behind it, because  *)
(* its next_ is set.                                                       *)
LEMMA TakeKeepsIntact ==
  ASSUME IInv, DequeueTake
  PROVE  IInv'
<1> USE DEF IInv, TypeOK, ListIntact
<1>1. /\ cpc = "take" /\ cpc' = "reclaim"
      /\ output' = data[cnode]
      /\ data' = [data EXCEPT ![cnode] = NoValue]
      /\ tail' = cnode /\ cnode' = tail
      /\ chain' = Tail(chain)
      /\ UNCHANGED <<head, next, allocated, pc, node, prev, closing>>
  BY DEF DequeueTake, producerVars
<1>2. PICK len \in Nat : len = Len(chain)
  OBVIOUS
<1>3. len >= 2 /\ cnode = chain[2] /\ next[tail] = cnode /\ cnode \in Node
  BY <1>1, <1>2 DEF ConsumerHolds
<1>4. chain[1] = tail /\ chain[len] = head /\ next[head] = NoNode
  BY <1>2 DEF ChainEnds
<1>5. /\ chain' \in Seq(Node) /\ Len(chain') = len - 1
      /\ \A i \in 1..(len - 1) : chain'[i] = chain[i + 1]
      /\ Range(chain) = {tail} \union Range(chain')
  BY <1>1, <1>2, <1>3, <1>4, TailOfChain
<1>6. TypeOK'
  BY <1>1, <1>3, <1>5
<1>7. ChainEnds'
  BY <1>1, <1>3, <1>4, <1>5 DEF ChainEnds
<1>8. ChainDistinct'
  <2>1. \A i, j \in 1..len : chain[i] = chain[j] => i = j
    BY <1>2 DEF ChainDistinct
  <2>2. ASSUME NEW i \in 1..(len - 1), NEW j \in 1..(len - 1), chain'[i] = chain'[j]
        PROVE  i = j
    <3>1. i + 1 \in 1..len /\ j + 1 \in 1..len /\ chain[i + 1] = chain[j + 1]
      BY <1>5, <2>2
    <3> QED BY <2>1, <3>1
  <2> QED BY <1>5, <2>2 DEF ChainDistinct
<1>9. \A q \in Producers : pc[q] = "link" => prev[q] # tail
  BY <1>2, <1>3, <1>4 DEF GapsOwned, LinkedBy
<1>10. ASSUME NEW q \in Producers, NEW i \in 1..(len - 2)
       PROVE  LinkedBy(q, i)' <=> LinkedBy(q, i + 1)
  BY <1>1, <1>5 DEF LinkedBy
<1>11. GapsOwned'
  <2>1. ASSUME NEW i \in 1..(len - 2)
        PROVE  \/ next'[chain'[i]] = chain'[i + 1]
               \/ next'[chain'[i]] = NoNode /\ \E q \in Producers : LinkedBy(q, i)'
    <3>1. i + 1 \in 1..(len - 1) /\ i \in 1..(len - 1)
      OBVIOUS
    <3>2. \/ next[chain[i + 1]] = chain[(i + 1) + 1]
          \/ next[chain[i + 1]] = NoNode /\ \E q \in Producers : LinkedBy(q, i + 1)
      BY <1>2, <3>1 DEF GapsOwned
    <3> QED BY <1>1, <1>5, <1>10, <3>1, <3>2
  <2>2. ASSUME NEW q \in Producers, pc'[q] = "link"
        PROVE  \E i \in 1..(len - 2) : LinkedBy(q, i)' /\ next'[chain'[i]] = NoNode
    <3>1. PICK j \in 1..(len - 1) : LinkedBy(q, j) /\ next[chain[j]] = NoNode
      BY <1>1, <1>2, <2>2 DEF GapsOwned
    <3>2. j # 1
      BY <1>4, <1>9, <3>1 DEF LinkedBy
    <3>3. j - 1 \in 1..(len - 2) /\ j - 1 \in 1..(len - 1) /\ (j - 1) + 1 = j
      BY <3>2
    <3> QED BY <1>1, <1>5, <1>10, <3>1, <3>3
  <2> QED BY <1>5, <2>1, <2>2 DEF GapsOwned
<1>12. Fresh' = Fresh /\ FreshPrivate'
  <2>1. cnode \in Range(chain)
    BY <1>2, <1>3, RangeOfChain
  <2>2. ASSUME NEW q \in Producers, pc'[q] = "exchange"
        PROVE  /\ node'[q] \in Node
               /\ node'[q] \notin Range(chain')
               /\ next'[node'[q]] = NoNode
               /\ data'[node'[q]] \in Value
    BY <1>1, <1>5, <2>1, <2>2 DEF FreshPrivate
  <2> QED BY <1>1, <2>2 DEF Fresh, FreshPrivate
<1>13. tail \notin Range(chain')
  <2>1. ASSUME NEW i \in 1..(len - 1) PROVE chain'[i] # tail
    <3>1. i + 1 \in 1..Len(chain) /\ 1 \in 1..Len(chain) /\ i + 1 # 1
      BY <1>2, <1>3
    <3> QED BY <1>4, <1>5, <3>1 DEF ChainDistinct
  <2> QED BY <1>5, <2>1, RangeOfChain
<1>14. tail \in Range(chain) /\ cnode \in Range(chain)
  BY <1>2, <1>3, <1>4, RangeOfChain
<1>15. tail \notin Fresh
  BY <1>14 DEF Fresh, FreshPrivate
<1>16. ConsumerHolds'
  <2>1. data[tail] = NoValue /\ (closing => \A p \in Producers : pc[p] = "idle")
    BY DEF ConsumerHolds
  <2>2. data'[tail'] = NoValue /\ data'[cnode'] = NoValue
    BY <1>1, <1>3, <2>1
  <2> QED BY <1>1, <1>12, <1>13, <1>15, <2>1, <2>2 DEF ConsumerHolds
<1>17. NodesAccounted'
  <2>1. allocated' = Fresh' \union Chained' \union Retired'
    BY <1>1, <1>5, <1>12 DEF NodesAccounted, Chained, Retired
  <2>2. \A n \in Node \ allocated' : data'[n] = NoValue
    BY <1>1 DEF NodesAccounted
  <2> QED BY <2>1, <2>2 DEF NodesAccounted
<1> QED BY <1>6, <1>7, <1>8, <1>11, <1>12, <1>16, <1>17

LEMMA ReclaimKeepsIntact ==
  ASSUME IInv, DequeueReclaim
  PROVE  IInv'
<1> USE DEF IInv, TypeOK, ListIntact
<1>1. /\ cpc = "reclaim" /\ cpc' = "idle"
      /\ allocated' = allocated \ {cnode}
      /\ cnode' = NoNode
      /\ UNCHANGED <<head, tail, next, data, pc, node, prev, output, closing, chain>>
  BY DEF DequeueReclaim, producerVars
<1>2. TypeOK' /\ ChainEnds' /\ ChainDistinct'
  BY <1>1 DEF ChainEnds, ChainDistinct
<1>3. GapsOwned'
  BY <1>1 DEF GapsOwned, LinkedBy
<1>4. FreshPrivate' /\ Fresh' = Fresh
  BY <1>1 DEF FreshPrivate, Fresh
<1>5. ConsumerHolds'
  BY <1>1 DEF ConsumerHolds
<1>6. NodesAccounted'
  BY <1>1, <1>4 DEF NodesAccounted, Chained, Retired, ConsumerHolds
<1> QED BY <1>2, <1>3, <1>4, <1>5, <1>6

(* With no producer in the middle of an enqueue an empty list is the dummy *)
(* alone.                                                                  *)
LEMMA DestroyKeepsIntact ==
  ASSUME IInv, DestroyEnd
  PROVE  IInv'
<1> USE DEF IInv, TypeOK, ListIntact
<1>1. /\ cpc = "idle" /\ closing /\ next[tail] = NoNode
      /\ allocated' = allocated \ {head}
      /\ output' = NoValue /\ cpc' = "destroyed"
      /\ UNCHANGED <<head, tail, next, data, pc, node, prev, cnode, closing, chain>>
  BY DEF DestroyEnd, producerVars
<1>2. \A p \in Producers : pc[p] = "idle"
  BY <1>1 DEF ConsumerHolds
<1>3. Len(chain) = 1
  <2>1. SUFFICES ASSUME Len(chain) # 1 PROVE FALSE
    OBVIOUS
  <2>2. 1 \in 1..(Len(chain) - 1) /\ chain[2] \in Node
    <3>1. PICK len \in Nat : len = Len(chain)
      OBVIOUS
    <3>2. len >= 2
      BY <2>1, <3>1 DEF ChainEnds
    <3> QED BY <3>1, <3>2
  <2>3. next[chain[1]] = chain[2]
    BY <1>2, <2>2 DEF GapsOwned, LinkedBy
  <2> QED BY <1>1, <2>2, <2>3 DEF ChainEnds
<1>4. Range(chain) = {head}
  BY <1>3, RangeOfChain DEF ChainEnds
<1>5. Fresh = {}
  BY <1>2 DEF Fresh
<1>6. TypeOK' /\ ChainEnds' /\ ChainDistinct'
  BY <1>1 DEF ChainEnds, ChainDistinct
<1>7. GapsOwned'
  BY <1>1 DEF GapsOwned, LinkedBy
<1>8. FreshPrivate' /\ Fresh' = Fresh
  BY <1>1 DEF FreshPrivate, Fresh
<1>9. ConsumerHolds'
  BY <1>1 DEF ConsumerHolds
<1>10. NodesAccounted'
  <2>1. data[head] = NoValue
    BY <1>3 DEF ConsumerHolds, ChainEnds
  <2> QED BY <1>1, <1>4, <1>5, <1>8, <2>1 DEF NodesAccounted, Chained, Retired
<1> QED BY <1>6, <1>7, <1>8, <1>9, <1>10

(* The steps that leave the list and the allocator alone. *)
LEMMA QuietStepsKeepIntact ==
  ASSUME IInv, DequeueEmpty \/ DestroyBegin \/ UNCHANGED vars
  PROVE  IInv'
<1> USE DEF IInv, TypeOK, ListIntact
<1>1. /\ UNCHANGED <<head, tail, next, data, allocated, pc, node, prev, cpc, cnode, chain>>
      /\ output' \in Value \union {NoValue} /\ closing' \in BOOLEAN
      /\ \/ closing' = closing
         \/ cpc = "idle" /\ \A p \in Producers : pc[p] = "idle"
  BY DEF DequeueEmpty, DestroyBegin, vars, producerVars, consumerVars
<1>2. TypeOK' /\ ChainEnds' /\ ChainDistinct'
  BY <1>1 DEF ChainEnds, ChainDistinct
<1>3. GapsOwned'
  BY <1>1 DEF GapsOwned, LinkedBy
<1>4. FreshPrivate' /\ Fresh' = Fresh
  BY <1>1 DEF FreshPrivate, Fresh
<1>5. ConsumerHolds'
  BY <1>1, <1>4 DEF ConsumerHolds
<1>6. NodesAccounted'
  BY <1>1, <1>4 DEF NodesAccounted, Chained, Retired
<1> QED BY <1>2, <1>3, <1>4, <1>5, <1>6

LEMMA NextKeepsIntact == IInv /\ [Next]_vars => IInv'
<1> SUFFICES ASSUME IInv, [Next]_vars PROVE IInv'
  OBVIOUS
<1>1. ASSUME NEW p \in Producers, NEW v \in Value, EnqueueNew(p, v) PROVE IInv'
  BY <1>1, NewKeepsIntact
<1>2. ASSUME NEW p \in Producers, EnqueueExchange(p) PROVE IInv'
  BY <1>2, ExchangeKeepsIntact
<1>3. ASSUME NEW p \in Producers, EnqueueLink(p) PROVE IInv'
  BY <1>3, LinkKeepsIntact
<1>4. CASE DequeueLoad
  BY <1>4, LoadKeepsIntact
<1>5. CASE DequeueTake
  BY <1>5, TakeKeepsIntact
<1>6. CASE DequeueReclaim
  BY <1>6, ReclaimKeepsIntact
<1>7. CASE DestroyEnd
  BY <1>7, DestroyKeepsIntact
<1>8. CASE DequeueEmpty \/ DestroyBegin \/ UNCHANGED vars
  BY <1>8, QuietStepsKeepIntact
<1> QED BY <1>1, <1>2, <1>3, <1>4, <1>5, <1>6, <1>7, <1>8 DEF Next

-----------------------------------------------------------------------------
(* The variables keep their types (the members of lock_free_queue.hpp:67-86 *)
(* and the locals of enqueue and dequeue).                                 *)
THEOREM TypeCorrect == Spec => []TypeOK
<1>1. IInv => TypeOK
  BY DEF IInv
<1> QED BY InitIntact, NextKeepsIntact, <1>1, PTL DEF Spec

(* However enqueue, dequeue, empty and the destructor interleave, the list  *)
(* is one chain of distinct live nodes whose gaps all belong to a producer  *)
(* (lock_free_queue.hpp:15-57).                                            *)
THEOREM ListStaysIntact == Spec => []ListIntact
<1>1. IInv => ListIntact
  BY DEF IInv
<1> QED BY InitIntact, NextKeepsIntact, <1>1, PTL DEF Spec

(* No leak and no double delete of a node (lock_free_queue.hpp:20-28, 32,   *)
(* 55).                                                                    *)
THEOREM MemoryAccounted == Spec => []NodesAccounted
<1>1. IInv => NodesAccounted
  BY DEF IInv, ListIntact
<1> QED BY InitIntact, NextKeepsIntact, <1>1, PTL DEF Spec

(* No access through a pointer to a deleted node                           *)
(* (lock_free_queue.hpp:34, 46-56, 61-62).                                 *)
THEOREM MemorySafe == Spec => []NoDanglingAccess
<1>1. IInv => NoDanglingAccess
  <2> SUFFICES ASSUME IInv PROVE NoDanglingAccess
    OBVIOUS
  <2> USE DEF IInv, TypeOK, ListIntact
  <2>1. ASSUME NEW p \in Producers, pc[p] = "link" PROVE prev[p] \in allocated
    <3>1. PICK i \in 1..(Len(chain) - 1) : LinkedBy(p, i)
      BY <2>1 DEF GapsOwned
    <3>2. cpc # "destroyed"
      BY <2>1 DEF ConsumerHolds
    <3> QED BY <3>1, <3>2, ChainAlive DEF LinkedBy
  <2>2. ASSUME cpc # "destroyed" PROVE tail \in allocated
    BY <2>2, ChainAlive DEF ChainEnds
  <2>3. ASSUME cpc \in {"take", "reclaim"} PROVE cnode \in allocated
    <3>1. CASE cpc = "take"
      BY <3>1, ChainAlive DEF ConsumerHolds
    <3>2. CASE cpc = "reclaim"
      BY <3>2 DEF NodesAccounted, Retired
    <3> QED BY <2>3, <3>1, <3>2
  <2> QED BY <2>1, <2>2, <2>3 DEF NoDanglingAccess
<1> QED BY InitIntact, NextKeepsIntact, <1>1, PTL DEF Spec

-----------------------------------------------------------------------------
(* The step by step implementation of MpscQueue. *)

(* An exchange claims the place behind all others, not yet published.      *)
LEMMA ExchangeClaims ==
  ASSUME IInv, NEW p \in Producers, EnqueueExchange(p)
  PROVE  Abstract!Claim(data[node[p]]) /\ data[node[p]] \in Value
<1> USE DEF IInv, TypeOK, ListIntact
<1>1. PICK n \in Node : n = node[p] /\ next[n] = NoNode /\ data[n] \in Value
                        /\ n \notin Range(chain)
  BY DEF EnqueueExchange, FreshPrivate
<1>2. PICK len \in Nat : len = Len(chain) /\ len >= 1
  BY DEF ChainEnds
<1>3. /\ chain' = Append(chain, n)
      /\ UNCHANGED <<next, data, output>>
  BY <1>1 DEF EnqueueExchange, consumerVars
<1>4. /\ Len(chain') = len + 1
      /\ \A i \in 1..len : chain'[i] = chain[i]
      /\ chain'[len + 1] = n
  BY <1>1, <1>2, <1>3, AppendToChain
<1>5. next[chain[len]] = NoNode
  BY <1>2 DEF ChainEnds
<1> DEFINE slot(i) == [val |-> data[chain[i + 1]], published |-> next[chain[i]] # NoNode]
           new == [val |-> data[n], published |-> FALSE]
<1>6. ChainSlots = [i \in 1..(len - 1) |-> slot(i)]
  BY <1>2 DEF ChainSlots
<1>7. ChainSlots' = [i \in 1..len |-> IF i = len THEN new ELSE slot(i)]
  <2>1. ChainSlots' = [i \in 1..len |->
          [val |-> data[chain'[i + 1]], published |-> next[chain'[i]] # NoNode]]
    BY <1>2, <1>3, <1>4 DEF ChainSlots
  <2>2. \A i \in 1..len :
          [val |-> data[chain'[i + 1]], published |-> next[chain'[i]] # NoNode]
            = IF i = len THEN new ELSE slot(i)
    <3>1. ASSUME NEW i \in 1..len
          PROVE  [val |-> data[chain'[i + 1]], published |-> next[chain'[i]] # NoNode]
                   = IF i = len THEN new ELSE slot(i)
      <4>1. CASE i = len
        BY <1>2, <1>4, <1>5, <4>1
      <4>2. CASE i # len
        <5>1. i + 1 \in 1..len
          BY <1>2, <4>2
        <5> QED BY <1>4, <4>2, <5>1
      <4> QED BY <4>1, <4>2
    <3> QED BY <3>1
  <2> QED BY <2>1, <2>2
<1> HIDE DEF slot, new
<1>8. Append(ChainSlots, new) = [i \in 1..len |-> IF i = len THEN new ELSE slot(i)]
  <2> DEFINE Slots == {slot(i) : i \in 1..(len - 1)}
  <2>1. ChainSlots \in [1..(len - 1) -> Slots]
    BY <1>6
  <2>2. ChainSlots \in Seq(Slots) /\ Len(ChainSlots) = len - 1
    <3>1. len - 1 \in Nat
      BY <1>2
    <3> HIDE DEF Slots
    <3> QED BY <2>1, <3>1, FunctionIsSeq
  <2> QED BY <1>2, <1>6, <2>2
<1> QED BY <1>1, <1>3, <1>7, <1>8 DEF Abstract!Claim, new

(* A link publishes the slot whose gap it closes.                          *)
LEMMA LinkPublishes ==
  ASSUME IInv, NEW p \in Producers, EnqueueLink(p)
  PROVE  \E i \in DOMAIN ChainSlots : Abstract!Publish(i)
<1> USE DEF IInv, TypeOK, ListIntact
<1>1. PICK i \in 1..(Len(chain) - 1) : LinkedBy(p, i) /\ next[chain[i]] = NoNode
  BY DEF EnqueueLink, GapsOwned
<1>2. /\ next' = [next EXCEPT ![chain[i]] = chain[i + 1]]
      /\ UNCHANGED <<chain, data, output>>
  BY <1>1 DEF EnqueueLink, LinkedBy, consumerVars
<1>3. i \in 1..Len(chain) /\ chain[i] \in Node /\ chain[i + 1] \in Node
  BY <1>1
<1>4. next'[chain[i]] # NoNode
      /\ \A j \in 1..(Len(chain) - 1) : j # i => next'[chain[j]] = next[chain[j]]
  BY <1>2, <1>3 DEF ChainDistinct
<1>5. ChainSlots' = [ChainSlots EXCEPT ![i] = [val |-> ChainSlots[i].val, published |-> TRUE]]
  BY <1>1, <1>2, <1>4 DEF ChainSlots
<1>6. ~ChainSlots[i].published /\ i \in DOMAIN ChainSlots
  BY <1>1 DEF ChainSlots
<1> QED BY <1>2, <1>5, <1>6 DEF Abstract!Publish

(* Advancing tail_ takes the first slot.                                   *)
LEMMA TakeTakes ==
  ASSUME IInv, DequeueTake
  PROVE  Abstract!Take
<1> USE DEF IInv, TypeOK, ListIntact
<1>1. /\ cpc = "take"
      /\ output' = data[cnode]
      /\ data' = [data EXCEPT ![cnode] = NoValue]
      /\ chain' = Tail(chain)
      /\ next' = next
  BY DEF DequeueTake
<1>2. PICK len \in Nat : len = Len(chain) /\ len >= 2
  BY <1>1 DEF ConsumerHolds
<1>3. cnode = chain[2] /\ next[chain[1]] = cnode /\ cnode \in Node
  BY <1>1, <1>2 DEF ConsumerHolds, ChainEnds
<1>4. /\ Len(chain') = len - 1
      /\ \A i \in 1..(len - 1) : chain'[i] = chain[i + 1]
  BY <1>1, <1>2, TailOfChain
<1>5. \A i \in 3..len : chain[i] # cnode /\ chain[i] \in Node
  BY <1>2, <1>3 DEF ChainDistinct
<1> DEFINE slot(i) == [val |-> data[chain[i + 1]], published |-> next[chain[i]] # NoNode]
<1>6. ChainSlots = [i \in 1..(len - 1) |-> slot(i)]
  BY <1>2 DEF ChainSlots
<1>7. ChainSlots' = [i \in 1..(len - 2) |-> slot(i + 1)]
  <2>1. ChainSlots' = [i \in 1..(len - 2) |->
          [val |-> data'[chain'[i + 1]], published |-> next[chain'[i]] # NoNode]]
    BY <1>1, <1>2, <1>4 DEF ChainSlots
  <2>2. ASSUME NEW i \in 1..(len - 2)
        PROVE  [val |-> data'[chain'[i + 1]], published |-> next[chain'[i]] # NoNode]
                 = slot(i + 1)
    <3>1. i + 2 \in 3..len /\ i + 1 \in 1..(len - 1) /\ i \in 1..(len - 1)
      BY <1>2
    <3>2. chain'[i + 1] = chain[i + 2] /\ chain'[i] = chain[i + 1]
      BY <1>4, <3>1
    <3>3. data'[chain[i + 2]] = data[chain[i + 2]]
      BY <1>1, <1>5, <3>1
    <3> QED BY <3>2, <3>3
  <2> QED BY <2>1, <2>2
<1>8. slot(1).published /\ slot(1).val = data[cnode]
  <2>1. chain[1 + 1] = cnode /\ next[chain[1]] # NoNode
    BY <1>3
  <2> QED BY <2>1
<1> HIDE DEF slot
<1>9. /\ ChainSlots # <<>> /\ Head(ChainSlots) = slot(1)
      /\ Tail(ChainSlots) = [i \in 1..(len - 2) |-> slot(i + 1)]
  <2> DEFINE Slots == {slot(i) : i \in 1..(len - 1)}
  <2>1. ChainSlots \in [1..(len - 1) -> Slots]
    BY <1>6
  <2>2. ChainSlots \in Seq(Slots) /\ Len(ChainSlots) = len - 1
    <3>1. len - 1 \in Nat
      BY <1>2
    <3> HIDE DEF Slots
    <3> QED BY <2>1, <3>1, FunctionIsSeq
  <2> QED BY <1>2, <1>6, <2>2
<1> QED BY <1>1, <1>7, <1>8, <1>9 DEF Abstract!Take, Abstract!FrontPublished

(* What the consumer finds when tail->next_ is null.                       *)
LEMMA NullNextIsEmpty ==
  ASSUME IInv, next[tail] = NoNode
  PROVE  ~Abstract!FrontPublished
<1> USE DEF IInv, TypeOK, ListIntact
<1>1. ASSUME ChainSlots # <<>> PROVE ~Head(ChainSlots).published
  <2>1. PICK len \in Nat : len = Len(chain) /\ len >= 1
    BY DEF ChainEnds
  <2>2. len # 1
    BY <1>1, <2>1 DEF ChainSlots
  <2>3. 1 \in 1..(len - 1)
    BY <2>1, <2>2
  <2>4. ChainSlots[1].published <=> next[chain[1]] # NoNode
    BY <2>1, <2>3 DEF ChainSlots
  <2> QED BY <1>1, <2>4 DEF ChainEnds
<1> QED BY <1>1 DEF Abstract!FrontPublished

LEMMA StepsImplement ==
  IInv /\ [Next]_vars => [Abstract!QueueNext]_(Abstract!queueVars)
<1> SUFFICES ASSUME IInv, [Next]_vars
             PROVE  [Abstract!QueueNext]_(Abstract!queueVars)
  OBVIOUS
<1>1. ASSUME NEW p \in Producers, NEW v \in Value, EnqueueNew(p, v)
      PROVE  UNCHANGED Abstract!queueVars
  <2> USE DEF IInv, TypeOK, ListIntact
  <2>1. PICK n \in Node \ allocated :
          /\ data' = [data EXCEPT ![n] = v]
          /\ next' = [next EXCEPT ![n] = NoNode]
    BY <1>1 DEF EnqueueNew
  <2>2. UNCHANGED <<chain, output>> /\ cpc # "destroyed"
    BY <1>1 DEF EnqueueNew, consumerVars, ConsumerHolds
  <2>3. \A i \in 1..Len(chain) : data'[chain[i]] = data[chain[i]]
                                 /\ next'[chain[i]] = next[chain[i]]
    BY <2>1, <2>2, ChainAlive
  <2>4. \A i \in 1..(Len(chain) - 1) : data'[chain[i + 1]] = data[chain[i + 1]]
                                       /\ next'[chain[i]] = next[chain[i]]
    BY <2>3
  <2>5. ChainSlots' = ChainSlots
    BY <2>2, <2>4 DEF ChainSlots
  <2> QED BY <2>2, <2>5 DEF Abstract!queueVars
<1>2. ASSUME NEW p \in Producers, EnqueueExchange(p) PROVE Abstract!QueueNext
  BY <1>2, ExchangeClaims DEF Abstract!QueueNext
<1>3. ASSUME NEW p \in Producers, EnqueueLink(p) PROVE Abstract!QueueNext
  BY <1>3, LinkPublishes DEF Abstract!QueueNext
<1>4. CASE DequeueTake
  BY <1>4, TakeTakes DEF Abstract!QueueNext
<1>5. CASE DequeueEmpty \/ DestroyEnd
  <2>1. next[tail] = NoNode /\ output' = NoValue /\ UNCHANGED <<chain, next, data>>
    BY <1>5 DEF DequeueEmpty, DestroyEnd
  <2>2. ChainSlots' = ChainSlots
    BY <2>1 DEF ChainSlots
  <2> QED BY <2>1, <2>2, NullNextIsEmpty DEF Abstract!QueueNext, Abstract!SeeEmpty
<1>6. CASE DequeueLoad \/ DequeueReclaim \/ DestroyBegin \/ UNCHANGED vars
  <2>1. UNCHANGED <<chain, next, data, output>>
    BY <1>6 DEF DequeueLoad, DequeueReclaim, DestroyBegin, vars, consumerVars
  <2>2. ChainSlots' = ChainSlots
    BY <2>1 DEF ChainSlots
  <2> QED BY <2>1, <2>2 DEF Abstract!queueVars
<1> QED BY <1>1, <1>2, <1>3, <1>4, <1>5, <1>6 DEF Next

(* LockFreeQueue implements the queue the event loop relies on.            *)
THEOREM Refinement == Spec => RefinesMpscQueue
<1>1. Init => Abstract!QueueInit
  <2> SUFFICES ASSUME Init PROVE Abstract!QueueInit
    OBVIOUS
  <2>1. Len(chain) = 1 /\ output = NoValue
    BY DEF Init
  <2>2. ChainSlots = <<>>
    BY <2>1 DEF ChainSlots
  <2> QED BY <2>1, <2>2 DEF Abstract!QueueInit
<1> QED BY InitIntact, NextKeepsIntact, StepsImplement, <1>1, PTL
        DEF Spec, RefinesMpscQueue, Abstract!QueueSpec
==============================================================================
