------------------------------ MODULE MpscQueue ------------------------------
(***************************************************************************)
(* What util/lock_free_queue.hpp promises to event_loop.cpp: a FIFO queue  *)
(* of slots with many producers and one consumer.  An enqueue takes        *)
(* effect in two steps: it claims its place in the order, and later it     *)
(* publishes the slot.  The consumer takes the first slot once it is       *)
(* published and sees an empty queue until then, even if a later slot has  *)
(* been published in the meantime.                                         *)
(***************************************************************************)
EXTENDS Naturals, Sequences

CONSTANTS
  Value,      \* the elements (T, a std::function in the event loop)
  NoValue     \* what a dequeue that found nothing leaves

ASSUME ValueAssumption == NoValue \notin Value

VARIABLES
  slots,      \* claimed and not yet dequeued, in the order of the claims
  result      \* outcome of the last completed dequeue

queueVars == <<slots, result>>

Slot == [val : Value, published : BOOLEAN]

QueueInit ==
  /\ slots = <<>>
  /\ result = NoValue

(* A producer takes the next place in the order. *)
Claim(v) ==
  /\ slots' = Append(slots, [val |-> v, published |-> FALSE])
  /\ UNCHANGED result

(* The producer that claimed place i makes it visible; producers finish    *)
(* in any order.                                                           *)
Publish(i) ==
  /\ ~slots[i].published
  /\ slots' = [slots EXCEPT ![i] = [val |-> @.val, published |-> TRUE]]
  /\ UNCHANGED result

(* A slot can be taken only from the front and only when it is published. *)
FrontPublished == slots # <<>> /\ Head(slots).published

Take ==
  /\ FrontPublished
  /\ result' = Head(slots).val
  /\ slots' = Tail(slots)

(* empty() answers true, dequeue() false. *)
SeeEmpty ==
  /\ ~FrontPublished
  /\ result' = NoValue
  /\ UNCHANGED slots

QueueNext ==
  \/ \E v \in Value : Claim(v)
  \/ \E i \in DOMAIN slots : Publish(i)
  \/ Take
  \/ SeeEmpty

QueueSpec == QueueInit /\ [][QueueNext]_queueVars
==============================================================================
