--------------------------- MODULE EventLoopProofs ---------------------------
(***************************************************************************)
(* For any number of threads and functors the loop never goes to sleep     *)
(* with a functor or a stop that nobody will wake it for; and a pool of    *)
(* any number of threads, of which EventLoopThreadPool knows the loop's    *)
(* life only, hands out loops that run, one after the other.               *)
(***************************************************************************)
EXTENDS EventLoop, EventLoopThreadPool, TLAPS

IInv == TypeOK /\ QueueOwned /\ NoLostWakeup /\ NoLostStop

USE ValueAssumption

LEMMA AppendSlot ==
  ASSUME NEW s \in Seq(Slot), NEW x \in Slot
  PROVE  /\ Append(s, x) \in Seq(Slot)
         /\ DOMAIN Append(s, x) = DOMAIN s \union {Len(s) + 1}
         /\ DOMAIN s = 1..Len(s)
         /\ \A i \in DOMAIN s : Append(s, x)[i] = s[i]
         /\ Append(s, x)[Len(s) + 1] = x
OBVIOUS

LEMMA TailSlots ==
  ASSUME NEW s \in Seq(Slot), s # <<>>
  PROVE  /\ Tail(s) \in Seq(Slot)
         /\ \A i \in DOMAIN Tail(s) : i + 1 \in DOMAIN s /\ Tail(s)[i] = s[i + 1]
         /\ DOMAIN Tail(s) \subseteq Nat
OBVIOUS

LEMMA InitHolds == Init => IInv
<1> SUFFICES ASSUME Init PROVE IInv
  OBVIOUS
<1>1. TypeOK
  <2>1. slots \in Seq(Slot)
    BY DEF Init, QueueInit
  <2> QED BY <2>1 DEF Init, TypeOK, QueueInit, Callbacks, PC
<1>2. DOMAIN slots = {}
  BY DEF Init, QueueInit
<1> QED BY <1>1, <1>2 DEF Init, IInv, QueueOwned, NoLostWakeup, NoLostStop

-----------------------------------------------------------------------------
(* The loop's own steps between its atomic accesses to the queue.          *)
QuietStep ==
  \/ Start \/ CheckRunning \/ HandlerTimer \/ PollReturn \/ PollInterrupted
  \/ HandleWakeup \/ HandleIo \/ HandledAll \/ CallbackReturns \/ Destroy
  \/ StopInLoop \/ RunTimer \/ IoArrives \/ TimeGoesBy \/ UNCHANGED vars

LEMMA QuietFacts ==
  ASSUME IInv, QuietStep
  PROVE  /\ UNCHANGED <<slots, result, tpc, tev, origin>>
         /\ TypeOK'
         /\ pc' \in {"idle", "destroyed"} => status' = "stop"
         /\ pc' \in BeforePoll => pc \in BeforePoll /\ (wakeupFd => wakeupFd')
         /\ pc' \in {"timers", "timerCb", "poll"} /\ status' = "stop" =>
              \/ stopper' = "timerCb"
              \/ pc \in {"timers", "timerCb", "poll"} /\ status = "stop"
                   /\ stopper' = stopper /\ (wakeupFd => wakeupFd')
<1> USE DEF IInv, TypeOK, QueueOwned, loopVars, queueVars, threadVars,
            historyVars, Callbacks, PC, BeforePoll
<1>1. CASE Start \/ CheckRunning \/ HandlerTimer \/ PollInterrupted \/ HandledAll
  BY <1>1 DEF Start, CheckRunning, HandlerTimer, PollInterrupted, HandledAll
<1>2. CASE PollReturn \/ HandleWakeup \/ HandleIo
  BY <1>2 DEF PollReturn, HandleWakeup, HandleIo
<1>3. CASE CallbackReturns \/ Destroy
  BY <1>3 DEF CallbackReturns, Destroy
<1>4. CASE StopInLoop \/ RunTimer
  BY <1>4 DEF StopInLoop, RunTimer
<1>5. CASE IoArrives \/ TimeGoesBy \/ UNCHANGED vars
  BY <1>5 DEF IoArrives, TimeGoesBy, vars
<1> QED BY <1>1, <1>2, <1>3, <1>4, <1>5 DEF QuietStep

LEMMA QuietKeeps ==
  ASSUME IInv, QuietStep
  PROVE  IInv'
<1>1. /\ UNCHANGED <<slots, result, tpc, tev, origin>>
      /\ TypeOK'
      /\ pc' \in {"idle", "destroyed"} => status' = "stop"
      /\ pc' \in BeforePoll => pc \in BeforePoll /\ (wakeupFd => wakeupFd')
      /\ pc' \in {"timers", "timerCb", "poll"} /\ status' = "stop" =>
           \/ stopper' = "timerCb"
           \/ pc \in {"timers", "timerCb", "poll"} /\ status = "stop"
                /\ stopper' = stopper /\ (wakeupFd => wakeupFd')
  BY QuietFacts
<1>2. QueueOwned'
  BY <1>1 DEF IInv, QueueOwned
<1>3. NoLostWakeup'
  <2> SUFFICES ASSUME pc' \in BeforePoll, NEW i \in DOMAIN slots,
                      origin[slots[i].val] # "timerCb", ~wakeupFd'
               PROVE  \E j \in 1..i : \E t \in Threads : WillWake(t, j)'
    BY <1>1 DEF NoLostWakeup
  <2>1. pc \in BeforePoll /\ ~wakeupFd
    BY <1>1 DEF IInv, TypeOK
  <2>2. \E j \in 1..i : \E t \in Threads : WillWake(t, j)
    BY <2>1 DEF IInv, NoLostWakeup
  <2> QED BY <1>1, <2>2 DEF WillWake
<1>4. NoLostStop'
  BY <1>1 DEF IInv, NoLostStop
<1> QED BY <1>1, <1>2, <1>3, <1>4 DEF IInv

-----------------------------------------------------------------------------
(* Whenever the drain ends the functor in front, if there is one, is not   *)
(* published, so the thread that claimed its slot has yet to wake the loop. *)
LEMMA DrainDoneKeeps ==
  ASSUME IInv, DrainDone
  PROVE  IInv'
<1> USE DEF IInv, TypeOK
<1>1. /\ pc = "drain" /\ pc' = "check" /\ result' = NoValue
      /\ slots = <<>> \/ ~Head(slots).published
      /\ UNCHANGED <<status, ready, wakeupFd, io, timer, slots, tpc, tev, origin, stopper>>
  BY DEF DrainDone, SeeEmpty, FrontPublished, threadVars, historyVars
<1>2. TypeOK'
  BY <1>1 DEF PC
<1>3. QueueOwned'
  BY <1>1 DEF QueueOwned
<1>4. NoLostWakeup'
  <2> SUFFICES ASSUME NEW i \in DOMAIN slots
               PROVE  \E j \in 1..i : \E t \in Threads : WillWake(t, j)'
    BY <1>1 DEF NoLostWakeup
  <2>1. 1 \in DOMAIN slots /\ 1 \in 1..i /\ slots # <<>> /\ Head(slots) = slots[1]
    OBVIOUS
  <2>2. PICK t \in Threads : tpc[t] = "claimed" /\ tev[t] = slots[1].val
    BY <1>1, <2>1 DEF QueueOwned
  <2> QED BY <1>1, <2>1, <2>2 DEF WillWake
<1>5. NoLostStop'
  BY <1>1 DEF NoLostStop
<1> QED BY <1>2, <1>3, <1>4, <1>5

(* Taking the functor in front: the loop is draining, not about to sleep.  *)
LEMMA DrainTakeKeeps ==
  ASSUME IInv, DrainTake
  PROVE  IInv'
<1> USE DEF IInv, TypeOK
<1>1. /\ pc = "drain" /\ pc' = "functorCb"
      /\ slots # <<>> /\ slots' = Tail(slots) /\ result' = Head(slots).val
      /\ UNCHANGED <<status, ready, wakeupFd, io, timer, tpc, tev, origin, stopper>>
  BY DEF DrainTake, Take, FrontPublished, threadVars, historyVars
<1>2. /\ slots' \in Seq(Slot)
      /\ \A i \in DOMAIN slots' : i + 1 \in DOMAIN slots /\ slots'[i] = slots[i + 1]
      /\ DOMAIN slots' \subseteq Nat
  BY <1>1, TailSlots
<1>3. TypeOK'
  <2>1. Head(slots) \in Slot
    BY <1>1
  <2> QED BY <1>1, <1>2, <2>1 DEF PC, Callbacks, Slot
<1>4. QueueOwned'
  <2>1. ASSUME NEW i \in DOMAIN slots', NEW j \in DOMAIN slots',
               slots'[i].val = slots'[j].val
        PROVE  i = j
    <3>1. i + 1 = j + 1
      BY <1>2, <2>1 DEF QueueOwned
    <3> QED BY <1>2, <3>1
  <2>2. ASSUME NEW i \in DOMAIN slots'
        PROVE  /\ origin'[slots'[i].val] # "none"
               /\ \/ slots'[i].published
                  \/ \E t \in Threads : tpc'[t] = "claimed" /\ tev'[t] = slots'[i].val
    BY <1>1, <1>2 DEF QueueOwned
  <2> QED BY <1>1, <2>1, <2>2 DEF QueueOwned
<1>5. NoLostWakeup' /\ NoLostStop'
  BY <1>1 DEF NoLostWakeup, NoLostStop, BeforePoll
<1> QED BY <1>3, <1>4, <1>5

(* A slot at the end of the queue does not disturb those in front of it.   *)
LEMMA AppendKeepsWakers ==
  ASSUME IInv, NEW x \in Slot, slots' = Append(slots, x), NEW i \in DOMAIN slots,
         \A t \in Threads :
           tpc[t] # "idle" => tpc'[t] = tpc[t] /\ tev'[t] = tev[t],
         \E j \in 1..i : \E t \in Threads : WillWake(t, j)
  PROVE  \E j \in 1..i : \E t \in Threads : WillWake(t, j)'
<1>1. PICK j \in 1..i : \E t \in Threads : WillWake(t, j)
  OBVIOUS
<1>2. j \in DOMAIN slots /\ slots'[j] = slots[j]
  BY AppendSlot DEF IInv, TypeOK
<1> QED BY <1>1, <1>2 DEF WillWake

(* A callback or the idle owner queues a functor: in the phases that matter *)
(* the loop is stopped and woken, or the functor is a timer callback's.    *)
LEMMA QueueInLoopKeeps ==
  ASSUME IInv, NEW e \in Value, QueueInLoop(e)
  PROVE  IInv'
<1> USE DEF IInv, TypeOK
<1> DEFINE x == [val |-> e, published |-> TRUE]
<1>1. /\ pc \in Callbacks \union {"idle"} /\ origin[e] = "none"
      /\ slots' = Append(slots, x)
      /\ origin' = [origin EXCEPT ![e] = pc]
      /\ wakeupFd' = (wakeupFd \/ status = "stop")
      /\ UNCHANGED <<status, pc, ready, io, timer, result, tpc, tev, stopper>>
  BY DEF QueueInLoop, loopVars, threadVars
<1>2. x \in Slot
  BY DEF Slot
<1>3. /\ slots' \in Seq(Slot)
      /\ DOMAIN slots' = DOMAIN slots \union {Len(slots) + 1}
      /\ DOMAIN slots = 1..Len(slots)
      /\ \A i \in DOMAIN slots : slots'[i] = slots[i]
      /\ slots'[Len(slots) + 1] = x
  BY <1>1, <1>2, AppendSlot
<1>4. TypeOK'
  <2>1. origin' \in [Value -> {"none", "thread", "idle"} \union Callbacks]
    BY <1>1
  <2>2. wakeupFd' \in BOOLEAN
    BY <1>1
  <2> QED BY <1>1, <1>3, <2>1, <2>2
<1>5. \A i \in DOMAIN slots : slots[i].val # e
  BY <1>1 DEF QueueOwned
<1>6. QueueOwned'
  BY <1>1, <1>3, <1>5 DEF QueueOwned, Callbacks, Slot
<1>7. NoLostWakeup'
  <2> SUFFICES ASSUME pc' \in BeforePoll, NEW i \in DOMAIN slots',
                      origin'[slots'[i].val] # "timerCb", ~wakeupFd'
               PROVE  \E j \in 1..i : \E t \in Threads : WillWake(t, j)'
    BY DEF NoLostWakeup
  <2>1. status # "stop" /\ ~wakeupFd
    BY <1>1
  <2>2. pc = "timerCb"
    BY <1>1, <2>1 DEF QueueOwned, BeforePoll, Callbacks
  <2>3. i \in DOMAIN slots
    BY <1>1, <1>3, <2>2
  <2>4. origin[slots[i].val] # "timerCb"
    BY <1>1, <1>3, <1>5, <2>3
  <2>5. \E j \in 1..i : \E t \in Threads : WillWake(t, j)
    BY <1>1, <2>1, <2>3, <2>4 DEF NoLostWakeup
  <2> QED BY <1>1, <1>2, <2>3, <2>5, AppendKeepsWakers
<1>8. NoLostStop'
  BY <1>1 DEF NoLostStop
<1> QED BY <1>4, <1>6, <1>7, <1>8

-----------------------------------------------------------------------------
(* A thread in queueInLoop stays a waker until its wakeup() is done.       *)
LEMMA ThreadClaimKeeps ==
  ASSUME IInv, NEW t \in Threads, NEW e \in Value, ThreadClaim(t, e)
  PROVE  IInv'
<1> USE DEF IInv, TypeOK
<1> DEFINE x == [val |-> e, published |-> FALSE]
<1>1. /\ tpc[t] = "idle" /\ origin[e] = "none"
      /\ slots' = Append(slots, x)
      /\ origin' = [origin EXCEPT ![e] = "thread"]
      /\ tpc' = [tpc EXCEPT ![t] = "claimed"]
      /\ tev' = [tev EXCEPT ![t] = e]
      /\ UNCHANGED <<status, pc, ready, wakeupFd, io, timer, result, stopper>>
  BY DEF ThreadClaim, Claim, loopVars
<1>2. x \in Slot
  BY DEF Slot
<1>3. /\ slots' \in Seq(Slot)
      /\ DOMAIN slots' = DOMAIN slots \union {Len(slots) + 1}
      /\ DOMAIN slots = 1..Len(slots)
      /\ \A i \in DOMAIN slots : slots'[i] = slots[i]
      /\ slots'[Len(slots) + 1] = x
  BY <1>1, <1>2, AppendSlot
<1>4. TypeOK'
  <2>1. origin' \in [Value -> {"none", "thread", "idle"} \union Callbacks]
    BY <1>1
  <2> QED BY <1>1, <1>3, <2>1
<1>5. \A i \in DOMAIN slots : slots[i].val # e
  BY <1>1 DEF QueueOwned
<1>6. QueueOwned'
  <2>1. \A i, j \in DOMAIN slots' : slots'[i].val = slots'[j].val => i = j
    BY <1>3, <1>5 DEF QueueOwned
  <2>2. ASSUME NEW i \in DOMAIN slots'
        PROVE  /\ origin'[slots'[i].val] # "none"
               /\ \/ slots'[i].published
                  \/ \E u \in Threads : tpc'[u] = "claimed" /\ tev'[u] = slots'[i].val
    <3>1. CASE i \in DOMAIN slots
      BY <1>1, <1>3, <1>5, <3>1 DEF QueueOwned
    <3>2. CASE i = Len(slots) + 1
      BY <1>1, <1>3, <3>2
    <3> QED BY <1>3, <3>1, <3>2
  <2> QED BY <1>1, <2>1, <2>2 DEF QueueOwned
<1>7. NoLostWakeup'
  <2> SUFFICES ASSUME pc' \in BeforePoll, NEW i \in DOMAIN slots',
                      origin'[slots'[i].val] # "timerCb", ~wakeupFd'
               PROVE  \E j \in 1..i : \E u \in Threads : WillWake(u, j)'
    BY DEF NoLostWakeup
  <2>1. CASE i \in DOMAIN slots
    <3>1. origin[slots[i].val] # "timerCb"
      BY <1>1, <1>3, <1>5, <2>1
    <3>2. \E j \in 1..i : \E u \in Threads : WillWake(u, j)
      BY <1>1, <2>1, <3>1 DEF NoLostWakeup
    <3> QED BY <1>1, <1>2, <2>1, <3>2, AppendKeepsWakers
  <2>2. CASE i = Len(slots) + 1
    <3>1. WillWake(t, i)' /\ i \in 1..i
      BY <1>1, <1>3, <2>2 DEF WillWake
    <3> QED BY <3>1
  <2> QED BY <1>3, <2>1, <2>2
<1>8. NoLostStop'
  BY <1>1 DEF NoLostStop
<1> QED BY <1>4, <1>6, <1>7, <1>8

LEMMA ThreadPublishKeeps ==
  ASSUME IInv, NEW t \in Threads, ThreadPublish(t)
  PROVE  IInv'
<1> USE DEF IInv, TypeOK
<1>1. PICK k \in DOMAIN slots :
        /\ slots[k].val = tev[t] /\ ~slots[k].published
        /\ slots' = [slots EXCEPT ![k] = [val |-> slots[k].val, published |-> TRUE]]
  BY DEF ThreadPublish, Publish
<1>2. /\ tpc[t] = "claimed"
      /\ tpc' = [tpc EXCEPT ![t] = "published"]
      /\ UNCHANGED <<status, pc, ready, wakeupFd, io, timer, result, tev, origin, stopper>>
  BY DEF ThreadPublish, Publish, loopVars, historyVars
<1>3. /\ slots' \in Seq(Slot)
      /\ DOMAIN slots' = DOMAIN slots
      /\ \A i \in DOMAIN slots : slots'[i].val = slots[i].val
      /\ \A i \in DOMAIN slots : slots'[i].published <=> (slots[i].published \/ i = k)
  <2>1. slots[k] \in Slot
    OBVIOUS
  <2>2. [val |-> slots[k].val, published |-> TRUE] \in Slot
    BY <2>1 DEF Slot
  <2> QED BY <1>1, <2>2
<1>4. TypeOK'
  BY <1>2, <1>3
<1>5. QueueOwned'
  <2>1. ASSUME NEW i \in DOMAIN slots, ~slots'[i].published
        PROVE  \E u \in Threads : tpc'[u] = "claimed" /\ tev'[u] = slots'[i].val
    <3>1. ~slots[i].published /\ i # k
      BY <1>3, <2>1
    <3>2. PICK u \in Threads : tpc[u] = "claimed" /\ tev[u] = slots[i].val
      BY <3>1 DEF QueueOwned
    <3>3. u # t
      BY <1>1, <3>1, <3>2 DEF QueueOwned
    <3> QED BY <1>2, <1>3, <3>2, <3>3
  <2>2. \A i \in DOMAIN slots : origin'[slots'[i].val] # "none"
    BY <1>2, <1>3 DEF QueueOwned
  <2>3. \A i, j \in DOMAIN slots' : slots'[i].val = slots'[j].val => i = j
    BY <1>3 DEF QueueOwned
  <2> QED BY <1>2, <1>3, <2>1, <2>2, <2>3 DEF QueueOwned
<1>6. NoLostWakeup'
  <2> SUFFICES ASSUME pc' \in BeforePoll, NEW i \in DOMAIN slots,
                      origin'[slots'[i].val] # "timerCb", ~wakeupFd'
               PROVE  \E j \in 1..i : \E u \in Threads : WillWake(u, j)'
    BY <1>3 DEF NoLostWakeup
  <2>1. PICK j \in 1..i : \E u \in Threads : WillWake(u, j)
    BY <1>2, <1>3 DEF NoLostWakeup
  <2>2. j \in DOMAIN slots
    OBVIOUS
  <2> QED BY <1>2, <1>3, <2>1, <2>2 DEF WillWake
<1>7. NoLostStop'
  BY <1>2 DEF NoLostStop
<1> QED BY <1>4, <1>5, <1>6, <1>7

LEMMA ThreadStopKeeps ==
  ASSUME IInv, NEW t \in Threads, ThreadStop(t)
  PROVE  IInv'
<1> USE DEF IInv, TypeOK
<1>1. /\ tpc[t] = "idle" /\ status = "running" /\ status' = "stop" /\ stopper' = "thread"
      /\ tpc' = [tpc EXCEPT ![t] = "stopping"]
      /\ UNCHANGED <<pc, ready, wakeupFd, io, timer, slots, result, tev, origin>>
  BY DEF ThreadStop, queueVars
<1>2. TypeOK'
  BY <1>1
<1>3. QueueOwned'
  BY <1>1 DEF QueueOwned
<1>4. \A u \in Threads : \A j \in DOMAIN slots : WillWake(u, j) => WillWake(u, j)'
  BY <1>1 DEF WillWake
<1>5. \A i \in DOMAIN slots : \A j \in 1..i : j \in DOMAIN slots
  OBVIOUS
<1>6. NoLostWakeup'
  BY <1>1, <1>4, <1>5 DEF NoLostWakeup
<1>7. NoLostStop'
  BY <1>1 DEF NoLostStop
<1> QED BY <1>2, <1>3, <1>6, <1>7

LEMMA ThreadWakeupKeeps ==
  ASSUME IInv, NEW t \in Threads, ThreadWakeup(t)
  PROVE  IInv'
<1> USE DEF IInv, TypeOK
<1>1. /\ tpc[t] # "claimed" /\ wakeupFd' = TRUE
      /\ tpc' = [tpc EXCEPT ![t] = "idle"]
      /\ tev' = [tev EXCEPT ![t] = NoValue]
      /\ UNCHANGED <<status, pc, ready, io, timer, slots, result, origin, stopper>>
  BY DEF ThreadWakeup, loopVars, queueVars, historyVars
<1>2. TypeOK'
  BY <1>1
<1>3. QueueOwned'
  BY <1>1 DEF QueueOwned
<1>4. NoLostWakeup' /\ NoLostStop'
  BY <1>1 DEF NoLostWakeup, NoLostStop
<1> QED BY <1>2, <1>3, <1>4

-----------------------------------------------------------------------------
LEMMA NextHolds == IInv /\ [Next]_vars => IInv'
<1> SUFFICES ASSUME IInv, [Next]_vars PROVE IInv'
  OBVIOUS
<1>1. CASE QuietStep
  BY <1>1, QuietKeeps
<1>2. CASE DrainTake
  BY <1>2, DrainTakeKeeps
<1>3. CASE DrainDone
  BY <1>3, DrainDoneKeeps
<1>4. ASSUME NEW e \in Value, QueueInLoop(e) PROVE IInv'
  BY <1>4, QueueInLoopKeeps
<1>5. ASSUME NEW t \in Threads, NEW e \in Value, ThreadClaim(t, e) PROVE IInv'
  BY <1>5, ThreadClaimKeeps
<1>6. ASSUME NEW t \in Threads, ThreadStop(t) PROVE IInv'
  BY <1>6, ThreadStopKeeps
<1>7. ASSUME NEW t \in Threads, ThreadPublish(t) PROVE IInv'
  BY <1>7, ThreadPublishKeeps
<1>8. ASSUME NEW t \in Threads, ThreadWakeup(t) PROVE IInv'
  BY <1>8, ThreadWakeupKeeps
<1> QED BY <1>1, <1>2, <1>3, <1>4, <1>5, <1>6, <1>7, <1>8
        DEF Next, LoopStep, ThreadFinish, QuietStep

(* The members of EventLoop keep their types (event_loop.hpp:74-97).        *)
THEOREM TypeCorrect == Spec => []TypeOK
<1>1. IInv => TypeOK
  BY DEF IInv
<1> QED BY InitHolds, NextHolds, <1>1, PTL DEF Spec

(* No interleaving of posting threads with the loop loses a wakeup         *)
(* (event_loop.cpp:63-90, 114-121, 168-177).                                *)
THEOREM WakeupNotLost == Spec => []NoLostWakeup
<1>1. IInv => NoLostWakeup
  BY DEF IInv
<1> QED BY InitHolds, NextHolds, <1>1, PTL DEF Spec

(* The wakeup of a stop() is not lost either (event_loop.cpp:92-100).       *)
THEOREM StopNotLost == Spec => []NoLostStop
<1>1. IInv => NoLostStop
  BY DEF IInv
<1> QED BY InitHolds, NextHolds, <1>1, PTL DEF Spec

(* Every unpublished slot has a thread that will publish it                *)
(* (event_loop.cpp:116-120).                                               *)
THEOREM QueueStaysOwned == Spec => []QueueOwned
<1>1. IInv => QueueOwned
  BY DEF IInv
<1> QED BY InitHolds, NextHolds, <1>1, PTL DEF Spec

-----------------------------------------------------------------------------
(* EventLoopThread and EventLoopThreadPool: a loop that was handed over     *)
(* runs, for any number of threads, starts and stops.                      *)

(* One thread and its owner: the functor of start() is queued, or it has    *)
(* handed over the loop, which runs until somebody stops it; nobody can     *)
(* post to a loop before.                                                  *)
WorkerInv(w) ==
  /\ wpc[w] \in {"ctor", "queue", "begin"} => opc[w] = "starting"
  /\ handover[w] => opc[w] = "starting" /\ ~promised[w]
  /\ loop[w] => wpc[w] \in {"clear"} \union Running
  /\ queued[w] <= posts[w]
  /\ wpc[w] \in {"none", "done"} => queued[w] = 0
  /\ opc[w] = "off" => wpc[w] = "none"
  /\ opc[w] = "starting" =>
       /\ wpc[w] \in {"ctor", "queue", "begin"} \union Running
       /\ ~quit[w] /\ queued[w] = 0
       /\ wpc[w] \in Running => lstatus[w] = "running"
       /\ promised[w] => loop[w] /\ wpc[w] \in Running
  /\ opc[w] \in {"on", "stop"} /\ ~quit[w] =>
       loop[w] /\ lstatus[w] = "running" /\ wpc[w] \in Running

WorkersInv == ELTypeOK /\ \A w \in Workers : WorkerInv(w)

(* start() and stop() go through the threads one after the other. *)
OwnerInv ==
  /\ ppc = "off" => loops = <<>> /\ \A w \in Workers : opc[w] = "off"
  /\ ppc = "starting" =>
       /\ loops = <<>>
       /\ \A w \in Workers :
            /\ w < at => opc[w] = "on"
            /\ w = at => opc[w] \in {"off", "starting"}
            /\ w > at => opc[w] = "off"
  /\ ppc = "on" => loops = [i \in 1..N |-> i] /\ \A w \in Workers : opc[w] = "on"
  /\ ppc = "stopping" =>
       \A w \in Workers :
         /\ w < at => opc[w] = "off"
         /\ w = at => opc[w] \notin {"off", "starting"}
         /\ w > at => opc[w] = "on"

(* In the order in which getNextLoop will come to them, the loops were      *)
(* handed out more and more often, by one at most.                         *)
ComesBefore(v, w) ==
  \/ w <= index /\ (v < w \/ index < v)
  \/ index < v /\ v < w

InTurn ==
  \A v, w \in Workers :
    /\ handed[v] <= handed[w] + 1
    /\ ComesBefore(v, w) => handed[v] <= handed[w]

PoolInv == PoolTypeOK /\ WorkersInv /\ OwnerInv /\ InTurn

(* A step of one thread or its owner changes nothing for the others. *)
OnlyOf(w) ==
  \A x \in Workers \ {w} :
    /\ wpc'[x] = wpc[x] /\ lstatus'[x] = lstatus[x] /\ fd'[x] = fd[x]
    /\ handover'[x] = handover[x] /\ loop'[x] = loop[x] /\ promised'[x] = promised[x]
    /\ opc'[x] = opc[x] /\ posts'[x] = posts[x] /\ queued'[x] = queued[x]
    /\ quit'[x] = quit[x]

LEMMA OthersKeep ==
  ASSUME WorkersInv, NEW w \in Workers, OnlyOf(w), WorkerInv(w)', ELTypeOK'
  PROVE  WorkersInv'
<1>1. ASSUME NEW x \in Workers, x # w PROVE WorkerInv(x)'
  BY <1>1 DEF WorkersInv, WorkerInv, OnlyOf
<1> QED BY <1>1 DEF WorkersInv

LEMMA ThreadKeeps ==
  ASSUME WorkersInv, NEW w \in Workers, ThreadStep(w) \/ PollOther(w) \/ RunQuit(w)
  PROVE  WorkersInv'
<1> USE DEF workerVars, sharedVars, ownerVars, postVars, Goto, Running, Polling, Joinable
<1>0. ELTypeOK /\ WorkerInv(w)
  BY DEF WorkersInv
<1>1. CASE Construct(w) \/ QueueHandover(w) \/ Begin(w)
  <2>1. ELTypeOK' /\ OnlyOf(w)
    <3>1. CASE Construct(w)
      <4>1. ELTypeOK'
        BY <1>0, <3>1 DEF Construct, ELTypeOK
      <4>2. OnlyOf(w)
        BY <1>0, <3>1 DEF Construct, ELTypeOK, OnlyOf
      <4> QED BY <4>1, <4>2
    <3>2. CASE QueueHandover(w)
      <4>1. ELTypeOK'
        BY <1>0, <3>2 DEF QueueHandover, ELTypeOK
      <4>2. OnlyOf(w)
        BY <1>0, <3>2 DEF QueueHandover, ELTypeOK, OnlyOf
      <4> QED BY <4>1, <4>2
    <3>3. CASE Begin(w)
      <4>1. ELTypeOK'
        BY <1>0, <3>3 DEF Begin, ELTypeOK
      <4>2. OnlyOf(w)
        BY <1>0, <3>3 DEF Begin, ELTypeOK, OnlyOf
      <4> QED BY <4>1, <4>2
    <3> QED BY <1>1, <3>1, <3>2, <3>3
  <2>2. WorkerInv(w)'
    BY <1>0, <1>1 DEF Construct, QueueHandover, Begin, ELTypeOK, WorkerInv
  <2> QED BY <2>1, <2>2, OthersKeep
<1>2. CASE Check(w) \/ PollWakeup(w) \/ PollOther(w) \/ DrainReturns(w)
  <2>1. ELTypeOK' /\ OnlyOf(w)
    BY <1>0, <1>2 DEF Check, PollWakeup, PollOther, DrainReturns, ELTypeOK, OnlyOf
  <2>2. WorkerInv(w)'
    BY <1>0, <1>2 DEF Check, PollWakeup, PollOther, DrainReturns, ELTypeOK, WorkerInv
  <2> QED BY <2>1, <2>2, OthersKeep
<1>3. CASE RunHandover(w)
  <2>1. ELTypeOK' /\ OnlyOf(w)
    BY <1>0, <1>3 DEF RunHandover, ELTypeOK, OnlyOf
  <2>2. WorkerInv(w)'
    BY <1>0, <1>3 DEF RunHandover, ELTypeOK, WorkerInv
  <2> QED BY <2>1, <2>2, OthersKeep
<1>4. CASE RunPosted(w) \/ RunQuit(w)
  <2>1. ELTypeOK' /\ OnlyOf(w)
    <3>1. CASE RunPosted(w)
      <4>1. ELTypeOK'
        BY <1>0, <3>1, BoundsAssumption DEF RunPosted, ELTypeOK
      <4>2. OnlyOf(w)
        BY <1>0, <3>1 DEF RunPosted, ELTypeOK, OnlyOf
      <4> QED BY <4>1, <4>2
    <3>2. CASE RunQuit(w)
      <4>1. ELTypeOK'
        BY <1>0, <3>2, BoundsAssumption DEF RunQuit, ELTypeOK
      <4>2. OnlyOf(w)
        BY <1>0, <3>2 DEF RunQuit, ELTypeOK, OnlyOf
      <4> QED BY <4>1, <4>2
    <3> QED BY <1>4, <3>1, <3>2
  <2>2. WorkerInv(w)'
    BY <1>0, <1>4, BoundsAssumption DEF RunPosted, RunQuit, ELTypeOK, WorkerInv
  <2> QED BY <2>1, <2>2, OthersKeep
<1>5. CASE ClearLoop(w) \/ Destruct(w)
  <2>1. ELTypeOK' /\ OnlyOf(w)
    <3>1. CASE ClearLoop(w)
      <4>1. ELTypeOK'
        BY <1>0, <3>1, BoundsAssumption DEF ClearLoop, ELTypeOK
      <4>2. OnlyOf(w)
        BY <1>0, <3>1 DEF ClearLoop, ELTypeOK, OnlyOf
      <4> QED BY <4>1, <4>2
    <3>2. CASE Destruct(w)
      <4>1. ELTypeOK'
        BY <1>0, <3>2, BoundsAssumption DEF Destruct, ELTypeOK
      <4>2. OnlyOf(w)
        BY <1>0, <3>2 DEF Destruct, ELTypeOK, OnlyOf
      <4> QED BY <4>1, <4>2
    <3> QED BY <1>5, <3>1, <3>2
  <2>2. WorkerInv(w)'
    BY <1>0, <1>5, BoundsAssumption DEF ClearLoop, Destruct, ELTypeOK, WorkerInv
  <2> QED BY <2>1, <2>2, OthersKeep
<1> QED BY <1>1, <1>2, <1>3, <1>4, <1>5 DEF ThreadStep

LEMMA OwnerKeeps ==
  ASSUME WorkersInv, NEW w \in Workers,
         \/ StartThread(w) \/ StartReturn(w) \/ Post(w)
         \/ StopLoad(w) \/ StopStore(w) \/ StopWakeup(w) \/ StopJoin(w)
  PROVE  WorkersInv'
<1> USE DEF workerVars, sharedVars, ownerVars, postVars, Goto, OwnerGoto, Running, Polling, Joinable
<1>0. ELTypeOK /\ WorkerInv(w)
  BY DEF WorkersInv
<1>1. CASE StartThread(w) \/ StartReturn(w)
  <2>1. ELTypeOK' /\ OnlyOf(w)
    <3>1. CASE StartThread(w)
      <4>1. ELTypeOK'
        BY <1>0, <3>1, BoundsAssumption DEF StartThread, ELTypeOK, WorkerInv
      <4>2. OnlyOf(w)
        BY <1>0, <3>1 DEF StartThread, ELTypeOK, OnlyOf
      <4> QED BY <4>1, <4>2
    <3>2. CASE StartReturn(w)
      <4>1. ELTypeOK'
        BY <1>0, <3>2, BoundsAssumption DEF StartReturn, ELTypeOK
      <4>2. OnlyOf(w)
        BY <1>0, <3>2 DEF StartReturn, ELTypeOK, OnlyOf
      <4> QED BY <4>1, <4>2
    <3> QED BY <1>1, <3>1, <3>2
  <2>2. WorkerInv(w)'
    BY <1>0, <1>1, BoundsAssumption DEF StartThread, StartReturn, ELTypeOK, WorkerInv
  <2> QED BY <2>1, <2>2, OthersKeep
<1>2. CASE StopLoad(w) \/ StopStore(w) \/ StopWakeup(w)
  <2>1. ELTypeOK' /\ OnlyOf(w)
    BY <1>0, <1>2 DEF StopLoad, StopStore, StopWakeup, ELTypeOK, OnlyOf
  <2>2. WorkerInv(w)'
    BY <1>0, <1>2 DEF StopLoad, StopStore, StopWakeup, ELTypeOK, WorkerInv
  <2> QED BY <2>1, <2>2, OthersKeep
<1>3. CASE StopJoin(w) \/ Post(w)
  <2>1. ELTypeOK' /\ OnlyOf(w)
    BY <1>0, <1>3, BoundsAssumption DEF StopJoin, Post, ELTypeOK, OnlyOf, WorkerInv
  <2>2. WorkerInv(w)'
    BY <1>0, <1>3, BoundsAssumption DEF StopJoin, Post, ELTypeOK, WorkerInv
  <2> QED BY <2>1, <2>2, OthersKeep
<1> QED BY <1>1, <1>2, <1>3

LEMMA WorkersKept == WorkersInv /\ [ELNext]_elVars => WorkersInv'
<1> SUFFICES ASSUME WorkersInv, [ELNext]_elVars PROVE WorkersInv'
  OBVIOUS
<1>1. CASE ELNext
  BY <1>1, ThreadKeeps, OwnerKeeps DEF ELNext, OtherStep
<1>2. CASE UNCHANGED elVars
  BY <1>2
  DEF WorkersInv, WorkerInv, ELTypeOK, elVars, workerVars, sharedVars, ownerVars, postVars
<1> QED BY <1>1, <1>2

-----------------------------------------------------------------------------
(* The pool. *)

(* What the pool does with a thread is what EventLoopThread allows. *)
LEMMA PoolStepIsThreadStep == PoolTypeOK /\ [PoolNext]_allVars => [ELNext]_elVars
<1> SUFFICES ASSUME PoolTypeOK, [PoolNext]_allVars PROVE [ELNext]_elVars
  OBVIOUS
<1>1. CASE OwnerStep
  <2>1. at <= N => at \in Workers
    BY PoolAssumption DEF PoolTypeOK
  <2>2. PoolStartReturn \/ PoolStopReturn => UNCHANGED elVars
    BY DEF PoolStartReturn, PoolStopReturn
  <2>3. PoolStartThread => at \in Workers /\ StartThread(at)
    BY <2>1 DEF PoolStartThread
  <2>4. PoolThreadStarted => at \in Workers /\ StartReturn(at)
    BY <2>1 DEF PoolThreadStarted
  <2>5. PoolStopThread => at \in Workers /\ (StopLoad(at) \/ StopStore(at) \/ StopWakeup(at))
    BY <2>1 DEF PoolStopThread
  <2>6. PoolThreadStopped => at \in Workers /\ StopJoin(at)
    BY <2>1 DEF PoolThreadStopped
  <2> QED BY <1>1, <2>2, <2>3, <2>4, <2>5, <2>6 DEF OwnerStep, ELNext
<1>2. CASE PoolStart \/ PoolStop \/ GetNextLoop \/ UNCHANGED allVars
  BY <1>2 DEF PoolStart, PoolStop, GetNextLoop, allVars
<1>3. ASSUME NEW w \in Workers, WorkerStep(w) PROVE ELNext
  BY <1>3 DEF WorkerStep, ELNext, OtherStep
<1> QED BY <1>1, <1>2, <1>3 DEF PoolNext

(* getNextLoop comes to the loop after index, or to the first. *)
LEMMA NextLoop ==
  ASSUME PoolTypeOK, ppc = "on", OwnerInv, GetNextLoop
  PROVE  \E w \in Workers :
           /\ w = IF index >= N THEN 1 ELSE index + 1
           /\ index' = w /\ handed[w] < MaxCalls
           /\ handed' = [handed EXCEPT ![w] = @ + 1]
<1>1. loops = [i \in 1..N |-> i]
  BY DEF OwnerInv
<1>2. Len(loops) = N /\ \A i \in 1..N : loops[i] = i
  BY <1>1, PoolAssumption
<1>3. PICK i : /\ i = IF index >= N THEN 0 ELSE index
               /\ handed[loops[i + 1]] < MaxCalls
               /\ handed' = [handed EXCEPT ![loops[i + 1]] = @ + 1]
               /\ index' = i + 1
  BY <1>2 DEF GetNextLoop
<1>4. i \in 0..(N - 1)
  BY <1>3, PoolAssumption DEF PoolTypeOK
<1>5. i + 1 \in Workers /\ loops[i + 1] = i + 1
  BY <1>2, <1>4, PoolAssumption
<1>6. PICK w \in Workers : w = i + 1
  BY <1>5
<1>7. w = IF index >= N THEN 1 ELSE index + 1
  BY <1>3, <1>4, <1>6, PoolAssumption DEF PoolTypeOK
<1> QED BY <1>3, <1>5, <1>6, <1>7

LEMMA OwnerStepKeeps ==
  ASSUME PoolInv, WorkersInv', OwnerStep
  PROVE  PoolTypeOK' /\ OwnerInv' /\ InTurn'
<1> USE PoolAssumption DEF poolVars
<1>0. PoolTypeOK /\ OwnerInv /\ InTurn /\ ELTypeOK'
  BY DEF PoolInv, WorkersInv
<1>1. opc \in [Workers -> {"off", "starting", "on", "stop", "wakeup", "join", "crashed"}]
  BY <1>0 DEF PoolTypeOK, ELTypeOK
<1>2. CASE PoolStartThread \/ PoolStopThread
  <2>1. PoolTypeOK' /\ InTurn'
    BY <1>0, <1>2 DEF PoolStartThread, PoolStopThread, PoolTypeOK, InTurn, ComesBefore
  <2>2. /\ at \in Workers /\ ppc \in {"starting", "stopping"}
        /\ \A x \in Workers : x # at => opc'[x] = opc[x]
        /\ ppc = "starting" => opc'[at] = "starting"
        /\ ppc = "stopping" => opc'[at] \in {"stop", "crashed", "wakeup", "join"}
    BY <1>0, <1>1, <1>2
    DEF PoolStartThread, PoolStopThread, StartThread, StopLoad, StopStore, StopWakeup, OwnerGoto,
        PoolTypeOK
  <2>3. OwnerInv'
    BY <1>0, <1>2, <2>2 DEF PoolStartThread, PoolStopThread, OwnerInv, PoolTypeOK
  <2> QED BY <2>1, <2>3
<1>3. CASE PoolThreadStarted \/ PoolThreadStopped
  <2>1. PoolTypeOK' /\ InTurn'
    <3>1. at <= N /\ at' = at + 1 /\ UNCHANGED <<ppc, loops, index, handed>>
      BY <1>3 DEF PoolThreadStarted, PoolThreadStopped
    <3>2. at' \in 1..(N + 1)
      BY <1>0, <3>1 DEF PoolTypeOK
    <3> QED BY <1>0, <3>1, <3>2 DEF PoolTypeOK, InTurn, ComesBefore
  <2>2. /\ at \in Workers /\ at' = at + 1
        /\ \A x \in Workers : x # at => opc'[x] = opc[x]
        /\ ppc = "starting" => opc'[at] = "on"
        /\ ppc = "stopping" => opc'[at] = "off"
    BY <1>0, <1>1, <1>3
    DEF PoolThreadStarted, PoolThreadStopped, StartReturn, StopJoin, OwnerGoto, PoolTypeOK
  <2>3. OwnerInv'
    BY <1>0, <1>3, <2>2 DEF PoolThreadStarted, PoolThreadStopped, OwnerInv, PoolTypeOK
  <2> QED BY <2>1, <2>3
<1>4. CASE PoolStartReturn \/ PoolStopReturn
  <2>1. opc' = opc
    BY <1>4 DEF PoolStartReturn, PoolStopReturn, elVars, ownerVars
  <2>2. PoolTypeOK'
    BY <1>0, <1>4 DEF PoolStartReturn, PoolStopReturn, PoolTypeOK
  <2>3. OwnerInv'
    BY <1>0, <1>4, <2>1 DEF PoolStartReturn, PoolStopReturn, OwnerInv, PoolTypeOK
  <2>4. InTurn'
    BY <1>0, <1>4 DEF PoolStartReturn, PoolStopReturn, InTurn, ComesBefore
  <2> QED BY <2>2, <2>3, <2>4
<1> QED BY <1>2, <1>3, <1>4 DEF OwnerStep

LEMMA GetNextLoopKeeps ==
  ASSUME PoolInv, WorkersInv', GetNextLoop
  PROVE  PoolTypeOK' /\ OwnerInv' /\ InTurn'
<1>0. PoolTypeOK /\ OwnerInv /\ InTurn /\ ELTypeOK'
  BY DEF PoolInv, WorkersInv
<1>1. ppc = "on" /\ UNCHANGED <<elVars, ppc, at, loops>>
  BY DEF GetNextLoop
<1>2. PICK w \in Workers : /\ w = IF index >= N THEN 1 ELSE index + 1
                           /\ index' = w /\ handed[w] < MaxCalls
                           /\ handed' = [handed EXCEPT ![w] = @ + 1]
  BY <1>0, <1>1, NextLoop
<1>3. /\ Workers = 1..N /\ N \in Nat \ {0} /\ MaxCalls \in Nat
      /\ index \in 0..N /\ handed \in [Workers -> 0..MaxCalls]
  BY <1>0, PoolAssumption DEF PoolTypeOK
<1>4. PoolTypeOK'
  <2>1. handed' \in [Workers -> 0..MaxCalls] /\ index' \in 0..N
    BY <1>2, <1>3
  <2> QED BY <1>0, <1>1, <2>1 DEF PoolTypeOK
<1>5. OwnerInv'
  BY <1>0, <1>1 DEF OwnerInv, elVars, ownerVars
<1>6. \A x \in Workers : handed[w] <= handed[x]
  <2>1. ASSUME NEW x \in Workers, x # w PROVE ComesBefore(w, x)
    BY <1>2, <1>3, <2>1 DEF ComesBefore
  <2> QED BY <1>0, <1>3, <2>1 DEF InTurn
<1>7. /\ handed'[w] = handed[w] + 1
      /\ \A x \in Workers : x # w => handed'[x] = handed[x]
  BY <1>2, <1>3
<1>8. ASSUME NEW u \in Workers, NEW v \in Workers
      PROVE  /\ handed'[u] <= handed'[v] + 1
             /\ ComesBefore(u, v)' => handed'[u] <= handed'[v]
  <2>1. handed'[u] <= handed'[v] + 1
    BY <1>0, <1>3, <1>6, <1>7 DEF InTurn
  <2>2. ASSUME ComesBefore(u, v)' PROVE handed'[u] <= handed'[v]
    <3>1. u # w
      BY <1>2, <1>3, <2>2 DEF ComesBefore
    <3>2. CASE v = w
      BY <1>0, <1>3, <1>7, <3>1, <3>2 DEF InTurn
    <3>3. CASE v # w
      <4>1. ComesBefore(u, v)
        BY <1>2, <1>3, <2>2, <3>1, <3>3 DEF ComesBefore
      <4> QED BY <1>0, <1>7, <3>1, <3>3, <4>1 DEF InTurn
    <3> QED BY <3>2, <3>3
  <2> QED BY <2>1, <2>2
<1>9. InTurn'
  BY <1>8 DEF InTurn
<1> QED BY <1>4, <1>5, <1>9

LEMMA PoolInvHolds == PoolSpec => []PoolInv
<1>1. PoolInit => PoolInv
  <2> SUFFICES ASSUME PoolInit PROVE PoolInv
    OBVIOUS
  <2>1. ELTypeOK
    BY BoundsAssumption DEF PoolInit, ELInit, ELTypeOK, Running, Polling, Joinable
  <2>2. \A w \in Workers : WorkerInv(w)
    BY BoundsAssumption DEF PoolInit, ELInit, WorkerInv
  <2>3. PoolTypeOK /\ OwnerInv /\ InTurn
    BY <2>1, PoolAssumption DEF PoolInit, ELInit, PoolTypeOK, OwnerInv, InTurn
  <2> QED BY <2>1, <2>2, <2>3 DEF PoolInv, WorkersInv
<1>2. PoolInv /\ [PoolNext]_allVars => PoolInv'
  <2> SUFFICES ASSUME PoolInv, [PoolNext]_allVars PROVE PoolInv'
    OBVIOUS
  <2>1. PoolTypeOK /\ OwnerInv /\ InTurn /\ WorkersInv
    BY DEF PoolInv
  <2>2. WorkersInv' /\ ELTypeOK'
    BY <2>1, PoolStepIsThreadStep, WorkersKept DEF WorkersInv
  <2>3. CASE OwnerStep
    BY <2>2, <2>3, OwnerStepKeeps DEF PoolInv
  <2>4. CASE GetNextLoop
    BY <2>2, <2>4, GetNextLoopKeeps DEF PoolInv
  <2>5. CASE PoolStart \/ PoolStop
    <3>1. opc' = opc /\ UNCHANGED <<loops, index, handed>> /\ at' = 1
      BY <2>5 DEF PoolStart, PoolStop, elVars, ownerVars
    <3>2. PoolTypeOK' /\ InTurn'
      BY <2>1, <2>2, <2>5, <3>1, PoolAssumption
      DEF PoolStart, PoolStop, PoolTypeOK, InTurn, ComesBefore
    <3>3. OwnerInv'
      BY <2>1, <2>5, <3>1, PoolAssumption DEF PoolStart, PoolStop, OwnerInv
    <3> QED BY <2>2, <3>2, <3>3 DEF PoolInv
  <2>6. CASE (\E w \in Workers : WorkerStep(w)) \/ UNCHANGED allVars
    <3>1. UNCHANGED <<poolVars, opc>>
      BY <2>6
      DEF WorkerStep, ThreadStep, PollOther, RunQuit, Post, Construct, QueueHandover, Begin, Check,
          PollWakeup, RunHandover, RunPosted, DrainReturns, ClearLoop, Destruct, allVars, elVars,
          ownerVars, Goto
    <3> QED BY <2>1, <2>2, <3>1
      DEF PoolInv, PoolTypeOK, OwnerInv, InTurn, ComesBefore, poolVars
  <2> QED BY <2>3, <2>4, <2>5, <2>6 DEF PoolNext
<1> QED BY <1>1, <1>2, PTL DEF PoolSpec

(* Types of the pool and its threads (event_loop_thread_pool.hpp:26-34,    *)
(* event_loop_thread.hpp:14-28).                                           *)
THEOREM PoolTypeCorrect == PoolSpec => []PoolTypeOK
<1>1. PoolInv => PoolTypeOK
  BY DEF PoolInv
<1> QED BY <1>1, PoolInvHolds, PTL

(* The pool starts and stops each thread the way EventLoopThread allows,   *)
(* so that what is said of any owner holds for the pool                    *)
(* (event_loop_thread_pool.cpp:20-43).                                      *)
THEOREM PoolImplementsThreads == PoolSpec => ELSpec
<1>1. PoolInit => ELInit
  BY DEF PoolInit
<1> QED BY <1>1, PoolTypeCorrect, PoolStepIsThreadStep, PTL DEF PoolSpec, ELSpec

(* loop_ holds no address of a loop that does not exist, and a thread that *)
(* is not joinable has left nothing behind, over any number of starts and  *)
(* stops (event_loop_thread.cpp:27-50).                                     *)
THEOREM LoopsExistWhilePublished == PoolSpec => []PublishedLoopExists
<1>1. PoolInv => PublishedLoopExists
  BY DEF PoolInv, WorkersInv, WorkerInv, ELTypeOK, PublishedLoopExists, Exists
<1> QED BY <1>1, PoolInvHolds, PTL

(* When start() has returned the loop runs, until somebody stops it        *)
(* (event_loop_thread.cpp:20-39).                                           *)
THEOREM StartedLoopsRun == PoolSpec => []StartedMeansRunning
<1>1. PoolInv => StartedMeansRunning
  BY DEF PoolInv, WorkersInv, WorkerInv, StartedMeansRunning
<1> QED BY <1>1, PoolInvHolds, PTL

(* Between a start and the next stop the pool hands out the loops of all    *)
(* its threads, which run (event_loop_thread_pool.cpp:20-43).               *)
THEOREM PoolHandsOutRunning == PoolSpec => []PoolLoopsRun
<1>1. PoolInv => PoolLoopsRun
  <2> SUFFICES ASSUME PoolInv PROVE PoolLoopsRun
    OBVIOUS
  <2>1. ppc \in {"off", "starting"} => loops = <<>>
    BY DEF PoolInv, OwnerInv
  <2>2. ASSUME ppc = "on"
        PROVE  /\ Len(loops) = N
               /\ \A i \in 1..N :
                    ~quit[loops[i]] => loop[loops[i]] /\ lstatus[loops[i]] = "running"
    <3>1. loops = [i \in 1..N |-> i] /\ \A w \in Workers : opc[w] = "on"
      BY <2>2 DEF PoolInv, OwnerInv
    <3>2. Len(loops) = N /\ \A i \in 1..N : loops[i] = i
      BY <3>1, PoolAssumption
    <3>3. \A w \in Workers : ~quit[w] => loop[w] /\ lstatus[w] = "running"
      BY <3>1 DEF PoolInv, WorkersInv, WorkerInv
    <3> QED BY <3>2, <3>3, PoolAssumption
  <2> QED BY <2>1, <2>2 DEF PoolLoopsRun
<1> QED BY <1>1, PoolInvHolds, PTL

(* No loop is handed out two times more often than another since a start,   *)
(* wherever the last round had ended (event_loop_thread_pool.cpp:45-53).     *)
THEOREM LoopsTakeTurns == PoolSpec => []RoundRobin
<1>1. PoolInv => RoundRobin
  BY DEF PoolInv, InTurn, RoundRobin
<1> QED BY <1>1, PoolInvHolds, PTL
==============================================================================
