--------------------------- MODULE TimerQueueProofs ---------------------------
(***************************************************************************)
(* Proofs about TimerQueue, for any number of timers, any delays and       *)
(* intervals and any length of the longest timeout: no timer is lost, the  *)
(* loop does not sleep past one, and no callback runs too early, after its *)
(* cancellation or too often.                                              *)
(***************************************************************************)
EXTENDS TimerQueue, TLAPS

(* The timers that functors of q will add. *)
AddsOf(q) == {q[i].id : i \in {j \in DOMAIN q : q[j].op = "add"}}

(* No two of them add the same timer. *)
AddsOnce(q) ==
  \A i, j \in DOMAIN q :
    q[i].op = "add" /\ q[j].op = "add" /\ q[i].id = q[j].id => i = j

(* Nothing is known of a timer that was not created. *)
OnlyCreated ==
  /\ \A t \in heap \union batch \union ids \union gone \union Waiting : t < nextId
  /\ \A t \in Timer : lastRun[t] # -1 => t < nextId

(* A timer whose functor is still in the queue has no history. *)
WaitingIsNew ==
  /\ AddsOnce(ops)
  /\ \A t \in Waiting : t \notin heap \union batch \union ids \union gone /\ lastRun[t] = -1

(* What handlerTimer took from the heap had expired. *)
BatchIsDue ==
  /\ batchNow <= now
  /\ \A t \in batch : exp[t] <= batchNow

(* A cancelled timer does not come back. *)
GoneForGood == gone \intersect ids = {}

(* What handlerTimer ran of its batch, it ran at the batch's time; what is *)
(* still to come ran one interval before its expiration, or never.         *)
RunsApart ==
  /\ \A t \in Timer : lastRun[t] \in Nat \union {-1}
  /\ \A t \in (batch \ left) \intersect ids : lastRun[t] = batchNow
  /\ \A t \in ids \ (batch \ left) :
       lastRun[t] # -1 => interval[t] > 0 /\ exp[t] - lastRun[t] >= interval[t]

TimersInv ==
  /\ TimersAccounted /\ OnlyCreated /\ WaitingIsNew /\ BatchIsDue /\ GoneForGood /\ RunsApart
  /\ NoOversleep

-----------------------------------------------------------------------------
(* The queue of functors. *)

LEMMA AppendIsOne ==
  ASSUME NEW q \in Seq(Op), NEW o \in Op
  PROVE  /\ Append(q, o) \in Seq(Op) /\ Len(q) \in Nat
         /\ DOMAIN q = 1..Len(q) /\ DOMAIN Append(q, o) = 1..(Len(q) + 1)
         /\ \A i \in 1..Len(q) : Append(q, o)[i] = q[i]
         /\ Append(q, o)[Len(q) + 1] = o
OBVIOUS

LEMMA AppendAdds ==
  ASSUME NEW q \in Seq(Op), NEW o \in Op
  PROVE  /\ o.op = "add" => AddsOf(Append(q, o)) = AddsOf(q) \union {o.id}
         /\ o.op # "add" => AddsOf(Append(q, o)) = AddsOf(q)
         /\ AddsOnce(q) /\ (o.op = "add" => o.id \notin AddsOf(q)) => AddsOnce(Append(q, o))
<1>1. PICK r : r = Append(q, o)
  OBVIOUS
<1>2. /\ Len(q) \in Nat /\ DOMAIN q = 1..Len(q) /\ DOMAIN r = 1..(Len(q) + 1)
      /\ \A i \in 1..Len(q) : r[i] = q[i]
      /\ r[Len(q) + 1] = o
  BY <1>1, AppendIsOne
<1>3. \A i \in 1..(Len(q) + 1) : i \in 1..Len(q) \/ i = Len(q) + 1
  BY <1>2
<1>4. 1..Len(q) \subseteq 1..(Len(q) + 1) /\ Len(q) + 1 \in 1..(Len(q) + 1)
  BY <1>2
<1>5. o.op = "add" => AddsOf(r) = AddsOf(q) \union {o.id}
  BY <1>2, <1>3, <1>4 DEF AddsOf
<1>6. o.op # "add" => AddsOf(r) = AddsOf(q)
  BY <1>2, <1>3, <1>4 DEF AddsOf
<1>7. ASSUME AddsOnce(q), o.op = "add" => o.id \notin AddsOf(q) PROVE AddsOnce(r)
  <2>1. ASSUME NEW i \in 1..Len(q), q[i].op = "add", o.op = "add" PROVE q[i].id # o.id
    BY <1>2, <1>7, <2>1 DEF AddsOf
  <2> QED BY <1>2, <1>3, <1>7, <2>1 DEF AddsOnce
<1> QED BY <1>1, <1>5, <1>6, <1>7

LEMMA TailIsRest ==
  ASSUME NEW q \in Seq(Op), q # <<>>
  PROVE  /\ Head(q) \in Op /\ Tail(q) \in Seq(Op)
         /\ Len(q) \in Nat \ {0} /\ DOMAIN q = 1..Len(q) /\ DOMAIN Tail(q) = 1..(Len(q) - 1)
         /\ \A i \in 1..(Len(q) - 1) : Tail(q)[i] = q[i + 1]
         /\ Head(q) = q[1]
OBVIOUS

LEMMA TailAdds ==
  ASSUME NEW q \in Seq(Op), q # <<>>, AddsOnce(q)
  PROVE  /\ Head(q).op = "add" => AddsOf(q) = AddsOf(Tail(q)) \union {Head(q).id}
         /\ Head(q).op = "add" => Head(q).id \notin AddsOf(Tail(q))
         /\ Head(q).op # "add" => AddsOf(q) = AddsOf(Tail(q))
         /\ AddsOnce(Tail(q))
<1>1. PICK r, o : r = Tail(q) /\ o = Head(q)
  OBVIOUS
<1>2. /\ Len(q) \in Nat \ {0} /\ DOMAIN q = 1..Len(q) /\ DOMAIN r = 1..(Len(q) - 1)
      /\ \A i \in 1..(Len(q) - 1) : r[i] = q[i + 1]
      /\ o = q[1]
  BY <1>1, TailIsRest
<1>3. \A i \in 1..(Len(q) - 1) : i + 1 \in 1..Len(q) /\ i + 1 # 1
  BY <1>2
<1>4. \A i \in 1..Len(q) : i = 1 \/ (i - 1 \in 1..(Len(q) - 1) /\ (i - 1) + 1 = i)
  BY <1>2
<1>5. 1 \in 1..Len(q)
  BY <1>2
<1>6. AddsOf(r) \subseteq AddsOf(q)
  BY <1>2, <1>3 DEF AddsOf
<1>7. ASSUME NEW t \in AddsOf(q), t \notin AddsOf(r) PROVE o.op = "add" /\ t = o.id
  <2>1. PICK i \in 1..Len(q) : q[i].op = "add" /\ q[i].id = t
    BY <1>2, <1>7 DEF AddsOf
  <2>2. CASE i = 1
    BY <1>2, <2>1, <2>2
  <2>3. CASE i # 1
    <3>1. i - 1 \in 1..(Len(q) - 1) /\ (i - 1) + 1 = i
      BY <1>4, <2>3
    <3>2. r[i - 1] = q[i]
      BY <1>2, <3>1
    <3> QED BY <1>2, <1>7, <2>1, <3>1, <3>2 DEF AddsOf
  <2> QED BY <2>2, <2>3
<1>8. o.op = "add" => o.id \in AddsOf(q)
  BY <1>2, <1>5 DEF AddsOf
<1>9. ASSUME o.op = "add", o.id \in AddsOf(r) PROVE FALSE
  <2>1. PICK i \in 1..(Len(q) - 1) : r[i].op = "add" /\ r[i].id = o.id
    BY <1>2, <1>9 DEF AddsOf
  <2>2. q[i + 1].op = "add" /\ q[i + 1].id = q[1].id /\ q[1].op = "add"
    BY <1>2, <1>9, <2>1
  <2>3. i + 1 \in DOMAIN q /\ 1 \in DOMAIN q /\ i + 1 # 1
    BY <1>2, <1>3, <1>5
  <2> QED BY <2>2, <2>3 DEF AddsOnce
<1>10. AddsOnce(r)
  <2>1. ASSUME NEW i \in DOMAIN r, NEW j \in DOMAIN r,
               r[i].op = "add", r[j].op = "add", r[i].id = r[j].id
        PROVE  i = j
    <3>1. i + 1 \in DOMAIN q /\ j + 1 \in DOMAIN q
      BY <1>2, <1>3
    <3>2. r[i] = q[i + 1] /\ r[j] = q[j + 1]
      BY <1>2
    <3>3. i + 1 = j + 1
      BY <2>1, <3>1, <3>2 DEF AddsOnce
    <3>4. i \in Nat /\ j \in Nat
      BY <1>2
    <3> QED BY <3>3, <3>4
  <2> QED BY <2>1 DEF AddsOnce
<1> QED BY <1>1, <1>6, <1>7, <1>8, <1>9, <1>10

LEMMA WaitingIs == Waiting = AddsOf(ops) /\ Waiting' = AddsOf(ops')
BY DEF Waiting, AddsOf

LEMMA WaitingTypes ==
  ASSUME TypeOK
  PROVE  Waiting \subseteq Timer
<1>1. ops \in Seq(Op)
  BY DEF TypeOK
<1>2. \A i \in DOMAIN ops : ops[i] \in Op
  BY <1>1
<1>3. \A o \in Op : o.id \in Timer
  BY DEF Op
<1> QED BY <1>2, <1>3 DEF Waiting

-----------------------------------------------------------------------------
(* Every step keeps the types. *)

LEMMA NewTimerTypes ==
  ASSUME TypeOK, NEW r \in Requests, NewTimer(r)
  PROVE  /\ nextId \in Timer /\ nextId' = nextId + 1 /\ nextId' \in 1..(MaxTimers + 1)
         /\ exp' \in [Timer -> Nat] /\ interval' \in [Timer -> Nat]
         /\ \A t \in Timer : t # nextId => exp'[t] = exp[t] /\ interval'[t] = interval[t]
         /\ exp'[nextId] = now + r[1] /\ interval'[nextId] = r[2]
<1>1. r[1] \in Nat /\ r[2] \in Nat
  BY RequestsAssumption
<1>2. /\ nextId \in 1..(MaxTimers + 1) /\ nextId <= MaxTimers /\ nextId' = nextId + 1
      /\ MaxTimers \in Nat
  BY BoundsAssumption DEF NewTimer, TypeOK
<1>3. nextId \in Timer /\ nextId' \in 1..(MaxTimers + 1)
  BY <1>2 DEF Timer
<1>4. /\ exp' = [exp EXCEPT ![nextId] = now + r[1]]
      /\ interval' = [interval EXCEPT ![nextId] = r[2]]
      /\ exp \in [Timer -> Nat] /\ interval \in [Timer -> Nat] /\ now + r[1] \in Nat
  BY <1>1 DEF NewTimer, TypeOK
<1> QED BY <1>1, <1>2, <1>3, <1>4

LEMMA TimeoutTypes ==
  ASSUME TypeOK, GetNextTimeout
  PROVE  wakeAt' \in Nat \union {-1}
<1>1. CASE heap = {}
  BY <1>1 DEF GetNextTimeout
<1>2. CASE heap # {}
  <2>1. PICK top \in heap :
          LET diff == exp[top] - now
          IN  wakeAt' = now + (CASE diff <= 0     -> 0
                                 [] diff > IntMax -> IntMax
                                 [] OTHER         -> diff)
    BY <1>2 DEF GetNextTimeout
  <2>2. exp[top] \in Nat /\ now \in Nat /\ IntMax \in Nat
    BY IntMaxAssumption DEF TypeOK
  <2> QED BY <2>1, <2>2
<1> QED BY <1>1, <1>2

LEMMA TypeKept == TypeOK /\ [Next]_vars => TypeOK'
<1> SUFFICES ASSUME TypeOK, [Next]_vars
             PROVE  TypeOK'
  OBVIOUS
<1>1. CASE Tick
  BY <1>1 DEF Tick, TypeOK, timerVars, batchVars, historyVars
<1>2. CASE \/ CallbackReturns \/ PollTimesOut \/ PollOtherEvent \/ EndOfRound \/ UNCHANGED vars
  BY <1>2 DEF CallbackReturns, PollTimesOut, PollOtherEvent, EndOfRound, TypeOK, vars,
              timerVars, batchVars, historyVars
<1>3. CASE GetExpiredTimers
  BY <1>3 DEF GetExpiredTimers, TypeOK, historyVars
<1>4. CASE RunExpired
  <2>1. PICK t \in left :
          /\ left' = left \ {t}
          /\ \/ pc' = "callback" /\ lastRun' = [lastRun EXCEPT ![t] = batchNow]
             \/ UNCHANGED <<pc, lastRun>>
    BY <1>4 DEF RunExpired
  <2>2. lastRun' \in [Timer -> Int]
    BY <2>1 DEF TypeOK
  <2>3. /\ UNCHANGED <<now, nextId, timerVars, ops, batch, batchNow, wakeAt, asked, gone>>
        /\ pc = "run" /\ pc' \in {"run", "callback"}
    BY <1>4, <2>1 DEF RunExpired
  <2> QED BY <2>1, <2>2, <2>3 DEF TypeOK, timerVars
<1>5. CASE ResetExpiredTimers
  <2>1. exp' \in [Timer -> Nat]
    <3>1. \A t \in Timer : batchNow + interval[t] \in Nat /\ exp[t] \in Nat
      BY DEF TypeOK
    <3> QED BY <1>5, <3>1 DEF ResetExpiredTimers
  <2>2. heap' \subseteq Timer /\ ids' \subseteq Timer /\ batch' = {} /\ left' = {}
    BY <1>5 DEF ResetExpiredTimers, TypeOK, Repeating
  <2>3. batchNow' \in Nat /\ pc' = "timeout" /\ pc = "run"
        /\ UNCHANGED <<now, nextId, interval, ops, wakeAt, historyVars>>
    BY <1>5 DEF ResetExpiredTimers
  <2> QED BY <2>1, <2>2, <2>3 DEF TypeOK, historyVars
<1>6. CASE GetNextTimeout
  <2>1. wakeAt' \in Nat \union {-1}
    BY <1>6, TimeoutTypes
  <2>2. /\ pc' = "sleep" /\ pc = "timeout"
        /\ UNCHANGED <<now, nextId, timerVars, ops, batchVars, historyVars>>
    BY <1>6 DEF GetNextTimeout
  <2> QED BY <2>1, <2>2 DEF TypeOK, timerVars, batchVars, historyVars
<1>7. CASE RunOp
  <2>1. ops \in Seq(Op) /\ ops # <<>> /\ pc = "events"
    BY <1>7 DEF RunOp, TypeOK
  <2>2. ops' = Tail(ops) /\ ops' \in Seq(Op) /\ Head(ops) \in Op
    BY <1>7, <2>1, TailIsRest DEF RunOp
  <2>3. Head(ops).id \in Timer
    BY <2>2 DEF Op
  <2>4. heap' \subseteq Timer /\ ids' \subseteq Timer /\ gone' \subseteq Timer
    BY <1>7, <2>3 DEF RunOp, Erase, TypeOK
  <2>5. UNCHANGED <<now, nextId, exp, interval, pc, batchVars, wakeAt, asked, lastRun>>
    BY <1>7 DEF RunOp
  <2> QED BY <2>2, <2>4, <2>5 DEF TypeOK, batchVars
<1>8. ASSUME NEW r \in Requests, AddTimerInLoop(r) PROVE TypeOK'
  <2>1. /\ NewTimer(r) /\ ids' = ids \union {nextId} /\ heap' = heap \union {nextId}
        /\ UNCHANGED <<now, ops, pc, batchVars, wakeAt, historyVars>>
    BY <1>8 DEF AddTimerInLoop
  <2>2. /\ nextId \in Timer /\ nextId' \in 1..(MaxTimers + 1)
        /\ exp' \in [Timer -> Nat] /\ interval' \in [Timer -> Nat]
    BY <2>1, NewTimerTypes
  <2> QED BY <2>1, <2>2 DEF TypeOK, batchVars, historyVars
<1>9. ASSUME NEW r \in Requests, AddTimerFromThread(r) PROVE TypeOK'
  <2>1. /\ NewTimer(r) /\ ops' = Append(ops, [op |-> "add", id |-> nextId])
        /\ UNCHANGED <<now, heap, ids, pc, batchVars, wakeAt, historyVars>>
    BY <1>9 DEF AddTimerFromThread
  <2>2. /\ nextId \in Timer /\ nextId' \in 1..(MaxTimers + 1)
        /\ exp' \in [Timer -> Nat] /\ interval' \in [Timer -> Nat]
    BY <2>1, NewTimerTypes
  <2>3. ops' \in Seq(Op)
    <3>1. [op |-> "add", id |-> nextId] \in Op /\ ops \in Seq(Op)
      BY <2>2 DEF Op, TypeOK
    <3> QED BY <2>1, <3>1, AppendIsOne
  <2> QED BY <2>1, <2>2, <2>3 DEF TypeOK, batchVars, historyVars
<1>10. ASSUME NEW t \in Timer, DelTimerInLoop(t) PROVE TypeOK'
  BY <1>10 DEF DelTimerInLoop, Erase, TypeOK, batchVars
<1>11. ASSUME NEW t \in Timer, DelTimerFromThread(t) PROVE TypeOK'
  <2>1. /\ ops' = Append(ops, [op |-> "del", id |-> t]) /\ asked' = asked \union {t}
        /\ UNCHANGED <<now, nextId, timerVars, pc, batchVars, wakeAt, gone, lastRun>>
    BY <1>11 DEF DelTimerFromThread
  <2>2. ops' \in Seq(Op)
    <3>1. [op |-> "del", id |-> t] \in Op /\ ops \in Seq(Op)
      BY DEF Op, TypeOK
    <3> QED BY <2>1, <3>1, AppendIsOne
  <2> QED BY <2>1, <2>2 DEF TypeOK, timerVars, batchVars
<1> QED BY <1>1, <1>2, <1>3, <1>4, <1>5, <1>6, <1>7, <1>8, <1>9, <1>10, <1>11
        DEF Next, LoopStep

-----------------------------------------------------------------------------
(* Every step keeps the account of the timers. *)

(* Steps that touch no timer. *)
LEMMA QuietKeeps ==
  ASSUME TypeOK, TimersInv, now <= now', now' \in Nat,
         UNCHANGED <<nextId, exp, interval, heap, ids, ops, batch, left, batchNow, gone, lastRun>>,
         pc' = "sleep" => pc = "sleep" /\ wakeAt' = wakeAt
  PROVE  TimersInv'
<1>1. Waiting' = Waiting
  BY DEF Waiting
<1>2. TimersAccounted' /\ OnlyCreated'
  BY <1>1 DEF TimersInv, TimersAccounted, OnlyCreated
<1>3. WaitingIsNew' /\ GoneForGood' /\ RunsApart'
  BY <1>1 DEF TimersInv, WaitingIsNew, AddsOnce, GoneForGood, RunsApart
<1>4. BatchIsDue'
  BY DEF TimersInv, BatchIsDue, TypeOK
<1>5. NoOversleep'
  BY DEF TimersInv, NoOversleep, TypeOK
<1> QED BY <1>2, <1>3, <1>4, <1>5 DEF TimersInv

LEMMA GetExpiredKeeps ==
  ASSUME TypeOK, TimersInv, GetExpiredTimers
  PROVE  TimersInv'
<1>1. /\ batch = {} /\ left = {}
      /\ batchNow' = now /\ batch' = {t \in heap : exp[t] <= now} /\ left' = batch'
      /\ heap' = heap \ batch' /\ pc' = "run"
      /\ UNCHANGED <<now, nextId, exp, interval, ids, ops, gone, lastRun>>
  BY DEF GetExpiredTimers, TypeOK, historyVars
<1>2. Waiting' = Waiting
  BY <1>1 DEF Waiting
<1>3. heap' \union batch' = heap /\ batch' \subseteq heap /\ heap' \subseteq heap
  BY <1>1
<1>4. TimersAccounted'
  BY <1>1, <1>2, <1>3 DEF TimersInv, TimersAccounted
<1>5. OnlyCreated' /\ WaitingIsNew' /\ GoneForGood'
  BY <1>1, <1>2, <1>3 DEF TimersInv, OnlyCreated, WaitingIsNew, AddsOnce, GoneForGood
<1>6. BatchIsDue'
  BY <1>1 DEF BatchIsDue, TypeOK
<1>7. RunsApart'
  <2>1. batch' \ left' = {} /\ batch \ left = {}
    BY <1>1
  <2> QED BY <1>1, <2>1 DEF TimersInv, RunsApart
<1>8. NoOversleep'
  BY <1>1 DEF NoOversleep
<1> QED BY <1>4, <1>5, <1>6, <1>7, <1>8 DEF TimersInv

LEMMA RunKeeps ==
  ASSUME TypeOK, TimersInv, RunExpired
  PROVE  TimersInv'
<1>1. PICK t \in left :
        /\ left' = left \ {t}
        /\ IF t \in ids
             THEN pc' = "callback" /\ lastRun' = [lastRun EXCEPT ![t] = batchNow]
             ELSE UNCHANGED <<pc, lastRun>>
  BY DEF RunExpired
<1>2. /\ pc = "run"
      /\ UNCHANGED <<now, nextId, exp, interval, heap, ids, ops, batch, batchNow, gone>>
  BY DEF RunExpired, timerVars
<1>3. t \in Timer /\ t \in batch /\ batchNow \in Nat /\ lastRun \in [Timer -> Int]
  BY DEF TypeOK, TimersInv, TimersAccounted
<1>4. /\ \A s \in Timer : s # t => lastRun'[s] = lastRun[s]
      /\ t \in ids => lastRun'[t] = batchNow
      /\ t \notin ids => lastRun'[t] = lastRun[t]
  BY <1>1, <1>3
<1>5. Waiting' = Waiting
  BY <1>2 DEF Waiting
<1>6. TimersAccounted'
  <2>1. left' \subseteq batch'
    BY <1>1, <1>2 DEF TimersInv, TimersAccounted
  <2>2. \A s \in Timer : lastRun'[s] = -1 => lastRun[s] = -1
    BY <1>3, <1>4
  <2> QED BY <1>2, <1>5, <2>1, <2>2 DEF TimersInv, TimersAccounted
<1>7. OnlyCreated'
  BY <1>2, <1>3, <1>4, <1>5 DEF TimersInv, OnlyCreated
<1>8. WaitingIsNew'
  <2>1. Waiting \subseteq Timer /\ t \notin Waiting
    BY <1>3, WaitingTypes DEF TimersInv, WaitingIsNew
  <2> QED BY <1>2, <1>4, <1>5, <2>1 DEF TimersInv, WaitingIsNew, AddsOnce
<1>9. BatchIsDue' /\ GoneForGood'
  BY <1>2 DEF TimersInv, BatchIsDue, GoneForGood
<1>10. RunsApart'
  <2>1. \A s \in Timer : lastRun'[s] \in Nat \union {-1}
    BY <1>3, <1>4 DEF TimersInv, RunsApart
  <2>2. batch' \ left' = (batch \ left) \union {t} /\ ids' = ids /\ ids \subseteq Timer
    BY <1>1, <1>2, <1>3 DEF TypeOK
  <2>3. \A s \in (batch' \ left') \intersect ids' : lastRun'[s] = batchNow'
    BY <1>2, <1>4, <2>2 DEF TimersInv, RunsApart
  <2>4. \A s \in ids' \ (batch' \ left') :
          lastRun'[s] # -1 => interval'[s] > 0 /\ exp'[s] - lastRun'[s] >= interval'[s]
    BY <1>2, <1>4, <2>2 DEF TimersInv, RunsApart
  <2> QED BY <2>1, <2>3, <2>4 DEF RunsApart
<1>11. NoOversleep'
  BY <1>1, <1>2 DEF NoOversleep
<1> QED BY <1>6, <1>7, <1>8, <1>9, <1>10, <1>11 DEF TimersInv

LEMMA ResetKeeps ==
  ASSUME TypeOK, TimersInv, ResetExpiredTimers
  PROVE  TimersInv'
<1>1. /\ pc = "run" /\ left = {} /\ left' = {}
      /\ exp' = [t \in Timer |-> IF t \in Repeating THEN batchNow + interval[t] ELSE exp[t]]
      /\ heap' = heap \union Repeating
      /\ ids' = ids \ (batch \ Repeating)
      /\ batch' = {} /\ batchNow' = 0 /\ pc' = "timeout"
      /\ UNCHANGED <<now, nextId, interval, ops, gone, lastRun>>
  BY DEF ResetExpiredTimers, historyVars
<1>2. Waiting' = Waiting
  BY <1>1 DEF Waiting
<1>3. Repeating = {t \in batch \intersect ids : interval[t] > 0}
  BY DEF Repeating
<1>4. /\ ids' \subseteq ids /\ Repeating \subseteq ids'
      /\ \A t \in ids : t \notin ids' => t \in batch /\ ~(interval[t] > 0)
  BY <1>1, <1>3
<1>5. \A t \in ids \intersect batch : lastRun[t] = batchNow
  BY <1>1 DEF TimersInv, RunsApart
<1>6. TimersAccounted'
  <2>1. ids' \subseteq heap' \union batch'
    BY <1>1, <1>3 DEF TimersInv, TimersAccounted
  <2>2. \A t \in Timer :
          t < nextId /\ interval[t] > 0 /\ t \notin gone => t \in ids' \union Waiting
    BY <1>4 DEF TimersInv, TimersAccounted
  <2>3. \A t \in Timer :
          t < nextId /\ lastRun[t] = -1 /\ t \notin gone => t \in ids' \union Waiting
    <3>1. batchNow # -1
      BY DEF TypeOK
    <3> QED BY <1>4, <1>5, <3>1 DEF TimersInv, TimersAccounted
  <2> QED BY <1>1, <1>2, <2>1, <2>2, <2>3 DEF TimersAccounted
<1>7. OnlyCreated'
  BY <1>1, <1>2, <1>3, <1>4 DEF TimersInv, OnlyCreated
<1>8. WaitingIsNew'
  BY <1>1, <1>2, <1>3, <1>4 DEF TimersInv, WaitingIsNew, AddsOnce
<1>9. BatchIsDue' /\ GoneForGood'
  BY <1>1, <1>4 DEF TimersInv, BatchIsDue, GoneForGood, TypeOK
<1>10. RunsApart'
  <2>1. ASSUME NEW t \in ids', lastRun[t] # -1
        PROVE  interval[t] > 0 /\ exp'[t] - lastRun[t] >= interval[t]
    <3>1. t \in ids /\ t \in Timer /\ (t \in batch => t \in Repeating)
      BY <1>1, <1>4 DEF TypeOK
    <3>2. CASE t \in Repeating
      <4>1. interval[t] > 0 /\ interval[t] \in Nat /\ lastRun[t] = batchNow /\ batchNow \in Nat
        BY <1>3, <1>5, <3>1, <3>2 DEF TypeOK
      <4>2. exp'[t] = batchNow + interval[t]
        BY <1>1, <3>1, <3>2
      <4> QED BY <4>1, <4>2
    <3>3. CASE t \notin Repeating
      <4>1. exp'[t] = exp[t]
        BY <1>1, <3>1, <3>3
      <4> QED BY <2>1, <3>1, <3>3, <4>1 DEF TimersInv, RunsApart
    <3> QED BY <3>2, <3>3
  <2> QED BY <1>1, <2>1 DEF TimersInv, RunsApart
<1>11. NoOversleep'
  BY <1>1 DEF NoOversleep
<1> QED BY <1>6, <1>7, <1>8, <1>9, <1>10, <1>11 DEF TimersInv

LEMMA TimeoutKeeps ==
  ASSUME TypeOK, TimersInv, GetNextTimeout
  PROVE  TimersInv'
<1>1. /\ pc' = "sleep" /\ UNCHANGED <<now, nextId, exp, interval, heap, ids, ops>>
      /\ UNCHANGED <<batch, left, batchNow, gone, lastRun>>
  BY DEF GetNextTimeout, timerVars, batchVars, historyVars
<1>2. Waiting' = Waiting
  BY <1>1 DEF Waiting
<1>3. TimersAccounted' /\ OnlyCreated'
  BY <1>1, <1>2 DEF TimersInv, TimersAccounted, OnlyCreated
<1>4. WaitingIsNew' /\ GoneForGood' /\ RunsApart' /\ BatchIsDue'
  BY <1>1, <1>2 DEF TimersInv, WaitingIsNew, AddsOnce, GoneForGood, RunsApart, BatchIsDue
<1>5. NoOversleep'
  <2>1. CASE heap = {}
    BY <1>1, <2>1 DEF NoOversleep
  <2>2. CASE heap # {}
    <3>1. PICK top \in heap :
            /\ \A t \in heap : Before(top, t)
            /\ LET diff == exp[top] - now
               IN  wakeAt' = now + (CASE diff <= 0     -> 0
                                      [] diff > IntMax -> IntMax
                                      [] OTHER         -> diff)
      BY <2>2 DEF GetNextTimeout
    <3>2. now \in Nat /\ IntMax \in Nat /\ exp \in [Timer -> Nat] /\ heap \subseteq Timer
      BY IntMaxAssumption DEF TypeOK
    <3>3. exp[top] \in Nat
      BY <3>2
    <3>4. wakeAt' \in Nat /\ (wakeAt' <= exp[top] \/ wakeAt' <= now)
      BY <3>1, <3>2, <3>3
    <3>5. ASSUME NEW t \in heap PROVE wakeAt' <= exp[t] \/ wakeAt' <= now
      <4>1. exp[t] \in Nat /\ exp[top] <= exp[t]
        BY <3>1, <3>2, <3>3 DEF Before
      <4> QED BY <3>2, <3>3, <3>4, <4>1
    <3> QED BY <1>1, <3>4, <3>5 DEF NoOversleep
  <2> QED BY <2>1, <2>2
<1> QED BY <1>3, <1>4, <1>5 DEF TimersInv

(* An id is erased: by delTimerInLoop, or by its functor. *)
LEMMA EraseKeeps ==
  ASSUME TypeOK, TimersInv, NEW t \in Timer, t < nextId, Erase(t),
         Waiting' = Waiting, AddsOnce(ops'), pc # "sleep",
         UNCHANGED <<now, nextId, exp, interval, heap, pc, batch, left, batchNow, lastRun>>
  PROVE  TimersInv'
<1>1. /\ ids' = ids \ {t} /\ gone \subseteq gone'
      /\ gone' \subseteq gone \union {t} /\ (t \in gone' \/ t \notin ids)
      /\ t \in gone' => t \in gone \/ t \in ids
  BY DEF Erase
<1>2. TimersAccounted'
  BY <1>1 DEF TimersInv, TimersAccounted
<1>3. OnlyCreated' /\ GoneForGood'
  BY <1>1 DEF TimersInv, OnlyCreated, GoneForGood
<1>4. WaitingIsNew'
  BY <1>1 DEF TimersInv, WaitingIsNew
<1>5. RunsApart' /\ BatchIsDue' /\ NoOversleep'
  BY <1>1 DEF TimersInv, RunsApart, BatchIsDue, NoOversleep
<1> QED BY <1>2, <1>3, <1>4, <1>5 DEF TimersInv

(* A timer that nothing else knows yet gets into the heap: from addTimer on *)
(* the loop's thread, or by its functor.                                   *)
LEMMA AddKeeps ==
  ASSUME TypeOK, TypeOK', TimersInv, NEW t \in Timer, t < nextId',
         t \notin batch \union gone, lastRun[t] = -1, t \notin Waiting',
         ids' = ids \union {t}, heap' = heap \union {t},
         Waiting \subseteq Waiting' \union {t}, Waiting' \subseteq Waiting,
         AddsOnce(ops'), pc # "sleep", nextId <= nextId',
         \A s \in Timer : s # t => exp'[s] = exp[s] /\ interval'[s] = interval[s],
         \A s \in Timer : s < nextId' => s < nextId \/ s = t,
         UNCHANGED <<now, pc, batch, left, batchNow, gone, lastRun>>
  PROVE  TimersInv'
<1>1. TimersAccounted'
  <2>1. /\ heap' \intersect batch' = {} /\ left' \subseteq batch'
        /\ ids' \subseteq heap' \union batch'
    BY DEF TimersInv, TimersAccounted
  <2>2. \A s \in Timer :
          s < nextId' /\ interval'[s] > 0 /\ s \notin gone' => s \in ids' \union Waiting'
    BY DEF TimersInv, TimersAccounted
  <2>3. \A s \in Timer :
          s < nextId' /\ lastRun'[s] = -1 /\ s \notin gone' => s \in ids' \union Waiting'
    BY DEF TimersInv, TimersAccounted
  <2> QED BY <2>1, <2>2, <2>3 DEF TimersAccounted
<1>2. OnlyCreated'
  <2>1. nextId \in Nat /\ nextId' \in Nat /\ (Timer \subseteq Nat)
    BY BoundsAssumption DEF TypeOK, Timer
  <2>2. \A s \in Timer : s < nextId => s < nextId'
    BY <2>1
  <2>3. Waiting \subseteq Timer
    BY WaitingTypes
  <2>4. heap \union batch \union ids \union gone \union Waiting \subseteq Timer
    BY <2>3 DEF TypeOK
  <2> QED BY <2>2, <2>4 DEF TimersInv, OnlyCreated
<1>3. WaitingIsNew'
  BY DEF TimersInv, WaitingIsNew
<1>4. BatchIsDue' /\ GoneForGood' /\ NoOversleep'
  BY DEF TimersInv, BatchIsDue, GoneForGood, NoOversleep, TypeOK
<1>5. RunsApart'
  BY DEF TimersInv, RunsApart, TypeOK
<1> QED BY <1>1, <1>2, <1>3, <1>4, <1>5 DEF TimersInv

(* addTimer on another thread: the timer waits in its functor. *)
LEMMA PostKeeps ==
  ASSUME TypeOK, TypeOK', TimersInv, NEW r \in Requests, AddTimerFromThread(r)
  PROVE  TimersInv'
<1>1. /\ NewTimer(r) /\ ops' = Append(ops, [op |-> "add", id |-> nextId])
      /\ UNCHANGED <<now, heap, ids, pc, batch, left, batchNow, wakeAt, gone, lastRun>>
  BY DEF AddTimerFromThread, batchVars, historyVars
<1>2. /\ nextId \in Timer /\ nextId' = nextId + 1 /\ nextId \in Nat /\ Timer \subseteq Nat
      /\ \A s \in Timer : s # nextId => exp'[s] = exp[s] /\ interval'[s] = interval[s]
  BY <1>1, NewTimerTypes, BoundsAssumption DEF Timer
<1>3. \A s \in Timer : s < nextId' => s < nextId \/ s = nextId
  BY <1>2
<1>4. \A s \in Timer : s < nextId => s < nextId' /\ s # nextId
  BY <1>2
<1>5. nextId \notin Waiting \union heap \union batch \union ids \union gone
  BY <1>2 DEF TimersInv, OnlyCreated
<1>6. lastRun[nextId] = -1
  BY <1>2 DEF TimersInv, OnlyCreated
<1>7. Waiting' = Waiting \union {nextId} /\ AddsOnce(ops')
  <2>1. PICK o \in Op : o = [op |-> "add", id |-> nextId]
    BY <1>2 DEF Op
  <2>2. ops \in Seq(Op) /\ o.op = "add" /\ o.id = nextId /\ ops' = Append(ops, o)
    BY <1>1, <2>1 DEF TypeOK
  <2>3. AddsOnce(ops) /\ nextId \notin AddsOf(ops)
    BY <1>5, WaitingIs DEF TimersInv, WaitingIsNew
  <2>4. AddsOf(ops') = AddsOf(ops) \union {nextId} /\ AddsOnce(ops')
    BY <2>2, <2>3, AppendAdds
  <2> QED BY <2>4, WaitingIs
<1>8. /\ heap \subseteq Timer /\ batch \subseteq Timer /\ ids \subseteq Timer
      /\ gone \subseteq Timer /\ Waiting \subseteq Timer
  BY WaitingTypes DEF TypeOK
<1>9. TimersAccounted'
  <2>1. \A s \in Timer :
          s < nextId' /\ interval'[s] > 0 /\ s \notin gone => s \in ids \union Waiting'
    BY <1>2, <1>3, <1>7 DEF TimersInv, TimersAccounted
  <2>2. \A s \in Timer :
          s < nextId' /\ lastRun[s] = -1 /\ s \notin gone => s \in ids \union Waiting'
    BY <1>2, <1>3, <1>7 DEF TimersInv, TimersAccounted
  <2> QED BY <1>1, <2>1, <2>2 DEF TimersInv, TimersAccounted
<1>10. OnlyCreated'
  <2>1. nextId < nextId'
    BY <1>2
  <2> QED BY <1>1, <1>4, <1>7, <1>8, <2>1 DEF TimersInv, OnlyCreated
<1>11. WaitingIsNew'
  BY <1>1, <1>5, <1>6, <1>7 DEF TimersInv, WaitingIsNew
<1>12. \A s \in heap \union batch \union ids : exp'[s] = exp[s] /\ interval'[s] = interval[s]
  BY <1>2, <1>5, <1>8
<1>13. BatchIsDue' /\ GoneForGood' /\ NoOversleep'
  BY <1>1, <1>12 DEF TimersInv, BatchIsDue, GoneForGood, NoOversleep
<1>14. RunsApart'
  BY <1>1, <1>12 DEF TimersInv, RunsApart
<1> QED BY <1>9, <1>10, <1>11, <1>13, <1>14 DEF TimersInv

LEMMA RunOpKeeps ==
  ASSUME TypeOK, TypeOK', TimersInv, RunOp
  PROVE  TimersInv'
<1>1. /\ pc = "events" /\ ops # <<>> /\ ops \in Seq(Op) /\ ops' = Tail(ops)
      /\ AddsOnce(ops) /\ batch = {}
      /\ UNCHANGED <<now, nextId, exp, interval, pc, batch, left, batchNow, lastRun>>
  BY DEF RunOp, TypeOK, TimersInv, WaitingIsNew, batchVars
<1>2. PICK o \in Op : o = Head(ops)
  BY <1>1, TailIsRest
<1>3. /\ o.op = "add" => Waiting = Waiting' \union {o.id} /\ o.id \notin Waiting'
      /\ o.op # "add" => Waiting = Waiting'
      /\ AddsOnce(ops')
  BY <1>1, <1>2, TailAdds, WaitingIs
<1>4. o.id \in Timer
  BY DEF Op
<1>5. CASE o.op = "add"
  <2>1. ids' = ids \union {o.id} /\ heap' = heap \union {o.id} /\ gone' = gone
    BY <1>2, <1>5 DEF RunOp
  <2>2. o.id \in Waiting
    BY <1>3, <1>5
  <2>3. o.id < nextId /\ o.id \notin batch \union gone /\ lastRun[o.id] = -1
    BY <2>2 DEF TimersInv, OnlyCreated, WaitingIsNew
  <2>4. nextId <= nextId' /\ o.id < nextId'
    BY <1>1, <2>3 DEF TypeOK
  <2>5. /\ Waiting \subseteq Waiting' \union {o.id} /\ Waiting' \subseteq Waiting
        /\ o.id \notin Waiting' /\ pc # "sleep"
    BY <1>1, <1>3, <1>5
  <2>6. /\ \A s \in Timer : s # o.id => exp'[s] = exp[s] /\ interval'[s] = interval[s]
        /\ \A s \in Timer : s < nextId' => s < nextId \/ s = o.id
    BY <1>1
  <2>7. UNCHANGED <<now, pc, batch, left, batchNow, gone, lastRun>>
    BY <1>1, <2>1
  <2> QED BY <1>3, <1>4, <2>1, <2>3, <2>4, <2>5, <2>6, <2>7, AddKeeps
<1>6. CASE o.op # "add"
  <2>1. Erase(o.id) /\ heap' = heap
    BY <1>2, <1>6 DEF RunOp
  <2>2. CASE o.id < nextId
    BY <1>1, <1>3, <1>4, <1>6, <2>1, <2>2, EraseKeeps
  <2>3. CASE ~(o.id < nextId)
    <3>1. o.id \notin ids
      BY <2>3 DEF TimersInv, OnlyCreated
    <3>2. ids' = ids /\ gone' = gone
      BY <2>1, <3>1 DEF Erase
    <3>3. TimersAccounted' /\ OnlyCreated' /\ GoneForGood'
      BY <1>1, <1>3, <1>6, <2>1, <3>2 DEF TimersInv, TimersAccounted, OnlyCreated, GoneForGood
    <3>4. WaitingIsNew' /\ RunsApart' /\ BatchIsDue' /\ NoOversleep'
      BY <1>1, <1>3, <1>6, <2>1, <3>2
         DEF TimersInv, WaitingIsNew, RunsApart, BatchIsDue, NoOversleep
    <3> QED BY <3>3, <3>4 DEF TimersInv
  <2> QED BY <2>2, <2>3
<1> QED BY <1>5, <1>6

LEMMA TimersKept == TypeOK /\ TimersInv /\ [Next]_vars => TimersInv'
<1> SUFFICES ASSUME TypeOK, TimersInv, [Next]_vars
             PROVE  TimersInv'
  OBVIOUS
<1>0. TypeOK' /\ now \in Nat /\ now <= now
  BY TypeKept DEF TypeOK
<1>1. CASE Tick \/ CallbackReturns \/ PollTimesOut \/ PollOtherEvent \/ EndOfRound \/ UNCHANGED vars
  <2>1. /\ UNCHANGED <<nextId, exp, interval, heap, ids, ops>>
        /\ UNCHANGED <<batch, left, batchNow, gone, lastRun>>
        /\ now' \in {now, now + 1} /\ (pc' = "sleep" => pc = "sleep" /\ wakeAt' = wakeAt)
    BY <1>1 DEF Tick, CallbackReturns, PollTimesOut, PollOtherEvent, EndOfRound, vars,
                timerVars, batchVars, historyVars
  <2>2. now <= now' /\ now' \in Nat
    BY <1>0, <2>1
  <2> QED BY <2>1, <2>2, QuietKeeps
<1>2. CASE GetExpiredTimers
  BY <1>2, GetExpiredKeeps
<1>3. CASE RunExpired
  BY <1>3, RunKeeps
<1>4. CASE ResetExpiredTimers
  BY <1>4, ResetKeeps
<1>5. CASE GetNextTimeout
  BY <1>5, TimeoutKeeps
<1>6. CASE RunOp
  BY <1>0, <1>6, RunOpKeeps
<1>7. ASSUME NEW r \in Requests, AddTimerInLoop(r) PROVE TimersInv'
  <2>1. /\ NewTimer(r) /\ ids' = ids \union {nextId} /\ heap' = heap \union {nextId}
        /\ pc \in {"callback", "events"}
        /\ UNCHANGED <<now, ops, pc, batch, left, batchNow, gone, lastRun>>
    BY <1>7 DEF AddTimerInLoop, InLoop, batchVars, historyVars
  <2>2. /\ nextId \in Timer /\ nextId' = nextId + 1 /\ nextId \in Nat /\ Timer \subseteq Nat
        /\ \A s \in Timer : s # nextId => exp'[s] = exp[s] /\ interval'[s] = interval[s]
    BY <2>1, NewTimerTypes, BoundsAssumption DEF Timer
  <2>3. /\ \A s \in Timer : s < nextId' => s < nextId \/ s = nextId
        /\ nextId < nextId' /\ nextId <= nextId'
    BY <2>2
  <2>4. nextId \notin Waiting \union batch \union gone /\ lastRun[nextId] = -1
    BY <2>2 DEF TimersInv, OnlyCreated
  <2>5. Waiting' = Waiting /\ AddsOnce(ops')
    BY <2>1, WaitingIs DEF TimersInv, WaitingIsNew
  <2> QED BY <1>0, <2>1, <2>2, <2>3, <2>4, <2>5, AddKeeps
<1>8. ASSUME NEW r \in Requests, AddTimerFromThread(r) PROVE TimersInv'
  BY <1>0, <1>8, PostKeeps
<1>9. ASSUME NEW t \in Timer, DelTimerInLoop(t) PROVE TimersInv'
  <2>1. /\ pc \in {"callback", "events"} /\ t < nextId /\ Erase(t)
        /\ UNCHANGED <<now, nextId, exp, interval, heap, ops, pc, batch, left, batchNow, lastRun>>
    BY <1>9 DEF DelTimerInLoop, InLoop, Cancellable, batchVars
  <2>2. Waiting' = Waiting /\ AddsOnce(ops')
    BY <2>1, WaitingIs DEF TimersInv, WaitingIsNew
  <2> QED BY <2>1, <2>2, EraseKeeps
<1>10. ASSUME NEW t \in Timer, DelTimerFromThread(t) PROVE TimersInv'
  <2>1. /\ ops' = Append(ops, [op |-> "del", id |-> t])
        /\ UNCHANGED <<now, nextId, exp, interval, heap, ids, pc, batch, left, batchNow>>
        /\ UNCHANGED <<wakeAt, gone, lastRun>>
    BY <1>10 DEF DelTimerFromThread, timerVars, batchVars
  <2>2. Waiting' = Waiting /\ AddsOnce(ops')
    <3>1. PICK o \in Op : o = [op |-> "del", id |-> t]
      BY DEF Op
    <3>2. ops \in Seq(Op) /\ o.op = "del" /\ ops' = Append(ops, o)
      BY <2>1, <3>1 DEF TypeOK
    <3>3. AddsOf(ops') = AddsOf(ops) /\ AddsOnce(ops')
      BY <3>2, AppendAdds DEF TimersInv, WaitingIsNew
    <3> QED BY <3>3, WaitingIs
  <2>3. TimersAccounted' /\ OnlyCreated' /\ GoneForGood'
    BY <2>1, <2>2 DEF TimersInv, TimersAccounted, OnlyCreated, GoneForGood
  <2>4. WaitingIsNew' /\ RunsApart' /\ BatchIsDue' /\ NoOversleep'
    BY <2>1, <2>2 DEF TimersInv, WaitingIsNew, RunsApart, BatchIsDue, NoOversleep
  <2> QED BY <2>3, <2>4 DEF TimersInv
<1> QED BY <1>1, <1>2, <1>3, <1>4, <1>5, <1>6, <1>7, <1>8, <1>9, <1>10 DEF Next, LoopStep

-----------------------------------------------------------------------------
(* The theorems. *)

LEMMA InvStarts == Init => TypeOK /\ TimersInv
<1> SUFFICES ASSUME Init
             PROVE  TypeOK /\ TimersInv
  OBVIOUS
<1>1. /\ now = 0 /\ batchNow = 0 /\ nextId = 1 /\ heap = {} /\ ids = {} /\ ops = <<>>
      /\ pc = "timers" /\ batch = {} /\ left = {} /\ wakeAt = -1 /\ gone = {} /\ asked = {}
      /\ exp = [t \in Timer |-> 0] /\ interval = [t \in Timer |-> 0]
      /\ lastRun = [t \in Timer |-> -1]
  BY DEF Init
<1>2. TypeOK
  <2>1. 1 \in 1..(MaxTimers + 1) /\ ops \in Seq(Op)
    BY <1>1, BoundsAssumption
  <2> QED BY <1>1, <2>1 DEF TypeOK
<1>3. Waiting = {} /\ AddsOnce(ops)
  <2>1. DOMAIN ops = {}
    BY <1>1
  <2> QED BY <2>1 DEF Waiting, AddsOnce
<1>4. \A t \in Timer : ~(t < nextId) /\ lastRun[t] = -1
  BY <1>1, BoundsAssumption DEF Timer
<1>5. TimersAccounted /\ OnlyCreated
  BY <1>1, <1>3, <1>4 DEF TimersAccounted, OnlyCreated
<1>6. WaitingIsNew /\ BatchIsDue /\ GoneForGood /\ RunsApart /\ NoOversleep
  BY <1>1, <1>3, <1>4 DEF WaitingIsNew, BatchIsDue, GoneForGood, RunsApart, NoOversleep
<1> QED BY <1>2, <1>5, <1>6 DEF TimersInv

LEMMA InvHolds == Spec => [](TypeOK /\ TimersInv)
<1>1. TypeOK /\ TimersInv /\ [Next]_vars => (TypeOK /\ TimersInv)'
  BY TypeKept, TimersKept
<1> QED BY <1>1, InvStarts, PTL DEF Spec

(* Type correctness of the timers, their heap and the functors             *)
(* (timer_queue.hpp:50-72).                                                *)
THEOREM TypeCorrect == Spec => []TypeOK
BY InvHolds, PTL

(* No timer is lost or held twice: an active one is in the heap or in the  *)
(* batch that handlerTimer works off, and one that repeats stays active    *)
(* until it is cancelled (timer_queue.cpp:91-141).                         *)
THEOREM NoTimerIsLost == Spec => []TimersAccounted
<1>1. TypeOK /\ TimersInv => TimersAccounted
  BY DEF TimersInv
<1> QED BY <1>1, InvHolds, PTL

(* The loop's thread never sleeps past the expiration of a timer in the    *)
(* heap, however far off the next one is (timer_queue.cpp:51-73).          *)
THEOREM NeverOversleeps == Spec => []NoOversleep
<1>1. TypeOK /\ TimersInv => NoOversleep
  BY DEF TimersInv
<1> QED BY <1>1, InvHolds, PTL

(* Before handlerTimer runs a callback, all that RunsAreLegal asks is so.  *)
LEMMA RunIsLegal ==
  ASSUME TypeOK, TimersInv, [Next]_vars, NEW t \in Timer, Runs(t)
  PROVE  /\ exp[t] <= now /\ t \notin gone
         /\ lastRun[t] # -1 => interval[t] > 0 /\ batchNow - lastRun[t] >= interval[t]
<1>1. RunExpired
  <2>1. pc = "run" /\ pc' = "callback"
    BY DEF Runs
  <2> QED BY <2>1 DEF Next, LoopStep, vars, Tick, GetExpiredTimers, CallbackReturns,
                      ResetExpiredTimers, GetNextTimeout, PollTimesOut, PollOtherEvent, RunOp,
                      EndOfRound, AddTimerInLoop, AddTimerFromThread, DelTimerInLoop,
                      DelTimerFromThread
<1>2. t \in ids /\ t \in left
  <2>1. PICK u \in left : left' = left \ {u} /\ (u \notin ids => UNCHANGED pc)
    BY <1>1 DEF RunExpired
  <2>2. t \in left /\ t \notin left' /\ pc # pc'
    BY DEF Runs
  <2> QED BY <2>1, <2>2
<1>3. t \in batch /\ t \notin gone
  BY <1>2 DEF TimersInv, TimersAccounted, GoneForGood
<1>4. /\ exp[t] <= batchNow /\ batchNow <= now
      /\ exp[t] \in Nat /\ batchNow \in Nat /\ now \in Nat
      /\ interval[t] \in Nat /\ lastRun[t] \in Int
  BY <1>3 DEF TimersInv, BatchIsDue, TypeOK
<1>5. lastRun[t] # -1 => interval[t] > 0 /\ exp[t] - lastRun[t] >= interval[t]
  BY <1>2 DEF TimersInv, RunsApart
<1>6. exp[t] <= now
  BY <1>4
<1>7. exp[t] - lastRun[t] >= interval[t] => batchNow - lastRun[t] >= interval[t]
  BY <1>4
<1> QED BY <1>3, <1>5, <1>6, <1>7

(* A callback runs not before its expiration, not after its cancellation   *)
(* was carried out, once if it is a one-shot, and at least one interval    *)
(* after its previous batch if it repeats                                  *)
(* (timer_queue.cpp:75-89, 112-133, 143-149).                               *)
THEOREM CallbacksRunLegally == Spec => RunsAreLegal
<1>1. TypeOK /\ TimersInv /\ [Next]_vars =>
        [\A t \in Timer : Runs(t) =>
           /\ exp[t] <= now
           /\ t \notin gone
           /\ lastRun[t] # -1 =>
                interval[t] > 0 /\ batchNow - lastRun[t] >= interval[t]]_vars
  BY RunIsLegal
<1> QED BY <1>1, InvHolds, PTL DEF Spec, RunsAreLegal

================================================================================
