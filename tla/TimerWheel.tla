------------------------------ MODULE TimerWheel ------------------------------
(***************************************************************************)
(* net/timer_wheel.cpp: wheels of buckets of shared_ptrs.  An entry is     *)
(* destroyed with its last reference, so inserting it again prolongs its   *)
(* life.  A reference that has far to go is wrapped in a DelayEntry for    *)
(* every wheel below the one it is put in, whose destructor inserts it     *)
(* there; way are the buckets that it goes on to, the lowest wheel first.  *)
(*                                                                         *)
(* Entries are inserted by functors and callbacks between two ticks, and   *)
(* by the destructors of entries in the middle of one, or of ~TimerWheel.  *)
(***************************************************************************)
EXTENDS Integers, FiniteSets, Sequences, SequencesExt

CONSTANTS
  Entry,       \* what the shared_ptrs point to
  BucketNum,   \* bucketNum_
  MaxTicks,    \* maxTimeout / ticksInterval_
  MaxDelay,    \* bound: ticks of a delay, which may exceed MaxTicks
  MaxRefs      \* bound: references in the wheels

ASSUME WheelAssumption ==
  /\ BucketNum \in Nat /\ BucketNum > 1
  /\ MaxTicks \in Nat /\ MaxTicks > 1
  /\ MaxDelay \in Nat /\ MaxRefs \in Nat

(* pow, bucketNum: the powers of bucketNum_. *)
Power[n \in Nat] == IF n = 0 THEN 1 ELSE BucketNum * Power[n - 1]

(* wheels_.size(): enough of them for maxTimeout. *)
WheelsNum ==
  CHOOSE w \in 1..MaxTicks :
    /\ MaxTicks <= Power[w]
    /\ \A v \in 1..(w - 1) : MaxTicks > Power[v]

Wheel == 0..(WheelsNum - 1)
Span == Power[WheelsNum]

VARIABLES
  wheels,       \* wheels_: the buckets of each wheel
  tickCounter,  \* tickCounter_, of which the code uses the digits only
  pc,           \* in no call, in the timer's callback, in the destructor, gone
  at,           \* the wheel whose bucket, or buckets, are being destroyed
  dying,        \* what is still to be destroyed of them
  undefined,    \* a bucket or wheel was used while, or after, it was cleared
  earliest,     \* history: ticks until an entry may be destroyed
  latest        \* history: ticks until it must have been

wheelVars == <<wheels, tickCounter, pc, at, dying, undefined>>
historyVars == <<earliest, latest>>
vars == <<wheelVars, historyVars>>

Reference == [id : Entry, way : UNION {[1..i -> 0..(BucketNum - 1)] : i \in Wheel}]

TypeOK ==
  /\ wheels \in [Wheel -> [1..BucketNum -> SUBSET Reference]]
  /\ tickCounter \in 0..(Span - 1)
  /\ pc \in {"idle", "tick", "clear", "gone"}
  /\ at \in Wheel /\ dying \subseteq Reference
  /\ undefined \in BOOLEAN
  /\ earliest \in [Entry -> Nat] /\ latest \in [Entry -> Nat]

Init ==
  /\ wheels = [i \in Wheel |-> [j \in 1..BucketNum |-> {}]]
  /\ tickCounter = 0
  /\ pc = "idle" /\ at = 0 /\ dying = {}
  /\ undefined = FALSE
  /\ earliest = [e \in Entry |-> 0] /\ latest = [e \in Entry |-> 0]

Contents(i) == UNION {wheels[i][j] : j \in 1..BucketNum}
References == dying \union UNION {Contents(i) : i \in Wheel}
CopiesOf(e) == {r \in References : r.id = e}
Alive(e) == CopiesOf(e) # {}

-----------------------------------------------------------------------------
(* insertEntryInLoop *)

Digit(i) == (tickCounter \div Power[i]) % BucketNum

(* index in round i *)
IndexIn(delay) ==
  LET index[i \in Wheel] ==
        IF i = 0 THEN delay + 1 ELSE (index[i - 1] + Digit(i - 1) - 1) \div BucketNum
  IN  index

(* A reference with this delay is put in wheel i: the first that it fits in, *)
(* or the last.                                                            *)
GoesTo(i, delay) ==
  /\ IndexIn(delay)[i] <= BucketNum \/ i = WheelsNum - 1
  /\ \A k \in 0..(i - 1) : IndexIn(delay)[k] > BucketNum

(* What goes beyond the last wheel is put in its last bucket. *)
BucketFor(i, delay) ==
  IF IndexIn(delay)[i] <= BucketNum THEN IndexIn(delay)[i] ELSE BucketNum

(* Slip: the position is counted from where the wheel stood at tick 0. *)
WayUnturned(i, delay) == [k \in 1..i |-> (IndexIn(delay)[k - 1] - 1) % BucketNum]

(* The buckets of the wheels below i, counted from 0. *)
WayFor(i, delay) == [k \in 1..i |-> (IndexIn(delay)[k - 1] + Digit(k - 1) - 1) % BucketNum]

Put(i, bucket, r) == wheels' = [wheels EXCEPT ![i][bucket] = @ \union {r}]

InsertEntryInLoop(i, e, delay) ==
  /\ GoesTo(i, delay)
  /\ Put(i, BucketFor(i, delay), [id |-> e, way |-> WayFor(i, delay)])

(* History: an entry lives until the tick after its longest delay, or from  *)
(* soonest on if something is wrong with that.                             *)
Later(m, n) == IF m > n THEN m ELSE n

Promise(e, delay, soonest) ==
  /\ earliest' = [earliest EXCEPT ![e] = Later(@, soonest)]
  /\ latest' = [latest EXCEPT ![e] = Later(@, delay + 1)]

(* The delays that fit into the wheels however they stand; the others are   *)
(* cut by up to a bucket of the last wheel.                                *)
Spanned(delay) == delay < Span \/ (delay = Span /\ WheelsNum > 1)
CutShort == Span - Power[WheelsNum - 1] + 1

InsertEntry(e, delay) ==
  /\ pc = "idle" /\ Cardinality(References) < MaxRefs
  /\ \E i \in Wheel : InsertEntryInLoop(i, e, delay)
  /\ Promise(e, delay, IF Spanned(delay) THEN delay + 1 ELSE CutShort)
  /\ UNCHANGED <<tickCounter, pc, at, dying, undefined>>

-----------------------------------------------------------------------------
(* The timer's callback. *)

Ticked(left) == [e \in Entry |-> IF left[e] = 0 THEN 0 ELSE left[e] - 1]

(* pop_front of wheel i, whose first bucket is ws[i][1], begins. *)
PopFront(i, ws) ==
  /\ at' = i
  /\ dying' = ws[i][1]
  /\ wheels' = [ws EXCEPT ![i][1] = {}]

Tick ==
  /\ pc = "idle" /\ pc' = "tick"
  /\ tickCounter' = (tickCounter + 1) % Span
  /\ PopFront(0, wheels)
  /\ earliest' = Ticked(earliest) /\ latest' = Ticked(latest)
  /\ UNCHANGED undefined

(* Slip: no new bucket. *)
TurnedShort(i) == [wheels EXCEPT ![i] = Tail(@)]

(* The bucket is off the deque, and a new one is on it. *)
Turned(i) == [wheels EXCEPT ![i] = Append(Tail(@), {})]

(* emplace_back, and on to the next wheel if it is due. *)
PopFrontReturns ==
  /\ pc = "tick" /\ dying = {}
  /\ IF at + 1 \in Wheel /\ tickCounter % Power[at + 1] = 0
       THEN PopFront(at + 1, Turned(at)) /\ UNCHANGED pc
       ELSE wheels' = Turned(at) /\ pc' = "idle" /\ UNCHANGED <<at, dying>>
  /\ UNCHANGED <<tickCounter, undefined, historyVars>>

(* The destructor of a DelayEntry in the bucket. *)
DestroyDelayEntry(r) ==
  /\ at # 0 /\ r \in dying
  /\ dying' = dying \ {r}
  /\ Put(at - 1, Last(r.way) + 1, [r EXCEPT !.way = Front(@)])
  /\ UNCHANGED <<tickCounter, pc, at, undefined, historyVars>>

(* A reference to an entry goes. *)
DestroyReference(r) ==
  /\ at = 0 /\ r \in dying
  /\ dying' = dying \ {r}
  /\ UNCHANGED <<wheels, tickCounter, pc, at, undefined, historyVars>>

(* It was the last, and the entry's destructor inserts an entry, which is   *)
(* a tick nearer as the wheel has yet to turn.  The first bucket must not  *)
(* be touched; and when the second wheel is to turn as well, it takes a new *)
(* reference with it.                                                      *)
DestroyEntryInserts(r, e, delay) ==
  /\ at = 0 /\ pc = "tick" /\ r \in dying
  /\ CopiesOf(r.id) = {r} /\ Cardinality(References) <= MaxRefs
  /\ dying' = dying \ {r}
  /\ \E i \in Wheel :
       /\ InsertEntryInLoop(i, e, delay)
       /\ undefined' = (i = 0 /\ BucketFor(i, delay) = 1)
       /\ Promise(e, delay, IF ~Spanned(delay) \/ (i > 0 /\ Digit(0) = 0) THEN 0 ELSE delay)
  /\ UNCHANGED <<tickCounter, pc, at>>

(* The same while ~TimerWheel clears the lowest wheel: that one is in the   *)
(* middle of clear(), the others have no buckets left.                     *)
DestroyEntryInsertsLate(r) ==
  /\ at = 0 /\ pc = "clear" /\ r \in dying
  /\ CopiesOf(r.id) = {r}
  /\ dying' = dying \ {r}
  /\ undefined' = TRUE
  /\ UNCHANGED <<wheels, tickCounter, pc, at, historyVars>>

-----------------------------------------------------------------------------
(* The destructor, which clears one wheel after the other. *)

Clear(i) ==
  /\ at' = i
  /\ dying' = Contents(i)
  /\ wheels' = [wheels EXCEPT ![i] = [j \in 1..BucketNum |-> {}]]
  /\ pc' = "clear"
  /\ UNCHANGED <<tickCounter, undefined, historyVars>>

(* Slip: like a destructor that leaves it to the vector. *)
ClearOrderForwards == [k \in 1..WheelsNum |-> k - 1]

ClearOrder == [k \in 1..WheelsNum |-> WheelsNum - k]

Destroy == pc = "idle" /\ Clear(ClearOrder[1])

ClearReturns ==
  /\ pc = "clear" /\ dying = {}
  /\ \E k \in 1..WheelsNum :
       /\ at = ClearOrder[k]
       /\ \/ k < WheelsNum /\ Clear(ClearOrder[k + 1])
          \/ /\ k = WheelsNum /\ pc' = "gone"
             /\ UNCHANGED <<wheels, tickCounter, at, dying, undefined, historyVars>>

-----------------------------------------------------------------------------
Next ==
  /\ ~undefined
  /\ \/ Tick \/ PopFrontReturns \/ Destroy \/ ClearReturns
     \/ \E e \in Entry, delay \in 0..MaxDelay : InsertEntry(e, delay)
     \/ \E r \in dying :
          \/ DestroyDelayEntry(r) \/ DestroyReference(r) \/ DestroyEntryInsertsLate(r)
          \/ \E e \in Entry, delay \in 0..MaxDelay : DestroyEntryInserts(r, e, delay)

Spec == Init /\ [][Next]_vars

-----------------------------------------------------------------------------
(* Properties. *)

(* However the wheels stood at its insertions, an entry lives until the     *)
(* longest of its delays is over, and not a tick longer.  Exempt are delays *)
(* that the wheels do not span and insertions in the middle of a tick, for  *)
(* which Promise says what holds (timer_wheel.cpp:39-52, 85-115).           *)
ReleasedOnTime ==
  pc = "idle" /\ ~undefined =>
    \A e \in Entry : IF Alive(e) THEN latest[e] > 0 ELSE earliest[e] = 0

(* No entry is left when the wheels are gone: what the higher ones let go   *)
(* goes by way of the lower ones (timer_wheel.cpp:60-63).  An entry whose   *)
(* destructor inserts one meanwhile is where undefined ends the model.      *)
NoneOutlivesWheels == pc = "gone" => \A e \in Entry : ~Alive(e)
================================================================================
