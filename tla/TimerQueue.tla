----------------------------- MODULE TimerQueue -----------------------------
(***************************************************************************)
(* net/timer_queue.cpp: the timers of one EventLoop.  Calls on the loop's  *)
(* thread act at once; calls on another thread leave a functor behind that  *)
(* the loop runs later (ops: the timer functors among customEvents_).      *)
(* Time is the steady clock in milliseconds.                               *)
(***************************************************************************)
EXTENDS Integers, Sequences

CONSTANTS
  MaxTimers,  \* bound: timers created in one behaviour
  MaxTime,    \* bound: the clock stops here
  Requests,   \* the <<delay, interval>> pairs that runTimer is called with
  IntMax      \* std::numeric_limits<int>::max(), the longest epoll timeout

ASSUME BoundsAssumption == MaxTimers \in Nat /\ MaxTime \in Nat
ASSUME RequestsAssumption == Requests \subseteq Nat \X Nat
ASSUME IntMaxAssumption == IntMax \in Nat \ {0}

VARIABLES
  now,       \* Timer::Now()
  nextId,    \* the id the next Timer gets
  exp,       \* expiration_ of every Timer
  interval,  \* interval_ of every Timer
  heap,      \* timers_
  ids,       \* timerIds_
  ops,       \* functors of addTimer and delTimer not yet run, oldest first
  pc,        \* where the loop's thread is
  batch,     \* handlerTimer's expireds
  left,      \* those of them that its loop has not reached yet
  batchNow,  \* handlerTimer's now
  wakeAt,    \* when epoll_wait gives up: now + getNextTimeout(), -1 for never
  asked,     \* history: timers that cancelTimer was called for
  gone,      \* history: timers that delTimerInLoop found and erased
  lastRun    \* history: batchNow of the last run of each timer, -1 before it

timerVars == <<exp, interval, heap, ids>>
batchVars == <<batch, left, batchNow>>
historyVars == <<asked, gone, lastRun>>
vars == <<now, nextId, timerVars, ops, pc, batchVars, wakeAt, historyVars>>

Timer == 1..MaxTimers
Op == [op : {"add", "del"}, id : Timer]

TypeOK ==
  /\ now \in Nat /\ batchNow \in Nat
  /\ nextId \in 1..(MaxTimers + 1)
  /\ exp \in [Timer -> Nat] /\ interval \in [Timer -> Nat]
  /\ heap \subseteq Timer /\ ids \subseteq Timer
  /\ ops \in Seq(Op)
  /\ pc \in {"timers", "run", "callback", "timeout", "sleep", "events"}
  /\ batch \subseteq Timer /\ left \subseteq Timer
  /\ pc \notin {"run", "callback"} => batch = {} /\ left = {}
  /\ wakeAt \in Nat \union {-1} /\ (pc # "sleep" => wakeAt = -1)
  /\ asked \subseteq Timer /\ gone \subseteq Timer
  /\ lastRun \in [Timer -> Int]

Init ==
  /\ now = 0 /\ batchNow = 0 /\ nextId = 1
  /\ exp = [t \in Timer |-> 0] /\ interval = [t \in Timer |-> 0]
  /\ heap = {} /\ ids = {} /\ ops = <<>>
  /\ pc = "timers" /\ batch = {} /\ left = {} /\ wakeAt = -1
  /\ asked = {} /\ gone = {} /\ lastRun = [t \in Timer |-> -1]

Tick ==
  /\ now < MaxTime
  /\ now' = now + 1
  /\ UNCHANGED <<nextId, timerVars, ops, pc, batchVars, wakeAt, historyVars>>

-----------------------------------------------------------------------------
(* runTimer and cancelTimer. *)

(* make_shared<Timer>(Timer::Now() + delay, interval, ...). *)
NewTimer(r) ==
  /\ nextId <= MaxTimers
  /\ nextId' = nextId + 1
  /\ exp' = [exp EXCEPT ![nextId] = now + r[1]]
  /\ interval' = [interval EXCEPT ![nextId] = r[2]]

(* Callbacks of timers, channels and functors run on the loop's thread.    *)
InLoop == pc \in {"callback", "events"}

AddTimerInLoop(r) ==
  /\ InLoop
  /\ NewTimer(r)
  /\ ids' = ids \union {nextId}
  /\ heap' = heap \union {nextId}
  /\ UNCHANGED <<now, ops, pc, batchVars, wakeAt, historyVars>>

AddTimerFromThread(r) ==
  /\ NewTimer(r)
  /\ ops' = Append(ops, [op |-> "add", id |-> nextId])
  /\ UNCHANGED <<now, heap, ids, pc, batchVars, wakeAt, historyVars>>

(* delTimerInLoop: an id that is not there is left to assert(ret). *)
Erase(t) ==
  /\ ids' = ids \ {t}
  /\ gone' = IF t \in ids THEN gone \union {t} ELSE gone

(* The caller has the id from runTimer and cancels it once. *)
Cancellable(t) == t < nextId /\ t \notin asked

DelTimerInLoop(t) ==
  /\ InLoop /\ Cancellable(t)
  /\ Erase(t)
  /\ asked' = asked \union {t}
  /\ UNCHANGED <<now, nextId, exp, interval, heap, ops, pc, batchVars, wakeAt, lastRun>>

DelTimerFromThread(t) ==
  /\ Cancellable(t)
  /\ ops' = Append(ops, [op |-> "del", id |-> t])
  /\ asked' = asked \union {t}
  /\ UNCHANGED <<now, nextId, timerVars, pc, batchVars, wakeAt, gone, lastRun>>

-----------------------------------------------------------------------------
(* The loop: handlerTimer, getNextTimeout, epoll_wait, channels, functors. *)

(* Slip: the expired timers stay in the heap. *)
GetExpiredTimersKeeps ==
  /\ pc = "timers"
  /\ batchNow' = now
  /\ batch' = {t \in heap : exp[t] <= now}
  /\ left' = batch'
  /\ pc' = "run"
  /\ UNCHANGED <<now, nextId, timerVars, ops, wakeAt, historyVars>>

GetExpiredTimers ==
  /\ pc = "timers"
  /\ batchNow' = now
  /\ batch' = {t \in heap : exp[t] <= now}
  /\ left' = batch'
  /\ heap' = heap \ batch'
  /\ pc' = "run"
  /\ UNCHANGED <<now, nextId, exp, interval, ids, ops, wakeAt, historyVars>>

(* The heap hands timers out by expiration, then by id. *)
Before(s, t) == exp[s] < exp[t] \/ (exp[s] = exp[t] /\ s <= t)
IsNext(t) == t \in left /\ \A s \in left : Before(t, s)

(* Slip: running an expired timer without looking it up. *)
RunExpiredBlindly ==
  /\ pc = "run"
  /\ \E t \in left :
       /\ IsNext(t)
       /\ left' = left \ {t}
       /\ pc' = "callback"
       /\ lastRun' = [lastRun EXCEPT ![t] = batchNow]
  /\ UNCHANGED <<now, nextId, timerVars, ops, batch, batchNow, wakeAt, asked, gone>>

(* The next expired timer runs if its id is still there. *)
RunExpired ==
  /\ pc = "run"
  /\ \E t \in left :
       /\ IsNext(t)
       /\ left' = left \ {t}
       /\ IF t \in ids
            THEN pc' = "callback" /\ lastRun' = [lastRun EXCEPT ![t] = batchNow]
            ELSE UNCHANGED <<pc, lastRun>>
  /\ UNCHANGED <<now, nextId, timerVars, ops, batch, batchNow, wakeAt, asked, gone>>

CallbackReturns ==
  /\ pc = "callback"
  /\ pc' = "run"
  /\ UNCHANGED <<now, nextId, timerVars, ops, batchVars, wakeAt, historyVars>>

Repeating == {t \in batch \intersect ids : interval[t] > 0}

(* Slip: a repeating timer is due again one interval after its own         *)
(* expiration, which may be long past.                                     *)
ResetCatchesUp ==
  /\ pc = "run" /\ left = {}
  /\ exp' = [t \in Timer |-> IF t \in Repeating THEN exp[t] + interval[t] ELSE exp[t]]
  /\ heap' = heap \union Repeating
  /\ ids' = ids \ (batch \ Repeating)
  /\ batch' = {} /\ batchNow' = 0
  /\ pc' = "timeout"
  /\ UNCHANGED <<now, nextId, interval, ops, left, wakeAt, historyVars>>

(* Slip: rescheduling while expired timers still wait for their turn. *)
ResetTooEarly ==
  /\ pc = "run"
  /\ exp' = [t \in Timer |-> IF t \in Repeating THEN batchNow + interval[t] ELSE exp[t]]
  /\ heap' = heap \union Repeating
  /\ ids' = ids \ (batch \ Repeating)
  /\ batch' = {} /\ batchNow' = 0
  /\ pc' = "timeout"
  /\ UNCHANGED <<now, nextId, interval, ops, left, wakeAt, historyVars>>

(* Slip: repeating timers lose their id like the others. *)
ResetForgets ==
  /\ pc = "run" /\ left = {}
  /\ heap' = heap
  /\ batch' = {} /\ batchNow' = 0
  /\ pc' = "timeout"
  /\ UNCHANGED <<now, nextId, exp, interval, ids, ops, left, wakeAt, historyVars>>

(* resetExpiredTimers: repeating timers that were not cancelled go back     *)
(* into the heap, one interval after the batch's time; the ids of the      *)
(* others are forgotten.                                                   *)
ResetExpiredTimers ==
  /\ pc = "run" /\ left = {}
  /\ exp' = [t \in Timer |-> IF t \in Repeating THEN batchNow + interval[t] ELSE exp[t]]
  /\ heap' = heap \union Repeating
  /\ ids' = ids \ (batch \ Repeating)
  /\ batch' = {} /\ batchNow' = 0
  /\ pc' = "timeout"
  /\ UNCHANGED <<now, nextId, interval, ops, left, wakeAt, historyVars>>

(* Slip: no look at whether the first timer is due already; the unsigned   *)
(* difference wraps around and is capped.                                  *)
GetNextTimeoutUnchecked ==
  /\ pc = "timeout"
  /\ IF heap = {}
       THEN wakeAt' = -1
       ELSE \E top \in heap :
              /\ \A t \in heap : Before(top, t)
              /\ LET diff == exp[top] - now
                 IN  wakeAt' = now + (IF diff < 0 \/ diff > IntMax THEN IntMax ELSE diff)
  /\ pc' = "sleep"
  /\ UNCHANGED <<now, nextId, timerVars, ops, batchVars, historyVars>>

(* -1 with no timer, 0 with one due, else the distance capped to an int.   *)
GetNextTimeout ==
  /\ pc = "timeout"
  /\ IF heap = {}
       THEN wakeAt' = -1
       ELSE \E top \in heap :
              /\ \A t \in heap : Before(top, t)
              /\ LET diff == exp[top] - now
                 IN  wakeAt' = now + (CASE diff <= 0     -> 0
                                        [] diff > IntMax -> IntMax
                                        [] OTHER         -> diff)
  /\ pc' = "sleep"
  /\ UNCHANGED <<now, nextId, timerVars, ops, batchVars, historyVars>>

TimeoutOver == wakeAt # -1 /\ wakeAt <= now

PollTimesOut ==
  /\ pc = "sleep"
  /\ TimeoutOver \/ ops # <<>>
  /\ pc' = "events"
  /\ wakeAt' = -1
  /\ UNCHANGED <<now, nextId, timerVars, ops, batchVars, historyVars>>

(* A socket or an unrelated functor wakes the thread. *)
PollOtherEvent ==
  /\ pc = "sleep"
  /\ pc' = "events"
  /\ wakeAt' = -1
  /\ UNCHANGED <<now, nextId, timerVars, ops, batchVars, historyVars>>

(* A functor of addTimer or delTimer runs on the loop's thread. *)
RunOp ==
  /\ pc = "events" /\ ops # <<>>
  /\ LET t == Head(ops).id
     IN  IF Head(ops).op = "add"
           THEN /\ ids' = ids \union {t}
                /\ heap' = heap \union {t}
                /\ UNCHANGED gone
           ELSE Erase(t) /\ UNCHANGED heap
  /\ ops' = Tail(ops)
  /\ UNCHANGED <<now, nextId, exp, interval, pc, batchVars, wakeAt, asked, lastRun>>

EndOfRound ==
  /\ pc = "events" /\ ops = <<>>
  /\ pc' = "timers"
  /\ UNCHANGED <<now, nextId, timerVars, ops, batchVars, wakeAt, historyVars>>

LoopStep ==
  \/ GetExpiredTimers \/ RunExpired \/ CallbackReturns \/ ResetExpiredTimers
  \/ GetNextTimeout \/ PollTimesOut \/ RunOp \/ EndOfRound

Next ==
  \/ Tick \/ LoopStep \/ PollOtherEvent
  \/ \E r \in Requests : AddTimerInLoop(r) \/ AddTimerFromThread(r)
  \/ \E t \in Timer : DelTimerInLoop(t) \/ DelTimerFromThread(t)

Spec == Init /\ [][Next]_vars

(* Time passes and the loop's thread runs; nobody has to call anything.    *)
FairSpec == Spec /\ WF_vars(Tick) /\ WF_vars(LoopStep)

-----------------------------------------------------------------------------
(* Properties. *)

(* No timer is lost or held twice: an active timer is in the heap or in the *)
(* batch being handled, never in both, and a repeating timer that was       *)
(* added and not cancelled is active (timer_queue.cpp:91-141).             *)
Waiting == {ops[i].id : i \in {j \in DOMAIN ops : ops[j].op = "add"}}

TimersAccounted ==
  /\ heap \intersect batch = {}
  /\ left \subseteq batch
  /\ ids \subseteq heap \union batch
  /\ \A t \in Timer :
       t < nextId /\ interval[t] > 0 /\ t \notin gone => t \in ids \union Waiting
  /\ \A t \in Timer :
       t < nextId /\ lastRun[t] = -1 /\ t \notin gone => t \in ids \union Waiting

(* The thread does not sleep past a timer: while it sleeps every timer in   *)
(* the heap expires after the end of the timeout, or was due already and   *)
(* the timeout is over (timer_queue.cpp:51-73).                            *)
NoOversleep ==
  pc = "sleep" =>
    \A t \in heap : wakeAt # -1 /\ (wakeAt <= exp[t] \/ wakeAt <= now)

Runs(t) == pc = "run" /\ t \in left /\ t \notin left' /\ pc' = "callback"

(* When a timer's callback runs: not before its expiration, not after a     *)
(* cancellation was carried out (even by a callback of the same batch),     *)
(* once if it is a one-shot, and at least one interval after its previous  *)
(* batch if it repeats, however late the loop is                           *)
(* (timer_queue.cpp:75-89, 112-133, 143-149).                               *)
RunsAreLegal ==
  [][\A t \in Timer : Runs(t) =>
       /\ exp[t] <= now
       /\ t \notin gone
       /\ lastRun[t] # -1 =>
            interval[t] > 0 /\ batchNow - lastRun[t] >= interval[t]]_vars

(* A timer that expires within the bound of the clock runs, or is          *)
(* cancelled (timer_queue.cpp:51-89).                                       *)
TimersRun ==
  \A t \in Timer : \A x \in 0..MaxTime :
    (t \in ids /\ exp[t] = x) ~> (t \notin ids \/ exp[t] # x)
==============================================================================
