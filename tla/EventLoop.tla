------------------------------ MODULE EventLoop ------------------------------
(***************************************************************************)
(* net/event_loop.cpp: one thread runs start(), the others reach it through *)
(* queueInLoop, runInLoop, runTimer, cancelTimer (all of them a functor in *)
(* customEvents_) and stop().  The functor queue is MpscQueue, which       *)
(* LockFreeQueue implements; wakeupFd_ is the Linux eventfd.  Timers and   *)
(* sockets are reduced to one of each: what matters here is when they wake *)
(* the thread and what their callbacks may do to the loop.                 *)
(*                                                                         *)
(* A member of Value is one posted functor; it is posted at most once, so  *)
(* the size of Value bounds the postings of a behaviour.                   *)
(***************************************************************************)
EXTENDS MpscQueue

CONSTANT Threads    \* the threads other than the loop's own

VARIABLES
  status,    \* status_
  pc,        \* where start() stands, or whose callback it is inside of
  ready,     \* channels_: what pollEvents reported and is not yet handled
  wakeupFd,  \* the eventfd has a count to read
  io,        \* the socket has something to report (level triggered)
  timer,     \* "none", "pending" or "due"
  tpc,       \* per thread: where it is in queueInLoop or stop
  tev,       \* per thread: the functor it is posting
  origin,    \* per functor: who posted it, "none" if nobody did
  stopper    \* who wrote the last Status::stop

loopVars == <<status, pc, ready>>
threadVars == <<tpc, tev>>
historyVars == <<origin, stopper>>
vars == <<loopVars, wakeupFd, io, timer, queueVars, threadVars, historyVars>>

Callbacks == {"timerCb", "channelCb", "functorCb"}
PC == {"idle", "check", "timers", "poll", "handle", "drain", "destroyed"}
        \union Callbacks

TypeOK ==
  /\ status \in {"stop", "running"}
  /\ pc \in PC
  /\ ready \subseteq {"wakeup", "io"}
  /\ wakeupFd \in BOOLEAN /\ io \in BOOLEAN
  /\ timer \in {"none", "pending", "due"}
  /\ slots \in Seq(Slot)
  /\ result \in Value \union {NoValue}
  /\ tpc \in [Threads -> {"idle", "claimed", "published", "stopping"}]
  /\ tev \in [Threads -> Value \union {NoValue}]
  /\ origin \in [Value -> {"none", "thread", "idle"} \union Callbacks]
  /\ stopper \in {"thread"} \union Callbacks

(* EventLoop(): stopped, nothing queued, the eventfd at zero and watched. *)
Init ==
  /\ status = "stop" /\ pc = "idle" /\ ready = {}
  /\ wakeupFd = FALSE /\ io = FALSE /\ timer = "none"
  /\ QueueInit
  /\ tpc = [t \in Threads |-> "idle"]
  /\ tev = [t \in Threads |-> NoValue]
  /\ origin = [e \in Value |-> "none"]
  /\ stopper = "thread"

-----------------------------------------------------------------------------
(* The loop's thread. *)

Start ==
  /\ pc = "idle"
  /\ status' = "running"
  /\ pc' = "check"
  /\ UNCHANGED <<ready, wakeupFd, io, timer, queueVars, threadVars, historyVars>>

(* while (isRunning()) *)
CheckRunning ==
  /\ pc = "check"
  /\ pc' = IF status = "running" THEN "timers" ELSE "idle"
  /\ UNCHANGED <<status, ready, wakeupFd, io, timer, queueVars, threadVars,
                 historyVars>>

(* timers_->handlerTimer(): the callbacks of the timers that are due now.   *)
HandlerTimer ==
  /\ pc = "timers"
  /\ IF timer = "due"
       THEN pc' = "timerCb" /\ timer' = "none"
       ELSE pc' = "poll" /\ UNCHANGED timer
  /\ UNCHANGED <<status, ready, wakeupFd, io, queueVars, threadVars, historyVars>>

(* poller_->pollEvents(channels_, timers_->getNextTimeout()): sleeps until a *)
(* descriptor is readable or the next timer is due.                        *)
PollReturn ==
  /\ pc = "poll"
  /\ wakeupFd \/ io \/ timer = "due"
  /\ ready' = {c \in {"wakeup", "io"} : IF c = "io" THEN io ELSE wakeupFd}
  /\ pc' = "handle"
  /\ UNCHANGED <<status, wakeupFd, io, timer, queueVars, threadVars, historyVars>>

(* epoll_wait fails with EINTR; channels_ stays empty. *)
PollInterrupted ==
  /\ pc = "poll"
  /\ pc' = "handle"
  /\ UNCHANGED <<status, ready, wakeupFd, io, timer, queueVars, threadVars,
                 historyVars>>

(* wakeupChannel_'s read callback takes the whole count of the eventfd.    *)
HandleWakeup ==
  /\ pc = "handle" /\ "wakeup" \in ready
  /\ ready' = ready \ {"wakeup"}
  /\ wakeupFd' = FALSE
  /\ UNCHANGED <<status, pc, io, timer, queueVars, threadVars, historyVars>>

(* Any other channel: its callback reads what there is and may call back.  *)
HandleIo ==
  /\ pc = "handle" /\ "io" \in ready
  /\ ready' = ready \ {"io"}
  /\ io' = FALSE
  /\ pc' = "channelCb"
  /\ UNCHANGED <<status, wakeupFd, timer, queueVars, threadVars, historyVars>>

HandledAll ==
  /\ pc = "handle" /\ ready = {}
  /\ pc' = "drain"
  /\ UNCHANGED <<status, ready, wakeupFd, io, timer, queueVars, threadVars,
                 historyVars>>

(* while (customEvents_.dequeue(cb)) cb(); *)
DrainTake ==
  /\ pc = "drain"
  /\ Take
  /\ pc' = "functorCb"
  /\ UNCHANGED <<status, ready, wakeupFd, io, timer, threadVars, historyVars>>

(* Slip: the next round without asking isRunning(). *)
DrainDoneKeepsOn ==
  /\ pc = "drain"
  /\ SeeEmpty
  /\ pc' = "timers"
  /\ UNCHANGED <<status, ready, wakeupFd, io, timer, threadVars, historyVars>>

(* customEvents_.empty(): also with functors behind an unpublished one.    *)
DrainDone ==
  /\ pc = "drain"
  /\ SeeEmpty
  /\ pc' = "check"
  /\ UNCHANGED <<status, ready, wakeupFd, io, timer, threadVars, historyVars>>

(* Slip: one functor a round, an if for the while. *)
CallbackReturnsOneARound ==
  /\ pc \in Callbacks
  /\ pc' = CASE pc = "timerCb" -> "poll"
             [] pc = "channelCb" -> "handle"
             [] pc = "functorCb" -> "check"
  /\ UNCHANGED <<status, ready, wakeupFd, io, timer, queueVars, threadVars,
                 historyVars>>

CallbackReturns ==
  /\ pc \in Callbacks
  /\ pc' = CASE pc = "timerCb" -> "poll"
             [] pc = "channelCb" -> "handle"
             [] pc = "functorCb" -> "drain"
  /\ UNCHANGED <<status, ready, wakeupFd, io, timer, queueVars, threadVars,
                 historyVars>>

(* The destructor, when no other thread uses the loop any more. *)
Destroy ==
  /\ pc = "idle"
  /\ \A t \in Threads : tpc[t] = "idle"
  /\ pc' = "destroyed"
  /\ UNCHANGED <<status, ready, wakeupFd, io, timer, queueVars, threadVars,
                 historyVars>>

(* queueInLoop on the loop's own thread, from a callback or while the loop *)
(* is not running: a wakeup only if isStop().  The consumer is this very   *)
(* thread, so claiming and publishing are one step.                        *)
QueueInLoop(e) ==
  /\ pc \in Callbacks \union {"idle"}
  /\ origin[e] = "none"
  /\ slots' = Append(slots, [val |-> e, published |-> TRUE])
  /\ origin' = [origin EXCEPT ![e] = pc]
  /\ wakeupFd' = (wakeupFd \/ status = "stop")
  /\ UNCHANGED <<loopVars, io, timer, result, threadVars, stopper>>

(* stop() on the loop's own thread: no wakeup. *)
StopInLoop ==
  /\ pc \in Callbacks
  /\ status = "running"
  /\ status' = "stop"
  /\ stopper' = pc
  /\ UNCHANGED <<pc, ready, wakeupFd, io, timer, queueVars, threadVars, origin>>

(* runTimer on the loop's own thread, and a repeating timer's next round.  *)
RunTimer ==
  /\ pc \in Callbacks \union {"idle"}
  /\ timer = "none"
  /\ timer' = "pending"
  /\ UNCHANGED <<loopVars, wakeupFd, io, queueVars, threadVars, historyVars>>

-----------------------------------------------------------------------------
(* The other threads. *)

(* queueInLoop: customEvents_.enqueue(func), then wakeup(). *)
ThreadClaim(t, e) ==
  /\ tpc[t] = "idle" /\ pc # "destroyed"
  /\ origin[e] = "none"
  /\ Claim(e)
  /\ origin' = [origin EXCEPT ![e] = "thread"]
  /\ tpc' = [tpc EXCEPT ![t] = "claimed"]
  /\ tev' = [tev EXCEPT ![t] = e]
  /\ UNCHANGED <<loopVars, wakeupFd, io, timer, stopper>>

(* Slip: only a stopped loop is woken, whoever the caller is. *)
ThreadPublishQuietly(t) ==
  /\ tpc[t] = "claimed"
  /\ \E i \in DOMAIN slots : slots[i].val = tev[t] /\ Publish(i)
  /\ IF status = "stop"
       THEN tpc' = [tpc EXCEPT ![t] = "published"] /\ UNCHANGED tev
       ELSE tpc' = [tpc EXCEPT ![t] = "idle"] /\ tev' = [tev EXCEPT ![t] = NoValue]
  /\ UNCHANGED <<loopVars, wakeupFd, io, timer, historyVars>>

ThreadPublish(t) ==
  /\ tpc[t] = "claimed"
  /\ \E i \in DOMAIN slots : slots[i].val = tev[t] /\ Publish(i)
  /\ tpc' = [tpc EXCEPT ![t] = "published"]
  /\ UNCHANGED <<loopVars, wakeupFd, io, timer, tev, historyVars>>

(* Slip: stop() without a wakeup. *)
ThreadStopQuietly(t) ==
  /\ tpc[t] = "idle" /\ pc # "destroyed"
  /\ status = "running"
  /\ status' = "stop"
  /\ stopper' = "thread"
  /\ UNCHANGED <<pc, ready, wakeupFd, io, timer, queueVars, threadVars, origin>>

(* stop() asserts that the loop is not stopped yet. *)
ThreadStop(t) ==
  /\ tpc[t] = "idle" /\ pc # "destroyed"
  /\ status = "running"
  /\ status' = "stop"
  /\ stopper' = "thread"
  /\ tpc' = [tpc EXCEPT ![t] = "stopping"]
  /\ UNCHANGED <<pc, ready, wakeupFd, io, timer, queueVars, tev, origin>>

(* The wakeup() at the end of queueInLoop and of stop. *)
ThreadWakeup(t) ==
  /\ tpc[t] \in {"published", "stopping"}
  /\ wakeupFd' = TRUE
  /\ tpc' = [tpc EXCEPT ![t] = "idle"]
  /\ tev' = [tev EXCEPT ![t] = NoValue]
  /\ UNCHANGED <<loopVars, io, timer, queueVars, historyVars>>

-----------------------------------------------------------------------------
(* The world outside. *)

IoArrives ==
  /\ ~io /\ pc # "destroyed"
  /\ io' = TRUE
  /\ UNCHANGED <<loopVars, wakeupFd, timer, queueVars, threadVars, historyVars>>

TimeGoesBy ==
  /\ timer = "pending" /\ pc # "destroyed"
  /\ timer' = "due"
  /\ UNCHANGED <<loopVars, wakeupFd, io, queueVars, threadVars, historyVars>>

-----------------------------------------------------------------------------
(* What the loop's thread does by itself once start() was called. *)
LoopStep ==
  \/ CheckRunning \/ HandlerTimer \/ PollReturn \/ HandleWakeup \/ HandleIo
  \/ HandledAll \/ DrainTake \/ DrainDone \/ CallbackReturns

ThreadFinish(t) == ThreadPublish(t) \/ ThreadWakeup(t)

Next ==
  \/ LoopStep \/ Start \/ PollInterrupted \/ StopInLoop \/ RunTimer \/ Destroy
  \/ \E e \in Value : QueueInLoop(e)
  \/ \E t \in Threads :
       \/ \E e \in Value : ThreadClaim(t, e)
       \/ ThreadStop(t)
       \/ ThreadFinish(t)
  \/ IoArrives \/ TimeGoesBy

Spec == Init /\ [][Next]_vars

(* The operating system keeps running the loop's thread and the threads    *)
(* inside a call, and callbacks return.  Nothing makes a caller call, a     *)
(* socket become readable or a loop restart.                               *)
FairSpec ==
  /\ Spec
  /\ WF_vars(LoopStep)
  /\ \A t \in Threads : WF_vars(ThreadFinish(t))

-----------------------------------------------------------------------------
(* Properties. *)

(* From the end of a drain to the next epoll_wait nothing but the eventfd  *)
(* can tell the loop of a queued functor.                                  *)
BeforePoll == {"idle", "check", "timers", "timerCb", "poll"}

(* Thread t is inside queueInLoop with the functor of slot i and will still *)
(* call wakeup().                                                          *)
WillWake(t, i) ==
  tpc[t] \in {"claimed", "published"} /\ tev[t] = slots[i].val

(* No lost wakeup: whenever the loop is about to sleep, for every functor   *)
(* in the queue the eventfd is readable, or a thread whose functor is at or *)
(* in front of it has yet to write the eventfd (event_loop.cpp:63-90,      *)
(* 114-121, 168-177).  Exempt are functors that a timer callback queued:    *)
(* handlerTimer runs before pollEvents and queueInLoop does not wake its   *)
(* own thread.                                                             *)
NoLostWakeup ==
  pc \in BeforePoll =>
    \A i \in DOMAIN slots :
      \/ origin[slots[i].val] = "timerCb"
      \/ wakeupFd
      \/ \E j \in 1..i : \E t \in Threads : WillWake(t, j)

(* No lost stop: a running loop that is about to sleep after a stop() has   *)
(* the eventfd readable or its stopper about to write it; except when a    *)
(* timer callback called stop(), which leaves the loop asleep until         *)
(* something else happens (event_loop.cpp:72-75, 92-100).                   *)
NoLostStop ==
  pc \in {"timers", "timerCb", "poll"} /\ status = "stop" =>
    \/ stopper = "timerCb"
    \/ wakeupFd
    \/ \E t \in Threads : tpc[t] = "stopping"

(* A slot that is claimed and not published belongs to one thread that is  *)
(* about to publish it; a stopped idle loop is what queueInLoop relies on  *)
(* when it skips the wakeup (event_loop.cpp:116-120).                       *)
QueueOwned ==
  /\ \A i, j \in DOMAIN slots : slots[i].val = slots[j].val => i = j
  /\ \A i \in DOMAIN slots :
       /\ origin[slots[i].val] # "none"
       /\ \/ slots[i].published
          \/ \E t \in Threads : tpc[t] = "claimed" /\ tev[t] = slots[i].val
  /\ pc \in {"idle", "destroyed"} => status = "stop"

Queued == {slots[i].val : i \in DOMAIN slots}
Executed(e) == origin[e] # "none" /\ e \notin Queued

(* Every functor that another thread or a callback of a channel or another *)
(* functor posts to a loop runs unless the loop is stopped first           *)
(* (event_loop.cpp:81-88, 114-121).                                         *)
FunctorsRun ==
  \A e \in Value :
    (origin[e] \notin {"none", "timerCb"} /\ status = "running")
      ~> (Executed(e) \/ status = "stop")

(* A stop() from another thread, a channel callback or a functor makes      *)
(* start() return (event_loop.cpp:70, 92-100).                              *)
StopReturns == (status = "stop" /\ stopper # "timerCb") ~> (pc \in {"idle", "destroyed"})
==============================================================================
