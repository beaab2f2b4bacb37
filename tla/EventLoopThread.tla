--------------------------- MODULE EventLoopThread ---------------------------
(***************************************************************************)
(* net/event_loop_thread.cpp: threads that each construct an EventLoop on  *)
(* their stack, run it and publish its address in loop_, and the owner     *)
(* that starts and stops them.  The EventLoop is reduced to what the       *)
(* handover needs: status_, the eventfd, the functor that start() queues   *)
(* and functors of others that may stop the loop from inside.  Its object  *)
(* exists from the constructor to the destructor at the end of the thread. *)
(***************************************************************************)
EXTENDS Naturals

CONSTANTS
  Workers,    \* the EventLoopThread objects
  MaxStarts,  \* bound: how often each is started
  MaxPosts    \* bound: functors of other threads that a loop gets per start

ASSUME BoundsAssumption == MaxStarts \in Nat /\ MaxPosts \in Nat

VARIABLES
  wpc,      \* where the thread is; "none" if thread_ is not joinable
  lstatus,  \* the loop's status_
  fd,       \* its wakeupFd_
  handover, \* start()'s functor is in customEvents_
  loop,     \* loop_ holds the loop's address
  promised, \* promise.set_value() was called
  opc,      \* where the owner is with this thread
  starts,   \* how often it was started
  posts,    \* functors of other threads that were posted since the start
  queued,   \* those of them that did not run yet
  quit      \* history: a functor stopped the loop from inside

workerVars == <<wpc, lstatus, fd, handover>>
sharedVars == <<loop, promised>>
ownerVars == <<opc, starts>>
postVars == <<posts, queued>>
elVars == <<workerVars, sharedVars, ownerVars, postVars, quit>>

Polling == {"poll", "drain"}
Running == {"check"} \union Polling
Joinable == {"ctor", "queue", "begin", "clear", "dtor", "done"} \union Running

ELTypeOK ==
  /\ wpc \in [Workers -> {"none"} \union Joinable]
  /\ lstatus \in [Workers -> {"stop", "running"}]
  /\ fd \in [Workers -> {"closed", "zero", "readable"}]
  /\ \A w \in Workers : wpc[w] \in {"none", "ctor", "done"} <=> fd[w] = "closed"
  /\ handover \in [Workers -> BOOLEAN]
  /\ loop \in [Workers -> BOOLEAN] /\ promised \in [Workers -> BOOLEAN]
  /\ opc \in [Workers -> {"off", "starting", "on", "stop", "wakeup", "join", "crashed"}]
  /\ starts \in [Workers -> 0..MaxStarts]
  /\ posts \in [Workers -> 0..MaxPosts] /\ queued \in [Workers -> 0..MaxPosts]
  /\ quit \in [Workers -> BOOLEAN]

ELInit ==
  /\ wpc = [w \in Workers |-> "none"]
  /\ lstatus = [w \in Workers |-> "stop"]
  /\ fd = [w \in Workers |-> "closed"]
  /\ handover = [w \in Workers |-> FALSE]
  /\ loop = [w \in Workers |-> FALSE]
  /\ promised = [w \in Workers |-> FALSE]
  /\ opc = [w \in Workers |-> "off"]
  /\ starts = [w \in Workers |-> 0]
  /\ posts = [w \in Workers |-> 0] /\ queued = [w \in Workers |-> 0]
  /\ quit = [w \in Workers |-> FALSE]

-----------------------------------------------------------------------------
(* The thread. *)

Goto(w, from, to) == wpc[w] = from /\ wpc' = [wpc EXCEPT ![w] = to]

(* EventLoop loop; stopped, with a fresh eventfd. *)
Construct(w) ==
  /\ Goto(w, "ctor", "queue")
  /\ lstatus' = [lstatus EXCEPT ![w] = "stop"]
  /\ fd' = [fd EXCEPT ![w] = "zero"]
  /\ UNCHANGED <<handover, sharedVars, ownerVars, postVars, quit>>

(* Slip: the loop is handed over before it runs. *)
QueueHandoverAtOnce(w) ==
  /\ Goto(w, "queue", "begin")
  /\ loop' = [loop EXCEPT ![w] = TRUE]
  /\ promised' = [promised EXCEPT ![w] = TRUE]
  /\ UNCHANGED <<lstatus, fd, handover, ownerVars, postVars, quit>>

(* loop.queueInLoop(...) wakes the loop up since it is not running yet. *)
QueueHandover(w) ==
  /\ Goto(w, "queue", "begin")
  /\ handover' = [handover EXCEPT ![w] = TRUE]
  /\ fd' = [fd EXCEPT ![w] = "readable"]
  /\ UNCHANGED <<lstatus, sharedVars, ownerVars, postVars, quit>>

Begin(w) ==
  /\ Goto(w, "begin", "check")
  /\ lstatus' = [lstatus EXCEPT ![w] = "running"]
  /\ UNCHANGED <<fd, handover, sharedVars, ownerVars, postVars, quit>>

(* while (isRunning()) *)
Check(w) ==
  /\ Goto(w, "check", IF lstatus[w] = "running" THEN "poll" ELSE "clear")
  /\ UNCHANGED <<lstatus, fd, handover, sharedVars, ownerVars, postVars, quit>>

(* epoll_wait and the wakeup channel's callback. *)
PollWakeup(w) ==
  /\ Goto(w, "poll", "drain")
  /\ fd[w] = "readable"
  /\ fd' = [fd EXCEPT ![w] = "zero"]
  /\ UNCHANGED <<lstatus, handover, sharedVars, ownerVars, postVars, quit>>

(* Any other reason to come back from epoll_wait: a timer, a socket, EINTR. *)
PollOther(w) ==
  /\ Goto(w, "poll", "drain")
  /\ UNCHANGED <<lstatus, fd, handover, sharedVars, ownerVars, postVars, quit>>

(* The functor of start(). *)
RunHandover(w) ==
  /\ wpc[w] = "drain" /\ handover[w]
  /\ handover' = [handover EXCEPT ![w] = FALSE]
  /\ loop' = [loop EXCEPT ![w] = TRUE]
  /\ promised' = [promised EXCEPT ![w] = TRUE]
  /\ UNCHANGED <<wpc, lstatus, fd, ownerVars, postVars, quit>>

RunPosted(w) ==
  /\ wpc[w] = "drain" /\ ~handover[w] /\ queued[w] > 0
  /\ queued' = [queued EXCEPT ![w] = @ - 1]
  /\ UNCHANGED <<workerVars, sharedVars, ownerVars, posts, quit>>

(* A functor that calls stop() on the loop it runs in. *)
RunQuit(w) ==
  /\ wpc[w] = "drain" /\ ~handover[w] /\ queued[w] > 0
  /\ lstatus[w] = "running"
  /\ queued' = [queued EXCEPT ![w] = @ - 1]
  /\ lstatus' = [lstatus EXCEPT ![w] = "stop"]
  /\ quit' = [quit EXCEPT ![w] = TRUE]
  /\ UNCHANGED <<wpc, fd, handover, sharedVars, ownerVars, posts>>

DrainReturns(w) ==
  /\ Goto(w, "drain", "check")
  /\ ~handover[w] /\ queued[w] = 0
  /\ UNCHANGED <<lstatus, fd, handover, sharedVars, ownerVars, postVars, quit>>

(* Slip: loop_ keeps the address of the loop. *)
ClearLoopForgotten(w) ==
  /\ Goto(w, "clear", "dtor")
  /\ UNCHANGED <<lstatus, fd, handover, sharedVars, ownerVars, postVars, quit>>

(* loop_.store(nullptr) *)
ClearLoop(w) ==
  /\ Goto(w, "clear", "dtor")
  /\ loop' = [loop EXCEPT ![w] = FALSE]
  /\ UNCHANGED <<lstatus, fd, handover, promised, ownerVars, postVars, quit>>

(* ~EventLoop at the end of the thread's function; functors left in the    *)
(* queue never run.                                                        *)
Destruct(w) ==
  /\ Goto(w, "dtor", "done")
  /\ fd' = [fd EXCEPT ![w] = "closed"]
  /\ queued' = [queued EXCEPT ![w] = 0]
  /\ UNCHANGED <<lstatus, handover, sharedVars, ownerVars, posts, quit>>

-----------------------------------------------------------------------------
(* The owner, one start() or stop() at a time. *)

OwnerGoto(w, from, to) == opc[w] = from /\ opc' = [opc EXCEPT ![w] = to]

(* start() asserts that the thread is not joinable. *)
StartThread(w) ==
  /\ OwnerGoto(w, "off", "starting")
  /\ starts[w] < MaxStarts
  /\ starts' = [starts EXCEPT ![w] = @ + 1]
  /\ promised' = [promised EXCEPT ![w] = FALSE]
  /\ wpc' = [wpc EXCEPT ![w] = "ctor"]
  /\ posts' = [posts EXCEPT ![w] = 0]
  /\ quit' = [quit EXCEPT ![w] = FALSE]
  /\ UNCHANGED <<lstatus, fd, handover, loop, queued>>

(* future.get() *)
StartReturn(w) ==
  /\ OwnerGoto(w, "starting", "on")
  /\ promised[w]
  /\ UNCHANGED <<workerVars, sharedVars, starts, postVars, quit>>

(* stop(): loop_.load(); a null pointer is called through all the same. *)
StopLoad(w) ==
  /\ OwnerGoto(w, "on", IF loop[w] THEN "stop" ELSE "crashed")
  /\ UNCHANGED <<workerVars, sharedVars, starts, postVars, quit>>

(* EventLoop::stop on the loop at that address. *)
StopStore(w) ==
  /\ OwnerGoto(w, "stop", "wakeup")
  /\ lstatus' = [lstatus EXCEPT ![w] = "stop"]
  /\ UNCHANGED <<wpc, fd, handover, sharedVars, starts, postVars, quit>>

(* Slip: stop() leaves the loop asleep. *)
StopWakeupForgotten(w) ==
  /\ OwnerGoto(w, "wakeup", "join")
  /\ UNCHANGED <<workerVars, sharedVars, starts, postVars, quit>>

(* write() on a closed eventfd fails. *)
StopWakeup(w) ==
  /\ OwnerGoto(w, "wakeup", "join")
  /\ fd' = [fd EXCEPT ![w] = IF @ = "closed" THEN @ ELSE "readable"]
  /\ UNCHANGED <<wpc, lstatus, handover, sharedVars, starts, postVars, quit>>

(* thread_.join() *)
StopJoin(w) ==
  /\ OwnerGoto(w, "join", "off")
  /\ Goto(w, "done", "none")
  /\ UNCHANGED <<lstatus, fd, handover, sharedVars, starts, postVars, quit>>

(* Some thread calls getLoop()->queueInLoop(...) before stop() is called. *)
Post(w) ==
  /\ opc[w] = "on" /\ loop[w]
  /\ posts[w] < MaxPosts
  /\ posts' = [posts EXCEPT ![w] = @ + 1]
  /\ queued' = [queued EXCEPT ![w] = @ + 1]
  /\ fd' = [fd EXCEPT ![w] = "readable"]
  /\ UNCHANGED <<wpc, lstatus, handover, sharedVars, ownerVars, quit>>

-----------------------------------------------------------------------------
ThreadStep(w) ==
  \/ Construct(w) \/ QueueHandover(w) \/ Begin(w) \/ Check(w)
  \/ PollWakeup(w) \/ RunHandover(w) \/ RunPosted(w) \/ DrainReturns(w)
  \/ ClearLoop(w) \/ Destruct(w)

OtherStep(w) == PollOther(w) \/ RunQuit(w) \/ Post(w)

ELNext ==
  \E w \in Workers :
    \/ ThreadStep(w) \/ OtherStep(w)
    \/ StartThread(w) \/ StartReturn(w)
    \/ StopLoad(w) \/ StopStore(w) \/ StopWakeup(w) \/ StopJoin(w)

ELSpec == ELInit /\ [][ELNext]_elVars

-----------------------------------------------------------------------------
(* Properties. *)

Exists(w) == wpc[w] \in {"queue", "begin", "clear", "dtor"} \union Running

(* loop_ never holds the address of a loop that does not exist, across     *)
(* stops from inside and restarts, and a thread that is not joinable has   *)
(* left nothing behind (event_loop_thread.cpp:27-36, 41-50).                *)
PublishedLoopExists ==
  \A w \in Workers :
    /\ loop[w] => Exists(w)
    /\ opc[w] = "off" => wpc[w] = "none" /\ fd[w] = "closed" /\ queued[w] = 0

(* When start() has returned, getLoop() is a running loop, until someone    *)
(* stops it: that is why the address is handed over by a functor of the    *)
(* loop itself (event_loop_thread.cpp:20-39).                               *)
StartedMeansRunning ==
  \A w \in Workers :
    opc[w] \in {"on", "stop"} /\ ~quit[w] =>
      loop[w] /\ lstatus[w] = "running" /\ wpc[w] \in Running

(* What the assertion in EventLoop::wakeup says (event_loop.cpp:173): the   *)
(* write of stop() reaches the eventfd.                                    *)
WakeupIsWritten == \A w \in Workers : opc[w] = "wakeup" => fd[w] # "closed"
==============================================================================
