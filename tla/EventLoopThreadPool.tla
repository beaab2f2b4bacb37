------------------------- MODULE EventLoopThreadPool -------------------------
(***************************************************************************)
(* net/event_loop_thread_pool.cpp: EventLoopThreads that one owner starts  *)
(* and stops one after the other, and whose loops it hands out in turn.    *)
(* The threads themselves are EventLoopThread's.                           *)
(***************************************************************************)
EXTENDS EventLoopThread, Sequences

CONSTANTS
  N,          \* loopThreads_.size()
  MaxCalls    \* bound: calls of getNextLoop between a start and a stop

ASSUME PoolAssumption == N \in Nat \ {0} /\ Workers = 1..N /\ MaxCalls \in Nat

VARIABLES
  ppc,     \* where the owner is with the pool
  at,      \* the thread that start() or stop() has reached
  loops,   \* loops_
  index,   \* index_
  handed   \* history: how often each loop was handed out since the start

poolVars == <<ppc, at, loops, index, handed>>
allVars == <<elVars, poolVars>>

PoolTypeOK ==
  /\ ELTypeOK
  /\ ppc \in {"off", "starting", "on", "stopping"}
  /\ at \in 1..(N + 1)
  /\ loops \in {<<>>, [i \in 1..N |-> i]}
  /\ index \in 0..N
  /\ handed \in [Workers -> 0..MaxCalls]

PoolInit ==
  /\ ELInit
  /\ ppc = "off" /\ at = 1 /\ loops = <<>> /\ index = 0
  /\ handed = [w \in Workers |-> 0]

-----------------------------------------------------------------------------
(* start() asserts that loops_ is empty. *)
PoolStart ==
  /\ ppc = "off" /\ loops = <<>>
  /\ starts[1] < MaxStarts
  /\ ppc' = "starting" /\ at' = 1
  /\ UNCHANGED <<elVars, loops, index, handed>>

PoolStartThread ==
  /\ ppc = "starting" /\ at <= N
  /\ StartThread(at)
  /\ UNCHANGED poolVars

PoolThreadStarted ==
  /\ ppc = "starting" /\ at <= N
  /\ StartReturn(at)
  /\ at' = at + 1
  /\ UNCHANGED <<ppc, loops, index, handed>>

(* loops_ takes every getLoop() once all threads run; index_ stays. *)
PoolStartReturn ==
  /\ ppc = "starting" /\ at = N + 1
  /\ loops' = [i \in 1..N |-> i]
  /\ ppc' = "on"
  /\ handed' = [w \in Workers |-> 0]
  /\ UNCHANGED <<elVars, at, index>>

(* Slip: going back to the first loop does not count it. *)
GetNextLoopTwice ==
  /\ ppc = "on"
  /\ LET i == IF index >= Len(loops) THEN 0 ELSE index
     IN  /\ handed[loops[i + 1]] < MaxCalls
         /\ handed' = [handed EXCEPT ![loops[i + 1]] = @ + 1]
         /\ index' = IF index >= Len(loops) THEN 0 ELSE i + 1
  /\ UNCHANGED <<elVars, ppc, at, loops>>

GetNextLoop ==
  /\ ppc = "on"
  /\ LET i == IF index >= Len(loops) THEN 0 ELSE index
     IN  /\ handed[loops[i + 1]] < MaxCalls
         /\ handed' = [handed EXCEPT ![loops[i + 1]] = @ + 1]
         /\ index' = i + 1
  /\ UNCHANGED <<elVars, ppc, at, loops>>

(* stop() asserts that loops_ is not empty. *)
PoolStop ==
  /\ ppc = "on" /\ loops # <<>>
  /\ ppc' = "stopping" /\ at' = 1
  /\ UNCHANGED <<elVars, loops, index, handed>>

PoolStopThread ==
  /\ ppc = "stopping" /\ at <= N
  /\ StopLoad(at) \/ StopStore(at) \/ StopWakeup(at)
  /\ UNCHANGED poolVars

PoolThreadStopped ==
  /\ ppc = "stopping" /\ at <= N
  /\ StopJoin(at)
  /\ at' = at + 1
  /\ UNCHANGED <<ppc, loops, index, handed>>

(* Slip: the addresses of the destroyed loops stay in loops_. *)
PoolStopReturnKeeps ==
  /\ ppc = "stopping" /\ at = N + 1
  /\ ppc' = "off"
  /\ UNCHANGED <<elVars, at, loops, index, handed>>

(* loops_.clear() *)
PoolStopReturn ==
  /\ ppc = "stopping" /\ at = N + 1
  /\ ppc' = "off"
  /\ loops' = <<>>
  /\ UNCHANGED <<elVars, at, index, handed>>

-----------------------------------------------------------------------------
OwnerStep ==
  \/ PoolStartThread \/ PoolThreadStarted \/ PoolStartReturn
  \/ PoolStopThread \/ PoolThreadStopped \/ PoolStopReturn

(* Addresses of loops are to be had from getNextLoop and getLoops only. *)
WorkerStep(w) ==
  /\ ThreadStep(w) \/ PollOther(w) \/ RunQuit(w) \/ (Post(w) /\ ppc = "on")
  /\ UNCHANGED poolVars

PoolNext ==
  \/ OwnerStep \/ PoolStart \/ PoolStop \/ GetNextLoop
  \/ \E w \in Workers : WorkerStep(w)

PoolSpec == PoolInit /\ [][PoolNext]_allVars

(* The operating system runs every thread that can go on; the owner is     *)
(* inside start() or stop() until it returns.                              *)
PoolFairSpec ==
  /\ PoolSpec
  /\ WF_allVars(OwnerStep)
  /\ \A w \in Workers : WF_allVars(ThreadStep(w) /\ UNCHANGED poolVars)

-----------------------------------------------------------------------------
(* Properties. *)

(* loops_ names every thread's loop, all of them running, between a start  *)
(* and the next stop, and none after it; a loop that stopped itself is the *)
(* exception, whose address stays (event_loop_thread_pool.cpp:20-43).       *)
PoolLoopsRun ==
  /\ ppc \in {"off", "starting"} => loops = <<>>
  /\ ppc = "on" =>
       /\ Len(loops) = N
       /\ \A i \in 1..N : ~quit[loops[i]] => loop[loops[i]] /\ lstatus[loops[i]] = "running"

(* Round robin: since a start no loop was handed out two times more often  *)
(* than another, wherever index_ stood before                              *)
(* (event_loop_thread_pool.cpp:45-53).                                      *)
RoundRobin ==
  ppc = "on" => \A v, w \in Workers : handed[v] <= handed[w] + 1

(* start() and stop() return, one thread after the other, unless a loop    *)
(* had stopped itself (event_loop_thread_pool.cpp:20-43).                   *)
PoolCallsReturn ==
  /\ (ppc = "starting") ~> (ppc = "on")
  /\ (ppc = "stopping") ~> (ppc = "off" \/ \E w \in Workers : quit[w])
==============================================================================
