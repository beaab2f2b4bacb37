--------------------------- MODULE TcpClientProofs ---------------------------
(***************************************************************************)
(* Type correctness of TcpClient, and that descriptors, registrations,     *)
(* timer and connection are owned as DescriptorsOwned and OneWayForward    *)
(* say, and that the delays follow BackoffFollows, for any set of          *)
(* descriptors and any delays.                                             *)
(***************************************************************************)
EXTENDS TcpClient, FiniteSetTheorems, TLAPS

(* The descriptors of an attempt and of a connection, and who watches them. *)
Owned ==
  /\ open = Only(chan) \union Only(conn)
  /\ watched = Only(chan) \union (IF up THEN Only(conn) ELSE {})

(* A client waits, attempts or is connected, and its status_, timerId_ and *)
(* callbacks say so.                                                       *)
Coherent ==
  /\ timerId <=> timer > 0
  /\ timer > 0 => chan = NoFd /\ conn = NoFd /\ connector
  /\ chan # NoFd => conn = NoFd /\ connector
  /\ status = "connecting" <=> chan # NoFd
  /\ conn # NoFd => status = "connected"
  /\ up => conn # NoFd /\ connector
  /\ pc = "downCb" <=> conn # NoFd /\ ~up
  /\ pc = "upCb" => up

(* What started_ tells of a client that was not stopped. *)
Started ==
  connector =>
    /\ ~started => timer = 0 /\ chan = NoFd /\ conn = NoFd /\ status = "disconnected"
    /\ started /\ timer = 0 /\ chan = NoFd /\ conn = NoFd
         => status = "connected" /\ ~retry

(* start() is called once, and before every stop(). *)
StartsOnce ==
  /\ calls.start = 0 => ops = <<>> /\ ~started
  /\ \A i \in 1..Len(ops) : ops[i] = "start" => i = 1 /\ ~started

Core == Owned /\ Coherent /\ Started

IInv == TypeOK /\ (pc # "undefined" => Core /\ StartsOnce)

-----------------------------------------------------------------------------
(* What retry(), connect() and the destructor leave behind. *)

LEMMA RetryLeaves ==
  ASSUME TypeOK, NEW delay \in RetryDelay..MaxDelay, NEW kept \in SUBSET Fd,
         Retry(delay, kept)
  PROVE  /\ timer' \in 1..MaxDelay /\ timerId' = TRUE
         /\ currDelay' \in RetryDelay..MaxDelay
         /\ status' = "disconnected" /\ chan' = NoFd
         /\ open' = kept
         /\ fails' \in Nat
<1>1. timer' \in 1..MaxDelay
  BY DelayAssumption DEF Retry
<1>2. CappedDelay(delay * 2) \in RetryDelay..MaxDelay
  BY DelayAssumption DEF CappedDelay
<1>3. fails' \in Nat
  BY DEF Retry, CountFailure, TypeOK
<1> QED BY <1>1, <1>2, <1>3 DEF Retry

LEMMA ConnectLeaves ==
  ASSUME TypeOK, NEW delay \in RetryDelay..MaxDelay, NEW kept \in SUBSET Fd,
         NEW pending \in 0..MaxDelay, Connect(delay, kept, pending)
  PROVE  /\ answer' = "none"
         /\ currDelay' \in RetryDelay..MaxDelay
         /\ fails' \in Nat
         /\ \/ /\ timer' \in 1..MaxDelay /\ timerId' = TRUE
               /\ status' = "disconnected" /\ chan' = NoFd
               /\ open' = kept /\ watched' = watched
            \/ \E fd \in Fd :
                 /\ timer' = pending /\ timerId' = FALSE
                 /\ status' = "connecting" /\ chan' = fd
                 /\ open' = kept \union {fd} /\ watched' = watched \union {fd}
<1>1. CASE Retry(delay, kept) /\ UNCHANGED watched
  BY <1>1, RetryLeaves DEF Connect
<1>2. CASE ~(Retry(delay, kept) /\ UNCHANGED watched)
  BY <1>2 DEF Connect, TypeOK
<1> QED BY <1>1, <1>2

LEMMA ConnectTypes ==
  ASSUME TypeOK, NEW delay \in RetryDelay..MaxDelay, NEW kept \in SUBSET Fd,
         NEW pending \in 0..MaxDelay, Connect(delay, kept, pending)
  PROVE  /\ answer' \in Answer /\ currDelay' \in RetryDelay..MaxDelay /\ fails' \in Nat
         /\ timer' \in 0..MaxDelay /\ timerId' \in BOOLEAN
         /\ status' \in {"disconnected", "connecting", "connected"}
         /\ chan' \in Fd \union {NoFd} /\ open' \subseteq Fd /\ watched' \subseteq Fd
<1>1. answer' = "none" /\ currDelay' \in RetryDelay..MaxDelay /\ fails' \in Nat
  BY ConnectLeaves
<1>2. CASE /\ timer' \in 1..MaxDelay /\ timerId' = TRUE
           /\ status' = "disconnected" /\ chan' = NoFd
           /\ open' = kept /\ watched' = watched
  <2>1. timer' \in 0..MaxDelay
    BY <1>2, DelayAssumption
  <2> QED BY <1>1, <1>2, <2>1 DEF TypeOK, Answer
<1>3. CASE \E fd \in Fd :
             /\ timer' = pending /\ timerId' = FALSE
             /\ status' = "connecting" /\ chan' = fd
             /\ open' = kept \union {fd} /\ watched' = watched \union {fd}
  BY <1>1, <1>3 DEF TypeOK, Answer
<1> QED BY <1>2, <1>3, ConnectLeaves

LEMMA DestroyLeaves ==
  ASSUME TypeOK, DestroyConnector
  PROVE  /\ connector' = FALSE /\ timerId' = FALSE
         /\ timer' \in 0..MaxDelay /\ (timerId => timer' = 0) /\ (~timerId => timer' = timer)
         /\ status' \in {"disconnected", "connected"}
         /\ (status # "connecting" => status' = status)
         /\ chan' = NoFd /\ open' = open \ {chan} /\ open' \subseteq Fd
         /\ currDelay' = currDelay /\ answer' = answer /\ fails' = fails
BY DelayAssumption DEF DestroyConnector, TypeOK

-----------------------------------------------------------------------------
(* Type correctness. *)

LEMMA InitTypes == Init => TypeOK
<1> SUFFICES ASSUME Init PROVE TypeOK
  OBVIOUS
<1>1. ops \in Seq({"start", "stop"})
  BY DEF Init
<1>2. calls \in [start : 0..1, stop : 0..MaxStops]
  BY BoundsAssumption DEF Init
<1>3. RetryDelay \in RetryDelay..MaxDelay /\ 0 \in 0..MaxDelay
  BY DelayAssumption
<1> QED BY <1>1, <1>2, <1>3 DEF Init, TypeOK, Answer, UserCallback

LEMMA StartTypes ==
  ASSUME TypeOK, RunStart
  PROVE  /\ retry' = retry /\ connector' = connector /\ conn' = conn /\ up' = up /\ rev' = rev
         /\ started' \in BOOLEAN
         /\ status' \in {"disconnected", "connecting", "connected"}
         /\ chan' \in Fd \union {NoFd} /\ timerId' \in BOOLEAN
         /\ currDelay' \in RetryDelay..MaxDelay
         /\ timer' \in 0..MaxDelay /\ watched' \subseteq Fd /\ open' \subseteq Fd
         /\ pc' \in {pc, "undefined"}
         /\ answer' \in Answer /\ fails' \in Nat
<1>1. CASE connector
  <2>1. Connect(currDelay, open, timer) /\ UNCHANGED pc /\ started' = TRUE
    BY <1>1 DEF RunStart
  <2>2. currDelay \in RetryDelay..MaxDelay /\ open \in SUBSET Fd /\ timer \in 0..MaxDelay
    BY DEF TypeOK
  <2>3. /\ answer' \in Answer /\ currDelay' \in RetryDelay..MaxDelay /\ fails' \in Nat
        /\ timer' \in 0..MaxDelay /\ timerId' \in BOOLEAN
        /\ status' \in {"disconnected", "connecting", "connected"}
        /\ chan' \in Fd \union {NoFd} /\ open' \subseteq Fd /\ watched' \subseteq Fd
    BY <2>1, <2>2, ConnectTypes
  <2> QED BY <2>1, <2>3 DEF RunStart
<1>2. CASE ~connector
  BY <1>2 DEF RunStart, TypeOK, kernelVars
<1> QED BY <1>1, <1>2 DEF TypeOK

LEMMA StopTypes ==
  ASSUME TypeOK, RunStop
  PROVE  /\ retry' = retry /\ connector' \in BOOLEAN /\ conn' = conn /\ up' \in BOOLEAN
         /\ rev' = rev /\ started' \in BOOLEAN
         /\ status' \in {"disconnected", "connecting", "connected"}
         /\ chan' \in Fd \union {NoFd} /\ timerId' \in BOOLEAN
         /\ currDelay' \in RetryDelay..MaxDelay
         /\ timer' \in 0..MaxDelay /\ watched' \subseteq Fd /\ open' \subseteq Fd
         /\ pc' \in {pc, "downCb"}
         /\ answer' \in Answer /\ fails' \in Nat
BY DestroyLeaves DEF RunStop, TypeOK

LEMMA OpsTypes ==
  ASSUME NEW s \in Seq({"start", "stop"}), NEW op \in {"start", "stop"}
  PROVE  Append(s, op) \in Seq({"start", "stop"}) /\
         (s # <<>> => Tail(s) \in Seq({"start", "stop"}))
OBVIOUS

LEMMA CallsTypes ==
  ASSUME TypeOK
  PROVE  /\ [calls EXCEPT !.start = 1] \in [start : 0..1, stop : 0..MaxStops]
         /\ calls.stop < MaxStops =>
              [calls EXCEPT !.stop = @ + 1] \in [start : 0..1, stop : 0..MaxStops]
         /\ [start |-> 1, stop |-> MaxStops] \in [start : 0..1, stop : 0..MaxStops]
BY BoundsAssumption DEF TypeOK

LEMMA TypesKept == TypeOK /\ [Next]_vars => TypeOK'
<1> SUFFICES ASSUME TypeOK, [Next]_vars PROVE TypeOK'
  OBVIOUS
<1> USE DEF UserCallback
<1>1. CASE StartInLoop
  <2>1. ops' = ops /\ calls' \in [start : 0..1, stop : 0..MaxStops]
    BY <1>1, CallsTypes DEF StartInLoop
  <2> QED BY <1>1, <2>1, StartTypes DEF StartInLoop, TypeOK
<1>2. CASE StopInLoop
  <2>1. ops' = ops /\ calls' \in [start : 0..1, stop : 0..MaxStops]
    BY <1>2, CallsTypes DEF StopInLoop
  <2> QED BY <1>2, <2>1, StopTypes DEF StopInLoop, TypeOK
<1>3. CASE CallFromThread
  <2>1. calls' \in [start : 0..1, stop : 0..MaxStops]
    BY <1>3, CallsTypes DEF CallFromThread
  <2>2. ops' \in Seq({"start", "stop"})
    BY <1>3, OpsTypes DEF CallFromThread, TypeOK
  <2> QED BY <1>3, <2>1, <2>2 DEF CallFromThread, clientVars, connectorVars, kernelVars, TypeOK
<1>4. CASE RunOp
  <2>1. ops' \in Seq({"start", "stop"})
    BY <1>4, OpsTypes DEF RunOp, TypeOK
  <2>2. CASE RunStart
    BY <1>4, <2>1, <2>2, StartTypes DEF RunOp, TypeOK
  <2>3. CASE RunStop
    BY <1>4, <2>1, <2>3, StopTypes DEF RunOp, TypeOK
  <2> QED BY <1>4, <2>2, <2>3 DEF RunOp
<1>5. CASE Destroy
  <2>1. calls' \in [start : 0..1, stop : 0..MaxStops]
    BY <1>5, CallsTypes DEF Destroy
  <2> QED BY <1>5, <2>1, DestroyLeaves DEF Destroy, clientVars, TypeOK
<1>6. CASE TimerFires
  <2>1. CASE connector
    <3>1. Connect(currDelay, open, 0) /\ UNCHANGED pc
      BY <1>6, <2>1 DEF TimerFires
    <3>2. currDelay \in RetryDelay..MaxDelay /\ open \in SUBSET Fd /\ 0 \in 0..MaxDelay
      BY DelayAssumption DEF TypeOK
    <3>3. /\ answer' \in Answer /\ currDelay' \in RetryDelay..MaxDelay /\ fails' \in Nat
          /\ timer' \in 0..MaxDelay /\ timerId' \in BOOLEAN
          /\ status' \in {"disconnected", "connecting", "connected"}
          /\ chan' \in Fd \union {NoFd} /\ open' \subseteq Fd /\ watched' \subseteq Fd
      BY <3>1, <3>2, ConnectTypes
    <3> QED BY <1>6, <3>1, <3>3 DEF TimerFires, TypeOK, clientVars
  <2>2. CASE ~connector
    BY <1>6, <2>2 DEF TimerFires, TypeOK, clientVars, kernelVars
  <2> QED BY <2>1, <2>2 DEF TypeOK
<1>7. CASE HandleWriteRetries
  <2>1. currDelay \in RetryDelay..MaxDelay /\ (open \ {chan}) \in SUBSET Fd
    BY DEF TypeOK
  <2>2. /\ timer' \in 1..MaxDelay /\ timerId' = TRUE /\ currDelay' \in RetryDelay..MaxDelay
        /\ status' = "disconnected" /\ chan' = NoFd /\ open' = open \ {chan} /\ fails' \in Nat
    BY <1>7, <2>1, RetryLeaves DEF HandleWriteRetries
  <2>3. timer' \in 0..MaxDelay
    BY <2>2, DelayAssumption
  <2> QED BY <1>7, <2>2, <2>3 DEF HandleWriteRetries, TypeOK, clientVars
<1>8. CASE RemoveConnection
  <2>1. /\ answer' \in Answer /\ currDelay' \in RetryDelay..MaxDelay /\ fails' \in Nat
        /\ timer' \in 0..MaxDelay /\ timerId' \in BOOLEAN
        /\ status' \in {"disconnected", "connecting", "connected"}
        /\ chan' \in Fd \union {NoFd} /\ open' \subseteq Fd /\ watched' \subseteq Fd
    <3>1. RetryDelay \in RetryDelay..MaxDelay /\ (open \ {conn}) \in SUBSET Fd
            /\ timer \in 0..MaxDelay
      BY DelayAssumption DEF TypeOK
    <3>2. CASE Connect(RetryDelay, open \ {conn}, timer)
      BY <3>1, <3>2, ConnectTypes
    <3>3. CASE ~Connect(RetryDelay, open \ {conn}, timer)
      BY <1>8, <3>1, <3>3 DEF RemoveConnection, TypeOK
    <3> QED BY <3>2, <3>3
  <2> QED BY <1>8, <2>1 DEF RemoveConnection, TypeOK
<1>9. CASE Poll \/ HandleFreedChannel \/ HandleHup \/ HandleClose \/ CallbackReturns
  BY <1>9 DEF Poll, HandleFreedChannel, HandleHup, HandleClose, CallbackReturns,
       TypeOK, clientVars, connectorVars, kernelVars
<1>10. CASE HandleWriteConnects
  BY <1>10 DEF HandleWriteConnects, NewConnection, TypeOK, kernelVars
<1>11. CASE ConnectAnswered \/ ResetArrives
  BY <1>11 DEF ConnectAnswered, ResetArrives, TypeOK, Answer, clientVars, connectorVars, loopVars
<1>12. CASE UNCHANGED vars
  BY <1>12 DEF vars, TypeOK, clientVars, connectorVars, loopVars, kernelVars
<1> QED
  BY <1>1, <1>2, <1>3, <1>4, <1>5, <1>6, <1>7, <1>8, <1>9, <1>10, <1>11, <1>12
  DEF Next, LoopStep

(* Type correctness of every reachable state (tcp_client.cpp,              *)
(* tcp_connector.cpp): the delay never leaves its bounds.                  *)
THEOREM TypeCorrect == Spec => []TypeOK
BY InitTypes, TypesKept, PTL DEF Spec

-----------------------------------------------------------------------------
(* The inductive invariant. *)

LEMMA InitHolds == Init => IInv
<1> SUFFICES ASSUME Init PROVE IInv
  OBVIOUS
<1>1. TypeOK
  BY InitTypes
<1>2. Core
  BY FdAssumption DEF Init, Core, Owned, Coherent, Started, Only
<1>3. StartsOnce
  BY DEF Init, StartsOnce
<1> QED BY <1>1, <1>2, <1>3 DEF IInv

(* connect() of a client that is on no way to a connection. *)
LEMMA ConnectCore ==
  ASSUME TypeOK, NEW delay \in RetryDelay..MaxDelay, Connect(delay, {}, 0),
         watched = {}, connector' = TRUE, started' = TRUE, up' = FALSE, conn' = NoFd,
         pc' \in {"idle", "polled"}
  PROVE  Core'
<1>1. {} \in SUBSET Fd /\ 0 \in 0..MaxDelay
  BY DelayAssumption
<1>2. \/ /\ timer' \in 1..MaxDelay /\ timerId' = TRUE
         /\ status' = "disconnected" /\ chan' = NoFd
         /\ open' = {} /\ watched' = watched
      \/ \E fd \in Fd :
           /\ timer' = 0 /\ timerId' = FALSE
           /\ status' = "connecting" /\ chan' = fd
           /\ open' = {} \union {fd} /\ watched' = watched \union {fd}
  BY <1>1, ConnectLeaves
<1>3. CASE /\ timer' \in 1..MaxDelay /\ timerId' = TRUE
           /\ status' = "disconnected" /\ chan' = NoFd
           /\ open' = {} /\ watched' = watched
  BY <1>3 DEF Core, Owned, Coherent, Started, Only
<1>4. ASSUME NEW fd \in Fd,
             /\ timer' = 0 /\ timerId' = FALSE
             /\ status' = "connecting" /\ chan' = fd
             /\ open' = {} \union {fd} /\ watched' = watched \union {fd}
      PROVE  Core'
  BY <1>4, FdAssumption DEF Core, Owned, Coherent, Started, Only
<1> QED BY <1>2, <1>3, <1>4

LEMMA StopCore ==
  ASSUME TypeOK, Core, pc # "undefined", RunStop
  PROVE  Core'
<1>1. Owned'
  BY DestroyLeaves, FdAssumption DEF RunStop, Core, Owned, Coherent, Only
<1>2. Coherent'
  <2>1. /\ connector' = FALSE /\ timerId' = FALSE /\ chan' = NoFd /\ conn' = conn
        /\ up' = FALSE /\ pc' = IF up THEN "downCb" ELSE pc
    BY DestroyLeaves DEF RunStop
  <2>2. timer' = 0
    <3>1. (timerId => timer' = 0) /\ (~timerId => timer' = timer)
      BY DestroyLeaves DEF RunStop
    <3>2. ~timerId => timer = 0
      BY DelayAssumption DEF Core, Coherent, TypeOK
    <3> QED BY <3>1, <3>2
  <2>3. /\ status' \in {"disconnected", "connected"}
        /\ conn # NoFd => status' = "connected"
    BY DestroyLeaves DEF RunStop, Core, Coherent
  <2>4. /\ pc' = "downCb" <=> conn # NoFd
        /\ pc' # "upCb"
    BY <2>1 DEF Core, Coherent
  <2> QED BY <2>1, <2>2, <2>3, <2>4 DEF Coherent
<1>3. Started'
  BY DestroyLeaves DEF RunStop, Started
<1> QED BY <1>1, <1>2, <1>3 DEF Core

LEMMA StartCore ==
  ASSUME TypeOK, Core, pc \in {"idle", "polled"}, ~started, RunStart, pc' # "undefined"
  PROVE  Core'
<1>1. connector /\ started' = TRUE /\ Connect(currDelay, open, timer) /\ UNCHANGED pc
  BY DEF RunStart
<1>2. timer = 0 /\ chan = NoFd /\ conn = NoFd /\ ~up
  BY <1>1 DEF Core, Started, Coherent
<1>3. open = {} /\ watched = {}
  BY <1>2 DEF Core, Owned, Only
<1>4. Connect(currDelay, {}, 0)
  BY <1>1, <1>2, <1>3
<1>5. currDelay \in RetryDelay..MaxDelay
  BY DEF TypeOK
<1>6. connector' = TRUE /\ up' = FALSE /\ conn' = NoFd /\ pc' \in {"idle", "polled"}
  BY <1>1, <1>2 DEF RunStart, TypeOK
<1> QED BY <1>1, <1>3, <1>4, <1>5, <1>6, ConnectCore

LEMMA StartsOnceKept ==
  ASSUME TypeOK, StartsOnce, pc # "undefined", Next
  PROVE  StartsOnce'
<1> USE DEF StartsOnce
<1>1. CASE StartInLoop
  <2>1. ops = <<>> /\ ops' = ops
    BY <1>1 DEF StartInLoop
  <2> QED BY <1>1, <2>1 DEF StartInLoop, TypeOK
<1>2. CASE StopInLoop
  BY <1>2 DEF StopInLoop, RunStop, TypeOK
<1>3. CASE CallFromThread
  <2>1. ops \in Seq({"start", "stop"}) /\ started' = started
    BY <1>3 DEF CallFromThread, clientVars, TypeOK
  <2>2. CASE calls.start = 0
    <3>1. ops = <<>> /\ ~started
      BY <2>2
    <3>2. ops' = <<"start">> /\ calls'.start = 1
      BY <1>3, <2>2, <3>1 DEF CallFromThread, TypeOK
    <3> QED BY <2>1, <3>1, <3>2
  <2>3. CASE calls.start # 0
    <3>1. ops' = Append(ops, "stop") /\ calls'.start # 0
      BY <1>3, <2>3 DEF CallFromThread, TypeOK
    <3> QED BY <2>1, <3>1
  <2> QED BY <2>2, <2>3
<1>4. CASE RunOp
  <2>1. ops \in Seq({"start", "stop"}) /\ ops # <<>> /\ ops' = Tail(ops) /\ calls' = calls
    BY <1>4 DEF RunOp, TypeOK
  <2>2. \A i \in 1..Len(ops') : ops'[i] # "start"
    BY <2>1
  <2>3. calls.start # 0
    BY <2>1
  <2> QED BY <2>1, <2>2, <2>3
<1>5. CASE Destroy
  BY <1>5 DEF Destroy, clientVars
<1>6. CASE \/ TimerFires \/ Poll \/ HandleFreedChannel \/ HandleHup \/ HandleWriteRetries
           \/ HandleWriteConnects \/ RemoveConnection \/ CallbackReturns \/ HandleClose
           \/ ConnectAnswered \/ ResetArrives
  <2>1. UNCHANGED <<ops, calls, started>>
    BY <1>6 DEF TimerFires, Poll, HandleFreedChannel, HandleHup, HandleWriteRetries,
         HandleWriteConnects, RemoveConnection, CallbackReturns, HandleClose,
         ConnectAnswered, ResetArrives, clientVars, loopVars
  <2> QED BY <2>1
<1> QED BY <1>1, <1>2, <1>3, <1>4, <1>5, <1>6 DEF Next, LoopStep

LEMMA CoreKept ==
  ASSUME TypeOK, Core, StartsOnce, pc # "undefined", Next, pc' # "undefined"
  PROVE  Core'
<1>1. CASE StartInLoop
  BY <1>1, StartCore DEF StartInLoop, StartsOnce
<1>2. CASE StopInLoop
  BY <1>2, StopCore DEF StopInLoop
<1>3. CASE CallFromThread
  BY <1>3 DEF CallFromThread, clientVars, connectorVars, kernelVars,
       Core, Owned, Coherent, Started
<1>4. CASE RunOp
  <2>1. CASE Head(ops) = "start"
    <3>1. ops \in Seq({"start", "stop"}) /\ ops # <<>>
      BY <1>4 DEF RunOp, TypeOK
    <3>2. 1 \in 1..Len(ops) /\ ops[1] = Head(ops)
      BY <3>1
    <3>3. ~started
      BY <2>1, <3>2 DEF StartsOnce
    <3> QED BY <1>4, <2>1, <3>3, StartCore DEF RunOp
  <2>2. CASE Head(ops) # "start"
    BY <1>4, <2>2, StopCore DEF RunOp
  <2> QED BY <2>1, <2>2
<1>5. CASE Destroy
  <2>1. /\ connector' = FALSE /\ timerId' = FALSE /\ chan' = NoFd /\ pc' = "idle"
        /\ open' = open \ {chan} /\ watched' = watched \ {chan}
        /\ conn' = NoFd /\ conn = NoFd /\ up' = up /\ ~up
        /\ status' # "connecting"
    BY <1>5, DestroyLeaves DEF Destroy, clientVars, Core, Coherent
  <2>2. timer' = 0
    <3>1. (timerId => timer' = 0) /\ (~timerId => timer' = timer)
      BY <1>5, DestroyLeaves DEF Destroy
    <3>2. ~timerId => timer = 0
      BY DelayAssumption DEF Core, Coherent, TypeOK
    <3> QED BY <3>1, <3>2
  <2> QED BY <2>1, <2>2, FdAssumption DEF Core, Owned, Coherent, Started, Only
<1>6. CASE TimerFires
  <2>1. /\ connector /\ Connect(currDelay, open, 0) /\ pc = "idle" /\ pc' = pc
        /\ UNCHANGED <<connector, started, up, conn>>
    BY <1>6 DEF TimerFires, clientVars
  <2>2. chan = NoFd /\ conn = NoFd /\ ~up /\ started
    BY <1>6 DEF TimerFires, Core, Coherent, Started, TypeOK
  <2>3. open = {} /\ watched = {}
    BY <2>2 DEF Core, Owned, Only
  <2>4. currDelay \in RetryDelay..MaxDelay
    BY DEF TypeOK
  <2>5. Connect(currDelay, {}, 0)
    BY <2>1, <2>3
  <2>6. connector' = TRUE /\ started' = TRUE /\ up' = FALSE /\ conn' = NoFd
          /\ pc' \in {"idle", "polled"}
    BY <2>1, <2>2 DEF TypeOK
  <2> QED BY <2>3, <2>4, <2>5, <2>6, ConnectCore
<1>7. CASE HandleWriteRetries
  <2>1. chan # NoFd /\ conn = NoFd /\ ~up /\ connector /\ started
    BY <1>7 DEF HandleWriteRetries, Core, Coherent, Started
  <2>2. currDelay \in RetryDelay..MaxDelay /\ (open \ {chan}) \in SUBSET Fd
    BY DEF TypeOK
  <2>3. /\ timer' \in 1..MaxDelay /\ timerId' = TRUE
        /\ status' = "disconnected" /\ chan' = NoFd /\ open' = open \ {chan}
    BY <1>7, <2>2, RetryLeaves DEF HandleWriteRetries
  <2>4. open' = {} /\ watched' = {}
    BY <1>7, <2>1, <2>3 DEF HandleWriteRetries, Core, Owned, Only
  <2>5. UNCHANGED <<connector, started, up, conn>> /\ pc' = "idle"
    BY <1>7 DEF HandleWriteRetries, clientVars
  <2> QED BY <2>1, <2>3, <2>4, <2>5 DEF Core, Owned, Coherent, Started, Only
<1>8. CASE HandleWriteConnects
  <2>1. chan # NoFd /\ conn = NoFd /\ ~up /\ connector /\ started /\ ~timerId /\ timer = 0
    BY <1>8, DelayAssumption DEF HandleWriteConnects, Core, Coherent, Started, TypeOK
  <2>2. /\ status' = "connected" /\ chan' = NoFd /\ conn' = chan /\ up' = TRUE /\ pc' = "upCb"
        /\ UNCHANGED <<connector, started, retry, timer, timerId, watched, open>>
    BY <1>8 DEF HandleWriteConnects, NewConnection, kernelVars
  <2>3. open = {chan} /\ watched = {chan}
    BY <2>1 DEF Core, Owned, Only
  <2> QED BY <2>1, <2>2, <2>3 DEF Core, Owned, Coherent, Started, Only
<1>9. CASE RemoveConnection
  <2>1. conn # NoFd /\ ~up /\ chan = NoFd /\ timer = 0 /\ ~timerId /\ status = "connected"
    BY <1>9, DelayAssumption DEF RemoveConnection, Core, Coherent, TypeOK
  <2>2. open = {conn} /\ watched = {}
    BY <2>1 DEF Core, Owned, Only
  <2>3. conn' = NoFd /\ pc' = "idle" /\ UNCHANGED <<retry, started, up, connector>>
    BY <1>9 DEF RemoveConnection
  <2>4. CASE retry /\ started /\ connector
    <3>1. Connect(RetryDelay, {}, 0)
      BY <1>9, <2>1, <2>2, <2>4 DEF RemoveConnection
    <3>2. RetryDelay \in RetryDelay..MaxDelay
      BY DelayAssumption
    <3>3. connector' = TRUE /\ started' = TRUE /\ up' = FALSE
      BY <2>1, <2>3, <2>4 DEF TypeOK
    <3> QED BY <2>2, <2>3, <3>1, <3>2, <3>3, ConnectCore
  <2>5. CASE ~(retry /\ started /\ connector)
    <3>1. open' = {} /\ UNCHANGED <<status, chan, timerId, timer, watched>>
      BY <1>9, <2>2, <2>5 DEF RemoveConnection
    <3>2. ~(connector /\ ~started)
      BY <2>1 DEF Core, Started
    <3> QED BY <2>1, <2>2, <2>3, <2>5, <3>1, <3>2 DEF Core, Owned, Coherent, Started, Only
  <2> QED BY <2>4, <2>5
<1>10. CASE HandleClose
  <2>1. conn # NoFd /\ chan = NoFd /\ timer = 0
    BY <1>10, DelayAssumption DEF HandleClose, Core, Coherent, TypeOK
  <2> QED BY <1>10, <2>1 DEF HandleClose, connectorVars, kernelVars,
            Core, Owned, Coherent, Started, Only
<1>11. CASE Poll \/ HandleFreedChannel \/ HandleHup \/ CallbackReturns
  BY <1>11 DEF Poll, HandleFreedChannel, HandleHup, CallbackReturns,
       clientVars, connectorVars, kernelVars, Core, Owned, Coherent, Started
<1>12. CASE ConnectAnswered \/ ResetArrives
  BY <1>12 DEF ConnectAnswered, ResetArrives, clientVars, connectorVars, loopVars,
       Core, Owned, Coherent, Started
<1> QED
  BY <1>1, <1>2, <1>3, <1>4, <1>5, <1>6, <1>7, <1>8, <1>9, <1>10, <1>11, <1>12
  DEF Next, LoopStep

LEMMA UndefinedStays == pc = "undefined" /\ [Next]_vars => pc' = "undefined"
<1> SUFFICES ASSUME pc = "undefined", [Next]_vars PROVE pc' = "undefined"
  OBVIOUS
<1>1. CASE ConnectAnswered \/ ResetArrives
  BY <1>1 DEF ConnectAnswered, ResetArrives, loopVars
<1>2. CASE UNCHANGED vars
  BY <1>2 DEF vars, loopVars
<1> QED BY <1>1, <1>2 DEF Next, LoopStep, RunOp, TimerFires, Poll, HandleFreedChannel,
  HandleHup, HandleWriteRetries, HandleWriteConnects, RemoveConnection, CallbackReturns,
  HandleClose, StartInLoop, StopInLoop, CallFromThread, Destroy

LEMMA StepHolds == IInv /\ [Next]_vars => IInv'
<1> SUFFICES ASSUME IInv, [Next]_vars PROVE IInv'
  OBVIOUS
<1>1. TypeOK'
  BY TypesKept DEF IInv
<1>2. ASSUME pc' # "undefined" PROVE Core' /\ StartsOnce'
  <2>1. pc # "undefined"
    BY <1>2, UndefinedStays
  <2>2. CASE Next
    BY <1>2, <2>1, <2>2, CoreKept, StartsOnceKept DEF IInv
  <2>3. CASE UNCHANGED vars
    BY <2>1, <2>3 DEF IInv, vars, clientVars, connectorVars, loopVars, kernelVars,
         Core, Owned, Coherent, Started, StartsOnce
  <2> QED BY <2>2, <2>3
<1> QED BY <1>1, <1>2 DEF IInv

(* No descriptor leaks, and epoll watches those of living channels only,    *)
(* for any number of descriptors, delays and stops (tcp_connector.cpp:      *)
(* 27-136, tcp_client.cpp:37-81).                                           *)
THEOREM NothingLeaks == Spec => []DescriptorsOwned
<1>1. IInv => DescriptorsOwned
  BY DEF IInv, Core, Owned, DescriptorsOwned
<1> QED BY <1>1, InitHolds, StepHolds, PTL DEF Spec

(* A client waits, attempts or is connected, and a stopped one leaves no    *)
(* timer and no channel behind (tcp_connector.cpp:27-136,                   *)
(* tcp_client.cpp:25-81).                                                   *)
THEOREM OneWayAtATime == Spec => []OneWayForward
<1>1. IInv => OneWayForward
  <2> SUFFICES ASSUME TypeOK, Core, pc # "undefined" PROVE OneWayForward
    BY DEF IInv, OneWayForward
  <2>1. \A v, w \in Ways : v = w
    BY DEF Ways, Core, Coherent
  <2>2. ASSUME started, connector, Ways = {} PROVE status = "connected" /\ ~retry
    <3>1. "timer" \notin Ways /\ "attempt" \notin Ways /\ "connection" \notin Ways
      BY <2>2
    <3>2. ~(timer > 0) /\ chan = NoFd /\ conn = NoFd
      BY <3>1 DEF Ways
    <3>3. timer = 0
      BY <3>2, DelayAssumption DEF TypeOK
    <3> QED BY <2>2, <3>2, <3>3 DEF Core, Started
  <2>3. ~connector => Ways \subseteq {"connection"} /\ ~up
    BY DEF Ways, Core, Coherent
  <2>4. timerId <=> timer > 0
    BY DEF Core, Coherent
  <2> QED BY <2>1, <2>2, <2>3, <2>4 DEF OneWayForward
<1> QED BY <1>1, InitHolds, StepHolds, PTL DEF Spec

-----------------------------------------------------------------------------
(* Powers of 2, as numbers of subsets: the library counts those.           *)

LEMMA PowerIsNat == ASSUME NEW n \in Nat PROVE 2 ^ n \in Nat
<1>1. IsFiniteSet(1..n) /\ Cardinality(1..n) = n
  BY FS_Interval
<1>2. IsFiniteSet(SUBSET (1..n)) /\ Cardinality(SUBSET (1..n)) = 2 ^ n
  BY <1>1, FS_SUBSET
<1> QED BY <1>2, FS_CardinalityType

LEMMA PowerDoubles == ASSUME NEW n \in Nat PROVE 2 ^ (n + 1) = 2 * 2 ^ n
<1> DEFINE Old == SUBSET (1..n)
           New == {T \union {n + 1} : T \in Old}
           add == [T \in Old |-> T \union {n + 1}]
<1>1. IsFiniteSet(1..n) /\ Cardinality(1..n) = n
  BY FS_Interval
<1>2. IsFiniteSet(1..(n + 1)) /\ Cardinality(1..(n + 1)) = n + 1
  BY FS_Interval
<1>3. IsFiniteSet(Old) /\ Cardinality(Old) = 2 ^ n
  BY <1>1, FS_SUBSET
<1>4. Cardinality(SUBSET (1..(n + 1))) = 2 ^ (n + 1)
  BY <1>2, FS_SUBSET
<1>5. \A T \in Old : n + 1 \notin T
  OBVIOUS
<1>6. add \in Bijection(Old, New)
  <2>1. add \in [Old -> New] /\ \A U \in New : \E T \in Old : add[T] = U
    OBVIOUS
  <2>2. ASSUME NEW T \in Old, NEW U \in Old, add[T] = add[U] PROVE T = U
    <3>1. T \union {n + 1} = U \union {n + 1}
      BY <2>2
    <3> QED BY <1>5, <3>1
  <2> QED BY <2>1, <2>2 DEF Bijection, Injection, Surjection, IsInjective
<1>7. IsFiniteSet(New) /\ Cardinality(New) = Cardinality(Old)
  BY <1>3, <1>6, FS_Bijection DEF ExistsBijection
<1>8. Old \intersect New = {}
  BY <1>5
<1>9. SUBSET (1..(n + 1)) = Old \union New
  <2>1. 1..(n + 1) = (1..n) \union {n + 1}
    OBVIOUS
  <2>2. ASSUME NEW T \in SUBSET (1..(n + 1)) PROVE T \in Old \union New
    <3>1. CASE n + 1 \in T
      <4>1. T \ {n + 1} \in Old /\ T = (T \ {n + 1}) \union {n + 1}
        BY <2>1, <3>1
      <4> QED BY <4>1
    <3>2. CASE n + 1 \notin T
      BY <2>1, <3>2
    <3> QED BY <3>1, <3>2
  <2>3. ASSUME NEW T \in Old \union New PROVE T \in SUBSET (1..(n + 1))
    BY <2>1
  <2> QED BY <2>2, <2>3
<1> HIDE DEF Old, New, add
<1>10. Cardinality(Old \union New) = Cardinality(Old) + Cardinality(New) - Cardinality({})
  <2>1. /\ IsFiniteSet(Old) /\ IsFiniteSet(New)
    BY <1>3, <1>7
  <2>2. Cardinality(Old \union New)
          = Cardinality(Old) + Cardinality(New) - Cardinality(Old \intersect New)
    BY <2>1, FS_Union
  <2> QED BY <2>2, <1>8
<1>11. Cardinality({}) = 0
  BY FS_EmptySet
<1>12. Cardinality(Old) \in Nat
  BY <1>3, FS_CardinalityType
<1>13. Cardinality(Old \union New) = 2 * Cardinality(Old)
  BY <1>7, <1>10, <1>11, <1>12
<1>14. Cardinality(Old \union New) = 2 ^ (n + 1)
  BY <1>4, <1>9
<1> QED BY <1>3, <1>13, <1>14, Zenon

-----------------------------------------------------------------------------
(* The delays. *)

(* currDelay_ is that of the failure which would be the next one, as long  *)
(* as a client is about to connect, attempts to, or waits.                 *)
OnTheWay == connector /\ conn = NoFd /\ (started => timer > 0 \/ chan # NoFd)

InStep ==
  /\ OnTheWay => currDelay = Backoff(fails + 1)
  /\ conn # NoFd => fails = 0
  /\ timer > 0 => fails > 0 /\ timer = Backoff(fails)

LEMMA BackoffBegins == Backoff(1) = RetryDelay
<1>1. RetryDelay * 2 ^ (1 - 1) = RetryDelay
  BY DelayAssumption
<1> QED BY <1>1, DelayAssumption DEF Backoff, CappedDelay

LEMMA BackoffDoubles ==
  ASSUME NEW n \in Nat \ {0}
  PROVE  Backoff(n + 1) = CappedDelay(Backoff(n) * 2)
<1>1. PICK m \in Nat : n = m + 1
  <2>1. n - 1 \in Nat /\ n = (n - 1) + 1
    OBVIOUS
  <2> QED BY <2>1
<1>2. PICK p : p = 2 ^ m
  OBVIOUS
<1>3. p \in Nat
  BY <1>2, PowerIsNat
<1>4. n - 1 = m /\ (n + 1) - 1 = m + 1
  BY <1>1
<1>5. Backoff(n) = CappedDelay(RetryDelay * p)
  BY <1>2, <1>4, Zenon DEF Backoff
<1>6. 2 ^ (m + 1) = 2 * p
  BY <1>2, PowerDoubles
<1>7. Backoff(n + 1) = CappedDelay(RetryDelay * (2 * p))
  BY <1>4, <1>6, Zenon DEF Backoff
<1>8. PICK q \in Nat : q = RetryDelay * p /\ RetryDelay * (2 * p) = q * 2
  BY <1>3, DelayAssumption
<1>9. CappedDelay(q * 2) = CappedDelay(CappedDelay(q) * 2)
  BY DelayAssumption DEF CappedDelay
<1> QED BY <1>5, <1>7, <1>8, <1>9

(* A failure moves timer, delay and count by one step. *)
LEMMA RetryInStep ==
  ASSUME TypeOK, NEW kept, Retry(Backoff(fails + 1), kept)
  PROVE  /\ fails' \in Nat \ {0} /\ timer' = Backoff(fails')
         /\ currDelay' = Backoff(fails' + 1)
<1>1. fails \in Nat /\ fails + 1 \in Nat \ {0}
  BY DEF TypeOK
<1>2. timer' = Backoff(fails + 1) /\ currDelay' = CappedDelay(Backoff(fails + 1) * 2)
  BY DEF Retry
<1>3. currDelay' = Backoff((fails + 1) + 1)
  BY <1>1, <1>2, BackoffDoubles
<1>4. fails' = IF fails > 0 /\ Backoff(fails) = MaxDelay THEN fails ELSE fails + 1
  BY DEF Retry, CountFailure
<1>5. CASE fails > 0 /\ Backoff(fails) = MaxDelay
  <2>1. CappedDelay(MaxDelay * 2) = MaxDelay
    BY DelayAssumption DEF CappedDelay
  <2>2. fails \in Nat \ {0}
    BY <1>1, <1>5
  <2>3. Backoff(fails + 1) = MaxDelay
    BY <1>5, <2>1, <2>2, BackoffDoubles
  <2>4. currDelay' = MaxDelay
    BY <1>2, <2>1, <2>3
  <2> QED BY <1>2, <1>4, <1>5, <2>2, <2>3, <2>4
<1>6. CASE ~(fails > 0 /\ Backoff(fails) = MaxDelay)
  <2>1. fails' = fails + 1
    BY <1>4, <1>6
  <2> QED BY <1>1, <1>2, <1>3, <2>1
<1> QED BY <1>5, <1>6

LEMMA ConnectInStep ==
  ASSUME TypeOK, NEW kept, Connect(Backoff(fails + 1), kept, 0), conn' = NoFd
  PROVE  InStep'
<1>1. CASE Retry(Backoff(fails + 1), kept)
  BY <1>1, RetryInStep DEF InStep
<1>2. CASE ~Retry(Backoff(fails + 1), kept)
  BY <1>2 DEF Connect, InStep
<1> QED BY <1>1, <1>2

LEMMA StartInStep ==
  ASSUME TypeOK, Core, InStep, ~started, RunStart
  PROVE  InStep'
<1>1. CASE connector
  <2>1. timer = 0 /\ conn = NoFd
    BY <1>1 DEF Core, Started
  <2>2. currDelay = Backoff(fails + 1)
    BY <1>1, <2>1 DEF InStep, OnTheWay
  <2>3. Connect(currDelay, open, timer) /\ conn' = conn
    BY <1>1 DEF RunStart
  <2>4. Connect(Backoff(fails + 1), open, 0) /\ conn' = NoFd
    BY <2>1, <2>2, <2>3
  <2> QED BY <2>4, ConnectInStep
<1>2. CASE ~connector
  BY <1>2 DEF RunStart, InStep, OnTheWay, kernelVars
<1> QED BY <1>1, <1>2 DEF TypeOK

LEMMA DestroyInStep ==
  ASSUME InStep, DestroyConnector, conn' = conn
  PROVE  InStep'
BY DEF DestroyConnector, InStep, OnTheWay

LEMMA InStepKept ==
  ASSUME TypeOK, Core, StartsOnce, InStep, pc # "undefined", Next
  PROVE  InStep'
<1>1. CASE StartInLoop
  BY <1>1, StartInStep DEF StartInLoop, StartsOnce
<1>2. CASE StopInLoop
  BY <1>2, DestroyInStep DEF StopInLoop, RunStop
<1>3. CASE CallFromThread
  BY <1>3 DEF CallFromThread, clientVars, connectorVars, InStep, OnTheWay
<1>4. CASE RunOp
  <2>1. CASE Head(ops) = "start"
    <3>1. ops \in Seq({"start", "stop"}) /\ ops # <<>>
      BY <1>4 DEF RunOp, TypeOK
    <3>2. 1 \in 1..Len(ops) /\ ops[1] = Head(ops)
      BY <3>1
    <3>3. ~started
      BY <2>1, <3>2 DEF StartsOnce
    <3> QED BY <1>4, <2>1, <3>3, StartInStep DEF RunOp
  <2>2. CASE Head(ops) # "start"
    BY <1>4, <2>2, DestroyInStep DEF RunOp, RunStop
  <2> QED BY <2>1, <2>2
<1>5. CASE Destroy
  BY <1>5, DestroyInStep DEF Destroy, clientVars
<1>6. CASE TimerFires
  <2>1. CASE connector
    <3>1. conn = NoFd /\ timer > 0
      BY <1>6 DEF TimerFires, Core, Coherent
    <3>2. currDelay = Backoff(fails + 1)
      BY <2>1, <3>1 DEF InStep, OnTheWay
    <3>3. Connect(currDelay, open, 0) /\ conn' = conn
      BY <1>6, <2>1 DEF TimerFires, clientVars
    <3>4. Connect(Backoff(fails + 1), open, 0) /\ conn' = NoFd
      BY <3>1, <3>2, <3>3
    <3> QED BY <3>4, ConnectInStep
  <2>2. CASE ~connector
    BY <1>6, <2>2 DEF TimerFires, clientVars, InStep, OnTheWay
  <2> QED BY <2>1, <2>2
<1>7. CASE HandleWriteRetries
  <2>1. connector /\ conn = NoFd /\ chan # NoFd
    BY <1>7 DEF HandleWriteRetries, Core, Coherent
  <2>2. currDelay = Backoff(fails + 1)
    BY <2>1 DEF InStep, OnTheWay
  <2>3. Retry(Backoff(fails + 1), open \ {chan}) /\ conn' = NoFd
    BY <1>7, <2>1, <2>2 DEF HandleWriteRetries, clientVars
  <2> QED BY <2>3, RetryInStep DEF InStep
<1>8. CASE HandleWriteConnects
  <2>1. timer = 0 /\ timer' = timer /\ fails' = 0 /\ conn' = chan /\ conn' # NoFd
    BY <1>8, DelayAssumption DEF HandleWriteConnects, NewConnection, Core, Coherent, TypeOK
  <2> QED BY <2>1 DEF InStep, OnTheWay
<1>9. CASE RemoveConnection
  <2>1. conn # NoFd /\ chan = NoFd /\ timer = 0 /\ conn' = NoFd
    BY <1>9, DelayAssumption DEF RemoveConnection, Core, Coherent, TypeOK
  <2>2. fails = 0
    BY <2>1 DEF InStep
  <2>3. CASE retry /\ started /\ connector
    <3>1. Connect(RetryDelay, open \ {conn}, 0)
      BY <1>9, <2>1, <2>3 DEF RemoveConnection
    <3>2. Connect(Backoff(fails + 1), open \ {conn}, 0)
      BY <2>2, <3>1, BackoffBegins
    <3> QED BY <2>1, <3>2, ConnectInStep
  <2>4. CASE ~(retry /\ started /\ connector)
    <3>1. UNCHANGED <<started, connector, chan, timer, fails>>
      BY <1>9, <2>4 DEF RemoveConnection
    <3>2. ~(connector /\ ~started)
      BY <2>1 DEF Core, Started
    <3> QED BY <2>1, <3>1, <3>2 DEF InStep, OnTheWay
  <2> QED BY <2>3, <2>4
<1>10. CASE Poll \/ HandleFreedChannel \/ HandleHup \/ HandleClose \/ CallbackReturns
  <2>1. UNCHANGED <<connector, conn, started, timer, chan, currDelay, fails>>
    BY <1>10 DEF Poll, HandleFreedChannel, HandleHup, HandleClose, CallbackReturns,
         clientVars, connectorVars
  <2> QED BY <2>1 DEF InStep, OnTheWay
<1>11. CASE ConnectAnswered \/ ResetArrives
  <2>1. UNCHANGED <<connector, conn, started, timer, chan, currDelay, fails>>
    BY <1>11 DEF ConnectAnswered, ResetArrives, clientVars, connectorVars, loopVars
  <2> QED BY <2>1 DEF InStep, OnTheWay
<1> QED
  BY <1>1, <1>2, <1>3, <1>4, <1>5, <1>6, <1>7, <1>8, <1>9, <1>10, <1>11
  DEF Next, LoopStep

(* Once undefined, only the kernel moves. *)
LEMMA UndefinedMoves ==
  ASSUME pc = "undefined", Next
  PROVE  UNCHANGED <<connector, conn, started, timer, chan, currDelay, fails>>
<1>1. CASE ConnectAnswered \/ ResetArrives
  BY <1>1 DEF ConnectAnswered, ResetArrives, clientVars, connectorVars, loopVars
<1> QED BY <1>1 DEF Next, LoopStep, RunOp, TimerFires, Poll, HandleFreedChannel,
  HandleHup, HandleWriteRetries, HandleWriteConnects, RemoveConnection, CallbackReturns,
  HandleClose, StartInLoop, StopInLoop, CallFromThread, Destroy

(* The n-th failure in a row is followed by a wait of retryDelay_ doubled   *)
(* n - 1 times and capped, over reconnects and stops, for any two delays    *)
(* (tcp_connector.cpp:75-103).                                              *)
THEOREM DelaysBackOff == Spec => []BackoffFollows
<1>1. Init => InStep
  BY BackoffBegins DEF Init, InStep, OnTheWay
<1>2. IInv /\ InStep /\ [Next]_vars => InStep'
  <2> SUFFICES ASSUME IInv, InStep, [Next]_vars PROVE InStep'
    OBVIOUS
  <2>1. CASE pc # "undefined" /\ Next
    BY <2>1, InStepKept DEF IInv
  <2>2. CASE (pc = "undefined" /\ Next) \/ UNCHANGED vars
    <3>1. UNCHANGED <<connector, conn, started, timer, chan, currDelay, fails>>
      BY <2>2, UndefinedMoves DEF vars, clientVars, connectorVars, loopVars
    <3> QED BY <3>1 DEF InStep, OnTheWay
  <2> QED BY <2>1, <2>2
<1>3. InStep => BackoffFollows
  BY DEF InStep, BackoffFollows
<1> QED BY <1>1, <1>2, <1>3, InitHolds, StepHolds, PTL DEF Spec
==============================================================================
