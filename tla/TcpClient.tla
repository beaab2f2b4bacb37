------------------------------ MODULE TcpClient ------------------------------
(***************************************************************************)
(* net/tcp_client.cpp with net/tcp_connector.cpp: a client that connects,  *)
(* retries with a growing delay, hands the descriptor to a connection and, *)
(* if setRetry(true) was called, connects again when that one ends.  The   *)
(* part of event_channel.cpp that decides which callback an event reaches  *)
(* is here too; TcpConnection is reduced to its beginning and its end, the *)
(* loop to the order in which it calls back.                               *)
(*                                                                         *)
(* The kernel is external: it hands out descriptors, refuses a connect()   *)
(* at once or answers it later.  Time is abstract: an armed timer fires    *)
(* some time later, and its delay is kept as a number.                     *)
(***************************************************************************)
EXTENDS Naturals, Sequences

CONSTANTS
  Fd,          \* the descriptors that the process may have open
  NoFd,        \* no channel, no connection
  RetryDelay,  \* retryDelay_
  MaxDelay,    \* maxDelay_
  MaxStops     \* bound: calls of stop()

ASSUME FdAssumption == NoFd \notin Fd
(* The constructor asserts the order of the two delays. *)
ASSUME DelayAssumption ==
  RetryDelay \in Nat \ {0} /\ MaxDelay \in Nat /\ RetryDelay <= MaxDelay
ASSUME BoundsAssumption == MaxStops \in Nat

VARIABLES
  retry,      \* retry_
  started,    \* started_
  connector,  \* connector_ is not null
  status,     \* TcpConnector: status_
  chan,       \* TcpConnector: the descriptor of channel_
  timerId,    \* TcpConnector: timerId_ is not 0
  currDelay,  \* TcpConnector: currDelay_
  conn,       \* TcpClient: the descriptor of connection_
  up,         \* the connection has begun and not ended
  timer,      \* the loop: delay of the connector's timer, 0 if there is none
  watched,    \* the loop: descriptors whose channel is registered
  pc,         \* the loop: what it is calling
  rev,        \* the loop: what it reported of the connector's channel
  ops,        \* the loop: functors of start() and stop()
  calls,      \* calls of start() and of stop() so far
  open,       \* the kernel: open descriptors
  answer,     \* the kernel: what became of the connect() that is under way
  fails       \* history: failed attempts since start() or the last success

clientVars == <<retry, started, conn, up>>
connectorVars == <<connector, status, chan, timerId, currDelay>>
loopVars == <<timer, watched, pc, rev, ops>>
kernelVars == <<open, answer>>
vars == <<clientVars, connectorVars, loopVars, calls, kernelVars, fails>>

Answer == {"none", "ok", "self", "failed"}
UserCallback == {"upCb", "downCb"}

TypeOK ==
  /\ retry \in BOOLEAN /\ started \in BOOLEAN /\ connector \in BOOLEAN
  /\ status \in {"disconnected", "connecting", "connected"}
  /\ chan \in Fd \union {NoFd} /\ conn \in Fd \union {NoFd} /\ up \in BOOLEAN
  /\ timerId \in BOOLEAN /\ currDelay \in RetryDelay..MaxDelay
  /\ timer \in 0..MaxDelay /\ watched \subseteq Fd /\ open \subseteq Fd
  /\ pc \in {"idle", "polled", "undefined"} \union UserCallback
  /\ rev \in {"none", "write", "hup"}
  /\ ops \in Seq({"start", "stop"})
  /\ calls \in [start : 0..1, stop : 0..MaxStops]
  /\ answer \in Answer /\ fails \in Nat

Init ==
  /\ retry \in BOOLEAN /\ started = FALSE /\ conn = NoFd /\ up = FALSE
  /\ connector = TRUE /\ status = "disconnected" /\ chan = NoFd
  /\ timerId = FALSE /\ currDelay = RetryDelay
  /\ timer = 0 /\ watched = {} /\ pc = "idle" /\ rev = "none" /\ ops = <<>>
  /\ calls = [start |-> 0, stop |-> 0]
  /\ open = {} /\ answer = "none" /\ fails = 0

-----------------------------------------------------------------------------
(* TcpConnector, on the loop's thread. *)

CappedDelay(d) == IF d > MaxDelay THEN MaxDelay ELSE d

(* The delay after the n-th failure in a row, n counted from 1. *)
Backoff(n) == CappedDelay(RetryDelay * 2 ^ (n - 1))

(* History: counting stops when the delay no longer grows. *)
CountFailure ==
  fails' = IF fails > 0 /\ Backoff(fails) = MaxDelay THEN fails ELSE fails + 1

(* retry(): the descriptor is closed, the timer armed, the delay doubled;  *)
(* kept are the descriptors that stay open.                                *)
Retry(delay, kept) ==
  /\ timer' = delay /\ timerId' = TRUE
  /\ currDelay' = CappedDelay(delay * 2)
  /\ status' = "disconnected" /\ chan' = NoFd
  /\ open' = kept
  /\ CountFailure

(* Slip: the channel is made but not enabled. *)
ConnectUnwatched(delay, kept, pending) ==
  /\ answer' = "none" /\ UNCHANGED watched
  /\ \/ Retry(delay, kept)
     \/ \E fd \in Fd \ open :
          /\ status' = "connecting" /\ chan' = fd
          /\ timer' = pending /\ timerId' = FALSE
          /\ currDelay' = delay
          /\ open' = kept \union {fd}
          /\ UNCHANGED fails

(* connect(): without a descriptor, or refused at once, it leads to        *)
(* retry(); else a channel waits for EPOLLOUT.  pending is the timer that  *)
(* the loop has at that time.                                              *)
Connect(delay, kept, pending) ==
  /\ answer' = "none"
  /\ \/ Retry(delay, kept) /\ UNCHANGED watched
     \/ \E fd \in Fd \ open :
          /\ status' = "connecting" /\ chan' = fd
          /\ timer' = pending /\ timerId' = FALSE
          /\ currDelay' = delay
          /\ open' = kept \union {fd}
          /\ watched' = watched \union {fd}
          /\ UNCHANGED fails

(* Slip: the destructor leaves its timer to the loop. *)
DestroyConnectorOnly ==
  /\ connector' = FALSE /\ timerId' = FALSE
  /\ status' = IF status = "connecting" THEN "disconnected" ELSE status
  /\ chan' = NoFd
  /\ open' = open \ {chan}
  /\ UNCHANGED <<timer, currDelay, answer, fails>>

(* Slip: the destructor unregisters the channel and forgets its descriptor. *)
DestroyConnectorLeaks ==
  /\ connector' = FALSE /\ timerId' = FALSE
  /\ timer' = IF timerId THEN 0 ELSE timer
  /\ status' = IF status = "connecting" THEN "disconnected" ELSE status
  /\ chan' = NoFd
  /\ UNCHANGED <<open, currDelay, answer, fails>>

(* ~TcpConnector: cancelTimer, and closeSocket of an attempt under way,    *)
(* whose channel the callers take out of watched.                          *)
DestroyConnector ==
  /\ connector' = FALSE /\ timerId' = FALSE
  /\ timer' = IF timerId THEN 0 ELSE timer
  /\ status' = IF status = "connecting" THEN "disconnected" ELSE status
  /\ chan' = NoFd
  /\ open' = open \ {chan}
  /\ UNCHANGED <<currDelay, answer, fails>>

-----------------------------------------------------------------------------
(* start(), stop() and the destructor.  Behind "undefined" is the use of a *)
(* null pointer or of an object that is gone.                              *)

RunStart ==
  /\ UNCHANGED <<retry, connector, conn, up, rev>>
  /\ IF connector
       THEN started' = TRUE /\ Connect(currDelay, open, timer) /\ UNCHANGED pc
       ELSE /\ pc' = "undefined"
            /\ UNCHANGED <<started, status, chan, timerId, currDelay, timer, watched,
                           kernelVars, fails>>

(* forceClose of an open connection unregisters it and calls the user;     *)
(* of one that is in its last callback it does nothing.                    *)
RunStop ==
  /\ started' = FALSE
  /\ DestroyConnector
  /\ up' = FALSE
  /\ watched' = watched \ {chan, conn}
  /\ pc' = IF up THEN "downCb" ELSE pc
  /\ UNCHANGED <<retry, conn, rev>>

(* runInLoop: at once on the loop's thread, that is in a callback of       *)
(* anybody, which may come after the poll that reported the connector's    *)
(* channel; a functor on another thread.                                   *)
StartInLoop ==
  /\ pc = "idle" /\ calls.start = 0
  /\ RunStart
  /\ calls' = [calls EXCEPT !.start = 1]
  /\ UNCHANGED ops

StopInLoop ==
  /\ pc # "undefined" /\ calls.start = 1 /\ calls.stop < MaxStops
  /\ RunStop
  /\ calls' = [calls EXCEPT !.stop = @ + 1]
  /\ UNCHANGED ops

CallFromThread ==
  /\ pc # "undefined"
  /\ \/ /\ calls.start = 0
        /\ calls' = [calls EXCEPT !.start = 1]
        /\ ops' = Append(ops, "start")
     \/ /\ calls.start = 1 /\ calls.stop < MaxStops
        /\ calls' = [calls EXCEPT !.stop = @ + 1]
        /\ ops' = Append(ops, "stop")
  /\ UNCHANGED <<clientVars, connectorVars, timer, watched, pc, rev, kernelVars, fails>>

RunOp ==
  /\ pc = "idle" /\ ops # <<>>
  /\ ops' = Tail(ops)
  /\ IF Head(ops) = "start" THEN RunStart ELSE RunStop
  /\ UNCHANGED calls

(* ~TcpClient, of a client without a connection that nobody calls again.   *)
Destroy ==
  /\ pc = "idle" /\ ops = <<>> /\ conn = NoFd /\ connector
  /\ calls' = [start |-> 1, stop |-> MaxStops]
  /\ DestroyConnector
  /\ watched' = watched \ {chan}
  /\ UNCHANGED <<clientVars, pc, rev, ops>>

-----------------------------------------------------------------------------
(* What the loop calls. *)

(* The timer of retry(): connect(). *)
TimerFires ==
  /\ pc = "idle" /\ timer > 0
  /\ IF connector
       THEN Connect(currDelay, open, 0) /\ UNCHANGED pc
       ELSE /\ pc' = "undefined"
            /\ UNCHANGED <<status, chan, timerId, currDelay, timer, watched, kernelVars, fails>>
  /\ UNCHANGED <<clientVars, connector, rev, ops, calls>>

(* epoll reports a finished attempt: EPOLLOUT, and after a failure EPOLLHUP *)
(* with it.                                                                *)
Poll ==
  /\ pc = "idle" /\ chan \in watched /\ answer # "none"
  /\ rev' = IF answer = "failed" THEN "hup" ELSE "write"
  /\ pc' = "polled"
  /\ UNCHANGED <<clientVars, connectorVars, timer, watched, ops, calls, kernelVars, fails>>

(* The list of ready channels does not keep them alive. *)
HandleFreedChannel ==
  /\ pc = "polled" /\ chan = NoFd
  /\ pc' = "undefined"
  /\ UNCHANGED <<clientVars, connectorVars, timer, watched, rev, ops, calls, kernelVars, fails>>

(* handlerEventSafe with EPOLLHUP and EPOLLERR: TcpConnector has set        *)
(* neither closeCallback_ nor errorCallback_, and EPOLLHUP keeps            *)
(* writeCallback_ from being called.                                       *)
HandleHup ==
  /\ pc = "polled" /\ chan # NoFd /\ rev = "hup"
  /\ pc' = "idle" /\ rev' = "none"
  /\ UNCHANGED <<clientVars, connectorVars, timer, watched, ops, calls, kernelVars, fails>>

(* handleWrite after a failure since the poll, or of a socket that is      *)
(* connected to itself.                                                    *)
HandleWriteRetries ==
  /\ pc = "polled" /\ chan # NoFd /\ rev = "write"
  /\ answer \in {"failed", "self"}
  /\ Retry(currDelay, open \ {chan})
  /\ watched' = watched \ {chan}
  /\ pc' = "idle" /\ rev' = "none"
  /\ UNCHANGED <<clientVars, connector, ops, calls, answer>>

(* The connection's own channel is registered for the descriptor, and its  *)
(* connectionCallback_ is called.                                          *)
NewConnection(fd) ==
  /\ conn' = fd /\ up' = TRUE
  /\ pc' = "upCb"

(* handleWrite, with what newConnectionCallback_ does. *)
HandleWriteConnects ==
  /\ pc = "polled" /\ chan # NoFd /\ rev = "write"
  /\ answer = "ok"
  /\ status' = "connected" /\ chan' = NoFd
  /\ NewConnection(chan)
  /\ fails' = 0
  /\ rev' = "none"
  /\ UNCHANGED <<retry, started, connector, timerId, currDelay, timer, watched, ops, calls,
                 kernelVars>>

(* The connection ends: the peer's doing, or a forceClose by the user.     *)
HandleClose ==
  /\ up /\ pc \in {"idle", "upCb"}
  /\ up' = FALSE
  /\ watched' = watched \ {conn}
  /\ pc' = "downCb"
  /\ UNCHANGED <<retry, started, conn, connectorVars, timer, rev, ops, calls, kernelVars, fails>>

(* Slip: reconnect() goes on with the delay of the last retry. *)
RemoveConnectionKeepsDelay ==
  /\ pc = "downCb"
  /\ conn' = NoFd
  /\ pc' = IF retry /\ started /\ ~connector THEN "undefined" ELSE "idle"
  /\ IF retry /\ started /\ connector
       THEN Connect(currDelay, open \ {conn}, timer)
       ELSE /\ open' = open \ {conn}
            /\ UNCHANGED <<status, chan, timerId, currDelay, timer, watched, answer, fails>>
  /\ UNCHANGED <<retry, started, up, connector, rev, ops, calls>>

(* closeCallback_ and removeConnection: the connection goes, last of all   *)
(* its descriptor, after reconnect() has asked for another one.            *)
RemoveConnection ==
  /\ pc = "downCb"
  /\ conn' = NoFd
  /\ pc' = IF retry /\ started /\ ~connector THEN "undefined" ELSE "idle"
  /\ IF retry /\ started /\ connector
       THEN Connect(RetryDelay, open \ {conn}, timer)
       ELSE /\ open' = open \ {conn}
            /\ UNCHANGED <<status, chan, timerId, currDelay, timer, watched, answer, fails>>
  /\ UNCHANGED <<retry, started, up, connector, rev, ops, calls>>

CallbackReturns ==
  /\ pc = "upCb"
  /\ pc' = "idle"
  /\ UNCHANGED <<clientVars, connectorVars, timer, watched, rev, ops, calls, kernelVars, fails>>

-----------------------------------------------------------------------------
(* The kernel. *)

ConnectAnswered ==
  /\ chan # NoFd /\ answer = "none"
  /\ answer' \in Answer \ {"none"}
  /\ UNCHANGED <<clientVars, connectorVars, loopVars, calls, open, fails>>

(* The peer resets the connection before the loop has seen it. *)
ResetArrives ==
  /\ chan # NoFd /\ answer = "ok"
  /\ answer' = "failed"
  /\ UNCHANGED <<clientVars, connectorVars, loopVars, calls, open, fails>>

-----------------------------------------------------------------------------
LoopStep ==
  \/ RunOp \/ TimerFires \/ Poll \/ HandleFreedChannel \/ HandleHup
  \/ HandleWriteRetries \/ HandleWriteConnects \/ RemoveConnection \/ CallbackReturns

Next ==
  \/ LoopStep \/ HandleClose
  \/ StartInLoop \/ StopInLoop \/ CallFromThread \/ Destroy
  \/ ConnectAnswered \/ ResetArrives

Spec == Init /\ [][Next]_vars

(* The loop goes round; a connect() is answered, by a timeout at the latest. *)
FairSpec == Spec /\ WF_vars(LoopStep) /\ WF_vars(ConnectAnswered)

-----------------------------------------------------------------------------
(* Properties. *)

Only(fd) == {fd} \ {NoFd}

(* Through retries, reconnects, stop() and the destructor every open       *)
(* descriptor is the attempt's or the connection's, and epoll watches no   *)
(* other: none leaks and none is closed while a channel is registered      *)
(* (tcp_connector.cpp:27-43, 86-136, tcp_client.cpp:37-81).                 *)
DescriptorsOwned ==
  pc # "undefined" =>
    /\ open = Only(chan) \union Only(conn)
    /\ watched = Only(chan) \union (IF up THEN Only(conn) ELSE {})

(* A started client is on exactly one way: it waits for its retry timer, an *)
(* attempt is under way, or it has its connection; it is on none only after *)
(* the end of a connection without setRetry(true).  A stopped client leaves *)
(* neither a timer nor a channel behind that could call a connector that is *)
(* gone (tcp_connector.cpp:27-136, tcp_client.cpp:25-81).                   *)
Ways ==
  {w \in {"timer", "attempt", "connection"} :
     \/ w = "timer" /\ timer > 0
     \/ w = "attempt" /\ chan # NoFd
     \/ w = "connection" /\ conn # NoFd}

OneWayForward ==
  pc # "undefined" =>
    /\ \A v, w \in Ways : v = w
    /\ started /\ connector /\ Ways = {} => status = "connected" /\ ~retry
    /\ ~connector => Ways \subseteq {"connection"} /\ ~up
    /\ timerId <=> timer > 0

(* The n-th failure in a row is followed by a wait of retryDelay_ doubled   *)
(* n - 1 times, at most maxDelay_, and a connection that was up starts the  *)
(* count anew (tcp_connector.cpp:75-103).                                   *)
BackoffFollows == timer > 0 => timer = Backoff(fails)

(* Every attempt that the kernel does not fail ends, in a connection or a   *)
(* retry.  The exemption is what the code does: an attempt that fails after *)
(* connect() returned is reported with EPOLLHUP, reaches no callback, and   *)
(* stays until stop() (tcp_connector.cpp:45-73, 118-136,                    *)
(* event_channel.cpp:57-96).                                                *)
AttemptEnds ==
  (status = "connecting") ~>
    (status # "connecting" \/ answer = "failed" \/ pc = "undefined")
==============================================================================
