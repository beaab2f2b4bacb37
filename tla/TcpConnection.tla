---------------------------- MODULE TcpConnection ----------------------------
(***************************************************************************)
(* net/tcp_connection.cpp with the part of event_channel.cpp that calls    *)
(* it: one connection from init() to its destruction, seen from its loop's *)
(* thread.  Other threads leave functors (ops).  The socket underneath is  *)
(* external: a send buffer of RoomMax bytes that the peer drains, incoming *)
(* data, the peer's FIN and a reset.                                       *)
(*                                                                         *)
(* Bytes that callers send are numbered in the order in which sendInLoop   *)
(* gets them, so wire and writeBuffer_ are sequences of numbers.           *)
(***************************************************************************)
EXTENDS Integers, Sequences

CONSTANTS
  MaxBytes,   \* bound: bytes sent in one behaviour
  MaxSend,    \* bound: bytes of one send
  MaxOps,     \* bound: functors that other threads post
  RoomMax     \* size of the socket's send buffer

ASSUME BoundsAssumption ==
  MaxBytes \in Nat /\ MaxSend \in Nat \ {0} /\ MaxOps \in Nat /\ RoomMax \in Nat \ {0}

VARIABLES
  status,      \* status_
  reading,     \* channel_: READ_EVENT is set
  writing,     \* channel_: WRITE_EVENT is set
  wbuf,        \* writeBuffer_
  acc,         \* bytes that sendInLoop was given so far
  pc,          \* where the loop's thread is with this connection
  rev,         \* what of revents_ is still to be dispatched
  ops,         \* functors of send, shutdown and forceClose not yet run
  posted,      \* how many there were so far
  alive,       \* the object exists
  ownerHolds,  \* the server's or client's shared_ptr
  userHolds,   \* a shared_ptr that the user's code keeps
  wire,        \* socket: bytes accepted by the kernel, in order
  inflight,    \* socket: of those, still in the send buffer
  finSent,     \* socket: shutdown(SHUT_WR) was called
  inq,         \* socket: there is data to read
  peerFin,     \* socket: the peer has shut down its side
  reset,       \* socket: the connection was reset
  ups, downs,  \* history: calls of connectionCallback_ by initInLoop, handleClose
  spoiled      \* history: what befell the connection after it was closed

connVars == <<status, reading, writing, wbuf, acc>>
ctlVars == <<pc, rev>>
opVars == <<ops, posted>>
holdVars == <<alive, ownerHolds, userHolds>>
outVars == <<wire, inflight, finSent>>
inVars == <<inq, peerFin, reset>>
historyVars == <<ups, downs, spoiled>>
vars == <<connVars, ctlVars, opVars, holdVars, outVars, inVars, historyVars>>

Open == {"connected", "disconnecting"}
Op == [call : {"send"}, len : 1..MaxSend]
        \union [call : {"shutdown", "forceClose"}]

TypeOK ==
  /\ status \in {"disconnected"} \union Open
  /\ reading \in BOOLEAN /\ writing \in BOOLEAN
  /\ wbuf \in Seq(1..MaxBytes) /\ wire \in Seq(1..MaxBytes)
  /\ acc \in 0..MaxBytes
  /\ pc \in {"idle", "polled", "dispatch", "callback"}
  /\ rev \subseteq {"close", "read", "write"}
  /\ ops \in Seq(Op) /\ posted \in 0..MaxOps
  /\ alive \in BOOLEAN /\ ownerHolds \in BOOLEAN /\ userHolds \in BOOLEAN
  /\ inflight \in 0..RoomMax
  /\ finSent \in BOOLEAN /\ inq \in BOOLEAN /\ peerFin \in BOOLEAN /\ reset \in BOOLEAN
  /\ ups \in 0..1 /\ downs \in Nat
  /\ spoiled \subseteq {"lateSend", "staleEvent", "dangling"}

(* The constructor: a connected socket, nothing registered yet. *)
Init ==
  /\ status = "disconnected" /\ reading = FALSE /\ writing = FALSE
  /\ wbuf = <<>> /\ acc = 0
  /\ pc = "idle" /\ rev = {} /\ ops = <<>> /\ posted = 0
  /\ alive = TRUE /\ ownerHolds = TRUE /\ userHolds \in BOOLEAN
  /\ wire = <<>> /\ inflight = 0 /\ finSent = FALSE
  /\ inq = FALSE /\ peerFin = FALSE /\ reset = FALSE
  /\ ups = 0 /\ downs = 0
  /\ spoiled = {}

-----------------------------------------------------------------------------
(* The socket. *)

(* What write() can do with len bytes: 0 stands for an error, which is     *)
(* EAGAIN with a full buffer and EPIPE after a shutdown or a reset.        *)
KernelWrites(len) ==
  IF reset \/ finSent \/ inflight = RoomMax
    THEN {0}
    ELSE 1..(IF len < RoomMax - inflight THEN len ELSE RoomMax - inflight)

PeerReads ==
  /\ inflight > 0
  /\ inflight' = inflight - 1
  /\ UNCHANGED <<connVars, ctlVars, opVars, holdVars, wire, finSent, inVars, historyVars>>

PeerSends ==
  /\ ~inq /\ ~peerFin /\ ~reset
  /\ inq' = TRUE
  /\ UNCHANGED <<connVars, ctlVars, opVars, holdVars, outVars, peerFin, reset, historyVars>>

PeerShutsDown ==
  /\ ~peerFin /\ ~reset
  /\ peerFin' = TRUE
  /\ UNCHANGED <<connVars, ctlVars, opVars, holdVars, outVars, inq, reset, historyVars>>

PeerResets ==
  /\ ~reset
  /\ reset' = TRUE
  /\ UNCHANGED <<connVars, ctlVars, opVars, holdVars, outVars, inq, peerFin, historyVars>>

-----------------------------------------------------------------------------
(* The three calls, on the loop's thread. *)

Bytes(len) == [i \in 1..len |-> acc + i]

(* Slip: the rest of a partial write overtakes what waits already. *)
SendInLoopInFront(len) ==
  /\ acc + len <= MaxBytes
  /\ acc' = acc + len
  /\ \E n \in KernelWrites(len) :
       /\ wire' = wire \o SubSeq(Bytes(len), 1, n)
       /\ inflight' = inflight + n
       /\ wbuf' = wbuf \o SubSeq(Bytes(len), n + 1, len)
       /\ writing' = (writing \/ n < len)
       /\ spoiled' = IF n < len /\ status = "disconnected"
                       THEN spoiled \union {"lateSend"} ELSE spoiled
  /\ UNCHANGED <<status, reading, finSent, ownerHolds, ups, downs>>

(* sendInLoop: straight to the socket if nothing waits, the rest to        *)
(* writeBuffer_.  It does not look at status_.                             *)
SendInLoop(len) ==
  /\ acc + len <= MaxBytes
  /\ acc' = acc + len
  /\ \E n \in IF ~writing /\ wbuf = <<>> THEN KernelWrites(len) ELSE {0} :
       /\ wire' = wire \o SubSeq(Bytes(len), 1, n)
       /\ inflight' = inflight + n
       /\ wbuf' = wbuf \o SubSeq(Bytes(len), n + 1, len)
       /\ writing' = (writing \/ n < len)
       /\ spoiled' = IF n < len /\ status = "disconnected"
                       THEN spoiled \union {"lateSend"} ELSE spoiled
  /\ UNCHANGED <<status, reading, finSent, ownerHolds, ups, downs>>

(* Slip: the FIN does not wait for writeBuffer_. *)
ShutdownInLoopAtOnce ==
  /\ IF status = "connected"
       THEN status' = "disconnecting" /\ finSent' = TRUE
       ELSE UNCHANGED <<status, finSent>>
  /\ UNCHANGED <<reading, writing, wbuf, acc, wire, inflight, ownerHolds, ups, downs, spoiled>>

ShutdownInLoop ==
  /\ IF status = "connected"
       THEN /\ status' = "disconnecting"
            /\ finSent' = (finSent \/ ~writing)
       ELSE UNCHANGED <<status, finSent>>
  /\ UNCHANGED <<reading, writing, wbuf, acc, wire, inflight, ownerHolds, ups, downs, spoiled>>

(* Slip: the channel keeps watching for EPOLLOUT. *)
HandleCloseKeepsWriting ==
  /\ status' = "disconnected"
  /\ reading' = FALSE /\ writing' = writing
  /\ downs' = downs + 1
  /\ ownerHolds' = FALSE

(* handleClose: unregister, tell the user, and closeCallback_ makes the    *)
(* owner let go.                                                           *)
HandleClose ==
  /\ status' = "disconnected"
  /\ reading' = FALSE /\ writing' = FALSE
  /\ downs' = downs + 1
  /\ ownerHolds' = FALSE

(* Slip: closing whatever the status is. *)
ForceCloseInLoopAlways ==
  /\ HandleClose
  /\ UNCHANGED <<wbuf, acc, outVars, ups, spoiled>>

(* forceCloseInLoop, which sets status_ before it calls handleClose. *)
ForceCloseInLoop ==
  /\ IF status \in Open
       THEN HandleClose
       ELSE UNCHANGED <<status, reading, writing, ownerHolds, downs>>
  /\ UNCHANGED <<wbuf, acc, outVars, ups, spoiled>>

(* send, shutdown and forceClose run at once on the loop's thread: inside   *)
(* this connection's callbacks, or in those of other channels, timers and  *)
(* functors, which may come after the poll that reported this channel.     *)
CallInLoop ==
  /\ alive /\ ups = 1
  /\ pc = "callback" \/ (pc \in {"idle", "polled"} /\ userHolds)
  /\ \/ \E len \in 1..MaxSend : SendInLoop(len)
     \/ ShutdownInLoop
     \/ ForceCloseInLoop
  /\ UNCHANGED <<ctlVars, opVars, alive, userHolds, inVars>>

(* On any other thread they become functors. *)
CallFromThread ==
  /\ alive /\ ups = 1 /\ userHolds /\ posted < MaxOps
  /\ \E op \in Op : ops' = Append(ops, op)
  /\ posted' = posted + 1
  /\ UNCHANGED <<connVars, ctlVars, holdVars, outVars, inVars, historyVars>>

(* The loop runs a functor.  A forceClose calls connectionCallback_.       *)
RunOp ==
  /\ pc = "idle" /\ ops # <<>>
  /\ CASE Head(ops).call = "send"       -> \/ SendInLoop(Head(ops).len)
                                           \/ /\ acc + Head(ops).len > MaxBytes
                                              /\ UNCHANGED <<connVars, outVars, ownerHolds,
                                                             historyVars>>
       [] Head(ops).call = "shutdown"   -> ShutdownInLoop
       [] Head(ops).call = "forceClose" -> ForceCloseInLoop
  /\ ops' = Tail(ops)
  /\ pc' = IF Head(ops).call = "forceClose" /\ status \in Open THEN "callback" ELSE pc
  /\ UNCHANGED <<rev, posted, alive, userHolds, inVars>>

-----------------------------------------------------------------------------
(* The loop's thread. *)

(* initInLoop, on behalf of the owner. *)
InitInLoop ==
  /\ pc = "idle" /\ ups = 0
  /\ status' = "connected"
  /\ reading' = TRUE
  /\ ups' = 1
  /\ pc' = "callback"
  /\ UNCHANGED <<writing, wbuf, acc, rev, opVars, holdVars, outVars, inVars, downs, spoiled>>

(* What epoll reports for the events the channel asks for, and which       *)
(* callbacks handlerEventSafe makes of it.                                 *)
In == reading /\ (inq \/ peerFin \/ reset)
Hup == reset \/ (peerFin /\ finSent)
Out == writing /\ (inflight < RoomMax \/ finSent \/ reset)

Dispatched ==
  {d \in {"close", "read", "write"} :
     \/ d = "close" /\ Hup /\ ~In
     \/ d = "read" /\ In
     \/ d = "write" /\ Out /\ ~Hup}

Poll ==
  /\ pc = "idle" /\ alive
  /\ reading \/ writing
  /\ Dispatched # {}
  /\ rev' = Dispatched
  /\ pc' = "polled"
  /\ UNCHANGED <<connVars, opVars, holdVars, outVars, inVars, historyVars>>

(* handlerEvent locks the weak pointer and goes on. *)
HandlerEvent ==
  /\ pc = "polled" /\ alive
  /\ pc' = "dispatch"
  /\ spoiled' = IF status = "disconnected" THEN spoiled \union {"staleEvent"} ELSE spoiled
  /\ UNCHANGED <<connVars, rev, opVars, holdVars, outVars, inVars, ups, downs>>

DispatchClose ==
  /\ pc = "dispatch" /\ "close" \in rev
  /\ HandleClose
  /\ rev' = rev \ {"close"}
  /\ pc' = "callback"
  /\ UNCHANGED <<wbuf, acc, opVars, alive, userHolds, outVars, inVars, ups, spoiled>>

(* Slip: the end of the peer's stream is taken for an empty read. *)
DispatchReadIgnoresEnd ==
  /\ pc = "dispatch" /\ "close" \notin rev /\ "read" \in rev
  /\ IF ~reset
       THEN inq' = FALSE /\ UNCHANGED <<status, reading, writing, ownerHolds, downs>>
       ELSE HandleClose /\ UNCHANGED inq
  /\ rev' = rev \ {"read"}
  /\ pc' = "callback"
  /\ UNCHANGED <<wbuf, acc, opVars, alive, userHolds, outVars, peerFin, reset, ups,
                 spoiled>>

(* handleRead: data goes to messageCallback_, everything else closes.      *)
DispatchRead ==
  /\ pc = "dispatch" /\ "close" \notin rev /\ "read" \in rev
  /\ IF inq /\ ~reset
       THEN inq' = FALSE /\ UNCHANGED <<status, reading, writing, ownerHolds, downs>>
       ELSE HandleClose /\ UNCHANGED inq
  /\ rev' = rev \ {"read"}
  /\ pc' = "callback"
  /\ UNCHANGED <<wbuf, acc, opVars, alive, userHolds, outVars, peerFin, reset, ups,
                 spoiled>>

(* Slip: the FIN that shutdown left to handleWrite is forgotten. *)
DispatchWriteNoFin ==
  /\ pc = "dispatch" /\ rev = {"write"}
  /\ IF writing
       THEN \E n \in KernelWrites(Len(wbuf)) :
              /\ wire' = wire \o SubSeq(wbuf, 1, n)
              /\ inflight' = inflight + n
              /\ wbuf' = SubSeq(wbuf, n + 1, Len(wbuf))
              /\ writing' = (wbuf' # <<>>)
       ELSE UNCHANGED <<wbuf, writing, wire, inflight>>
  /\ rev' = {}
  /\ UNCHANGED <<status, reading, acc, pc, opVars, holdVars, finSent, inVars, historyVars>>

(* Slip: EPOLLOUT goes off after the first write, finished or not. *)
DispatchWriteOnce ==
  /\ pc = "dispatch" /\ rev = {"write"}
  /\ IF writing
       THEN \E n \in KernelWrites(Len(wbuf)) :
              /\ wire' = wire \o SubSeq(wbuf, 1, n)
              /\ inflight' = inflight + n
              /\ wbuf' = SubSeq(wbuf, n + 1, Len(wbuf))
              /\ writing' = FALSE
              /\ finSent' = (finSent \/ (wbuf' = <<>> /\ status = "disconnecting"))
       ELSE UNCHANGED <<wbuf, writing, outVars>>
  /\ rev' = {}
  /\ UNCHANGED <<status, reading, acc, pc, opVars, holdVars, inVars, historyVars>>

(* handleWrite *)
DispatchWrite ==
  /\ pc = "dispatch" /\ rev = {"write"}
  /\ IF writing
       THEN \E n \in KernelWrites(Len(wbuf)) :
              /\ wire' = wire \o SubSeq(wbuf, 1, n)
              /\ inflight' = inflight + n
              /\ wbuf' = SubSeq(wbuf, n + 1, Len(wbuf))
              /\ writing' = (wbuf' # <<>>)
              /\ finSent' = (finSent \/ (wbuf' = <<>> /\ status = "disconnecting"))
       ELSE UNCHANGED <<wbuf, writing, outVars>>
  /\ rev' = {}
  /\ UNCHANGED <<status, reading, acc, pc, opVars, holdVars, inVars, historyVars>>

DispatchDone ==
  /\ pc = "dispatch" /\ rev = {}
  /\ pc' = "idle"
  /\ UNCHANGED <<connVars, rev, opVars, holdVars, outVars, inVars, historyVars>>

CallbackReturns ==
  /\ pc = "callback"
  /\ pc' = "dispatch"
  /\ UNCHANGED <<connVars, rev, opVars, holdVars, outVars, inVars, historyVars>>

(* The user's code lets go of its shared_ptr. *)
UserLetsGo ==
  /\ userHolds
  /\ userHolds' = FALSE
  /\ UNCHANGED <<connVars, ctlVars, opVars, alive, ownerHolds, outVars, inVars, historyVars>>

(* The last shared_ptr goes: the owner's, the user's or a functor's.  The  *)
(* list of ready channels holds none.                                      *)
Destroy ==
  /\ alive /\ ups = 1 /\ pc \in {"idle", "polled"}
  /\ ~ownerHolds /\ ~userHolds /\ ops = <<>>
  /\ alive' = FALSE
  /\ spoiled' = IF pc = "polled" THEN spoiled \union {"dangling"} ELSE spoiled
  /\ UNCHANGED <<connVars, ctlVars, opVars, ownerHolds, userHolds, outVars, inVars, ups, downs>>

LoopStep ==
  \/ InitInLoop \/ Poll \/ HandlerEvent \/ DispatchClose \/ DispatchRead
  \/ DispatchWrite \/ DispatchDone \/ CallbackReturns \/ RunOp

Next ==
  \/ LoopStep \/ CallInLoop \/ CallFromThread \/ UserLetsGo \/ Destroy
  \/ PeerReads \/ PeerSends \/ PeerShutsDown \/ PeerResets

Spec == Init /\ [][Next]_vars

(* The loop goes round and the peer reads what was sent to it. *)
FairSpec == Spec /\ WF_vars(LoopStep) /\ WF_vars(PeerReads)

-----------------------------------------------------------------------------
(* Properties. *)

(* No byte is lost, duplicated or overtaken, however the sends of callbacks *)
(* and threads mix with partial writes: what the kernel got followed by     *)
(* what waits is everything that was sent, in order                        *)
(* (tcp_connection.cpp:180-201, 241-266).                                   *)
StreamIntact == wire \o wbuf = [i \in 1..acc |-> i]

(* An open connection watches for EPOLLOUT exactly while bytes wait, so     *)
(* they cannot get stuck, and it always watches for input                  *)
(* (tcp_connection.cpp:62-65, 193-200, 250-260).                            *)
PendingIsWatched ==
  status \in Open => reading /\ (writing <=> wbuf # <<>>)

(* The connection implements TcpStream: bytes in order, a FIN behind the    *)
(* last of them, nothing behind the FIN, whatever mix of calls, partial    *)
(* writes and ends it goes through (tcp_connection.cpp:58-94, 180-201,      *)
(* 241-279).                                                               *)
Phase ==
  CASE ups = 0                               -> "new"
    [] ups = 1 /\ status = "connected"       -> "open"
    [] ups = 1 /\ status = "disconnecting"   -> "closing"
    [] ups = 1 /\ status = "disconnected"    -> "over"

Stream == INSTANCE TcpStream WITH phase <- Phase, sent <- acc, arrived <- wire, fin <- finSent
RefinesTcpStream == Stream!StreamSpec

(* The user hears of a connection's end once, after its beginning, and      *)
(* exactly when it is over; the owner lets go then and not before.  Exempt  *)
(* is a connection that a send was left in after its end, or whose stale    *)
(* event was dispatched (tcp_connection.cpp:58-68, 268-279).                *)
EndsOnce ==
  spoiled = {} =>
    /\ downs = IF ups = 1 /\ status = "disconnected" THEN 1 ELSE 0
    /\ ownerHolds <=> downs = 0

(* At the destruction the connection is disconnected and its channel is    *)
(* not registered, unless a send was left in it after its end              *)
(* (tcp_connection.cpp:39-42, event_channel.cpp:27-31).                     *)
DestroyedUnregistered ==
  ~alive /\ "lateSend" \notin spoiled =>
    status = "disconnected" /\ ~reading /\ ~writing

(* shutdown() ends in a FIN or in the connection's end                     *)
(* (tcp_connection.cpp:84-94, 241-266).                                     *)
ShutdownFinishes == (status = "disconnecting") ~> (finSent \/ status = "disconnected")

(* The end of the peer's stream ends the connection                        *)
(* (tcp_connection.cpp:216-238).                                            *)
PeerEndNoticed == (status \in Open /\ peerFin) ~> (status = "disconnected")
==============================================================================
