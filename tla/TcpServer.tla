------------------------------- MODULE TcpServer -------------------------------
(***************************************************************************)
(* net/tcp_server.cpp with net/tcp_acceptor.cpp and the ends of            *)
(* net/tcp_connection.cpp, on the poller and the channels of one loop.     *)
(* loopPool_ is never set in this repository, so the loop of the server is *)
(* the loop of every connection, and a step of its thread is all that      *)
(* changes them.  Functors of other threads run between the channels of    *)
(* the loop like any other code of the program (UserCode).                 *)
(*                                                                         *)
(* An object is named by the address of its channel.  A connection exists  *)
(* as long as somebody refers to it; then its address is free again.  The  *)
(* frames are the calls the thread is in, the innermost one last.          *)
(***************************************************************************)
EXTENDS EventPoller, Sequences, SequencesExt

CONSTANTS
  NoChannel,   \* acceptor_ is null
  MaxPeers,    \* bound: peers that connect
  MaxSends     \* bound: sends that the socket does not take at once

ASSUME ChannelAssumption == Channel # {}   \* the acceptor has one
ASSUME NoChannelAssumption == NoChannel \notin Channel
ASSUME BoundsAssumption == MaxPeers \in Nat /\ MaxSends \in Nat

VARIABLES
  acceptor,     \* acceptor_: the address of its channel
  connections,  \* connections_
  status,       \* TcpConnection: status_
  userHolds,    \* shared_ptrs to connections that the program keeps
  frames,       \* the calls the loop's thread is in
  undefined,    \* an object that is gone was used
  backlog,      \* the kernel: peers that wait to be accepted
  peers,        \* how many there were so far
  input,        \* the kernel: what a read would find
  sends,        \* sends so far that left something in writeBuffer_
  misuse,       \* history: steps after which epoll and channels may disagree
  early         \* history: connections closed before they were in connections_

serverVars == <<acceptor, connections, userHolds>>
kernelVars == <<backlog, peers, input>>
historyVars == <<sends, misuse, early>>
vars == <<pollerVars, serverVars, status, frames, undefined, kernelVars, historyVars>>

(* conns are the connections that a call refers to; todo is what is left   *)
(* to do: callbacks of "handle", connections of "stop".                    *)
Frame ==
  [at : {"handle"}, conns : SUBSET Channel, todo : SUBSET {"close", "read", "write"}]
    \union [at : {"stop"}, conns : SUBSET Channel, todo : SUBSET Channel]
    \union [at : {"accept", "init", "up", "message", "down"}, conns : SUBSET Channel, todo : {{}}]

TypeOK ==
  /\ PollerTypeOK
  /\ acceptor \in Channel \union {NoChannel}
  /\ connections \subseteq Channel /\ userHolds \subseteq Channel
  /\ status \in [Channel -> {"connected", "disconnected"}]
  /\ frames \in Seq(Frame)
  /\ undefined \in BOOLEAN
  /\ backlog \in 0..MaxPeers /\ peers \in 0..MaxPeers /\ sends \in 0..MaxSends
  /\ input \in [Channel -> {"none", "data", "end", "reset"}]
  /\ misuse \subseteq {"lateSend", "closedTwice", "neverListened"}
  /\ early \subseteq Channel

(* The constructors of the server and of its acceptor. *)
Init ==
  /\ PollerInit
  /\ acceptor = CHOOSE c \in Channel : TRUE
  /\ connections = {} /\ userHolds = {} /\ frames = <<>>
  /\ status = [c \in Channel |-> "disconnected"]
  /\ undefined = FALSE
  /\ backlog = 0 /\ peers = 0 /\ sends = 0
  /\ input = [c \in Channel |-> "none"]
  /\ misuse = {} /\ early = {}

-----------------------------------------------------------------------------
(* Calls and references. *)

InLoop == [at |-> "loop", conns |-> {}, todo |-> {}]
Top == IF frames = <<>> THEN InLoop ELSE frames[Len(frames)]
In(at) == Top.at = at
The(f) == CHOOSE c \in f.conns : TRUE

Call(at, c) == Append(frames, [at |-> at, conns |-> {c}, todo |-> {}])
Returned == Front(frames)
WithTodo(todo) == [frames EXCEPT ![Len(frames)].todo = todo]

Referenced == connections \union userHolds \union UNION {f.conns : f \in ToSet(frames)}

-----------------------------------------------------------------------------
(* TcpConnection: its beginning, its end, and what is left of its handlers. *)

(* handleClose up to connectionCallback_; fs are the frames it is called in. *)
HandleClose(c, fs) ==
  /\ frames' = Append(fs, [at |-> "down", conns |-> {c}, todo |-> {}])
  /\ status' = [status EXCEPT ![c] = "disconnected"]
  /\ UpdateChannel(c, {})
  /\ misuse' = IF status[c] = "disconnected" THEN misuse \union {"closedTwice"} ELSE misuse
  /\ early' = IF c \in connections THEN early ELSE early \union {c}

(* Slip: the set is left alone while stop() works off its copy. *)
RemoveConnectionUnlessStopped ==
  /\ In("down")
  /\ frames' = Returned
  /\ connections' = IF acceptor = NoChannel THEN connections ELSE connections \ Top.conns
  /\ UNCHANGED <<pollerVars, acceptor, userHolds, status, undefined, kernelVars, sends, misuse,
                 early>>

(* handleClose goes on: closeCallback_, which is removeConnectionInLoop. *)
RemoveConnection ==
  /\ In("down")
  /\ frames' = Returned
  /\ connections' = connections \ Top.conns
  /\ UNCHANGED <<pollerVars, acceptor, userHolds, status, undefined, kernelVars, sends, misuse,
                 early>>

(* The callbacks that handlerEventSafe makes, in its order. *)
DispatchClose ==
  /\ In("handle") /\ "close" \in Top.todo
  /\ HandleClose(The(Top), WithTodo(Top.todo \ {"close"}))
  /\ UNCHANGED <<serverVars, undefined, kernelVars, sends>>

(* handleRead: data goes to messageCallback_, the rest ends the connection. *)
DispatchRead ==
  /\ In("handle") /\ "close" \notin Top.todo /\ "read" \in Top.todo
  /\ LET c == The(Top)
         rest == WithTodo(Top.todo \ {"read"})
     IN  \/ /\ input[c] = "data"
            /\ input' = [input EXCEPT ![c] = "none"]
            /\ frames' = Append(rest, [at |-> "message", conns |-> {c}, todo |-> {}])
            /\ UNCHANGED <<pollerVars, status, misuse, early>>
         \/ /\ input[c] # "data"
            /\ HandleClose(c, rest)
            /\ UNCHANGED input
  /\ UNCHANGED <<serverVars, undefined, backlog, peers, sends>>

(* handleWrite, which may have sent all that waited. *)
DispatchWrite ==
  /\ In("handle") /\ Top.todo = {"write"}
  /\ frames' = WithTodo({})
  /\ \/ UNCHANGED pollerVars
     \/ "out" \in events[The(Top)] /\ UpdateChannel(The(Top), events[The(Top)] \ {"out"})
  /\ UNCHANGED <<serverVars, status, undefined, kernelVars, historyVars>>

HandleReturns ==
  /\ In("handle") /\ Top.todo = {}
  /\ frames' = Returned
  /\ UNCHANGED <<pollerVars, serverVars, status, undefined, kernelVars, historyVars>>

MessageReturns ==
  /\ In("message")
  /\ frames' = Returned
  /\ UNCHANGED <<pollerVars, serverVars, status, undefined, kernelVars, historyVars>>

-----------------------------------------------------------------------------
(* The loop and the acceptor. *)

(* What the kernel reports of a descriptor, which may have room for output. *)
Report(c, room) ==
  IF ~Watched(c) \/ c \notin Referenced \union {acceptor} THEN {}
  ELSE LET readable == IF c = acceptor THEN backlog > 0 ELSE input[c] # "none"
       IN  {e \in Reported :
              \/ e = "in" /\ "in" \in epoll[c] /\ readable
              \/ e = "out" /\ "out" \in epoll[c] /\ (c \in room \/ input[c] = "reset")
              \/ e = "hup" /\ c # acceptor /\ input[c] = "reset"}

Poll ==
  /\ In("loop") /\ batch = {}
  /\ \E room \in SUBSET {c \in Referenced : Watched(c) /\ "out" \in epoll[c]} :
       /\ \E c \in Channel : Report(c, room) # {}
       /\ PollEvents([c \in Channel |-> Report(c, room)])
  /\ UNCHANGED <<serverVars, status, frames, undefined, kernelVars, historyVars>>

(* handlerEvent of a connection locks the weak pointer. *)
HandleConnection(c) ==
  /\ In("loop") /\ c \in batch /\ c \in Referenced
  /\ frames' = <<[at |-> "handle", conns |-> {c}, todo |-> Callbacks(revents[c])]>>
  /\ TakeFromBatch(c)
  /\ UNCHANGED <<serverVars, status, undefined, kernelVars, historyVars>>

(* A channel of the batch that was destroyed since the poll. *)
HandleDeadChannel(c) ==
  /\ In("loop") /\ c \in batch /\ c \notin Referenced \union {acceptor}
  /\ undefined' = TRUE
  /\ TakeFromBatch(c)
  /\ UNCHANGED <<serverVars, status, frames, kernelVars, historyVars>>

(* The acceptor's channel, which is bound to no object: its handleRead. *)
HandleAcceptor(c) ==
  /\ In("loop") /\ c \in batch /\ c = acceptor
  /\ frames' = <<[at |-> "accept", conns |-> {}, todo |-> {}]>>
  /\ TakeFromBatch(c)
  /\ UNCHANGED <<serverVars, status, undefined, kernelVars, historyVars>>

(* accept(), and newConnection up to the new TcpConnection. *)
Accept(c) ==
  /\ In("accept")
  /\ c \notin Referenced \union {acceptor}
  /\ frames' = <<[at |-> "init", conns |-> {c}, todo |-> {}]>>
  /\ backlog' = backlog - 1
  /\ NewChannel(c)
  /\ status' = [status EXCEPT ![c] = "disconnected"]
  /\ input' = [input EXCEPT ![c] = "none"]
  /\ early' = early \ {c}
  /\ UNCHANGED <<serverVars, undefined, peers, sends, misuse>>

(* The acceptor's listen(), where the socket can, and its destructor. *)
Listen == UpdateChannel(acceptor, {"in"})

DestroyAcceptor ==
  /\ UpdateChannel(acceptor, {})
  /\ misuse' = IF acceptor \in channels THEN misuse ELSE misuse \union {"neverListened"}

(* accept() fails, which is only logged: the process is out of descriptors. *)
AcceptFails ==
  /\ In("accept")
  /\ frames' = <<>>
  /\ UNCHANGED <<pollerVars, serverVars, status, undefined, kernelVars, historyVars>>

(* initInLoop up to connectionCallback_. *)
InitConnection ==
  /\ In("init")
  /\ frames' = <<[Top EXCEPT !.at = "up"]>>
  /\ status' = [status EXCEPT ![The(Top)] = "connected"]
  /\ UpdateChannel(The(Top), {"in"})
  /\ UNCHANGED <<serverVars, undefined, kernelVars, historyVars>>

(* newConnection goes on, and after it the acceptor's handlerEventSafe,    *)
(* whose channel stop() may have destroyed.                                *)
NewConnectionReturns ==
  /\ In("up")
  /\ frames' = Returned
  /\ connections' = connections \union Top.conns
  /\ undefined' = (acceptor = NoChannel)
  /\ UNCHANGED <<pollerVars, acceptor, userHolds, status, kernelVars, historyVars>>

-----------------------------------------------------------------------------
(* Code of the program on the loop's thread: in the callbacks that get a   *)
(* connection, or anywhere else between two channels.                      *)

InUserCode == Top.at \in {"loop", "up", "message", "down"}
AtHand == userHolds \union Top.conns

ForceClose(c) ==
  /\ InUserCode /\ c \in AtHand /\ status[c] = "connected"
  /\ HandleClose(c, frames)
  /\ UNCHANGED <<serverVars, undefined, kernelVars, sends>>

(* A send that the socket does not take at once. *)
Send(c) ==
  /\ InUserCode /\ c \in AtHand /\ sends < MaxSends /\ "out" \notin events[c]
  /\ sends' = sends + 1
  /\ UpdateChannel(c, events[c] \union {"out"})
  /\ misuse' = IF status[c] = "disconnected" THEN misuse \union {"lateSend"} ELSE misuse
  /\ UNCHANGED <<serverVars, status, frames, undefined, kernelVars, early>>

Keep(c) ==
  /\ InUserCode /\ c \in AtHand \ userHolds
  /\ userHolds' = userHolds \union {c}
  /\ UNCHANGED <<pollerVars, acceptor, connections, status, frames, undefined, kernelVars,
                 historyVars>>

LetGo(c) ==
  /\ InUserCode /\ c \in userHolds
  /\ userHolds' = userHolds \ {c}
  /\ UNCHANGED <<pollerVars, acceptor, connections, status, frames, undefined, kernelVars,
                 historyVars>>

(* startInLoop: listen() of the acceptor, if there still is one. *)
StartInLoop ==
  /\ InUserCode
  /\ \/ acceptor # NoChannel /\ (Listen \/ UNCHANGED pollerVars) /\ UNCHANGED undefined
     \/ acceptor = NoChannel /\ undefined' = TRUE /\ UNCHANGED pollerVars
  /\ UNCHANGED <<serverVars, status, frames, kernelVars, historyVars>>

(* stop(): the acceptor goes, disabled by its destructor, and a copy of the *)
(* set is worked off.                                                      *)
Stop ==
  /\ InUserCode /\ (acceptor # NoChannel \/ connections # {})
  /\ acceptor' = NoChannel
  /\ \/ acceptor = NoChannel /\ UNCHANGED <<pollerVars, misuse>>
     \/ acceptor # NoChannel /\ DestroyAcceptor
  /\ frames' = Append(frames, [at |-> "stop", conns |-> connections, todo |-> connections])
  /\ UNCHANGED <<connections, userHolds, status, undefined, kernelVars, sends, early>>

(* Slip: the first forceClose ends the loop over the connections. *)
StopNextOnly(c) ==
  /\ In("stop") /\ c \in Top.todo
  /\ \/ status[c] = "connected" /\ HandleClose(c, WithTodo({}))
     \/ /\ status[c] = "disconnected"
        /\ frames' = WithTodo(Top.todo \ {c})
        /\ UNCHANGED <<pollerVars, status, misuse, early>>
  /\ UNCHANGED <<serverVars, undefined, kernelVars, sends>>

StopNext(c) ==
  /\ In("stop") /\ c \in Top.todo
  /\ \/ status[c] = "connected" /\ HandleClose(c, WithTodo(Top.todo \ {c}))
     \/ /\ status[c] = "disconnected"
        /\ frames' = WithTodo(Top.todo \ {c})
        /\ UNCHANGED <<pollerVars, status, misuse, early>>
  /\ UNCHANGED <<serverVars, undefined, kernelVars, sends>>

StopReturns ==
  /\ In("stop") /\ Top.todo = {}
  /\ frames' = Returned
  /\ UNCHANGED <<pollerVars, serverVars, status, undefined, kernelVars, historyVars>>

UserCode ==
  \/ StartInLoop \/ Stop
  \/ \E c \in Channel : ForceClose(c) \/ Send(c) \/ Keep(c) \/ LetGo(c)

-----------------------------------------------------------------------------
(* The kernel. *)

(* No more peers than there are addresses for. *)
PeerConnects ==
  /\ acceptor # NoChannel /\ "in" \in events[acceptor] /\ peers < MaxPeers
  /\ Cardinality(Referenced) + backlog + 2 <= Cardinality(Channel)
  /\ peers' = peers + 1 /\ backlog' = backlog + 1
  /\ UNCHANGED <<pollerVars, serverVars, status, frames, undefined, input, historyVars>>

PeerActs(c) ==
  /\ c \in Referenced /\ Watched(c) /\ input[c] = "none"
  /\ \E i \in {"data", "end", "reset"} : input' = [input EXCEPT ![c] = i]
  /\ UNCHANGED <<pollerVars, serverVars, status, frames, undefined, backlog, peers, historyVars>>

-----------------------------------------------------------------------------
LoopStep ==
  \/ RemoveConnection \/ DispatchClose \/ DispatchRead \/ DispatchWrite \/ HandleReturns
  \/ MessageReturns \/ Poll \/ AcceptFails \/ InitConnection \/ NewConnectionReturns
  \/ StopReturns
  \/ \E c \in Channel :
       \/ HandleConnection(c) \/ HandleDeadChannel(c) \/ HandleAcceptor(c) \/ Accept(c)
       \/ StopNext(c)

Next ==
  /\ ~undefined
  /\ LoopStep \/ UserCode \/ PeerConnects \/ \E c \in Channel : PeerActs(c)

Spec == Init /\ [][Next]_vars

(* The loop goes round and callbacks return; the process does not stay out  *)
(* of descriptors.                                                         *)
FairSpec ==
  /\ Spec
  /\ WF_vars(~undefined /\ LoopStep)
  /\ SF_vars(~undefined /\ \E c \in Channel : Accept(c))

-----------------------------------------------------------------------------
(* Properties. *)

Live == Referenced \union ({acceptor} \ {NoChannel})

(* Over the births and deaths of channels at the same addresses, epoll      *)
(* watches every channel for the events it asks for, and channels_ has no   *)
(* address of a dead one.  Exempt is what follows one of three misuses that *)
(* the code does not stop: a send after a connection's end that leaves      *)
(* EPOLLOUT on, a second end of a connection, and an acceptor that goes     *)
(* without having listened (event_poller.cpp:80-101,                        *)
(* tcp_acceptor.cpp:36-41, tcp_connection.cpp:268-279).                      *)
RegistrationFollows ==
  ~undefined /\ misuse = {} =>
    /\ channels = {c \in Live : events[c] # {}}
    /\ \A c \in Live : epoll[c] = IF events[c] = {} THEN NotWatched ELSE events[c]

(* The server knows its connections: an open one is in connections_ or just *)
(* being accepted, and one that is over is on its way out, unless it was    *)
(* closed before it got in (tcp_server.cpp:61-104).                         *)
Within(ats) == UNION {f.conns : f \in {g \in ToSet(frames) : g.at \in ats}}

ServerKnows ==
  ~undefined =>
    /\ \A c \in Referenced : status[c] = "connected" => c \in connections \union Within({"up"})
    /\ \A c \in connections : status[c] = "disconnected" => c \in early \union Within({"down"})

(* Once stop() was called no peer is accepted any more, and as long as a    *)
(* connection is open some stop() has yet to come to it, whatever the       *)
(* callbacks that it makes do; so none is open when all of them returned.   *)
(* Exempt is the connection whose connection callback calls stop(): it is   *)
(* not in connections_ yet, and stop() passes it over.  newConnection then  *)
(* puts it there, open, and returns to the acceptor that is gone, where     *)
(* undefined ends the model (tcp_server.cpp:47-59, 80-81).                  *)
ToStop(fs) == UNION {f.todo : f \in {g \in ToSet(fs) : g.at = "stop"}}

StopClosesAccepted ==
  ~undefined /\ acceptor = NoChannel =>
    /\ \A f \in ToSet(frames) : f.at \notin {"accept", "init"}
    /\ \A c \in Referenced :
         status[c] = "connected" => c \in ToStop(frames) \union Within({"up"})

(* However many descriptors are ready at once, a peer that waits is         *)
(* accepted, unless the server stops (event_poller.cpp:41-72,               *)
(* event_loop.cpp:70-79, tcp_acceptor.cpp:74-90).                           *)
PeersAccepted == (backlog > 0) ~> (backlog = 0 \/ acceptor = NoChannel \/ undefined)

(* What the assertion in removeConnectionInLoop says (tcp_server.cpp:103). *)
EraseFinds == [][RemoveConnection => Top.conns \subseteq connections]_vars
================================================================================
