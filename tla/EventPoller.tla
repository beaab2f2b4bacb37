------------------------------ MODULE EventPoller ------------------------------
(***************************************************************************)
(* net/event_poller.cpp with net/event_channel: the channels of one loop,  *)
(* what epoll watches for them, and the batch of channels that the last    *)
(* poll reported.  A channel is the address of an EventChannel: the        *)
(* poller's channels_ and the loop's batch hold bare addresses, which      *)
(* outlive the object and can be those of a new one.  The modules of the   *)
(* components that own channels extend this one.                           *)
(***************************************************************************)
EXTENDS Naturals, FiniteSets

CONSTANTS
  Channel,     \* addresses of channels
  FirstSize    \* the size events_ begins with

ASSUME SizeAssumption == FirstSize \in Nat \ {0}

VARIABLES
  events,      \* EventChannel: events_
  revents,     \* EventChannel: revents_
  channels,    \* EventPoller: channels_
  size,        \* EventPoller: events_.size()
  epoll,       \* the kernel: what it watches the channel's descriptor for
  batch        \* EventLoop: channels_, without those that were handled

pollerVars == <<events, revents, channels, size, epoll, batch>>

(* READ_EVENT and WRITE_EVENT; epoll adds hang-ups by itself. *)
Event == {"in", "out"}
Reported == Event \union {"hup"}

(* A descriptor that is not in the epoll set; one that is may be watched   *)
(* for nothing but hang-ups.                                               *)
NotWatched == {"not watched"}
Watched(c) == epoll[c] # NotWatched

PollerTypeOK ==
  /\ events \in [Channel -> SUBSET Event]
  /\ revents \in [Channel -> SUBSET Reported]
  /\ channels \subseteq Channel /\ batch \subseteq Channel
  /\ size \in Nat
  /\ epoll \in [Channel -> {NotWatched} \union SUBSET Event]

PollerInit ==
  /\ events = [c \in Channel |-> {}] /\ revents = [c \in Channel |-> {}]
  /\ channels = {} /\ batch = {} /\ size = FirstSize
  /\ epoll = [c \in Channel |-> NotWatched]

(* The constructor of a channel for a new descriptor: the kernel forgot the *)
(* address when the last descriptor was closed, channels_ did not.          *)
NewChannel(c) ==
  /\ events' = [events EXCEPT ![c] = {}]
  /\ revents' = [revents EXCEPT ![c] = {}]
  /\ epoll' = [epoll EXCEPT ![c] = NotWatched]
  /\ UNCHANGED <<channels, size, batch>>

(* Slip: a channel without events stays in the epoll set. *)
UpdateChannelKeeps(c, evs) ==
  /\ events' = [events EXCEPT ![c] = evs]
  /\ channels' = channels \union {c}
  /\ epoll' = [epoll EXCEPT ![c] = IF c \in channels /\ ~Watched(c) THEN @ ELSE evs]
  /\ UNCHANGED <<revents, size, batch>>

(* updateChannel after events_ became evs.  EPOLL_CTL_MOD of a descriptor   *)
(* that is not in the epoll set fails, and is only logged.                  *)
UpdateChannel(c, evs) ==
  /\ events' = [events EXCEPT ![c] = evs]
  /\ \/ /\ c \in channels /\ evs = {}
        /\ channels' = channels \ {c}
        /\ epoll' = [epoll EXCEPT ![c] = NotWatched]
     \/ /\ c \in channels /\ evs # {}
        /\ epoll' = [epoll EXCEPT ![c] = IF Watched(c) THEN evs ELSE NotWatched]
        /\ UNCHANGED channels
     \/ /\ c \notin channels
        /\ channels' = channels \union {c}
        /\ epoll' = [epoll EXCEPT ![c] = evs]
  /\ UNCHANGED <<revents, size, batch>>

(* Slip: the vector stays as long as it is. *)
PollEventsNoGrowth(report) ==
  LET ready == {c \in Channel : report[c] # {}}
  IN  \E b \in SUBSET ready :
        /\ \/ b = ready /\ Cardinality(ready) <= size
           \/ Cardinality(b) = size
        /\ batch' = b
        /\ revents' = [c \in Channel |-> IF c \in b THEN report[c] ELSE revents[c]]
        /\ UNCHANGED <<events, channels, size, epoll>>

(* pollEvents: as many of the ready channels as fit into events_, which     *)
(* doubles when it was filled.  report is what the kernel has to say.       *)
PollEvents(report) ==
  LET ready == {c \in Channel : report[c] # {}}
  IN  \E b \in SUBSET ready :
        /\ \/ b = ready /\ Cardinality(ready) <= size
           \/ Cardinality(b) = size
        /\ batch' = b
        /\ size' = IF Cardinality(b) = size THEN 2 * size ELSE size
        /\ revents' = [c \in Channel |-> IF c \in b THEN report[c] ELSE revents[c]]
        /\ UNCHANGED <<events, channels, epoll>>

(* start() goes on to the next channel of the batch, which reads revents_  *)
(* for the last time before the next poll.                                 *)
TakeFromBatch(c) ==
  /\ batch' = batch \ {c}
  /\ revents' = [revents EXCEPT ![c] = {}]
  /\ UNCHANGED <<events, channels, size, epoll>>

(* handlerEventSafe: which callbacks the reported events lead to. *)
Callbacks(evs) ==
  {b \in {"close", "read", "write"} :
     \/ b = "close" /\ "hup" \in evs /\ "in" \notin evs
     \/ b = "read" /\ "in" \in evs
     \/ b = "write" /\ "out" \in evs /\ "hup" \notin evs}
================================================================================
