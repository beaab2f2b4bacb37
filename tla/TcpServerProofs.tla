---------------------------- MODULE TcpServerProofs ----------------------------
(***************************************************************************)
(* Proofs about TcpServer, for any set of addresses and any number of      *)
(* peers and calls inside of calls: the server knows its connections,      *)
(* stop() closes all that were accepted, and epoll's registrations follow  *)
(* the channels that are born and die at the same addresses.               *)
(***************************************************************************)
EXTENDS TcpServer, TLAPS

-----------------------------------------------------------------------------
(* The calls that the thread is in. *)

Conns(fs) == UNION {f.conns : f \in ToSet(fs)}
ConnsAt(fs, at) == UNION {f.conns : f \in {g \in ToSet(fs) : g.at = at}}
Ats(fs) == {f.at : f \in ToSet(fs)}

(* A call of the program's code or of stop() has its connections at hand,  *)
(* the others have one.                                                    *)
GoodFrame(f) ==
  /\ f \in Frame
  /\ f.at = "accept" => f.conns = {}
  /\ f.at \in {"handle", "init", "up", "message", "down"} => \E c \in Channel : f.conns = {c}
  /\ f.at = "stop" => f.todo \subseteq f.conns

(* The loop makes the outermost call, and calls nothing of the program      *)
(* while it accepts a connection.                                          *)
WellNested(fs) ==
  /\ fs \in Seq(Frame)
  /\ \A i \in DOMAIN fs :
       /\ GoodFrame(fs[i])
       /\ fs[i].at \in {"handle", "accept", "init", "up"} => i = 1
       /\ fs[i].at \in {"accept", "init"} => Len(fs) = 1

-----------------------------------------------------------------------------
(* The invariant. *)

(* The acceptor's channel has an address of its own and nothing to read but *)
(* peers; it is only polled while one waits.                               *)
AcceptorApart ==
  /\ acceptor \notin Referenced
  /\ acceptor \in Channel => input[acceptor] = "none"
  /\ backlog <= peers /\ (acceptor \in batch => backlog > 0)
  /\ "accept" \in Ats(frames) => acceptor # NoChannel /\ backlog > 0 /\ acceptor \notin batch
  /\ "init" \in Ats(frames) => acceptor # NoChannel

(* An open connection is in connections_ or being accepted, and asks for   *)
(* input.                                                                  *)
OpenIsKnown ==
  \A c \in Referenced : status[c] = "connected" =>
    c \in connections \union ConnsAt(frames, "up") /\ "in" \in events[c]

(* A connection in connections_ that is over is on its way out. *)
OverIsKnown ==
  \A c \in connections : status[c] = "disconnected" =>
    c \in early \union ConnsAt(frames, "down")

(* What newConnection and handleClose have in their hands. *)
InHand ==
  /\ \A c \in ConnsAt(frames, "init") :
       c \notin connections /\ status[c] = "disconnected" /\ events[c] = {}
  /\ \A c \in ConnsAt(frames, "up") :
       c \notin connections /\ (status[c] = "disconnected" => c \in early)
  /\ \A c \in ConnsAt(frames, "down") : status[c] = "disconnected"

(* Once the acceptor is gone, some stop() has yet to come to an open        *)
(* connection.                                                             *)
StopComes ==
  acceptor = NoChannel =>
    \A c \in Referenced : status[c] = "connected" =>
      c \in ConnsAt(frames, "up") \union ToStop(frames)

(* Without misuse a connection that is over asks for no events, so that    *)
(* its address can be freed.                                               *)
OverIsSilent == \A c \in Referenced : status[c] = "disconnected" => events[c] = {}

Registered ==
  /\ channels = {c \in Live : events[c] # {}}
  /\ \A c \in Live : epoll[c] = IF events[c] = {} THEN NotWatched ELSE events[c]

ServerInv ==
  /\ WellNested(frames) /\ AcceptorApart
  /\ OpenIsKnown /\ OverIsKnown /\ InHand /\ StopComes
  /\ misuse = {} => OverIsSilent /\ Registered

Inv == TypeOK /\ (~undefined => ServerInv)

-----------------------------------------------------------------------------
(* Sequences of calls. *)

LEMMA AppendParts ==
  ASSUME NEW fs \in Seq(Frame), NEW f \in Frame
  PROVE  /\ Append(fs, f) \in Seq(Frame) /\ Len(fs) \in Nat /\ Len(Append(fs, f)) = Len(fs) + 1
         /\ DOMAIN fs = 1..Len(fs) /\ DOMAIN Append(fs, f) = 1..(Len(fs) + 1)
         /\ \A i \in 1..Len(fs) : Append(fs, f)[i] = fs[i]
         /\ Append(fs, f)[Len(fs) + 1] = f
OBVIOUS

LEMMA FrontParts ==
  ASSUME NEW fs \in Seq(Frame), fs # <<>>
  PROVE  /\ Front(fs) \in Seq(Frame) /\ Len(fs) \in Nat \ {0} /\ Len(Front(fs)) = Len(fs) - 1
         /\ DOMAIN fs = 1..Len(fs) /\ DOMAIN Front(fs) = 1..(Len(fs) - 1)
         /\ \A i \in 1..(Len(fs) - 1) : Front(fs)[i] = fs[i]
<1>1. Len(fs) \in Nat \ {0} /\ DOMAIN fs = 1..Len(fs)
  OBVIOUS
<1>2. ASSUME NEW n \in 0..Len(fs)
      PROVE  /\ SubSeq(fs, 1, n) \in Seq(Frame) /\ Len(SubSeq(fs, 1, n)) = n
             /\ DOMAIN SubSeq(fs, 1, n) = 1..n
             /\ \A i \in 1..n : SubSeq(fs, 1, n)[i] = fs[i]
  OBVIOUS
<1>3. Len(fs) - 1 \in 0..Len(fs)
  BY <1>1
<1> QED BY <1>1, <1>2, <1>3 DEF Front

(* What the invariant asks of the calls after they were changed. *)
LEMMA Pushed ==
  ASSUME NEW fs, WellNested(fs), NEW f, GoodFrame(f), f.at \in {"message", "down", "stop"},
         "accept" \notin Ats(fs), "init" \notin Ats(fs)
  PROVE  /\ WellNested(Append(fs, f))
         /\ Conns(Append(fs, f)) = Conns(fs) \union f.conns
         /\ \A at : at # f.at => ConnsAt(Append(fs, f), at) = ConnsAt(fs, at)
         /\ ConnsAt(Append(fs, f), f.at) = ConnsAt(fs, f.at) \union f.conns
         /\ Ats(Append(fs, f)) = Ats(fs) \union {f.at}
         /\ f.at # "stop" => ToStop(Append(fs, f)) = ToStop(fs)
         /\ f.at = "stop" => ToStop(Append(fs, f)) = ToStop(fs) \union f.todo
<1>1. PICK r : r = Append(fs, f)
  OBVIOUS
<1>2. fs \in Seq(Frame) /\ f \in Frame
  BY DEF WellNested, GoodFrame
<1>3. /\ r \in Seq(Frame) /\ Len(fs) \in Nat /\ Len(r) = Len(fs) + 1
      /\ DOMAIN fs = 1..Len(fs) /\ DOMAIN r = 1..(Len(fs) + 1)
      /\ \A i \in 1..Len(fs) : r[i] = fs[i]
      /\ r[Len(fs) + 1] = f
  BY <1>1, <1>2, AppendParts
<1>4. \A i \in 1..(Len(fs) + 1) : i \in 1..Len(fs) \/ i = Len(fs) + 1
  BY <1>3
<1>5. 1..Len(fs) \subseteq 1..(Len(fs) + 1) /\ Len(fs) + 1 \in 1..(Len(fs) + 1)
  BY <1>3
<1>6. ToSet(r) = ToSet(fs) \union {f}
  BY <1>3, <1>4, <1>5 DEF ToSet
<1>7. WellNested(r)
  <2>1. \A i \in 1..Len(fs) : fs[i].at \notin {"accept", "init"}
    BY <1>3 DEF Ats, ToSet
  <2>2. ASSUME NEW i \in DOMAIN r
        PROVE  /\ GoodFrame(r[i])
               /\ r[i].at \in {"handle", "accept", "init", "up"} => i = 1
               /\ r[i].at \in {"accept", "init"} => Len(r) = 1
    <3>1. CASE i \in 1..Len(fs)
      BY <1>3, <2>1, <3>1 DEF WellNested
    <3>2. CASE i = Len(fs) + 1
      BY <1>3, <3>2
    <3> QED BY <1>3, <1>4, <3>1, <3>2
  <2> QED BY <1>3, <2>2 DEF WellNested
<1>8. Conns(r) = Conns(fs) \union f.conns /\ Ats(r) = Ats(fs) \union {f.at}
  BY <1>6 DEF Conns, Ats
<1>9. ASSUME NEW at
      PROVE  /\ at # f.at => ConnsAt(r, at) = ConnsAt(fs, at)
             /\ at = f.at => ConnsAt(r, at) = ConnsAt(fs, at) \union f.conns
  BY <1>6 DEF ConnsAt
<1>10. /\ f.at # "stop" => ToStop(r) = ToStop(fs)
       /\ f.at = "stop" => ToStop(r) = ToStop(fs) \union f.todo
  BY <1>6 DEF ToStop
<1> QED BY <1>1, <1>7, <1>8, <1>9, <1>10

LEMMA Popped ==
  ASSUME NEW fs, WellNested(fs), fs # <<>>, NEW g, g = fs[Len(fs)]
  PROVE  /\ WellNested(Front(fs))
         /\ Conns(Front(fs)) \subseteq Conns(fs)
         /\ \A at : at # g.at => ConnsAt(Front(fs), at) = ConnsAt(fs, at)
         /\ \A at : ConnsAt(Front(fs), at) \subseteq ConnsAt(fs, at)
         /\ ConnsAt(fs, g.at) \subseteq ConnsAt(Front(fs), g.at) \union g.conns
         /\ Ats(Front(fs)) \subseteq Ats(fs)
         /\ g.at # "stop" => ToStop(Front(fs)) = ToStop(fs)
         /\ g.at = "stop" => ToStop(fs) = ToStop(Front(fs)) \union g.todo
         /\ g.at \in {"handle", "accept", "init", "up"} => Front(fs) = <<>> /\ ToSet(fs) = {g}
<1>1. PICK r : r = Front(fs)
  OBVIOUS
<1>2. fs \in Seq(Frame)
  BY DEF WellNested
<1>3. /\ r \in Seq(Frame) /\ Len(fs) \in Nat \ {0} /\ Len(r) = Len(fs) - 1
      /\ DOMAIN fs = 1..Len(fs) /\ DOMAIN r = 1..(Len(fs) - 1)
      /\ \A i \in 1..(Len(fs) - 1) : r[i] = fs[i]
  BY <1>1, <1>2, FrontParts
<1>4. \A i \in 1..Len(fs) : i \in 1..(Len(fs) - 1) \/ i = Len(fs)
  BY <1>3
<1>5. 1..(Len(fs) - 1) \subseteq 1..Len(fs) /\ Len(fs) \in 1..Len(fs)
  BY <1>3
<1>6. ToSet(fs) = ToSet(r) \union {g}
  BY <1>3, <1>4, <1>5 DEF ToSet
<1>7. WellNested(r)
  <2>1. ASSUME NEW i \in DOMAIN r
        PROVE  /\ GoodFrame(r[i])
               /\ r[i].at \in {"handle", "accept", "init", "up"} => i = 1
               /\ r[i].at \notin {"accept", "init"}
    <3>1. i \in DOMAIN fs /\ r[i] = fs[i] /\ Len(fs) # 1
      BY <1>3, <1>5
    <3> QED BY <3>1 DEF WellNested
  <2> QED BY <1>3, <2>1 DEF WellNested
<1>8. Conns(r) \subseteq Conns(fs) /\ Ats(r) \subseteq Ats(fs)
  BY <1>6 DEF Conns, Ats
<1>9. ASSUME NEW at
      PROVE  /\ at # g.at => ConnsAt(r, at) = ConnsAt(fs, at)
             /\ ConnsAt(r, at) \subseteq ConnsAt(fs, at)
             /\ at = g.at => ConnsAt(fs, at) \subseteq ConnsAt(r, at) \union g.conns
  BY <1>6 DEF ConnsAt
<1>10. /\ g.at # "stop" => ToStop(r) = ToStop(fs)
       /\ g.at = "stop" => ToStop(fs) = ToStop(r) \union g.todo
  BY <1>6 DEF ToStop
<1>11. ASSUME g.at \in {"handle", "accept", "init", "up"} PROVE r = <<>> /\ ToSet(fs) = {g}
  <2>1. Len(fs) = 1
    BY <1>3, <1>5, <1>11 DEF WellNested
  <2>2. r = <<>>
    BY <1>3, <2>1
  <2>3. ToSet(r) = {}
    BY <2>2 DEF ToSet
  <2> QED BY <1>6, <2>2, <2>3
<1> QED BY <1>1, <1>7, <1>8, <1>9, <1>10, <1>11

(* Something that was left to do in the innermost call is done. *)
LEMMA TodoParts ==
  ASSUME NEW fs \in Seq(Frame), fs # <<>>, NEW f \in Frame, f.at = fs[Len(fs)].at,
         NEW todo, f = [fs[Len(fs)] EXCEPT !.todo = todo]
  PROVE  /\ [fs EXCEPT ![Len(fs)].todo = todo] = [fs EXCEPT ![Len(fs)] = f]
         /\ [fs EXCEPT ![Len(fs)] = f] \in Seq(Frame)
         /\ Len([fs EXCEPT ![Len(fs)] = f]) = Len(fs) /\ Len(fs) \in Nat \ {0}
         /\ DOMAIN fs = 1..Len(fs) /\ DOMAIN [fs EXCEPT ![Len(fs)] = f] = 1..Len(fs)
         /\ \A i \in 1..(Len(fs) - 1) : [fs EXCEPT ![Len(fs)] = f][i] = fs[i]
         /\ [fs EXCEPT ![Len(fs)] = f][Len(fs)] = f
OBVIOUS

Retells(r, fs, todo) ==
  /\ fs # <<>>
  /\ fs[Len(fs)].at \in {"handle", "stop"} /\ todo \subseteq fs[Len(fs)].todo
  /\ r = [fs EXCEPT ![Len(fs)].todo = todo]

LEMMA Retold ==
  ASSUME NEW fs, WellNested(fs), NEW g, g = fs[Len(fs)],
         NEW todo, NEW r, Retells(r, fs, todo)
  PROVE  /\ WellNested(r)
         /\ Conns(r) = Conns(fs) /\ Ats(r) = Ats(fs)
         /\ \A at : ConnsAt(r, at) = ConnsAt(fs, at)
         /\ g.at # "stop" => ToStop(r) = ToStop(fs)
         /\ g.at = "stop" => ToStop(fs) \ (g.todo \ todo) \subseteq ToStop(r)
<1>0. g.at \in {"handle", "stop"} /\ todo \subseteq g.todo /\ fs # <<>>
  BY DEF Retells
<1>1. fs \in Seq(Frame) /\ Len(fs) \in Nat \ {0} /\ Len(fs) \in DOMAIN fs
  BY <1>0 DEF WellNested
<1>2. GoodFrame(g) /\ g \in Frame
  BY <1>1 DEF WellNested, GoodFrame
<1>3. PICK f : f = [g EXCEPT !.todo = todo]
  OBVIOUS
<1>4. f \in Frame /\ f.at = g.at /\ f.conns = g.conns /\ f.todo = todo
  BY <1>0, <1>2, <1>3 DEF Frame
<1>5. GoodFrame(f)
  BY <1>0, <1>2, <1>4 DEF GoodFrame
<1>6. /\ r \in Seq(Frame) /\ Len(r) = Len(fs) /\ DOMAIN fs = 1..Len(fs) /\ DOMAIN r = 1..Len(fs)
      /\ \A i \in 1..(Len(fs) - 1) : r[i] = fs[i]
      /\ r[Len(fs)] = f
  BY <1>0, <1>1, <1>3, <1>4, TodoParts DEF Retells
<1>7. \A i \in 1..Len(fs) : i \in 1..(Len(fs) - 1) \/ i = Len(fs)
  BY <1>1
<1>8. 1..(Len(fs) - 1) \subseteq 1..Len(fs) /\ Len(fs) \in 1..Len(fs)
  BY <1>1
<1>9. PICK rest : rest = {fs[i] : i \in 1..(Len(fs) - 1)}
  OBVIOUS
<1>10. ToSet(fs) = rest \union {g}
  BY <1>6, <1>7, <1>8, <1>9 DEF ToSet
<1>11. ToSet(r) = rest \union {f}
  BY <1>6, <1>7, <1>8, <1>9 DEF ToSet
<1>12. WellNested(r)
  <2>1. ASSUME NEW i \in DOMAIN r
        PROVE  /\ GoodFrame(r[i])
               /\ r[i].at \in {"handle", "accept", "init", "up"} => i = 1
               /\ r[i].at \in {"accept", "init"} => Len(r) = 1
    <3>1. i \in DOMAIN fs /\ r[i].at = fs[i].at /\ (r[i] = fs[i] \/ r[i] = f)
      BY <1>4, <1>6, <1>7
    <3> QED BY <1>5, <1>6, <3>1 DEF WellNested
  <2> QED BY <1>6, <2>1 DEF WellNested
<1>13. Conns(r) = Conns(fs) /\ Ats(r) = Ats(fs)
  <2>1. /\ Conns(fs) = (UNION {x.conns : x \in rest}) \union g.conns
        /\ Ats(fs) = {x.at : x \in rest} \union {g.at}
    BY <1>10 DEF Conns, Ats
  <2>2. /\ Conns(r) = (UNION {x.conns : x \in rest}) \union f.conns
        /\ Ats(r) = {x.at : x \in rest} \union {f.at}
    BY <1>11 DEF Conns, Ats
  <2> QED BY <1>4, <2>1, <2>2
<1>14. ASSUME NEW at PROVE ConnsAt(r, at) = ConnsAt(fs, at)
  <2>1. ConnsAt(fs, at) = (UNION {x.conns : x \in {y \in rest : y.at = at}})
                            \union (IF g.at = at THEN g.conns ELSE {})
    BY <1>10 DEF ConnsAt
  <2>2. ConnsAt(r, at) = (UNION {x.conns : x \in {y \in rest : y.at = at}})
                           \union (IF f.at = at THEN f.conns ELSE {})
    BY <1>11 DEF ConnsAt
  <2> QED BY <1>4, <2>1, <2>2
<1>15. /\ g.at # "stop" => ToStop(r) = ToStop(fs)
       /\ g.at = "stop" => ToStop(fs) \ (g.todo \ todo) \subseteq ToStop(r)
  <2>1. ToStop(fs) = (UNION {x.todo : x \in {y \in rest : y.at = "stop"}})
                       \union (IF g.at = "stop" THEN g.todo ELSE {})
    BY <1>10 DEF ToStop
  <2>2. ToStop(r) = (UNION {x.todo : x \in {y \in rest : y.at = "stop"}})
                      \union (IF f.at = "stop" THEN f.todo ELSE {})
    BY <1>11 DEF ToStop
  <2> QED BY <1>4, <2>1, <2>2
<1> QED BY <1>12, <1>13, <1>14, <1>15

LEMMA Alone ==
  ASSUME NEW f, GoodFrame(f)
  PROVE  /\ WellNested(<<f>>)
         /\ Conns(<<f>>) = f.conns /\ Ats(<<f>>) = {f.at}
         /\ ConnsAt(<<f>>, f.at) = f.conns
         /\ \A at : at # f.at => ConnsAt(<<f>>, at) = {}
         /\ f.at # "stop" => ToStop(<<f>>) = {}
<1>1. <<f>> \in Seq(Frame) /\ Len(<<f>>) = 1 /\ DOMAIN <<f>> = {1} /\ <<f>>[1] = f
  BY DEF GoodFrame
<1>2. WellNested(<<f>>)
  BY <1>1 DEF WellNested
<1>3. ToSet(<<f>>) = {f}
  BY <1>1 DEF ToSet
<1> QED BY <1>2, <1>3 DEF Conns, Ats, ConnsAt, ToStop

LEMMA NoCalls ==
  /\ WellNested(<<>>) /\ Conns(<<>>) = {} /\ Ats(<<>>) = {} /\ ToStop(<<>>) = {}
  /\ \A at : ConnsAt(<<>>, at) = {}
<1>1. <<>> \in Seq(Frame) /\ DOMAIN <<>> = {}
  OBVIOUS
<1>2. ToSet(<<>>) = {}
  BY <1>1 DEF ToSet
<1> QED BY <1>1, <1>2 DEF WellNested, Conns, Ats, ConnsAt, ToStop

(* The innermost call. *)
LEMMA TopIs ==
  ASSUME WellNested(frames)
  PROVE  /\ In("loop") <=> frames = <<>>
         /\ frames # <<>> =>
              /\ Top = frames[Len(frames)] /\ GoodFrame(Top) /\ Top.at \in Ats(frames)
              /\ Top.conns \subseteq Conns(frames) /\ Top.conns \subseteq ConnsAt(frames, Top.at)
              /\ Top.at = "stop" => Top.todo \subseteq ToStop(frames)
         /\ frames = <<>> => Top = InLoop /\ Top.conns = {}
         /\ Top.conns \subseteq Channel
<1>1. CASE frames = <<>>
  BY <1>1 DEF Top, In, InLoop
<1>2. CASE frames # <<>>
  <2>1. frames \in Seq(Frame)
    BY DEF WellNested
  <2>2. Len(frames) \in DOMAIN frames
    BY <1>2, <2>1
  <2>3. Top = frames[Len(frames)]
    BY <1>2 DEF Top
  <2>4. GoodFrame(Top) /\ Top \in ToSet(frames)
    BY <2>2, <2>3 DEF WellNested, ToSet
  <2>5. Top.at # "loop" /\ Top.conns \subseteq Channel
    BY <2>4 DEF GoodFrame, Frame
  <2>6. /\ Top.at \in Ats(frames)
        /\ Top.conns \subseteq Conns(frames) /\ Top.conns \subseteq ConnsAt(frames, Top.at)
        /\ Top.at = "stop" => Top.todo \subseteq ToStop(frames)
    BY <2>4 DEF Ats, Conns, ConnsAt, ToStop
  <2> QED BY <1>2, <2>3, <2>4, <2>5, <2>6 DEF In
<1> QED BY <1>1, <1>2

LEMMA TheOne ==
  ASSUME NEW f, NEW c, f.conns = {c}
  PROVE  The(f) = c
BY DEF The

LEMMA ConnsAtAll == \A fs, at : ConnsAt(fs, at) \subseteq Conns(fs)
BY DEF ConnsAt, Conns

LEMMA ReferencedIs ==
  /\ Referenced = connections \union userHolds \union Conns(frames)
  /\ Referenced' = connections' \union userHolds' \union Conns(frames')
BY DEF Referenced, Conns

LEMMA WithinIs == \A at : Within({at}) = ConnsAt(frames, at)
BY DEF Within, ConnsAt

LEMMA ReferencedTypes ==
  ASSUME TypeOK
  PROVE  Referenced \subseteq Channel /\ Live \subseteq Channel
<1>1. Conns(frames) \subseteq Channel
  <2>1. ToSet(frames) \subseteq Frame
    BY DEF TypeOK, ToSet
  <2>2. \A f \in Frame : f.conns \subseteq Channel
    BY DEF Frame
  <2> QED BY <2>1, <2>2 DEF Conns
<1> QED BY <1>1, ReferencedIs DEF TypeOK, Live

-----------------------------------------------------------------------------
(* Registrations. *)

LEMMA UpdateTypes ==
  ASSUME PollerTypeOK, NEW c \in Channel, NEW evs \in SUBSET Event, UpdateChannel(c, evs)
  PROVE  /\ PollerTypeOK'
         /\ events' = [events EXCEPT ![c] = evs] /\ events'[c] = evs
         /\ \A x \in Channel : x # c => events'[x] = events[x]
         /\ UNCHANGED <<revents, size, batch>>
<1>1. UNCHANGED <<revents, size, batch>> /\ events' = [events EXCEPT ![c] = evs]
  BY DEF UpdateChannel
<1>2. events' \in [Channel -> SUBSET Event] /\ channels' \subseteq Channel
  BY DEF UpdateChannel, PollerTypeOK
<1>3. epoll' \in [Channel -> {NotWatched} \union SUBSET Event]
  BY DEF UpdateChannel, PollerTypeOK
<1>4. events'[c] = evs /\ \A x \in Channel : x # c => events'[x] = events[x]
  BY <1>1 DEF PollerTypeOK
<1> QED BY <1>1, <1>2, <1>3, <1>4 DEF PollerTypeOK

(* updateChannel keeps epoll up to date, if a channel that goes was there. *)
LEMMA UpdateRegisters ==
  ASSUME PollerTypeOK, Live \subseteq Channel, Registered, NEW c \in Live,
         NEW evs \in SUBSET Event, UpdateChannel(c, evs), evs = {} => events[c] # {}
  PROVE  /\ channels' = {x \in Live : events'[x] # {}}
         /\ \A x \in Live : epoll'[x] = IF events'[x] = {} THEN NotWatched ELSE events'[x]
<1>1. c \in Channel
  OBVIOUS
<1>2. /\ events'[c] = evs
      /\ \A x \in Live : x # c => events'[x] = events[x]
  BY <1>1, UpdateTypes
<1>3. c \in channels <=> events[c] # {}
  BY DEF Registered
<1>4. c \in channels => Watched(c)
  <2>1. events[c] \in SUBSET Event
    BY <1>1 DEF PollerTypeOK
  <2>2. "not watched" \notin events[c]
    BY <2>1 DEF Event
  <2> QED BY <1>3, <2>2 DEF Registered, Watched, NotWatched
<1>5. channels' = IF evs = {} THEN channels \ {c} ELSE channels \union {c}
  BY <1>3 DEF UpdateChannel
<1>6. epoll' = [epoll EXCEPT ![c] = IF evs = {} THEN NotWatched ELSE evs]
  BY <1>3, <1>4 DEF UpdateChannel
<1>7. channels' = {x \in Live : events'[x] # {}}
  BY <1>2, <1>5 DEF Registered
<1>8. \A x \in Live : epoll'[x] = IF events'[x] = {} THEN NotWatched ELSE events'[x]
  BY <1>2, <1>6 DEF Registered, PollerTypeOK
<1> QED BY <1>7, <1>8

(* References go, and no channel changes. *)
LEMMA StaysRegistered ==
  ASSUME OverIsSilent, Registered, Referenced' \subseteq Referenced,
         UNCHANGED <<events, channels, epoll, status, acceptor>>,
         \A c \in Referenced \ Referenced' : status[c] = "disconnected"
  PROVE  OverIsSilent' /\ Registered'
<1>1. OverIsSilent'
  BY DEF OverIsSilent
<1>2. Live' \subseteq Live /\ \A c \in Live \ Live' : events[c] = {}
  BY DEF Live, OverIsSilent
<1>3. channels' = {c \in Live' : events'[c] # {}}
  BY <1>2 DEF Registered
<1>4. \A c \in Live' : epoll'[c] = IF events'[c] = {} THEN NotWatched ELSE events'[c]
  BY <1>2 DEF Registered
<1> QED BY <1>1, <1>3, <1>4 DEF Registered

-----------------------------------------------------------------------------
(* Steps that touch no connection. *)

LEMMA CallsKeep ==
  ASSUME TypeOK, ServerInv, WellNested(frames'), AcceptorApart',
         UNCHANGED <<events, channels, epoll, status, acceptor, connections, early, misuse>>,
         Referenced' \subseteq Referenced,
         ConnsAt(frames', "up") = ConnsAt(frames, "up"),
         ConnsAt(frames, "down") \subseteq ConnsAt(frames', "down"),
         ConnsAt(frames', "down") \subseteq ConnsAt(frames, "down"),
         ConnsAt(frames', "init") \subseteq ConnsAt(frames, "init"),
         \A c \in ToStop(frames) : status[c] = "connected" => c \in ToStop(frames')
  PROVE  ServerInv'
<1>1. /\ OpenIsKnown /\ OverIsKnown /\ InHand /\ StopComes
      /\ misuse = {} => OverIsSilent /\ Registered
  BY DEF ServerInv
<1>2. OpenIsKnown'
  BY <1>1 DEF OpenIsKnown
<1>3. OverIsKnown' /\ InHand'
  BY <1>1 DEF OverIsKnown, InHand
<1>4. StopComes'
  BY <1>1 DEF StopComes
<1>5. ASSUME misuse' = {} PROVE OverIsSilent' /\ Registered'
  <2>1. \A c \in Referenced : status[c] \in {"connected", "disconnected"}
    BY ReferencedTypes DEF TypeOK
  <2>2. connections' \union ConnsAt(frames', "up") \subseteq Referenced'
    BY ReferencedIs, ConnsAtAll
  <2>3. \A c \in Referenced \ Referenced' : status[c] = "disconnected"
    BY <1>1, <2>1, <2>2 DEF OpenIsKnown
  <2> QED BY <1>1, <1>5, <2>3, StaysRegistered
<1> QED BY <1>2, <1>3, <1>4, <1>5 DEF ServerInv

(* A call returns that was for an event, a message or a stop(). *)
LEMMA ReturnKeeps ==
  ASSUME TypeOK, ServerInv, frames # <<>>, frames' = Returned,
         Top.at \in {"handle", "message", "stop", "accept"},
         Top.at = "stop" => Top.todo = {},
         UNCHANGED <<pollerVars, serverVars, status, undefined, kernelVars, historyVars>>
  PROVE  ServerInv'
<1>1. WellNested(frames) /\ AcceptorApart /\ frames' = Front(frames)
  BY DEF ServerInv, Returned
<1>2. Top = frames[Len(frames)]
  BY <1>1, TopIs
<1>3. /\ WellNested(frames')
      /\ Conns(frames') \subseteq Conns(frames)
      /\ \A at : at # Top.at => ConnsAt(frames', at) = ConnsAt(frames, at)
      /\ Ats(frames') \subseteq Ats(frames)
      /\ ToStop(frames') = ToStop(frames)
  <2>1. PICK g : g = Top /\ g = frames[Len(frames)]
    BY <1>2
  <2>2. /\ WellNested(Front(frames))
        /\ Conns(Front(frames)) \subseteq Conns(frames)
        /\ \A at : at # g.at => ConnsAt(Front(frames), at) = ConnsAt(frames, at)
        /\ Ats(Front(frames)) \subseteq Ats(frames)
        /\ g.at # "stop" => ToStop(Front(frames)) = ToStop(frames)
        /\ g.at = "stop" => ToStop(frames) = ToStop(Front(frames)) \union g.todo
    BY <1>1, <2>1, Popped
  <2> QED BY <1>1, <2>1, <2>2
<1>4. Referenced' \subseteq Referenced
  BY <1>3, ReferencedIs DEF serverVars
<1>5. /\ UNCHANGED <<events, channels, epoll, status, acceptor, connections, early, misuse>>
      /\ UNCHANGED <<input, batch, backlog, peers>>
  BY DEF pollerVars, serverVars, historyVars, kernelVars
<1>6. AcceptorApart'
  BY <1>1, <1>3, <1>4, <1>5 DEF AcceptorApart
<1>7. /\ ConnsAt(frames', "up") = ConnsAt(frames, "up")
      /\ ConnsAt(frames', "down") = ConnsAt(frames, "down")
      /\ ConnsAt(frames', "init") = ConnsAt(frames, "init")
  BY <1>3
<1> QED BY <1>3, <1>4, <1>5, <1>6, <1>7, CallsKeep

LEMMA CallFrame ==
  ASSUME NEW at \in {"handle", "init", "up", "message", "down"}, NEW c \in Channel,
         NEW todo, (at = "handle" /\ todo \subseteq {"close", "read", "write"}) \/ todo = {}
  PROVE  GoodFrame([at |-> at, conns |-> {c}, todo |-> todo])
<1>1. CASE at = "handle"
  BY <1>1 DEF GoodFrame, Frame
<1>2. CASE at # "handle"
  BY <1>2 DEF GoodFrame, Frame
<1> QED BY <1>1, <1>2

-----------------------------------------------------------------------------
(* The end of a connection: fs are the calls that handleClose is called in. *)

LEMMA CloseKeeps ==
  ASSUME TypeOK, ServerInv, NEW c \in Referenced, NEW fs, WellNested(fs),
         Conns(fs) = Conns(frames), Ats(fs) = Ats(frames),
         \A at : ConnsAt(fs, at) = ConnsAt(frames, at),
         ToStop(frames) \ {c} \subseteq ToStop(fs),
         "accept" \notin Ats(frames), "init" \notin Ats(frames),
         HandleClose(c, fs), UNCHANGED <<serverVars, undefined, kernelVars, sends>>
  PROVE  TypeOK' /\ ServerInv'
<1>0. PollerTypeOK /\ c \in Channel /\ Live \subseteq Channel /\ c \in Live
  BY ReferencedTypes DEF TypeOK, Live
<1>1. PICK f : f = [at |-> "down", conns |-> {c}, todo |-> {}]
  OBVIOUS
<1>2. GoodFrame(f) /\ f.at = "down" /\ f.conns = {c}
  BY <1>0, <1>1, CallFrame
<1>3. /\ frames' = Append(fs, f)
      /\ status' = [status EXCEPT ![c] = "disconnected"]
      /\ UpdateChannel(c, {})
      /\ misuse' = IF status[c] = "disconnected" THEN misuse \union {"closedTwice"} ELSE misuse
      /\ early' = IF c \in connections THEN early ELSE early \union {c}
      /\ UNCHANGED <<acceptor, connections, userHolds, undefined, backlog, peers, input, sends>>
  BY <1>1 DEF HandleClose, serverVars, kernelVars
<1>4. /\ WellNested(frames')
      /\ Conns(frames') = Conns(frames) \union {c}
      /\ \A at : at # "down" => ConnsAt(frames', at) = ConnsAt(frames, at)
      /\ ConnsAt(frames', "down") = ConnsAt(frames, "down") \union {c}
      /\ Ats(frames') = Ats(frames) \union {"down"}
      /\ ToStop(frames') = ToStop(fs)
  <2>1. /\ WellNested(Append(fs, f))
        /\ Conns(Append(fs, f)) = Conns(fs) \union f.conns
        /\ \A at : at # f.at => ConnsAt(Append(fs, f), at) = ConnsAt(fs, at)
        /\ ConnsAt(Append(fs, f), f.at) = ConnsAt(fs, f.at) \union f.conns
        /\ Ats(Append(fs, f)) = Ats(fs) \union {f.at}
        /\ f.at # "stop" => ToStop(Append(fs, f)) = ToStop(fs)
    BY <1>2, Pushed
  <2> QED BY <1>2, <1>3, <2>1
<1>5. /\ PollerTypeOK' /\ events' = [events EXCEPT ![c] = {}] /\ events'[c] = {}
      /\ \A x \in Channel : x # c => events'[x] = events[x]
      /\ UNCHANGED <<revents, size, batch>>
  BY <1>0, <1>3, UpdateTypes
<1>6. /\ status'[c] = "disconnected" /\ status' \in [Channel -> {"connected", "disconnected"}]
      /\ \A x \in Channel : x # c => status'[x] = status[x]
  BY <1>0, <1>3 DEF TypeOK
<1>7. Referenced' = Referenced /\ Referenced \subseteq Channel
  BY <1>3, <1>4, ReferencedIs, ReferencedTypes
<1>8. TypeOK'
  <2>1. frames' \in Seq(Frame) /\ early' \subseteq Channel
        /\ misuse' \subseteq {"lateSend", "closedTwice", "neverListened"}
    BY <1>0, <1>3, <1>4 DEF WellNested, TypeOK
  <2> QED BY <1>3, <1>5, <1>6, <2>1 DEF TypeOK
<1>9. AcceptorApart'
  BY <1>3, <1>4, <1>5, <1>7 DEF ServerInv, AcceptorApart
<1>10. OpenIsKnown'
  BY <1>3, <1>4, <1>5, <1>6, <1>7 DEF ServerInv, OpenIsKnown
<1>11. OverIsKnown'
  <2>1. ASSUME NEW x \in connections, status'[x] = "disconnected"
        PROVE  x \in early' \union ConnsAt(frames', "down")
    <3>1. x \in Channel
      BY DEF TypeOK
    <3> QED BY <1>3, <1>4, <1>6, <2>1, <3>1 DEF ServerInv, OverIsKnown
  <2> QED BY <1>3, <2>1 DEF OverIsKnown
<1>12. InHand'
  <2>1. \A at : ConnsAt(frames, at) \subseteq Channel
    BY <1>7, ConnsAtAll, ReferencedIs
  <2>2. \A x \in ConnsAt(frames, "init") :
          x \notin connections /\ status'[x] = "disconnected" /\ events'[x] = {}
    BY <1>5, <1>6, <2>1 DEF ServerInv, InHand
  <2>3. \A x \in ConnsAt(frames, "up") :
          x \notin connections /\ (status'[x] = "disconnected" => x \in early')
    BY <1>3, <1>6, <2>1 DEF ServerInv, InHand
  <2>4. \A x \in ConnsAt(frames, "down") \union {c} : status'[x] = "disconnected"
    BY <1>6, <2>1 DEF ServerInv, InHand
  <2> QED BY <1>3, <1>4, <2>2, <2>3, <2>4 DEF InHand
<1>13. StopComes'
  BY <1>3, <1>4, <1>6, <1>7 DEF ServerInv, StopComes
<1>14. ASSUME misuse' = {} PROVE OverIsSilent' /\ Registered'
  <2>1. misuse = {} /\ status[c] = "connected"
    BY <1>0, <1>3, <1>14 DEF TypeOK
  <2>2. OverIsSilent /\ Registered /\ events[c] # {}
    BY <2>1 DEF ServerInv, OpenIsKnown
  <2>3. /\ channels' = {x \in Live : events'[x] # {}}
        /\ \A x \in Live : epoll'[x] = IF events'[x] = {} THEN NotWatched ELSE events'[x]
    <3>1. {} \in SUBSET Event
      OBVIOUS
    <3> QED BY <1>0, <1>3, <2>2, <3>1, UpdateRegisters
  <2>4. Live' = Live
    BY <1>3, <1>7 DEF Live
  <2>5. OverIsSilent'
    BY <1>5, <1>6, <1>7, <2>2 DEF OverIsSilent
  <2> QED BY <2>3, <2>4, <2>5 DEF Registered
<1> QED BY <1>4, <1>8, <1>9, <1>10, <1>11, <1>12, <1>13, <1>14 DEF ServerInv

-----------------------------------------------------------------------------
(* Connections begin, and get into connections_ and out of it. *)

(* The outermost call alone. *)
LEMMA OnlyCall ==
  ASSUME WellNested(frames), frames # <<>>, Top.at \in {"accept", "init", "up"}
  PROVE  /\ Returned = <<>>
         /\ Conns(frames) = Top.conns /\ Ats(frames) = {Top.at}
         /\ ConnsAt(frames, Top.at) = Top.conns
         /\ \A at : at # Top.at => ConnsAt(frames, at) = {}
         /\ ToStop(frames) = {}
<1>1. PICK g : g = Top /\ g = frames[Len(frames)]
  BY TopIs
<1>2. Front(frames) = <<>> /\ ToSet(frames) = {g}
  BY <1>1, Popped
<1> QED BY <1>1, <1>2 DEF Returned, Conns, Ats, ConnsAt, ToStop

LEMMA NotAccepting ==
  ASSUME WellNested(frames), Top.at \notin {"accept", "init"}
  PROVE  /\ "accept" \notin Ats(frames) /\ "init" \notin Ats(frames)
         /\ ConnsAt(frames, "init") = {}
<1>1. ASSUME NEW i \in DOMAIN frames, frames[i].at \in {"accept", "init"}
      PROVE  FALSE
  <2>1. Len(frames) = 1 /\ i = 1 /\ frames # <<>>
    BY <1>1 DEF WellNested
  <2>2. Top = frames[1]
    BY <2>1 DEF Top
  <2> QED BY <1>1, <2>1, <2>2
<1> QED BY <1>1 DEF Ats, ConnsAt, ToSet

LEMMA RemoveKeeps ==
  ASSUME TypeOK, ServerInv, RemoveConnection
  PROVE  TypeOK' /\ ServerInv'
<1>1. /\ Top.at = "down" /\ frames' = Front(frames)
      /\ connections' = connections \ Top.conns
      /\ UNCHANGED <<pollerVars, acceptor, userHolds, status, undefined, backlog, peers, input>>
      /\ UNCHANGED <<sends, misuse, early>>
  BY DEF RemoveConnection, In, Returned, kernelVars
<1>2. UNCHANGED <<events, channels, epoll, batch>> /\ PollerTypeOK'
  BY <1>1 DEF pollerVars, PollerTypeOK, TypeOK
<1>3. WellNested(frames) /\ frames # <<>> /\ Top = frames[Len(frames)]
  <2>1. WellNested(frames)
    BY DEF ServerInv
  <2>2. frames # <<>>
    BY <1>1, <2>1, TopIs DEF InLoop
  <2> QED BY <2>1, <2>2, TopIs
<1>4. PICK c \in Channel : Top.conns = {c}
  BY <1>1, <1>3, TopIs DEF GoodFrame
<1>5. /\ WellNested(frames')
      /\ Conns(frames') \subseteq Conns(frames)
      /\ \A at : at # "down" => ConnsAt(frames', at) = ConnsAt(frames, at)
      /\ ConnsAt(frames', "down") \subseteq ConnsAt(frames, "down")
      /\ ConnsAt(frames, "down") \subseteq ConnsAt(frames', "down") \union {c}
      /\ Ats(frames') \subseteq Ats(frames)
      /\ ToStop(frames') = ToStop(frames)
  <2>1. PICK g : g = Top /\ g = frames[Len(frames)]
    BY <1>3
  <2>2. /\ WellNested(Front(frames))
        /\ Conns(Front(frames)) \subseteq Conns(frames)
        /\ \A at : at # g.at => ConnsAt(Front(frames), at) = ConnsAt(frames, at)
        /\ \A at : ConnsAt(Front(frames), at) \subseteq ConnsAt(frames, at)
        /\ ConnsAt(frames, g.at) \subseteq ConnsAt(Front(frames), g.at) \union g.conns
        /\ Ats(Front(frames)) \subseteq Ats(frames)
        /\ g.at # "stop" => ToStop(Front(frames)) = ToStop(frames)
    BY <1>3, <2>1, Popped
  <2> QED BY <1>1, <1>4, <2>1, <2>2
<1>6. status[c] = "disconnected"
  <2>1. c \in ConnsAt(frames, "down")
    BY <1>1, <1>3, <1>4, TopIs
  <2> QED BY <2>1 DEF ServerInv, InHand
<1>7. Referenced' \subseteq Referenced
  BY <1>1, <1>5, ReferencedIs
<1>8. TypeOK'
  BY <1>1, <1>2, <1>5 DEF TypeOK, WellNested
<1>9. AcceptorApart'
  BY <1>1, <1>2, <1>5, <1>7 DEF ServerInv, AcceptorApart
<1>10. OpenIsKnown' /\ StopComes'
  BY <1>1, <1>2, <1>4, <1>5, <1>6, <1>7 DEF ServerInv, OpenIsKnown, StopComes
<1>11. OverIsKnown' /\ InHand'
  BY <1>1, <1>2, <1>4, <1>5 DEF ServerInv, OverIsKnown, InHand
<1>12. ASSUME misuse' = {} PROVE OverIsSilent' /\ Registered'
  <2>1. OverIsSilent /\ Registered /\ OpenIsKnown
    BY <1>1, <1>12 DEF ServerInv
  <2>2. \A x \in Referenced : status[x] \in {"connected", "disconnected"}
    BY ReferencedTypes DEF TypeOK
  <2>3. connections' \union ConnsAt(frames', "up") \subseteq Referenced'
    BY ReferencedIs, ConnsAtAll
  <2>4. \A x \in Referenced \ Referenced' : status[x] = "disconnected"
    BY <1>1, <1>4, <1>5, <1>6, <2>1, <2>2, <2>3 DEF OpenIsKnown
  <2> QED BY <1>1, <1>2, <1>7, <2>1, <2>4, StaysRegistered
<1> QED BY <1>5, <1>8, <1>9, <1>10, <1>11, <1>12 DEF ServerInv

LEMMA NewConnectionKeeps ==
  ASSUME TypeOK, ServerInv, NewConnectionReturns
  PROVE  TypeOK' /\ (~undefined' => ServerInv')
<1>1. /\ Top.at = "up" /\ frames' = Returned
      /\ connections' = connections \union Top.conns
      /\ undefined' = (acceptor = NoChannel)
      /\ UNCHANGED <<pollerVars, acceptor, userHolds, status, backlog, peers, input>>
      /\ UNCHANGED <<sends, misuse, early>>
  BY DEF NewConnectionReturns, In, kernelVars, historyVars
<1>2. UNCHANGED <<events, channels, epoll, batch>> /\ PollerTypeOK'
  BY <1>1 DEF pollerVars, PollerTypeOK, TypeOK
<1>3. WellNested(frames) /\ frames # <<>> /\ Top.conns \subseteq Channel
  <2>1. WellNested(frames)
    BY DEF ServerInv
  <2>2. frames # <<>>
    BY <1>1, <2>1, TopIs DEF InLoop
  <2> QED BY <2>1, <2>2, TopIs
<1>4. /\ frames' = <<>> /\ Conns(frames) = Top.conns /\ ConnsAt(frames, "up") = Top.conns
      /\ ConnsAt(frames, "down") = {}
  BY <1>1, <1>3, OnlyCall
<1>5. /\ WellNested(frames') /\ Conns(frames') = {} /\ Ats(frames') = {} /\ ToStop(frames') = {}
      /\ \A at : ConnsAt(frames', at) = {}
  BY <1>4, NoCalls
<1>6. Referenced' = Referenced
  BY <1>1, <1>4, <1>5, ReferencedIs
<1>7. TypeOK'
  BY <1>1, <1>2, <1>3, <1>5 DEF TypeOK, WellNested
<1>8. ASSUME acceptor # NoChannel PROVE ServerInv'
  <2>1. AcceptorApart' /\ StopComes'
    BY <1>1, <1>2, <1>5, <1>6, <1>8 DEF ServerInv, AcceptorApart, StopComes
  <2>2. OpenIsKnown' /\ OverIsKnown' /\ InHand'
    BY <1>1, <1>2, <1>4, <1>5, <1>6 DEF ServerInv, OpenIsKnown, OverIsKnown, InHand
  <2>3. misuse' = {} => OverIsSilent' /\ Registered'
    BY <1>1, <1>2, <1>6 DEF ServerInv, OverIsSilent, Registered, Live
  <2> QED BY <1>5, <2>1, <2>2, <2>3 DEF ServerInv
<1> QED BY <1>1, <1>7, <1>8

LEMMA AcceptKeeps ==
  ASSUME TypeOK, ServerInv, NEW c \in Channel, Accept(c)
  PROVE  TypeOK' /\ ServerInv'
<1>1. /\ Top.at = "accept" /\ c \notin Referenced /\ c # acceptor
      /\ frames' = <<[at |-> "init", conns |-> {c}, todo |-> {}]>>
      /\ backlog' = backlog - 1
      /\ NewChannel(c)
      /\ status' = [status EXCEPT ![c] = "disconnected"]
      /\ input' = [input EXCEPT ![c] = "none"]
      /\ early' = early \ {c}
      /\ UNCHANGED <<acceptor, connections, userHolds, undefined, peers, sends, misuse>>
  BY DEF Accept, In, serverVars
<1>2. WellNested(frames) /\ frames # <<>>
  <2>1. WellNested(frames)
    BY DEF ServerInv
  <2>2. frames # <<>>
    BY <1>1, <2>1, TopIs DEF InLoop
  <2> QED BY <2>1, <2>2
<1>3. /\ Conns(frames) = {} /\ "accept" \in Ats(frames) /\ \A at : ConnsAt(frames, at) = {}
  <2>1. GoodFrame(Top)
    BY <1>2, TopIs
  <2>2. Top.conns = {}
    BY <1>1, <2>1 DEF GoodFrame
  <2>3. /\ Conns(frames) = Top.conns /\ Ats(frames) = {Top.at}
        /\ ConnsAt(frames, Top.at) = Top.conns
        /\ \A at : at # Top.at => ConnsAt(frames, at) = {}
    BY <1>1, <1>2, OnlyCall
  <2> QED BY <1>1, <2>2, <2>3
<1>4. backlog > 0 /\ acceptor \notin batch /\ acceptor # NoChannel
  BY <1>3 DEF ServerInv, AcceptorApart
<1>5. /\ WellNested(frames') /\ Conns(frames') = {c} /\ Ats(frames') = {"init"}
      /\ ConnsAt(frames', "init") = {c}
      /\ \A at : at # "init" => ConnsAt(frames', at) = {}
      /\ ToStop(frames') = {}
  <2>1. PICK f : f = [at |-> "init", conns |-> {c}, todo |-> {}]
    OBVIOUS
  <2>2. GoodFrame(f) /\ f.at = "init" /\ f.conns = {c}
    BY <2>1, CallFrame
  <2>3. /\ WellNested(<<f>>)
        /\ Conns(<<f>>) = f.conns /\ Ats(<<f>>) = {f.at}
        /\ ConnsAt(<<f>>, f.at) = f.conns
        /\ \A at : at # f.at => ConnsAt(<<f>>, at) = {}
        /\ f.at # "stop" => ToStop(<<f>>) = {}
    BY <2>2, Alone
  <2> QED BY <1>1, <2>1, <2>2, <2>3
<1>6. /\ PollerTypeOK' /\ UNCHANGED <<channels, batch>>
      /\ events'[c] = {} /\ epoll'[c] = NotWatched
      /\ \A x \in Channel : x # c => events'[x] = events[x] /\ epoll'[x] = epoll[x]
  BY <1>1 DEF NewChannel, PollerTypeOK, TypeOK
<1>7. /\ status' \in [Channel -> {"connected", "disconnected"}] /\ status'[c] = "disconnected"
      /\ \A x \in Channel : x # c => status'[x] = status[x]
      /\ input' \in [Channel -> {"none", "data", "end", "reset"}]
      /\ \A x \in Channel : x # c => input'[x] = input[x]
  BY <1>1 DEF TypeOK
<1>8. Referenced' = Referenced \union {c} /\ Referenced \subseteq Channel
  BY <1>1, <1>3, <1>5, ReferencedIs, ReferencedTypes
<1>9. TypeOK'
  <2>1. backlog' \in 0..MaxPeers /\ early' \subseteq Channel
    BY <1>1, <1>4, BoundsAssumption DEF TypeOK
  <2> QED BY <1>1, <1>5, <1>6, <1>7, <2>1 DEF TypeOK, WellNested
<1>10. AcceptorApart' /\ StopComes'
  <2>1. backlog' <= peers'
    BY <1>1, BoundsAssumption DEF TypeOK, ServerInv, AcceptorApart
  <2> QED BY <1>1, <1>4, <1>5, <1>6, <1>7, <1>8, <2>1 DEF ServerInv, AcceptorApart, StopComes
<1>11. OpenIsKnown'
  BY <1>1, <1>3, <1>5, <1>6, <1>7, <1>8 DEF ServerInv, OpenIsKnown
<1>12. OverIsKnown' /\ InHand'
  <2>1. c \notin connections /\ connections \subseteq Channel
    BY <1>1, ReferencedIs DEF TypeOK
  <2> QED BY <1>1, <1>3, <1>5, <1>6, <1>7, <2>1 DEF ServerInv, OverIsKnown, InHand
<1>13. ASSUME misuse' = {} PROVE OverIsSilent' /\ Registered'
  <2>1. OverIsSilent /\ Registered
    BY <1>1, <1>13 DEF ServerInv
  <2>2. Live' = Live \union {c} /\ Live \subseteq Channel /\ c \notin Live
    BY <1>1, <1>8, ReferencedTypes DEF Live
  <2>3. OverIsSilent'
    BY <1>6, <1>7, <1>8, <2>1 DEF OverIsSilent
  <2>4. Registered'
    BY <1>6, <2>1, <2>2 DEF Registered
  <2> QED BY <2>3, <2>4
<1> QED BY <1>5, <1>9, <1>10, <1>11, <1>12, <1>13 DEF ServerInv

LEMMA InitKeeps ==
  ASSUME TypeOK, ServerInv, InitConnection
  PROVE  TypeOK' /\ ServerInv'
<1>1. /\ Top.at = "init"
      /\ frames' = <<[Top EXCEPT !.at = "up"]>>
      /\ status' = [status EXCEPT ![The(Top)] = "connected"]
      /\ UpdateChannel(The(Top), {"in"})
      /\ UNCHANGED <<acceptor, connections, userHolds, undefined, backlog, peers, input>>
      /\ UNCHANGED <<sends, misuse, early>>
  BY DEF InitConnection, In, serverVars, kernelVars, historyVars
<1>2. WellNested(frames) /\ frames # <<>>
  <2>1. WellNested(frames)
    BY DEF ServerInv
  <2>2. frames # <<>>
    BY <1>1, <2>1, TopIs DEF InLoop
  <2> QED BY <2>1, <2>2
<1>3. GoodFrame(Top)
  BY <1>2, TopIs
<1>4. PICK c \in Channel : Top.conns = {c}
  BY <1>1, <1>3 DEF GoodFrame
<1>5. The(Top) = c
  BY <1>4, TheOne
<1>6. /\ Conns(frames) = {c} /\ Ats(frames) = {"init"}
      /\ ConnsAt(frames, "init") = {c}
      /\ \A at : at # "init" => ConnsAt(frames, at) = {}
  BY <1>1, <1>2, <1>4, OnlyCall
<1>7. c \notin connections /\ events[c] = {} /\ acceptor # NoChannel /\ c \in Referenced
  BY <1>6, ReferencedIs DEF ServerInv, InHand, AcceptorApart
<1>8. /\ WellNested(frames') /\ Conns(frames') = {c} /\ Ats(frames') = {"up"}
      /\ ConnsAt(frames', "up") = {c}
      /\ \A at : at # "up" => ConnsAt(frames', at) = {}
  <2>1. PICK f : f = [Top EXCEPT !.at = "up"]
    OBVIOUS
  <2>2. f = [at |-> "up", conns |-> {c}, todo |-> {}]
    <3>1. Top \in Frame /\ Top.at = "init"
      BY <1>1, <1>3 DEF GoodFrame
    <3>2. Top = [at |-> "init", conns |-> {c}, todo |-> {}]
      BY <1>4, <3>1 DEF Frame
    <3> QED BY <2>1, <3>2
  <2>3. GoodFrame(f) /\ f.at = "up" /\ f.conns = {c}
    BY <2>2, CallFrame
  <2>4. /\ WellNested(<<f>>)
        /\ Conns(<<f>>) = f.conns /\ Ats(<<f>>) = {f.at}
        /\ ConnsAt(<<f>>, f.at) = f.conns
        /\ \A at : at # f.at => ConnsAt(<<f>>, at) = {}
    BY <2>3, Alone
  <2> QED BY <1>1, <2>1, <2>3, <2>4
<1>9. PollerTypeOK /\ {"in"} \in SUBSET Event /\ UpdateChannel(c, {"in"})
  BY <1>1, <1>5 DEF TypeOK, Event
<1>10. /\ PollerTypeOK' /\ events'[c] = {"in"}
       /\ \A x \in Channel : x # c => events'[x] = events[x]
       /\ UNCHANGED <<revents, size, batch>>
  BY <1>9, UpdateTypes
<1>11. /\ status' \in [Channel -> {"connected", "disconnected"}] /\ status'[c] = "connected"
       /\ \A x \in Channel : x # c => status'[x] = status[x]
  BY <1>1, <1>5 DEF TypeOK
<1>12. Referenced' = Referenced /\ Referenced \subseteq Channel /\ Live \subseteq Channel
  BY <1>1, <1>6, <1>8, ReferencedIs, ReferencedTypes
<1>13. TypeOK'
  BY <1>1, <1>8, <1>10, <1>11 DEF TypeOK, WellNested
<1>14. AcceptorApart' /\ StopComes'
  BY <1>1, <1>7, <1>8, <1>10, <1>12 DEF ServerInv, AcceptorApart, StopComes
<1>15. OpenIsKnown'
  BY <1>1, <1>6, <1>8, <1>10, <1>11, <1>12 DEF ServerInv, OpenIsKnown
<1>16. OverIsKnown' /\ InHand'
  <2>1. connections \subseteq Channel
    BY DEF TypeOK
  <2> QED BY <1>1, <1>6, <1>7, <1>8, <1>11, <2>1 DEF ServerInv, OverIsKnown, InHand
<1>17. ASSUME misuse' = {} PROVE OverIsSilent' /\ Registered'
  <2>1. OverIsSilent /\ Registered
    BY <1>1, <1>17 DEF ServerInv
  <2>2. Live' = Live /\ c \in Live
    BY <1>1, <1>7, <1>12 DEF Live
  <2>3. OverIsSilent'
    BY <1>10, <1>11, <1>12, <2>1 DEF OverIsSilent
  <2>4. /\ channels' = {x \in Live : events'[x] # {}}
        /\ \A x \in Live : epoll'[x] = IF events'[x] = {} THEN NotWatched ELSE events'[x]
    <3>1. {"in"} # {}
      OBVIOUS
    <3> QED BY <1>9, <1>12, <2>1, <2>2, <3>1, UpdateRegisters
  <2> QED BY <2>2, <2>3, <2>4 DEF Registered
<1> QED BY <1>8, <1>13, <1>14, <1>15, <1>16, <1>17 DEF ServerInv

-----------------------------------------------------------------------------
(* A send, or the end of one, changes what a connection asks for. *)
LEMMA UpdateKeeps ==
  ASSUME TypeOK, ServerInv, NEW c \in Referenced, NEW evs \in SUBSET Event,
         UpdateChannel(c, evs), status[c] = "connected" => "in" \in evs,
         WellNested(frames'), Conns(frames') = Conns(frames), Ats(frames') = Ats(frames),
         \A at : ConnsAt(frames', at) = ConnsAt(frames, at),
         ToStop(frames') = ToStop(frames), ConnsAt(frames, "init") = {},
         misuse \subseteq misuse', misuse' = {} => status[c] = "connected",
         UNCHANGED <<serverVars, status, undefined, kernelVars, early>>
  PROVE  ServerInv' /\ PollerTypeOK'
<1>1. /\ c \in Channel /\ c \in Live /\ PollerTypeOK
      /\ Live \subseteq Channel /\ Referenced \subseteq Channel
  BY ReferencedTypes DEF TypeOK, Live
<1>2. UNCHANGED <<acceptor, connections, userHolds, backlog, peers, input, batch>>
  BY DEF serverVars, kernelVars, UpdateChannel
<1>3. /\ PollerTypeOK' /\ events'[c] = evs
      /\ \A x \in Channel : x # c => events'[x] = events[x]
  BY <1>1, UpdateTypes
<1>4. Referenced' = Referenced /\ Live' = Live
  BY <1>2, ReferencedIs DEF Live
<1>5. AcceptorApart' /\ StopComes'
  BY <1>2, <1>4 DEF ServerInv, AcceptorApart, StopComes
<1>6. OpenIsKnown'
  BY <1>1, <1>2, <1>3, <1>4 DEF ServerInv, OpenIsKnown
<1>7. OverIsKnown' /\ InHand'
  BY <1>2 DEF ServerInv, OverIsKnown, InHand
<1>8. ASSUME misuse' = {} PROVE OverIsSilent' /\ Registered'
  <2>1. OverIsSilent /\ Registered /\ evs # {} /\ status[c] = "connected"
    BY <1>8 DEF ServerInv
  <2>2. OverIsSilent'
    BY <1>1, <1>3, <1>4, <2>1 DEF OverIsSilent
  <2>3. /\ channels' = {x \in Live : events'[x] # {}}
        /\ \A x \in Live : epoll'[x] = IF events'[x] = {} THEN NotWatched ELSE events'[x]
    BY <1>1, <2>1, UpdateRegisters
  <2> QED BY <1>4, <2>2, <2>3 DEF Registered
<1> QED BY <1>3, <1>5, <1>6, <1>7, <1>8 DEF ServerInv

(* A connection that code of the program has at hand, or a callback. *)
LEMMA HeldIsReferenced ==
  ASSUME WellNested(frames)
  PROVE  AtHand \subseteq Referenced /\ Top.conns \subseteq Referenced
<1>1. Top.conns \subseteq Conns(frames)
  BY TopIs
<1> QED BY <1>1, ReferencedIs DEF AtHand

LEMMA SendKeeps ==
  ASSUME TypeOK, ServerInv, NEW c \in Channel, Send(c)
  PROVE  TypeOK' /\ ServerInv'
<1>1. /\ Top.at \notin {"accept", "init"} /\ c \in AtHand /\ sends < MaxSends
      /\ sends' = sends + 1
      /\ UpdateChannel(c, events[c] \union {"out"})
      /\ misuse' = IF status[c] = "disconnected" THEN misuse \union {"lateSend"} ELSE misuse
      /\ UNCHANGED <<serverVars, status, frames, undefined, kernelVars, early>>
  BY DEF Send, InUserCode
<1>2. WellNested(frames)
  BY DEF ServerInv
<1>3. c \in Referenced /\ ConnsAt(frames, "init") = {}
  BY <1>1, <1>2, HeldIsReferenced, NotAccepting
<1>4. events[c] \union {"out"} \in SUBSET Event /\ status[c] \in {"connected", "disconnected"}
  BY DEF TypeOK, PollerTypeOK, Event
<1>5. status[c] = "connected" => "in" \in events[c] \union {"out"}
  BY <1>3 DEF ServerInv, OpenIsKnown
<1>6. misuse \subseteq misuse' /\ (misuse' = {} => status[c] = "connected")
  BY <1>1, <1>4
<1>7. frames' = frames
  BY <1>1
<1>8. ServerInv' /\ PollerTypeOK'
  BY <1>1, <1>2, <1>3, <1>4, <1>5, <1>6, <1>7, UpdateKeeps
<1>9. sends' \in 0..MaxSends /\ misuse' \subseteq {"lateSend", "closedTwice", "neverListened"}
  BY <1>1, BoundsAssumption DEF TypeOK
<1> QED BY <1>1, <1>8, <1>9 DEF TypeOK, serverVars, kernelVars

(* A call of a connection for its events. *)
LEMMA HandleParts ==
  ASSUME WellNested(frames), In("handle"), NEW todo, todo \subseteq Top.todo
  PROVE  /\ frames # <<>> /\ ConnsAt(frames, "init") = {}
         /\ "accept" \notin Ats(frames) /\ "init" \notin Ats(frames)
         /\ The(Top) \in Referenced /\ The(Top) \in Channel
         /\ WellNested(WithTodo(todo))
         /\ Conns(WithTodo(todo)) = Conns(frames) /\ Ats(WithTodo(todo)) = Ats(frames)
         /\ \A at : ConnsAt(WithTodo(todo), at) = ConnsAt(frames, at)
         /\ ToStop(WithTodo(todo)) = ToStop(frames)
<1>1. frames # <<>> /\ Top.at = "handle"
  BY TopIs DEF In, InLoop
<1>2. Top = frames[Len(frames)] /\ GoodFrame(Top)
  BY <1>1, TopIs
<1>3. PICK c \in Channel : Top.conns = {c}
  BY <1>1, <1>2 DEF GoodFrame
<1>4. The(Top) = c /\ c \in Referenced
  BY <1>3, TheOne, HeldIsReferenced
<1>5. /\ ConnsAt(frames, "init") = {}
      /\ "accept" \notin Ats(frames) /\ "init" \notin Ats(frames)
  BY <1>1, NotAccepting
<1>6. PICK g : g = Top /\ g = frames[Len(frames)]
  BY <1>2
<1>7. PICK r : r = WithTodo(todo) /\ Retells(r, frames, todo)
  BY <1>1, <1>2 DEF WithTodo, Retells
<1>8. /\ WellNested(r)
      /\ Conns(r) = Conns(frames) /\ Ats(r) = Ats(frames)
      /\ \A at : ConnsAt(r, at) = ConnsAt(frames, at)
      /\ g.at # "stop" => ToStop(r) = ToStop(frames)
  BY <1>1, <1>6, <1>7, Retold
<1> QED BY <1>1, <1>4, <1>5, <1>6, <1>7, <1>8

LEMMA DispatchCloseKeeps ==
  ASSUME TypeOK, ServerInv, DispatchClose
  PROVE  TypeOK' /\ ServerInv'
<1>1. PICK fs : fs = WithTodo(Top.todo \ {"close"})
  OBVIOUS
<1>2. /\ In("handle") /\ HandleClose(The(Top), fs)
      /\ UNCHANGED <<serverVars, undefined, kernelVars, sends>>
  BY <1>1 DEF DispatchClose
<1>3. /\ "accept" \notin Ats(frames) /\ "init" \notin Ats(frames)
      /\ The(Top) \in Referenced
      /\ WellNested(fs)
      /\ Conns(fs) = Conns(frames) /\ Ats(fs) = Ats(frames)
      /\ \A at : ConnsAt(fs, at) = ConnsAt(frames, at)
      /\ ToStop(fs) = ToStop(frames)
  BY <1>1, <1>2, HandleParts DEF ServerInv
<1>4. ToStop(frames) \ {The(Top)} \subseteq ToStop(fs)
  BY <1>3
<1> QED BY <1>2, <1>3, <1>4, CloseKeeps

LEMMA DispatchReadKeeps ==
  ASSUME TypeOK, ServerInv, DispatchRead
  PROVE  TypeOK' /\ ServerInv'
<1>1. PICK fs : fs = WithTodo(Top.todo \ {"read"})
  OBVIOUS
<1>2. PICK c : c = The(Top)
  OBVIOUS
<1>3. /\ In("handle")
      /\ \/ /\ input[c] = "data"
            /\ input' = [input EXCEPT ![c] = "none"]
            /\ frames' = Append(fs, [at |-> "message", conns |-> {c}, todo |-> {}])
            /\ UNCHANGED <<pollerVars, status, misuse, early>>
         \/ /\ HandleClose(c, fs)
            /\ UNCHANGED input
      /\ UNCHANGED <<serverVars, undefined, backlog, peers, sends>>
  BY <1>1, <1>2 DEF DispatchRead
<1>4. /\ "accept" \notin Ats(frames) /\ "init" \notin Ats(frames)
      /\ c \in Referenced /\ c \in Channel
      /\ WellNested(fs)
      /\ Conns(fs) = Conns(frames) /\ Ats(fs) = Ats(frames)
      /\ \A at : ConnsAt(fs, at) = ConnsAt(frames, at)
      /\ ToStop(fs) = ToStop(frames)
  BY <1>1, <1>2, <1>3, HandleParts DEF ServerInv
<1>5. CASE HandleClose(c, fs) /\ UNCHANGED input
  <2>1. ToStop(frames) \ {c} \subseteq ToStop(fs)
    BY <1>4
  <2>2. UNCHANGED <<serverVars, undefined, kernelVars, sends>>
    BY <1>3, <1>5 DEF kernelVars
  <2> QED BY <1>4, <1>5, <2>1, <2>2, CloseKeeps
<1>6. CASE /\ input' = [input EXCEPT ![c] = "none"]
           /\ frames' = Append(fs, [at |-> "message", conns |-> {c}, todo |-> {}])
           /\ UNCHANGED <<pollerVars, status, misuse, early>>
  <2>1. PICK f : f = [at |-> "message", conns |-> {c}, todo |-> {}]
    OBVIOUS
  <2>2. GoodFrame(f) /\ f.at = "message" /\ f.conns = {c}
    BY <1>4, <2>1, CallFrame
  <2>3. /\ WellNested(Append(fs, f))
        /\ Conns(Append(fs, f)) = Conns(fs) \union f.conns
        /\ \A at : at # f.at => ConnsAt(Append(fs, f), at) = ConnsAt(fs, at)
        /\ Ats(Append(fs, f)) = Ats(fs) \union {f.at}
        /\ f.at # "stop" => ToStop(Append(fs, f)) = ToStop(fs)
    BY <1>4, <2>2, Pushed
  <2>4. /\ WellNested(frames') /\ Conns(frames') = Conns(frames) \union {c}
        /\ ConnsAt(frames', "up") = ConnsAt(frames, "up")
        /\ ConnsAt(frames', "down") = ConnsAt(frames, "down")
        /\ ConnsAt(frames', "init") = ConnsAt(frames, "init")
        /\ Ats(frames') = Ats(frames) \union {"message"}
        /\ ToStop(frames') = ToStop(frames)
    BY <1>4, <1>6, <2>1, <2>2, <2>3
  <2>5. /\ UNCHANGED <<events, channels, epoll, status, acceptor, connections, early, misuse>>
        /\ UNCHANGED <<userHolds, batch, backlog, peers, sends, undefined>>
    BY <1>3, <1>6 DEF pollerVars, serverVars
  <2>6. Referenced' = Referenced
    BY <1>4, <2>4, <2>5, ReferencedIs
  <2>7. /\ input' \in [Channel -> {"none", "data", "end", "reset"}]
        /\ acceptor \in Channel => input'[acceptor] = "none"
    BY <1>4, <1>6 DEF TypeOK, ServerInv, AcceptorApart
  <2>8. AcceptorApart'
    BY <2>4, <2>5, <2>6, <2>7 DEF ServerInv, AcceptorApart
  <2>9. TypeOK'
    BY <1>6, <2>4, <2>5, <2>7 DEF TypeOK, WellNested, PollerTypeOK, pollerVars
  <2> QED BY <2>4, <2>5, <2>6, <2>8, <2>9, CallsKeep
<1> QED BY <1>3, <1>5, <1>6

LEMMA DispatchWriteKeeps ==
  ASSUME TypeOK, ServerInv, DispatchWrite
  PROVE  TypeOK' /\ ServerInv'
<1>1. PICK c : c = The(Top)
  OBVIOUS
<1>2. /\ In("handle") /\ frames' = WithTodo({})
      /\ UNCHANGED pollerVars \/ ("out" \in events[c] /\ UpdateChannel(c, events[c] \ {"out"}))
      /\ UNCHANGED <<serverVars, status, undefined, kernelVars, historyVars>>
  <2>1. frames' = WithTodo({}) /\ In("handle")
    BY DEF DispatchWrite
  <2>2. UNCHANGED pollerVars \/ ("out" \in events[c] /\ UpdateChannel(c, events[c] \ {"out"}))
    BY <1>1 DEF DispatchWrite
  <2>3. UNCHANGED <<serverVars, status, undefined, kernelVars, historyVars>>
    BY DEF DispatchWrite
  <2> QED BY <2>1, <2>2, <2>3
<1>3. /\ ConnsAt(frames, "init") = {}
      /\ c \in Referenced /\ c \in Channel
      /\ WellNested(frames')
      /\ Conns(frames') = Conns(frames) /\ Ats(frames') = Ats(frames)
      /\ \A at : ConnsAt(frames', at) = ConnsAt(frames, at)
      /\ ToStop(frames') = ToStop(frames)
  BY <1>1, <1>2, HandleParts DEF ServerInv
<1>4. /\ UNCHANGED <<acceptor, connections, userHolds, backlog, peers, input>>
      /\ UNCHANGED <<sends, misuse, early>>
  BY <1>2 DEF serverVars, kernelVars, historyVars
<1>5. CASE UNCHANGED pollerVars
  <2>1. UNCHANGED <<events, channels, epoll, batch>> /\ PollerTypeOK'
    BY <1>5 DEF pollerVars, PollerTypeOK, TypeOK
  <2>2. Referenced' = Referenced
    BY <1>3, <1>4, ReferencedIs
  <2>3. AcceptorApart'
    BY <1>3, <1>4, <2>1, <2>2 DEF ServerInv, AcceptorApart
  <2>4. ServerInv'
    BY <1>2, <1>3, <1>4, <2>1, <2>2, <2>3, CallsKeep
  <2> QED BY <1>2, <1>3, <1>4, <2>1, <2>4 DEF TypeOK, WellNested
<1>6. CASE "out" \in events[c] /\ UpdateChannel(c, events[c] \ {"out"})
  <2>1. events[c] \ {"out"} \in SUBSET Event /\ status[c] \in {"connected", "disconnected"}
    BY <1>3 DEF TypeOK, PollerTypeOK
  <2>2. status[c] = "connected" => "in" \in events[c] \ {"out"}
    BY <1>3 DEF ServerInv, OpenIsKnown
  <2>3. misuse \subseteq misuse' /\ (misuse' = {} => status[c] = "connected")
    BY <1>3, <1>4, <1>6, <2>1 DEF ServerInv, OverIsSilent
  <2>4. ServerInv' /\ PollerTypeOK'
    BY <1>2, <1>3, <1>4, <1>6, <2>1, <2>2, <2>3, UpdateKeeps
  <2> QED BY <1>2, <1>3, <1>4, <2>4 DEF TypeOK, WellNested
<1> QED BY <1>2, <1>5, <1>6

(* forceClose of a connection at hand, and stop() at the next of its copy. *)
LEMMA ForceCloseKeeps ==
  ASSUME TypeOK, ServerInv, NEW c \in Channel, ForceClose(c)
  PROVE  TypeOK' /\ ServerInv'
<1>1. /\ Top.at \notin {"accept", "init"} /\ c \in AtHand
      /\ HandleClose(c, frames)
      /\ UNCHANGED <<serverVars, undefined, kernelVars, sends>>
  BY DEF ForceClose, InUserCode
<1>2. WellNested(frames)
  BY DEF ServerInv
<1>3. c \in Referenced /\ "accept" \notin Ats(frames) /\ "init" \notin Ats(frames)
  BY <1>1, <1>2, HeldIsReferenced, NotAccepting
<1>4. ToStop(frames) \ {c} \subseteq ToStop(frames)
  OBVIOUS
<1> QED BY <1>1, <1>2, <1>3, <1>4, CloseKeeps

LEMMA StopParts ==
  ASSUME WellNested(frames), In("stop"), NEW c \in Top.todo
  PROVE  /\ frames # <<>> /\ ConnsAt(frames, "init") = {}
         /\ "accept" \notin Ats(frames) /\ "init" \notin Ats(frames)
         /\ c \in Referenced
         /\ WellNested(WithTodo(Top.todo \ {c}))
         /\ Conns(WithTodo(Top.todo \ {c})) = Conns(frames)
         /\ Ats(WithTodo(Top.todo \ {c})) = Ats(frames)
         /\ \A at : ConnsAt(WithTodo(Top.todo \ {c}), at) = ConnsAt(frames, at)
         /\ ToStop(frames) \ {c} \subseteq ToStop(WithTodo(Top.todo \ {c}))
<1>1. frames # <<>> /\ Top.at = "stop"
  BY TopIs DEF In, InLoop
<1>2. Top = frames[Len(frames)] /\ GoodFrame(Top)
  BY <1>1, TopIs
<1>3. c \in Referenced
  BY <1>1, <1>2, HeldIsReferenced DEF GoodFrame
<1>4. /\ ConnsAt(frames, "init") = {}
      /\ "accept" \notin Ats(frames) /\ "init" \notin Ats(frames)
  BY <1>1, NotAccepting
<1>5. PICK g : g = Top /\ g = frames[Len(frames)]
  BY <1>2
<1>6. PICK todo : todo = Top.todo \ {c}
  OBVIOUS
<1>7. PICK r : r = WithTodo(todo) /\ Retells(r, frames, todo)
  BY <1>1, <1>2, <1>6 DEF WithTodo, Retells
<1>8. /\ WellNested(r)
      /\ Conns(r) = Conns(frames) /\ Ats(r) = Ats(frames)
      /\ \A at : ConnsAt(r, at) = ConnsAt(frames, at)
      /\ g.at = "stop" => ToStop(frames) \ (g.todo \ todo) \subseteq ToStop(r)
  BY <1>1, <1>5, <1>7, Retold
<1>9. ToStop(frames) \ {c} \subseteq ToStop(r)
  BY <1>1, <1>5, <1>6, <1>8
<1> QED BY <1>1, <1>3, <1>4, <1>6, <1>7, <1>8, <1>9

LEMMA StopNextKeeps ==
  ASSUME TypeOK, ServerInv, NEW c \in Channel, StopNext(c)
  PROVE  TypeOK' /\ ServerInv'
<1>1. PICK fs : fs = WithTodo(Top.todo \ {c})
  OBVIOUS
<1>2. /\ In("stop") /\ c \in Top.todo
      /\ \/ HandleClose(c, fs)
         \/ /\ status[c] = "disconnected" /\ frames' = fs
            /\ UNCHANGED <<pollerVars, status, misuse, early>>
      /\ UNCHANGED <<serverVars, undefined, kernelVars, sends>>
  BY <1>1 DEF StopNext
<1>3. /\ "accept" \notin Ats(frames) /\ "init" \notin Ats(frames)
      /\ c \in Referenced
      /\ WellNested(fs)
      /\ Conns(fs) = Conns(frames) /\ Ats(fs) = Ats(frames)
      /\ \A at : ConnsAt(fs, at) = ConnsAt(frames, at)
      /\ ToStop(frames) \ {c} \subseteq ToStop(fs)
  BY <1>1, <1>2, StopParts DEF ServerInv
<1>4. CASE HandleClose(c, fs)
  BY <1>2, <1>3, <1>4, CloseKeeps
<1>5. CASE /\ status[c] = "disconnected" /\ frames' = fs
           /\ UNCHANGED <<pollerVars, status, misuse, early>>
  <2>1. /\ UNCHANGED <<events, channels, epoll, status, acceptor, connections, early, misuse>>
        /\ UNCHANGED <<userHolds, backlog, peers, input, sends, undefined, batch>>
        /\ PollerTypeOK'
    BY <1>2, <1>5 DEF pollerVars, serverVars, kernelVars, PollerTypeOK, TypeOK
  <2>2. Referenced' = Referenced
    BY <1>3, <1>5, <2>1, ReferencedIs
  <2>3. AcceptorApart'
    BY <1>3, <1>5, <2>1, <2>2 DEF ServerInv, AcceptorApart
  <2>4. /\ WellNested(frames')
        /\ \A at : ConnsAt(frames', at) = ConnsAt(frames, at)
        /\ \A x \in ToStop(frames) : status[x] = "connected" => x \in ToStop(frames')
    BY <1>3, <1>5
  <2>5. ServerInv'
    BY <2>1, <2>2, <2>3, <2>4, CallsKeep
  <2> QED BY <2>1, <2>4, <2>5 DEF TypeOK, WellNested
<1> QED BY <1>2, <1>4, <1>5

(* stop() begins: the acceptor goes, and the set is copied. *)
LEMMA StopKeeps ==
  ASSUME TypeOK, ServerInv, Stop
  PROVE  TypeOK' /\ ServerInv'
<1>1. PICK f : f = [at |-> "stop", conns |-> connections, todo |-> connections]
  OBVIOUS
<1>2. /\ Top.at \notin {"accept", "init"} /\ acceptor' = NoChannel
      /\ \/ acceptor = NoChannel /\ UNCHANGED <<pollerVars, misuse>>
         \/ acceptor # NoChannel /\ DestroyAcceptor
      /\ frames' = Append(frames, f)
      /\ UNCHANGED <<connections, userHolds, status, undefined, backlog, peers, input>>
      /\ UNCHANGED <<sends, early>>
  BY <1>1 DEF Stop, InUserCode, kernelVars
<1>3. WellNested(frames) /\ connections \subseteq Channel
  BY DEF ServerInv, TypeOK
<1>4. GoodFrame(f) /\ f.at = "stop" /\ f.conns = connections /\ f.todo = connections
  BY <1>1, <1>3 DEF GoodFrame, Frame
<1>5. /\ "accept" \notin Ats(frames) /\ "init" \notin Ats(frames)
      /\ ConnsAt(frames, "init") = {}
  BY <1>2, <1>3, NotAccepting
<1>6. /\ WellNested(frames')
      /\ Conns(frames') = Conns(frames) \union connections
      /\ \A at : at # "stop" => ConnsAt(frames', at) = ConnsAt(frames, at)
      /\ Ats(frames') = Ats(frames) \union {"stop"}
      /\ ToStop(frames') = ToStop(frames) \union connections
  <2>1. /\ WellNested(Append(frames, f))
        /\ Conns(Append(frames, f)) = Conns(frames) \union f.conns
        /\ \A at : at # f.at => ConnsAt(Append(frames, f), at) = ConnsAt(frames, at)
        /\ Ats(Append(frames, f)) = Ats(frames) \union {f.at}
        /\ f.at = "stop" => ToStop(Append(frames, f)) = ToStop(frames) \union f.todo
    BY <1>3, <1>4, <1>5, Pushed
  <2> QED BY <1>2, <1>4, <2>1
<1>7. /\ Referenced' = Referenced /\ Referenced \subseteq Channel /\ Live \subseteq Channel
      /\ PollerTypeOK
  BY <1>2, <1>6, ReferencedIs, ReferencedTypes DEF TypeOK
<1>8. /\ PollerTypeOK' /\ batch' = batch
      /\ \A x \in Referenced : events'[x] = events[x]
  <2>1. CASE acceptor = NoChannel /\ UNCHANGED <<pollerVars, misuse>>
    BY <1>7, <2>1 DEF pollerVars, PollerTypeOK
  <2>2. CASE acceptor # NoChannel /\ DestroyAcceptor
    <3>1. acceptor \in Channel /\ {} \in SUBSET Event /\ UpdateChannel(acceptor, {})
      BY <2>2 DEF DestroyAcceptor, TypeOK
    <3>2. /\ PollerTypeOK'
          /\ \A x \in Channel : x # acceptor => events'[x] = events[x]
          /\ UNCHANGED <<revents, size, batch>>
      BY <1>7, <3>1, UpdateTypes
    <3>3. acceptor \notin Referenced
      BY DEF ServerInv, AcceptorApart
    <3> QED BY <1>7, <3>2, <3>3
  <2> QED BY <1>2, <2>1, <2>2
<1>9. misuse \subseteq misuse' /\ misuse' \subseteq {"lateSend", "closedTwice", "neverListened"}
  BY <1>2 DEF DestroyAcceptor, TypeOK
<1>10. TypeOK'
  BY <1>2, <1>6, <1>8, <1>9 DEF TypeOK, WellNested
<1>11. AcceptorApart'
  BY <1>2, <1>5, <1>6, <1>7, <1>8, NoChannelAssumption DEF ServerInv, AcceptorApart, PollerTypeOK
<1>12. OpenIsKnown'
  BY <1>2, <1>6, <1>7, <1>8 DEF ServerInv, OpenIsKnown
<1>13. OverIsKnown' /\ InHand'
  BY <1>2, <1>5, <1>6 DEF ServerInv, OverIsKnown, InHand
<1>14. StopComes'
  BY <1>2, <1>6, <1>7 DEF ServerInv, OpenIsKnown, StopComes
<1>15. ASSUME misuse' = {} PROVE OverIsSilent' /\ Registered'
  <2>1. misuse = {} /\ OverIsSilent /\ Registered
    BY <1>9, <1>15 DEF ServerInv
  <2>2. OverIsSilent'
    BY <1>2, <1>7, <1>8, <2>1 DEF OverIsSilent
  <2>3. CASE acceptor = NoChannel /\ UNCHANGED <<pollerVars, misuse>>
    <3>1. Live' = Live /\ UNCHANGED <<events, channels, epoll>>
      BY <1>2, <1>7, <2>3 DEF Live, pollerVars
    <3> QED BY <2>1, <2>2, <3>1 DEF Registered
  <2>4. CASE acceptor # NoChannel /\ DestroyAcceptor
    <3>1. acceptor \in channels /\ UpdateChannel(acceptor, {})
      BY <1>15, <2>1, <2>4 DEF DestroyAcceptor
    <3>2. acceptor \in Live /\ events[acceptor] # {} /\ {} \in SUBSET Event
      BY <2>1, <3>1 DEF Registered
    <3>3. /\ channels' = {x \in Live : events'[x] # {}}
          /\ \A x \in Live : epoll'[x] = IF events'[x] = {} THEN NotWatched ELSE events'[x]
      BY <1>7, <2>1, <3>1, <3>2, UpdateRegisters
    <3>4. events'[acceptor] = {}
      BY <1>7, <3>1, <3>2, UpdateTypes
    <3>5. Live' = Live \ {acceptor}
      BY <1>2, <1>7 DEF Live, ServerInv, AcceptorApart
    <3> QED BY <2>2, <3>3, <3>4, <3>5 DEF Registered
  <2> QED BY <1>2, <2>3, <2>4
<1> QED BY <1>6, <1>10, <1>11, <1>12, <1>13, <1>14, <1>15 DEF ServerInv

-----------------------------------------------------------------------------
(* The loop, the program and the kernel, where no call changes. *)

LEMMA ReturnsKeep ==
  ASSUME TypeOK, ServerInv, HandleReturns \/ MessageReturns \/ StopReturns \/ AcceptFails
  PROVE  TypeOK' /\ ServerInv'
<1>1. /\ Top.at \in {"handle", "message", "stop", "accept"}
      /\ Top.at = "stop" => Top.todo = {}
      /\ Top.at # "accept" => frames' = Returned
      /\ Top.at = "accept" => frames' = <<>>
      /\ UNCHANGED <<pollerVars, serverVars, status, undefined, kernelVars, historyVars>>
  BY DEF HandleReturns, MessageReturns, StopReturns, AcceptFails, In
<1>2. WellNested(frames)
  BY DEF ServerInv
<1>3. frames # <<>>
  BY <1>1, <1>2, TopIs DEF InLoop
<1>4. frames' = Returned
  BY <1>1, <1>2, <1>3, OnlyCall
<1>5. ServerInv'
  BY <1>1, <1>3, <1>4, ReturnKeeps
<1>6. frames' \in Seq(Frame)
  BY <1>5 DEF ServerInv, WellNested
<1> QED
  BY <1>1, <1>5, <1>6
  DEF TypeOK, PollerTypeOK, pollerVars, serverVars, kernelVars, historyVars

LEMMA QuietKeeps ==
  ASSUME TypeOK, ServerInv, AcceptorApart', Referenced' \subseteq Referenced,
         UNCHANGED <<events, channels, epoll, status, acceptor, connections, frames, early, misuse>>
  PROVE  ServerInv'
<1>1. WellNested(frames') /\ frames' = frames
  BY DEF ServerInv
<1>2. /\ ConnsAt(frames', "up") = ConnsAt(frames, "up")
      /\ ConnsAt(frames', "down") = ConnsAt(frames, "down")
      /\ ConnsAt(frames', "init") = ConnsAt(frames, "init")
      /\ ToStop(frames') = ToStop(frames)
  BY <1>1
<1> QED BY <1>1, <1>2, CallsKeep

LEMMA PollKeeps ==
  ASSUME TypeOK, ServerInv, Poll
  PROVE  TypeOK' /\ ServerInv'
<1>1. frames = <<>> /\ frames' = frames
  BY TopIs DEF Poll, ServerInv
<1>2. UNCHANGED <<serverVars, status, undefined, kernelVars, historyVars>>
  BY DEF Poll
<1>3. PICK room \in SUBSET Referenced : PollEvents([c \in Channel |-> Report(c, room)])
  BY DEF Poll
<1>4. PICK report : report = [c \in Channel |-> Report(c, room)] /\ PollEvents(report)
  BY <1>3
<1>5. /\ batch' \subseteq {c \in Channel : report[c] # {}}
      /\ size' \in {2 * size, size}
      /\ \A c \in Channel : revents'[c] \in {report[c], revents[c]}
      /\ revents' = [c \in Channel |-> revents'[c]]
      /\ UNCHANGED <<events, channels, epoll>>
  BY <1>4 DEF PollEvents
<1>6. \A c \in Channel : report[c] \subseteq Reported
  BY <1>4 DEF Report
<1>7. PollerTypeOK'
  BY <1>5, <1>6 DEF TypeOK, PollerTypeOK
<1>8. TypeOK'
  BY <1>1, <1>2, <1>7 DEF TypeOK, serverVars, kernelVars, historyVars
<1>9. ASSUME acceptor \in batch' PROVE backlog > 0
  <2>1. acceptor \in Channel /\ Report(acceptor, room) # {}
    BY <1>4, <1>5, <1>9
  <2>2. acceptor \notin Referenced /\ input[acceptor] = "none"
    BY <2>1 DEF ServerInv, AcceptorApart
  <2>3. acceptor \notin room
    BY <1>3, <2>2
  <2> QED BY <2>1, <2>2, <2>3 DEF Report
<1>10. AcceptorApart'
  BY <1>1, <1>2, <1>9, NoCalls, ReferencedIs
  DEF ServerInv, AcceptorApart, serverVars, kernelVars
<1>11. Referenced' = Referenced
  BY <1>1, <1>2, ReferencedIs DEF serverVars
<1>12. UNCHANGED <<status, acceptor, connections, frames, early, misuse>>
  BY <1>1, <1>2 DEF serverVars, historyVars
<1> QED BY <1>5, <1>8, <1>10, <1>11, <1>12, QuietKeeps

LEMMA HandleConnectionKeeps ==
  ASSUME TypeOK, ServerInv, NEW c \in Channel, HandleConnection(c)
  PROVE  TypeOK' /\ ServerInv'
<1>1. PICK f : f = [at |-> "handle", conns |-> {c}, todo |-> Callbacks(revents[c])]
  OBVIOUS
<1>2. /\ frames = <<>> /\ c \in Referenced
      /\ frames' = <<f>>
      /\ TakeFromBatch(c)
      /\ UNCHANGED <<serverVars, status, undefined, kernelVars, historyVars>>
  BY <1>1, TopIs DEF HandleConnection, ServerInv
<1>3. GoodFrame(f) /\ f.at = "handle" /\ f.conns = {c}
  BY <1>1, CallFrame DEF Callbacks
<1>4. /\ WellNested(frames') /\ Conns(frames') = {c} /\ Ats(frames') = {"handle"}
      /\ ConnsAt(frames', "up") = {} /\ ConnsAt(frames', "down") = {}
      /\ ConnsAt(frames', "init") = {}
  BY <1>2, <1>3, Alone
<1>5. /\ PollerTypeOK' /\ batch' \subseteq batch
      /\ UNCHANGED <<events, channels, epoll>>
  BY <1>2 DEF TakeFromBatch, TypeOK, PollerTypeOK
<1>6. /\ UNCHANGED <<status, acceptor, connections, userHolds, early, misuse>>
      /\ UNCHANGED <<backlog, peers, input, sends, undefined>>
  BY <1>2 DEF serverVars, kernelVars, historyVars
<1>7. /\ Conns(frames) = {} /\ \A at : ConnsAt(frames, at) = {}
      /\ ToStop(frames) = {}
  BY <1>2, NoCalls
<1>8. Referenced' = Referenced
  BY <1>2, <1>4, <1>6, <1>7, ReferencedIs
<1>9. AcceptorApart'
  BY <1>4, <1>5, <1>6, <1>8 DEF ServerInv, AcceptorApart
<1>10. TypeOK'
  BY <1>4, <1>5, <1>6 DEF TypeOK, WellNested
<1> QED BY <1>4, <1>5, <1>6, <1>7, <1>8, <1>9, <1>10, CallsKeep

LEMMA HandleAcceptorKeeps ==
  ASSUME TypeOK, ServerInv, NEW c \in Channel, HandleAcceptor(c)
  PROVE  TypeOK' /\ ServerInv'
<1>1. PICK f : f = [at |-> "accept", conns |-> {}, todo |-> {}]
  OBVIOUS
<1>2. /\ frames = <<>> /\ c = acceptor /\ acceptor \in batch
      /\ frames' = <<f>>
      /\ TakeFromBatch(c)
      /\ UNCHANGED <<serverVars, status, undefined, kernelVars, historyVars>>
  BY <1>1, TopIs DEF HandleAcceptor, ServerInv
<1>3. GoodFrame(f) /\ f.at = "accept" /\ f.conns = {}
  BY <1>1 DEF GoodFrame, Frame
<1>4. /\ WellNested(frames') /\ Conns(frames') = {} /\ Ats(frames') = {"accept"}
      /\ ConnsAt(frames', "up") = {} /\ ConnsAt(frames', "down") = {}
      /\ ConnsAt(frames', "init") = {}
  BY <1>2, <1>3, Alone
<1>5. /\ PollerTypeOK' /\ batch' = batch \ {acceptor}
      /\ UNCHANGED <<events, channels, epoll>>
  BY <1>2 DEF TakeFromBatch, TypeOK, PollerTypeOK
<1>6. /\ UNCHANGED <<status, acceptor, connections, userHolds, early, misuse>>
      /\ UNCHANGED <<backlog, peers, input, sends, undefined>>
  BY <1>2 DEF serverVars, kernelVars, historyVars
<1>7. /\ Conns(frames) = {} /\ \A at : ConnsAt(frames, at) = {}
      /\ ToStop(frames) = {}
  BY <1>2, NoCalls
<1>8. Referenced' = Referenced
  BY <1>4, <1>6, <1>7, ReferencedIs
<1>9. AcceptorApart'
  BY <1>2, <1>4, <1>5, <1>6, <1>8, NoChannelAssumption DEF ServerInv, AcceptorApart
<1>10. TypeOK'
  BY <1>4, <1>5, <1>6 DEF TypeOK, WellNested
<1> QED BY <1>4, <1>5, <1>6, <1>7, <1>8, <1>9, <1>10, CallsKeep

LEMMA HoldsKeep ==
  ASSUME TypeOK, ServerInv, NEW c \in Channel, Keep(c) \/ LetGo(c)
  PROVE  TypeOK' /\ ServerInv'
<1>1. /\ userHolds' \subseteq userHolds \union AtHand
      /\ UNCHANGED <<pollerVars, acceptor, connections, status, frames, undefined, kernelVars>>
      /\ UNCHANGED historyVars
  BY DEF Keep, LetGo
<1>2. /\ UNCHANGED <<events, channels, epoll, batch, backlog, peers, input>>
      /\ UNCHANGED <<sends, misuse, early>> /\ PollerTypeOK'
  BY <1>1 DEF pollerVars, kernelVars, historyVars, PollerTypeOK, TypeOK
<1>3. AtHand \subseteq Referenced /\ Referenced \subseteq Channel
  BY HeldIsReferenced, ReferencedTypes DEF ServerInv
<1>4. Referenced' \subseteq Referenced
  BY <1>1, <1>3, ReferencedIs
<1>5. userHolds' \subseteq Channel
  BY <1>1, <1>3 DEF TypeOK
<1>6. TypeOK'
  BY <1>1, <1>2, <1>5 DEF TypeOK
<1>7. AcceptorApart'
  BY <1>1, <1>2, <1>4 DEF ServerInv, AcceptorApart
<1> QED BY <1>1, <1>2, <1>4, <1>6, <1>7, QuietKeeps

LEMMA PeersKeep ==
  ASSUME TypeOK, ServerInv, PeerConnects \/ \E c \in Channel : PeerActs(c)
  PROVE  TypeOK' /\ ServerInv'
<1>1. UNCHANGED <<pollerVars, serverVars, status, frames, undefined, historyVars>>
  BY DEF PeerConnects, PeerActs
<1>2. /\ UNCHANGED <<events, channels, epoll, batch, acceptor, connections, userHolds>>
      /\ UNCHANGED <<sends, misuse, early>> /\ PollerTypeOK'
  BY <1>1 DEF pollerVars, serverVars, historyVars, PollerTypeOK, TypeOK
<1>3. Referenced' = Referenced
  BY <1>1, <1>2, ReferencedIs
<1>4. CASE PeerConnects
  <2>1. /\ backlog' = backlog + 1 /\ peers' = peers + 1 /\ peers < MaxPeers
        /\ input' = input
    BY <1>4 DEF PeerConnects
  <2>2. backlog' \in 0..MaxPeers /\ peers' \in 0..MaxPeers /\ backlog' <= peers' /\ backlog' > 0
    BY <2>1, BoundsAssumption DEF TypeOK, ServerInv, AcceptorApart
  <2>3. AcceptorApart'
    BY <1>1, <1>2, <1>3, <2>1, <2>2 DEF ServerInv, AcceptorApart
  <2>4. TypeOK'
    BY <1>1, <1>2, <2>1, <2>2 DEF TypeOK
  <2> QED BY <1>1, <1>2, <1>3, <2>3, <2>4, QuietKeeps
<1>5. ASSUME NEW c \in Channel, PeerActs(c) PROVE TypeOK' /\ ServerInv'
  <2>1. /\ c \in Referenced /\ UNCHANGED <<backlog, peers>>
        /\ \E i \in {"data", "end", "reset"} : input' = [input EXCEPT ![c] = i]
    BY <1>5 DEF PeerActs
  <2>2. c # acceptor
    BY <2>1 DEF ServerInv, AcceptorApart
  <2>3. /\ input' \in [Channel -> {"none", "data", "end", "reset"}]
        /\ acceptor \in Channel => input'[acceptor] = "none"
    BY <2>1, <2>2 DEF TypeOK, ServerInv, AcceptorApart
  <2>4. AcceptorApart'
    BY <1>1, <1>2, <1>3, <2>1, <2>3 DEF ServerInv, AcceptorApart
  <2>5. TypeOK'
    BY <1>1, <1>2, <2>1, <2>3 DEF TypeOK
  <2> QED BY <1>1, <1>2, <1>3, <2>4, <2>5, QuietKeeps
<1> QED BY <1>4, <1>5

(* listen(), or nothing of it; without an acceptor only the types last. *)
LEMMA StartKeeps ==
  ASSUME TypeOK, ServerInv, StartInLoop
  PROVE  TypeOK' /\ (~undefined' => ServerInv')
<1>1. /\ UNCHANGED <<acceptor, connections, userHolds, status, frames, backlog, peers, input>>
      /\ UNCHANGED <<sends, misuse, early>>
  BY DEF StartInLoop, serverVars, kernelVars, historyVars
<1>2. Referenced' = Referenced
  BY <1>1, ReferencedIs
<1>3. CASE UNCHANGED pollerVars
  <2>1. UNCHANGED <<events, channels, epoll, batch>> /\ PollerTypeOK'
    BY <1>3 DEF pollerVars, PollerTypeOK, TypeOK
  <2>2. undefined' \in BOOLEAN
    BY DEF StartInLoop, TypeOK
  <2>3. AcceptorApart'
    BY <1>1, <1>2, <2>1 DEF ServerInv, AcceptorApart
  <2> QED BY <1>1, <1>2, <2>1, <2>2, <2>3, QuietKeeps DEF TypeOK
<1>4. CASE acceptor # NoChannel /\ Listen /\ UNCHANGED undefined
  <2>1. /\ acceptor \in Channel /\ {"in"} \in SUBSET Event /\ UpdateChannel(acceptor, {"in"})
        /\ PollerTypeOK
    BY <1>4 DEF Listen, TypeOK, Event
  <2>2. /\ PollerTypeOK'
        /\ \A x \in Channel : x # acceptor => events'[x] = events[x]
        /\ UNCHANGED <<revents, size, batch>>
    BY <2>1, UpdateTypes
  <2>3. acceptor \notin Referenced /\ Referenced \subseteq Channel /\ Live \subseteq Channel
    BY ReferencedTypes DEF ServerInv, AcceptorApart
  <2>4. \A x \in Referenced : events'[x] = events[x]
    BY <2>2, <2>3
  <2>5. TypeOK'
    BY <1>1, <1>4, <2>2 DEF TypeOK
  <2>6. AcceptorApart' /\ OpenIsKnown' /\ OverIsKnown' /\ StopComes'
    BY <1>1, <1>2, <2>2, <2>4
    DEF ServerInv, AcceptorApart, OpenIsKnown, OverIsKnown, StopComes
  <2>7. InHand'
    <3>1. ConnsAt(frames, "init") \subseteq Referenced
      BY ConnsAtAll, ReferencedIs
    <3> QED BY <1>1, <2>4, <3>1 DEF ServerInv, InHand
  <2>8. ASSUME misuse' = {} PROVE OverIsSilent' /\ Registered'
    <3>1. OverIsSilent /\ Registered
      BY <1>1, <2>8 DEF ServerInv
    <3>2. acceptor \in Live /\ Live' = Live
      BY <1>1, <1>2, <1>4 DEF Live
    <3>3. OverIsSilent'
      BY <1>1, <1>2, <2>4, <3>1 DEF OverIsSilent
    <3>4. /\ channels' = {x \in Live : events'[x] # {}}
          /\ \A x \in Live : epoll'[x] = IF events'[x] = {} THEN NotWatched ELSE events'[x]
      <4>1. {"in"} # {}
        OBVIOUS
      <4> QED BY <2>1, <2>3, <3>1, <3>2, <4>1, UpdateRegisters
    <3> QED BY <3>2, <3>3, <3>4 DEF Registered
  <2>9. WellNested(frames')
    BY <1>1 DEF ServerInv
  <2> QED BY <2>5, <2>6, <2>7, <2>8, <2>9 DEF ServerInv
<1> QED BY <1>3, <1>4 DEF StartInLoop

LEMMA DeadChannelTypes ==
  ASSUME TypeOK, NEW c \in Channel, HandleDeadChannel(c)
  PROVE  TypeOK' /\ undefined'
<1>1. /\ undefined' = TRUE /\ TakeFromBatch(c)
      /\ UNCHANGED <<serverVars, status, frames, kernelVars, historyVars>>
  BY DEF HandleDeadChannel
<1>2. PollerTypeOK'
  BY <1>1 DEF TakeFromBatch, TypeOK, PollerTypeOK
<1> QED BY <1>1, <1>2 DEF TypeOK, serverVars, kernelVars, historyVars

-----------------------------------------------------------------------------
LEMMA InitInv == Init => Inv
<1> SUFFICES ASSUME Init PROVE Inv
  OBVIOUS
<1>1. acceptor \in Channel
  BY ChannelAssumption DEF Init
<1>2. /\ connections = {} /\ userHolds = {} /\ frames = <<>> /\ batch = {} /\ channels = {}
      /\ status = [c \in Channel |-> "disconnected"]
      /\ undefined = FALSE /\ backlog = 0 /\ peers = 0 /\ sends = 0
      /\ input = [c \in Channel |-> "none"] /\ misuse = {} /\ early = {}
      /\ events = [c \in Channel |-> {}] /\ epoll = [c \in Channel |-> NotWatched]
  BY DEF Init, PollerInit
<1>3. PollerTypeOK
  BY SizeAssumption DEF Init, PollerInit, PollerTypeOK
<1>4. TypeOK
  <2>1. frames \in Seq(Frame)
    BY <1>2
  <2>2. backlog \in 0..MaxPeers /\ peers \in 0..MaxPeers /\ sends \in 0..MaxSends
    BY <1>2, BoundsAssumption
  <2>3. /\ status \in [Channel -> {"connected", "disconnected"}]
        /\ input \in [Channel -> {"none", "data", "end", "reset"}]
    BY <1>2
  <2> QED BY <1>1, <1>2, <1>3, <2>1, <2>2, <2>3 DEF TypeOK
<1>5. /\ WellNested(frames) /\ Conns(frames) = {} /\ Ats(frames) = {}
      /\ \A at : ConnsAt(frames, at) = {}
  BY <1>2, NoCalls
<1>6. Referenced = {} /\ Live \subseteq Channel
  BY <1>2, <1>4, <1>5, ReferencedIs, ReferencedTypes
<1>7. AcceptorApart
  BY <1>1, <1>2, <1>5, <1>6, NoChannelAssumption DEF AcceptorApart
<1>8. OpenIsKnown /\ OverIsKnown /\ InHand /\ StopComes /\ OverIsSilent
  BY <1>2, <1>5, <1>6 DEF OpenIsKnown, OverIsKnown, InHand, StopComes, OverIsSilent
<1>9. Registered
  BY <1>2, <1>6 DEF Registered
<1> QED BY <1>4, <1>5, <1>7, <1>8, <1>9 DEF Inv, ServerInv

LEMMA NextInv == Inv /\ [Next]_vars => Inv'
<1> SUFFICES ASSUME Inv, [Next]_vars PROVE Inv'
  OBVIOUS
<1>1. TypeOK
  BY DEF Inv
<1>2. CASE UNCHANGED vars
  <2>1. TypeOK'
    BY <1>1, <1>2
    DEF TypeOK, PollerTypeOK, vars, pollerVars, serverVars, kernelVars, historyVars
  <2>2. ASSUME ~undefined' PROVE ServerInv'
    <3>1. ServerInv
      BY <1>2, <2>2 DEF Inv, vars
    <3>2. /\ UNCHANGED <<events, channels, epoll, batch, acceptor, connections, userHolds>>
          /\ UNCHANGED <<status, frames, backlog, peers, input, misuse, early>>
      BY <1>2 DEF vars, pollerVars, serverVars, kernelVars, historyVars
    <3>3. Referenced' = Referenced
      BY <3>2, ReferencedIs
    <3>4. AcceptorApart'
      BY <3>1, <3>2, <3>3 DEF ServerInv, AcceptorApart
    <3> QED BY <1>1, <3>1, <3>2, <3>3, <3>4, QuietKeeps
  <2> QED BY <2>1, <2>2 DEF Inv
<1>3. CASE Next
  <2>1. ~undefined /\ ServerInv
    BY <1>3 DEF Next, Inv
  <2>2. ASSUME LoopStep PROVE Inv'
    <3>1. CASE RemoveConnection
      BY <1>1, <2>1, <3>1, RemoveKeeps DEF Inv
    <3>2. CASE DispatchClose
      BY <1>1, <2>1, <3>2, DispatchCloseKeeps DEF Inv
    <3>3. CASE DispatchRead
      BY <1>1, <2>1, <3>3, DispatchReadKeeps DEF Inv
    <3>4. CASE DispatchWrite
      BY <1>1, <2>1, <3>4, DispatchWriteKeeps DEF Inv
    <3>5. CASE HandleReturns \/ MessageReturns \/ StopReturns \/ AcceptFails
      BY <1>1, <2>1, <3>5, ReturnsKeep DEF Inv
    <3>6. CASE Poll
      BY <1>1, <2>1, <3>6, PollKeeps DEF Inv
    <3>7. CASE InitConnection
      BY <1>1, <2>1, <3>7, InitKeeps DEF Inv
    <3>8. CASE NewConnectionReturns
      BY <1>1, <2>1, <3>8, NewConnectionKeeps DEF Inv
    <3>9. ASSUME NEW c \in Channel, HandleConnection(c) PROVE Inv'
      BY <1>1, <2>1, <3>9, HandleConnectionKeeps DEF Inv
    <3>10. ASSUME NEW c \in Channel, HandleDeadChannel(c) PROVE Inv'
      BY <1>1, <3>10, DeadChannelTypes DEF Inv
    <3>11. ASSUME NEW c \in Channel, HandleAcceptor(c) PROVE Inv'
      BY <1>1, <2>1, <3>11, HandleAcceptorKeeps DEF Inv
    <3>12. ASSUME NEW c \in Channel, Accept(c) PROVE Inv'
      BY <1>1, <2>1, <3>12, AcceptKeeps DEF Inv
    <3>13. ASSUME NEW c \in Channel, StopNext(c) PROVE Inv'
      BY <1>1, <2>1, <3>13, StopNextKeeps DEF Inv
    <3> QED
      BY <2>2, <3>1, <3>2, <3>3, <3>4, <3>5, <3>6, <3>7, <3>8, <3>9, <3>10, <3>11, <3>12, <3>13
      DEF LoopStep
  <2>3. ASSUME UserCode PROVE Inv'
    <3>1. CASE StartInLoop
      BY <1>1, <2>1, <3>1, StartKeeps DEF Inv
    <3>2. CASE Stop
      BY <1>1, <2>1, <3>2, StopKeeps DEF Inv
    <3>3. ASSUME NEW c \in Channel, ForceClose(c) PROVE Inv'
      BY <1>1, <2>1, <3>3, ForceCloseKeeps DEF Inv
    <3>4. ASSUME NEW c \in Channel, Send(c) PROVE Inv'
      BY <1>1, <2>1, <3>4, SendKeeps DEF Inv
    <3>5. ASSUME NEW c \in Channel, Keep(c) \/ LetGo(c) PROVE Inv'
      BY <1>1, <2>1, <3>5, HoldsKeep DEF Inv
    <3> QED BY <2>3, <3>1, <3>2, <3>3, <3>4, <3>5 DEF UserCode
  <2>4. CASE PeerConnects \/ \E c \in Channel : PeerActs(c)
    BY <1>1, <2>1, <2>4, PeersKeep DEF Inv
  <2> QED BY <1>3, <2>2, <2>3, <2>4 DEF Next
<1> QED BY <1>2, <1>3

LEMMA InvHolds == Spec => []Inv
BY InitInv, NextInv, PTL DEF Spec

-----------------------------------------------------------------------------
(* The variables of the poller, the server, the calls and the kernel keep  *)
(* their types, however deep the calls go (tcp_server.hpp:70-86,           *)
(* event_poller.hpp:60-70).                                                *)
THEOREM TypeCorrect == Spec => []TypeOK
<1>1. Inv => TypeOK
  BY DEF Inv
<1> QED BY <1>1, InvHolds, PTL

(* Whatever order the connections begin and end in, at the same addresses  *)
(* or at new ones, epoll watches every channel for what it asks for and    *)
(* channels_ has no dead one, but for the three misuses that               *)
(* RegistrationFollows exempts (event_poller.cpp:80-101,                   *)
(* tcp_connection.cpp:268-279).                                            *)
THEOREM RegistrationsFollow == Spec => []RegistrationFollows
<1>1. Inv => RegistrationFollows
  BY DEF Inv, ServerInv, Registered, RegistrationFollows
<1> QED BY <1>1, InvHolds, PTL

(* An open connection is in connections_ or being accepted; one that is    *)
(* over is on its way out of connections_, unless it was closed before it  *)
(* got in (tcp_server.cpp:61-104).                                         *)
THEOREM ServerKnowsThem == Spec => []ServerKnows
<1>1. Inv => ServerKnows
  BY WithinIs DEF Inv, ServerInv, OpenIsKnown, OverIsKnown, ServerKnows
<1> QED BY <1>1, InvHolds, PTL

(* Once stop() was called nothing is accepted any more, and each open       *)
(* connection is one that a stop() has yet to come to, whatever the         *)
(* callbacks did that it made; but for the one whose connection callback    *)
(* made the call, which stop() leaves open (tcp_server.cpp:47-59, 80-81).   *)
THEOREM AcceptedAreClosed == Spec => []StopClosesAccepted
<1>1. Inv => StopClosesAccepted
  <2> SUFFICES ASSUME Inv, ~undefined, acceptor = NoChannel
               PROVE  /\ \A f \in ToSet(frames) : f.at \notin {"accept", "init"}
                      /\ \A c \in Referenced : status[c] = "connected" =>
                           c \in ToStop(frames) \union Within({"up"})
    BY DEF StopClosesAccepted
  <2>1. AcceptorApart /\ StopComes
    BY DEF Inv, ServerInv
  <2>2. \A f \in ToSet(frames) : f.at \notin {"accept", "init"}
    BY <2>1 DEF AcceptorApart, Ats
  <2>3. \A c \in Referenced : status[c] = "connected" =>
          c \in ToStop(frames) \union Within({"up"})
    BY <2>1, WithinIs DEF StopComes
  <2> QED BY <2>2, <2>3
<1> QED BY <1>1, InvHolds, PTL
================================================================================
