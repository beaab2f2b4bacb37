-------------------------- MODULE TcpConnectionProofs --------------------------
(***************************************************************************)
(* Proofs about TcpConnection, for any number of bytes and functors and    *)
(* any size of the socket's buffer: type correctness, the order of the     *)
(* stream, the interest in EPOLLOUT, the one end of a connection, its safe *)
(* destruction, and that it implements TcpStream.                          *)
(***************************************************************************)
EXTENDS TcpConnection, TLAPS

Byte == 1..MaxBytes

(* s is the bytes m + 1, m + 2, ... *)
From(m, s) == \A i \in 1..Len(s) : s[i] = m + i

(* The bytes 1, ..., a are in w and behind it in b. *)
InOrder(w, b, a) == Len(w) + Len(b) = a /\ From(0, w) /\ From(Len(w), b)

(* Nothing happens to a connection before initInLoop. *)
Fresh ==
  ups = 0 =>
    /\ status = "disconnected" /\ ~reading /\ ~writing
    /\ wbuf = <<>> /\ acc = 0 /\ ops = <<>> /\ pc = "idle"
    /\ alive /\ ownerHolds /\ downs = 0 /\ ~finSent

(* Which callbacks are still to come: handlerEventSafe calls closeCallback_ *)
(* or readCallback_, first, and once.                                      *)
Dispatching ==
  /\ pc = "idle" => rev = {}
  /\ pc = "callback" => rev \subseteq {"write"}
  /\ ~("close" \in rev /\ "read" \in rev)
  /\ pc = "dispatch" /\ status = "disconnected" /\ spoiled = {} => rev \subseteq {"write"}

(* A connection that is over asks for no events, unless for output of a    *)
(* send that came too late.                                                *)
OverIsUnregistered ==
  status = "disconnected" =>
    /\ ~reading
    /\ "lateSend" \notin spoiled => ~writing

(* The owner holds on to an open connection, and nobody uses a dead one. *)
Held ==
  /\ ~ownerHolds => status = "disconnected" /\ ups = 1
  /\ ~alive => ~ownerHolds /\ ~userHolds /\ ops = <<>> /\ pc \in {"idle", "polled"}

(* The invariant, in the part about bytes and the part about the life of   *)
(* the connection.                                                         *)
BytesInv == TypeOK /\ InOrder(wire, wbuf, acc) /\ PendingIsWatched
LifeInv == Fresh /\ Dispatching /\ OverIsUnregistered /\ Held /\ EndsOnce

-----------------------------------------------------------------------------
(* Sequences. *)

LEMMA FrontOf ==
  ASSUME NEW S, NEW s \in Seq(S), NEW n \in 0..Len(s)
  PROVE  /\ SubSeq(s, 1, n) \in Seq(S)
         /\ Len(SubSeq(s, 1, n)) = n
         /\ \A i \in 1..n : SubSeq(s, 1, n)[i] = s[i]
OBVIOUS

LEMMA RestOf ==
  ASSUME NEW S, NEW s \in Seq(S), NEW n \in 0..Len(s)
  PROVE  /\ SubSeq(s, n + 1, Len(s)) \in Seq(S)
         /\ Len(SubSeq(s, n + 1, Len(s))) = Len(s) - n
         /\ \A i \in 1..(Len(s) - n) : SubSeq(s, n + 1, Len(s))[i] = s[n + i]
OBVIOUS

LEMMA Joined ==
  ASSUME NEW S, NEW m \in Nat, NEW s \in Seq(S), NEW t \in Seq(S),
         From(m, s), From(m + Len(s), t)
  PROVE  /\ s \o t \in Seq(S)
         /\ Len(s \o t) = Len(s) + Len(t)
         /\ From(m, s \o t)
<1>1. /\ s \o t \in Seq(S)
      /\ Len(s \o t) = Len(s) + Len(t)
  OBVIOUS
<1>2. Len(s) \in Nat /\ Len(t) \in Nat
  OBVIOUS
<1>3. ASSUME NEW i \in 1..(Len(s) + Len(t)) PROVE (s \o t)[i] = m + i
  <2>1. (s \o t)[i] = IF i <= Len(s) THEN s[i] ELSE t[i - Len(s)]
    OBVIOUS
  <2>2. CASE i <= Len(s)
    BY <2>1, <2>2, <1>2 DEF From
  <2>3. CASE i > Len(s)
    <3>1. i - Len(s) \in 1..Len(t) /\ Len(s) + (i - Len(s)) = i
      BY <2>3, <1>2
    <3>2. t[i - Len(s)] = m + Len(s) + (i - Len(s))
      BY <3>1 DEF From
    <3> QED BY <2>1, <2>3, <3>1, <3>2, <1>2
  <2> QED BY <2>2, <2>3, <1>2
<1>4. From(m, s \o t)
  BY <1>1, <1>3 DEF From
<1> QED BY <1>1, <1>4

LEMMA EmptyFrom == ASSUME NEW m, NEW s, Len(s) = 0 PROVE From(m, s)
BY DEF From

(* A sequence is cut in two after n of its elements. *)
LEMMA Cut ==
  ASSUME NEW S, NEW m \in Nat, NEW s \in Seq(S), NEW n \in 0..Len(s), From(m, s)
  PROVE  /\ SubSeq(s, 1, n) \in Seq(S) /\ Len(SubSeq(s, 1, n)) = n
         /\ From(m, SubSeq(s, 1, n))
         /\ SubSeq(s, n + 1, Len(s)) \in Seq(S) /\ Len(SubSeq(s, n + 1, Len(s))) = Len(s) - n
         /\ From(m + n, SubSeq(s, n + 1, Len(s)))
<1>1. /\ SubSeq(s, 1, n) \in Seq(S) /\ Len(SubSeq(s, 1, n)) = n
      /\ \A i \in 1..n : SubSeq(s, 1, n)[i] = s[i]
  BY FrontOf
<1>2. /\ SubSeq(s, n + 1, Len(s)) \in Seq(S) /\ Len(SubSeq(s, n + 1, Len(s))) = Len(s) - n
      /\ \A i \in 1..(Len(s) - n) : SubSeq(s, n + 1, Len(s))[i] = s[n + i]
  BY RestOf
<1>3. ASSUME NEW i \in 1..n PROVE s[i] = m + i
  BY DEF From
<1>4. ASSUME NEW i \in 1..(Len(s) - n) PROVE s[n + i] = m + n + i
  <2>1. n + i \in 1..Len(s)
    OBVIOUS
  <2> QED BY <2>1 DEF From
<1>5. From(m, SubSeq(s, 1, n))
  BY <1>1, <1>3 DEF From
<1>6. From(m + n, SubSeq(s, n + 1, Len(s)))
  BY <1>2, <1>4 DEF From
<1> QED BY <1>1, <1>2, <1>5, <1>6

(* What is written to the socket at once, and what is left to writeBuffer_. *)
LEMMA SentInOrder ==
  ASSUME NEW S, NEW w \in Seq(S), NEW b \in Seq(S), NEW x \in Seq(S), NEW y \in Seq(S),
         NEW a \in Nat, InOrder(w, b, a), From(a, x), From(a + Len(x), y),
         Len(x) = 0 \/ Len(b) = 0
  PROVE  /\ w \o x \in Seq(S) /\ Len(w \o x) = Len(w) + Len(x)
         /\ b \o y \in Seq(S) /\ Len(b \o y) = Len(b) + Len(y)
         /\ InOrder(w \o x, b \o y, a + Len(x) + Len(y))
<1>1. Len(w) \in Nat /\ Len(b) \in Nat /\ Len(x) \in Nat /\ Len(y) \in Nat
  OBVIOUS
<1>2. Len(w) + Len(b) = a /\ From(0, w) /\ From(Len(w), b)
  BY DEF InOrder
<1>3. From(0 + Len(w), x) /\ From(Len(w) + Len(x), b)
  <2>1. CASE Len(x) = 0
    <3>1. From(0 + Len(w), x)
      BY <2>1, EmptyFrom
    <3>2. Len(w) + Len(x) = Len(w)
      BY <2>1, <1>1
    <3> QED BY <3>1, <3>2, <1>2
  <2>2. CASE Len(b) = 0
    <3>1. From(Len(w) + Len(x), b)
      BY <2>2, EmptyFrom
    <3>2. 0 + Len(w) = a
      BY <2>2, <1>1, <1>2
    <3> QED BY <3>1, <3>2
  <2> QED BY <2>1, <2>2
<1>4. Len(w) + Len(x) + Len(b) = a + Len(x) /\ Len(w) + Len(x) \in Nat
  BY <1>1, <1>2
<1>5. /\ w \o x \in Seq(S) /\ Len(w \o x) = Len(w) + Len(x)
      /\ From(0, w \o x)
  BY <1>2, <1>3, Joined, 0 \in Nat
<1>6. /\ b \o y \in Seq(S) /\ Len(b \o y) = Len(b) + Len(y)
      /\ From(Len(w) + Len(x), b \o y)
  BY <1>3, <1>4, Joined
<1>7. Len(w) + Len(x) + (Len(b) + Len(y)) = a + Len(x) + Len(y)
  <2>1. \A p, q, r, t \in Nat : p + q + (r + t) = (p + q + r) + t
    OBVIOUS
  <2>2. Len(w) + Len(x) + (Len(b) + Len(y)) = (Len(w) + Len(x) + Len(b)) + Len(y)
    BY <1>1, <2>1
  <2> QED BY <1>4, <2>2
<1> QED BY <1>5, <1>6, <1>7 DEF InOrder

(* What handleWrite moves from writeBuffer_ to the socket. *)
LEMMA FlushedInOrder ==
  ASSUME NEW S, NEW w \in Seq(S), NEW b \in Seq(S), NEW n \in 0..Len(b), NEW a \in Nat,
         InOrder(w, b, a)
  PROVE  /\ w \o SubSeq(b, 1, n) \in Seq(S) /\ Len(w \o SubSeq(b, 1, n)) = Len(w) + n
         /\ SubSeq(b, n + 1, Len(b)) \in Seq(S) /\ Len(SubSeq(b, n + 1, Len(b))) = Len(b) - n
         /\ InOrder(w \o SubSeq(b, 1, n), SubSeq(b, n + 1, Len(b)), a)
<1>1. Len(w) \in Nat /\ Len(b) \in Nat /\ 0 + Len(w) = Len(w)
  OBVIOUS
<1>2. Len(w) + Len(b) = a /\ From(0, w) /\ From(Len(w), b)
  BY DEF InOrder
<1>3. /\ SubSeq(b, 1, n) \in Seq(S) /\ Len(SubSeq(b, 1, n)) = n
      /\ From(0 + Len(w), SubSeq(b, 1, n))
      /\ SubSeq(b, n + 1, Len(b)) \in Seq(S) /\ Len(SubSeq(b, n + 1, Len(b))) = Len(b) - n
      /\ From(Len(w) + n, SubSeq(b, n + 1, Len(b)))
  BY <1>1, <1>2, Cut
<1>4. /\ w \o SubSeq(b, 1, n) \in Seq(S) /\ Len(w \o SubSeq(b, 1, n)) = Len(w) + n
      /\ From(0, w \o SubSeq(b, 1, n))
  <2>1. PICK x \in Seq(S) : x = SubSeq(b, 1, n)
    BY <1>3
  <2>2. Len(x) = n /\ From(0 + Len(w), x)
    BY <1>3, <2>1
  <2>3. w \o x \in Seq(S) /\ Len(w \o x) = Len(w) + Len(x) /\ From(0, w \o x)
    BY <1>2, <2>2, Joined, 0 \in Nat
  <2> QED BY <2>1, <2>2, <2>3
<1>5. (Len(w) + n) + (Len(b) - n) = a
  BY <1>1, <1>2
<1> QED BY <1>3, <1>4, <1>5 DEF InOrder

(* The same said of the two together. *)
LEMMA InOrderIsIntact ==
  ASSUME NEW S, NEW w \in Seq(S), NEW b \in Seq(S), NEW a \in Nat, InOrder(w, b, a)
  PROVE  w \o b = [i \in 1..a |-> i]
<1>1. Len(w) \in Nat /\ 0 + Len(w) = Len(w)
  OBVIOUS
<1>2. Len(w) + Len(b) = a /\ From(0, w) /\ From(0 + Len(w), b)
  BY <1>1 DEF InOrder
<1>3. w \o b \in Seq(S) /\ Len(w \o b) = a /\ From(0, w \o b)
  BY <1>2, Joined, 0 \in Nat
<1>4. \A q \in Seq(S) : q = [i \in 1..Len(q) |-> q[i]]
  OBVIOUS
<1>5. w \o b = [i \in 1..a |-> (w \o b)[i]]
  BY <1>3, <1>4
<1>6. \A i \in 1..a : (w \o b)[i] = i
  BY <1>3 DEF From
<1> QED BY <1>5, <1>6

-----------------------------------------------------------------------------
(* What the calls and the handlers leave behind. *)

LEMMA KernelWritesSome ==
  ASSUME TypeOK, NEW len \in Nat, NEW n \in KernelWrites(len)
  PROVE  n \in 0..len /\ inflight + n \in 0..RoomMax /\ (finSent => n = 0)
<1>1. inflight \in 0..RoomMax /\ RoomMax \in Nat
  BY BoundsAssumption DEF TypeOK
<1>2. CASE reset \/ finSent \/ inflight = RoomMax
  BY <1>1, <1>2 DEF KernelWrites
<1>3. CASE ~(reset \/ finSent \/ inflight = RoomMax)
  BY <1>1, <1>3 DEF KernelWrites
<1> QED BY <1>2, <1>3

LEMMA SendLeaves ==
  ASSUME BytesInv, NEW len \in 1..MaxSend, SendInLoop(len)
  PROVE  /\ UNCHANGED <<status, reading, finSent, ownerHolds, ups, downs>>
         /\ wire' \in Seq(Byte) /\ wbuf' \in Seq(Byte) /\ acc' \in 0..MaxBytes
         /\ InOrder(wire', wbuf', acc')
         /\ inflight' \in 0..RoomMax /\ writing' \in BOOLEAN
         /\ spoiled' \subseteq {"lateSend", "staleEvent", "dangling"}
         /\ spoiled \subseteq spoiled'
         /\ PendingIsWatched'
         /\ status = "disconnected" /\ "lateSend" \notin spoiled' => writing' = writing
         /\ acc <= acc' /\ Len(wire) <= Len(wire')
         /\ finSent => Len(wire') = Len(wire)
<1>1. /\ acc \in Nat /\ acc + len <= MaxBytes /\ acc' = acc + len
      /\ len \in Nat /\ MaxBytes \in Nat /\ len # 0
  BY BoundsAssumption DEF SendInLoop, BytesInv, TypeOK
<1>2. PICK n \in IF ~writing /\ wbuf = <<>> THEN KernelWrites(len) ELSE {0} :
        /\ wire' = wire \o SubSeq(Bytes(len), 1, n)
        /\ inflight' = inflight + n
        /\ wbuf' = wbuf \o SubSeq(Bytes(len), n + 1, len)
        /\ writing' = (writing \/ n < len)
        /\ spoiled' = IF n < len /\ status = "disconnected"
                        THEN spoiled \union {"lateSend"} ELSE spoiled
  BY DEF SendInLoop
<1>3. n \in 0..len /\ inflight' \in 0..RoomMax /\ (finSent => n = 0)
  <2>1. inflight \in 0..RoomMax /\ RoomMax \in Nat
    BY BoundsAssumption DEF BytesInv, TypeOK
  <2>2. CASE ~writing /\ wbuf = <<>>
    BY <1>1, <1>2, <2>2, KernelWritesSome DEF BytesInv
  <2>3. CASE ~(~writing /\ wbuf = <<>>)
    <3>1. n = 0
      BY <1>2, <2>3
    <3> QED BY <1>1, <1>2, <2>1, <3>1
  <2> QED BY <2>2, <2>3
<1>4. n = 0 \/ Len(wbuf) = 0
  BY <1>2
<1>5. Bytes(len) \in Seq(Byte) /\ Len(Bytes(len)) = len /\ From(acc, Bytes(len))
  <2>1. \A i \in 1..len : acc + i \in 1..MaxBytes
    BY <1>1
  <2>2. Bytes(len) \in Seq(Byte) /\ Len(Bytes(len)) = len
    BY <1>1, <2>1 DEF Bytes, Byte
  <2>3. \A i \in 1..len : Bytes(len)[i] = acc + i
    BY DEF Bytes
  <2> QED BY <2>2, <2>3 DEF From
<1>6. PICK x \in Seq(Byte), y \in Seq(Byte) :
        /\ x = SubSeq(Bytes(len), 1, n) /\ Len(x) = n /\ From(acc, x)
        /\ y = SubSeq(Bytes(len), n + 1, len) /\ Len(y) = len - n /\ From(acc + n, y)
  <2>1. PICK s \in Seq(Byte) : s = Bytes(len) /\ Len(s) = len /\ From(acc, s)
    BY <1>5
  <2>2. n \in 0..Len(s) /\ From(acc, s) /\ acc \in Nat
    BY <1>1, <1>3, <2>1
  <2>3. /\ SubSeq(s, 1, n) \in Seq(Byte) /\ Len(SubSeq(s, 1, n)) = n
        /\ From(acc, SubSeq(s, 1, n))
        /\ SubSeq(s, n + 1, Len(s)) \in Seq(Byte)
        /\ Len(SubSeq(s, n + 1, Len(s))) = Len(s) - n
        /\ From(acc + n, SubSeq(s, n + 1, Len(s)))
    BY <2>2, Cut
  <2> QED BY <2>1, <2>3
<1>7. /\ wire' \in Seq(Byte) /\ Len(wire') = Len(wire) + n
      /\ wbuf' \in Seq(Byte) /\ Len(wbuf') = Len(wbuf) + (len - n)
      /\ InOrder(wire', wbuf', acc + n + (len - n))
  <2>1. wire \in Seq(Byte) /\ wbuf \in Seq(Byte) /\ InOrder(wire, wbuf, acc)
    BY DEF BytesInv, TypeOK, Byte
  <2>2. Len(x) = 0 \/ Len(wbuf) = 0
    BY <1>4, <1>6
  <2>3. From(acc, x) /\ From(acc + Len(x), y) /\ acc \in Nat
    BY <1>1, <1>6
  <2>4. /\ wire \o x \in Seq(Byte) /\ Len(wire \o x) = Len(wire) + Len(x)
        /\ wbuf \o y \in Seq(Byte) /\ Len(wbuf \o y) = Len(wbuf) + Len(y)
        /\ InOrder(wire \o x, wbuf \o y, acc + Len(x) + Len(y))
    BY <2>1, <2>2, <2>3, SentInOrder
  <2> QED BY <1>2, <1>6, <2>4
<1>8. InOrder(wire', wbuf', acc')
  <2>1. acc + n + (len - n) = acc'
    BY <1>1, <1>3
  <2> QED BY <1>7, <2>1
<1>9. PendingIsWatched'
  <2>1. status' = status /\ reading' = reading
    BY DEF SendInLoop
  <2>2. ASSUME status \in Open PROVE reading /\ (writing' <=> wbuf' # <<>>)
    <3>1. reading /\ (writing <=> wbuf # <<>>)
      BY <2>2 DEF BytesInv, PendingIsWatched
    <3>2. wbuf' # <<>> <=> (Len(wbuf) # 0 \/ n # len)
      <4>1. wbuf' # <<>> <=> Len(wbuf') # 0
        BY <1>7
      <4>2. Len(wbuf) \in Nat
        BY DEF BytesInv, TypeOK
      <4> QED BY <4>1, <4>2, <1>1, <1>3, <1>7
    <3>3. wbuf # <<>> <=> Len(wbuf) # 0
      BY DEF BytesInv, TypeOK
    <3>4. n < len <=> n # len
      BY <1>1, <1>3
    <3> QED BY <1>2, <3>1, <3>2, <3>3, <3>4
  <2> QED BY <2>1, <2>2 DEF PendingIsWatched
<1>10. Len(wire) <= Len(wire') /\ (finSent => Len(wire') = Len(wire))
  <2>1. Len(wire) \in Nat
    BY DEF BytesInv, TypeOK
  <2> QED BY <1>1, <1>3, <1>7, <2>1
<1>11. status = "disconnected" /\ "lateSend" \notin spoiled' => writing' = writing
  BY <1>2 DEF BytesInv, TypeOK
<1>12. acc' \in 0..MaxBytes /\ acc <= acc' /\ writing' \in BOOLEAN
  BY <1>1, <1>2 DEF BytesInv, TypeOK
<1>13. spoiled' \subseteq {"lateSend", "staleEvent", "dangling"} /\ spoiled \subseteq spoiled'
  BY <1>2 DEF BytesInv, TypeOK
<1> QED BY <1>3, <1>7, <1>8, <1>9, <1>10, <1>11, <1>12, <1>13 DEF SendInLoop

LEMMA WriteLeaves ==
  ASSUME BytesInv, DispatchWrite
  PROVE  /\ wire' \in Seq(Byte) /\ wbuf' \in Seq(Byte) /\ InOrder(wire', wbuf', acc)
         /\ inflight' \in 0..RoomMax /\ writing' \in BOOLEAN /\ finSent' \in BOOLEAN
         /\ PendingIsWatched'
         /\ writing' => writing
         /\ Len(wire) <= Len(wire')
         /\ finSent => Len(wire') = Len(wire) /\ finSent'
         /\ finSent' => finSent \/ (status = "disconnecting" /\ wbuf' = <<>>)
<1>1. wire \in Seq(Byte) /\ wbuf \in Seq(Byte) /\ acc \in Nat /\ InOrder(wire, wbuf, acc)
  BY DEF BytesInv, TypeOK, Byte
<1>2. writing \in BOOLEAN /\ finSent \in BOOLEAN /\ inflight \in 0..RoomMax
  BY DEF BytesInv, TypeOK
<1>3. UNCHANGED <<status, reading, acc>>
  BY DEF DispatchWrite
<1>4. CASE writing
  <2>1. PICK n \in KernelWrites(Len(wbuf)) :
          /\ wire' = wire \o SubSeq(wbuf, 1, n)
          /\ inflight' = inflight + n
          /\ wbuf' = SubSeq(wbuf, n + 1, Len(wbuf))
          /\ writing' = (wbuf' # <<>>)
          /\ finSent' = (finSent \/ (wbuf' = <<>> /\ status = "disconnecting"))
    BY <1>4 DEF DispatchWrite
  <2>2. Len(wbuf) \in Nat /\ Len(wire) \in Nat
    BY <1>1
  <2>3. n \in 0..Len(wbuf) /\ inflight' \in 0..RoomMax /\ (finSent => n = 0)
    BY <2>1, <2>2, KernelWritesSome DEF BytesInv
  <2>4. /\ wire \o SubSeq(wbuf, 1, n) \in Seq(Byte)
        /\ Len(wire \o SubSeq(wbuf, 1, n)) = Len(wire) + n
        /\ SubSeq(wbuf, n + 1, Len(wbuf)) \in Seq(Byte)
        /\ InOrder(wire \o SubSeq(wbuf, 1, n), SubSeq(wbuf, n + 1, Len(wbuf)), acc)
    BY <1>1, <2>3, FlushedInOrder
  <2>5. wire' \in Seq(Byte) /\ wbuf' \in Seq(Byte) /\ InOrder(wire', wbuf', acc)
    BY <2>1, <2>4
  <2>6. Len(wire) <= Len(wire') /\ (finSent => Len(wire') = Len(wire))
    BY <2>1, <2>2, <2>3, <2>4
  <2>7. PendingIsWatched'
    BY <1>3, <2>1 DEF BytesInv, PendingIsWatched
  <2> QED BY <1>2, <1>4, <2>1, <2>3, <2>5, <2>6, <2>7
<1>5. CASE ~writing
  <2>1. UNCHANGED <<wbuf, writing, wire, inflight, finSent>>
    BY <1>5 DEF DispatchWrite, outVars
  <2>2. PendingIsWatched'
    BY <1>3, <2>1 DEF BytesInv, PendingIsWatched
  <2>3. Len(wire) <= Len(wire')
    BY <1>1, <2>1
  <2> QED BY <1>1, <1>2, <2>1, <2>2, <2>3
<1> QED BY <1>2, <1>4, <1>5

(* One of the three calls. *)
Call == (\E len \in 1..MaxSend : SendInLoop(len)) \/ ShutdownInLoop \/ ForceCloseInLoop

(* The types and the bytes after something that changes the variables of   *)
(* the connection and the outgoing half of the socket.                     *)
BytesAfter ==
  /\ status' \in {"disconnected"} \union Open
  /\ reading' \in BOOLEAN /\ writing' \in BOOLEAN
  /\ wbuf' \in Seq(Byte) /\ wire' \in Seq(Byte) /\ acc' \in 0..MaxBytes
  /\ inflight' \in 0..RoomMax /\ finSent' \in BOOLEAN
  /\ ownerHolds' \in BOOLEAN
  /\ ups' \in 0..1 /\ downs' \in Nat
  /\ spoiled' \subseteq {"lateSend", "staleEvent", "dangling"}
  /\ InOrder(wire', wbuf', acc')
  /\ PendingIsWatched'

LEMMA UnchangedBytes ==
  ASSUME BytesInv, UNCHANGED <<connVars, outVars, ownerHolds, historyVars>>
  PROVE  BytesAfter
<1>1. /\ UNCHANGED <<status, reading, writing, wbuf, acc>>
      /\ UNCHANGED <<wire, inflight, finSent, ownerHolds, ups, downs, spoiled>>
  BY DEF connVars, outVars, historyVars
<1>2. InOrder(wire', wbuf', acc') /\ PendingIsWatched'
  BY <1>1 DEF BytesInv, PendingIsWatched
<1> QED BY <1>1, <1>2 DEF BytesInv, TypeOK, BytesAfter, Byte

LEMMA CloseLeavesBytes ==
  ASSUME BytesInv, HandleClose, UNCHANGED <<wbuf, acc, outVars, ups, spoiled>>
  PROVE  BytesAfter
<1>1. /\ status' = "disconnected" /\ reading' = FALSE /\ writing' = FALSE
      /\ downs' = downs + 1 /\ ownerHolds' = FALSE
      /\ UNCHANGED <<wbuf, acc, wire, inflight, finSent, ups, spoiled>>
  BY DEF HandleClose, outVars
<1>2. InOrder(wire', wbuf', acc')
  BY <1>1 DEF BytesInv
<1>3. PendingIsWatched'
  BY <1>1 DEF PendingIsWatched, Open
<1>4. downs' \in Nat
  BY <1>1 DEF BytesInv, TypeOK
<1>5. /\ wbuf' \in Seq(Byte) /\ wire' \in Seq(Byte) /\ acc' \in 0..MaxBytes
      /\ inflight' \in 0..RoomMax /\ finSent' \in BOOLEAN
      /\ ups' \in 0..1 /\ spoiled' \subseteq {"lateSend", "staleEvent", "dangling"}
  BY <1>1 DEF BytesInv, TypeOK, Byte
<1>6. /\ status' \in {"disconnected"} \union Open
      /\ reading' \in BOOLEAN /\ writing' \in BOOLEAN /\ ownerHolds' \in BOOLEAN
  BY <1>1
<1> QED BY <1>2, <1>3, <1>4, <1>5, <1>6 DEF BytesAfter

LEMMA CallLeavesBytes ==
  ASSUME BytesInv, Call
  PROVE  BytesAfter
<1>1. ASSUME NEW len \in 1..MaxSend, SendInLoop(len) PROVE BytesAfter
  <2>1. /\ UNCHANGED <<status, reading, finSent, ownerHolds, ups, downs>>
        /\ wire' \in Seq(Byte) /\ wbuf' \in Seq(Byte) /\ acc' \in 0..MaxBytes
        /\ InOrder(wire', wbuf', acc')
        /\ inflight' \in 0..RoomMax /\ writing' \in BOOLEAN
        /\ spoiled' \subseteq {"lateSend", "staleEvent", "dangling"}
        /\ PendingIsWatched'
    BY <1>1, SendLeaves
  <2> QED BY <2>1 DEF BytesInv, TypeOK, BytesAfter
<1>2. CASE ShutdownInLoop
  <2>1. /\ UNCHANGED <<reading, writing, wbuf, acc, wire, inflight,
                       ownerHolds, ups, downs, spoiled>>
        /\ status' \in {status, "disconnecting"} /\ (status' # status => status = "connected")
        /\ finSent' \in BOOLEAN
    BY <1>2 DEF ShutdownInLoop, BytesInv, TypeOK
  <2>2. PendingIsWatched'
    BY <2>1 DEF BytesInv, PendingIsWatched, Open
  <2> QED BY <2>1, <2>2 DEF BytesInv, TypeOK, BytesAfter, Open, Byte
<1>3. CASE ForceCloseInLoop
  <2>1. CASE status \in Open
    BY <1>3, <2>1, CloseLeavesBytes DEF ForceCloseInLoop
  <2>2. CASE status \notin Open
    BY <1>3, <2>2, UnchangedBytes DEF ForceCloseInLoop, connVars, historyVars
  <2> QED BY <2>1, <2>2
<1> QED BY <1>1, <1>2, <1>3 DEF Call

(* A functor is one of the calls, or a send for which no bytes are left. *)
LEMMA RunOpCalls ==
  ASSUME TypeOK, RunOp
  PROVE  /\ Call \/ UNCHANGED <<connVars, outVars, ownerHolds, historyVars>>
         /\ ops # <<>> /\ ops' = Tail(ops) /\ ops' \in Seq(Op)
<1>1. ops # <<>> /\ ops' = Tail(ops) /\ ops \in Seq(Op)
  BY DEF RunOp, TypeOK
<1>2. Head(ops) \in Op /\ Tail(ops) \in Seq(Op)
  BY <1>1
<1>3. CASE Head(ops).call = "send"
  <2>1. Head(ops).len \in 1..MaxSend
    BY <1>2, <1>3 DEF Op
  <2> QED BY <1>1, <1>2, <1>3, <2>1 DEF RunOp, Call
<1>4. CASE Head(ops).call = "shutdown"
  BY <1>1, <1>2, <1>4 DEF RunOp, Call
<1>5. CASE Head(ops).call = "forceClose"
  BY <1>1, <1>2, <1>5 DEF RunOp, Call
<1>6. Head(ops).call \in {"send", "shutdown", "forceClose"}
  BY <1>2 DEF Op
<1> QED BY <1>3, <1>4, <1>5, <1>6

-----------------------------------------------------------------------------
(* Every step keeps the types and the bytes. *)

LEMMA OpsTypes ==
  ASSUME NEW s \in Seq(Op), NEW op \in Op
  PROVE  Append(s, op) \in Seq(Op)
OBVIOUS

LEMMA BytesKept == BytesInv /\ Fresh /\ [Next]_vars => BytesInv'
<1> SUFFICES ASSUME BytesInv, Fresh, [Next]_vars
             PROVE  BytesInv'
  OBVIOUS
<1>0. TypeOK
  BY DEF BytesInv
<1>a. ASSUME BytesAfter,
             pc' \in {"idle", "polled", "dispatch", "callback"},
             rev' \subseteq {"close", "read", "write"},
             ops' \in Seq(Op), posted' \in 0..MaxOps,
             alive' \in BOOLEAN, userHolds' \in BOOLEAN,
             inq' \in BOOLEAN, peerFin' \in BOOLEAN, reset' \in BOOLEAN
      PROVE  BytesInv'
  BY <1>a DEF BytesAfter, BytesInv, TypeOK, Byte
<1>1. CASE CallInLoop
  <2>1. Call /\ UNCHANGED <<ctlVars, opVars, alive, userHolds, inVars>>
    BY <1>1 DEF CallInLoop, Call
  <2>2. BytesAfter
    BY <2>1, CallLeavesBytes
  <2> QED BY <1>0, <1>a, <2>1, <2>2 DEF ctlVars, opVars, inVars, TypeOK
<1>2. CASE RunOp
  <2>1. /\ Call \/ UNCHANGED <<connVars, outVars, ownerHolds, historyVars>>
        /\ ops' \in Seq(Op)
    BY <1>0, <1>2, RunOpCalls
  <2>2. BytesAfter
    BY <2>1, CallLeavesBytes, UnchangedBytes
  <2>3. pc' \in {pc, "callback"} /\ UNCHANGED <<rev, posted, alive, userHolds, inVars>>
    BY <1>2 DEF RunOp
  <2> QED BY <1>0, <1>a, <2>1, <2>2, <2>3 DEF inVars, TypeOK
<1>3. CASE DispatchWrite
  <2>1. /\ wire' \in Seq(Byte) /\ wbuf' \in Seq(Byte) /\ InOrder(wire', wbuf', acc)
        /\ inflight' \in 0..RoomMax /\ writing' \in BOOLEAN /\ finSent' \in BOOLEAN
        /\ PendingIsWatched'
    BY <1>3, WriteLeaves
  <2>2. /\ rev' = {}
        /\ UNCHANGED <<status, reading, acc, pc, opVars, holdVars, inVars, historyVars>>
    BY <1>3 DEF DispatchWrite
  <2>3. BytesAfter
    BY <1>0, <2>1, <2>2 DEF BytesAfter, TypeOK, holdVars, historyVars
  <2> QED BY <1>0, <1>a, <2>2, <2>3 DEF opVars, holdVars, inVars, TypeOK
<1>4. CASE DispatchClose
  <2>1. HandleClose /\ UNCHANGED <<wbuf, acc, outVars, ups, spoiled>>
    BY <1>4 DEF DispatchClose
  <2>2. BytesAfter
    BY <2>1, CloseLeavesBytes
  <2>3. /\ rev' \subseteq rev /\ pc' = "callback"
        /\ UNCHANGED <<opVars, alive, userHolds, inVars>>
    BY <1>4 DEF DispatchClose
  <2> QED BY <1>0, <1>a, <2>2, <2>3 DEF opVars, inVars, TypeOK
<1>5. CASE DispatchRead
  <2>1. /\ inq' \in {inq, FALSE} /\ UNCHANGED <<wbuf, acc, outVars, ups, spoiled>>
        /\ HandleClose \/ UNCHANGED <<status, reading, writing, ownerHolds, downs>>
    BY <1>5 DEF DispatchRead
  <2>2. BytesAfter
    BY <2>1, CloseLeavesBytes, UnchangedBytes DEF connVars, historyVars
  <2>3. /\ rev' \subseteq rev /\ pc' = "callback"
        /\ UNCHANGED <<opVars, alive, userHolds, peerFin, reset>>
    BY <1>5 DEF DispatchRead
  <2> QED BY <1>0, <1>a, <2>1, <2>2, <2>3 DEF opVars, TypeOK
<1>6. CASE InitInLoop
  <2>1. /\ ups = 0 /\ status' = "connected" /\ reading' = TRUE /\ ups' = 1 /\ pc' = "callback"
        /\ UNCHANGED <<writing, wbuf, acc, rev, opVars, holdVars, outVars, inVars, downs, spoiled>>
    BY <1>6 DEF InitInLoop
  <2>2. ~writing /\ wbuf = <<>>
    BY <2>1 DEF Fresh
  <2>3. InOrder(wire', wbuf', acc')
    BY <2>1 DEF BytesInv, outVars
  <2>4. PendingIsWatched'
    BY <2>1, <2>2 DEF PendingIsWatched
  <2>5. BytesAfter
    BY <1>0, <2>1, <2>3, <2>4 DEF BytesAfter, TypeOK, Open, outVars, holdVars, Byte
  <2> QED BY <1>0, <1>a, <2>1, <2>5 DEF opVars, holdVars, inVars, TypeOK
<1>7. CASE HandlerEvent \/ Destroy
  <2>1. /\ spoiled' \in {spoiled, spoiled \union {"staleEvent"}, spoiled \union {"dangling"}}
        /\ pc' \in {pc, "dispatch"} /\ alive' \in {alive, FALSE}
        /\ UNCHANGED <<connVars, rev, opVars, ownerHolds, userHolds, outVars, inVars, ups, downs>>
    BY <1>7 DEF HandlerEvent, Destroy, holdVars, ctlVars
  <2>2. InOrder(wire', wbuf', acc') /\ PendingIsWatched'
    BY <2>1 DEF BytesInv, PendingIsWatched, connVars, outVars
  <2>3. BytesAfter
    BY <1>0, <2>1, <2>2 DEF BytesAfter, TypeOK, connVars, outVars, Byte
  <2> QED BY <1>0, <1>a, <2>1, <2>3 DEF opVars, inVars, TypeOK
<1>8. CASE PeerReads
  <2>1. /\ inflight' = inflight - 1 /\ inflight > 0
        /\ UNCHANGED <<connVars, ctlVars, opVars, holdVars, wire, finSent, inVars, historyVars>>
    BY <1>8 DEF PeerReads
  <2>2. inflight' \in 0..RoomMax
    BY <1>0, <2>1, BoundsAssumption DEF TypeOK
  <2>3. InOrder(wire', wbuf', acc') /\ PendingIsWatched'
    BY <2>1 DEF BytesInv, PendingIsWatched, connVars
  <2>4. BytesAfter
    BY <1>0, <2>1, <2>2, <2>3 DEF BytesAfter, TypeOK, connVars, holdVars, historyVars, Byte
  <2> QED BY <1>0, <1>a, <2>1, <2>4 DEF ctlVars, opVars, holdVars, inVars, TypeOK
<1>9. CASE \/ CallFromThread \/ UserLetsGo \/ Poll \/ DispatchDone \/ CallbackReturns
           \/ PeerSends \/ PeerShutsDown \/ PeerResets \/ UNCHANGED vars
  <2>1. /\ UNCHANGED <<connVars, outVars, ownerHolds, alive, historyVars>>
        /\ userHolds' \in {userHolds, FALSE}
        /\ rev' \in {rev, Dispatched} /\ pc' \in {pc, "polled", "idle", "dispatch"}
        /\ inq' \in {inq, TRUE} /\ peerFin' \in {peerFin, TRUE} /\ reset' \in {reset, TRUE}
    BY <1>9 DEF CallFromThread, UserLetsGo, Poll, DispatchDone, CallbackReturns, PeerSends,
                PeerShutsDown, PeerResets, vars, connVars, outVars, historyVars, holdVars,
                ctlVars, inVars
  <2>2. BytesAfter
    BY <2>1, UnchangedBytes
  <2>3. ops' \in Seq(Op) /\ posted' \in 0..MaxOps
    <3>1. CASE CallFromThread
      BY <1>0, <3>1, OpsTypes, BoundsAssumption DEF CallFromThread, TypeOK
    <3>2. CASE ~CallFromThread
      <4>1. UNCHANGED <<ops, posted>>
        BY <1>9, <3>2 DEF UserLetsGo, Poll, DispatchDone, CallbackReturns, PeerSends,
                          PeerShutsDown, PeerResets, vars, opVars
      <4> QED BY <1>0, <4>1 DEF TypeOK
    <3> QED BY <3>1, <3>2
  <2>4. rev' \subseteq {"close", "read", "write"}
    BY <1>0, <2>1 DEF TypeOK, Dispatched
  <2> QED BY <1>0, <1>a, <2>1, <2>2, <2>3, <2>4 DEF TypeOK
<1> QED BY <1>1, <1>2, <1>3, <1>4, <1>5, <1>6, <1>7, <1>8, <1>9 DEF Next, LoopStep

(* Every step keeps what is known of the connection's life. *)

(* One of the calls, made on a connection that has begun. *)
LEMMA CallLeavesLife ==
  ASSUME BytesInv, LifeInv, ups = 1, Call
  PROVE  /\ ups' = 1 /\ OverIsUnregistered' /\ EndsOnce'
         /\ ~ownerHolds' => status' = "disconnected"
         /\ ~ownerHolds => ~ownerHolds'
         /\ status = "disconnected" => status' = "disconnected"
         /\ spoiled \subseteq spoiled'
         /\ status' = "disconnected" => status = "disconnected" \/ ForceCloseInLoop
<1>1. /\ OverIsUnregistered /\ EndsOnce /\ (~ownerHolds => status = "disconnected")
      /\ downs \in Nat
  BY DEF BytesInv, TypeOK, LifeInv, Held
<1>2. ASSUME NEW len \in 1..MaxSend, SendInLoop(len)
      PROVE  /\ UNCHANGED <<status, reading, ownerHolds, ups, downs>>
             /\ OverIsUnregistered' /\ EndsOnce' /\ spoiled \subseteq spoiled'
  <2>1. /\ UNCHANGED <<status, reading, finSent, ownerHolds, ups, downs>>
        /\ spoiled \subseteq spoiled'
        /\ status = "disconnected" /\ "lateSend" \notin spoiled' => writing' = writing
    BY <1>2, SendLeaves
  <2>2. OverIsUnregistered'
    BY <1>1, <2>1 DEF OverIsUnregistered
  <2>3. EndsOnce'
    BY <1>1, <2>1 DEF EndsOnce
  <2> QED BY <2>1, <2>2, <2>3
<1>3. CASE ShutdownInLoop
  <2>1. /\ UNCHANGED <<reading, writing, ownerHolds, ups, downs, spoiled>>
        /\ status' \in {status, "disconnecting"} /\ (status' # status => status = "connected")
    BY <1>3 DEF ShutdownInLoop
  <2>2. OverIsUnregistered' /\ EndsOnce' /\ (~ownerHolds' => status' = "disconnected")
    BY <1>1, <2>1 DEF OverIsUnregistered, EndsOnce
  <2> QED BY <2>1, <2>2
<1>4. CASE ForceCloseInLoop
  <2>1. CASE status \in Open
    <3>1. HandleClose /\ UNCHANGED <<ups, spoiled>> /\ ups = 1
      BY <1>4, <2>1 DEF ForceCloseInLoop
    <3>2. OverIsUnregistered' /\ EndsOnce'
      BY <1>1, <2>1, <3>1 DEF HandleClose, OverIsUnregistered, EndsOnce, Open
    <3> QED BY <1>4, <2>1, <3>1, <3>2 DEF HandleClose
  <2>2. CASE status \notin Open
    <3>1. UNCHANGED <<status, reading, writing, ownerHolds, ups, downs, spoiled>>
      BY <1>4, <2>2 DEF ForceCloseInLoop
    <3> QED BY <1>1, <1>4, <3>1 DEF OverIsUnregistered, EndsOnce
  <2> QED BY <2>1, <2>2
<1> QED BY <1>1, <1>2, <1>3, <1>4 DEF Call

(* handleClose, called for an event of an open connection or of a spoiled one. *)
LEMMA CloseLeavesLife ==
  ASSUME BytesInv, LifeInv, ups = 1, HandleClose, UNCHANGED <<ups, spoiled>>,
         spoiled = {} => status # "disconnected"
  PROVE  OverIsUnregistered' /\ EndsOnce'
<1>1. /\ status' = "disconnected" /\ ~reading' /\ ~writing'
      /\ downs' = downs + 1 /\ ~ownerHolds' /\ downs \in Nat
  BY DEF HandleClose, BytesInv, TypeOK
<1>2. OverIsUnregistered'
  BY <1>1 DEF OverIsUnregistered
<1>3. EndsOnce'
  <2>1. ASSUME spoiled = {} PROVE downs = 0
    BY <2>1 DEF LifeInv, EndsOnce
  <2> QED BY <1>1, <2>1 DEF EndsOnce
<1> QED BY <1>2, <1>3

LEMMA LifeKept == BytesInv /\ LifeInv /\ [Next]_vars => LifeInv'
<1> SUFFICES ASSUME BytesInv, LifeInv, [Next]_vars
             PROVE  LifeInv'
  OBVIOUS
<1>0. /\ TypeOK /\ Fresh /\ Dispatching /\ OverIsUnregistered /\ Held /\ EndsOnce
      /\ ups \in 0..1
  BY DEF BytesInv, LifeInv, TypeOK
<1>1. CASE CallInLoop
  <2>1. /\ Call /\ ups = 1 /\ alive /\ pc \in {"callback", "idle", "polled"}
        /\ UNCHANGED <<pc, rev, ops, posted, alive, userHolds>>
    BY <1>1 DEF CallInLoop, Call, ctlVars, opVars
  <2>2. /\ ups' = 1 /\ OverIsUnregistered' /\ EndsOnce'
        /\ ~ownerHolds' => status' = "disconnected"
    BY <2>1, CallLeavesLife
  <2>3. Dispatching'
    BY <1>0, <2>1 DEF Dispatching
  <2>4. Fresh' /\ Held'
    BY <2>1, <2>2 DEF Fresh, Held
  <2> QED BY <2>2, <2>3, <2>4 DEF LifeInv
<1>2. CASE RunOp
  <2>1. /\ Call \/ UNCHANGED <<connVars, outVars, ownerHolds, historyVars>>
        /\ ops # <<>>
    BY <1>0, <1>2, RunOpCalls
  <2>2. /\ pc = "idle" /\ pc' \in {"idle", "callback"}
        /\ UNCHANGED <<rev, posted, alive, userHolds>>
    BY <1>2 DEF RunOp
  <2>3. ups = 1 /\ alive /\ rev = {}
    BY <1>0, <2>1, <2>2 DEF Fresh, Held, Dispatching
  <2>4. /\ ups' = 1 /\ OverIsUnregistered' /\ EndsOnce'
        /\ ~ownerHolds' => status' = "disconnected"
    <3>1. CASE Call
      BY <2>3, <3>1, CallLeavesLife
    <3>2. CASE UNCHANGED <<connVars, outVars, ownerHolds, historyVars>>
      BY <1>0, <2>3, <3>2 DEF connVars, historyVars, OverIsUnregistered, EndsOnce, Held
    <3> QED BY <2>1, <3>1, <3>2
  <2>5. Dispatching'
    BY <2>2, <2>3 DEF Dispatching
  <2>6. Fresh' /\ Held'
    BY <2>2, <2>3, <2>4 DEF Fresh, Held
  <2> QED BY <2>4, <2>5, <2>6 DEF LifeInv
<1>3. CASE DispatchWrite
  <2>1. /\ pc = "dispatch" /\ rev' = {}
        /\ UNCHANGED <<status, reading, pc, ops, alive, ownerHolds, userHolds, ups, downs, spoiled>>
    BY <1>3 DEF DispatchWrite, opVars, holdVars, historyVars
  <2>2. writing' => writing
    BY <1>3, WriteLeaves
  <2>3. ups = 1
    BY <1>0, <2>1 DEF Fresh
  <2>4. Fresh' /\ Dispatching' /\ Held'
    BY <1>0, <2>1, <2>3 DEF Fresh, Dispatching, Held
  <2>5. OverIsUnregistered' /\ EndsOnce'
    BY <1>0, <2>1, <2>2 DEF OverIsUnregistered, EndsOnce
  <2> QED BY <2>4, <2>5 DEF LifeInv
<1>4. CASE DispatchClose
  <2>1. /\ pc = "dispatch" /\ "close" \in rev /\ HandleClose
        /\ rev' = rev \ {"close"} /\ pc' = "callback"
        /\ UNCHANGED <<ops, alive, userHolds, ups, spoiled>>
    BY <1>4 DEF DispatchClose, opVars
  <2>2. ups = 1 /\ alive /\ (spoiled = {} => status # "disconnected")
    BY <1>0, <2>1 DEF Fresh, Held, Dispatching
  <2>3. OverIsUnregistered' /\ EndsOnce'
    BY <2>1, <2>2, CloseLeavesLife
  <2>4. rev' \subseteq {"write"}
    BY <1>0, <2>1 DEF Dispatching, TypeOK
  <2>5. Fresh' /\ Dispatching' /\ Held'
    BY <2>1, <2>2, <2>4 DEF Fresh, Dispatching, Held, HandleClose
  <2> QED BY <2>3, <2>5 DEF LifeInv
<1>5. CASE DispatchRead
  <2>1. /\ pc = "dispatch" /\ "close" \notin rev /\ "read" \in rev
        /\ HandleClose \/ UNCHANGED <<status, reading, writing, ownerHolds, downs>>
        /\ rev' = rev \ {"read"} /\ pc' = "callback"
        /\ UNCHANGED <<ops, alive, userHolds, ups, spoiled>>
    BY <1>5 DEF DispatchRead, opVars
  <2>2. ups = 1 /\ alive /\ (spoiled = {} => status # "disconnected")
    BY <1>0, <2>1 DEF Fresh, Held, Dispatching
  <2>3. OverIsUnregistered' /\ EndsOnce'
    <3>1. CASE HandleClose
      BY <2>1, <2>2, <3>1, CloseLeavesLife
    <3>2. CASE UNCHANGED <<status, reading, writing, ownerHolds, downs>>
      BY <1>0, <2>1, <3>2 DEF OverIsUnregistered, EndsOnce
    <3> QED BY <2>1, <3>1, <3>2
  <2>4. rev' \subseteq {"write"}
    BY <1>0, <2>1 DEF TypeOK
  <2>5. Fresh' /\ Dispatching'
    BY <2>1, <2>2, <2>4 DEF Fresh, Dispatching
  <2>6. Held'
    BY <1>0, <2>1, <2>2 DEF Held, HandleClose
  <2> QED BY <2>3, <2>5, <2>6 DEF LifeInv
<1>6. CASE InitInLoop
  <2>1. /\ ups = 0 /\ status' = "connected" /\ reading' = TRUE /\ ups' = 1 /\ pc' = "callback"
        /\ UNCHANGED <<writing, rev, alive, ownerHolds, downs, spoiled>>
    BY <1>6 DEF InitInLoop, holdVars
  <2>2. pc = "idle" /\ alive /\ ownerHolds /\ downs = 0
    BY <1>0, <2>1 DEF Fresh
  <2>3. rev = {}
    BY <1>0, <2>2 DEF Dispatching
  <2> QED BY <2>1, <2>2, <2>3 DEF LifeInv, Fresh, Dispatching, OverIsUnregistered, Held, EndsOnce
<1>7. CASE Poll
  <2>1. /\ pc = "idle" /\ alive /\ (reading \/ writing)
        /\ rev' = Dispatched /\ pc' = "polled"
        /\ UNCHANGED <<status, reading, writing, alive, ownerHolds, ups, downs, spoiled>>
    BY <1>7 DEF Poll, connVars, holdVars, historyVars
  <2>2. ups = 1
    BY <1>0, <2>1 DEF Fresh
  <2>3. Dispatching'
    BY <2>1 DEF Dispatching, Dispatched
  <2> QED BY <1>0, <2>1, <2>2, <2>3 DEF LifeInv, Fresh, OverIsUnregistered, Held, EndsOnce
<1>8. CASE HandlerEvent
  <2>1. /\ pc = "polled" /\ alive /\ pc' = "dispatch"
        /\ spoiled' = IF status = "disconnected" THEN spoiled \union {"staleEvent"} ELSE spoiled
        /\ UNCHANGED <<status, reading, writing, rev, alive, ownerHolds, ups, downs>>
    BY <1>8 DEF HandlerEvent, connVars, holdVars
  <2>2. ups = 1
    BY <1>0, <2>1 DEF Fresh
  <2>3. status = "disconnected" => spoiled' # {}
    BY <2>1
  <2>4. Fresh' /\ Dispatching' /\ Held'
    BY <1>0, <2>1, <2>2, <2>3 DEF Fresh, Dispatching, Held
  <2>5. OverIsUnregistered' /\ EndsOnce'
    BY <1>0, <2>1 DEF OverIsUnregistered, EndsOnce
  <2> QED BY <2>4, <2>5 DEF LifeInv
<1>9. CASE Destroy
  <2>1. /\ ups = 1 /\ pc \in {"idle", "polled"} /\ ~ownerHolds /\ ~userHolds /\ ops = <<>>
        /\ spoiled' \in {spoiled, spoiled \union {"dangling"}}
        /\ UNCHANGED <<status, reading, writing, pc, rev, ops, ownerHolds, userHolds, ups, downs>>
    BY <1>9 DEF Destroy, connVars, ctlVars, opVars
  <2>2. Fresh' /\ Dispatching' /\ Held'
    BY <1>0, <2>1 DEF Fresh, Dispatching, Held
  <2>3. OverIsUnregistered' /\ EndsOnce'
    BY <1>0, <2>1 DEF OverIsUnregistered, EndsOnce
  <2> QED BY <2>2, <2>3 DEF LifeInv
<1>10. CASE DispatchDone \/ CallbackReturns
  <2>1. /\ UNCHANGED <<status, reading, writing, rev, alive, ownerHolds, ups, downs, spoiled>>
        /\ pc \in {"dispatch", "callback"}
        /\ \/ pc' = "idle" /\ rev = {}
           \/ pc' = "dispatch" /\ pc = "callback"
    BY <1>10 DEF DispatchDone, CallbackReturns, connVars, holdVars, historyVars
  <2>2. ups = 1 /\ alive
    BY <1>0, <2>1 DEF Fresh, Held
  <2>3. Fresh' /\ Dispatching' /\ Held'
    BY <1>0, <2>1, <2>2 DEF Fresh, Dispatching, Held
  <2>4. OverIsUnregistered' /\ EndsOnce'
    BY <1>0, <2>1 DEF OverIsUnregistered, EndsOnce
  <2> QED BY <2>3, <2>4 DEF LifeInv
<1>11. CASE \/ CallFromThread \/ UserLetsGo \/ PeerReads \/ PeerSends \/ PeerShutsDown
            \/ PeerResets \/ UNCHANGED vars
  <2>1. /\ UNCHANGED <<status, reading, writing, wbuf, acc, pc, rev, alive, ownerHolds>>
        /\ UNCHANGED <<finSent, ups, downs, spoiled>>
        /\ userHolds' => userHolds
        /\ UNCHANGED ops \/ (alive /\ ups = 1)
    BY <1>11 DEF CallFromThread, UserLetsGo, PeerReads, PeerSends, PeerShutsDown, PeerResets,
                 vars, connVars, ctlVars, opVars, holdVars, outVars, historyVars
  <2>2. Fresh' /\ Held'
    BY <1>0, <2>1 DEF Fresh, Held
  <2>3. Dispatching'
    BY <1>0, <2>1 DEF Dispatching
  <2>4. OverIsUnregistered' /\ EndsOnce'
    BY <1>0, <2>1 DEF OverIsUnregistered, EndsOnce
  <2> QED BY <2>2, <2>3, <2>4 DEF LifeInv
<1> QED BY <1>1, <1>2, <1>3, <1>4, <1>5, <1>6, <1>7, <1>8, <1>9, <1>10, <1>11
        DEF Next, LoopStep

LEMMA InvStarts == Init => BytesInv /\ LifeInv
<1> SUFFICES ASSUME Init
             PROVE  BytesInv /\ LifeInv
  OBVIOUS
<1>1. /\ status = "disconnected" /\ ~reading /\ ~writing
      /\ wbuf = <<>> /\ wire = <<>> /\ acc = 0
      /\ pc = "idle" /\ rev = {} /\ ops = <<>> /\ alive /\ ownerHolds
      /\ ups = 0 /\ downs = 0 /\ spoiled = {} /\ ~finSent
  BY DEF Init
<1>2. TypeOK
  <2>1. 0 \in 0..MaxBytes /\ 0 \in 0..MaxOps /\ 0 \in 0..RoomMax
    BY BoundsAssumption
  <2>2. wbuf \in Seq(1..MaxBytes) /\ wire \in Seq(1..MaxBytes) /\ ops \in Seq(Op)
    BY <1>1
  <2>3. posted = 0 /\ inflight = 0 /\ userHolds \in BOOLEAN /\ ~inq /\ ~peerFin /\ ~reset
    BY DEF Init
  <2>4. /\ reading \in BOOLEAN /\ writing \in BOOLEAN /\ alive \in BOOLEAN
        /\ ownerHolds \in BOOLEAN /\ userHolds \in BOOLEAN /\ finSent \in BOOLEAN
        /\ inq \in BOOLEAN /\ peerFin \in BOOLEAN /\ reset \in BOOLEAN
    BY DEF Init
  <2> QED BY <1>1, <2>1, <2>2, <2>3, <2>4 DEF TypeOK
<1>3. InOrder(wire, wbuf, acc)
  BY <1>1 DEF InOrder, From
<1>4. PendingIsWatched
  BY <1>1 DEF PendingIsWatched, Open
<1>5. LifeInv
  BY <1>1 DEF LifeInv, Fresh, Dispatching, OverIsUnregistered, Held, EndsOnce
<1> QED BY <1>2, <1>3, <1>4, <1>5 DEF BytesInv

LEMMA InvHolds == Spec => [](BytesInv /\ LifeInv)
<1>1. BytesInv /\ LifeInv /\ [Next]_vars => (BytesInv /\ LifeInv)'
  BY BytesKept, LifeKept DEF LifeInv
<1> QED BY <1>1, InvStarts, PTL DEF Spec

-----------------------------------------------------------------------------
(* The theorems. *)

(* Type correctness: the buffers and counters of a connection stay in      *)
(* their ranges (tcp_connection.hpp:84-128).                               *)
THEOREM TypeCorrect == Spec => []TypeOK
<1>1. BytesInv /\ LifeInv => TypeOK
  BY DEF BytesInv
<1> QED BY <1>1, InvHolds, PTL

(* No byte is lost, duplicated or overtaken between send() and the socket, *)
(* whatever the partial writes (tcp_connection.cpp:180-201, 241-266).      *)
THEOREM StreamStaysIntact == Spec => []StreamIntact
<1>1. ASSUME BytesInv PROVE StreamIntact
  <2>1. wire \in Seq(Byte) /\ wbuf \in Seq(Byte) /\ acc \in Nat /\ InOrder(wire, wbuf, acc)
    BY <1>1 DEF BytesInv, TypeOK, Byte
  <2>2. wire \o wbuf = [i \in 1..acc |-> i]
    BY <2>1, InOrderIsIntact
  <2> QED BY <2>2 DEF StreamIntact
<1>2. BytesInv /\ LifeInv => StreamIntact
  BY <1>1
<1> QED BY <1>2, InvHolds, PTL

(* An open connection asks for EPOLLOUT exactly while bytes wait, and      *)
(* always for input (tcp_connection.cpp:62-65, 193-200, 250-260).          *)
THEOREM PendingStaysWatched == Spec => []PendingIsWatched
<1>1. BytesInv /\ LifeInv => PendingIsWatched
  BY DEF BytesInv
<1> QED BY <1>1, InvHolds, PTL

(* The user hears once of a connection's end, when it is over, and the     *)
(* owner lets go then (tcp_connection.cpp:58-68, 268-279).                 *)
THEOREM EndsOnlyOnce == Spec => []EndsOnce
<1>1. BytesInv /\ LifeInv => EndsOnce
  BY DEF LifeInv
<1> QED BY <1>1, InvHolds, PTL

(* A connection is destroyed disconnected and unregistered, unless a send  *)
(* came after its end (tcp_connection.cpp:39-42, event_channel.cpp:27-31). *)
THEOREM DestroyedSafely == Spec => []DestroyedUnregistered
<1>1. BytesInv /\ LifeInv => DestroyedUnregistered
  <2> SUFFICES ASSUME LifeInv, ~alive, "lateSend" \notin spoiled
               PROVE  status = "disconnected" /\ ~reading /\ ~writing
    BY DEF DestroyedUnregistered
  <2>1. status = "disconnected"
    BY DEF LifeInv, Held
  <2> QED BY <2>1 DEF LifeInv, OverIsUnregistered
<1> QED BY <1>1, InvHolds, PTL

-----------------------------------------------------------------------------
(* A connection implements TcpStream, step by step. *)

(* What the kernel got is 1, 2, ..., and not less than before. *)
LEMMA BytesArrive ==
  ASSUME wire' \in Seq(Byte), InOrder(wire', wbuf', acc'), wbuf' \in Seq(Byte), acc' \in Nat,
         Len(wire) \in Nat, Len(wire) <= Len(wire'), finSent => Len(wire') = Len(wire)
  PROVE  Stream!Arrive
<1>1. Len(wire') \in Nat /\ Len(wbuf') \in Nat /\ Len(wire') + Len(wbuf') = acc'
  BY DEF InOrder
<1>2. Len(wire') \in Len(wire)..acc'
  BY <1>1
<1>3. wire' = [i \in 1..Len(wire') |-> i]
  <2>1. PICK w \in Seq(Byte) : w = wire'
    OBVIOUS
  <2>2. \A i \in 1..Len(w) : w[i] = 0 + i
    BY <2>1 DEF InOrder, From
  <2>3. w = [i \in 1..Len(w) |-> w[i]]
    OBVIOUS
  <2>4. \A i \in 1..Len(w) : w[i] = i
    BY <2>2
  <2> QED BY <2>1, <2>3, <2>4
<1> QED BY <1>2, <1>3 DEF Stream!Arrive

LEMMA CloseEnds ==
  ASSUME TypeOK, ups = 1, HandleClose, UNCHANGED <<acc, wire, finSent, ups>>
  PROVE  Stream!End \/ UNCHANGED Stream!streamVars
<1>1. status' = "disconnected" /\ ups' = 1
  BY DEF HandleClose
<1>2. Phase' = "over"
  BY <1>1 DEF Phase
<1>3. CASE status \in Open
  <2>1. Phase \in {"open", "closing"}
    BY <1>3 DEF Phase, Open
  <2> QED BY <1>2, <2>1 DEF Stream!End
<1>4. CASE status = "disconnected"
  <2>1. Phase = "over"
    BY <1>4 DEF Phase
  <2> QED BY <1>2, <2>1 DEF Stream!streamVars
<1> QED BY <1>3, <1>4 DEF TypeOK

LEMMA SamePhase ==
  ASSUME UNCHANGED <<status, ups>>
  PROVE  Phase' = Phase
BY DEF Phase

LEMMA BegunPhase ==
  ASSUME TypeOK, ups = 1
  PROVE  /\ Phase # "new"
         /\ status = "connected" <=> Phase = "open"
         /\ status = "disconnecting" <=> Phase = "closing"
<1>1. status \in {"connected", "disconnecting", "disconnected"}
  BY DEF TypeOK, Open
<1> QED BY <1>1 DEF Phase

LEMMA CallSimulates ==
  ASSUME BytesInv, ups = 1, Call
  PROVE  [Stream!StreamNext]_Stream!streamVars
<1>0. TypeOK /\ Phase # "new" /\ wire \in Seq(Byte) /\ wbuf \in Seq(Byte)
  BY BegunPhase DEF BytesInv, TypeOK, Byte
<1>1. ASSUME NEW len \in 1..MaxSend, SendInLoop(len) PROVE Stream!Send
  <2>1. /\ UNCHANGED <<status, finSent, ups>>
        /\ wire' \in Seq(Byte) /\ wbuf' \in Seq(Byte) /\ acc' \in 0..MaxBytes
        /\ InOrder(wire', wbuf', acc')
        /\ acc <= acc' /\ Len(wire) <= Len(wire') /\ (finSent => Len(wire') = Len(wire))
    BY <1>1, SendLeaves
  <2>2. Len(wire) \in Nat /\ acc' \in Nat
    BY <1>0, <2>1
  <2>3. Stream!Arrive
    BY <2>1, <2>2, BytesArrive
  <2>4. acc' \in acc..MaxBytes
    BY <1>0, <2>1, BoundsAssumption DEF TypeOK
  <2>5. UNCHANGED Phase
    BY <2>1, SamePhase
  <2> QED BY <1>0, <2>1, <2>3, <2>4, <2>5 DEF Stream!Send
<1>2. CASE ShutdownInLoop
  <2>1. UNCHANGED <<acc, wire, wbuf, ups>>
    BY <1>2 DEF ShutdownInLoop
  <2>2. CASE status = "connected"
    <3>1. status' = "disconnecting" /\ finSent' = (finSent \/ ~writing)
      BY <1>2, <2>2 DEF ShutdownInLoop
    <3>2. Phase = "open" /\ Phase' = "closing"
      BY <2>1, <2>2, <3>1 DEF Phase
    <3>3. ~writing => Len(wire') = acc
      <4>1. ~writing => Len(wbuf) = 0
        BY <2>2 DEF BytesInv, PendingIsWatched, Open
      <4>2. Len(wire) + Len(wbuf) = acc /\ Len(wire) \in Nat
        BY <1>0 DEF BytesInv, InOrder
      <4> QED BY <2>1, <4>1, <4>2
    <3>4. Stream!MayFinish
      BY <1>0, <3>1, <3>3 DEF Stream!MayFinish, TypeOK
    <3> QED BY <2>1, <3>2, <3>4 DEF Stream!Shutdown, Stream!StreamNext
  <2>3. CASE status # "connected"
    <3>1. UNCHANGED <<status, finSent>>
      BY <1>2, <2>3 DEF ShutdownInLoop
    <3>2. UNCHANGED Phase
      BY <2>1, <3>1, SamePhase
    <3> QED BY <2>1, <3>1, <3>2 DEF Stream!streamVars
  <2> QED BY <2>2, <2>3
<1>3. CASE ForceCloseInLoop
  <2>1. UNCHANGED <<acc, wire, finSent, ups>>
    BY <1>3 DEF ForceCloseInLoop, outVars
  <2>2. CASE HandleClose
    BY <1>0, <2>1, <2>2, CloseEnds DEF Stream!StreamNext
  <2>3. CASE ~HandleClose
    <3>1. UNCHANGED status
      BY <1>3, <2>3 DEF ForceCloseInLoop
    <3>2. UNCHANGED Phase
      BY <2>1, <3>1, SamePhase
    <3> QED BY <2>1, <3>2 DEF Stream!streamVars
  <2> QED BY <2>2, <2>3
<1> QED BY <1>1, <1>2, <1>3 DEF Call, Stream!StreamNext

LEMMA WriteSimulates ==
  ASSUME BytesInv, ups = 1, DispatchWrite
  PROVE  Stream!Flush
<1>0. TypeOK /\ Phase # "new" /\ wire \in Seq(Byte) /\ finSent \in BOOLEAN
  BY BegunPhase DEF BytesInv, TypeOK, Byte
<1>1. UNCHANGED <<status, ups, acc>>
  BY DEF DispatchWrite, historyVars
<1>2. /\ wire' \in Seq(Byte) /\ wbuf' \in Seq(Byte) /\ InOrder(wire', wbuf', acc)
      /\ finSent' \in BOOLEAN
      /\ Len(wire) <= Len(wire')
      /\ finSent => Len(wire') = Len(wire) /\ finSent'
      /\ finSent' => finSent \/ (status = "disconnecting" /\ wbuf' = <<>>)
  BY WriteLeaves
<1>3. InOrder(wire', wbuf', acc') /\ acc' \in Nat /\ Len(wire) \in Nat
  BY <1>0, <1>1, <1>2 DEF TypeOK
<1>4. Stream!Arrive
  BY <1>2, <1>3, BytesArrive
<1>5. wbuf' = <<>> => Len(wire') = acc
  <2>1. wbuf' = <<>> => Len(wbuf') = 0
    OBVIOUS
  <2>2. Len(wire') + Len(wbuf') = acc /\ Len(wire') \in Nat
    BY <1>2 DEF InOrder
  <2> QED BY <2>1, <2>2
<1>6. UNCHANGED Phase
  BY <1>1, SamePhase
<1>7. IF Phase = "closing" THEN Stream!MayFinish ELSE UNCHANGED finSent
  <2>1. status = "disconnecting" <=> Phase = "closing"
    BY <1>0, BegunPhase
  <2>2. finSent' = finSent \/ (status = "disconnecting" /\ finSent' /\ Len(wire') = acc)
    BY <1>0, <1>2, <1>5
  <2> QED BY <2>1, <2>2 DEF Stream!MayFinish
<1> QED BY <1>0, <1>1, <1>4, <1>6, <1>7 DEF Stream!Flush

LEMMA StepSimulates ==
  ASSUME BytesInv, LifeInv, [Next]_vars
  PROVE  [Stream!StreamNext]_Stream!streamVars
<1>0. TypeOK /\ Fresh /\ Held /\ ups \in 0..1
  BY DEF BytesInv, LifeInv, TypeOK
<1>1. ASSUME UNCHANGED <<status, ups, acc, wire, finSent>>
      PROVE  UNCHANGED Stream!streamVars
  BY <1>1, SamePhase DEF Stream!streamVars
<1>2. CASE CallInLoop
  BY <1>2, CallSimulates DEF CallInLoop, Call
<1>3. CASE RunOp
  <2>1. /\ Call \/ UNCHANGED <<connVars, outVars, ownerHolds, historyVars>>
        /\ ops # <<>>
    BY <1>0, <1>3, RunOpCalls
  <2>2. ups = 1
    BY <1>0, <2>1 DEF Fresh
  <2> QED BY <1>1, <2>1, <2>2, CallSimulates DEF connVars, outVars, historyVars
<1>4. CASE DispatchWrite
  <2>1. ups = 1
    BY <1>0, <1>4 DEF Fresh, DispatchWrite
  <2> QED BY <1>4, <2>1, WriteSimulates DEF Stream!StreamNext
<1>5. CASE DispatchClose \/ DispatchRead
  <2>1. /\ HandleClose \/ UNCHANGED status
        /\ UNCHANGED <<acc, wire, finSent, ups>> /\ ups = 1
    BY <1>0, <1>5 DEF DispatchClose, DispatchRead, outVars, Fresh
  <2> QED BY <1>0, <1>1, <2>1, CloseEnds DEF Stream!StreamNext
<1>6. CASE InitInLoop
  <2>1. ups = 0 /\ ups' = 1 /\ status' = "connected" /\ UNCHANGED <<acc, wire, finSent>>
    BY <1>6 DEF InitInLoop, outVars
  <2>2. Phase = "new" /\ Phase' = "open"
    BY <2>1 DEF Phase
  <2> QED BY <2>1, <2>2 DEF Stream!Begin, Stream!StreamNext
<1>7. CASE \/ Poll \/ HandlerEvent \/ Destroy \/ DispatchDone \/ CallbackReturns
           \/ CallFromThread \/ UserLetsGo \/ PeerReads \/ PeerSends \/ PeerShutsDown
           \/ PeerResets \/ UNCHANGED vars
  <2>1. UNCHANGED <<status, ups, acc, wire, finSent>>
    BY <1>7 DEF Poll, HandlerEvent, Destroy, DispatchDone, CallbackReturns, CallFromThread,
                UserLetsGo, PeerReads, PeerSends, PeerShutsDown, PeerResets,
                vars, connVars, outVars, historyVars
  <2> QED BY <1>1, <2>1
<1> QED BY <1>2, <1>3, <1>4, <1>5, <1>6, <1>7 DEF Next, LoopStep

(* A connection is a stream that delivers in order, sends its FIN behind   *)
(* the last byte and nothing behind it (tcp_connection.cpp:58-94, 180-201, *)
(* 241-279).                                                               *)
THEOREM ImplementsTcpStream == Spec => RefinesTcpStream
<1>1. Init => Stream!StreamInit
  <2> SUFFICES ASSUME Init PROVE Stream!StreamInit
    OBVIOUS
  <2>1. ups = 0 /\ acc = 0 /\ wire = <<>> /\ finSent = FALSE
    BY DEF Init
  <2>2. Phase = "new"
    BY <2>1 DEF Phase
  <2> QED BY <2>1, <2>2 DEF Stream!StreamInit
<1>2. BytesInv /\ LifeInv /\ [Next]_vars => [Stream!StreamNext]_Stream!streamVars
  BY StepSimulates
<1> QED BY <1>1, <1>2, InvHolds, PTL DEF Spec, RefinesTcpStream, Stream!StreamSpec

================================================================================
