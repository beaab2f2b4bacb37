---------------------------- MODULE MessageBuffer ----------------------------
(***************************************************************************)
(* One net/message_buffer.hpp object on which its member functions, and    *)
(* those of TcpConnection that fill it, are called in any order.           *)
(***************************************************************************)
EXTENDS MessageBufferOps

CONSTANTS
  MaxWrite,    \* bound: bytes of one write
  MaxContent   \* bound: bytes waiting in the buffer

ASSUME BoundsAssumption == MaxWrite \in Nat /\ MaxContent \in Nat

VARIABLES
  buf,     \* the buffer
  result,  \* what the last read or peek returned
  peak     \* history: the most bytes that waited in it

vars == <<buf, result, peak>>

Init == buf = NewBuffer /\ result = <<>> /\ peak = 0

Larger(m, n) == IF m < n THEN n ELSE m

Inputs == UNION {[1..n -> Byte] : n \in 0..MaxWrite}

DoWrite(bytes) ==
  /\ readByte(buf) + Len(bytes) <= MaxContent
  /\ buf' = Write(buf, bytes)
  /\ peak' = Larger(peak, readByte(buf) + Len(bytes))
  /\ UNCHANGED result

DoReceive(bytes) ==
  /\ bytes # <<>> /\ Len(bytes) <= ReadvRoom(buf)
  /\ readByte(buf) + Len(bytes) <= MaxContent
  /\ buf' = Received(buf, bytes)
  /\ peak' = Larger(peak, readByte(buf) + Len(bytes))
  /\ UNCHANGED result

(* read, readUntil and readAll *)
DoRead(len) ==
  /\ len <= readByte(buf)
  /\ result' = SubSeq(buf.mem, buf.rd + 1, buf.rd + len)
  /\ buf' = Retrieve(buf, len)
  /\ UNCHANGED peak

(* retrieve and retrieveUntil *)
DoRetrieve(len) ==
  /\ len <= readByte(buf)
  /\ buf' = Retrieve(buf, len)
  /\ UNCHANGED <<result, peak>>

DoRetrieveAll ==
  /\ buf' = RetrieveAll(buf)
  /\ UNCHANGED <<result, peak>>

(* data() and size(), and the bytes of peekInt8 ... peekInt64 *)
DoPeek(len) ==
  /\ len <= readByte(buf)
  /\ result' = SubSeq(buf.mem, buf.rd + 1, buf.rd + len)
  /\ UNCHANGED <<buf, peak>>

Next ==
  \/ \E bytes \in Inputs : DoWrite(bytes) \/ DoReceive(bytes)
  \/ \E len \in 0..MaxContent : DoRead(len) \/ DoRetrieve(len) \/ DoPeek(len)
  \/ DoRetrieveAll

Spec == Init /\ [][Next]_vars

-----------------------------------------------------------------------------
(* Properties. *)

TypeOK ==
  /\ buf \in Buffer
  /\ buf.rd <= buf.wr /\ buf.wr <= Len(buf.mem)
  /\ result \in Seq(Byte \union {Junk})
  /\ peak \in Nat

(* Nothing but what was written can be read, not even from memory that     *)
(* reallocate got with new char[] (message_buffer.cpp:166-190).             *)
NoJunk == Contents(buf) \in Seq(Byte) /\ result \in Seq(Byte)

(* A buffer that is read until it is empty has all its memory to write to   *)
(* (message_buffer.cpp:134-158).                                            *)
EmptyRewinds == readByte(buf) = 0 => writeByte(buf) = Len(buf.mem)

(* However long a connection lives, the memory is at most twice the largest *)
(* backlog, or the constructor's (message_buffer.cpp:99-107, 166-190).      *)
CapacityBounded == Len(buf.mem) <= Larger(InitLength, 2 * peak)

(* The buffer is a FIFO of bytes. *)
Stream == INSTANCE ByteStream WITH content <- Contents(buf)

RefinesByteStream == Stream!StreamSpec
==============================================================================
