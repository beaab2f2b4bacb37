----------------------------- MODULE MessageCodec -----------------------------
(***************************************************************************)
(* Integers from one host to another: writeInt8 ... writeInt64 into a      *)
(* MessageBuffer, TcpConnection::send(const MessageBuffer&), the stream in *)
(* pieces of any size, handleRead into the peer's readBuffer_ and          *)
(* readInt8 ... readInt64 once enough bytes are there.  Both hosts are     *)
(* little-endian; a byte has Base values.                                  *)
(***************************************************************************)
EXTENDS MessageBufferOps, SequencesExt

CONSTANTS
  Base,       \* values of a byte
  Widths,     \* sizes of the integers, in bytes
  MaxInts     \* bound: integers sent in one behaviour

ASSUME BaseAssumption == Base \in Nat \ {0, 1} /\ Byte = 0..(Base - 1)
ASSUME WidthsAssumption == Widths \subseteq Nat \ {0} /\ MaxInts \in Nat

VARIABLES
  out,   \* the buffer that the sender writes to
  wire,  \* bytes on their way
  in,    \* the receiver's readBuffer_
  sent,  \* history: what was written, oldest first
  got    \* history: what was read

codecVars == <<out, wire, in, sent, got>>

(* How many values an integer of n bytes has. *)
Power[n \in Nat] == IF n = 0 THEN 1 ELSE Base * Power[n - 1]

(* How an integer of k bytes lies in the memory of a little-endian host.   *)
HostBytes(val, k) == [i \in 1..k |-> (val \div Power[i - 1]) % Base]
HostValue(bytes) ==
  CHOOSE val \in 0..(Power[Len(bytes)] - 1) : HostBytes(val, Len(bytes)) = bytes

(* Slip: no conversion. *)
HostToNetworkForgotten(val, k) == val

(* htons, htonl and htobe64; one byte is left alone. *)
hostToNetwork(val, k) ==
  IF k = 1 THEN val ELSE HostValue(Reverse(HostBytes(val, k)))

networkToHost(val, k) ==
  IF k = 1 THEN val ELSE HostValue(Reverse(HostBytes(val, k)))

peekInt(b, k) == networkToHost(HostValue(SubSeq(b.mem, b.rd + 1, b.rd + k)), k)

-----------------------------------------------------------------------------
CodecInit ==
  /\ out = NewBuffer /\ wire = <<>> /\ in = NewBuffer
  /\ sent = <<>> /\ got = <<>>

WriteInt(k, val) ==
  /\ Len(sent) < MaxInts
  /\ out' = Write(out, HostBytes(hostToNetwork(val, k), k))
  /\ sent' = Append(sent, [width |-> k, val |-> val])
  /\ UNCHANGED <<wire, in, got>>

(* send copies data() and size(); the sender empties its buffer. *)
Send ==
  /\ readByte(out) > 0
  /\ wire' = wire \o Contents(out)
  /\ out' = RetrieveAll(out)
  /\ UNCHANGED <<in, sent, got>>

Deliver(n) ==
  /\ n <= Len(wire) /\ n <= ReadvRoom(in)
  /\ in' = Received(in, SubSeq(wire, 1, n))
  /\ wire' = SubSeq(wire, n + 1, Len(wire))
  /\ UNCHANGED <<out, sent, got>>

(* Slip: reading before all bytes of the integer are there. *)
ReadIntEarly ==
  /\ Len(got) < Len(sent)
  /\ LET k == sent[Len(got) + 1].width
         n == IF k <= readByte(in) THEN k ELSE readByte(in)
     IN  /\ n > 0
         /\ got' = Append(got, [width |-> k, val |-> peekInt(in, n)])
         /\ in' = Retrieve(in, n)
  /\ UNCHANGED <<out, wire, sent>>

(* The receiver knows what comes and waits until readByte() suffices, as    *)
(* peekInt asserts.                                                        *)
ReadInt ==
  /\ Len(got) < Len(sent)
  /\ LET k == sent[Len(got) + 1].width
     IN  /\ k <= readByte(in)
         /\ got' = Append(got, [width |-> k, val |-> peekInt(in, k)])
         /\ in' = Retrieve(in, k)
  /\ UNCHANGED <<out, wire, sent>>

CodecNext ==
  \/ \E k \in Widths : \E val \in 0..(Power[k] - 1) : WriteInt(k, val)
  \/ Send
  \/ \E n \in 1..Len(wire) : Deliver(n)
  \/ ReadInt

CodecSpec == CodecInit /\ [][CodecNext]_codecVars

-----------------------------------------------------------------------------
(* Properties. *)

(* The integers arrive as they were sent, in order, however the stream is   *)
(* cut up (message_buffer.cpp:30-97, tcp_connection.cpp:203-227).           *)
IntsArrive == IsPrefix(got, sent)

(* What is on its way is in network byte order, most significant byte       *)
(* first, and complete: the integers that were not read yet                *)
(* (endian.hpp:28-72, message_buffer.cpp:76-97).                            *)
NetworkBytes(x) == [i \in 1..x.width |-> (x.val \div Power[x.width - i]) % Base]

WireFormat ==
  LET rest == SubSeq(sent, Len(got) + 1, Len(sent))
  IN  Contents(in) \o wire \o Contents(out) =
        FlattenSeq([i \in 1..Len(rest) |-> NetworkBytes(rest[i])])
==============================================================================
