--------------------------- MODULE MessageBufferOps ---------------------------
(***************************************************************************)
(* net/message_buffer.cpp: a buffer is the memory from start_ to end_ with *)
(* the offsets of read_ and write_ in it; the member functions are         *)
(* operators from a buffer to a buffer.                                    *)
(***************************************************************************)
EXTENDS Naturals, Sequences

CONSTANTS
  Byte,        \* the values of a char
  Junk,        \* a char that nobody wrote
  InitLength,  \* the constructor's length
  ExtLength    \* sizeof(extBuffer) in TcpConnection::handleRead

ASSUME JunkAssumption == Junk \notin Byte
ASSUME LengthAssumption == InitLength \in Nat /\ ExtLength \in Nat \ {0}

Buffer == [mem : Seq(Byte \union {Junk}), rd : Nat, wr : Nat]

(* MessageBuffer(length) *)
NewBuffer == [mem |-> [i \in 1..InitLength |-> Junk], rd |-> 0, wr |-> 0]

readByte(b) == b.wr - b.rd
writeByte(b) == Len(b.mem) - b.wr
size(b) == readByte(b)
Contents(b) == SubSeq(b.mem, b.rd + 1, b.wr)

-----------------------------------------------------------------------------
(* memcpy of bytes to offset pos; what lies beyond the end is not written.  *)
Copied(mem, pos, bytes) ==
  [i \in 1..Len(mem) |->
     IF i \in (pos + 1)..(pos + Len(bytes)) THEN bytes[i - pos] ELSE mem[i]]

Fresh(length) == [i \in 1..length |-> Junk]

(* Slip: copying from start_ instead of read_. *)
ReallocateFromStart(b, length) ==
  [mem |-> Copied(Fresh((size(b) + length) * 2), 0, SubSeq(b.mem, 1, readByte(b))),
   rd  |-> 0, wr |-> readByte(b)]

(* Slip: doubling the memory instead of what is in it. *)
ReallocateDoubling(b, length) ==
  [mem |-> Copied(Fresh((Len(b.mem) + length) * 2), 0, Contents(b)),
   rd  |-> 0, wr |-> readByte(b)]

(* New memory, twice what it has to hold, or the front of the old one.      *)
Reallocate(b, length) ==
  IF size(b) - readByte(b) < length
    THEN [mem |-> Copied(Fresh((size(b) + length) * 2), 0, Contents(b)),
          rd  |-> 0, wr |-> readByte(b)]
    ELSE [mem |-> Copied(b.mem, 0, Contents(b)),
          rd  |-> 0, wr |-> readByte(b)]

Write(b, bytes) ==
  LET c == IF writeByte(b) < Len(bytes) THEN Reallocate(b, Len(bytes)) ELSE b
  IN  [mem |-> Copied(c.mem, c.wr, bytes), rd |-> c.rd, wr |-> c.wr + Len(bytes)]

RetrieveAll(b) == [mem |-> b.mem, rd |-> 0, wr |-> 0]

(* retrieve, for len <= readByte() as it asserts *)
Retrieve(b, len) ==
  IF len < readByte(b)
    THEN [mem |-> b.mem, rd |-> b.rd + len, wr |-> b.wr]
    ELSE RetrieveAll(b)

AdvanceWrite(b, len) == [mem |-> b.mem, rd |-> b.rd, wr |-> b.wr + len]

(* TcpConnection::handleRead: readv into the free memory and, if that is    *)
(* less than extBuffer, into extBuffer; then advanceWrite and write.        *)
ReadvRoom(b) == writeByte(b) + IF writeByte(b) < ExtLength THEN ExtLength ELSE 0

(* What came goes to the memory first, the rest by way of extBuffer.       *)
Received(b, bytes) ==
  LET n == IF Len(bytes) <= writeByte(b) THEN Len(bytes) ELSE writeByte(b)
      c == AdvanceWrite([mem |-> Copied(b.mem, b.wr, SubSeq(bytes, 1, n)),
                         rd  |-> b.rd, wr |-> b.wr], n)
  IN  IF Len(bytes) <= writeByte(b) THEN c
      ELSE Write(c, SubSeq(bytes, n + 1, Len(bytes)))
==============================================================================
