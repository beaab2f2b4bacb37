------------------------------ MODULE ByteStream ------------------------------
(***************************************************************************)
(* What net/message_buffer.hpp promises: a FIFO of bytes.  Bytes are        *)
(* appended at the end and taken or looked at from the front, whatever     *)
(* becomes of the memory underneath.                                       *)
(***************************************************************************)
EXTENDS Naturals, Sequences

CONSTANT Byte

VARIABLES
  content,  \* the bytes between readPeek() and writePeek()
  result    \* what the last read or peek returned

streamVars == <<content, result>>

StreamInit == content = <<>> /\ result = <<>>

(* The content grows at its end, by nothing but bytes.                     *)
Put ==
  /\ content' \in Seq(Byte)
  /\ Len(content) <= Len(content')
  /\ SubSeq(content', 1, Len(content)) = content
  /\ UNCHANGED result

Front(n) == SubSeq(content, 1, n)

(* read, readUntil, readAll, readInt8 ... readInt64 *)
Take(n) ==
  /\ result' = Front(n)
  /\ content' = SubSeq(content, n + 1, Len(content))

(* retrieve, retrieveUntil, retrieveAll *)
Drop(n) ==
  /\ content' = SubSeq(content, n + 1, Len(content))
  /\ UNCHANGED result

(* data() with size(), peekInt8 ... peekInt64 *)
Peek(n) ==
  /\ result' = Front(n)
  /\ UNCHANGED content

StreamNext ==
  \/ Put
  \/ \E n \in 0..Len(content) : Take(n) \/ Drop(n) \/ Peek(n)

StreamSpec == StreamInit /\ [][StreamNext]_streamVars
==============================================================================
