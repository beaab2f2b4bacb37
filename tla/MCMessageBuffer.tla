--------------------------- MODULE MCMessageBuffer ---------------------------
(***************************************************************************)
(* Buffers that begin with two bytes, writes and a backlog of up to three,  *)
(* with an extBuffer of two: every write path (in place, reallocated to    *)
(* more and to less memory, into both buffers of readv) and every split of *)
(* the memory between head, content and free room occurs.                  *)
(***************************************************************************)
EXTENDS MessageBuffer

MCByte == {0, 1}
==============================================================================
