---------------------------- MODULE MCMessageCodec ----------------------------
(***************************************************************************)
(* Bytes of one bit and integers of one, two and four of them, two of      *)
(* which are sent through buffers that begin with three bytes: every value *)
(* of every width, every cut of the stream, with and without reallocation. *)
(***************************************************************************)
EXTENDS MessageCodec

MCByte == 0..1
==============================================================================
