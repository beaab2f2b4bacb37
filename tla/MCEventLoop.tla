----------------------------- MODULE MCEventLoop -----------------------------
(***************************************************************************)
(* Two foreign threads and two functors: one thread can stand between the  *)
(* claim and the publication of its slot while the other, or a callback of *)
(* the loop, posts behind it, and one can post while the other stops.      *)
(***************************************************************************)
EXTENDS EventLoop

CONSTANTS t1, t2, e1, e2

MCThreads == {t1, t2}
MCValue == {e1, e2}
==============================================================================
