--------------------------- MODULE MCLockFreeQueue ---------------------------
(***************************************************************************)
(* Three producers, two payloads and five node addresses: the dummy, one     *)
(* node per producer and one more, so that a freed address is handed out   *)
(* again while another producer is still between its exchange and its      *)
(* link.                                                                   *)
(***************************************************************************)
EXTENDS LockFreeQueue, TLC

CONSTANTS p1, p2, p3, n1, n2, n3, n4, n5, v1, v2

MCProducers == {p1, p2, p3}
MCNode == {n1, n2, n3, n4, n5}
MCValue == {v1, v2}

Symmetry == Permutations(MCProducers) \union Permutations(MCNode)
==============================================================================
