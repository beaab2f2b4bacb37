------------------------------- MODULE TcpStream -------------------------------
(***************************************************************************)
(* What a TcpConnection promises of what its user sends: the kernel gets   *)
(* the bytes in the order of the sends, each once; after shutdown() it gets *)
(* a FIN when it has all of them, and nothing behind that; a connection    *)
(* that is over sends no FIN.  How long bytes wait, and where, and who ends *)
(* the connection is left open.                                            *)
(***************************************************************************)
EXTENDS Naturals, Sequences

CONSTANT MaxBytes   \* bound: bytes that are sent

VARIABLES
  phase,     \* "new", "open", "closing" after shutdown(), "over"
  sent,      \* bytes given to send(): 1, 2, ..., sent
  arrived,   \* what the kernel got
  fin        \* the kernel got a FIN

streamVars == <<phase, sent, arrived, fin>>

StreamInit == phase = "new" /\ sent = 0 /\ arrived = <<>> /\ fin = FALSE

(* More of the bytes reach the kernel. *)
Arrive ==
  \E n \in Len(arrived)..sent' :
    /\ arrived' = [i \in 1..n |-> i]
    /\ fin => n = Len(arrived)

(* A FIN, or none yet. *)
MayFinish == fin' = fin \/ (fin' /\ Len(arrived') = sent)

Begin ==
  /\ phase = "new" /\ phase' = "open"
  /\ UNCHANGED <<sent, arrived, fin>>

Send ==
  /\ phase # "new"
  /\ sent' \in sent..MaxBytes
  /\ Arrive
  /\ UNCHANGED <<phase, fin>>

Flush ==
  /\ phase # "new"
  /\ sent' = sent /\ Arrive
  /\ IF phase = "closing" THEN MayFinish ELSE UNCHANGED fin
  /\ UNCHANGED phase

Shutdown ==
  /\ phase = "open" /\ phase' = "closing"
  /\ UNCHANGED <<sent, arrived>>
  /\ MayFinish

End ==
  /\ phase \in {"open", "closing"} /\ phase' = "over"
  /\ UNCHANGED <<sent, arrived, fin>>

StreamNext == Begin \/ Send \/ Flush \/ Shutdown \/ End

StreamSpec == StreamInit /\ [][StreamNext]_streamVars
================================================================================
