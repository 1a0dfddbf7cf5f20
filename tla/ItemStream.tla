------------------------------ MODULE ItemStream ------------------------------
(***************************************************************************)
(* What reading from the server promises to those who set the readers: each  *)
(* item of the stream is handed over once, in order, with its own bytes,     *)
(* however the bytes come in; and it is, once they have come.                *)
(*                                                                         *)
(* A byte is known by its place in the stream.  What the readers do not      *)
(* promise is an item of no bytes: it is handed over when another byte comes *)
(* and takes the connection with it.                                         *)
(***************************************************************************)
EXTENDS Naturals, Sequences

CONSTANT HeaderSize(_)      \* bytes of a kind of items that are not handed over

VARIABLES items,            \* what the server sends: kinds and sizes
          received,         \* how many bytes have come
          used,             \* how many of them were of items handed over
          delivered,        \* what was handed over, item by item
          outcome           \* how the connection has ended

vars == <<items, received, used, delivered, outcome>>

WireSize(i) == HeaderSize(items[i].kind) + items[i].size

Payload(i) == [j \in 1..items[i].size |-> used + HeaderSize(items[i].kind) + j]

Arrived(i) ==
    /\ i \in DOMAIN items /\ received >= used + WireSize(i)
    /\ WireSize(i) = 0 => received > used

Init == received = 0 /\ used = 0 /\ delivered = <<>> /\ outcome = "open"

Receive ==
    /\ outcome = "open"
    /\ received' \in Nat /\ received' > received
    /\ UNCHANGED <<items, used, delivered, outcome>>

Deliver ==
    LET i == Len(delivered) + 1 IN
    /\ outcome = "open" /\ Arrived(i)
    /\ delivered' = Append(delivered, Payload(i))
    /\ used' = used + WireSize(i)
    /\ outcome' = IF WireSize(i) = 0 THEN "protocolError"
                  ELSE IF i = Len(items) THEN "finished" ELSE "open"
    /\ UNCHANGED <<items, received>>

\* Nothing that has come is lost.
ServerCloses ==
    /\ outcome = "open" /\ ~Arrived(Len(delivered) + 1)
    /\ outcome' = "serverClosed"
    /\ UNCHANGED <<items, received, used, delivered>>

Next == Receive \/ Deliver \/ ServerCloses

Spec == Init /\ [][Next]_vars
FairSpec == Spec /\ WF_vars(Deliver)
=============================================================================
