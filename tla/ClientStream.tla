----------------------------- MODULE ClientStream -----------------------------
(***************************************************************************)
(* What the output side of RFBConnection promises: the server receives, in  *)
(* order, every message the client has for it.  Only a mouse movement that  *)
(* was not sent yet may give way to the next one.                           *)
(***************************************************************************)
EXTENDS Naturals, Sequences

CONSTANT Message,       \* what the client tells the server
         MovesTo(_, _)  \* the second message is a movement, and says all that
                        \*   matters of the first, which is one too

VARIABLES stream,       \* the messages, sent or about to be
          sent          \* how many of them are on their way

Init == stream = <<>> /\ sent = 0

\* The client has more to say; part of it or of the rest may be sent.
Extend ==
    /\ Len(stream') >= Len(stream)
    /\ \A i \in 1..Len(stream) : stream'[i] = stream[i]

\* It replaces the last message.
Supersede ==
    LET n == Len(stream) IN
    /\ sent < n
    /\ Len(stream') = n
    /\ \A i \in 1..n - 1 : stream'[i] = stream[i]
    /\ MovesTo(stream[n], stream'[n])

Next ==
    /\ stream' \in Seq(Message)
    /\ sent' \in sent..Len(stream')
    /\ Extend \/ Supersede

Spec == Init /\ [][Next]_<<stream, sent>>
=============================================================================
