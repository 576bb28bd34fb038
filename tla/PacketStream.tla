----------------------------- MODULE PacketStream -----------------------------
(***************************************************************************)
(* What the Ogg container promises its two users, with no pages in sight:  *)
(* the packets given to the writer come out of the reader whole, once each *)
(* and in order, and the reader reports the end of a closed stream only    *)
(* after the last of them, with the duration the writer was closed with.   *)
(***************************************************************************)
EXTENDS Naturals, Sequences

CONSTANT Contents   \* what a packet can be

VARIABLES
    sent,      \* packets the writer accepted
    recv,      \* packets the reader delivered
    wstate,    \* "open", "closed" (with an end), "broken" (without)
    rstate     \* "reading", "eof", "failed"

avars == <<sent, recv, wstate, rstate>>

AInit == sent = <<>> /\ recv = <<>> /\ wstate = "open" /\ rstate = "reading"

Send == /\ wstate = "open"
        /\ \E c \in Contents : sent' = Append(sent, c)
        /\ UNCHANGED <<recv, wstate, rstate>>

Finish == /\ wstate = "open" /\ wstate' = "closed"
          /\ UNCHANGED <<sent, recv, rstate>>

\* The writer goes away without closing the stream.
Break == /\ wstate = "open" /\ wstate' = "broken"
         /\ UNCHANGED <<sent, recv, rstate>>

Receive == /\ rstate = "reading" /\ Len(recv) < Len(sent)
           /\ recv' = Append(recv, sent[Len(recv) + 1])
           /\ UNCHANGED <<sent, wstate, rstate>>

\* The end of a closed stream comes after its last packet; a broken one may
\* end anywhere.
End == /\ rstate = "reading"
       /\ \/ wstate = "closed" /\ Len(recv) = Len(sent)
          \/ wstate = "broken"
       /\ rstate' = "eof"
       /\ UNCHANGED <<sent, recv, wstate>>

Fail == /\ rstate = "reading" /\ rstate' = "failed"
        /\ UNCHANGED <<sent, recv, wstate>>

ANext == Send \/ Finish \/ Break \/ Receive \/ End \/ Fail

ASpec == AInit /\ [][ANext]_avars
=============================================================================
