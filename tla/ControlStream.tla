--------------------------- MODULE ControlStream ---------------------------
(***************************************************************************)
(* What the control channel promises to the TLS library that runs on top   *)
(* of it: a first-in first-out stream of packets in one direction.  Every  *)
(* packet handed over is delivered once, in order and unchanged, and none  *)
(* is invented.  ReliableChannel implements this over UDP.                 *)
(***************************************************************************)
EXTENDS Naturals, Sequences

CONSTANTS Packets,     \* what may be handed over
          MaxBatch     \* packets handed over in one step

VARIABLES sent,        \* packets handed to the channel, oldest first
          got          \* packets the channel has delivered, oldest first

vars == <<sent, got>>

Init == sent = <<>> /\ got = <<>>

\* One record of the TLS library is cut into one or more packets.
HandOver ==
    /\ \E n \in 1 .. MaxBatch :
          /\ Len(sent') = Len(sent) + n
          /\ SubSeq(sent', 1, Len(sent)) = sent
          /\ \A i \in Len(sent) + 1 .. Len(sent) + n : sent'[i] \in Packets
    /\ got' = got

\* The receiving side may find several packets in sequence.
Deliver ==
    /\ \E n \in Len(got) + 1 .. Len(sent) : got' = SubSeq(sent, 1, n)
    /\ sent' = sent

Next == HandOver \/ Deliver

Safety == Init /\ [][Next]_vars

\* The stream keeps moving while something is undelivered.
Spec == Safety /\ WF_vars(Deliver)
=============================================================================
