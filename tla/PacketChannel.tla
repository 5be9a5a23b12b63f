---------------------------- MODULE PacketChannel ----------------------------
(***************************************************************************)
(* What a connection promises to the programs at its two ends: a FIFO      *)
(* channel of whole packets that may break, after which nothing arrives.   *)
(***************************************************************************)
EXTENDS Naturals, Sequences

CONSTANT Packets    \* what can be sent

VARIABLES
    sent,       \* the packets handed to Send
    received,   \* the packets handed out by Recv, as numbers of sent packets
    broken

vars == <<sent, received, broken>>

Init == sent = <<>> /\ received = <<>> /\ broken = FALSE

Send(packet) ==
    /\ sent' = Append(sent, packet)
    /\ UNCHANGED <<received, broken>>

\* The next packet arrives, whole.
Deliver ==
    /\ ~broken
    /\ Len(received) < Len(sent)
    /\ received' = Append(received, Len(received) + 1)
    /\ UNCHANGED <<sent, broken>>

Break ==
    /\ ~broken
    /\ broken' = TRUE
    /\ UNCHANGED <<sent, received>>

Next == (\E packet \in Packets : Send(packet)) \/ Deliver \/ Break

Spec == Init /\ [][Next]_vars
=============================================================================
