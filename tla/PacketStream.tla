---------------------------- MODULE PacketStream ----------------------------
(***************************************************************************)
(* One direction of a connection, from a packet handed to Send to the same *)
(* packet in Recv_Data_Queue: the sender cuts a packet into chunks of at   *)
(* most OVERLAPPED_BUFIZE bytes, TCP (external) carries the bytes in order *)
(* but hands them over in pieces of its own choosing, and IOFunction_Recv  *)
(* puts the packets together again in the m_Processing_Packet_Buffer of    *)
(* the Overlapped it receives with.                                        *)
(*                                                                         *)
(* The two directions run the same code but for one line: when WSASend     *)
(* fails, DHClient::SendFunction closes the socket, DHServer::SendThread   *)
(* only gives the packet up.                                               *)
(*                                                                         *)
(* A byte is the pair <<packet, position in the packet>>; a packet is a    *)
(* header of HeaderSize bytes, which holds the size of the body and the    *)
(* type, and the body.                                                     *)
(***************************************************************************)
EXTENDS Naturals, Sequences, FiniteSetsExt

CONSTANTS
    HeaderSize,     \* PACKET_HEADER_SIZE (10)
    BufSize,        \* OVERLAPPED_BUFIZE (2048)
    MaxPacketSize,  \* MAX_PACKET_SIZE (20480)
    BodySizes,      \* the body sizes that are sent
    Types,          \* the packet types: "none" is PACKET_TYPE_NONE, which
                    \* DHClient::Send refuses but another program may send
    MaxPackets      \* bound: packets sent in a behaviour

ASSUME StreamAssumption ==
    /\ HeaderSize \in Nat \ {0}
    /\ BufSize \in Nat \ {0}
    /\ MaxPacketSize \in Nat
    /\ BodySizes \subseteq Nat
    /\ Types \subseteq {"typed", "none"}
    /\ MaxPackets \in Nat

VARIABLES
    direction,          \* "ToServer" or "ToClient"; it never changes
    packets,            \* the packets handed to Send, in order
    popped,             \* how many of them SendFunction has taken
    Total_Packet_Size,  \* SendFunction: bytes of the current packet to send
    Buff_Offset,        \* SendFunction: chunks of it sent so far
    link,               \* "up", or "closed": by the sender or because it broke
    givenUp,            \* packets whose WSASend failed on a link that stays up
    stream,             \* every byte WSASend was given
    taken,              \* how many of them TCP has delivered
    buffer,             \* the filled part of m_Processing_Packet_Buffer
    receiver,           \* "armed" (WSARecv pending), "parse", "overflow"
                        \* (client dropped), "reject" (same), "ended"
    Recv_Data_Queue     \* the packets put together, as sequences of bytes

sendVars == <<direction, packets, popped, Total_Packet_Size, Buff_Offset, link, givenUp>>
recvVars == <<taken, buffer, receiver, Recv_Data_Queue>>
vars == <<sendVars, stream, recvVars>>

PacketSize(p) == HeaderSize + packets[p].size

\* The bytes first .. first + n - 1 of packet p.
Bytes(p, first, n) == [i \in 1..n |-> <<p, first + i - 1>>]

Init ==
    /\ direction \in {"ToServer", "ToClient"}
    /\ packets = <<>> /\ popped = 0
    /\ Total_Packet_Size = 0 /\ Buff_Offset = 0
    /\ link = "up" /\ givenUp = {}
    /\ stream = <<>>
    /\ taken = 0 /\ buffer = <<>>
    /\ receiver = "armed"
    /\ Recv_Data_Queue = <<>>

-----------------------------------------------------------------------------
(* The sender.                                                             *)

\* Send: a copy of the packet goes to Send_Data_Queue.
Send(n, type) ==
    /\ Len(packets) < MaxPackets
    /\ packets' = Append(packets, [size |-> n, type |-> type])
    /\ UNCHANGED <<direction, popped, Total_Packet_Size, Buff_Offset, link, givenUp,
                   stream, recvVars>>

\* Mutant of PopPacket: Buff_Offset is not reset.
PopPacketKeepsOffset ==
    /\ link = "up"
    /\ Total_Packet_Size = 0
    /\ popped < Len(packets)
    /\ popped' = popped + 1
    /\ Total_Packet_Size' = PacketSize(popped + 1)
    /\ UNCHANGED <<direction, packets, Buff_Offset, link, givenUp, stream, recvVars>>

\* The next packet is taken, if the socket is still valid.  (SendThread also
\* takes packets for a link that is broken: WSASend fails for all of them.)
PopPacket ==
    /\ link = "up"
    /\ Total_Packet_Size = 0
    /\ popped < Len(packets)
    /\ popped' = popped + 1
    /\ Total_Packet_Size' = PacketSize(popped + 1)
    /\ Buff_Offset' = 0
    /\ UNCHANGED <<direction, packets, link, givenUp, stream, recvVars>>

\* How much of the rest goes into this chunk: "Total >= OVERLAPPED_BUFIZE".
ChunkSize == IF Total_Packet_Size >= BufSize THEN BufSize ELSE Total_Packet_Size

\* One turn of the loop: copy from Buff_Offset * OVERLAPPED_BUFIZE, WSASend.
SendChunk ==
    /\ Total_Packet_Size > 0
    /\ stream' = stream \o Bytes(popped, Buff_Offset * BufSize, ChunkSize)
    /\ Total_Packet_Size' = Total_Packet_Size - ChunkSize
    /\ Buff_Offset' = Buff_Offset + 1
    /\ UNCHANGED <<direction, packets, popped, link, givenUp, recvVars>>

\* Mutant of SendFails: SendFunction does not close the socket.
SendFailsStaysOpen ==
    /\ Total_Packet_Size > 0
    /\ Total_Packet_Size' = 0
    /\ UNCHANGED <<direction, packets, popped, Buff_Offset, link, givenUp, stream, recvVars>>

\* WSASend fails and the rest of the packet is given up.  SendFunction closes
\* the socket.  SendThread does not, and goes on with the next packet: the link
\* may be broken (10053) or up (10055, no buffer space).
SendFails ==
    /\ Total_Packet_Size > 0
    /\ Total_Packet_Size' = 0
    /\ \/ link' = "closed" /\ UNCHANGED givenUp
       \/ /\ direction = "ToClient"
          /\ givenUp' = givenUp \cup {popped}
          /\ UNCHANGED link
    /\ UNCHANGED <<direction, packets, popped, Buff_Offset, stream, recvVars>>

-----------------------------------------------------------------------------
(* The receiver.                                                           *)

\* Mutant of TooMany: off by one.
TooManyOffByOne(n) == Len(buffer) + n >= MaxPacketSize

\* Whether n more bytes are too many for the buffer.
TooMany(n) == Len(buffer) + n > MaxPacketSize

\* A receive of n bytes completes: BackUp_Overlapped appends them to the
\* buffer, or drops the client when they do not fit.
Receive(n) ==
    /\ receiver = "armed"
    /\ taken + n <= Len(stream)
    /\ taken' = taken + n
    /\ IF TooMany(n)
       THEN receiver' = "overflow" /\ UNCHANGED buffer
       ELSE /\ buffer' = buffer \o SubSeq(stream, taken + 1, taken + n)
            /\ receiver' = "parse"
    /\ UNCHANGED <<sendVars, stream, Recv_Data_Queue>>

\* The packet whose header the buffer starts with; 0 if it starts with
\* anything else.
HeaderAt(b) ==
    IF Len(b) >= HeaderSize /\ SubSeq(b, 1, HeaderSize) = Bytes(b[1][1], 0, HeaderSize)
    THEN b[1][1] ELSE 0

\* What the size and the type field of the header can read as: the packet's
\* own values, or any value at all if the buffer does not start with a header.
ReadHeader(b) ==
    IF HeaderAt(b) # 0
    THEN {packets[HeaderAt(b)]}
    ELSE [size : BodySizes \cup {0}, type : {"typed", "none"}]

\* Mutant of Complete: a packet that ends the buffer is left there.
CompleteStrict(h) == HeaderSize + h.size < Len(buffer)

\* Whether all of the packet with header h is there.
Complete(h) == HeaderSize + h.size <= Len(buffer)

\* One turn of the loop of IOFunction_Recv with Push_RecvData: a complete
\* packet is cut off the front of the buffer and queued.  The rest is moved down by
\* a memcpy_s over overlapping ranges, which C leaves undefined: it is taken as the
\* memmove that the C library of the build makes of it.
PushPacket ==
    /\ receiver = "parse"
    /\ Len(buffer) >= HeaderSize
    /\ \E h \in ReadHeader(buffer) :
          /\ Complete(h)
          /\ h.type # "none"
          /\ Recv_Data_Queue' =
                Append(Recv_Data_Queue, SubSeq(buffer, 1, HeaderSize + h.size))
          /\ buffer' = SubSeq(buffer, HeaderSize + h.size + 1, Len(buffer))
    /\ UNCHANGED <<sendVars, stream, taken, receiver>>

\* Push_RecvData drops the client for a packet without a type.
RejectPacket ==
    /\ receiver = "parse"
    /\ Len(buffer) >= HeaderSize
    /\ \E h \in ReadHeader(buffer) :
          Complete(h) /\ h.type = "none"
    /\ receiver' = "reject"
    /\ UNCHANGED <<sendVars, stream, taken, buffer, Recv_Data_Queue>>

\* No complete packet is left: Reserve_WSAReceive with the same Overlapped.
ParseDone ==
    /\ receiver = "parse"
    /\ \/ Len(buffer) < HeaderSize
       \/ \E h \in ReadHeader(buffer) : ~Complete(h)
    /\ receiver' = "armed"
    /\ UNCHANGED <<sendVars, stream, taken, buffer, Recv_Data_Queue>>

\* Zero bytes: the sender has closed and everything it sent has arrived.
ReceiveEnd ==
    /\ receiver = "armed"
    /\ link = "closed"
    /\ taken = Len(stream)
    /\ receiver' = "ended"
    /\ UNCHANGED <<sendVars, stream, taken, buffer, Recv_Data_Queue>>

ReceiverStep ==
    \/ \E n \in 1..BufSize : Receive(n)
    \/ PushPacket \/ RejectPacket \/ ParseDone \/ ReceiveEnd

Next ==
    \/ \E n \in BodySizes, type \in Types : Send(n, type)
    \/ PopPacket \/ SendChunk \/ SendFails
    \/ ReceiverStep

Spec == Init /\ [][Next]_vars

\* Both threads keep running and TCP delivers what was sent.
FairSpec == Spec /\ WF_vars(PopPacket \/ SendChunk) /\ WF_vars(ReceiverStep)

-----------------------------------------------------------------------------
(* Properties.                                                             *)

Packet == [size : Nat, type : {"typed", "none"}]

\* Types of the variables.
TypeOK ==
    /\ direction \in {"ToServer", "ToClient"}
    /\ packets \in Seq(Packet)
    /\ popped \in 0..Len(packets)
    /\ Total_Packet_Size \in Nat /\ Buff_Offset \in Nat
    /\ link \in {"up", "closed"} /\ givenUp \subseteq 1..popped
    /\ stream \in Seq(Nat \X Nat)
    /\ taken \in 0..Len(stream)
    /\ buffer \in Seq(Nat \X Nat)
    /\ Len(buffer) <= MaxPacketSize
    /\ receiver \in {"armed", "parse", "overflow", "reject", "ended"}
    /\ Recv_Data_Queue \in Seq(Seq(Nat \X Nat))

\* The application receives the packets that were sent, in that order and each
\* with all of its bytes, however TCP cuts the stream.  Nothing is promised from
\* the first packet on that SendThread gave up.
IntactInOrder ==
    \A i \in 1..Len(Recv_Data_Queue) :
        (\A p \in givenUp : i < p) =>
            /\ i <= Len(packets)
            /\ Recv_Data_Queue[i] = Bytes(i, 0, PacketSize(i))

\* The size up to which a packet is safe: with it less than a buffer's worth
\* of other bytes can follow in the same receive.
SafeSize == MaxPacketSize - BufSize + 1

\* BackUp_Overlapped drops no client all of whose packets are safe.
SafeNeverDropped ==
    (/\ \A p \in 1..Len(packets) : PacketSize(p) <= SafeSize
     /\ givenUp = {}) => receiver # "overflow"

\* DummyClient.cpp:318: more than the 2048 bytes of a buffer can be sent,
\* because data of up to 20480 bytes can be received: no client is dropped
\* whose packets are not larger than MAX_PACKET_SIZE.
DocumentedSizeReceived ==
    (/\ \A p \in 1..Len(packets) : PacketSize(p) <= MaxPacketSize
     /\ givenUp = {}) => receiver # "overflow"

\* Every packet the sender takes is received, unless the connection ends or a
\* packet is given up.
AllReceived ==
    \A p \in 1..MaxPackets :
        popped >= p ~> \/ Len(Recv_Data_Queue) >= p
                       \/ receiver \in {"overflow", "reject", "ended"}
                       \/ givenUp # {}

-----------------------------------------------------------------------------
(* The abstract channel the stream implements.                             *)

\* The packet a received byte string is, or 0 if it is not one.
Identify(bytes) ==
    IF bytes # <<>> /\ bytes = Bytes(bytes[1][1], 0, PacketSize(bytes[1][1]))
    THEN bytes[1][1] ELSE 0

\* DHServer.cpp:596: whatever was given up before, the application receives whole
\* packets.  This does not hold: SendThread goes on with the next packet on a
\* connection that is up, and the receiver takes its bytes for the missing ones.
WholePackets == \A i \in 1..Len(Recv_Data_Queue) : Identify(Recv_Data_Queue[i]) # 0

\* The part of Recv_Data_Queue before the first packet that was given up.
Promised == Min({Len(Recv_Data_Queue)} \cup {p - 1 : p \in givenUp})

Channel == INSTANCE PacketChannel WITH
    Packets  <- [size : BodySizes, type : Types],
    sent     <- packets,
    received <- [i \in 1..Promised |-> Identify(Recv_Data_Queue[i])],
    broken   <- receiver \in {"overflow", "reject", "ended"}

\* Chunking and reassembly implement the channel, up to the first packet that
\* SendThread gives up: every step is a Send, the delivery of the next whole
\* packet, the end of the connection, or invisible.
ImplementsChannel == Channel!Spec
=============================================================================
