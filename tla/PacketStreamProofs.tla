------------------------- MODULE PacketStreamProofs -------------------------
(***************************************************************************)
(* Proofs about PacketStream, for every header, buffer and packet size and *)
(* every number of packets: what is put together again is what was sent,   *)
(* and the stream implements the abstract channel.                         *)
(*                                                                         *)
(* The argument is about places: start[p] is where packet p starts in the  *)
(* stream of bytes.  The sender writes packet p from start[p] on, and what *)
(* the receiver has in its buffer are the bytes from start[p] on, with p   *)
(* the first packet it has not handed out.                                 *)
(***************************************************************************)
EXTENDS PacketStream, SequenceTheorems, NaturalsInduction, WellFoundedInduction, TLAPS

-----------------------------------------------------------------------------
(* The inductive invariant.                                                *)

\* The packet that the receiver is putting together.
Current == Len(Recv_Data_Queue) + 1

\* Neither p nor a packet before it was given up.
Right(p) == \A q \in givenUp : p < q

\* A byte belongs to a packet that SendFunction has taken.
BytesKnown ==
    /\ \A i \in 1..Len(stream) : stream[i][1] \in 1..popped
    /\ \A i \in 1..Len(buffer) : buffer[i][1] \in 1..popped

\* The chunks of the packet in hand that were sent and the rest make it up.
Sending ==
    Total_Packet_Size > 0 =>
        /\ link = "up" /\ popped > 0
        /\ Buff_Offset * BufSize + Total_Packet_Size = PacketSize(popped)

\* A packet starts where the one before it ends.
Offsets(start) ==
    /\ start \in [Nat -> Nat]
    /\ start[1] = 0
    /\ \A p \in 1..popped : start[p + 1] = start[p] + PacketSize(p)
    /\ \A p \in 1..popped, q \in 1..(popped + 1) :
          p < q => start[p] + PacketSize(p) <= start[q]

\* What is in the stream: the bytes of each packet at its place.
Placed(start) ==
    \A p \in 1..popped : Right(p) =>
        \A k \in 0..(PacketSize(p) - 1) :
            start[p] + k < Len(stream) => stream[start[p] + k + 1] = <<p, k>>

\* How much is in the stream.
Filled(start) ==
    /\ givenUp = {} =>
          /\ link = "up" => Len(stream) + Total_Packet_Size = start[popped + 1]
          /\ Len(stream) <= start[popped + 1]
    /\ givenUp # {} => \A p \in 1..popped : Right(p) => start[p + 1] <= Len(stream)

\* The buffer has the bytes from the start of the current packet to the last
\* byte that was received.
Aligned(start) ==
    Right(Current) =>
        /\ Current <= popped + 1
        /\ start[Current] + Len(buffer) <= taken
        /\ receiver # "overflow" => start[Current] + Len(buffer) = taken
        /\ \A j \in 1..Len(buffer) : buffer[j] = stream[start[Current] + j]

\* What was handed out.
Received ==
    \A i \in 1..Len(Recv_Data_Queue) : Right(i) =>
        /\ i <= popped
        /\ Recv_Data_Queue[i] = Bytes(i, 0, PacketSize(i))

\* The receiver waits for more only without a whole packet in the buffer.
ParsedAll ==
    receiver = "armed" /\ Right(Current) /\ Current <= popped =>
        Len(buffer) < PacketSize(Current)

\* What a full buffer is due to.
Dropped ==
    receiver = "overflow" =>
        givenUp # {} \/ \E p \in 1..Len(packets) : PacketSize(p) > SafeSize

StreamTypes == TypeOK /\ BytesKnown /\ Sending

InPlace(start) ==
    Offsets(start) /\ Placed(start) /\ Filled(start) /\ Aligned(start)

StreamInv ==
    /\ StreamTypes /\ Received /\ ParsedAll /\ Dropped
    /\ \E start : InPlace(start)

-----------------------------------------------------------------------------
(* Sequences of bytes.                                                     *)

LEMMA BytesFacts ==
    ASSUME NEW p \in Nat, NEW first \in Nat, NEW n \in Nat
    PROVE  /\ Bytes(p, first, n) \in Seq(Nat \X Nat)
           /\ Len(Bytes(p, first, n)) = n
           /\ \A i \in 1..n : Bytes(p, first, n)[i] = <<p, first + i - 1>>
  BY DEF Bytes

LEMMA JoinFacts ==
    ASSUME NEW s \in Seq(Nat \X Nat), NEW t \in Seq(Nat \X Nat)
    PROVE  /\ s \o t \in Seq(Nat \X Nat)
           /\ Len(s \o t) = Len(s) + Len(t)
           /\ \A i \in 1..Len(s) : (s \o t)[i] = s[i]
           /\ \A i \in 1..Len(t) : (s \o t)[Len(s) + i] = t[i]
  OBVIOUS

LEMMA CutFacts ==
    ASSUME NEW s \in Seq(Nat \X Nat), NEW m \in Nat, NEW n \in Nat,
           m <= n, n <= Len(s)
    PROVE  /\ SubSeq(s, m + 1, n) \in Seq(Nat \X Nat)
           /\ Len(SubSeq(s, m + 1, n)) = n - m
           /\ \A i \in 1..(n - m) : SubSeq(s, m + 1, n)[i] = s[m + i]
<1>0. PICK B : B = Nat \X Nat
    OBVIOUS
<1>1. PICK first \in Int : first = m + 1
    OBVIOUS
<1>2. (\A i \in first..n : s[i] \in B) /\ n \in Int
    BY <1>0, <1>1
<1>3. /\ SubSeq(s, first, n) \in Seq(B)
      /\ Len(SubSeq(s, first, n)) = IF first <= n THEN n - first + 1 ELSE 0
      /\ \A i \in 1..(n - first + 1) : SubSeq(s, first, n)[i] = s[first + i - 1]
    BY ONLY <1>1, <1>2, SubSeqProperties
<1>4. n - first + 1 = n - m /\ \A i \in 1..(n - m) : first + i - 1 = m + i
    BY <1>1
<1>5. Len(SubSeq(s, first, n)) = n - m
    BY <1>1, <1>3
<1>6. QED
    BY <1>0, <1>1, <1>3, <1>4, <1>5

LEMMA AddFacts ==
    ASSUME NEW T, NEW s \in Seq(T), NEW e \in T
    PROVE  /\ Append(s, e) \in Seq(T)
           /\ Len(Append(s, e)) = Len(s) + 1
           /\ \A i \in 1..Len(s) : Append(s, e)[i] = s[i]
           /\ Append(s, e)[Len(s) + 1] = e
  OBVIOUS

LEMMA SizeFacts ==
    ASSUME StreamTypes, NEW p \in 1..Len(packets)
    PROVE  /\ packets[p] \in Packet
           /\ PacketSize(p) \in Nat /\ PacketSize(p) >= HeaderSize
           /\ HeaderSize \in Nat /\ HeaderSize >= 1 /\ PacketSize(p) >= 1
<1>1. packets[p] \in Packet
    BY DEF StreamTypes, TypeOK
<1>2. packets[p].size \in Nat
    BY <1>1 DEF Packet
<1>3. HeaderSize \in Nat /\ HeaderSize >= 1
    BY StreamAssumption
<1>4. QED
    BY <1>1, <1>2, <1>3 DEF PacketSize

\* The header the buffer starts with is that of a packet that was sent, or of
\* anything with a size.
LEMMA HeaderFacts ==
    ASSUME StreamTypes, NEW h \in ReadHeader(buffer), Len(buffer) >= HeaderSize
    PROVE  h \in Packet
<1>1. CASE HeaderAt(buffer) # 0
  <2>1. HeaderAt(buffer) = buffer[1][1]
      BY <1>1 DEF HeaderAt
  <2>2. buffer[1][1] \in 1..Len(packets)
      BY StreamAssumption DEF StreamTypes, BytesKnown, TypeOK
  <2>3. QED
      BY <1>1, <2>1, <2>2, SizeFacts DEF ReadHeader
<1>2. CASE HeaderAt(buffer) = 0
  <2>1. h \in [size : BodySizes \cup {0}, type : {"typed", "none"}]
      BY <1>2 DEF ReadHeader
  <2>2. BodySizes \cup {0} \subseteq Nat
      BY StreamAssumption
  <2>3. QED
      BY <2>1, <2>2 DEF Packet
<1>3. QED
    BY <1>1, <1>2

-----------------------------------------------------------------------------
(* Types.                                                                  *)

LEMMA InitTypes == Init => StreamTypes
  BY StreamAssumption DEF Init, StreamTypes, TypeOK, BytesKnown, Sending

\* Send changes no packet that is there.
LEMMA SendKeeps ==
    ASSUME StreamTypes, NEW n \in BodySizes, NEW type \in Types, Send(n, type)
    PROVE  /\ packets' \in Seq(Packet)
           /\ Len(packets') = Len(packets) + 1
           /\ \A p \in 1..Len(packets) : PacketSize(p)' = PacketSize(p)
<1>1. [size |-> n, type |-> type] \in Packet
    BY StreamAssumption DEF Packet
<1>2. packets \in Seq(Packet)
    BY DEF StreamTypes, TypeOK
<1>3. QED
    BY <1>1, <1>2, AddFacts DEF Send, PacketSize

LEMMA SendTypes ==
    ASSUME StreamTypes, NEW n \in BodySizes, NEW type \in Types, Send(n, type)
    PROVE  StreamTypes'
<1>1. /\ UNCHANGED <<direction, popped, Total_Packet_Size, Buff_Offset, link, givenUp, stream>>
      /\ UNCHANGED <<taken, buffer, receiver, Recv_Data_Queue>>
    BY DEF Send, recvVars
<1>2. packets' \in Seq(Packet) /\ Len(packets') = Len(packets) + 1
    BY SendKeeps
<1>3. popped \in 0..Len(packets')
    BY <1>2 DEF StreamTypes, TypeOK
<1>4. TypeOK'
    BY <1>1, <1>2, <1>3 DEF StreamTypes, TypeOK
<1>5. BytesKnown'
    BY <1>1 DEF StreamTypes, BytesKnown
<1>6. Sending'
  <2>1. popped \in 0..Len(packets)
      BY DEF StreamTypes, TypeOK
  <2>2. popped > 0 => popped \in 1..Len(packets)
      BY <2>1
  <2>3. popped > 0 => PacketSize(popped)' = PacketSize(popped)
      BY <1>1, <2>2, SendKeeps DEF PacketSize
  <2>4. QED
      BY <1>1, <2>3 DEF StreamTypes, Sending
<1>7. QED
    BY <1>4, <1>5, <1>6 DEF StreamTypes

LEMMA PopTypes == ASSUME StreamTypes, PopPacket PROVE StreamTypes'
<1> USE DEF PopPacket, recvVars
<1>1. popped + 1 \in 1..Len(packets) /\ popped \in Nat
    BY DEF StreamTypes, TypeOK
<1>2. PacketSize(popped + 1) \in Nat /\ PacketSize(popped + 1) >= 1
    BY <1>1, SizeFacts
<1>3. TypeOK'
  <2>1. popped' \in 0..Len(packets') /\ givenUp' \subseteq 1..popped'
      BY <1>1 DEF StreamTypes, TypeOK
  <2>2. QED
      BY <1>2, <2>1 DEF StreamTypes, TypeOK
<1>4. BytesKnown'
  <2>1. 1..popped \subseteq 1..popped'
      BY <1>1
  <2>2. QED
      BY <2>1 DEF StreamTypes, BytesKnown
<1>5. Sending'
  <2>1. PacketSize(popped)' = PacketSize(popped + 1)
      BY DEF PopPacket, PacketSize
  <2>2. Buff_Offset' * BufSize = 0
      BY StreamAssumption
  <2>3. QED
      BY <1>1, <1>2, <2>1, <2>2 DEF Sending
<1>6. QED
    BY <1>3, <1>4, <1>5 DEF StreamTypes

LEMMA ChunkFacts ==
    ASSUME StreamTypes, Total_Packet_Size > 0
    PROVE  /\ ChunkSize \in Nat /\ ChunkSize > 0 /\ ChunkSize <= Total_Packet_Size
           /\ popped \in 1..Len(packets)
           /\ Buff_Offset * BufSize \in Nat
           /\ Bytes(popped, Buff_Offset * BufSize, ChunkSize) \in Seq(Nat \X Nat)
           /\ Len(Bytes(popped, Buff_Offset * BufSize, ChunkSize)) = ChunkSize
           /\ \A i \in 1..ChunkSize :
                 Bytes(popped, Buff_Offset * BufSize, ChunkSize)[i] =
                    <<popped, Buff_Offset * BufSize + i - 1>>
           /\ Total_Packet_Size - ChunkSize > 0 => ChunkSize = BufSize
<1>1. /\ ChunkSize \in Nat /\ ChunkSize > 0 /\ ChunkSize <= Total_Packet_Size
      /\ Total_Packet_Size - ChunkSize > 0 => ChunkSize = BufSize
    BY StreamAssumption DEF StreamTypes, TypeOK, ChunkSize
<1>2. popped \in 1..Len(packets)
    BY DEF StreamTypes, TypeOK, Sending
<1>3. Buff_Offset * BufSize \in Nat
    BY StreamAssumption DEF StreamTypes, TypeOK
<1>4. popped \in Nat
    BY <1>2
<1>5. PICK first \in Nat : first = Buff_Offset * BufSize
    BY <1>3
<1>6. QED
    BY <1>1, <1>2, <1>4, <1>5, BytesFacts

LEMMA ChunkTypes == ASSUME StreamTypes, SendChunk PROVE StreamTypes'
<1> USE DEF SendChunk, recvVars
<1> PICK chunk : chunk = Bytes(popped, Buff_Offset * BufSize, ChunkSize)
    OBVIOUS
<1>1. /\ chunk \in Seq(Nat \X Nat) /\ Len(chunk) = ChunkSize /\ ChunkSize \in Nat
      /\ \A i \in 1..ChunkSize : chunk[i] = <<popped, Buff_Offset * BufSize + i - 1>>
    BY ChunkFacts
<1>2. stream \in Seq(Nat \X Nat) /\ stream' = stream \o chunk
    BY DEF StreamTypes, TypeOK
<1>3. /\ stream' \in Seq(Nat \X Nat)
      /\ Len(stream') = Len(stream) + ChunkSize
      /\ \A i \in 1..Len(stream) : stream'[i] = stream[i]
      /\ \A i \in 1..ChunkSize : stream'[Len(stream) + i] = chunk[i]
  <2>1. /\ stream' \in Seq(Nat \X Nat)
        /\ Len(stream') = Len(stream) + Len(chunk)
        /\ \A i \in 1..Len(stream) : stream'[i] = stream[i]
        /\ \A i \in 1..Len(chunk) : stream'[Len(stream) + i] = chunk[i]
      BY ONLY <1>1, <1>2, JoinFacts
  <2>2. QED
      BY ONLY <1>1, <2>1
<1>4. Total_Packet_Size' \in Nat /\ Buff_Offset' \in Nat
  <2>1. ChunkSize \in Nat /\ ChunkSize <= Total_Packet_Size
      BY ChunkFacts
  <2>2. QED
      BY <2>1 DEF StreamTypes, TypeOK
<1>5. TypeOK'
    BY <1>1, <1>3, <1>4 DEF StreamTypes, TypeOK
<1>6. BytesKnown'
  <2>1. ASSUME NEW i \in 1..Len(stream') PROVE stream'[i][1] \in 1..popped
    <3>1. CASE i \in 1..Len(stream)
        BY <3>1, <1>3 DEF StreamTypes, BytesKnown
    <3>2. CASE i \notin 1..Len(stream)
      <4>1. PICK j \in 1..ChunkSize : i = Len(stream) + j
        <5>1. i - Len(stream) \in 1..ChunkSize /\ i = Len(stream) + (i - Len(stream))
            BY <3>2, <1>1, <1>2, <1>3
        <5>2. QED
            BY <5>1
      <4>2. stream'[i][1] = popped
          BY <4>1, <1>1, <1>3
      <4>3. QED
        <5>1. popped \in 1..Len(packets)
            BY ChunkFacts
        <5>2. QED
            BY <4>2, <5>1
    <3>3. QED
        BY <3>1, <3>2
  <2>2. QED
      BY <2>1 DEF StreamTypes, BytesKnown
<1>7. Sending'
  <2>1. ASSUME Total_Packet_Size' > 0
        PROVE  Buff_Offset' * BufSize + Total_Packet_Size' = PacketSize(popped)
    <3>1. ChunkSize = BufSize
        BY <2>1, ChunkFacts
    <3>2. Buff_Offset' * BufSize = Buff_Offset * BufSize + BufSize
        BY StreamAssumption DEF StreamTypes, TypeOK
    <3>3. PICK x \in Nat, y \in Nat, z \in Nat :
              x = Buff_Offset * BufSize /\ y = Buff_Offset' * BufSize /\ z = PacketSize(popped)
        BY <3>2, ChunkFacts, SizeFacts, StreamAssumption
    <3>4. x + Total_Packet_Size = z
        BY <3>3 DEF StreamTypes, Sending
    <3>5. y = x + BufSize
        BY <3>2, <3>3
    <3>6. QED
        BY <3>1, <3>3, <3>4, <3>5, StreamAssumption DEF StreamTypes, TypeOK
  <2>2. PacketSize(popped)' = PacketSize(popped)
      BY DEF PacketSize
  <2>3. QED
      BY <2>1, <2>2 DEF StreamTypes, Sending
<1>8. QED
    BY <1>5, <1>6, <1>7 DEF StreamTypes

LEMMA FailsTypes == ASSUME StreamTypes, SendFails PROVE StreamTypes'
<1> USE DEF SendFails, recvVars
<1>1. popped \in 1..popped
    BY ChunkFacts
<1>2. TypeOK'
    BY <1>1 DEF StreamTypes, TypeOK
<1>3. BytesKnown' /\ Sending'
    BY DEF StreamTypes, BytesKnown, Sending
<1>4. QED
    BY <1>2, <1>3 DEF StreamTypes

\* The receive leaves the sender alone.
LEMMA SenderKept ==
    ASSUME UNCHANGED sendVars
    PROVE  /\ \A p : PacketSize(p)' = PacketSize(p)
           /\ \A p : Right(p)' <=> Right(p)
           /\ Sending => Sending'
  BY DEF sendVars, PacketSize, Right, Sending

LEMMA ReceiveFacts ==
    ASSUME StreamTypes, NEW n \in 1..BufSize, Receive(n), ~TooMany(n)
    PROVE  /\ buffer' \in Seq(Nat \X Nat)
           /\ Len(buffer') = Len(buffer) + n
           /\ \A i \in 1..Len(buffer) : buffer'[i] = buffer[i]
           /\ \A i \in 1..n : buffer'[Len(buffer) + i] = stream[taken + i]
<1> PICK part : part = SubSeq(stream, taken + 1, taken + n)
    OBVIOUS
<1>1. /\ stream \in Seq(Nat \X Nat) /\ buffer \in Seq(Nat \X Nat)
      /\ taken \in Nat /\ n \in Nat /\ taken + n \in Nat /\ taken <= taken + n
      /\ taken + n <= Len(stream) /\ (taken + n) - taken = n
    BY StreamAssumption DEF StreamTypes, TypeOK, Receive
<1>2. /\ part \in Seq(Nat \X Nat) /\ Len(part) = n
      /\ \A i \in 1..n : part[i] = stream[taken + i]
  <2>1. PICK last \in Nat : last = taken + n
      BY <1>1
  <2>2. last - taken = n /\ taken <= last /\ last <= Len(stream)
      BY <1>1, <2>1
  <2>3. part = SubSeq(stream, taken + 1, last)
      BY <2>1
  <2>4. /\ part \in Seq(Nat \X Nat) /\ Len(part) = last - taken
        /\ \A i \in 1..(last - taken) : part[i] = stream[taken + i]
      BY ONLY <1>1, <2>1, <2>2, <2>3, CutFacts
  <2>5. QED
      BY <2>2, <2>4
<1>3. buffer' = buffer \o part
    BY DEF Receive
<1>4. /\ buffer' \in Seq(Nat \X Nat)
      /\ Len(buffer') = Len(buffer) + Len(part)
      /\ \A i \in 1..Len(buffer) : buffer'[i] = buffer[i]
      /\ \A i \in 1..Len(part) : buffer'[Len(buffer) + i] = part[i]
    BY ONLY <1>1, <1>2, <1>3, JoinFacts
<1>5. QED
    BY <1>2, <1>4

LEMMA ReceiveTypes ==
    ASSUME StreamTypes, NEW n \in 1..BufSize, Receive(n)
    PROVE  StreamTypes'
<1> USE DEF Receive, sendVars
<1>1. taken' \in 0..Len(stream')
    BY StreamAssumption DEF StreamTypes, TypeOK
<1>2. CASE TooMany(n)
    BY <1>1, <1>2, SenderKept DEF StreamTypes, TypeOK, BytesKnown
<1>3. CASE ~TooMany(n)
  <2>1. Len(buffer') <= MaxPacketSize
      BY <1>3, ReceiveFacts, StreamAssumption DEF TooMany, StreamTypes, TypeOK
  <2>2. TypeOK'
      BY <1>1, <1>3, <2>1, ReceiveFacts DEF StreamTypes, TypeOK
  <2>3. ASSUME NEW i \in 1..Len(buffer') PROVE buffer'[i][1] \in 1..popped
    <3>1. CASE i \in 1..Len(buffer)
        BY <3>1, <1>3, ReceiveFacts DEF StreamTypes, BytesKnown
    <3>2. CASE i \notin 1..Len(buffer)
      <4>1. Len(buffer) \in Nat /\ n \in Nat /\ Len(buffer') = Len(buffer) + n
          BY <1>3, ReceiveFacts DEF StreamTypes, TypeOK
      <4>2. i - Len(buffer) \in 1..n /\ i = Len(buffer) + (i - Len(buffer))
          BY <3>2, <4>1
      <4>3. PICK j \in 1..n : i = Len(buffer) + j
          BY <4>2
      <4>4. buffer'[i] = stream[taken + j]
          BY <4>3, <1>3, ReceiveFacts
      <4>6. taken + j \in 1..Len(stream)
          BY DEF StreamTypes, TypeOK
      <4>5. QED
          BY <4>4, <4>6 DEF StreamTypes, BytesKnown
    <3>3. QED
        BY <3>1, <3>2
  <2>4. BytesKnown'
      BY <2>3 DEF StreamTypes, BytesKnown
  <2>5. QED
      BY <2>2, <2>4, SenderKept DEF StreamTypes
<1>4. QED
    BY <1>2, <1>3

\* The packet that PushPacket cuts off, and what is left.
LEMMA PushFacts ==
    ASSUME StreamTypes, PushPacket
    PROVE  \E h \in ReadHeader(buffer), size \in Nat :
              /\ size = HeaderSize + h.size /\ size <= Len(buffer)
              /\ Recv_Data_Queue' = Append(Recv_Data_Queue, SubSeq(buffer, 1, size))
              /\ SubSeq(buffer, 1, size) \in Seq(Nat \X Nat)
              /\ Len(SubSeq(buffer, 1, size)) = size
              /\ \A i \in 1..size : SubSeq(buffer, 1, size)[i] = buffer[i]
              /\ buffer' \in Seq(Nat \X Nat)
              /\ Len(buffer') = Len(buffer) - size
              /\ \A i \in 1..(Len(buffer) - size) : buffer'[i] = buffer[size + i]
<1>1. PICK h \in ReadHeader(buffer) :
          /\ Complete(h)
          /\ Recv_Data_Queue' =
                Append(Recv_Data_Queue, SubSeq(buffer, 1, HeaderSize + h.size))
          /\ buffer' = SubSeq(buffer, HeaderSize + h.size + 1, Len(buffer))
    BY DEF PushPacket
<1>2. h.size \in Nat
    BY HeaderFacts DEF Packet, PushPacket
<1>3. PICK size \in Nat : size = HeaderSize + h.size
    BY <1>2, StreamAssumption
<1>4. /\ buffer \in Seq(Nat \X Nat) /\ Len(buffer) \in Nat /\ size <= Len(buffer)
      /\ 0 \in Nat /\ 0 <= size /\ size - 0 = size /\ 0 + 1 = 1
    BY <1>1, <1>3 DEF StreamTypes, TypeOK, Complete
<1>5. /\ SubSeq(buffer, 1, size) \in Seq(Nat \X Nat)
      /\ Len(SubSeq(buffer, 1, size)) = size
      /\ \A i \in 1..size : SubSeq(buffer, 1, size)[i] = buffer[i]
    BY <1>4
<1>6. buffer' = SubSeq(buffer, size + 1, Len(buffer))
    BY <1>1, <1>3
<1>7. /\ buffer' \in Seq(Nat \X Nat)
      /\ Len(buffer') = Len(buffer) - size
      /\ \A i \in 1..(Len(buffer) - size) : buffer'[i] = buffer[size + i]
    BY <1>4, <1>6, CutFacts
<1>8. QED
    BY <1>1, <1>3, <1>4, <1>5, <1>7

LEMMA PushTypes == ASSUME StreamTypes, PushPacket PROVE StreamTypes'
<1> USE DEF PushPacket, sendVars
<1>1. PICK h \in ReadHeader(buffer), size \in Nat :
          /\ size <= Len(buffer)
          /\ Recv_Data_Queue' = Append(Recv_Data_Queue, SubSeq(buffer, 1, size))
          /\ SubSeq(buffer, 1, size) \in Seq(Nat \X Nat)
          /\ buffer' \in Seq(Nat \X Nat)
          /\ Len(buffer') = Len(buffer) - size
          /\ \A i \in 1..(Len(buffer) - size) : buffer'[i] = buffer[size + i]
    BY PushFacts
<1>2. Recv_Data_Queue' \in Seq(Seq(Nat \X Nat))
    BY <1>1, AddFacts DEF StreamTypes, TypeOK
<1>3. Len(buffer') <= MaxPacketSize
  <2>1. Len(buffer) \in Nat /\ Len(buffer) <= MaxPacketSize /\ MaxPacketSize \in Nat
      BY StreamAssumption DEF StreamTypes, TypeOK
  <2>2. QED
      BY <1>1, <2>1
<1>4. TypeOK'
    BY <1>1, <1>2, <1>3 DEF StreamTypes, TypeOK
<1>5. ASSUME NEW i \in 1..Len(buffer') PROVE buffer'[i][1] \in 1..popped
  <2>1. Len(buffer) \in Nat
      BY DEF StreamTypes, TypeOK
  <2>2. i \in 1..(Len(buffer) - size) /\ size + i \in 1..Len(buffer)
      BY <1>1, <2>1
  <2>3. QED
      BY <1>1, <2>2 DEF StreamTypes, BytesKnown
<1>6. BytesKnown'
    BY <1>5 DEF StreamTypes, BytesKnown
<1>7. QED
    BY <1>4, <1>6, SenderKept DEF StreamTypes

LEMMA OtherTypes ==
    ASSUME StreamTypes, RejectPacket \/ ParseDone \/ ReceiveEnd
    PROVE  StreamTypes'
  BY SenderKept
  DEF StreamTypes, TypeOK, BytesKnown, RejectPacket, ParseDone, ReceiveEnd, sendVars

LEMMA StutterTypes == ASSUME StreamTypes, UNCHANGED vars PROVE StreamTypes'
  BY SenderKept DEF StreamTypes, TypeOK, BytesKnown, vars, sendVars, recvVars

LEMMA StepTypes == StreamTypes /\ [Next]_vars => StreamTypes'
  BY SendTypes, PopTypes, ChunkTypes, FailsTypes, ReceiveTypes, PushTypes, OtherTypes,
     StutterTypes
  DEF Next, ReceiverStep

\* The variables have their types: in particular nothing is ever written beyond
\* m_Processing_Packet_Buffer (Len(buffer) <= MaxPacketSize), for any sizes.
THEOREM StreamTypeOK == Spec => []TypeOK
<1>1. StreamTypes => TypeOK
    BY DEF StreamTypes
<1>2. QED
    BY InitTypes, StepTypes, <1>1, PTL DEF Spec

-----------------------------------------------------------------------------
(* What the receiver has before it.                                        *)

\* If the current packet has begun to arrive, it is one that was taken.
LEMMA CurrentTaken ==
    ASSUME StreamTypes, NEW start, InPlace(start), Right(Current),
           start[Current] < Len(stream)
    PROVE  Current \in 1..popped
<1>1. Current \in Nat /\ Current >= 1 /\ popped \in Nat
    BY DEF Current, StreamTypes, TypeOK
<1>2. Current <= popped + 1
    BY DEF InPlace, Aligned
<1>3. Current # popped + 1
  <2>1. SUFFICES ASSUME Current = popped + 1 PROVE FALSE
      OBVIOUS
  <2>2. givenUp = {}
      BY <2>1 DEF Right, StreamTypes, TypeOK
  <2>3. Len(stream) <= start[popped + 1] /\ start[popped + 1] \in Nat /\ Len(stream) \in Nat
      BY <2>2, <1>1 DEF InPlace, Filled, Offsets, StreamTypes, TypeOK
  <2>4. QED
      BY <2>1, <2>3
<1>4. QED
    BY <1>1, <1>2, <1>3

\* A byte in the buffer is from the current packet, as long as it lasts.
LEMMA BufferRight ==
    ASSUME StreamTypes, NEW start, InPlace(start), Right(Current),
           NEW j \in 1..Len(buffer)
    PROVE  /\ Current \in 1..popped
           /\ j <= PacketSize(Current) => buffer[j] = <<Current, j - 1>>
<1>1. /\ Current \in Nat /\ popped \in Nat /\ taken \in Nat /\ taken <= Len(stream)
      /\ Len(stream) \in Nat /\ Len(buffer) \in Nat /\ popped <= Len(packets)
    BY DEF Current, StreamTypes, TypeOK
<1>2. /\ start[Current] \in Nat /\ start[Current] + Len(buffer) <= taken
      /\ buffer[j] = stream[start[Current] + j]
    BY <1>1 DEF InPlace, Offsets, Aligned
<1>3. start[Current] + (j - 1) < Len(stream) /\ start[Current] < Len(stream) /\ j - 1 \in Nat
    BY <1>1, <1>2
<1>4. Current \in 1..popped
    BY <1>3, CurrentTaken
<1>5. ASSUME j <= PacketSize(Current) PROVE buffer[j] = <<Current, j - 1>>
  <2>1. Current \in 1..Len(packets)
      BY <1>1, <1>4
  <2>2. PacketSize(Current) \in Nat
      BY <2>1, SizeFacts
  <2>3. j - 1 \in 0..(PacketSize(Current) - 1)
      BY <1>5, <2>2, <1>3
  <2>4. stream[start[Current] + (j - 1) + 1] = <<Current, j - 1>>
      BY <1>3, <1>4, <2>3 DEF InPlace, Placed
  <2>5. start[Current] + (j - 1) + 1 = start[Current] + j
      BY <1>2
  <2>6. QED
      BY <1>2, <2>4, <2>5
<1>6. QED
    BY <1>4, <1>5

\* A header is read right.
LEMMA HeaderRight ==
    ASSUME StreamTypes, NEW start, InPlace(start), Right(Current),
           Len(buffer) >= HeaderSize
    PROVE  /\ Current \in 1..popped
           /\ ReadHeader(buffer) = {packets[Current]}
<1>1. HeaderSize \in Nat /\ 1 <= HeaderSize /\ 1 \in 1..Len(buffer) /\ Len(buffer) \in Nat
    BY StreamAssumption DEF StreamTypes, TypeOK
<1>2. Current \in 1..popped
    BY <1>1, BufferRight
<1>3. Current \in 1..Len(packets) /\ Current \in Nat
    BY <1>2 DEF StreamTypes, TypeOK
<1>4. PacketSize(Current) \in Nat /\ PacketSize(Current) >= HeaderSize
    BY <1>3, SizeFacts
<1>5. \A j \in 1..HeaderSize : buffer[j] = <<Current, j - 1>>
  <2>1. TAKE j \in 1..HeaderSize
  <2>2. j \in 1..Len(buffer) /\ j <= PacketSize(Current)
      BY <1>1, <1>4
  <2>3. QED
      BY <2>2, BufferRight
<1>6. buffer[1][1] = Current
    BY <1>1, <1>5
<1>7. SubSeq(buffer, 1, HeaderSize) = Bytes(Current, 0, HeaderSize)
  <2>1. /\ SubSeq(buffer, 1, HeaderSize) = [i \in 1..HeaderSize |-> buffer[i]]
      BY <1>1 DEF StreamTypes, TypeOK
  <2>2. \A i \in 1..HeaderSize : 0 + i - 1 = i - 1
      BY <1>1
  <2>3. QED
      BY <1>5, <2>1, <2>2 DEF Bytes
<1>8. HeaderAt(buffer) = Current
    BY <1>6, <1>7 DEF HeaderAt
<1>9. QED
    BY <1>2, <1>3, <1>8 DEF ReadHeader

-----------------------------------------------------------------------------
(* The places.                                                             *)

LEMMA InitInPlace == Init => \E start : InPlace(start)
<1> SUFFICES ASSUME Init PROVE \E start : InPlace(start)
    OBVIOUS
<1>1. PICK start : start = [p \in Nat |-> 0]
    OBVIOUS
<1>2. start \in [Nat -> Nat] /\ start[1] = 0 /\ start[0 + 1] = 0
    BY <1>1
<1>3. Offsets(start) /\ Placed(start)
    BY <1>2 DEF Init, Offsets, Placed
<1>4. Filled(start) /\ Aligned(start)
    BY <1>2 DEF Init, Filled, Aligned, Current
<1>5. QED
    BY <1>3, <1>4 DEF InPlace

\* Steps that neither send nor receive.
LEMMA QuietInPlace ==
    ASSUME StreamTypes, NEW start, InPlace(start),
           \A p \in 1..popped : PacketSize(p)' = PacketSize(p),
           UNCHANGED <<popped, Total_Packet_Size, link, givenUp, stream, taken, buffer,
                       Recv_Data_Queue>>,
           receiver' # "overflow" => receiver # "overflow"
    PROVE  InPlace(start)'
<1>1. Offsets(start)'
    BY DEF InPlace, Offsets
<1>2. Placed(start)'
    BY DEF InPlace, Placed, Right
<1>3. Filled(start)'
    BY DEF InPlace, Filled, Right
<1>4. Aligned(start)'
    BY DEF InPlace, Aligned, Right, Current
<1>5. QED
    BY <1>1, <1>2, <1>3, <1>4 DEF InPlace

\* PopPacket fixes where the packet after the one it takes starts.
LEMMA PopInPlace ==
    ASSUME StreamTypes, NEW start, InPlace(start), PopPacket
    PROVE  \E new : InPlace(new)'
<1> USE DEF PopPacket, recvVars
<1>1. /\ popped \in Nat /\ popped + 1 \in 1..Len(packets) /\ popped + 1 \in Nat
      /\ popped + 2 \in Nat /\ (popped + 1) + 1 = popped + 2
      /\ Len(stream) \in Nat
    BY DEF StreamTypes, TypeOK
<1>2. PICK size \in Nat : size = PacketSize(popped + 1)
    BY <1>1, SizeFacts
<1>3. PICK new : new = [start EXCEPT ![popped + 2] = start[popped + 1] + size]
    OBVIOUS
<1>4. /\ start \in [Nat -> Nat]
      /\ new \in [Nat -> Nat]
      /\ \A p \in 1..(popped + 1) : new[p] = start[p]
      /\ new[popped + 2] = start[popped + 1] + size
  <2>1. start \in [Nat -> Nat]
      BY DEF InPlace, Offsets
  <2>2. start[popped + 1] \in Nat
      BY <2>1, <1>1
  <2>3. PICK place \in Nat : place = start[popped + 1] + size
      BY <1>2, <2>2
  <2>4. new = [start EXCEPT ![popped + 2] = place]
      BY <1>3, <2>3
  <2>5. new \in [Nat -> Nat] /\ new[popped + 2] = place
      BY <1>1, <2>1, <2>4
  <2>6. \A p \in 1..(popped + 1) : new[p] = start[p]
      BY <1>1, <2>1, <2>4
  <2>7. QED
      BY <2>1, <2>3, <2>5, <2>6
<1>5. \A p : PacketSize(p)' = PacketSize(p)
    BY DEF PacketSize
<1>6. \A p \in 1..popped : PacketSize(p) \in Nat
    BY <1>1, SizeFacts
<1>7. Offsets(new)'
  <2>1. new[1] = 0
      BY <1>1, <1>4 DEF InPlace, Offsets
  <2>2. ASSUME NEW p \in 1..(popped + 1) PROVE new[p + 1] = new[p] + PacketSize(p)
    <3>1. CASE p = popped + 1
        BY <3>1, <1>1, <1>2, <1>4
    <3>2. CASE p \in 1..popped
      <4>1. p + 1 \in 1..(popped + 1)
          BY <3>2, <1>1
      <4>2. QED
          BY <3>2, <4>1, <1>4 DEF InPlace, Offsets
    <3>3. QED
        BY <3>1, <3>2, <1>1
  <2>3. ASSUME NEW p \in 1..(popped + 1), NEW q \in 1..(popped + 2), p < q
        PROVE  new[p] + PacketSize(p) <= new[q]
    <3>1. CASE q \in 1..(popped + 1)
      <4>1. p \in 1..popped
          BY <3>1, <2>3, <1>1
      <4>2. QED
          BY <2>3, <3>1, <4>1, <1>4 DEF InPlace, Offsets
    <3>2. CASE q = popped + 2 /\ p = popped + 1
        BY <3>2, <1>1, <1>2, <1>4
    <3>3. CASE q = popped + 2 /\ p \in 1..popped
      <4>1. start[p] + PacketSize(p) <= start[popped + 1]
          BY <3>3, <1>1 DEF InPlace, Offsets
      <4>2. start[popped + 1] \in Nat /\ start[p] \in Nat /\ PacketSize(p) \in Nat
        <5>1. p \in Nat /\ p \in 1..popped
            BY <3>3
        <5>2. QED
            BY <5>1, <1>1, <1>4, <1>6
      <4>3. new[p] = start[p] /\ new[q] = start[popped + 1] + size
          BY <3>3, <1>1, <1>4
      <4>4. QED
          BY <4>1, <4>2, <4>3, <1>2
    <3>4. QED
        BY <3>1, <3>2, <3>3, <1>1
  <2>4. QED
      BY <1>1, <1>4, <1>5, <2>1, <2>2, <2>3 DEF Offsets
<1>8. ASSUME givenUp = {} PROVE Len(stream) = start[popped + 1]
  <2>1. Len(stream) + 0 = start[popped + 1]
      BY <1>8 DEF InPlace, Filled
  <2>2. QED
      BY <2>1, <1>1
<1>9. ~Right(popped + 1) \/ givenUp = {}
    BY <1>1 DEF Right, StreamTypes, TypeOK
<1>10. Placed(new)'
  <2>1. ASSUME NEW p \in 1..(popped + 1), Right(p), NEW k \in 0..(PacketSize(p) - 1),
               new[p] + k < Len(stream)
        PROVE  stream[new[p] + k + 1] = <<p, k>>
    <3>1. CASE p \in 1..popped
        BY <3>1, <2>1, <1>1, <1>4 DEF InPlace, Placed
    <3>2. CASE p = popped + 1
      <4>1. Len(stream) = start[popped + 1] /\ new[p] = start[popped + 1]
          BY <3>2, <2>1, <1>4, <1>8, <1>9
      <4>2. k \in Nat /\ start[popped + 1] \in Nat
          BY <3>2, <1>1, <1>2, <1>4
      <4>3. QED
          BY <2>1, <4>1, <4>2
    <3>3. QED
        BY <3>1, <3>2, <1>1
  <2>2. QED
      BY <2>1, <1>5 DEF Placed, Right
<1>11. Filled(new)'
  <2>1. ASSUME givenUp = {}
        PROVE  Len(stream) + size = new[popped + 2] /\ Len(stream) <= new[popped + 2]
    <3>1. Len(stream) = start[popped + 1]
        BY <2>1, <1>8
    <3>2. QED
        BY <3>1, <1>1, <1>2, <1>4
  <2>2. ASSUME givenUp # {}, NEW p \in 1..(popped + 1), Right(p)
        PROVE  new[p + 1] <= Len(stream)
    <3>1. p \in 1..popped
        BY <2>2, <1>9, <1>1
    <3>2. new[p + 1] = start[p + 1]
        BY <3>1, <1>1, <1>4
    <3>3. QED
        BY <2>2, <3>1, <3>2 DEF InPlace, Filled
  <2>3. QED
      BY <2>1, <2>2, <1>1, <1>2 DEF Filled, Right
<1>12. Aligned(new)'
  <2>1. SUFFICES ASSUME Right(Current) PROVE
            /\ Current <= popped + 2
            /\ new[Current] + Len(buffer) <= taken
            /\ receiver # "overflow" => new[Current] + Len(buffer) = taken
            /\ \A j \in 1..Len(buffer) : buffer[j] = stream[new[Current] + j]
      BY <1>1 DEF Aligned, Right, Current
  <2>2. Current \in 1..(popped + 1)
      BY <2>1, <1>1 DEF InPlace, Aligned, Current, StreamTypes, TypeOK
  <2>3. new[Current] = start[Current]
      BY <2>2, <1>4
  <2>4. QED
      BY <2>1, <2>2, <2>3, <1>1 DEF InPlace, Aligned
<1>13. QED
    BY <1>7, <1>10, <1>11, <1>12 DEF InPlace

\* As long as no packet was given up the next chunk goes where it belongs.
LEMMA ChunkPlace ==
    ASSUME StreamTypes, NEW start, InPlace(start), Total_Packet_Size > 0, givenUp = {}
    PROVE  /\ popped \in 1..Len(packets) /\ PacketSize(popped) \in Nat
           /\ start[popped] \in Nat
           /\ Len(stream) = start[popped] + Buff_Offset * BufSize
           /\ start[popped + 1] = start[popped] + PacketSize(popped)
           /\ Len(stream) + Total_Packet_Size = start[popped + 1]
<1>1. popped \in 1..Len(packets) /\ Buff_Offset * BufSize \in Nat
    BY ChunkFacts
<1>2. PICK size \in Nat : size = PacketSize(popped)
    BY <1>1, SizeFacts
<1>3. popped \in 1..popped
    BY <1>1
<1>4. start[popped] \in Nat /\ start[popped + 1] = start[popped] + size
    BY <1>1, <1>2, <1>3 DEF InPlace, Offsets
<1>5. Len(stream) + Total_Packet_Size = start[popped + 1]
    BY DEF InPlace, Filled, StreamTypes, Sending
<1>6. PICK sent \in Nat : sent = Buff_Offset * BufSize
    BY <1>1
<1>7. sent + Total_Packet_Size = size
    BY <1>2, <1>6 DEF StreamTypes, Sending
<1>8. Len(stream) = start[popped] + sent
  <2>1. Len(stream) \in Nat /\ Total_Packet_Size \in Nat
      BY DEF StreamTypes, TypeOK
  <2>2. QED
      BY ONLY <2>1, <1>2, <1>4, <1>5, <1>6, <1>7
<1>9. QED
    BY <1>1, <1>2, <1>4, <1>5, <1>6, <1>8

LEMMA ChunkInPlace ==
    ASSUME StreamTypes, NEW start, InPlace(start), SendChunk
    PROVE  InPlace(start)'
<1>0. PICK chunk, first, size : /\ first = Buff_Offset * BufSize /\ size = ChunkSize
                                /\ chunk = Bytes(popped, Buff_Offset * BufSize, ChunkSize)
    OBVIOUS
<1>1. /\ chunk \in Seq(Nat \X Nat) /\ Len(chunk) = size /\ size \in Nat
      /\ first \in Nat /\ popped \in Nat /\ popped >= 1
      /\ size <= Total_Packet_Size
      /\ \A i \in 1..size : chunk[i] = <<popped, first + i - 1>>
    BY <1>0, ChunkFacts DEF SendChunk
<1>2. /\ stream \in Seq(Nat \X Nat) /\ stream' = stream \o chunk /\ Len(stream) \in Nat
      /\ taken \in Nat /\ taken <= Len(stream) /\ popped <= Len(packets)
      /\ Total_Packet_Size \in Nat
      /\ Total_Packet_Size' = Total_Packet_Size - size
    BY <1>0 DEF StreamTypes, TypeOK, SendChunk
<1>12. /\ Total_Packet_Size > 0
       /\ UNCHANGED <<packets, popped, link, givenUp, taken, buffer, receiver, Recv_Data_Queue>>
    BY DEF SendChunk, recvVars
<1>3. /\ Len(stream') = Len(stream) + size
      /\ \A i \in 1..Len(stream) : stream'[i] = stream[i]
      /\ \A i \in 1..size : stream'[Len(stream) + i] = chunk[i]
  <2>1. /\ Len(stream') = Len(stream) + Len(chunk)
        /\ \A i \in 1..Len(stream) : stream'[i] = stream[i]
        /\ \A i \in 1..Len(chunk) : stream'[Len(stream) + i] = chunk[i]
      BY ONLY <1>1, <1>2, JoinFacts
  <2>2. QED
      BY ONLY <1>1, <2>1
<1>4. \A p : (PacketSize(p)' = PacketSize(p)) /\ (Right(p)' <=> Right(p))
    BY <1>12 DEF PacketSize, Right
<1>5. \A p \in 1..popped : PacketSize(p) \in Nat /\ start[p] \in Nat
  <2>1. TAKE p \in 1..popped
  <2>2. p \in 1..Len(packets) /\ p \in Nat
      BY <1>1, <1>2
  <2>3. QED
      BY <2>2, SizeFacts DEF InPlace, Offsets
<1>6. Offsets(start)'
    BY <1>4, <1>12 DEF InPlace, Offsets
<1>7. ASSUME NEW p \in 1..popped, Right(p), NEW k \in 0..(PacketSize(p) - 1),
             start[p] + k < Len(stream')
      PROVE  stream'[start[p] + k + 1] = <<p, k>>
  <2>1. start[p] \in Nat /\ PacketSize(p) \in Nat /\ k \in Nat /\ k < PacketSize(p)
      BY <1>5
  <2>2. CASE start[p] + k < Len(stream)
    <3>1. start[p] + k + 1 \in 1..Len(stream)
      <4>1. PICK x \in Nat, len \in Nat : x = start[p] /\ len = Len(stream)
          BY <2>1, <1>2
      <4>2. x + k < len /\ k \in Nat
          BY <4>1, <2>1, <2>2
      <4>3. x + k + 1 \in 1..len
          BY ONLY <4>1, <4>2, x \in Nat, len \in Nat
      <4>4. QED
          BY <4>1, <4>3
    <3>2. QED
        BY <1>3, <1>7, <2>2, <3>1 DEF InPlace, Placed
  <2>3. CASE ~(start[p] + k < Len(stream))
    <3>1. givenUp = {}
      <4>1. SUFFICES ASSUME givenUp # {} PROVE FALSE
          OBVIOUS
      <4>2. start[p + 1] <= Len(stream) /\ start[p + 1] = start[p] + PacketSize(p)
          BY <4>1, <1>7 DEF InPlace, Filled, Offsets
      <4>3. QED
          BY ONLY <2>1, <2>3, <4>2, <1>2
    <3>2. /\ start[popped] \in Nat
          /\ Len(stream) = start[popped] + first
        BY <1>0, <1>12, <3>1, ChunkPlace
    <3>3. p = popped
      <4>1. SUFFICES ASSUME p < popped PROVE FALSE
          BY <1>1
      <4>2. popped \in 1..(popped + 1)
          BY <1>1
      <4>3. start[p] + PacketSize(p) <= start[popped]
          BY <4>1, <4>2 DEF InPlace, Offsets
      <4>4. QED
          BY ONLY <2>1, <2>3, <3>2, <4>3, <1>1, <1>2
    <3>4. PICK i \in Int : i = k + 1 - first
        BY <1>1, <2>1
    <3>5. i \in 1..size /\ start[p] + k + 1 = Len(stream) + i /\ first + i - 1 = k
      <4>1. start[p] + k < Len(stream) + size
          BY <1>3, <1>7
      <4>2. start[p] = start[popped]
          BY <3>3
      <4>3. QED
          BY ONLY <1>1, <1>2, <2>1, <2>3, <3>2, <3>4, <4>1, <4>2
    <3>6. QED
        BY <1>1, <1>3, <3>3, <3>5
  <2>4. QED
      BY <2>2, <2>3
<1>8. Placed(start)'
    BY <1>4, <1>7, <1>12 DEF Placed
<1>9. Filled(start)'
  <2>1. ASSUME givenUp = {} PROVE Len(stream') + Total_Packet_Size' = start[popped + 1]
    <3>1. Len(stream) + Total_Packet_Size = start[popped + 1]
        BY <2>1, <1>12, ChunkPlace
    <3>2. QED
        BY ONLY <3>1, <1>1, <1>2, <1>3
  <2>2. Total_Packet_Size' \in Nat /\ Len(stream') \in Nat
      BY ONLY <1>1, <1>2, <1>3
  <2>3. ASSUME givenUp # {}, NEW p \in 1..popped, Right(p)
        PROVE  start[p + 1] <= Len(stream')
    <3>1. start[p + 1] <= Len(stream)
        BY <2>3 DEF InPlace, Filled
    <3>2. start[p + 1] \in Nat
        BY DEF InPlace, Offsets
    <3>3. QED
        BY ONLY <3>1, <3>2, <1>1, <1>2, <1>3
  <2>4. givenUp = {} => Len(stream') <= start[popped + 1]
      BY <2>1, <2>2
  <2>5. QED
      BY <2>1, <2>3, <2>4, <1>4, <1>12 DEF Filled
<1>10. Aligned(start)'
  <2>1. SUFFICES ASSUME Right(Current) PROVE
            /\ Current <= popped + 1
            /\ start[Current] + Len(buffer) <= taken
            /\ receiver # "overflow" => start[Current] + Len(buffer) = taken
            /\ \A j \in 1..Len(buffer) : buffer[j] = stream'[start[Current] + j]
      BY <1>4, <1>12 DEF Aligned, Current, Right
  <2>2. Current \in Nat /\ Len(buffer) \in Nat /\ start[Current] \in Nat
    <3>1. Current \in Nat /\ Len(buffer) \in Nat
        BY DEF Current, StreamTypes, TypeOK
    <3>2. QED
        BY <3>1 DEF InPlace, Offsets
  <2>3. /\ start[Current] + Len(buffer) <= taken
        /\ \A j \in 1..Len(buffer) : buffer[j] = stream[start[Current] + j]
      BY <2>1 DEF InPlace, Aligned
  <2>4. \A j \in 1..Len(buffer) : start[Current] + j \in 1..Len(stream)
    <3>1. PICK x \in Nat, len \in Nat, n \in Nat :
              x = start[Current] /\ len = Len(stream) /\ n = Len(buffer)
        BY <2>2, <1>2
    <3>2. x + n <= len
        BY <3>1, <2>3, <1>2
    <3>3. \A j \in 1..n : x + j \in 1..len
        BY ONLY <3>2, x \in Nat, len \in Nat, n \in Nat
    <3>4. QED
        BY <3>1, <3>3
  <2>5. QED
      BY <2>1, <2>3, <2>4, <1>3 DEF InPlace, Aligned
<1>11. QED
    BY <1>6, <1>8, <1>9, <1>10 DEF InPlace

LEMMA FailsInPlace ==
    ASSUME StreamTypes, NEW start, InPlace(start), SendFails
    PROVE  InPlace(start)'
<1> USE DEF SendFails, recvVars
<1>1. \A p : PacketSize(p)' = PacketSize(p)
    BY DEF PacketSize
<1>2. \A p : Right(p)' => Right(p)
    BY DEF Right
<1>3. Offsets(start)'
    BY <1>1 DEF InPlace, Offsets
<1>4. Placed(start)'
    BY <1>1, <1>2 DEF InPlace, Placed
<1>5. Aligned(start)'
    BY <1>2 DEF InPlace, Aligned, Right, Current
<1>6. CASE link' = "closed" /\ UNCHANGED givenUp
    BY <1>3, <1>4, <1>5, <1>6 DEF InPlace, Filled, Right
<1>7. CASE givenUp' = givenUp \cup {popped}
  <2>1. ASSUME NEW p \in 1..popped, Right(p)' PROVE start[p + 1] <= Len(stream)
    <3>1. Right(p) /\ p < popped
        BY <1>2, <1>7, <2>1 DEF Right
    <3>2. CASE givenUp # {}
        BY <3>1, <3>2 DEF InPlace, Filled
    <3>3. CASE givenUp = {}
      <4>1. /\ popped \in Nat /\ start[popped] \in Nat
            /\ Len(stream) = start[popped] + Buff_Offset * BufSize
            /\ Buff_Offset * BufSize \in Nat
          BY <3>3, ChunkPlace, ChunkFacts
      <4>2. popped \in 1..(popped + 1)
          BY <4>1, <3>1
      <4>3. start[p] + PacketSize(p) <= start[popped] /\ start[p + 1] = start[p] + PacketSize(p)
          BY <3>1, <4>2 DEF InPlace, Offsets
      <4>4. start[p + 1] <= start[popped] /\ start[p + 1] \in Nat
          BY <4>3 DEF InPlace, Offsets
      <4>5. PICK sent \in Nat : sent = Buff_Offset * BufSize
          BY <4>1
      <4>6. Len(stream) = start[popped] + sent
          BY <4>1, <4>5
      <4>7. QED
          BY <4>1, <4>4, <4>6
    <3>4. QED
        BY <3>2, <3>3
  <2>2. Filled(start)'
      BY <2>1, <1>7 DEF Filled
  <2>3. QED
      BY <1>3, <1>4, <1>5, <2>2 DEF InPlace
<1>8. QED
    BY <1>6, <1>7

\* Steps of the receiver leave the sender's part alone.
LEMMA ReceiverKeeps ==
    ASSUME NEW start, InPlace(start), UNCHANGED <<sendVars, stream>>
    PROVE  Offsets(start)' /\ Placed(start)' /\ Filled(start)'
<1>1. UNCHANGED sendVars /\ UNCHANGED stream
    OBVIOUS
<1>2. /\ \A p : PacketSize(p)' = PacketSize(p)
      /\ \A p : Right(p)' <=> Right(p)
    BY <1>1, SenderKept
<1>3. Offsets(start)'
    BY <1>1, <1>2 DEF InPlace, Offsets, sendVars
<1>4. Placed(start)'
    BY <1>1, <1>2 DEF InPlace, Placed, sendVars
<1>5. Filled(start)'
    BY <1>1, <1>2 DEF InPlace, Filled, sendVars
<1>6. QED
    BY <1>3, <1>4, <1>5

LEMMA ReceiveInPlace ==
    ASSUME StreamTypes, NEW start, InPlace(start), NEW n \in 1..BufSize, Receive(n)
    PROVE  InPlace(start)'
<1>1. UNCHANGED <<sendVars, stream>>
    BY DEF Receive
<1>2. Aligned(start)'
  <2>1. SUFFICES ASSUME Right(Current) PROVE
            /\ Current <= popped + 1
            /\ start[Current] + Len(buffer') <= taken'
            /\ receiver' # "overflow" => start[Current] + Len(buffer') = taken'
            /\ \A j \in 1..Len(buffer') : buffer'[j] = stream[start[Current] + j]
      BY <1>1 DEF Receive, sendVars, Aligned, Right, Current
  <2>2. Current \in Nat /\ Len(buffer) \in Nat /\ start[Current] \in Nat /\ taken \in Nat
    <3>1. Current \in Nat /\ Len(buffer) \in Nat /\ taken \in Nat
        BY DEF Current, StreamTypes, TypeOK
    <3>2. QED
        BY <3>1 DEF InPlace, Offsets
  <2>3. /\ Current <= popped + 1
        /\ start[Current] + Len(buffer) = taken
        /\ \A j \in 1..Len(buffer) : buffer[j] = stream[start[Current] + j]
      BY <2>1 DEF InPlace, Aligned, Receive
  <2>4. taken' = taken + n /\ n \in Nat
      BY StreamAssumption DEF Receive
  <2>5. CASE TooMany(n)
    <3>1. receiver' = "overflow" /\ buffer' = buffer
        BY <2>5 DEF Receive
    <3>2. start[Current] + Len(buffer) <= taken'
        BY <2>2, <2>3, <2>4
    <3>3. QED
        BY <2>3, <3>1, <3>2
  <2>6. CASE ~TooMany(n)
    <3>1. /\ Len(buffer') = Len(buffer) + n
          /\ \A i \in 1..Len(buffer) : buffer'[i] = buffer[i]
          /\ \A i \in 1..n : buffer'[Len(buffer) + i] = stream[taken + i]
        BY <2>6, ReceiveFacts
    <3>2. start[Current] + Len(buffer') = taken' /\ start[Current] + Len(buffer') <= taken'
        BY <2>2, <2>3, <2>4, <3>1
    <3>3. ASSUME NEW j \in 1..Len(buffer') PROVE buffer'[j] = stream[start[Current] + j]
      <4>1. CASE j \in 1..Len(buffer)
          BY <4>1, <2>3, <3>1
      <4>2. CASE j \notin 1..Len(buffer)
        <5>1. PICK i \in 1..n : j = Len(buffer) + i
          <6>1. j - Len(buffer) \in 1..n /\ j = Len(buffer) + (j - Len(buffer))
              BY <4>2, <2>2, <2>4, <3>1
          <6>2. QED
              BY <6>1
        <5>2. start[Current] + j = taken + i
            BY ONLY <5>1, <2>2, <2>3
        <5>3. QED
            BY <5>1, <5>2, <3>1
      <4>3. QED
          BY <4>1, <4>2
    <3>4. QED
        BY <2>3, <3>2, <3>3
  <2>7. QED
      BY <2>5, <2>6
<1>3. QED
    BY <1>1, <1>2, ReceiverKeeps DEF InPlace

\* What PushPacket hands out is the current packet, if it is right.
LEMMA PushRight ==
    ASSUME StreamTypes, NEW start, InPlace(start), PushPacket, Right(Current)
    PROVE  /\ Current \in 1..popped
           /\ PacketSize(Current) \in Nat /\ PacketSize(Current) <= Len(buffer)
           /\ Recv_Data_Queue' =
                 Append(Recv_Data_Queue, Bytes(Current, 0, PacketSize(Current)))
           /\ Len(buffer') = Len(buffer) - PacketSize(Current)
           /\ \A i \in 1..(Len(buffer) - PacketSize(Current)) :
                 buffer'[i] = buffer[PacketSize(Current) + i]
<1>1. PICK h \in ReadHeader(buffer), size \in Nat :
              /\ size = HeaderSize + h.size /\ size <= Len(buffer)
              /\ Recv_Data_Queue' = Append(Recv_Data_Queue, SubSeq(buffer, 1, size))
              /\ SubSeq(buffer, 1, size) \in Seq(Nat \X Nat)
              /\ Len(SubSeq(buffer, 1, size)) = size
              /\ \A i \in 1..size : SubSeq(buffer, 1, size)[i] = buffer[i]
              /\ Len(buffer') = Len(buffer) - size
              /\ \A i \in 1..(Len(buffer) - size) : buffer'[i] = buffer[size + i]
    BY PushFacts
<1>2. Current \in 1..popped /\ ReadHeader(buffer) = {packets[Current]}
    BY HeaderRight DEF PushPacket
<1>3. size = PacketSize(Current)
    BY <1>1, <1>2 DEF PacketSize
<1>4. Current \in Nat /\ Len(buffer) \in Nat
    BY DEF Current, StreamTypes, TypeOK
<1>5. \A i \in 1..size : SubSeq(buffer, 1, size)[i] = <<Current, i - 1>>
  <2>1. TAKE i \in 1..size
  <2>2. i \in 1..Len(buffer)
      BY <1>1, <1>4
  <2>3. i <= PacketSize(Current)
      BY <1>3
  <2>4. QED
      BY <1>1, <2>2, <2>3, BufferRight
<1>6. SubSeq(buffer, 1, size) = Bytes(Current, 0, size)
  <2>1. SubSeq(buffer, 1, size) = [i \in 1..size |-> <<Current, i - 1>>]
    <3>1. PICK cut : cut = SubSeq(buffer, 1, size)
        OBVIOUS
    <3>2. /\ cut \in Seq(Nat \X Nat) /\ Len(cut) = size
          /\ \A i \in 1..size : cut[i] = <<Current, i - 1>>
        BY <1>1, <1>5, <3>1
    <3>3. cut = [i \in 1..size |-> <<Current, i - 1>>]
        BY ONLY <3>2
    <3>4. QED
        BY <3>1, <3>3
  <2>2. \A i \in 1..size : 0 + i - 1 = i - 1
      OBVIOUS
  <2>3. QED
      BY <2>1, <2>2 DEF Bytes
<1>7. QED
    BY <1>1, <1>2, <1>3, <1>6

LEMMA PushInPlace ==
    ASSUME StreamTypes, NEW start, InPlace(start), PushPacket
    PROVE  InPlace(start)'
<1>1. UNCHANGED <<sendVars, stream>>
    BY DEF PushPacket
<1>2. Len(Recv_Data_Queue) \in Nat /\ Len(Recv_Data_Queue') = Len(Recv_Data_Queue) + 1
  <2>1. PICK x : x \in Seq(Nat \X Nat) /\ Recv_Data_Queue' = Append(Recv_Data_Queue, x)
      BY PushFacts
  <2>2. QED
      BY <2>1, AddFacts DEF StreamTypes, TypeOK
<1>3. Aligned(start)'
  <2>1. SUFFICES ASSUME Right(Current)' PROVE
            /\ Current + 1 <= popped + 1
            /\ start[Current + 1] + Len(buffer') = taken
            /\ \A j \in 1..Len(buffer') : buffer'[j] = stream[start[Current + 1] + j]
    <3>1. Current' = Current + 1 /\ taken \in Nat
        BY <1>2 DEF Current, StreamTypes, TypeOK
    <3>2. UNCHANGED <<taken, receiver, popped, stream>>
        BY DEF PushPacket, sendVars
    <3>3. QED
        BY <1>1, <3>1, <3>2 DEF Aligned
  <2>2. Right(Current)
      BY <2>1, <1>1, <1>2 DEF Right, Current, StreamTypes, TypeOK, sendVars
  <2>3. PICK size \in Nat :
              /\ size = PacketSize(Current) /\ size <= Len(buffer)
              /\ Len(buffer') = Len(buffer) - size
              /\ \A i \in 1..(Len(buffer) - size) : buffer'[i] = buffer[size + i]
      BY <2>2, PushRight
  <2>4. Current \in 1..popped /\ popped \in Nat /\ Len(buffer) \in Nat
      BY <2>2, PushRight DEF StreamTypes, TypeOK
  <2>5. /\ start[Current + 1] = start[Current] + size
        /\ start[Current] \in Nat
      BY <2>3, <2>4 DEF InPlace, Offsets
  <2>6. /\ start[Current] + Len(buffer) = taken
        /\ \A j \in 1..Len(buffer) : buffer[j] = stream[start[Current] + j]
      BY <2>2 DEF InPlace, Aligned, PushPacket
  <2>7. start[Current + 1] + Len(buffer') = taken
      BY <2>3, <2>4, <2>5, <2>6
  <2>8. ASSUME NEW j \in 1..Len(buffer') PROVE buffer'[j] = stream[start[Current + 1] + j]
    <3>1. /\ j \in 1..(Len(buffer) - size) /\ size + j \in 1..Len(buffer)
          /\ start[Current] + (size + j) = start[Current + 1] + j
        BY <2>3, <2>4, <2>5
    <3>2. QED
        BY <2>3, <2>6, <3>1
  <2>9. QED
      BY <2>4, <2>7, <2>8
<1>4. QED
    BY <1>1, <1>3, ReceiverKeeps DEF InPlace

-----------------------------------------------------------------------------
(* What is handed out, and when the receiver waits or drops the client.    *)

\* Steps of the sender: packets stay as they are, and what is given up stays so.
LEMMA SenderSteps ==
    ASSUME StreamTypes,
           \/ \E n \in BodySizes, type \in Types : Send(n, type)
           \/ PopPacket \/ SendChunk \/ SendFails \/ UNCHANGED vars
    PROVE  /\ \A p \in 1..Len(packets) : PacketSize(p)' = PacketSize(p)
           /\ popped' \in Nat /\ popped <= popped' /\ givenUp \subseteq givenUp'
           /\ Len(packets') \in Nat /\ Len(packets) <= Len(packets')
           /\ UNCHANGED recvVars
<1>1. CASE \E n \in BodySizes, type \in Types : Send(n, type)
    BY <1>1, SendKeeps DEF Send, recvVars, StreamTypes, TypeOK
<1>2. CASE PopPacket
    BY <1>2 DEF PopPacket, PacketSize, recvVars, StreamTypes, TypeOK
<1>3. CASE SendChunk
    BY <1>3 DEF SendChunk, PacketSize, recvVars, StreamTypes, TypeOK
<1>4. CASE SendFails
    BY <1>4 DEF SendFails, PacketSize, recvVars, StreamTypes, TypeOK
<1>5. CASE UNCHANGED vars
    BY <1>5 DEF vars, sendVars, PacketSize, recvVars, StreamTypes, TypeOK
<1>6. QED
    BY <1>1, <1>2, <1>3, <1>4, <1>5

LEMMA SenderReceived ==
    ASSUME StreamTypes, Received,
           \/ \E n \in BodySizes, type \in Types : Send(n, type)
           \/ PopPacket \/ SendChunk \/ SendFails \/ UNCHANGED vars
    PROVE  Received'
<1>1. ASSUME NEW i \in 1..Len(Recv_Data_Queue), Right(i)'
      PROVE  i <= popped' /\ Recv_Data_Queue[i] = Bytes(i, 0, PacketSize(i)')
  <2>1. Right(i)
      BY <1>1, SenderSteps DEF Right
  <2>2. i <= popped /\ Recv_Data_Queue[i] = Bytes(i, 0, PacketSize(i))
      BY <2>1 DEF Received
  <2>3. popped \in Nat /\ popped <= Len(packets) /\ i \in Nat /\ i >= 1 /\ Len(packets) \in Nat
      BY DEF StreamTypes, TypeOK
  <2>4. i \in 1..Len(packets)
      BY <2>2, <2>3
  <2>5. PacketSize(i)' = PacketSize(i)
      BY <2>4, SenderSteps
  <2>6. popped' \in Nat /\ popped <= popped'
      BY SenderSteps
  <2>7. i <= popped'
      BY <2>2, <2>3, <2>6
  <2>8. QED
      BY <2>2, <2>5, <2>7
<1>2. Recv_Data_Queue' = Recv_Data_Queue
    BY SenderSteps DEF recvVars
<1>3. QED
    BY <1>1, <1>2 DEF Received, Bytes

LEMMA PushReceived ==
    ASSUME StreamTypes, NEW start, InPlace(start), Received, PushPacket
    PROVE  Received'
<1>1. UNCHANGED sendVars /\ Len(Recv_Data_Queue) \in Nat
    BY DEF PushPacket, StreamTypes, TypeOK
<1>2. /\ \A p : PacketSize(p)' = PacketSize(p)
      /\ \A p : Right(p)' <=> Right(p)
    BY <1>1, SenderKept
<1>3. PICK x : x \in Seq(Nat \X Nat) /\ Recv_Data_Queue' = Append(Recv_Data_Queue, x)
    BY PushFacts
<1>4. /\ Len(Recv_Data_Queue') = Len(Recv_Data_Queue) + 1
      /\ \A i \in 1..Len(Recv_Data_Queue) : Recv_Data_Queue'[i] = Recv_Data_Queue[i]
      /\ Recv_Data_Queue'[Len(Recv_Data_Queue) + 1] = x
    BY <1>3, AddFacts DEF StreamTypes, TypeOK
<1>5. ASSUME NEW i \in 1..Len(Recv_Data_Queue'), Right(i)
      PROVE  i <= popped /\ Recv_Data_Queue'[i] = Bytes(i, 0, PacketSize(i))
  <2>1. CASE i \in 1..Len(Recv_Data_Queue)
      BY <2>1, <1>4, <1>5 DEF Received
  <2>2. CASE i = Current
    <3>1. /\ Current \in 1..popped
          /\ Recv_Data_Queue' =
                Append(Recv_Data_Queue, Bytes(Current, 0, PacketSize(Current)))
        BY <1>5, <2>2, PushRight
    <3>2. PacketSize(Current) \in Nat /\ Current \in Nat
        BY <1>5, <2>2, PushRight DEF Current
    <3>3. PICK y : y = Bytes(Current, 0, PacketSize(Current))
        OBVIOUS
    <3>4. y \in Seq(Nat \X Nat)
        BY <3>2, <3>3, BytesFacts
    <3>5. Recv_Data_Queue' = Append(Recv_Data_Queue, y)
        BY <3>1, <3>3
    <3>6. Recv_Data_Queue'[Len(Recv_Data_Queue) + 1] = y
        BY <3>4, <3>5, AddFacts DEF StreamTypes, TypeOK
    <3>7. QED
        BY <2>2, <3>1, <3>3, <3>6 DEF Current
  <2>3. QED
      BY <1>1, <1>4, <2>1, <2>2 DEF Current
<1>6. QED
    BY <1>1, <1>2, <1>5 DEF Received, sendVars, Bytes

LEMMA OtherReceived ==
    ASSUME Received, UNCHANGED <<sendVars, Recv_Data_Queue>>
    PROVE  Received'
<1>1. UNCHANGED sendVars /\ UNCHANGED Recv_Data_Queue
    OBVIOUS
<1>2. /\ \A p : PacketSize(p)' = PacketSize(p)
      /\ \A p : Right(p)' <=> Right(p)
    BY <1>1, SenderKept
<1>3. QED
    BY <1>1, <1>2 DEF Received, sendVars, Bytes

\* PopPacket does not meet bytes of the packet it takes in the buffer.
LEMMA PopParsedAll ==
    ASSUME StreamTypes, NEW start, InPlace(start), ParsedAll, PopPacket
    PROVE  ParsedAll'
<1>1. /\ UNCHANGED <<packets, givenUp, buffer, receiver, Recv_Data_Queue>>
      /\ popped' = popped + 1
    BY DEF PopPacket, recvVars
<1>2. \A p : PacketSize(p)' = PacketSize(p)
    BY <1>1 DEF PacketSize
<1>3. /\ Current \in Nat /\ Current >= 1 /\ popped \in Nat /\ popped + 1 <= Len(packets)
      /\ taken \in Nat /\ taken <= Len(stream) /\ Len(stream) \in Nat /\ Len(buffer) \in Nat
      /\ Len(packets) \in Nat
    BY DEF Current, StreamTypes, TypeOK, PopPacket
<1>4. SUFFICES ASSUME receiver = "armed", Right(Current), Current <= popped + 1
               PROVE  Len(buffer) < PacketSize(Current)
    BY <1>1, <1>2 DEF ParsedAll, Right, Current
<1>5. CASE Current <= popped
    BY <1>4, <1>5 DEF ParsedAll
<1>6. CASE Current = popped + 1
  <2>1. givenUp = {}
      BY <1>4, <1>6, <1>3 DEF Right, StreamTypes, TypeOK
  <2>2. Len(stream) <= start[Current]
      BY <2>1, <1>6 DEF InPlace, Filled
  <2>3. start[Current] + Len(buffer) <= taken
      BY <1>4 DEF InPlace, Aligned
  <2>4. start[Current] \in Nat
      BY <1>3 DEF InPlace, Offsets
  <2>5. Len(buffer) = 0
      BY ONLY <1>3, <2>2, <2>3, <2>4
  <2>6. Current \in 1..Len(packets)
      BY <1>3, <1>6
  <2>7. QED
      BY <2>5, <2>6, SizeFacts
<1>7. QED
    BY <1>3, <1>4, <1>5, <1>6

\* ParseDone re-arms the receive only without a whole packet.
LEMMA DoneParsedAll ==
    ASSUME StreamTypes, NEW start, InPlace(start), ParseDone
    PROVE  ParsedAll'
<1>1. UNCHANGED sendVars /\ UNCHANGED <<buffer, Recv_Data_Queue>>
    BY DEF ParseDone
<1>2. \A p : PacketSize(p)' = PacketSize(p)
    BY <1>1, SenderKept
<1>3. SUFFICES ASSUME Right(Current), Current <= popped
               PROVE  Len(buffer) < PacketSize(Current)
    BY <1>1, <1>2 DEF ParsedAll, Right, Current, sendVars
<1>4. Current \in 1..Len(packets) /\ Len(buffer) \in Nat
    BY <1>3 DEF Current, StreamTypes, TypeOK
<1>5. /\ PacketSize(Current) \in Nat /\ PacketSize(Current) >= HeaderSize
      /\ HeaderSize \in Nat
    BY <1>4, SizeFacts
<1>6. CASE Len(buffer) < HeaderSize
    BY <1>4, <1>5, <1>6
<1>7. CASE Len(buffer) >= HeaderSize
  <2>1. PICK h \in ReadHeader(buffer) : ~Complete(h)
      BY <1>4, <1>5, <1>7 DEF ParseDone
  <2>2. h = packets[Current]
      BY <1>3, <1>7, HeaderRight
  <2>3. ~(PacketSize(Current) <= Len(buffer))
      BY <2>1, <2>2 DEF Complete, PacketSize
  <2>4. QED
      BY <2>3, <1>4, <1>5
<1>8. QED
    BY <1>4, <1>5, <1>6, <1>7

LEMMA SenderParsedAll ==
    ASSUME StreamTypes, NEW start, InPlace(start), ParsedAll,
           \/ \E n \in BodySizes, type \in Types : Send(n, type)
           \/ PopPacket \/ SendChunk \/ SendFails \/ UNCHANGED vars
    PROVE  ParsedAll'
<1>1. CASE PopPacket
    BY <1>1, PopParsedAll
<1>2. CASE ~PopPacket
  <2>1. popped' = popped
      BY <1>2 DEF Send, SendChunk, SendFails, vars, sendVars
  <2>2. /\ \A p \in 1..Len(packets) : PacketSize(p)' = PacketSize(p)
        /\ givenUp \subseteq givenUp' /\ UNCHANGED recvVars
      BY SenderSteps
  <2>3. SUFFICES ASSUME receiver = "armed", Right(Current)', Current <= popped
                 PROVE  Len(buffer) < PacketSize(Current)
    <3>1. Current' = Current /\ buffer' = buffer /\ receiver' = receiver
        BY <2>2 DEF Current, recvVars
    <3>2. Current <= popped => PacketSize(Current)' = PacketSize(Current)
      <4>1. SUFFICES ASSUME Current <= popped PROVE PacketSize(Current)' = PacketSize(Current)
          OBVIOUS
      <4>2. PICK c \in 1..Len(packets) : c = Current
          BY <4>1 DEF Current, StreamTypes, TypeOK
      <4>3. PacketSize(c)' = PacketSize(c) /\ c = Current'
          BY <2>2, <3>1, <4>2
      <4>4. QED
          BY <4>2, <4>3 DEF PacketSize
    <3>3. QED
        BY <2>1, <3>1, <3>2 DEF ParsedAll
  <2>4. Right(Current)
      BY <2>2, <2>3 DEF Right, Current, recvVars
  <2>5. QED
      BY <2>3, <2>4 DEF ParsedAll
<1>3. QED
    BY <1>1, <1>2

\* A receive overruns the buffer only behind a packet that is not safe.
LEMMA ReceiveDropped ==
    ASSUME StreamTypes, NEW start, InPlace(start), ParsedAll, NEW n \in 1..BufSize,
           Receive(n)
    PROVE  Dropped'
<1>1. UNCHANGED sendVars /\ receiver = "armed"
    BY DEF Receive
<1>2. SUFFICES ASSUME TooMany(n), givenUp = {}
               PROVE  \E p \in 1..Len(packets) : PacketSize(p) > SafeSize
  <2>1. \A p : PacketSize(p)' = PacketSize(p)
      BY <1>1, SenderKept
  <2>2. ~TooMany(n) => receiver' # "overflow"
      BY DEF Receive
  <2>3. QED
      BY <1>1, <2>1, <2>2 DEF Dropped, sendVars
<1>3. Right(Current)
    BY <1>2 DEF Right
<1>4. /\ Len(buffer) \in Nat /\ taken \in Nat /\ Len(stream) \in Nat /\ Current \in Nat
      /\ MaxPacketSize \in Nat /\ BufSize \in Nat /\ n \in Nat /\ 1 <= n /\ n <= BufSize
      /\ taken + n <= Len(stream) /\ Len(buffer) + n > MaxPacketSize
    BY <1>2, StreamAssumption DEF Current, StreamTypes, TypeOK, Receive, TooMany
<1>5. start[Current] + Len(buffer) <= taken /\ start[Current] \in Nat
    BY <1>3, <1>4 DEF InPlace, Aligned, Offsets
<1>6. start[Current] < Len(stream)
    BY ONLY <1>4, <1>5
<1>7. Current \in 1..popped
    BY <1>3, <1>6, CurrentTaken
<1>8. Current \in 1..Len(packets) /\ Current <= popped
    BY <1>7 DEF StreamTypes, TypeOK
<1>9. Len(buffer) < PacketSize(Current) /\ PacketSize(Current) \in Nat
    BY <1>1, <1>3, <1>8, SizeFacts DEF ParsedAll
<1>10. PacketSize(Current) > SafeSize
    BY <1>4, <1>9 DEF SafeSize
<1>11. QED
    BY <1>8, <1>10

LEMMA SenderDropped ==
    ASSUME StreamTypes, Dropped,
           \/ \E n \in BodySizes, type \in Types : Send(n, type)
           \/ PopPacket \/ SendChunk \/ SendFails \/ UNCHANGED vars
    PROVE  Dropped'
<1>1. /\ \A p \in 1..Len(packets) : PacketSize(p)' = PacketSize(p)
      /\ givenUp \subseteq givenUp' /\ receiver' = receiver
      /\ Len(packets') \in Nat /\ Len(packets) <= Len(packets')
    BY SenderSteps DEF recvVars
<1>2. 1..Len(packets) \subseteq 1..Len(packets')
    BY <1>1 DEF StreamTypes, TypeOK
<1>3. ASSUME NEW p \in 1..Len(packets), PacketSize(p) > SafeSize
      PROVE  \E q \in 1..Len(packets') : PacketSize(q)' > SafeSize
    BY <1>1, <1>2, <1>3
<1>4. QED
    BY <1>1, <1>3 DEF Dropped, SafeSize

-----------------------------------------------------------------------------
(* The invariant.                                                          *)

LEMMA InitStream == Init => StreamInv
<1> SUFFICES ASSUME Init PROVE StreamInv
    OBVIOUS
<1>1. Received /\ ParsedAll /\ Dropped
    BY DEF Init, Received, ParsedAll, Dropped, Current
<1>2. QED
    BY <1>1, InitTypes, InitInPlace DEF StreamInv

LEMMA SenderStepStream ==
    ASSUME StreamInv,
           \/ \E n \in BodySizes, type \in Types : Send(n, type)
           \/ PopPacket \/ SendChunk \/ SendFails \/ UNCHANGED vars
    PROVE  StreamInv'
<1>1. StreamTypes /\ Received /\ ParsedAll /\ Dropped
    BY DEF StreamInv
<1>2. PICK start : InPlace(start)
    BY DEF StreamInv
<1>3. StreamTypes'
    BY <1>1, StepTypes DEF Next
<1>4. Received' /\ ParsedAll' /\ Dropped'
    BY <1>1, <1>2, SenderReceived, SenderParsedAll, SenderDropped
<1>5. \E new : InPlace(new)'
  <2>1. CASE \/ \E n \in BodySizes, type \in Types : Send(n, type)
             \/ UNCHANGED vars
    <3>1. \A p \in 1..Len(packets) : PacketSize(p)' = PacketSize(p)
        BY <1>1, SenderSteps
    <3>2. \A p \in 1..popped : PacketSize(p)' = PacketSize(p)
        BY <1>1, <3>1 DEF StreamTypes, TypeOK
    <3>3. UNCHANGED <<popped, Total_Packet_Size, link, givenUp, stream, taken, buffer,
                      Recv_Data_Queue, receiver>>
        BY <2>1 DEF Send, vars, sendVars, recvVars
    <3>4. QED
        BY <1>1, <1>2, <3>2, <3>3, QuietInPlace
  <2>2. CASE PopPacket
      BY <1>1, <1>2, <2>2, PopInPlace
  <2>3. CASE SendChunk
      BY <1>1, <1>2, <2>3, ChunkInPlace
  <2>4. CASE SendFails
      BY <1>1, <1>2, <2>4, FailsInPlace
  <2>5. QED
      BY <2>1, <2>2, <2>3, <2>4
<1>6. QED
    BY <1>3, <1>4, <1>5 DEF StreamInv

LEMMA ReceiverStepStream == ASSUME StreamInv, ReceiverStep PROVE StreamInv'
<1>1. StreamTypes /\ Received /\ ParsedAll /\ Dropped
    BY DEF StreamInv
<1>2. PICK start : InPlace(start)
    BY DEF StreamInv
<1>3. StreamTypes'
    BY <1>1, StepTypes DEF Next
<1>4. ASSUME NEW n \in 1..BufSize, Receive(n) PROVE StreamInv'
  <2>1. InPlace(start)'
      BY <1>1, <1>2, <1>4, ReceiveInPlace
  <2>2. Received'
      BY <1>1, <1>4, OtherReceived DEF Receive
  <2>3. ParsedAll'
      BY <1>4 DEF ParsedAll, Receive
  <2>4. Dropped'
      BY <1>1, <1>2, <1>4, ReceiveDropped
  <2>5. QED
      BY <1>3, <2>1, <2>2, <2>3, <2>4 DEF StreamInv
<1>5. CASE PushPacket
  <2>1. InPlace(start)'
      BY <1>1, <1>2, <1>5, PushInPlace
  <2>2. Received'
      BY <1>1, <1>2, <1>5, PushReceived
  <2>3. ParsedAll' /\ Dropped'
      BY <1>5 DEF ParsedAll, Dropped, PushPacket
  <2>4. QED
      BY <1>3, <2>1, <2>2, <2>3 DEF StreamInv
<1>6. CASE RejectPacket \/ ParseDone \/ ReceiveEnd
  <2>1. /\ UNCHANGED sendVars /\ receiver # "overflow" /\ receiver' # "overflow"
        /\ UNCHANGED <<stream, taken, buffer, Recv_Data_Queue>>
      BY <1>6 DEF RejectPacket, ParseDone, ReceiveEnd
  <2>2. InPlace(start)'
    <3>1. \A p : PacketSize(p)' = PacketSize(p)
        BY <2>1, SenderKept
    <3>2. QED
        BY <1>1, <1>2, <2>1, <3>1, QuietInPlace DEF sendVars
  <2>3. Received' /\ Dropped'
      BY <1>1, <2>1, OtherReceived DEF Dropped
  <2>4. ParsedAll'
    <3>1. CASE ParseDone
        BY <1>1, <1>2, <3>1, DoneParsedAll
    <3>2. CASE RejectPacket \/ ReceiveEnd
        BY <3>2 DEF ParsedAll, RejectPacket, ReceiveEnd
    <3>3. QED
        BY <1>6, <3>1, <3>2
  <2>5. QED
      BY <1>3, <2>2, <2>3, <2>4 DEF StreamInv
<1>7. QED
    BY <1>4, <1>5, <1>6 DEF ReceiverStep

LEMMA StepStream == StreamInv /\ [Next]_vars => StreamInv'
  BY SenderStepStream, ReceiverStepStream DEF Next

LEMMA AlwaysStream == Spec => []StreamInv
  BY InitStream, StepStream, PTL DEF Spec

\* IOFunction_Recv puts together exactly the packets that were sent, in order
\* and whole, wherever TCP cuts the stream, for any sizes of header, buffer and
\* packets; up to the first packet that SendThread gave up.
THEOREM StreamIntactInOrder == Spec => []IntactInOrder
<1>1. StreamInv => IntactInOrder
  <2> SUFFICES ASSUME StreamInv, NEW i \in 1..Len(Recv_Data_Queue),
                      \A p \in givenUp : i < p
               PROVE  i <= Len(packets) /\ Recv_Data_Queue[i] = Bytes(i, 0, PacketSize(i))
      BY DEF IntactInOrder
  <2>1. i <= popped /\ Recv_Data_Queue[i] = Bytes(i, 0, PacketSize(i))
      BY DEF StreamInv, Received, Right
  <2>2. popped \in Nat /\ popped <= Len(packets) /\ Len(packets) \in Nat
      BY DEF StreamInv, StreamTypes, TypeOK
  <2>3. QED
      BY <2>1, <2>2
<1>2. QED
    BY AlwaysStream, <1>1, PTL

\* BackUp_Overlapped drops no client whose packets leave room for one more
\* receive behind them, for any sizes.
THEOREM StreamSafeNeverDropped == Spec => []SafeNeverDropped
<1>1. StreamInv => SafeNeverDropped
  <2> SUFFICES ASSUME StreamInv, receiver = "overflow", givenUp = {},
                      \A p \in 1..Len(packets) : PacketSize(p) <= SafeSize
               PROVE  FALSE
      BY DEF SafeNeverDropped
  <2>1. PICK p \in 1..Len(packets) : PacketSize(p) > SafeSize
      BY DEF StreamInv, Dropped
  <2>2. PacketSize(p) \in Nat /\ SafeSize \in Int
      BY SizeFacts, StreamAssumption DEF StreamInv, SafeSize
  <2>3. QED
      BY <2>1, <2>2
<1>2. QED
    BY AlwaysStream, <1>1, PTL

-----------------------------------------------------------------------------
(* The abstract channel.                                                   *)

\* A set of natural numbers has a smallest one.
LEMMA SmallestNat ==
    ASSUME NEW T, T \subseteq Nat, T # {}
    PROVE  \E x \in T : \A y \in T : x <= y
<1>1. PICK R : R = OpToRel(<, Nat)
    OBVIOUS
<1>2. IsWellFoundedOn(R, Nat)
    BY <1>1, NatLessThanWellFounded
<1>3. PICK x \in T : \A y \in T : ~(<<y, x>> \in R)
    BY <1>2, WFMin
<1>4. \A y \in T : y < x => <<y, x>> \in R
    BY <1>1 DEF OpToRel
<1>5. ASSUME NEW y \in T PROVE x <= y
  <2>1. ~(y < x)
      BY <1>3, <1>4
  <2>2. x \in Nat /\ y \in Nat
      OBVIOUS
  <2>3. QED
      BY ONLY <2>1, <2>2
<1>6. QED
    BY <1>5

\* How much of len received packets is promised if those in given were given up:
\* all, or what is before the first packet of given.
IsPromised(m, len, given) ==
    /\ m \in Nat /\ m <= len
    /\ \A q \in given : m < q
    /\ m = len \/ \E q \in given : m = q - 1

LEMMA LeastPromise ==
    ASSUME NEW len \in Nat, NEW given, given \subseteq Nat \ {0}
    PROVE  IsPromised(Min({len} \cup {p - 1 : p \in given}), len, given)
<1>1. PICK T : T = {len} \cup {p - 1 : p \in given}
    OBVIOUS
<1>2. T \subseteq Nat /\ T # {}
    BY <1>1
<1>3. \E x \in T : \A y \in T : x <= y
    BY <1>2, SmallestNat
<1>4. PICK m : m = Min(T)
    OBVIOUS
<1>5. m \in T /\ \A y \in T : m <= y
    BY <1>3, <1>4 DEF Min
<1>6. \A q \in given : q - 1 \in T /\ q \in Nat
    BY <1>1
<1>7. len \in T
    BY <1>1
<1>8. \A q \in given : m < q
    BY <1>2, <1>5, <1>6
<1>9. m = len \/ \E q \in given : m = q - 1
    BY <1>1, <1>5
<1>10. IsPromised(m, len, given)
    BY <1>2, <1>5, <1>7, <1>8, <1>9 DEF IsPromised
<1>11. QED
    BY <1>1, <1>4, <1>10

\* There is one such number.
LEMMA OnePromise ==
    ASSUME NEW len \in Nat, NEW given, given \subseteq Nat, NEW m, NEW n,
           IsPromised(m, len, given), IsPromised(n, len, given)
    PROVE  m = n
  BY DEF IsPromised

LEMMA PromisedFacts ==
    ASSUME StreamTypes
    PROVE  /\ IsPromised(Promised, Len(Recv_Data_Queue), givenUp)
           /\ Len(Recv_Data_Queue) \in Nat /\ givenUp \subseteq Nat \ {0}
<1>1. Len(Recv_Data_Queue) \in Nat /\ givenUp \subseteq Nat \ {0}
    BY DEF StreamTypes, TypeOK
<1>2. QED
    BY <1>1, LeastPromise DEF Promised

LEMMA NextPromisedFacts ==
    ASSUME StreamTypes'
    PROVE  /\ IsPromised(Promised', Len(Recv_Data_Queue'), givenUp')
           /\ Len(Recv_Data_Queue') \in Nat /\ givenUp' \subseteq Nat \ {0}
<1>1. Len(Recv_Data_Queue') \in Nat /\ givenUp' \subseteq Nat \ {0}
    BY DEF StreamTypes, TypeOK
<1>2. QED
    BY <1>1, LeastPromise DEF Promised

\* A byte string that is a packet is identified.
LEMMA IdentifyBytes ==
    ASSUME StreamTypes, NEW p \in 1..Len(packets)
    PROVE  Identify(Bytes(p, 0, PacketSize(p))) = p
<1>1. PICK size \in Nat : size = PacketSize(p) /\ size >= 1
    BY SizeFacts
<1>2. PICK b : b = Bytes(p, 0, size)
    OBVIOUS
<1>3. p \in Nat /\ 0 \in Nat
    OBVIOUS
<1>4. /\ b \in Seq(Nat \X Nat) /\ Len(b) = size
      /\ \A i \in 1..size : b[i] = <<p, 0 + i - 1>>
    BY <1>2, <1>3, BytesFacts
<1>5. b # <<>> /\ b[1][1] = p
  <2>1. 1 \in 1..size
      BY <1>1
  <2>2. QED
      BY <1>4, <2>1
<1>6. QED
    BY <1>1, <1>2, <1>5 DEF Identify

\* What the channel has delivered.
Delivered == [i \in 1..Promised |-> Identify(Recv_Data_Queue[i])]

LEMMA DeliveredIs ==
    ASSUME StreamInv
    PROVE  /\ Delivered = [i \in 1..Promised |-> i]
           /\ Delivered \in Seq(Nat) /\ Len(Delivered) = Promised
<1>1. StreamTypes /\ Received
    BY DEF StreamInv
<1>2. /\ Promised \in Nat /\ Promised <= Len(Recv_Data_Queue)
      /\ \A q \in givenUp : Promised < q
    BY <1>1, PromisedFacts DEF IsPromised
<1>3. /\ givenUp \subseteq Nat /\ Len(Recv_Data_Queue) \in Nat /\ popped \in Nat
      /\ popped <= Len(packets) /\ Len(packets) \in Nat
    BY <1>1 DEF StreamTypes, TypeOK
<1>4. ASSUME NEW i \in 1..Promised PROVE Identify(Recv_Data_Queue[i]) = i
  <2>1. i \in 1..Len(Recv_Data_Queue) /\ i \in Nat /\ i >= 1
      BY <1>2, <1>3
  <2>2. Right(i)
    <3>1. \A q \in givenUp : i < q
        BY <1>2, <1>3, <2>1
    <3>2. QED
        BY <3>1 DEF Right
  <2>3. i <= popped /\ Recv_Data_Queue[i] = Bytes(i, 0, PacketSize(i))
      BY <1>1, <2>1, <2>2 DEF Received
  <2>4. i \in 1..Len(packets)
      BY <1>3, <2>1, <2>3
  <2>5. QED
      BY <1>1, <2>3, <2>4, IdentifyBytes
<1>5. Delivered = [i \in 1..Promised |-> i]
    BY <1>4 DEF Delivered
<1>6. PICK n \in Nat : n = Promised
    BY <1>2
<1>7. [i \in 1..n |-> i] \in Seq(Nat) /\ Len([i \in 1..n |-> i]) = n
    OBVIOUS
<1>8. QED
    BY <1>5, <1>6, <1>7

Broken == receiver \in {"overflow", "reject", "ended"}

LEMMA SamePromised ==
    ASSUME StreamTypes, StreamTypes', UNCHANGED <<givenUp, Recv_Data_Queue>>
    PROVE  Promised' = Promised
  BY DEF Promised

\* Giving a packet up takes back nothing that was promised: it has not been
\* received, since the stream does not have all of it.
LEMMA FailsPromised ==
    ASSUME StreamInv, StreamInv', SendFails
    PROVE  Promised' = Promised
<1>1. StreamTypes /\ StreamTypes'
    BY DEF StreamInv
<1>2. Recv_Data_Queue' = Recv_Data_Queue
    BY DEF SendFails, recvVars
<1>3. CASE givenUp' = givenUp
    BY <1>1, <1>2, <1>3, SamePromised
<1>4. CASE givenUp' = givenUp \cup {popped}
  <2>1. PICK m \in Nat :
          m = Promised /\ IsPromised(m, Len(Recv_Data_Queue), givenUp)
      BY <1>1, PromisedFacts DEF IsPromised
  <2>2. popped \in Nat /\ popped >= 1 /\ Len(Recv_Data_Queue) \in Nat /\ givenUp \subseteq 1..popped
    <3>1. popped \in 1..Len(packets)
        BY <1>1, ChunkFacts DEF SendFails
    <3>2. Len(Recv_Data_Queue) \in Nat /\ givenUp \subseteq 1..popped
        BY <1>1 DEF StreamTypes, TypeOK
    <3>3. QED
        BY <3>1, <3>2
  <2>3. m < popped
    <3>1. CASE givenUp # {}
      <4>1. PICK q \in givenUp : TRUE
          BY <3>1
      <4>2. m < q /\ q \in Nat /\ q <= popped
          BY <2>1, <2>2 DEF IsPromised
      <4>3. QED
          BY <2>2, <4>2
    <3>2. CASE givenUp = {}
      <4>1. PICK start : InPlace(start)
          BY DEF StreamInv
      <4>2. Right(Current) /\ Current \in Nat
          BY <2>2, <3>2 DEF Right, Current
      <4>3. /\ Len(stream) + Total_Packet_Size = start[popped + 1]
            /\ Len(stream) \in Nat /\ Total_Packet_Size \in Nat /\ Total_Packet_Size > 0
        <5>1. Total_Packet_Size > 0
            BY DEF SendFails
        <5>2. Len(stream) + Total_Packet_Size = start[popped + 1]
            BY <1>1, <3>2, <4>1, <5>1, ChunkPlace
        <5>3. QED
            BY <1>1, <5>1, <5>2 DEF StreamTypes, TypeOK
      <4>4. /\ Current <= popped + 1
            /\ start[Current] + Len(buffer) <= taken /\ start[Current] \in Nat
            /\ Len(buffer) \in Nat /\ taken \in Nat /\ taken <= Len(stream)
          BY <1>1, <4>1, <4>2 DEF InPlace, Aligned, Offsets, StreamTypes, TypeOK
      <4>5. start[Current] < start[popped + 1]
          BY ONLY <4>3, <4>4
      <4>6. Current # popped + 1
          BY <4>4, <4>5
      <4>7. QED
          BY <2>1, <2>2, <4>4, <4>6 DEF Current, IsPromised
    <3>3. QED
        BY <3>1, <3>2
  <2>4. QED
    <3>1. IsPromised(m, Len(Recv_Data_Queue'), givenUp')
        BY <1>2, <1>4, <2>1, <2>3 DEF IsPromised
    <3>2. QED
        BY <1>1, <2>1, <3>1, NextPromisedFacts, OnePromise
<1>5. QED
    BY <1>3, <1>4 DEF SendFails

\* PushPacket delivers the next packet, if nothing was given up before.
LEMMA PushPromised ==
    ASSUME StreamInv, StreamInv', PushPacket
    PROVE  \/ Promised' = Promised
           \/ Promised' = Promised + 1 /\ Promised < Len(packets)
<1>1. StreamTypes /\ StreamTypes'
    BY DEF StreamInv
<1>2. PICK m : m = Promised /\ IsPromised(m, Len(Recv_Data_Queue), givenUp)
    BY <1>1, PromisedFacts
<1>3. givenUp' = givenUp /\ Len(Recv_Data_Queue) \in Nat /\ givenUp \subseteq Nat
    BY <1>1 DEF PushPacket, sendVars, StreamTypes, TypeOK
<1>4. Len(Recv_Data_Queue') = Len(Recv_Data_Queue) + 1
  <2>1. PICK x : x \in Seq(Nat \X Nat) /\ Recv_Data_Queue' = Append(Recv_Data_Queue, x)
      BY <1>1, PushFacts
  <2>2. QED
      BY <2>1, <1>1, AddFacts DEF StreamTypes, TypeOK
<1>5. CASE \E q \in givenUp : m = q - 1
  <2>1. IsPromised(m, Len(Recv_Data_Queue'), givenUp')
      BY <1>2, <1>3, <1>4, <1>5 DEF IsPromised
  <2>2. QED
      BY <1>1, <1>2, <2>1, NextPromisedFacts, OnePromise
<1>6. CASE m = Len(Recv_Data_Queue) /\ ~\E q \in givenUp : m = q - 1
  <2>1. Right(Current)
    <3>1. \A q \in givenUp : m < q /\ m # q - 1 /\ m \in Nat /\ q \in Nat
        BY <1>2, <1>3, <1>6 DEF IsPromised
    <3>2. \A q \in givenUp : m + 1 < q
        BY <3>1
    <3>3. QED
        BY <1>6, <3>2 DEF Right, Current
  <2>2. m + 1 \in Nat /\ IsPromised(m + 1, Len(Recv_Data_Queue'), givenUp')
      BY <1>3, <1>4, <1>6, <2>1 DEF IsPromised, Right, Current
  <2>3. Promised' = m + 1
      BY <1>1, <2>2, NextPromisedFacts, OnePromise
  <2>4. PICK start : InPlace(start)
      BY DEF StreamInv
  <2>5. Current \in 1..popped
      BY <1>1, <2>1, <2>4, PushRight
  <2>6. m < Len(packets)
      BY <1>1, <1>3, <1>6, <2>5 DEF Current, StreamTypes, TypeOK
  <2>7. QED
      BY <1>2, <2>3, <2>6
<1>7. QED
    BY <1>2, <1>5, <1>6 DEF IsPromised

LEMMA GrowByOne ==
    ASSUME NEW n \in Nat
    PROVE  [i \in 1..(n + 1) |-> i] = Append([i \in 1..n |-> i], n + 1)
<1>1. PICK s : s = [i \in 1..n |-> i]
    OBVIOUS
<1>2. s \in Seq(Nat) /\ Len(s) = n /\ (\A i \in 1..n : s[i] = i) /\ n + 1 \in Nat
    BY <1>1
<1>3. PICK t : t = Append(s, n + 1)
    OBVIOUS
<1>4. /\ t \in Seq(Nat) /\ Len(t) = n + 1
      /\ \A i \in 1..n : t[i] = i
      /\ t[n + 1] = n + 1
    BY <1>2, <1>3, AddFacts
<1>5. \A i \in 1..(n + 1) : t[i] = i
    BY <1>4
<1>6. t = [i \in 1..(n + 1) |-> i]
    BY <1>4, <1>5
<1>7. QED
    BY <1>1, <1>3, <1>6

DeliveredAll == Delivered = [i \in 1..Promised |-> i]

LEMMA NextDelivered == StreamInv' => DeliveredAll'
<1>1. StreamInv => DeliveredAll
    BY DeliveredIs DEF DeliveredAll
<1>2. QED
    BY <1>1, PTL

\* The step of the channel that a step of the stream is.
LEMMA ChannelStep ==
    ASSUME StreamInv, StreamInv', [Next]_vars
    PROVE  [Channel!Next]_(Channel!vars)
<1>1. StreamTypes /\ StreamTypes'
    BY DEF StreamInv
<1>2. /\ Delivered = [i \in 1..Promised |-> i]
      /\ Len(Delivered) = Promised /\ Promised \in Nat
    BY <1>1, DeliveredIs, PromisedFacts DEF IsPromised
<1>3. Delivered' = [i \in 1..Promised' |-> i]
    BY NextDelivered DEF DeliveredAll
<1>4. ASSUME Promised' = Promised PROVE Delivered' = Delivered
    BY <1>2, <1>3, <1>4
<1>5. ASSUME Promised' = Promised, packets' = packets, Broken' = Broken
      PROVE  UNCHANGED Channel!vars
    BY <1>4, <1>5 DEF Channel!vars, Delivered, Broken
<1>6. ASSUME Promised' = Promised, packets' = packets, ~Broken, Broken'
      PROVE  Channel!Next
  <2>1. Channel!Break
      BY <1>4, <1>6 DEF Channel!Break, Delivered, Broken
  <2>2. QED
      BY <2>1 DEF Channel!Next
<1>7. CASE UNCHANGED vars
  <2>1. UNCHANGED <<givenUp, Recv_Data_Queue, packets, receiver>>
      BY <1>7 DEF vars, sendVars, recvVars
  <2>2. QED
      BY <1>1, <1>5, <2>1, SamePromised DEF Broken
<1>8. ASSUME NEW n \in BodySizes, NEW type \in Types, Send(n, type)
      PROVE  Channel!Next
  <2>1. UNCHANGED <<givenUp, Recv_Data_Queue, receiver>>
      BY <1>8 DEF Send, recvVars
  <2>2. Delivered' = Delivered
      BY <1>1, <1>4, <2>1, SamePromised
  <2>3. PICK packet \in [size : BodySizes, type : Types] : packet = [size |-> n, type |-> type]
      OBVIOUS
  <2>4. packets' = Append(packets, packet)
      BY <1>8, <2>3 DEF Send
  <2>5. Channel!Send(packet)
      BY <2>1, <2>2, <2>4 DEF Channel!Send, Delivered
  <2>6. QED
      BY <2>5 DEF Channel!Next
<1>9. CASE PopPacket \/ SendChunk
  <2>1. UNCHANGED <<givenUp, Recv_Data_Queue, packets, receiver>>
      BY <1>9 DEF PopPacket, SendChunk, recvVars
  <2>2. QED
      BY <1>1, <1>5, <2>1, SamePromised DEF Broken
<1>10. CASE SendFails
  <2>1. UNCHANGED <<packets, receiver>>
      BY <1>10 DEF SendFails, recvVars
  <2>2. QED
      BY <1>5, <1>10, <2>1, FailsPromised DEF Broken
<1>11. ASSUME NEW n \in 1..BufSize, Receive(n)
       PROVE  [Channel!Next]_(Channel!vars)
  <2>1. UNCHANGED <<givenUp, Recv_Data_Queue, packets>> /\ receiver = "armed"
      BY <1>11 DEF Receive, sendVars
  <2>2. Promised' = Promised /\ ~Broken
      BY <1>1, <2>1, SamePromised DEF Broken
  <2>3. Broken' = TRUE \/ Broken' = Broken
      BY <1>11, <2>1 DEF Broken, Receive
  <2>4. QED
      BY <1>5, <1>6, <2>1, <2>2, <2>3
<1>12. CASE PushPacket
  <2>1. UNCHANGED <<packets, receiver>> /\ receiver = "parse"
      BY <1>12 DEF PushPacket, sendVars
  <2>2. CASE Promised' = Promised
      BY <1>5, <2>1, <2>2 DEF Broken
  <2>3. CASE Promised' = Promised + 1 /\ Promised < Len(packets)
    <3>1. Delivered' = Append(Delivered, Len(Delivered) + 1)
        BY <1>2, <1>3, <2>3, GrowByOne
    <3>2. Channel!Deliver
        BY <1>2, <2>1, <2>3, <3>1 DEF Channel!Deliver, Delivered, Broken
    <3>3. QED
        BY <3>2 DEF Channel!Next
  <2>4. QED
      BY <1>12, <2>2, <2>3, PushPromised
<1>13. CASE RejectPacket \/ ReceiveEnd
  <2>1. /\ UNCHANGED <<givenUp, Recv_Data_Queue, packets>>
        /\ receiver \in {"armed", "parse"} /\ receiver' \in {"reject", "ended"}
      BY <1>13 DEF RejectPacket, ReceiveEnd, sendVars
  <2>2. QED
      BY <1>1, <1>6, <2>1, SamePromised DEF Broken
<1>14. CASE ParseDone
  <2>1. /\ UNCHANGED <<givenUp, Recv_Data_Queue, packets>>
        /\ receiver = "parse" /\ receiver' = "armed"
      BY <1>14 DEF ParseDone, sendVars
  <2>2. QED
      BY <1>1, <1>5, <2>1, SamePromised DEF Broken
<1>15. QED
    BY <1>7, <1>8, <1>9, <1>10, <1>11, <1>12, <1>13, <1>14 DEF Next, ReceiverStep

LEMMA ChannelInit == ASSUME Init PROVE Channel!Init
<1>1. StreamInv
    BY InitStream
<1>2. Promised = 0
  <2>1. IsPromised(Promised, 0, {})
      BY <1>1, PromisedFacts DEF Init, StreamInv
  <2>2. QED
      BY <2>1 DEF IsPromised
<1>3. Delivered = <<>>
    BY <1>1, <1>2, DeliveredIs
<1>4. QED
    BY <1>3 DEF Channel!Init, Init, Delivered

\* Chunking and reassembly implement the FIFO channel of whole packets: each
\* step of the two threads is a Send, the delivery of the next whole packet, the
\* end of the connection, or invisible, up to the first packet given up.
THEOREM StreamImplementsChannel == Spec => ImplementsChannel
<1>1. Spec => []StreamInv
    BY AlwaysStream
<1>2. Init => Channel!Init
    BY ChannelInit
<1>3. StreamInv /\ StreamInv' /\ [Next]_vars => [Channel!Next]_(Channel!vars)
    BY ChannelStep
<1>4. QED
    BY <1>1, <1>2, <1>3, PTL DEF Spec, ImplementsChannel, Channel!Spec
=============================================================================
