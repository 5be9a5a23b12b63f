--------------------------- MODULE DHClientProofs ---------------------------
(***************************************************************************)
(* Proofs about DHClient, for any number of sockets, SOCKET values and     *)
(* packets: type correctness, and what holds of a client as long as its    *)
(* application has sent nothing.                                           *)
(*                                                                         *)
(* Then there is one duty at a time in the client: a receive that is       *)
(* outstanding, its completion, the Worker that handles it or closes the   *)
(* connection because of it.  While there is one, the Connector is past    *)
(* its first receive and makes no socket, so the two threads never close   *)
(* at the same time.                                                       *)
(***************************************************************************)
EXTENDS DHClient, FiniteSetTheorems, SequenceTheorems, TLAPS

ClientThreads == {App, Connector, Worker}

Labels ==
    {"idle", "join", "ended", "none", "loop", "socket", "connect", "check", "register",
     "receive", "success", "send", "chunk", "close", "closing", "closed", "exited",
     "wait", "handle"}

CloseLabels == {"close", "closing", "closed"}

\* pc is a function: TypeOK speaks of its values only.
IInv == TypeOK /\ pc \in [ClientThreads -> Labels]

-----------------------------------------------------------------------------
(* A client that has sent nothing.                                         *)

Places == {"recv", "port", "worker"}

\* The Worker handles a receive, or closes the connection.
WorkerDuty == pc[Worker] \in CloseLabels \/ (pc[Worker] = "handle" /\ entry.io = "Recv")

\* The receive or the close at place k is the client's duty.
Duty(k, s, i) ==
    \/ k = "recv" /\ s \in Sockets /\ i \in 1..recvs[s]
    \/ k = "port" /\ s = 0 /\ i \in 1..Len(iocp) /\ iocp[i].io = "Recv"
    \/ k = "worker" /\ s = 0 /\ i = 0 /\ WorkerDuty

OneDuty ==
    \A k1, k2 \in Places, s1, s2 \in Sockets \cup {0}, i1, i2 \in Nat :
        Duty(k1, s1, i1) /\ Duty(k2, s2, i2) => k1 = k2 /\ s1 = s2 /\ i1 = i2

\* The Connector takes itself to be connected.
Connected ==
    \/ pc[Connector] \in {"success", "exited"}
    \/ pc[Connector] \in {"loop", "send"} /\ Is_Server_Connect_Success

DutyConnected ==
    \A k \in Places, s \in Sockets \cup {0}, i \in Nat : Duty(k, s, i) => Connected

NothingSent ==
    /\ Send_Data_Queue.size = 0 /\ pc[Connector] # "chunk"
    /\ \A s \in Sockets : sends[s] = 0
    /\ \A i \in 1..Len(iocp) : iocp[i].io # "Send"
    /\ pc[Worker] = "handle" => entry.io # "Send"

\* A thread that is about to forget the socket has closed it.
ForgetsClosed ==
    \A t \in {Connector, Worker} : pc[t] = "closing" => m_Socket = 0 \/ link[m_Socket] = "gone"

DutyInv == OneDuty /\ DutyConnected /\ NothingSent /\ ForgetsClosed /\ ClosesAll

SilentInv == ~Send_Data_Queue.used => DutyInv


-----------------------------------------------------------------------------
(* Types.                                                                  *)

LEMMA ThreadsDiffer ==
    /\ App # Connector /\ App # Worker /\ App # Nobody
    /\ Connector # Worker /\ Connector # Nobody /\ Worker # Nobody
<1>1. \A x, y, z : IsFiniteSet({x, y, z}) /\ Cardinality({x, y, z}) <= 3
  <2> TAKE x, y, z
  <2>1. IsFiniteSet({x}) /\ Cardinality({x}) = 1
    BY FS_Singleton
  <2> PICK xy : xy = {x} \cup {y}
      OBVIOUS
  <2>2. IsFiniteSet(xy) /\ Cardinality(xy) <= 2
    BY <2>1, FS_AddElement
  <2>3. IsFiniteSet(xy \cup {z}) /\ Cardinality(xy \cup {z}) <= 3
    <3>1. Cardinality(xy) \in Nat
      BY <2>2, FS_CardinalityType
    <3>2. /\ IsFiniteSet(xy \cup {z})
          /\ Cardinality(xy \cup {z}) = IF z \in xy THEN Cardinality(xy) ELSE Cardinality(xy) + 1
      BY <2>2, FS_AddElement
    <3> QED BY <2>2, <3>1, <3>2
  <2>4. xy \cup {z} = {x, y, z}
    OBVIOUS
  <2> QED BY <2>3, <2>4
<1>2. ASSUME NEW x, NEW y, NEW z, {App, Connector, Worker, Nobody} = {x, y, z}
      PROVE  FALSE
  <2>1. Cardinality({App, Connector, Worker, Nobody}) <= 3
    BY <1>1, <1>2
  <2> QED BY <2>1, ClientAssumption
<1>3. /\ App = Connector => {App, Connector, Worker, Nobody} = {App, Worker, Nobody}
      /\ App = Worker => {App, Connector, Worker, Nobody} = {App, Connector, Nobody}
      /\ App = Nobody => {App, Connector, Worker, Nobody} = {App, Connector, Worker}
      /\ Connector = Worker => {App, Connector, Worker, Nobody} = {App, Worker, Nobody}
      /\ Connector = Nobody => {App, Connector, Worker, Nobody} = {App, Connector, Worker}
      /\ Worker = Nobody => {App, Connector, Worker, Nobody} = {App, Connector, Worker}
  OBVIOUS
<1> QED BY <1>2, <1>3

LEMMA CompletionKinds ==
    /\ [io |-> "Exit"] \in Completions
    /\ \A s \in Sockets, n \in {"zero", "good", "bad"}, o \in {"Recv", "Send"} :
          [io |-> o, sock |-> s, n |-> n] \in Completions
    /\ \A c \in Completions : c.io \in {"Recv", "Send", "Exit"}
    /\ \A c \in Completions : c.io # "Exit" => c.sock \in Sockets
BY DEF Completions

LEMMA InitIInv == Init => IInv
<1> SUFFICES ASSUME Init PROVE IInv
    OBVIOUS
<1>1. pc[App] = "idle" /\ pc[Worker] = "wait" /\ pc[Connector] = "none"
      /\ pc \in [ClientThreads -> Labels]
  BY ThreadsDiffer DEF Init, ClientThreads, Labels
<1>2. entry \in Completions /\ iocp \in Seq(Completions)
  BY CompletionKinds DEF Init
<1>3. Send_Data_Queue \in [size : 0..MaxSends, used : BOOLEAN]
  BY ClientAssumption DEF Init
<1> QED BY <1>1, <1>2, <1>3 DEF Init, IInv, TypeOK

AppLabels == {"idle", "join", "ended"}
ConnectorLabels ==
    {"none", "loop", "socket", "connect", "check", "register", "receive", "success",
     "send", "chunk", "close", "closing", "closed", "exited"}
WorkerLabels == {"wait", "handle", "close", "closing", "closed", "exited"}

\* What TypeOK and IInv say of pc.
PcOK ==
    /\ pc \in [ClientThreads -> Labels]
    /\ pc[App] \in AppLabels /\ pc[Connector] \in ConnectorLabels
    /\ pc[Worker] \in WorkerLabels

\* What TypeOK says of the rest.
RestOK ==
    /\ m_Socket \in Sockets \cup {0}
    /\ Is_Server_Connect_Success \in BOOLEAN /\ g_Is_Exit \in BOOLEAN
    /\ Send_Data_Queue \in [size : 0..MaxSends, used : BOOLEAN]
    /\ g_CCS \in {Connector, Worker, Nobody}
    /\ ret \in {"loop", "check", "send"}
    /\ entry \in Completions /\ crashed \in BOOLEAN
    /\ iocp \in Seq(Completions)
    /\ link \in [Sockets -> {"unused", "free", "open", "closed", "reset", "shut", "gone"}]
    /\ handle \in [Sockets -> Handles \cup {Nobody}]
    /\ recvs \in [Sockets -> Nat] /\ sends \in [Sockets -> Nat]

LEMMA Parts == (IInv <=> PcOK /\ RestOK) /\ (IInv <=> PcOK /\ RestOK)'
BY DEF IInv, TypeOK, PcOK, RestOK, AppLabels, ConnectorLabels, WorkerLabels

\* A step of one thread.
LEMMA PcStep ==
    ASSUME PcOK, NEW t, NEW l, pc' = [pc EXCEPT ![t] = l],
           \/ t = App /\ l \in AppLabels
           \/ t = Connector /\ l \in ConnectorLabels
           \/ t = Worker /\ l \in WorkerLabels
    PROVE  PcOK'
<1>1. l \in Labels
  BY DEF AppLabels, ConnectorLabels, WorkerLabels, Labels
<1> QED BY <1>1, ThreadsDiffer DEF PcOK, ClientThreads

\* Packets that are queued or taken, ...
LEMMA QueueTypes ==
    ASSUME NEW q \in [size : 0..MaxSends, used : BOOLEAN]
    PROVE  /\ q.size < MaxSends =>
                [size |-> q.size + 1, used |-> TRUE] \in [size : 0..MaxSends, used : BOOLEAN]
           /\ [q EXCEPT !.size = 0] \in [size : 0..MaxSends, used : BOOLEAN]
           /\ q.size # 0 => [q EXCEPT !.size = @ - 1] \in [size : 0..MaxSends, used : BOOLEAN]
<1>1. q.size \in 0..MaxSends /\ MaxSends \in Nat
  BY ClientAssumption
<1>2. 0 \in 0..MaxSends /\ (q.size < MaxSends => q.size + 1 \in 0..MaxSends)
      /\ (q.size # 0 => q.size - 1 \in 0..MaxSends)
  BY <1>1
<1> QED BY <1>2

\* ... and operations that are started or completed.
LEMMA OneMore ==
    ASSUME NEW f \in [Sockets -> Nat], NEW s \in Sockets
    PROVE  /\ [f EXCEPT ![s] = @ + 1] \in [Sockets -> Nat]
           /\ f[s] > 0 => [f EXCEPT ![s] = @ - 1] \in [Sockets -> Nat]
<1>1. f[s] \in Nat /\ f[s] + 1 \in Nat /\ (f[s] > 0 => f[s] - 1 \in Nat)
  OBVIOUS
<1> QED BY <1>1

LEMMA NextIInv == IInv /\ [Next]_vars => IInv'
<1> SUFFICES ASSUME PcOK, RestOK, [Next]_vars PROVE PcOK' /\ RestOK'
    BY Parts
<1>0. /\ recvs \in [Sockets -> Nat] /\ sends \in [Sockets -> Nat]
      /\ iocp \in Seq(Completions)
      /\ Send_Data_Queue \in [size : 0..MaxSends, used : BOOLEAN]
  BY DEF RestOK
<1>1. CASE UNCHANGED vars
  BY <1>1 DEF vars, shared, kernel, PcOK, RestOK
<1>2. CASE Connect \/ Send \/ End \/ EndJoined
  <2>1. PcOK'
    <3>1. CASE Connect
      BY <3>1, PcStep DEF Connect, Goto, ConnectorLabels
    <3>2. CASE Send
      BY <3>2 DEF Send, PcOK
    <3>3. CASE End
      BY <3>3, PcStep DEF End, Goto, AppLabels
    <3>4. CASE EndJoined
      BY <3>4, PcStep DEF EndJoined, Goto, AppLabels
    <3> QED BY <1>2, <3>1, <3>2, <3>3, <3>4
  <2>2. CASE Connect
    BY <2>1, <2>2 DEF Connect, RestOK, shared, kernel
  <2>3. CASE Send
    <3>1. Send_Data_Queue' \in [size : 0..MaxSends, used : BOOLEAN]
      BY <2>3, QueueTypes DEF Send, RestOK
    <3> QED BY <2>1, <2>3, <3>1 DEF Send, RestOK, shared, kernel
  <2>4. CASE End
    <3>1. iocp' \in Seq(Completions)
      BY <2>4, <1>0, AppendProperties, CompletionKinds DEF End
    <3> QED BY <2>1, <2>4, <3>1 DEF End, RestOK, shared
  <2>5. CASE EndJoined
    <3>1. Send_Data_Queue' \in [size : 0..MaxSends, used : BOOLEAN]
      BY <2>5, QueueTypes DEF EndJoined, RestOK
    <3>2. link' \in [Sockets -> {"unused", "free", "open", "closed", "reset", "shut", "gone"}]
      BY <2>5 DEF EndJoined, RestOK
    <3> QED BY <2>1, <2>5, <3>1, <3>2 DEF EndJoined, RestOK
  <2> QED BY <1>2, <2>1, <2>2, <2>3, <2>4, <2>5
<1>3. ASSUME NEW t \in {Connector, Worker}, Safe_CloseSocket(t) PROVE PcOK' /\ RestOK'
  <2>1. CASE CloseSocket(t)
    <3>1. link' \in [Sockets -> {"unused", "free", "open", "closed", "reset", "shut", "gone"}]
      BY <2>1 DEF CloseSocket, RestOK
    <3>2. PcOK'
      BY <2>1, PcStep DEF CloseSocket, Goto, ConnectorLabels, WorkerLabels
    <3> QED BY <2>1, <3>1, <3>2 DEF CloseSocket, RestOK
  <2>2. CASE CloseInvalid(t)
    <3>1. PcOK'
      BY <2>2, PcStep DEF CloseInvalid, Goto, ConnectorLabels, WorkerLabels
    <3> QED BY <2>2, <3>1 DEF CloseInvalid, RestOK, kernel
  <2>3. CASE CloseFlag(t)
    <3>1. PcOK'
      <4>1. CASE t = Worker
        BY <2>3, <4>1, PcStep DEF CloseFlag, Goto, WorkerLabels
      <4>2. CASE t # Worker
        BY <2>3, <4>2, PcStep DEF CloseFlag, Goto, ConnectorLabels, RestOK
      <4> QED BY <4>1, <4>2
    <3> QED BY <2>3, <3>1 DEF CloseFlag, RestOK, kernel
  <2> QED BY <1>3, <2>1, <2>2, <2>3 DEF Safe_CloseSocket
<1>4. CASE ConnectSendThread \/ ConnectOutcome
  <2>1. CASE Loop \/ KeepSocket \/ SocketFails \/ ConnectExit \/ Check
    <3>1. PcOK'
      BY <2>1, PcStep DEF Loop, KeepSocket, SocketFails, ConnectExit, Check, Goto,
                          ConnectorLabels
    <3>2. UNCHANGED <<shared, Send_Data_Queue, g_Is_Exit, ret, entry, crashed, kernel>>
      BY <2>1 DEF Loop, KeepSocket, SocketFails, ConnectExit, Check
    <3> QED BY <3>1, <3>2 DEF RestOK, shared, kernel
  <2>2. ASSUME NEW s \in Sockets, NEW h \in Handles, MakeSocket(s, h) PROVE PcOK' /\ RestOK'
    <3>1. PcOK'
      BY <2>2, PcStep DEF MakeSocket, Goto, ConnectorLabels
    <3> QED BY <2>2, <3>1 DEF MakeSocket, RestOK
  <2>3. CASE Register
    <3>1. PcOK' /\ ret' \in {"loop", "check", "send"}
      BY <2>3, PcStep DEF Register, CloseThen, Goto, ConnectorLabels, RestOK
    <3> QED BY <2>3, <3>1 DEF Register, RestOK, shared, kernel
  <2>4. CASE Receive
    <3>1. PcOK' /\ ret' \in {"loop", "check", "send"}
      BY <2>4, PcStep DEF Receive, CloseThen, Goto, ConnectorLabels, RestOK
    <3>2. recvs' \in [Sockets -> Nat]
      <4>1. \/ recvs' = recvs
            \/ \E s \in Sockets : recvs' = [recvs EXCEPT ![s] = @ + 1]
        BY <2>4 DEF Receive, CanTransfer
      <4> QED BY <1>0, <4>1, OneMore
    <3> QED BY <2>4, <3>1, <3>2 DEF Receive, RestOK, shared
  <2>5. CASE Success
    <3>1. PcOK'
      BY <2>5, PcStep DEF Success, Goto, ConnectorLabels
    <3> QED BY <2>5, <3>1 DEF Success, RestOK, kernel
  <2>6. CASE SendPop
    <3>1. PcOK'
      BY <2>6, PcStep DEF SendPop, Goto, ConnectorLabels
    <3>2. Send_Data_Queue' \in [size : 0..MaxSends, used : BOOLEAN]
      <4>1. \/ Send_Data_Queue' = Send_Data_Queue
            \/ /\ Send_Data_Queue.size # 0
               /\ Send_Data_Queue' = [Send_Data_Queue EXCEPT !.size = @ - 1]
        BY <2>6 DEF SendPop
      <4> QED BY <1>0, <4>1, QueueTypes
    <3> QED BY <2>6, <3>1, <3>2 DEF SendPop, RestOK, shared, kernel
  <2>7. CASE SendChunk
    <3>1. PcOK' /\ ret' \in {"loop", "check", "send"}
      BY <2>7, PcStep DEF SendChunk, CloseThen, Goto, ConnectorLabels, RestOK
    <3>2. sends' \in [Sockets -> Nat]
      <4>1. \/ sends' = sends
            \/ \E s \in Sockets : sends' = [sends EXCEPT ![s] = @ + 1]
        BY <2>7 DEF SendChunk, CanTransfer
      <4> QED BY <1>0, <4>1, OneMore
    <3> QED BY <2>7, <3>1, <3>2 DEF SendChunk, RestOK, shared
  <2>8. CASE Connects
    <3>1. PcOK'
      BY <2>8, PcStep DEF Connects, Goto, ConnectorLabels
    <3> QED BY <2>8, <3>1 DEF Connects, RestOK, shared
  <2>9. CASE ConnectFails
    <3>1. PcOK' /\ ret' \in {"loop", "check", "send"}
      BY <2>9, PcStep DEF ConnectFails, CloseThen, Goto, ConnectorLabels, RestOK
    <3> QED BY <2>9, <3>1 DEF ConnectFails, RestOK, shared, kernel
  <2> QED BY <1>3, <1>4, <2>1, <2>2, <2>3, <2>4, <2>5, <2>6, <2>7, <2>8, <2>9
          DEF ConnectSendThread, ConnectOutcome
<1>5. CASE WorkThread
  <2>1. CASE GetQueuedCompletionStatusEx
    <3>1. PcOK'
      BY <2>1, PcStep DEF GetQueuedCompletionStatusEx, Goto, WorkerLabels
    <3>2. Head(iocp) \in Completions /\ Tail(iocp) \in Seq(Completions)
      BY <2>1, HeadTailProperties DEF GetQueuedCompletionStatusEx, RestOK
    <3> QED BY <2>1, <3>1, <3>2 DEF GetQueuedCompletionStatusEx, RestOK, shared
  <2>2. CASE ExitThread
    <3>1. PcOK'
      BY <2>2, PcStep DEF ExitThread, Goto, WorkerLabels
    <3>2. iocp' \in Seq(Completions)
      BY <2>2, AppendProperties DEF ExitThread, RestOK
    <3> QED BY <2>2, <3>1, <3>2 DEF ExitThread, RestOK, shared
  <2>3. CASE ZeroBytes
    <3>1. PcOK'
      BY <2>3, PcStep DEF ZeroBytes, Goto, WorkerLabels
    <3>2. link' \in [Sockets -> {"unused", "free", "open", "closed", "reset", "shut", "gone"}]
      BY <2>3 DEF ZeroBytes, Named, RestOK
    <3> QED BY <2>3, <3>1, <3>2 DEF ZeroBytes, RestOK, shared
  <2>4. CASE IOFunction_Send
    <3>1. PcOK'
      BY <2>4, PcStep DEF IOFunction_Send, Goto, WorkerLabels
    <3> QED BY <2>4, <3>1 DEF IOFunction_Send, RestOK, shared, kernel
  <2>5. CASE IOFunction_Recv
    <3>1. PcOK'
      BY <2>5, PcStep DEF IOFunction_Recv, Goto, WorkerLabels
    <3>2. recvs' \in [Sockets -> Nat]
      <4>1. \/ recvs' = recvs
            \/ \E s \in Sockets : recvs' = [recvs EXCEPT ![s] = @ + 1]
        BY <2>5 DEF IOFunction_Recv, CanTransfer
      <4> QED BY <1>0, <4>1, OneMore
    <3> QED BY <2>5, <3>1, <3>2 DEF IOFunction_Recv, RestOK, shared
  <2> QED BY <1>3, <1>5, <2>1, <2>2, <2>3, <2>4, <2>5 DEF WorkThread
<1>6. CASE Network
  <2>1. PcOK'
    BY <1>6 DEF Network, KernelUnchanged, PcOK
  <2>2. PICK s \in Sockets : ServerCloses(s) \/ RecvCompletes(s) \/ SendCompletes(s)
    BY <1>6 DEF Network
  <2>3. link' \in [Sockets -> {"unused", "free", "open", "closed", "reset", "shut", "gone"}]
    BY <2>2 DEF ServerCloses, RecvCompletes, SendCompletes, RestOK
  <2>4. recvs' \in [Sockets -> Nat] /\ sends' \in [Sockets -> Nat]
    <3>1. /\ \/ recvs' = recvs
             \/ recvs[s] > 0 /\ recvs' = [recvs EXCEPT ![s] = @ - 1]
          /\ \/ sends' = sends
             \/ sends[s] > 0 /\ sends' = [sends EXCEPT ![s] = @ - 1]
      BY <2>2 DEF ServerCloses, RecvCompletes, SendCompletes
    <3>2. recvs' \in [Sockets -> Nat]
      BY <1>0, <3>1, OneMore
    <3>3. sends' \in [Sockets -> Nat]
      BY <1>0, <3>1, OneMore
    <3> QED BY <3>2, <3>3
  <2>5. iocp' \in Seq(Completions)
    <3>1. iocp' = iocp \/ \E c \in Completions : iocp' = Append(iocp, c)
      BY <2>2, CompletionKinds DEF ServerCloses, RecvCompletes, SendCompletes
    <3>2. ASSUME NEW c \in Completions, iocp' = Append(iocp, c)
          PROVE  iocp' \in Seq(Completions)
      BY <1>0, <3>2, AppendProperties
    <3> QED BY <1>0, <3>1, <3>2
  <2>6. handle' = handle
    BY <2>2 DEF ServerCloses, RecvCompletes, SendCompletes
  <2> QED BY <1>6, <2>1, <2>3, <2>4, <2>5, <2>6 DEF Network, KernelUnchanged, RestOK, shared
<1> QED BY <1>1, <1>2, <1>4, <1>5, <1>6 DEF Next, Stopped

\* Type correctness of the client.
THEOREM ClientTypeOK == Spec => []TypeOK
<1>1. IInv => TypeOK
  BY DEF IInv
<1> QED BY <1>1, InitIInv, NextIInv, PTL DEF Spec


-----------------------------------------------------------------------------
(* The duty of a client that has sent nothing.                             *)

\* The duty stays where it is, or moves up in the port by d.
LEMMA DutyKept ==
    ASSUME OneDuty, DutyConnected, NEW d \in Nat, Connected => Connected',
           \A k \in Places, s \in Sockets \cup {0}, i \in Nat :
              Duty(k, s, i)' => Duty(k, s, IF k = "port" THEN i + d ELSE i)
    PROVE  OneDuty' /\ DutyConnected'
<1>1. OneDuty'
  <2> SUFFICES ASSUME NEW k1 \in Places, NEW k2 \in Places,
                      NEW s1 \in Sockets \cup {0}, NEW s2 \in Sockets \cup {0},
                      NEW i1 \in Nat, NEW i2 \in Nat, Duty(k1, s1, i1)', Duty(k2, s2, i2)'
               PROVE  k1 = k2 /\ s1 = s2 /\ i1 = i2
      BY DEF OneDuty
  <2> PICK j1 \in Nat, j2 \in Nat : /\ j1 = IF k1 = "port" THEN i1 + d ELSE i1
                                    /\ j2 = IF k2 = "port" THEN i2 + d ELSE i2
      OBVIOUS
  <2>1. Duty(k1, s1, j1) /\ Duty(k2, s2, j2)
    OBVIOUS
  <2>2. k1 = k2 /\ s1 = s2 /\ j1 = j2
    BY <2>1 DEF OneDuty
  <2> QED BY <2>2
<1>2. DutyConnected'
  <2> SUFFICES ASSUME NEW k \in Places, NEW s \in Sockets \cup {0}, NEW i \in Nat,
                      Duty(k, s, i)'
               PROVE  Connected'
      BY DEF DutyConnected
  <2> PICK j \in Nat : j = IF k = "port" THEN i + d ELSE i
      OBVIOUS
  <2>1. Duty(k, s, j)
    OBVIOUS
  <2> QED BY <2>1 DEF DutyConnected
<1> QED BY <1>1, <1>2

\* There is one duty after the step, or none.
LEMMA DutyTo ==
    ASSUME NEW k0, NEW s0, NEW i0, Connected',
           \A k \in Places, s \in Sockets \cup {0}, i \in Nat :
              Duty(k, s, i)' => k = k0 /\ s = s0 /\ i = i0
    PROVE  OneDuty' /\ DutyConnected'
BY DEF OneDuty, DutyConnected

\* A step that leaves the receives and their completions.
LEMMA DutyStays ==
    ASSUME IInv, OneDuty, DutyConnected, UNCHANGED <<recvs, iocp>>, WorkerDuty' => WorkerDuty,
           Connected => Connected'
    PROVE  OneDuty' /\ DutyConnected'
<1>1. \A k \in Places, s \in Sockets \cup {0}, i \in Nat :
         Duty(k, s, i)' => Duty(k, s, IF k = "port" THEN i + 0 ELSE i)
  <2> SUFFICES ASSUME NEW k \in Places, NEW s \in Sockets \cup {0}, NEW i \in Nat, Duty(k, s, i)'
               PROVE  Duty(k, s, IF k = "port" THEN i + 0 ELSE i)
      OBVIOUS
  <2>1. (IF k = "port" THEN i + 0 ELSE i) = i
    OBVIOUS
  <2>2. Duty(k, s, i)
    BY DEF Duty
  <2> QED BY <2>1, <2>2
<1> QED BY <1>1, DutyKept

\* What a duty at one place says of the others.
LEMMA WhenRecv ==
    ASSUME IInv, OneDuty, DutyConnected, NEW s \in Sockets, recvs[s] > 0
    PROVE  /\ Connected /\ recvs[s] = 1 /\ \A r \in Sockets : r # s => recvs[r] = 0
           /\ \A i \in 1..Len(iocp) : iocp[i].io # "Recv"
           /\ ~WorkerDuty
<1> USE DEF Places
<1>0. recvs \in [Sockets -> Nat] /\ iocp \in Seq(Completions) /\ Len(iocp) \in Nat
  BY DEF IInv, TypeOK
<1>1. Duty("recv", s, 1) /\ Duty("recv", s, recvs[s])
  BY <1>0 DEF Duty
<1>2. recvs[s] = 1 /\ Connected
  BY <1>0, <1>1 DEF OneDuty, DutyConnected
<1>3. ASSUME NEW r \in Sockets, r # s PROVE recvs[r] = 0
  <2>1. recvs[r] # 0 => Duty("recv", r, 1)
    BY <1>0 DEF Duty
  <2> QED BY <1>1, <1>3, <2>1 DEF OneDuty
<1>4. ASSUME NEW i \in 1..Len(iocp), iocp[i].io = "Recv" PROVE FALSE
  <2>1. Duty("port", 0, i) /\ i \in Nat
    BY <1>0, <1>4 DEF Duty
  <2> QED BY <1>1, <2>1 DEF OneDuty
<1>5. ~WorkerDuty
  <2>1. WorkerDuty => Duty("worker", 0, 0)
    BY DEF Duty
  <2> QED BY <1>1, <2>1 DEF OneDuty
<1> QED BY <1>2, <1>3, <1>4, <1>5

LEMMA WhenPort ==
    ASSUME IInv, OneDuty, DutyConnected, NEW i \in 1..Len(iocp), iocp[i].io = "Recv"
    PROVE  /\ Connected /\ \A r \in Sockets : recvs[r] = 0
           /\ \A j \in 1..Len(iocp) : j # i => iocp[j].io # "Recv"
           /\ ~WorkerDuty
<1> USE DEF Places
<1>0. recvs \in [Sockets -> Nat] /\ iocp \in Seq(Completions) /\ Len(iocp) \in Nat /\ i \in Nat
  BY DEF IInv, TypeOK
<1>1. Duty("port", 0, i)
  BY DEF Duty
<1>2. Connected
  BY <1>0, <1>1 DEF DutyConnected
<1>3. ASSUME NEW r \in Sockets PROVE recvs[r] = 0
  <2>1. recvs[r] # 0 => Duty("recv", r, 1)
    BY <1>0 DEF Duty
  <2> QED BY <1>0, <1>1, <2>1 DEF OneDuty
<1>4. ASSUME NEW j \in 1..Len(iocp), j # i, iocp[j].io = "Recv" PROVE FALSE
  <2>1. Duty("port", 0, j) /\ j \in Nat
    BY <1>0, <1>4 DEF Duty
  <2> QED BY <1>0, <1>1, <1>4, <2>1 DEF OneDuty
<1>5. ~WorkerDuty
  <2>1. WorkerDuty => Duty("worker", 0, 0)
    BY DEF Duty
  <2> QED BY <1>0, <1>1, <2>1 DEF OneDuty
<1> QED BY <1>2, <1>3, <1>4, <1>5

LEMMA WhenWorker ==
    ASSUME IInv, OneDuty, DutyConnected, WorkerDuty
    PROVE  /\ Connected /\ \A r \in Sockets : recvs[r] = 0
           /\ \A j \in 1..Len(iocp) : iocp[j].io # "Recv"
<1>1. ASSUME NEW r \in Sockets PROVE recvs[r] = 0
  <2>1. recvs[r] \in Nat
    BY DEF IInv, TypeOK
  <2> QED BY <2>1, WhenRecv
<1>2. \A j \in 1..Len(iocp) : iocp[j].io # "Recv"
  BY WhenPort
<1>3. Duty("worker", 0, 0)
  BY DEF Duty
<1> QED BY <1>1, <1>2, <1>3 DEF DutyConnected, Places

LEMMA SilentInit == Init => SilentInv
<1> SUFFICES ASSUME Init PROVE DutyInv
    BY DEF SilentInv
<1>1. pc[Connector] = "none" /\ pc[Worker] = "wait"
  BY ThreadsDiffer DEF Init
<1>2. \A k \in Places, s \in Sockets \cup {0}, i \in Nat : ~Duty(k, s, i)
  BY <1>1 DEF Init, Duty, WorkerDuty, CloseLabels
<1>3. OneDuty /\ DutyConnected
  BY <1>2 DEF OneDuty, DutyConnected
<1>4. NothingSent
  BY <1>1 DEF Init, NothingSent
<1>5. ForgetsClosed
  BY <1>1 DEF Init, ForgetsClosed
<1>6. ClosesAll
  BY DEF Init, ClosesAll, Open
<1> QED BY <1>3, <1>4, <1>5, <1>6 DEF DutyInv


\* A step of another thread than t leaves pc[t], one of t moves it.
LEMMA Moves ==
    ASSUME IInv, NEW t \in ClientThreads, NEW l, Goto(t, l)
    PROVE  pc'[t] = l /\ \A u \in ClientThreads : u # t => pc'[u] = pc[u]
BY DEF Goto, IInv

\* What the application's steps leave of the invariant.
LEMMA SilentApplication ==
    ASSUME IInv, DutyInv, ~Send_Data_Queue'.used, Connect \/ Send \/ End \/ EndJoined
    PROVE  DutyInv'
<1> USE ThreadsDiffer DEF DutyInv, ClientThreads
<1>0. iocp \in Seq(Completions) /\ Len(iocp) \in Nat
  BY DEF IInv, TypeOK
<1>1. CASE Connect
  <2>1. /\ pc[Connector] = "none" /\ pc'[Connector] = "loop" /\ pc'[Worker] = pc[Worker]
        /\ UNCHANGED <<shared, Send_Data_Queue, entry, kernel>>
    BY <1>1, Moves DEF Connect
  <2>2. OneDuty' /\ DutyConnected'
    BY <2>1, DutyStays DEF Connected, WorkerDuty, kernel
  <2>3. NothingSent'
    BY <2>1 DEF NothingSent, kernel
  <2>4. ForgetsClosed'
    BY <2>1 DEF ForgetsClosed, kernel, shared
  <2>5. ClosesAll'
    BY <2>1 DEF ClosesAll, Open, kernel, shared
  <2> QED BY <2>2, <2>3, <2>4, <2>5
<1>2. CASE Send
  BY <1>2 DEF Send
<1>3. CASE End
  <2>1. /\ pc'[Connector] = pc[Connector] /\ pc'[Worker] = pc[Worker]
        /\ iocp' = Append(iocp, [io |-> "Exit"])
        /\ UNCHANGED <<shared, Send_Data_Queue, entry, link, handle, recvs, sends>>
    BY <1>3, Moves DEF End
  <2>2. \A i \in 1..Len(iocp') : /\ i \in 1..Len(iocp) => iocp'[i] = iocp[i]
                                 /\ i \notin 1..Len(iocp) => iocp'[i] = [io |-> "Exit"]
    BY <1>0, <2>1
  <2>3. \A k \in Places, s \in Sockets \cup {0}, i \in Nat :
           Duty(k, s, i)' => Duty(k, s, IF k = "port" THEN i + 0 ELSE i)
    <3> SUFFICES ASSUME NEW k \in Places, NEW s \in Sockets \cup {0}, NEW i \in Nat,
                        Duty(k, s, i)'
                 PROVE  Duty(k, s, IF k = "port" THEN i + 0 ELSE i)
        OBVIOUS
    <3>1. (IF k = "port" THEN i + 0 ELSE i) = i
      OBVIOUS
    <3>2. Duty(k, s, i)
      <4>1. WorkerDuty' => WorkerDuty
        BY <2>1 DEF WorkerDuty
      <4> QED BY <2>1, <2>2, <4>1 DEF Duty
    <3> QED BY <3>1, <3>2
  <2>4. Connected => Connected'
    BY <2>1 DEF Connected, shared
  <2>5. OneDuty' /\ DutyConnected'
    BY <2>3, <2>4, DutyKept
  <2>6. NothingSent'
    BY <2>1, <2>2 DEF NothingSent
  <2>7. ForgetsClosed'
    BY <2>1 DEF ForgetsClosed, shared
  <2>8. ClosesAll'
    BY <2>1 DEF ClosesAll, Open, shared
  <2> QED BY <2>5, <2>6, <2>7, <2>8
<1>4. CASE EndJoined
  <2>1. /\ pc'[Connector] = pc[Connector] /\ pc'[Worker] = pc[Worker]
        /\ pc[Connector] = "exited" /\ m_Socket' = 0
        /\ Send_Data_Queue' = [Send_Data_Queue EXCEPT !.size = 0]
        /\ link' = [s \in Sockets |-> IF s = m_Socket THEN "gone" ELSE link[s]]
        /\ UNCHANGED <<entry, iocp, handle, recvs, sends>>
    BY <1>4, Moves DEF EndJoined
  <2>2. OneDuty' /\ DutyConnected'
    BY <2>1, DutyStays DEF Connected, WorkerDuty
  <2>3. NothingSent'
    BY <2>1 DEF NothingSent, IInv, TypeOK
  <2>4. ForgetsClosed'
    BY <2>1 DEF ForgetsClosed
  <2>5. ClosesAll'
    BY <2>1 DEF ClosesAll, Open
  <2> QED BY <2>2, <2>3, <2>4, <2>5
<1> QED BY <1>1, <1>2, <1>3, <1>4

LEMMA SilentClose ==
    ASSUME IInv, DutyInv, NEW t \in {Connector, Worker}, Safe_CloseSocket(t)
    PROVE  DutyInv'
<1> USE ThreadsDiffer DEF DutyInv, ClientThreads
<1>1. CASE CloseSocket(t)
  <2>1. /\ pc[t] = "close" /\ pc'[t] = "closing"
        /\ \A u \in {Connector, Worker} : u # t => pc'[u] = pc[u]
        /\ link' = [s \in Sockets |-> IF s = m_Socket THEN "gone" ELSE link[s]]
        /\ UNCHANGED <<m_Socket, Is_Server_Connect_Success, Send_Data_Queue, entry, iocp,
                       recvs, sends>>
    BY <1>1, Moves DEF CloseSocket
  <2>2. (Connected => Connected') /\ (WorkerDuty' => WorkerDuty)
    BY <2>1 DEF Connected, WorkerDuty, CloseLabels
  <2>3. OneDuty' /\ DutyConnected'
    BY <2>1, <2>2, DutyStays
  <2>4. NothingSent'
    BY <2>1 DEF NothingSent
  <2>5. ForgetsClosed'
    BY <2>1 DEF ForgetsClosed, IInv, TypeOK
  <2>6. ClosesAll'
    BY <2>1 DEF ClosesAll, Open
  <2> QED BY <2>3, <2>4, <2>5, <2>6
<1>2. CASE CloseInvalid(t)
  <2>1. /\ pc[t] = "closing" /\ pc'[t] = "closed"
        /\ \A u \in {Connector, Worker} : u # t => pc'[u] = pc[u]
        /\ m_Socket' = 0
        /\ UNCHANGED <<Is_Server_Connect_Success, Send_Data_Queue, entry, kernel>>
    BY <1>2, Moves DEF CloseInvalid
  <2>2. (Connected => Connected') /\ (WorkerDuty' => WorkerDuty)
    BY <2>1 DEF Connected, WorkerDuty, CloseLabels
  <2>3. OneDuty' /\ DutyConnected'
    BY <2>1, <2>2, DutyStays DEF kernel
  <2>4. NothingSent'
    BY <2>1 DEF NothingSent, kernel
  <2>5. ForgetsClosed'
    BY <2>1 DEF ForgetsClosed
  <2>6. ClosesAll'
    <3>1. \A s \in Sockets : ~Open(s)
      BY <2>1 DEF ForgetsClosed, ClosesAll, Open, Sockets
    <3> QED BY <2>1, <3>1 DEF ClosesAll, Open, kernel
  <2> QED BY <2>3, <2>4, <2>5, <2>6
<1>3. CASE CloseFlag(t)
  <2>1. /\ pc[t] = "closed" /\ pc'[t] = IF t = Worker THEN "wait" ELSE ret
        /\ \A u \in {Connector, Worker} : u # t => pc'[u] = pc[u]
        /\ UNCHANGED <<m_Socket, Send_Data_Queue, entry, kernel>>
    BY <1>3, Moves DEF CloseFlag
  <2>2. ret \in {"loop", "check", "send"}
    BY DEF IInv, TypeOK
  <2>3. OneDuty' /\ DutyConnected'
    <3>1. CASE t = Worker
      <4>1. WorkerDuty
        BY <2>1, <3>1 DEF WorkerDuty, CloseLabels
      <4>2. /\ \A r \in Sockets : recvs'[r] = 0
            /\ \A j \in 1..Len(iocp') : iocp'[j].io # "Recv"
        BY <2>1, <4>1, WhenWorker DEF kernel
      <4>3. ~WorkerDuty'
        BY <2>1, <3>1 DEF WorkerDuty, CloseLabels
      <4>4. \A k \in Places, s \in Sockets \cup {0}, i \in Nat : ~Duty(k, s, i)'
        BY <4>2, <4>3 DEF Duty
      <4> QED BY <4>4 DEF OneDuty, DutyConnected
    <3>2. CASE t = Connector
      BY <2>1, <3>2, DutyStays DEF Connected, WorkerDuty, kernel
    <3> QED BY <3>1, <3>2
  <2>4. NothingSent'
    BY <2>1, <2>2 DEF NothingSent, kernel
  <2>5. ForgetsClosed'
    BY <2>1, <2>2 DEF ForgetsClosed, kernel
  <2>6. ClosesAll'
    BY <2>1 DEF ClosesAll, Open, kernel
  <2> QED BY <2>3, <2>4, <2>5, <2>6
<1> QED BY <1>1, <1>2, <1>3 DEF Safe_CloseSocket

LEMMA SilentConnector ==
    ASSUME IInv, DutyInv, ConnectSendThread \/ ConnectOutcome
    PROVE  DutyInv'
<1> USE ThreadsDiffer DEF DutyInv, ClientThreads
<1>1. CASE Loop \/ KeepSocket \/ SocketFails \/ ConnectExit \/ Check \/ Register \/ SendPop
           \/ ConnectFails
  <2>1. /\ pc'[Worker] = pc[Worker]
        /\ UNCHANGED <<shared, entry, kernel>>
        /\ Send_Data_Queue.size = 0 => UNCHANGED Send_Data_Queue
    BY <1>1, Moves DEF Loop, KeepSocket, SocketFails, ConnectExit, Check, Register, SendPop,
                       ConnectFails, CloseThen
  <2>2. /\ pc'[Connector] \notin {"chunk", "closing"}
        /\ Connected => Connected'
    <3>1. CASE Loop
      BY <3>1, Moves DEF Loop, Connected, shared
    <3>2. CASE KeepSocket \/ SocketFails \/ ConnectExit \/ Check
      BY <3>2, Moves DEF KeepSocket, SocketFails, ConnectExit, Check, Connected
    <3>3. CASE Register \/ ConnectFails
      BY <3>3, Moves DEF Register, ConnectFails, CloseThen, Connected
    <3>4. CASE SendPop
      BY <3>4, Moves DEF SendPop, Connected, NothingSent, shared
    <3> QED BY <1>1, <3>1, <3>2, <3>3, <3>4
  <2>3. OneDuty' /\ DutyConnected'
    BY <2>1, <2>2, DutyStays DEF WorkerDuty, kernel
  <2>4. NothingSent'
    BY <2>1, <2>2 DEF NothingSent, kernel
  <2>5. ForgetsClosed'
    BY <2>1, <2>2 DEF ForgetsClosed, kernel, shared
  <2>6. ClosesAll'
    BY <2>1 DEF ClosesAll, Open, kernel, shared
  <2> QED BY <2>3, <2>4, <2>5, <2>6
<1>2. ASSUME NEW s \in Sockets, NEW h \in Handles, MakeSocket(s, h) PROVE DutyInv'
  <2>1. /\ pc[Connector] = "socket" /\ pc'[Connector] = "connect" /\ pc'[Worker] = pc[Worker]
        /\ m_Socket = 0 /\ m_Socket' = s /\ link' = [link EXCEPT ![s] = "free"]
        /\ UNCHANGED <<Send_Data_Queue, entry, iocp, recvs, sends>>
    BY <1>2, Moves DEF MakeSocket
  <2>2. OneDuty' /\ DutyConnected'
    BY <2>1, DutyStays DEF Connected, WorkerDuty
  <2>3. NothingSent'
    BY <2>1 DEF NothingSent
  <2>4. ForgetsClosed'
    <3>1. ~Connected
      BY <2>1 DEF Connected
    <3>2. pc[Worker] # "closing"
      BY <3>1, WhenWorker DEF WorkerDuty, CloseLabels
    <3> QED BY <2>1, <3>2 DEF ForgetsClosed
  <2>5. ClosesAll'
    BY <2>1 DEF ClosesAll, Open, Sockets, IInv, TypeOK
  <2> QED BY <2>2, <2>3, <2>4, <2>5
<1>3. CASE Connects
  <2>1. /\ pc[Connector] = "connect" /\ pc'[Connector] = "check" /\ pc'[Worker] = pc[Worker]
        /\ link[m_Socket] = "free" /\ link' = [link EXCEPT ![m_Socket] = "open"]
        /\ UNCHANGED <<m_Socket, Send_Data_Queue, entry, iocp, recvs, sends>>
    BY <1>3, Moves DEF Connects, shared
  <2>2. OneDuty' /\ DutyConnected'
    BY <2>1, DutyStays DEF Connected, WorkerDuty
  <2>3. NothingSent'
    BY <2>1 DEF NothingSent
  <2>4. ForgetsClosed'
    BY <2>1 DEF ForgetsClosed
  <2>5. ClosesAll'
    BY <2>1 DEF ClosesAll, Open, IInv, TypeOK
  <2> QED BY <2>2, <2>3, <2>4, <2>5
<1>4. CASE Receive
  <2>1. /\ pc[Connector] = "receive" /\ pc'[Worker] = pc[Worker]
        /\ UNCHANGED <<shared, Send_Data_Queue, entry, iocp, link, sends>>
    BY <1>4, Moves DEF Receive, CloseThen
  <2>2. ~Connected
    BY <2>1 DEF Connected
  <2>3. pc'[Connector] \in {"success", "close"}
    BY <1>4, Moves DEF Receive, CloseThen
  <2>4. OneDuty' /\ DutyConnected'
    <3>1. CASE CanTransfer(m_Socket) /\ pc'[Connector] = "success"
               /\ recvs' = [recvs EXCEPT ![m_Socket] = @ + 1]
      <4> PICK s0 \in Sockets : s0 = m_Socket
          BY <3>1 DEF CanTransfer
      <4>1. /\ \A r \in Sockets : recvs[r] = 0
            /\ \A i \in 1..Len(iocp) : iocp[i].io # "Recv"
            /\ ~WorkerDuty
        <5>1. \A r \in Sockets : recvs[r] \in Nat
          BY DEF IInv, TypeOK
        <5> QED BY <2>2, <5>1, WhenRecv, WhenPort, WhenWorker
      <4>2. recvs' = [r \in Sockets |-> IF r = s0 THEN 1 ELSE 0]
        <5>1. recvs \in [Sockets -> Nat]
          BY DEF IInv, TypeOK
        <5>2. recvs[s0] + 1 = 1
          BY <4>1
        <5>3. recvs' = [recvs EXCEPT ![s0] = 1]
          BY <3>1, <5>2
        <5> QED BY <4>1, <5>1, <5>3
      <4>3. \A k \in Places, s \in Sockets \cup {0}, i \in Nat :
               Duty(k, s, i)' => k = "recv" /\ s = s0 /\ i = 1
        <5>1. ~WorkerDuty'
          BY <2>1, <4>1 DEF WorkerDuty
        <5> QED BY <2>1, <4>1, <4>2, <5>1 DEF Duty
      <4>4. Connected'
        BY <3>1 DEF Connected
      <4> QED BY <4>3, <4>4, DutyTo
    <3>2. CASE UNCHANGED recvs
      BY <2>1, <2>2, <3>2, DutyStays DEF WorkerDuty
    <3> QED BY <1>4, <3>1, <3>2, Moves DEF Receive
  <2>5. NothingSent'
    BY <2>1, <2>3 DEF NothingSent
  <2>6. ForgetsClosed'
    BY <2>1, <2>3 DEF ForgetsClosed, shared
  <2>7. ClosesAll'
    BY <2>1 DEF ClosesAll, Open, shared
  <2> QED BY <2>4, <2>5, <2>6, <2>7
<1>5. CASE Success
  <2>1. /\ pc[Connector] = "success" /\ pc'[Connector] = "loop" /\ pc'[Worker] = pc[Worker]
        /\ Is_Server_Connect_Success' = TRUE
        /\ UNCHANGED <<m_Socket, Send_Data_Queue, entry, kernel>>
    BY <1>5, Moves DEF Success
  <2>2. OneDuty' /\ DutyConnected'
    BY <2>1, DutyStays DEF Connected, WorkerDuty, kernel
  <2>3. NothingSent'
    BY <2>1 DEF NothingSent, kernel
  <2>4. ForgetsClosed'
    BY <2>1 DEF ForgetsClosed, kernel
  <2>5. ClosesAll'
    BY <2>1 DEF ClosesAll, Open, kernel
  <2> QED BY <2>2, <2>3, <2>4, <2>5
<1>6. CASE SendChunk
  BY <1>6 DEF SendChunk, NothingSent
<1>7. CASE Safe_CloseSocket(Connector)
  BY <1>7, SilentClose
<1> QED BY <1>1, <1>2, <1>3, <1>4, <1>5, <1>6, <1>7 DEF ConnectSendThread, ConnectOutcome


LEMMA SilentWorker ==
    ASSUME IInv, DutyInv, WorkThread
    PROVE  DutyInv'
<1> USE ThreadsDiffer DEF DutyInv, ClientThreads
<1>0. /\ iocp \in Seq(Completions) /\ Len(iocp) \in Nat /\ entry \in Completions
      /\ recvs \in [Sockets -> Nat]
  BY DEF IInv, TypeOK
<1>1. CASE GetQueuedCompletionStatusEx
  <2>1. /\ pc[Worker] = "wait" /\ pc'[Worker] = "handle" /\ pc'[Connector] = pc[Connector]
        /\ iocp # <<>> /\ entry' = Head(iocp) /\ iocp' = Tail(iocp)
        /\ UNCHANGED <<shared, Send_Data_Queue, link, recvs, sends>>
    BY <1>1, Moves DEF GetQueuedCompletionStatusEx
  <2>2. /\ Len(iocp) > 0 /\ entry' = iocp[1] /\ Len(iocp') = Len(iocp) - 1
        /\ \A i \in 1..Len(iocp') : iocp'[i] = iocp[i + 1]
    BY <1>0, <2>1, HeadTailProperties, EmptySeq
  <2>3. ~WorkerDuty /\ (WorkerDuty' <=> entry'.io = "Recv") /\ (Connected <=> Connected')
    BY <2>1 DEF WorkerDuty, CloseLabels, Connected, shared
  <2>4. OneDuty' /\ DutyConnected'
    <3>1. CASE iocp[1].io = "Recv"
      <4>1. 1 \in 1..Len(iocp)
        BY <1>0, <2>2
      <4>2. /\ Connected /\ \A r \in Sockets : recvs[r] = 0
            /\ \A j \in 1..Len(iocp) : j # 1 => iocp[j].io # "Recv"
        BY <3>1, <4>1, WhenPort
      <4>3. \A i \in 1..Len(iocp') : iocp'[i].io # "Recv"
        <5> SUFFICES ASSUME NEW i \in 1..Len(iocp') PROVE iocp'[i].io # "Recv"
            OBVIOUS
        <5>1. i + 1 \in 1..Len(iocp) /\ i + 1 # 1
          BY <1>0, <2>2
        <5> QED BY <2>2, <4>2, <5>1
      <4>4. \A k \in Places, s \in Sockets \cup {0}, i \in Nat :
               Duty(k, s, i)' => k = "worker" /\ s = 0 /\ i = 0
        BY <2>1, <4>2, <4>3 DEF Duty
      <4> QED BY <2>3, <4>2, <4>4, DutyTo
    <3>2. CASE iocp[1].io # "Recv"
      <4>1. \A k \in Places, s \in Sockets \cup {0}, i \in Nat :
               Duty(k, s, i)' => Duty(k, s, IF k = "port" THEN i + 1 ELSE i)
        <5> SUFFICES ASSUME NEW k \in Places, NEW s \in Sockets \cup {0}, NEW i \in Nat,
                            Duty(k, s, i)'
                     PROVE  Duty(k, s, IF k = "port" THEN i + 1 ELSE i)
            OBVIOUS
        <5>1. ~WorkerDuty'
          BY <2>2, <2>3, <3>2
        <5>2. CASE k = "port"
          <6>1. s = 0 /\ i \in 1..Len(iocp') /\ iocp'[i].io = "Recv"
            BY <5>2 DEF Duty
          <6>2. i + 1 \in 1..Len(iocp) /\ iocp[i + 1].io = "Recv"
            BY <1>0, <2>2, <6>1
          <6> QED BY <5>2, <6>1, <6>2 DEF Duty
        <5>3. CASE k # "port"
          BY <2>1, <5>1, <5>3 DEF Duty
        <5> QED BY <5>2, <5>3
      <4>2. 1 \in Nat
        OBVIOUS
      <4> QED BY <2>3, <4>1, <4>2, DutyKept
    <3> QED BY <3>1, <3>2
  <2>5. NothingSent'
    <3>1. \A i \in 1..Len(iocp') : iocp'[i].io # "Send"
      <4> SUFFICES ASSUME NEW i \in 1..Len(iocp') PROVE iocp'[i].io # "Send"
          OBVIOUS
      <4>1. i + 1 \in 1..Len(iocp)
        BY <1>0, <2>2
      <4> QED BY <2>2, <4>1 DEF NothingSent
    <3>2. entry'.io # "Send"
      <4>1. 1 \in 1..Len(iocp)
        BY <1>0, <2>2
      <4> QED BY <2>2, <4>1 DEF NothingSent
    <3> QED BY <2>1, <3>1, <3>2 DEF NothingSent
  <2>6. ForgetsClosed'
    BY <2>1 DEF ForgetsClosed, shared
  <2>7. ClosesAll'
    BY <2>1 DEF ClosesAll, Open, shared
  <2> QED BY <2>4, <2>5, <2>6, <2>7
<1>2. CASE ExitThread
  <2>1. /\ pc[Worker] = "handle" /\ pc'[Worker] = "exited" /\ pc'[Connector] = pc[Connector]
        /\ entry.io = "Exit" /\ iocp' = Append(iocp, entry)
        /\ UNCHANGED <<shared, Send_Data_Queue, entry, link, recvs, sends>>
    BY <1>2, Moves DEF ExitThread
  <2>2. \A i \in 1..Len(iocp') : /\ i \in 1..Len(iocp) => iocp'[i] = iocp[i]
                                 /\ i \notin 1..Len(iocp) => iocp'[i] = entry
    BY <1>0, <2>1
  <2>3. ~WorkerDuty' /\ (Connected => Connected')
    BY <2>1 DEF WorkerDuty, CloseLabels, Connected, shared
  <2>4. \A k \in Places, s \in Sockets \cup {0}, i \in Nat :
           Duty(k, s, i)' => Duty(k, s, IF k = "port" THEN i + 0 ELSE i)
    <3> SUFFICES ASSUME NEW k \in Places, NEW s \in Sockets \cup {0}, NEW i \in Nat,
                        Duty(k, s, i)'
                 PROVE  Duty(k, s, IF k = "port" THEN i + 0 ELSE i)
        OBVIOUS
    <3>1. (IF k = "port" THEN i + 0 ELSE i) = i
      OBVIOUS
    <3>2. Duty(k, s, i)
      BY <2>1, <2>2, <2>3 DEF Duty
    <3> QED BY <3>1, <3>2
  <2>5. OneDuty' /\ DutyConnected'
    BY <2>3, <2>4, DutyKept
  <2>6. NothingSent'
    BY <2>1, <2>2 DEF NothingSent
  <2>7. ForgetsClosed'
    BY <2>1 DEF ForgetsClosed, shared
  <2>8. ClosesAll'
    BY <2>1 DEF ClosesAll, Open, shared
  <2> QED BY <2>5, <2>6, <2>7, <2>8
<1>3. CASE ZeroBytes
  <2>1. /\ pc[Worker] = "handle" /\ pc'[Worker] \in {"close", "wait"}
        /\ pc'[Connector] = pc[Connector] /\ entry.io # "Exit"
        /\ UNCHANGED <<shared, Send_Data_Queue, entry, iocp, handle, recvs, sends>>
    BY <1>3, Moves DEF ZeroBytes
  <2>2. \/ link' = link
        \/ \E s \in Sockets : Open(s) /\ link' = [link EXCEPT ![s] = "shut"]
           /\ link[s] # "gone"
    BY <1>3 DEF ZeroBytes, Named, Open
  <2>3. entry.io = "Recv"
    BY <1>0, <2>1, CompletionKinds DEF NothingSent
  <2>4. WorkerDuty /\ (Connected => Connected')
    BY <2>1, <2>3 DEF WorkerDuty, Connected, shared
  <2>5. OneDuty' /\ DutyConnected'
    BY <2>1, <2>4, DutyStays
  <2>6. NothingSent'
    BY <2>1 DEF NothingSent
  <2>7. ForgetsClosed'
    <3>1. link[m_Socket] = "gone" => link'[m_Socket] = "gone" \/ m_Socket = 0
      BY <2>2 DEF IInv, TypeOK
    <3> QED BY <2>1, <3>1 DEF ForgetsClosed, shared
  <2>8. ClosesAll'
    <3>1. \A s \in Sockets : Open(s)' => Open(s)
      BY <2>2 DEF Open, IInv, TypeOK
    <3> QED BY <2>1, <3>1 DEF ClosesAll, shared
  <2> QED BY <2>5, <2>6, <2>7, <2>8
<1>4. CASE IOFunction_Send
  BY <1>4 DEF IOFunction_Send, NothingSent
<1>5. CASE IOFunction_Recv
  <2>1. /\ pc[Worker] = "handle" /\ pc'[Worker] \in {"close", "wait"}
        /\ pc'[Connector] = pc[Connector] /\ entry.io = "Recv"
        /\ UNCHANGED <<shared, Send_Data_Queue, entry, iocp, link, sends>>
    BY <1>5, Moves DEF IOFunction_Recv
  <2>2. WorkerDuty /\ (Connected => Connected')
    BY <2>1 DEF WorkerDuty, Connected, shared
  <2>3. OneDuty' /\ DutyConnected'
    <3>1. CASE recvs' = recvs
      BY <2>1, <2>2, <3>1, DutyStays
    <3>2. ASSUME NEW s0 \in Sockets, pc'[Worker] = "wait",
                 recvs' = [recvs EXCEPT ![s0] = @ + 1]
          PROVE  OneDuty' /\ DutyConnected'
      <4>1. /\ Connected /\ \A r \in Sockets : recvs[r] = 0
            /\ \A i \in 1..Len(iocp) : iocp[i].io # "Recv"
        BY <2>2, WhenWorker
      <4>2. recvs' = [r \in Sockets |-> IF r = s0 THEN 1 ELSE 0]
        <5>1. recvs[s0] + 1 = 1
          BY <4>1
        <5>2. recvs' = [recvs EXCEPT ![s0] = 1]
          BY <3>2, <5>1
        <5> QED BY <1>0, <4>1, <5>2
      <4>3. ~WorkerDuty'
        BY <3>2 DEF WorkerDuty, CloseLabels
      <4>4. \A k \in Places, s \in Sockets \cup {0}, i \in Nat :
               Duty(k, s, i)' => k = "recv" /\ s = s0 /\ i = 1
        BY <2>1, <4>1, <4>2, <4>3 DEF Duty
      <4> QED BY <2>2, <4>1, <4>4, DutyTo
    <3>3. \/ recvs' = recvs
          \/ \E s0 \in Sockets : /\ pc'[Worker] = "wait"
                                 /\ recvs' = [recvs EXCEPT ![s0] = @ + 1]
      BY <1>5, Moves DEF IOFunction_Recv, CanTransfer
    <3> QED BY <3>1, <3>2, <3>3
  <2>4. NothingSent'
    BY <2>1 DEF NothingSent
  <2>5. ForgetsClosed'
    BY <2>1 DEF ForgetsClosed, shared
  <2>6. ClosesAll'
    BY <2>1 DEF ClosesAll, Open, shared
  <2> QED BY <2>3, <2>4, <2>5, <2>6
<1>6. CASE Safe_CloseSocket(Worker)
  BY <1>6, SilentClose
<1> QED BY <1>1, <1>2, <1>3, <1>4, <1>5, <1>6 DEF WorkThread

LEMMA SilentNetwork ==
    ASSUME IInv, DutyInv, Network
    PROVE  DutyInv'
<1> USE DEF DutyInv
<1>0. /\ iocp \in Seq(Completions) /\ Len(iocp) \in Nat /\ recvs \in [Sockets -> Nat]
  BY DEF IInv, TypeOK
<1>1. UNCHANGED <<shared, Send_Data_Queue, pc, entry>>
  BY DEF Network, KernelUnchanged
<1>2. (Connected <=> Connected') /\ (WorkerDuty <=> WorkerDuty')
  BY <1>1 DEF Connected, WorkerDuty, shared
<1>3. ASSUME NEW s0 \in Sockets, ServerCloses(s0) PROVE DutyInv'
  <2>1. /\ link[s0] = "open" /\ UNCHANGED <<iocp, recvs, sends>>
        /\ \E l \in {"closed", "reset"} : link' = [link EXCEPT ![s0] = l]
    BY <1>3 DEF ServerCloses
  <2>2. OneDuty' /\ DutyConnected'
    BY <1>2, <2>1, DutyStays
  <2>3. NothingSent'
    BY <1>1, <2>1 DEF NothingSent
  <2>4. ForgetsClosed'
    <3>1. link[m_Socket] = "gone" => link'[m_Socket] = "gone" \/ m_Socket = 0
      BY <2>1 DEF IInv, TypeOK
    <3> QED BY <1>1, <3>1 DEF ForgetsClosed, shared
  <2>5. ClosesAll'
    <3>1. \A s \in Sockets : Open(s)' => Open(s)
      BY <2>1 DEF Open, IInv, TypeOK
    <3> QED BY <1>1, <3>1 DEF ClosesAll, shared
  <2> QED BY <2>2, <2>3, <2>4, <2>5
<1>4. ASSUME NEW s0 \in Sockets, RecvCompletes(s0) PROVE DutyInv'
  <2>1. PICK n0 : /\ recvs[s0] > 0 /\ recvs' = [recvs EXCEPT ![s0] = @ - 1]
                  /\ iocp' = Append(iocp, [io |-> "Recv", sock |-> s0, n |-> n0])
                  /\ UNCHANGED <<link, sends>>
    BY <1>4 DEF RecvCompletes
  <2>2. /\ Connected /\ recvs[s0] = 1 /\ \A r \in Sockets : r # s0 => recvs[r] = 0
        /\ \A i \in 1..Len(iocp) : iocp[i].io # "Recv"
        /\ ~WorkerDuty
    BY <2>1, WhenRecv
  <2>3. \A r \in Sockets : recvs'[r] = 0
    <3>1. recvs' = [recvs EXCEPT ![s0] = 0]
      BY <2>1, <2>2
    <3> QED BY <1>0, <2>2, <3>1
  <2>4. /\ Len(iocp') = Len(iocp) + 1
        /\ \A i \in 1..Len(iocp) : iocp'[i] = iocp[i]
        /\ iocp'[Len(iocp) + 1].io = "Recv"
    BY <1>0, <2>1
  <2>5. \A i \in 1..Len(iocp') : i \in 1..Len(iocp) \/ i = Len(iocp) + 1
    BY <1>0, <2>4
  <2>6. \A k \in Places, s \in Sockets \cup {0}, i \in Nat :
           Duty(k, s, i)' => k = "port" /\ s = 0 /\ i = Len(iocp) + 1
    <3>1. ASSUME NEW i \in 1..Len(iocp'), iocp'[i].io = "Recv" PROVE i = Len(iocp) + 1
      BY <2>2, <2>4, <2>5, <3>1
    <3> QED BY <1>2, <2>2, <2>3, <3>1 DEF Duty
  <2>7. OneDuty' /\ DutyConnected'
    <3> PICK i0 : i0 = Len(iocp) + 1
        OBVIOUS
    <3>1. \A k \in Places, s \in Sockets \cup {0}, i \in Nat :
             Duty(k, s, i)' => k = "port" /\ s = 0 /\ i = i0
      BY <2>6
    <3>2. Connected'
      BY <1>2, <2>2
    <3> QED BY <3>1, <3>2 DEF OneDuty, DutyConnected
  <2>8. NothingSent'
    <3>1. \A i \in 1..Len(iocp') : iocp'[i].io # "Send"
      BY <2>4, <2>5 DEF NothingSent
    <3> QED BY <1>1, <2>1, <3>1 DEF NothingSent
  <2>9. ForgetsClosed' /\ ClosesAll'
    BY <1>1, <2>1 DEF ForgetsClosed, ClosesAll, Open, shared
  <2> QED BY <2>7, <2>8, <2>9
<1>5. ASSUME NEW s0 \in Sockets, SendCompletes(s0) PROVE DutyInv'
  BY <1>5 DEF SendCompletes, NothingSent
<1> QED BY <1>3, <1>4, <1>5 DEF Network

\* Once the application has sent something the invariant says nothing any more.
LEMMA UsedStays ==
    ASSUME IInv, [Next]_vars, ~Send_Data_Queue'.used PROVE ~Send_Data_Queue.used
<1> PICK q \in [size : 0..MaxSends, used : BOOLEAN] : q = Send_Data_Queue
    BY DEF IInv, TypeOK
<1>1. CASE UNCHANGED Send_Data_Queue
  BY <1>1
<1>2. CASE Send
  BY <1>2 DEF Send
<1>3. CASE EndJoined \/ SendPop
  BY <1>3 DEF EndJoined, SendPop
<1>4. \/ UNCHANGED Send_Data_Queue \/ Send \/ EndJoined \/ SendPop
  <2>1. CASE UNCHANGED vars \/ Stopped
    BY <2>1 DEF vars, Stopped
  <2>2. CASE Connect \/ End
    BY <2>2 DEF Connect, End
  <2>3. ASSUME NEW t, Safe_CloseSocket(t) PROVE UNCHANGED Send_Data_Queue
    BY <2>3 DEF Safe_CloseSocket, CloseSocket, CloseInvalid, CloseFlag
  <2>4. CASE ConnectSendThread \/ ConnectOutcome
    BY <2>3, <2>4 DEF ConnectSendThread, ConnectOutcome, Loop, KeepSocket, SocketFails,
                      ConnectExit, Check, MakeSocket, Register, Receive, Success, SendChunk,
                      Connects, ConnectFails
  <2>5. CASE WorkThread
    BY <2>3, <2>5 DEF WorkThread, GetQueuedCompletionStatusEx, ExitThread, ZeroBytes,
                      IOFunction_Send, IOFunction_Recv
  <2>6. CASE Network
    BY <2>6 DEF Network, KernelUnchanged
  <2> QED BY <2>1, <2>2, <2>4, <2>5, <2>6 DEF Next
<1> QED BY <1>1, <1>2, <1>3, <1>4

LEMMA SilentNext == IInv /\ SilentInv /\ [Next]_vars => SilentInv'
<1> SUFFICES ASSUME IInv, SilentInv, [Next]_vars, ~Send_Data_Queue'.used PROVE DutyInv'
    BY DEF SilentInv
<1>1. DutyInv
  BY UsedStays DEF SilentInv
<1>2. CASE UNCHANGED vars
  <2>1. OneDuty' /\ DutyConnected'
    BY <1>1, <1>2, DutyStays DEF DutyInv, Connected, WorkerDuty, vars, shared, kernel
  <2>2. NothingSent' /\ ForgetsClosed' /\ ClosesAll'
    BY <1>1, <1>2 DEF DutyInv, NothingSent, ForgetsClosed, ClosesAll, Open, vars, shared, kernel
  <2> QED BY <2>1, <2>2 DEF DutyInv
<1> QED BY <1>1, <1>2, SilentApplication, SilentConnector, SilentWorker, SilentNetwork
        DEF Next, Stopped

\* The inductive invariant of the two theorems that follow.
THEOREM ClientSilent == Spec => [](IInv /\ SilentInv)
<1> QED BY InitIInv, NextIInv, SilentInit, SilentNext, PTL DEF Spec

\* Until the application sends, the two threads never forget a socket that is open, over any
\* number of reconnections (Safe_CloseSocket, DHClient.cpp:434-452).
THEOREM ClientNoSocketLeak == Spec => []NoSocketLeak
<1>1. SilentInv => NoSocketLeak
  BY DEF SilentInv, DutyInv, NoSocketLeak
<1> QED BY <1>1, ClientSilent, PTL

\* Until the application sends, a connection has one receive at a time, whatever SOCKET
\* values Windows uses again.
THEOREM ClientOneReceive == Spec => []OneReceive
<1>1. IInv /\ SilentInv => OneReceive
  <2> SUFFICES ASSUME IInv, DutyInv, NEW s \in Sockets PROVE Receives(s) <= 1
      BY DEF OneReceive, SilentInv
  <2> DEFINE done == {i \in 1..Len(iocp) : iocp[i].io = "Recv" /\ iocp[i].sock = s}
             hand == IF pc[Worker] = "handle" /\ entry.io = "Recv" /\ entry.sock = s THEN 1 ELSE 0
  <2>0. Receives(s) = recvs[s] + Cardinality(done) + hand
    BY DEF Receives
  <2>1. recvs[s] \in Nat /\ hand \in {0, 1} /\ Cardinality({}) = 0
    BY FS_EmptySet DEF IInv, TypeOK
  <2>2. hand = 1 => WorkerDuty
    BY DEF WorkerDuty
  <2>3. CASE recvs[s] > 0
    <3>1. recvs[s] = 1 /\ done = {} /\ hand = 0
      BY <2>1, <2>2, <2>3, WhenRecv DEF DutyInv
    <3>2. Cardinality(done) = 0
      BY <2>1, <3>1
    <3> QED BY <2>0, <3>1, <3>2
  <2>4. CASE recvs[s] = 0 /\ done = {}
    <3>1. Cardinality(done) = 0
      BY <2>1, <2>4
    <3> QED BY <2>0, <2>1, <2>4, <3>1
  <2>5. CASE recvs[s] = 0 /\ done # {}
    <3>1. PICK i \in 1..Len(iocp) : iocp[i].io = "Recv" /\ i \in done
      BY <2>5
    <3>2. done = {i} /\ hand = 0
      BY <2>1, <2>2, <3>1, WhenPort DEF DutyInv
    <3>3. Cardinality(done) = 1
      BY <3>2, FS_Singleton
    <3> QED BY <2>0, <2>5, <3>2, <3>3
  <2> QED BY <2>1, <2>3, <2>4, <2>5
<1> QED BY <1>1, ClientSilent, PTL
=============================================================================
