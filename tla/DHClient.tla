------------------------------ MODULE DHClient ------------------------------
(***************************************************************************)
(* The connection of DHClient (DHNetWork/DHClient.cpp): ConnectSendThread  *)
(* makes a socket, connects it and then sends what the application queues; *)
(* when the connection is lost it starts again.  WorkThread handles the    *)
(* completions.  Both close the socket through Safe_CloseSocket and share  *)
(* m_Socket and Is_Server_Connect_Success without any other lock.          *)
(*                                                                         *)
(* A socket is the number of the WSASocket call that made it.  Its SOCKET  *)
(* value, handle[s], is one that no open socket has: Windows uses the      *)
(* values of closed sockets again.  There is one WorkThread                *)
(* (CLIENT_THREAD_COUNT), so taking the completions in batches or one by   *)
(* one is the same.  A packet is one WSASend; PacketStream has the chunks. *)
(***************************************************************************)
EXTENDS Naturals, Sequences, FiniteSets

CONSTANTS
    App, Connector, Worker, \* the three threads
    Nobody,
    Handles,                \* SOCKET values
    MaxSockets,             \* bound: sockets made; WSASocket fails after that
    MaxSends                \* bound: the application queues a packet only while
                            \* fewer are queued, and fewer sent on each socket
                            \* and not handled

ASSUME ClientAssumption ==
    /\ Cardinality({App, Connector, Worker, Nobody}) = 4
    /\ IsFiniteSet(Handles)
    /\ MaxSockets \in Nat /\ MaxSends \in Nat

VARIABLES
    m_Socket,           \* g_Server_Socket->m_Socket; 0 is INVALID_SOCKET
    Is_Server_Connect_Success,
    Send_Data_Queue,    \* the number of packets in it; history: if it was ever used
    g_Is_Exit,
    g_CCS,              \* the thread in the critical section
    pc,                 \* thread -> step
    ret,                \* where the Connector goes on after Safe_CloseSocket
    entry,              \* the completion the Worker is handling
    crashed,
    (* Winsock and the server *)
    iocp,
    link,       \* socket -> "unused", "free", "open", "closed" or "reset" (by
                \* the server), "shut" (down by this side), "gone" (closed)
    handle,     \* socket -> its SOCKET value
    recvs, sends        \* socket -> WSARecv / WSASend calls outstanding

shared  == <<m_Socket, Is_Server_Connect_Success, g_CCS>>
kernel  == <<iocp, link, handle, recvs, sends>>
vars == <<shared, Send_Data_Queue, g_Is_Exit, pc, ret, entry, crashed, kernel>>

Sockets == 1..MaxSockets

Completions ==
    [io : {"Recv", "Send"}, sock : Sockets, n : {"zero", "good", "bad"}]
    \cup {[io |-> "Exit"]}

Init ==
    /\ m_Socket = 0 /\ Is_Server_Connect_Success = FALSE
    /\ Send_Data_Queue = [size |-> 0, used |-> FALSE] /\ g_Is_Exit = FALSE /\ g_CCS = Nobody
    /\ pc = [t \in {App, Connector, Worker} |->
               IF t = App THEN "idle" ELSE IF t = Worker THEN "wait" ELSE "none"]
    /\ ret = "loop" /\ entry = [io |-> "Exit"] /\ crashed = FALSE
    /\ iocp = <<>>
    /\ link = [s \in Sockets |-> "unused"]
    /\ handle = [s \in Sockets |-> Nobody]
    /\ recvs = [s \in Sockets |-> 0] /\ sends = [s \in Sockets |-> 0]

Open(s) == link[s] \notin {"unused", "gone"}

\* The open socket a SOCKET value stands for now: none, or one that may be
\* younger than the socket it was read from.
Named(h) == {s \in Sockets : Open(s) /\ handle[s] = h}

Goto(t, label) == pc' = [pc EXCEPT ![t] = label]

\* The Connector calls Safe_CloseSocket and goes on at label.
CloseThen(label) == Goto(Connector, "close") /\ ret' = label

-----------------------------------------------------------------------------
(* The application.                                                        *)

\* The first Connect() starts ConnectSendThread; the others only read the flag.
Connect ==
    /\ pc[App] = "idle"
    /\ pc[Connector] = "none"
    /\ Goto(Connector, "loop")
    /\ UNCHANGED <<shared, Send_Data_Queue, g_Is_Exit, ret, entry, crashed, kernel>>

\* WSASend calls on s whose completion has not been taken by the Worker.
Unhandled(s) ==
    sends[s] + Cardinality({i \in 1..Len(iocp) : iocp[i].io = "Send" /\ iocp[i].sock = s})

Send ==
    /\ pc[App] = "idle"
    /\ m_Socket # 0
    /\ Send_Data_Queue.size < MaxSends
    /\ pc[Connector] # "chunk" /\ \A s \in Sockets : Unhandled(s) < MaxSends
    /\ Send_Data_Queue' = [size |-> Send_Data_Queue.size + 1, used |-> TRUE]
    /\ UNCHANGED <<shared, g_Is_Exit, pc, ret, entry, crashed, kernel>>

\* End(): the null completion, the exit flag, and the join of the Connector,
\* through a null pointer if Connect() was never called ...
End ==
    /\ pc[App] = "idle"
    /\ iocp' = Append(iocp, [io |-> "Exit"])
    /\ g_Is_Exit' = TRUE
    /\ crashed' = (pc[Connector] = "none")
    /\ Goto(App, "join")
    /\ UNCHANGED <<shared, Send_Data_Queue, ret, entry, link, handle, recvs, sends>>

\* ... and when both threads are gone, the queue and the socket.
EndJoined ==
    /\ pc[App] = "join"
    /\ pc[Connector] = "exited" /\ pc[Worker] = "exited"
    /\ Send_Data_Queue' = [Send_Data_Queue EXCEPT !.size = 0]
    /\ link' = [s \in Sockets |-> IF s = m_Socket THEN "gone" ELSE link[s]]
    /\ m_Socket' = 0
    /\ Is_Server_Connect_Success' = FALSE
    /\ Goto(App, "ended")
    /\ UNCHANGED <<g_CCS, g_Is_Exit, ret, entry, crashed, iocp, handle, recvs, sends>>

-----------------------------------------------------------------------------
(* Safe_CloseSocket, by the Connector or the Worker.                       *)

\* Mutant of CloseSocket: shutdown without closesocket.
CloseSocketShutsOnly(t) ==
    /\ pc[t] = "close"
    /\ g_CCS = Nobody
    /\ g_CCS' = t
    /\ link' = [s \in Sockets |-> IF s = m_Socket THEN "shut" ELSE link[s]]
    /\ Goto(t, "closing")
    /\ UNCHANGED <<m_Socket, Is_Server_Connect_Success, Send_Data_Queue, g_Is_Exit,
                   ret, entry, crashed, iocp, handle, recvs, sends>>

\* In the critical section: shutdown and closesocket of whatever m_Socket is.
CloseSocket(t) ==
    /\ pc[t] = "close"
    /\ g_CCS = Nobody
    /\ g_CCS' = t
    /\ link' = [s \in Sockets |-> IF s = m_Socket THEN "gone" ELSE link[s]]
    /\ Goto(t, "closing")
    /\ UNCHANGED <<m_Socket, Is_Server_Connect_Success, Send_Data_Queue, g_Is_Exit,
                   ret, entry, crashed, iocp, handle, recvs, sends>>

\* m_Socket = INVALID_SOCKET, and the critical section is left.
CloseInvalid(t) ==
    /\ pc[t] = "closing"
    /\ m_Socket' = 0
    /\ g_CCS' = Nobody
    /\ Goto(t, "closed")
    /\ UNCHANGED <<Is_Server_Connect_Success, Send_Data_Queue, g_Is_Exit, ret, entry,
                   crashed, kernel>>

\* The flag is cleared outside the critical section.
CloseFlag(t) ==
    /\ pc[t] = "closed"
    /\ Is_Server_Connect_Success' = FALSE
    /\ Goto(t, IF t = Worker THEN "wait" ELSE ret)
    /\ UNCHANGED <<m_Socket, g_CCS, Send_Data_Queue, g_Is_Exit, ret, entry, crashed,
                   kernel>>

Safe_CloseSocket(t) == CloseSocket(t) \/ CloseInvalid(t) \/ CloseFlag(t)

-----------------------------------------------------------------------------
(* ConnectSendThread.                                                      *)

Loop ==
    /\ pc[Connector] = "loop"
    /\ Goto(Connector, IF g_Is_Exit THEN "exited"
                       ELSE IF Is_Server_Connect_Success THEN "send" ELSE "socket")
    /\ UNCHANGED <<shared, Send_Data_Queue, g_Is_Exit, ret, entry, crashed, kernel>>

KeepSocket ==
    /\ pc[Connector] = "socket"
    /\ m_Socket # 0
    /\ Goto(Connector, "connect")
    /\ UNCHANGED <<shared, Send_Data_Queue, g_Is_Exit, ret, entry, crashed, kernel>>

\* WSASocket: the next socket, with any SOCKET value that is not in use.
MakeSocket(s, h) ==
    /\ pc[Connector] = "socket"
    /\ m_Socket = 0
    /\ link[s] = "unused" /\ \A r \in 1..(s - 1) : link[r] # "unused"
    /\ Named(h) = {}
    /\ m_Socket' = s
    /\ link' = [link EXCEPT ![s] = "free"]
    /\ handle' = [handle EXCEPT ![s] = h]
    /\ Goto(Connector, "connect")
    /\ UNCHANGED <<Is_Server_Connect_Success, g_CCS, Send_Data_Queue, g_Is_Exit, ret,
                   entry, crashed, iocp, recvs, sends>>

\* WSASocket fails: the thread ends for good.
SocketFails ==
    /\ pc[Connector] = "socket"
    /\ m_Socket = 0
    /\ (\A s \in Sockets : link[s] # "unused") \/ (\A h \in Handles : Named(h) # {})
    /\ Goto(Connector, "exited")
    /\ UNCHANGED <<shared, Send_Data_Queue, g_Is_Exit, ret, entry, crashed, kernel>>

\* connect succeeds on a new socket.  (A refused one is tried again at once.)
Connects ==
    /\ pc[Connector] = "connect"
    /\ m_Socket # 0 /\ link[m_Socket] = "free"
    /\ link' = [link EXCEPT ![m_Socket] = "open"]
    /\ Goto(Connector, "check")
    /\ UNCHANGED <<shared, Send_Data_Queue, g_Is_Exit, ret, entry, crashed, iocp,
                   handle, recvs, sends>>

\* It fails: unreachable, or the socket is connected already, or not there.
ConnectFails ==
    /\ pc[Connector] = "connect"
    /\ CloseThen("check")
    /\ UNCHANGED <<shared, Send_Data_Queue, g_Is_Exit, entry, crashed, kernel>>

\* Mutant of ConnectExit: the connect loop does not look at the exit flag.
ConnectRetries ==
    /\ pc[Connector] = "connect"
    /\ g_Is_Exit
    /\ Goto(Connector, "connect")
    /\ UNCHANGED <<shared, Send_Data_Queue, g_Is_Exit, ret, entry, crashed, kernel>>

ConnectExit ==
    /\ pc[Connector] = "connect"
    /\ g_Is_Exit
    /\ Goto(Connector, "check")
    /\ UNCHANGED <<shared, Send_Data_Queue, g_Is_Exit, ret, entry, crashed, kernel>>

Check ==
    /\ pc[Connector] = "check"
    /\ Goto(Connector, IF g_Is_Exit \/ m_Socket = 0 THEN "loop" ELSE "register")
    /\ UNCHANGED <<shared, Send_Data_Queue, g_Is_Exit, ret, entry, crashed, kernel>>

\* CreateIoCompletionPort.
Register ==
    /\ pc[Connector] = "register"
    /\ IF m_Socket # 0 /\ Open(m_Socket)
       THEN Goto(Connector, "receive") /\ UNCHANGED ret
       ELSE CloseThen("loop")
    /\ UNCHANGED <<shared, Send_Data_Queue, g_Is_Exit, entry, crashed, kernel>>

CanTransfer(s) == s \in Sockets /\ link[s] \in {"open", "closed"}
MayFail(s) == ~(s \in Sockets /\ link[s] = "open")

\* The first Reserve_WSAReceive.
Receive ==
    /\ pc[Connector] = "receive"
    /\ \/ /\ CanTransfer(m_Socket)
          /\ recvs' = [recvs EXCEPT ![m_Socket] = @ + 1]
          /\ Goto(Connector, "success")
          /\ UNCHANGED ret
       \/ MayFail(m_Socket) /\ CloseThen("loop") /\ UNCHANGED recvs
    /\ UNCHANGED <<shared, Send_Data_Queue, g_Is_Exit, entry, crashed, iocp, link,
                   handle, sends>>

Success ==
    /\ pc[Connector] = "success"
    /\ Is_Server_Connect_Success' = TRUE
    /\ Goto(Connector, "loop")
    /\ UNCHANGED <<m_Socket, g_CCS, Send_Data_Queue, g_Is_Exit, ret, entry, crashed,
                   kernel>>

\* SendFunction: the next packet, if there is one and a socket to send it to.
SendPop ==
    /\ pc[Connector] = "send"
    /\ IF Send_Data_Queue.size = 0 \/ m_Socket = 0
       THEN Goto(Connector, "loop") /\ UNCHANGED Send_Data_Queue
       ELSE Goto(Connector, "chunk") /\ Send_Data_Queue' = [Send_Data_Queue EXCEPT !.size = @ - 1]
    /\ UNCHANGED <<shared, g_Is_Exit, ret, entry, crashed, kernel>>

\* WSASend; a failure closes the socket.
SendChunk ==
    /\ pc[Connector] = "chunk"
    /\ \/ /\ CanTransfer(m_Socket)
          /\ sends' = [sends EXCEPT ![m_Socket] = @ + 1]
          /\ Goto(Connector, "send")
          /\ UNCHANGED ret
       \/ MayFail(m_Socket) /\ CloseThen("send") /\ UNCHANGED sends
    /\ UNCHANGED <<shared, Send_Data_Queue, g_Is_Exit, entry, crashed, iocp, link,
                   handle, recvs>>

\* What the thread does by itself; the outcome of connect is up to the server.
ConnectSendThread ==
    \/ Loop \/ KeepSocket \/ SocketFails \/ ConnectExit \/ Check
    \/ (\E s \in Sockets, h \in Handles : MakeSocket(s, h))
    \/ Register \/ Receive \/ Success \/ SendPop \/ SendChunk
    \/ Safe_CloseSocket(Connector)

ConnectOutcome == Connects \/ ConnectFails

-----------------------------------------------------------------------------
(* WorkThread.                                                             *)

GetQueuedCompletionStatusEx ==
    /\ pc[Worker] = "wait"
    /\ iocp # <<>>
    /\ entry' = Head(iocp)
    /\ iocp' = Tail(iocp)
    /\ Goto(Worker, "handle")
    /\ UNCHANGED <<shared, Send_Data_Queue, g_Is_Exit, ret, crashed, link, handle,
                   recvs, sends>>

ExitThread ==
    /\ pc[Worker] = "handle"
    /\ entry.io = "Exit"
    /\ iocp' = Append(iocp, entry)
    /\ Goto(Worker, "exited")
    /\ UNCHANGED <<shared, Send_Data_Queue, g_Is_Exit, ret, entry, crashed, link,
                   handle, recvs, sends>>

\* Zero bytes: if a shutdown of the completion's SOCKET succeeds the Worker
\* calls Safe_CloseSocket, otherwise it takes it for closed.  On a connection
\* that was reset, shutdown may fail.
ZeroBytes ==
    LET named == Named(handle[entry.sock])
    IN  /\ pc[Worker] = "handle"
        /\ entry.io # "Exit" /\ entry.n = "zero"
        /\ \/ \E s \in named :
                 /\ link[s] \in {"open", "closed", "reset"}
                 /\ link' = [link EXCEPT ![s] = "shut"]
                 /\ Goto(Worker, "close")
           \/ /\ \A s \in named : link[s] \notin {"open", "closed"}
              /\ Goto(Worker, "wait")
              /\ UNCHANGED link
        /\ UNCHANGED <<shared, Send_Data_Queue, g_Is_Exit, ret, entry, crashed, iocp,
                       handle, recvs, sends>>

IOFunction_Send ==
    /\ pc[Worker] = "handle"
    /\ entry.io = "Send" /\ entry.n # "zero"
    /\ Goto(Worker, "wait")
    /\ UNCHANGED <<shared, Send_Data_Queue, g_Is_Exit, ret, entry, crashed, kernel>>

\* Mutant of IOFunction_Recv: a receive for each packet of a chunk that ends two of them.
IOFunction_RecvPerPacket ==
    LET named == Named(handle[entry.sock])
    IN  /\ pc[Worker] = "handle"
        /\ entry.io = "Recv" /\ entry.n # "zero"
        /\ \/ /\ entry.n = "bad"
              /\ Goto(Worker, "close")
              /\ UNCHANGED recvs
           \/ /\ entry.n = "good"
              /\ \E s \in named : /\ CanTransfer(s)
                                  /\ recvs' = [recvs EXCEPT ![s] = @ + 2]
              /\ Goto(Worker, "wait")
           \/ /\ entry.n = "good"
              /\ \A s \in named : MayFail(s)
              /\ Goto(Worker, "close")
              /\ UNCHANGED recvs
        /\ UNCHANGED <<shared, Send_Data_Queue, g_Is_Exit, ret, entry, crashed, iocp,
                       link, handle, sends>>

\* The chunk is refused, or its packets are queued and the same Overlapped is
\* used for the next WSARecv on the SOCKET it holds.
IOFunction_Recv ==
    LET named == Named(handle[entry.sock])
    IN  /\ pc[Worker] = "handle"
        /\ entry.io = "Recv" /\ entry.n # "zero"
        /\ \/ /\ entry.n = "bad"
              /\ Goto(Worker, "close")
              /\ UNCHANGED recvs
           \/ /\ entry.n = "good"
              /\ \E s \in named : /\ CanTransfer(s)
                                  /\ recvs' = [recvs EXCEPT ![s] = @ + 1]
              /\ Goto(Worker, "wait")
           \/ /\ entry.n = "good"
              /\ \A s \in named : MayFail(s)
              /\ Goto(Worker, "close")
              /\ UNCHANGED recvs
        /\ UNCHANGED <<shared, Send_Data_Queue, g_Is_Exit, ret, entry, crashed, iocp,
                       link, handle, sends>>

WorkThread ==
    \/ GetQueuedCompletionStatusEx \/ ExitThread \/ ZeroBytes
    \/ IOFunction_Send \/ IOFunction_Recv
    \/ Safe_CloseSocket(Worker)

-----------------------------------------------------------------------------
(* Winsock and the server (external).                                      *)

ServerCloses(s) ==
    /\ link[s] = "open"
    /\ \E l \in {"closed", "reset"} : link' = [link EXCEPT ![s] = l]
    /\ UNCHANGED <<iocp, handle, recvs, sends>>

RecvCompletes(s) ==
    /\ recvs[s] > 0
    /\ recvs' = [recvs EXCEPT ![s] = @ - 1]
    /\ \E n \in IF link[s] = "open" THEN {"good", "bad"} ELSE {"zero"} :
          iocp' = Append(iocp, [io |-> "Recv", sock |-> s, n |-> n])
    /\ UNCHANGED <<link, handle, sends>>

SendCompletes(s) ==
    /\ sends[s] > 0
    /\ sends' = [sends EXCEPT ![s] = @ - 1]
    /\ \E n \in IF link[s] = "open" THEN {"good"} ELSE {"good", "zero"} :
          iocp' = Append(iocp, [io |-> "Send", sock |-> s, n |-> n])
    /\ UNCHANGED <<link, handle, recvs>>

KernelUnchanged ==
    UNCHANGED <<shared, Send_Data_Queue, g_Is_Exit, pc, ret, entry, crashed>>

Network ==
    /\ \E s \in Sockets : ServerCloses(s) \/ RecvCompletes(s) \/ SendCompletes(s)
    /\ KernelUnchanged

Running == ~crashed /\ pc[App] # "ended"

Stopped == ~Running /\ UNCHANGED vars

Next ==
    \/ Running /\ (Connect \/ Send \/ End \/ EndJoined)
    \/ Running /\ (ConnectSendThread \/ ConnectOutcome)
    \/ Running /\ WorkThread
    \/ Running /\ Network
    \/ Stopped

Spec == Init /\ [][Next]_vars

KernelDelivers(s) ==
    /\ (link[s] # "open" /\ RecvCompletes(s)) \/ SendCompletes(s)
    /\ KernelUnchanged

\* The scheduler runs both threads, a critical section that is free again and
\* again is entered, Winsock completes what has ended.  The server and the
\* application may do nothing; connect may be refused for ever.
FairSpec ==
    /\ Spec
    /\ WF_vars(Running /\ ConnectSendThread)
    /\ WF_vars(Running /\ WorkThread)
    /\ \A t \in {Connector, Worker} : SF_vars(Running /\ CloseSocket(t))
    /\ WF_vars(Running /\ EndJoined)
    /\ \A s \in Sockets : WF_vars(Running /\ KernelDelivers(s))

-----------------------------------------------------------------------------
(* Properties.                                                             *)

\* Types of the variables.
TypeOK ==
    /\ m_Socket \in Sockets \cup {0}
    /\ Is_Server_Connect_Success \in BOOLEAN /\ g_Is_Exit \in BOOLEAN
    /\ Send_Data_Queue \in [size : 0..MaxSends, used : BOOLEAN]
    /\ g_CCS \in {Connector, Worker, Nobody}
    /\ pc[App] \in {"idle", "join", "ended"}
    /\ pc[Connector] \in {"none", "loop", "socket", "connect", "check", "register",
                          "receive", "success", "send", "chunk", "close", "closing",
                          "closed", "exited"}
    /\ pc[Worker] \in {"wait", "handle", "close", "closing", "closed", "exited"}
    /\ ret \in {"loop", "check", "send"}
    /\ entry \in Completions /\ crashed \in BOOLEAN
    /\ iocp \in Seq(Completions)
    /\ link \in [Sockets -> {"unused", "free", "open", "closed", "reset", "shut", "gone"}]
    /\ handle \in [Sockets -> Handles \cup {Nobody}]
    /\ recvs \in [Sockets -> Nat] /\ sends \in [Sockets -> Nat]

\* Receives of s that are outstanding, completed or being handled.
Receives(s) ==
    recvs[s]
    + Cardinality({i \in 1..Len(iocp) : iocp[i].io = "Recv" /\ iocp[i].sock = s})
    + (IF pc[Worker] = "handle" /\ entry.io = "Recv" /\ entry.sock = s THEN 1 ELSE 0)

\* While the application has sent nothing, a connection has one receive at a time:
\* the packets of the server are put together in one Overlapped, in the order they
\* arrive.
OneReceive == ~Send_Data_Queue.used => \A s \in Sockets : Receives(s) <= 1

\* DHClient.cpp:434: Safe_CloseSocket is safe when two functions call it.  Every
\* socket that was made is the current one or has been closed.  (Not true of a
\* client that sends.)
ClosesAll == \A s \in Sockets : Open(s) => m_Socket = s

\* Of a client that has sent nothing every socket is the current one or closed, over
\* all reconnections: then only one thread at a time closes.
NoSocketLeak == ~Send_Data_Queue.used => ClosesAll

\* DHClient.cpp:96: the thread exists to go on trying to reconnect.  When there
\* is no socket, a new one is made, unless the client is stopped or WSASocket
\* has failed.
Reconnects ==
    (pc[Connector] # "none" /\ m_Socket = 0)
        ~> (m_Socket # 0 \/ g_Is_Exit \/ pc[Connector] = "exited")

\* End() returns: both threads see the end whatever they are doing, in the
\* middle of a reconnect or of a close too.
EndReturns == (pc[App] = "join" /\ ~crashed) ~> pc[App] = "ended"
=============================================================================
