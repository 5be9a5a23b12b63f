------------------------------ MODULE DHServer ------------------------------
(***************************************************************************)
(* The connection life cycle of DHServer (DHNetWork/DHServer.cpp): a fixed *)
(* set of sockets ("slots") is created once and recycled for ever through  *)
(*    AcceptEx -> WSARecv ... WSARecv -> DisconnectEx -> AcceptEx,         *)
(* driven by worker threads that take batches of completions from one I/O  *)
(* completion port, while the application thread may disconnect a client,  *)
(* the send thread sends to it, and End() stops everything with a null     *)
(* completion.                                                             *)
(*                                                                         *)
(* One step of a thread is one access to state another thread can touch.   *)
(* The completion port, the sockets and the remote clients are external:   *)
(* they are modelled from the calls the server makes.  The bytes of a      *)
(* received chunk are reduced to the verdict IOFunction_Recv comes to      *)
(* about them; module PacketStream has the details.  Asserts are those of  *)
(* the Release build, which has none.                                      *)
(***************************************************************************)
EXTENDS Naturals, Sequences, FiniteSets

CONSTANTS
    Slots,              \* the sockets of g_Socket_Struct_Pool
    Workers,            \* the threads made by CreateWorkThread
    App, Sender,        \* the application's thread and the SendThread
    Nobody,             \* no thread, no socket
    MAX_USER_COUNT,
    BatchSize,          \* 64: the entries one GetQueuedCompletionStatusEx takes
    MaxConnections,     \* bound: connections one slot carries in turn
    MaxSends,           \* bound: sends of a socket outstanding or in the port,
                        \* and packets in Send_Data_Queue
    AppDisconnects      \* whether the application calls Disconnect()

ASSUME ServerAssumption ==
    /\ IsFiniteSet(Slots) /\ Nobody \notin Slots
    /\ IsFiniteSet(Workers)
    /\ App \notin Workers /\ Sender \notin Workers /\ App # Sender
    /\ Nobody \notin Workers \cup {App, Sender}
    /\ MAX_USER_COUNT \in Nat
    /\ BatchSize \in Nat \ {0}
    /\ MaxConnections \in Nat /\ MaxSends \in Nat
    /\ AppDisconnects \in BOOLEAN

Threads == Workers \cup {App, Sender}

VARIABLES
    (* the server *)
    pool,           \* sockets inserted into g_Socket_Struct_Pool
    writer,         \* slot -> thread with the write accessor of its pool entry
    readers,        \* slot -> threads with a const_accessor of its pool entry
    m_Socket,       \* slots whose Socket_Struct has its m_Socket set
    Is_Available,   \* slots whose Socket_Struct says Is_Available
    g_Connected_Client,
    Send_Data_Queue,
    g_Is_Exit,
    pc,             \* thread -> step
    batch,          \* worker -> Entry_Data still to be processed
    target,         \* App, Sender -> socket being worked on
    crashed,        \* the process died on an invalid access
    (* Winsock and the clients *)
    iocp,           \* the completion queue
    link,           \* slot -> "free", "open", "closed" (by peer), "shut"
    accepting,      \* slots with an AcceptEx outstanding
    recvs, sends,   \* slot -> WSARecv / WSASend calls outstanding
    disconnecting,  \* slots with a DisconnectEx outstanding
    winsock,        \* Winsock has not been taken down by WSACleanup
    serial,         \* slot -> number of the connection it carries
    refused         \* slots for which AcceptEx or DisconnectEx did not leave an
                    \* operation whose completion would carry the slot on

accessors == <<writer, readers>>
structs   == <<m_Socket, Is_Available>>
control   == <<pool, Send_Data_Queue, g_Is_Exit, target, crashed>>
kernel    == <<iocp, link, accepting, recvs, sends, disconnecting, winsock,
               serial, refused>>
vars == <<accessors, structs, control, g_Connected_Client, pc, batch, kernel>>

\* A crash ends the process; after WSACleanup every Winsock call fails and no
\* completion arrives any more, so the model stops there as well.
Running == ~crashed /\ winsock

-----------------------------------------------------------------------------
(* Completions.  n is what the worker can tell about the transferred bytes: *)
(* "zero", or a chunk that IOFunction_Recv accepts ("good") or refuses      *)
(* ("bad": over-long backlog, or a packet without a type).                  *)

IOCompletions ==
    [io : {"Accept", "Disconnect", "Recv", "Send"}, sock : Slots,
     n : {"zero", "good", "bad"}, serial : Nat]

ExitCompletion == [io |-> "Exit"]   \* a null Overlapped

Completions == IOCompletions \cup {ExitCompletion}

Completion(io, s, n) == [io |-> io, sock |-> s, n |-> n, serial |-> serial[s]]

\* The socket a thread works on: the one of the completion a worker has
\* taken, or the argument of the application's or the send thread's call.
Sock(t) == IF t \in Workers THEN Head(batch[t]).sock ELSE target[t]

Goto(t, label) == pc' = [pc EXCEPT ![t] = label] /\ UNCHANGED batch

\* A worker goes to its next entry, or back to the port; the application
\* returns from its call.
Leave(t) ==
    IF t \in Workers
    THEN /\ batch' = [batch EXCEPT ![t] = Tail(@)]
         /\ pc' = [pc EXCEPT ![t] = IF Len(batch[t]) = 1 THEN "wait" ELSE "next"]
    ELSE Goto(t, "idle")

\* The accessor of tbb::concurrent_hash_map is a reader/writer lock.
CanWrite(s) == writer[s] = Nobody /\ readers[s] = {}
CanRead(s)  == writer[s] = Nobody

\* The send thread keeps the accessor of the client it is sending to.
Sending == pc[Sender] \in {"sending", "sent", "sendFailed"}

ClientUnlocked(s) == ~(Sending /\ target[Sender] = s)

Init ==
    /\ pool = {} /\ m_Socket = {} /\ Is_Available = {}
    /\ writer = [s \in Slots |-> Nobody]
    /\ readers = [s \in Slots |-> {}]
    /\ g_Connected_Client = {} /\ Send_Data_Queue = <<>>
    /\ g_Is_Exit = FALSE /\ crashed = FALSE
    /\ pc = [t \in Threads |-> IF t = App THEN "start"
                               ELSE IF t = Sender THEN "off" ELSE "wait"]
    /\ batch = [w \in Workers |-> <<>>]
    /\ target = [t \in {App, Sender} |-> Nobody]
    /\ iocp = <<>> /\ link = [s \in Slots |-> "free"]
    /\ accepting = {} /\ disconnecting = {}
    /\ recvs = [s \in Slots |-> 0] /\ sends = [s \in Slots |-> 0]
    /\ winsock = TRUE /\ serial = [s \in Slots |-> 0] /\ refused = {}

-----------------------------------------------------------------------------
(* Accept(): the workers are running already while the sockets are made.   *)

\* WSASocket and AcceptEx for one more socket: a client can be accepted on it
\* before its Socket_Struct is in the pool.
CreateSocket(s) ==
    /\ pc[App] = "start"
    /\ s \notin pool
    /\ accepting' = accepting \cup {s}
    /\ target' = [target EXCEPT ![App] = s]
    /\ Goto(App, "insert")
    /\ UNCHANGED <<accessors, structs, pool, Send_Data_Queue, g_Is_Exit, crashed,
                   g_Connected_Client, iocp, link, recvs, sends, disconnecting,
                   winsock, serial, refused>>

\* WSASocket or AcceptEx fails: Accept() returns with the sockets and the workers
\* it has so far, and without a send thread.
AcceptFails ==
    /\ pc[App] = "start"
    /\ pool # Slots
    /\ Goto(App, "idle")
    /\ UNCHANGED <<accessors, structs, control, g_Connected_Client, kernel>>

InsertSocket ==
    /\ pc[App] = "insert"
    /\ pool' = pool \cup {target[App]}
    /\ m_Socket' = m_Socket \cup {target[App]}
    /\ Goto(App, "start")
    /\ UNCHANGED <<accessors, Is_Available, Send_Data_Queue, g_Is_Exit, target,
                   crashed, g_Connected_Client, kernel>>

StartSendThread ==
    /\ pc[App] = "start"
    /\ pool = Slots
    /\ pc' = [pc EXCEPT ![App] = "idle", ![Sender] = "test"]
    /\ UNCHANGED <<accessors, structs, control, g_Connected_Client, batch, kernel>>

-----------------------------------------------------------------------------
(* WorkThread.                                                             *)

\* Mutant of Taken: more entries than Entry_Data has room for.
TakenAll == Len(iocp)

\* How many entries a call takes.
Taken == IF Len(iocp) < BatchSize THEN Len(iocp) ELSE BatchSize

GetQueuedCompletionStatusEx(w) ==
    LET n == Taken
    IN  /\ pc[w] = "wait"
        /\ iocp # <<>>
        /\ batch' = [batch EXCEPT ![w] = SubSeq(iocp, 1, n)]
        /\ iocp' = SubSeq(iocp, n + 1, Len(iocp))
        /\ pc' = [pc EXCEPT ![w] = "next"]
        /\ UNCHANGED <<accessors, structs, control, g_Connected_Client, link,
                       accepting, recvs, sends, disconnecting, winsock, serial, refused>>

Entry(w, io) == pc[w] = "next" /\ Head(batch[w]).io \in io

\* A null Overlapped: it is posted again for the other workers and the thread
\* returns, whatever else its batch holds.  It ends in "delete[] &Entry_Data"
\* on an array of its own stack, which may or may not take the process down.
ExitThread(w) ==
    /\ Entry(w, {"Exit"})
    /\ iocp' = Append(iocp, Head(batch[w]))
    /\ batch' = [batch EXCEPT ![w] = <<>>]
    /\ pc' = [pc EXCEPT ![w] = "exited"]
    /\ crashed' \in BOOLEAN
    /\ UNCHANGED <<accessors, structs, pool, Send_Data_Queue, g_Is_Exit, target,
                   g_Connected_Client, link, accepting, recvs, sends,
                   disconnecting, winsock, serial, refused>>

\* Mutant of IOFunction_Disconnect: no AcceptEx.
DisconnectWithoutAcceptEx(w) ==
    /\ Entry(w, {"Disconnect"})
    /\ Goto(w, "reaccepted")
    /\ UNCHANGED <<accessors, structs, control, g_Connected_Client, kernel>>

\* The three outcomes of AcceptEx: a client is waited for, ...
AcceptExPending(s) ==
    /\ link[s] = "free"
    /\ accepting' = accepting \cup {s}
    /\ UNCHANGED <<link, serial, refused>>

\* ... the call fails and its Overlapped goes back to the pool, or ...
AcceptExFails(s) ==
    /\ refused' = refused \cup {s}
    /\ UNCHANGED <<accepting, link, serial>>

\* ... a client that was waiting is taken at once.  That is treated as a failure
\* as well: the Overlapped is cleared, so that its completion, which has the null
\* key of the listening socket, is thrown away.  The client is connected and
\* nobody serves it.
AcceptExAtOnce(s) ==
    /\ link[s] = "free"
    /\ serial[s] < MaxConnections
    /\ link' = [link EXCEPT ![s] = "open"]
    /\ serial' = [serial EXCEPT ![s] = @ + 1]
    /\ refused' = refused \cup {s}
    /\ UNCHANGED accepting

\* AcceptEx is put on the disconnected socket.  Unless it stays pending nothing
\* will ever complete for the slot again.
IOFunction_Disconnect(w) ==
    /\ Entry(w, {"Disconnect"})
    /\ \/ AcceptExPending(Sock(w))
       \/ AcceptExFails(Sock(w))
       \/ AcceptExAtOnce(Sock(w))
    /\ Goto(w, "reaccepted")
    /\ UNCHANGED <<accessors, structs, control, g_Connected_Client, iocp, recvs,
                   sends, disconnecting, winsock>>

DisconnectAvailable(w) ==
    /\ pc[w] = "reaccepted"
    /\ Is_Available' = Is_Available \cup {Sock(w)}
    /\ Leave(w)
    /\ UNCHANGED <<accessors, m_Socket, control, g_Connected_Client, kernel>>

\* Zero bytes: the client is gone.
ZeroBytes(w) ==
    /\ Entry(w, {"Recv", "Send"})
    /\ Head(batch[w]).n = "zero"
    /\ Goto(w, "drop")
    /\ UNCHANGED <<accessors, structs, control, g_Connected_Client, kernel>>

\* A worker that drops its client reads the socket from the Socket_Struct, which
\* another thread may be reconstructing: then it is INVALID_SOCKET, and
\* Reuse_Socket dereferences an accessor that found nothing.
DropClient(w) ==
    /\ pc[w] = "drop"
    /\ IF Sock(w) \in m_Socket
       THEN Goto(w, "delete") /\ UNCHANGED crashed
       ELSE crashed' = TRUE /\ UNCHANGED <<pc, batch>>
    /\ UNCHANGED <<accessors, structs, pool, Send_Data_Queue, g_Is_Exit, target,
                   g_Connected_Client, kernel>>

\* The slot is being recycled: the chunk is thrown away with its Overlapped.
Discard(w) ==
    /\ Entry(w, {"Recv", "Send"})
    /\ Head(batch[w]).n # "zero"
    /\ Sock(w) \notin Is_Available
    /\ Leave(w)
    /\ UNCHANGED <<accessors, structs, control, g_Connected_Client, kernel>>

IOFunction_Send(w) ==
    /\ Entry(w, {"Send"})
    /\ Head(batch[w]).n # "zero"
    /\ Sock(w) \in Is_Available
    /\ Leave(w)
    /\ UNCHANGED <<accessors, structs, control, g_Connected_Client, kernel>>

\* BackUp_Overlapped and the packet loop with Push_RecvData.
IOFunction_Recv(w) ==
    /\ Entry(w, {"Recv"})
    /\ Head(batch[w]).n # "zero"
    /\ Sock(w) \in Is_Available
    /\ Goto(w, IF Head(batch[w]).n = "bad" THEN "drop" ELSE "rearm")
    /\ UNCHANGED <<accessors, structs, control, g_Connected_Client, kernel>>

\* WSARecv needs a connection; on one the peer has reset it may fail at once
\* or complete with zero bytes.
WSARecv(s) ==
    /\ link[s] \in {"open", "closed"}
    /\ recvs' = [recvs EXCEPT ![s] = @ + 1]

\* Mutant of WSARecvFails: WSA_IO_PENDING is taken for a failure.
PendingFails(s) ==
    /\ link[s] \in {"open", "closed"}
    /\ recvs' = [recvs EXCEPT ![s] = @ + 1]

WSARecvFails(s) == link[s] # "open" /\ UNCHANGED recvs

\* Reserve_WSAReceive at the end of IOFunction_Recv.
Rearm(w) ==
    /\ pc[w] = "rearm"
    /\ \/ WSARecv(Sock(w)) /\ Leave(w)
       \/ WSARecvFails(Sock(w)) /\ Goto(w, "drop")
    /\ UNCHANGED <<accessors, structs, control, g_Connected_Client, iocp, link,
                   accepting, sends, disconnecting, winsock, serial, refused>>

-----------------------------------------------------------------------------
(* IOFunction_Accept.                                                      *)

\* Mutant of AcceptCheck: one client too many.
AcceptCheckOffByOne(w) ==
    /\ Entry(w, {"Accept"})
    /\ Goto(w, IF Cardinality(g_Connected_Client) = MAX_USER_COUNT + 1
               THEN "reuse" ELSE "acceptInfo")
    /\ UNCHANGED <<accessors, structs, control, g_Connected_Client, kernel>>

\* "if (g_Connected_Client.size() == MAX_USER_COUNT)": the client is refused.
AcceptCheck(w) ==
    /\ Entry(w, {"Accept"})
    /\ Goto(w, IF Cardinality(g_Connected_Client) = MAX_USER_COUNT
               THEN "reuse" ELSE "acceptInfo")
    /\ UNCHANGED <<accessors, structs, control, g_Connected_Client, kernel>>

\* IP and PORT are written under the write accessor, which the thread waits
\* for; during Accept() it also waits for the slot to be inserted.
AcceptInfo(w) ==
    /\ pc[w] = "acceptInfo"
    /\ Sock(w) \in pool
    /\ CanWrite(Sock(w))
    /\ Goto(w, "acceptFind")
    /\ UNCHANGED <<accessors, structs, control, g_Connected_Client, kernel>>

\* AddClientSocket: FindSocketOnClient, then the insertion.
AcceptFind(w) ==
    /\ pc[w] = "acceptFind"
    /\ ClientUnlocked(Sock(w))
    /\ IF Sock(w) \in g_Connected_Client THEN Leave(w) ELSE Goto(w, "acceptInsert")
    /\ UNCHANGED <<accessors, structs, control, g_Connected_Client, kernel>>

AcceptInsert(w) ==
    /\ pc[w] = "acceptInsert"
    /\ g_Connected_Client' = g_Connected_Client \cup {Sock(w)}
    /\ Goto(w, "acceptRecv")
    /\ UNCHANGED <<accessors, structs, control, kernel>>

\* The first Reserve_WSAReceive of a connection, on the m_Socket of the
\* Socket_Struct, which may be INVALID_SOCKET by now.
AcceptRecv(w) ==
    /\ pc[w] = "acceptRecv"
    /\ \/ Sock(w) \in m_Socket /\ WSARecv(Sock(w)) /\ Goto(w, "accepted")
       \/ /\ WSARecvFails(Sock(w)) \/ (Sock(w) \notin m_Socket /\ UNCHANGED recvs)
          /\ Goto(w, "drop")
    /\ UNCHANGED <<accessors, structs, control, g_Connected_Client, iocp, link,
                   accepting, sends, disconnecting, winsock, serial, refused>>

\* Mutant of AcceptAvailable: Is_Available is not set.
AcceptNotAvailable(w) ==
    /\ pc[w] = "accepted"
    /\ Leave(w)
    /\ UNCHANGED <<accessors, structs, control, g_Connected_Client, kernel>>

AcceptAvailable(w) ==
    /\ pc[w] = "accepted"
    /\ Is_Available' = Is_Available \cup {Sock(w)}
    /\ Leave(w)
    /\ UNCHANGED <<accessors, m_Socket, control, g_Connected_Client, kernel>>

-----------------------------------------------------------------------------
(* Delete_in_Socket_List and Reuse_Socket, by a worker or the application. *)

DeleteFind(t) ==
    /\ pc[t] = "delete"
    /\ CanRead(Sock(t))
    /\ readers' = [readers EXCEPT ![Sock(t)] = @ \cup {t}]
    /\ Goto(t, "erase")
    /\ UNCHANGED <<writer, structs, control, g_Connected_Client, kernel>>

\* Mutants of DeleteErase: the client is left in the map, ...
DeleteKeeps(t) ==
    /\ pc[t] = "erase"
    /\ Sock(t) \in g_Connected_Client
    /\ ClientUnlocked(Sock(t))
    /\ Goto(t, "unavailable")
    /\ UNCHANGED <<accessors, structs, control, g_Connected_Client, kernel>>

\* ... the accessor of the send thread is not waited for, ...
DeleteUnderSender(t) ==
    /\ pc[t] = "erase"
    /\ Sock(t) \in g_Connected_Client
    /\ g_Connected_Client' = g_Connected_Client \ {Sock(t)}
    /\ Goto(t, "unavailable")
    /\ UNCHANGED <<accessors, structs, control, kernel>>

\* ... a socket that is not in the map is taken for erased.
DeleteIfFound(t) ==
    /\ pc[t] = "erase"
    /\ ClientUnlocked(Sock(t))
    /\ g_Connected_Client' = g_Connected_Client \ {Sock(t)}
    /\ Goto(t, "unavailable")
    /\ UNCHANGED <<accessors, structs, control, kernel>>

\* "while (!g_Connected_Client.find(...)) {}": waits while the send thread has
\* the accessor, and spins while the socket is not in the map at all.
DeleteErase(t) ==
    /\ pc[t] = "erase"
    /\ Sock(t) \in g_Connected_Client
    /\ ClientUnlocked(Sock(t))
    /\ g_Connected_Client' = g_Connected_Client \ {Sock(t)}
    /\ Goto(t, "unavailable")
    /\ UNCHANGED <<accessors, structs, control, kernel>>

DeleteUnavailable(t) ==
    /\ pc[t] = "unavailable"
    /\ Is_Available' = Is_Available \ {Sock(t)}
    /\ readers' = [readers EXCEPT ![Sock(t)] = @ \ {t}]
    /\ Goto(t, "reuse")
    /\ UNCHANGED <<writer, m_Socket, control, g_Connected_Client, kernel>>

\* Placement new on the Socket_Struct: m_Socket = INVALID_SOCKET and
\* Is_Available = false.  A slot that is not in the pool yet crashes here.
ReuseConstruct(t) ==
    /\ pc[t] = "reuse"
    /\ CanWrite(Sock(t))
    /\ IF Sock(t) \in pool
       THEN /\ writer' = [writer EXCEPT ![Sock(t)] = t]
            /\ m_Socket' = m_Socket \ {Sock(t)}
            /\ Is_Available' = Is_Available \ {Sock(t)}
            /\ Goto(t, "shutdown")
            /\ UNCHANGED crashed
       ELSE /\ crashed' = TRUE
            /\ UNCHANGED <<writer, structs, pc, batch>>
    /\ UNCHANGED <<readers, pool, Send_Data_Queue, g_Is_Exit, target,
                   g_Connected_Client, kernel>>

\* m_Socket is set again and the connection shut down.
ReuseShutdown(t) ==
    /\ pc[t] = "shutdown"
    /\ m_Socket' = m_Socket \cup {Sock(t)}
    /\ link' = [link EXCEPT ![Sock(t)] = IF @ = "free" THEN @ ELSE "shut"]
    /\ Goto(t, "disconnectEx")
    /\ UNCHANGED <<accessors, Is_Available, control, g_Connected_Client, iocp,
                   accepting, recvs, sends, disconnecting, winsock, serial, refused>>

\* Mutant of ReuseDisconnect: the next AcceptEx does not wait for DisconnectEx.
ReuseAcceptsAtOnce(t) ==
    LET s == Sock(t)
    IN  /\ pc[t] = "disconnectEx"
        /\ disconnecting' = disconnecting \cup {s}
        /\ accepting' = accepting \cup {s}
        /\ writer' = [writer EXCEPT ![s] = Nobody]
        /\ Leave(t)
        /\ UNCHANGED <<readers, structs, control, g_Connected_Client, iocp, link,
                       recvs, sends, winsock, serial, refused>>

\* DisconnectEx of a connection that has been shut down goes on in the background;
\* like any call it can fail, and on another socket it does.
DisconnectEx(s) ==
    \/ /\ link[s] = "shut" /\ s \notin disconnecting
       /\ disconnecting' = disconnecting \cup {s}
       /\ UNCHANGED refused
    \/ /\ refused' = refused \cup {s}
       /\ UNCHANGED disconnecting

\* Disconnect_EX calls WSACleanup whenever the last error is not
\* ERROR_IO_PENDING: after a failure, and after a DisconnectEx that was done at
\* once and left an older error there.  It takes Winsock down unless another
\* object of the process has started it too.
ReuseDisconnect(t) ==
    /\ pc[t] = "disconnectEx"
    /\ DisconnectEx(Sock(t))
    /\ winsock' \in BOOLEAN
    /\ writer' = [writer EXCEPT ![Sock(t)] = Nobody]
    /\ Leave(t)
    /\ UNCHANGED <<readers, structs, control, g_Connected_Client, iocp, link,
                   accepting, recvs, sends, serial>>

DeleteAndReuse(t) ==
    \/ DeleteFind(t) \/ DeleteErase(t) \/ DeleteUnavailable(t)
    \/ ReuseConstruct(t) \/ ReuseShutdown(t) \/ ReuseDisconnect(t)

WorkThread(w) ==
    \/ GetQueuedCompletionStatusEx(w) \/ ExitThread(w)
    \/ IOFunction_Disconnect(w) \/ DisconnectAvailable(w)
    \/ ZeroBytes(w) \/ DropClient(w) \/ Discard(w) \/ IOFunction_Send(w)
    \/ IOFunction_Recv(w) \/ Rearm(w)
    \/ AcceptCheck(w) \/ AcceptInfo(w) \/ AcceptFind(w) \/ AcceptInsert(w)
    \/ AcceptRecv(w) \/ AcceptAvailable(w)
    \/ DeleteAndReuse(w)

-----------------------------------------------------------------------------
(* The application's thread.                                               *)

\* Disconnect(): the application names a client that is connected when it
\* makes the call (the assert of line 246); nothing is locked after that.
Disconnect(s) ==
    /\ AppDisconnects
    /\ pc[App] = "idle"
    /\ s \in g_Connected_Client
    /\ target' = [target EXCEPT ![App] = s]
    /\ Goto(App, "delete")
    /\ UNCHANGED <<accessors, structs, pool, Send_Data_Queue, g_Is_Exit, crashed,
                   g_Connected_Client, kernel>>

\* Send(): a packet is queued for a client that is connected now.
Target_Message(s) ==
    /\ pc[App] = "idle"
    /\ Len(Send_Data_Queue) < MaxSends
    /\ s \in g_Connected_Client
    /\ ClientUnlocked(s)
    /\ Send_Data_Queue' = Append(Send_Data_Queue, s)
    /\ UNCHANGED <<accessors, structs, pool, g_Is_Exit, target, crashed,
                   g_Connected_Client, pc, batch, kernel>>

\* Mutant of End: the workers are not told.
EndNoPost ==
    /\ pc[App] = "idle"
    /\ g_Is_Exit' = TRUE
    /\ crashed' = (pc[Sender] = "off")
    /\ Goto(App, "join")
    /\ UNCHANGED <<accessors, structs, pool, Send_Data_Queue, target,
                   g_Connected_Client, iocp, link, accepting, recvs, sends,
                   disconnecting, winsock, serial, refused>>

\* End(): the exit flag, the null completion, and the join of the send thread,
\* through a null pointer if Accept() has not made one ...
End ==
    /\ pc[App] = "idle"
    /\ g_Is_Exit' = TRUE
    /\ iocp' = Append(iocp, ExitCompletion)
    /\ crashed' = (pc[Sender] = "off")
    /\ Goto(App, "join")
    /\ UNCHANGED <<accessors, structs, pool, Send_Data_Queue, target,
                   g_Connected_Client, link, accepting, recvs, sends,
                   disconnecting, winsock, serial, refused>>

\* ... and, once the send thread and all the workers have been joined, the
\* queues are emptied and Winsock is released.
EndJoined ==
    /\ pc[App] = "join"
    /\ \A t \in Workers \cup {Sender} : pc[t] = "exited"
    /\ Send_Data_Queue' = <<>>
    /\ winsock' = FALSE
    /\ Goto(App, "ended")
    /\ UNCHANGED <<accessors, structs, pool, g_Is_Exit, target, crashed,
                   g_Connected_Client, iocp, link, accepting, recvs, sends,
                   disconnecting, serial, refused>>

Application ==
    \/ \E s \in Slots : CreateSocket(s) \/ Disconnect(s) \/ Target_Message(s)
    \/ AcceptFails \/ InsertSocket \/ StartSendThread
    \/ DeleteAndReuse(App)
    \/ End \/ EndJoined

-----------------------------------------------------------------------------
(* SendThread.                                                             *)

\* A packet is taken from the queue; it is dropped if the client is gone,
\* otherwise the client's accessor is held until the packet has been sent.
SendFind ==
    LET s == Head(Send_Data_Queue)
    IN  /\ pc[Sender] = "poll"
        /\ Send_Data_Queue # <<>>
        /\ Send_Data_Queue' = Tail(Send_Data_Queue)
        /\ IF s \in g_Connected_Client
           THEN target' = [target EXCEPT ![Sender] = s] /\ Goto(Sender, "sending")
           ELSE UNCHANGED <<target, pc, batch>>
        /\ UNCHANGED <<accessors, structs, pool, g_Is_Exit, crashed,
                       g_Connected_Client, kernel>>

\* Sends of s that have completed and that no worker has taken yet.
Unprocessed(s) == {i \in 1..Len(iocp) : iocp[i].io = "Send" /\ iocp[i].sock = s}

\* One chunk of the packet.  A WSASend that fails ends the packet.
SendChunk ==
    LET s == target[Sender]
    IN  /\ pc[Sender] \in {"sending", "sent"}
        /\ \/ /\ link[s] \in {"open", "closed"}
              /\ sends[s] + Cardinality(Unprocessed(s)) < MaxSends
              /\ sends' = [sends EXCEPT ![s] = @ + 1]
              /\ Goto(Sender, "sent")
           \/ /\ link[s] # "open"
              /\ Goto(Sender, "sendFailed")
              /\ UNCHANGED sends
        /\ UNCHANGED <<accessors, structs, control, g_Connected_Client, iocp,
                       link, accepting, recvs, disconnecting, winsock, serial, refused>>

SendRelease ==
    /\ pc[Sender] \in {"sent", "sendFailed"}
    /\ target' = [target EXCEPT ![Sender] = Nobody]
    /\ Goto(Sender, "poll")
    /\ UNCHANGED <<accessors, structs, pool, Send_Data_Queue, g_Is_Exit, crashed,
                   g_Connected_Client, kernel>>

\* "while (!Send_Data_Queue.empty())": nothing to send.
SendEmpty ==
    /\ pc[Sender] = "poll"
    /\ Send_Data_Queue = <<>>
    /\ Goto(Sender, "test")
    /\ UNCHANGED <<accessors, structs, control, g_Connected_Client, kernel>>

\* "while (!g_Is_Exit)", after the queue was found empty: it may hold a packet
\* again, which the thread then leaves to End().
SendTest ==
    /\ pc[Sender] = "test"
    /\ Goto(Sender, IF g_Is_Exit THEN "exited" ELSE "poll")
    /\ UNCHANGED <<accessors, structs, control, g_Connected_Client, kernel>>

SendThread == SendFind \/ SendChunk \/ SendRelease \/ SendEmpty \/ SendTest

-----------------------------------------------------------------------------
(* Winsock and the clients (external).                                     *)

\* A client connects: the kernel completes one outstanding AcceptEx.
ClientConnects(s) ==
    /\ s \in accepting
    /\ serial[s] < MaxConnections
    /\ accepting' = accepting \ {s}
    /\ link' = [link EXCEPT ![s] = "open"]
    /\ serial' = [serial EXCEPT ![s] = @ + 1]
    /\ iocp' = Append(iocp, [io |-> "Accept", sock |-> s, n |-> "zero",
                             serial |-> serial[s] + 1])
    /\ UNCHANGED <<recvs, sends, disconnecting, winsock, refused>>

ClientCloses(s) ==
    /\ link[s] = "open"
    /\ link' = [link EXCEPT ![s] = "closed"]
    /\ UNCHANGED <<iocp, accepting, recvs, sends, disconnecting, winsock, serial, refused>>

\* A receive completes: with data while the connection is open, with zero
\* bytes once the peer or the server has ended it.
RecvCompletes(s) ==
    /\ recvs[s] > 0
    /\ recvs' = [recvs EXCEPT ![s] = @ - 1]
    /\ \E n \in IF link[s] = "open" THEN {"good", "bad"} ELSE {"zero"} :
          iocp' = Append(iocp, Completion("Recv", s, n))
    /\ UNCHANGED <<link, accepting, sends, disconnecting, winsock, serial, refused>>

\* A send completes; one that the end of the connection caught completes with
\* an error and zero bytes.
SendCompletes(s) ==
    /\ sends[s] > 0
    /\ sends' = [sends EXCEPT ![s] = @ - 1]
    /\ \E n \in IF link[s] = "open" THEN {"good"} ELSE {"good", "zero"} :
          iocp' = Append(iocp, Completion("Send", s, n))
    /\ UNCHANGED <<link, accepting, recvs, disconnecting, winsock, serial, refused>>

\* DisconnectEx completes last, when no other I/O is outstanding.
DisconnectCompletes(s) ==
    /\ s \in disconnecting
    /\ recvs[s] = 0 /\ sends[s] = 0
    /\ disconnecting' = disconnecting \ {s}
    /\ link' = [link EXCEPT ![s] = "free"]
    /\ iocp' = Append(iocp, Completion("Disconnect", s, "zero"))
    /\ UNCHANGED <<accepting, recvs, sends, winsock, serial, refused>>

IOCompletes(s) == RecvCompletes(s) \/ SendCompletes(s) \/ DisconnectCompletes(s)

Network ==
    /\ \E s \in Slots : ClientConnects(s) \/ ClientCloses(s) \/ IOCompletes(s)
    /\ UNCHANGED <<accessors, structs, control, g_Connected_Client, pc, batch>>

\* The process has ended, died, or lost Winsock.
Stopped == ~Running /\ UNCHANGED vars

Next ==
    \/ Running /\ (\E w \in Workers : WorkThread(w))
    \/ Running /\ Application
    \/ Running /\ SendThread
    \/ Running /\ Network
    \/ Stopped

Spec == Init /\ [][Next]_vars

\* What Winsock does on its own: it completes what is outstanding on a
\* connection that has ended, and every send.  Data on an open connection
\* arrives only if the client sends some.
KernelDelivers(s) ==
    /\ (link[s] # "open" /\ RecvCompletes(s)) \/ SendCompletes(s)
          \/ DisconnectCompletes(s)
    /\ UNCHANGED <<accessors, structs, control, g_Connected_Client, pc, batch>>

\* The scheduler runs every thread that can run, and a packet has finitely many
\* chunks.  Clients and the application are free to do nothing.
FairSpec ==
    /\ Spec
    /\ \A w \in Workers : WF_vars(Running /\ WorkThread(w))
    /\ WF_vars(Running /\ (\/ (\E s \in Slots : CreateSocket(s)) \/ InsertSocket
                           \/ StartSendThread \/ DeleteAndReuse(App) \/ EndJoined))
    /\ WF_vars(Running /\ (SendFind \/ SendEmpty \/ SendTest))
    /\ WF_vars(Running /\ pc[Sender] = "sending" /\ SendChunk)
    /\ WF_vars(Running /\ SendRelease)
    /\ \A s \in Slots : WF_vars(Running /\ KernelDelivers(s))

-----------------------------------------------------------------------------
(* Properties.                                                             *)

Labels ==
    {"start", "insert", "idle", "join", "ended", "off", "test", "poll", "sending", "sent",
     "sendFailed", "exited", "wait", "next", "reaccepted", "rearm", "acceptInfo", "acceptFind",
     "acceptInsert", "acceptRecv", "accepted", "drop", "delete", "erase", "unavailable",
     "reuse", "shutdown", "disconnectEx"}

ServerTypes ==
    /\ pool \subseteq Slots /\ m_Socket \subseteq Slots
    /\ Is_Available \subseteq Slots /\ g_Connected_Client \subseteq Slots
    /\ writer \in [Slots -> Threads \cup {Nobody}]
    /\ readers \in [Slots -> SUBSET Threads]
    /\ Send_Data_Queue \in Seq(Slots)
    /\ g_Is_Exit \in BOOLEAN /\ crashed \in BOOLEAN

ThreadTypes ==
    /\ pc \in [Threads -> Labels]
    /\ batch \in [Workers -> Seq(Completions)]
    /\ \A w \in Workers : Len(batch[w]) <= BatchSize
    /\ target \in [{App, Sender} -> Slots \cup {Nobody}]

KernelTypes ==
    /\ iocp \in Seq(Completions)
    /\ link \in [Slots -> {"free", "open", "closed", "shut"}]
    /\ accepting \subseteq Slots /\ disconnecting \subseteq Slots
    /\ recvs \in [Slots -> Nat] /\ sends \in [Slots -> Nat]
    /\ winsock \in BOOLEAN /\ serial \in [Slots -> Nat]
    /\ refused \subseteq Slots

\* Types of the variables.
TypeOK == ServerTypes /\ ThreadTypes /\ KernelTypes

\* Entries of s in a sequence of completions that carry its life cycle on.
Carriers(q, s) == {i \in 1..Len(q) : q[i].io \notin {"Exit", "Send"} /\ q[i].sock = s}

\* Those of a worker's batch; one that has posted the next operation has used
\* its first entry up.
BatchCarriers(w, s) ==
    Carriers(batch[w], s) \ (IF pc[w] \in {"reaccepted", "accepted"} THEN {1} ELSE {})

\* How many operations, outstanding or completed, will carry s on.
Drivers(s) ==
    Cardinality(
           {<<"AcceptEx", s>> : x \in accepting \cap {s}}
      \cup {<<"DisconnectEx", s>> : x \in disconnecting \cap {s}}
      \cup {<<"WSARecv", i>> : i \in 1..recvs[s]}
      \cup {<<"iocp", i>> : i \in Carriers(iocp, s)}
      \cup UNION {{<<w, i>> : i \in BatchCarriers(w, s)} : w \in Workers})

\* No slot is ever driven by two operations at once: the AcceptEx, WSARecv and
\* DisconnectEx calls of a slot follow one another, on whichever threads their
\* completions are handled.
OneDriver == \A s \in Slots : Drivers(s) <= 1

\* DHServer.cpp:1015: when the maximum number of users is reached, a newly
\* accepted socket is disconnected: there are never more clients than that.
UserLimit == Cardinality(g_Connected_Client) <= MAX_USER_COUNT

\* DHServer.cpp:677: the loop of Delete_in_Socket_List waits for another
\* thread that uses the client's entry; it does not spin on a socket that is
\* not in the map, with the accessor of the pool held.
DeleteFindsClient ==
    \A t \in Workers \cup {App} :
        pc[t] = "erase" => Sock(t) \in g_Connected_Client

\* Data a worker is about to throw away because its slot is not Is_Available.
Discards(w) ==
    /\ Entry(w, {"Recv"})
    /\ Head(batch[w]).n # "zero"
    /\ Sock(w) \notin Is_Available

\* DHServer.cpp:490: while the application disconnects nobody, received data is
\* thrown away in one window only: another worker, which has accepted the client,
\* is between its first WSARecv and the Is_Available of line 1090.
DiscardWindow ==
    \A w \in Workers :
        Discards(w) => \E v \in Workers \ {w} : pc[v] = "accepted" /\ Sock(v) = Sock(w)

\* DHServer.cpp:489, "if the socket is being reused the data is discarded": and
\* never the data of a client that is connected.  This does not hold with two
\* workers, in the window above.
DiscardOnlyReused ==
    \A w \in Workers : Discards(w) => Sock(w) \notin g_Connected_Client

\* A packet is queued for the application under the connection it came from:
\* when IOFunction_Recv takes a chunk, its slot has not been given to another
\* client since the chunk arrived (the SOCKET value would be the same).
RightClient ==
    \A w \in Workers :
        (/\ Entry(w, {"Recv"})
         /\ Head(batch[w]).n # "zero"
         /\ Sock(w) \in Is_Available) => Head(batch[w]).serial = serial[Sock(w)]

\* A slot that waits for a new client carries nothing of the old one: it is
\* not in the client map and no receive of it is outstanding or unprocessed.
CleanHandover ==
    \A s \in accepting :
        /\ s \notin g_Connected_Client
        /\ recvs[s] = 0
        /\ Carriers(iocp, s) = {}

\* While the send thread has a client's accessor, that client stays registered
\* and the server does not shut its connection down: no packet, and no rest of
\* a packet, is sent to a socket that is being recycled.
SendToClient ==
    Sending =>
        /\ target[Sender] \in g_Connected_Client
        /\ link[target[Sender]] \in {"open", "closed"}

\* DHServer.cpp:643: Reuse_Socket gets the Socket_Struct of its socket; no
\* thread uses an accessor that found nothing, and the server dies, if at all,
\* in End().
NoInvalidAccess == crashed => g_Is_Exit

\* DisconnectEx is called on a connection that is still there, and once for each
\* connection, whichever of the workers and Disconnect() calls it: the server
\* itself never gives Winsock a reason to refuse the call, after which
\* Disconnect_EX takes Winsock down (NetWorkBase.cpp:66).
DisconnectsConnected ==
    \A t \in Workers \cup {App} :
        pc[t] = "disconnectEx" =>
            link[Sock(t)] = "shut" /\ Sock(t) \notin disconnecting

\* Winsock is released by End() alone, never by Disconnect_EX in the middle of
\* the service.  This does not hold: see the README.
WinsockKept == ~winsock => pc[App] = "ended"

\* A connection that the client has closed is taken down and its slot waits for
\* a new client again, unless Winsock has refused a call for it or the server is
\* being stopped.
SlotRecycled ==
    \A s \in Slots :
        link[s] = "closed" ~>
            (s \in accepting \/ s \in refused \/ g_Is_Exit \/ ~Running)

\* DHServer.cpp:166, the structure of a socket "is not removed until the program
\* ends but reused": every slot whose client has left waits for a client again.
\* This does not hold: a DisconnectEx or AcceptEx that fails is not tried again.
SlotAlwaysRecycled ==
    \A s \in Slots :
        link[s] = "closed" ~> (s \in accepting \/ g_Is_Exit \/ ~Running)

\* End() returns: the one null completion reaches every worker in turn, and the
\* send thread sees the exit flag; unless the "delete[]" of a worker that exits
\* takes the process down, or Disconnect_EX takes Winsock down.
EndReturns == pc[App] = "join" ~> (pc[App] = "ended" \/ ~Running)
=============================================================================
