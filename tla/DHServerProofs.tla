--------------------------- MODULE DHServerProofs ---------------------------
(***************************************************************************)
(* Proofs about DHServer, for any number of sockets and connections:       *)
(*   - ServerTypeOK: type correctness, for any number of workers;          *)
(*   - SingleWorkerUserLimit: with one worker thread there are never more  *)
(*     clients than MAX_USER_COUNT.  (With two there can be; README.md,    *)
(*     section 3.)  Invariant: LimitInv;                                   *)
(*   - ServerSendToClient, ServerDisconnectsConnected: the life cycle of a *)
(*     slot, for any number of workers.  Invariant: LifeInv;               *)
(*   - ServerOneDriver, ServerDeleteFindsClient, ServerRightClient,        *)
(*     ServerCleanHandover, ServerDiscardWindow: a slot follows one        *)
(*     completion at a time while the application neither sends nor        *)
(*     disconnects, for any number of workers.  Invariant: DriveInv.       *)
(***************************************************************************)
EXTENDS DHServer, FiniteSetTheorems, SequenceTheorems, TLAPS

DeleteLabels ==
    {"delete", "erase", "unavailable", "reuse", "shutdown", "disconnectEx"}

\* A worker at one of these works on the first entry of its batch.
EntryLabels ==
    DeleteLabels \cup {"reaccepted", "rearm", "acceptInfo", "acceptFind",
                       "acceptInsert", "acceptRecv", "accepted", "drop"}

AppLabels == {"start", "insert", "idle", "join", "ended"} \cup DeleteLabels

SenderLabels == {"off", "test", "poll", "sending", "sent", "sendFailed", "exited"}

\* What a worker's step says about its batch: an entry is there, and it is an
\* I/O completion once its kind has been looked at.
WorkersBusy ==
    \A w \in Workers :
        /\ pc[w] \in {"wait", "next", "exited"} \cup EntryLabels
        /\ pc[w] = "next" => batch[w] # <<>>
        /\ pc[w] \in EntryLabels => batch[w] # <<>> /\ Head(batch[w]) \in IOCompletions

\* What the application's and the send thread's step say about their argument.
CallersBusy ==
    /\ pc[App] \in AppLabels
    /\ pc[App] \in DeleteLabels \cup {"insert"} => target[App] \in Slots
    /\ pc[Sender] \in SenderLabels
    /\ Sending => target[Sender] \in Slots

ThreadsOK == ThreadTypes /\ WorkersBusy /\ CallersBusy

\* The inductive invariant: TypeOK alone is not one, because a step of a thread
\* uses the socket its earlier steps have determined.
IInv == ServerTypes /\ KernelTypes /\ ThreadsOK

LEMMA CompletionKinds ==
    ASSUME NEW c \in Completions, c.io # "Exit"
    PROVE  c \in IOCompletions
BY DEF Completions, IOCompletions, ExitCompletion

LEMMA InitIInv == Init => IInv
<1> SUFFICES ASSUME Init PROVE IInv OBVIOUS
<1> USE ServerAssumption DEF Init
<1>1. ServerTypes
  <2>1. /\ writer \in [Slots -> Threads \cup {Nobody}]
        /\ readers \in [Slots -> SUBSET Threads]
    OBVIOUS
  <2>2. Send_Data_Queue \in Seq(Slots)
    OBVIOUS
  <2> QED BY <2>1, <2>2 DEF ServerTypes
<1>2. KernelTypes
  BY DEF KernelTypes
<1>3. pc \in [Threads -> Labels]
  BY DEF Threads, Labels
<1>4. ThreadTypes
  BY <1>3 DEF ThreadTypes
<1>5. WorkersBusy
  BY DEF WorkersBusy, EntryLabels, DeleteLabels, Threads
<1>6. CallersBusy
  BY DEF CallersBusy, AppLabels, SenderLabels, DeleteLabels, Threads, Sending
<1> QED BY <1>1, <1>2, <1>4, <1>5, <1>6 DEF IInv, ThreadsOK

-----------------------------------------------------------------------------
(* How threads move.                                                       *)

LEMMA WorkerGoto ==
    ASSUME ThreadsOK, NEW w \in Workers, NEW l \in EntryLabels,
           batch[w] # <<>>, Head(batch[w]) \in IOCompletions,
           Goto(w, l), UNCHANGED target
    PROVE  ThreadsOK'
<1> USE ServerAssumption DEF Goto, ThreadsOK
<1>1. l \in Labels
  BY DEF EntryLabels, DeleteLabels, Labels
<1>2. ThreadTypes'
  BY <1>1 DEF ThreadTypes
<1>3. WorkersBusy'
  BY DEF ThreadTypes, WorkersBusy, Threads
<1>4. CallersBusy'
  BY DEF ThreadTypes, CallersBusy, Threads, Sending
<1> QED BY <1>2, <1>3, <1>4

\* What is left of a batch when its first entry has been processed.
LEMMA RestOfBatch ==
    ASSUME NEW S, NEW s \in Seq(S), s # <<>>, NEW n \in Nat, Len(s) <= n
    PROVE  /\ Tail(s) \in Seq(S)
           /\ Len(Tail(s)) <= n
           /\ Len(s) # 1 => Tail(s) # <<>>
<1>1. Tail(s) \in Seq(S) /\ Len(Tail(s)) = Len(s) - 1
  BY HeadTailProperties
<1>2. Len(s) \in Nat
  OBVIOUS
<1>3. Len(Tail(s)) <= n
  BY <1>1, <1>2
<1>4. ASSUME Tail(s) = <<>> PROVE Len(s) = 1
  BY <1>1, <1>2, <1>4, EmptySeq
<1> QED BY <1>1, <1>3, <1>4

LEMMA WorkerLeave ==
    ASSUME ThreadsOK, NEW w \in Workers, batch[w] # <<>>, Leave(w), UNCHANGED target
    PROVE  ThreadsOK'
<1> USE ServerAssumption DEF Leave, ThreadsOK
<1>1. /\ batch[w] \in Seq(Completions)
      /\ Tail(batch[w]) \in Seq(Completions)
      /\ Len(Tail(batch[w])) <= BatchSize
      /\ Len(batch[w]) # 1 => Tail(batch[w]) # <<>>
  <2>1. batch[w] \in Seq(Completions) /\ Len(batch[w]) <= BatchSize
    BY DEF ThreadTypes
  <2> QED BY <2>1, RestOfBatch
<1>2. ThreadTypes'
  BY <1>1 DEF ThreadTypes, Labels, Threads
<1>3. WorkersBusy'
  BY <1>1 DEF ThreadTypes, WorkersBusy, Threads, EntryLabels, DeleteLabels
<1>4. CallersBusy'
  BY DEF ThreadTypes, CallersBusy, Threads, Sending
<1> QED BY <1>2, <1>3, <1>4

LEMMA AppGoto ==
    ASSUME ThreadsOK, NEW l \in AppLabels, Goto(App, l),
           target' \in [{App, Sender} -> Slots \cup {Nobody}],
           target'[Sender] = target[Sender],
           l \in DeleteLabels \cup {"insert"} => target'[App] \in Slots
    PROVE  ThreadsOK'
<1> USE ServerAssumption DEF Goto, ThreadsOK
<1>1. l \in Labels
  BY DEF AppLabels, DeleteLabels, Labels
<1>2. ThreadTypes'
  BY <1>1 DEF ThreadTypes
<1>3. WorkersBusy'
  BY DEF ThreadTypes, WorkersBusy, Threads
<1>4. CallersBusy'
  BY DEF ThreadTypes, CallersBusy, Threads, Sending
<1> QED BY <1>2, <1>3, <1>4

LEMMA SenderGoto ==
    ASSUME ThreadsOK, NEW l \in SenderLabels, Goto(Sender, l),
           target' \in [{App, Sender} -> Slots \cup {Nobody}],
           target'[App] = target[App],
           l \in {"sending", "sent", "sendFailed"} => target'[Sender] \in Slots
    PROVE  ThreadsOK'
<1> USE ServerAssumption DEF Goto, ThreadsOK
<1>1. l \in Labels
  BY DEF SenderLabels, Labels
<1>2. ThreadTypes'
  BY <1>1 DEF ThreadTypes
<1>3. WorkersBusy'
  BY DEF ThreadTypes, WorkersBusy, Threads
<1>4. CallersBusy'
  BY DEF ThreadTypes, CallersBusy, Threads, Sending
<1> QED BY <1>2, <1>3, <1>4

LEMMA ThreadsUnchanged ==
    ASSUME ThreadsOK, UNCHANGED <<pc, batch, target>>
    PROVE  ThreadsOK'
BY DEF ThreadsOK, ThreadTypes, WorkersBusy, CallersBusy, Sending
-----------------------------------------------------------------------------
(* Type correctness, one step per action.                                  *)

\* The socket of a worker that works on an entry, or of an application's call.
LEMMA SockInSlots ==
    ASSUME ThreadsOK, NEW t \in Workers \cup {App},
           t \in Workers => pc[t] \in EntryLabels,
           t = App => pc[t] \in DeleteLabels
    PROVE  Sock(t) \in Slots
<1>1. CASE t \in Workers
  BY <1>1 DEF ThreadsOK, WorkersBusy, Sock, IOCompletions
<1>2. CASE t = App
  BY <1>2, ServerAssumption DEF ThreadsOK, CallersBusy, Sock
<1> QED BY <1>1, <1>2

\* An entry whose kind a worker has looked at.
LEMMA EntryKnown ==
    ASSUME ThreadsOK, NEW w \in Workers, NEW io, Entry(w, io), "Exit" \notin io
    PROVE  /\ batch[w] # <<>>
           /\ Head(batch[w]) \in IOCompletions
           /\ Sock(w) \in Slots
<1>1. batch[w] # <<>> /\ batch[w] \in Seq(Completions)
  BY DEF Entry, ThreadsOK, WorkersBusy, ThreadTypes
<1>2. Head(batch[w]) \in Completions /\ Head(batch[w]).io # "Exit"
  BY <1>1, HeadTailProperties DEF Entry
<1>3. Head(batch[w]) \in IOCompletions
  BY <1>2, CompletionKinds
<1> QED BY <1>1, <1>3 DEF Sock, IOCompletions

\* The steps of a worker on an entry it has just looked at.
LEMMA FirstSteps ==
    ASSUME IInv, NEW w \in Workers,
           \/ IOFunction_Disconnect(w) \/ ZeroBytes(w) \/ Discard(w)
           \/ IOFunction_Send(w) \/ IOFunction_Recv(w) \/ AcceptCheck(w)
    PROVE  IInv'
<1> USE DEF IInv
<1>1. CASE IOFunction_Disconnect(w)
  <2> USE <1>1 DEF IOFunction_Disconnect, AcceptExPending, AcceptExFails, AcceptExAtOnce
  <2>1. batch[w] # <<>> /\ Head(batch[w]) \in IOCompletions /\ Sock(w) \in Slots
    BY EntryKnown
  <2>2. ThreadsOK'
    BY <2>1, WorkerGoto DEF EntryLabels, control
  <2>3. ServerTypes'
    BY DEF ServerTypes, accessors, structs, control
  <2>4. /\ accepting' \subseteq Slots /\ refused' \subseteq Slots
        /\ link' \in [Slots -> {"free", "open", "closed", "shut"}] /\ serial' \in [Slots -> Nat]
    <3>1. CASE AcceptExPending(Sock(w))
      BY <2>1, <3>1 DEF KernelTypes
    <3>2. CASE AcceptExFails(Sock(w))
      BY <2>1, <3>2 DEF KernelTypes
    <3>3. CASE AcceptExAtOnce(Sock(w))
      BY <2>1, <3>3 DEF KernelTypes
    <3> QED BY <3>1, <3>2, <3>3
  <2>5. KernelTypes'
    BY <2>4 DEF KernelTypes
  <2> QED BY <2>2, <2>3, <2>5
<1>2. CASE ZeroBytes(w)
  <2> USE <1>2 DEF ZeroBytes
  <2>1. batch[w] # <<>> /\ Head(batch[w]) \in IOCompletions
    BY EntryKnown
  <2>2. ThreadsOK'
    BY <2>1, WorkerGoto DEF EntryLabels, control
  <2>3. ServerTypes'
    BY DEF ServerTypes, accessors, structs, control
  <2>4. KernelTypes'
    BY DEF KernelTypes, kernel
  <2> QED BY <2>2, <2>3, <2>4
<1>3. CASE Discard(w) \/ IOFunction_Send(w)
  <2> USE <1>3 DEF Discard, IOFunction_Send
  <2>1. batch[w] # <<>>
    BY EntryKnown
  <2>2. ThreadsOK'
    BY <2>1, WorkerLeave DEF control
  <2>3. ServerTypes'
    BY DEF ServerTypes, accessors, structs, control
  <2>4. KernelTypes'
    BY DEF KernelTypes, kernel
  <2> QED BY <2>2, <2>3, <2>4
<1>4. CASE IOFunction_Recv(w)
  <2> USE <1>4 DEF IOFunction_Recv
  <2>1. batch[w] # <<>> /\ Head(batch[w]) \in IOCompletions
    BY EntryKnown
  <2>2. ThreadsOK'
    BY <2>1, WorkerGoto DEF EntryLabels, DeleteLabels, control
  <2>3. ServerTypes'
    BY DEF ServerTypes, accessors, structs, control
  <2>4. KernelTypes'
    BY DEF KernelTypes, kernel
  <2> QED BY <2>2, <2>3, <2>4
<1>5. CASE AcceptCheck(w)
  <2> USE <1>5 DEF AcceptCheck
  <2>1. batch[w] # <<>> /\ Head(batch[w]) \in IOCompletions
    BY EntryKnown
  <2>2. ThreadsOK'
    BY <2>1, WorkerGoto DEF EntryLabels, DeleteLabels, control
  <2>3. ServerTypes'
    BY DEF ServerTypes, accessors, structs, control
  <2>4. KernelTypes'
    BY DEF KernelTypes, kernel
  <2> QED BY <2>2, <2>3, <2>4
<1> QED BY <1>1, <1>2, <1>3, <1>4, <1>5

\* The later steps of IOFunction_Accept, IOFunction_Recv and the Disconnect case.
LEMMA EntrySteps ==
    ASSUME IInv, NEW w \in Workers,
           \/ DisconnectAvailable(w) \/ Rearm(w) \/ AcceptInfo(w) \/ AcceptFind(w)
           \/ AcceptInsert(w) \/ AcceptRecv(w) \/ AcceptAvailable(w) \/ DropClient(w)
    PROVE  IInv'
<1>0. pc[w] \in EntryLabels
  BY DEF DisconnectAvailable, Rearm, AcceptInfo, AcceptFind, AcceptInsert,
         AcceptRecv, AcceptAvailable, DropClient, EntryLabels
<1>s. /\ batch[w] # <<>> /\ Head(batch[w]) \in IOCompletions
      /\ Sock(w) \in Slots
  <2>1. w # App
    BY ServerAssumption
  <2> QED BY <1>0, <2>1, SockInSlots DEF IInv, ThreadsOK, WorkersBusy
<1> USE DEF IInv
<1>1. CASE DisconnectAvailable(w) \/ AcceptAvailable(w)
  <2> USE <1>1 DEF DisconnectAvailable, AcceptAvailable
  <2>1. ThreadsOK'
    BY <1>s, WorkerLeave DEF control
  <2>2. ServerTypes'
    BY <1>s DEF ServerTypes, accessors, control
  <2>3. KernelTypes'
    BY DEF KernelTypes, kernel
  <2> QED BY <2>1, <2>2, <2>3
<1>2. CASE Rearm(w)
  <2> USE <1>2 DEF Rearm
  <2>1. ThreadsOK'
    <3>1. CASE Leave(w)
      BY <1>s, <3>1, WorkerLeave DEF control
    <3>2. CASE Goto(w, "drop")
      BY <1>s, <3>2, WorkerGoto DEF control, EntryLabels
    <3> QED BY <3>1, <3>2
  <2>2. ServerTypes'
    BY DEF ServerTypes, accessors, structs, control
  <2>3. KernelTypes'
    <3>1. WSARecv(Sock(w)) \/ WSARecvFails(Sock(w))
      OBVIOUS
    <3>2. recvs' \in [Slots -> Nat]
      <4> HIDE <1>2 DEF Rearm
      <4>1. recvs \in [Slots -> Nat]
        BY DEF KernelTypes
      <4>2. CASE WSARecv(Sock(w))
        BY <1>s, <4>1, <4>2 DEF WSARecv
      <4>3. CASE WSARecvFails(Sock(w))
        BY <4>1, <4>3 DEF WSARecvFails
      <4> QED BY <3>1, <4>2, <4>3
    <3> QED BY <3>2 DEF KernelTypes
  <2> QED BY <2>1, <2>2, <2>3
<1>3. CASE AcceptInfo(w)
  <2> USE <1>3 DEF AcceptInfo
  <2>1. ThreadsOK'
    BY <1>s, WorkerGoto DEF control, EntryLabels
  <2>2. ServerTypes'
    BY DEF ServerTypes, accessors, structs, control
  <2>3. KernelTypes'
    BY DEF KernelTypes, kernel
  <2> QED BY <2>1, <2>2, <2>3
<1>4. CASE AcceptFind(w)
  <2> USE <1>4 DEF AcceptFind
  <2>1. ThreadsOK'
    <3>1. CASE Leave(w)
      BY <1>s, <3>1, WorkerLeave DEF control
    <3>2. CASE Goto(w, "acceptInsert")
      BY <1>s, <3>2, WorkerGoto DEF control, EntryLabels
    <3> QED BY <3>1, <3>2
  <2>2. ServerTypes'
    BY DEF ServerTypes, accessors, structs, control
  <2>3. KernelTypes'
    BY DEF KernelTypes, kernel
  <2> QED BY <2>1, <2>2, <2>3
<1>5. CASE AcceptInsert(w)
  <2> USE <1>5 DEF AcceptInsert
  <2>1. ThreadsOK'
    BY <1>s, WorkerGoto DEF control, EntryLabels
  <2>2. ServerTypes'
    BY <1>s DEF ServerTypes, accessors, structs, control
  <2>3. KernelTypes'
    BY DEF KernelTypes, kernel
  <2> QED BY <2>1, <2>2, <2>3
<1>6. CASE AcceptRecv(w)
  <2> USE <1>6 DEF AcceptRecv
  <2>1. ThreadsOK'
    BY <1>s, WorkerGoto DEF control, EntryLabels, DeleteLabels
  <2>2. ServerTypes'
    BY DEF ServerTypes, accessors, structs, control
  <2>3. KernelTypes'
    BY <1>s DEF KernelTypes, WSARecv, WSARecvFails
  <2> QED BY <2>1, <2>2, <2>3
<1>7. CASE DropClient(w)
  <2> USE <1>7 DEF DropClient
  <2>1. ThreadsOK'
    <3>1. CASE Sock(w) \in m_Socket
      BY <1>s, <3>1, WorkerGoto DEF EntryLabels, DeleteLabels
    <3>2. CASE Sock(w) \notin m_Socket
      BY <3>2, ThreadsUnchanged
    <3> QED BY <3>1, <3>2
  <2>2. ServerTypes'
    BY DEF ServerTypes, accessors, structs
  <2>3. KernelTypes'
    BY DEF KernelTypes, kernel
  <2> QED BY <2>1, <2>2, <2>3
<1> QED BY <1>1, <1>2, <1>3, <1>4, <1>5, <1>6, <1>7

\* Delete_in_Socket_List and Reuse_Socket: the caller is a worker or the
\* application, and it moves on to another step of the two or returns.
LEMMA CallerMoves ==
    ASSUME IInv, NEW t \in Workers \cup {App}, pc[t] \in DeleteLabels,
           UNCHANGED target,
           \/ \E l \in DeleteLabels : Goto(t, l)
           \/ Leave(t)
    PROVE  ThreadsOK'
<1>1. CASE t \in Workers
  <2>1. batch[t] # <<>> /\ Head(batch[t]) \in IOCompletions
    BY <1>1 DEF IInv, ThreadsOK, WorkersBusy, EntryLabels
  <2>2. ASSUME NEW l \in DeleteLabels, Goto(t, l) PROVE ThreadsOK'
    BY <1>1, <2>1, <2>2, WorkerGoto DEF IInv, EntryLabels
  <2>3. CASE Leave(t)
    BY <1>1, <2>1, <2>3, WorkerLeave DEF IInv
  <2> QED BY <2>2, <2>3
<1>2. CASE t = App
  <2>1. target[App] \in Slots /\ target \in [{App, Sender} -> Slots \cup {Nobody}]
    BY <1>2 DEF IInv, ThreadsOK, CallersBusy, ThreadTypes
  <2>2. ASSUME NEW l \in DeleteLabels, Goto(t, l) PROVE ThreadsOK'
    BY <1>2, <2>1, <2>2, AppGoto DEF IInv, AppLabels
  <2>3. CASE Leave(t)
    <3>1. Goto(App, "idle")
      BY <1>2, <2>3, ServerAssumption DEF Leave
    <3> QED BY <2>1, <3>1, AppGoto DEF IInv, AppLabels, DeleteLabels
  <2> QED BY <2>2, <2>3
<1> QED BY <1>1, <1>2

LEMMA DeleteSteps ==
    ASSUME IInv, NEW t \in Workers \cup {App}, DeleteAndReuse(t)
    PROVE  IInv'
<1>0. pc[t] \in DeleteLabels
  BY DEF DeleteAndReuse, DeleteFind, DeleteErase, DeleteUnavailable,
         ReuseConstruct, ReuseShutdown, ReuseDisconnect, DeleteLabels
<1>s. Sock(t) \in Slots /\ t \in Threads
  BY <1>0, SockInSlots DEF IInv, EntryLabels, Threads
<1> USE DEF IInv
<1>1. CASE DeleteFind(t)
  <2> USE <1>1 DEF DeleteFind
  <2>1. ThreadsOK'
    BY <1>0, CallerMoves DEF control, DeleteLabels
  <2>2. ServerTypes'
    BY <1>s DEF ServerTypes, structs, control
  <2>3. KernelTypes'
    BY DEF KernelTypes, kernel
  <2> QED BY <2>1, <2>2, <2>3
<1>2. CASE DeleteErase(t)
  <2> USE <1>2 DEF DeleteErase
  <2>1. ThreadsOK'
    BY <1>0, CallerMoves DEF control, DeleteLabels
  <2>2. ServerTypes'
    BY <1>s DEF ServerTypes, accessors, structs, control
  <2>3. KernelTypes'
    BY DEF KernelTypes, kernel
  <2> QED BY <2>1, <2>2, <2>3
<1>3. CASE DeleteUnavailable(t)
  <2> USE <1>3 DEF DeleteUnavailable
  <2>1. ThreadsOK'
    BY <1>0, CallerMoves DEF control, DeleteLabels
  <2>2. ServerTypes'
    BY <1>s DEF ServerTypes, control
  <2>3. KernelTypes'
    BY DEF KernelTypes, kernel
  <2> QED BY <2>1, <2>2, <2>3
<1>4. CASE ReuseConstruct(t)
  <2> USE <1>4 DEF ReuseConstruct
  <2>1. ThreadsOK'
    <3>1. CASE Sock(t) \in pool
      BY <1>0, <3>1, CallerMoves DEF DeleteLabels
    <3>2. CASE Sock(t) \notin pool
      BY <3>2, ThreadsUnchanged
    <3> QED BY <3>1, <3>2
  <2>2. ServerTypes'
    BY <1>s DEF ServerTypes, structs
  <2>3. KernelTypes'
    BY DEF KernelTypes, kernel
  <2> QED BY <2>1, <2>2, <2>3
<1>5. CASE ReuseShutdown(t)
  <2> USE <1>5 DEF ReuseShutdown
  <2>1. ThreadsOK'
    BY <1>0, CallerMoves DEF control, DeleteLabels
  <2>2. ServerTypes'
    BY <1>s DEF ServerTypes, accessors, control
  <2>3. KernelTypes'
    BY <1>s DEF KernelTypes
  <2> QED BY <2>1, <2>2, <2>3
<1>6. CASE ReuseDisconnect(t)
  <2> USE <1>6 DEF ReuseDisconnect, DisconnectEx
  <2>1. ThreadsOK'
    BY <1>0, CallerMoves DEF control, DeleteLabels
  <2>2. ServerTypes'
    BY <1>s DEF ServerTypes, structs, control
  <2>3. KernelTypes'
    BY <1>s DEF KernelTypes
  <2> QED BY <2>1, <2>2, <2>3
<1> QED BY <1>1, <1>2, <1>3, <1>4, <1>5, <1>6 DEF DeleteAndReuse

\* Taking a batch from the port and leaving the thread.
LEMMA PortSteps ==
    ASSUME IInv, NEW w \in Workers,
           GetQueuedCompletionStatusEx(w) \/ ExitThread(w)
    PROVE  IInv'
<1> USE ServerAssumption DEF IInv
<1>t. /\ iocp \in Seq(Completions) /\ Len(iocp) \in Nat
      /\ batch \in [Workers -> Seq(Completions)]
      /\ pc \in [Threads -> Labels] /\ w \in Threads
  BY DEF KernelTypes, ThreadsOK, ThreadTypes, Threads
<1>1. CASE GetQueuedCompletionStatusEx(w)
  <2> USE <1>1 DEF GetQueuedCompletionStatusEx
  <2>1. Taken \in Nat /\ Taken <= BatchSize /\ Taken <= Len(iocp) /\ Taken > 0
    BY <1>t, EmptySeq DEF Taken
  <2>2. /\ SubSeq(iocp, 1, Taken) \in Seq(Completions)
        /\ Len(SubSeq(iocp, 1, Taken)) = Taken
        /\ SubSeq(iocp, Taken + 1, Len(iocp)) \in Seq(Completions)
    BY <1>t, <2>1
  <2>3. SubSeq(iocp, 1, Taken) # <<>>
    BY <2>1, <2>2, EmptySeq
  <2>4. ThreadTypes'
    BY <1>t, <2>1, <2>2 DEF ThreadsOK, ThreadTypes, Labels, control
  <2>5. WorkersBusy'
    BY <1>t, <2>3 DEF ThreadsOK, WorkersBusy, Threads, EntryLabels, DeleteLabels
  <2>6. CallersBusy'
    BY <1>t DEF ThreadsOK, CallersBusy, Sending, control
  <2>7. ServerTypes'
    BY DEF ServerTypes, accessors, structs, control
  <2>8. KernelTypes'
    BY <2>2 DEF KernelTypes
  <2> QED BY <2>4, <2>5, <2>6, <2>7, <2>8 DEF ThreadsOK
<1>2. CASE ExitThread(w)
  <2> USE <1>2 DEF ExitThread
  <2>1. Head(batch[w]) \in Completions
    BY <1>t, HeadTailProperties DEF Entry, ThreadsOK, WorkersBusy
  <2>2. Append(iocp, Head(batch[w])) \in Seq(Completions)
    BY <1>t, <2>1, AppendProperties
  <2>3. <<>> \in Seq(Completions) /\ Len(<<>>) = 0
    BY EmptySeq
  <2>4. ThreadTypes'
    BY <1>t, <2>3 DEF ThreadsOK, ThreadTypes, Labels
  <2>5. WorkersBusy'
    BY <1>t DEF ThreadsOK, WorkersBusy, Threads, EntryLabels, DeleteLabels
  <2>6. CallersBusy'
    BY <1>t DEF ThreadsOK, CallersBusy, Sending
  <2>7. ServerTypes'
    BY DEF ServerTypes, accessors, structs
  <2>8. KernelTypes'
    BY <2>2 DEF KernelTypes
  <2> QED BY <2>4, <2>5, <2>6, <2>7, <2>8 DEF ThreadsOK
<1> QED BY <1>1, <1>2

LEMMA WorkerStep ==
    ASSUME IInv, NEW w \in Workers, WorkThread(w)
    PROVE  IInv'
BY PortSteps, FirstSteps, EntrySteps, DeleteSteps DEF WorkThread

LEMMA ApplicationStep ==
    ASSUME IInv, Application
    PROVE  IInv'
<1> USE ServerAssumption DEF IInv
<1>t. /\ target \in [{App, Sender} -> Slots \cup {Nobody}]
      /\ pc \in [Threads -> Labels]
      /\ App \in Threads /\ Sender \in Threads
      /\ pc[App] = "insert" => target[App] \in Slots
  BY DEF ThreadsOK, ThreadTypes, CallersBusy, Threads
<1>1. ASSUME NEW s \in Slots, CreateSocket(s) \/ Disconnect(s) PROVE IInv'
  <2> USE <1>1 DEF CreateSocket, Disconnect
  <2>1. ThreadsOK'
    BY <1>t, AppGoto DEF AppLabels, DeleteLabels
  <2>2. ServerTypes'
    BY DEF ServerTypes, accessors, structs
  <2>3. KernelTypes'
    BY DEF KernelTypes, kernel
  <2> QED BY <2>1, <2>2, <2>3
<1>2. ASSUME NEW s \in Slots, Target_Message(s) PROVE IInv'
  <2> USE <1>2 DEF Target_Message
  <2>1. ThreadsOK'
    BY ThreadsUnchanged
  <2>2. Append(Send_Data_Queue, s) \in Seq(Slots)
    BY AppendProperties DEF ServerTypes
  <2>3. ServerTypes'
    BY <2>2 DEF ServerTypes, accessors, structs
  <2>4. KernelTypes'
    BY DEF KernelTypes, kernel
  <2> QED BY <2>1, <2>3, <2>4
<1>3. CASE AcceptFails
  <2> USE <1>3 DEF AcceptFails
  <2>1. ThreadsOK'
    BY <1>t, AppGoto DEF AppLabels, DeleteLabels, control
  <2>2. ServerTypes'
    BY DEF ServerTypes, accessors, structs, control
  <2>3. KernelTypes'
    BY DEF KernelTypes, kernel
  <2> QED BY <2>1, <2>2, <2>3
<1>4. CASE InsertSocket
  <2> USE <1>4 DEF InsertSocket
  <2>1. ThreadsOK'
    BY <1>t, AppGoto DEF AppLabels, DeleteLabels
  <2>2. ServerTypes'
    BY <1>t DEF ServerTypes, accessors
  <2>3. KernelTypes'
    BY DEF KernelTypes, kernel
  <2> QED BY <2>1, <2>2, <2>3
<1>5. CASE StartSendThread
  <2> USE <1>5 DEF StartSendThread
  <2>1. ThreadTypes'
    BY <1>t DEF ThreadsOK, ThreadTypes, Labels, control
  <2>2. WorkersBusy'
    BY <1>t DEF ThreadsOK, WorkersBusy, Threads
  <2>3. CallersBusy'
    BY <1>t DEF CallersBusy, AppLabels, SenderLabels, DeleteLabels, Sending
  <2>4. ServerTypes'
    BY DEF ServerTypes, accessors, structs, control
  <2>5. KernelTypes'
    BY DEF KernelTypes, kernel
  <2> QED BY <2>1, <2>2, <2>3, <2>4, <2>5 DEF ThreadsOK
<1>6. CASE DeleteAndReuse(App)
  BY <1>6, DeleteSteps
<1>7. CASE End
  <2> USE <1>7 DEF End
  <2>1. ThreadsOK'
    BY <1>t, AppGoto DEF AppLabels, DeleteLabels
  <2>2. ServerTypes'
    BY DEF ServerTypes, accessors, structs
  <2>3. Append(iocp, ExitCompletion) \in Seq(Completions)
    BY AppendProperties DEF KernelTypes, Completions
  <2>4. KernelTypes'
    BY <2>3 DEF KernelTypes
  <2> QED BY <2>1, <2>2, <2>4
<1>8. CASE EndJoined
  <2> USE <1>8 DEF EndJoined
  <2>1. ThreadsOK'
    BY <1>t, AppGoto DEF AppLabels, DeleteLabels
  <2>2. <<>> \in Seq(Slots)
    BY EmptySeq
  <2>3. ServerTypes'
    BY <2>2 DEF ServerTypes, accessors, structs
  <2>4. KernelTypes'
    BY DEF KernelTypes
  <2> QED BY <2>1, <2>3, <2>4
<1> QED BY <1>1, <1>2, <1>3, <1>4, <1>5, <1>6, <1>7, <1>8 DEF Application

LEMMA SenderStep ==
    ASSUME IInv, SendThread
    PROVE  IInv'
<1> USE ServerAssumption DEF IInv
<1>t. /\ target \in [{App, Sender} -> Slots \cup {Nobody}]
      /\ Send_Data_Queue \in Seq(Slots)
      /\ Sending => target[Sender] \in Slots
  BY DEF ThreadsOK, ThreadTypes, CallersBusy, ServerTypes
<1>1. CASE SendFind
  <2> USE <1>1 DEF SendFind
  <2>1. Head(Send_Data_Queue) \in Slots /\ Tail(Send_Data_Queue) \in Seq(Slots)
    BY <1>t, HeadTailProperties
  <2>2. ThreadsOK'
    <3>1. CASE Head(Send_Data_Queue) \in g_Connected_Client
      BY <1>t, <2>1, <3>1, SenderGoto DEF SenderLabels
    <3>2. CASE Head(Send_Data_Queue) \notin g_Connected_Client
      BY <3>2, ThreadsUnchanged
    <3> QED BY <3>1, <3>2
  <2>3. ServerTypes'
    BY <2>1 DEF ServerTypes, accessors, structs
  <2>4. KernelTypes'
    BY DEF KernelTypes, kernel
  <2> QED BY <2>2, <2>3, <2>4
<1>2. CASE SendChunk
  <2> USE <1>2 DEF SendChunk
  <2>1. target[Sender] \in Slots
    BY <1>t DEF Sending
  <2>2. ThreadsOK'
    <3>1. CASE Goto(Sender, "sent")
      BY <1>t, <2>1, <3>1, SenderGoto DEF SenderLabels, control
    <3>2. CASE Goto(Sender, "sendFailed")
      BY <1>t, <2>1, <3>2, SenderGoto DEF SenderLabels, control
    <3> QED BY <3>1, <3>2
  <2>3. ServerTypes'
    BY DEF ServerTypes, accessors, structs, control
  <2>4. sends' \in [Slots -> Nat]
    <3> HIDE <1>2 DEF SendChunk
    <3>1. sends \in [Slots -> Nat]
      BY DEF KernelTypes
    <3>2. sends' = [sends EXCEPT ![target[Sender]] = @ + 1] \/ sends' = sends
      BY <1>2 DEF SendChunk
    <3> QED BY <2>1, <3>1, <3>2
  <2>5. KernelTypes'
    BY <2>4 DEF KernelTypes
  <2> QED BY <2>2, <2>3, <2>5
<1>3. CASE SendRelease
  <2> USE <1>3 DEF SendRelease
  <2>1. ThreadsOK'
    BY <1>t, SenderGoto DEF SenderLabels
  <2>2. ServerTypes'
    BY DEF ServerTypes, accessors, structs
  <2>3. KernelTypes'
    BY DEF KernelTypes, kernel
  <2> QED BY <2>1, <2>2, <2>3
<1>4. CASE SendEmpty \/ SendTest
  <2> USE <1>4 DEF SendEmpty, SendTest
  <2>1. ThreadsOK'
    BY <1>t, SenderGoto DEF SenderLabels, control
  <2>2. ServerTypes'
    BY DEF ServerTypes, accessors, structs, control
  <2>3. KernelTypes'
    BY DEF KernelTypes, kernel
  <2> QED BY <2>1, <2>2, <2>3
<1> QED BY <1>1, <1>2, <1>3, <1>4 DEF SendThread

\* Whatever Winsock completes goes to the end of the port.
LEMMA NetworkStep ==
    ASSUME IInv, Network
    PROVE  IInv'
<1> USE DEF IInv
<1>1. ThreadsOK'
  BY ThreadsUnchanged DEF Network, control
<1>2. ServerTypes'
  BY DEF Network, ServerTypes, accessors, structs, control
<1>3. KernelTypes'
  <2>1. ASSUME NEW c \in IOCompletions PROVE Append(iocp, c) \in Seq(Completions)
    BY AppendProperties DEF KernelTypes, Completions
  <2>2. ASSUME NEW s \in Slots, NEW io \in {"Disconnect", "Recv", "Send"},
               NEW n \in {"zero", "good", "bad"}
        PROVE  Completion(io, s, n) \in IOCompletions
    BY DEF Completion, IOCompletions, KernelTypes
  <2>3. ASSUME NEW s \in Slots, ClientConnects(s) PROVE KernelTypes'
    <3>1. [io |-> "Accept", sock |-> s, n |-> "zero", serial |-> serial[s] + 1]
            \in IOCompletions
      BY DEF IOCompletions, KernelTypes
    <3> QED BY <2>1, <2>3, <3>1 DEF ClientConnects, KernelTypes
  <2>4. ASSUME NEW s \in Slots, ClientCloses(s) PROVE KernelTypes'
    BY <2>4 DEF ClientCloses, KernelTypes
  <2>5. ASSUME NEW s \in Slots, RecvCompletes(s) PROVE KernelTypes'
    <3>1. PICK n \in {"zero", "good", "bad"} : iocp' = Append(iocp, Completion("Recv", s, n))
      BY <2>5 DEF RecvCompletes
    <3>2. iocp' \in Seq(Completions)
      BY <2>1, <2>2, <3>1
    <3>3. recvs' \in [Slots -> Nat]
      BY <2>5 DEF RecvCompletes, KernelTypes
    <3> QED BY <2>5, <3>2, <3>3 DEF RecvCompletes, KernelTypes
  <2>6. ASSUME NEW s \in Slots, SendCompletes(s) PROVE KernelTypes'
    <3>1. PICK n \in {"zero", "good", "bad"} : iocp' = Append(iocp, Completion("Send", s, n))
      BY <2>6 DEF SendCompletes
    <3>2. iocp' \in Seq(Completions)
      BY <2>1, <2>2, <3>1
    <3>3. sends' \in [Slots -> Nat]
      BY <2>6 DEF SendCompletes, KernelTypes
    <3> QED BY <2>6, <3>2, <3>3 DEF SendCompletes, KernelTypes
  <2>7. ASSUME NEW s \in Slots, DisconnectCompletes(s) PROVE KernelTypes'
    <3>1. iocp' \in Seq(Completions)
      BY <2>1, <2>2, <2>7 DEF DisconnectCompletes
    <3> QED BY <2>7, <3>1 DEF DisconnectCompletes, KernelTypes
  <2> QED BY <2>3, <2>4, <2>5, <2>6, <2>7 DEF Network, IOCompletes
<1> QED BY <1>1, <1>2, <1>3

LEMMA NextIInv == IInv /\ [Next]_vars => IInv'
<1> SUFFICES ASSUME IInv, [Next]_vars PROVE IInv'
  OBVIOUS
<1>1. CASE \E w \in Workers : WorkThread(w)
  BY <1>1, WorkerStep
<1>2. CASE Application
  BY <1>2, ApplicationStep
<1>3. CASE SendThread
  BY <1>3, SenderStep
<1>4. CASE Network
  BY <1>4, NetworkStep
<1>5. CASE UNCHANGED vars
  <2> USE <1>5 DEF vars, IInv
  <2>1. ThreadsOK'
    BY ThreadsUnchanged DEF control
  <2>2. ServerTypes' /\ KernelTypes'
    BY DEF ServerTypes, KernelTypes, accessors, structs, control, kernel
  <2> QED BY <2>1, <2>2
<1> QED BY <1>1, <1>2, <1>3, <1>4, <1>5 DEF Next, Stopped

\* Type correctness of the server, for any number of sockets, workers,
\* connections and sends: every thread that goes on with a socket has one, a
\* worker never looks into an empty batch or at the socket of a null completion.
THEOREM ServerTypeOK == Spec => []TypeOK
<1>1. IInv => TypeOK
  BY DEF IInv, ThreadsOK, TypeOK
<1> QED BY <1>1, InitIInv, NextIInv, PTL DEF Spec

-----------------------------------------------------------------------------
(* The limit on the clients, with a single worker.                         *)

\* A worker that has found room for a client and has not inserted it yet.
Admitting(w) == pc[w] \in {"acceptInfo", "acceptFind", "acceptInsert"}

\* The room it has found is still there.
Room == \A w \in Workers :
            Admitting(w) => Cardinality(g_Connected_Client) < MAX_USER_COUNT

LimitInv == UserLimit /\ Room

LEMMA ClientsFinite ==
    ASSUME IInv
    PROVE  IsFiniteSet(g_Connected_Client) /\ Cardinality(g_Connected_Client) \in Nat
BY ServerAssumption, FS_Subset, FS_CardinalityType DEF IInv, ServerTypes

\* A step that admits nobody and inserts nobody keeps the limit.
LEMMA LimitKept ==
    ASSUME LimitInv, UNCHANGED g_Connected_Client,
           \A w \in Workers : Admitting(w)' => Admitting(w)
    PROVE  LimitInv'
BY DEF LimitInv, UserLimit, Room

\* How the steps of a thread change what it admits.
LEMMA AdmittingGoto ==
    ASSUME IInv, NEW t \in Threads, NEW l, Goto(t, l),
           l \in {"acceptInfo", "acceptFind", "acceptInsert"} => Admitting(t)
    PROVE  \A w \in Workers : Admitting(w)' => Admitting(w)
BY DEF IInv, ThreadsOK, ThreadTypes, Goto, Admitting

LEMMA AdmittingLeave ==
    ASSUME IInv, NEW t \in Threads, Leave(t)
    PROVE  \A w \in Workers : Admitting(w)' => Admitting(w)
<1>1. pc \in [Threads -> Labels] /\ Workers \subseteq Threads
  BY DEF IInv, ThreadsOK, ThreadTypes, Threads
<1>2. \E l \in {"wait", "next", "idle"} : pc' = [pc EXCEPT ![t] = l]
  BY DEF Leave, Goto
<1> QED BY <1>1, <1>2 DEF Admitting

\* Erasing a client makes room.
LEMMA LimitErase ==
    ASSUME IInv, LimitInv, NEW t \in Workers \cup {App}, DeleteErase(t)
    PROVE  LimitInv'
<1>1. \A w \in Workers : Admitting(w)' => Admitting(w)
  BY AdmittingGoto DEF DeleteErase, Threads
<1>2. /\ Cardinality(g_Connected_Client') <= Cardinality(g_Connected_Client)
      /\ Cardinality(g_Connected_Client') \in Nat
  BY ClientsFinite, FS_Subset, FS_CardinalityType DEF DeleteErase
<1> QED BY <1>1, <1>2, ClientsFinite, ServerAssumption DEF LimitInv, UserLimit, Room

\* The check and the insertion, with no other worker between them.
LEMMA LimitAccept ==
    ASSUME IInv, LimitInv, NEW w \in Workers, Workers = {w},
           AcceptCheck(w) \/ AcceptInsert(w)
    PROVE  LimitInv'
<1> USE ServerAssumption, ClientsFinite
<1>t. pc \in [Threads -> Labels] /\ w \in Threads
  BY DEF IInv, ThreadsOK, ThreadTypes, Threads
<1>1. CASE AcceptCheck(w)
  <2>1. CASE Cardinality(g_Connected_Client) = MAX_USER_COUNT
    <3>1. Goto(w, "reuse") /\ UNCHANGED g_Connected_Client
      BY <1>1, <2>1 DEF AcceptCheck
    <3> QED BY <1>t, <3>1, AdmittingGoto, LimitKept
  <2>2. CASE Cardinality(g_Connected_Client) # MAX_USER_COUNT
    <3>1. Cardinality(g_Connected_Client) < MAX_USER_COUNT
      BY <2>2 DEF LimitInv, UserLimit
    <3> QED BY <1>1, <3>1 DEF AcceptCheck, LimitInv, UserLimit, Room
  <2> QED BY <2>1, <2>2
<1>2. CASE AcceptInsert(w)
  <2>1. Cardinality(g_Connected_Client) < MAX_USER_COUNT
    BY <1>2 DEF AcceptInsert, LimitInv, Room, Admitting
  <2>2. /\ Cardinality(g_Connected_Client') \in Nat
        /\ Cardinality(g_Connected_Client') <= Cardinality(g_Connected_Client) + 1
    <3>1. g_Connected_Client' = g_Connected_Client \cup {Sock(w)}
      BY <1>2 DEF AcceptInsert
    <3>2. Cardinality(g_Connected_Client \cup {Sock(w)}) =
            IF Sock(w) \in g_Connected_Client THEN Cardinality(g_Connected_Client)
            ELSE Cardinality(g_Connected_Client) + 1
      BY FS_AddElement
    <3> QED BY <3>1, <3>2
  <2>3. ~Admitting(w)'
    BY <1>2, <1>t DEF AcceptInsert, Goto, Admitting
  <2> QED BY <2>1, <2>2, <2>3 DEF LimitInv, UserLimit, Room
<1> QED BY <1>1, <1>2

LEMMA LimitWorker ==
    ASSUME IInv, LimitInv, NEW w \in Workers, Workers = {w}, WorkThread(w)
    PROVE  LimitInv'
<1>t. w \in Threads /\ pc \in [Threads -> Labels]
  BY DEF Threads, IInv, ThreadsOK, ThreadTypes
<1>1. CASE AcceptCheck(w) \/ AcceptInsert(w)
  BY <1>1, LimitAccept
<1>2. CASE DeleteErase(w)
  BY <1>2, LimitErase
<1>3. CASE GetQueuedCompletionStatusEx(w) \/ ExitThread(w)
  <2>1. \A v \in Workers : Admitting(v)' => Admitting(v)
    BY <1>3, <1>t DEF GetQueuedCompletionStatusEx, ExitThread, Admitting, Threads
  <2> QED BY <1>3, <2>1, LimitKept DEF GetQueuedCompletionStatusEx, ExitThread
<1>4. CASE \/ IOFunction_Disconnect(w) \/ IOFunction_Recv(w) \/ AcceptInfo(w)
           \/ ZeroBytes(w)
  <2>1. \A v \in Workers : Admitting(v)' => Admitting(v)
    BY <1>4, <1>t, AdmittingGoto
       DEF IOFunction_Disconnect, IOFunction_Recv, AcceptInfo, ZeroBytes, Admitting
  <2> QED BY <1>4, <2>1, LimitKept
          DEF IOFunction_Disconnect, IOFunction_Recv, AcceptInfo, ZeroBytes
<1>5. CASE DisconnectAvailable(w) \/ Discard(w) \/ IOFunction_Send(w) \/ AcceptAvailable(w)
  <2>1. \A v \in Workers : Admitting(v)' => Admitting(v)
    BY <1>5, <1>t, AdmittingLeave
       DEF DisconnectAvailable, Discard, IOFunction_Send, AcceptAvailable
  <2> QED BY <1>5, <2>1, LimitKept
          DEF DisconnectAvailable, Discard, IOFunction_Send, AcceptAvailable
<1>6. CASE DropClient(w)
  <2>1. Goto(w, "delete") \/ UNCHANGED pc
    BY <1>6 DEF DropClient
  <2>2. \A v \in Workers : Admitting(v)' => Admitting(v)
    BY <1>t, <2>1, AdmittingGoto DEF Admitting
  <2> QED BY <1>6, <2>2, LimitKept DEF DropClient
<1>7. CASE Rearm(w) \/ AcceptFind(w) \/ AcceptRecv(w)
  <2>1. \/ Leave(w)
        \/ \E l \in {"drop", "accepted"} : Goto(w, l)
        \/ Goto(w, "acceptInsert") /\ Admitting(w)
    BY <1>7 DEF Rearm, AcceptFind, AcceptRecv, Admitting
  <2>2. \A v \in Workers : Admitting(v)' => Admitting(v)
    BY <1>t, <2>1, AdmittingGoto, AdmittingLeave
  <2> QED BY <1>7, <2>2, LimitKept DEF Rearm, AcceptFind, AcceptRecv
<1>8. CASE DeleteAndReuse(w) /\ ~DeleteErase(w)
  <2>1. \/ Leave(w)
        \/ \E l \in DeleteLabels : Goto(w, l)
        \/ UNCHANGED pc
    BY <1>8 DEF DeleteAndReuse, DeleteFind, DeleteUnavailable, ReuseConstruct,
                ReuseShutdown, ReuseDisconnect, DeleteLabels
  <2>2. \A v \in Workers : Admitting(v)' => Admitting(v)
    BY <1>t, <2>1, AdmittingGoto, AdmittingLeave DEF DeleteLabels, Admitting
  <2>3. UNCHANGED g_Connected_Client
    BY <1>8 DEF DeleteAndReuse, DeleteFind, DeleteUnavailable, ReuseConstruct,
                ReuseShutdown, ReuseDisconnect
  <2> QED BY <2>2, <2>3, LimitKept
<1> QED BY <1>1, <1>2, <1>3, <1>4, <1>5, <1>6, <1>7, <1>8 DEF WorkThread

\* Nobody but a worker admits a client.
LEMMA LimitOthers ==
    ASSUME IInv, LimitInv, Application \/ SendThread \/ Network \/ UNCHANGED vars
    PROVE  LimitInv'
<1>t. /\ App \in Threads /\ Sender \in Threads
      /\ pc \in [Threads -> Labels] /\ Workers \subseteq Threads
      /\ App \notin Workers /\ Sender \notin Workers
  BY ServerAssumption DEF Threads, IInv, ThreadsOK, ThreadTypes
<1>1. CASE DeleteErase(App)
  BY <1>1, LimitErase
<1>2. CASE Application /\ ~DeleteErase(App)
  <2>1. \A v \in Workers : pc'[v] = pc[v]
    BY <1>2, <1>t
       DEF Application, CreateSocket, Disconnect, Target_Message, AcceptFails,
           InsertSocket, StartSendThread, DeleteAndReuse, DeleteFind,
           DeleteUnavailable, ReuseConstruct, ReuseShutdown, ReuseDisconnect,
           End, EndJoined, Goto, Leave
  <2>2. UNCHANGED g_Connected_Client
    BY <1>2
       DEF Application, CreateSocket, Disconnect, Target_Message, AcceptFails,
           InsertSocket, StartSendThread, DeleteAndReuse, DeleteFind,
           DeleteUnavailable, ReuseConstruct, ReuseShutdown, ReuseDisconnect,
           End, EndJoined
  <2> QED BY <2>1, <2>2, LimitKept DEF Admitting
<1>3. CASE SendThread
  <2>1. \A v \in Workers : pc'[v] = pc[v]
    BY <1>3, <1>t DEF SendThread, SendFind, SendChunk, SendRelease, SendEmpty, SendTest, Goto
  <2>2. UNCHANGED g_Connected_Client
    BY <1>3 DEF SendThread, SendFind, SendChunk, SendRelease, SendEmpty, SendTest
  <2> QED BY <2>1, <2>2, LimitKept DEF Admitting
<1>4. CASE Network
  BY <1>4, LimitKept DEF Network, Admitting
<1>5. CASE UNCHANGED vars
  BY <1>5, LimitKept DEF vars, Admitting
<1> QED BY <1>1, <1>2, <1>3, <1>4, <1>5

\* With one worker thread the test of IOFunction_Accept and the insertion of
\* AddClientSocket cannot be separated by another accept, and the number of
\* clients never exceeds MAX_USER_COUNT, whatever that is, however many sockets
\* there are and whatever the application and the send thread do meanwhile.
THEOREM SingleWorkerUserLimit ==
    ASSUME NEW w0, Workers = {w0}
    PROVE  Spec => []UserLimit
<1>1. Init => LimitInv
  <2> SUFFICES ASSUME Init PROVE LimitInv
    OBVIOUS
  <2>1. Cardinality(g_Connected_Client) = 0
    BY FS_EmptySet DEF Init
  <2>2. \A w \in Workers : ~Admitting(w)
    BY ServerAssumption DEF Init, Admitting, Threads
  <2> QED BY <2>1, <2>2, ServerAssumption DEF LimitInv, UserLimit, Room
<1>2. IInv /\ LimitInv /\ [Next]_vars => LimitInv'
  BY LimitWorker, LimitOthers DEF Next, Stopped
<1>3. LimitInv => UserLimit
  BY DEF LimitInv
<1> QED BY <1>1, <1>2, <1>3, InitIInv, NextIInv, PTL DEF Spec

-----------------------------------------------------------------------------
(* The life cycle of a slot.  The argument is that of a token.  AcceptEx,  *)
(* its completion, the entry of the client map, the thread that reuses the *)
(* slot, DisconnectEx and its completion hand the slot on from one to the  *)
(* next, and no two of them have it at once, although nothing in the code  *)
(* says so: no lock is held along the way.                                 *)

\* The thread has the slot.
HoldLabels == {"unavailable", "reuse", "shutdown", "disconnectEx"}

\* The first entry of a worker at one of these still has what it came with.
PendingLabels == {"wait", "next", "exited", "acceptInfo", "acceptFind", "acceptInsert"}

Kinds == {"accept", "disconnect", "client", "port", "batch", "thread"}
Holders == Threads \cup {Nobody}

\* The connection of a slot as its token sees it.
Phases == {"free", "up", "shut"}
Phase(l) == IF l \in {"open", "closed"} THEN "up" ELSE l

\* The completion c has the token of s, whose connection is then p.
LifeEntry(c, s, p) ==
    /\ c.io \in {"Accept", "Disconnect"} /\ c.sock = s
    /\ p = IF c.io = "Accept" THEN "up" ELSE "free"

PortLife(s, i, p) == i \in 1..Len(iocp) /\ LifeEntry(iocp[i], s, p)

\* Positions in a batch count from its end: they stay when its first entry goes.
BatchLife(s, w, j, p) ==
    /\ j < Len(batch[w])
    /\ LifeEntry(batch[w][Len(batch[w]) - j], s, p)
    /\ j < Len(batch[w]) - 1 \/ pc[w] \in PendingLabels

ThreadLife(s, t, p) ==
    /\ pc[t] \in HoldLabels /\ Sock(t) = s
    /\ p = IF pc[t] = "disconnectEx" THEN "shut" ELSE "up"

\* The token of s is with k, t, i, and then the connection is p.
Life(s, k, t, i, p) ==
    \/ k = "accept" /\ t = Nobody /\ i = 0 /\ s \in accepting /\ p = "free"
    \/ k = "disconnect" /\ t = Nobody /\ i = 0 /\ s \in disconnecting /\ p = "shut"
    \/ k = "client" /\ t = Nobody /\ i = 0 /\ s \in g_Connected_Client /\ p = "up"
    \/ k = "port" /\ t = Nobody /\ PortLife(s, i, p)
    \/ k = "batch" /\ t \in Workers /\ BatchLife(s, t, i, p)
    \/ k = "thread" /\ t \in Workers \cup {App} /\ i = 0 /\ ThreadLife(s, t, p)

\* A slot has one token ...
OneLife ==
    \A s \in Slots, k1, k2 \in Kinds, t1, t2 \in Holders, i1, i2 \in Nat, p1, p2 \in Phases :
        Life(s, k1, t1, i1, p1) /\ Life(s, k2, t2, i2, p2) => k1 = k2 /\ t1 = t2 /\ i1 = i2

\* ... that knows the state of its connection.
LifeKnows ==
    \A s \in Slots, k \in Kinds, t \in Holders, i \in Nat, p \in Phases :
        Life(s, k, t, i, p) => Phase(link[s]) = p

\* The sockets that Accept() has made.
Made(s) == s \in pool \/ (pc[App] = "insert" /\ target[App] = s)

OnlyMade ==
    \A s \in Slots, k \in Kinds, t \in Holders, i \in Nat, p \in Phases :
        Life(s, k, t, i, p) \/ link[s] # "free" => Made(s)

AcceptEntries ==
    \A w \in Workers :
        pc[w] \in {"acceptInfo", "acceptFind", "acceptInsert"} => Head(batch[w]).io = "Accept"

Registered == Sending => target[Sender] \in g_Connected_Client

LifeInv ==
    OneLife /\ LifeKnows /\ OnlyMade /\ AcceptEntries /\ Registered

Tokens == OneLife /\ LifeKnows /\ OnlyMade

\* Nothing un-makes a socket.
MadeStays == \A s \in Slots : Made(s) => Made(s)'

LEMMA PhaseFree ==
    ASSUME NEW l \in {"free", "open", "closed", "shut"}
    PROVE  Phase(l) = "free" <=> l = "free"
BY DEF Phase

\* A step that gives no token to anyone.
LEMMA TokensKept ==
    ASSUME Tokens, MadeStays, KernelTypes, KernelTypes',
           \A s \in Slots, k \in Kinds, t \in Holders, i \in Nat, p \in Phases :
               Life(s, k, t, i, p)' => Life(s, k, t, i, p),
           \A s \in Slots : Phase(link'[s]) = Phase(link[s])
    PROVE  Tokens'
<1>1. OneLife'
  BY DEF Tokens, OneLife
<1>2. LifeKnows'
  BY DEF Tokens, LifeKnows
<1>3. \A s \in Slots : link'[s] # "free" => link[s] # "free"
  BY PhaseFree DEF KernelTypes
<1>4. OnlyMade'
  BY <1>3 DEF Tokens, OnlyMade, MadeStays
<1> QED BY <1>1, <1>2, <1>4 DEF Tokens

\* The token of s0 moves from k0, t0, i0 to k1, t1, i1, and nobody gets another one.
Moves(s0, k0, t0, i0, k1, t1, i1, p1) ==
    \A s \in Slots, k \in Kinds, t \in Holders, i \in Nat, p \in Phases :
        Life(s, k, t, i, p)' =>
            \/ Life(s, k, t, i, p) /\ (s # s0 \/ k # k0 \/ t # t0 \/ i # i0)
            \/ s = s0 /\ k = k1 /\ t = t1 /\ i = i1 /\ p = p1

LEMMA TokenMoved ==
    ASSUME Tokens, MadeStays, KernelTypes, KernelTypes',
           NEW s0 \in Slots,
           NEW k0 \in Kinds, NEW t0 \in Holders, NEW i0 \in Nat, NEW p0 \in Phases,
           Life(s0, k0, t0, i0, p0),
           NEW k1, NEW t1, NEW i1, NEW p1, Moves(s0, k0, t0, i0, k1, t1, i1, p1),
           \A s \in Slots : s # s0 => link'[s] = link[s],
           Phase(link'[s0]) = p1
    PROVE  Tokens'
<1>1. \A s \in Slots, k \in Kinds, t \in Holders, i \in Nat, p \in Phases :
         Life(s, k, t, i, p)' /\ s = s0 => k = k1 /\ t = t1 /\ i = i1 /\ p = p1
  <2>1. \A k \in Kinds, t \in Holders, i \in Nat, p \in Phases :
           Life(s0, k, t, i, p) => k = k0 /\ t = t0 /\ i = i0
    BY DEF Tokens, OneLife
  <2>2. \A s \in Slots, k \in Kinds, t \in Holders, i \in Nat, p \in Phases :
           Life(s, k, t, i, p) /\ s = s0 => Life(s0, k, t, i, p)
    OBVIOUS
  <2> QED BY <2>1, <2>2 DEF Moves
<1>2. \A s \in Slots, k \in Kinds, t \in Holders, i \in Nat, p \in Phases :
         Life(s, k, t, i, p)' /\ s # s0 => Life(s, k, t, i, p)
  BY DEF Moves
<1>3. OneLife'
  <2> SUFFICES ASSUME NEW s \in Slots, NEW ka \in Kinds, NEW kb \in Kinds,
                      NEW ta \in Holders, NEW tb \in Holders, NEW ia \in Nat, NEW ib \in Nat,
                      NEW pa \in Phases, NEW pb \in Phases,
                      Life(s, ka, ta, ia, pa)', Life(s, kb, tb, ib, pb)'
               PROVE  ka = kb /\ ta = tb /\ ia = ib
      BY DEF OneLife
  <2>1. CASE s = s0
    BY <1>1, <2>1
  <2>2. CASE s # s0
    BY <1>2, <2>2 DEF Tokens, OneLife
  <2> QED BY <2>1, <2>2
<1>4. LifeKnows'
  BY <1>1, <1>2 DEF Tokens, LifeKnows
<1>5. Made(s0)
  BY DEF Tokens, OnlyMade
<1>6. OnlyMade'
  <2> SUFFICES ASSUME NEW s \in Slots, NEW k \in Kinds, NEW t \in Holders, NEW i \in Nat,
                      NEW p \in Phases, Life(s, k, t, i, p)' \/ link'[s] # "free"
               PROVE  Made(s)'
      BY DEF OnlyMade
  <2>1. CASE s = s0
    BY <1>5, <2>1 DEF MadeStays
  <2>2. CASE s # s0
    BY <1>2, <2>2 DEF Tokens, OnlyMade, MadeStays
  <2> QED BY <2>1, <2>2
<1> QED BY <1>3, <1>4, <1>6 DEF Tokens

-----------------------------------------------------------------------------
(* What the moves of the threads do to the tokens in their hands.          *)

LEMMA BatchFacts ==
    ASSUME IInv, NEW w \in Workers
    PROVE  batch[w] \in Seq(Completions) /\ Len(batch[w]) \in Nat
BY DEF IInv, ThreadsOK, ThreadTypes

LEMMA GotoBatch ==
    ASSUME IInv, NEW u \in Threads, NEW l, Goto(u, l),
           u \in Workers /\ l \in PendingLabels => pc[u] \in PendingLabels
    PROVE  \A s \in Slots, w \in Workers, j \in Nat, p \in Phases :
               BatchLife(s, w, j, p)' =>
                  /\ BatchLife(s, w, j, p)
                  /\ w = u /\ l \notin PendingLabels => j # Len(batch[u]) - 1
<1>1. pc' = [pc EXCEPT ![u] = l] /\ batch' = batch /\ pc \in [Threads -> Labels]
      /\ Workers \subseteq Threads
  BY DEF Goto, IInv, ThreadsOK, ThreadTypes, Threads
<1>2. \A w \in Workers : pc'[w] = IF w = u THEN l ELSE pc[w]
  BY <1>1
<1> QED BY <1>1, <1>2, BatchFacts DEF BatchLife

LEMMA GotoThread ==
    ASSUME IInv, NEW u \in Threads, NEW l, Goto(u, l),
           \A v \in Workers \cup {App} : v # u /\ v = App => target'[v] = target[v]
    PROVE  \A s \in Slots, t \in Workers \cup {App}, p \in Phases :
               ThreadLife(s, t, p)' =>
                  \/ t # u /\ ThreadLife(s, t, p)
                  \/ /\ t = u /\ l \in HoldLabels /\ s = Sock(u)'
                     /\ p = IF l = "disconnectEx" THEN "shut" ELSE "up"
<1>1. pc' = [pc EXCEPT ![u] = l] /\ batch' = batch /\ pc \in [Threads -> Labels]
      /\ Workers \cup {App} \subseteq Threads /\ App \notin Workers
  BY ServerAssumption DEF Goto, IInv, ThreadsOK, ThreadTypes, Threads
<1>2. \A t \in Workers \cup {App} : pc'[t] = IF t = u THEN l ELSE pc[t]
  BY <1>1
<1>3. \A t \in Workers \cup {App} : t # u => Sock(t)' = Sock(t)
  BY <1>1 DEF Sock
<1> QED BY <1>2, <1>3 DEF ThreadLife

\* A worker that goes to its next entry gives up the one it had.
LEMMA LeaveBatch ==
    ASSUME IInv, NEW u \in Workers, batch[u] # <<>>, Leave(u)
    PROVE  \A s \in Slots, w \in Workers, j \in Nat, p \in Phases :
               BatchLife(s, w, j, p)' =>
                  BatchLife(s, w, j, p) /\ (w = u => j # Len(batch[u]) - 1)
<1> SUFFICES ASSUME NEW s \in Slots, NEW w \in Workers, NEW j \in Nat, NEW p \in Phases,
                    BatchLife(s, w, j, p)'
             PROVE  BatchLife(s, w, j, p) /\ (w = u => j # Len(batch[u]) - 1)
    OBVIOUS
<1>1. /\ batch' = [batch EXCEPT ![u] = Tail(batch[u])]
      /\ pc' = [pc EXCEPT ![u] = IF Len(batch[u]) = 1 THEN "wait" ELSE "next"]
      /\ pc \in [Threads -> Labels] /\ Workers \subseteq Threads
      /\ batch \in [Workers -> Seq(Completions)]
  BY DEF Leave, IInv, ThreadsOK, ThreadTypes, Threads
<1>2. CASE w # u
  BY <1>1, <1>2 DEF BatchLife
<1>3. CASE w = u
  <2>1. batch'[u] = Tail(batch[u]) /\ Len(Tail(batch[u])) = Len(batch[u]) - 1
        /\ Len(batch[u]) \in Nat
    BY <1>1, HeadTailProperties
  <2>2. j < Len(batch[u]) - 1
        /\ LifeEntry(Tail(batch[u])[Len(batch[u]) - 1 - j], s, p)
    BY <1>3, <2>1 DEF BatchLife
  <2>3. Tail(batch[u])[Len(batch[u]) - 1 - j] = batch[u][Len(batch[u]) - j]
    <3>1. (Len(batch[u]) - 1 - j) \in 1..Len(Tail(batch[u]))
      BY <2>1, <2>2
    <3>2. Tail(batch[u])[Len(batch[u]) - 1 - j] = batch[u][(Len(batch[u]) - 1 - j) + 1]
      BY <1>1, <3>1, HeadTailProperties
    <3>3. (Len(batch[u]) - 1 - j) + 1 = Len(batch[u]) - j
      BY <2>1
    <3> QED BY <3>2, <3>3
  <2> QED BY <1>3, <2>1, <2>2, <2>3 DEF BatchLife
<1> QED BY <1>2, <1>3

LEMMA LeaveThread ==
    ASSUME IInv, NEW u \in Workers \cup {App}, Leave(u), UNCHANGED target
    PROVE  \A s \in Slots, t \in Workers \cup {App}, p \in Phases :
               ThreadLife(s, t, p)' => t # u /\ ThreadLife(s, t, p)
<1>1. /\ pc \in [Threads -> Labels] /\ Workers \cup {App} \subseteq Threads
      /\ App \notin Workers /\ batch \in [Workers -> Seq(Completions)]
  BY ServerAssumption DEF IInv, ThreadsOK, ThreadTypes, Threads
<1>2. \E l \in {"wait", "next", "idle"} : pc' = [pc EXCEPT ![u] = l]
  BY DEF Leave, Goto
<1>3. \A t \in Workers \cup {App} : t # u => pc'[t] = pc[t]
  BY <1>1, <1>2
<1>4. pc'[u] \notin HoldLabels
  BY <1>1, <1>2 DEF HoldLabels
<1>5. \A w \in Workers : w # u => batch'[w] = batch[w]
  BY <1>1 DEF Leave, Goto
<1>6. \A t \in Workers \cup {App} : t # u => Sock(t)' = Sock(t)
  BY <1>1, <1>5 DEF Sock
<1> QED BY <1>3, <1>4, <1>6 DEF ThreadLife

-----------------------------------------------------------------------------
(* Steps that give no token to anyone.                                     *)

\* Outside the threads, tokens are at most given up.
Quiet ==
    /\ accepting' \subseteq accepting /\ disconnecting' \subseteq disconnecting
    /\ g_Connected_Client' \subseteq g_Connected_Client /\ iocp' = iocp
    /\ \A s \in Slots : Phase(link'[s]) = Phase(link[s])

LEMMA QuietStep ==
    ASSUME IInv, IInv', Tokens, MadeStays, Quiet,
           \A s \in Slots, w \in Workers, j \in Nat, p \in Phases :
               BatchLife(s, w, j, p)' => BatchLife(s, w, j, p),
           \A s \in Slots, t \in Workers \cup {App}, p \in Phases :
               ThreadLife(s, t, p)' => ThreadLife(s, t, p)
    PROVE  Tokens'
<1>1. \A s \in Slots, i \in Nat, p \in Phases : PortLife(s, i, p)' => PortLife(s, i, p)
  BY DEF Quiet, PortLife
<1>2. \A s \in Slots, k \in Kinds, t \in Holders, i \in Nat, p \in Phases :
         Life(s, k, t, i, p)' => Life(s, k, t, i, p)
  BY <1>1 DEF Life, Quiet
<1> QED BY <1>2, TokensKept DEF Quiet, IInv

LEMMA QuietGoto ==
    ASSUME IInv, IInv', Tokens, MadeStays, Quiet, NEW u \in Threads, NEW l, Goto(u, l),
           u \in Workers /\ l \in PendingLabels => pc[u] \in PendingLabels,
           u # App => target'[App] = target[App],
           l \in HoldLabels => /\ pc[u] \in HoldLabels /\ Sock(u)' = Sock(u)
                               /\ l = "disconnectEx" <=> pc[u] = "disconnectEx"
    PROVE  Tokens'
<1>1. \A s \in Slots, w \in Workers, j \in Nat, p \in Phases :
         BatchLife(s, w, j, p)' => BatchLife(s, w, j, p)
  BY GotoBatch
<1>2. \A s \in Slots, t \in Workers \cup {App}, p \in Phases :
         ThreadLife(s, t, p)' =>
            \/ t # u /\ ThreadLife(s, t, p)
            \/ /\ t = u /\ l \in HoldLabels /\ s = Sock(u)'
               /\ p = IF l = "disconnectEx" THEN "shut" ELSE "up"
  BY GotoThread
<1>3. \A s \in Slots, t \in Workers \cup {App}, p \in Phases :
         ThreadLife(s, t, p)' => ThreadLife(s, t, p)
  BY <1>2 DEF ThreadLife
<1> QED BY <1>1, <1>3, QuietStep

LEMMA QuietLeave ==
    ASSUME IInv, IInv', Tokens, MadeStays, Quiet, NEW u \in Workers, batch[u] # <<>>,
           Leave(u), UNCHANGED target
    PROVE  Tokens'
<1>1. \A s \in Slots, w \in Workers, j \in Nat, p \in Phases :
         BatchLife(s, w, j, p)' => BatchLife(s, w, j, p)
  BY LeaveBatch
<1>2. \A s \in Slots, t \in Workers \cup {App}, p \in Phases :
         ThreadLife(s, t, p)' => ThreadLife(s, t, p)
  BY LeaveThread
<1> QED BY <1>1, <1>2, QuietStep

\* What is made stays made.
LEMMA MadeByOthers ==
    ASSUME UNCHANGED pool, pc'[App] = pc[App], target'[App] = target[App]
    PROVE  MadeStays
BY DEF MadeStays, Made

LEMMA MadeByApp ==
    ASSUME pool \subseteq pool', pc[App] # "insert"
    PROVE  MadeStays
BY DEF MadeStays, Made

\* A step of a worker leaves the application's call alone.
LEMMA WorkerMade ==
    ASSUME IInv, NEW u \in Workers, (\E l : Goto(u, l)) \/ Leave(u) \/ UNCHANGED pc,
           UNCHANGED <<pool, target>>
    PROVE  MadeStays /\ pc'[App] = pc[App]
<1>1. App # u /\ App \in Threads /\ pc \in [Threads -> Labels]
  BY ServerAssumption DEF Threads, IInv, ThreadsOK, ThreadTypes
<1>2. pc'[App] = pc[App]
  BY <1>1 DEF Goto, Leave
<1> QED BY <1>2, MadeByOthers

LEMMA WorkerInHand ==
    ASSUME IInv, NEW w \in Workers, pc[w] \in {"next"} \cup EntryLabels
    PROVE  batch[w] # <<>>
BY DEF IInv, ThreadsOK, WorkersBusy

\* The steps of a worker that leave the kernel and the clients alone.
LEMMA QuietWorker ==
    ASSUME IInv, IInv', Tokens, NEW w \in Workers,
           \/ DisconnectAvailable(w) \/ ZeroBytes(w) \/ DropClient(w) \/ Discard(w)
           \/ IOFunction_Send(w) \/ IOFunction_Recv(w) \/ Rearm(w) \/ AcceptInfo(w)
           \/ AcceptFind(w) \/ AcceptRecv(w) \/ AcceptAvailable(w)
    PROVE  Tokens'
<1> USE DEF Entry
<1>t. w \in Threads /\ w # App
  BY ServerAssumption DEF Threads
<1>b. batch[w] # <<>>
  BY WorkerInHand DEF DisconnectAvailable, ZeroBytes, DropClient, Discard, IOFunction_Send,
     IOFunction_Recv, Rearm, AcceptInfo, AcceptFind, AcceptRecv, AcceptAvailable, EntryLabels
<1>q. Quiet /\ UNCHANGED <<pool, target>>
  BY DEF DisconnectAvailable, ZeroBytes, DropClient, Discard, IOFunction_Send,
     IOFunction_Recv, Rearm, AcceptInfo, AcceptFind, AcceptRecv, AcceptAvailable,
     Quiet, kernel, control
<1>1. CASE \/ DisconnectAvailable(w) \/ Discard(w) \/ IOFunction_Send(w) \/ AcceptAvailable(w)
           \/ Rearm(w) /\ Leave(w)
           \/ AcceptFind(w) /\ Leave(w)
  <2>1. Leave(w)
    BY <1>1 DEF DisconnectAvailable, Discard, IOFunction_Send, AcceptAvailable
  <2> QED BY <1>b, <1>q, <2>1, WorkerMade, QuietLeave
<1>2. CASE \/ ZeroBytes(w) \/ IOFunction_Recv(w) \/ AcceptRecv(w)
           \/ Rearm(w) /\ ~Leave(w)
  <2>1. PICK l \in {"drop", "rearm", "accepted"} : Goto(w, l)
    BY <1>2 DEF ZeroBytes, IOFunction_Recv, AcceptRecv, Rearm
  <2>2. l \notin PendingLabels /\ l \notin HoldLabels
    BY DEF PendingLabels, HoldLabels
  <2>3. MadeStays
    BY <1>q, <2>1, WorkerMade
  <2> QED BY <1>t, <1>q, <2>1, <2>2, <2>3, QuietGoto
<1>3. CASE DropClient(w)
  <2>1. CASE Goto(w, "delete")
    <3>1. "delete" \notin PendingLabels /\ "delete" \notin HoldLabels
      BY DEF PendingLabels, HoldLabels
    <3>2. MadeStays
      BY <1>q, <2>1, WorkerMade
    <3> QED BY <1>t, <1>q, <2>1, <3>1, <3>2, QuietGoto
  <2>2. CASE UNCHANGED <<pc, batch>>
    <3>1. MadeStays
      BY <1>q, <2>2, WorkerMade
    <3>2. \A s \in Slots, v \in Workers, j \in Nat, p \in Phases :
             BatchLife(s, v, j, p)' => BatchLife(s, v, j, p)
      BY <2>2 DEF BatchLife
    <3>3. \A s \in Slots, t \in Workers \cup {App}, p \in Phases :
             ThreadLife(s, t, p)' => ThreadLife(s, t, p)
      BY <1>q, <2>2 DEF ThreadLife, Sock
    <3> QED BY <1>q, <3>1, <3>2, <3>3, QuietStep
  <2> QED BY <1>3, <2>1, <2>2 DEF DropClient
<1>4. CASE AcceptInfo(w) \/ (AcceptFind(w) /\ ~Leave(w))
  <2>1. PICK l \in {"acceptFind", "acceptInsert"} : Goto(w, l)
    BY <1>4 DEF AcceptInfo, AcceptFind
  <2>2. l \notin HoldLabels /\ pc[w] \in PendingLabels
    BY <1>4 DEF PendingLabels, HoldLabels, AcceptInfo, AcceptFind
  <2>3. MadeStays
    BY <1>q, <2>1, WorkerMade
  <2> QED BY <1>t, <1>q, <2>1, <2>2, <2>3, QuietGoto
<1> QED BY <1>1, <1>2, <1>3, <1>4

-----------------------------------------------------------------------------
(* Steps that move a token.                                                *)

\* The token that a worker has with the first entry of its batch.
LEMMA HeadToken ==
    ASSUME IInv, NEW w \in Workers, pc[w] \in PendingLabels, batch[w] # <<>>,
           NEW s, NEW p, LifeEntry(Head(batch[w]), s, p)
    PROVE  Life(s, "batch", w, Len(batch[w]) - 1, p) /\ Len(batch[w]) - 1 \in Nat
<1>1. batch[w] \in Seq(Completions) /\ Len(batch[w]) \in Nat /\ Len(batch[w]) > 0
  BY BatchFacts, EmptySeq
<1>2. Head(batch[w]) = batch[w][1] /\ Len(batch[w]) - (Len(batch[w]) - 1) = 1
  BY <1>1
<1>3. BatchLife(s, w, Len(batch[w]) - 1, p)
  BY <1>1, <1>2 DEF BatchLife
<1> QED BY <1>1, <1>3 DEF Life

\* IOFunction_Disconnect: from the completion to AcceptEx, or to nobody if that fails.
LEMMA DisconnectToken ==
    ASSUME IInv, IInv', Tokens, NEW w \in Workers, IOFunction_Disconnect(w)
    PROVE  Tokens'
<1> DEFINE s0 == Sock(w)
           j0 == Len(batch[w]) - 1
           p1 == Phase(link'[s0])
<1>1. /\ Goto(w, "reaccepted") /\ UNCHANGED <<pool, target, g_Connected_Client, iocp>>
      /\ disconnecting' = disconnecting /\ accepting' \subseteq accepting \cup {s0}
      /\ link' = link \/ (accepting' = accepting /\ link' = [link EXCEPT ![s0] = "open"])
      /\ pc[w] = "next" /\ Head(batch[w]).io = "Disconnect"
  BY DEF IOFunction_Disconnect, AcceptExPending, AcceptExFails, AcceptExAtOnce, Entry, control
<1>2. s0 \in Slots /\ batch[w] # <<>>
  BY EntryKnown DEF IOFunction_Disconnect, IInv
<1>3. LifeEntry(Head(batch[w]), s0, "free")
  BY <1>1 DEF LifeEntry, Sock
<1>4. Life(s0, "batch", w, j0, "free") /\ j0 \in Nat
  BY <1>1, <1>2, <1>3, HeadToken DEF PendingLabels
<1>5. /\ accepting' = accepting \/ p1 = "free"
      /\ \A s \in Slots : s # s0 => link'[s] = link[s]
  <2>1. Phase(link[s0]) = "free" /\ link \in [Slots -> {"free", "open", "closed", "shut"}]
    BY <1>2, <1>4 DEF Tokens, LifeKnows, Kinds, Holders, Threads, Phases, IInv, KernelTypes
  <2> QED BY <1>1, <2>1
<1>6. w \in Threads /\ w # App /\ MadeStays
  BY <1>1, WorkerMade, ServerAssumption DEF Threads
<1>7. \A s \in Slots, v \in Workers, j \in Nat, p \in Phases :
         BatchLife(s, v, j, p)' => BatchLife(s, v, j, p) /\ (v = w => j # j0)
  BY <1>1, <1>6, GotoBatch DEF PendingLabels
<1>8. \A s \in Slots, t \in Workers \cup {App}, p \in Phases :
         ThreadLife(s, t, p)' => ThreadLife(s, t, p)
  BY <1>1, <1>6, GotoThread DEF HoldLabels
<1>9. \A s \in Slots, i \in Nat, p \in Phases : PortLife(s, i, p)' => PortLife(s, i, p)
  BY <1>1 DEF PortLife
<1>10. Phase(link'[s0]) = p1
  OBVIOUS
<1> HIDE DEF s0, j0, p1
<1>11. Moves(s0, "batch", w, j0, "accept", Nobody, 0, p1)
  BY <1>1, <1>5, <1>7, <1>8, <1>9 DEF Life, Moves
<1> QED BY <1>2, <1>4, <1>5, <1>6, <1>10, <1>11, TokenMoved
        DEF IInv, Kinds, Holders, Phases

\* IOFunction_Accept: the client is refused, and the thread has its slot.
LEMMA RefuseToken ==
    ASSUME IInv, IInv', Tokens, NEW w \in Workers, AcceptCheck(w)
    PROVE  Tokens'
<1> DEFINE s0 == Sock(w)
           j0 == Len(batch[w]) - 1
<1>1. /\ UNCHANGED <<pool, target, g_Connected_Client, iocp, link, accepting, disconnecting>>
      /\ Goto(w, "reuse") \/ Goto(w, "acceptInfo")
      /\ pc[w] = "next" /\ Head(batch[w]).io = "Accept"
  BY DEF AcceptCheck, Entry, control, kernel
<1>2. s0 \in Slots /\ batch[w] # <<>>
  BY EntryKnown DEF AcceptCheck, IInv
<1>3. LifeEntry(Head(batch[w]), s0, "up")
  BY <1>1 DEF LifeEntry, Sock
<1>4. Life(s0, "batch", w, j0, "up") /\ j0 \in Nat
  BY <1>1, <1>2, <1>3, HeadToken DEF PendingLabels
<1>5. Phase(link[s0]) = "up"
  BY <1>2, <1>4 DEF Tokens, LifeKnows, Kinds, Holders, Threads, Phases
<1>6. w \in Threads /\ w # App /\ MadeStays
  BY <1>1, WorkerMade, ServerAssumption DEF Threads
<1>7. CASE Goto(w, "acceptInfo")
  BY <1>1, <1>6, <1>7, QuietGoto DEF Quiet, PendingLabels, HoldLabels
<1>8. CASE Goto(w, "reuse")
  <2>1. \A s \in Slots, v \in Workers, j \in Nat, p \in Phases :
           BatchLife(s, v, j, p)' => BatchLife(s, v, j, p) /\ (v = w => j # j0)
    BY <1>8, <1>6, GotoBatch DEF PendingLabels
  <2>2. Sock(w)' = s0
    BY <1>8 DEF Sock, Goto
  <2>3. \A s \in Slots, t \in Workers \cup {App}, p \in Phases :
           ThreadLife(s, t, p)' => \/ t # w /\ ThreadLife(s, t, p)
                                   \/ t = w /\ s = s0 /\ p = "up"
    BY <1>1, <1>6, <1>8, <2>2, GotoThread DEF HoldLabels
  <2>4. \A s \in Slots, i \in Nat, p \in Phases : PortLife(s, i, p)' => PortLife(s, i, p)
    BY <1>1 DEF PortLife
  <2> HIDE DEF s0, j0
  <2>5. Moves(s0, "batch", w, j0, "thread", w, 0, "up")
    BY <1>1, <2>1, <2>3, <2>4 DEF Life, Moves
  <2> QED BY <1>1, <1>2, <1>4, <1>5, <1>6, <2>5, TokenMoved
          DEF IInv, Kinds, Holders, Phases
<1> QED BY <1>1, <1>7, <1>8

\* AddClientSocket: from the completion to the client map.
LEMMA InsertToken ==
    ASSUME IInv, IInv', Tokens, AcceptEntries, NEW w \in Workers, AcceptInsert(w)
    PROVE  Tokens'
<1> DEFINE s0 == Sock(w)
           j0 == Len(batch[w]) - 1
<1>1. /\ Goto(w, "acceptRecv") /\ UNCHANGED <<pool, target, iocp, link, accepting, disconnecting>>
      /\ g_Connected_Client' = g_Connected_Client \cup {s0}
      /\ pc[w] = "acceptInsert" /\ Head(batch[w]).io = "Accept"
  BY DEF AcceptInsert, AcceptEntries, control, kernel
<1>2. s0 \in Slots /\ batch[w] # <<>>
  BY <1>1, SockInSlots, WorkerInHand, ServerAssumption DEF IInv, EntryLabels
<1>3. LifeEntry(Head(batch[w]), s0, "up")
  BY <1>1 DEF LifeEntry, Sock
<1>4. Life(s0, "batch", w, j0, "up") /\ j0 \in Nat
  BY <1>1, <1>2, <1>3, HeadToken DEF PendingLabels
<1>5. Phase(link[s0]) = "up"
  BY <1>2, <1>4 DEF Tokens, LifeKnows, Kinds, Holders, Threads, Phases
<1>6. w \in Threads /\ w # App /\ MadeStays
  BY <1>1, WorkerMade, ServerAssumption DEF Threads
<1>7. \A s \in Slots, v \in Workers, j \in Nat, p \in Phases :
         BatchLife(s, v, j, p)' => BatchLife(s, v, j, p) /\ (v = w => j # j0)
  BY <1>1, <1>6, GotoBatch DEF PendingLabels
<1>8. \A s \in Slots, t \in Workers \cup {App}, p \in Phases :
         ThreadLife(s, t, p)' => ThreadLife(s, t, p)
  BY <1>1, <1>6, GotoThread DEF HoldLabels
<1>9. \A s \in Slots, i \in Nat, p \in Phases : PortLife(s, i, p)' => PortLife(s, i, p)
  BY <1>1 DEF PortLife
<1> HIDE DEF s0, j0
<1>10. Moves(s0, "batch", w, j0, "client", Nobody, 0, "up")
  BY <1>1, <1>7, <1>8, <1>9 DEF Life, Moves
<1> QED BY <1>1, <1>2, <1>4, <1>5, <1>6, <1>10, TokenMoved
        DEF IInv, Kinds, Holders, Phases

-----------------------------------------------------------------------------
(* Delete_in_Socket_List and Reuse_Socket.                                 *)

LEMMA CallerFacts ==
    ASSUME IInv, NEW t \in Workers \cup {App}, pc[t] \in DeleteLabels
    PROVE  /\ Sock(t) \in Slots /\ t \in Threads /\ t \in Holders
           /\ t \in Workers => batch[t] # <<>>
           /\ App \in Threads /\ App \notin Workers /\ pc \in [Threads -> Labels]
<1>1. Sock(t) \in Slots
  BY SockInSlots DEF IInv, EntryLabels
<1>2. t \in Workers => batch[t] # <<>>
  BY DEF IInv, ThreadsOK, WorkersBusy, EntryLabels
<1> QED BY <1>1, <1>2, ServerAssumption DEF Threads, Holders, IInv, ThreadsOK, ThreadTypes

LEMMA CallerMade ==
    ASSUME IInv, NEW t \in Workers \cup {App}, pc[t] \in DeleteLabels,
           UNCHANGED <<pool, target>>, (\E l : Goto(t, l)) \/ Leave(t) \/ UNCHANGED pc
    PROVE  MadeStays
<1>1. CASE t \in Workers
  BY <1>1, WorkerMade
<1>2. CASE t = App
  BY <1>2, MadeByApp DEF DeleteLabels
<1> QED BY <1>1, <1>2

\* The steps that move no token.
LEMMA QuietDelete ==
    ASSUME IInv, IInv', Tokens, NEW t \in Workers \cup {App},
           DeleteFind(t) \/ DeleteUnavailable(t) \/ ReuseConstruct(t)
    PROVE  Tokens'
<1>1. /\ pc[t] \in {"delete", "unavailable", "reuse"} /\ pc[t] \in DeleteLabels
      /\ UNCHANGED <<pool, target>> /\ Quiet
  BY DEF DeleteFind, DeleteUnavailable, ReuseConstruct, DeleteLabels, Quiet, control, kernel
<1>2. /\ Sock(t) \in Slots /\ t \in Threads /\ App \notin Workers
  BY <1>1, CallerFacts
<1>3. CASE UNCHANGED <<pc, batch>>
  <2>1. MadeStays
    BY <1>1, <1>3, CallerMade
  <2>2. \A s \in Slots, v \in Workers, j \in Nat, p \in Phases :
           BatchLife(s, v, j, p)' => BatchLife(s, v, j, p)
    BY <1>3 DEF BatchLife
  <2>3. \A s \in Slots, u \in Workers \cup {App}, p \in Phases :
           ThreadLife(s, u, p)' => ThreadLife(s, u, p)
    BY <1>1, <1>3 DEF ThreadLife, Sock
  <2> QED BY <1>1, <2>1, <2>2, <2>3, QuietStep
<1>4. CASE ~UNCHANGED <<pc, batch>>
  <2>1. \/ DeleteFind(t) /\ Goto(t, "erase")
        \/ DeleteUnavailable(t) /\ Goto(t, "reuse")
        \/ ReuseConstruct(t) /\ Goto(t, "shutdown")
    BY <1>4 DEF DeleteFind, DeleteUnavailable, ReuseConstruct
  <2>2. PICK l \in {"erase", "reuse", "shutdown"} :
           /\ Goto(t, l)
           /\ l \in HoldLabels => pc[t] \in HoldLabels /\ pc[t] # "disconnectEx"
    BY <2>1 DEF DeleteFind, DeleteUnavailable, ReuseConstruct, HoldLabels
  <2>3. l \notin PendingLabels /\ l # "disconnectEx"
    BY DEF PendingLabels
  <2>4. Sock(t)' = Sock(t)
    BY <1>1, <2>2 DEF Sock, Goto
  <2>5. MadeStays
    BY <1>1, <2>2, CallerMade
  <2> QED BY <1>1, <1>2, <2>2, <2>3, <2>4, <2>5, QuietGoto
<1> QED BY <1>3, <1>4

\* From the client map to the thread that erased the client.
LEMMA EraseToken ==
    ASSUME IInv, IInv', Tokens, NEW t \in Workers \cup {App}, DeleteErase(t)
    PROVE  Tokens'
<1> DEFINE s0 == Sock(t)
<1>1. /\ pc[t] = "erase" /\ pc[t] \in DeleteLabels
      /\ Goto(t, "unavailable") /\ UNCHANGED <<pool, target, iocp, link, accepting, disconnecting>>
      /\ s0 \in g_Connected_Client /\ g_Connected_Client' = g_Connected_Client \ {s0}
  BY DEF DeleteErase, DeleteLabels, control, kernel
<1>2. s0 \in Slots /\ t \in Threads /\ t \in Holders /\ MadeStays
  BY <1>1, CallerFacts, CallerMade
<1>3. Life(s0, "client", Nobody, 0, "up")
  BY <1>1 DEF Life
<1>4. Phase(link[s0]) = "up"
  BY <1>2, <1>3 DEF Tokens, LifeKnows, Kinds, Holders, Phases
<1>5. Sock(t)' = s0
  BY <1>1 DEF Sock, Goto
<1>6. \A s \in Slots, v \in Workers, j \in Nat, p \in Phases :
         BatchLife(s, v, j, p)' => BatchLife(s, v, j, p)
  BY <1>1, <1>2, GotoBatch DEF PendingLabels
<1>7. \A s \in Slots, u \in Workers \cup {App}, p \in Phases :
         ThreadLife(s, u, p)' => \/ ThreadLife(s, u, p)
                                 \/ u = t /\ s = s0 /\ p = "up"
  BY <1>1, <1>2, <1>5, GotoThread
<1>8. \A s \in Slots, i \in Nat, p \in Phases : PortLife(s, i, p)' => PortLife(s, i, p)
  BY <1>1 DEF PortLife
<1> HIDE DEF s0
<1>9. Moves(s0, "client", Nobody, 0, "thread", t, 0, "up")
  BY <1>1, <1>6, <1>7, <1>8 DEF Life, Moves
<1> QED BY <1>1, <1>2, <1>3, <1>4, <1>9, TokenMoved DEF IInv, Kinds, Holders, Phases

\* The thread keeps it over the shutdown ...
LEMMA ShutdownToken ==
    ASSUME IInv, IInv', Tokens, NEW t \in Workers \cup {App}, ReuseShutdown(t)
    PROVE  Tokens'
<1> DEFINE s0 == Sock(t)
<1>1. /\ pc[t] = "shutdown" /\ pc[t] \in DeleteLabels /\ Goto(t, "disconnectEx")
      /\ UNCHANGED <<pool, target, iocp, accepting, disconnecting, g_Connected_Client>>
      /\ link' = [link EXCEPT ![s0] = IF @ = "free" THEN @ ELSE "shut"]
  BY DEF ReuseShutdown, DeleteLabels, control, kernel
<1>2. s0 \in Slots /\ t \in Threads /\ t \in Holders /\ MadeStays
  BY <1>1, CallerFacts, CallerMade
<1>3. Life(s0, "thread", t, 0, "up")
  BY <1>1 DEF Life, ThreadLife, HoldLabels
<1>4. Phase(link[s0]) = "up"
  BY <1>2, <1>3 DEF Tokens, LifeKnows, Kinds, Phases
<1>5. /\ Phase(link'[s0]) = "shut" /\ \A s \in Slots : s # s0 => link'[s] = link[s]
  BY <1>1, <1>2, <1>4 DEF Phase, IInv, KernelTypes
<1>6. Sock(t)' = s0
  BY <1>1 DEF Sock, Goto
<1>7. \A s \in Slots, v \in Workers, j \in Nat, p \in Phases :
         BatchLife(s, v, j, p)' => BatchLife(s, v, j, p)
  BY <1>1, <1>2, GotoBatch DEF PendingLabels
<1>8. \A s \in Slots, u \in Workers \cup {App}, p \in Phases :
         ThreadLife(s, u, p)' => \/ ThreadLife(s, u, p) /\ u # t
                                 \/ u = t /\ s = s0 /\ p = "shut"
  BY <1>1, <1>2, <1>6, GotoThread
<1>9. \A s \in Slots, i \in Nat, p \in Phases : PortLife(s, i, p)' => PortLife(s, i, p)
  BY <1>1 DEF PortLife
<1> HIDE DEF s0
<1>10. Moves(s0, "thread", t, 0, "thread", t, 0, "shut")
  BY <1>1, <1>7, <1>8, <1>9 DEF Life, Moves
<1> QED BY <1>1, <1>2, <1>3, <1>5, <1>10, TokenMoved DEF IInv, Kinds, Phases

\* ... and gives it to DisconnectEx, which has no reason to refuse it.
LEMMA DisconnectAccepted ==
    ASSUME IInv, Tokens, NEW t \in Workers \cup {App}, pc[t] = "disconnectEx"
    PROVE  link[Sock(t)] = "shut" /\ Sock(t) \notin disconnecting
<1>1. Sock(t) \in Slots /\ t \in Holders
  BY CallerFacts DEF DeleteLabels
<1>2. Life(Sock(t), "thread", t, 0, "shut")
  BY DEF Life, ThreadLife, HoldLabels
<1>3. Phase(link[Sock(t)]) = "shut"
  BY <1>1, <1>2 DEF Tokens, LifeKnows, Kinds, Phases
<1>4. ASSUME Sock(t) \in disconnecting PROVE FALSE
  <2>1. Life(Sock(t), "disconnect", Nobody, 0, "shut")
    BY <1>4 DEF Life
  <2> QED BY <1>1, <1>2, <2>1 DEF Tokens, OneLife, Kinds, Holders, Phases
<1> QED BY <1>3, <1>4 DEF Phase

LEMMA ReuseToken ==
    ASSUME IInv, IInv', Tokens, NEW t \in Workers \cup {App}, ReuseDisconnect(t)
    PROVE  Tokens'
<1> DEFINE s0 == Sock(t)
<1>0. pc[t] = "disconnectEx" /\ pc[t] \in DeleteLabels
  BY DEF ReuseDisconnect, DeleteLabels
<1>1. /\ Leave(t) /\ disconnecting' \subseteq disconnecting \cup {s0}
      /\ UNCHANGED <<pool, target, iocp, link, accepting, g_Connected_Client>>
  BY DEF ReuseDisconnect, DisconnectEx, control
<1>2. s0 \in Slots /\ t \in Threads /\ t \in Holders /\ MadeStays
      /\ (t \in Workers => batch[t] # <<>>)
  BY <1>0, <1>1, CallerFacts, CallerMade
<1>3. Life(s0, "thread", t, 0, "shut")
  BY <1>0 DEF Life, ThreadLife, HoldLabels
<1>4. Phase(link[s0]) = "shut"
  BY <1>2, <1>3 DEF Tokens, LifeKnows, Kinds, Phases
<1>5. \A s \in Slots, v \in Workers, j \in Nat, p \in Phases :
         BatchLife(s, v, j, p)' => BatchLife(s, v, j, p)
  <2>1. CASE t \in Workers
    BY <1>1, <1>2, <2>1, LeaveBatch
  <2>2. CASE t \notin Workers
    BY <1>1, <1>2, <2>2, GotoBatch DEF Leave
  <2> QED BY <2>1, <2>2
<1>6. \A s \in Slots, u \in Workers \cup {App}, p \in Phases :
         ThreadLife(s, u, p)' => u # t /\ ThreadLife(s, u, p)
  BY <1>1, LeaveThread
<1>7. \A s \in Slots, i \in Nat, p \in Phases : PortLife(s, i, p)' => PortLife(s, i, p)
  BY <1>1 DEF PortLife
<1> HIDE DEF s0
<1>8. Moves(s0, "thread", t, 0, "disconnect", Nobody, 0, "shut")
  BY <1>1, <1>5, <1>6, <1>7 DEF Life, Moves
<1> QED BY <1>1, <1>2, <1>3, <1>4, <1>8, TokenMoved DEF IInv, Kinds, Phases

-----------------------------------------------------------------------------
(* The completion port.                                                    *)

LEMMA PortFacts ==
    ASSUME IInv, NEW w \in Workers
    PROVE  /\ iocp \in Seq(Completions) /\ Len(iocp) \in Nat
           /\ batch \in [Workers -> Seq(Completions)] /\ pc \in [Threads -> Labels]
           /\ w \in Threads /\ Workers \cup {App} \subseteq Threads /\ w # App
<1>1. iocp \in Seq(Completions) /\ Len(iocp) \in Nat
  BY DEF IInv, KernelTypes
<1>2. batch \in [Workers -> Seq(Completions)] /\ pc \in [Threads -> Labels]
  BY DEF IInv, ThreadsOK, ThreadTypes
<1>3. w \in Threads /\ Workers \cup {App} \subseteq Threads /\ w # App
  BY ServerAssumption DEF Threads
<1> QED BY <1>1, <1>2, <1>3

\* A batch takes the tokens of its entries with it, and the rest of the port moves up.
LEMMA TakeTokens ==
    ASSUME IInv, IInv', Tokens, NEW w \in Workers, GetQueuedCompletionStatusEx(w)
    PROVE  Tokens'
<1> DEFINE n == Taken
<1>1. /\ iocp \in Seq(Completions) /\ Len(iocp) \in Nat
      /\ batch \in [Workers -> Seq(Completions)] /\ pc \in [Threads -> Labels]
      /\ w \in Threads /\ Workers \cup {App} \subseteq Threads /\ w # App
  BY PortFacts
<1>2. n \in Nat /\ n <= Len(iocp)
  BY <1>1, ServerAssumption DEF Taken
<1>3. /\ batch' = [batch EXCEPT ![w] = SubSeq(iocp, 1, n)]
      /\ iocp' = SubSeq(iocp, n + 1, Len(iocp)) /\ pc' = [pc EXCEPT ![w] = "next"]
      /\ UNCHANGED <<pool, target, g_Connected_Client, link, accepting, disconnecting>>
  BY DEF GetQueuedCompletionStatusEx, control
<1> HIDE DEF n
<1>4. /\ Len(SubSeq(iocp, 1, n)) = n
      /\ \A i \in 1..n : SubSeq(iocp, 1, n)[i] = iocp[i]
  BY <1>1, <1>2
<1>5. /\ Len(iocp') = Len(iocp) - n
      /\ \A i \in 1..(Len(iocp) - n) : iocp'[i] = iocp[i + n]
  <2>1. /\ Len(SubSeq(iocp, n + 1, Len(iocp))) = Len(iocp) - n
        /\ \A i \in 1..(Len(iocp) - n) : SubSeq(iocp, n + 1, Len(iocp))[i] = iocp[i + n]
    BY <1>1, <1>2
  <2> QED BY <1>3, <2>1
<1>6. \A s \in Slots, i \in Nat, p \in Phases :
         PortLife(s, i, p)' => i > 0 /\ i + n \in Nat /\ PortLife(s, i + n, p)
  <2> SUFFICES ASSUME NEW s \in Slots, NEW i \in Nat, NEW p \in Phases, PortLife(s, i, p)'
               PROVE  i > 0 /\ i + n \in Nat /\ PortLife(s, i + n, p)
      OBVIOUS
  <2>1. i \in 1..(Len(iocp) - n) /\ LifeEntry(iocp'[i], s, p)
    BY <1>5 DEF PortLife
  <2>2. iocp'[i] = iocp[i + n]
    BY <1>5, <2>1
  <2>3. i > 0 /\ i + n \in 1..Len(iocp)
    BY <1>1, <1>2, <2>1
  <2> QED BY <1>2, <2>1, <2>2, <2>3 DEF PortLife
<1>7. \A s \in Slots, v \in Workers, j \in Nat, p \in Phases :
         BatchLife(s, v, j, p)' =>
            \/ v # w /\ BatchLife(s, v, j, p)
            \/ v = w /\ j < n /\ n - j \in Nat /\ PortLife(s, n - j, p)
  <2> SUFFICES ASSUME NEW s \in Slots, NEW v \in Workers, NEW j \in Nat, NEW p \in Phases,
                      BatchLife(s, v, j, p)'
               PROVE  \/ v # w /\ BatchLife(s, v, j, p)
                      \/ v = w /\ j < n /\ n - j \in Nat /\ PortLife(s, n - j, p)
      OBVIOUS
  <2>1. CASE v # w
    BY <1>1, <1>3, <2>1 DEF BatchLife
  <2>2. CASE v = w
    <3>1. batch'[v] = SubSeq(iocp, 1, n)
      BY <1>1, <1>3, <2>2
    <3>2. j < n /\ LifeEntry(SubSeq(iocp, 1, n)[n - j], s, p)
      BY <1>4, <3>1 DEF BatchLife
    <3>3. n - j \in 1..n /\ n - j \in 1..Len(iocp) /\ n - j \in Nat
      BY <1>1, <1>2, <3>2
    <3> QED BY <1>4, <2>2, <3>2, <3>3 DEF PortLife
  <2> QED BY <2>1, <2>2
<1>8. \A s \in Slots, t \in Workers \cup {App}, p \in Phases :
         ThreadLife(s, t, p)' => ThreadLife(s, t, p)
  <2>1. \A t \in Workers \cup {App} : t # w => pc'[t] = pc[t] /\ Sock(t)' = Sock(t)
    BY <1>1, <1>3 DEF Sock
  <2>2. pc'[w] \notin HoldLabels
    BY <1>1, <1>3 DEF HoldLabels
  <2> QED BY <2>1, <2>2 DEF ThreadLife
<1>9. \A s \in Slots, k \in Kinds, t \in Holders, i \in Nat, p \in Phases :
         Life(s, k, t, i, p)' =>
            \/ k # "port" /\ (k = "batch" => t # w) /\ Life(s, k, t, i, p)
            \/ k = "port" /\ t = Nobody /\ i > 0 /\ Life(s, "port", Nobody, i + n, p)
            \/ k = "batch" /\ t = w /\ i < n /\ Life(s, "port", Nobody, n - i, p)
  BY <1>3, <1>6, <1>7, <1>8 DEF Life
<1>10. OneLife'
  <2> SUFFICES ASSUME NEW s \in Slots, NEW ka \in Kinds, NEW kb \in Kinds,
                      NEW ta \in Holders, NEW tb \in Holders, NEW ia \in Nat, NEW ib \in Nat,
                      NEW pa \in Phases, NEW pb \in Phases,
                      Life(s, ka, ta, ia, pa)', Life(s, kb, tb, ib, pb)'
               PROVE  ka = kb /\ ta = tb /\ ia = ib
      BY DEF OneLife
  <2> DEFINE Stays(k, t, i, p) ==
                k # "port" /\ (k = "batch" => t # w) /\ Life(s, k, t, i, p)
             Rest(k, t, i, p) ==
                k = "port" /\ t = Nobody /\ i > 0 /\ Life(s, "port", Nobody, i + n, p)
             Gets(k, t, i, p) ==
                k = "batch" /\ t = w /\ i < n /\ Life(s, "port", Nobody, n - i, p)
  <2>1. Stays(ka, ta, ia, pa) \/ Rest(ka, ta, ia, pa) \/ Gets(ka, ta, ia, pa)
    BY <1>9
  <2>2. Stays(kb, tb, ib, pb) \/ Rest(kb, tb, ib, pb) \/ Gets(kb, tb, ib, pb)
    BY <1>9
  <2>3. \A i \in Nat : i + n \in Nat /\ (i < n => n - i \in Nat)
    BY <1>2
  <2>4. "port" \in Kinds /\ Nobody \in Holders
    BY DEF Kinds, Holders
  <2>5. OneLife
    BY DEF Tokens
  <2>6. CASE Stays(ka, ta, ia, pa)
    <3>1. ~Rest(kb, tb, ib, pb) /\ ~Gets(kb, tb, ib, pb)
      BY <2>3, <2>4, <2>5, <2>6 DEF OneLife
    <3> QED BY <2>2, <2>5, <2>6, <3>1 DEF OneLife
  <2>7. CASE Rest(ka, ta, ia, pa)
    <3>1. ~Stays(kb, tb, ib, pb)
      BY <2>3, <2>4, <2>5, <2>7 DEF OneLife
    <3>2. Gets(kb, tb, ib, pb) => ia + n = n - ib
      BY <2>3, <2>4, <2>5, <2>7 DEF OneLife
    <3>3. ~Gets(kb, tb, ib, pb)
      BY <1>2, <2>7, <3>2
    <3>4. Rest(kb, tb, ib, pb)
      BY <2>2, <3>1, <3>3
    <3>5. ia + n = ib + n
      BY <2>3, <2>4, <2>5, <2>7, <3>4 DEF OneLife
    <3> QED BY <1>2, <2>7, <3>4, <3>5
  <2>8. CASE Gets(ka, ta, ia, pa)
    <3>1. ~Stays(kb, tb, ib, pb)
      BY <2>3, <2>4, <2>5, <2>8 DEF OneLife
    <3>2. Rest(kb, tb, ib, pb) => ib + n = n - ia
      BY <2>3, <2>4, <2>5, <2>8 DEF OneLife
    <3>3. ~Rest(kb, tb, ib, pb)
      BY <1>2, <3>2
    <3>4. Gets(kb, tb, ib, pb)
      BY <2>2, <3>1, <3>3
    <3>5. n - ia = n - ib
      BY <2>3, <2>4, <2>5, <2>8, <3>4 DEF OneLife
    <3> QED BY <1>2, <2>8, <3>4, <3>5
  <2> QED BY <2>1, <2>6, <2>7, <2>8
<1>11. \A s \in Slots, k \in Kinds, t \in Holders, i \in Nat, p \in Phases :
          Life(s, k, t, i, p)' => Phase(link[s]) = p /\ Made(s)
  <2>1. \A i \in Nat : i + n \in Nat /\ (i < n => n - i \in Nat)
    BY <1>2
  <2>2. "port" \in Kinds /\ Nobody \in Holders
    BY DEF Kinds, Holders
  <2> QED BY <1>9, <2>1, <2>2 DEF Tokens, LifeKnows, OnlyMade
<1>12. LifeKnows'
  BY <1>3, <1>11 DEF LifeKnows
<1>13. OnlyMade'
  <2>1. \A s \in Slots : Made(s) => Made(s)'
    BY <1>1, <1>3 DEF Made
  <2>2. \A s \in Slots : link[s] # "free" => Made(s)
    BY DEF Tokens, OnlyMade, Kinds, Holders, Phases
  <2> QED BY <1>3, <1>11, <2>1, <2>2 DEF OnlyMade
<1> QED BY <1>10, <1>12, <1>13 DEF Tokens

\* A worker that exits leaves its entries, and their tokens, behind.
LEMMA ExitTokens ==
    ASSUME IInv, IInv', Tokens, NEW w \in Workers, ExitThread(w)
    PROVE  Tokens'
<1>1. /\ iocp \in Seq(Completions) /\ Len(iocp) \in Nat
      /\ batch \in [Workers -> Seq(Completions)] /\ pc \in [Threads -> Labels]
      /\ w \in Threads /\ Workers \cup {App} \subseteq Threads /\ w # App
  BY PortFacts
<1>2. /\ batch' = [batch EXCEPT ![w] = <<>>] /\ Head(batch[w]).io = "Exit"
      /\ iocp' = Append(iocp, Head(batch[w])) /\ pc' = [pc EXCEPT ![w] = "exited"]
      /\ UNCHANGED <<pool, target, g_Connected_Client, link, accepting, disconnecting>>
  BY DEF ExitThread, Entry
<1>3. \A s \in Slots, i \in Nat, p \in Phases : PortLife(s, i, p)' => PortLife(s, i, p)
  BY <1>1, <1>2 DEF PortLife, LifeEntry
<1>4. \A s \in Slots, v \in Workers, j \in Nat, p \in Phases :
         BatchLife(s, v, j, p)' => BatchLife(s, v, j, p)
  BY <1>1, <1>2 DEF BatchLife
<1>5. \A s \in Slots, t \in Workers \cup {App}, p \in Phases :
         ThreadLife(s, t, p)' => ThreadLife(s, t, p)
  <2>1. \A t \in Workers \cup {App} : t # w => pc'[t] = pc[t] /\ Sock(t)' = Sock(t)
    BY <1>1, <1>2 DEF Sock
  <2>2. pc'[w] \notin HoldLabels
    BY <1>1, <1>2 DEF HoldLabels
  <2> QED BY <2>1, <2>2 DEF ThreadLife
<1>6. \A s \in Slots, k \in Kinds, t \in Holders, i \in Nat, p \in Phases :
         Life(s, k, t, i, p)' => Life(s, k, t, i, p)
  BY <1>2, <1>3, <1>4, <1>5 DEF Life
<1>7. MadeStays
  BY <1>1, <1>2, MadeByOthers
<1> QED BY <1>2, <1>6, <1>7, TokensKept DEF IInv

-----------------------------------------------------------------------------
(* Winsock, the application and the send thread.                           *)

\* A completion at the end of the port.
LEMMA PortAppend ==
    ASSUME IInv, NEW c, iocp' = Append(iocp, c)
    PROVE  /\ \A s \in Slots, i \in Nat, p \in Phases :
                PortLife(s, i, p)' => \/ PortLife(s, i, p)
                                      \/ i = Len(iocp) + 1 /\ LifeEntry(c, s, p)
           /\ Len(iocp) + 1 \in Nat
<1>1. iocp \in Seq(Completions) /\ Len(iocp) \in Nat
  BY DEF IInv, KernelTypes
<1>2. /\ Len(Append(iocp, c)) = Len(iocp) + 1
      /\ \A i \in 1..Len(iocp) : Append(iocp, c)[i] = iocp[i]
      /\ Append(iocp, c)[Len(iocp) + 1] = c
  BY <1>1
<1> SUFFICES ASSUME NEW s \in Slots, NEW i \in Nat, NEW p \in Phases, PortLife(s, i, p)'
             PROVE  PortLife(s, i, p) \/ (i = Len(iocp) + 1 /\ LifeEntry(c, s, p))
    BY <1>1
<1>3. i \in 1..(Len(iocp) + 1) /\ LifeEntry(Append(iocp, c)[i], s, p)
  BY <1>2 DEF PortLife
<1>4. CASE i = Len(iocp) + 1
  BY <1>2, <1>3, <1>4
<1>5. CASE i \in 1..Len(iocp)
  BY <1>2, <1>3, <1>5 DEF PortLife
<1> QED BY <1>1, <1>3, <1>4, <1>5

\* Nothing happens in the threads.
LEMMA ThreadsStill ==
    ASSUME UNCHANGED <<pc, batch, target>>
    PROVE  /\ \A s \in Slots, w \in Workers, j \in Nat, p \in Phases :
                BatchLife(s, w, j, p)' => BatchLife(s, w, j, p)
           /\ \A s \in Slots, t \in Workers \cup {App}, p \in Phases :
                ThreadLife(s, t, p)' => ThreadLife(s, t, p)
BY DEF BatchLife, ThreadLife, Sock

LEMMA NetworkTokens ==
    ASSUME IInv, IInv', Tokens, Network
    PROVE  Tokens'
<1>1. UNCHANGED <<pool, pc, batch, target, g_Connected_Client>>
  BY DEF Network, control
<1>2. MadeStays
  BY <1>1, MadeByOthers
<1>3. /\ \A s \in Slots, w \in Workers, j \in Nat, p \in Phases :
           BatchLife(s, w, j, p)' => BatchLife(s, w, j, p)
      /\ \A s \in Slots, t \in Workers \cup {App}, p \in Phases :
           ThreadLife(s, t, p)' => ThreadLife(s, t, p)
  BY <1>1, ThreadsStill
<1>4. link \in [Slots -> {"free", "open", "closed", "shut"}]
  BY DEF IInv, KernelTypes
<1>5. ASSUME NEW s0 \in Slots, ClientConnects(s0) PROVE Tokens'
  <2> DEFINE c == [io |-> "Accept", sock |-> s0, n |-> "zero", serial |-> serial[s0] + 1]
             i1 == Len(iocp) + 1
  <2>1. /\ s0 \in accepting /\ accepting' = accepting \ {s0} /\ disconnecting' = disconnecting
        /\ link' = [link EXCEPT ![s0] = "open"] /\ iocp' = Append(iocp, c)
    BY <1>5 DEF ClientConnects
  <2>2. Life(s0, "accept", Nobody, 0, "free")
    BY <2>1 DEF Life
  <2>3. \A s, p : LifeEntry(c, s, p) => s = s0 /\ p = "up"
    BY DEF LifeEntry
  <2> HIDE DEF c
  <2>4. \A s \in Slots, i \in Nat, p \in Phases :
           PortLife(s, i, p)' => PortLife(s, i, p) \/ (i = i1 /\ s = s0 /\ p = "up")
    BY <2>1, <2>3, PortAppend
  <2>5. Phase(link'[s0]) = "up" /\ \A s \in Slots : s # s0 => link'[s] = link[s]
    BY <1>4, <2>1 DEF Phase
  <2> HIDE DEF i1
  <2>6. Moves(s0, "accept", Nobody, 0, "port", Nobody, i1, "up")
    BY <1>1, <1>3, <2>1, <2>4 DEF Life, Moves
  <2> QED BY <1>2, <2>2, <2>5, <2>6, TokenMoved DEF IInv, Kinds, Holders, Phases
<1>6. ASSUME NEW s0 \in Slots, ClientCloses(s0) PROVE Tokens'
  <2>1. \A s \in Slots : Phase(link'[s]) = Phase(link[s])
    BY <1>4, <1>6 DEF ClientCloses, Phase
  <2>2. Quiet
    BY <1>1, <1>6, <2>1 DEF ClientCloses, Quiet
  <2> QED BY <1>2, <1>3, <2>2, QuietStep
<1>7. ASSUME NEW s0 \in Slots, RecvCompletes(s0) \/ SendCompletes(s0) PROVE Tokens'
  <2>1. PICK io \in {"Recv", "Send"}, n \in {"zero", "good", "bad"} :
           iocp' = Append(iocp, Completion(io, s0, n))
    BY <1>7 DEF RecvCompletes, SendCompletes
  <2>2. \A s, p : ~LifeEntry(Completion(io, s0, n), s, p)
    BY <2>1 DEF LifeEntry, Completion
  <2>3. \A s \in Slots, i \in Nat, p \in Phases : PortLife(s, i, p)' => PortLife(s, i, p)
    BY <2>1, <2>2, PortAppend
  <2>4. UNCHANGED <<link, accepting, disconnecting>>
    BY <1>7 DEF RecvCompletes, SendCompletes
  <2>5. \A s \in Slots, k \in Kinds, t \in Holders, i \in Nat, p \in Phases :
           Life(s, k, t, i, p)' => Life(s, k, t, i, p)
    BY <1>1, <1>3, <2>3, <2>4 DEF Life
  <2> QED BY <1>2, <2>4, <2>5, TokensKept DEF IInv
<1>8. ASSUME NEW s0 \in Slots, DisconnectCompletes(s0) PROVE Tokens'
  <2> DEFINE c == Completion("Disconnect", s0, "zero")
             i1 == Len(iocp) + 1
  <2>1. /\ s0 \in disconnecting /\ disconnecting' = disconnecting \ {s0} /\ accepting' = accepting
        /\ link' = [link EXCEPT ![s0] = "free"] /\ iocp' = Append(iocp, c)
    BY <1>8 DEF DisconnectCompletes
  <2>2. Life(s0, "disconnect", Nobody, 0, "shut")
    BY <2>1 DEF Life
  <2>3. \A s, p : LifeEntry(c, s, p) => s = s0 /\ p = "free"
    BY DEF LifeEntry, Completion
  <2> HIDE DEF c
  <2>4. \A s \in Slots, i \in Nat, p \in Phases :
           PortLife(s, i, p)' => PortLife(s, i, p) \/ (i = i1 /\ s = s0 /\ p = "free")
    BY <2>1, <2>3, PortAppend
  <2>5. Phase(link'[s0]) = "free" /\ \A s \in Slots : s # s0 => link'[s] = link[s]
    BY <1>4, <2>1 DEF Phase
  <2> HIDE DEF i1
  <2>6. Moves(s0, "disconnect", Nobody, 0, "port", Nobody, i1, "free")
    BY <1>1, <1>3, <2>1, <2>4 DEF Life, Moves
  <2> QED BY <1>2, <2>2, <2>5, <2>6, TokenMoved DEF IInv, Kinds, Holders, Phases
<1> QED BY <1>5, <1>6, <1>7, <1>8 DEF Network, IOCompletes

LEMMA SenderTokens ==
    ASSUME IInv, IInv', Tokens, SendThread
    PROVE  Tokens'
<1>1. Quiet /\ UNCHANGED pool
  BY DEF SendThread, SendFind, SendChunk, SendRelease, SendEmpty, SendTest, Quiet, kernel, control
<1>2. /\ Sender \in Threads /\ Sender # App /\ Sender \notin Workers
      /\ App \in Threads /\ pc \in [Threads -> Labels]
      /\ target \in [{App, Sender} -> Slots \cup {Nobody}]
  BY ServerAssumption DEF Threads, IInv, ThreadsOK, ThreadTypes
<1>3. target'[App] = target[App]
  BY <1>2 DEF SendThread, SendFind, SendChunk, SendRelease, SendEmpty, SendTest, control
<1>4. CASE UNCHANGED <<pc, batch, target>>
  BY <1>1, <1>4, MadeByOthers, ThreadsStill, QuietStep
<1>5. ASSUME NEW l \in {"sending", "sent", "sendFailed", "poll", "test", "exited"}, Goto(Sender, l)
      PROVE  Tokens'
  <2>1. pc'[App] = pc[App]
    BY <1>2, <1>5 DEF Goto
  <2>2. MadeStays
    BY <1>1, <1>3, <2>1, MadeByOthers
  <2>3. l \notin HoldLabels
    BY DEF HoldLabels
  <2> QED BY <1>1, <1>2, <1>3, <1>5, <2>2, <2>3, QuietGoto
<1>6. \/ UNCHANGED <<pc, batch, target>>
      \/ \E l \in {"sending", "sent", "sendFailed", "poll", "test", "exited"} : Goto(Sender, l)
  BY DEF SendThread, SendFind, SendChunk, SendRelease, SendEmpty, SendTest
<1> QED BY <1>4, <1>5, <1>6

\* CreateSocket gives a slot its first token.
LEMMA CreateToken ==
    ASSUME IInv, IInv', Tokens, NEW s0 \in Slots, CreateSocket(s0)
    PROVE  Tokens'
<1>1. /\ pc[App] = "start" /\ s0 \notin pool /\ accepting' = accepting \cup {s0}
      /\ target' = [target EXCEPT ![App] = s0] /\ Goto(App, "insert")
      /\ UNCHANGED <<pool, g_Connected_Client, iocp, link, disconnecting>>
  BY DEF CreateSocket
<1>2. /\ App \in Threads /\ App \notin Workers /\ pc \in [Threads -> Labels]
      /\ target \in [{App, Sender} -> Slots \cup {Nobody}]
  BY ServerAssumption DEF Threads, IInv, ThreadsOK, ThreadTypes
<1>3. ~Made(s0)
  BY <1>1 DEF Made
<1>4. /\ link[s0] = "free"
      /\ \A k \in Kinds, t \in Holders, i \in Nat, p \in Phases : ~Life(s0, k, t, i, p)
  BY <1>3 DEF Tokens, OnlyMade, Kinds, Holders, Phases
<1>5. \A s \in Slots, w \in Workers, j \in Nat, p \in Phases :
         BatchLife(s, w, j, p)' => BatchLife(s, w, j, p)
  BY <1>1, <1>2, GotoBatch
<1>6. \A s \in Slots, t \in Workers \cup {App}, p \in Phases :
         ThreadLife(s, t, p)' => ThreadLife(s, t, p)
  BY <1>1, <1>2, GotoThread DEF HoldLabels
<1>7. \A s \in Slots, i \in Nat, p \in Phases : PortLife(s, i, p)' => PortLife(s, i, p)
  BY <1>1 DEF PortLife
<1>8. \A s \in Slots, k \in Kinds, t \in Holders, i \in Nat, p \in Phases :
         Life(s, k, t, i, p)' =>
            \/ s # s0 /\ Life(s, k, t, i, p)
            \/ s = s0 /\ k = "accept" /\ t = Nobody /\ i = 0 /\ p = "free"
  <2>1. \A s \in Slots, k \in Kinds, t \in Holders, i \in Nat, p \in Phases :
           Life(s, k, t, i, p)' =>
              \/ Life(s, k, t, i, p)
              \/ s = s0 /\ k = "accept" /\ t = Nobody /\ i = 0 /\ p = "free"
    BY <1>1, <1>5, <1>6, <1>7 DEF Life
  <2>2. \A s \in Slots, k \in Kinds, t \in Holders, i \in Nat, p \in Phases :
           Life(s, k, t, i, p) => s # s0
    BY <1>4
  <2> QED BY <2>1, <2>2
<1>9. OneLife'
  BY <1>8 DEF Tokens, OneLife
<1>10. LifeKnows'
  BY <1>1, <1>4, <1>8 DEF Tokens, LifeKnows, Phase
<1>11. Made(s0)' /\ MadeStays
  <2>1. pc'[App] = "insert" /\ target'[App] = s0
    BY <1>1, <1>2 DEF Goto
  <2> QED BY <1>1, <2>1, MadeByApp DEF Made
<1>12. OnlyMade'
  <2> SUFFICES ASSUME NEW s \in Slots, NEW k \in Kinds, NEW t \in Holders, NEW i \in Nat,
                      NEW p \in Phases, Life(s, k, t, i, p)' \/ link'[s] # "free"
               PROVE  Made(s)'
      BY DEF OnlyMade
  <2>1. CASE s = s0
    BY <1>11, <2>1 DEF Made
  <2>2. CASE s # s0
    BY <1>1, <1>8, <1>11, <2>2 DEF Tokens, OnlyMade, MadeStays
  <2> QED BY <2>1, <2>2
<1> QED BY <1>9, <1>10, <1>12 DEF Tokens

LEMMA ApplicationTokens ==
    ASSUME IInv, IInv', Tokens,
           \/ \E s \in Slots : Disconnect(s) \/ Target_Message(s)
           \/ AcceptFails \/ InsertSocket \/ StartSendThread \/ End \/ EndJoined
    PROVE  Tokens'
<1>1. /\ App \in Threads /\ Sender \in Threads /\ App \notin Workers /\ Sender \notin Workers
      /\ App # Sender /\ pc \in [Threads -> Labels] /\ Workers \subseteq Threads
  BY ServerAssumption DEF Threads, IInv, ThreadsOK, ThreadTypes
<1>2. CASE \E s \in Slots : Target_Message(s)
  <2>1. UNCHANGED <<pool, pc, batch, target>> /\ Quiet
    BY <1>2 DEF Target_Message, Quiet, kernel
  <2> QED BY <2>1, MadeByOthers, ThreadsStill, QuietStep
<1>3. CASE (\E s \in Slots : Disconnect(s)) \/ AcceptFails \/ EndJoined
  <2>1. PICK l \in {"delete", "idle", "ended"} : Goto(App, l)
    BY <1>3 DEF Disconnect, AcceptFails, EndJoined
  <2>2. Quiet /\ MadeStays
    BY <1>3, MadeByApp DEF Disconnect, AcceptFails, EndJoined, Quiet, kernel, control
  <2>3. l \notin HoldLabels
    BY DEF HoldLabels
  <2> QED BY <1>1, <2>1, <2>2, <2>3, QuietGoto
<1>4. CASE InsertSocket
  <2>1. Goto(App, "start") /\ Quiet
    BY <1>4 DEF InsertSocket, Quiet, kernel
  <2>2. MadeStays
    BY <1>4 DEF InsertSocket, MadeStays, Made
  <2> QED BY <1>1, <2>1, <2>2, QuietGoto DEF HoldLabels
<1>5. CASE StartSendThread
  <2>1. /\ pc' = [pc EXCEPT ![App] = "idle", ![Sender] = "test"] /\ batch' = batch
        /\ target' = target /\ Quiet /\ MadeStays
    BY <1>5, MadeByApp DEF StartSendThread, Quiet, kernel, control
  <2>2. pc'[App] = "idle" /\ \A w \in Workers : pc'[w] = pc[w]
    BY <1>1, <2>1
  <2>3. \A s \in Slots, w \in Workers, j \in Nat, p \in Phases :
           BatchLife(s, w, j, p)' => BatchLife(s, w, j, p)
    BY <2>1, <2>2 DEF BatchLife
  <2>4. \A s \in Slots, t \in Workers \cup {App}, p \in Phases :
           ThreadLife(s, t, p)' => ThreadLife(s, t, p)
    BY <2>1, <2>2 DEF ThreadLife, Sock, HoldLabels
  <2> QED BY <2>1, <2>3, <2>4, QuietStep
<1>6. CASE End
  <2>1. /\ Goto(App, "join") /\ iocp' = Append(iocp, ExitCompletion) /\ pc[App] = "idle"
        /\ UNCHANGED <<pool, target, g_Connected_Client, link, accepting, disconnecting>>
    BY <1>6 DEF End
  <2>2. \A s, p : ~LifeEntry(ExitCompletion, s, p)
    BY DEF LifeEntry, ExitCompletion
  <2>3. \A s \in Slots, i \in Nat, p \in Phases : PortLife(s, i, p)' => PortLife(s, i, p)
    BY <2>1, <2>2, PortAppend
  <2>4. \A s \in Slots, w \in Workers, j \in Nat, p \in Phases :
           BatchLife(s, w, j, p)' => BatchLife(s, w, j, p)
    BY <1>1, <2>1, GotoBatch
  <2>5. \A s \in Slots, t \in Workers \cup {App}, p \in Phases :
           ThreadLife(s, t, p)' => ThreadLife(s, t, p)
    BY <1>1, <2>1, GotoThread DEF HoldLabels
  <2>6. \A s \in Slots, k \in Kinds, t \in Holders, i \in Nat, p \in Phases :
           Life(s, k, t, i, p)' => Life(s, k, t, i, p)
    BY <2>1, <2>3, <2>4, <2>5 DEF Life
  <2> QED BY <2>1, <2>6, MadeByApp, TokensKept DEF IInv
<1> QED BY <1>2, <1>3, <1>4, <1>5, <1>6

-----------------------------------------------------------------------------
(* The theorems.                                                           *)

LEMMA WorkerTokens ==
    ASSUME IInv, IInv', Tokens, AcceptEntries, NEW w \in Workers, WorkThread(w)
    PROVE  Tokens'
<1>1. CASE GetQueuedCompletionStatusEx(w) \/ ExitThread(w)
  BY <1>1, TakeTokens, ExitTokens
<1>2. CASE \/ DisconnectAvailable(w) \/ ZeroBytes(w) \/ DropClient(w) \/ Discard(w)
           \/ IOFunction_Send(w) \/ IOFunction_Recv(w) \/ Rearm(w) \/ AcceptInfo(w)
           \/ AcceptFind(w) \/ AcceptRecv(w) \/ AcceptAvailable(w)
  BY <1>2, QuietWorker
<1>3. CASE IOFunction_Disconnect(w) \/ AcceptCheck(w) \/ AcceptInsert(w)
  BY <1>3, DisconnectToken, RefuseToken, InsertToken
<1>4. CASE DeleteFind(w) \/ DeleteUnavailable(w) \/ ReuseConstruct(w)
  BY <1>4, QuietDelete
<1>5. CASE DeleteErase(w) \/ ReuseShutdown(w) \/ ReuseDisconnect(w)
  BY <1>5, EraseToken, ShutdownToken, ReuseToken
<1> QED BY <1>1, <1>2, <1>3, <1>4, <1>5 DEF WorkThread, DeleteAndReuse

LEMMA AppTokens ==
    ASSUME IInv, IInv', Tokens, Application
    PROVE  Tokens'
<1>1. ASSUME NEW s \in Slots, CreateSocket(s) PROVE Tokens'
  BY <1>1, CreateToken
<1>2. CASE \/ \E s \in Slots : Disconnect(s) \/ Target_Message(s)
           \/ AcceptFails \/ InsertSocket \/ StartSendThread \/ End \/ EndJoined
  BY <1>2, ApplicationTokens
<1>3. CASE DeleteFind(App) \/ DeleteUnavailable(App) \/ ReuseConstruct(App)
  BY <1>3, QuietDelete
<1>4. CASE DeleteErase(App) \/ ReuseShutdown(App) \/ ReuseDisconnect(App)
  BY <1>4, EraseToken, ShutdownToken, ReuseToken
<1> QED BY <1>1, <1>2, <1>3, <1>4 DEF Application, DeleteAndReuse

\* How a worker moves: by itself, and to the steps of an accept only with an accept.
LEMMA WorkerMoves ==
    ASSUME IInv, AcceptEntries, NEW w \in Workers, WorkThread(w)
    PROVE  /\ UNCHANGED target
           /\ \A t \in Threads : t # w => pc'[t] = pc[t]
           /\ \A v \in Workers : v # w => batch'[v] = batch[v]
           /\ pc'[w] \in {"acceptInfo", "acceptFind", "acceptInsert"} =>
                 Head(batch'[w]).io = "Accept"
<1>1. pc \in [Threads -> Labels] /\ w \in Threads /\ batch \in [Workers -> Seq(Completions)]
  BY DEF IInv, ThreadsOK, ThreadTypes, Threads
<1>2. \/ UNCHANGED <<pc, batch>>
      \/ Leave(w)
      \/ GetQueuedCompletionStatusEx(w) \/ ExitThread(w)
      \/ \E l \in {"reaccepted", "drop", "delete", "rearm", "reuse", "acceptRecv", "accepted",
                   "erase", "unavailable", "shutdown", "disconnectEx"} : Goto(w, l)
      \/ /\ Head(batch[w]).io = "Accept"
         /\ \E l \in {"acceptInfo", "acceptFind", "acceptInsert"} : Goto(w, l)
  <2>1. CASE \/ IOFunction_Disconnect(w) \/ DisconnectAvailable(w)
             \/ ZeroBytes(w) \/ DropClient(w) \/ Discard(w) \/ IOFunction_Send(w)
             \/ IOFunction_Recv(w) \/ Rearm(w) \/ AcceptRecv(w) \/ AcceptAvailable(w)
    BY <2>1 DEF IOFunction_Disconnect, DisconnectAvailable, ZeroBytes, DropClient, Discard,
                IOFunction_Send, IOFunction_Recv, Rearm, AcceptRecv, AcceptAvailable
  <2>2. CASE AcceptCheck(w) \/ AcceptInfo(w) \/ AcceptFind(w) \/ AcceptInsert(w)
    BY <2>2 DEF AcceptCheck, AcceptInfo, AcceptFind, AcceptInsert, Entry, AcceptEntries
  <2>3. CASE DeleteAndReuse(w)
    BY <2>3 DEF DeleteAndReuse, DeleteFind, DeleteErase, DeleteUnavailable, ReuseConstruct,
                ReuseShutdown, ReuseDisconnect
  <2> QED BY <2>1, <2>2, <2>3 DEF WorkThread
<1>3. UNCHANGED target
  BY DEF WorkThread, GetQueuedCompletionStatusEx, ExitThread, IOFunction_Disconnect,
         DisconnectAvailable, ZeroBytes, DropClient, Discard, IOFunction_Send, IOFunction_Recv,
         Rearm, AcceptCheck, AcceptInfo, AcceptFind, AcceptInsert, AcceptRecv, AcceptAvailable,
         DeleteAndReuse, DeleteFind, DeleteErase, DeleteUnavailable, ReuseConstruct,
         ReuseShutdown, ReuseDisconnect, control
<1>4. CASE UNCHANGED <<pc, batch>>
  BY <1>3, <1>4 DEF AcceptEntries
<1>5. CASE Leave(w)
  BY <1>1, <1>3, <1>5 DEF Leave
<1>6. CASE GetQueuedCompletionStatusEx(w) \/ ExitThread(w)
  BY <1>1, <1>3, <1>6 DEF GetQueuedCompletionStatusEx, ExitThread
<1>7. CASE \E l \in {"reaccepted", "drop", "delete", "rearm", "reuse", "acceptRecv", "accepted",
                     "erase", "unavailable", "shutdown", "disconnectEx"} : Goto(w, l)
  BY <1>1, <1>3, <1>7 DEF Goto
<1>8. CASE /\ Head(batch[w]).io = "Accept"
           /\ \E l \in {"acceptInfo", "acceptFind", "acceptInsert"} : Goto(w, l)
  BY <1>1, <1>3, <1>8 DEF Goto
<1> QED BY <1>2, <1>4, <1>5, <1>6, <1>7, <1>8

\* Clients leave the map in DeleteErase alone, which waits for the send thread.
LEMMA ClientsStay ==
    ASSUME (\E w \in Workers : WorkThread(w)) \/ Application \/ SendThread \/ Network
    PROVE  \/ g_Connected_Client \subseteq g_Connected_Client'
           \/ \E s : ClientUnlocked(s) /\ g_Connected_Client' = g_Connected_Client \ {s}
<1>1. ASSUME NEW t, DeleteAndReuse(t)
      PROVE  \/ g_Connected_Client \subseteq g_Connected_Client'
             \/ \E s : ClientUnlocked(s) /\ g_Connected_Client' = g_Connected_Client \ {s}
  BY <1>1 DEF DeleteAndReuse, DeleteFind, DeleteErase, DeleteUnavailable, ReuseConstruct,
              ReuseShutdown, ReuseDisconnect
<1>2. ASSUME NEW w \in Workers, WorkThread(w), ~DeleteAndReuse(w)
      PROVE  g_Connected_Client \subseteq g_Connected_Client'
  BY <1>2 DEF WorkThread, GetQueuedCompletionStatusEx, ExitThread, IOFunction_Disconnect,
         DisconnectAvailable, ZeroBytes, DropClient, Discard, IOFunction_Send, IOFunction_Recv,
         Rearm, AcceptCheck, AcceptInfo, AcceptFind, AcceptInsert, AcceptRecv, AcceptAvailable
<1>3. CASE Application /\ ~DeleteAndReuse(App)
  BY <1>3 DEF Application, CreateSocket, Disconnect, Target_Message, AcceptFails, InsertSocket,
              StartSendThread, End, EndJoined
<1>4. CASE SendThread \/ Network
  BY <1>4 DEF SendThread, SendFind, SendChunk, SendRelease, SendEmpty, SendTest, Network
<1> QED BY <1>1, <1>2, <1>3, <1>4

\* How the other threads move.
LEMMA OtherMoves ==
    ASSUME IInv, Application \/ SendThread \/ Network
    PROVE  /\ \A v \in Workers : pc'[v] = pc[v] /\ batch'[v] = batch[v]
           /\ SendThread \/ (target'[Sender] = target[Sender] /\ (Sending' => Sending))
<1>1. /\ App \in Threads /\ Sender \in Threads /\ App \notin Workers /\ Sender \notin Workers
      /\ App # Sender /\ pc \in [Threads -> Labels] /\ Workers \subseteq Threads
      /\ target \in [{App, Sender} -> Slots \cup {Nobody}]
  BY ServerAssumption DEF Threads, IInv, ThreadsOK, ThreadTypes
<1>2. CASE Application
  <2>1. batch' = batch
    BY <1>1, <1>2 DEF Application, CreateSocket, Disconnect, Target_Message, AcceptFails,
       InsertSocket, StartSendThread, End, EndJoined, DeleteAndReuse, DeleteFind, DeleteErase,
       DeleteUnavailable, ReuseConstruct, ReuseShutdown, ReuseDisconnect, Goto, Leave
  <2>2. \/ \E l : pc' = [pc EXCEPT ![App] = l]
        \/ pc' = pc
        \/ pc' = [pc EXCEPT ![App] = "idle", ![Sender] = "test"]
    BY <1>1, <1>2 DEF Application, CreateSocket, Disconnect, Target_Message, AcceptFails,
       InsertSocket, StartSendThread, End, EndJoined, DeleteAndReuse, DeleteFind, DeleteErase,
       DeleteUnavailable, ReuseConstruct, ReuseShutdown, ReuseDisconnect, Goto, Leave
  <2>3. target'[Sender] = target[Sender]
    BY <1>1, <1>2 DEF Application, CreateSocket, Disconnect, Target_Message, AcceptFails,
       InsertSocket, StartSendThread, End, EndJoined, DeleteAndReuse, DeleteFind, DeleteErase,
       DeleteUnavailable, ReuseConstruct, ReuseShutdown, ReuseDisconnect, control
  <2>4. /\ \A v \in Workers : pc'[v] = pc[v]
        /\ pc'[Sender] \in {pc[Sender], "test"}
    BY <1>1, <2>2
  <2> QED BY <2>1, <2>3, <2>4 DEF Sending
<1>3. CASE SendThread
  BY <1>1, <1>3 DEF SendThread, SendFind, SendChunk, SendRelease, SendEmpty, SendTest, Goto
<1>4. CASE Network
  BY <1>4 DEF Network, control, Sending
<1> QED BY <1>2, <1>3, <1>4

LEMMA LifeInit == Init => LifeInv
<1> SUFFICES ASSUME Init PROVE LifeInv
    OBVIOUS
<1>1. /\ App \notin Workers /\ Sender # App /\ Sender \notin Workers
      /\ accepting = {} /\ disconnecting = {} /\ g_Connected_Client = {} /\ iocp = <<>>
      /\ \A w \in Workers : batch[w] = <<>> /\ pc[w] = "wait"
      /\ pc[App] = "start" /\ pc[Sender] = "off"
      /\ \A s \in Slots : link[s] = "free"
  BY ServerAssumption DEF Init, Threads
<1>2. \A s \in Slots, k \in Kinds, t \in Holders, i \in Nat, p \in Phases : ~Life(s, k, t, i, p)
  BY <1>1 DEF Life, PortLife, BatchLife, ThreadLife, HoldLabels
<1> QED BY <1>1, <1>2 DEF LifeInv, OneLife, LifeKnows, OnlyMade, AcceptEntries, Registered,
                          Sending

LEMMA LifeNext == IInv /\ IInv' /\ LifeInv /\ [Next]_vars => LifeInv'
<1> SUFFICES ASSUME IInv, IInv', LifeInv, [Next]_vars PROVE LifeInv'
    OBVIOUS
<1> USE DEF LifeInv, Tokens
<1>1. CASE UNCHANGED vars
  <2>1. UNCHANGED <<pool, pc, batch, target, g_Connected_Client, iocp, link, accepting,
                    disconnecting>>
    BY <1>1 DEF vars, control, kernel
  <2>2. Tokens'
    BY <2>1, MadeByOthers, ThreadsStill, QuietStep DEF Quiet
  <2> QED BY <2>1, <2>2 DEF AcceptEntries, Registered, Sending
<1>2. ASSUME NEW w \in Workers, WorkThread(w) PROVE LifeInv'
  <2>1. Tokens'
    BY <1>2, WorkerTokens
  <2>2. AcceptEntries'
    BY <1>2, WorkerMoves DEF AcceptEntries, Threads
  <2>3. pc'[Sender] = pc[Sender] /\ target' = target
    BY <1>2, WorkerMoves, ServerAssumption DEF Threads
  <2>4. Registered'
    BY <1>2, <2>3, ClientsStay DEF Registered, Sending, ClientUnlocked
  <2> QED BY <2>1, <2>2, <2>4
<1>3. CASE Application
  <2>1. Tokens'
    BY <1>3, AppTokens
  <2>2. AcceptEntries'
    BY <1>3, OtherMoves DEF AcceptEntries
  <2>3. Registered'
    <3>1. CASE ~SendThread
      BY <1>3, <3>1, OtherMoves, ClientsStay DEF Registered, Sending, ClientUnlocked
    <3>2. CASE SendThread
      <4>1. g_Connected_Client' = g_Connected_Client
        BY <3>2 DEF SendThread, SendFind, SendChunk, SendRelease, SendEmpty, SendTest
      <4> QED BY <3>2, <4>1
              DEF SendThread, SendFind, SendChunk, SendRelease, SendEmpty, SendTest, Registered, Sending,
                  Goto, control, IInv, ThreadsOK, ThreadTypes, Threads
    <3> QED BY <3>1, <3>2
  <2> QED BY <2>1, <2>2, <2>3
<1>4. CASE SendThread
  <2>1. Tokens'
    BY <1>4, SenderTokens
  <2>2. AcceptEntries'
    BY <1>4, OtherMoves DEF AcceptEntries
  <2>3. g_Connected_Client' = g_Connected_Client
    BY <1>4 DEF SendThread, SendFind, SendChunk, SendRelease, SendEmpty, SendTest
  <2>4. Registered'
    BY <1>4, <2>3 DEF SendThread, SendFind, SendChunk, SendRelease, SendEmpty, SendTest, Registered,
       Sending, Goto, control, IInv, ThreadsOK, ThreadTypes, Threads
  <2> QED BY <2>1, <2>2, <2>4
<1>5. CASE Network
  <2>1. Tokens'
    BY <1>5, NetworkTokens
  <2>2. UNCHANGED <<pc, batch, target, g_Connected_Client>>
    BY <1>5 DEF Network, control
  <2> QED BY <2>1, <2>2 DEF AcceptEntries, Registered, Sending
<1> QED BY <1>1, <1>2, <1>3, <1>4, <1>5 DEF Next, Stopped

\* The token argument: whatever the workers, the application and the send thread do, a
\* slot is at any time with one AcceptEx, one completion, the client map, one thread or
\* one DisconnectEx.
THEOREM ServerLife == Spec => []LifeInv
BY InitIInv, NextIInv, LifeInit, LifeNext, PTL DEF Spec

\* A packet is sent to a client that is registered and whose connection the server has
\* not shut down, with any number of workers, sockets and outstanding sends, and with an
\* application that disconnects clients at any time.
THEOREM ServerSendToClient == Spec => []SendToClient
<1>1. IInv /\ LifeInv => SendToClient
  <2> SUFFICES ASSUME IInv, LifeInv, Sending
               PROVE  /\ target[Sender] \in g_Connected_Client
                      /\ link[target[Sender]] \in {"open", "closed"}
      BY DEF SendToClient
  <2>1. target[Sender] \in g_Connected_Client /\ target[Sender] \in Slots
    BY DEF LifeInv, Registered, IInv, ServerTypes
  <2>2. Life(target[Sender], "client", Nobody, 0, "up")
    BY <2>1 DEF Life
  <2>3. Phase(link[target[Sender]]) = "up"
    BY <2>1, <2>2 DEF LifeInv, LifeKnows, Kinds, Holders, Phases
  <2>4. link[target[Sender]] \in {"free", "open", "closed", "shut"}
    BY <2>1 DEF IInv, KernelTypes
  <2> QED BY <2>1, <2>3, <2>4 DEF Phase
<1> QED BY <1>1, InitIInv, NextIInv, ServerLife, PTL DEF Spec

\* Whichever of the workers and Disconnect() takes a slot down calls DisconnectEx on a
\* connection that is there and that nobody else is disconnecting: what makes
\* Disconnect_EX take Winsock down is never a mistake of the server's own threads.
THEOREM ServerDisconnectsConnected == Spec => []DisconnectsConnected
<1>1. IInv /\ LifeInv => DisconnectsConnected
  BY DisconnectAccepted DEF DisconnectsConnected, LifeInv, Tokens
<1> QED BY <1>1, InitIInv, NextIInv, ServerLife, PTL DEF Spec

-----------------------------------------------------------------------------
(***************************************************************************)
(* The operation that drives a slot, when neither the application nor the  *)
(* send thread interferes with the workers.                                *)
(*                                                                         *)
(* The AcceptEx, WSARecv or DisconnectEx that is outstanding, its          *)
(* completion in the port or in a batch, and the worker that handles it    *)
(* pass the slot on as one token.  Unlike the token of a slot's life, it   *)
(* is not held by the client map: it says what the map and Is_Available    *)
(* hold at each stage of a connection.                                     *)
(***************************************************************************)

-----------------------------------------------------------------------------
(* The drivers of a slot.                                                  *)

\* The worker has posted the next operation for its entry.
PostedLabels == {"reaccepted", "accepted"}

\* The worker is at these with a client that is in the map, ...
ClientLabels == {"acceptRecv", "drop", "delete", "erase"}

\* ... and at these with a socket that is not.
NoClientLabels == HoldLabels \cup {"acceptInfo", "acceptFind", "acceptInsert"}

Ops == {"accept", "disconnect", "recv", "port", "batch"}

\* No client; a client; a client whose data may arrive; a completion of an earlier connection.
Stages == {"out", "in", "armed", "stale"}

Carrier(c, s) == c.io \notin {"Exit", "Send"} /\ c.sock = s

EntryStage(c, number) ==
    IF c.serial # number[c.sock] THEN "stale" ELSE IF c.io = "Recv" THEN "armed" ELSE "out"

\* The stage of a connection whose completion c a worker handles at step l.
StageAt(l, c, number) ==
    IF l \in ClientLabels THEN "in"
    ELSE IF l \in NoClientLabels THEN "out"
    ELSE IF l = "rearm" THEN "armed" ELSE EntryStage(c, number)

PortDrive(s, i, p) ==
    i \in 1..Len(iocp) /\ Carrier(iocp[i], s) /\ p = EntryStage(iocp[i], serial)

\* The entry j from the end of the batch of w.
BatchDrive(s, w, j, p) ==
    /\ j < Len(batch[w])
    /\ Carrier(batch[w][Len(batch[w]) - j], s)
    /\ j = Len(batch[w]) - 1 => pc[w] \notin PostedLabels
    /\ p = IF j = Len(batch[w]) - 1 THEN StageAt(pc[w], batch[w][Len(batch[w]) - j], serial)
           ELSE EntryStage(batch[w][Len(batch[w]) - j], serial)

\* The operation k, t, i drives s, and its connection is at stage p.
Drive(s, k, t, i, p) ==
    \/ k = "accept" /\ t = Nobody /\ i = 0 /\ s \in accepting /\ p = "out"
    \/ k = "disconnect" /\ t = Nobody /\ i = 0 /\ s \in disconnecting /\ p = "out"
    \/ k = "recv" /\ t = Nobody /\ i \in 1..recvs[s] /\ p = "armed"
    \/ k = "port" /\ t = Nobody /\ PortDrive(s, i, p)
    \/ k = "batch" /\ t \in Workers /\ BatchDrive(s, t, i, p)

\* Data of s is not thrown away: it is available, or about to be.
Ready(s) == s \in Is_Available \/ \E w \in Workers : pc[w] = "accepted" /\ Sock(w) = s

Known(s, p) ==
    /\ p # "stale"
    /\ p \in {"in", "armed"} => s \in g_Connected_Client
    /\ p = "armed" => Ready(s)

\* A slot has one driver ...
OneDrive ==
    \A s \in Slots, k1, k2 \in Ops, t1, t2 \in Holders, i1, i2 \in Nat, p1, p2 \in Stages :
        Drive(s, k1, t1, i1, p1) /\ Drive(s, k2, t2, i2, p2) => k1 = k2 /\ t1 = t2 /\ i1 = i2

\* ... that knows the client map, ...
DriveKnows ==
    \A s \in Slots, k \in Ops, t \in Holders, i \in Nat, p \in Stages :
        Drive(s, k, t, i, p) => Known(s, p) /\ Made(s)

Drives == OneDrive /\ DriveKnows

NoSendIn(q) == \A i \in 1..Len(q) : q[i].io # "Send"

\* ... as long as nothing is sent and the application disconnects nobody.
Undisturbed ==
    /\ Send_Data_Queue = <<>> /\ pc[Sender] \in {"off", "test", "poll", "exited"}
    /\ pc[App] \notin DeleteLabels
    /\ \A s \in Slots : sends[s] = 0
    /\ NoSendIn(iocp) /\ \A w \in Workers : NoSendIn(batch[w])

DriveInv == Drives /\ Undisturbed

\* What is known of s stays known.
KnownStays(s) == \A p \in Stages : Known(s, p) => Known(s, p)'

\* A step that gives s to nobody.
LEMMA DrivesKept ==
    ASSUME Drives, MadeStays, \A s \in Slots : KnownStays(s),
           \A s \in Slots, k \in Ops, t \in Holders, i \in Nat, p \in Stages :
               Drive(s, k, t, i, p)' => Drive(s, k, t, i, p)
    PROVE  Drives'
<1>1. OneDrive'
  BY DEF Drives, OneDrive
<1>2. DriveKnows'
  BY DEF Drives, DriveKnows, KnownStays, MadeStays
<1> QED BY <1>1, <1>2 DEF Drives

\* s0 is passed on from k0, t0, i0 to k1, t1, i1, and nothing else is.
Passes(s0, k0, t0, i0, k1, t1, i1, p1) ==
    \A s \in Slots, k \in Ops, t \in Holders, i \in Nat, p \in Stages :
        Drive(s, k, t, i, p)' =>
            \/ Drive(s, k, t, i, p) /\ (s # s0 \/ k # k0 \/ t # t0 \/ i # i0)
            \/ s = s0 /\ k = k1 /\ t = t1 /\ i = i1 /\ p = p1

LEMMA DrivePassed ==
    ASSUME Drives, MadeStays,
           NEW s0 \in Slots,
           NEW k0 \in Ops, NEW t0 \in Holders, NEW i0 \in Nat, NEW p0 \in Stages,
           Drive(s0, k0, t0, i0, p0),
           NEW k1, NEW t1, NEW i1, NEW p1, Passes(s0, k0, t0, i0, k1, t1, i1, p1),
           \A s \in Slots : s # s0 => KnownStays(s),
           Known(s0, p1)'
    PROVE  Drives'
<1>1. \A s \in Slots, k \in Ops, t \in Holders, i \in Nat, p \in Stages :
         Drive(s, k, t, i, p)' /\ s = s0 => k = k1 /\ t = t1 /\ i = i1 /\ p = p1
  <2>1. \A k \in Ops, t \in Holders, i \in Nat, p \in Stages :
           Drive(s0, k, t, i, p) => k = k0 /\ t = t0 /\ i = i0
    BY DEF Drives, OneDrive
  <2>2. \A s \in Slots, k \in Ops, t \in Holders, i \in Nat, p \in Stages :
           Drive(s, k, t, i, p) /\ s = s0 => Drive(s0, k, t, i, p)
    OBVIOUS
  <2> QED BY <2>1, <2>2 DEF Passes
<1>2. \A s \in Slots, k \in Ops, t \in Holders, i \in Nat, p \in Stages :
         Drive(s, k, t, i, p)' /\ s # s0 => Drive(s, k, t, i, p)
  BY DEF Passes
<1>3. OneDrive'
  <2> SUFFICES ASSUME NEW s \in Slots, NEW ka \in Ops, NEW kb \in Ops,
                      NEW ta \in Holders, NEW tb \in Holders, NEW ia \in Nat, NEW ib \in Nat,
                      NEW pa \in Stages, NEW pb \in Stages,
                      Drive(s, ka, ta, ia, pa)', Drive(s, kb, tb, ib, pb)'
               PROVE  ka = kb /\ ta = tb /\ ia = ib
      BY DEF OneDrive
  <2>1. CASE s = s0
    BY <1>1, <2>1
  <2>2. CASE s # s0
    BY <1>2, <2>2 DEF Drives, OneDrive
  <2> QED BY <2>1, <2>2
<1>4. Made(s0)
  BY DEF Drives, DriveKnows
<1>5. DriveKnows'
  <2> SUFFICES ASSUME NEW s \in Slots, NEW k \in Ops, NEW t \in Holders, NEW i \in Nat,
                      NEW p \in Stages, Drive(s, k, t, i, p)'
               PROVE  Known(s, p)' /\ Made(s)'
      BY DEF DriveKnows
  <2>1. CASE s = s0
    <3>1. p = p1
      BY <1>1, <2>1
    <3>2. Made(s)'
      BY <1>4, <2>1 DEF MadeStays
    <3>3. Known(s, p)'
      BY <2>1, <3>1 DEF Known, Ready
    <3> QED BY <3>2, <3>3
  <2>2. CASE s # s0
    <3>1. Known(s, p) /\ Made(s)
      BY <1>2, <2>2 DEF Drives, DriveKnows
    <3> QED BY <2>2, <3>1 DEF KnownStays, MadeStays
  <2> QED BY <2>1, <2>2
<1> QED BY <1>3, <1>5 DEF Drives

-----------------------------------------------------------------------------
(* What the moves of a worker do to its entries.                           *)

LEMMA GotoDrive ==
    ASSUME IInv, NEW u \in Workers, batch[u] # <<>>, NEW l, Goto(u, l), UNCHANGED serial
    PROVE  \A s \in Slots, w \in Workers, j \in Nat, p \in Stages :
               BatchDrive(s, w, j, p)' =>
                  \/ BatchDrive(s, w, j, p) /\ (w # u \/ j # Len(batch[u]) - 1)
                  \/ /\ w = u /\ j = Len(batch[u]) - 1 /\ l \notin PostedLabels
                     /\ s = Sock(u) /\ p = StageAt(l, Head(batch[u]), serial)
<1>1. pc' = [pc EXCEPT ![u] = l] /\ batch' = batch /\ pc \in [Threads -> Labels]
      /\ Workers \subseteq Threads
  BY DEF Goto, IInv, ThreadsOK, ThreadTypes, Threads
<1>2. \A w \in Workers : pc'[w] = IF w = u THEN l ELSE pc[w]
  BY <1>1
<1>3. batch[u] \in Seq(Completions) /\ Len(batch[u]) \in Nat /\ Len(batch[u]) > 0
  BY BatchFacts, EmptySeq
<1>4. Head(batch[u]) = batch[u][1] /\ Len(batch[u]) - (Len(batch[u]) - 1) = 1
  BY <1>3
<1> SUFFICES ASSUME NEW s \in Slots, NEW w \in Workers, NEW j \in Nat, NEW p \in Stages,
                    BatchDrive(s, w, j, p)'
             PROVE  \/ BatchDrive(s, w, j, p) /\ (w # u \/ j # Len(batch[u]) - 1)
                    \/ /\ w = u /\ j = Len(batch[u]) - 1 /\ l \notin PostedLabels
                       /\ s = Sock(u) /\ p = StageAt(l, Head(batch[u]), serial)
    OBVIOUS
<1>5. CASE w # u
  BY <1>1, <1>2, <1>5 DEF BatchDrive
<1>6. CASE w = u /\ j # Len(batch[u]) - 1
  BY <1>1, <1>2, <1>6 DEF BatchDrive
<1>7. CASE w = u /\ j = Len(batch[u]) - 1
  <2>1. /\ Carrier(batch[u][1], s) /\ l \notin PostedLabels
        /\ p = StageAt(l, batch[u][1], serial)
    BY <1>1, <1>2, <1>4, <1>7 DEF BatchDrive
  <2> QED BY <1>4, <1>7, <2>1 DEF Carrier, Sock
<1> QED BY <1>5, <1>6, <1>7

LEMMA LeaveDrive ==
    ASSUME IInv, NEW u \in Workers, batch[u] # <<>>, Leave(u), UNCHANGED serial
    PROVE  \A s \in Slots, w \in Workers, j \in Nat, p \in Stages :
               BatchDrive(s, w, j, p)' =>
                  BatchDrive(s, w, j, p) /\ (w # u \/ j # Len(batch[u]) - 1)
<1> SUFFICES ASSUME NEW s \in Slots, NEW w \in Workers, NEW j \in Nat, NEW p \in Stages,
                    BatchDrive(s, w, j, p)'
             PROVE  BatchDrive(s, w, j, p) /\ (w # u \/ j # Len(batch[u]) - 1)
    OBVIOUS
<1>1. /\ batch' = [batch EXCEPT ![u] = Tail(batch[u])]
      /\ pc' = [pc EXCEPT ![u] = IF Len(batch[u]) = 1 THEN "wait" ELSE "next"]
      /\ pc \in [Threads -> Labels] /\ Workers \subseteq Threads
      /\ batch \in [Workers -> Seq(Completions)]
  BY DEF Leave, IInv, ThreadsOK, ThreadTypes, Threads
<1>2. CASE w # u
  BY <1>1, <1>2 DEF BatchDrive
<1>3. CASE w = u
  <2>1. batch'[u] = Tail(batch[u]) /\ Len(Tail(batch[u])) = Len(batch[u]) - 1
        /\ Len(batch[u]) \in Nat /\ pc'[u] \in {"wait", "next"}
    BY <1>1, HeadTailProperties
  <2> DEFINE c == Tail(batch[u])[Len(batch[u]) - 1 - j]
  <2>2. /\ j < Len(batch[u]) - 1 /\ Carrier(c, s)
        /\ p = StageAt(pc'[u], c, serial) \/ p = EntryStage(c, serial)
    BY <1>3, <2>1 DEF BatchDrive
  <2>3. c = batch[u][Len(batch[u]) - j]
    <3>1. (Len(batch[u]) - 1 - j) \in 1..Len(Tail(batch[u]))
      BY <2>1, <2>2
    <3>2. c = batch[u][(Len(batch[u]) - 1 - j) + 1]
      BY <1>1, <3>1, HeadTailProperties
    <3>3. (Len(batch[u]) - 1 - j) + 1 = Len(batch[u]) - j
      BY <2>1
    <3> QED BY <3>2, <3>3
  <2> HIDE DEF c
  <2>4. p = EntryStage(c, serial)
    BY <2>1, <2>2 DEF StageAt, ClientLabels, NoClientLabels, HoldLabels
  <2>5. j < Len(batch[u]) /\ j # Len(batch[u]) - 1
    BY <2>1, <2>2
  <2> QED BY <1>3, <2>2, <2>3, <2>4, <2>5 DEF BatchDrive
<1> QED BY <1>2, <1>3

\* Nothing happens in the workers.
LEMMA WorkersStill ==
    ASSUME UNCHANGED <<batch, serial>>, \A w \in Workers : pc'[w] = pc[w]
    PROVE  \A s \in Slots, w \in Workers, j \in Nat, p \in Stages :
               BatchDrive(s, w, j, p)' => BatchDrive(s, w, j, p)
BY DEF BatchDrive


LEMMA StageKinds ==
    ASSUME NEW l, NEW c, NEW number
    PROVE  /\ EntryStage(c, number) \in Stages /\ StageAt(l, c, number) \in Stages
           /\ l \in EntryLabels \ PostedLabels => StageAt(l, c, number) # "stale"
BY DEF EntryStage, StageAt, Stages, EntryLabels, DeleteLabels, PostedLabels, ClientLabels,
       NoClientLabels, HoldLabels

\* The number of a connection matters to the completions of its slot alone.
LEMMA OtherSerial ==
    ASSUME NEW c, NEW s, Carrier(c, s), NEW m, NEW n, m[s] = n[s]
    PROVE  EntryStage(c, m) = EntryStage(c, n)
BY DEF Carrier, EntryStage

\* The first entry of a worker drives its slot.
LEMMA HeadDrive ==
    ASSUME IInv, Drives, Undisturbed, NEW w \in Workers, batch[w] # <<>>,
           pc[w] \notin PostedLabels, Head(batch[w]).io # "Exit"
    PROVE  /\ Sock(w) \in Slots /\ Len(batch[w]) - 1 \in Nat
           /\ Drive(Sock(w), "batch", w, Len(batch[w]) - 1, StageAt(pc[w], Head(batch[w]), serial))
           /\ Known(Sock(w), StageAt(pc[w], Head(batch[w]), serial))
<1>1. batch[w] \in Seq(Completions) /\ Len(batch[w]) \in Nat /\ Len(batch[w]) > 0
  BY BatchFacts, EmptySeq
<1>2. Head(batch[w]) = batch[w][1] /\ Len(batch[w]) - (Len(batch[w]) - 1) = 1
      /\ 1 \in 1..Len(batch[w]) /\ Len(batch[w]) - 1 \in Nat
  BY <1>1
<1>3. Head(batch[w]) \in IOCompletions
  BY <1>1, <1>2, CompletionKinds
<1>4. Sock(w) \in Slots /\ Sock(w) = Head(batch[w]).sock
  BY <1>3 DEF Sock, IOCompletions
<1>5. Carrier(Head(batch[w]), Sock(w))
  BY <1>2, <1>4 DEF Carrier, Undisturbed, NoSendIn
<1>6. BatchDrive(Sock(w), w, Len(batch[w]) - 1, StageAt(pc[w], Head(batch[w]), serial))
  BY <1>1, <1>2, <1>5 DEF BatchDrive
<1>7. Drive(Sock(w), "batch", w, Len(batch[w]) - 1, StageAt(pc[w], Head(batch[w]), serial))
  BY <1>6 DEF Drive
<1>8. w \in Holders /\ "batch" \in Ops
  BY DEF Holders, Threads, Ops
<1> QED BY <1>2, <1>4, <1>7, <1>8, StageKinds DEF Drives, DriveKnows

\* The operations outstanding and the port are as they were.
KernelStill == UNCHANGED <<accepting, disconnecting, recvs, iocp, serial>>

LEMMA PortStill ==
    ASSUME UNCHANGED <<iocp, serial>>
    PROVE  \A s \in Slots, i \in Nat, p \in Stages : PortDrive(s, i, p)' => PortDrive(s, i, p)
BY DEF PortDrive

\* What a step of a worker does to what is known of a slot.
LEMMA GotoKnown ==
    ASSUME IInv, NEW w \in Workers, NEW l, Goto(w, l), pc[w] # "accepted", NEW s,
           s \in g_Connected_Client => s \in g_Connected_Client',
           s \in Is_Available => s \in Is_Available'
    PROVE  KnownStays(s)
<1>1. pc' = [pc EXCEPT ![w] = l] /\ batch' = batch /\ pc \in [Threads -> Labels]
      /\ Workers \subseteq Threads
  BY DEF Goto, IInv, ThreadsOK, ThreadTypes, Threads
<1>2. \A v \in Workers : pc[v] = "accepted" => pc'[v] = "accepted"
  BY <1>1
<1>3. \A v \in Workers : Sock(v)' = Sock(v)
  BY <1>1 DEF Sock
<1>4. Ready(s) => Ready(s)'
  BY <1>2, <1>3 DEF Ready
<1> QED BY <1>4 DEF KnownStays, Known

LEMMA LeaveKnown ==
    ASSUME IInv, NEW w \in Workers, Leave(w), NEW s,
           pc[w] = "accepted" => Sock(w) \in Is_Available',
           s \in g_Connected_Client => s \in g_Connected_Client',
           s \in Is_Available => s \in Is_Available'
    PROVE  KnownStays(s)
<1>1. /\ \E l : pc' = [pc EXCEPT ![w] = l]
      /\ \E b : batch' = [batch EXCEPT ![w] = b]
      /\ pc \in [Threads -> Labels] /\ Workers \subseteq Threads
      /\ batch \in [Workers -> Seq(Completions)]
  BY DEF Leave, IInv, ThreadsOK, ThreadTypes, Threads
<1>2. \A v \in Workers : v # w => pc'[v] = pc[v] /\ batch'[v] = batch[v]
  BY <1>1
<1>3. \A v \in Workers : v # w => Sock(v)' = Sock(v)
  BY <1>2 DEF Sock
<1>4. Ready(s) => Ready(s)'
  BY <1>2, <1>3 DEF Ready
<1> QED BY <1>4 DEF KnownStays, Known

-----------------------------------------------------------------------------
(* The steps of a worker.                                                  *)

\* A worker goes on with its entry.
LEMMA StepInPlace ==
    ASSUME IInv, Drives, Undisturbed, NEW w \in Workers, batch[w] # <<>>,
           pc[w] \notin PostedLabels, Head(batch[w]).io # "Exit",
           NEW l \in EntryLabels \ PostedLabels, Goto(w, l),
           KernelStill, UNCHANGED <<pool, target>>,
           \A s \in Slots : s # Sock(w) =>
              /\ s \in g_Connected_Client => s \in g_Connected_Client'
              /\ s \in Is_Available => s \in Is_Available',
           l \in ClientLabels \cup {"rearm"} => Sock(w) \in g_Connected_Client',
           l = "rearm" => Sock(w) \in Is_Available'
    PROVE  Drives'
<1> PICK s0, j0, p0, p1 :
       /\ s0 = Sock(w) /\ j0 = Len(batch[w]) - 1
       /\ p0 = StageAt(pc[w], Head(batch[w]), serial)
       /\ p1 = StageAt(l, Head(batch[w]), serial)
    OBVIOUS
<1>1. s0 \in Slots /\ j0 \in Nat /\ Drive(s0, "batch", w, j0, p0)
  BY HeadDrive
<1>2. p0 \in Stages /\ p1 \in Stages /\ p1 # "stale" /\ w \in Holders /\ "batch" \in Ops
  BY StageKinds DEF Holders, Threads, Ops
<1>3. MadeStays
  BY WorkerMade
<1>4. \A s \in Slots, v \in Workers, j \in Nat, p \in Stages :
         BatchDrive(s, v, j, p)' =>
            \/ BatchDrive(s, v, j, p) /\ (v # w \/ j # j0)
            \/ v = w /\ j = j0 /\ s = s0 /\ p = p1
  BY GotoDrive DEF KernelStill
<1>5. \A s \in Slots, i \in Nat, p \in Stages : PortDrive(s, i, p)' => PortDrive(s, i, p)
  BY PortStill DEF KernelStill
<1>6. \A s \in Slots : s # s0 => KnownStays(s)
  BY GotoKnown DEF PostedLabels
<1>7. p1 = "in" => l \in ClientLabels
  BY DEF StageAt, EntryStage
<1>8. p1 = "armed" => l = "rearm"
  BY DEF StageAt, ClientLabels, NoClientLabels, HoldLabels, EntryLabels, DeleteLabels, PostedLabels
<1>9. Known(s0, p1)'
  BY <1>2, <1>7, <1>8 DEF Known, Ready
<1>10. Passes(s0, "batch", w, j0, "batch", w, j0, p1)
  BY <1>4, <1>5 DEF Drive, Passes, KernelStill
<1> QED BY <1>1, <1>2, <1>3, <1>6, <1>9, <1>10, DrivePassed

\* A worker is done with an entry that drives nothing any more, or drops what it drove.
LEMMA LeaveStep ==
    ASSUME IInv, Drives, NEW w \in Workers, batch[w] # <<>>, Leave(w),
           KernelStill, UNCHANGED <<pool, target, g_Connected_Client>>,
           Is_Available \subseteq Is_Available',
           pc[w] = "accepted" => Sock(w) \in Is_Available'
    PROVE  Drives'
<1>1. MadeStays
  BY WorkerMade
<1>2. \A s \in Slots : KnownStays(s)
  BY LeaveKnown
<1>3. \A s \in Slots, v \in Workers, j \in Nat, p \in Stages :
         BatchDrive(s, v, j, p)' => BatchDrive(s, v, j, p)
  BY LeaveDrive DEF KernelStill
<1>4. \A s \in Slots, i \in Nat, p \in Stages : PortDrive(s, i, p)' => PortDrive(s, i, p)
  BY PortStill DEF KernelStill
<1>5. \A s \in Slots, k \in Ops, t \in Holders, i \in Nat, p \in Stages :
         Drive(s, k, t, i, p)' => Drive(s, k, t, i, p)
  BY <1>3, <1>4 DEF Drive, KernelStill
<1> QED BY <1>1, <1>2, <1>5, DrivesKept

Outstanding == {"accept", "disconnect", "recv"}

\* The next operation is posted for the slot of a worker's entry, and no other.
Posts(s0, k1, i1, p1) ==
    \A s \in Slots, k \in Outstanding, i \in Nat, p \in Stages :
        Drive(s, k, Nobody, i, p)' =>
            \/ Drive(s, k, Nobody, i, p)
            \/ s = s0 /\ k = k1 /\ i = i1 /\ p = p1

LEMMA HandOn ==
    ASSUME IInv, Drives, Undisturbed, NEW w \in Workers, batch[w] # <<>>,
           pc[w] \notin PostedLabels, Head(batch[w]).io # "Exit",
           Leave(w) \/ \E l \in PostedLabels : Goto(w, l),
           UNCHANGED <<pool, target, iocp, serial>>,
           \A s \in Slots : s # Sock(w) => KnownStays(s),
           NEW k1, NEW i1, NEW p1, NEW s0, s0 = Sock(w),
           Posts(s0, k1, i1, p1), Known(s0, p1)'
    PROVE  Drives'
<1> PICK j0, p0 : j0 = Len(batch[w]) - 1 /\ p0 = StageAt(pc[w], Head(batch[w]), serial)
    OBVIOUS
<1>1. s0 \in Slots /\ j0 \in Nat /\ Drive(s0, "batch", w, j0, p0)
  BY HeadDrive
<1>2. p0 \in Stages /\ w \in Holders /\ "batch" \in Ops /\ Nobody \notin Workers
  BY StageKinds, ServerAssumption DEF Holders, Threads, Ops
<1>3. MadeStays
  BY WorkerMade
<1>4. \A s \in Slots, v \in Workers, j \in Nat, p \in Stages :
         BatchDrive(s, v, j, p)' => BatchDrive(s, v, j, p) /\ (v # w \/ j # j0)
  BY GotoDrive, LeaveDrive
<1>5. \A s \in Slots, i \in Nat, p \in Stages : PortDrive(s, i, p)' => PortDrive(s, i, p)
  BY PortStill
<1>6. \A s \in Slots, k \in Ops, t \in Holders, i \in Nat, p \in Stages :
         Drive(s, k, t, i, p)' =>
            \/ k = "port" /\ t = Nobody /\ PortDrive(s, i, p)'
            \/ k = "batch" /\ t \in Workers /\ BatchDrive(s, t, i, p)'
            \/ k \in Outstanding /\ t = Nobody /\ Drive(s, k, Nobody, i, p)'
  BY DEF Drive, Outstanding
<1>7. Passes(s0, "batch", w, j0, k1, Nobody, i1, p1)
  <2> SUFFICES ASSUME NEW s \in Slots, NEW k \in Ops, NEW t \in Holders, NEW i \in Nat,
                      NEW p \in Stages, Drive(s, k, t, i, p)'
               PROVE  \/ Drive(s, k, t, i, p) /\ (s # s0 \/ k # "batch" \/ t # w \/ i # j0)
                      \/ s = s0 /\ k = k1 /\ t = Nobody /\ i = i1 /\ p = p1
      BY DEF Passes
  <2>1. CASE k = "port" /\ t = Nobody /\ PortDrive(s, i, p)'
    BY <1>5, <2>1 DEF Drive
  <2>2. CASE k = "batch" /\ t \in Workers /\ BatchDrive(s, t, i, p)'
    BY <1>4, <2>2 DEF Drive
  <2>3. CASE k \in Outstanding /\ t = Nobody /\ Drive(s, k, Nobody, i, p)'
    BY <2>3 DEF Posts, Outstanding
  <2> QED BY <1>6, <2>1, <2>2, <2>3
<1> QED BY <1>1, <1>2, <1>3, <1>7, DrivePassed

\* What a worker in the middle of an entry has.
LEMMA InHand ==
    ASSUME IInv, NEW w \in Workers, pc[w] \in EntryLabels
    PROVE  batch[w] # <<>> /\ Head(batch[w]) \in IOCompletions /\ Head(batch[w]).io # "Exit"
<1>1. batch[w] # <<>> /\ Head(batch[w]) \in IOCompletions
  BY DEF IInv, ThreadsOK, WorkersBusy
<1> QED BY <1>1 DEF IOCompletions

\* A completion of an earlier connection never comes up.
LEMMA EntryKnows ==
    ASSUME IInv, Drives, Undisturbed, NEW w \in Workers, NEW io, io # "Exit", Entry(w, {io})
    PROVE  /\ batch[w] # <<>> /\ pc[w] \notin PostedLabels /\ Head(batch[w]).io # "Exit"
           /\ Head(batch[w]).serial = serial[Sock(w)]
           /\ io = "Recv" => Sock(w) \in g_Connected_Client /\ Ready(Sock(w))
           /\ io # "Send"
<1>1. batch[w] # <<>> /\ pc[w] = "next" /\ Head(batch[w]).io = io
  BY DEF Entry, IInv, ThreadsOK, WorkersBusy
<1>2. pc[w] \notin PostedLabels
  BY <1>1 DEF PostedLabels
<1>3. Known(Sock(w), StageAt(pc[w], Head(batch[w]), serial))
  BY <1>1, <1>2, HeadDrive
<1>4. StageAt(pc[w], Head(batch[w]), serial) = EntryStage(Head(batch[w]), serial)
  BY <1>1 DEF StageAt, ClientLabels, NoClientLabels, HoldLabels
<1>5. Known(Sock(w), EntryStage(Head(batch[w]), serial))
  BY <1>3, <1>4
<1>6. Head(batch[w]).sock = Sock(w)
  BY DEF Sock
<1>7. Head(batch[w]).serial = serial[Sock(w)]
  BY <1>5, <1>6 DEF Known, EntryStage
<1>8. io = "Recv" => EntryStage(Head(batch[w]), serial) = "armed"
  BY <1>1, <1>6, <1>7 DEF EntryStage
<1>9. io = "Recv" => Sock(w) \in g_Connected_Client /\ Ready(Sock(w))
  BY <1>5, <1>8 DEF Known
<1>10. io # "Send"
  <2>1. batch[w] \in Seq(Completions) /\ Len(batch[w]) \in Nat /\ Len(batch[w]) > 0
    BY <1>1, BatchFacts, EmptySeq
  <2> QED BY <1>1, <2>1 DEF Undisturbed, NoSendIn
<1> QED BY <1>1, <1>2, <1>7, <1>9, <1>10

\* What a worker knows in the middle of an entry.
LEMMA StepKnows ==
    ASSUME IInv, Drives, Undisturbed, NEW w \in Workers, pc[w] \in EntryLabels \ PostedLabels
    PROVE  /\ batch[w] # <<>> /\ Head(batch[w]).io # "Exit" /\ pc[w] \notin PostedLabels
           /\ Sock(w) \in Slots
           /\ pc[w] \in ClientLabels \cup {"rearm"} => Sock(w) \in g_Connected_Client
           /\ pc[w] = "rearm" => Ready(Sock(w))
<1>1. batch[w] # <<>> /\ Head(batch[w]).io # "Exit"
  BY InHand
<1>2. Sock(w) \in Slots /\ Known(Sock(w), StageAt(pc[w], Head(batch[w]), serial))
  BY <1>1, HeadDrive
<1>3. /\ pc[w] \in ClientLabels => StageAt(pc[w], Head(batch[w]), serial) = "in"
      /\ pc[w] = "rearm" => StageAt(pc[w], Head(batch[w]), serial) = "armed"
  BY DEF StageAt, ClientLabels, NoClientLabels, HoldLabels
<1> QED BY <1>1, <1>2, <1>3 DEF Known

\* The steps in which a worker looks at its entry.
LEMMA EntryDrives ==
    ASSUME IInv, Drives, Undisturbed, NEW w \in Workers,
           ZeroBytes(w) \/ IOFunction_Recv(w) \/ AcceptCheck(w)
    PROVE  Drives'
<1>1. Entry(w, {"Recv"}) \/ Entry(w, {"Send"}) \/ Entry(w, {"Accept"})
  BY DEF ZeroBytes, IOFunction_Recv, AcceptCheck, Entry
<1>2. /\ batch[w] # <<>> /\ pc[w] \notin PostedLabels /\ Head(batch[w]).io # "Exit"
      /\ Entry(w, {"Recv"}) => Sock(w) \in g_Connected_Client
      /\ ~Entry(w, {"Send"})
  BY <1>1, EntryKnows
<1>3. KernelStill /\ UNCHANGED <<pool, target, g_Connected_Client, Is_Available>>
  BY DEF ZeroBytes, IOFunction_Recv, AcceptCheck, KernelStill, kernel, control, structs
<1>4. \E l \in {"drop", "rearm", "reuse", "acceptInfo"} :
         /\ Goto(w, l)
         /\ l \in {"drop", "rearm"} => Entry(w, {"Recv"})
         /\ l = "rearm" => Sock(w) \in Is_Available
  BY <1>1, <1>2 DEF ZeroBytes, IOFunction_Recv, AcceptCheck, Entry
<1>5. PICK l \in {"drop", "rearm", "reuse", "acceptInfo"} :
         /\ Goto(w, l)
         /\ l \in {"drop", "rearm"} => Entry(w, {"Recv"})
         /\ l = "rearm" => Sock(w) \in Is_Available
  BY <1>4
<1>6. l \in EntryLabels \ PostedLabels
  BY DEF EntryLabels, DeleteLabels, PostedLabels
<1>7. l \in ClientLabels \cup {"rearm"} => Sock(w) \in g_Connected_Client'
  BY <1>2, <1>3, <1>5 DEF ClientLabels
<1> QED BY <1>2, <1>3, <1>5, <1>6, <1>7, StepInPlace

\* The steps in the middle of an entry that post nothing.
LEMMA MiddleSteps ==
    ASSUME IInv, Drives, Undisturbed, NEW w \in Workers, NEW l, Goto(w, l),
           \/ DropClient(w) /\ l = "delete"
           \/ Rearm(w) /\ l = "drop"
           \/ AcceptInfo(w) /\ l = "acceptFind"
           \/ AcceptFind(w) /\ l = "acceptInsert"
           \/ AcceptInsert(w) /\ l = "acceptRecv"
           \/ AcceptRecv(w) /\ l = "drop" /\ UNCHANGED recvs
           \/ DeleteFind(w) /\ l = "erase"
           \/ DeleteErase(w) /\ l = "unavailable"
           \/ DeleteUnavailable(w) /\ l = "reuse"
           \/ ReuseConstruct(w) /\ l = "shutdown"
           \/ ReuseShutdown(w) /\ l = "disconnectEx",
           UNCHANGED recvs
    PROVE  Drives'
<1>1. pc[w] \in EntryLabels \ PostedLabels /\ l \in EntryLabels \ PostedLabels
  BY DEF DropClient, Rearm, AcceptInfo, AcceptFind, AcceptInsert, AcceptRecv, DeleteFind,
     DeleteErase, DeleteUnavailable, ReuseConstruct, ReuseShutdown, EntryLabels, DeleteLabels,
     PostedLabels
<1>2. /\ batch[w] # <<>> /\ Head(batch[w]).io # "Exit" /\ pc[w] \notin PostedLabels
      /\ pc[w] \in ClientLabels \cup {"rearm"} => Sock(w) \in g_Connected_Client
  BY <1>1, StepKnows
<1>3. KernelStill /\ UNCHANGED <<pool, target>>
  BY DEF DropClient, Rearm, AcceptInfo, AcceptFind, AcceptInsert, AcceptRecv, DeleteFind,
     DeleteErase, DeleteUnavailable, ReuseConstruct, ReuseShutdown, KernelStill, kernel, control
<1>4. \A s \in Slots : s # Sock(w) =>
         /\ s \in g_Connected_Client => s \in g_Connected_Client'
         /\ s \in Is_Available => s \in Is_Available'
  BY DEF DropClient, Rearm, AcceptInfo, AcceptFind, AcceptInsert, AcceptRecv, DeleteFind,
     DeleteErase, DeleteUnavailable, ReuseConstruct, ReuseShutdown, structs
<1>5. l \in ClientLabels =>
         \/ pc[w] \in ClientLabels \cup {"rearm"} /\ g_Connected_Client' = g_Connected_Client
         \/ g_Connected_Client' = g_Connected_Client \cup {Sock(w)}
  BY DEF DropClient, Rearm, AcceptInfo, AcceptFind, AcceptInsert, AcceptRecv, DeleteFind,
     DeleteErase, DeleteUnavailable, ReuseConstruct, ReuseShutdown, ClientLabels
<1>6. l # "rearm"
  OBVIOUS
<1> QED BY <1>1, <1>2, <1>3, <1>4, <1>5, <1>6, StepInPlace

\* AcceptEx, WSARecv and DisconnectEx.
LEMMA DisconnectHandsOn ==
    ASSUME IInv, Drives, Undisturbed, NEW w \in Workers, IOFunction_Disconnect(w),
           UNCHANGED serial
    PROVE  Drives'
<1> PICK s0 : s0 = Sock(w)
    OBVIOUS
<1>1. /\ Goto(w, "reaccepted") /\ Entry(w, {"Disconnect"})
      /\ accepting' \subseteq accepting \cup {s0}
      /\ UNCHANGED <<pool, target, iocp, serial, recvs, disconnecting, g_Connected_Client,
                     Is_Available>>
  BY DEF IOFunction_Disconnect, AcceptExPending, AcceptExFails, AcceptExAtOnce, control, structs
<1>2. batch[w] # <<>> /\ pc[w] \notin PostedLabels /\ Head(batch[w]).io # "Exit"
  BY <1>1, EntryKnows
<1>3. \A s \in Slots : KnownStays(s)
  BY <1>1, <1>2, GotoKnown DEF PostedLabels
<1>4. Posts(s0, "accept", 0, "out")
  BY <1>1 DEF Posts, Drive, Outstanding
<1>5. Known(s0, "out")'
  BY DEF Known
<1> QED BY <1>1, <1>2, <1>3, <1>4, <1>5, HandOn DEF PostedLabels

\* An AcceptEx that is done at once: the slot has a connection, and no driver any more.
LEMMA DisconnectDropsDriver ==
    ASSUME IInv, Drives, Undisturbed, NEW w \in Workers, IOFunction_Disconnect(w),
           AcceptExAtOnce(Sock(w))
    PROVE  Drives'
<1> PICK s0, j0, p0 : /\ s0 = Sock(w) /\ j0 = Len(batch[w]) - 1
                      /\ p0 = StageAt(pc[w], Head(batch[w]), serial)
    OBVIOUS
<1>1. /\ Goto(w, "reaccepted") /\ Entry(w, {"Disconnect"})
      /\ serial' = [serial EXCEPT ![s0] = @ + 1]
      /\ UNCHANGED <<pool, target, iocp, recvs, accepting, disconnecting, g_Connected_Client,
                     Is_Available>>
  BY DEF IOFunction_Disconnect, AcceptExAtOnce, control, structs
<1>2. batch[w] # <<>> /\ pc[w] \notin PostedLabels /\ Head(batch[w]).io # "Exit"
  BY <1>1, EntryKnows
<1>3. s0 \in Slots /\ j0 \in Nat /\ Drive(s0, "batch", w, j0, p0) /\ p0 \in Stages
  BY <1>2, HeadDrive, StageKinds
<1>4. "port" \in Ops /\ "batch" \in Ops /\ Workers \cup {Nobody} \subseteq Holders
  BY DEF Ops, Holders, Threads
<1>5. \A k \in Ops, t \in Holders, i \in Nat, p \in Stages :
         Drive(s0, k, t, i, p) => k = "batch" /\ t = w /\ i = j0
  BY <1>3, <1>4 DEF Drives, OneDrive
<1>6. \A s \in Slots : s # s0 => serial'[s] = serial[s]
  BY <1>1 DEF IInv, KernelTypes
<1>7. batch' = batch /\ \A v \in Workers : pc'[v] = IF v = w THEN "reaccepted" ELSE pc[v]
  BY <1>1 DEF Goto, IInv, ThreadsOK, ThreadTypes, Threads
<1>8. \A s \in Slots, i \in Nat, p \in Stages : PortDrive(s, i, p)' => PortDrive(s, i, p)
  <2> SUFFICES ASSUME NEW s \in Slots, NEW i \in Nat, NEW p \in Stages, PortDrive(s, i, p)'
               PROVE  PortDrive(s, i, p)
      OBVIOUS
  <2>1. i \in 1..Len(iocp) /\ Carrier(iocp[i], s) /\ p = EntryStage(iocp[i], serial')
    BY <1>1 DEF PortDrive
  <2>2. PortDrive(s, i, EntryStage(iocp[i], serial))
    BY <2>1 DEF PortDrive
  <2>3. s # s0
    BY <1>4, <1>5, <2>2, StageKinds DEF Drive
  <2> QED BY <1>6, <2>1, <2>2, <2>3, OtherSerial
<1>9. \A s \in Slots, v \in Workers, j \in Nat, p \in Stages :
         BatchDrive(s, v, j, p)' => BatchDrive(s, v, j, p)
  <2> SUFFICES ASSUME NEW s \in Slots, NEW v \in Workers, NEW j \in Nat, NEW p \in Stages,
                      BatchDrive(s, v, j, p)'
               PROVE  BatchDrive(s, v, j, p)
      OBVIOUS
  <2> DEFINE e == batch[v][Len(batch[v]) - j]
             first == j = Len(batch[v]) - 1
  <2>1. /\ j < Len(batch[v]) /\ Carrier(e, s)
        /\ first => pc'[v] \notin PostedLabels
        /\ p = IF first THEN StageAt(pc'[v], e, serial') ELSE EntryStage(e, serial')
    BY <1>7 DEF BatchDrive
  <2>2. v = w => ~first /\ j # j0
    BY <1>7, <2>1 DEF PostedLabels
  <2>3. v # w => pc'[v] = pc[v]
    BY <1>7
  <2>4. \E q \in Stages : BatchDrive(s, v, j, q)
    BY <2>1, <2>2, <2>3, StageKinds DEF BatchDrive
  <2>5. s # s0
    BY <1>4, <1>5, <2>2, <2>4 DEF Drive
  <2> HIDE DEF e, first
  <2>6. EntryStage(e, serial') = EntryStage(e, serial)
    BY <1>6, <2>1, <2>5, OtherSerial
  <2>7. StageAt(pc[v], e, serial') = StageAt(pc[v], e, serial)
    BY <2>6 DEF StageAt
  <2> QED BY <2>1, <2>2, <2>3, <2>6, <2>7 DEF BatchDrive, e, first
<1>10. \A s \in Slots, k \in Ops, t \in Holders, i \in Nat, p \in Stages :
          Drive(s, k, t, i, p)' => Drive(s, k, t, i, p)
  BY <1>1, <1>8, <1>9 DEF Drive
<1>11. \A s \in Slots : KnownStays(s)
  BY <1>1, <1>2, GotoKnown DEF PostedLabels
<1>12. MadeStays
  BY <1>1, WorkerMade
<1> QED BY <1>10, <1>11, <1>12, DrivesKept

LEMMA ReuseHandsOn ==
    ASSUME IInv, Drives, Undisturbed, NEW w \in Workers, ReuseDisconnect(w)
    PROVE  Drives'
<1> PICK s0 : s0 = Sock(w)
    OBVIOUS
<1>1. /\ Leave(w) /\ pc[w] = "disconnectEx"
      /\ disconnecting' \subseteq disconnecting \cup {s0}
      /\ UNCHANGED <<pool, target, iocp, serial, recvs, accepting, g_Connected_Client,
                     Is_Available>>
  BY DEF ReuseDisconnect, DisconnectEx, control, structs
<1>2. batch[w] # <<>> /\ pc[w] \notin PostedLabels /\ Head(batch[w]).io # "Exit"
  BY <1>1, StepKnows DEF EntryLabels, DeleteLabels, PostedLabels
<1>3. \A s \in Slots : KnownStays(s)
  BY <1>1, LeaveKnown
<1>4. Posts(s0, "disconnect", 0, "out")
  BY <1>1 DEF Posts, Drive, Outstanding
<1>5. Known(s0, "out")'
  BY DEF Known
<1> QED BY <1>1, <1>2, <1>3, <1>4, <1>5, HandOn

LEMMA RecvPosted ==
    ASSUME IInv, NEW s0 \in Slots, recvs' = [recvs EXCEPT ![s0] = @ + 1],
           UNCHANGED <<accepting, disconnecting>>
    PROVE  Posts(s0, "recv", recvs[s0] + 1, "armed")
<1>1. recvs \in [Slots -> Nat]
  BY DEF IInv, KernelTypes
<1>2. \A s \in Slots : recvs'[s] = IF s = s0 THEN recvs[s0] + 1 ELSE recvs[s]
  BY <1>1
<1>3. \A s \in Slots, i \in Nat :
         i \in 1..recvs'[s] => i \in 1..recvs[s] \/ (s = s0 /\ i = recvs[s0] + 1)
  BY <1>1, <1>2
<1> QED BY <1>3 DEF Posts, Drive, Outstanding

LEMMA RearmHandsOn ==
    ASSUME IInv, Drives, Undisturbed, NEW w \in Workers, Rearm(w), WSARecv(Sock(w)), Leave(w)
    PROVE  Drives'
<1> PICK s0 : s0 = Sock(w)
    OBVIOUS
<1>1. /\ pc[w] = "rearm" /\ recvs' = [recvs EXCEPT ![s0] = @ + 1]
      /\ UNCHANGED <<pool, target, iocp, serial, accepting, disconnecting, g_Connected_Client,
                     Is_Available>>
  BY DEF Rearm, WSARecv, control, structs
<1>2. /\ batch[w] # <<>> /\ pc[w] \notin PostedLabels /\ Head(batch[w]).io # "Exit"
      /\ s0 \in Slots /\ s0 \in g_Connected_Client /\ Ready(Sock(w))
  BY <1>1, StepKnows DEF EntryLabels, DeleteLabels, PostedLabels
<1>3. \A s \in Slots : KnownStays(s)
  BY <1>1, LeaveKnown
<1>4. Posts(s0, "recv", recvs[s0] + 1, "armed")
  BY <1>1, <1>2, RecvPosted
<1>5. Known(s0, "armed")'
  BY <1>2, <1>3 DEF KnownStays, Known, Ready, Stages
<1> QED BY <1>1, <1>2, <1>3, <1>4, <1>5, HandOn

LEMMA AcceptHandsOn ==
    ASSUME IInv, Drives, Undisturbed, NEW w \in Workers, AcceptRecv(w), WSARecv(Sock(w)),
           Goto(w, "accepted")
    PROVE  Drives'
<1> PICK s0 : s0 = Sock(w)
    OBVIOUS
<1>1. /\ pc[w] = "acceptRecv" /\ recvs' = [recvs EXCEPT ![s0] = @ + 1]
      /\ UNCHANGED <<pool, target, iocp, serial, accepting, disconnecting, g_Connected_Client,
                     Is_Available>>
  BY DEF AcceptRecv, WSARecv, control, structs
<1>2. /\ batch[w] # <<>> /\ pc[w] \notin PostedLabels /\ Head(batch[w]).io # "Exit"
      /\ s0 \in Slots /\ s0 \in g_Connected_Client
  BY <1>1, StepKnows DEF EntryLabels, DeleteLabels, PostedLabels, ClientLabels
<1>3. \A s \in Slots : KnownStays(s)
  BY <1>1, GotoKnown
<1>4. Posts(s0, "recv", recvs[s0] + 1, "armed")
  BY <1>1, <1>2, RecvPosted
<1>5. pc'[w] = "accepted" /\ Sock(w)' = s0
  BY DEF Goto, Sock, IInv, ThreadsOK, ThreadTypes, Threads
<1>6. Known(s0, "armed")'
  BY <1>1, <1>2, <1>5 DEF Known, Ready
<1> QED BY <1>1, <1>2, <1>3, <1>4, <1>6, HandOn DEF PostedLabels

-----------------------------------------------------------------------------
(* The completion port.                                                    *)

\* The workers other than w are where they were, and so is what is known.
LEMMA OthersKnown ==
    ASSUME UNCHANGED <<g_Connected_Client, Is_Available>>, NEW w, pc[w] # "accepted",
           \A v \in Workers : v # w => pc'[v] = pc[v] /\ batch'[v] = batch[v]
    PROVE  \A s \in Slots : KnownStays(s)
<1>1. \A v \in Workers : v # w => Sock(v)' = Sock(v)
  BY DEF Sock
<1>2. \A s \in Slots : Ready(s) => Ready(s)'
  BY <1>1 DEF Ready
<1> QED BY <1>2 DEF KnownStays, Known

\* A batch takes the drivers of its entries with it, and the rest of the port moves up.
LEMMA TakeDrives ==
    ASSUME IInv, IInv', Drives, NEW w \in Workers, GetQueuedCompletionStatusEx(w)
    PROVE  Drives'
<1> DEFINE n == Taken
<1>1. /\ iocp \in Seq(Completions) /\ Len(iocp) \in Nat
      /\ batch \in [Workers -> Seq(Completions)] /\ pc \in [Threads -> Labels]
      /\ w \in Threads /\ Workers \cup {App} \subseteq Threads /\ w # App
  BY PortFacts
<1>2. n \in Nat /\ n <= Len(iocp)
  BY <1>1, ServerAssumption DEF Taken
<1>3. /\ batch' = [batch EXCEPT ![w] = SubSeq(iocp, 1, n)]
      /\ iocp' = SubSeq(iocp, n + 1, Len(iocp)) /\ pc' = [pc EXCEPT ![w] = "next"]
      /\ pc[w] = "wait"
      /\ UNCHANGED <<pool, target, g_Connected_Client, Is_Available, accepting, disconnecting,
                     recvs, serial>>
  BY DEF GetQueuedCompletionStatusEx, control, structs
<1> HIDE DEF n
<1>4. /\ Len(SubSeq(iocp, 1, n)) = n
      /\ \A i \in 1..n : SubSeq(iocp, 1, n)[i] = iocp[i]
  BY <1>1, <1>2
<1>5. /\ Len(iocp') = Len(iocp) - n
      /\ \A i \in 1..(Len(iocp) - n) : iocp'[i] = iocp[i + n]
  <2>1. /\ Len(SubSeq(iocp, n + 1, Len(iocp))) = Len(iocp) - n
        /\ \A i \in 1..(Len(iocp) - n) : SubSeq(iocp, n + 1, Len(iocp))[i] = iocp[i + n]
    BY <1>1, <1>2
  <2> QED BY <1>3, <2>1
<1>6. \A s \in Slots, i \in Nat, p \in Stages :
         PortDrive(s, i, p)' => i > 0 /\ i + n \in Nat /\ PortDrive(s, i + n, p)
  <2> SUFFICES ASSUME NEW s \in Slots, NEW i \in Nat, NEW p \in Stages, PortDrive(s, i, p)'
               PROVE  i > 0 /\ i + n \in Nat /\ PortDrive(s, i + n, p)
      OBVIOUS
  <2>1. i \in 1..(Len(iocp) - n) /\ Carrier(iocp'[i], s) /\ p = EntryStage(iocp'[i], serial)
    BY <1>3, <1>5 DEF PortDrive
  <2>2. iocp'[i] = iocp[i + n]
    BY <1>5, <2>1
  <2>3. i > 0 /\ i + n \in 1..Len(iocp)
    BY <1>1, <1>2, <2>1
  <2> QED BY <1>2, <2>1, <2>2, <2>3 DEF PortDrive
<1>7. \A s \in Slots, v \in Workers, j \in Nat, p \in Stages :
         BatchDrive(s, v, j, p)' =>
            \/ v # w /\ BatchDrive(s, v, j, p)
            \/ v = w /\ j < n /\ n - j \in Nat /\ PortDrive(s, n - j, p)
  <2> SUFFICES ASSUME NEW s \in Slots, NEW v \in Workers, NEW j \in Nat, NEW p \in Stages,
                      BatchDrive(s, v, j, p)'
               PROVE  \/ v # w /\ BatchDrive(s, v, j, p)
                      \/ v = w /\ j < n /\ n - j \in Nat /\ PortDrive(s, n - j, p)
      OBVIOUS
  <2>1. CASE v # w
    BY <1>1, <1>3, <2>1 DEF BatchDrive
  <2>2. CASE v = w
    <3>1. batch'[v] = SubSeq(iocp, 1, n) /\ pc'[v] = "next"
      BY <1>1, <1>3, <2>2
    <3> DEFINE c == SubSeq(iocp, 1, n)[n - j]
    <3>2. /\ j < n /\ Carrier(c, s)
          /\ p = StageAt("next", c, serial) \/ p = EntryStage(c, serial)
      BY <1>3, <1>4, <3>1 DEF BatchDrive
    <3>3. n - j \in 1..n /\ n - j \in 1..Len(iocp) /\ n - j \in Nat
      BY <1>1, <1>2, <3>2
    <3>4. c = iocp[n - j]
      BY <1>4, <3>3
    <3> HIDE DEF c
    <3>5. p = EntryStage(c, serial)
      BY <3>2 DEF StageAt, ClientLabels, NoClientLabels, HoldLabels
    <3> QED BY <2>2, <3>2, <3>3, <3>4, <3>5 DEF PortDrive
  <2> QED BY <2>1, <2>2
<1>9. \A s \in Slots, k \in Ops, t \in Holders, i \in Nat, p \in Stages :
         Drive(s, k, t, i, p)' =>
            \/ k # "port" /\ (k = "batch" => t # w) /\ Drive(s, k, t, i, p)
            \/ k = "port" /\ t = Nobody /\ i > 0 /\ Drive(s, "port", Nobody, i + n, p)
            \/ k = "batch" /\ t = w /\ i < n /\ Drive(s, "port", Nobody, n - i, p)
  BY <1>3, <1>6, <1>7 DEF Drive
<1>10. OneDrive'
  <2> SUFFICES ASSUME NEW s \in Slots, NEW ka \in Ops, NEW kb \in Ops,
                      NEW ta \in Holders, NEW tb \in Holders, NEW ia \in Nat, NEW ib \in Nat,
                      NEW pa \in Stages, NEW pb \in Stages,
                      Drive(s, ka, ta, ia, pa)', Drive(s, kb, tb, ib, pb)'
               PROVE  ka = kb /\ ta = tb /\ ia = ib
      BY DEF OneDrive
  <2> DEFINE Stays(k, t, i, p) ==
                k # "port" /\ (k = "batch" => t # w) /\ Drive(s, k, t, i, p)
             Rest(k, t, i, p) ==
                k = "port" /\ t = Nobody /\ i > 0 /\ Drive(s, "port", Nobody, i + n, p)
             Gets(k, t, i, p) ==
                k = "batch" /\ t = w /\ i < n /\ Drive(s, "port", Nobody, n - i, p)
  <2>1. Stays(ka, ta, ia, pa) \/ Rest(ka, ta, ia, pa) \/ Gets(ka, ta, ia, pa)
    BY <1>9
  <2>2. Stays(kb, tb, ib, pb) \/ Rest(kb, tb, ib, pb) \/ Gets(kb, tb, ib, pb)
    BY <1>9
  <2>3. \A i \in Nat : i + n \in Nat /\ (i < n => n - i \in Nat)
    BY <1>2
  <2>4. "port" \in Ops /\ Nobody \in Holders
    BY DEF Ops, Holders
  <2>5. OneDrive
    BY DEF Drives
  <2>6. CASE Stays(ka, ta, ia, pa)
    <3>1. ~Rest(kb, tb, ib, pb) /\ ~Gets(kb, tb, ib, pb)
      BY <2>3, <2>4, <2>5, <2>6 DEF OneDrive
    <3> QED BY <2>2, <2>5, <2>6, <3>1 DEF OneDrive
  <2>7. CASE Rest(ka, ta, ia, pa)
    <3>1. ~Stays(kb, tb, ib, pb)
      BY <2>3, <2>4, <2>5, <2>7 DEF OneDrive
    <3>2. Gets(kb, tb, ib, pb) => ia + n = n - ib
      BY <2>3, <2>4, <2>5, <2>7 DEF OneDrive
    <3>3. ~Gets(kb, tb, ib, pb)
      BY <1>2, <2>7, <3>2
    <3>4. Rest(kb, tb, ib, pb)
      BY <2>2, <3>1, <3>3
    <3>5. ia + n = ib + n
      BY <2>3, <2>4, <2>5, <2>7, <3>4 DEF OneDrive
    <3> QED BY <1>2, <2>7, <3>4, <3>5
  <2>8. CASE Gets(ka, ta, ia, pa)
    <3>1. ~Stays(kb, tb, ib, pb)
      BY <2>3, <2>4, <2>5, <2>8 DEF OneDrive
    <3>2. Rest(kb, tb, ib, pb) => ib + n = n - ia
      BY <2>3, <2>4, <2>5, <2>8 DEF OneDrive
    <3>3. ~Rest(kb, tb, ib, pb)
      BY <1>2, <3>2
    <3>4. Gets(kb, tb, ib, pb)
      BY <2>2, <3>1, <3>3
    <3>5. n - ia = n - ib
      BY <2>3, <2>4, <2>5, <2>8, <3>4 DEF OneDrive
    <3> QED BY <1>2, <2>8, <3>4, <3>5
  <2> QED BY <2>1, <2>6, <2>7, <2>8
<1>11. \A s \in Slots, k \in Ops, t \in Holders, i \in Nat, p \in Stages :
          Drive(s, k, t, i, p)' => Known(s, p) /\ Made(s)
  <2>1. \A i \in Nat : i + n \in Nat /\ (i < n => n - i \in Nat)
    BY <1>2
  <2>2. "port" \in Ops /\ Nobody \in Holders
    BY DEF Ops, Holders
  <2> QED BY <1>9, <2>1, <2>2 DEF Drives, DriveKnows
<1>12. \A s \in Slots : KnownStays(s)
  <2>1. \A v \in Workers : v # w => pc'[v] = pc[v] /\ batch'[v] = batch[v]
    BY <1>1, <1>3
  <2> QED BY <1>3, <2>1, OthersKnown
<1>13. MadeStays
  BY <1>1, <1>3, MadeByOthers
<1>14. DriveKnows'
  BY <1>11, <1>12, <1>13 DEF DriveKnows, KnownStays, MadeStays
<1> QED BY <1>10, <1>14 DEF Drives

\* A completion at the end of the port.
LEMMA PortGrows ==
    ASSUME IInv, NEW c, iocp' = Append(iocp, c)
    PROVE  /\ \A s \in Slots, i \in Nat, p \in Stages :
                PortDrive(s, i, p)' =>
                   \/ /\ i \in 1..Len(iocp) /\ Carrier(iocp[i], s)
                      /\ p = EntryStage(iocp[i], serial')
                   \/ i = Len(iocp) + 1 /\ Carrier(c, s) /\ p = EntryStage(c, serial')
           /\ Len(iocp) + 1 \in Nat
<1>1. iocp \in Seq(Completions) /\ Len(iocp) \in Nat
  BY DEF IInv, KernelTypes
<1>2. /\ Len(Append(iocp, c)) = Len(iocp) + 1
      /\ \A i \in 1..Len(iocp) : Append(iocp, c)[i] = iocp[i]
      /\ Append(iocp, c)[Len(iocp) + 1] = c
  BY <1>1
<1> SUFFICES ASSUME NEW s \in Slots, NEW i \in Nat, NEW p \in Stages, PortDrive(s, i, p)'
             PROVE  \/ /\ i \in 1..Len(iocp) /\ Carrier(iocp[i], s)
                       /\ p = EntryStage(iocp[i], serial')
                    \/ i = Len(iocp) + 1 /\ Carrier(c, s) /\ p = EntryStage(c, serial')
    BY <1>1
<1>3. /\ i \in 1..(Len(iocp) + 1) /\ Carrier(Append(iocp, c)[i], s)
      /\ p = EntryStage(Append(iocp, c)[i], serial')
  BY <1>2 DEF PortDrive
<1>4. CASE i = Len(iocp) + 1
  BY <1>2, <1>3, <1>4
<1>5. CASE i \in 1..Len(iocp)
  BY <1>2, <1>3, <1>5
<1> QED BY <1>1, <1>3, <1>4, <1>5

\* A worker that exits leaves its entries, and their slots, behind.
LEMMA ExitDrives ==
    ASSUME IInv, IInv', Drives, NEW w \in Workers, ExitThread(w)
    PROVE  Drives'
<1>1. /\ batch \in [Workers -> Seq(Completions)] /\ pc \in [Threads -> Labels]
      /\ w \in Threads /\ Workers \cup {App} \subseteq Threads /\ w # App
  BY PortFacts
<1>2. /\ batch' = [batch EXCEPT ![w] = <<>>] /\ Head(batch[w]).io = "Exit" /\ pc[w] = "next"
      /\ iocp' = Append(iocp, Head(batch[w])) /\ pc' = [pc EXCEPT ![w] = "exited"]
      /\ UNCHANGED <<pool, target, g_Connected_Client, Is_Available, accepting, disconnecting,
                     recvs, serial>>
  BY DEF ExitThread, Entry, structs
<1>3. \A s \in Slots, i \in Nat, p \in Stages : PortDrive(s, i, p)' => PortDrive(s, i, p)
  BY <1>2, PortGrows DEF PortDrive, Carrier
<1>4. \A v \in Workers : v # w => pc'[v] = pc[v] /\ batch'[v] = batch[v]
  BY <1>1, <1>2
<1>5. batch'[w] = <<>>
  BY <1>1, <1>2
<1>6. \A s \in Slots, v \in Workers, j \in Nat, p \in Stages :
         BatchDrive(s, v, j, p)' => BatchDrive(s, v, j, p)
  BY <1>2, <1>4, <1>5 DEF BatchDrive
<1>7. \A s \in Slots, k \in Ops, t \in Holders, i \in Nat, p \in Stages :
         Drive(s, k, t, i, p)' => Drive(s, k, t, i, p)
  BY <1>2, <1>3, <1>6 DEF Drive
<1>8. \A s \in Slots : KnownStays(s)
  BY <1>2, <1>4, OthersKnown
<1>9. MadeStays
  BY <1>1, <1>2, MadeByOthers
<1> QED BY <1>7, <1>8, <1>9, DrivesKept

-----------------------------------------------------------------------------
(* Winsock, the application and the send thread.                           *)

LEMMA StillKnown ==
    ASSUME UNCHANGED <<g_Connected_Client, Is_Available, batch>>,
           \A v \in Workers : pc'[v] = pc[v]
    PROVE  \A s \in Slots : KnownStays(s)
<1>1. \A v \in Workers : Sock(v)' = Sock(v)
  BY DEF Sock
<1>2. \A s \in Slots : Ready(s) => Ready(s)'
  BY <1>1 DEF Ready
<1> QED BY <1>2 DEF KnownStays, Known

LEMMA ConnectDrives ==
    ASSUME IInv, IInv', Drives, NEW s0 \in Slots, ClientConnects(s0),
           UNCHANGED <<pool, target, g_Connected_Client, Is_Available, pc, batch>>
    PROVE  Drives'
<1> PICK c, i1 : /\ c = [io |-> "Accept", sock |-> s0, n |-> "zero", serial |-> serial[s0] + 1]
                 /\ i1 = Len(iocp) + 1
    OBVIOUS
<1>1. /\ s0 \in accepting /\ accepting' = accepting \ {s0}
      /\ UNCHANGED <<disconnecting, recvs>>
      /\ serial' = [serial EXCEPT ![s0] = @ + 1] /\ iocp' = Append(iocp, c)
  BY DEF ClientConnects
<1>2. Drive(s0, "accept", Nobody, 0, "out")
  BY <1>1 DEF Drive
<1>3. "accept" \in Ops /\ "port" \in Ops /\ "batch" \in Ops /\ Nobody \in Holders
      /\ Workers \subseteq Holders /\ "out" \in Stages
  BY DEF Ops, Holders, Threads, Stages
<1>4. \A k \in Ops, t \in Holders, i \in Nat, p \in Stages :
         Drive(s0, k, t, i, p) => k = "accept"
  BY <1>2, <1>3 DEF Drives, OneDrive
<1>5. /\ serial'[s0] = serial[s0] + 1
      /\ \A s \in Slots : s # s0 => serial'[s] = serial[s]
  BY <1>1 DEF IInv, KernelTypes
<1>6. \A s : Carrier(c, s) => s = s0 /\ EntryStage(c, serial') = "out"
  BY <1>5 DEF Carrier, EntryStage
<1>7. \A s \in Slots, i \in Nat, p \in Stages :
         PortDrive(s, i, p)' => PortDrive(s, i, p) \/ (i = i1 /\ s = s0 /\ p = "out")
  <2> SUFFICES ASSUME NEW s \in Slots, NEW i \in Nat, NEW p \in Stages, PortDrive(s, i, p)',
                      ~(i = i1 /\ s = s0 /\ p = "out")
               PROVE  PortDrive(s, i, p)
      OBVIOUS
  <2>1. i \in 1..Len(iocp) /\ Carrier(iocp[i], s) /\ p = EntryStage(iocp[i], serial')
    BY <1>1, <1>6, PortGrows
  <2>2. PortDrive(s, i, EntryStage(iocp[i], serial))
    BY <2>1 DEF PortDrive
  <2>3. s # s0
    BY <1>3, <1>4, <2>2, StageKinds DEF Drive
  <2> QED BY <1>5, <2>1, <2>2, <2>3, OtherSerial
<1>8. \A s \in Slots, w \in Workers, j \in Nat, p \in Stages :
         BatchDrive(s, w, j, p)' => BatchDrive(s, w, j, p)
  <2> SUFFICES ASSUME NEW s \in Slots, NEW w \in Workers, NEW j \in Nat, NEW p \in Stages,
                      BatchDrive(s, w, j, p)'
               PROVE  BatchDrive(s, w, j, p)
      OBVIOUS
  <2> DEFINE e == batch[w][Len(batch[w]) - j]
             first == j = Len(batch[w]) - 1
  <2>1. /\ j < Len(batch[w]) /\ Carrier(e, s)
        /\ first => pc[w] \notin PostedLabels
        /\ p = IF first THEN StageAt(pc[w], e, serial') ELSE EntryStage(e, serial')
    BY DEF BatchDrive
  <2>2. \E q \in Stages : BatchDrive(s, w, j, q)
    BY <2>1, StageKinds DEF BatchDrive
  <2>3. s # s0
    BY <1>3, <1>4, <2>2 DEF Drive
  <2> HIDE DEF e, first
  <2>4. EntryStage(e, serial') = EntryStage(e, serial)
    BY <1>5, <2>1, <2>3, OtherSerial
  <2>5. StageAt(pc[w], e, serial') = StageAt(pc[w], e, serial)
    BY <2>4 DEF StageAt
  <2> QED BY <2>1, <2>4, <2>5 DEF BatchDrive, e, first
<1>9. Passes(s0, "accept", Nobody, 0, "port", Nobody, i1, "out")
  BY <1>1, <1>7, <1>8 DEF Drive, Passes
<1>10. MadeStays /\ \A s \in Slots : KnownStays(s)
  BY MadeByOthers, StillKnown
<1>11. Known(s0, "out")'
  BY DEF Known
<1> QED BY <1>2, <1>3, <1>9, <1>10, <1>11, DrivePassed

LEMMA RecvDrives ==
    ASSUME IInv, IInv', Drives, NEW s0 \in Slots, RecvCompletes(s0),
           UNCHANGED <<pool, target, g_Connected_Client, Is_Available, pc, batch>>
    PROVE  Drives'
<1>1. PICK n : iocp' = Append(iocp, Completion("Recv", s0, n))
  BY DEF RecvCompletes
<1> PICK c, i0, i1 : /\ c = Completion("Recv", s0, n) /\ i0 = recvs[s0] /\ i1 = Len(iocp) + 1
    OBVIOUS
<1>2. /\ i0 > 0 /\ recvs' = [recvs EXCEPT ![s0] = @ - 1]
      /\ UNCHANGED <<accepting, disconnecting, serial>> /\ iocp' = Append(iocp, c)
  BY <1>1 DEF RecvCompletes
<1>3. recvs \in [Slots -> Nat] /\ i0 \in Nat
  BY DEF IInv, KernelTypes
<1>4. Drive(s0, "recv", Nobody, i0, "armed")
  BY <1>2, <1>3 DEF Drive
<1>5. "recv" \in Ops /\ Nobody \in Holders /\ "armed" \in Stages
  BY DEF Ops, Holders, Stages
<1>6. \A s : Carrier(c, s) => s = s0 /\ EntryStage(c, serial) = "armed"
  BY DEF Carrier, EntryStage, Completion
<1>7. \A s \in Slots, i \in Nat, p \in Stages :
         PortDrive(s, i, p)' => PortDrive(s, i, p) \/ (i = i1 /\ s = s0 /\ p = "armed")
  BY <1>2, <1>6, PortGrows DEF PortDrive
<1>8. \A s \in Slots, w \in Workers, j \in Nat, p \in Stages :
         BatchDrive(s, w, j, p)' => BatchDrive(s, w, j, p)
  BY <1>2, WorkersStill
<1>9. \A s \in Slots, i \in Nat :
         i \in 1..recvs'[s] => i \in 1..recvs[s] /\ (s # s0 \/ i # i0)
  <2>1. \A s \in Slots : recvs'[s] = IF s = s0 THEN recvs[s0] - 1 ELSE recvs[s]
    BY <1>2, <1>3
  <2> QED BY <1>3, <2>1
<1>10. Passes(s0, "recv", Nobody, i0, "port", Nobody, i1, "armed")
  BY <1>2, <1>7, <1>8, <1>9 DEF Drive, Passes
<1>11. MadeStays /\ \A s \in Slots : KnownStays(s)
  BY MadeByOthers, StillKnown
<1>12. Known(s0, "armed")'
  BY <1>3, <1>4, <1>5, <1>11 DEF Drives, DriveKnows, KnownStays
<1> QED BY <1>3, <1>4, <1>5, <1>10, <1>11, <1>12, DrivePassed

LEMMA DisconnectDrives ==
    ASSUME IInv, IInv', Drives, NEW s0 \in Slots, DisconnectCompletes(s0),
           UNCHANGED <<pool, target, g_Connected_Client, Is_Available, pc, batch>>
    PROVE  Drives'
<1> PICK c, i1 : c = Completion("Disconnect", s0, "zero") /\ i1 = Len(iocp) + 1
    OBVIOUS
<1>1. /\ s0 \in disconnecting /\ disconnecting' = disconnecting \ {s0}
      /\ UNCHANGED <<accepting, recvs, serial>> /\ iocp' = Append(iocp, c)
  BY DEF DisconnectCompletes
<1>2. Drive(s0, "disconnect", Nobody, 0, "out")
  BY <1>1 DEF Drive
<1>3. "disconnect" \in Ops /\ Nobody \in Holders /\ "out" \in Stages
  BY DEF Ops, Holders, Stages
<1>4. \A s : Carrier(c, s) => s = s0 /\ EntryStage(c, serial) = "out"
  BY DEF Carrier, EntryStage, Completion
<1>5. \A s \in Slots, i \in Nat, p \in Stages :
         PortDrive(s, i, p)' => PortDrive(s, i, p) \/ (i = i1 /\ s = s0 /\ p = "out")
  BY <1>1, <1>4, PortGrows DEF PortDrive
<1>6. \A s \in Slots, w \in Workers, j \in Nat, p \in Stages :
         BatchDrive(s, w, j, p)' => BatchDrive(s, w, j, p)
  BY <1>1, WorkersStill
<1>7. Passes(s0, "disconnect", Nobody, 0, "port", Nobody, i1, "out")
  BY <1>1, <1>5, <1>6 DEF Drive, Passes
<1>8. MadeStays /\ \A s \in Slots : KnownStays(s)
  BY MadeByOthers, StillKnown
<1>9. Known(s0, "out")'
  BY DEF Known
<1> QED BY <1>2, <1>3, <1>7, <1>8, <1>9, DrivePassed

\* The workers and the operations outstanding are left alone; the port gets at most an exit.
LEMMA StillDrives ==
    ASSUME IInv, Drives, MadeStays,
           UNCHANGED <<g_Connected_Client, Is_Available, batch, accepting, disconnecting, recvs,
                       serial>>,
           \A v \in Workers : pc'[v] = pc[v],
           iocp' = iocp \/ iocp' = Append(iocp, ExitCompletion)
    PROVE  Drives'
<1>1. \A s : ~Carrier(ExitCompletion, s)
  BY DEF Carrier, ExitCompletion
<1>2. \A s \in Slots, i \in Nat, p \in Stages : PortDrive(s, i, p)' => PortDrive(s, i, p)
  <2>1. CASE iocp' = iocp
    BY <2>1 DEF PortDrive
  <2>2. CASE iocp' = Append(iocp, ExitCompletion)
    BY <1>1, <2>2, PortGrows DEF PortDrive
  <2> QED BY <2>1, <2>2
<1>3. \A s \in Slots, w \in Workers, j \in Nat, p \in Stages :
         BatchDrive(s, w, j, p)' => BatchDrive(s, w, j, p)
  BY WorkersStill
<1>4. \A s \in Slots, k \in Ops, t \in Holders, i \in Nat, p \in Stages :
         Drive(s, k, t, i, p)' => Drive(s, k, t, i, p)
  <2> SUFFICES ASSUME NEW s \in Slots, NEW k \in Ops, NEW t \in Holders, NEW i \in Nat,
                      NEW p \in Stages, Drive(s, k, t, i, p)'
               PROVE  Drive(s, k, t, i, p)
    OBVIOUS
  <2>0. accepting' = accepting /\ disconnecting' = disconnecting /\ recvs' = recvs
    OBVIOUS
  <2>1. CASE k = "port" /\ t = Nobody /\ PortDrive(s, i, p)'
    BY <2>1, <1>2 DEF Drive
  <2>2. CASE k = "batch" /\ t \in Workers /\ BatchDrive(s, t, i, p)'
    BY <2>2, <1>3 DEF Drive
  <2>3. CASE ~(k = "port" /\ t = Nobody /\ PortDrive(s, i, p)')
             /\ ~(k = "batch" /\ t \in Workers /\ BatchDrive(s, t, i, p)')
    BY <2>0, <2>3 DEF Drive
  <2> QED BY <2>1, <2>2, <2>3
<1> QED BY <1>4, StillKnown, DrivesKept

\* CreateSocket gives a slot its first operation.
LEMMA CreateDrives ==
    ASSUME IInv, IInv', Drives, NEW s0 \in Slots, CreateSocket(s0)
    PROVE  Drives'
<1>1. /\ pc[App] = "start" /\ s0 \notin pool /\ accepting' = accepting \cup {s0}
      /\ target' = [target EXCEPT ![App] = s0] /\ Goto(App, "insert")
      /\ UNCHANGED <<pool, g_Connected_Client, Is_Available, iocp, disconnecting, recvs, serial,
                     batch>>
  BY DEF CreateSocket, Goto, structs
<1>2. /\ App \in Threads /\ App \notin Workers /\ pc \in [Threads -> Labels]
      /\ target \in [{App, Sender} -> Slots \cup {Nobody}] /\ Workers \subseteq Threads
  BY ServerAssumption DEF Threads, IInv, ThreadsOK, ThreadTypes
<1>3. \A v \in Workers : pc'[v] = pc[v]
  BY <1>1, <1>2 DEF Goto
<1>4. \A k \in Ops, t \in Holders, i \in Nat, p \in Stages : ~Drive(s0, k, t, i, p)
  BY <1>1 DEF Made, Drives, DriveKnows
<1>5. \A s \in Slots, w \in Workers, j \in Nat, p \in Stages :
         BatchDrive(s, w, j, p)' => BatchDrive(s, w, j, p)
  BY <1>1, <1>3, WorkersStill
<1>6. \A s \in Slots, i \in Nat, p \in Stages : PortDrive(s, i, p)' => PortDrive(s, i, p)
  BY <1>1, PortStill
<1>7. \A s \in Slots, k \in Ops, t \in Holders, i \in Nat, p \in Stages :
         Drive(s, k, t, i, p)' =>
            \/ s # s0 /\ Drive(s, k, t, i, p)
            \/ s = s0 /\ k = "accept" /\ t = Nobody /\ i = 0 /\ p = "out"
  <2>1. \A s \in Slots, k \in Ops, t \in Holders, i \in Nat, p \in Stages :
           Drive(s, k, t, i, p)' =>
              \/ Drive(s, k, t, i, p)
              \/ s = s0 /\ k = "accept" /\ t = Nobody /\ i = 0 /\ p = "out"
    BY <1>1, <1>5, <1>6 DEF Drive
  <2>2. \A s \in Slots, k \in Ops, t \in Holders, i \in Nat, p \in Stages :
           Drive(s, k, t, i, p) => s # s0
    BY <1>4
  <2> QED BY <2>1, <2>2
<1>8. OneDrive'
  BY <1>7 DEF Drives, OneDrive
<1>9. Made(s0)' /\ MadeStays
  <2>1. pc'[App] = "insert" /\ target'[App] = s0
    BY <1>1, <1>2 DEF Goto
  <2> QED BY <1>1, <2>1, MadeByApp DEF Made
<1>10. \A s \in Slots : KnownStays(s)
  BY <1>1, <1>3, StillKnown
<1>11. DriveKnows'
  <2> SUFFICES ASSUME NEW s \in Slots, NEW k \in Ops, NEW t \in Holders, NEW i \in Nat,
                      NEW p \in Stages, Drive(s, k, t, i, p)'
               PROVE  Known(s, p)' /\ Made(s)'
      BY DEF DriveKnows
  <2>1. CASE s = s0
    BY <1>7, <1>9, <2>1 DEF Known, Made
  <2>2. CASE s # s0
    BY <1>7, <1>9, <1>10, <2>2 DEF Drives, DriveKnows, KnownStays, MadeStays
  <2> QED BY <2>1, <2>2
<1> QED BY <1>8, <1>11 DEF Drives

LEMMA NetworkDrives ==
    ASSUME IInv, IInv', Drives, Undisturbed, Network
    PROVE  Drives'
<1>1. UNCHANGED <<pool, target, g_Connected_Client, Is_Available, pc, batch>>
  BY DEF Network, control, structs
<1>2. ASSUME NEW s0 \in Slots, ClientCloses(s0) PROVE Drives'
  BY <1>1, <1>2, MadeByOthers, StillDrives DEF ClientCloses
<1>3. ASSUME NEW s0 \in Slots, SendCompletes(s0) PROVE Drives'
  BY <1>3 DEF SendCompletes, Undisturbed
<1> QED BY <1>1, <1>2, <1>3, ConnectDrives, RecvDrives, DisconnectDrives
        DEF Network, IOCompletes

LEMMA ApplicationDrives ==
    ASSUME IInv, IInv', Drives, Undisturbed, MaxSends = 0, ~AppDisconnects, Application
    PROVE  Drives'
<1>1. /\ App \in Threads /\ Sender \in Threads /\ App \notin Workers /\ Sender \notin Workers
      /\ App # Sender /\ pc \in [Threads -> Labels] /\ Workers \subseteq Threads
  BY ServerAssumption DEF Threads, IInv, ThreadsOK, ThreadTypes
<1>2. ASSUME NEW s \in Slots, CreateSocket(s) PROVE Drives'
  BY <1>2, CreateDrives
<1>3. ASSUME NEW s \in Slots, Disconnect(s) \/ Target_Message(s) PROVE FALSE
  <2>1. Len(Send_Data_Queue) = 0
    BY DEF Undisturbed
  <2> QED BY <1>3, <2>1 DEF Disconnect, Target_Message
<1>4. ASSUME DeleteAndReuse(App) PROVE FALSE
  BY <1>4 DEF DeleteAndReuse, DeleteFind, DeleteErase, DeleteUnavailable, ReuseConstruct,
              ReuseShutdown, ReuseDisconnect, Undisturbed, DeleteLabels
<1>5. CASE AcceptFails \/ InsertSocket \/ StartSendThread \/ End \/ EndJoined
  <2>1. /\ UNCHANGED <<g_Connected_Client, Is_Available, batch, accepting, disconnecting, recvs,
                       serial>>
        /\ iocp' = iocp \/ iocp' = Append(iocp, ExitCompletion)
    BY <1>5 DEF AcceptFails, InsertSocket, StartSendThread, End, EndJoined, Goto, kernel, structs
  <2>2. \A v \in Workers : pc'[v] = pc[v]
    BY <1>1, <1>5 DEF AcceptFails, InsertSocket, StartSendThread, End, EndJoined, Goto
  <2>3. CASE InsertSocket
    <3>1. MadeStays
      BY <2>3 DEF InsertSocket, MadeStays, Made
    <3> QED BY <2>1, <2>2, <3>1, StillDrives
  <2>4. CASE ~InsertSocket
    <3>1. pool' = pool /\ pc[App] # "insert"
      BY <1>5, <2>4 DEF AcceptFails, StartSendThread, End, EndJoined, control
    <3>2. MadeStays
      BY <3>1, MadeByApp
    <3> QED BY <2>1, <2>2, <3>2, StillDrives
  <2> QED BY <2>3, <2>4
<1> QED BY <1>2, <1>3, <1>4, <1>5 DEF Application

LEMMA SenderDrives ==
    ASSUME IInv, Drives, Undisturbed, SendThread
    PROVE  Drives' /\ (SendEmpty \/ SendTest)
<1>1. SendEmpty \/ SendTest
  BY DEF SendThread, SendFind, SendChunk, SendRelease, Undisturbed
<1>2. /\ Sender \in Threads /\ Sender # App /\ Sender \notin Workers /\ App \in Threads
      /\ pc \in [Threads -> Labels] /\ Workers \subseteq Threads
  BY ServerAssumption DEF Threads, IInv, ThreadsOK, ThreadTypes
<1>3. \A v \in Workers \cup {App} : pc'[v] = pc[v]
  BY <1>1, <1>2 DEF SendEmpty, SendTest, Goto
<1>4. UNCHANGED <<pool, target, g_Connected_Client, Is_Available, batch, accepting,
                  disconnecting, recvs, serial, iocp>>
  BY <1>1 DEF SendEmpty, SendTest, Goto, kernel, structs, control
<1> QED BY <1>1, <1>3, <1>4, MadeByOthers, StillDrives

LEMMA WorkerDrives ==
    ASSUME IInv, IInv', Drives, Undisturbed, NEW w \in Workers, WorkThread(w)
    PROVE  Drives'
<1>1. CASE GetQueuedCompletionStatusEx(w) \/ ExitThread(w)
  BY <1>1, TakeDrives, ExitDrives
<1>2. CASE ZeroBytes(w) \/ IOFunction_Recv(w) \/ AcceptCheck(w)
  BY <1>2, EntryDrives
<1>3. CASE IOFunction_Disconnect(w) \/ ReuseDisconnect(w)
  <2>1. IOFunction_Disconnect(w) => UNCHANGED serial \/ AcceptExAtOnce(Sock(w))
    BY DEF IOFunction_Disconnect, AcceptExPending, AcceptExFails
  <2> QED BY <1>3, <2>1, DisconnectHandsOn, DisconnectDropsDriver, ReuseHandsOn
<1>4. CASE \/ DisconnectAvailable(w) \/ Discard(w) \/ IOFunction_Send(w) \/ AcceptAvailable(w)
           \/ AcceptFind(w) /\ Leave(w)
  <2>1. /\ Leave(w) /\ KernelStill /\ UNCHANGED <<pool, target, g_Connected_Client>>
        /\ Is_Available \subseteq Is_Available'
        /\ pc[w] = "accepted" => Sock(w) \in Is_Available'
    BY <1>4 DEF DisconnectAvailable, Discard, IOFunction_Send, AcceptAvailable, AcceptFind,
                Entry, KernelStill, kernel, control, structs
  <2>2. batch[w] # <<>>
    BY <1>4, WorkerInHand DEF DisconnectAvailable, Discard, IOFunction_Send, AcceptAvailable,
                              AcceptFind, Entry, EntryLabels
  <2> QED BY <2>1, <2>2, LeaveStep
<1>5. CASE \/ DropClient(w) /\ Sock(w) \notin m_Socket
           \/ ReuseConstruct(w) /\ Sock(w) \notin pool
  <2>1. UNCHANGED <<g_Connected_Client, Is_Available, batch, pc, accepting, disconnecting, recvs,
                    serial, iocp, pool, target>>
    BY <1>5 DEF DropClient, ReuseConstruct, kernel, structs, control, Goto
  <2> QED BY <2>1, MadeByOthers, StillDrives
<1>6. CASE \/ DropClient(w) /\ Sock(w) \in m_Socket
           \/ ReuseConstruct(w) /\ Sock(w) \in pool
           \/ AcceptInfo(w) \/ AcceptInsert(w)
           \/ AcceptFind(w) /\ ~Leave(w)
           \/ DeleteFind(w) \/ DeleteErase(w) \/ DeleteUnavailable(w) \/ ReuseShutdown(w)
  <2>1. UNCHANGED recvs
    BY <1>6 DEF DropClient, ReuseConstruct, AcceptInfo, AcceptInsert, AcceptFind, DeleteFind,
                DeleteErase, DeleteUnavailable, ReuseShutdown, kernel
  <2>2. \/ DropClient(w) /\ Goto(w, "delete")
        \/ ReuseConstruct(w) /\ Goto(w, "shutdown")
        \/ AcceptInfo(w) /\ Goto(w, "acceptFind")
        \/ AcceptInsert(w) /\ Goto(w, "acceptRecv")
        \/ AcceptFind(w) /\ Goto(w, "acceptInsert")
        \/ DeleteFind(w) /\ Goto(w, "erase")
        \/ DeleteErase(w) /\ Goto(w, "unavailable")
        \/ DeleteUnavailable(w) /\ Goto(w, "reuse")
        \/ ReuseShutdown(w) /\ Goto(w, "disconnectEx")
    BY <1>6 DEF DropClient, ReuseConstruct, AcceptInfo, AcceptInsert, AcceptFind, DeleteFind,
                DeleteErase, DeleteUnavailable, ReuseShutdown
  <2> QED BY <2>1, <2>2, MiddleSteps
<1>7. CASE Rearm(w)
  <2>1. \/ WSARecv(Sock(w)) /\ Leave(w)
        \/ Goto(w, "drop") /\ UNCHANGED recvs
    BY <1>7 DEF Rearm, WSARecvFails
  <2> QED BY <1>7, <2>1, RearmHandsOn, MiddleSteps
<1>8. CASE AcceptRecv(w)
  <2>1. \/ WSARecv(Sock(w)) /\ Goto(w, "accepted")
        \/ Goto(w, "drop") /\ UNCHANGED recvs
    BY <1>8 DEF AcceptRecv, WSARecvFails
  <2> QED BY <1>8, <2>1, AcceptHandsOn, MiddleSteps
<1> QED BY <1>1, <1>2, <1>3, <1>4, <1>5, <1>6, <1>7, <1>8 DEF WorkThread, DeleteAndReuse

-----------------------------------------------------------------------------
(* Nothing disturbs the workers.                                           *)

LEMMA NoSendParts ==
    ASSUME NEW S, NEW q \in Seq(S), NoSendIn(q)
    PROVE  /\ q # <<>> => NoSendIn(Tail(q))
           /\ \A n \in Nat : n <= Len(q) =>
                 NoSendIn(SubSeq(q, 1, n)) /\ NoSendIn(SubSeq(q, n + 1, Len(q)))
           /\ \A c : c.io # "Send" => NoSendIn(Append(q, c))
<1>0. Len(q) \in Nat
  OBVIOUS
<1>1. ASSUME q # <<>> PROVE NoSendIn(Tail(q))
  <2>1. /\ Len(Tail(q)) = Len(q) - 1
        /\ \A i \in 1..Len(Tail(q)) : Tail(q)[i] = q[i + 1]
    BY <1>1, HeadTailProperties
  <2>2. \A i \in 1..Len(Tail(q)) : i + 1 \in 1..Len(q)
    BY <1>0, <2>1
  <2> QED BY <2>1, <2>2 DEF NoSendIn
<1>2. ASSUME NEW n \in Nat, n <= Len(q)
      PROVE  NoSendIn(SubSeq(q, 1, n)) /\ NoSendIn(SubSeq(q, n + 1, Len(q)))
  <2>1. /\ Len(SubSeq(q, 1, n)) = n /\ \A i \in 1..n : SubSeq(q, 1, n)[i] = q[i]
        /\ Len(SubSeq(q, n + 1, Len(q))) = Len(q) - n
        /\ \A i \in 1..(Len(q) - n) : SubSeq(q, n + 1, Len(q))[i] = q[i + n]
    BY <1>2
  <2>2. /\ \A i \in 1..n : i \in 1..Len(q)
        /\ \A i \in 1..(Len(q) - n) : i + n \in 1..Len(q)
    BY <1>0, <1>2
  <2> QED BY <2>1, <2>2 DEF NoSendIn
<1>3. ASSUME NEW c, c.io # "Send" PROVE NoSendIn(Append(q, c))
  <2>1. /\ Len(Append(q, c)) = Len(q) + 1
        /\ \A i \in 1..Len(q) : Append(q, c)[i] = q[i]
        /\ Append(q, c)[Len(q) + 1] = c
    OBVIOUS
  <2>2. \A i \in 1..(Len(q) + 1) : i \in 1..Len(q) \/ i = Len(q) + 1
    BY <1>0
  <2> QED BY <1>3, <2>1, <2>2 DEF NoSendIn
<1> QED BY <1>1, <1>2, <1>3

LEMMA WorkerUndisturbed ==
    ASSUME IInv, Undisturbed, NEW w \in Workers, WorkThread(w), AcceptEntries
    PROVE  Undisturbed'
<1>1. /\ iocp \in Seq(Completions) /\ batch \in [Workers -> Seq(Completions)]
  BY DEF IInv, KernelTypes, ThreadsOK, ThreadTypes
<1>2. pc'[App] = pc[App] /\ pc'[Sender] = pc[Sender]
  BY WorkerMoves, ServerAssumption DEF Threads
<1>3. UNCHANGED <<Send_Data_Queue, sends>>
  BY DEF WorkThread, GetQueuedCompletionStatusEx, ExitThread, IOFunction_Disconnect,
     DisconnectAvailable, ZeroBytes, DropClient, Discard, IOFunction_Send, IOFunction_Recv,
     Rearm, AcceptCheck, AcceptInfo, AcceptFind, AcceptInsert, AcceptRecv, AcceptAvailable,
     DeleteAndReuse, DeleteFind, DeleteErase, DeleteUnavailable, ReuseConstruct, ReuseShutdown,
     ReuseDisconnect, control, kernel
<1>4. \A v \in Workers : NoSendIn(batch[v])
  BY DEF Undisturbed
<1>5. CASE GetQueuedCompletionStatusEx(w)
  <2> DEFINE n == Taken
  <2>1. n \in Nat /\ n <= Len(iocp)
    BY <1>1, ServerAssumption DEF Taken
  <2>2. /\ batch' = [batch EXCEPT ![w] = SubSeq(iocp, 1, n)]
        /\ iocp' = SubSeq(iocp, n + 1, Len(iocp))
    BY <1>5 DEF GetQueuedCompletionStatusEx
  <2> HIDE DEF n
  <2>3. NoSendIn(SubSeq(iocp, 1, n)) /\ NoSendIn(SubSeq(iocp, n + 1, Len(iocp)))
    BY <1>1, <2>1, NoSendParts DEF Undisturbed
  <2>4. \A v \in Workers : batch'[v] = IF v = w THEN SubSeq(iocp, 1, n) ELSE batch[v]
    BY <1>1, <2>2
  <2> QED BY <1>2, <1>3, <1>4, <2>2, <2>3, <2>4 DEF Undisturbed
<1>6. CASE ExitThread(w)
  <2>1. /\ batch' = [batch EXCEPT ![w] = <<>>] /\ iocp' = Append(iocp, Head(batch[w]))
        /\ Head(batch[w]).io = "Exit"
    BY <1>6 DEF ExitThread, Entry
  <2>2. NoSendIn(iocp')
    BY <1>1, <2>1, NoSendParts DEF Undisturbed
  <2>3. NoSendIn(<<>>)
    BY DEF NoSendIn
  <2>4. \A v \in Workers : batch'[v] = IF v = w THEN <<>> ELSE batch[v]
    BY <1>1, <2>1
  <2> QED BY <1>2, <1>3, <1>4, <2>2, <2>3, <2>4 DEF Undisturbed
<1>7. CASE ~GetQueuedCompletionStatusEx(w) /\ ~ExitThread(w)
  <2>1. iocp' = iocp
    BY <1>7 DEF WorkThread, IOFunction_Disconnect,
     DisconnectAvailable, ZeroBytes, DropClient, Discard, IOFunction_Send, IOFunction_Recv,
     Rearm, AcceptCheck, AcceptInfo, AcceptFind, AcceptInsert, AcceptRecv, AcceptAvailable,
     DeleteAndReuse, DeleteFind, DeleteErase, DeleteUnavailable, ReuseConstruct, ReuseShutdown,
     ReuseDisconnect, kernel
  <2>2. batch' = batch \/ Leave(w)
    BY <1>7 DEF WorkThread, IOFunction_Disconnect,
     DisconnectAvailable, ZeroBytes, DropClient, Discard, IOFunction_Send, IOFunction_Recv,
     Rearm, AcceptCheck, AcceptInfo, AcceptFind, AcceptInsert, AcceptRecv, AcceptAvailable,
     DeleteAndReuse, DeleteFind, DeleteErase, DeleteUnavailable, ReuseConstruct, ReuseShutdown,
     ReuseDisconnect, Goto
  <2>3. pc[w] \in {"next"} \cup EntryLabels
    BY <1>7 DEF WorkThread, IOFunction_Disconnect,
     DisconnectAvailable, ZeroBytes, DropClient, Discard, IOFunction_Send, IOFunction_Recv,
     Rearm, AcceptCheck, AcceptInfo, AcceptFind, AcceptInsert, AcceptRecv, AcceptAvailable,
     DeleteAndReuse, DeleteFind, DeleteErase, DeleteUnavailable, ReuseConstruct, ReuseShutdown,
     ReuseDisconnect, Entry, EntryLabels, DeleteLabels
  <2>4. NoSendIn(Tail(batch[w]))
    BY <1>1, <1>4, <2>3, WorkerInHand, NoSendParts
  <2>5. \A v \in Workers : NoSendIn(batch'[v])
    <3>1. CASE batch' = batch
      BY <1>4, <3>1
    <3>2. CASE Leave(w)
      <4>1. batch' = [batch EXCEPT ![w] = Tail(batch[w])]
        BY <3>2 DEF Leave
      <4>2. \A v \in Workers : batch'[v] = IF v = w THEN Tail(batch[w]) ELSE batch[v]
        BY <1>1, <4>1
      <4> QED BY <1>4, <2>4, <4>2
    <3> QED BY <2>2, <3>1, <3>2
  <2> QED BY <1>2, <1>3, <2>1, <2>5 DEF Undisturbed
<1> QED BY <1>5, <1>6, <1>7

LEMMA OthersUndisturbed ==
    ASSUME IInv, Undisturbed, MaxSends = 0, ~AppDisconnects,
           Application \/ SendEmpty \/ SendTest \/ Network
    PROVE  Undisturbed'
<1>1. /\ App \in Threads /\ Sender \in Threads /\ App # Sender /\ pc \in [Threads -> Labels]
      /\ iocp \in Seq(Completions)
  BY ServerAssumption DEF Threads, IInv, ThreadsOK, ThreadTypes, KernelTypes
<1>2. CASE Application
  <2>1. ASSUME NEW s \in Slots, Disconnect(s) \/ Target_Message(s) PROVE FALSE
    <3>1. Len(Send_Data_Queue) = 0
      BY DEF Undisturbed
    <3> QED BY <2>1, <3>1 DEF Disconnect, Target_Message
  <2>2. ASSUME DeleteAndReuse(App) PROVE FALSE
    BY <2>2 DEF DeleteAndReuse, DeleteFind, DeleteErase, DeleteUnavailable, ReuseConstruct,
                ReuseShutdown, ReuseDisconnect, Undisturbed, DeleteLabels
  <2>3. \/ \E s \in Slots : CreateSocket(s)
        \/ AcceptFails \/ InsertSocket \/ StartSendThread \/ End \/ EndJoined
    BY <1>2, <2>1, <2>2 DEF Application
  <2>4. /\ UNCHANGED <<sends, batch>> /\ Send_Data_Queue' \in {Send_Data_Queue, <<>>}
        /\ iocp' = iocp \/ iocp' = Append(iocp, ExitCompletion)
    BY <2>3 DEF CreateSocket, AcceptFails, InsertSocket, StartSendThread, End, EndJoined, Goto,
                kernel, control
  <2>5. /\ pc'[App] \in {"insert", "idle", "start", "join", "ended"}
        /\ pc'[Sender] \in {pc[Sender], "test"}
    BY <1>1, <2>3 DEF CreateSocket, AcceptFails, InsertSocket, StartSendThread, End, EndJoined, Goto
  <2>6. ExitCompletion.io # "Send"
    BY DEF ExitCompletion
  <2>7. NoSendIn(iocp')
    BY <1>1, <2>4, <2>6, NoSendParts DEF Undisturbed
  <2> QED BY <2>4, <2>5, <2>7 DEF Undisturbed, DeleteLabels
<1>3. CASE SendEmpty \/ SendTest
  <2>1. /\ UNCHANGED <<sends, batch, iocp, Send_Data_Queue>>
        /\ pc'[Sender] \in {"test", "poll", "exited"} /\ pc'[App] = pc[App]
    BY <1>1, <1>3 DEF SendEmpty, SendTest, Goto, kernel, control
  <2> QED BY <2>1 DEF Undisturbed
<1>4. CASE Network
  <2>1. UNCHANGED <<pc, batch, Send_Data_Queue>>
    BY <1>4 DEF Network, control
  <2>2. ASSUME NEW s \in Slots, SendCompletes(s) PROVE FALSE
    BY <2>2 DEF SendCompletes, Undisturbed
  <2>3. PICK s \in Slots : ClientConnects(s) \/ ClientCloses(s) \/ RecvCompletes(s)
                              \/ DisconnectCompletes(s)
    BY <1>4, <2>2 DEF Network, IOCompletes
  <2>4. sends' = sends
    BY <2>3 DEF ClientConnects, ClientCloses, RecvCompletes, DisconnectCompletes
  <2>5. iocp' = iocp \/ \E c : c.io # "Send" /\ iocp' = Append(iocp, c)
    BY <2>3 DEF ClientConnects, ClientCloses, RecvCompletes, DisconnectCompletes, Completion
  <2>6. NoSendIn(iocp')
    BY <1>1, <2>5, NoSendParts DEF Undisturbed
  <2> QED BY <2>1, <2>4, <2>6 DEF Undisturbed
<1> QED BY <1>2, <1>3, <1>4

-----------------------------------------------------------------------------
(* The theorems.                                                           *)

LEMMA DriveInit == Init => DriveInv
<1> SUFFICES ASSUME Init PROVE DriveInv
    OBVIOUS
<1>1. /\ App \notin Workers /\ Sender # App /\ Sender \notin Workers
      /\ accepting = {} /\ disconnecting = {} /\ iocp = <<>> /\ Send_Data_Queue = <<>>
      /\ \A w \in Workers : batch[w] = <<>>
      /\ pc[App] = "start" /\ pc[Sender] = "off"
      /\ \A s \in Slots : recvs[s] = 0 /\ sends[s] = 0
  BY ServerAssumption DEF Init, Threads
<1>2. \A s \in Slots, k \in Ops, t \in Holders, i \in Nat, p \in Stages : ~Drive(s, k, t, i, p)
  BY <1>1 DEF Drive, PortDrive, BatchDrive
<1>3. Drives
  BY <1>2 DEF Drives, OneDrive, DriveKnows
<1>4. Undisturbed
  BY <1>1 DEF Undisturbed, NoSendIn, DeleteLabels
<1> QED BY <1>3, <1>4 DEF DriveInv

LEMMA DriveNext ==
    ASSUME MaxSends = 0, ~AppDisconnects, IInv, IInv', LifeInv, DriveInv, [Next]_vars
    PROVE  DriveInv'
<1> USE DEF DriveInv
<1>1. CASE UNCHANGED vars
  <2>1. UNCHANGED <<pool, pc, batch, target, g_Connected_Client, Is_Available, iocp, accepting,
                    disconnecting, recvs, sends, serial, Send_Data_Queue>>
    BY <1>1 DEF vars, control, kernel, structs
  <2>2. Drives'
    BY <2>1, MadeByOthers, StillDrives
  <2> QED BY <2>1, <2>2 DEF Undisturbed
<1>2. ASSUME NEW w \in Workers, WorkThread(w) PROVE DriveInv'
  BY <1>2, WorkerDrives, WorkerUndisturbed DEF LifeInv
<1>3. CASE Application
  BY <1>3, ApplicationDrives, OthersUndisturbed
<1>4. CASE SendThread
  BY <1>4, SenderDrives, OthersUndisturbed
<1>5. CASE Network
  BY <1>5, NetworkDrives, OthersUndisturbed
<1> QED BY <1>1, <1>2, <1>3, <1>4, <1>5 DEF Next, Stopped

\* When the application neither sends nor disconnects, every slot has one driver, and that
\* knows whether the slot has a client: the inductive invariant of the theorems that follow.
THEOREM ServerDrive ==
    ASSUME MaxSends = 0, ~AppDisconnects
    PROVE  Spec => [](IInv /\ LifeInv /\ DriveInv)
<1>1. IInv /\ IInv' /\ LifeInv /\ DriveInv /\ [Next]_vars => DriveInv'
  BY DriveNext
<1> QED BY <1>1, InitIInv, NextIInv, LifeInit, LifeNext, DriveInit, PTL DEF Spec

\* The element of Drivers(s) that an operation stands for.
DriverOf(s, k, t, i) ==
    IF k = "accept" THEN <<"AcceptEx", s>>
    ELSE IF k = "disconnect" THEN <<"DisconnectEx", s>>
    ELSE IF k = "recv" THEN <<"WSARecv", i>>
    ELSE IF k = "port" THEN <<"iocp", i>>
    ELSE <<t, Len(batch[t]) - i>>

LEMMA BatchDriver ==
    ASSUME IInv, NEW s \in Slots, NEW w \in Workers, NEW i \in BatchCarriers(w, s)
    PROVE  \E j \in Nat, p \in Stages : BatchDrive(s, w, j, p) /\ i = Len(batch[w]) - j
<1>1. batch[w] \in Seq(Completions) /\ Len(batch[w]) \in Nat
  BY BatchFacts
<1>2. /\ i \in 1..Len(batch[w]) /\ Carrier(batch[w][i], s)
      /\ i = 1 => pc[w] \notin PostedLabels
  BY DEF BatchCarriers, Carriers, Carrier, PostedLabels
<1> PICK j : j = Len(batch[w]) - i
    OBVIOUS
<1>3. j \in Nat /\ j < Len(batch[w]) /\ Len(batch[w]) - j = i /\ (j = Len(batch[w]) - 1 => i = 1)
  BY <1>1, <1>2
<1>4. \E p \in Stages : BatchDrive(s, w, j, p)
  BY <1>2, <1>3, StageKinds DEF BatchDrive
<1> QED BY <1>3, <1>4

LEMMA EveryDriver ==
    ASSUME IInv, NEW s \in Slots,
           NEW x \in {<<"AcceptEx", s>> : y \in accepting \cap {s}}
                \cup {<<"DisconnectEx", s>> : y \in disconnecting \cap {s}}
                \cup {<<"WSARecv", i>> : i \in 1..recvs[s]}
                \cup {<<"iocp", i>> : i \in Carriers(iocp, s)}
                \cup UNION {{<<w, i>> : i \in BatchCarriers(w, s)} : w \in Workers}
    PROVE  \E k \in Ops, t \in Holders, i \in Nat, p \in Stages :
              Drive(s, k, t, i, p) /\ x = DriverOf(s, k, t, i)
<1>1. Nobody \in Holders /\ Workers \subseteq Holders
      /\ Ops = {"accept", "disconnect", "recv", "port", "batch"}
      /\ "out" \in Stages /\ "armed" \in Stages
  BY DEF Holders, Threads, Ops, Stages
<1>2. CASE x \in {<<"AcceptEx", s>> : y \in accepting \cap {s}}
  <2>1. Drive(s, "accept", Nobody, 0, "out") /\ x = DriverOf(s, "accept", Nobody, 0)
    BY <1>2 DEF Drive, DriverOf
  <2> QED BY <1>1, <2>1
<1>3. CASE x \in {<<"DisconnectEx", s>> : y \in disconnecting \cap {s}}
  <2>1. Drive(s, "disconnect", Nobody, 0, "out") /\ x = DriverOf(s, "disconnect", Nobody, 0)
    BY <1>3 DEF Drive, DriverOf
  <2> QED BY <1>1, <2>1
<1>4. CASE x \in {<<"WSARecv", i>> : i \in 1..recvs[s]}
  <2>1. PICK i \in 1..recvs[s] : x = <<"WSARecv", i>>
    BY <1>4
  <2>2. i \in Nat
    BY <2>1 DEF IInv, KernelTypes
  <2>3. Drive(s, "recv", Nobody, i, "armed") /\ x = DriverOf(s, "recv", Nobody, i)
    BY <2>1 DEF Drive, DriverOf
  <2> QED BY <1>1, <2>2, <2>3
<1>5. CASE x \in {<<"iocp", i>> : i \in Carriers(iocp, s)}
  <2>1. PICK i \in Carriers(iocp, s) : x = <<"iocp", i>>
    BY <1>5
  <2>2. i \in 1..Len(iocp) /\ i \in Nat /\ Carrier(iocp[i], s)
    BY <2>1 DEF Carriers, Carrier, IInv, KernelTypes
  <2>3. PortDrive(s, i, EntryStage(iocp[i], serial)) /\ EntryStage(iocp[i], serial) \in Stages
    BY <2>2, StageKinds DEF PortDrive
  <2>4. /\ Drive(s, "port", Nobody, i, EntryStage(iocp[i], serial))
        /\ x = DriverOf(s, "port", Nobody, i)
    BY <2>1, <2>3 DEF Drive, DriverOf
  <2> QED BY <1>1, <2>2, <2>3, <2>4
<1>6. CASE x \in UNION {{<<w, i>> : i \in BatchCarriers(w, s)} : w \in Workers}
  <2>1. PICK w \in Workers : \E i \in BatchCarriers(w, s) : x = <<w, i>>
    BY <1>6
  <2>2. PICK i \in BatchCarriers(w, s) : x = <<w, i>>
    BY <2>1
  <2>3. PICK j \in Nat, p \in Stages : BatchDrive(s, w, j, p) /\ i = Len(batch[w]) - j
    BY <2>2, BatchDriver
  <2>4. Drive(s, "batch", w, j, p) /\ x = DriverOf(s, "batch", w, j)
    BY <2>2, <2>3 DEF Drive, DriverOf
  <2> QED BY <1>1, <2>4
<1> QED BY <1>2, <1>3, <1>4, <1>5, <1>6

\* However many workers handle the completions, a slot is never driven by two operations:
\* its AcceptEx, WSARecv and DisconnectEx follow one another.
THEOREM ServerOneDriver ==
    ASSUME MaxSends = 0, ~AppDisconnects
    PROVE  Spec => []OneDriver
<1>1. IInv /\ DriveInv => OneDriver
  <2> SUFFICES ASSUME IInv, DriveInv, NEW s \in Slots PROVE Drivers(s) <= 1
      BY DEF OneDriver
  <2> DEFINE D == {<<"AcceptEx", s>> : y \in accepting \cap {s}}
                \cup {<<"DisconnectEx", s>> : y \in disconnecting \cap {s}}
                \cup {<<"WSARecv", i>> : i \in 1..recvs[s]}
                \cup {<<"iocp", i>> : i \in Carriers(iocp, s)}
                \cup UNION {{<<w, i>> : i \in BatchCarriers(w, s)} : w \in Workers}
  <2>1. Drivers(s) = Cardinality(D)
    BY DEF Drivers
  <2>2. \A x \in D : \E k \in Ops, t \in Holders, i \in Nat, p \in Stages :
                        Drive(s, k, t, i, p) /\ x = DriverOf(s, k, t, i)
    BY EveryDriver
  <2> HIDE DEF D
  <2>3. ASSUME NEW x \in D, NEW y \in D PROVE x = y
    <3>1. PICK k1 \in Ops, t1 \in Holders, i1 \in Nat, p1 \in Stages :
             Drive(s, k1, t1, i1, p1) /\ x = DriverOf(s, k1, t1, i1)
      BY <2>2, <2>3
    <3>2. PICK k2 \in Ops, t2 \in Holders, i2 \in Nat, p2 \in Stages :
             Drive(s, k2, t2, i2, p2) /\ y = DriverOf(s, k2, t2, i2)
      BY <2>2, <2>3
    <3>3. k1 = k2 /\ t1 = t2 /\ i1 = i2
      BY <3>1, <3>2 DEF DriveInv, Drives, OneDrive
    <3> QED BY <3>1, <3>2, <3>3
  <2>4. CASE D = {}
    BY <2>1, <2>4, FS_EmptySet
  <2>5. CASE D # {}
    <3>1. PICK x : D = {x}
      BY <2>3, <2>5
    <3> QED BY <2>1, <3>1, FS_Singleton
  <2> QED BY <2>4, <2>5
<1> QED BY <1>1, ServerDrive, PTL

\* Delete_in_Socket_List always finds the client it looks for: its loop at line 677 does not
\* spin on a socket that is not in the map.
THEOREM ServerDeleteFindsClient ==
    ASSUME MaxSends = 0, ~AppDisconnects
    PROVE  Spec => []DeleteFindsClient
<1>1. IInv /\ DriveInv => DeleteFindsClient
  <2> SUFFICES ASSUME IInv, DriveInv, NEW t \in Workers \cup {App}, pc[t] = "erase"
               PROVE  Sock(t) \in g_Connected_Client
      BY DEF DeleteFindsClient
  <2>1. t \in Workers
    BY DEF DriveInv, Undisturbed, DeleteLabels
  <2> QED BY <2>1, StepKnows DEF DriveInv, EntryLabels, DeleteLabels, PostedLabels, ClientLabels
<1> QED BY <1>1, ServerDrive, PTL

\* A chunk that IOFunction_Recv takes belongs to the connection the slot carries now.
THEOREM ServerRightClient ==
    ASSUME MaxSends = 0, ~AppDisconnects
    PROVE  Spec => []RightClient
<1>1. IInv /\ DriveInv => RightClient
  BY EntryKnows DEF RightClient, DriveInv
<1> QED BY <1>1, ServerDrive, PTL

\* A slot that waits for a new client is not in the client map and has no receive left of
\* the old one.
THEOREM ServerCleanHandover ==
    ASSUME MaxSends = 0, ~AppDisconnects
    PROVE  Spec => []CleanHandover
<1>1. IInv /\ LifeInv /\ DriveInv => CleanHandover
  <2> SUFFICES ASSUME IInv, LifeInv, DriveInv, NEW s \in accepting
               PROVE  s \notin g_Connected_Client /\ recvs[s] = 0 /\ Carriers(iocp, s) = {}
      BY DEF CleanHandover
  <2>1. s \in Slots /\ recvs[s] \in Nat /\ Nobody \in Holders /\ iocp \in Seq(Completions)
    BY DEF IInv, KernelTypes, Holders
  <2>2. s \notin g_Connected_Client
    <3>1. /\ Life(s, "accept", Nobody, 0, "free")
          /\ s \in g_Connected_Client => Life(s, "client", Nobody, 0, "up")
      BY DEF Life
    <3> QED BY <2>1, <3>1 DEF LifeInv, OneLife, Kinds, Phases
  <2>3. \A k \in Ops, t \in Holders, i \in Nat, p \in Stages :
           Drive(s, k, t, i, p) => k = "accept"
    <3>1. Drive(s, "accept", Nobody, 0, "out")
      BY DEF Drive
    <3> QED BY <2>1, <3>1 DEF DriveInv, Drives, OneDrive, Ops, Stages
  <2>4. recvs[s] = 0
    <3>1. recvs[s] # 0 => Drive(s, "recv", Nobody, recvs[s], "armed")
      BY <2>1 DEF Drive
    <3> QED BY <2>1, <2>3, <3>1 DEF Ops, Stages
  <2>5. ASSUME NEW i \in Carriers(iocp, s) PROVE FALSE
    <3>1. i \in 1..Len(iocp) /\ i \in Nat /\ Carrier(iocp[i], s)
      BY <2>1, <2>5 DEF Carriers, Carrier
    <3>2. Drive(s, "port", Nobody, i, EntryStage(iocp[i], serial))
      BY <3>1 DEF Drive, PortDrive
    <3> QED BY <2>1, <2>3, <3>1, <3>2, StageKinds DEF Ops
  <2> QED BY <2>2, <2>4, <2>5
<1> QED BY <1>1, ServerDrive, PTL

\* However many workers there are, data is thrown away in the window between the first
\* WSARecv of a connection and its Is_Available alone, by another worker than the one that
\* has accepted the client.  (With one worker, then, never.)
THEOREM ServerDiscardWindow ==
    ASSUME MaxSends = 0, ~AppDisconnects
    PROVE  Spec => []DiscardWindow
<1>1. IInv /\ DriveInv => DiscardWindow
  <2> SUFFICES ASSUME IInv, DriveInv, NEW w \in Workers, Discards(w)
               PROVE  \E v \in Workers \ {w} : pc[v] = "accepted" /\ Sock(v) = Sock(w)
      BY DEF DiscardWindow
  <2>1. Entry(w, {"Recv"}) /\ Sock(w) \notin Is_Available
    BY DEF Discards
  <2>2. Ready(Sock(w))
    BY <2>1, EntryKnows DEF DriveInv
  <2>3. pc[w] # "accepted"
    BY <2>1 DEF Entry
  <2> QED BY <2>1, <2>2, <2>3 DEF Ready
<1> QED BY <1>1, ServerDrive, PTL
=============================================================================
