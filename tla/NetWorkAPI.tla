----------------------------- MODULE NetWorkAPI -----------------------------
(***************************************************************************)
(* The library as a program sees it: DHNetWorkAPI (DHNetWorkAPI.cpp) owns  *)
(* a DHNetWork (DHNetWork.cpp), which becomes a DHServer at the first      *)
(* Accept or a DHClient at the first Connect.  A process has any number of *)
(* DHNetWorkAPI objects, each called from one thread, in any order; they   *)
(* share Winsock and the static MAX_USER_COUNT.                            *)
(*                                                                         *)
(* What the threads of a server or a client do is in DHServer, DHClient    *)
(* and ServerMessages; here they run, receive packets and end.  Initialize *)
(* on an object that has not been ended is left out: it loses the          *)
(* DHNetWork it had.                                                       *)
(***************************************************************************)
EXTENDS Integers, FiniteSets, FiniteSetsExt

CONSTANTS
    Objects,            \* the DHNetWorkAPI objects of the process
    Ports,              \* ports given to Accept
    UserCounts,         \* values given to Accept as _Max_User_Count
    Spare,              \* the sockets beyond MAX_USER_COUNT: 10
    Modulus,            \* of Accept's unsigned short loop counter: 2^16
    WorkThreads,        \* worker threads of a server or a client
    MaxSockets,         \* WSASocket fails at this many sockets of an object
    MaxInits, MaxAccepts, MaxPackets    \* bounds, over all objects

ASSUME NetWorkAPIAssumption ==
    /\ IsFiniteSet(Objects) /\ UserCounts \subseteq Nat /\ Spare \in Nat
    /\ Modulus \in Nat \ {0} /\ WorkThreads \in Nat /\ MaxSockets \in Nat
    /\ MaxInits \in Nat /\ MaxAccepts \in Nat /\ MaxPackets \in Nat

VARIABLES
    api,            \* DHNetWorkAPI: its pointer, and the step of the call in it
    net,            \* DHNetWork and the DHServer or DHClient under it
    MAX_USER_COUNT, \* static
    winsock,        \* calls of WSAStartup without their WSACleanup
    sockets,        \* the sockets an object has opened and nobody has closed
    packets,        \* history: packets received, and their messages that Recv has not deleted
    crashed,        \* an invalid pointer was used
    risks           \* history: what the program did that the library may not survive

vars == <<api, net, MAX_USER_COUNT, winsock, sockets, packets, crashed, risks>>

NoNet == [Current_Type |-> "nonset", m_NetWork |-> FALSE, debug |-> "none",
          g_IOCP |-> FALSE, pools |-> FALSE, g_Is_Exit |-> FALSE, work |-> 0,
          posted |-> 0, sends |-> {}, times |-> {}, g_Send_Thread |-> 0,
          connect |-> "none", i |-> 0, made |-> 0, limit |-> 0, queue |-> 0]

Init ==
    /\ api = [o \in Objects |->
                [Set_NetWork |-> "null", pc |-> "idle", inits |-> 0, accepts |-> 0]]
    /\ net = [o \in Objects |-> NoNet]
    /\ MAX_USER_COUNT = 0 /\ winsock = 0
    /\ sockets = [o \in Objects |-> [listen |-> {}, pooled |-> 0, stray |-> 0]]
    /\ packets = [o \in Objects |-> [arrived |-> 0, kept |-> 0]]
    /\ crashed = FALSE /\ risks = {}

Inits == MapThenSumSet(LAMBDA o : api[o].inits, Objects)
Accepts == MapThenSumSet(LAMBDA o : api[o].accepts, Objects)
Arrivals == MapThenSumSet(LAMBDA o : packets[o].arrived, Objects)

Idle(o) == ~crashed /\ api[o].pc = "idle"
Live(o) == api[o].Set_NetWork = "live"
IsServer(o) == net[o].m_NetWork /\ net[o].Current_Type = "server"
IsClient(o) == net[o].m_NetWork /\ net[o].Current_Type = "client"

\* A call goes through Set_NetWork, and through m_NetWork when the type is set.
Dangling(o) == \/ ~Live(o)
               \/ net[o].Current_Type # "nonset" /\ ~net[o].m_NetWork

\* The part of risks that any call may add.
CallRisk(o) == {IF api[o].Set_NetWork = "null" THEN "call before Initialize"
                                                 ELSE "call after End"}

\* A call that dereferences a pointer that is null or deleted.
Invalid(o) ==
    /\ crashed' = TRUE
    /\ risks' = risks \cup CallRisk(o)
    /\ UNCHANGED <<api, net, MAX_USER_COUNT, winsock, sockets, packets>>

-----------------------------------------------------------------------------
(* The calls.                                                              *)

\* The destructor has not run, and End, if it was called, has deleted the object.
Initialize(o, debug) ==
    /\ Idle(o) /\ ~Live(o) /\ Inits < MaxInits
    /\ api' = [api EXCEPT ![o].Set_NetWork = "live", ![o].inits = @ + 1]
    /\ net' = [net EXCEPT ![o] = [NoNet EXCEPT !.debug = debug, !.sends = net[o].sends,
                                               !.times = net[o].times]]
    /\ UNCHANGED <<MAX_USER_COUNT, winsock, sockets, packets, crashed, risks>>

\* Mutant of NewClient: the thread that connects is not made.
NewClientIdle(n) ==
    [n EXCEPT !.Current_Type = "client", !.m_NetWork = TRUE, !.g_IOCP = TRUE,
              !.pools = TRUE, !.work = WorkThreads]

\* The constructor of DHClient makes its port, its pool and its workers; then
\* the thread that connects is made.  A later Connect only reports.
NewClient(n) ==
    [n EXCEPT !.Current_Type = "client", !.m_NetWork = TRUE, !.g_IOCP = TRUE,
              !.pools = TRUE, !.work = WorkThreads, !.connect = "running"]

Connect(o) ==
    /\ Idle(o)
    /\ \/ Dangling(o) /\ Invalid(o)
       \/ /\ ~Dangling(o) /\ net[o].Current_Type = "nonset"
          /\ winsock' = winsock + 1
          /\ net' = [net EXCEPT ![o] = NewClient(@)]
          /\ UNCHANGED <<api, MAX_USER_COUNT, sockets, packets, crashed, risks>>

\* Send and Disconnect: on a DHNetWork without a type, or a Disconnect of a client,
\* they fail; what they do in the server or the client is in its own module.
SendOrDisconnect(o) == Idle(o) /\ Dangling(o) /\ Invalid(o)

\* Recv: nothing without a type or with an empty queue; else it pops until the
\* queue is empty.
Recv(o) ==
    /\ Idle(o)
    /\ \/ Dangling(o) /\ Invalid(o)
       \/ /\ ~Dangling(o) /\ net[o].m_NetWork /\ net[o].queue > 0
          /\ api' = [api EXCEPT ![o].pc = "recv"]
          /\ UNCHANGED <<net, MAX_USER_COUNT, winsock, sockets, packets, crashed, risks>>

\* try_pop, and the packet is the program's.  The client deletes the Network_Message
\* it came in, the server does not.
RecvPop(o) ==
    /\ api[o].pc = "recv" /\ ~crashed
    /\ IF net[o].queue = 0
       THEN /\ api' = [api EXCEPT ![o].pc = "idle"]
            /\ UNCHANGED <<net, packets>>
       ELSE /\ net' = [net EXCEPT ![o].queue = @ - 1]
            /\ packets' = [packets EXCEPT ![o].kept = @ + (IF IsServer(o) THEN 1 ELSE 0)]
            /\ UNCHANGED api
    /\ UNCHANGED <<MAX_USER_COUNT, winsock, sockets, crashed, risks>>

-----------------------------------------------------------------------------
(* DHNetWork::Accept and DHServer::Accept.                                 *)

Bound(p) == \E o \in Objects : p \in sockets[o].listen

\* Mutant of Startups: each Accept calls WSAStartup.
StartupsAlways(o) == 1

\* The constructor calls WSAStartup; only the first Accept of a DHNetWork makes one.
Startups(o) == IF net[o].m_NetWork THEN 0 ELSE 1

NewServer(n) ==
    [n EXCEPT !.Current_Type = "server", !.m_NetWork = TRUE, !.g_IOCP = TRUE, !.pools = TRUE]

\* WSASocket, bind or listen fails (bind always does when the port is in use), and
\* Accept returns; or the workers are made and the loop over the sockets begins.
\* Only a client is refused: a second Accept of a server goes on as the first.
Accept(o, p, users) ==
    /\ Idle(o) /\ Accepts < MaxAccepts
    /\ \/ Dangling(o) /\ Invalid(o)
       \/ /\ ~Dangling(o) /\ net[o].Current_Type # "client"
          /\ winsock' = winsock + Startups(o)
          /\ MAX_USER_COUNT' = users
          /\ risks' = IF net[o].g_Send_Thread = 0 THEN risks
                       ELSE risks \cup {"Accept of an open server"}
          /\ \/ /\ net' = [net EXCEPT ![o] = NewServer(@)]
                /\ api' = [api EXCEPT ![o].accepts = @ + 1]
                /\ UNCHANGED sockets
             \/ /\ ~Bound(p)
                /\ net' = [net EXCEPT ![o] = [NewServer(net[o]) EXCEPT
                             !.work = @ + WorkThreads, !.i = 0, !.made = 0, !.limit = users]]
                /\ api' = [api EXCEPT ![o].accepts = @ + 1, ![o].pc = "accept"]
                /\ sockets' = [sockets EXCEPT ![o].listen = @ \cup {p}]
          /\ UNCHANGED <<packets, crashed>>

\* The loop goes on.
More(o) == net[o].i < MAX_USER_COUNT + Spare

\* One round of the loop: the socket waits for a client and is in the pool.  The
\* limit is read again in each round, the counter wraps.
AcceptSocket(o) ==
    /\ api[o].pc = "accept" /\ ~crashed
    /\ More(o)
    /\ sockets[o].pooled + sockets[o].stray < MaxSockets
    /\ net' = [net EXCEPT ![o].i = (@ + 1) % Modulus, ![o].made = @ + 1]
    /\ sockets' = [sockets EXCEPT ![o].pooled = @ + 1]
    /\ UNCHANGED <<api, MAX_USER_COUNT, winsock, packets, crashed, risks>>

\* WSASocket fails, or AcceptEx does and the socket is in no pool.  The listening
\* socket stays open, the workers run, and there is no send thread.
AcceptFails(o) ==
    /\ api[o].pc = "accept" /\ ~crashed
    /\ More(o)
    /\ api' = [api EXCEPT ![o].pc = "idle"]
    /\ \/ UNCHANGED sockets
       \/ /\ sockets[o].pooled + sockets[o].stray < MaxSockets
          /\ sockets' = [sockets EXCEPT ![o].stray = @ + 1]
    /\ UNCHANGED <<net, MAX_USER_COUNT, winsock, packets, crashed, risks>>

\* The send thread, and the one that prints the statistics, replace the threads
\* of an earlier Accept.
AcceptDone(o) ==
    /\ api[o].pc = "accept" /\ ~crashed
    /\ ~More(o)
    /\ api' = [api EXCEPT ![o].pc = "idle"]
    /\ LET k == api[o].accepts
       IN net' = [net EXCEPT ![o].sends = @ \cup {k}, ![o].g_Send_Thread = k,
                    ![o].times = IF net[o].debug = "simple" THEN @ \cup {k} ELSE @]
    /\ UNCHANGED <<MAX_USER_COUNT, winsock, sockets, packets, crashed, risks>>

-----------------------------------------------------------------------------
(* End, from the program or from the destructor.                           *)

\* The exit flag and the packet that wakes a worker; the thread to join must exist.
EndBegin(o, after) ==
    /\ Idle(o)
    /\ CASE api[o].Set_NetWork = "null" ->
              api' = [api EXCEPT ![o].pc = after] /\ UNCHANGED <<net, crashed, risks>>
         [] api[o].Set_NetWork = "deleted" ->
              /\ crashed' = TRUE /\ risks' = risks \cup CallRisk(o)
              /\ UNCHANGED <<api, net>>
         [] Live(o) /\ ~net[o].m_NetWork ->
              /\ api' = [api EXCEPT ![o].Set_NetWork = "deleted", ![o].pc = after]
              /\ UNCHANGED <<net, crashed, risks>>
         [] OTHER ->
              /\ net' = [net EXCEPT ![o].g_Is_Exit = TRUE, ![o].posted = 1]
              /\ api' = [api EXCEPT ![o].pc = IF after = "idle" THEN "end" ELSE "destroy"]
              /\ risks' = IF IsServer(o) THEN risks \cup {"End of a server"} ELSE risks
              /\ crashed' = IF IsServer(o) THEN net[o].g_Send_Thread = 0
                                           ELSE net[o].connect = "none"
    /\ UNCHANGED <<MAX_USER_COUNT, winsock, sockets, packets>>

\* Mutant of Joined: the workers are not waited for.
JoinedNoWorkers(o) ==
    IF IsServer(o) THEN net[o].g_Send_Thread \notin net[o].sends \cup net[o].times
                   ELSE net[o].connect = "done"

\* The send thread and TimeThread of the last Accept, or the thread that connects,
\* and all workers.
Joined(o) ==
    /\ net[o].work = 0
    /\ IF IsServer(o) THEN net[o].g_Send_Thread \notin net[o].sends \cup net[o].times
                      ELSE net[o].connect = "done"

\* WSACleanup closes every socket of the process when it is the last one.
Cleaned(s) ==
    IF winsock = 1 THEN [o \in Objects |-> [listen |-> {}, pooled |-> 0, stray |-> 0]] ELSE s

\* After the joins: the queue is emptied, the port, the sockets of the pool and the
\* pools go, then the server or client and the DHNetWork.  The listening socket is
\* left to WSACleanup.
EndJoined(o) ==
    /\ api[o].pc \in {"end", "destroy"} /\ ~crashed
    /\ Joined(o)
    /\ net' = [net EXCEPT ![o].queue = 0, ![o].g_IOCP = FALSE, ![o].pools = FALSE,
                          ![o].m_NetWork = FALSE]
    /\ sockets' = Cleaned([sockets EXCEPT ![o].pooled = 0])
    /\ winsock' = winsock - 1
    /\ api' = [api EXCEPT ![o].Set_NetWork = "deleted",
                          ![o].pc = IF @ = "end" THEN "idle" ELSE "gone"]
    /\ UNCHANGED <<MAX_USER_COUNT, packets, crashed, risks>>

-----------------------------------------------------------------------------
(* The threads of the server or the client.                                *)

\* A worker has a whole packet.
Arrive(o) ==
    /\ ~crashed /\ net[o].work > 0 /\ Arrivals < MaxPackets
    /\ sockets[o].pooled > 0 \/ net[o].connect # "none"
    /\ net' = [net EXCEPT ![o].queue = @ + 1]
    /\ packets' = [packets EXCEPT ![o].arrived = @ + 1]
    /\ UNCHANGED <<api, MAX_USER_COUNT, winsock, sockets, crashed, risks>>

\* Mutant of WorkerExit: the packet that woke the worker is not posted again.
WorkerExitNoRepost(o) ==
    /\ ~crashed /\ net[o].posted > 0 /\ net[o].work > 0
    /\ net' = [net EXCEPT ![o].work = @ - 1, ![o].posted = @ - 1]
    /\ crashed' \in IF IsServer(o) THEN BOOLEAN ELSE {FALSE}
    /\ UNCHANGED <<api, MAX_USER_COUNT, winsock, sockets, packets, risks>>

\* The packet wakes a worker, which posts it again for the next one.  The worker of a
\* server then deletes an array that is on its stack.
WorkerExit(o) ==
    /\ ~crashed /\ net[o].posted > 0 /\ net[o].work > 0
    /\ net' = [net EXCEPT ![o].work = @ - 1]
    /\ crashed' \in IF IsServer(o) THEN BOOLEAN ELSE {FALSE}
    /\ UNCHANGED <<api, MAX_USER_COUNT, winsock, sockets, packets, risks>>

\* A send thread that outlives its server reads what is deleted.
SendExit(o) ==
    /\ ~crashed /\ (net[o].g_Is_Exit \/ ~net[o].m_NetWork)
    /\ \E k \in net[o].sends : net' = [net EXCEPT ![o].sends = @ \ {k}]
    /\ crashed' \in IF net[o].pools THEN {FALSE} ELSE BOOLEAN
    /\ UNCHANGED <<api, MAX_USER_COUNT, winsock, sockets, packets, risks>>

\* TimeThread deletes the characters of a std::string that deletes them again.
TimeExit(o) ==
    /\ ~crashed /\ (net[o].g_Is_Exit \/ ~net[o].m_NetWork)
    /\ \E k \in net[o].times : net' = [net EXCEPT ![o].times = @ \ {k}]
    /\ crashed' \in BOOLEAN
    /\ UNCHANGED <<api, MAX_USER_COUNT, winsock, sockets, packets, risks>>

ConnectExit(o) ==
    /\ ~crashed /\ net[o].g_Is_Exit /\ net[o].connect = "running"
    /\ net' = [net EXCEPT ![o].connect = "done"]
    /\ UNCHANGED <<api, MAX_USER_COUNT, winsock, sockets, packets, crashed, risks>>

Returns(o) == RecvPop(o) \/ AcceptSocket(o) \/ AcceptFails(o) \/ AcceptDone(o) \/ EndJoined(o)

Next ==
    \E o \in Objects :
        \/ \E debug \in {"none", "simple"} : Initialize(o, debug)
        \/ Connect(o) \/ SendOrDisconnect(o) \/ Recv(o)
        \/ \E p \in Ports, users \in UserCounts : Accept(o, p, users)
        \/ \E after \in {"idle", "gone"} : EndBegin(o, after)
        \/ Returns(o) \/ Arrive(o)
        \/ WorkerExit(o) \/ SendExit(o) \/ TimeExit(o) \/ ConnectExit(o)

Spec == Init /\ [][Next]_vars

\* The threads are scheduled, and so is the one that called the library.
FairSpec ==
    /\ Spec
    /\ \A o \in Objects : WF_vars(Returns(o)) /\ WF_vars(WorkerExit(o)) /\ WF_vars(SendExit(o))
                          /\ WF_vars(TimeExit(o)) /\ WF_vars(ConnectExit(o))

-----------------------------------------------------------------------------
(* Properties.                                                             *)

\* Types of the variables.
TypeOK ==
    /\ \A o \in Objects :
        /\ api[o] \in [Set_NetWork : {"null", "live", "deleted"},
                       pc : {"idle", "recv", "accept", "end", "destroy", "gone"},
                       inits : 0..MaxInits, accepts : 0..MaxAccepts]
        /\ net[o].Current_Type \in {"nonset", "server", "client"}
        /\ net[o].connect \in {"none", "running", "done"}
        /\ net[o].debug \in {"none", "simple"}
        /\ net[o].i \in 0..(Modulus - 1)
        /\ net[o].queue \in 0..MaxPackets
        /\ net[o].work \in Nat /\ net[o].g_Send_Thread \in 0..MaxAccepts
        /\ sockets[o].listen \subseteq Ports
        /\ sockets[o].pooled + sockets[o].stray \in 0..MaxSockets
    /\ winsock \in 0..Cardinality(Objects) /\ MAX_USER_COUNT \in {0} \cup UserCounts
    /\ crashed \in BOOLEAN

\* An invalid pointer is used only in a program that called an object it had not
\* initialized or had ended, opened a server twice, or ended a server (whose workers
\* delete a stack array, DHServer.cpp:447).  So a program of clients is safe, in any
\* order of its calls between Initialize and End: no End of a client finds the connect
\* thread missing (DHClient.cpp:108), and no call finds Current_Type set and m_NetWork
\* null (DHNetWork.cpp:118); and nothing a server does before its End is unsafe.
CrashNeedsRisk == crashed => risks # {}

\* No thread outlives the pools and the port it works on, unless a server was opened
\* twice: End joins every thread the object made before it deletes anything, and no
\* worker puts a packet into the queue of an object that has ended.
ThreadsGone ==
    "Accept of an open server" \notin risks =>
        \A o \in Objects : ~net[o].pools => /\ net[o].work = 0 /\ net[o].connect # "running"
                                            /\ net[o].sends = {} /\ net[o].times = {}
                                            /\ net[o].queue = 0

\* WSAStartup and WSACleanup are paired across the constructors, End, the destructors
\* and the retries of Accept: Winsock is up exactly while some server or client exists,
\* and when the last one is gone no socket is left, the listening ones included.  (The
\* WSACleanup of Disconnect_EX, in the middle of the service, is in DHServer.)
WinsockPaired ==
    /\ winsock = Cardinality({o \in Objects : net[o].m_NetWork})
    /\ winsock = 0 => \A o \in Objects : /\ sockets[o].listen = {}
                                         /\ sockets[o].pooled = 0 /\ sockets[o].stray = 0

\* Recv, Accept and End return.
CallsReturn ==
    \A o \in Objects :
        api[o].pc \in {"recv", "accept", "end", "destroy"}
            ~> (api[o].pc \in {"idle", "gone"} \/ crashed)

-----------------------------------------------------------------------------
(* Stated, and not true of the code.                                       *)

\* A server that has ended holds no socket (the comment at DHServer.cpp:305 says that
\* all sockets are removed; the listening one is closed nowhere).
PortReleased == \A o \in Objects : ~net[o].m_NetWork => sockets[o].listen = {}

\* After an Accept that failed the port is free for the next try.
FailedAcceptLetsGo ==
    \A o \in Objects : api[o].pc = "idle" /\ net[o].g_Send_Thread = 0 => sockets[o].listen = {}

\* A server keeps the limit it was given.
LimitKept == \A o \in Objects : IsServer(o) /\ net[o].g_Send_Thread > 0
                                    => net[o].limit = MAX_USER_COUNT

\* Accept makes the _Max_User_Count + 10 sockets it was asked for and no more.  With
\* _Max_User_Count beyond 2^16 - 11 the counter cannot reach the bound of the loop
\* (DHServer.cpp:112), and another server's Accept changes the bound.
NoExtraSockets == \A o \in Objects : net[o].made <= net[o].limit + Spare

\* Recv deletes the messages whose packets it has handed over.
MessagesDeleted == \A o \in Objects : packets[o].kept = 0
=============================================================================
