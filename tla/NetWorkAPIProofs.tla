-------------------------- MODULE NetWorkAPIProofs --------------------------
(***************************************************************************)
(* Proofs about NetWorkAPI, for any number of objects, calls, sockets and  *)
(* packets:                                                                *)
(*   - APICrashNeedsRisk: what a program must do to make the library fail; *)
(*   - APIThreadsGone: no thread outlives what it works on;                *)
(*   - APIWinsockPaired: WSAStartup and WSACleanup are paired.             *)
(***************************************************************************)
EXTENDS NetWorkAPI, FiniteSetTheorems, TLAPS

-----------------------------------------------------------------------------
(* The inductive invariant.                                                *)

APIType == [Set_NetWork : {"null", "live", "deleted"},
            pc : {"idle", "recv", "accept", "end", "destroy", "gone"},
            inits : Nat, accepts : Nat]
NetType == [Current_Type : {"nonset", "server", "client"}, m_NetWork : BOOLEAN,
            debug : {"none", "simple"}, g_IOCP : BOOLEAN, pools : BOOLEAN,
            g_Is_Exit : BOOLEAN, work : Nat, posted : {0, 1}, sends : SUBSET Nat,
            times : SUBSET Nat, g_Send_Thread : Nat, connect : {"none", "running", "done"},
            i : Nat, made : Nat, limit : Nat, queue : Nat]
SocketType == [listen : SUBSET Ports, pooled : Nat, stray : Nat]

Types ==
    /\ api \in [Objects -> APIType] /\ net \in [Objects -> NetType]
    /\ sockets \in [Objects -> SocketType] /\ winsock \in Nat /\ crashed \in BOOLEAN

Twice == "Accept of an open server"

\* An object with the call a in it and the DHNetWork n: which pointers are valid in
\* which step, and the risks r on record when an exit of a server has begun.
Pointers(a, n, r) ==
    /\ a.Set_NetWork # "live" => ~n.m_NetWork
    /\ n.pools <=> n.m_NetWork
    /\ a.Set_NetWork = "live" => (n.m_NetWork <=> n.Current_Type # "nonset")
    /\ a.Set_NetWork = "live" /\ ~n.m_NetWork => ~n.g_Is_Exit /\ n.posted = 0
    /\ a.pc \in {"recv", "accept", "end", "destroy"} => n.m_NetWork
    /\ a.pc = "accept" => n.Current_Type = "server" /\ a.accepts > 0
    /\ n.m_NetWork /\ n.Current_Type = "client" => n.connect # "none"
    /\ n.m_NetWork /\ n.Current_Type = "server" /\ (n.g_Is_Exit \/ n.posted # 0) => r # {}

\* Its threads, when no server was opened twice: those of the last Accept are all.
Threads(a, n) ==
    /\ ~n.m_NetWork => /\ n.work = 0 /\ n.connect # "running"
                       /\ n.sends = {} /\ n.times = {} /\ n.queue = 0
    /\ n.m_NetWork /\ n.Current_Type = "client" => n.sends = {} /\ n.times = {}
    /\ n.m_NetWork /\ n.Current_Type = "server" =>
          /\ n.connect # "running"
          /\ n.sends \subseteq {n.g_Send_Thread} /\ n.times \subseteq {n.g_Send_Thread}
          /\ n.g_Send_Thread = 0 => n.sends = {} /\ n.times = {}
    /\ a.pc = "accept" => n.g_Send_Thread = 0

ObjectOK(o) ==
    /\ Pointers(api[o], net[o], risks)
    /\ Twice \notin risks => Threads(api[o], net[o])

APIInv ==
    /\ Types
    /\ \A o \in Objects : ObjectOK(o)
    /\ CrashNeedsRisk
    /\ WinsockPaired

LEMMA APIInit == Init => APIInv
<1> SUFFICES ASSUME Init PROVE APIInv
    OBVIOUS
<1> DEFINE a0 == [Set_NetWork |-> "null", pc |-> "idle", inits |-> 0, accepts |-> 0]
           s0 == [listen |-> {}, pooled |-> 0, stray |-> 0]
<1>1. a0 \in APIType /\ s0 \in SocketType
  BY DEF APIType, SocketType
<1>2. NoNet \in NetType
  BY DEF NoNet, NetType
<1>3. Types
  BY <1>1, <1>2 DEF Init, Types
<1>4. \A o \in Objects : api[o] = a0 /\ net[o] = NoNet /\ sockets[o] = s0
  BY DEF Init
<1>5. \A o \in Objects : ObjectOK(o)
  BY <1>4 DEF ObjectOK, Pointers, Threads, NoNet
<1>6. WinsockPaired
  <2>1. {o \in Objects : net[o].m_NetWork} = {}
    BY <1>4 DEF NoNet
  <2>2. winsock = 0
    BY DEF Init
  <2>3. \A o \in Objects : sockets[o].listen = {} /\ sockets[o].pooled = 0 /\ sockets[o].stray = 0
    BY <1>4
  <2> QED BY <2>1, <2>2, <2>3, FS_EmptySet DEF WinsockPaired
<1>7. CrashNeedsRisk
  BY DEF Init, CrashNeedsRisk
<1> QED BY <1>3, <1>5, <1>6, <1>7 DEF APIInv

-----------------------------------------------------------------------------
(* What the steps have in common.                                          *)

\* A step of one object.
OnlyAt(o) ==
    \A x \in Objects : x # o => api'[x] = api[x] /\ net'[x] = net[x]

LEMMA RecordsOf ==
    ASSUME APIInv, NEW o \in Objects
    PROVE  /\ api[o] \in APIType /\ net[o] \in NetType /\ sockets[o] \in SocketType
           /\ Pointers(api[o], net[o], risks)
           /\ Twice \notin risks => Threads(api[o], net[o])
BY DEF APIInv, Types, ObjectOK

LEMMA OtherObjects ==
    ASSUME APIInv, NEW o \in Objects, OnlyAt(o), risks \subseteq risks',
           Pointers(api'[o], net'[o], risks'),
           Twice \notin risks' => Threads(api'[o], net'[o])
    PROVE  \A x \in Objects : ObjectOK(x)'
<1> SUFFICES ASSUME NEW x \in Objects PROVE ObjectOK(x)'
    OBVIOUS
<1>1. CASE x = o
  BY <1>1 DEF ObjectOK
<1>2. CASE x # o
  <2>1. api'[x] = api[x] /\ net'[x] = net[x]
    BY <1>2 DEF OnlyAt
  <2>2. Pointers(api[x], net[x], risks) /\ (Twice \notin risks => Threads(api[x], net[x]))
    BY RecordsOf
  <2>3. Pointers(api[x], net[x], risks')
    BY <2>2 DEF Pointers
  <2> QED BY <2>1, <2>2, <2>3 DEF ObjectOK
<1> QED BY <1>1, <1>2

\* A record is replaced.
LEMMA NewNet ==
    ASSUME APIInv, NEW o \in Objects, NEW n \in NetType, net' = [net EXCEPT ![o] = n]
    PROVE  /\ net' \in [Objects -> NetType] /\ net'[o] = n
           /\ \A x \in Objects : x # o => net'[x] = net[x]
BY DEF APIInv, Types

LEMMA NewAPI ==
    ASSUME APIInv, NEW o \in Objects, NEW a \in APIType, api' = [api EXCEPT ![o] = a]
    PROVE  /\ api' \in [Objects -> APIType] /\ api'[o] = a
           /\ \A x \in Objects : x # o => api'[x] = api[x]
BY DEF APIInv, Types

Networks == {x \in Objects : net[x].m_NetWork}

\* Winsock, when no server or client is made or deleted.
LEMMA WinsockKept ==
    ASSUME APIInv, winsock' = winsock,
           \A x \in Objects : net'[x].m_NetWork = net[x].m_NetWork,
           sockets' = sockets \/ (\E o \in Objects : net[o].m_NetWork)
    PROVE  WinsockPaired'
<1>1. Networks' = Networks
  BY DEF Networks
<1>2. winsock = Cardinality(Networks) /\ IsFiniteSet(Networks)
  BY NetWorkAPIAssumption, FS_Subset DEF APIInv, WinsockPaired, Networks
<1>3. winsock = 0 => sockets' = sockets
  <2>1. winsock = 0 => Networks = {}
    BY <1>2, FS_EmptySet
  <2> QED BY <2>1 DEF Networks
<1> QED BY <1>1, <1>2, <1>3 DEF APIInv, WinsockPaired, Networks

LEMMA Untouched ==
    ASSUME APIInv, NEW o \in Objects, api' = api, net' = net, sockets' = sockets,
           winsock' = winsock, risks \subseteq risks', crashed' \in BOOLEAN, CrashNeedsRisk'
    PROVE  APIInv'
<1>1. Types'
  BY DEF APIInv, Types
<1>2. Pointers(api'[o], net'[o], risks') /\ (Twice \notin risks' => Threads(api'[o], net'[o]))
  BY RecordsOf DEF Pointers
<1>3. \A x \in Objects : ObjectOK(x)'
  BY <1>2, OtherObjects DEF OnlyAt
<1>4. WinsockPaired'
  BY WinsockKept
<1> QED BY <1>1, <1>3, <1>4 DEF APIInv

\* A call that uses an invalid pointer is on record.
LEMMA InvalidStep ==
    ASSUME APIInv, NEW o \in Objects, Invalid(o)
    PROVE  APIInv'
<1>1. risks \subseteq risks' /\ risks' # {} /\ crashed' = TRUE
  BY DEF Invalid, CallRisk
<1>2. api' = api /\ net' = net /\ sockets' = sockets /\ winsock' = winsock
  BY DEF Invalid
<1> QED BY <1>1, <1>2, Untouched DEF CrashNeedsRisk

\* A step that replaces the records of one object.
LEMMA ObjectStep ==
    ASSUME APIInv, NEW o \in Objects, NEW a \in APIType, NEW n \in NetType,
           api' = [api EXCEPT ![o] = a], net' = [net EXCEPT ![o] = n],
           sockets' \in [Objects -> SocketType], winsock' \in Nat, crashed' \in BOOLEAN,
           risks \subseteq risks', CrashNeedsRisk', WinsockPaired',
           Pointers(a, n, risks'), Twice \notin risks' => Threads(a, n)
    PROVE  APIInv'
<1>1. /\ api' \in [Objects -> APIType] /\ api'[o] = a
      /\ net' \in [Objects -> NetType] /\ net'[o] = n
      /\ OnlyAt(o)
  BY NewNet, NewAPI DEF OnlyAt
<1>2. Types'
  BY <1>1 DEF Types
<1>3. \A x \in Objects : ObjectOK(x)'
  BY <1>1, OtherObjects
<1> QED BY <1>2, <1>3 DEF APIInv

\* The same, when Winsock, the sockets and the crash are left alone.
LEMMA QuietStep ==
    ASSUME APIInv, NEW o \in Objects, NEW a \in APIType, NEW n \in NetType,
           api' = [api EXCEPT ![o] = a], net' = [net EXCEPT ![o] = n],
           n.m_NetWork = net[o].m_NetWork,
           UNCHANGED <<sockets, winsock, crashed, risks>>,
           Pointers(a, n, risks), Twice \notin risks => Threads(a, n)
    PROVE  APIInv'
<1>1. \A x \in Objects : net'[x].m_NetWork = net[x].m_NetWork
  BY NewNet
<1>2. WinsockPaired'
  BY <1>1, WinsockKept
<1>3. CrashNeedsRisk' /\ sockets' \in [Objects -> SocketType] /\ winsock' \in Nat
      /\ crashed' \in BOOLEAN
  BY DEF APIInv, CrashNeedsRisk, Types
<1> QED BY <1>2, <1>3, ObjectStep

LEMMA SameRecords ==
    ASSUME APIInv, NEW o \in Objects
    PROVE  api = [api EXCEPT ![o] = api[o]] /\ net = [net EXCEPT ![o] = net[o]]
BY DEF APIInv, Types

-----------------------------------------------------------------------------
(* The calls.                                                              *)

LEMMA InitializeStep ==
    ASSUME APIInv, NEW o \in Objects, NEW debug \in {"none", "simple"}, Initialize(o, debug)
    PROVE  APIInv'
<1> DEFINE a == [api[o] EXCEPT !.Set_NetWork = "live", !.inits = @ + 1]
           n == [NoNet EXCEPT !.debug = debug, !.sends = net[o].sends, !.times = net[o].times]
<1>1. /\ api[o] \in APIType /\ net[o] \in NetType
      /\ Pointers(api[o], net[o], risks)
      /\ Twice \notin risks => Threads(api[o], net[o])
  BY RecordsOf
<1>2. /\ api[o].pc = "idle" /\ api[o].Set_NetWork # "live"
      /\ api' = [api EXCEPT ![o] = a] /\ net' = [net EXCEPT ![o] = n]
      /\ UNCHANGED <<sockets, winsock, crashed, risks>>
  BY DEF Initialize, Idle, Live
<1>3. a \in APIType /\ a.Set_NetWork = "live" /\ a.pc = "idle"
  <2>1. api[o].inits + 1 \in Nat
    BY <1>1 DEF APIType
  <2>2. a \in APIType
    BY <1>1, <2>1 DEF APIType
  <2> QED BY <1>1, <1>2, <2>2 DEF APIType
<1>4. /\ n \in NetType /\ n.Current_Type = "nonset" /\ n.m_NetWork = FALSE /\ n.pools = FALSE
      /\ n.sends = net[o].sends /\ n.times = net[o].times /\ n.work = 0 /\ n.connect = "none"
      /\ n.queue = 0 /\ n.g_Is_Exit = FALSE /\ n.posted = 0
  BY <1>1 DEF NetType, NoNet
<1>5. net[o].m_NetWork = FALSE
  BY <1>1, <1>2 DEF Pointers, NetType
<1> HIDE DEF a, n
<1>6. Pointers(a, n, risks)
  BY <1>3, <1>4 DEF Pointers
<1>7. Twice \notin risks => Threads(a, n)
  BY <1>1, <1>3, <1>4, <1>5 DEF Threads
<1> QED BY <1>2, <1>3, <1>4, <1>5, <1>6, <1>7, QuietStep

LEMMA RecvSteps ==
    ASSUME APIInv, NEW o \in Objects, Recv(o) \/ RecvPop(o) \/ SendOrDisconnect(o)
    PROVE  APIInv'
<1>1. /\ api[o] \in APIType /\ net[o] \in NetType
      /\ Pointers(api[o], net[o], risks)
      /\ Twice \notin risks => Threads(api[o], net[o])
  BY RecordsOf
<1>2. CASE Invalid(o)
  BY <1>2, InvalidStep
<1>3. CASE Recv(o) /\ ~Invalid(o)
  <2> DEFINE a == [api[o] EXCEPT !.pc = "recv"]
  <2>1. /\ net[o].m_NetWork /\ api' = [api EXCEPT ![o] = a] /\ net' = net
        /\ UNCHANGED <<sockets, winsock, crashed, risks>>
    BY <1>3 DEF Recv
  <2>2. a \in APIType /\ a.pc = "recv" /\ a.Set_NetWork = api[o].Set_NetWork
    BY <1>1 DEF APIType
  <2> HIDE DEF a
  <2>3. Pointers(a, net[o], risks) /\ (Twice \notin risks => Threads(a, net[o]))
    BY <1>1, <2>1, <2>2 DEF Pointers, Threads
  <2> QED BY <1>1, <2>1, <2>2, <2>3, SameRecords, QuietStep
<1>4. CASE RecvPop(o) /\ net[o].queue = 0
  <2> DEFINE a == [api[o] EXCEPT !.pc = "idle"]
  <2>1. /\ api' = [api EXCEPT ![o] = a] /\ net' = net
        /\ UNCHANGED <<sockets, winsock, crashed, risks>>
    BY <1>4 DEF RecvPop
  <2>2. a \in APIType /\ a.pc = "idle" /\ a.Set_NetWork = api[o].Set_NetWork
    BY <1>1 DEF APIType
  <2> HIDE DEF a
  <2>3. Pointers(a, net[o], risks) /\ (Twice \notin risks => Threads(a, net[o]))
    BY <1>1, <2>2 DEF Pointers, Threads
  <2> QED BY <1>1, <2>1, <2>2, <2>3, SameRecords, QuietStep
<1>5. CASE RecvPop(o) /\ net[o].queue # 0
  <2> DEFINE n == [net[o] EXCEPT !.queue = @ - 1]
  <2>1. /\ net' = [net EXCEPT ![o] = n] /\ api' = api /\ api[o].pc = "recv"
        /\ UNCHANGED <<sockets, winsock, crashed, risks>>
    BY <1>5 DEF RecvPop
  <2>2. n \in NetType
    BY <1>1, <1>5 DEF NetType
  <2>3. /\ n.m_NetWork = net[o].m_NetWork /\ n.pools = net[o].pools
        /\ n.Current_Type = net[o].Current_Type /\ n.connect = net[o].connect
        /\ n.g_Is_Exit = net[o].g_Is_Exit /\ n.posted = net[o].posted
        /\ n.sends = net[o].sends /\ n.times = net[o].times
        /\ n.g_Send_Thread = net[o].g_Send_Thread
    BY <1>1 DEF NetType
  <2>4. net[o].m_NetWork
    BY <1>1, <2>1 DEF Pointers
  <2> HIDE DEF n
  <2>5. Pointers(api[o], n, risks) /\ (Twice \notin risks => Threads(api[o], n))
    BY <1>1, <2>3, <2>4 DEF Pointers, Threads
  <2> QED BY <1>1, <2>1, <2>2, <2>3, <2>5, SameRecords, QuietStep
<1> QED BY <1>2, <1>3, <1>4, <1>5 DEF SendOrDisconnect

\* The fields that Pointers and Threads read, the queue and the workers apart.
SameControl(m, n) ==
    /\ n.m_NetWork = m.m_NetWork /\ n.pools = m.pools /\ n.Current_Type = m.Current_Type
    /\ n.g_Is_Exit = m.g_Is_Exit /\ n.posted = m.posted
    /\ n.connect = m.connect /\ n.g_Send_Thread = m.g_Send_Thread
    /\ n.sends \subseteq m.sends /\ n.times \subseteq m.times

\* A thread of an object that has one moves a counter of the object, or ends.
LEMMA ControlKept ==
    ASSUME NEW a, NEW m \in NetType, NEW n \in NetType, NEW r, SameControl(m, n),
           Pointers(a, m, r), Twice \notin r => Threads(a, m),
           m.m_NetWork \/ (n.work = m.work /\ n.queue = m.queue)
    PROVE  Pointers(a, n, r) /\ (Twice \notin r => Threads(a, n))
<1>1. Pointers(a, n, r)
  BY DEF Pointers, SameControl
<1>2. ASSUME Twice \notin r PROVE Threads(a, n)
  BY <1>2 DEF Threads, SameControl
<1> QED BY <1>1, <1>2

LEMMA WinsockUp ==
    ASSUME APIInv, NEW o \in Objects, ~net[o].m_NetWork, net'[o].m_NetWork = TRUE,
           \A x \in Objects : x # o => net'[x] = net[x],
           winsock' = winsock + 1
    PROVE  WinsockPaired'
<1>1. Networks' = Networks \cup {o} /\ o \notin Networks
  BY DEF Networks
<1>2. winsock = Cardinality(Networks) /\ IsFiniteSet(Networks) /\ winsock \in Nat
  BY NetWorkAPIAssumption, FS_Subset DEF APIInv, WinsockPaired, Networks, Types
<1>3. Cardinality(Networks \cup {o}) = winsock + 1
  BY <1>1, <1>2, FS_AddElement
<1>4. winsock' = Cardinality(Networks')
  BY <1>1, <1>3
<1>5. winsock' # 0
  BY <1>2
<1> QED BY <1>4, <1>5 DEF WinsockPaired, Networks

LEMMA ConnectStep ==
    ASSUME APIInv, NEW o \in Objects, Connect(o)
    PROVE  APIInv'
<1> DEFINE n == NewClient(net[o])
<1>1. /\ api[o] \in APIType /\ net[o] \in NetType
      /\ Pointers(api[o], net[o], risks)
      /\ Twice \notin risks => Threads(api[o], net[o])
  BY RecordsOf
<1>2. CASE Invalid(o)
  BY <1>2, InvalidStep
<1>3. CASE ~Invalid(o)
  <2>1. /\ api[o].Set_NetWork = "live" /\ api[o].pc = "idle"
        /\ net[o].Current_Type = "nonset"
        /\ winsock' = winsock + 1 /\ net' = [net EXCEPT ![o] = n] /\ api' = api
        /\ UNCHANGED <<sockets, crashed, risks>>
    BY <1>3 DEF Connect, Idle, Dangling, Live
  <2>2. ~net[o].m_NetWork
    BY <1>1, <2>1 DEF Pointers
  <2>3. n \in NetType
    BY <1>1, NetWorkAPIAssumption DEF NetType, NewClient
  <2>4. /\ n.Current_Type = "client" /\ n.m_NetWork = TRUE /\ n.pools = TRUE
        /\ n.connect = "running" /\ n.sends = net[o].sends /\ n.times = net[o].times
    BY <1>1 DEF NetType, NewClient
  <2> HIDE DEF n
  <2>5. Pointers(api[o], n, risks)
    BY <2>1, <2>4 DEF Pointers
  <2>6. Twice \notin risks => Threads(api[o], n)
    BY <1>1, <2>1, <2>2, <2>4 DEF Threads
  <2>7. net'[o] = n /\ \A x \in Objects : x # o => net'[x] = net[x]
    BY <2>1, <2>3, NewNet
  <2>8. WinsockPaired'
    BY <2>1, <2>2, <2>4, <2>7, WinsockUp
  <2>9. CrashNeedsRisk' /\ sockets' \in [Objects -> SocketType] /\ winsock' \in Nat
        /\ crashed' \in BOOLEAN
    BY <2>1 DEF APIInv, CrashNeedsRisk, Types
  <2> QED BY <1>1, <2>1, <2>3, <2>5, <2>6, <2>8, <2>9, SameRecords, ObjectStep
<1> QED BY <1>2, <1>3

-----------------------------------------------------------------------------
(* Accept.                                                                 *)

\* The pointers and the threads of an object whose Accept made, or found, a server
\* m and left it as n, with k new workers.
LEMMA ServerMade ==
    ASSUME NEW a \in APIType, NEW b \in APIType, NEW m \in NetType, NEW n \in NetType,
           NEW r, NEW s,
           Pointers(a, m, r), Twice \notin r => Threads(a, m),
           a.Set_NetWork = "live", m.Current_Type # "client",
           b.Set_NetWork = "live", b.pc \in {"idle", "accept"}, b.accepts > 0,
           r \subseteq s, m.g_Send_Thread = 0 \/ Twice \in s,
           n.Current_Type = "server", n.m_NetWork = TRUE, n.pools = TRUE,
           n.g_Is_Exit = m.g_Is_Exit, n.posted = m.posted, n.connect = m.connect,
           n.sends = m.sends, n.times = m.times, n.g_Send_Thread = m.g_Send_Thread
    PROVE  Pointers(b, n, s) /\ (Twice \notin s => Threads(b, n))
<1>1. Pointers(b, n, s)
  <2>1. n.g_Is_Exit \/ n.posted # 0 => s # {}
    <3>1. CASE m.m_NetWork
      <4>1. m.Current_Type = "server"
        BY <3>1 DEF Pointers, NetType
      <4> QED BY <3>1, <4>1 DEF Pointers
    <3>2. CASE ~m.m_NetWork
      BY <3>2 DEF Pointers
    <3> QED BY <3>1, <3>2
  <2> QED BY <2>1 DEF Pointers
<1>2. ASSUME Twice \notin s PROVE Threads(b, n)
  <2>1. Threads(a, m) /\ m.g_Send_Thread = 0
    BY <1>2
  <2>2. CASE m.m_NetWork
    <3>1. m.Current_Type = "server"
      BY <2>2 DEF Pointers, NetType
    <3> QED BY <2>1, <2>2, <3>1 DEF Threads
  <2>3. CASE ~m.m_NetWork
    BY <2>1, <2>3 DEF Threads
  <2> QED BY <2>2, <2>3
<1> QED BY <1>1, <1>2

LEMMA WinsockOfAccept ==
    ASSUME APIInv, NEW o \in Objects, net'[o].m_NetWork = TRUE,
           \A x \in Objects : x # o => net'[x] = net[x],
           winsock' = winsock + Startups(o)
    PROVE  WinsockPaired' /\ winsock' \in Nat
<1>1. winsock \in Nat /\ net[o] \in NetType
  BY DEF APIInv, Types
<1>2. CASE net[o].m_NetWork
  <2>1. winsock' = winsock
    BY <1>1, <1>2 DEF Startups
  <2>2. \A x \in Objects : net'[x].m_NetWork = net[x].m_NetWork
    BY <1>1, <1>2 DEF NetType
  <2> QED BY <1>1, <1>2, <2>1, <2>2, WinsockKept
<1>3. CASE ~net[o].m_NetWork
  <2>1. winsock' = winsock + 1
    BY <1>3 DEF Startups
  <2>2. WinsockPaired'
    BY <1>3, <2>1, WinsockUp
  <2> QED BY <1>1, <2>1, <2>2
<1> QED BY <1>2, <1>3

LEMMA AcceptStep ==
    ASSUME APIInv, NEW o \in Objects, NEW p \in Ports, NEW users \in UserCounts,
           Accept(o, p, users)
    PROVE  APIInv'
<1>1. /\ api[o] \in APIType /\ net[o] \in NetType /\ sockets[o] \in SocketType
      /\ Pointers(api[o], net[o], risks)
      /\ Twice \notin risks => Threads(api[o], net[o])
  BY RecordsOf
<1>2. CASE Invalid(o)
  BY <1>2, InvalidStep
<1>3. CASE ~Invalid(o)
  <2> DEFINE Failed == /\ net' = [net EXCEPT ![o] = NewServer(@)]
                       /\ api' = [api EXCEPT ![o].accepts = @ + 1]
                       /\ UNCHANGED sockets
             Begun == /\ net' = [net EXCEPT ![o] = [NewServer(net[o]) EXCEPT
                             !.work = @ + WorkThreads, !.i = 0, !.made = 0, !.limit = users]]
                      /\ api' = [api EXCEPT ![o].accepts = @ + 1, ![o].pc = "accept"]
                      /\ sockets' = [sockets EXCEPT ![o].listen = @ \cup {p}]
  <2>1. /\ api[o].Set_NetWork = "live" /\ api[o].pc = "idle"
        /\ net[o].Current_Type # "client"
        /\ winsock' = winsock + Startups(o) /\ crashed' = crashed
        /\ Failed \/ Begun
    BY <1>3 DEF Accept, Idle, Dangling, Live
  <2>2. risks \subseteq risks' /\ (net[o].g_Send_Thread = 0 \/ Twice \in risks')
    BY <1>3 DEF Accept, Twice
  <2>3. CrashNeedsRisk' /\ crashed' \in BOOLEAN
    BY <2>1, <2>2 DEF APIInv, CrashNeedsRisk, Types
  <2>4. api[o].accepts + 1 \in Nat /\ api[o].accepts + 1 > 0
    BY <1>1 DEF APIType
  <2>5. CASE Failed
    <3> DEFINE n == NewServer(net[o])
               a == [api[o] EXCEPT !.accepts = @ + 1]
    <3>1. net' = [net EXCEPT ![o] = n] /\ api' = [api EXCEPT ![o] = a] /\ sockets' = sockets
      BY <2>5
    <3>2. n \in NetType
      BY <1>1 DEF NetType, NewServer
    <3>3. /\ n.Current_Type = "server" /\ n.m_NetWork = TRUE /\ n.pools = TRUE
          /\ n.g_Is_Exit = net[o].g_Is_Exit /\ n.posted = net[o].posted
          /\ n.connect = net[o].connect /\ n.sends = net[o].sends /\ n.times = net[o].times
          /\ n.g_Send_Thread = net[o].g_Send_Thread
      BY <1>1 DEF NetType, NewServer
    <3>4. a \in APIType
      BY <1>1, <2>4 DEF APIType
    <3>5. a.accepts = api[o].accepts + 1 /\ a.pc = "idle" /\ a.Set_NetWork = "live"
      BY <1>1, <2>1 DEF APIType
    <3> HIDE DEF a, n
    <3>6. Pointers(a, n, risks') /\ (Twice \notin risks' => Threads(a, n))
      BY <1>1, <2>1, <2>2, <2>4, <3>2, <3>3, <3>4, <3>5, ServerMade
    <3>7. net'[o] = n /\ \A x \in Objects : x # o => net'[x] = net[x]
      BY <3>1, <3>2, NewNet
    <3>8. WinsockPaired' /\ winsock' \in Nat
      BY <2>1, <3>3, <3>7, WinsockOfAccept
    <3>9. sockets' \in [Objects -> SocketType]
      BY <3>1 DEF APIInv, Types
    <3> QED BY <2>2, <2>3, <3>1, <3>2, <3>4, <3>6, <3>8, <3>9, ObjectStep
  <2>6. CASE Begun
    <3> DEFINE m == NewServer(net[o])
               n == [m EXCEPT !.work = @ + WorkThreads, !.i = 0, !.made = 0, !.limit = users]
               a == [api[o] EXCEPT !.accepts = @ + 1, !.pc = "accept"]
               t == [sockets[o] EXCEPT !.listen = @ \cup {p}]
    <3>1. /\ net' = [net EXCEPT ![o] = n] /\ api' = [api EXCEPT ![o] = a]
          /\ sockets' = [sockets EXCEPT ![o] = t]
      <4>1. net' = [net EXCEPT ![o] = n]
        BY <2>6
      <4>2. api' = [api EXCEPT ![o] = a]
        BY <2>6
      <4>3. sockets' = [sockets EXCEPT ![o] = t]
        BY <2>6
      <4> QED BY <4>1, <4>2, <4>3
    <3>2. m \in NetType
      BY <1>1 DEF NetType, NewServer
    <3>3. /\ m.Current_Type = "server" /\ m.m_NetWork = TRUE /\ m.pools = TRUE
          /\ m.g_Is_Exit = net[o].g_Is_Exit /\ m.posted = net[o].posted
          /\ m.connect = net[o].connect /\ m.sends = net[o].sends /\ m.times = net[o].times
          /\ m.g_Send_Thread = net[o].g_Send_Thread
      BY <1>1 DEF NetType, NewServer
    <3>4. t \in SocketType
      BY <1>1 DEF SocketType
    <3>5. a \in APIType
      BY <1>1, <2>4 DEF APIType
    <3>6. a.accepts = api[o].accepts + 1 /\ a.pc = "accept" /\ a.Set_NetWork = "live"
      BY <1>1, <2>1 DEF APIType
    <3> HIDE DEF m
    <3>7. m.work + WorkThreads \in Nat /\ users \in Nat
      BY <3>2, NetWorkAPIAssumption DEF NetType
    <3>8. n \in NetType
      BY <3>2, <3>7 DEF NetType
    <3>9. /\ n.Current_Type = m.Current_Type /\ n.m_NetWork = m.m_NetWork /\ n.pools = m.pools
          /\ n.g_Is_Exit = m.g_Is_Exit /\ n.posted = m.posted
          /\ n.connect = m.connect /\ n.sends = m.sends /\ n.times = m.times
          /\ n.g_Send_Thread = m.g_Send_Thread
      BY <3>2 DEF NetType
    <3> HIDE DEF a, n, t
    <3>10. Pointers(a, n, risks') /\ (Twice \notin risks' => Threads(a, n))
      <4>1. /\ n.Current_Type = "server" /\ n.m_NetWork = TRUE /\ n.pools = TRUE
            /\ n.g_Is_Exit = net[o].g_Is_Exit /\ n.posted = net[o].posted
            /\ n.connect = net[o].connect /\ n.sends = net[o].sends /\ n.times = net[o].times
            /\ n.g_Send_Thread = net[o].g_Send_Thread
        BY <3>3, <3>9
      <4>2. a.accepts > 0
        BY <2>4, <3>6
      <4> QED BY <1>1, <2>1, <2>2, <3>5, <3>6, <3>8, <4>1, <4>2, ServerMade
    <3>11. net'[o] = n /\ \A x \in Objects : x # o => net'[x] = net[x]
      BY <3>1, <3>8, NewNet
    <3>12. WinsockPaired' /\ winsock' \in Nat
      BY <2>1, <3>3, <3>9, <3>11, WinsockOfAccept
    <3>13. sockets' \in [Objects -> SocketType]
      BY <3>1, <3>4 DEF APIInv, Types
    <3> QED BY <2>2, <2>3, <3>1, <3>5, <3>8, <3>10, <3>12, <3>13, ObjectStep
  <2> QED BY <2>1, <2>5, <2>6
<1> QED BY <1>2, <1>3

LEMMA AcceptSocketStep ==
    ASSUME APIInv, NEW o \in Objects, AcceptSocket(o)
    PROVE  APIInv'
<1> DEFINE n == [net[o] EXCEPT !.i = (@ + 1) % Modulus, !.made = @ + 1]
           t == [sockets[o] EXCEPT !.pooled = @ + 1]
<1>1. /\ api[o] \in APIType /\ net[o] \in NetType /\ sockets[o] \in SocketType
      /\ Pointers(api[o], net[o], risks)
      /\ Twice \notin risks => Threads(api[o], net[o])
  BY RecordsOf
<1>2. /\ api[o].pc = "accept" /\ net' = [net EXCEPT ![o] = n]
      /\ sockets' = [sockets EXCEPT ![o] = t]
      /\ UNCHANGED <<api, winsock, crashed, risks>>
  BY DEF AcceptSocket
<1>3. (net[o].i + 1) % Modulus \in Nat /\ net[o].made + 1 \in Nat /\ sockets[o].pooled + 1 \in Nat
  BY <1>1, NetWorkAPIAssumption DEF NetType, SocketType
<1>4. n \in NetType
  BY <1>1, <1>3 DEF NetType
<1>5. SameControl(net[o], n) /\ n.m_NetWork = net[o].m_NetWork
      /\ n.work = net[o].work /\ n.queue = net[o].queue
  BY <1>1 DEF SameControl, NetType
<1>6. t \in SocketType
  BY <1>1, <1>3 DEF SocketType
<1> HIDE DEF n, t
<1>7. Pointers(api[o], n, risks) /\ (Twice \notin risks => Threads(api[o], n))
  BY <1>1, <1>4, <1>5, ControlKept
<1>8. net[o].m_NetWork /\ \A x \in Objects : net'[x].m_NetWork = net[x].m_NetWork
  BY <1>1, <1>2, <1>4, <1>5, NewNet DEF Pointers
<1>9. WinsockPaired'
  BY <1>2, <1>8, WinsockKept
<1>10. CrashNeedsRisk' /\ sockets' \in [Objects -> SocketType] /\ winsock' \in Nat
       /\ crashed' \in BOOLEAN
  BY <1>2, <1>6 DEF APIInv, CrashNeedsRisk, Types
<1> QED BY <1>1, <1>2, <1>4, <1>7, <1>9, <1>10, SameRecords, ObjectStep

LEMMA AcceptFailsStep ==
    ASSUME APIInv, NEW o \in Objects, AcceptFails(o)
    PROVE  APIInv'
<1> DEFINE a == [api[o] EXCEPT !.pc = "idle"]
           t == [sockets[o] EXCEPT !.stray = @ + 1]
<1>1. /\ api[o] \in APIType /\ net[o] \in NetType /\ sockets[o] \in SocketType
      /\ Pointers(api[o], net[o], risks)
      /\ Twice \notin risks => Threads(api[o], net[o])
  BY RecordsOf
<1>2. /\ api[o].pc = "accept" /\ api' = [api EXCEPT ![o] = a]
      /\ sockets' = sockets \/ sockets' = [sockets EXCEPT ![o] = t]
      /\ UNCHANGED <<net, winsock, crashed, risks>>
  BY DEF AcceptFails
<1>3. a \in APIType /\ a.pc = "idle" /\ a.Set_NetWork = api[o].Set_NetWork
  BY <1>1 DEF APIType
<1>4. t \in SocketType
  <2>1. sockets[o].stray + 1 \in Nat
    BY <1>1 DEF SocketType
  <2> QED BY <1>1, <2>1 DEF SocketType
<1> HIDE DEF a, t
<1>5. Pointers(a, net[o], risks) /\ (Twice \notin risks => Threads(a, net[o]))
  BY <1>1, <1>3 DEF Pointers, Threads
<1>6. net[o].m_NetWork
  BY <1>1, <1>2 DEF Pointers
<1>7. WinsockPaired'
  BY <1>2, <1>6, WinsockKept
<1>8. CrashNeedsRisk' /\ winsock' \in Nat /\ crashed' \in BOOLEAN
  BY <1>2 DEF APIInv, CrashNeedsRisk, Types
<1>9. sockets' \in [Objects -> SocketType]
  BY <1>2, <1>4 DEF APIInv, Types
<1> QED BY <1>1, <1>2, <1>3, <1>5, <1>7, <1>8, <1>9, SameRecords, ObjectStep

\* The send thread of this Accept is the only one, unless an earlier one is on record.
LEMMA AcceptDoneStep ==
    ASSUME APIInv, NEW o \in Objects, AcceptDone(o)
    PROVE  APIInv'
<1> DEFINE k == api[o].accepts
           a == [api[o] EXCEPT !.pc = "idle"]
           T == IF net[o].debug = "simple" THEN net[o].times \cup {k} ELSE net[o].times
           n == [net[o] EXCEPT !.sends = @ \cup {k}, !.g_Send_Thread = k, !.times = T]
<1>1. /\ api[o] \in APIType /\ net[o] \in NetType
      /\ Pointers(api[o], net[o], risks)
      /\ Twice \notin risks => Threads(api[o], net[o])
  BY RecordsOf
<1>2. /\ api[o].pc = "accept" /\ api' = [api EXCEPT ![o] = a]
      /\ net' = [net EXCEPT ![o] = n]
      /\ UNCHANGED <<sockets, winsock, crashed, risks>>
  BY DEF AcceptDone
<1>3. a \in APIType /\ a.pc = "idle" /\ a.Set_NetWork = api[o].Set_NetWork
  BY <1>1 DEF APIType
<1>4. k \in Nat /\ T \in SUBSET Nat /\ net[o].sends \cup {k} \in SUBSET Nat
  BY <1>1 DEF APIType, NetType
<1>5. net[o].m_NetWork /\ net[o].Current_Type = "server" /\ k > 0
  BY <1>1, <1>2 DEF Pointers
<1>6. Twice \notin risks => net[o].sends = {} /\ net[o].times = {} /\ net[o].connect # "running"
  BY <1>1, <1>2, <1>5 DEF Threads
<1>7. Twice \notin risks => T \subseteq {k}
  BY <1>6
<1> HIDE DEF k, T
<1>8. n \in NetType
  BY <1>1, <1>4 DEF NetType
<1>9. /\ n.m_NetWork = net[o].m_NetWork /\ n.pools = net[o].pools
      /\ n.Current_Type = net[o].Current_Type /\ n.connect = net[o].connect
      /\ n.g_Is_Exit = net[o].g_Is_Exit /\ n.posted = net[o].posted
      /\ n.sends = net[o].sends \cup {k} /\ n.times = T /\ n.g_Send_Thread = k
  BY <1>1 DEF NetType
<1> HIDE DEF a, n
<1>10. Pointers(a, n, risks)
  BY <1>1, <1>3, <1>9 DEF Pointers
<1>11. Twice \notin risks => Threads(a, n)
  BY <1>3, <1>4, <1>5, <1>6, <1>7, <1>9 DEF Threads
<1> QED BY <1>2, <1>3, <1>8, <1>9, <1>10, <1>11, QuietStep

-----------------------------------------------------------------------------
(* End.                                                                    *)

LEMMA EndBeginStep ==
    ASSUME APIInv, NEW o \in Objects, NEW after \in {"idle", "gone"}, EndBegin(o, after)
    PROVE  APIInv'
<1>1. /\ api[o] \in APIType /\ net[o] \in NetType
      /\ Pointers(api[o], net[o], risks)
      /\ Twice \notin risks => Threads(api[o], net[o])
  BY RecordsOf
<1>2. api[o].pc = "idle" /\ UNCHANGED <<sockets, winsock>>
  BY DEF EndBegin, Idle
<1>3. CASE api[o].Set_NetWork = "null"
  <2> DEFINE a == [api[o] EXCEPT !.pc = after]
  <2>1. api' = [api EXCEPT ![o] = a] /\ UNCHANGED <<net, crashed, risks>>
    BY <1>3 DEF EndBegin, Live
  <2>2. a \in APIType /\ a.pc = after /\ a.Set_NetWork = api[o].Set_NetWork
    BY <1>1 DEF APIType
  <2> HIDE DEF a
  <2>3. Pointers(a, net[o], risks) /\ (Twice \notin risks => Threads(a, net[o]))
    BY <1>1, <2>2 DEF Pointers, Threads
  <2> QED BY <1>1, <1>2, <2>1, <2>2, <2>3, SameRecords, QuietStep
<1>4. CASE api[o].Set_NetWork = "deleted"
  <2>1. crashed' = TRUE /\ risks' = risks \cup CallRisk(o) /\ UNCHANGED <<api, net>>
    BY <1>4 DEF EndBegin, Live
  <2>2. risks \subseteq risks' /\ risks' # {}
    BY <2>1 DEF CallRisk
  <2> QED BY <1>2, <2>1, <2>2, Untouched DEF CrashNeedsRisk
<1>5. CASE api[o].Set_NetWork = "live" /\ ~net[o].m_NetWork
  <2> DEFINE a == [api[o] EXCEPT !.Set_NetWork = "deleted", !.pc = after]
  <2>1. api' = [api EXCEPT ![o] = a] /\ UNCHANGED <<net, crashed, risks>>
    BY <1>5 DEF EndBegin, Live
  <2>2. a \in APIType /\ a.pc = after /\ a.Set_NetWork = "deleted"
    BY <1>1 DEF APIType
  <2> HIDE DEF a
  <2>3. Pointers(a, net[o], risks) /\ (Twice \notin risks => Threads(a, net[o]))
    BY <1>1, <1>5, <2>2 DEF Pointers, Threads
  <2> QED BY <1>1, <1>2, <2>1, <2>2, <2>3, SameRecords, QuietStep
<1>6. CASE api[o].Set_NetWork = "live" /\ net[o].m_NetWork
  <2> DEFINE q == IF after = "idle" THEN "end" ELSE "destroy"
             a == [api[o] EXCEPT !.pc = q]
             n == [net[o] EXCEPT !.g_Is_Exit = TRUE, !.posted = 1]
  <2>1. /\ net' = [net EXCEPT ![o] = n] /\ api' = [api EXCEPT ![o] = a]
        /\ risks' = IF IsServer(o) THEN risks \cup {"End of a server"} ELSE risks
        /\ crashed' = IF IsServer(o) THEN net[o].g_Send_Thread = 0 ELSE net[o].connect = "none"
    BY <1>6 DEF EndBegin, Live
  <2>2. q \in {"end", "destroy"}
    OBVIOUS
  <2> HIDE DEF q
  <2>3. a \in APIType /\ a.pc = q /\ a.Set_NetWork = "live"
    BY <1>1, <1>6, <2>2 DEF APIType
  <2>4. n \in NetType
    BY <1>1 DEF NetType
  <2>5. /\ n.m_NetWork = net[o].m_NetWork /\ n.pools = net[o].pools
        /\ n.Current_Type = net[o].Current_Type /\ n.connect = net[o].connect
        /\ n.sends = net[o].sends /\ n.times = net[o].times
        /\ n.g_Send_Thread = net[o].g_Send_Thread
    BY <1>1 DEF NetType
  <2> HIDE DEF a, n
  <2>6. net[o].Current_Type \in {"server", "client"}
    BY <1>1, <1>6 DEF Pointers, NetType
  <2>7. risks \subseteq risks' /\ (Twice \notin risks' => Twice \notin risks)
        /\ (net[o].Current_Type = "server" => risks' # {})
    BY <1>6, <2>1 DEF IsServer, Twice
  <2>8. Pointers(a, n, risks')
    BY <1>1, <1>6, <2>2, <2>3, <2>5, <2>7 DEF Pointers
  <2>9. Twice \notin risks' => Threads(a, n)
    BY <1>1, <1>6, <2>2, <2>3, <2>5, <2>7 DEF Threads
  <2>10. crashed' \in BOOLEAN
    BY <2>1
  <2>11. CrashNeedsRisk'
    <3>1. CASE net[o].Current_Type = "server"
      BY <2>7, <3>1 DEF CrashNeedsRisk
    <3>2. CASE net[o].Current_Type = "client"
      <4>1. net[o].connect # "none"
        BY <1>1, <1>6, <3>2 DEF Pointers
      <4>2. crashed' = FALSE
        BY <2>1, <3>2, <4>1 DEF IsServer
      <4> QED BY <4>2 DEF CrashNeedsRisk
    <3> QED BY <2>6, <3>1, <3>2
  <2>12. \A x \in Objects : net'[x].m_NetWork = net[x].m_NetWork
    BY <2>1, <2>4, <2>5, NewNet
  <2>13. WinsockPaired'
    BY <1>2, <2>12, WinsockKept
  <2>14. sockets' \in [Objects -> SocketType] /\ winsock' \in Nat
    BY <1>2 DEF APIInv, Types
  <2> QED BY <2>1, <2>3, <2>4, <2>7, <2>8, <2>9, <2>10, <2>11, <2>13, <2>14, ObjectStep
<1>7. api[o].Set_NetWork \in {"null", "live", "deleted"}
  BY <1>1 DEF APIType
<1> QED BY <1>3, <1>4, <1>5, <1>6, <1>7

\* Winsock, when a server or client is deleted.
LEMMA WinsockDown ==
    ASSUME APIInv, NEW o \in Objects, net[o].m_NetWork, net'[o].m_NetWork = FALSE,
           \A x \in Objects : x # o => net'[x] = net[x],
           winsock' = winsock - 1, NEW s, sockets' = Cleaned(s)
    PROVE  WinsockPaired' /\ winsock' \in Nat
<1>1. Networks' = Networks \ {o} /\ o \in Networks
  BY DEF Networks
<1>2. winsock = Cardinality(Networks) /\ IsFiniteSet(Networks) /\ winsock \in Nat
  BY NetWorkAPIAssumption, FS_Subset DEF APIInv, WinsockPaired, Networks, Types
<1>3. IsFiniteSet(Networks') /\ Cardinality(Networks') = winsock - 1
  BY <1>1, <1>2, FS_RemoveElement
<1>4. winsock' \in Nat
  BY <1>3, FS_CardinalityType
<1>5. winsock' = Cardinality(Networks')
  BY <1>3
<1>6. winsock' = 0 => winsock = 1
  BY <1>2
<1>7. winsock = 1 => sockets' = [x \in Objects |-> [listen |-> {}, pooled |-> 0, stray |-> 0]]
  BY DEF Cleaned
<1>8. winsock' = 0 => \A x \in Objects : /\ sockets'[x].listen = {}
                                         /\ sockets'[x].pooled = 0 /\ sockets'[x].stray = 0
  <2> SUFFICES ASSUME winsock' = 0, NEW x \in Objects
               PROVE  /\ sockets'[x].listen = {}
                      /\ sockets'[x].pooled = 0 /\ sockets'[x].stray = 0
      OBVIOUS
  <2>1. sockets'[x] = [listen |-> {}, pooled |-> 0, stray |-> 0]
    BY <1>6, <1>7
  <2> QED BY <2>1
<1> QED BY <1>4, <1>5, <1>8 DEF WinsockPaired, Networks

\* After the joins no thread is left, unless an earlier Accept is on record.
LEMMA EndJoinedStep ==
    ASSUME APIInv, NEW o \in Objects, EndJoined(o)
    PROVE  APIInv'
<1> DEFINE q == IF api[o].pc = "end" THEN "idle" ELSE "gone"
           a == [api[o] EXCEPT !.Set_NetWork = "deleted", !.pc = q]
           n == [net[o] EXCEPT !.queue = 0, !.g_IOCP = FALSE, !.pools = FALSE,
                               !.m_NetWork = FALSE]
           t == [sockets[o] EXCEPT !.pooled = 0]
           s == [sockets EXCEPT ![o] = t]
<1>1. /\ api[o] \in APIType /\ net[o] \in NetType /\ sockets[o] \in SocketType
      /\ Pointers(api[o], net[o], risks)
      /\ Twice \notin risks => Threads(api[o], net[o])
  BY RecordsOf
<1>2. api[o].pc \in {"end", "destroy"} /\ Joined(o)
      /\ winsock' = winsock - 1 /\ UNCHANGED <<crashed, risks>>
  BY DEF EndJoined
<1>3. api' = [api EXCEPT ![o] = a]
  BY DEF EndJoined
<1>4. net' = [net EXCEPT ![o] = n]
  BY DEF EndJoined
<1>5. sockets' = Cleaned(s)
  BY DEF EndJoined
<1>6. q \in {"idle", "gone"}
  OBVIOUS
<1> HIDE DEF q
<1>7. a \in APIType /\ a.pc = q /\ a.Set_NetWork = "deleted"
  BY <1>1, <1>6 DEF APIType
<1>8. n \in NetType
  BY <1>1 DEF NetType
<1>9. /\ n.m_NetWork = FALSE /\ n.pools = FALSE /\ n.queue = 0 /\ n.work = net[o].work
      /\ n.connect = net[o].connect /\ n.sends = net[o].sends /\ n.times = net[o].times
  BY <1>1 DEF NetType
<1>10. t \in SocketType
  BY <1>1 DEF SocketType
<1> HIDE DEF a, n, t
<1>11. net[o].m_NetWork /\ net[o].Current_Type \in {"server", "client"}
  BY <1>1, <1>2 DEF Pointers, NetType
<1>12. Pointers(a, n, risks)
  BY <1>6, <1>7, <1>9 DEF Pointers
<1>13. ASSUME Twice \notin risks PROVE Threads(a, n)
  <2>1. Threads(api[o], net[o])
    BY <1>1, <1>13
  <2>2. net[o].work = 0
    BY <1>2 DEF Joined
  <2>3. net[o].connect # "running" /\ net[o].sends = {} /\ net[o].times = {}
    <3>1. CASE net[o].Current_Type = "server"
      <4>1. net[o].g_Send_Thread \notin net[o].sends \cup net[o].times
        BY <1>2, <1>11, <3>1 DEF Joined, IsServer
      <4>2. /\ net[o].connect # "running" /\ net[o].sends \subseteq {net[o].g_Send_Thread}
            /\ net[o].times \subseteq {net[o].g_Send_Thread}
        BY <1>11, <2>1, <3>1 DEF Threads
      <4> QED BY <4>1, <4>2
    <3>2. CASE net[o].Current_Type = "client"
      <4>1. net[o].connect = "done"
        BY <1>2, <3>2 DEF Joined, IsServer
      <4> QED BY <1>11, <2>1, <3>2, <4>1 DEF Threads
    <3> QED BY <1>11, <3>1, <3>2
  <2> QED BY <1>6, <1>7, <1>9, <2>2, <2>3 DEF Threads
<1>14. net'[o] = n /\ \A x \in Objects : x # o => net'[x] = net[x]
  BY <1>4, <1>8, NewNet
<1>15. WinsockPaired' /\ winsock' \in Nat
  BY <1>2, <1>5, <1>9, <1>11, <1>14, WinsockDown
<1>16. sockets' \in [Objects -> SocketType]
  <2>1. s \in [Objects -> SocketType]
    BY <1>10 DEF APIInv, Types
  <2>2. [listen |-> {}, pooled |-> 0, stray |-> 0] \in SocketType
    BY DEF SocketType
  <2> HIDE DEF s
  <2> QED BY <1>5, <2>1, <2>2 DEF Cleaned
<1>17. CrashNeedsRisk' /\ crashed' \in BOOLEAN
  BY <1>2 DEF APIInv, CrashNeedsRisk, Types
<1>18. risks \subseteq risks' /\ Pointers(a, n, risks') /\ (Twice \notin risks' => Threads(a, n))
  BY <1>2, <1>12, <1>13
<1> QED BY <1>3, <1>4, <1>7, <1>8, <1>15, <1>16, <1>17, <1>18, ObjectStep

-----------------------------------------------------------------------------
(* The threads.                                                            *)

\* A step of a thread of o, which may use an invalid pointer only if that is on record.
LEMMA ThreadStep ==
    ASSUME APIInv, NEW o \in Objects, NEW n \in NetType,
           api' = api, net' = [net EXCEPT ![o] = n],
           n.m_NetWork = net[o].m_NetWork,
           UNCHANGED <<sockets, winsock, risks>>,
           crashed' \in BOOLEAN, crashed' = TRUE => risks # {},
           Pointers(api[o], n, risks), Twice \notin risks => Threads(api[o], n)
    PROVE  APIInv'
<1>1. \A x \in Objects : net'[x].m_NetWork = net[x].m_NetWork
  BY NewNet
<1>2. WinsockPaired'
  BY <1>1, WinsockKept
<1>3. CrashNeedsRisk'
  BY DEF CrashNeedsRisk
<1>4. sockets' \in [Objects -> SocketType] /\ winsock' \in Nat /\ api[o] \in APIType
  BY DEF APIInv, Types
<1> QED BY <1>2, <1>3, <1>4, SameRecords, ObjectStep

LEMMA ArriveStep ==
    ASSUME APIInv, NEW o \in Objects, Arrive(o)
    PROVE  APIInv'
<1> DEFINE n == [net[o] EXCEPT !.queue = @ + 1]
<1>1. /\ api[o] \in APIType /\ net[o] \in NetType
      /\ Pointers(api[o], net[o], risks)
      /\ Twice \notin risks => Threads(api[o], net[o])
  BY RecordsOf
<1>2. /\ net[o].work > 0 /\ api' = api /\ net' = [net EXCEPT ![o] = n]
      /\ UNCHANGED <<sockets, winsock, crashed, risks>>
  BY DEF Arrive
<1>3. n \in NetType
  <2>1. net[o].queue + 1 \in Nat
    BY <1>1 DEF NetType
  <2> QED BY <1>1, <2>1 DEF NetType
<1>4. SameControl(net[o], n) /\ n.m_NetWork = net[o].m_NetWork
  BY <1>1 DEF NetType, SameControl
<1> HIDE DEF n
<1>5. Pointers(api[o], n, risks) /\ (Twice \notin risks => Threads(api[o], n))
  <2>1. CASE net[o].m_NetWork
    BY <1>1, <1>3, <1>4, <2>1, ControlKept
  <2>2. CASE ~net[o].m_NetWork
    <3>1. Twice \in risks
      BY <1>1, <1>2, <2>2 DEF Threads
    <3>2. Pointers(api[o], n, risks)
      BY <1>1, <1>4 DEF Pointers, SameControl
    <3> QED BY <3>1, <3>2
  <2> QED BY <2>1, <2>2
<1>6. crashed' \in BOOLEAN /\ (crashed' = TRUE => risks # {})
  BY <1>2 DEF APIInv, Types, CrashNeedsRisk
<1> QED BY <1>2, <1>3, <1>4, <1>5, <1>6, ThreadStep

\* The workers of a server exit only after the program has ended it.
LEMMA WorkerExitStep ==
    ASSUME APIInv, NEW o \in Objects, WorkerExit(o)
    PROVE  APIInv'
<1> DEFINE n == [net[o] EXCEPT !.work = @ - 1]
<1>1. /\ api[o] \in APIType /\ net[o] \in NetType
      /\ Pointers(api[o], net[o], risks)
      /\ Twice \notin risks => Threads(api[o], net[o])
  BY RecordsOf
<1>2. /\ net[o].work > 0 /\ net[o].posted > 0 /\ api' = api /\ net' = [net EXCEPT ![o] = n]
      /\ UNCHANGED <<sockets, winsock, risks>>
      /\ crashed' \in IF IsServer(o) THEN BOOLEAN ELSE {FALSE}
  BY DEF WorkerExit
<1>3. n \in NetType
  <2>1. net[o].work - 1 \in Nat
    BY <1>1, <1>2 DEF NetType
  <2> QED BY <1>1, <2>1 DEF NetType
<1>4. SameControl(net[o], n) /\ n.m_NetWork = net[o].m_NetWork
  BY <1>1 DEF NetType, SameControl
<1> HIDE DEF n
<1>5. Pointers(api[o], n, risks) /\ (Twice \notin risks => Threads(api[o], n))
  <2>1. CASE net[o].m_NetWork
    BY <1>1, <1>3, <1>4, <2>1, ControlKept
  <2>2. CASE ~net[o].m_NetWork
    <3>1. Twice \in risks
      BY <1>1, <1>2, <2>2 DEF Threads
    <3>2. Pointers(api[o], n, risks)
      BY <1>1, <1>4 DEF Pointers, SameControl
    <3> QED BY <3>1, <3>2
  <2> QED BY <2>1, <2>2
<1>6. crashed' \in BOOLEAN
  BY <1>2
<1>7. ASSUME crashed' = TRUE PROVE risks # {}
  <2>1. net[o].m_NetWork /\ net[o].Current_Type = "server"
    BY <1>2, <1>7 DEF IsServer
  <2>2. net[o].posted # 0
    BY <1>2
  <2> QED BY <1>1, <2>1, <2>2 DEF Pointers
<1> QED BY <1>2, <1>3, <1>4, <1>5, <1>6, <1>7, ThreadStep

\* A send thread outlives its pools, and a TimeThread ends, only with a risk on record.
LEMMA OtherExitSteps ==
    ASSUME APIInv, NEW o \in Objects, SendExit(o) \/ TimeExit(o)
    PROVE  APIInv'
<1>1. /\ api[o] \in APIType /\ net[o] \in NetType
      /\ Pointers(api[o], net[o], risks)
      /\ Twice \notin risks => Threads(api[o], net[o])
  BY RecordsOf
<1>2. CASE SendExit(o)
  <2>1. PICK k \in net[o].sends : net' = [net EXCEPT ![o] = [net[o] EXCEPT !.sends = @ \ {k}]]
    BY <1>2 DEF SendExit
  <2> DEFINE n == [net[o] EXCEPT !.sends = @ \ {k}]
  <2>2. /\ api' = api /\ net' = [net EXCEPT ![o] = n]
        /\ UNCHANGED <<sockets, winsock, risks>>
        /\ crashed' \in IF net[o].pools THEN {FALSE} ELSE BOOLEAN
    BY <1>2, <2>1 DEF SendExit
  <2>3. n \in NetType
    BY <1>1 DEF NetType
  <2>4. SameControl(net[o], n) /\ n.m_NetWork = net[o].m_NetWork
        /\ n.work = net[o].work /\ n.queue = net[o].queue
    BY <1>1 DEF NetType, SameControl
  <2> HIDE DEF n
  <2>5. Pointers(api[o], n, risks) /\ (Twice \notin risks => Threads(api[o], n))
    BY <1>1, <2>3, <2>4, ControlKept
  <2>6. crashed' \in BOOLEAN
    BY <2>2
  <2>7. ASSUME crashed' = TRUE PROVE risks # {}
    <3>1. ~net[o].m_NetWork
      BY <1>1, <2>2, <2>7 DEF Pointers
    <3>2. Twice \in risks
      BY <1>1, <2>1, <3>1 DEF Threads
    <3> QED BY <3>2
  <2> QED BY <2>2, <2>3, <2>4, <2>5, <2>6, <2>7, ThreadStep
<1>3. CASE TimeExit(o)
  <2>1. PICK k \in net[o].times : net' = [net EXCEPT ![o] = [net[o] EXCEPT !.times = @ \ {k}]]
    BY <1>3 DEF TimeExit
  <2> DEFINE n == [net[o] EXCEPT !.times = @ \ {k}]
  <2>2. /\ net[o].g_Is_Exit \/ ~net[o].m_NetWork
        /\ api' = api /\ net' = [net EXCEPT ![o] = n]
        /\ UNCHANGED <<sockets, winsock, risks>> /\ crashed' \in BOOLEAN
    BY <1>3, <2>1 DEF TimeExit
  <2>3. n \in NetType
    BY <1>1 DEF NetType
  <2>4. SameControl(net[o], n) /\ n.m_NetWork = net[o].m_NetWork
        /\ n.work = net[o].work /\ n.queue = net[o].queue
    BY <1>1 DEF NetType, SameControl
  <2> HIDE DEF n
  <2>5. Pointers(api[o], n, risks) /\ (Twice \notin risks => Threads(api[o], n))
    BY <1>1, <2>3, <2>4, ControlKept
  <2>6. risks # {}
    <3>1. CASE Twice \in risks
      BY <3>1
    <3>2. CASE Twice \notin risks
      <4>1. net[o].m_NetWork /\ net[o].Current_Type # "client"
        BY <1>1, <2>1, <3>2 DEF Threads
      <4>2. net[o].Current_Type = "server"
        BY <1>1, <4>1 DEF Pointers, NetType
      <4> QED BY <1>1, <2>2, <4>1, <4>2 DEF Pointers
    <3> QED BY <3>1, <3>2
  <2> QED BY <2>2, <2>3, <2>4, <2>5, <2>6, ThreadStep
<1> QED BY <1>2, <1>3

LEMMA ConnectExitStep ==
    ASSUME APIInv, NEW o \in Objects, ConnectExit(o)
    PROVE  APIInv'
<1> DEFINE n == [net[o] EXCEPT !.connect = "done"]
<1>1. /\ api[o] \in APIType /\ net[o] \in NetType
      /\ Pointers(api[o], net[o], risks)
      /\ Twice \notin risks => Threads(api[o], net[o])
  BY RecordsOf
<1>2. /\ api' = api /\ net' = [net EXCEPT ![o] = n]
      /\ UNCHANGED <<sockets, winsock, crashed, risks>>
  BY DEF ConnectExit
<1>3. n \in NetType
  BY <1>1 DEF NetType
<1>4. /\ n.m_NetWork = net[o].m_NetWork /\ n.pools = net[o].pools
      /\ n.Current_Type = net[o].Current_Type /\ n.connect = "done"
      /\ n.g_Is_Exit = net[o].g_Is_Exit /\ n.posted = net[o].posted
      /\ n.sends = net[o].sends /\ n.times = net[o].times
      /\ n.g_Send_Thread = net[o].g_Send_Thread
      /\ n.work = net[o].work /\ n.queue = net[o].queue
  BY <1>1 DEF NetType
<1> HIDE DEF n
<1>5. Pointers(api[o], n, risks)
  BY <1>1, <1>4 DEF Pointers
<1>6. Twice \notin risks => Threads(api[o], n)
  BY <1>1, <1>4 DEF Threads
<1> QED BY <1>1, <1>2, <1>3, <1>4, <1>5, <1>6, SameRecords, QuietStep

-----------------------------------------------------------------------------
(* The theorems.                                                           *)

LEMMA APINext == APIInv /\ [Next]_vars => APIInv'
<1> SUFFICES ASSUME APIInv, [Next]_vars PROVE APIInv'
    OBVIOUS
<1>1. ASSUME NEW o \in Objects, NEW debug \in {"none", "simple"}, Initialize(o, debug)
      PROVE  APIInv'
  BY <1>1, InitializeStep
<1>2. ASSUME NEW o \in Objects, Connect(o) PROVE APIInv'
  BY <1>2, ConnectStep
<1>3. ASSUME NEW o \in Objects, Recv(o) \/ RecvPop(o) \/ SendOrDisconnect(o) PROVE APIInv'
  BY <1>3, RecvSteps
<1>4. ASSUME NEW o \in Objects, NEW p \in Ports, NEW users \in UserCounts, Accept(o, p, users)
      PROVE  APIInv'
  BY <1>4, AcceptStep
<1>5. ASSUME NEW o \in Objects, AcceptSocket(o) \/ AcceptFails(o) \/ AcceptDone(o)
      PROVE  APIInv'
  BY <1>5, AcceptSocketStep, AcceptFailsStep, AcceptDoneStep
<1>6. ASSUME NEW o \in Objects, NEW after \in {"idle", "gone"}, EndBegin(o, after)
      PROVE  APIInv'
  BY <1>6, EndBeginStep
<1>7. ASSUME NEW o \in Objects, EndJoined(o) PROVE APIInv'
  BY <1>7, EndJoinedStep
<1>8. ASSUME NEW o \in Objects,
             Arrive(o) \/ WorkerExit(o) \/ SendExit(o) \/ TimeExit(o) \/ ConnectExit(o)
      PROVE  APIInv'
  BY <1>8, ArriveStep, WorkerExitStep, OtherExitSteps, ConnectExitStep
<1>9. CASE UNCHANGED vars
  <2>1. UNCHANGED <<api, net, sockets, winsock, crashed, risks>>
    BY <1>9 DEF vars
  <2> QED BY <2>1 DEF APIInv, Types, ObjectOK, CrashNeedsRisk, WinsockPaired
<1> QED BY <1>1, <1>2, <1>3, <1>4, <1>5, <1>6, <1>7, <1>8, <1>9 DEF Next, Returns

\* The inductive invariant: which pointers and threads an object has in each step of
\* each call, for any number of objects whose calls interleave.
THEOREM APIInvariant == Spec => []APIInv
BY APIInit, APINext, PTL DEF Spec

\* In any interleaving of the calls and the threads of any number of objects, an invalid
\* pointer is used only after a call before Initialize or after End, a second Accept of
\* an open server, or an End of a server.
THEOREM APICrashNeedsRisk == Spec => []CrashNeedsRisk
<1>1. APIInv => CrashNeedsRisk
  BY DEF APIInv
<1> QED BY <1>1, APIInvariant, PTL

\* End joins every thread of its object before it deletes what they use, however many
\* Accepts failed before, if no open server was opened again.
THEOREM APIThreadsGone == Spec => []ThreadsGone
<1>1. APIInv => ThreadsGone
  <2> SUFFICES ASSUME APIInv, Twice \notin risks, NEW o \in Objects, ~net[o].pools
               PROVE  /\ net[o].work = 0 /\ net[o].connect # "running"
                      /\ net[o].sends = {} /\ net[o].times = {} /\ net[o].queue = 0
      BY DEF ThreadsGone, Twice
  <2>1. Threads(api[o], net[o]) /\ ~net[o].m_NetWork
    BY RecordsOf DEF Pointers
  <2> QED BY <2>1 DEF Threads
<1> QED BY <1>1, APIInvariant, PTL

\* Winsock is up exactly while a server or a client exists, and no socket outlives it.
THEOREM APIWinsockPaired == Spec => []WinsockPaired
<1>1. APIInv => WinsockPaired
  BY DEF APIInv
<1> QED BY <1>1, APIInvariant, PTL
=============================================================================
