--------------------------- MODULE ServerMessages ---------------------------
(***************************************************************************)
(* Packets from the application to the clients of DHServer                 *)
(* (DHServer.cpp): Send copies a packet into Send_Data_Queue for each      *)
(* client that it is for, SendThread sends the copies and frees them, End  *)
(* empties the queue.                                                      *)
(*                                                                         *)
(* The queue and the map know a client by its SOCKET only, which the next  *)
(* client on the same slot has too; here a connection is a number.  The    *)
(* rest of the workers (DHServer.tla) is clients that come and go.  The    *)
(* application calls the library from one thread.  A packet is one send;   *)
(* PacketStream has the chunks.                                            *)
(***************************************************************************)
EXTENDS ClientMap, FiniteSets

CONSTANTS
    MaxClients,     \* bound: connections
    MaxCalls        \* bound: calls of Send

ASSUME MessagesAssumption == MaxClients \in Nat /\ MaxCalls \in Nat

VARIABLES
    Send_Data_Queue,    \* of copies
    g_Is_Exit,
    sender,             \* SendThread: its step and the copy it has popped
    call,               \* the application: its step and the last call of Send
    crashed,
    (* history *)
    client,             \* slot -> its connection; 0 without one
    joined, sends, copies,  \* connections, calls of Send and copies so far
    freed, leaked,      \* copies deleted, and lost by a call that failed
    strayed             \* a connection was sent a packet queued for another one

app == <<call, sends>>
memory == <<copies, freed, leaked>>
vars == <<mapVars, Send_Data_Queue, g_Is_Exit, sender, app, crashed, client, joined,
          memory, strayed>>

Conns == 1..MaxClients
NoCopy == [sock |-> 0, conn |-> 0, send |-> 0, id |-> 0]
NoCall == [step |-> "idle", type |-> "none", target |-> 0, at |-> EndIter, ok |-> FALSE,
           stay |-> {}, queued |-> [c \in Conns |-> 0], settled |-> FALSE]

Init ==
    /\ MapInit
    /\ Send_Data_Queue = <<>> /\ g_Is_Exit = FALSE
    /\ sender = [step |-> "test", copy |-> NoCopy]
    /\ call = NoCall /\ crashed = FALSE
    /\ client = [s \in Slots |-> 0] /\ joined = 0 /\ sends = 0
    /\ copies = 0 /\ freed = {} /\ leaked = {}
    /\ strayed = FALSE

Node(s) == [key |-> s, conn |-> client[s]]

\* SendThread has the accessor of the client it is sending to.
Locked(s) == sender.step = "send" /\ sender.copy.sock = s

-----------------------------------------------------------------------------
(* Send: BroadCastMessage and Except_Target_Message iterate over the map   *)
(* and look every client up again; Target_Message looks one up.            *)

Send(type, target) ==
    /\ call.step = "idle" /\ sends < MaxCalls
    /\ sends' = sends + 1
    /\ call' = [NoCall EXCEPT !.step = IF type = "target" THEN "find" ELSE "begin",
                              !.type = type, !.target = target,
                              !.stay = {client[s] : s \in Slots} \ {0},
                              !.settled = Settled]
    /\ UNCHANGED <<mapVars, Send_Data_Queue, g_Is_Exit, sender, crashed, client,
                   joined, memory, strayed>>

\* begin(), or ++ when the node is still in the map.
Move ==
    /\ \/ call.step = "begin"
       \/ call.step = "next" /\ call.at.my_node[1] \in Nodes
    /\ LET it == IF call.step = "begin" THEN BeginIter ELSE Increment(call.at)
       IN  call' = IF it.my_node = <<>>
                   THEN [call EXCEPT !.step = "idle", !.ok = TRUE]
                   ELSE [call EXCEPT !.step = "find", !.at = it]
    /\ UNCHANGED <<mapVars, sends, Send_Data_Queue, g_Is_Exit, sender, crashed,
                   client, joined, memory, strayed>>

\* ++ reads a node that was erased: undefined, taken as a crash.
MoveFromErased ==
    /\ call.step = "next" /\ call.at.my_node[1] \notin Nodes
    /\ crashed' = TRUE
    /\ UNCHANGED <<mapVars, app, Send_Data_Queue, g_Is_Exit, sender, client, joined,
                   memory, strayed>>

Sought == IF call.type = "target" THEN call.target ELSE call.at.my_node[1].key

\* Mutant of Absent: the lookup is repeated until the client is there, as elsewhere.
AbsentSpins ==
    /\ call.step = "find" /\ Lookup(Sought) = {}
    /\ Find(Sought)
    /\ UNCHANGED <<app, Send_Data_Queue, g_Is_Exit, sender, crashed, client, joined, memory,
                   strayed>>

\* The client is not there: the call fails.  Except_Target_Message has not
\* copied the packet yet; the others lose the copy.
Absent ==
    /\ call.step = "find" /\ Lookup(Sought) = {}
    /\ Find(Sought)
    /\ call' = NoCall
    /\ \/ call.type = "except" /\ UNCHANGED memory
       \/ /\ call.type # "except"
          /\ copies' = copies + 1 /\ leaked' = leaked \cup {copies + 1}
          /\ UNCHANGED freed
    /\ UNCHANGED <<sends, Send_Data_Queue, g_Is_Exit, sender, crashed, client, joined,
                   strayed>>

Skipped ==
    /\ call.step = "find" /\ call.type = "except" /\ Sought = call.target
    /\ Lookup(Sought) # {} /\ ~Locked(Sought)
    /\ Find(Sought)
    /\ call' = [call EXCEPT !.step = "next"]
    /\ UNCHANGED <<sends, Send_Data_Queue, g_Is_Exit, sender, crashed, client, joined,
                   memory, strayed>>

\* A copy is queued under the const_accessor.
Queued ==
    /\ call.step = "find" /\ ~(call.type = "except" /\ Sought = call.target)
    /\ Lookup(Sought) # {} /\ ~Locked(Sought)
    /\ Find(Sought)
    /\ \E n \in Lookup(Sought) :
          /\ Send_Data_Queue' = Append(Send_Data_Queue,
                 [sock |-> n.key, conn |-> n.conn, send |-> sends, id |-> copies + 1])
          /\ call' = [call EXCEPT !.queued[n.conn] = @ + 1,
                                  !.step = IF call.type = "target" THEN "idle" ELSE "next",
                                  !.ok = (call.type = "target")]
    /\ copies' = copies + 1
    /\ UNCHANGED <<sends, g_Is_Exit, sender, crashed, client, joined, freed, leaked,
                   strayed>>

-----------------------------------------------------------------------------
(* SendThread.                                                             *)

Pop ==
    /\ sender.step = "loop" /\ Send_Data_Queue # <<>>
    /\ sender' = [step |-> "find", copy |-> Head(Send_Data_Queue)]
    /\ Send_Data_Queue' = Tail(Send_Data_Queue)
    /\ UNCHANGED <<mapVars, app, g_Is_Exit, crashed, client, joined, memory, strayed>>

Delete(copy) == freed' = freed \cup {copy.id} /\ UNCHANGED <<copies, leaked>>

\* Mutant of Drop: the lookup is repeated until the client is there, as elsewhere.
DropSpins ==
    /\ sender.step = "find" /\ Lookup(sender.copy.sock) = {}
    /\ Find(sender.copy.sock)
    /\ UNCHANGED <<app, Send_Data_Queue, g_Is_Exit, sender, crashed, client, joined, memory,
                   strayed>>

Drop ==
    /\ sender.step = "find" /\ Lookup(sender.copy.sock) = {}
    /\ Find(sender.copy.sock)
    /\ Delete(sender.copy)
    /\ sender' = [step |-> "loop", copy |-> NoCopy]
    /\ UNCHANGED <<app, Send_Data_Queue, g_Is_Exit, crashed, client, joined, strayed>>

Hold ==
    /\ sender.step = "find" /\ Lookup(sender.copy.sock) # {}
    /\ Find(sender.copy.sock)
    /\ sender' = [sender EXCEPT !.step = "send"]
    /\ UNCHANGED <<app, Send_Data_Queue, g_Is_Exit, crashed, client, joined, memory,
                   strayed>>

\* WSASend works or not; the copy is deleted and the accessor released.
Transmit ==
    /\ sender.step = "send"
    /\ \/ strayed' = (strayed \/ client[sender.copy.sock] # sender.copy.conn)
       \/ UNCHANGED strayed
    /\ Delete(sender.copy)
    /\ sender' = [step |-> "loop", copy |-> NoCopy]
    /\ UNCHANGED <<mapVars, app, Send_Data_Queue, g_Is_Exit, crashed, client, joined>>

\* "while (!Send_Data_Queue.empty())": nothing to send.
SenderEmpty ==
    /\ sender.step = "loop" /\ Send_Data_Queue = <<>>
    /\ sender' = [sender EXCEPT !.step = "test"]
    /\ UNCHANGED <<mapVars, app, Send_Data_Queue, g_Is_Exit, crashed, client, joined,
                   memory, strayed>>

\* "while (!g_Is_Exit)", a step after the queue was found empty: a packet queued in
\* between is left to End.
SenderTest ==
    /\ sender.step = "test"
    /\ sender' = [sender EXCEPT !.step = IF g_Is_Exit THEN "exited" ELSE "loop"]
    /\ UNCHANGED <<mapVars, app, Send_Data_Queue, g_Is_Exit, crashed, client, joined,
                   memory, strayed>>

SendThread == Pop \/ Drop \/ Hold \/ Transmit \/ SenderEmpty \/ SenderTest

-----------------------------------------------------------------------------
(* The workers: clients come, are deleted, and send packets.               *)

\* AddClientSocket: FindSocketOnClient, then insert.
AddClientSocket(s) ==
    /\ client[s] = 0 /\ joined < MaxClients
    /\ joined' = joined + 1
    /\ client' = [client EXCEPT ![s] = joined + 1]
    /\ Insert([key |-> s, conn |-> joined + 1])
    /\ call' = [call EXCEPT !.settled = @ /\ call.step = "idle"]
    /\ UNCHANGED <<sends, Send_Data_Queue, g_Is_Exit, sender, crashed, memory, strayed>>

Delete_in_Socket_List(s) ==
    /\ client[s] # 0 /\ ~Locked(s)
    /\ client' = [client EXCEPT ![s] = 0]
    /\ Erase(Node(s))
    /\ call' = [call EXCEPT !.stay = IF call.step = "idle" THEN @ ELSE @ \ {client[s]}]
    /\ UNCHANGED <<sends, Send_Data_Queue, g_Is_Exit, sender, crashed, joined, memory,
                   strayed>>

WorkThread ==
    /\ call.step # "ended"
    /\ \E s \in Slots : AddClientSocket(s) \/ Delete_in_Socket_List(s)

-----------------------------------------------------------------------------
(* End joins SendThread and the workers, then empties the queue.           *)

End ==
    /\ call.step = "idle"
    /\ g_Is_Exit' = TRUE
    /\ call' = [call EXCEPT !.step = "join"]
    /\ UNCHANGED <<mapVars, sends, Send_Data_Queue, sender, crashed, client, joined,
                   memory, strayed>>

\* Mutant of EndJoined: what SendThread has left in the queue is not deleted.
EndKeepsQueue ==
    /\ call.step = "join" /\ sender.step = "exited"
    /\ call' = [call EXCEPT !.step = "ended"]
    /\ UNCHANGED <<mapVars, sends, Send_Data_Queue, g_Is_Exit, sender, crashed, client,
                   joined, memory, strayed>>

EndJoined ==
    /\ call.step = "join" /\ sender.step = "exited"
    /\ call' = [call EXCEPT !.step = "ended"]
    /\ Send_Data_Queue' = <<>>
    /\ freed' = freed \cup {Send_Data_Queue[i].id : i \in 1..Len(Send_Data_Queue)}
    /\ UNCHANGED <<mapVars, sends, g_Is_Exit, sender, crashed, client, joined,
                   copies, leaked, strayed>>

Running == ~crashed /\ call.step # "ended"

\* What goes on by itself in the thread of the application.
SendStep == Move \/ MoveFromErased \/ Absent \/ Skipped \/ Queued
AppStep == SendStep \/ EndJoined

Next ==
    \/ Running /\ Send("broadcast", 0)
    \/ Running /\ \E s \in Slots : Send("target", s) \/ Send("except", s)
    \/ Running /\ End
    \/ Running /\ AppStep
    \/ Running /\ SendThread
    \/ Running /\ WorkThread
    \/ ~Running /\ UNCHANGED vars

Spec == Init /\ [][Next]_vars

\* The scheduler runs the thread of the application and SendThread.
FairSpec ==
    /\ Spec
    /\ WF_vars(Running /\ AppStep)
    /\ WF_vars(Running /\ SendThread)

-----------------------------------------------------------------------------
(* Properties.                                                             *)

Copy == [sock : Slots, conn : Conns, send : 1..MaxCalls, id : Nat]

\* Types of the variables; the mask belongs to a size of the table.
TypeOK ==
    /\ \A i \in Indexes : Listed(buckets[i]) \subseteq [key : Slots, conn : Conns]
    /\ my_mask + 1 \in {BucketCounts[i] : i \in 1..Len(BucketCounts)} /\ my_size \in Nat
    /\ Send_Data_Queue \in Seq(Copy)
    /\ g_Is_Exit \in BOOLEAN /\ crashed \in BOOLEAN
    /\ sender.step \in {"test", "loop", "find", "send", "exited"}
    /\ sender.copy \in Copy \cup {NoCopy}
    /\ call.step \in {"idle", "begin", "next", "find", "join", "ended"}
    /\ client \in [Slots -> 0..MaxClients]
    /\ freed \subseteq 1..copies /\ leaked \subseteq 1..copies
    /\ strayed \in BOOLEAN

\* A lookup finds a client exactly when it is registered, however many times
\* the table has grown and whichever buckets have been rehashed.
MapFinds ==
    \A s \in Slots : Lookup(s) = IF client[s] = 0 THEN {} ELSE {Node(s)}

\* A call that succeeds has queued one copy for each client it is for that was
\* there all the time, if the table was settled and nobody came in between.
SettledBroadcast ==
    (call.step = "idle" /\ call.ok /\ call.settled /\ call.type \in {"broadcast", "except"}) =>
        \A s \in Slots : client[s] \in call.stay =>
            call.queued[client[s]] =
                IF call.type = "except" /\ s = call.target THEN 0 ELSE 1

\* DHServer.cpp:750: the packet is sent to all the clients.  Does not hold: the
\* lookup in the loop moves nodes that the iterator then meets again, or that it
\* needs to go on from.
BroadcastOnce ==
    (call.step = "idle" /\ call.ok /\ call.type = "broadcast") =>
        \A c \in call.stay : call.queued[c] = 1

QueuedIds == [i \in 1..Len(Send_Data_Queue) |-> Send_Data_Queue[i].id]
InHand == {sender.copy.id} \ {0}
InQueue == {QueuedIds[i] : i \in 1..Len(Send_Data_Queue)}

\* Every copy is in the queue once, or with SendThread, or deleted once; only
\* the calls that fail lose one, and End leaves none.
CopiesAccounted ==
    /\ Cardinality(InQueue) = Len(Send_Data_Queue)
    /\ InQueue \cap (InHand \cup freed) = {} /\ InHand \cap freed = {}
    /\ leaked \cap (InQueue \cup InHand \cup freed) = {}
    /\ 1..copies = InQueue \cup InHand \cup freed \cup leaked
    /\ call.step = "ended" => 1..copies = freed \cup leaked

\* DHServer.cpp:536: the socket is looked up to find out that the client has
\* gone.  Does not hold: the next client on the SOCKET is found.
RightReceiver == ~strayed

\* A call of Send returns, although the map changes under the iterator and
\* SendThread holds accessors of the clients the call looks up.
SendReturns == (call.step = "find") ~> (call.step = "idle" \/ crashed)

\* What is queued is sent or dropped, also when its client has left.
QueueDrained == (Send_Data_Queue # <<>>) ~> (Send_Data_Queue = <<>> \/ crashed)
=============================================================================
