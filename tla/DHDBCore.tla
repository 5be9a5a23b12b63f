------------------------------ MODULE DHDBCore ------------------------------
(***************************************************************************)
(* Accounts and friends in MySQL (DHDB/DHDBCore.cpp).  An operation is a   *)
(* few statements with no transaction around them; one query is one step.  *)
(* A friendship is two rows of FRIEND, one for each user: ACCEPTFLAG 1 for *)
(* friends, 2 for the one that asked, 3 for the one that was asked.        *)
(*                                                                         *)
(* A query can fail, and it can be carried out although the reply is lost; *)
(* the process can crash between two queries.  The tables outlive it.      *)
(* One thread uses a DHDB object (a MYSQL handle serves one query at a     *)
(* time).  Rows are a set: no operation can tell a row from two equal      *)
(* ones.  SearchID, ComparePassword, GetIdentifier and QueryDB with a      *)
(* SELECT only read and are left out.                                      *)
(***************************************************************************)
EXTENDS Naturals

CONSTANTS
    Users,
    Nobody,
    MaxFaults       \* bound: queries that fail, and crashes

ASSUME DBAssumption == Nobody \notin Users /\ MaxFaults \in Nat

VARIABLES
    LOGIN, FRIEND,  \* the tables: IDs, and rows
    Is_Connect,
    op,             \* the last call: its name and arguments, the step it has
                    \* reached ("done" when it has returned) and its result
    list,           \* what the last call, a GetFriendList, has filled in
    crashed,
    (* history *)
    faults,
    before,         \* the tables when the last call began
    damaged         \* a fault that the code does not undo has happened

tables == <<LOGIN, FRIEND>>
vars == <<tables, Is_Connect, op, list, crashed, faults, before, damaged>>

Flags == 1..3
Rows == [USERID : Users, FRIENDID : Users, ACCEPTFLAG : Flags]

NoList == [of |-> Nobody, Friend_List |-> {}, Friend_Request_List |-> {}]
NoCall == [name |-> "none", user |-> Nobody, friend |-> Nobody,
           step |-> "done", result |-> FALSE]

\* DHDB(): a handle that is not connected.
Init ==
    /\ LOGIN = {} /\ FRIEND = {}
    /\ Is_Connect = FALSE /\ op = NoCall /\ list = NoList /\ crashed = FALSE
    /\ faults = 0 /\ before = tables /\ damaged = FALSE

-----------------------------------------------------------------------------
(* Statements: the table they leave.                                       *)

Row(u, f, a) == [USERID |-> u, FRIENDID |-> f, ACCEPTFLAG |-> a]

Of(u, f) == {r \in FRIEND : r.USERID = u /\ r.FRIENDID = f}

SetFlag(u, f) ==
    (FRIEND \ Of(u, f)) \cup {[r EXCEPT !.ACCEPTFLAG = 1] : r \in Of(u, f)}

-----------------------------------------------------------------------------
(* Calls.                                                                  *)

Ready == ~crashed /\ op.step = "done"

Called(name, u, f, step, result) ==
    /\ op' = [name |-> name, user |-> u, friend |-> f, step |-> step,
              result |-> result]
    /\ before' = tables
    /\ list' = NoList

\* A call starts with its first query.  Without a connection there is none:
\* FriendAccept returns true, the others run off the end and return anything.
Call(name, u, f, first) ==
    /\ Ready
    /\ \/ Is_Connect /\ Called(name, u, f, first, FALSE)
       \/ /\ ~Is_Connect
          /\ \E result \in IF name \in {"FriendAccept", "FriendRefuse"}
                              THEN {TRUE} ELSE BOOLEAN :
                Called(name, u, f, "done", result)
    /\ UNCHANGED <<tables, Is_Connect, crashed, faults, damaged>>

ConnectDB ==
    /\ Ready
    /\ \E ok \in BOOLEAN :
          /\ Called("ConnectDB", Nobody, Nobody, "done", ok)
          /\ Is_Connect' = (Is_Connect \/ ok)
    /\ UNCHANGED <<tables, crashed, faults, damaged>>

Goto(step) == op' = [op EXCEPT !.step = step]
Return(result) == op' = [op EXCEPT !.step = "done", !.result = result]

\* Steps whose failure leaves the tables as they were before the call, or is
\* made good by the call.
Handled == {"find", "insert", "insert2", "update", "create", "list"}

\* A statement that leaves login and friend: mysql_query succeeds, or fails
\* before it does anything, or fails because the reply is lost.
Query(step, login, friend, Good, Bad) ==
    /\ ~crashed /\ op.step = step
    /\ \/ /\ LOGIN' = login /\ FRIEND' = friend
          /\ Good
          /\ UNCHANGED <<faults, damaged>>
       \/ /\ faults < MaxFaults /\ faults' = faults + 1
          /\ \/ UNCHANGED tables
             \/ LOGIN' = login /\ FRIEND' = friend
          /\ damaged' = (damaged \/ step \notin Handled \/ tables' # tables)
          /\ Bad
    /\ UNCHANGED <<Is_Connect, before>>

Statement(step, login, friend, Good, Bad) ==
    Query(step, login, friend, Good, Bad) /\ UNCHANGED <<list, crashed>>

-----------------------------------------------------------------------------
(* CreateNewAccount.  ID is the key of LOGIN: the INSERT of an ID that is  *)
(* there fails.                                                            *)

CreateNewAccount(u) == Call("CreateNewAccount", u, Nobody, "create")

CreateInsert ==
    \/ /\ op.user \notin LOGIN
       /\ Statement("create", LOGIN \cup {op.user}, FRIEND, Return(TRUE), Return(FALSE))
    \/ /\ op.step = "create" /\ op.user \in LOGIN /\ ~crashed
       /\ Return(FALSE)
       /\ UNCHANGED <<tables, Is_Connect, list, crashed, faults, before, damaged>>

-----------------------------------------------------------------------------
(* FriendRequest and FriendAccept look for a row first.                    *)

FriendRequest(u, f) == Call("FriendRequest", u, f, "find")

FriendAccept(u, f) == Call("FriendAccept", u, f, "find")

\* Mutant of Find: an existing relation is not looked for.
FindNothing ==
    /\ Query("find", LOGIN, FRIEND,
             Goto(IF op.name = "FriendRequest" THEN "insert" ELSE "update"), UNCHANGED op)
    /\ crashed' = (faults' # faults)
    /\ UNCHANGED list

\* The result of a SELECT that failed is null and its row_count is read.
Find ==
    /\ \/ /\ op.name = "FriendRequest"
          /\ Query("find", LOGIN, FRIEND,
                   IF Of(op.user, op.friend) = {} THEN Goto("insert") ELSE Return(TRUE),
                   UNCHANGED op)
       \/ /\ op.name = "FriendAccept"
          /\ Query("find", LOGIN, FRIEND,
                   IF Of(op.user, op.friend) = {} THEN Return(FALSE) ELSE Goto("update"),
                   UNCHANGED op)
    /\ crashed' = (faults' # faults)
    /\ UNCHANGED list

InsertMine ==
    Statement("insert", LOGIN, FRIEND \cup {Row(op.user, op.friend, 2)},
              Goto("insert2"), Return(FALSE))

\* Mutant of InsertTheirs: the result of the second INSERT is not looked at.
InsertTheirsUnchecked ==
    Statement("insert2", LOGIN, FRIEND \cup {Row(op.friend, op.user, 3)},
              Return(TRUE), Return(TRUE))

InsertTheirs ==
    Statement("insert2", LOGIN, FRIEND \cup {Row(op.friend, op.user, 3)},
              Return(TRUE), Goto("undo"))

UpdateMine ==
    Statement("update", LOGIN, SetFlag(op.user, op.friend), Goto("update2"), Return(FALSE))

UpdateTheirs ==
    Statement("update2", LOGIN, SetFlag(op.friend, op.user), Return(TRUE), Goto("undo"))

\* Mutant of DeleteMine: the first row stays.
NoUndo ==
    Statement("undo", LOGIN, FRIEND, Return(FALSE), Return(FALSE))

\* Both delete the user's row when the second statement has failed.
DeleteMine ==
    Statement("undo", LOGIN, FRIEND \ Of(op.user, op.friend), Return(FALSE), Return(FALSE))

-----------------------------------------------------------------------------
(* FriendAccept with _Is_Accept false, and DeleteAccount: what fails is    *)
(* not looked at.                                                          *)

FriendRefuse(u, f) == Call("FriendRefuse", u, f, "delete")

DeleteAccount(u) == Call("DeleteAccount", u, Nobody, "login")

DeleteLogin ==
    Statement("login", LOGIN \ {op.user}, FRIEND, Goto("delete"), Goto("delete"))

DeleteByUser ==
    Statement("delete", LOGIN, {r \in FRIEND : r.USERID # op.user},
              Goto("delete2"), Goto("delete2"))

DeleteByFriend ==
    Statement("delete2", LOGIN, {r \in FRIEND : r.FRIENDID # op.user},
              Return(TRUE), Return(TRUE))

-----------------------------------------------------------------------------
GetFriendList(u) == Call("GetFriendList", u, Nobody, "list")

FetchList ==
    /\ Query("list", LOGIN, FRIEND, Return(TRUE), Return(FALSE))
    /\ LET with(a) == {f \in Users : Row(op.user, f, a) \in FRIEND}
       IN  list' = IF faults' # faults THEN list
                   ELSE [of |-> op.user, Friend_List |-> with(1),
                         Friend_Request_List |-> with(3)]
    /\ UNCHANGED crashed

-----------------------------------------------------------------------------
\* The process dies in the middle of a call; a new one makes a new DHDB.
Crash ==
    /\ ~crashed /\ op.step # "done" /\ faults < MaxFaults
    /\ crashed' = TRUE /\ faults' = faults + 1
    /\ damaged' = (damaged \/ tables # before)
    /\ UNCHANGED <<tables, Is_Connect, op, list, before>>

Restart ==
    /\ crashed
    /\ crashed' = FALSE /\ Is_Connect' = FALSE /\ op' = NoCall
    /\ UNCHANGED <<tables, list, faults, before, damaged>>

Next ==
    \/ ConnectDB
    \/ \E u, f \in Users : FriendRequest(u, f) \/ FriendAccept(u, f) \/ FriendRefuse(u, f)
    \/ \E u \in Users : CreateNewAccount(u) \/ DeleteAccount(u) \/ GetFriendList(u)
    \/ CreateInsert \/ Find \/ InsertMine \/ InsertTheirs \/ UpdateMine \/ UpdateTheirs
    \/ DeleteMine \/ DeleteLogin \/ DeleteByUser \/ DeleteByFriend \/ FetchList
    \/ Crash \/ Restart

Spec == Init /\ [][Next]_vars

-----------------------------------------------------------------------------
(* Properties.                                                             *)

\* Types of the variables; a row's flag is one of the three.
TypeOK ==
    /\ LOGIN \subseteq Users /\ FRIEND \subseteq Rows
    /\ Is_Connect \in BOOLEAN /\ crashed \in BOOLEAN /\ damaged \in BOOLEAN
    /\ op.user \in Users \cup {Nobody} /\ op.friend \in Users \cup {Nobody}
    /\ op.step \in Handled \cup {"update2", "undo", "login", "delete", "delete2", "done"}
    /\ op.result \in BOOLEAN
    /\ list.of \in Users \cup {Nobody}
    /\ list.Friend_List \subseteq Users /\ list.Friend_Request_List \subseteq Users
    /\ faults \in 0..MaxFaults
    /\ before \in (SUBSET Users) \X (SUBSET Rows)

Quiet == op.step = "done" /\ ~crashed /\ ~damaged

Pairs ==
    \A u, f \in Users :
        /\ Row(u, f, 1) \in FRIEND <=> Row(f, u, 1) \in FRIEND
        /\ Row(u, f, 2) \in FRIEND <=> Row(f, u, 3) \in FRIEND
        /\ Row(u, f, 1) \in FRIEND => Row(u, f, 2) \notin FRIEND

\* Between calls the two rows of a pair agree: a request is there on both sides
\* and so is a friendship, whatever FriendRequest's inserts ran into.
Paired == Quiet => Pairs

\* The same whatever failed.  Does not hold: when the second UPDATE of FriendAccept
\* fails one row is deleted (DHDBCore.cpp:287), a reply can be lost, a DELETE can
\* fail unseen (415), and a crash between two statements is not repaired.
PairedDespiteFaults == op.step = "done" /\ ~crashed => Pairs

\* false means that nothing has changed (one failed statement of several is
\* undone, DHDBCore.cpp:240), and true that what was asked for is there: a list
\* shows a user the ones that have asked it and the friends that have it as theirs.
AnswerIsTrue ==
    Quiet /\ Is_Connect =>
        /\ ~op.result => tables = before
        /\ op.result => CASE op.name = "FriendRequest" ->
                                 Of(op.user, op.friend) # {} /\ Of(op.friend, op.user) # {}
                          [] op.name = "FriendAccept" ->
                                 /\ Row(op.user, op.friend, 1) \in FRIEND
                                 /\ Row(op.friend, op.user, 1) \in FRIEND
                          [] op.name \in {"FriendRefuse", "DeleteAccount"} ->
                                 \A r \in FRIEND : op.user \notin {r.USERID, r.FRIENDID}
                          [] op.name = "CreateNewAccount" -> op.user \in LOGIN
                          [] op.name = "GetFriendList" ->
                                 /\ list.Friend_List = {f \in Users : Row(f, op.user, 1) \in FRIEND}
                                 /\ list.Friend_Request_List = {f \in Users : Row(f, op.user, 2) \in FRIEND}
                          [] OTHER -> TRUE

\* DHDBCore.cpp:300: this is the case of a request that is not accepted.  What
\* the user has with others stays.  Does not hold: every row of the user goes.
RefuseKeepsOthers ==
    Quiet /\ Is_Connect /\ op.name = "FriendRefuse" =>
        \A r \in before[2] :
            {r.USERID, r.FRIENDID} # {op.user, op.friend} => r \in FRIEND

\* DHDBCore.cpp:266: false when no request has been received.  Does not hold: any row
\* of the pair will do, so the one that asked can accept its own request.
AskedAccepts ==
    Quiet /\ Is_Connect /\ op.name = "FriendAccept" /\ op.result =>
        \E a \in {1, 3} : Row(op.user, op.friend, a) \in before[2]

\* The tables between calls: a call in progress has not happened yet.
View == IF op.step = "done" THEN tables ELSE before

F == INSTANCE Friendship WITH
        accounts <- View[1],
        asks <- {p \in Users \X Users : Row(p[1], p[2], 2) \in View[2]},
        friends <- {{r.USERID, r.FRIENDID} : r \in {v \in View[2] : v.ACCEPTFLAG = 1}},
        broken <- damaged

\* Every call is one step of Friendship or changes nothing, although it is made
\* of several queries, until a fault that the code does not undo.
ImplementsFriendship == F!Spec
=============================================================================
