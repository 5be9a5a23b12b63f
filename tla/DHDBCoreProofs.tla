--------------------------- MODULE DHDBCoreProofs ---------------------------
(***************************************************************************)
(* Proofs about DHDBCore, for any set of users and any number of faults:   *)
(*   - DBPaired: the two rows of a pair agree between calls;               *)
(*   - DBAnswerIsTrue: what a call returns is true of the tables;          *)
(*   - DBImplementsFriendship: the queries implement Friendship.           *)
(***************************************************************************)
EXTENDS DHDBCore, TLAPS

-----------------------------------------------------------------------------
(* Tables.  A statement is described by the rows it leaves.                *)

PairsOf(T) ==
    \A u, f \in Users :
        /\ Row(u, f, 1) \in T <=> Row(f, u, 1) \in T
        /\ Row(u, f, 2) \in T <=> Row(f, u, 3) \in T
        /\ Row(u, f, 1) \in T => Row(u, f, 2) \notin T

RowsOf(T, u, f) == {r \in T : r.USERID = u /\ r.FRIENDID = f}

WithFlag(T, u, f) ==
    (T \ RowsOf(T, u, f)) \cup {[r EXCEPT !.ACCEPTFLAG = 1] : r \in RowsOf(T, u, f)}

NotBy(T, u) == {r \in T : r.USERID # u}
Without(T, u) == {r \in NotBy(T, u) : r.FRIENDID # u}

\* The components of a row determine it.
LEMMA RowEqual ==
    ASSUME NEW u, NEW f, NEW a, NEW x, NEW y, NEW b
    PROVE  Row(u, f, a) = Row(x, y, b) <=> u = x /\ f = y /\ a = b
<1>1. /\ Row(u, f, a).USERID = u /\ Row(x, y, b).USERID = x
      /\ Row(u, f, a).FRIENDID = f /\ Row(x, y, b).FRIENDID = y
      /\ Row(u, f, a).ACCEPTFLAG = a /\ Row(x, y, b).ACCEPTFLAG = b
  BY DEF Row
<1> QED BY <1>1 DEF Row

\* Every row of a table is Row of its components.
LEMMA RowForm ==
    ASSUME NEW r \in Rows
    PROVE  /\ r = Row(r.USERID, r.FRIENDID, r.ACCEPTFLAG)
           /\ r.USERID \in Users /\ r.FRIENDID \in Users /\ r.ACCEPTFLAG \in Flags
BY DEF Rows, Row

LEMMA RowFields ==
    ASSUME NEW u \in Users, NEW f \in Users, NEW a \in Flags
    PROVE  /\ Row(u, f, a) \in Rows
           /\ Row(u, f, a).USERID = u /\ Row(u, f, a).FRIENDID = f
           /\ Row(u, f, a).ACCEPTFLAG = a
BY DEF Rows, Row

\* The pair has a row exactly when it has one with some flag.
LEMMA RowsOfEmpty ==
    ASSUME NEW T \in SUBSET Rows, NEW u \in Users, NEW f \in Users
    PROVE  RowsOf(T, u, f) = {} <=> \A a \in Flags : Row(u, f, a) \notin T
BY RowForm, RowFields DEF RowsOf

\* What the UPDATE leaves.
LEMMA WithFlagRows ==
    ASSUME NEW T \in SUBSET Rows, NEW u \in Users, NEW f \in Users
    PROVE  /\ WithFlag(T, u, f) \in SUBSET Rows
           /\ \A x, y \in Users, a \in Flags :
                 Row(x, y, a) \in WithFlag(T, u, f)
                    <=> IF x = u /\ y = f THEN a = 1 /\ RowsOf(T, u, f) # {}
                                          ELSE Row(x, y, a) \in T
<1>1. ASSUME NEW r \in RowsOf(T, u, f)
      PROVE  [r EXCEPT !.ACCEPTFLAG = 1] = Row(u, f, 1)
  <2>1. r \in Rows /\ r.USERID = u /\ r.FRIENDID = f
    BY DEF RowsOf
  <2> QED BY <2>1 DEF Rows, Row
<1>2. Row(u, f, 1) \in Rows
  BY RowFields DEF Flags
<1>3. WithFlag(T, u, f) \in SUBSET Rows
  BY <1>1, <1>2 DEF WithFlag
<1>4. ASSUME NEW x \in Users, NEW y \in Users, NEW a \in Flags
      PROVE  Row(x, y, a) \in WithFlag(T, u, f)
                <=> IF x = u /\ y = f THEN a = 1 /\ RowsOf(T, u, f) # {}
                                      ELSE Row(x, y, a) \in T
  <2>1. Row(x, y, a) \in RowsOf(T, u, f) <=> Row(x, y, a) \in T /\ x = u /\ y = f
    BY RowFields DEF RowsOf
  <2>2. Row(x, y, a) \in {[r EXCEPT !.ACCEPTFLAG = 1] : r \in RowsOf(T, u, f)}
            <=> RowsOf(T, u, f) # {} /\ Row(x, y, a) = Row(u, f, 1)
    BY <1>1
  <2>3. Row(x, y, a) = Row(u, f, 1) <=> x = u /\ y = f /\ a = 1
    BY RowEqual
  <2> QED BY <2>1, <2>2, <2>3 DEF WithFlag
<1> QED BY <1>3, <1>4

\* What the two DELETEs leave.
LEMMA WithoutRows ==
    ASSUME NEW T \in SUBSET Rows, NEW u \in Users
    PROVE  /\ NotBy(T, u) \in SUBSET Rows /\ Without(T, u) \in SUBSET Rows
           /\ \A x, y \in Users, a \in Flags :
                 Row(x, y, a) \in Without(T, u) <=> Row(x, y, a) \in T /\ x # u /\ y # u
           /\ \A r \in Without(T, u) : u \notin {r.USERID, r.FRIENDID}
<1>1. ASSUME NEW x \in Users, NEW y \in Users, NEW a \in Flags
      PROVE  Row(x, y, a) \in Without(T, u) <=> Row(x, y, a) \in T /\ x # u /\ y # u
  BY RowFields DEF Without, NotBy
<1> QED BY <1>1 DEF Without, NotBy

\* What the two INSERTs leave.
LEMMA InsertRows ==
    ASSUME NEW T \in SUBSET Rows, NEW u \in Users, NEW f \in Users
    PROVE  /\ T \cup {Row(u, f, 2)} \in SUBSET Rows
           /\ T \cup {Row(u, f, 2)} \cup {Row(f, u, 3)} \in SUBSET Rows
           /\ \A x, y \in Users, a \in Flags :
                 Row(x, y, a) \in T \cup {Row(u, f, 2)} \cup {Row(f, u, 3)}
                    <=> \/ Row(x, y, a) \in T
                        \/ x = u /\ y = f /\ a = 2
                        \/ x = f /\ y = u /\ a = 3
<1>1. Row(u, f, 2) \in Rows /\ Row(f, u, 3) \in Rows
  BY RowFields DEF Flags
<1>2. ASSUME NEW x \in Users, NEW y \in Users, NEW a \in Flags
      PROVE  /\ Row(x, y, a) = Row(u, f, 2) <=> x = u /\ y = f /\ a = 2
             /\ Row(x, y, a) = Row(f, u, 3) <=> x = f /\ y = u /\ a = 3
  BY RowEqual
<1> QED BY <1>1, <1>2

\* A request on both sides keeps the pairs.
LEMMA InsertKeepsPairs ==
    ASSUME NEW T \in SUBSET Rows, PairsOf(T), NEW u \in Users, NEW f \in Users,
           RowsOf(T, u, f) = {}
    PROVE  PairsOf(T \cup {Row(u, f, 2)} \cup {Row(f, u, 3)})
<1>1. \A a \in Flags : Row(u, f, a) \notin T
  BY RowsOfEmpty
<1>2. 1 \in Flags /\ 2 \in Flags /\ 3 \in Flags
  BY DEF Flags
<1>3. ASSUME NEW x \in Users, NEW y \in Users, NEW a \in Flags
      PROVE  Row(x, y, a) \in T \cup {Row(u, f, 2)} \cup {Row(f, u, 3)}
                <=> \/ Row(x, y, a) \in T
                    \/ x = u /\ y = f /\ a = 2
                    \/ x = f /\ y = u /\ a = 3
  BY InsertRows
<1> HIDE DEF Row
<1> QED BY <1>1, <1>2, <1>3 DEF PairsOf

\* Both sides of a pair have rows or neither has.
LEMMA BothSides ==
    ASSUME NEW T \in SUBSET Rows, PairsOf(T), NEW u \in Users, NEW f \in Users,
           RowsOf(T, u, f) # {}
    PROVE  RowsOf(T, f, u) # {}
<1>1. PICK a \in Flags : Row(u, f, a) \in T
  BY RowsOfEmpty
<1>2. a = 1 \/ a = 2 \/ a = 3
  BY DEF Flags
<1>3. \E b \in Flags : Row(f, u, b) \in T
  BY <1>1, <1>2 DEF PairsOf, Flags
<1> QED BY <1>3, RowsOfEmpty

\* The two UPDATEs of an acceptance keep the pairs and leave a friendship.
LEMMA AcceptKeepsPairs ==
    ASSUME NEW T \in SUBSET Rows, PairsOf(T), NEW u \in Users, NEW f \in Users,
           RowsOf(T, u, f) # {}
    PROVE  LET V == WithFlag(WithFlag(T, u, f), f, u)
           IN  /\ V \in SUBSET Rows
               /\ \A x, y \in Users, a \in Flags :
                     Row(x, y, a) \in V
                        <=> IF (x = u /\ y = f) \/ (x = f /\ y = u) THEN a = 1
                                                                     ELSE Row(x, y, a) \in T
               /\ PairsOf(V)
<1> DEFINE W == WithFlag(T, u, f)
           V == WithFlag(W, f, u)
<1>1. W \in SUBSET Rows
  BY WithFlagRows
<1>2. \A x, y \in Users, a \in Flags :
         Row(x, y, a) \in W <=> IF x = u /\ y = f THEN a = 1 ELSE Row(x, y, a) \in T
  BY WithFlagRows
<1>3. RowsOf(W, f, u) # {}
  <2>1. PICK b \in Flags : Row(f, u, b) \in T
    BY BothSides, RowsOfEmpty
  <2>2. 1 \in Flags
    BY DEF Flags
  <2>3. \E b2 \in Flags : Row(f, u, b2) \in W
    BY <2>1, <2>2, <1>2
  <2> HIDE DEF W
  <2> QED BY <1>1, <2>3, RowsOfEmpty
<1> HIDE DEF W
<1>4. /\ V \in SUBSET Rows
      /\ \A x, y \in Users, a \in Flags :
            Row(x, y, a) \in V <=> IF x = f /\ y = u THEN a = 1 ELSE Row(x, y, a) \in W
  BY <1>1, <1>3, WithFlagRows
<1> HIDE DEF V
<1>5. \A x, y \in Users, a \in Flags :
         Row(x, y, a) \in V
            <=> IF (x = u /\ y = f) \/ (x = f /\ y = u) THEN a = 1 ELSE Row(x, y, a) \in T
  BY <1>2, <1>4
<1>6. 1 \in Flags /\ 2 \in Flags /\ 3 \in Flags
  BY DEF Flags
<1>7. PairsOf(V)
  BY <1>5, <1>6 DEF PairsOf
<1> QED BY <1>4, <1>5, <1>7 DEF V, W

\* Forgetting a user keeps the pairs.
LEMMA ForgetKeepsPairs ==
    ASSUME NEW T \in SUBSET Rows, PairsOf(T), NEW u \in Users
    PROVE  PairsOf(Without(T, u))
<1>1. 1 \in Flags /\ 2 \in Flags /\ 3 \in Flags
  BY DEF Flags
<1>2. \A x, y \in Users, a \in Flags :
         Row(x, y, a) \in Without(T, u) <=> Row(x, y, a) \in T /\ x # u /\ y # u
  BY WithoutRows
<1> QED BY <1>1, <1>2 DEF PairsOf

\* Deleting the user's row undoes the first INSERT of a request.
LEMMA UndoInsert ==
    ASSUME NEW T \in SUBSET Rows, NEW u \in Users, NEW f \in Users, RowsOf(T, u, f) = {}
    PROVE  LET W == T \cup {Row(u, f, 2)} IN W \ RowsOf(W, u, f) = T
<1>1. Row(u, f, 2).USERID = u /\ Row(u, f, 2).FRIENDID = f
  BY DEF Row
<1> QED BY <1>1 DEF RowsOf

-----------------------------------------------------------------------------
(* The invariant: what a call that is in progress has done so far.         *)

CallNames ==
    {"none", "ConnectDB", "CreateNewAccount", "FriendRequest", "FriendAccept",
     "FriendRefuse", "DeleteAccount", "GetFriendList"}

Steps == Handled \cup {"update2", "undo", "login", "delete", "delete2", "done"}

DBTypes ==
    /\ LOGIN \in SUBSET Users /\ FRIEND \in SUBSET Rows
    /\ Is_Connect \in BOOLEAN /\ crashed \in BOOLEAN /\ damaged \in BOOLEAN
    /\ op \in [name : CallNames, user : Users \cup {Nobody}, friend : Users \cup {Nobody},
               step : Steps, result : BOOLEAN]
    /\ list \in [of : Users \cup {Nobody}, Friend_List : SUBSET Users,
                 Friend_Request_List : SUBSET Users]
    /\ faults \in 0..MaxFaults
    /\ before \in (SUBSET Users) \X (SUBSET Rows)

\* Which calls have which steps, and the arguments they have.
StepsOfCalls ==
    /\ op.step # "done" => Is_Connect /\ op.user \in Users
    /\ op.step \in {"find", "insert", "insert2", "update", "update2", "undo"} => op.friend \in Users
    /\ op.step = "find" => op.name \in {"FriendRequest", "FriendAccept"}
    /\ op.step \in {"insert", "insert2"} => op.name = "FriendRequest"
    /\ op.step \in {"update", "update2"} => op.name = "FriendAccept"
    /\ op.step = "undo" /\ ~damaged => op.name = "FriendRequest"
    /\ op.step = "create" => op.name = "CreateNewAccount"
    /\ op.step = "list" => op.name = "GetFriendList"
    /\ op.step = "login" => op.name = "DeleteAccount"
    /\ op.step \in {"delete", "delete2"} => op.name \in {"FriendRefuse", "DeleteAccount"}

\* The tables in the middle of a call, from those before it.
Progress ==
    LET u == op.user
        f == op.friend
        L == before[1]
        T == before[2]
        Forgotten == IF op.name = "DeleteAccount" THEN L \ {u} ELSE L
    IN  /\ op.step \in {"find", "insert", "update", "create", "list", "login"} => tables = before
        /\ op.step \in {"insert", "insert2", "undo"} => RowsOf(T, u, f) = {}
        /\ op.step \in {"insert2", "undo"} => LOGIN = L /\ FRIEND = T \cup {Row(u, f, 2)}
        /\ op.step \in {"update", "update2"} => RowsOf(T, u, f) # {}
        /\ op.step = "update2" => LOGIN = L /\ FRIEND = WithFlag(T, u, f)
        /\ op.step = "delete" => LOGIN = Forgotten /\ FRIEND = T
        /\ op.step = "delete2" => LOGIN = Forgotten /\ FRIEND = NotBy(T, u)

\* What is true of a call that has returned.
Answered ==
    Is_Connect =>
        /\ ~op.result => tables = before
        /\ op.result => CASE op.name = "FriendRequest" ->
                                 Of(op.user, op.friend) # {} /\ Of(op.friend, op.user) # {}
                          [] op.name = "FriendAccept" ->
                                 /\ Row(op.user, op.friend, 1) \in FRIEND
                                 /\ Row(op.friend, op.user, 1) \in FRIEND
                          [] op.name \in {"FriendRefuse", "DeleteAccount"} ->
                                 \A r \in FRIEND : op.user \notin {r.USERID, r.FRIENDID}
                          [] op.name = "CreateNewAccount" -> op.user \in LOGIN
                          [] op.name = "GetFriendList" ->
                                 /\ list.Friend_List = {f \in Users : Row(f, op.user, 1) \in FRIEND}
                                 /\ list.Friend_Request_List = {f \in Users : Row(f, op.user, 2) \in FRIEND}
                          [] OTHER -> TRUE

\* Until the first fault that is not undone the tables before the call have their pairs,
\* and so have those it leaves; a crash has changed nothing.
Sound ==
    ~damaged => /\ PairsOf(before[2])
                /\ crashed => tables = before
                /\ ~crashed /\ op.step # "done" => Progress
                /\ ~crashed /\ op.step = "done" => PairsOf(FRIEND) /\ Answered

\* The inductive invariant.
DBInv == DBTypes /\ StepsOfCalls /\ Sound

\* One whole operation, or none, takes the tables L and T to M and U.
Whole(L, T, M, U) ==
    \/ M = L /\ U = T
    \/ \E u, f \in Users :
          \/ M = L \cup {u} /\ U = T
          \/ RowsOf(T, u, f) = {} /\ M = L /\ U = T \cup {Row(u, f, 2)} \cup {Row(f, u, 3)}
          \/ RowsOf(T, u, f) # {} /\ M = L /\ U = WithFlag(WithFlag(T, u, f), f, u)
          \/ (M = L \/ M = L \ {u}) /\ U = Without(T, u)

\* What a step shows of the tables between calls.
Shows == ~damaged' => ~damaged /\ Whole(View[1], View[2], View'[1], View'[2])

LEMMA InitDBInv == Init => DBInv
<1> SUFFICES ASSUME Init PROVE DBInv
    OBVIOUS
<1>1. DBTypes
  <2>1. op \in [name : CallNames, user : Users \cup {Nobody}, friend : Users \cup {Nobody},
                step : Steps, result : BOOLEAN]
    BY DEF Init, NoCall, CallNames, Steps
  <2>2. faults \in 0..MaxFaults
    BY DBAssumption DEF Init
  <2>3. before \in (SUBSET Users) \X (SUBSET Rows)
    BY DEF Init, tables
  <2> QED BY <2>1, <2>2, <2>3 DEF Init, DBTypes, NoList
<1>2. StepsOfCalls
  BY DEF Init, StepsOfCalls, NoCall
<1>3. PairsOf({})
  BY DEF PairsOf
<1>4. before[2] = {} /\ FRIEND = {} /\ op.step = "done" /\ Is_Connect = FALSE /\ crashed = FALSE
  BY DEF Init, tables, NoCall
<1>5. Sound
  BY <1>3, <1>4 DEF Sound, Answered
<1> QED BY <1>1, <1>2, <1>5 DEF DBInv

\* The start of a call, and a call without a connection.
LEMMA CalledStep ==
    ASSUME DBInv, Ready,
           NEW name \in CallNames, NEW u \in Users \cup {Nobody}, NEW f \in Users \cup {Nobody},
           NEW step \in Steps, NEW result \in BOOLEAN,
           Called(name, u, f, step, result),
           UNCHANGED <<tables, crashed, faults, damaged>>,
           Is_Connect' \in BOOLEAN,
           StepsOfCalls',
           step \in {"find", "create", "list", "login", "delete", "done"},
           step = "delete" => name = "FriendRefuse",
           step = "done" => ~Is_Connect' \/ name = "ConnectDB"
    PROVE  DBInv' /\ Shows
<1>1. /\ op' = [name |-> name, user |-> u, friend |-> f, step |-> step, result |-> result]
      /\ before' = tables /\ list' = NoList
      /\ LOGIN' = LOGIN /\ FRIEND' = FRIEND
      /\ crashed' = crashed /\ faults' = faults /\ damaged' = damaged
      /\ ~crashed /\ op.step = "done"
  BY DEF Called, Ready, tables
<1>2. /\ op'.name = name /\ op'.user = u /\ op'.step = step /\ op'.result = result
      /\ before'[1] = LOGIN /\ before'[2] = FRIEND /\ tables' = before'
  BY <1>1 DEF tables
<1>3. DBTypes'
  BY <1>1 DEF DBInv, DBTypes, NoList, tables
<1>4. ASSUME ~damaged PROVE PairsOf(FRIEND)
  BY <1>1, <1>4 DEF DBInv, Sound
<1>5. Progress' \/ op'.step = "done"
  BY <1>1, <1>2 DEF Progress
<1>6. op'.step = "done" => Answered'
  BY <1>2 DEF Answered
<1>7. Sound'
  BY <1>1, <1>2, <1>4, <1>5, <1>6 DEF Sound
<1>8. View = tables /\ View' = tables
  BY <1>1, <1>2 DEF View
<1>9. Shows
  BY <1>1, <1>8 DEF Shows, Whole
<1> QED BY <1>3, <1>7, <1>9 DEF DBInv

\* What a query leaves of the last call.
SameCall == op'.name = op.name /\ op'.user = op.user /\ op'.friend = op.friend

OpTypes == [name : CallNames, user : Users \cup {Nobody}, friend : Users \cup {Nobody},
            step : Steps, result : BOOLEAN]

\* Where a query goes on to.
LEMMA Moves ==
    ASSUME op \in OpTypes
    PROVE  /\ \A s \in Steps : Goto(s) => /\ op' \in OpTypes /\ SameCall
                                          /\ op'.step = s /\ op'.result = op.result
           /\ \A b \in BOOLEAN : Return(b) => /\ op' \in OpTypes /\ SameCall
                                              /\ op'.step = "done" /\ op'.result = b
BY DEF Goto, Return, OpTypes, SameCall, Steps

\* The steps and the names, as facts about strings.
LEMMA StepNames ==
    {"find", "insert", "insert2", "update", "create", "list", "update2", "undo", "login",
     "delete", "delete2", "done"} = Steps
BY DEF Steps, Handled

\* Every query leaves types behind, whatever becomes of it.
LEMMA QueryTypes ==
    ASSUME DBInv, op' \in OpTypes, SameCall, UNCHANGED <<Is_Connect, before>>,
           LOGIN' \in SUBSET Users, FRIEND' \in SUBSET Rows,
           crashed' \in BOOLEAN, damaged' \in BOOLEAN, faults' \in 0..MaxFaults,
           list' \in [of : Users \cup {Nobody}, Friend_List : SUBSET Users,
                      Friend_Request_List : SUBSET Users]
    PROVE  DBTypes'
BY DEF DBInv, DBTypes, OpTypes

\* A call in progress has its pairs and its progress.
LEMMA InCall ==
    ASSUME DBInv, ~crashed, op.step # "done"
    PROVE  /\ op \in OpTypes /\ op.user \in Users /\ Is_Connect
           /\ LOGIN \in SUBSET Users /\ FRIEND \in SUBSET Rows
           /\ before[1] \in SUBSET Users /\ before[2] \in SUBSET Rows
           /\ before = <<before[1], before[2]>>
           /\ ~damaged => PairsOf(before[2]) /\ Progress
           /\ View = before
BY DEF DBInv, DBTypes, OpTypes, StepsOfCalls, Sound, View

\* A step inside a call shows nothing.
LEMMA InsideStep ==
    ASSUME DBInv, op.step # "done", op'.step # "done", before' = before,
           ~damaged' => ~damaged
    PROVE  Shows
<1>1. View = before /\ View' = before
  BY DEF View
<1> QED BY <1>1 DEF Shows, Whole

\* What becomes of a query that leaves login and friend: it goes on with the step good, or it
\* has failed and goes on with the step bad.
Outcome(step, login, friend, good, goodResult, bad, badResult) ==
    /\ ~crashed /\ op.step = step
    /\ op' \in OpTypes /\ SameCall /\ Is_Connect' = Is_Connect /\ before' = before
    /\ \/ /\ LOGIN' = login /\ FRIEND' = friend
          /\ op'.step = good /\ op'.result = goodResult
          /\ faults' = faults /\ damaged' = damaged
       \/ /\ LOGIN' \in {LOGIN, login} /\ FRIEND' \in {FRIEND, friend}
          /\ op'.step = bad /\ op'.result = badResult
          /\ faults' \in 0..MaxFaults /\ damaged' \in BOOLEAN
          /\ ~damaged' => /\ ~damaged /\ step \in Handled
                          /\ LOGIN' = LOGIN /\ FRIEND' = FRIEND

LEMMA OutcomeTypes ==
    ASSUME DBInv, NEW step, NEW login \in SUBSET Users, NEW friend \in SUBSET Rows,
           NEW good, NEW goodResult, NEW bad, NEW badResult,
           Outcome(step, login, friend, good, goodResult, bad, badResult),
           list' = list, crashed' = crashed
    PROVE  DBTypes'
<1>1. /\ LOGIN \in SUBSET Users /\ FRIEND \in SUBSET Rows
      /\ damaged \in BOOLEAN /\ faults \in 0..MaxFaults /\ crashed \in BOOLEAN
      /\ list \in [of : Users \cup {Nobody}, Friend_List : SUBSET Users,
                   Friend_Request_List : SUBSET Users]
  BY DEF DBInv, DBTypes
<1> QED BY <1>1, QueryTypes DEF Outcome

\* The arithmetic of one more fault.
LEMMA OneMoreFault ==
    ASSUME DBInv, faults < MaxFaults, faults' = faults + 1
    PROVE  faults' \in 0..MaxFaults
BY DBAssumption DEF DBInv, DBTypes

\* A call that returns false with the tables it began with.
LEMMA NothingDone ==
    ASSUME DBInv, ~damaged, ~crashed, op.step # "done",
           ~crashed', op'.step = "done", op'.result = FALSE, before' = before, tables' = before
    PROVE  Sound' /\ Shows
<1>1. PairsOf(before[2]) /\ View = before
  BY InCall
<1>2. FRIEND' = before[2] /\ View' = before
  BY DEF tables, View
<1> QED BY <1>1, <1>2 DEF Sound, Answered, Shows, Whole

\* The actions.  The types and the steps of the calls are kept whatever happens; the rest is
\* about a step that does no damage.
LEMMA CreateInsertStep ==
    ASSUME DBInv, CreateInsert
    PROVE  DBInv' /\ Shows
<1> DEFINE u == op.user
<1>1. ~crashed /\ op.step = "create"
  BY DEF CreateInsert, Statement, Query
<1>2. op.name = "CreateNewAccount" /\ u \in Users /\ op \in OpTypes
  BY <1>1, InCall DEF DBInv, StepsOfCalls
<1>3. /\ Outcome("create", LOGIN \cup {u}, FRIEND, "done", TRUE, "done", FALSE)
      /\ list' = list /\ crashed' = crashed
  <2>1. CASE Return(FALSE) /\ UNCHANGED <<tables, Is_Connect, list, crashed, faults, before, damaged>>
    BY <1>1, <1>2, <2>1, Moves DEF Outcome, tables, DBInv, DBTypes, Return, Handled
  <2>2. CASE Statement("create", LOGIN \cup {u}, FRIEND, Return(TRUE), Return(FALSE))
    BY <1>1, <1>2, <2>2, Moves, OneMoreFault DEF Statement, Query, Outcome, tables, Return
  <2> QED BY <2>1, <2>2 DEF CreateInsert
<1>4. DBTypes'
  <2>1. LOGIN \cup {u} \in SUBSET Users /\ FRIEND \in SUBSET Rows
    BY <1>1, <1>2, InCall
  <2> QED BY <1>3, <2>1, OutcomeTypes
<1>5. StepsOfCalls'
  BY <1>3 DEF Outcome, StepsOfCalls
<1>6. ASSUME ~damaged' PROVE Sound' /\ Shows
  <2>1. /\ ~damaged /\ PairsOf(before[2]) /\ before = <<LOGIN, FRIEND>> /\ View = before
        /\ op'.step = "done" /\ before' = before
    BY <1>1, <1>3, <1>6, InCall DEF Outcome, Progress, tables
  <2>2. CASE op'.result = FALSE
    <3>1. tables' = before
      BY <1>3, <1>6, <2>1, <2>2 DEF Outcome, tables
    <3> QED BY <1>1, <1>3, <2>1, <2>2, <3>1, NothingDone
  <2>3. CASE op'.result = TRUE
    <3>1. LOGIN' = LOGIN \cup {u} /\ FRIEND' = FRIEND /\ op'.name = op.name /\ op'.user = u
      BY <1>3, <2>3 DEF Outcome, SameCall
    <3>2. View'[1] = before[1] \cup {u} /\ View'[2] = before[2]
      BY <2>1, <3>1 DEF View, tables
    <3>3. Shows
      BY <1>2, <2>1, <3>2 DEF Shows, Whole
    <3>4. PairsOf(FRIEND') /\ Answered'
      BY <1>2, <2>1, <2>3, <3>1 DEF Answered
    <3> QED BY <1>1, <1>3, <2>1, <3>3, <3>4 DEF Sound
  <2> QED BY <1>3, <2>2, <2>3 DEF Outcome
<1> QED BY <1>4, <1>5, <1>6 DEF DBInv, Sound, Shows

LEMMA InsertMineStep ==
    ASSUME DBInv, InsertMine
    PROVE  DBInv' /\ Shows
<1> DEFINE u == op.user
           f == op.friend
<1>1. ~crashed /\ op.step = "insert"
  BY DEF InsertMine, Statement, Query
<1>2. op.name = "FriendRequest" /\ f \in Users
  BY <1>1 DEF DBInv, StepsOfCalls
<1>3. /\ Outcome("insert", LOGIN, FRIEND \cup {Row(u, f, 2)}, "insert2", op.result, "done", FALSE)
      /\ list' = list /\ crashed' = crashed
  BY <1>1, InCall, Moves, StepNames, OneMoreFault
     DEF InsertMine, Statement, Query, Outcome, tables, Goto, Return
<1>4. DBTypes'
  <2>1. LOGIN \in SUBSET Users /\ FRIEND \cup {Row(u, f, 2)} \in SUBSET Rows
    BY <1>1, <1>2, InCall, InsertRows
  <2> QED BY <1>3, <2>1, OutcomeTypes
<1>5. StepsOfCalls'
  BY <1>1, <1>2, <1>3, InCall DEF Outcome, SameCall, StepsOfCalls, DBInv
<1>6. ASSUME ~damaged' PROVE Sound' /\ Shows
  <2>1. /\ ~damaged /\ PairsOf(before[2]) /\ tables = before /\ RowsOf(before[2], u, f) = {}
        /\ View = before
    BY <1>1, <1>3, <1>6, InCall DEF Outcome, Progress
  <2>2. CASE op'.step = "insert2"
    <3>1. Progress'
      BY <1>3, <2>1, <2>2 DEF Outcome, SameCall, Progress, tables
    <3> QED BY <1>1, <1>3, <2>1, <2>2, <3>1, InsideStep DEF Outcome, Sound
  <2>3. CASE op'.step = "done"
    <3>1. tables' = before /\ op'.result = FALSE /\ before' = before
      BY <1>3, <1>6, <2>1, <2>3 DEF Outcome, tables
    <3> QED BY <1>1, <1>3, <2>1, <2>3, <3>1, NothingDone
  <2> QED BY <1>3, <2>2, <2>3 DEF Outcome
<1> QED BY <1>4, <1>5, <1>6 DEF DBInv, Sound, Shows

LEMMA InsertTheirsStep ==
    ASSUME DBInv, InsertTheirs
    PROVE  DBInv' /\ Shows
<1> DEFINE u == op.user
           f == op.friend
           L == before[1]
           T == before[2]
<1>1. ~crashed /\ op.step = "insert2"
  BY DEF InsertTheirs, Statement, Query
<1>2. op.name = "FriendRequest" /\ u \in Users /\ f \in Users
  BY <1>1 DEF DBInv, StepsOfCalls
<1>3. /\ Outcome("insert2", LOGIN, FRIEND \cup {Row(f, u, 3)}, "done", TRUE, "undo", op.result)
      /\ list' = list /\ crashed' = crashed
  BY <1>1, InCall, Moves, StepNames, OneMoreFault
     DEF InsertTheirs, Statement, Query, Outcome, tables, Goto, Return
<1>4. DBTypes'
  <2>1. LOGIN \in SUBSET Users /\ FRIEND \cup {Row(f, u, 3)} \in SUBSET Rows
    BY <1>1, <1>2, InCall, RowFields DEF Flags
  <2> QED BY <1>3, <2>1, OutcomeTypes
<1>5. StepsOfCalls'
  BY <1>1, <1>2, <1>3, InCall DEF Outcome, SameCall, StepsOfCalls, DBInv
<1>6. ASSUME ~damaged' PROVE Sound' /\ Shows
  <2>1. /\ ~damaged /\ PairsOf(T) /\ RowsOf(T, u, f) = {} /\ T \in SUBSET Rows
        /\ LOGIN = L /\ FRIEND = T \cup {Row(u, f, 2)} /\ View = before
    BY <1>1, <1>3, <1>6, InCall DEF Outcome, Progress
  <2>2. CASE op'.step = "undo"
    <3>1. Progress'
      BY <1>3, <1>6, <2>1, <2>2 DEF Outcome, SameCall, Progress
    <3> QED BY <1>1, <1>3, <2>1, <2>2, <3>1, InsideStep DEF Outcome, Sound
  <2>3. CASE op'.step = "done"
    <3>1. /\ LOGIN' = L /\ FRIEND' = T \cup {Row(u, f, 2)} \cup {Row(f, u, 3)}
          /\ op'.name = op.name /\ op'.user = u /\ op'.friend = f /\ op'.result = TRUE
          /\ before' = before
      BY <1>3, <2>1, <2>3 DEF Outcome, SameCall
    <3>2. PairsOf(FRIEND')
      BY <1>2, <2>1, <3>1, InsertKeepsPairs
    <3>3. View'[1] = LOGIN' /\ View'[2] = FRIEND'
      BY <2>3 DEF View, tables
    <3>4. Shows
      BY <1>2, <2>1, <3>1, <3>3 DEF Shows, Whole
    <3>5. Row(u, f, 2) \in Of(u, f)' /\ Row(f, u, 3) \in Of(f, u)'
      BY <3>1 DEF Of, Row
    <3>6. Answered'
      BY <1>2, <3>1, <3>5 DEF Answered, Of
    <3> QED BY <1>1, <1>3, <2>1, <2>3, <3>1, <3>2, <3>4, <3>6 DEF Sound
  <2> QED BY <1>3, <2>2, <2>3 DEF Outcome
<1> QED BY <1>4, <1>5, <1>6 DEF DBInv, Sound, Shows

LEMMA UpdateMineStep ==
    ASSUME DBInv, UpdateMine
    PROVE  DBInv' /\ Shows
<1> DEFINE u == op.user
           f == op.friend
           T == before[2]
<1>1. ~crashed /\ op.step = "update"
  BY DEF UpdateMine, Statement, Query
<1>2. op.name = "FriendAccept" /\ u \in Users /\ f \in Users
  BY <1>1 DEF DBInv, StepsOfCalls
<1>3. /\ Outcome("update", LOGIN, WithFlag(FRIEND, u, f), "update2", op.result, "done", FALSE)
      /\ list' = list /\ crashed' = crashed
  <2>1. SetFlag(u, f) = WithFlag(FRIEND, u, f)
    BY DEF SetFlag, WithFlag, Of, RowsOf
  <2> QED BY <1>1, <2>1, InCall, Moves, StepNames, OneMoreFault
             DEF UpdateMine, Statement, Query, Outcome, tables, Goto, Return
<1>4. DBTypes'
  <2>1. LOGIN \in SUBSET Users /\ WithFlag(FRIEND, u, f) \in SUBSET Rows
    BY <1>1, <1>2, InCall, WithFlagRows
  <2> QED BY <1>3, <2>1, OutcomeTypes
<1>5. StepsOfCalls'
  BY <1>1, <1>2, <1>3, InCall DEF Outcome, SameCall, StepsOfCalls, DBInv
<1>6. ASSUME ~damaged' PROVE Sound' /\ Shows
  <2>1. /\ ~damaged /\ PairsOf(T) /\ RowsOf(T, u, f) # {} /\ tables = before /\ View = before
    BY <1>1, <1>3, <1>6, InCall DEF Outcome, Progress
  <2>2. CASE op'.step = "update2"
    <3>1. Progress'
      BY <1>3, <2>1, <2>2 DEF Outcome, SameCall, Progress, tables
    <3> QED BY <1>1, <1>3, <2>1, <2>2, <3>1, InsideStep DEF Outcome, Sound
  <2>3. CASE op'.step = "done"
    <3>1. tables' = before /\ op'.result = FALSE /\ before' = before
      BY <1>3, <1>6, <2>1, <2>3 DEF Outcome, tables
    <3> QED BY <1>1, <1>3, <2>1, <2>3, <3>1, NothingDone
  <2> QED BY <1>3, <2>2, <2>3 DEF Outcome
<1> QED BY <1>4, <1>5, <1>6 DEF DBInv, Sound, Shows

LEMMA UpdateTheirsStep ==
    ASSUME DBInv, UpdateTheirs
    PROVE  DBInv' /\ Shows
<1> DEFINE u == op.user
           f == op.friend
           L == before[1]
           T == before[2]
<1>1. ~crashed /\ op.step = "update2"
  BY DEF UpdateTheirs, Statement, Query
<1>2. op.name = "FriendAccept" /\ u \in Users /\ f \in Users
  BY <1>1 DEF DBInv, StepsOfCalls
<1>3. /\ Outcome("update2", LOGIN, WithFlag(FRIEND, f, u), "done", TRUE, "undo", op.result)
      /\ list' = list /\ crashed' = crashed
  <2>1. SetFlag(f, u) = WithFlag(FRIEND, f, u)
    BY DEF SetFlag, WithFlag, Of, RowsOf
  <2> QED BY <1>1, <2>1, InCall, Moves, StepNames, OneMoreFault
             DEF UpdateTheirs, Statement, Query, Outcome, tables, Goto, Return
<1>4. DBTypes'
  <2>1. LOGIN \in SUBSET Users /\ WithFlag(FRIEND, f, u) \in SUBSET Rows
    BY <1>1, <1>2, InCall, WithFlagRows
  <2> QED BY <1>3, <2>1, OutcomeTypes
<1>5. "update2" \notin Handled
  BY DEF Handled
<1>6. op'.step = "undo" => damaged'
  BY <1>3, <1>5 DEF Outcome
<1>7. StepsOfCalls'
  BY <1>1, <1>2, <1>3, <1>6, InCall DEF Outcome, SameCall, StepsOfCalls, DBInv
<1>8. ASSUME ~damaged' PROVE Sound' /\ Shows
  <2>1. /\ ~damaged /\ PairsOf(T) /\ RowsOf(T, u, f) # {} /\ T \in SUBSET Rows
        /\ LOGIN = L /\ FRIEND = WithFlag(T, u, f) /\ View = before
    BY <1>1, <1>3, <1>8, InCall DEF Outcome, Progress
  <2>2. /\ LOGIN' = L /\ FRIEND' = WithFlag(WithFlag(T, u, f), f, u)
        /\ op'.name = op.name /\ op'.user = u /\ op'.friend = f /\ op'.result = TRUE
        /\ op'.step = "done" /\ before' = before
    BY <1>3, <1>6, <1>8, <2>1 DEF Outcome, SameCall
  <2>3. /\ PairsOf(FRIEND')
        /\ \A x, y \in Users, a \in Flags :
              Row(x, y, a) \in FRIEND'
                 <=> IF (x = u /\ y = f) \/ (x = f /\ y = u) THEN a = 1 ELSE Row(x, y, a) \in T
    BY <1>2, <2>1, <2>2, AcceptKeepsPairs
  <2>4. View'[1] = LOGIN' /\ View'[2] = FRIEND'
    BY <2>2 DEF View, tables
  <2>5. Shows
    BY <1>2, <2>1, <2>2, <2>4 DEF Shows, Whole
  <2>6. Row(u, f, 1) \in FRIEND' /\ Row(f, u, 1) \in FRIEND'
    BY <1>2, <2>3 DEF Flags
  <2>7. Answered'
    BY <1>2, <2>2, <2>6 DEF Answered
  <2> QED BY <1>1, <1>3, <2>1, <2>2, <2>3, <2>5, <2>7 DEF Sound
<1> QED BY <1>4, <1>7, <1>8 DEF DBInv, Sound, Shows

LEMMA DeleteMineStep ==
    ASSUME DBInv, DeleteMine
    PROVE  DBInv' /\ Shows
<1> DEFINE u == op.user
           f == op.friend
           T == before[2]
<1>1. ~crashed /\ op.step = "undo"
  BY DEF DeleteMine, Statement, Query
<1>2. u \in Users /\ f \in Users
  BY <1>1 DEF DBInv, StepsOfCalls
<1>3. /\ Outcome("undo", LOGIN, FRIEND \ RowsOf(FRIEND, u, f), "done", FALSE, "done", FALSE)
      /\ list' = list /\ crashed' = crashed
  <2>1. Of(u, f) = RowsOf(FRIEND, u, f)
    BY DEF Of, RowsOf
  <2> QED BY <1>1, <2>1, InCall, Moves, StepNames, OneMoreFault
             DEF DeleteMine, Statement, Query, Outcome, tables, Return
<1>4. DBTypes'
  <2>1. LOGIN \in SUBSET Users /\ FRIEND \ RowsOf(FRIEND, u, f) \in SUBSET Rows
    BY <1>1, InCall
  <2> QED BY <1>3, <2>1, OutcomeTypes
<1>5. StepsOfCalls'
  BY <1>3 DEF Outcome, StepsOfCalls
<1>6. ASSUME ~damaged' PROVE Sound' /\ Shows
  <2>1. /\ ~damaged /\ RowsOf(T, u, f) = {} /\ T \in SUBSET Rows /\ before = <<LOGIN, T>>
        /\ FRIEND = T \cup {Row(u, f, 2)}
    BY <1>1, <1>3, <1>6, InCall DEF Outcome, Progress
  <2>2. LOGIN' = LOGIN /\ FRIEND' = FRIEND \ RowsOf(FRIEND, u, f)
    BY <1>3, <1>6 DEF Outcome, Handled
  <2>3. FRIEND' = T
    BY <1>2, <2>1, <2>2, UndoInsert
  <2>4. tables' = before
    BY <2>1, <2>2, <2>3 DEF tables
  <2> QED BY <1>1, <1>3, <2>1, <2>4, NothingDone DEF Outcome
<1> QED BY <1>4, <1>5, <1>6 DEF DBInv, Sound, Shows

LEMMA DeleteLoginStep ==
    ASSUME DBInv, DeleteLogin
    PROVE  DBInv' /\ Shows
<1> DEFINE u == op.user
<1>1. ~crashed /\ op.step = "login"
  BY DEF DeleteLogin, Statement, Query
<1>2. op.name = "DeleteAccount"
  BY <1>1 DEF DBInv, StepsOfCalls
<1>3. /\ Outcome("login", LOGIN \ {u}, FRIEND, "delete", op.result, "delete", op.result)
      /\ list' = list /\ crashed' = crashed
  BY <1>1, InCall, Moves, StepNames, OneMoreFault
     DEF DeleteLogin, Statement, Query, Outcome, tables, Goto
<1>4. DBTypes'
  <2>1. LOGIN \ {u} \in SUBSET Users /\ FRIEND \in SUBSET Rows
    BY <1>1, InCall
  <2> QED BY <1>3, <2>1, OutcomeTypes
<1>5. StepsOfCalls'
  BY <1>1, <1>2, <1>3, InCall DEF Outcome, SameCall, StepsOfCalls
<1>6. ASSUME ~damaged' PROVE Sound' /\ Shows
  <2>1. ~damaged /\ PairsOf(before[2]) /\ tables = before
    BY <1>1, <1>3, <1>6, InCall DEF Outcome, Progress
  <2>2. LOGIN' = LOGIN \ {u} /\ FRIEND' = FRIEND /\ op'.step = "delete"
    BY <1>3, <1>6 DEF Outcome, Handled
  <2>3. Progress'
    BY <1>2, <1>3, <2>1, <2>2 DEF Outcome, SameCall, Progress, tables
  <2> QED BY <1>1, <1>3, <2>1, <2>2, <2>3, InsideStep DEF Outcome, Sound
<1> QED BY <1>4, <1>5, <1>6 DEF DBInv, Sound, Shows

LEMMA DeleteByUserStep ==
    ASSUME DBInv, DeleteByUser
    PROVE  DBInv' /\ Shows
<1> DEFINE u == op.user
<1>1. ~crashed /\ op.step = "delete"
  BY DEF DeleteByUser, Statement, Query
<1>2. op.name \in {"FriendRefuse", "DeleteAccount"} /\ u \in Users
  BY <1>1 DEF DBInv, StepsOfCalls
<1>3. /\ Outcome("delete", LOGIN, NotBy(FRIEND, u), "delete2", op.result, "delete2", op.result)
      /\ list' = list /\ crashed' = crashed
  BY <1>1, InCall, Moves, StepNames, OneMoreFault
     DEF DeleteByUser, Statement, Query, Outcome, tables, Goto, NotBy
<1>4. DBTypes'
  <2>1. LOGIN \in SUBSET Users /\ NotBy(FRIEND, u) \in SUBSET Rows
    BY <1>1, <1>2, InCall, WithoutRows
  <2> QED BY <1>3, <2>1, OutcomeTypes
<1>5. StepsOfCalls'
  BY <1>1, <1>2, <1>3, InCall DEF Outcome, SameCall, StepsOfCalls
<1>6. ASSUME ~damaged' PROVE Sound' /\ Shows
  <2>1. /\ ~damaged /\ PairsOf(before[2]) /\ FRIEND = before[2]
        /\ LOGIN = IF op.name = "DeleteAccount" THEN before[1] \ {u} ELSE before[1]
    BY <1>1, <1>3, <1>6, InCall DEF Outcome, Progress
  <2>2. LOGIN' = LOGIN /\ FRIEND' = NotBy(FRIEND, u) /\ op'.step = "delete2"
    BY <1>3, <1>6 DEF Outcome, Handled
  <2>3. Progress'
    BY <1>2, <1>3, <2>1, <2>2 DEF Outcome, SameCall, Progress
  <2> QED BY <1>1, <1>3, <2>1, <2>2, <2>3, InsideStep DEF Outcome, Sound
<1> QED BY <1>4, <1>5, <1>6 DEF DBInv, Sound, Shows

LEMMA DeleteByFriendStep ==
    ASSUME DBInv, DeleteByFriend
    PROVE  DBInv' /\ Shows
<1> DEFINE u == op.user
           L == before[1]
           T == before[2]
<1>1. ~crashed /\ op.step = "delete2"
  BY DEF DeleteByFriend, Statement, Query
<1>2. op.name \in {"FriendRefuse", "DeleteAccount"} /\ u \in Users
  BY <1>1 DEF DBInv, StepsOfCalls
<1>3. /\ Outcome("delete2", LOGIN, {r \in FRIEND : r.FRIENDID # u}, "done", TRUE, "done", TRUE)
      /\ list' = list /\ crashed' = crashed
  BY <1>1, InCall, Moves, StepNames, OneMoreFault
     DEF DeleteByFriend, Statement, Query, Outcome, tables, Return
<1>4. DBTypes'
  <2>1. LOGIN \in SUBSET Users /\ {r \in FRIEND : r.FRIENDID # u} \in SUBSET Rows
    BY <1>1, InCall
  <2> QED BY <1>3, <2>1, OutcomeTypes
<1>5. StepsOfCalls'
  BY <1>3 DEF Outcome, StepsOfCalls
<1>6. ASSUME ~damaged' PROVE Sound' /\ Shows
  <2>1. /\ ~damaged /\ PairsOf(T) /\ T \in SUBSET Rows /\ FRIEND = NotBy(T, u)
        /\ LOGIN = IF op.name = "DeleteAccount" THEN L \ {u} ELSE L
        /\ View = before
    BY <1>1, <1>3, <1>6, InCall DEF Outcome, Progress
  <2>2. /\ LOGIN' = LOGIN /\ FRIEND' = {r \in FRIEND : r.FRIENDID # u}
        /\ op'.step = "done" /\ op'.result = TRUE /\ op'.name = op.name /\ op'.user = u
        /\ before' = before
    BY <1>3, <1>6 DEF Outcome, Handled, SameCall
  <2>3. FRIEND' = Without(T, u)
    BY <2>1, <2>2 DEF Without
  <2>4. PairsOf(FRIEND') /\ \A r \in FRIEND' : u \notin {r.USERID, r.FRIENDID}
    BY <1>2, <2>1, <2>3, ForgetKeepsPairs, WithoutRows
  <2>5. View'[1] = LOGIN' /\ View'[2] = FRIEND'
    BY <2>2 DEF View, tables
  <2>6. Shows
    BY <1>2, <2>1, <2>2, <2>3, <2>5 DEF Shows, Whole
  <2>7. Answered'
    BY <1>2, <2>2, <2>4 DEF Answered
  <2> QED BY <1>1, <1>3, <2>1, <2>2, <2>4, <2>6, <2>7 DEF Sound
<1> QED BY <1>4, <1>5, <1>6 DEF DBInv, Sound, Shows

LEMMA FindStep ==
    ASSUME DBInv, Find
    PROVE  DBInv' /\ Shows
<1> DEFINE u == op.user
           f == op.friend
           T == before[2]
           Rq == op.name = "FriendRequest"
           Ac == op.name = "FriendAccept"
           None == RowsOf(FRIEND, u, f) = {}
<1>1. ~crashed /\ op.step = "find" /\ (Rq \/ Ac)
  BY DEF Find, Query
<1>2. u \in Users /\ f \in Users /\ op \in OpTypes /\ damaged \in BOOLEAN /\ faults \in 0..MaxFaults
  BY <1>1, InCall DEF DBInv, StepsOfCalls, DBTypes
<1>3. /\ LOGIN' = LOGIN /\ FRIEND' = FRIEND /\ Is_Connect' = Is_Connect /\ before' = before
      /\ list' = list /\ damaged' = damaged
      /\ \/ /\ faults < MaxFaults /\ faults' = faults + 1 /\ crashed' = TRUE /\ op' = op
         \/ /\ faults' = faults /\ crashed' = FALSE
            /\ \/ Rq /\ None /\ Goto("insert")
               \/ Rq /\ ~None /\ Return(TRUE)
               \/ Ac /\ None /\ Return(FALSE)
               \/ Ac /\ ~None /\ Goto("update")
  <2>1. Of(u, f) = RowsOf(FRIEND, u, f)
    BY DEF Of, RowsOf
  <2>2. faults + 1 # faults
    BY <1>2, DBAssumption
  <2>3. "find" \in Handled
    BY DEF Handled
  <2> QED BY <1>1, <1>2, <2>1, <2>2, <2>3 DEF Find, Query, tables
<1>4. /\ op' \in OpTypes /\ SameCall
      /\ \/ crashed' = TRUE /\ op' = op
         \/ /\ crashed' = FALSE
            /\ \/ Rq /\ None /\ op'.step = "insert"
               \/ Rq /\ ~None /\ op'.step = "done" /\ op'.result = TRUE
               \/ Ac /\ None /\ op'.step = "done" /\ op'.result = FALSE
               \/ Ac /\ ~None /\ op'.step = "update"
  BY <1>2, <1>3, Moves, StepNames DEF SameCall
<1>5. DBTypes'
  <2>1. faults' \in 0..MaxFaults /\ crashed' \in BOOLEAN
    BY <1>2, <1>3, OneMoreFault
  <2> QED BY <1>3, <1>4, <2>1, QueryTypes DEF DBInv, DBTypes
<1>6. StepsOfCalls'
  BY <1>1, <1>2, <1>3, <1>4, InCall DEF SameCall, StepsOfCalls
<1>7. ASSUME ~damaged' PROVE Sound' /\ Shows
  <2>1. /\ ~damaged /\ PairsOf(T) /\ tables = before /\ View = before /\ tables' = before
        /\ FRIEND = T /\ FRIEND' = T /\ T \in SUBSET Rows
    BY <1>1, <1>3, <1>7, InCall DEF Progress, tables
  <2>2. CASE crashed' = TRUE
    BY <1>1, <1>3, <1>4, <2>1, <2>2, InsideStep DEF Sound
  <2>3. CASE crashed' = FALSE /\ op'.step \in {"insert", "update"}
    <3>1. Progress'
      BY <1>1, <1>3, <1>4, <2>1, <2>3 DEF Progress, SameCall
    <3> QED BY <1>1, <1>3, <2>1, <2>3, <3>1, InsideStep DEF Sound
  <2>4. CASE crashed' = FALSE /\ op'.step = "done" /\ op'.result = FALSE
    BY <1>1, <1>3, <2>1, <2>4, NothingDone
  <2>5. CASE crashed' = FALSE /\ op'.step = "done" /\ op'.result = TRUE
    <3>1. Rq /\ RowsOf(T, u, f) # {}
      BY <1>1, <1>4, <2>1, <2>5
    <3>2. RowsOf(T, f, u) # {}
      BY <1>2, <2>1, <3>1, BothSides
    <3>3. op'.name = "FriendRequest" /\ op'.user = u /\ op'.friend = f
      BY <1>4, <3>1 DEF SameCall
    <3>4. Answered'
      BY <2>1, <2>5, <3>1, <3>2, <3>3 DEF Answered, Of, RowsOf
    <3>5. Shows
      BY <2>1, <2>5 DEF Shows, Whole, View
    <3> QED BY <1>3, <2>1, <2>5, <3>4, <3>5 DEF Sound
  <2> QED BY <1>4, <2>2, <2>3, <2>4, <2>5
<1> QED BY <1>5, <1>6, <1>7 DEF DBInv, Sound, Shows

LEMMA FetchListStep ==
    ASSUME DBInv, FetchList
    PROVE  DBInv' /\ Shows
<1> DEFINE u == op.user
           T == before[2]
           With(a) == {f \in Users : Row(u, f, a) \in FRIEND}
           Fetched == [of |-> u, Friend_List |-> With(1), Friend_Request_List |-> With(3)]
<1>1. ~crashed /\ op.step = "list"
  BY DEF FetchList, Query
<1>2. op.name = "GetFriendList"
  BY <1>1 DEF DBInv, StepsOfCalls
<1>3. u \in Users /\ op \in OpTypes /\ damaged \in BOOLEAN /\ faults \in 0..MaxFaults
  BY <1>1, InCall DEF DBInv, DBTypes
<1>4. /\ LOGIN' = LOGIN /\ FRIEND' = FRIEND /\ Is_Connect' = Is_Connect /\ before' = before
      /\ crashed' = crashed /\ damaged' = damaged
      /\ \/ faults' = faults /\ Return(TRUE) /\ list' = Fetched
         \/ faults < MaxFaults /\ faults' = faults + 1 /\ Return(FALSE) /\ list' = list
  <2>1. faults + 1 # faults
    BY <1>3, DBAssumption
  <2>2. "list" \in Handled
    BY DEF Handled
  <2> QED BY <1>1, <1>3, <2>1, <2>2 DEF FetchList, Query, tables
<1>5. /\ op' \in OpTypes /\ SameCall /\ op'.step = "done"
      /\ \/ op'.result = TRUE /\ list' = Fetched
         \/ op'.result = FALSE
  BY <1>3, <1>4, Moves
<1>6. DBTypes'
  <2>1. faults' \in 0..MaxFaults
    BY <1>3, <1>4, OneMoreFault
  <2>2. list' \in [of : Users \cup {Nobody}, Friend_List : SUBSET Users,
                   Friend_Request_List : SUBSET Users]
    <3>1. With(1) \in SUBSET Users /\ With(3) \in SUBSET Users
      OBVIOUS
    <3> HIDE DEF With
    <3>2. CASE list' = Fetched
      BY <1>3, <3>1, <3>2
    <3>3. CASE list' = list
      BY <3>3 DEF DBInv, DBTypes
    <3> QED BY <1>4, <3>2, <3>3
  <2> QED BY <1>4, <1>5, <2>1, <2>2, QueryTypes DEF DBInv, DBTypes
<1>7. StepsOfCalls'
  BY <1>5 DEF StepsOfCalls
<1>8. ASSUME ~damaged' PROVE Sound' /\ Shows
  <2>1. /\ ~damaged /\ PairsOf(T) /\ View = before /\ tables' = before /\ FRIEND = T
    BY <1>1, <1>4, <1>8, InCall DEF Progress, tables
  <2>2. CASE op'.result = FALSE
    BY <1>1, <1>4, <1>5, <2>1, <2>2, NothingDone
  <2>3. CASE op'.result = TRUE
    <3>1. /\ list'.Friend_List = {f \in Users : Row(f, u, 1) \in FRIEND}
          /\ list'.Friend_Request_List = {f \in Users : Row(f, u, 2) \in FRIEND}
      BY <1>3, <1>5, <2>1, <2>3 DEF PairsOf
    <3>2. Answered'
      BY <1>2, <1>4, <1>5, <2>1, <2>3, <3>1 DEF Answered, SameCall
    <3>3. Shows
      BY <1>5, <2>1 DEF Shows, Whole, View
    <3> QED BY <1>1, <1>4, <1>5, <2>1, <3>2, <3>3 DEF Sound
  <2> QED BY <1>5, <2>2, <2>3
<1> QED BY <1>6, <1>7, <1>8 DEF DBInv, Sound, Shows

LEMMA CrashStep ==
    ASSUME DBInv, Crash
    PROVE  DBInv' /\ Shows
<1>1. /\ ~crashed /\ op.step # "done" /\ crashed' = TRUE
      /\ damaged' = (damaged \/ tables # before)
      /\ LOGIN' = LOGIN /\ FRIEND' = FRIEND /\ tables' = tables
      /\ UNCHANGED <<Is_Connect, op, list, before>>
  BY DEF Crash, tables
<1>2. faults' \in 0..MaxFaults
  BY OneMoreFault DEF Crash
<1>3. DBTypes'
  BY <1>1, <1>2 DEF DBInv, DBTypes
<1>4. StepsOfCalls'
  BY <1>1 DEF DBInv, StepsOfCalls
<1>5. Sound'
  BY <1>1 DEF DBInv, Sound
<1>6. Shows
  BY <1>1, InsideStep
<1> QED BY <1>3, <1>4, <1>5, <1>6 DEF DBInv

LEMMA RestartStep ==
    ASSUME DBInv, Restart
    PROVE  DBInv' /\ Shows
<1>1. /\ crashed /\ crashed' = FALSE /\ Is_Connect' = FALSE /\ op' = NoCall
      /\ LOGIN' = LOGIN /\ FRIEND' = FRIEND /\ tables' = tables
      /\ UNCHANGED <<list, faults, before, damaged>>
  BY DEF Restart, tables
<1>2. op' \in OpTypes /\ op'.step = "done"
  BY <1>1, StepNames DEF NoCall, OpTypes, CallNames
<1>3. DBTypes'
  BY <1>1, <1>2 DEF DBInv, DBTypes, OpTypes
<1>4. StepsOfCalls'
  BY <1>2 DEF StepsOfCalls
<1>5. ASSUME ~damaged PROVE PairsOf(FRIEND) /\ View = tables
  <2>1. PairsOf(before[2]) /\ tables = before
    BY <1>1, <1>5 DEF DBInv, Sound
  <2> QED BY <2>1 DEF View, tables
<1>6. Sound'
  BY <1>1, <1>2, <1>5 DEF DBInv, Sound, Answered
<1>7. View' = tables
  BY <1>1, <1>2 DEF View
<1>8. Shows
  BY <1>1, <1>5, <1>7 DEF Shows, Whole
<1> QED BY <1>3, <1>4, <1>6, <1>8 DEF DBInv

\* A call, with the first step it has.
LEMMA CallStep ==
    ASSUME DBInv, NEW name, NEW u \in Users, NEW f \in Users \cup {Nobody}, NEW first,
           Call(name, u, f, first),
           \/ first = "find" /\ name \in {"FriendRequest", "FriendAccept"} /\ f \in Users
           \/ first = "create" /\ name = "CreateNewAccount"
           \/ first = "list" /\ name = "GetFriendList"
           \/ first = "login" /\ name = "DeleteAccount"
           \/ first = "delete" /\ name = "FriendRefuse"
    PROVE  DBInv' /\ Shows
<1>1. Ready /\ UNCHANGED <<tables, crashed, faults, damaged>> /\ Is_Connect' = Is_Connect
  BY DEF Call
<1>2. Is_Connect \in BOOLEAN /\ name \in CallNames /\ first \in Steps /\ "done" \in Steps
  BY StepNames DEF DBInv, DBTypes, CallNames
<1>3. PICK step, result :
         /\ Called(name, u, f, step, result) /\ result \in BOOLEAN
         /\ (step = first /\ Is_Connect) \/ (step = "done" /\ ~Is_Connect)
  <2>1. CASE Is_Connect /\ Called(name, u, f, first, FALSE)
    BY <2>1
  <2>2. CASE /\ ~Is_Connect
             /\ \E result \in IF name \in {"FriendAccept", "FriendRefuse"}
                                 THEN {TRUE} ELSE BOOLEAN :
                   Called(name, u, f, "done", result)
    BY <2>2
  <2> QED BY <2>1, <2>2 DEF Call
<1>4. op' = [name |-> name, user |-> u, friend |-> f, step |-> step, result |-> result]
  BY <1>3 DEF Called
<1>5. StepsOfCalls'
  BY <1>1, <1>3, <1>4 DEF StepsOfCalls
<1>6. /\ step \in {"find", "create", "list", "login", "delete", "done"} /\ step \in Steps
      /\ step = "delete" => name = "FriendRefuse"
      /\ step = "done" => ~Is_Connect'
  BY <1>1, <1>2, <1>3
<1> QED BY <1>1, <1>2, <1>3, <1>5, <1>6, CalledStep

LEMMA ConnectStep ==
    ASSUME DBInv, ConnectDB
    PROVE  DBInv' /\ Shows
<1>1. Ready /\ UNCHANGED <<tables, crashed, faults, damaged>>
  BY DEF ConnectDB
<1>2. PICK ok \in BOOLEAN : /\ Called("ConnectDB", Nobody, Nobody, "done", ok)
                            /\ Is_Connect' = (Is_Connect \/ ok)
  BY DEF ConnectDB
<1>3. Is_Connect' \in BOOLEAN
  BY <1>2
<1>4. op'.step = "done"
  BY <1>2 DEF Called
<1>5. StepsOfCalls'
  BY <1>4 DEF StepsOfCalls
<1>6. "ConnectDB" \in CallNames /\ "done" \in Steps
  BY StepNames DEF CallNames
<1> QED BY <1>1, <1>2, <1>3, <1>5, <1>6, CalledStep

\* Every step keeps the invariant and shows one whole operation or nothing.
LEMMA NextStep ==
    ASSUME DBInv, [Next]_vars
    PROVE  DBInv' /\ (Shows \/ UNCHANGED vars)
<1>1. CASE UNCHANGED vars
  BY <1>1 DEF vars, tables, DBInv, DBTypes, StepsOfCalls, Sound, Progress, Answered, Of
<1>2. ASSUME NEW u \in Users, NEW f \in Users,
             FriendRequest(u, f) \/ FriendAccept(u, f) \/ FriendRefuse(u, f)
      PROVE  DBInv' /\ Shows
  BY <1>2, CallStep DEF FriendRequest, FriendAccept, FriendRefuse
<1>3. ASSUME NEW u \in Users, CreateNewAccount(u) \/ DeleteAccount(u) \/ GetFriendList(u)
      PROVE  DBInv' /\ Shows
  BY <1>3, CallStep DEF CreateNewAccount, DeleteAccount, GetFriendList
<1> QED BY <1>1, <1>2, <1>3, ConnectStep, CreateInsertStep, FindStep, InsertMineStep,
           InsertTheirsStep, UpdateMineStep, UpdateTheirsStep, DeleteMineStep, DeleteLoginStep,
           DeleteByUserStep, DeleteByFriendStep, FetchListStep, CrashStep, RestartStep
        DEF Next

\* The inductive invariant of the queries: what each statement of a call in progress has
\* done to the tables it began with, and what the tables satisfy before any damage.
THEOREM DBInvariant == Spec => []DBInv
<1>1. DBInv /\ [Next]_vars => DBInv'
  BY NextStep
<1> QED BY InitDBInv, <1>1, PTL DEF Spec

\* Between calls a request and a friendship are there on both sides, however the inserts of
\* FriendRequest fared, for any users and any number of faults.
THEOREM DBPaired == Spec => []Paired
<1>1. DBInv => Paired
  BY DEF DBInv, Sound, Paired, Quiet, Pairs, PairsOf
<1> QED BY <1>1, DBInvariant, PTL

\* What a call returns is true of the tables it leaves.
THEOREM DBAnswerIsTrue == Spec => []AnswerIsTrue
<1>1. DBInv => AnswerIsTrue
  BY DEF DBInv, Sound, Answered, AnswerIsTrue, Quiet
<1> QED BY <1>1, DBInvariant, PTL

-----------------------------------------------------------------------------
(* Friendship.  The requests and the friends that a table shows.           *)

AsksOf(T) == {p \in Users \X Users : Row(p[1], p[2], 2) \in T}
FriendsOf(T) == {{r.USERID, r.FRIENDID} : r \in {v \in T : v.ACCEPTFLAG = 1}}

LEMMA AsksMember ==
    ASSUME NEW T, NEW x \in Users, NEW y \in Users
    PROVE  <<x, y>> \in AsksOf(T) <=> Row(x, y, 2) \in T
BY DEF AsksOf

\* Two sets of pairs are equal when they have the same pairs.
LEMMA SamePairs ==
    ASSUME NEW A \in SUBSET (Users \X Users), NEW B \in SUBSET (Users \X Users),
           \A x, y \in Users : <<x, y>> \in A <=> <<x, y>> \in B
    PROVE  A = B
OBVIOUS

LEMMA FriendsMember ==
    ASSUME NEW T \in SUBSET Rows, NEW p
    PROVE  p \in FriendsOf(T) <=> \E x, y \in Users : p = {x, y} /\ Row(x, y, 1) \in T
<1>1. ASSUME p \in FriendsOf(T) PROVE \E x, y \in Users : p = {x, y} /\ Row(x, y, 1) \in T
  <2>1. PICK r \in T : r.ACCEPTFLAG = 1 /\ p = {r.USERID, r.FRIENDID}
    BY <1>1 DEF FriendsOf
  <2> QED BY <2>1, RowForm
<1>2. ASSUME NEW x \in Users, NEW y \in Users, p = {x, y}, Row(x, y, 1) \in T
      PROVE  p \in FriendsOf(T)
  BY <1>2 DEF FriendsOf, Row
<1> QED BY <1>1, <1>2

\* With the pairs kept, a friendship is a row of either one.
LEMMA FriendsPair ==
    ASSUME NEW T \in SUBSET Rows, PairsOf(T), NEW u \in Users, NEW f \in Users
    PROVE  {u, f} \in FriendsOf(T) <=> Row(u, f, 1) \in T
<1>1. ASSUME NEW x \in Users, NEW y \in Users, {u, f} = {x, y}
      PROVE  (x = u /\ y = f) \/ (x = f /\ y = u)
  BY <1>1
<1> QED BY <1>1, FriendsMember DEF PairsOf

\* Friendship's steps, over tables.
LEMMA AskShown ==
    ASSUME NEW T \in SUBSET Rows, PairsOf(T), NEW u \in Users, NEW f \in Users,
           RowsOf(T, u, f) = {},
           NEW U, U = T \cup {Row(u, f, 2)} \cup {Row(f, u, 3)}
    PROVE  /\ <<u, f>> \notin AsksOf(T) /\ <<f, u>> \notin AsksOf(T) /\ {u, f} \notin FriendsOf(T)
           /\ AsksOf(U) = AsksOf(T) \cup {<<u, f>>}
           /\ FriendsOf(U) = FriendsOf(T)
<1>1. \A a \in Flags : Row(u, f, a) \notin T
  BY RowsOfEmpty
<1>2. 1 \in Flags /\ 2 \in Flags /\ 3 \in Flags
  BY DEF Flags
<1>3. /\ U \in SUBSET Rows
      /\ \A x, y \in Users, a \in Flags :
            Row(x, y, a) \in U <=> \/ Row(x, y, a) \in T
                                   \/ x = u /\ y = f /\ a = 2
                                   \/ x = f /\ y = u /\ a = 3
  BY InsertRows
<1>4. Row(f, u, 2) \notin T
  BY <1>1, <1>2 DEF PairsOf
<1>5. /\ <<u, f>> \notin AsksOf(T) /\ <<f, u>> \notin AsksOf(T) /\ {u, f} \notin FriendsOf(T)
  BY <1>1, <1>2, <1>4, AsksMember, FriendsPair
<1>6. AsksOf(U) = AsksOf(T) \cup {<<u, f>>}
  <2>1. ASSUME NEW x \in Users, NEW y \in Users
        PROVE  <<x, y>> \in AsksOf(U) <=> <<x, y>> \in AsksOf(T) \cup {<<u, f>>}
    <3>1. Row(x, y, 2) \in U <=> Row(x, y, 2) \in T \/ (x = u /\ y = f)
      BY <1>2, <1>3
    <3>2. /\ <<x, y>> \in AsksOf(U) <=> Row(x, y, 2) \in U
          /\ <<x, y>> \in AsksOf(T) <=> Row(x, y, 2) \in T
      BY AsksMember
    <3> QED BY <3>1, <3>2
  <2>2. AsksOf(U) \in SUBSET (Users \X Users) /\ AsksOf(T) \cup {<<u, f>>} \in SUBSET (Users \X Users)
    BY DEF AsksOf
  <2> QED BY <2>1, <2>2, SamePairs
<1>7. FriendsOf(U) = FriendsOf(T)
  <2>1. \A x, y \in Users : Row(x, y, 1) \in U <=> Row(x, y, 1) \in T
    BY <1>2, <1>3
  <2>2. \A p : p \in FriendsOf(U) <=> \E x, y \in Users : p = {x, y} /\ Row(x, y, 1) \in U
    BY <1>3, FriendsMember
  <2>3. \A p : p \in FriendsOf(T) <=> \E x, y \in Users : p = {x, y} /\ Row(x, y, 1) \in T
    BY FriendsMember
  <2>4. \A p : p \in FriendsOf(U) <=> p \in FriendsOf(T)
    BY <2>1, <2>2, <2>3
  <2> QED BY <2>4
<1> QED BY <1>5, <1>6, <1>7

LEMMA BefriendShown ==
    ASSUME NEW T \in SUBSET Rows, PairsOf(T), NEW u \in Users, NEW f \in Users,
           RowsOf(T, u, f) # {},
           NEW U, U = WithFlag(WithFlag(T, u, f), f, u)
    PROVE  /\ <<u, f>> \in AsksOf(T) \/ <<f, u>> \in AsksOf(T) \/ {u, f} \in FriendsOf(T)
           /\ AsksOf(U) = AsksOf(T) \ {<<u, f>>, <<f, u>>}
           /\ FriendsOf(U) = FriendsOf(T) \cup {{u, f}}
<1>1. PICK a \in Flags : Row(u, f, a) \in T
  BY RowsOfEmpty
<1>2. a = 1 \/ a = 2 \/ a = 3
  BY DEF Flags
<1>3. 1 \in Flags /\ 2 \in Flags /\ 3 \in Flags
  BY DEF Flags
<1>4. /\ U \in SUBSET Rows
      /\ \A x, y \in Users, b \in Flags :
            Row(x, y, b) \in U
               <=> IF (x = u /\ y = f) \/ (x = f /\ y = u) THEN b = 1 ELSE Row(x, y, b) \in T
  BY AcceptKeepsPairs
<1>5. <<u, f>> \in AsksOf(T) \/ <<f, u>> \in AsksOf(T) \/ {u, f} \in FriendsOf(T)
  BY <1>1, <1>2, AsksMember, FriendsPair DEF PairsOf
<1>6. AsksOf(U) = AsksOf(T) \ {<<u, f>>, <<f, u>>}
  <2>1. ASSUME NEW x \in Users, NEW y \in Users
        PROVE  <<x, y>> \in AsksOf(U) <=> <<x, y>> \in AsksOf(T) \ {<<u, f>>, <<f, u>>}
    <3>1. Row(x, y, 2) \in U
             <=> Row(x, y, 2) \in T /\ ~((x = u /\ y = f) \/ (x = f /\ y = u))
      BY <1>3, <1>4
    <3>2. /\ <<x, y>> \in AsksOf(U) <=> Row(x, y, 2) \in U
          /\ <<x, y>> \in AsksOf(T) <=> Row(x, y, 2) \in T
      BY AsksMember
    <3> QED BY <3>1, <3>2
  <2>2. /\ AsksOf(U) \in SUBSET (Users \X Users)
        /\ AsksOf(T) \ {<<u, f>>, <<f, u>>} \in SUBSET (Users \X Users)
    BY DEF AsksOf
  <2> QED BY <2>1, <2>2, SamePairs
<1>7. FriendsOf(U) = FriendsOf(T) \cup {{u, f}}
  <2>1. \A x, y \in Users :
           Row(x, y, 1) \in U
              <=> (x = u /\ y = f) \/ (x = f /\ y = u) \/ Row(x, y, 1) \in T
    BY <1>3, <1>4
  <2>2. ASSUME NEW p \in FriendsOf(U) PROVE p \in FriendsOf(T) \cup {{u, f}}
    <3>1. PICK x, y \in Users : p = {x, y} /\ Row(x, y, 1) \in U
      BY <1>4, FriendsMember
    <3> QED BY <2>1, <3>1, FriendsMember
  <2>3. ASSUME NEW p \in FriendsOf(T) PROVE p \in FriendsOf(U)
    <3>1. PICK x, y \in Users : p = {x, y} /\ Row(x, y, 1) \in T
      BY FriendsMember
    <3> QED BY <1>4, <2>1, <3>1, FriendsMember
  <2>4. {u, f} \in FriendsOf(U)
    BY <1>4, <2>1, FriendsMember
  <2> QED BY <2>2, <2>3, <2>4
<1> QED BY <1>5, <1>6, <1>7

LEMMA ForgetShown ==
    ASSUME NEW T \in SUBSET Rows, NEW u \in Users, NEW U, U = Without(T, u)
    PROVE  /\ AsksOf(U) = {a \in AsksOf(T) : u \notin {a[1], a[2]}}
           /\ FriendsOf(U) = {p \in FriendsOf(T) : u \notin p}
<1>1. 1 \in Flags /\ 2 \in Flags
  BY DEF Flags
<1>2. /\ U \in SUBSET Rows
      /\ \A x, y \in Users, a \in Flags : Row(x, y, a) \in U <=> Row(x, y, a) \in T /\ x # u /\ y # u
  BY WithoutRows
<1>3. AsksOf(U) = {a \in AsksOf(T) : u \notin {a[1], a[2]}}
  <2>1. \A x, y \in Users :
           <<x, y>> \in AsksOf(U) <=> <<x, y>> \in {a \in AsksOf(T) : u \notin {a[1], a[2]}}
    BY <1>1, <1>2, AsksMember
  <2>2. /\ AsksOf(U) \in SUBSET (Users \X Users)
        /\ {a \in AsksOf(T) : u \notin {a[1], a[2]}} \in SUBSET (Users \X Users)
    BY DEF AsksOf
  <2> QED BY <2>1, <2>2, SamePairs
<1>4. FriendsOf(U) = {p \in FriendsOf(T) : u \notin p}
  <2>1. ASSUME NEW p \in FriendsOf(U) PROVE p \in FriendsOf(T) /\ u \notin p
    <3>1. PICK x, y \in Users : p = {x, y} /\ Row(x, y, 1) \in U
      BY <1>2, FriendsMember
    <3> QED BY <1>1, <1>2, <3>1, FriendsMember
  <2>2. ASSUME NEW p \in FriendsOf(T), u \notin p PROVE p \in FriendsOf(U)
    <3>1. PICK x, y \in Users : p = {x, y} /\ Row(x, y, 1) \in T
      BY FriendsMember
    <3> QED BY <1>1, <1>2, <2>2, <3>1, FriendsMember
  <2> QED BY <2>1, <2>2
<1> QED BY <1>3, <1>4

ViewOK ==
    /\ View[1] \in SUBSET Users /\ View[2] \in SUBSET Rows
    /\ ~damaged => PairsOf(View[2])

LEMMA ViewTypes == DBInv => ViewOK
<1> SUFFICES ASSUME DBInv PROVE ViewOK
    OBVIOUS
<1>1. /\ LOGIN \in SUBSET Users /\ FRIEND \in SUBSET Rows
      /\ before[1] \in SUBSET Users /\ before[2] \in SUBSET Rows
      /\ View[1] \in {LOGIN, before[1]} /\ View[2] \in {FRIEND, before[2]}
      /\ op.step = "done" => View[2] = FRIEND
      /\ op.step # "done" => View[2] = before[2]
  BY DEF DBInv, DBTypes, View, tables
<1>2. ~damaged => PairsOf(before[2]) /\ (op.step = "done" => PairsOf(FRIEND))
  <2>1. tables = before => FRIEND = before[2]
    BY DEF tables
  <2> QED BY <2>1 DEF DBInv, Sound
<1> QED BY <1>1, <1>2 DEF ViewOK

LEMMA AbstractTypes ==
    ASSUME NEW T \in SUBSET Rows
    PROVE  AsksOf(T) \subseteq Users \X Users /\ FriendsOf(T) \subseteq SUBSET Users
BY FriendsMember DEF AsksOf

fvars == <<View[1], {p \in Users \X Users : Row(p[1], p[2], 2) \in View[2]},
           {{r.USERID, r.FRIENDID} : r \in {v \in View[2] : v.ACCEPTFLAG = 1}}, damaged>>

\* A step of the queries is a step of Friendship or shows nothing.
LEMMA FriendshipStep ==
    ASSUME ViewOK, ViewOK', Shows, damaged \in BOOLEAN, damaged' \in BOOLEAN
    PROVE  [F!Next]_fvars
<1> DEFINE L == View[1]
           T == View[2]
           M == View'[1]
           U == View'[2]
<1>1. /\ L \in SUBSET Users /\ T \in SUBSET Rows
      /\ M \in SUBSET Users /\ U \in SUBSET Rows
      /\ ~damaged => PairsOf(T)
  BY DEF ViewOK
<1>2. CASE damaged'
  <2>1. /\ AsksOf(U) \subseteq Users \X Users /\ FriendsOf(U) \subseteq SUBSET Users
    BY <1>1, AbstractTypes
  <2>2. F!Break
    BY <1>1, <1>2, <2>1 DEF F!Break, AsksOf, FriendsOf
  <2> QED BY <2>2 DEF F!Next
<1>3. CASE ~damaged'
  <2>1. damaged' = damaged /\ ~damaged /\ PairsOf(T) /\ Whole(L, T, M, U)
    BY <1>1, <1>3 DEF Shows
  <2>2. CASE M = L /\ U = T
    BY <2>1, <2>2 DEF fvars
  <2>3. ASSUME NEW u \in Users, M = L \cup {u}, U = T
        PROVE  F!Next
    <3>1. F!Create(u)
      BY <2>3 DEF F!Create
    <3> QED BY <2>1, <3>1 DEF F!Next
  <2>4. ASSUME NEW u \in Users, NEW f \in Users, RowsOf(T, u, f) = {}, M = L,
               U = T \cup {Row(u, f, 2)} \cup {Row(f, u, 3)}
        PROVE  F!Next
    <3>1. /\ <<u, f>> \notin AsksOf(T) /\ <<f, u>> \notin AsksOf(T) /\ {u, f} \notin FriendsOf(T)
          /\ AsksOf(U) = AsksOf(T) \cup {<<u, f>>}
          /\ FriendsOf(U) = FriendsOf(T)
      BY <1>1, <2>1, <2>4, AskShown
    <3>2. F!Ask(u, f)
      BY <2>4, <3>1 DEF F!Ask, F!Related, AsksOf, FriendsOf
    <3> QED BY <2>1, <3>2 DEF F!Next
  <2>5. ASSUME NEW u \in Users, NEW f \in Users, RowsOf(T, u, f) # {}, M = L,
               U = WithFlag(WithFlag(T, u, f), f, u)
        PROVE  F!Next
    <3>1. /\ <<u, f>> \in AsksOf(T) \/ <<f, u>> \in AsksOf(T) \/ {u, f} \in FriendsOf(T)
          /\ AsksOf(U) = AsksOf(T) \ {<<u, f>>, <<f, u>>}
          /\ FriendsOf(U) = FriendsOf(T) \cup {{u, f}}
      BY <1>1, <2>1, <2>5, BefriendShown
    <3>2. F!Befriend(u, f)
      BY <2>5, <3>1 DEF F!Befriend, F!Related, AsksOf, FriendsOf
    <3> QED BY <2>1, <3>2 DEF F!Next
  <2>6. ASSUME NEW u \in Users, M = L \/ M = L \ {u}, U = Without(T, u)
        PROVE  F!Next
    <3>1. /\ AsksOf(U) = {a \in AsksOf(T) : u \notin {a[1], a[2]}}
          /\ FriendsOf(U) = {p \in FriendsOf(T) : u \notin p}
      BY <1>1, <2>6, ForgetShown
    <3>2. F!Forget(u)
      BY <3>1 DEF F!Forget, AsksOf, FriendsOf
    <3>3. F!Refuse(u) \/ F!Delete(u)
      BY <2>6, <3>2 DEF F!Refuse, F!Delete
    <3> QED BY <2>1, <3>3 DEF F!Next
  <2> QED BY <2>1, <2>2, <2>3, <2>4, <2>5, <2>6 DEF Whole
<1> QED BY <1>2, <1>3

\* The queries of DHDB implement Friendship: every call is one step of it or changes nothing,
\* until a fault that the code does not undo.
THEOREM DBImplementsFriendship == Spec => ImplementsFriendship
<1>1. Init => F!Init
  BY DEF Init, F!Init, View, NoCall, tables
<1>2. DBInv /\ DBInv' /\ [Next]_vars => [F!Next]_fvars
  <2> SUFFICES ASSUME DBInv, DBInv', [Next]_vars PROVE [F!Next]_fvars
      OBVIOUS
  <2>1. ViewOK /\ ViewOK' /\ damaged \in BOOLEAN /\ damaged' \in BOOLEAN
    <3>1. ViewOK
      BY ViewTypes
    <3>2. DBInv' => ViewOK'
      BY ViewTypes, PTL
    <3> QED BY <3>1, <3>2 DEF DBInv, DBTypes
  <2>2. CASE UNCHANGED vars
    BY <2>2 DEF vars, tables, fvars, View, Row
  <2>3. CASE Shows
    BY <2>1, <2>3, FriendshipStep
  <2> QED BY <2>2, <2>3, NextStep
<1>3. Init /\ []DBInv /\ [][Next]_vars => F!Init /\ [][F!Next]_fvars
  BY <1>1, <1>2, PTL
<1> QED BY <1>3, DBInvariant, PTL DEF Spec, ImplementsFriendship, F!Spec, fvars
=============================================================================
