-------------------------- MODULE GamePlayLauncher --------------------------
(***************************************************************************)
(* The launcher's main window (GamePlayLauncher.cpp): its receive thread   *)
(* (RecvServerPacket) and the slots the user interface calls share, with   *)
(* no lock, the state of the game, the label that shows the result of a    *)
(* friend request, and the rows of received requests.                      *)
(*                                                                         *)
(* A row of the request list, an entry of a set and a flag are read and    *)
(* written in one step each; where that is a data race on a string or a    *)
(* set the process may die (Race).  Qt is external: a signal the receive   *)
(* thread emits is queued and its slot runs when the user interface is     *)
(* idle, one that the user interface emits runs at once.                   *)
(***************************************************************************)
EXTENDS Integers, Sequences, FiniteSets, SequencesExt

CONSTANTS
    Names,          \* the users that ask to be friends
    Updates,        \* the requests an S2C_CURRENT_USER_STATE may carry
    Rows,           \* rows of the request list: 3
    LastIndex,      \* the largest index the loop over the requests uses: 4
    Visible_Time,   \* how long a result is shown, in ticks
    MaxPushes, MaxUpdates       \* bounds: buttons pushed, updates received

\* An update names a user once (a user has one row of DHDB's FRIEND for another one).
ASSUME LauncherAssumption ==
    /\ "" \notin Names /\ Updates \subseteq Seq(Names)
    /\ \A m \in Updates : \A i, j \in 1..Len(m) : m[i] = m[j] => i = j
    /\ Rows \in Nat \ {0} /\ LastIndex \in Nat /\ Rows <= LastIndex /\ Visible_Time \in Nat
    /\ MaxPushes \in Nat /\ MaxUpdates \in Nat

VARIABLES
    ui,             \* the user interface: its step, and the row it works on
    thread,         \* the receive thread: its step, the message and the row
    m_Process,      \* the pointer to the process information is set
    pi,             \* the process it describes: "zero", "live" or "ended"
    m_Is_Playing,
    told,           \* the play state the server was told last
    _Current_Visible_State, _Is_Visible_Start,
    passed,         \* time since _Prev_Time, up to Visible_Time + 1
    hides,          \* _UI_Hide signals queued for the user interface
    label,          \* the result label is visible
    offset,         \* how many times the friend list has been moved down
    timed,          \* history: the time of the result in view was taken
    requests,       \* Friend_Request_List, the rows' texts and which are shown
    open,           \* history: the requests of the last update that had any, less
                    \* those answered since
    crashed,
    risks,          \* history: what the two threads ran at once, and updates too long
    pushes, updates

play == <<m_Process, pi, m_Is_Playing, told>>
result == <<_Current_Visible_State, _Is_Visible_Start, passed, hides, label, offset, timed>>
friends == <<requests, open>>
vars == <<ui, thread, play, result, friends, crashed, risks, pushes, updates>>

Init ==
    /\ ui = [step |-> "idle", row |-> 0]
    /\ thread = [step |-> "poll", msg |-> <<>>, row |-> 0]
    /\ m_Process = FALSE /\ pi = "zero" /\ m_Is_Playing = FALSE /\ told = FALSE
    /\ _Current_Visible_State = FALSE /\ _Is_Visible_Start = FALSE /\ passed = 0
    /\ hides = 0 /\ label = FALSE /\ offset = 0 /\ timed = FALSE
    /\ requests = [Friend_Request_List |-> [i \in 0..(Rows - 1) |-> ""],
                   text |-> [i \in 0..(Rows - 1) |-> ""], shown |-> {},
                   Current_Friend_Request_Count |-> 0, hidden |-> TRUE]
    /\ open = {} /\ crashed = FALSE /\ risks = {}
    /\ pushes = 0 /\ updates = 0

\* The steps in which the threads use what both of them change.
Refreshing(t) == t.step \in {"friends", "head", "clear", "fill"}
Answering(u) == u.step \in {"ask", "sort", "count"}
Starting(u) == u.step \in {"start", "create", "tell", "playing"}
Race == IF Refreshing(thread) /\ Answering(ui) THEN BOOLEAN ELSE {FALSE}

UI(from, to) == ~crashed /\ ui.step = from /\ ui' = [ui EXCEPT !.step = to]
Thread(from, to) == ~crashed /\ thread.step = from /\ thread' = [thread EXCEPT !.step = to]
Push == pushes < MaxPushes /\ pushes' = pushes + 1

-----------------------------------------------------------------------------
(* The game: PushGameStartButton against the start of the thread's loop.   *)

PushGameStartButton ==
    /\ Push /\ UI("idle", "start")
    /\ m_Process' = TRUE
    /\ UNCHANGED <<thread, pi, m_Is_Playing, told, result, friends, crashed, updates>>

StartCheck ==
    /\ UI("start", IF m_Is_Playing THEN "idle" ELSE "create")
    /\ pi' = IF m_Is_Playing THEN pi ELSE "zero"
    /\ UNCHANGED <<thread, m_Process, m_Is_Playing, told, result, friends, crashed, pushes,
                   updates>>

\* CreateProcess may fail, and nobody looks.
CreateGame ==
    /\ UI("create", "tell")
    /\ pi' \in {"zero", "live"}
    /\ UNCHANGED <<thread, m_Process, m_Is_Playing, told, result, friends, crashed, pushes,
                   updates>>

TellPlaying ==
    /\ UI("tell", "playing")
    /\ told' = TRUE
    /\ UNCHANGED <<thread, m_Process, pi, m_Is_Playing, result, friends, crashed, pushes,
                   updates>>

SetPlaying ==
    /\ UI("playing", "idle")
    /\ m_Is_Playing' = TRUE
    /\ UNCHANGED <<thread, m_Process, pi, told, result, friends, crashed, pushes, updates>>

GameExits ==
    /\ ~crashed /\ pi = "live" /\ pi' = "ended"
    /\ UNCHANGED <<ui, thread, m_Process, m_Is_Playing, told, result, friends, crashed,
                   pushes, updates>>

\* WaitForSingleObject: a process that has ended, or no process, is the end of a game.
Poll ==
    /\ Thread("poll", IF m_Process /\ pi # "live" THEN "ended" ELSE "label")
    /\ UNCHANGED <<ui, play, result, friends, crashed, pushes, updates>>

\* Mutant of GameEnded: the flag is cleared before it is tested.
GameEndedForgotten ==
    /\ Thread("ended", "stopped")
    /\ UNCHANGED <<ui, play, result, friends, crashed, pushes, updates>>

GameEnded ==
    /\ Thread("ended", "stopped")
    /\ told' = IF m_Is_Playing THEN FALSE ELSE told
    /\ UNCHANGED <<ui, m_Process, pi, m_Is_Playing, result, friends, crashed, pushes, updates>>

ClearPlaying ==
    /\ Thread("stopped", "label")
    /\ m_Is_Playing' = FALSE
    /\ UNCHANGED <<ui, m_Process, pi, told, result, friends, crashed, pushes, updates>>

-----------------------------------------------------------------------------
(* The label with the result of a friend request.                          *)

\* Mutant of ShowResult: a result in view is not looked for.
ShowResultAlways ==
    /\ UI("result", "emit")
    /\ timed' = FALSE
    /\ UNCHANGED <<thread, play, _Current_Visible_State, _Is_Visible_Start, passed, hides,
                   label, offset, friends, crashed, pushes, updates>>

\* SetVisibleRequestResult(true): a result in view gets more time, or it appears.
ShowResult ==
    /\ UI("result", IF _Current_Visible_State THEN "idle" ELSE "emit")
    /\ _Is_Visible_Start' = (_Is_Visible_Start /\ ~_Current_Visible_State)
    /\ timed' = FALSE
    /\ UNCHANGED <<thread, play, _Current_Visible_State, passed, hides, label, offset,
                   friends, crashed, pushes, updates>>

\* _UI_Visible runs VisibleUI at once.
VisibleUI ==
    /\ UI("emit", "visible")
    /\ label' = TRUE /\ offset' = offset + 1
    /\ UNCHANGED <<thread, play, _Current_Visible_State, _Is_Visible_Start, passed, hides,
                   timed, friends, crashed, pushes, updates>>

SetVisible ==
    /\ UI("visible", "idle")
    /\ _Current_Visible_State' = TRUE
    /\ UNCHANGED <<thread, play, _Is_Visible_Start, passed, hides, label, offset, timed,
                   friends, crashed, pushes, updates>>

Tick ==
    /\ ~crashed /\ passed <= Visible_Time
    /\ passed' = passed + 1
    /\ UNCHANGED <<ui, thread, play, _Current_Visible_State, _Is_Visible_Start, hides, label,
                   offset, timed, friends, crashed, pushes, updates>>

CheckVisible ==
    /\ Thread("label", IF _Current_Visible_State THEN "time" ELSE "recv")
    /\ UNCHANGED <<ui, play, result, friends, crashed, pushes, updates>>

\* Mutant of CheckTime: the time starts again in every round.
CheckTimeAgain ==
    /\ Thread("time", "recv")
    /\ passed' = 0 /\ _Is_Visible_Start' = TRUE /\ timed' = TRUE
    /\ UNCHANGED <<ui, play, _Current_Visible_State, hides, label, offset, friends, crashed,
                   pushes, updates>>

\* The first round of a result takes the time; the flag that says so is not cleared
\* when the result goes.
CheckTime ==
    /\ Thread("time", IF _Is_Visible_Start /\ passed > Visible_Time THEN "hide" ELSE "recv")
    /\ passed' = IF _Is_Visible_Start /\ passed <= Visible_Time THEN passed ELSE 0
    /\ _Is_Visible_Start' = TRUE
    /\ timed' = (timed \/ ~_Is_Visible_Start)
    /\ UNCHANGED <<ui, play, _Current_Visible_State, hides, label, offset, friends, crashed,
                   pushes, updates>>

\* SetVisibleRequestResult(false): the signal is queued.
EmitHide ==
    /\ Thread("hide", "hidden")
    /\ hides' = hides + 1
    /\ UNCHANGED <<ui, play, _Current_Visible_State, _Is_Visible_Start, passed, label, offset,
                   timed, friends, crashed, pushes, updates>>

SetHidden ==
    /\ Thread("hidden", "recv")
    /\ _Current_Visible_State' = FALSE
    /\ UNCHANGED <<ui, play, _Is_Visible_Start, passed, hides, label, offset, timed, friends,
                   crashed, pushes, updates>>

HideUI ==
    /\ hides > 0 /\ UI("idle", "idle")
    /\ hides' = hides - 1 /\ label' = FALSE /\ offset' = offset - 1
    /\ UNCHANGED <<thread, play, _Current_Visible_State, _Is_Visible_Start, passed, timed,
                   friends, crashed, pushes, updates>>

-----------------------------------------------------------------------------
(* The receive thread takes an update of friends and requests.             *)

\* No (more) messages, and the loop starts again; or an update.  Messages of other types
\* are passed over.
Recv ==
    /\ ~crashed /\ thread.step = "recv"
    /\ \/ thread' = [thread EXCEPT !.step = "poll"] /\ UNCHANGED updates
       \/ /\ updates < MaxUpdates /\ updates' = updates + 1
          /\ \E m \in Updates : thread' = [step |-> "friends", msg |-> m, row |-> 0]
    /\ UNCHANGED <<ui, play, result, friends, crashed, pushes>>

\* m_Recv_Friend and m_Recv_Friend_Request are cleared, the tree and the first are filled.
ReadFriends ==
    /\ Thread("friends", "head")
    /\ crashed' \in Race
    /\ UNCHANGED <<ui, play, result, friends, pushes, updates>>

\* Without requests the list is hidden as it is; else it is shown and made anew.
RefreshHead ==
    LET none == thread.msg = <<>>
    IN  /\ Thread("head", IF none THEN "recv" ELSE "clear")
        /\ requests' = [requests EXCEPT !.hidden = none]
        /\ UNCHANGED <<ui, play, result, open, crashed, pushes, updates>>

\* The next round of a loop over rows, or what follows it.
NextRow(step, last, after) ==
    /\ ~crashed /\ thread.step = step
    /\ thread' = IF thread.row = last THEN [step |-> after, row |-> 0,
                                              msg |-> IF after = "recv" THEN <<>> ELSE thread.msg]
                                      ELSE [thread EXCEPT !.row = @ + 1]

\* Mutant of ClearRow: the count is not reset.
ClearRowKeepsCount ==
    /\ NextRow("clear", Rows - 1, "fill")
    /\ requests' = [requests EXCEPT !.Friend_Request_List[thread.row] = "",
                                    !.shown = @ \ {thread.row}]
    /\ crashed' \in Race
    /\ UNCHANGED <<ui, play, result, open, pushes, updates>>

ClearRow ==
    /\ NextRow("clear", Rows - 1, "fill")
    /\ requests' = [requests EXCEPT !.Friend_Request_List[thread.row] = "",
                                    !.Current_Friend_Request_Count = 0,
                                    !.shown = @ \ {thread.row}]
    /\ crashed' \in Race
    /\ UNCHANGED <<ui, play, result, open, pushes, updates>>

\* A request is put in its row.  The guard lets indexes through that have no row: the
\* item of such a row is null.
FillRow ==
    LET i == thread.row
        name == thread.msg[i + 1]
        last == Len(thread.msg) - 1
    IN  /\ NextRow("fill", last, "recv")
        /\ open' = IF i = last THEN ToSet(thread.msg) ELSE {}
        /\ IF i > LastIndex
           THEN crashed' \in Race /\ UNCHANGED requests
           ELSE IF i >= Rows
           THEN crashed' = TRUE /\ UNCHANGED requests
           ELSE /\ requests' = [requests EXCEPT !.Friend_Request_List[i] = name,
                                   !.text[i] = name, !.shown = @ \cup {i},
                                   !.Current_Friend_Request_Count = @ + 1]
                /\ crashed' \in Race
        /\ UNCHANGED <<ui, play, result, pushes, updates>>

-----------------------------------------------------------------------------
(* The buttons of the friends list.                                        *)

\* Push{Accept,Cancel}FriendRequestButton1-3: the answer is sent for the entry of the
\* row, then SortFriendRequest closes the gap.
PushRequestButton(i) ==
    /\ Push /\ ~crashed /\ ui.step = "idle"
    /\ i \in requests.shown /\ ~requests.hidden
    /\ open' = open \ {requests.Friend_Request_List[i]}
    /\ ui' = [step |-> IF i < Rows - 1 THEN "sort" ELSE "count", row |-> i]
    /\ crashed' \in IF Refreshing(thread) THEN BOOLEAN ELSE {FALSE}
    /\ UNCHANGED <<thread, play, result, requests, updates>>

\* Mutant of SortRow: the text of the row is not changed.
SortRowKeepsText ==
    LET i == ui.row
    IN  /\ ~crashed /\ ui.step = "sort"
        /\ ui' = [step |-> IF i < Rows - 2 THEN "sort" ELSE "count", row |-> i + 1]
        /\ requests' = [requests EXCEPT !.Friend_Request_List[i] =
                           requests.Friend_Request_List[i + 1]]
        /\ crashed' \in Race
        /\ UNCHANGED <<thread, play, result, open, pushes, updates>>

SortRow ==
    LET i == ui.row
        name == requests.Friend_Request_List[i + 1]
    IN  /\ ~crashed /\ ui.step = "sort"
        /\ ui' = [step |-> IF i < Rows - 2 THEN "sort" ELSE "count", row |-> i + 1]
        /\ requests' = [requests EXCEPT !.Friend_Request_List[i] = name, !.text[i] = name]
        /\ crashed' \in Race
        /\ UNCHANGED <<thread, play, result, open, pushes, updates>>

\* The last row in use is hidden; the item of a row that does not exist is null.
SortCount ==
    LET k == requests.Current_Friend_Request_Count - 1
    IN  /\ ~crashed /\ ui.step = "count"
        /\ ui' = [step |-> "idle", row |-> 0]
        /\ requests' = [requests EXCEPT !.Current_Friend_Request_Count = k, !.shown = @ \ {k}]
        /\ IF k \in 0..(Rows - 1) THEN crashed' \in Race ELSE crashed' = TRUE
        /\ UNCHANGED <<thread, play, result, open, pushes, updates>>

PushFriendRequestButton ==
    /\ Push /\ UI("idle", "ask")
    /\ UNCHANGED <<thread, play, result, friends, crashed, updates>>

\* The two sets are searched for the name.  A friend request is sent unless it is in
\* one of them, too long or empty; a result is shown in any case.
Ask ==
    /\ UI("ask", "result")
    /\ crashed' \in Race
    /\ UNCHANGED <<thread, play, result, friends, pushes, updates>>

-----------------------------------------------------------------------------
UserInterface ==
    \/ StartCheck \/ CreateGame \/ TellPlaying \/ SetPlaying
    \/ ShowResult \/ VisibleUI \/ SetVisible \/ HideUI
    \/ SortRow \/ SortCount \/ Ask

RecvServerPacket ==
    \/ Poll \/ GameEnded \/ ClearPlaying
    \/ CheckVisible \/ CheckTime \/ EmitHide \/ SetHidden
    \/ Recv \/ ReadFriends \/ RefreshHead \/ ClearRow \/ FillRow

User ==
    \/ PushGameStartButton \/ PushFriendRequestButton
    \/ \E i \in 0..(Rows - 1) : PushRequestButton(i)

\* What the two threads do at once after this step, and an update with too many requests.
Risk ==
    risks' = risks
        \cup (IF Refreshing(thread') /\ Answering(ui') THEN {"requests"} ELSE {})
        \cup (IF thread'.step \in {"ended", "stopped"} /\ Starting(ui') THEN {"play"} ELSE {})
        \cup (IF Len(thread'.msg) > Rows THEN {"overfull"} ELSE {})

Next == (UserInterface \/ RecvServerPacket \/ User \/ GameExits \/ Tick) /\ Risk

Spec == Init /\ [][Next]_vars

\* Both threads are scheduled and time passes; the user and the game need do nothing.
FairSpec ==
    /\ Spec
    /\ WF_vars(UserInterface /\ Risk) /\ WF_vars(RecvServerPacket /\ Risk)
    /\ WF_vars(Tick /\ Risk)

-----------------------------------------------------------------------------
(* Properties.                                                             *)

\* Types of the variables.
TypeOK ==
    /\ ui.row \in 0..(Rows - 1) /\ thread.msg \in Updates \cup {<<>>}
    /\ ui.step \in {"idle", "start", "create", "tell", "playing", "result", "emit", "visible",
                    "ask", "sort", "count"}
    /\ thread.step \in {"poll", "ended", "stopped", "label", "time", "hide", "hidden", "recv",
                        "friends", "head", "clear", "fill"}
    /\ pi \in {"zero", "live", "ended"} /\ told \in BOOLEAN
    /\ passed \in 0..(Visible_Time + 1) /\ hides \in Nat /\ offset \in Nat
    /\ requests.shown \subseteq 0..(Rows - 1)
    /\ requests.Current_Friend_Request_Count \in -1..(2 * Rows)
    /\ risks \subseteq {"requests", "play", "overfull"}

\* The window dies only when a button of the friends list was pushed during an update,
\* or an update had more requests than rows: no order of complete updates and clicks
\* makes the count of rows disagree with the rows (SortFriendRequest, line 834).
CrashNeedsRisk ==
    crashed => risks \cap {"requests", "overfull"} # {}

\* Between the handlers the rows that are shown are the requests of the last update with
\* requests that the user has not answered, each once, and a row's button answers the name
\* it shows.  (An update without requests hides the list as a whole and leaves the rows.)
ShowsOpenRequests ==
    /\ ~crashed /\ "requests" \notin risks
    /\ ~Refreshing(thread) /\ ~Answering(ui)
    => /\ requests.shown = 0..(requests.Current_Friend_Request_Count - 1)
       /\ {requests.text[i] : i \in requests.shown} = open
       /\ Cardinality(open) = requests.Current_Friend_Request_Count
       /\ \A i \in requests.shown : requests.text[i] = requests.Friend_Request_List[i]

\* However the queued HideUI and the direct VisibleUI interleave, the friend list is moved
\* down once for a result in view and never drifts: each move is matched by a hide that is
\* queued or still to come, also between the signal and the change of the state.
UIBalanced ==
    offset = hides + (IF _Current_Visible_State \/ ui.step = "visible" THEN 1 ELSE 0)
                   - (IF thread.step = "hidden" THEN 1 ELSE 0)

\* A result does not stay for ever.
ResultGoes == label ~> (~label \/ crashed)

\* When the game has ended, or could not be started, the server is told, provided the
\* thread was not about to clear the flag while the button was handled.
PlayEndTold == (told /\ pi # "live") ~> (~told \/ pi = "live" \/ "play" \in risks \/ crashed)

-----------------------------------------------------------------------------
(* Stated, and not true of the code.                                       *)

\* A result is hidden only after its time was taken (GamePlayLauncher.h:99): the second
\* one, shown later, is hidden in the first round of the loop.
ShownForItsTime == thread.step = "hide" => timed

\* While the state says so, the result is in view.
ResultInView == _Current_Visible_State /\ ui.step = "idle" => label

\* A game is not started while one runs.
OneGame == ui.step = "start" /\ ~m_Is_Playing => pi # "live"

\* When the game has ended the server is told.
PlayEndAlwaysTold == (told /\ pi # "live") ~> (~told \/ pi = "live" \/ crashed)

\* The window does not die (the comment of line 272: at most three are shown).
NoCrash == ~crashed
=============================================================================
