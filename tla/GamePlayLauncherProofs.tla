----------------------- MODULE GamePlayLauncherProofs -----------------------
(***************************************************************************)
(* Proofs about GamePlayLauncher, for any number of rows, any updates and  *)
(* any number of clicks:                                                   *)
(*   - LauncherUIBalanced: the friend list never drifts;                   *)
(*   - LauncherCrashNeedsRisk: the window dies only of a race or of an     *)
(*     update that is too long;                                            *)
(*   - LauncherShowsOpenRequests: the rows are the open requests.          *)
(***************************************************************************)
EXTENDS GamePlayLauncher, FiniteSetTheorems, TLAPS

-----------------------------------------------------------------------------
(* The inductive invariant.                                                *)

UISteps == {"idle", "start", "create", "tell", "playing", "result", "emit", "visible",
            "ask", "sort", "count"}
ThreadSteps == {"poll", "ended", "stopped", "label", "time", "hide", "hidden", "recv",
                "friends", "head", "clear", "fill"}
Indexes == 0..(Rows - 1)
Messages == Updates \cup {<<>>}
Texts == [Indexes -> Names \cup {""}]

UITypes == ui \in [step : UISteps, row : Indexes]
ThreadTypes == thread \in [step : ThreadSteps, msg : Messages, row : Nat]
RequestTypes ==
    requests \in [Friend_Request_List : Texts, text : Texts, shown : SUBSET Indexes,
                  Current_Friend_Request_Count : Int, hidden : BOOLEAN]

\* Where the two threads are in their loops.
Positions ==
    /\ ui.step = "sort" => ui.row < Rows - 1
    /\ ui.step = "count" => ui.row = Rows - 1
    /\ thread.step = "clear" => thread.row < Rows /\ thread.msg # <<>>
    /\ thread.step = "fill" => thread.row < Len(thread.msg)
    /\ thread.step \notin {"clear", "fill"} => thread.row = 0

\* The risks that are on record.
Recorded ==
    /\ risks \in SUBSET {"requests", "play", "overfull"}
    /\ Refreshing(thread) /\ Answering(ui) => "requests" \in risks
    /\ Len(thread.msg) > Rows => "overfull" \in risks

\* The label.
Label ==
    /\ hides \in Nat /\ offset \in Int
    /\ ui.step \in {"emit", "visible"} => ~_Current_Visible_State
    /\ thread.step \in {"time", "hide", "hidden"} => _Current_Visible_State
    /\ UIBalanced

Count == requests.Current_Friend_Request_Count
FRL == requests.Friend_Request_List
Txt == requests.text

\* The rows 0..n-1 are in view, and a button answers the name that its row shows.
InView(q, n) ==
    /\ n \in 0..Rows /\ q.shown = 0..(n - 1) /\ q.Current_Friend_Request_Count = n
    /\ \A j \in 0..(n - 1) : q.Friend_Request_List[j] = q.text[j]

\* The first n texts are the open requests o, each once.
AreOpen(o, n, text) ==
    /\ o = {text[j] : j \in 0..(n - 1)}
    /\ \A i, j \in 0..(n - 1) : text[i] = text[j] => i = j

\* The texts without the row that was answered: the gap has come as far as row r.
Closed(text, r) == [j \in 0..(Rows - 2) |-> IF j < r THEN text[j] ELSE text[j + 1]]

Settled == thread.step \notin {"clear", "fill"} /\ ui.step \notin {"sort", "count"}

\* The rows, when no button was pushed during an update.
RowsOK ==
    ~crashed /\ "requests" \notin risks =>
        /\ Settled => InView(requests, Count) /\ AreOpen(open, Count, Txt)
        /\ ui.step \in {"sort", "count"} =>
              InView(requests, Count) /\ Count > 0 /\ AreOpen(open, Count - 1, Closed(Txt, ui.row))
        /\ thread.step = "clear" =>
              /\ requests.shown \cap 0..(thread.row - 1) = {}
              /\ thread.row > 0 => Count = 0
        /\ thread.step = "fill" =>
              /\ InView(requests, thread.row)
              /\ \A j \in 0..(thread.row - 1) : Txt[j] = thread.msg[j + 1]

LauncherInv ==
    /\ UITypes /\ ThreadTypes /\ RequestTypes /\ crashed \in BOOLEAN
    /\ Positions /\ Recorded /\ Label /\ RowsOK /\ CrashNeedsRisk

\* The types a record of steps has.
UIType == [step : UISteps, row : Indexes]
ThreadType == [step : ThreadSteps, msg : Messages, row : Nat]

LEMMA RowsNat == Rows \in Nat /\ Rows >= 1 /\ LastIndex \in Nat /\ Rows <= LastIndex
<1>1. Rows \in Nat \ {0} /\ LastIndex \in Nat /\ Rows <= LastIndex
  BY Zenon, LauncherAssumption
<1> QED BY <1>1

LEMMA LauncherInit == Init => LauncherInv
<1> SUFFICES ASSUME Init PROVE LauncherInv
    OBVIOUS
<1> USE RowsNat
<1> DEFINE Blank == [i \in Indexes |-> ""]
<1>0. /\ ui = [step |-> "idle", row |-> 0] /\ thread = [step |-> "poll", msg |-> <<>>, row |-> 0]
      /\ open = {} /\ crashed = FALSE /\ risks = {} /\ hides = 0 /\ offset = 0
  BY DEF Init
<1>1. _Current_Visible_State = FALSE
  BY DEF Init
<1>2. requests = [Friend_Request_List |-> Blank, text |-> Blank, shown |-> {},
                  Current_Friend_Request_Count |-> 0, hidden |-> TRUE]
  BY DEF Init, Indexes
<1>3. RequestTypes
  <2>1. Blank \in Texts
    BY DEF Texts
  <2> HIDE DEF Blank
  <2> QED BY <1>2, <2>1 DEF RequestTypes
<1> HIDE DEF Blank
<1>4. UITypes /\ ThreadTypes
  BY <1>0 DEF UITypes, ThreadTypes, UISteps, ThreadSteps, Indexes, Messages
<1>5. Positions
  BY <1>0 DEF Positions
<1>6. Label
  BY <1>0, <1>1 DEF Label, UIBalanced
<1>7. Recorded
  BY <1>0 DEF Recorded, Refreshing
<1>8. RowsOK
  <2>1. Count = 0 /\ requests.shown = {} /\ 0..(0 - 1) = {}
    BY <1>2 DEF Count
  <2>2. InView(requests, 0)
    BY <2>1 DEF InView, Count
  <2>3. AreOpen(open, 0, Txt)
    BY <1>0, <2>1 DEF AreOpen
  <2> QED BY <1>0, <2>1, <2>2, <2>3 DEF RowsOK
<1>9. CrashNeedsRisk
  BY <1>0 DEF CrashNeedsRisk
<1> QED BY <1>0, <1>3, <1>4, <1>5, <1>6, <1>7, <1>8, <1>9 DEF LauncherInv

-----------------------------------------------------------------------------
(* What all steps have in common.                                          *)

\* Risks are recorded after every step and never taken back.
LEMMA RiskStep ==
    ASSUME LauncherInv, Risk
    PROVE  Recorded' /\ risks \subseteq risks'
BY DEF LauncherInv, Recorded, Risk

\* A thread that moves.
LEMMA UIMove ==
    ASSUME LauncherInv, NEW from, NEW to \in UISteps, UI(from, to)
    PROVE  /\ ~crashed /\ ui.step = from
           /\ ui' \in UIType /\ ui'.step = to /\ ui'.row = ui.row
BY DEF LauncherInv, UITypes, UIType, UI

LEMMA ThreadMove ==
    ASSUME LauncherInv, NEW from, NEW to \in ThreadSteps, Thread(from, to)
    PROVE  /\ ~crashed /\ thread.step = from
           /\ thread' \in ThreadType /\ thread'.step = to
           /\ thread'.row = thread.row /\ thread'.msg = thread.msg
BY DEF LauncherInv, ThreadTypes, ThreadType, Thread

\* A race that kills is on record.
LEMMA RaceRecorded ==
    ASSUME LauncherInv, ~crashed, Risk, crashed' \in Race
    PROVE  crashed' \in BOOLEAN /\ CrashNeedsRisk'
<1>1. crashed' => Refreshing(thread) /\ Answering(ui)
  BY DEF Race
<1>2. crashed' => "requests" \in risks'
  BY <1>1, RiskStep DEF LauncherInv, Recorded
<1> QED BY <1>2 DEF Race, CrashNeedsRisk

LEMMA NoNewCrash ==
    ASSUME LauncherInv, Risk, crashed' = crashed
    PROVE  crashed' \in BOOLEAN /\ CrashNeedsRisk'
BY RiskStep DEF LauncherInv, CrashNeedsRisk

\* Steps that leave the rows alone.
LEMMA RowsKept ==
    ASSUME LauncherInv, ~crashed, Risk, requests' = requests, open' = open,
           \/ thread' = thread
           \/ thread.step \notin {"clear", "fill"} /\ thread'.step \notin {"clear", "fill"},
           \/ ui' = ui
           \/ ui.step \notin {"sort", "count"} /\ ui'.step \notin {"sort", "count"}
    PROVE  RequestTypes' /\ RowsOK'
<1>1. "requests" \notin risks' => "requests" \notin risks
  BY RiskStep
<1>2. RequestTypes'
  BY DEF LauncherInv, RequestTypes
<1>3. ASSUME ~crashed', "requests" \notin risks' PROVE RowsOK'
  <2>1. Settled' => Settled
    BY DEF Settled
  <2>2. /\ Count' = Count /\ Txt' = Txt
        /\ InView(requests', Count') = InView(requests, Count)
        /\ AreOpen(open', Count', Txt') = AreOpen(open, Count, Txt)
    BY DEF Count, Txt, FRL, InView, AreOpen
  <2>3. ui.step \in {"sort", "count"} \/ ui'.step \in {"sort", "count"} => ui' = ui
    OBVIOUS
  <2>4. thread.step \in {"clear", "fill"} \/ thread'.step \in {"clear", "fill"} => thread' = thread
    OBVIOUS
  <2>5. Settled' => InView(requests', Count') /\ AreOpen(open', Count', Txt')
    BY <1>1, <1>3, <2>1, <2>2 DEF LauncherInv, RowsOK
  <2>6. ASSUME ui'.step \in {"sort", "count"}
        PROVE  (InView(requests, Count) /\ Count > 0 /\ AreOpen(open, Count - 1, Closed(Txt, ui.row)))'
    <3>1. ui' = ui /\ InView(requests, Count) /\ Count > 0 /\ AreOpen(open, Count - 1, Closed(Txt, ui.row))
      BY <1>1, <1>3, <2>3, <2>6 DEF LauncherInv, RowsOK
    <3>2. Closed(Txt, ui.row)' = Closed(Txt, ui.row)
      BY <3>1 DEF Closed, Txt
    <3> QED BY <2>2, <3>1, <3>2 DEF AreOpen
  <2>7. ASSUME thread'.step = "clear"
        PROVE  (/\ requests.shown \cap 0..(thread.row - 1) = {}
                /\ thread.row > 0 => Count = 0)'
    BY <1>1, <1>3, <2>2, <2>4, <2>7 DEF LauncherInv, RowsOK
  <2>8. ASSUME thread'.step = "fill"
        PROVE  (/\ InView(requests, thread.row)
                /\ \A j \in 0..(thread.row - 1) : Txt[j] = thread.msg[j + 1])'
    BY <1>1, <1>3, <2>2, <2>4, <2>8 DEF LauncherInv, RowsOK, InView, FRL, Txt, Count
  <2> QED BY <2>5, <2>6, <2>7, <2>8 DEF RowsOK
<1> QED BY <1>2, <1>3 DEF RowsOK

\* Steps that leave the label alone, in a thread that does not handle it.
LEMMA LabelKept ==
    ASSUME LauncherInv,
           _Current_Visible_State' = _Current_Visible_State, hides' = hides, offset' = offset,
           \/ thread' = thread
           \/ thread.step # "hidden" /\ thread'.step \notin {"time", "hide", "hidden"},
           \/ ui' = ui
           \/ ui.step # "visible" /\ ui'.step \notin {"emit", "visible"}
    PROVE  Label'
BY DEF LauncherInv, Label, UIBalanced

\* Where the user interface stands, when the receive thread rests.
LEMMA UIPosition ==
    ASSUME LauncherInv, thread' = thread, ui' \in UIType,
           ui'.step = "sort" => ui'.row < Rows - 1,
           ui'.step = "count" => ui'.row = Rows - 1
    PROVE  UITypes' /\ ThreadTypes' /\ Positions'
BY DEF LauncherInv, UITypes, UIType, ThreadTypes, Positions

\* Where the receive thread stands, when the user interface rests.
LEMMA ThreadPosition ==
    ASSUME LauncherInv, ui' = ui, thread' \in ThreadType,
           thread'.step = "clear" => thread'.row < Rows /\ thread'.msg # <<>>,
           thread'.step = "fill" => thread'.row < Len(thread'.msg),
           thread'.step \notin {"clear", "fill"} => thread'.row = 0
    PROVE  UITypes' /\ ThreadTypes' /\ Positions'
BY DEF LauncherInv, UITypes, ThreadType, ThreadTypes, Positions

LEMMA LauncherInvParts ==
    ASSUME LauncherInv, Risk, UITypes', ThreadTypes', RequestTypes', crashed' \in BOOLEAN,
           Positions', Label', RowsOK', CrashNeedsRisk'
    PROVE  LauncherInv'
BY RiskStep DEF LauncherInv

-----------------------------------------------------------------------------
(* The game, and the user interface's part of the label.                   *)

LEMMA UISteps1 ==
    ASSUME LauncherInv, Risk,
           \/ PushGameStartButton \/ StartCheck \/ CreateGame \/ TellPlaying \/ SetPlaying
           \/ PushFriendRequestButton \/ Ask
    PROVE  LauncherInv'
<1>1. /\ thread' = thread /\ requests' = requests /\ open' = open
      /\ hides' = hides /\ offset' = offset /\ (crashed' = crashed \/ crashed' \in Race)
  BY DEF PushGameStartButton, StartCheck, CreateGame, TellPlaying, SetPlaying,
         PushFriendRequestButton, Ask, result, friends
<1>2. _Current_Visible_State' = _Current_Visible_State
  BY DEF PushGameStartButton, StartCheck, CreateGame, TellPlaying, SetPlaying,
         PushFriendRequestButton, Ask, result
<1>3. PICK from, to : UI(from, to) /\ from \in {"idle", "start", "create", "tell", "playing", "ask"}
                        /\ to \in {"start", "idle", "create", "tell", "playing", "ask", "result"}
  BY DEF PushGameStartButton, StartCheck, CreateGame, TellPlaying, SetPlaying,
         PushFriendRequestButton, Ask
<1>4. to \in UISteps
  BY <1>3 DEF UISteps
<1>5. /\ ~crashed /\ ui.step = from /\ ui' \in UIType /\ ui'.step = to
  BY <1>3, <1>4, UIMove
<1>6. UITypes' /\ ThreadTypes' /\ Positions'
  BY <1>1, <1>3, <1>5, UIPosition
<1>7. Label'
  BY <1>1, <1>2, <1>3, <1>5, LabelKept
<1>8. RequestTypes' /\ RowsOK'
  BY <1>1, <1>3, <1>5, RowsKept
<1>9. crashed' \in BOOLEAN /\ CrashNeedsRisk'
  BY <1>1, <1>5, RaceRecorded, NoNewCrash
<1> QED BY <1>6, <1>7, <1>8, <1>9, LauncherInvParts

LEMMA UISteps2 ==
    ASSUME LauncherInv, Risk, ShowResult \/ VisibleUI \/ SetVisible \/ HideUI
    PROVE  LauncherInv'
<1>1. thread' = thread /\ requests' = requests /\ open' = open /\ crashed' = crashed
  BY DEF ShowResult, VisibleUI, SetVisible, HideUI, friends
<1>2. PICK from, to : UI(from, to) /\ from \in {"idle", "result", "emit", "visible"}
                        /\ to \in {"idle", "emit", "visible"}
  BY DEF ShowResult, VisibleUI, SetVisible, HideUI
<1>3. to \in UISteps
  BY <1>2 DEF UISteps
<1>4. /\ ~crashed /\ ui.step = from /\ ui' \in UIType /\ ui'.step = to
  BY <1>2, <1>3, UIMove
<1>5. UITypes' /\ ThreadTypes' /\ Positions'
  BY <1>1, <1>2, <1>4, UIPosition
<1>6. RequestTypes' /\ RowsOK'
  BY <1>1, <1>2, <1>4, RowsKept
<1>7. crashed' \in BOOLEAN /\ CrashNeedsRisk'
  BY <1>1, NoNewCrash
<1>8. Label'
  <2>0. "idle" \in UISteps /\ "emit" \in UISteps /\ "visible" \in UISteps
    BY DEF UISteps
  <2>1. CASE ShowResult
    <3>1. /\ ui.step = "result" /\ hides' = hides /\ offset' = offset
          /\ ui'.step = IF _Current_Visible_State THEN "idle" ELSE "emit"
      BY <2>0, <2>1, UIMove DEF ShowResult
    <3>2. _Current_Visible_State' = _Current_Visible_State
      BY <2>1 DEF ShowResult
    <3> QED BY <1>1, <3>1, <3>2 DEF LauncherInv, Label, UIBalanced
  <2>2. CASE VisibleUI
    <3>1. /\ ui.step = "emit" /\ ui'.step = "visible" /\ hides' = hides /\ offset' = offset + 1
      BY <2>0, <2>2, UIMove DEF VisibleUI
    <3>2. _Current_Visible_State' = _Current_Visible_State
      BY <2>2 DEF VisibleUI
    <3> QED BY <1>1, <3>1, <3>2 DEF LauncherInv, Label, UIBalanced
  <2>3. CASE SetVisible
    <3>1. /\ ui.step = "visible" /\ ui'.step = "idle" /\ hides' = hides /\ offset' = offset
      BY <2>0, <2>3, UIMove DEF SetVisible
    <3>2. _Current_Visible_State' = TRUE
      BY <2>3 DEF SetVisible
    <3> QED BY <1>1, <3>1, <3>2 DEF LauncherInv, Label, UIBalanced
  <2>4. CASE HideUI
    <3>1. /\ ui.step = "idle" /\ ui'.step = "idle" /\ hides > 0 /\ hides' = hides - 1
          /\ offset' = offset - 1
      BY <2>0, <2>4, UIMove DEF HideUI
    <3>2. _Current_Visible_State' = _Current_Visible_State
      BY <2>4 DEF HideUI
    <3> QED BY <1>1, <3>1, <3>2 DEF LauncherInv, Label, UIBalanced
  <2> QED BY <2>1, <2>2, <2>3, <2>4
<1> QED BY <1>5, <1>6, <1>7, <1>8, LauncherInvParts

LEMMA OtherSteps ==
    ASSUME LauncherInv, Risk, GameExits \/ Tick
    PROVE  LauncherInv'
<1>1. /\ ui' = ui /\ thread' = thread /\ requests' = requests /\ open' = open
      /\ crashed' = crashed /\ hides' = hides /\ offset' = offset /\ ~crashed
  BY DEF GameExits, Tick, result, friends
<1>2. _Current_Visible_State' = _Current_Visible_State
  BY DEF GameExits, Tick, result
<1>3. UITypes' /\ ThreadTypes' /\ Positions'
  BY <1>1 DEF LauncherInv, UITypes, ThreadTypes, Positions
<1> QED BY <1>1, <1>2, <1>3, LabelKept, RowsKept, NoNewCrash, LauncherInvParts

-----------------------------------------------------------------------------
(* The receive thread, up to the rows.                                     *)

LEMMA ThreadSteps1 ==
    ASSUME LauncherInv, Risk,
           \/ Poll \/ GameEnded \/ ClearPlaying \/ CheckVisible \/ CheckTime
           \/ EmitHide \/ SetHidden \/ ReadFriends
    PROVE  LauncherInv'
<1>1. /\ ui' = ui /\ requests' = requests /\ open' = open
      /\ (crashed' = crashed \/ crashed' \in Race)
  BY DEF Poll, GameEnded, ClearPlaying, CheckVisible, CheckTime, EmitHide, SetHidden,
         ReadFriends, friends
<1>2. PICK from, to : /\ Thread(from, to) /\ from \notin {"clear", "fill"}
                      /\ to \in ThreadSteps \ {"clear", "fill"}
  <2>0. \A x \in {"ended", "label", "stopped", "time", "recv", "hide", "hidden", "head"} :
           x \in ThreadSteps \ {"clear", "fill"}
    BY DEF ThreadSteps
  <2>1. CASE Poll \/ CheckVisible
    BY <2>0, <2>1 DEF Poll, CheckVisible
  <2>2. CASE CheckTime
    BY <2>0, <2>2 DEF CheckTime
  <2>3. CASE GameEnded \/ ClearPlaying \/ EmitHide \/ SetHidden \/ ReadFriends
    BY <2>0, <2>3 DEF GameEnded, ClearPlaying, EmitHide, SetHidden, ReadFriends
  <2> QED BY <2>1, <2>2, <2>3
<1>3. /\ ~crashed /\ thread.step = from /\ thread' \in ThreadType /\ thread'.step = to
      /\ thread'.row = thread.row
  BY <1>2, ThreadMove
<1>4. UITypes' /\ ThreadTypes' /\ Positions'
  <2>1. thread'.row = 0
    BY <1>2, <1>3 DEF LauncherInv, Positions
  <2> QED BY <1>1, <1>2, <1>3, <2>1, ThreadPosition
<1>5. RequestTypes' /\ RowsOK'
  BY <1>1, <1>2, <1>3, RowsKept
<1>6. crashed' \in BOOLEAN /\ CrashNeedsRisk'
  BY <1>1, <1>3, RaceRecorded, NoNewCrash
<1>7. Label'
  <2>0. \A x \in {"poll", "ended", "stopped", "label", "time", "hide", "hidden", "recv", "head"} :
           x \in ThreadSteps
    BY DEF ThreadSteps
  <2>1. CASE Poll \/ GameEnded \/ ClearPlaying \/ ReadFriends
    <3>1. /\ thread.step \in {"poll", "ended", "stopped", "friends"}
          /\ thread'.step \notin {"time", "hide", "hidden"} /\ hides' = hides /\ offset' = offset
      BY <2>0, <2>1, ThreadMove DEF Poll, GameEnded, ClearPlaying, ReadFriends, result
    <3>2. _Current_Visible_State' = _Current_Visible_State
      BY <2>1 DEF Poll, GameEnded, ClearPlaying, ReadFriends, result
    <3> QED BY <1>1, <3>1, <3>2, LabelKept
  <2>2. CASE CheckVisible
    <3>1. /\ thread.step = "label" /\ hides' = hides /\ offset' = offset
          /\ thread'.step = IF _Current_Visible_State THEN "time" ELSE "recv"
      BY <2>0, <2>2, ThreadMove DEF CheckVisible, result
    <3>2. _Current_Visible_State' = _Current_Visible_State
      BY <2>2 DEF CheckVisible, result
    <3> QED BY <1>1, <3>1, <3>2 DEF LauncherInv, Label, UIBalanced
  <2>3. CASE CheckTime
    <3>1. /\ thread.step = "time" /\ hides' = hides /\ offset' = offset
          /\ thread'.step \in {"hide", "recv"}
      BY <2>0, <2>3, ThreadMove DEF CheckTime
    <3>2. _Current_Visible_State' = _Current_Visible_State
      BY <2>3 DEF CheckTime
    <3> QED BY <1>1, <3>1, <3>2 DEF LauncherInv, Label, UIBalanced
  <2>4. CASE EmitHide
    <3>1. /\ thread.step = "hide" /\ hides' = hides + 1 /\ offset' = offset
          /\ thread'.step = "hidden"
      BY <2>0, <2>4, ThreadMove DEF EmitHide
    <3>2. _Current_Visible_State' = _Current_Visible_State
      BY <2>4 DEF EmitHide
    <3> QED BY <1>1, <3>1, <3>2 DEF LauncherInv, Label, UIBalanced
  <2>5. CASE SetHidden
    <3>1. /\ thread.step = "hidden" /\ hides' = hides /\ offset' = offset
          /\ thread'.step = "recv"
      BY <2>0, <2>5, ThreadMove DEF SetHidden
    <3>2. _Current_Visible_State' = FALSE
      BY <2>5 DEF SetHidden
    <3> QED BY <1>1, <3>1, <3>2 DEF LauncherInv, Label, UIBalanced
  <2> QED BY <2>1, <2>2, <2>3, <2>4, <2>5
<1> QED BY <1>4, <1>5, <1>6, <1>7, LauncherInvParts

LEMMA RecvStep ==
    ASSUME LauncherInv, Risk, Recv
    PROVE  LauncherInv'
<1>1. /\ ui' = ui /\ requests' = requests /\ open' = open /\ crashed' = crashed
      /\ hides' = hides /\ offset' = offset /\ ~crashed /\ thread.step = "recv"
  BY DEF Recv, result, friends
<1>2. _Current_Visible_State' = _Current_Visible_State
  BY DEF Recv, result
<1>3. thread' \in ThreadType /\ thread'.row = 0 /\ thread'.step \in {"poll", "friends"}
  <2>1. thread \in ThreadType /\ thread.row = 0
    BY <1>1 DEF LauncherInv, ThreadTypes, ThreadType, Positions
  <2>2. CASE thread' = [thread EXCEPT !.step = "poll"]
    BY <2>1, <2>2 DEF ThreadType, ThreadSteps
  <2>3. CASE \E m \in Updates : thread' = [step |-> "friends", msg |-> m, row |-> 0]
    BY <2>3 DEF ThreadType, ThreadSteps, Messages
  <2> QED BY <2>2, <2>3 DEF Recv
<1>4. UITypes' /\ ThreadTypes' /\ Positions'
  BY <1>1, <1>3, ThreadPosition
<1>5. RequestTypes' /\ RowsOK'
  BY <1>1, <1>3, RowsKept
<1> QED BY <1>1, <1>2, <1>3, <1>4, <1>5, LabelKept, NoNewCrash, LauncherInvParts

-----------------------------------------------------------------------------
(* The receive thread and the rows.                                        *)

\* When the rows are consistent before a step that leaves no race on record.
LEMMA NoRaceYet ==
    ASSUME LauncherInv, Risk, ~crashed, "requests" \notin risks'
    PROVE  /\ "requests" \notin risks
           /\ ~(Refreshing(thread) /\ Answering(ui))
           /\ ~(Refreshing(thread') /\ Answering(ui'))
           /\ Settled => InView(requests, Count) /\ AreOpen(open, Count, Txt)
           /\ ui.step \in {"sort", "count"} =>
                 InView(requests, Count) /\ Count > 0 /\ AreOpen(open, Count - 1, Closed(Txt, ui.row))
           /\ thread.step = "clear" =>
                 /\ requests.shown \cap 0..(thread.row - 1) = {}
                 /\ thread.row > 0 => Count = 0
           /\ thread.step = "fill" =>
                 /\ InView(requests, thread.row)
                 /\ \A j \in 0..(thread.row - 1) : Txt[j] = thread.msg[j + 1]
<1>1. "requests" \notin risks /\ Recorded'
  BY RiskStep
<1>2. ~(Refreshing(thread') /\ Answering(ui'))
  BY <1>1 DEF Recorded
<1> QED BY <1>1, <1>2 DEF LauncherInv, Recorded, RowsOK

LEMMA RequestParts ==
    ASSUME LauncherInv
    PROVE  /\ FRL \in Texts /\ Txt \in Texts /\ requests.shown \in SUBSET Indexes
           /\ Count \in Int /\ requests.hidden \in BOOLEAN
BY DEF LauncherInv, RequestTypes, FRL, Txt, Count

LEMMA RequestRecord ==
    ASSUME NEW F \in Texts, NEW T \in Texts, NEW S \in SUBSET Indexes, NEW c \in Int,
           NEW h \in BOOLEAN,
           requests' = [Friend_Request_List |-> F, text |-> T, shown |-> S,
                        Current_Friend_Request_Count |-> c, hidden |-> h]
    PROVE  RequestTypes' /\ FRL' = F /\ Txt' = T /\ requests'.shown = S /\ Count' = c
BY DEF RequestTypes, FRL, Txt, Count

LEMMA RefreshHeadStep ==
    ASSUME LauncherInv, Risk, RefreshHead
    PROVE  LauncherInv'
<1> DEFINE none == thread.msg = <<>>
<1>1. /\ ui' = ui /\ open' = open /\ crashed' = crashed /\ hides' = hides /\ offset' = offset
      /\ requests' = [requests EXCEPT !.hidden = none]
      /\ Thread("head", IF none THEN "recv" ELSE "clear")
  BY DEF RefreshHead, result
<1>2. _Current_Visible_State' = _Current_Visible_State
  BY DEF RefreshHead, result
<1>3. /\ ~crashed /\ thread.step = "head" /\ thread' \in ThreadType
      /\ thread'.step = IF none THEN "recv" ELSE "clear"
      /\ thread'.row = thread.row /\ thread'.msg = thread.msg
  BY <1>1, ThreadMove DEF ThreadSteps
<1>4. thread'.row = 0
  BY <1>3 DEF LauncherInv, Positions
<1>5. UITypes' /\ ThreadTypes' /\ Positions'
  BY <1>1, <1>3, <1>4, RowsNat, ThreadPosition
<1>6. RequestTypes' /\ Count' = Count /\ FRL' = FRL /\ Txt' = Txt /\ requests'.shown = requests.shown
  <2>1. none \in BOOLEAN
    OBVIOUS
  <2> HIDE DEF none
  <2> QED BY <1>1, <2>1 DEF LauncherInv, RequestTypes, Count, FRL, Txt
<1>7. RowsOK'
  <2> SUFFICES ASSUME ~crashed', "requests" \notin risks' PROVE RowsOK'
      BY DEF RowsOK
  <2>1. ui.step \notin {"sort", "count"}
    BY <1>3, NoRaceYet DEF Refreshing, Answering
  <2>2. InView(requests, Count) /\ AreOpen(open, Count, Txt)
    BY <1>3, <2>1, NoRaceYet DEF Settled
  <2>3. InView(requests', Count') /\ AreOpen(open', Count', Txt')
    BY <1>1, <1>6, <2>2 DEF InView, AreOpen
  <2>4. requests'.shown \cap 0..(thread'.row - 1) = {}
    BY <1>4
  <2> QED BY <1>1, <1>3, <1>4, <2>1, <2>3, <2>4 DEF RowsOK
<1>8. Label'
  BY <1>1, <1>2, <1>3, LabelKept
<1> QED BY <1>1, <1>5, <1>6, <1>7, <1>8, NoNewCrash, LauncherInvParts

\* The next round of a loop.
LEMMA NextRowMove ==
    ASSUME LauncherInv, NEW step, NEW last \in Nat, NEW after \in ThreadSteps,
           NextRow(step, last, after)
    PROVE  /\ ~crashed /\ thread.step = step /\ thread' \in ThreadType
           /\ thread.row = last => /\ thread'.step = after /\ thread'.row = 0
                                   /\ after # "recv" => thread'.msg = thread.msg
           /\ thread.row # last => /\ thread'.step = step /\ thread'.row = thread.row + 1
                                   /\ thread'.msg = thread.msg
<1>1. thread \in ThreadType /\ <<>> \in Messages
  BY DEF LauncherInv, ThreadTypes, ThreadType, Messages
<1>2. CASE thread.row = last
  BY <1>1, <1>2 DEF NextRow, ThreadType
<1>3. CASE thread.row # last
  BY <1>1, <1>3 DEF NextRow, ThreadType
<1> QED BY <1>2, <1>3

LEMMA ClearRowStep ==
    ASSUME LauncherInv, Risk, ClearRow
    PROVE  LauncherInv'
<1> DEFINE i == thread.row
<1>1. /\ ui' = ui /\ open' = open /\ crashed' \in Race /\ hides' = hides /\ offset' = offset
      /\ requests' = [requests EXCEPT !.Friend_Request_List[i] = "",
                                      !.Current_Friend_Request_Count = 0,
                                      !.shown = @ \ {i}]
      /\ NextRow("clear", Rows - 1, "fill")
  BY DEF ClearRow, result
<1>2. _Current_Visible_State' = _Current_Visible_State
  BY DEF ClearRow, result
<1>3. Rows - 1 \in Nat /\ "fill" \in ThreadSteps
  BY RowsNat DEF ThreadSteps
<1>4. /\ ~crashed /\ thread.step = "clear" /\ thread' \in ThreadType
      /\ i = Rows - 1 => thread'.step = "fill" /\ thread'.row = 0 /\ thread'.msg = thread.msg
      /\ i # Rows - 1 => thread'.step = "clear" /\ thread'.row = i + 1 /\ thread'.msg = thread.msg
  BY <1>1, <1>3, NextRowMove
<1>5. i \in Nat /\ i < Rows /\ thread.msg # <<>> /\ thread.msg \in Seq(Names)
  BY <1>4, LauncherAssumption DEF LauncherInv, Positions, ThreadTypes, Messages
<1>6. UITypes' /\ ThreadTypes' /\ Positions'
  BY <1>1, <1>4, <1>5, RowsNat, ThreadPosition
<1>7. RequestTypes' /\ Count' = 0 /\ requests'.shown = requests.shown \ {i}
  <2> DEFINE F == [FRL EXCEPT ![i] = ""]
  <2>1. F \in Texts
    BY RequestParts DEF Texts
  <2>2. requests' = [Friend_Request_List |-> F, text |-> Txt,
                     shown |-> requests.shown \ {i}, Current_Friend_Request_Count |-> 0,
                     hidden |-> requests.hidden]
    BY <1>1 DEF LauncherInv, RequestTypes, FRL, Txt
  <2>3. requests.shown \ {i} \in SUBSET Indexes
    BY RequestParts
  <2> HIDE DEF F
  <2> QED BY <2>1, <2>2, <2>3, RequestParts, RequestRecord
<1>8. RowsOK'
  <2> SUFFICES ASSUME ~crashed', "requests" \notin risks' PROVE RowsOK'
      BY DEF RowsOK
  <2>1. ui.step \notin {"sort", "count"}
    BY <1>4, NoRaceYet DEF Refreshing, Answering
  <2>2. requests.shown \cap 0..(i - 1) = {} /\ requests.shown \in SUBSET Indexes
    BY <1>4, NoRaceYet, RequestParts
  <2>3. CASE i # Rows - 1
    <3>1. requests'.shown \cap 0..(thread'.row - 1) = {}
      BY <1>4, <1>5, <1>7, <2>2, <2>3
    <3> QED BY <1>1, <1>4, <1>7, <2>1, <2>3, <3>1 DEF RowsOK, Settled
  <2>4. CASE i = Rows - 1
    <3>1. requests'.shown = {}
      BY <1>4, <1>5, <1>7, <2>2, <2>4, RowsNat DEF Indexes
    <3>2. InView(requests', 0)
      BY <1>7, <3>1, RowsNat DEF InView, Count
    <3>3. InView(requests', thread'.row)
      BY <1>4, <2>4, <3>2 DEF InView
    <3> QED BY <1>1, <1>4, <2>1, <2>4, <3>3 DEF RowsOK, Settled
  <2> QED BY <2>3, <2>4
<1>9. Label'
  BY <1>1, <1>2, <1>4, LabelKept
<1> QED BY <1>1, <1>4, <1>6, <1>7, <1>8, <1>9, RaceRecorded, LauncherInvParts

LEMMA FillRowStep ==
    ASSUME LauncherInv, Risk, FillRow
    PROVE  LauncherInv'
<1> DEFINE i == thread.row
           m == thread.msg
           name == m[i + 1]
           last == Len(m) - 1
<1>1. /\ ui' = ui /\ hides' = hides /\ offset' = offset
      /\ open' = (IF i = last THEN ToSet(m) ELSE {})
      /\ NextRow("fill", last, "recv")
      /\ \/ i > LastIndex /\ crashed' \in Race /\ requests' = requests
         \/ i <= LastIndex /\ i >= Rows /\ crashed' = TRUE /\ requests' = requests
         \/ /\ i < Rows /\ crashed' \in Race
            /\ requests' = [requests EXCEPT !.Friend_Request_List[i] = name,
                               !.text[i] = name, !.shown = @ \cup {i},
                               !.Current_Friend_Request_Count = @ + 1]
  <2>1. i \in Nat
    BY DEF LauncherInv, ThreadTypes
  <2> QED BY <2>1, RowsNat DEF FillRow, result
<1>2. _Current_Visible_State' = _Current_Visible_State
  BY DEF FillRow, result
<1>3. /\ thread.step = "fill" /\ ~crashed
  BY <1>1 DEF NextRow
<1>4. /\ i \in Nat /\ m \in Seq(Names) /\ Len(m) \in Nat /\ i < Len(m) /\ last \in Nat
      /\ name \in Names /\ i + 1 \in 1..Len(m)
      /\ \A j, k \in 1..Len(m) : m[j] = m[k] => j = k
  <2>1. i \in Nat /\ m \in Messages /\ i < Len(m)
    BY <1>3 DEF LauncherInv, Positions, ThreadTypes
  <2>2. m \in Updates
    BY <2>1 DEF Messages
  <2>3. m \in Seq(Names) /\ \A j, k \in 1..Len(m) : m[j] = m[k] => j = k
    BY <2>2, LauncherAssumption
  <2>4. Len(m) \in Nat /\ i + 1 \in 1..Len(m) /\ last \in Nat
    BY <2>1, <2>3
  <2>5. name \in Names
    BY <2>3, <2>4
  <2> QED BY <2>1, <2>3, <2>4, <2>5
<1>5. /\ thread' \in ThreadType
      /\ i = last => thread'.step = "recv" /\ thread'.row = 0
      /\ i # last => thread'.step = "fill" /\ thread'.row = i + 1 /\ thread'.msg = m
  BY <1>1, <1>4, NextRowMove DEF ThreadSteps
<1>6. UITypes' /\ ThreadTypes' /\ Positions'
  BY <1>1, <1>4, <1>5, ThreadPosition
<1>7. Label'
  BY <1>1, <1>2, <1>3, <1>5, LabelKept
<1>8. crashed' \in BOOLEAN /\ CrashNeedsRisk'
  <2>1. CASE crashed' \in Race
    BY <1>3, <2>1, RaceRecorded
  <2>2. CASE crashed' = TRUE /\ i >= Rows
    <3>1. Len(m) > Rows
      BY <1>4, <2>2, RowsNat
    <3>2. "overfull" \in risks'
      BY <3>1, RiskStep DEF LauncherInv, Recorded
    <3> QED BY <2>2, <3>2 DEF CrashNeedsRisk
  <2> QED BY <1>1, <2>1, <2>2
<1>9. CASE i < Rows
  <2> DEFINE F == [FRL EXCEPT ![i] = name]
             T == [Txt EXCEPT ![i] = name]
  <2>1. F \in Texts /\ T \in Texts
    BY <1>4, RequestParts DEF Texts
  <2>2. requests.shown \cup {i} \in SUBSET Indexes /\ Count + 1 \in Int
    BY <1>4, <1>9, RequestParts, RowsNat DEF Indexes
  <2>3. requests' = [Friend_Request_List |-> F, text |-> T, shown |-> requests.shown \cup {i},
                     Current_Friend_Request_Count |-> Count + 1, hidden |-> requests.hidden]
    <3>1. requests' = [requests EXCEPT !.Friend_Request_List[i] = name,
                          !.text[i] = name, !.shown = @ \cup {i},
                          !.Current_Friend_Request_Count = @ + 1]
      BY <1>1, <1>4, <1>9, RowsNat
    <3> QED BY <3>1 DEF LauncherInv, RequestTypes, FRL, Txt, Count
  <2> HIDE DEF F, T
  <2>4. RequestTypes' /\ FRL' = F /\ Txt' = T /\ requests'.shown = requests.shown \cup {i}
        /\ Count' = Count + 1
    BY <2>1, <2>2, <2>3, RequestParts, RequestRecord
  <2>5. RowsOK'
    <3> SUFFICES ASSUME ~crashed', "requests" \notin risks' PROVE RowsOK'
        BY DEF RowsOK
    <3>1. ui.step \notin {"sort", "count"}
      BY <1>3, NoRaceYet DEF Refreshing, Answering
    <3>2. InView(requests, i) /\ \A j \in 0..(i - 1) : Txt[j] = m[j + 1]
      BY <1>3, NoRaceYet
    <3>3. i \in Indexes /\ \A j \in 0..i : j \in Indexes
      BY <1>4, <1>9, RowsNat DEF Indexes
    <3>4. \A j \in 0..i : FRL'[j] = m[j + 1] /\ Txt'[j] = m[j + 1]
      <4> SUFFICES ASSUME NEW j \in 0..i PROVE FRL'[j] = m[j + 1] /\ Txt'[j] = m[j + 1]
          OBVIOUS
      <4>1. j = i \/ j \in 0..(i - 1)
        BY <1>4
      <4>2. j = i => F[j] = name /\ T[j] = name
        BY <3>3, RequestParts DEF Texts, F, T
      <4>3. j # i => F[j] = FRL[j] /\ T[j] = Txt[j]
        BY <3>3, RequestParts DEF Texts, F, T
      <4>4. j \in 0..(i - 1) => FRL[j] = m[j + 1] /\ Txt[j] = m[j + 1]
        BY <3>2 DEF InView, FRL, Txt
      <4>5. CASE j = i
        BY <2>4, <4>2, <4>5
      <4>6. CASE j # i
        BY <2>4, <4>1, <4>3, <4>4, <4>6
      <4> QED BY <4>5, <4>6
    <3>5. InView(requests', i + 1)
      <4>1. 0..i = 0..(i - 1) \cup {i} /\ (i + 1) - 1 = i
        BY <1>4
      <4>2. requests'.shown = 0..i /\ Count' = i + 1
        BY <2>4, <3>2, <4>1 DEF InView, Count
      <4>3. i + 1 \in 0..Rows
        BY <1>4, <1>9, RowsNat
      <4>4. \A j \in 0..i : FRL'[j] = Txt'[j]
        BY <3>4
      <4> QED BY <4>1, <4>2, <4>3, <4>4 DEF InView, FRL, Txt, Count
    <3>6. CASE i # last
      <4>1. InView(requests', thread'.row)
        BY <1>5, <3>5, <3>6
      <4>2. \A j \in 0..(thread'.row - 1) : Txt'[j] = thread'.msg[j + 1]
        BY <1>4, <1>5, <3>4, <3>6
      <4> QED BY <1>1, <1>5, <3>1, <3>6, <4>1, <4>2 DEF RowsOK, Settled
    <3>7. CASE i = last
      <4>1. Count' = i + 1 /\ InView(requests', Count')
        BY <3>5 DEF InView, Count
      <4>2. open' = ToSet(m) /\ Len(m) = i + 1
        BY <1>1, <1>4, <3>7
      <4>3. ToSet(m) = {m[k] : k \in 1..(i + 1)}
        BY <1>4, <4>2 DEF ToSet
      <4>4. {m[k] : k \in 1..(i + 1)} = {Txt'[j] : j \in 0..i}
        <5>1. \A k \in 1..(i + 1) : k - 1 \in 0..i /\ Txt'[k - 1] = m[k]
          BY <1>4, <3>4
        <5>2. \A j \in 0..i : j + 1 \in 1..(i + 1) /\ Txt'[j] = m[j + 1]
          BY <1>4, <3>4
        <5> QED BY <5>1, <5>2
      <4>5. ASSUME NEW j \in 0..i, NEW k \in 0..i, Txt'[j] = Txt'[k] PROVE j = k
        <5>1. j + 1 \in 1..Len(m) /\ k + 1 \in 1..Len(m)
          BY <1>4, <4>2
        <5>2. m[j + 1] = m[k + 1]
          BY <3>4, <4>5
        <5>3. j + 1 = k + 1
          BY <1>4, <5>1, <5>2
        <5> QED BY <5>3
      <4>6. (i + 1) - 1 = i
        BY <1>4
      <4>7. AreOpen(open', Count', Txt')
        BY <4>1, <4>2, <4>3, <4>4, <4>5, <4>6 DEF AreOpen
      <4> QED BY <1>1, <1>5, <3>1, <3>7, <4>1, <4>7 DEF RowsOK, Settled
    <3> QED BY <3>6, <3>7
  <2> QED BY <1>6, <1>7, <1>8, <2>4, <2>5, LauncherInvParts
<1>10. CASE i >= Rows
  <2>1. requests' = requests
    BY <1>1, <1>4, <1>10, RowsNat
  <2>2. RequestTypes'
    BY <2>1 DEF LauncherInv, RequestTypes
  <2>3. RowsOK'
    <3> SUFFICES ASSUME ~crashed', "requests" \notin risks' PROVE FALSE
        BY DEF RowsOK
    <3>1. InView(requests, i)
      BY <1>3, NoRaceYet
    <3>2. i = Rows
      BY <1>4, <1>10, <3>1, RowsNat DEF InView
    <3>3. crashed' = TRUE
      BY <1>1, <1>4, <3>2, RowsNat
    <3> QED BY <3>3
  <2> QED BY <1>6, <1>7, <1>8, <2>2, <2>3, LauncherInvParts
<1> QED BY <1>4, <1>9, <1>10, RowsNat

-----------------------------------------------------------------------------
(* The user interface and the rows.                                        *)

LEMMA PushRequestStep ==
    ASSUME LauncherInv, Risk, NEW i \in Indexes, PushRequestButton(i)
    PROVE  LauncherInv'
<1>1. /\ ~crashed /\ ui.step = "idle" /\ thread' = thread /\ requests' = requests
      /\ hides' = hides /\ offset' = offset /\ i \in requests.shown
      /\ open' = open \ {FRL[i]}
      /\ ui' = [step |-> IF i < Rows - 1 THEN "sort" ELSE "count", row |-> i]
      /\ crashed' \in IF Refreshing(thread) THEN BOOLEAN ELSE {FALSE}
  BY DEF PushRequestButton, result, FRL
<1>2. _Current_Visible_State' = _Current_Visible_State
  BY DEF PushRequestButton, result
<1>3. /\ ui' \in UIType /\ ui'.row = i
      /\ ui'.step = IF i < Rows - 1 THEN "sort" ELSE "count"
  BY <1>1 DEF UIType, UISteps
<1>4. UITypes' /\ ThreadTypes' /\ Positions'
  BY <1>1, <1>3, UIPosition, RowsNat DEF Indexes
<1>5. Label'
  BY <1>1, <1>2, <1>3, LabelKept
<1>6. crashed' \in BOOLEAN /\ CrashNeedsRisk'
  <2>1. crashed' => Refreshing(thread') /\ Answering(ui')
    BY <1>1, <1>3 DEF Answering
  <2>2. crashed' => "requests" \in risks'
    BY <2>1, RiskStep DEF Recorded
  <2> QED BY <1>1, <2>2 DEF CrashNeedsRisk
<1>7. RequestTypes' /\ Count' = Count /\ Txt' = Txt
  BY <1>1 DEF LauncherInv, RequestTypes, Count, Txt
<1>8. RowsOK'
  <2> SUFFICES ASSUME ~crashed', "requests" \notin risks' PROVE RowsOK'
      BY DEF RowsOK
  <2>1. ~Refreshing(thread)
    BY <1>1, <1>3, NoRaceYet DEF Answering
  <2>2. InView(requests, Count) /\ AreOpen(open, Count, Txt)
    BY <1>1, <2>1, NoRaceYet DEF Settled, Refreshing
  <2>3. /\ Count \in 0..Rows /\ i \in 0..(Count - 1) /\ FRL[i] = Txt[i]
        /\ i \in Nat /\ i < Count /\ Count > 0 /\ Count <= Rows /\ Count \in Nat
    BY <1>1, <2>2, RowsNat DEF InView, FRL, Txt, Indexes
  <2> DEFINE C == Closed(Txt, i)
  <2>4. \A j \in 0..(Count - 2) :
           /\ j < i => C[j] = Txt[j]
           /\ j >= i => C[j] = Txt[j + 1]
    BY <2>3, RowsNat DEF Closed
  <2>5. open' = {C[j] : j \in 0..(Count - 2)}
    <3>1. ASSUME NEW j \in 0..(Count - 2) PROVE C[j] \in open'
      <4>1. j \in 0..(Count - 1) /\ j + 1 \in 0..(Count - 1)
        BY <2>3
      <4>2. CASE j < i
        <5>1. C[j] = Txt[j] /\ j # i
          BY <2>3, <2>4, <4>2
        <5> QED BY <1>1, <2>2, <2>3, <4>1, <5>1 DEF AreOpen
      <4>3. CASE j >= i
        <5>1. C[j] = Txt[j + 1] /\ j + 1 # i
          BY <2>3, <2>4, <4>3
        <5> QED BY <1>1, <2>2, <2>3, <4>1, <5>1 DEF AreOpen
      <4> QED BY <2>3, <4>2, <4>3
    <3>2. ASSUME NEW x \in open' PROVE x \in {C[j] : j \in 0..(Count - 2)}
      <4>1. PICK k \in 0..(Count - 1) : x = Txt[k]
        BY <1>1, <2>2 DEF AreOpen
      <4>2. k # i
        BY <1>1, <2>3, <4>1
      <4>3. CASE k < i
        <5>1. k \in 0..(Count - 2) /\ C[k] = Txt[k]
          BY <2>3, <2>4, <4>3
        <5> QED BY <4>1, <5>1
      <4>4. CASE k > i
        <5>1. k - 1 \in 0..(Count - 2) /\ k - 1 >= i /\ (k - 1) + 1 = k
          BY <2>3, <4>4
        <5>2. C[k - 1] = Txt[k]
          BY <2>4, <5>1
        <5> QED BY <4>1, <5>1, <5>2
      <4> QED BY <2>3, <4>2, <4>3, <4>4
    <3> QED BY <3>1, <3>2
  <2>6. ASSUME NEW j \in 0..(Count - 2), NEW k \in 0..(Count - 2), C[j] = C[k]
        PROVE  j = k
    <3> DEFINE at(n) == IF n < i THEN n ELSE n + 1
    <3>1. /\ at(j) \in 0..(Count - 1) /\ C[j] = Txt[at(j)]
          /\ at(k) \in 0..(Count - 1) /\ C[k] = Txt[at(k)]
      BY <2>3, <2>4
    <3>2. at(j) = at(k)
      BY <2>2, <2>6, <3>1 DEF AreOpen
    <3> QED BY <2>3, <3>2
  <2>7. (Count - 1) - 1 = Count - 2
    BY <2>3
  <2>8. AreOpen(open', Count - 1, C)
    BY <2>5, <2>6, <2>7 DEF AreOpen
  <2>9. InView(requests', Count') /\ Count' > 0 /\ AreOpen(open', Count' - 1, Closed(Txt', ui'.row))
    BY <1>1, <1>3, <1>7, <2>2, <2>3, <2>8
  <2>10. thread'.step \notin {"clear", "fill"} /\ ~Settled'
    BY <1>1, <1>3, <2>1 DEF Refreshing, Settled
  <2> QED BY <2>9, <2>10 DEF RowsOK
<1> QED BY <1>4, <1>5, <1>6, <1>7, <1>8, LauncherInvParts

LEMMA SortRowStep ==
    ASSUME LauncherInv, Risk, SortRow
    PROVE  LauncherInv'
<1> DEFINE i == ui.row
           name == FRL[i + 1]
           F == [FRL EXCEPT ![i] = name]
           T == [Txt EXCEPT ![i] = name]
<1>1. /\ ~crashed /\ ui.step = "sort" /\ thread' = thread /\ open' = open
      /\ hides' = hides /\ offset' = offset /\ crashed' \in Race
      /\ ui' = [step |-> IF i < Rows - 2 THEN "sort" ELSE "count", row |-> i + 1]
      /\ requests' = [requests EXCEPT !.Friend_Request_List[i] = name, !.text[i] = name]
  BY DEF SortRow, result, FRL
<1>2. _Current_Visible_State' = _Current_Visible_State
  BY DEF SortRow, result
<1>3. i \in Nat /\ i < Rows - 1 /\ i \in Indexes /\ i + 1 \in Indexes
  BY <1>1, RowsNat DEF LauncherInv, UITypes, Positions, Indexes
<1>4. /\ ui' \in UIType /\ ui'.row = i + 1
      /\ ui'.step = IF i < Rows - 2 THEN "sort" ELSE "count"
  BY <1>1, <1>3 DEF UIType, UISteps
<1>5. UITypes' /\ ThreadTypes' /\ Positions'
  BY <1>1, <1>3, <1>4, UIPosition, RowsNat
<1>6. Label'
  BY <1>1, <1>2, <1>4, LabelKept
<1>7. crashed' \in BOOLEAN /\ CrashNeedsRisk'
  BY <1>1, RaceRecorded
<1>8. F \in Texts /\ T \in Texts
  BY <1>3, RequestParts DEF Texts
<1>9. requests' = [Friend_Request_List |-> F, text |-> T, shown |-> requests.shown,
                   Current_Friend_Request_Count |-> Count, hidden |-> requests.hidden]
  BY <1>1 DEF LauncherInv, RequestTypes, FRL, Txt, Count
<1>10. /\ \A j \in Indexes : j # i => F[j] = FRL[j] /\ T[j] = Txt[j]
       /\ F[i] = name /\ T[i] = name
  BY <1>3, RequestParts DEF Texts
<1> HIDE DEF F, T
<1>11. /\ RequestTypes' /\ FRL' = F /\ Txt' = T /\ requests'.shown = requests.shown
       /\ Count' = Count
  BY <1>8, <1>9, RequestParts, RequestRecord
<1>12. RowsOK'
  <2> SUFFICES ASSUME ~crashed', "requests" \notin risks' PROVE RowsOK'
      BY DEF RowsOK
  <2>1. thread.step \notin {"clear", "fill"}
    BY <1>1, NoRaceYet DEF Answering, Refreshing
  <2>2. InView(requests, Count) /\ Count > 0 /\ AreOpen(open, Count - 1, Closed(Txt, i))
    BY <1>1, NoRaceYet
  <2>3. /\ Count \in Nat /\ Count <= Rows /\ \A j \in 0..(Count - 1) : FRL[j] = Txt[j] /\ j \in Indexes
    BY <2>2, RowsNat DEF InView, FRL, Txt, Indexes
  <2>4. \A j \in 0..(Count - 1) : F[j] = T[j]
    BY <1>10, <2>3
  <2>5. InView(requests', Count')
    BY <1>11, <2>2, <2>4 DEF InView, FRL, Txt, Count
  <2>6. ASSUME NEW j \in 0..(Count - 2)
        PROVE  Closed(T, i + 1)[j] = Closed(Txt, i)[j]
    <3>0. j \in 0..(Rows - 2) /\ j \in Indexes /\ j + 1 \in Indexes /\ j + 1 \in 0..(Count - 1)
      BY <2>3, RowsNat DEF Indexes
    <3>1. Closed(T, i + 1)[j] = IF j < i + 1 THEN T[j] ELSE T[j + 1]
      BY <3>0 DEF Closed
    <3>2. Closed(Txt, i)[j] = IF j < i THEN Txt[j] ELSE Txt[j + 1]
      BY <3>0 DEF Closed
    <3>3. CASE j < i
      BY <1>3, <1>10, <3>0, <3>1, <3>2, <3>3
    <3>4. CASE j = i
      <4>1. T[j] = FRL[j + 1] /\ FRL[j + 1] = Txt[j + 1]
        BY <1>10, <2>3, <3>0, <3>4
      <4> QED BY <1>3, <3>1, <3>2, <3>4, <4>1
    <3>5. CASE j > i
      <4>1. T[j + 1] = Txt[j + 1]
        BY <1>3, <1>10, <3>0, <3>5
      <4> QED BY <1>3, <3>0, <3>1, <3>2, <3>5, <4>1
    <3> QED BY <1>3, <3>0, <3>3, <3>4, <3>5
  <2>7. (Count - 1) - 1 = Count - 2
    BY <2>3
  <2>8. AreOpen(open', Count - 1, Closed(T, i + 1))
    BY <1>1, <2>2, <2>6, <2>7 DEF AreOpen
  <2>9. Count' > 0 /\ AreOpen(open', Count' - 1, Closed(Txt', ui'.row))
    BY <1>4, <1>11, <2>2, <2>8
  <2>10. ~Settled'
    BY <1>4 DEF Settled
  <2> QED BY <1>1, <2>1, <2>5, <2>9, <2>10 DEF RowsOK
<1> QED BY <1>5, <1>6, <1>7, <1>11, <1>12, LauncherInvParts

LEMMA SortCountStep ==
    ASSUME LauncherInv, Risk, SortCount
    PROVE  LauncherInv'
<1> DEFINE k == Count - 1
<1>1. /\ ~crashed /\ ui.step = "count" /\ thread' = thread /\ open' = open
      /\ hides' = hides /\ offset' = offset
      /\ ui' = [step |-> "idle", row |-> 0]
      /\ requests' = [requests EXCEPT !.Current_Friend_Request_Count = k, !.shown = @ \ {k}]
      /\ IF k \in 0..(Rows - 1) THEN crashed' \in Race ELSE crashed' = TRUE
  BY DEF SortCount, result, Count
<1>2. _Current_Visible_State' = _Current_Visible_State
  BY DEF SortCount, result
<1>3. ui' \in UIType /\ ui'.row = 0 /\ ui'.step = "idle"
  BY <1>1, RowsNat DEF UIType, UISteps, Indexes
<1>4. UITypes' /\ ThreadTypes' /\ Positions'
  BY <1>1, <1>3, UIPosition
<1>5. Label'
  BY <1>1, <1>2, <1>3, LabelKept
<1>6. /\ RequestTypes' /\ FRL' = FRL /\ Txt' = Txt /\ requests'.shown = requests.shown \ {k}
      /\ Count' = k
  <2>1. requests' = [Friend_Request_List |-> FRL, text |-> Txt, shown |-> requests.shown \ {k},
                     Current_Friend_Request_Count |-> k, hidden |-> requests.hidden]
    BY <1>1 DEF LauncherInv, RequestTypes, FRL, Txt
  <2>2. requests.shown \ {k} \in SUBSET Indexes /\ k \in Int
    BY RequestParts
  <2> HIDE DEF k
  <2> QED BY <2>1, <2>2, RequestParts, RequestRecord
<1>7. ui.row = Rows - 1
  BY <1>1 DEF LauncherInv, Positions
<1>8. ASSUME "requests" \notin risks'
      PROVE  /\ k \in 0..(Rows - 1) /\ thread.step \notin {"clear", "fill"}
             /\ InView(requests, Count) /\ AreOpen(open, k, Closed(Txt, Rows - 1))
  <2>1. InView(requests, Count) /\ Count > 0 /\ AreOpen(open, k, Closed(Txt, Rows - 1))
    BY <1>1, <1>7, <1>8, NoRaceYet
  <2>2. k \in 0..(Rows - 1)
    BY <2>1, RowsNat DEF InView
  <2>3. thread.step \notin {"clear", "fill"}
    BY <1>1, <1>8, NoRaceYet DEF Answering, Refreshing
  <2> QED BY <2>1, <2>2, <2>3
<1>9. crashed' \in BOOLEAN /\ CrashNeedsRisk'
  <2>1. CASE "requests" \in risks'
    <3>1. crashed' \in BOOLEAN
      BY <1>1 DEF Race
    <3> QED BY <2>1, <3>1 DEF CrashNeedsRisk
  <2>2. CASE "requests" \notin risks'
    BY <1>1, <1>8, <2>2, RaceRecorded
  <2> QED BY <2>1, <2>2
<1>10. RowsOK'
  <2> SUFFICES ASSUME ~crashed', "requests" \notin risks' PROVE RowsOK'
      BY DEF RowsOK
  <2>1. k \in Nat /\ k <= Rows - 1 /\ Count = k + 1
    BY <1>8, RowsNat, RequestParts
  <2>2. requests.shown = 0..k /\ \A j \in 0..k : FRL[j] = Txt[j]
    BY <1>8, <2>1 DEF InView, FRL, Txt, Count
  <2>3. requests'.shown = 0..(k - 1)
    BY <1>6, <2>1, <2>2
  <2>4. InView(requests', Count')
    BY <1>6, <2>1, <2>2, <2>3, RowsNat DEF InView, FRL, Txt, Count
  <2>5. \A j \in 0..(k - 1) : Closed(Txt, Rows - 1)[j] = Txt[j]
    BY <2>1, RowsNat DEF Closed
  <2>6. AreOpen(open', k, Txt')
    BY <1>1, <1>6, <1>8, <2>5 DEF AreOpen
  <2> QED BY <1>1, <1>3, <1>6, <1>8, <2>4, <2>6 DEF RowsOK
<1> QED BY <1>4, <1>5, <1>6, <1>9, <1>10, LauncherInvParts

-----------------------------------------------------------------------------
(* The theorems.                                                           *)

LEMMA LauncherNext == LauncherInv /\ [Next]_vars => LauncherInv'
<1> SUFFICES ASSUME LauncherInv, [Next]_vars PROVE LauncherInv'
    OBVIOUS
<1>1. CASE UNCHANGED vars
  <2>1. UNCHANGED <<ui, thread, requests, open, crashed, risks, hides, offset>>
    BY <1>1 DEF vars, result, friends
  <2>2. _Current_Visible_State' = _Current_Visible_State
    BY <1>1 DEF vars, result
  <2>3. Label'
    BY <2>1, <2>2, LabelKept
  <2>4. (/\ UITypes /\ ThreadTypes /\ RequestTypes /\ crashed \in BOOLEAN
         /\ Positions /\ Recorded /\ CrashNeedsRisk)'
    BY <2>1 DEF LauncherInv, UITypes, ThreadTypes, RequestTypes, Positions, Recorded,
                CrashNeedsRisk
  <2>5. RowsOK'
    <3>1. Count' = Count /\ Txt' = Txt
      BY <2>1 DEF Count, Txt
    <3> QED BY <2>1, <3>1 DEF LauncherInv, RowsOK, Settled
  <2> QED BY <2>3, <2>4, <2>5 DEF LauncherInv
<1>2. CASE Next
  <2>1. Risk
    BY <1>2 DEF Next
  <2>2. CASE UserInterface
    BY <2>1, <2>2, UISteps1, UISteps2, SortRowStep, SortCountStep DEF UserInterface
  <2>3. CASE RecvServerPacket
    BY <2>1, <2>3, ThreadSteps1, RecvStep, RefreshHeadStep, ClearRowStep, FillRowStep
       DEF RecvServerPacket
  <2>4. CASE User
    BY <2>1, <2>4, UISteps1, PushRequestStep DEF User, Indexes
  <2>5. CASE GameExits \/ Tick
    BY <2>1, <2>5, OtherSteps
  <2> QED BY <1>2, <2>2, <2>3, <2>4, <2>5 DEF Next
<1> QED BY <1>1, <1>2

\* The inductive invariant of the window: what the rows, the names and the layout are at each
\* step of the two threads as long as no risk has been taken.
THEOREM LauncherInvariant == Spec => []LauncherInv
BY LauncherInit, LauncherNext, PTL DEF Spec

\* However HideUI and VisibleUI interleave, every move of the friend list down is matched by a
\* hide that is queued or still to come, for any number of results shown.
THEOREM LauncherUIBalanced == Spec => []UIBalanced
<1>1. LauncherInv => UIBalanced
  BY DEF LauncherInv, Label
<1> QED BY <1>1, LauncherInvariant, PTL

\* The window dies only of a button pushed during an update or of an update with more requests
\* than rows.
THEOREM LauncherCrashNeedsRisk == Spec => []CrashNeedsRisk
<1>1. LauncherInv => CrashNeedsRisk
  BY DEF LauncherInv
<1> QED BY <1>1, LauncherInvariant, PTL

\* n different texts are n.
LEMMA CountTexts ==
    ASSUME NEW o, NEW n \in Nat, NEW text, AreOpen(o, n, text)
    PROVE  Cardinality(o) = n
<1> DEFINE f == [j \in 0..(n - 1) |-> text[j]]
<1>1. f \in Surjection(0..(n - 1), o)
  BY DEF AreOpen, Surjection
<1>2. f \in Injection(0..(n - 1), o)
  BY <1>1 DEF AreOpen, Injection, IsInjective, Surjection
<1>3. IsFiniteSet(0..(n - 1)) /\ Cardinality(0..(n - 1)) = n
  BY FS_Interval
<1> HIDE DEF f
<1> QED BY <1>1, <1>2, <1>3, FS_Surjection

\* Between the handlers the rows that are shown are the requests that are open, each once, and a row's
\* button answers the name it shows.
THEOREM LauncherShowsOpenRequests == Spec => []ShowsOpenRequests
<1>1. LauncherInv => ShowsOpenRequests
  <2> SUFFICES ASSUME LauncherInv, ~crashed, "requests" \notin risks,
                      ~Refreshing(thread), ~Answering(ui)
               PROVE  /\ requests.shown = 0..(Count - 1)
                      /\ {Txt[i] : i \in requests.shown} = open
                      /\ Cardinality(open) = Count
                      /\ \A i \in requests.shown : Txt[i] = FRL[i]
      BY DEF ShowsOpenRequests, Count, Txt, FRL
  <2>1. InView(requests, Count) /\ AreOpen(open, Count, Txt)
    BY DEF LauncherInv, RowsOK, Settled, Refreshing, Answering
  <2>2. Count \in Nat
    BY <2>1, RowsNat DEF InView
  <2>3. Cardinality(open) = Count
    BY <2>1, <2>2, CountTexts
  <2>4. requests.shown = 0..(Count - 1) /\ \A i \in requests.shown : Txt[i] = FRL[i]
    BY <2>1 DEF InView, Txt, FRL
  <2> QED BY <2>1, <2>3, <2>4 DEF AreOpen
<1> QED BY <1>1, LauncherInvariant, PTL
=============================================================================
