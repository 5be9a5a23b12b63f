-------------------------- MODULE MCGamePlayLauncher --------------------------
(* An instance of GamePlayLauncher for TLC: updates with no request, with as  *)
(* many as there are rows (2) and with one more.                               *)
EXTENDS GamePlayLauncher

SomeUpdates == {<<>>, <<"b", "a">>, <<"a", "b", "c">>}
===============================================================================
