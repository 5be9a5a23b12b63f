----------------------------- MODULE Friendship -----------------------------
(***************************************************************************)
(* What DHDB promises about accounts and friends, with every operation one *)
(* step: a user asks another one, a pair that has a request becomes        *)
(* friends, and everything about a user is forgotten at once.  Once        *)
(* broken, nothing is promised.                                            *)
(***************************************************************************)
CONSTANT Users

VARIABLES
    accounts,   \* the users that have an account
    asks,       \* <<u, f>>: u has asked f and has no answer
    friends,    \* {u, f}: u and f are friends
    broken

Related(u, f) == <<u, f>> \in asks \/ <<f, u>> \in asks \/ {u, f} \in friends

Init == accounts = {} /\ asks = {} /\ friends = {} /\ broken = FALSE

Create(u) == accounts' = accounts \cup {u} /\ UNCHANGED <<asks, friends>>

Ask(u, f) ==
    /\ ~Related(u, f)
    /\ asks' = asks \cup {<<u, f>>}
    /\ UNCHANGED <<accounts, friends>>

Befriend(u, f) ==
    /\ Related(u, f)
    /\ asks' = asks \ {<<u, f>>, <<f, u>>}
    /\ friends' = friends \cup {{u, f}}
    /\ UNCHANGED accounts

Forget(u) ==
    /\ asks' = {a \in asks : u \notin {a[1], a[2]}}
    /\ friends' = {p \in friends : u \notin p}

Refuse(u) == Forget(u) /\ UNCHANGED accounts

Delete(u) == Forget(u) /\ accounts' = accounts \ {u}

Break ==
    /\ broken' = TRUE
    /\ accounts' \subseteq Users /\ asks' \subseteq Users \X Users
    /\ friends' \subseteq SUBSET Users

Next ==
    \/ /\ ~broken /\ UNCHANGED broken
       /\ \E u, f \in Users :
             Create(u) \/ Ask(u, f) \/ Befriend(u, f) \/ Refuse(u) \/ Delete(u)
    \/ Break

Spec == Init /\ [][Next]_<<accounts, asks, friends, broken>>
=============================================================================
