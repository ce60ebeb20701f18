--------------------------- MODULE SolverRegistry ---------------------------
(* What a solver promises its sessions: items are registered one by one,   *)
(* each in the place of the one of its name, and a session gets all that   *)
(* is registered at one moment.                                            *)
CONSTANTS Items, Sessions, Entry

VARIABLES
    registered,    \* the items registered so far
    snapshot       \* per session: what it was given, or Nothing

vars == <<registered, snapshot>>

\* A session that was not given anything yet; no set of items.
Nothing == {Items}

Init ==
    /\ registered = {}
    /\ snapshot = [s \in Sessions |-> Nothing]

Register(i) ==
    /\ registered' = {j \in registered : Entry[j] # Entry[i]} \cup {i}
    /\ UNCHANGED snapshot

Open(s) ==
    /\ snapshot[s] = Nothing
    /\ snapshot' = [snapshot EXCEPT ![s] = registered]
    /\ UNCHANGED registered

Next ==
    \/ \E i \in Items : Register(i)
    \/ \E s \in Sessions : Open(s)

Spec == Init /\ [][Next]_vars
=============================================================================
