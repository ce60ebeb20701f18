---------------------------- MODULE ImageConfigs ----------------------------
(* What resolving an image reference promises a solver: a reference is     *)
(* resolved once, and every answer given for it is that one resolution.    *)
CONSTANTS ImageKeys, Results, Unset

VARIABLES
    config,      \* per key: its resolution, or Unset
    answers      \* the pairs <<key, result>> given to callers so far

vars == <<config, answers>>

Init ==
    /\ config = [k \in ImageKeys |-> Unset]
    /\ answers = {}

Resolve(k, r) ==
    /\ config[k] = Unset
    /\ config' = [config EXCEPT ![k] = r]
    /\ UNCHANGED answers

Answer(k) ==
    /\ config[k] # Unset
    /\ answers' = answers \cup {<<k, config[k]>>}
    /\ UNCHANGED config

Next ==
    \/ \E k \in ImageKeys, r \in Results : Resolve(k, r)
    \/ \E k \in ImageKeys : Answer(k)

Spec == Init /\ [][Next]_vars
=============================================================================
