------------------------------ MODULE Printing ------------------------------
(* What a program can print at any time: its states, and what its          *)
(* propagators hold (ToYAML of llblib, which changes nothing).             *)
EXTENDS Building, YamlDocument

\* A definition of Scratch, on which visit panics.
BuildsScratch(out) == \E v \in Vertices(out) : v.op = "build" /\ v.def[1] = Scratch

DumpVars ==
    {[i \in 1..2 |-> st[vs[i]].out] : vs \in {ws \in Pairs : \E i \in 1..2 : cur = ws[i]}}

\* The root and a mount, in either order.
DumpMounts ==
    LET called == {p \in Propagators : cur = p /\ pm[p] # Nothing}
        mount(p, d) == GetMount(maps[pm[p].states], d).out
    IN  {<<mount(p, d), pm[p].root.out>> : p \in called, d \in Mountpoints} \cup
        {<<pm[p].root.out, mount(p, d)>> : p \in called, d \in Mountpoints}

\* Arguments of ToYAML; not while a config is being loaded, which prints no
\* other states.
Dumps ==
    IF loaded # Nothing THEN {}
    ELSE {outs \in DumpVars \cup DumpMounts : \A i \in DOMAIN outs : ~BuildsScratch(outs[i])}
=============================================================================
