----------------------------- MODULE MCBuilding -----------------------------
(* Small programs.  Variables are interchangeable, and so are propagators. *)
EXTENDS LayerProps, PrintingProps

\* Calls that build states, calls of propagators, and a few of both.
SmallPrograms == {<<3, 0>>, <<1, 1>>, <<0, 3>>}

\* A program without an image has no image config to load.
MCInit == Init /\ \E v \in Vars : st[v].config # <<>>
MCSpec == MCInit /\ [][Next]_vars

\* An image as in test-data/configs/defaultEnv.yaml: its history tells one of
\* its variables, neither the other nor its command, workdir and port.
Values(i) ==
    CASE i = "ENV" -> <<"one", "two">>
      [] i \in {"CMD", "WORKDIR", "EXPOSE"} -> <<"one">>
      [] OTHER -> <<>>

MCPulled ==
    [image \in Images |->
        [set |-> [i \in Instructions |-> Values(i)],
         history |-> <<Record("ADD", <<>>, <<>>, FALSE, NoSession),
                       Record("#(nop) CMD", <<>>, <<>>, TRUE, NoSession),
                       Record("ENV", <<"two">>, <<>>, TRUE, NoSession)>>]]

Symmetry == Permutations(Vars) \cup Permutations(Propagators)
=============================================================================
