-------------------------- MODULE MountPropagation --------------------------
(* mounts.go: a MountPropagator has run options with mounts, a root and a  *)
(* map from mountpoints to the states that its runs left there.  Mounts    *)
(* are bind mounts, each with an output: those of other types (tmpfs,      *)
(* cache, llb.ForceNoOutput), whose states cannot be mounted again, are    *)
(* left out.                                                               *)
EXTENDS ImageHistory

\* The map is a reference: states is its name, and the map itself an argument.
Propagator(opts, root, states) == [opts |-> opts, root |-> root, states |-> states]
NoStates == [d \in {} |-> ScratchState]

Targets(pm) == {o.name : o \in ToSet(pm.opts)}

\* Mutant: only the first run looks at what was written.
MountsAsAdded(pm, states) == ToSet(pm.opts)

\* The mounts of pm.opts with their sources replaced by what pm.states has for
\* them, as Run and AsRun hand them on (mountPropagatorRunOption).
CurrentMounts(pm, states) ==
    {[o EXCEPT !.out = IF o.name \in DOMAIN states THEN states[o.name].out ELSE @] :
        o \in ToSet(pm.opts)}

RunVertex(pm, states, arg) == ExecOp(pm.root.out, arg, CurrentMounts(pm, states))

\* Mutant: only mountpoints that are not in the map yet are stored.
MountsOnce(pm, states, v) ==
    [d \in DOMAIN states \cup Targets(pm) |->
        IF d \in DOMAIN states THEN states[d] ELSE State(MountOutput(v, d), <<>>, <<>>)]

\* The loop over mountpoints at the end of Run.  ExecState.GetMount gives a
\* state without values, so without an image config.
MountsAfter(pm, states, v) ==
    [d \in DOMAIN states \cup Targets(pm) |->
        IF d \in Targets(pm) THEN State(MountOutput(v, d), <<>>, <<>>) ELSE states[d]]

RootAfter(pm, v) == [pm EXCEPT !.root = RunExec(@, v)]

\* llb.Scratch if nothing has run on the mountpoint yet.
GetMount(states, d) == IF d \in DOMAIN states THEN states[d] ELSE ScratchState

ApplyMountTo(states, d, st) ==
    [e \in DOMAIN states \cup {d} |-> IF e = d THEN st ELSE states[e]]

\* Mutant: the copy has no map.
CopyWithoutStates(pm, to) == [pm EXCEPT !.states = "nil"]

\* Mutant: the copy has the map of the original.
CopySharesStates(pm, to) == [pm EXCEPT !.opts = @]

\* Copy, whose own map is called "to".
CopyOf(pm, to) == [pm EXCEPT !.states = to]
=============================================================================
