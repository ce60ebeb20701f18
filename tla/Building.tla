------------------------------ MODULE Building ------------------------------
(* A program that builds states with llblib, hands them to mount           *)
(* propagators and loads their image configs.                              *)
EXTENDS MountPropagation, FiniteSets

CONSTANTS
    Vars,          \* its variables of type llb.State
    Propagators,   \* its MountPropagators
    Mountpoints,   \* where it mounts states,
    Readonly,      \*   and which of these readonly
    Images,        \* what its variables may start as: images,
    Locals,        \*   other sources, or Scratch
    Pulled,        \* per image: the config that the resolver returns
    Keys,          \* arguments of instructions
    Kinds,         \* instructions it uses
    Sizes          \* bound: programs, as the numbers of calls that build states
                   \*   and of calls of propagators

Sessions == {NoSession, "session"}

\* An image config: the values and the history, all of the right shape.
IsRecord(r) ==
    /\ r = Record(r.ins, r.args, r.of, r.empty, r.sess)
    /\ r.sess \in Sessions
    /\ r.ins \in Instructions => r.args \in Seq(Keys)
IsImage(img) ==
    /\ img = [set |-> img.set, history |-> img.history]
    /\ img.set \in [Instructions -> Seq(Keys)]
    /\ IsList(img.history)
    /\ \A i \in DOMAIN img.history : IsRecord(img.history[i])

\* Any config may be pulled: its history need not tell its values.  It comes
\* from no session, and its ENV and LABEL records have no layers.
IsPulled(img) ==
    /\ IsImage(img)
    /\ \A i \in DOMAIN img.history :
          /\ img.history[i].sess = NoSession
          /\ ~img.history[i].empty => img.history[i].ins \notin KeyValues

ASSUME BuildingAssumption ==
    /\ IsFiniteSet(Mountpoints) /\ RootDir \notin Mountpoints
    /\ Readonly \subseteq Mountpoints
    /\ Propagators \cap {"run", "asrun", "apply"} = {}
    /\ Kinds \subseteq Instructions
    /\ IsFiniteSet(Keys) /\ Keys # {}
    /\ Images \cap Locals = {}
    /\ DOMAIN Pulled = Images /\ \A i \in Images : IsPulled(Pulled[i])
    /\ Sizes \subseteq Nat \X Nat

VARIABLES
    st,            \* per variable: its state
    built,         \* number of building calls
    loaded,        \* the last call of LoadImageConfig
    cur,           \* what was assigned or called last, which is what to look at
    pm, maps,      \* per propagator: what it holds, and a map of mount states
    mounted,       \* number of calls of propagators
    ran, given,    \* per propagator: the exec vertices of its runs, and all
                   \*   vertices of what the program gave it
    seen           \* exec vertices with the runs before them

vars == <<st, built, loaded, cur, pm, maps, mounted, ran, given, seen>>
mountVars == <<pm, maps, mounted, ran, given, seen>>

Nothing == <<>>
Nobody == "nobody"
Starts == {Image(i, Pulled[i]) : i \in Images} \cup {Local(l) : l \in Locals} \cup {ScratchState}

Init ==
    /\ st \in [Vars -> Starts]
    /\ built = 0 /\ mounted = 0
    /\ loaded = Nothing /\ cur = Nobody
    /\ pm = [p \in Propagators |-> Nothing]
    /\ maps = [p \in Propagators |-> NoStates]
    /\ ran = [p \in Propagators |-> {}]
    /\ given = [p \in Propagators |-> {}]
    /\ seen = {}

\* No call of LoadImageConfig is going on.
Idle == loaded # Nothing => HasLoaded(loaded[1])

-----------------------------------------------------------------------------
(* Building states.  A state without a vertex as a source of Copy, Merge   *)
(* or Diff makes llblib panic when it marshals; programs that do are left  *)
(* out, and so is an instruction on Scratch.                               *)

HasVertex(s) == s.out # Scratch

Fits(builds, mounts) == \E size \in Sizes : builds <= size[1] /\ mounts <= size[2]

\* A call that builds a state; v is what it is about.
BuildCall(v) ==
    /\ Idle /\ Fits(built + 1, mounted)
    /\ built' = built + 1
    /\ loaded' = Nothing /\ cur' = v
    /\ UNCHANGED mountVars

Assign(v, s) == BuildCall(v) /\ st' = [st EXCEPT ![v] = s]

SetOne(v) ==
    \E i \in Kinds, k \in Keys : HasVertex(st[v]) /\ Assign(v, Set(st[v], i, k))

SetLabels(v) == HasVertex(st[v]) /\ Assign(v, AddLabels(st[v], Keys))

RunOn(v) == Assign(v, RunExec(st[v], ExecOp(st[v].out, "run", {})))

\* w becomes what the run left of it at a mountpoint.
RunWith(v, w, d) ==
    LET x == ExecOp(st[v].out, "run", {In(d, FALSE, st[w].out)}) IN
    /\ v # w
    /\ BuildCall(v)
    /\ st' = [st EXCEPT ![v] = RunExec(@, x), ![w] = State(MountOutput(x, d), <<>>, <<>>)]

CopyTo(v, w) == HasVertex(st[w]) /\ Assign(v, Copy(st[w], st[v]))

FileOn(v, w) == HasVertex(st[w]) /\ Assign(v, File(st[v], <<Mkfile, CopyFrom(st[w].out)>>))

MergeTo(v, states) ==
    /\ \A i \in DOMAIN states : HasVertex(states[i])
    /\ Assign(v, Merge(states))

DiffTo(v, lower, upper) ==
    /\ lower = ScratchState \/ (HasVertex(lower) /\ HasVertex(upper))
    /\ Assign(v, Diff(lower, upper))

\* MarshalWithImageConfig loads the config of a variable first; a state is
\* built from its definition.
Rebuild(v) ==
    /\ loaded # Nothing /\ cur = v
    /\ Assign(v, BuildDefinition(MarshalWithImageConfig(loaded[1])))

-----------------------------------------------------------------------------
(* Loading image configs.                                                  *)

LoadOf(s, sess) ==
    /\ Idle
    /\ loaded' = <<LoadImageConfig(s, sess)>>
    /\ UNCHANGED <<st, built, cur, mountVars>>

Load(v, sess) == cur = v /\ LoadOf(st[v], sess)

LoadRoot(p) == cur = p /\ pm[p] # Nothing /\ LoadOf(pm[p].root, "session")

\* Mutant: the mutators work on the config of the state.
MutateInPlace ==
    LET next == RunMutator(loaded[1]) IN
    /\ ~Idle
    /\ loaded' = <<next>>
    /\ st' = [v \in Vars |-> IF v = cur THEN [st[v] EXCEPT !.config = next.config] ELSE st[v]]
    /\ UNCHANGED <<built, cur, mountVars>>

\* The next mutator of the call of LoadImageConfig.
MutateConfig ==
    /\ ~Idle
    /\ loaded' = <<RunMutator(loaded[1])>>
    /\ UNCHANGED <<st, built, cur, mountVars>>

-----------------------------------------------------------------------------
(* Mount propagators.                                                      *)

Mounting(p) ==
    /\ Idle /\ Fits(built, mounted + 1)
    /\ mounted' = mounted + 1
    /\ loaded' = Nothing /\ cur' = p
    /\ UNCHANGED built

\* A variable mounted at d.
Option(d, v) == In(d, d \in Readonly, st[v].out)

VerticesOf(opts) == UNION {Vertices(o.out) : o \in ToSet(opts)}

\* One mount per mountpoint, as in Add.  The options are a value: that
\* Persistent keeps the slice it is given (mounts.go:46) and Add may append in
\* place (:101), so that a caller who passes one slice to two propagators can
\* have them share its spare capacity, is not modelled.
Persistent(p, v, opts) ==
    /\ Mounting(p) /\ pm[p] = Nothing
    /\ pm' = [pm EXCEPT ![p] = Propagator(opts, st[v], p)]
    /\ given' = [given EXCEPT ![p] = Vertices(st[v].out) \cup VerticesOf(opts)]
    /\ UNCHANGED <<st, maps, ran, seen>>

Add(p, d, v) ==
    /\ Mounting(p) /\ pm[p] # Nothing /\ d \notin Targets(pm[p])
    /\ pm' = [pm EXCEPT ![p].opts = Append(@, Option(d, v))]
    /\ given' = [given EXCEPT ![p] = @ \cup Vertices(st[v].out)]
    /\ UNCHANGED <<st, maps, ran, seen>>

Run(p) ==
    /\ Mounting(p) /\ pm[p] # Nothing
    /\ LET own == pm[p].states
           x == RunVertex(pm[p], maps[own], p) IN
       /\ pm' = [pm EXCEPT ![p] = RootAfter(@, x)]
       /\ maps' = [maps EXCEPT ![own] = MountsAfter(pm[p], @, x)]
       /\ ran' = [ran EXCEPT ![p] = @ \cup {x}]
       /\ seen' = seen \cup {<<x, ran[p]>>}
    /\ UNCHANGED <<st, given>>

\* llblib.Run(st[v], pm.AsRun()).
AsRun(p, v) ==
    /\ Mounting(p) /\ pm[p] # Nothing
    /\ LET x == ExecOp(st[v].out, "asrun", CurrentMounts(pm[p], maps[pm[p].states])) IN
       /\ st' = [st EXCEPT ![v] = RunExec(@, x)]
       /\ seen' = seen \cup {<<x, ran[p]>>}
    /\ UNCHANGED <<pm, maps, ran, given>>

CopyPropagator(p, q) ==
    /\ Mounting(q) /\ pm[p] # Nothing /\ pm[q] = Nothing
    /\ pm' = [pm EXCEPT ![q] = CopyOf(pm[p], q)]
    /\ maps' = [maps EXCEPT ![q] = maps[pm[p].states]]
    /\ ran' = [ran EXCEPT ![q] = ran[p]]
    /\ given' = [given EXCEPT ![q] = given[p]]
    /\ UNCHANGED <<st, seen>>

\* With ApplyRun.
ApplyRoot(p) ==
    /\ Mounting(p) /\ pm[p] # Nothing
    /\ pm' = [pm EXCEPT ![p].root = RunExec(@, ExecOp(@.out, "apply", {}))]
    /\ UNCHANGED <<st, maps, ran, given, seen>>

\* With File.
ApplyMount(p, d) ==
    /\ Mounting(p) /\ pm[p] # Nothing
    /\ LET own == pm[p].states IN
       maps' = [maps EXCEPT ![own] = ApplyMountTo(@, d, File(GetMount(@, d), <<Mkfile>>))]
    /\ UNCHANGED <<st, pm, ran, given, seen>>

-----------------------------------------------------------------------------
Pairs == [1..2 -> Vars]

Builds ==
    \/ \E v \in Vars : SetOne(v) \/ SetLabels(v) \/ RunOn(v) \/ Rebuild(v)
    \/ \E v, w \in Vars : v # w /\ (CopyTo(v, w) \/ FileOn(v, w))
    \/ \E v, w \in Vars, d \in Mountpoints \ Readonly : RunWith(v, w, d)
    \/ \E vs \in Pairs :
          \/ MergeTo(vs[1], [i \in 1..2 |-> st[vs[i]]])
          \/ DiffTo(vs[1], st[vs[1]], st[vs[2]])

Loads ==
    \/ \E v \in Vars, sess \in Sessions : Load(v, sess)
    \/ \E p \in Propagators : LoadRoot(p)
    \/ MutateConfig

Mounts ==
    \/ \E p \in Propagators, v \in Vars :
          \/ \E ds \in SUBSET Mountpoints, w \in Vars :
                Persistent(p, v, [i \in DOMAIN SetToSeq(ds) |-> Option(SetToSeq(ds)[i], w)])
          \/ \E d \in Mountpoints : Add(p, d, v)
          \/ AsRun(p, v)
    \/ \E p \in Propagators :
          \/ Run(p) \/ ApplyRoot(p)
          \/ \E d \in Mountpoints : ApplyMount(p, d)
          \/ \E q \in Propagators : CopyPropagator(p, q)

Next == Builds \/ Loads \/ Mounts

Spec == Init /\ [][Next]_vars
=============================================================================
