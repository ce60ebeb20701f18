---------------------------- MODULE BuildingProps ----------------------------
(* What the states, their image configs and the propagators have to do     *)
(* with one another.                                                       *)
EXTENDS Building

\* A config that was never changed in a session.
IsConfig(config) ==
    config # <<>> =>
        /\ config = <<config[1]>> /\ IsImage(config[1])
        /\ \A i \in DOMAIN config[1].history : config[1].history[i].sess = NoSession

IsMutator(m) ==
    /\ m = Mutator(m.ins, m.arg, m.of)
    /\ m.ins \in Instructions \cup Layers
    /\ m.ins \in Instructions => m.arg \in Keys

IsState(s) ==
    /\ s = State(s.out, s.config, s.mutators)
    /\ IsOutput(s.out) /\ IsConfig(s.config)
    /\ IsList(s.mutators)
    /\ \A i \in DOMAIN s.mutators : IsMutator(s.mutators[i])
    /\ s.config = <<>> => s.mutators = <<>>

IsPropagator(q, name) ==
    /\ q = Propagator(q.opts, q.root, q.states) /\ q.states = name
    /\ IsState(q.root)
    /\ IsList(q.opts)
    /\ \A o \in ToSet(q.opts) :
          o = In(o.name, o.name \in Readonly, o.out) /\ o.name \in Mountpoints /\ IsOutput(o.out)
    /\ \A i, j \in DOMAIN q.opts : q.opts[i].name = q.opts[j].name => i = j

IsMap(states) == DOMAIN states \subseteq Mountpoints /\ \A d \in DOMAIN states : IsState(states[d])

IsCall(call) ==
    /\ call = [state |-> call.state, sess |-> call.sess, config |-> call.config, done |-> call.done]
    /\ IsState(call.state) /\ call.sess \in Sessions
    /\ call.done \in 0..Len(call.state.mutators)
    /\ call.config = <<>> <=> call.state.config = <<>>
    /\ call.config # <<>> => call.config = <<call.config[1]>> /\ IsImage(call.config[1])

\* Every state, image config and propagator has its shape: a state without a
\* config has no mutators, which would panic on it, no config stored in a
\* state was changed in a session, and a propagator has a map of its own.
TypeOK ==
    /\ DOMAIN st = Vars /\ \A v \in Vars : IsState(st[v])
    /\ built \in Nat /\ mounted \in Nat
    /\ loaded # Nothing => loaded = <<loaded[1]>> /\ IsCall(loaded[1])
    /\ DOMAIN pm = Propagators /\ DOMAIN maps = Propagators
    /\ DOMAIN ran = Propagators /\ DOMAIN given = Propagators
    /\ \A p \in Propagators :
          /\ pm[p] # Nothing => IsPropagator(pm[p], p)
          /\ pm[p] = Nothing => maps[p] = NoStates /\ ran[p] = {}
          /\ IsMap(maps[p])

-----------------------------------------------------------------------------
(* Image configs.                                                          *)

\* The config of a call of LoadImageConfig, as far as its mutators have run.
Result == loaded[1].config[1]
HasResult == loaded # Nothing /\ loaded[1].config # <<>>

\* The last DIFF of a history, or 0.
LastDiff(history) ==
    LET diffs == {i \in DOMAIN history : history[i].ins = "DIFF"}
    IN  IF diffs = {} THEN 0 ELSE CHOOSE i \in diffs : \A j \in diffs : j <= i

\* The arguments of the records of an instruction that come after another one.
Told(history, i, after) ==
    FlattenSeq([k \in DOMAIN history |->
        IF k > after /\ history[k].ins = i THEN history[k].args ELSE <<>>])

\* What a config tells of an instruction after a DIFF that its base does not.
ToldSince(base, img, i, after) ==
    LET all == Told(img.history, i, after)
    IN  SubSeq(all, Len(Told(base.history, i, after)) + 1, Len(all))

\* The values of a config are those of its base, unless a Diff forgot them, and
\* those its history tells since: variables and triggers in order, every label,
\* each new port once, and the last value of what has one.
Tells(base, img) ==
    LET diff == LastDiff(img.history)
        had(i) == IF diff > Len(base.history) THEN <<>> ELSE base.set[i]
        told(i) == ToldSince(base, img, i, diff)
    IN  /\ \A i \in {"ENV", "ONBUILD"} \cup Once : img.set[i] = had(i) \o told(i)
        /\ \A i \in Once : IsInjective(told(i)) /\ ToSet(told(i)) \cap ToSet(had(i)) = {}
        /\ \A i \in Replaced : img.set[i] = IF told(i) = <<>> THEN had(i) ELSE <<Last(told(i))>>
        /\ ToSet(img.set["LABEL"]) =
              ToSet(base.set["LABEL"]) \cup ToSet(ToldSince(base, img, "LABEL", 0))

\* What the history of a base tells is still told.
KeepsTelling(base, img) ==
    /\ Len(base.history) <= Len(img.history)
    /\ \A i \in Instructions, after \in {LastDiff(img.history), 0} :
          IsPrefix(Told(base.history, i, after), Told(img.history, i, after))

Bases == {EmptyConfig} \cup {Pulled[i] : i \in Images}

\* At any time a config is that of an image, or an empty one, with the changes
\* that its history tells: after each mutator of a chain, in any session, and
\* for definitions that are built again.
HistoryTellsConfig ==
    HasResult => \E base \in Bases : Tells(base, Result) /\ KeepsTelling(base, Result)

\* In a session the records of the base image stay as they are, and key=value
\* instructions that follow one another are one record.
BaseKept ==
    (HasResult /\ loaded[1].sess # NoSession) =>
        LET base == loaded[1].state.config[1].history
            new == SubSeq(Result.history, Len(base) + 1, Len(Result.history))
        IN  /\ IsPrefix(base, Result.history)
            /\ \A i \in 2..Len(new) : new[i].ins \in KeyValues => new[i - 1].ins # new[i].ins

-----------------------------------------------------------------------------
(* Mounts.                                                                 *)

SourceAt(x, d) == (CHOOSE m \in ToSet(x.ins) : m.name = d).out
MountsIn(x) == {m.name : m \in {i \in ToSet(x.ins) : ~i.ro}} \ {RootDir}

\* "preserving any changes for future Run statements" (mounts.go:35-36): no
\* run of a propagator is lost on its root or on a mountpoint it wrote to.
NoLostWrite ==
    \A p \in Propagators : \A x \in ran[p] :
        /\ x \in Vertices(pm[p].root.out)
        /\ \A d \in MountsIn(x) : x \in Vertices(maps[pm[p].states][d].out)

\* "future Runs will see changes made by prior Runs" (mounts.go:11-12), those
\* that take their mounts by AsRun as well.
SeesWrites ==
    \A s \in seen : \A x \in s[2] : \A d \in MountsIn(x) :
        x \in Vertices(SourceAt(s[1], d))

\* All that a propagator holds.
Held(p) == {pm[p].root} \cup {maps[pm[p].states][d] : d \in DOMAIN maps[pm[p].states]}

\* Neither a copy nor its original sees what the other does after Copy: a
\* propagator has its own runs, those before it was copied, and no others
\* but the ones in what the program gave it.
Isolated ==
    \A p \in Propagators : pm[p] # Nothing =>
        \A s \in Held(p) : \A x \in Vertices(s.out) :
            x.op = "exec" /\ x.arg \in Propagators => x \in ran[p] \cup given[p]
=============================================================================
