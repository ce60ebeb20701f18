----------------------------- MODULE MountProofs -----------------------------
(* Proofs about what a program builds and mounts: its types, and that the  *)
(* runs of a propagator see and keep what was written.                     *)
EXTENDS BuildingLemmas

-----------------------------------------------------------------------------
(* Propagators and their maps.                                             *)

LEMMA PropagatorFields ==
    ASSUME NEW opts, NEW root, NEW states
    PROVE  LET q == Propagator(opts, root, states) IN
           q.opts = opts /\ q.root = root /\ q.states = states /\ q # Nothing
  <1>1. DOMAIN Propagator(opts, root, states) # DOMAIN Nothing
    BY DEF Propagator, Nothing
  <1> QED
    BY <1>1 DEF Propagator

LEMMA InFields ==
    ASSUME NEW name, NEW ro, NEW out
    PROVE  /\ In(name, ro, out).name = name /\ In(name, ro, out).ro = ro
           /\ In(name, ro, out).out = out
           /\ \A o : [In(name, ro, out) EXCEPT !.out = o] = In(name, ro, o)
  BY DEF In

\* What has been written to the mountpoint of an option, or its own source.
Current(o, states) == IF o.name \in DOMAIN states THEN states[o.name].out ELSE o.out

\* The mounts of the next run: one for each target, of the current output.
LEMMA MountsOf ==
    ASSUME NEW q, NEW p, IsPropagator(q, p), NEW states, IsMap(states)
    PROVE  LET mounts == CurrentMounts(q, states) IN
           /\ IsMounts(mounts)
           /\ \A m \in mounts : \E o \in ToSet(q.opts) :
                 /\ m.name = o.name /\ m.out = Current(o, states) /\ IsOutput(m.out)
                 /\ m.ro = (m.name \in Readonly)
           /\ \A d \in Targets(q) : \E m \in mounts : m.name = d
           /\ \A m \in mounts : m.name \in Targets(q)
  <1> DEFINE mounts == CurrentMounts(q, states)
             mount(o) == In(o.name, o.name \in Readonly, Current(o, states))
  <1>1. ASSUME NEW o \in ToSet(q.opts)
        PROVE  /\ [o EXCEPT !.out = IF o.name \in DOMAIN states THEN states[o.name].out ELSE @] = mount(o)
               /\ o.name \in Mountpoints /\ IsOutput(Current(o, states))
    <2>1. o = In(o.name, o.name \in Readonly, o.out) /\ o.name \in Mountpoints /\ IsOutput(o.out)
      BY DEF IsPropagator
    <2>2. [o EXCEPT !.out = IF o.name \in DOMAIN states THEN states[o.name].out ELSE @]
              = [o EXCEPT !.out = Current(o, states)]
      BY DEF Current
    <2>3. IsOutput(Current(o, states))
      BY <2>1 DEF Current, IsMap, IsState
    <2> QED
      BY <2>1, <2>2, <2>3, InFields
  <1>2. mounts = {mount(o) : o \in ToSet(q.opts)}
    BY <1>1 DEF CurrentMounts
  <1>3. ASSUME NEW o \in ToSet(q.opts)
        PROVE  /\ mount(o).name = o.name /\ mount(o).out = Current(o, states)
               /\ mount(o).ro = (o.name \in Readonly)
    BY InFields
  <1> HIDE DEF mount, mounts
  <1>4. {m.name : m \in mounts} \subseteq Mountpoints
    BY <1>1, <1>2, <1>3
  <1>5. IsFiniteSet({m.name : m \in mounts}) /\ \A m \in mounts : m.name # RootDir
    BY <1>4, BuildingAssumption, FS_Subset
  <1>6. ASSUME NEW m \in mounts, NEW n \in mounts, m.name = n.name
        PROVE  m = n
    <2>1. PICK o \in ToSet(q.opts), e \in ToSet(q.opts) : m = mount(o) /\ n = mount(e)
      BY <1>2
    <2>2. PICK i \in DOMAIN q.opts, j \in DOMAIN q.opts : o = q.opts[i] /\ e = q.opts[j]
      BY DEF ToSet
    <2> QED
      BY <1>3, <1>6, <2>1, <2>2 DEF IsPropagator
  <1>7. IsMounts(mounts)
    BY <1>5, <1>6 DEF IsMounts
  <1>8. \A d \in Targets(q) : \E m \in mounts : m.name = d
    BY <1>2, <1>3 DEF Targets
  <1>9. \A m \in mounts : m.name \in Targets(q)
    BY <1>2, <1>3 DEF Targets
  <1>10. \A m \in mounts : \E o \in ToSet(q.opts) :
            /\ m.name = o.name /\ m.out = Current(o, states) /\ IsOutput(m.out)
            /\ m.ro = (m.name \in Readonly)
    BY <1>1, <1>2, <1>3
  <1> QED
    BY <1>7, <1>8, <1>9, <1>10 DEF mounts

\* The vertices of mounts.
MadeOf(mounts) == UNION {Vertices(m.out) : m \in mounts}

\* The parts of a propagator, one of them replaced.
LEMMA RootReplaced ==
    ASSUME NEW q, NEW p, IsPropagator(q, p), NEW s, IsState(s)
    PROVE  LET r == [q EXCEPT !.root = s] IN
           IsPropagator(r, p) /\ r # Nothing /\ r.opts = q.opts /\ r.root = s
  <1> DEFINE r == [q EXCEPT !.root = s]
  <1>1. q = Propagator(q.opts, q.root, q.states)
    BY DEF IsPropagator
  <1>2. r = Propagator(q.opts, s, q.states)
    BY <1>1 DEF Propagator
  <1> HIDE DEF r
  <1>3. r.opts = q.opts /\ r.root = s /\ r.states = q.states /\ r # Nothing
    BY <1>2, PropagatorFields
  <1>4. IsPropagator(r, p)
    BY <1>2, <1>3 DEF IsPropagator
  <1> QED
    BY <1>3, <1>4 DEF r

\* A run of a propagator: what its root and its map become.
LEMMA RunOf ==
    ASSUME NEW q, NEW p, IsPropagator(q, p), NEW states, IsMap(states), NEW arg
    PROVE  LET x == RunVertex(q, states, arg) IN
           /\ x.op = "exec" /\ x.arg = arg
           /\ x.below = Vertices(q.root.out) \cup MadeOf(CurrentMounts(q, states))
           /\ \E i : RootAfter(q, x).root.out = Output(x, i)
           /\ RootAfter(q, x).opts = q.opts
  <1> DEFINE mounts == CurrentMounts(q, states)
             x == RunVertex(q, states, arg)
             root == RunExec(q.root, x)
  <1>1. x = ExecOp(q.root.out, arg, mounts)
    BY DEF RunVertex
  <1> HIDE DEF mounts, x
  <1>2. IsMounts(mounts)
    BY MountsOf DEF mounts
  <1>3. /\ x.op = "exec" /\ x.arg = arg
        /\ x.below = Vertices(q.root.out) \cup MadeOf(mounts)
    BY <1>1, <1>2, ExecVertices DEF MadeOf
  <1>4. \E i : MountOutput(x, RootDir) = Output(x, i)
    BY <1>1, <1>2, RootOutput
  <1>5. IsState(q.root) /\ IsOutput(MountOutput(x, RootDir))
    BY <1>4, OutputVertices DEF IsPropagator
  <1>6. root.out = MountOutput(x, RootDir)
    BY <1>5, RunState
  <1>61. IsState(root)
    BY <1>5, RunState
  <1> HIDE DEF root
  <1>7. RootAfter(q, x).opts = q.opts /\ RootAfter(q, x).root = root
    BY <1>61, RootReplaced DEF RootAfter, root
  <1>8. \E i : RootAfter(q, x).root.out = Output(x, i)
    BY <1>4, <1>6, <1>7
  <1> QED
    BY <1>3, <1>7, <1>8 DEF mounts, x

\* They are in shape again.
LEMMA RunShape ==
    ASSUME NEW q, NEW p, IsPropagator(q, p), NEW states, IsMap(states), NEW arg
    PROVE  LET x == RunVertex(q, states, arg) IN
           /\ IsPropagator(RootAfter(q, x), p) /\ RootAfter(q, x) # Nothing
           /\ IsMap(MountsAfter(q, states, x))
  <1> DEFINE mounts == CurrentMounts(q, states)
             x == RunVertex(q, states, arg)
             after == MountsAfter(q, states, x)
             root == RunExec(q.root, x)
  <1>1. x = ExecOp(q.root.out, arg, mounts)
    BY DEF RunVertex
  <1> HIDE DEF mounts, x
  <1>2. /\ IsMounts(mounts) /\ \A m \in mounts : IsOutput(m.out)
        /\ \A d \in Targets(q) : \E m \in mounts : m.name = d
    BY MountsOf DEF mounts
  <1>3. \E i : MountOutput(x, RootDir) = Output(x, i)
    BY <1>1, <1>2, RootOutput
  <1>4. IsState(root)
    BY <1>3, OutputVertices, RunState DEF IsPropagator
  <1>5. IsPropagator(RootAfter(q, x), p) /\ RootAfter(q, x) # Nothing
    BY <1>4, RootReplaced DEF RootAfter
  <1>6. ASSUME NEW d \in Targets(q)
        PROVE  IsOutput(MountOutput(x, d)) /\ d \in Mountpoints
    <2>1. PICK m \in mounts : m.name = d
      BY <1>2
    <2>2. IsOutput(MountOutput(x, m.name))
      <3>1. /\ m.ro => MountOutput(x, m.name) = m.out
            /\ ~m.ro => \E i : MountOutput(x, m.name) = Output(x, i)
        BY <1>1, <1>2, MountOutputs
      <3> QED
        BY <1>2, <3>1, OutputVertices
    <2>3. d \in Mountpoints
      BY DEF Targets, IsPropagator
    <2> QED
      BY <2>1, <2>2, <2>3
  <1>7. /\ DOMAIN after = DOMAIN states \cup Targets(q)
        /\ \A d \in DOMAIN states : d \notin Targets(q) => after[d] = states[d]
        /\ \A d \in Targets(q) : after[d] = State(MountOutput(x, d), <<>>, <<>>)
    BY DEF MountsAfter
  <1> HIDE DEF after
  <1>8. \A d \in Targets(q) : IsState(after[d])
    BY <1>6, <1>7, PlainStates, NoMutators
  <1>9. IsMap(after)
    BY <1>6, <1>7, <1>8 DEF IsMap
  <1> QED
    BY <1>5, <1>9 DEF x, after

-----------------------------------------------------------------------------
(* Types.                                                                  *)

LEMMA InitTyped == Init => TypeOK
  <1> SUFFICES ASSUME Init PROVE TypeOK
    OBVIOUS
  <1>1. DOMAIN st = Vars /\ \A v \in Vars : IsState(st[v])
    BY StartStates DEF Init
  <1>2. IsMap(NoStates)
    BY DEF IsMap, NoStates
  <1>3. built \in Nat /\ mounted \in Nat
    BY DEF Init
  <1> QED
    BY <1>1, <1>2, <1>3 DEF Init, TypeOK

\* A call that builds a state touches neither propagators nor maps.
LEMMA BuildTyped ==
    ASSUME TypeOK, NEW w, BuildCall(w), NEW v \in Vars, NEW s, IsState(s),
           st' = [st EXCEPT ![v] = s]
    PROVE  TypeOK'
  <1>1. DOMAIN st' = Vars /\ \A u \in Vars : IsState(st'[u])
    BY DEF TypeOK
  <1>2. built' \in Nat /\ mounted' \in Nat /\ loaded' = Nothing
    BY DEF TypeOK, BuildCall, mountVars
  <1>3. pm' = pm /\ maps' = maps /\ ran' = ran /\ given' = given
    BY DEF BuildCall, mountVars
  <1> QED
    BY <1>1, <1>2, <1>3 DEF TypeOK

LEMMA BuildsTyped ==
    ASSUME TypeOK, Builds
    PROVE  TypeOK'
  <1>1. \A v \in Vars : IsState(st[v])
    BY DEF TypeOK
  <1>2. ASSUME NEW v \in Vars, NEW s, IsState(s), Assign(v, s)
        PROVE  TypeOK'
    BY <1>2, BuildTyped DEF Assign
  <1>3. ASSUME NEW v \in Vars, SetOne(v)
        PROVE  TypeOK'
    BY <1>1, <1>2, <1>3, SetState, BuildingAssumption DEF SetOne
  <1>4. ASSUME NEW v \in Vars, SetLabels(v)
        PROVE  TypeOK'
    BY <1>1, <1>2, <1>4, LabelsState DEF SetLabels
  <1>5. ASSUME NEW v \in Vars, RunOn(v)
        PROVE  TypeOK'
    <2> DEFINE x == ExecOp(st[v].out, "run", {})
    <2>1. IsMounts({})
      BY FS_EmptySet DEF IsMounts
    <2>2. IsOutput(MountOutput(x, RootDir))
      BY <2>1, RootOutput, OutputVertices
    <2>3. IsState(RunExec(st[v], x))
      BY <1>1, <2>2, RunState
    <2> QED
      BY <1>2, <1>5, <2>3 DEF RunOn
  <1>6. ASSUME NEW v \in Vars, Rebuild(v)
        PROVE  TypeOK'
    BY <1>2, <1>6, RebuiltState DEF Rebuild, TypeOK
  <1>7. ASSUME NEW v \in Vars, NEW w \in Vars, CopyTo(v, w)
        PROVE  TypeOK'
    BY <1>1, <1>2, <1>7, CopyState DEF CopyTo
  <1>8. ASSUME NEW v \in Vars, NEW w \in Vars, FileOn(v, w)
        PROVE  TypeOK'
    BY <1>1, <1>2, <1>8, FileState DEF FileOn
  <1>9. ASSUME NEW v \in Vars, NEW w \in Vars, NEW d \in Mountpoints \ Readonly, RunWith(v, w, d)
        PROVE  TypeOK'
    <2> DEFINE m == In(d, FALSE, st[w].out)
               x == ExecOp(st[v].out, "run", {m})
               left == State(MountOutput(x, d), <<>>, <<>>)
    <2>1. m.name = d /\ m.ro = FALSE
      BY DEF In
    <2>2. IsMounts({m})
      <3> HIDE DEF m
      <3>1. IsFiniteSet({n.name : n \in {m}})
        <4>1. {n.name : n \in {m}} = {d}
          BY <2>1
        <4> QED
          BY <4>1, FS_Singleton
      <3>2. d # RootDir
        BY BuildingAssumption
      <3> QED
        BY <2>1, <3>1, <3>2 DEF IsMounts
    <2>3. IsOutput(MountOutput(x, RootDir))
      BY <2>2, RootOutput, OutputVertices
    <2>4. IsOutput(MountOutput(x, d))
      <3> HIDE DEF m
      <3>1. ~m.ro => \E i : MountOutput(x, m.name) = Output(x, i)
        BY <2>2, MountOutputs
      <3> QED
        BY <2>1, <3>1, OutputVertices
    <2>5. IsState(RunExec(st[v], x)) /\ IsState(left)
      BY <1>1, <2>3, <2>4, RunState, PlainStates, NoMutators
    <2>6. BuildCall(v) /\ st' = [st EXCEPT ![v] = RunExec(@, x), ![w] = left] /\ v # w
      BY <1>9 DEF RunWith
    <2> HIDE DEF x, left
    <2>7. DOMAIN st' = Vars /\ \A u \in Vars : IsState(st'[u])
      BY <1>1, <2>5, <2>6 DEF TypeOK
    <2>8. built' \in Nat /\ mounted' \in Nat /\ loaded' = Nothing
      BY <2>6 DEF TypeOK, BuildCall, mountVars
    <2>9. pm' = pm /\ maps' = maps /\ ran' = ran /\ given' = given
      BY <2>6 DEF BuildCall, mountVars
    <2> QED
      BY <2>7, <2>8, <2>9 DEF TypeOK
  <1>10. ASSUME NEW v \in Vars, NEW ss \in [1..2 -> {st[u] : u \in Vars}], MergeTo(v, ss)
         PROVE  TypeOK'
    <2>1. \A i \in 1..2 : IsState(ss[i])
      BY <1>1
    <2>2. IsState(Merge(ss))
      BY <2>1, MergeState
    <2> QED
      BY <1>2, <1>10, <2>2 DEF MergeTo
  <1>11. ASSUME NEW v \in Vars, NEW u \in Vars, DiffTo(v, st[v], st[u])
         PROVE  TypeOK'
    BY <1>1, <1>2, <1>11, DiffState DEF DiffTo
  <1>12. ASSUME NEW vs \in Pairs,
                \/ MergeTo(vs[1], [i \in 1..2 |-> st[vs[i]]])
                \/ DiffTo(vs[1], st[vs[1]], st[vs[2]])
         PROVE  TypeOK'
    <2>1. vs[1] \in Vars /\ vs[2] \in Vars /\ \A i \in 1..2 : vs[i] \in Vars
      BY DEF Pairs
    <2>2. [i \in 1..2 |-> st[vs[i]]] \in [1..2 -> {st[u] : u \in Vars}]
      BY <2>1
    <2> QED
      BY <1>10, <1>11, <1>12, <2>1, <2>2
  <1> QED
    BY <1>3, <1>4, <1>5, <1>6, <1>7, <1>8, <1>9, <1>12 DEF Builds

\* A call of LoadImageConfig from its start, and from one mutator to the next.
LEMMA CallStarts ==
    ASSUME NEW s, IsState(s), NEW sess \in Sessions
    PROVE  IsCall(LoadImageConfig(s, sess))
  <1> DEFINE call == LoadImageConfig(s, sess)
  <1>1. /\ call.state = s /\ call.sess = sess /\ call.config = s.config /\ call.done = 0
        /\ call = [state |-> call.state, sess |-> call.sess, config |-> call.config, done |-> call.done]
    BY DEF LoadImageConfig
  <1>2. Len(s.mutators) \in Nat
    BY DEF IsState, IsList
  <1> HIDE DEF call
  <1>3. IsCall(call)
    BY <1>1, <1>2 DEF IsCall, IsState, IsConfig
  <1> QED
    BY <1>3 DEF call

\* The mutator that a call runs next.
NextMutator(call) == call.state.mutators[call.done + 1]

LEMMA CallGoesOn ==
    ASSUME NEW call, IsCall(call), ~HasLoaded(call)
    PROVE  /\ call.config # <<>> /\ IsImage(call.config[1]) /\ IsMutator(NextMutator(call))
           /\ RunMutator(call) =
                 [state |-> call.state, sess |-> call.sess, done |-> call.done + 1,
                  config |-> <<Mutate(call.config[1], NextMutator(call), call.sess)>>]
           /\ IsCall(RunMutator(call))
  <1> DEFINE n == call.done
             ms == call.state.mutators
             config == <<Mutate(call.config[1], NextMutator(call), call.sess)>>
             res == [state |-> call.state, sess |-> call.sess, config |-> config, done |-> n + 1]
  <1>1. IsState(call.state) /\ call.sess \in Sessions /\ n \in 0..Len(ms) /\ n # Len(ms)
    BY DEF IsCall, HasLoaded
  <1>2. IsList(ms) /\ Len(ms) \in Nat /\ DOMAIN ms = 1..Len(ms)
    BY <1>1, SeqIsList DEF IsState, IsList
  <1>3. n + 1 \in 1..Len(ms)
    BY <1>1, <1>2
  <1>4. IsMutator(NextMutator(call))
    BY <1>1, <1>2, <1>3 DEF IsState, NextMutator
  <1>5. ms # <<>>
    BY <1>2, <1>3
  <1>6. call.config # <<>> /\ call.state.config # <<>> /\ IsImage(call.config[1])
    BY <1>1, <1>5 DEF IsCall, IsState
  <1>7. IsImage(Mutate(call.config[1], NextMutator(call), call.sess))
    BY <1>1, <1>4, <1>6, MutateImage
  <1>8. config = <<config[1]>> /\ config # <<>> /\ IsImage(config[1])
    BY <1>7
  <1>9. RunMutator(call) = [call EXCEPT !.config = config, !.done = n + 1]
    BY DEF RunMutator, NextMutator
  <1>10. call = [state |-> call.state, sess |-> call.sess, config |-> call.config, done |-> call.done]
    BY DEF IsCall
  <1> HIDE DEF config, ms, n
  <1>11. RunMutator(call) = res
    BY <1>9, <1>10
  <1>12. /\ res.state = call.state /\ res.sess = call.sess /\ res.config = config /\ res.done = n + 1
         /\ res = [state |-> res.state, sess |-> res.sess, config |-> res.config, done |-> res.done]
    OBVIOUS
  <1> HIDE DEF res
  <1>13. IsCall(res)
    BY <1>1, <1>2, <1>3, <1>6, <1>8, <1>12 DEF IsCall, ms
  <1> QED
    BY <1>4, <1>6, <1>11, <1>13 DEF res, config, n

LEMMA LoadsTyped ==
    ASSUME TypeOK, Loads
    PROVE  TypeOK'
  <1>1. ASSUME NEW call, IsCall(call), loaded' = <<call>>,
               UNCHANGED <<st, built, cur, mountVars>>
        PROVE  TypeOK'
    BY <1>1 DEF TypeOK, mountVars
  <1>2. ASSUME NEW s, IsState(s), NEW sess \in Sessions, LoadOf(s, sess)
        PROVE  TypeOK'
    BY <1>1, <1>2, CallStarts DEF LoadOf
  <1>3. ASSUME NEW v \in Vars, NEW sess \in Sessions, Load(v, sess)
        PROVE  TypeOK'
    BY <1>2, <1>3 DEF Load, TypeOK
  <1>4. ASSUME NEW p \in Propagators, LoadRoot(p)
        PROVE  TypeOK'
    BY <1>2, <1>4 DEF LoadRoot, TypeOK, IsPropagator, Sessions
  <1>5. ASSUME MutateConfig
        PROVE  TypeOK'
    BY <1>1, <1>5, CallGoesOn DEF MutateConfig, TypeOK, Idle
  <1> QED
    BY <1>3, <1>4, <1>5 DEF Loads

\* A call of p leaves the other propagators as they are, and p in shape.
Touches(p) ==
    /\ Mounting(p)
    /\ DOMAIN pm' = Propagators /\ DOMAIN maps' = Propagators
    /\ DOMAIN ran' = Propagators /\ DOMAIN given' = Propagators
    /\ \A q \in Propagators \ {p} :
          pm'[q] = pm[q] /\ maps'[q] = maps[q] /\ ran'[q] = ran[q] /\ given'[q] = given[q]
    /\ pm'[p] # Nothing /\ IsPropagator(pm'[p], p) /\ IsMap(maps'[p])

\* The options that Persistent gets: one for each of some mountpoints.
LEMMA OptionsOf ==
    ASSUME NEW ds \in SUBSET Mountpoints, NEW w \in Vars, IsState(st[w])
    PROVE  LET opts == [i \in DOMAIN SetToSeq(ds) |-> Option(SetToSeq(ds)[i], w)] IN
           /\ IsList(opts)
           /\ \A o \in ToSet(opts) :
                 o = In(o.name, o.name \in Readonly, o.out) /\ o.name \in Mountpoints /\ IsOutput(o.out)
           /\ \A i, j \in DOMAIN opts : opts[i].name = opts[j].name => i = j
  <1> DEFINE names == SetToSeq(ds)
             opts == [i \in DOMAIN names |-> Option(names[i], w)]
             n == Cardinality(ds)
  <1>1. IsFiniteSet(ds)
    BY BuildingAssumption, FS_Subset
  <1>2. /\ n \in Nat /\ DOMAIN names = 1..n /\ \A i \in 1..n : names[i] \in Mountpoints
        /\ \A i, j \in DOMAIN names : names[i] = names[j] => i = j
    BY <1>1, SetToSeqLists
  <1> HIDE DEF names, n
  <1>3. ASSUME NEW i \in 1..n
        PROVE  /\ opts[i] = In(names[i], names[i] \in Readonly, st[w].out)
               /\ opts[i].name = names[i] /\ opts[i].ro = (names[i] \in Readonly)
               /\ opts[i].out = st[w].out
    <2>1. opts[i] = In(names[i], names[i] \in Readonly, st[w].out)
      BY <1>2 DEF Option
    <2> QED
      BY <2>1, InFields
  <1>4. DOMAIN opts = 1..n
    BY <1>2
  <1>5. IsList(opts)
    <2>1. opts = [i \in 1..n |-> opts[i]]
      BY <1>2
    <2> HIDE DEF opts
    <2>2. opts \in Seq({opts[i] : i \in 1..n})
      BY <1>2, <2>1
    <2> QED
      BY <2>2, SeqIsList
  <1> HIDE DEF opts
  <1>6. \A o \in ToSet(opts) : \E i \in 1..n : o = opts[i]
    BY <1>4 DEF ToSet
  <1>7. \A o \in ToSet(opts) :
           o = In(o.name, o.name \in Readonly, o.out) /\ o.name \in Mountpoints /\ IsOutput(o.out)
    BY <1>2, <1>3, <1>6 DEF IsState
  <1>8. \A i, j \in DOMAIN opts : opts[i].name = opts[j].name => i = j
    BY <1>2, <1>3, <1>4
  <1> QED
    BY <1>5, <1>7, <1>8 DEF opts, names

\* One more option, for a mountpoint that has none.
LEMMA OptionAdded ==
    ASSUME NEW q, NEW p, IsPropagator(q, p), NEW d \in Mountpoints, d \notin Targets(q),
           NEW v \in Vars, IsState(st[v])
    PROVE  LET r == [q EXCEPT !.opts = Append(@, Option(d, v))] IN
           /\ IsPropagator(r, p) /\ r # Nothing
           /\ r.root = q.root /\ ToSet(r.opts) = ToSet(q.opts) \cup {Option(d, v)}
  <1> DEFINE o == Option(d, v)
             opts == Append(q.opts, o)
             r == [q EXCEPT !.opts = opts]
             n == Len(q.opts)
  <1>1. q = Propagator(q.opts, q.root, q.states)
    BY DEF IsPropagator
  <1> HIDE DEF opts
  <1>2. r = Propagator(opts, q.root, q.states)
    BY <1>1 DEF Propagator
  <1> HIDE DEF r
  <1>3. r.opts = opts /\ r.root = q.root /\ r.states = q.states /\ r # Nothing
    BY <1>2, PropagatorFields
  <1>4. o = In(d, d \in Readonly, st[v].out) /\ o.name = d /\ o.ro = (d \in Readonly) /\ o.out = st[v].out
    BY InFields DEF Option
  <1> HIDE DEF o
  <1>5. /\ IsList(opts) /\ n \in Nat /\ DOMAIN q.opts = 1..n /\ DOMAIN opts = 1..(n + 1)
        /\ \A i \in 1..n : opts[i] = q.opts[i]
        /\ opts[n + 1] = o
        /\ ToSet(opts) = ToSet(q.opts) \cup {o}
    BY AppendList DEF opts, IsPropagator
  <1>6. \A i \in 1..n : opts[i].name \in Targets(q)
    BY <1>5 DEF Targets, ToSet
  <1>7. \A i, j \in DOMAIN opts : opts[i].name = opts[j].name => i = j
    <2>1. \A i \in DOMAIN opts : i \in 1..n \/ i = n + 1
      BY <1>5
    <2>2. \A i, j \in 1..n : opts[i].name = opts[j].name => i = j
      BY <1>5 DEF IsPropagator
    <2> QED
      BY <1>4, <1>5, <1>6, <2>1, <2>2
  <1>8. \A e \in ToSet(opts) :
           e = In(e.name, e.name \in Readonly, e.out) /\ e.name \in Mountpoints /\ IsOutput(e.out)
    BY <1>4, <1>5 DEF IsPropagator, IsState
  <1>9. IsPropagator(r, p)
    BY <1>2, <1>3, <1>5, <1>7, <1>8 DEF IsPropagator
  <1> QED
    BY <1>3, <1>5, <1>9 DEF r, opts, o

LEMMA CopyShape ==
    ASSUME NEW q, NEW p, IsPropagator(q, p), NEW name
    PROVE  LET r == CopyOf(q, name) IN
           IsPropagator(r, name) /\ r # Nothing /\ r.opts = q.opts /\ r.root = q.root
  <1> DEFINE r == CopyOf(q, name)
  <1>1. q = Propagator(q.opts, q.root, q.states)
    BY DEF IsPropagator
  <1>2. r = Propagator(q.opts, q.root, name)
    BY <1>1 DEF CopyOf, Propagator
  <1> HIDE DEF r
  <1>3. r.opts = q.opts /\ r.root = q.root /\ r.states = name /\ r # Nothing
    BY <1>2, PropagatorFields
  <1>4. IsPropagator(r, name)
    BY <1>2, <1>3 DEF IsPropagator
  <1> QED
    BY <1>3, <1>4 DEF r

LEMMA MapApplied ==
    ASSUME NEW states, IsMap(states), NEW d \in Mountpoints
    PROVE  LET s == File(GetMount(states, d), <<Mkfile>>)
               after == ApplyMountTo(states, d, s)
           IN  /\ IsMap(after) /\ DOMAIN after = DOMAIN states \cup {d}
               /\ after[d] = s /\ \A e \in DOMAIN states \ {d} : after[e] = states[e]
  <1>1. IsState(GetMount(states, d))
    BY ScratchIsState DEF GetMount, IsMap
  <1>2. IsState(File(GetMount(states, d), <<Mkfile>>))
    BY <1>1, FileState
  <1> QED
    BY <1>2 DEF ApplyMountTo, IsMap

\* Each call touches its own propagator only.
LEMMA TouchesOne ==
    ASSUME TypeOK
    PROVE  /\ \A p \in Propagators, v \in Vars, ds \in SUBSET Mountpoints, w \in Vars :
                 Persistent(p, v, [i \in DOMAIN SetToSeq(ds) |-> Option(SetToSeq(ds)[i], w)])
                     => Touches(p)
           /\ \A p \in Propagators, d \in Mountpoints, v \in Vars : Add(p, d, v) => Touches(p)
           /\ \A p \in Propagators, v \in Vars : AsRun(p, v) => Touches(p)
           /\ \A p \in Propagators : Run(p) => Touches(p)
           /\ \A p \in Propagators : ApplyRoot(p) => Touches(p)
           /\ \A p \in Propagators, d \in Mountpoints : ApplyMount(p, d) => Touches(p)
           /\ \A p, q \in Propagators : CopyPropagator(p, q) => Touches(q)
  <1>1. \A p \in Propagators : IsMap(maps[p])
    BY DEF TypeOK
  <1>2. \A p \in Propagators : pm[p] # Nothing => IsPropagator(pm[p], p) /\ pm[p].states = p
    BY DEF TypeOK, IsPropagator
  <1>3. /\ DOMAIN pm = Propagators /\ DOMAIN maps = Propagators
        /\ DOMAIN ran = Propagators /\ DOMAIN given = Propagators
        /\ \A v \in Vars : IsState(st[v])
    BY DEF TypeOK
  <1>4. ASSUME NEW p \in Propagators, NEW v \in Vars, NEW ds \in SUBSET Mountpoints, NEW w \in Vars,
               Persistent(p, v, [i \in DOMAIN SetToSeq(ds) |-> Option(SetToSeq(ds)[i], w)])
        PROVE  Touches(p)
    <2> DEFINE opts == [i \in DOMAIN SetToSeq(ds) |-> Option(SetToSeq(ds)[i], w)]
               q == Propagator(opts, st[v], p)
    <2>1. /\ Mounting(p) /\ pm' = [pm EXCEPT ![p] = q]
          /\ given' = [given EXCEPT ![p] = Vertices(st[v].out) \cup VerticesOf(opts)]
          /\ maps' = maps /\ ran' = ran
      BY <1>4 DEF Persistent
    <2>2. /\ IsList(opts)
          /\ \A o \in ToSet(opts) :
                o = In(o.name, o.name \in Readonly, o.out) /\ o.name \in Mountpoints /\ IsOutput(o.out)
          /\ \A i, j \in DOMAIN opts : opts[i].name = opts[j].name => i = j
      BY <1>3, OptionsOf
    <2> HIDE DEF opts
    <2>3. q.opts = opts /\ q.root = st[v] /\ q.states = p /\ q # Nothing
      BY PropagatorFields
    <2>4. q = Propagator(q.opts, q.root, q.states)
      BY <2>3
    <2> HIDE DEF q
    <2>5. IsPropagator(q, p)
      BY <1>3, <2>2, <2>3, <2>4 DEF IsPropagator
    <2> QED
      BY <1>1, <1>3, <2>1, <2>3, <2>5 DEF Touches
  <1>5. ASSUME NEW p \in Propagators, NEW d \in Mountpoints, NEW v \in Vars, Add(p, d, v)
        PROVE  Touches(p)
    <2> DEFINE r == [pm[p] EXCEPT !.opts = Append(@, Option(d, v))]
    <2>1. /\ Mounting(p) /\ pm[p] # Nothing /\ d \notin Targets(pm[p]) /\ pm' = [pm EXCEPT ![p] = r]
          /\ given' = [given EXCEPT ![p] = @ \cup Vertices(st[v].out)]
          /\ maps' = maps /\ ran' = ran
      BY <1>5 DEF Add
    <2>2. IsPropagator(r, p) /\ r # Nothing
      BY <1>2, <1>3, <2>1, OptionAdded
    <2> HIDE DEF r
    <2> QED
      BY <1>1, <1>3, <2>1, <2>2 DEF Touches
  <1>6. ASSUME NEW p \in Propagators, NEW v \in Vars, AsRun(p, v)
        PROVE  Touches(p)
    BY <1>1, <1>2, <1>3, <1>6 DEF AsRun, Touches
  <1>7. ASSUME NEW p \in Propagators, Run(p)
        PROVE  Touches(p)
    <2> DEFINE x == RunVertex(pm[p], maps[p], p)
    <2>1. /\ Mounting(p) /\ pm[p] # Nothing
          /\ pm' = [pm EXCEPT ![p] = RootAfter(pm[p], x)]
          /\ maps' = [maps EXCEPT ![p] = MountsAfter(pm[p], maps[p], x)]
          /\ ran' = [ran EXCEPT ![p] = @ \cup {x}] /\ given' = given
      BY <1>2, <1>7 DEF Run
    <2>2. /\ IsPropagator(RootAfter(pm[p], x), p) /\ RootAfter(pm[p], x) # Nothing
          /\ IsMap(MountsAfter(pm[p], maps[p], x))
      BY <1>1, <1>2, <2>1, RunShape
    <2> HIDE DEF x
    <2> QED
      BY <1>3, <2>1, <2>2 DEF Touches
  <1>8. ASSUME NEW p \in Propagators, ApplyRoot(p)
        PROVE  Touches(p)
    <2> DEFINE x == ExecOp(pm[p].root.out, "apply", {})
               s == RunExec(pm[p].root, x)
               r == [pm[p] EXCEPT !.root = s]
    <2>1. /\ Mounting(p) /\ pm[p] # Nothing /\ pm' = [pm EXCEPT ![p] = r]
          /\ maps' = maps /\ ran' = ran /\ given' = given
      BY <1>8 DEF ApplyRoot
    <2>2. IsMounts({})
      BY FS_EmptySet DEF IsMounts
    <2>3. IsOutput(MountOutput(x, RootDir))
      BY <2>2, RootOutput, OutputVertices
    <2>4. IsState(s)
      BY <1>2, <2>1, <2>3, RunState DEF IsPropagator
    <2> HIDE DEF s
    <2>5. IsPropagator(r, p) /\ r # Nothing
      BY <1>2, <2>1, <2>4, RootReplaced
    <2> HIDE DEF r
    <2> QED
      BY <1>1, <1>3, <2>1, <2>5 DEF Touches
  <1>9. ASSUME NEW p \in Propagators, NEW d \in Mountpoints, ApplyMount(p, d)
        PROVE  Touches(p)
    <2> DEFINE after == ApplyMountTo(maps[p], d, File(GetMount(maps[p], d), <<Mkfile>>))
    <2>1. /\ Mounting(p) /\ pm[p] # Nothing /\ maps' = [maps EXCEPT ![p] = after]
          /\ pm' = pm /\ ran' = ran /\ given' = given
      BY <1>2, <1>9 DEF ApplyMount
    <2>2. IsMap(after)
      BY <1>1, MapApplied
    <2> HIDE DEF after
    <2> QED
      BY <1>2, <1>3, <2>1, <2>2 DEF Touches
  <1>10. ASSUME NEW p \in Propagators, NEW q \in Propagators, CopyPropagator(p, q)
         PROVE  Touches(q)
    <2> DEFINE r == CopyOf(pm[p], q)
    <2>1. /\ Mounting(q) /\ pm[p] # Nothing /\ pm' = [pm EXCEPT ![q] = r]
          /\ maps' = [maps EXCEPT ![q] = maps[p]]
          /\ ran' = [ran EXCEPT ![q] = ran[p]] /\ given' = [given EXCEPT ![q] = given[p]]
      BY <1>2, <1>10 DEF CopyPropagator
    <2>2. IsPropagator(r, q) /\ r # Nothing
      BY <1>2, <2>1, CopyShape
    <2> HIDE DEF r
    <2> QED
      BY <1>1, <1>3, <2>1, <2>2 DEF Touches
  <1> QED
    BY <1>4, <1>5, <1>6, <1>7, <1>8, <1>9, <1>10

\* So a call of propagators keeps the types, as long as what becomes of the
\* program's variables are states.
LEMMA MountsTyped ==
    ASSUME TypeOK, Mounts
    PROVE  TypeOK'
  <1>1. \A p \in Propagators : IsMap(maps[p])
    BY DEF TypeOK
  <1>2. \A p \in Propagators : pm[p] # Nothing => IsPropagator(pm[p], p) /\ pm[p].states = p
    BY DEF TypeOK, IsPropagator
  <1>3. ASSUME NEW p \in Propagators, Touches(p), DOMAIN st' = Vars, \A v \in Vars : IsState(st'[v])
        PROVE  TypeOK'
    <2>1. built' \in Nat /\ mounted' \in Nat /\ loaded' = Nothing
      BY <1>3 DEF Touches, Mounting, TypeOK
    <2>2. \A q \in Propagators :
             /\ pm'[q] # Nothing => IsPropagator(pm'[q], q)
             /\ pm'[q] = Nothing => maps'[q] = NoStates /\ ran'[q] = {}
             /\ IsMap(maps'[q])
      BY <1>3 DEF Touches, TypeOK
    <2> QED
      BY <1>3, <2>1, <2>2 DEF Touches, TypeOK
  <1>4. ASSUME NEW p \in Propagators, Touches(p), st' = st
        PROVE  TypeOK'
    BY <1>3, <1>4 DEF TypeOK
  <1>5. ASSUME NEW p \in Propagators, NEW v \in Vars, AsRun(p, v)
        PROVE  TypeOK'
    <2> DEFINE x == ExecOp(st[v].out, "asrun", CurrentMounts(pm[p], maps[p]))
    <2>1. pm[p] # Nothing /\ st' = [st EXCEPT ![v] = RunExec(@, x)]
      BY <1>2, <1>5 DEF AsRun
    <2>2. IsMounts(CurrentMounts(pm[p], maps[p]))
      BY <1>1, <1>2, <2>1, MountsOf
    <2>3. IsOutput(MountOutput(x, RootDir))
      BY <2>2, RootOutput, OutputVertices
    <2>4. IsState(RunExec(st[v], x))
      BY <2>3, RunState DEF TypeOK
    <2> HIDE DEF x
    <2>5. DOMAIN st' = Vars /\ \A u \in Vars : IsState(st'[u])
      BY <2>1, <2>4 DEF TypeOK
    <2> QED
      BY <1>3, <1>5, <2>5, TouchesOne
  <1>6. ASSUME NEW p \in Propagators, NEW v \in Vars, NEW ds \in SUBSET Mountpoints, NEW w \in Vars,
               Persistent(p, v, [i \in DOMAIN SetToSeq(ds) |-> Option(SetToSeq(ds)[i], w)])
        PROVE  TypeOK'
    BY <1>4, <1>6, TouchesOne DEF Persistent
  <1>7. ASSUME NEW p \in Propagators, NEW v \in Vars, NEW d \in Mountpoints, Add(p, d, v)
        PROVE  TypeOK'
    BY <1>4, <1>7, TouchesOne DEF Add
  <1>8. ASSUME NEW p \in Propagators, Run(p) \/ ApplyRoot(p)
        PROVE  TypeOK'
    BY <1>4, <1>8, TouchesOne DEF Run, ApplyRoot
  <1>9. ASSUME NEW p \in Propagators, NEW d \in Mountpoints, ApplyMount(p, d)
        PROVE  TypeOK'
    BY <1>4, <1>9, TouchesOne DEF ApplyMount
  <1>10. ASSUME NEW p \in Propagators, NEW q \in Propagators, CopyPropagator(p, q)
         PROVE  TypeOK'
    BY <1>4, <1>10, TouchesOne DEF CopyPropagator
  <1> QED
    BY <1>5, <1>6, <1>7, <1>8, <1>9, <1>10 DEF Mounts

\* The step from any typed state.
LEMMA StepTyped == TypeOK /\ [Next]_vars => TypeOK'
  <1> SUFFICES ASSUME TypeOK, [Next]_vars PROVE TypeOK'
    OBVIOUS
  <1>1. CASE Builds
    BY <1>1, BuildsTyped
  <1>2. CASE Loads
    BY <1>2, LoadsTyped
  <1>3. CASE Mounts
    BY <1>3, MountsTyped
  <1>4. CASE UNCHANGED vars
    BY <1>4 DEF vars, TypeOK
  <1> QED
    BY <1>1, <1>2, <1>3, <1>4 DEF Next

\* What states, configs, calls and propagators look like (image.go:23-28,
\* mounts.go:42-57): no mutator ever runs on a nil config, and no propagator
\* ever has the map of another.
THEOREM TypeCorrect == Spec => []TypeOK
  BY InitTyped, StepTyped, PTL DEF Spec

-----------------------------------------------------------------------------
(* Runs keep and see what was written.                                     *)

\* Every run so far is part of the root, and of the current state of every
\* mountpoint it wrote to, which is a writable target of the propagator still.
Written(q, states, runs) ==
    \A x \in runs :
        /\ x \in Vertices(q.root.out)
        /\ \A d \in MountsIn(x) :
              /\ d \in Targets(q) \ Readonly /\ d \in DOMAIN states
              /\ x \in Vertices(states[d].out)

\* A run of some propagator.
IsRun(x) == x.op = "exec" /\ x.arg \in Propagators

\* All runs in an output are known: they are of this propagator, or were in
\* what the program gave it.
Known(out, runs, gifts) == \A x \in Vertices(out) : IsRun(x) => x \in runs \cup gifts

OwnOnly(q, states, runs, gifts) ==
    /\ Known(q.root.out, runs, gifts)
    /\ \A d \in DOMAIN states : Known(states[d].out, runs, gifts)
    /\ \A o \in ToSet(q.opts) : Vertices(o.out) \subseteq gifts

MountInv ==
    /\ TypeOK /\ SeesWrites
    /\ \A p \in Propagators : pm[p] # Nothing =>
          Written(pm[p], maps[p], ran[p]) /\ OwnOnly(pm[p], maps[p], ran[p], given[p])

\* A run with the mounts of a propagator gets what earlier runs wrote.
LEMMA RunSees ==
    ASSUME NEW q, NEW p, IsPropagator(q, p), NEW states, IsMap(states),
           NEW runs, Written(q, states, runs), NEW root, NEW arg,
           NEW y \in runs, NEW d \in MountsIn(y)
    PROVE  y \in Vertices(SourceAt(ExecOp(root, arg, CurrentMounts(q, states)), d))
  <1> DEFINE mounts == CurrentMounts(q, states)
             x == ExecOp(root, arg, mounts)
  <1>1. d \in Targets(q) /\ d \in DOMAIN states /\ y \in Vertices(states[d].out)
    BY DEF Written
  <1>2. IsMounts(mounts)
    BY MountsOf
  <1>3. PICK m \in mounts : m.name = d
    BY <1>1, MountsOf
  <1>4. m.out = states[d].out
    BY <1>1, <1>3, MountsOf DEF Current
  <1> HIDE DEF mounts
  <1>5. (CHOOSE n \in ToSet(x.ins) : n.name = m.name) = m
    BY <1>2, MountOutputs
  <1> HIDE DEF x
  <1>6. SourceAt(x, d) = states[d].out
    BY <1>3, <1>4, <1>5 DEF SourceAt
  <1> QED
    BY <1>1, <1>6 DEF x, mounts

\* What a run of a propagator leaves at a target.
LEMMA RunLeaves ==
    ASSUME NEW q, NEW p, IsPropagator(q, p), NEW states, IsMap(states), NEW arg, NEW d \in Targets(q)
    PROVE  LET x == RunVertex(q, states, arg) IN
           \E m \in CurrentMounts(q, states) :
              /\ m.name = d
              /\ d \in Readonly => MountOutput(x, d) = m.out
              /\ d \notin Readonly => Vertices(MountOutput(x, d)) = {x} \cup x.below
  <1> DEFINE mounts == CurrentMounts(q, states)
             x == RunVertex(q, states, arg)
  <1>1. x = ExecOp(q.root.out, arg, mounts)
    BY DEF RunVertex
  <1>2. IsMounts(mounts)
    BY MountsOf
  <1>3. PICK m \in mounts : m.name = d /\ m.ro = (d \in Readonly)
    BY MountsOf
  <1> HIDE DEF mounts, x
  <1>4. /\ m.ro => MountOutput(x, m.name) = m.out
        /\ ~m.ro => \E i : MountOutput(x, m.name) = Output(x, i)
    BY <1>1, <1>2, MountOutputs
  <1>5. d \notin Readonly => Vertices(MountOutput(x, d)) = {x} \cup x.below
    BY <1>3, <1>4, OutputVertices
  <1> QED
    BY <1>3, <1>4, <1>5 DEF mounts, x

\* A run loses nothing.
LEMMA RunWrites ==
    ASSUME NEW q, NEW p, IsPropagator(q, p), NEW states, IsMap(states),
           NEW runs, Written(q, states, runs), NEW arg
    PROVE  LET x == RunVertex(q, states, arg) IN
           Written(RootAfter(q, x), MountsAfter(q, states, x), runs \cup {x})
  <1> DEFINE mounts == CurrentMounts(q, states)
             x == RunVertex(q, states, arg)
             r == RootAfter(q, x)
             after == MountsAfter(q, states, x)
  <1>1. /\ x.below = Vertices(q.root.out) \cup MadeOf(mounts)
        /\ r.opts = q.opts /\ \E i : r.root.out = Output(x, i)
    BY RunOf
  <1>2. Targets(r) = Targets(q)
    BY <1>1 DEF Targets
  <1>3. \A m \in mounts : m.name \in Targets(q) /\ m.ro = (m.name \in Readonly)
    BY MountsOf
  <1>4. IsMounts(mounts)
    BY MountsOf
  <1>5. \A d \in MountsIn(x) : d \in Targets(q) \ Readonly
    <2>1. x = ExecOp(q.root.out, arg, mounts)
      BY DEF RunVertex
    <2>2. ToSet(x.ins) = {In(RootDir, FALSE, q.root.out)} \cup mounts
      BY <1>4, <2>1, ExecInputs
    <2>3. In(RootDir, FALSE, q.root.out).name = RootDir
      BY DEF In
    <2> HIDE DEF x, mounts
    <2> QED
      BY <1>3, <2>2, <2>3 DEF MountsIn
  <1>6. \A d \in Targets(q) \ Readonly : Vertices(MountOutput(x, d)) = {x} \cup x.below
    BY RunLeaves
  <1>7. ASSUME NEW y \in runs, NEW d \in MountsIn(y)
        PROVE  d \in Targets(q) \ Readonly /\ y \in x.below
    <2>1. d \in Targets(q) \ Readonly /\ d \in DOMAIN states /\ y \in Vertices(states[d].out)
      BY DEF Written
    <2>2. PICK m \in mounts : m.name = d /\ m.out = states[d].out
      BY <2>1, MountsOf DEF Current
    <2> HIDE DEF x, mounts
    <2> QED
      BY <1>1, <2>1, <2>2 DEF MadeOf
  <1>8. \A y \in runs : y \in Vertices(q.root.out)
    BY DEF Written
  <1>10. /\ DOMAIN after = DOMAIN states \cup Targets(q)
         /\ \A d \in Targets(q) : after[d].out = MountOutput(x, d)
    BY StateFields DEF MountsAfter
  <1> HIDE DEF x, mounts, r, after
  <1>9. Vertices(r.root.out) = {x} \cup x.below
    BY <1>1, OutputVertices
  <1> QED
    BY <1>1, <1>2, <1>5, <1>6, <1>7, <1>8, <1>9, <1>10 DEF Written, x, r, after

\* What a run is made of is known, if all that its propagator holds is.
LEMMA RunKnown ==
    ASSUME NEW q, NEW p, IsPropagator(q, p), NEW states, IsMap(states),
           NEW runs, NEW gifts, OwnOnly(q, states, runs, gifts), NEW arg
    PROVE  LET x == RunVertex(q, states, arg) IN
           OwnOnly(RootAfter(q, x), MountsAfter(q, states, x), runs \cup {x}, gifts)
  <1> DEFINE mounts == CurrentMounts(q, states)
             x == RunVertex(q, states, arg)
             r == RootAfter(q, x)
             after == MountsAfter(q, states, x)
             known == {y \in x.below : IsRun(y) => y \in runs \cup gifts}
  <1>1. /\ x.below = Vertices(q.root.out) \cup MadeOf(mounts)
        /\ r.opts = q.opts /\ \E i : r.root.out = Output(x, i)
    BY RunOf
  <1>2. ASSUME NEW m \in mounts
        PROVE  Known(m.out, runs, gifts)
    <2>1. PICK o \in ToSet(q.opts) : m.out = Current(o, states)
      BY MountsOf
    <2> QED
      BY <2>1 DEF Current, OwnOnly, Known
  <1>3. \A d \in Targets(q) : \E m \in mounts :
           \/ MountOutput(x, d) = m.out
           \/ Vertices(MountOutput(x, d)) = {x} \cup x.below
    BY RunLeaves
  <1>9. /\ DOMAIN after = DOMAIN states \cup Targets(q)
        /\ \A d \in Targets(q) : after[d].out = MountOutput(x, d)
        /\ \A d \in DOMAIN states : d \notin Targets(q) => after[d] = states[d]
    BY StateFields DEF MountsAfter
  <1> HIDE DEF x, mounts, r, after
  <1>4. \A y \in x.below : IsRun(y) => y \in runs \cup gifts
    BY <1>1, <1>2 DEF OwnOnly, Known, MadeOf
  <1>5. Known(r.root.out, runs \cup {x}, gifts)
    BY <1>1, <1>4, OutputVertices DEF Known
  <1>6. ASSUME NEW d \in Targets(q)
        PROVE  Known(after[d].out, runs \cup {x}, gifts)
    BY <1>2, <1>3, <1>4, <1>9 DEF Known
  <1>7. ASSUME NEW d \in DOMAIN states \ Targets(q)
        PROVE  Known(after[d].out, runs \cup {x}, gifts)
    BY <1>9 DEF OwnOnly, Known
  <1>8. \A o \in ToSet(r.opts) : Vertices(o.out) \subseteq gifts
    BY <1>1 DEF OwnOnly
  <1> QED
    BY <1>5, <1>6, <1>7, <1>8, <1>9 DEF OwnOnly, x, r, after

\* A run without mounts on a state.
LEMMA PlainRun ==
    ASSUME NEW s, IsState(s), NEW arg
    PROVE  LET x == ExecOp(s.out, arg, {}) IN
           Vertices(RunExec(s, x).out) = {x} \cup Vertices(s.out) /\ x.arg = arg
  <1> DEFINE x == ExecOp(s.out, arg, {})
  <1>1. IsMounts({})
    BY FS_EmptySet DEF IsMounts
  <1>2. PICK i : MountOutput(x, RootDir) = Output(x, i)
    BY <1>1, RootOutput
  <1>3. RunExec(s, x).out = Output(x, i)
    BY <1>2, RunState, OutputVertices
  <1>4. x.arg = arg /\ x.below = Vertices(s.out) \cup UNION {Vertices(m.out) : m \in {}}
    BY <1>1, ExecVertices
  <1>5. UNION {Vertices(m.out) : m \in {}} = {}
    OBVIOUS
  <1> HIDE DEF x
  <1> QED
    BY <1>3, <1>4, <1>5, OutputVertices DEF x

\* A file operation with an action that reads no other state.
LEMMA PlainFile ==
    ASSUME NEW s, IsState(s)
    PROVE  \E v : v.op = "file" /\ Vertices(File(s, <<Mkfile>>).out) = {v} \cup Vertices(s.out)
  <1>1. IsList(<<Mkfile>>) /\ ToSet(<<Mkfile>>) = {Mkfile}
    BY TupleLists
  <1>2. PICK i, v : /\ FileOp(s.out, <<Mkfile>>) = Output(v, i) /\ v.op = "file"
                    /\ v.below = Vertices(s.out) \cup UNION {Vertices(a.out) : a \in ToSet(<<Mkfile>>)}
    BY <1>1, FileVertices
  <1>3. Vertices(Mkfile.out) = {}
    BY DEF In, Mkfile, Vertices
  <1>4. v.below = Vertices(s.out)
    BY <1>1, <1>2, <1>3
  <1>5. File(s, <<Mkfile>>).out = Output(v, i)
    BY <1>2, FileState
  <1> QED
    BY <1>2, <1>4, <1>5, OutputVertices

-----------------------------------------------------------------------------
LEMMA InitMounts == Init => MountInv
  <1>1. Init => SeesWrites
    BY DEF Init, SeesWrites
  <1> QED
    BY <1>1, InitTyped DEF Init, MountInv

\* What a step of p has to keep.
LEMMA TouchedInv ==
    ASSUME MountInv, TypeOK', SeesWrites', NEW p \in Propagators, Touches(p),
           Written(pm'[p], maps'[p], ran'[p]), OwnOnly(pm'[p], maps'[p], ran'[p], given'[p])
    PROVE  MountInv'
  <1>1. ASSUME NEW q \in Propagators, pm'[q] # Nothing
        PROVE  Written(pm'[q], maps'[q], ran'[q]) /\ OwnOnly(pm'[q], maps'[q], ran'[q], given'[q])
    BY <1>1 DEF Touches, MountInv
  <1> QED
    BY <1>1 DEF MountInv

LEMMA SeenKept ==
    ASSUME SeesWrites, seen' = seen
    PROVE  SeesWrites'
  BY DEF SeesWrites

\* Another run that sees what was written.
LEMMA SeenMore ==
    ASSUME SeesWrites, NEW x, NEW runs, seen' = seen \cup {<<x, runs>>},
           \A y \in runs : \A d \in MountsIn(y) : y \in Vertices(SourceAt(x, d))
    PROVE  SeesWrites'
  <1>1. ASSUME NEW s \in seen', NEW y \in s[2], NEW d \in MountsIn(y)
        PROVE  y \in Vertices(SourceAt(s[1], d))
    <2>1. CASE s \in seen
      BY <2>1 DEF SeesWrites
    <2>2. CASE s = <<x, runs>>
      <3>1. s[1] = x /\ s[2] = runs
        BY <2>2
      <3> QED
        BY <3>1
    <2> QED
      BY <2>1, <2>2
  <1> QED
    BY <1>1 DEF SeesWrites

LEMMA PersistentInv ==
    ASSUME MountInv, TypeOK', NEW p \in Propagators, NEW v \in Vars,
           NEW ds \in SUBSET Mountpoints, NEW w \in Vars,
           Persistent(p, v, [i \in DOMAIN SetToSeq(ds) |-> Option(SetToSeq(ds)[i], w)])
    PROVE  MountInv'
  <1> DEFINE opts == [i \in DOMAIN SetToSeq(ds) |-> Option(SetToSeq(ds)[i], w)]
             q == Propagator(opts, st[v], p)
             gifts == Vertices(st[v].out) \cup VerticesOf(opts)
  <1>1. Touches(p)
    BY TouchesOne DEF MountInv
  <1>2. DOMAIN pm = Propagators /\ DOMAIN given = Propagators
    BY DEF MountInv, TypeOK
  <1>3. pm[p] = Nothing /\ pm'[p] = q /\ given'[p] = gifts /\ maps' = maps /\ ran' = ran /\ seen' = seen
    BY <1>2 DEF Persistent
  <1> HIDE DEF opts
  <1>4. ran'[p] = {} /\ DOMAIN maps'[p] = {}
    BY <1>3 DEF MountInv, TypeOK, NoStates
  <1>5. q.opts = opts /\ q.root = st[v]
    BY PropagatorFields
  <1> HIDE DEF q
  <1>6. Written(q, maps'[p], ran'[p])
    BY <1>4 DEF Written
  <1>7. OwnOnly(q, maps'[p], ran'[p], gifts)
    BY <1>4, <1>5 DEF OwnOnly, Known, VerticesOf
  <1>8. SeesWrites'
    BY <1>3, SeenKept DEF MountInv
  <1> HIDE DEF gifts
  <1> QED
    BY <1>1, <1>3, <1>6, <1>7, <1>8, TouchedInv

LEMMA AddInv ==
    ASSUME MountInv, TypeOK', NEW p \in Propagators, NEW d \in Mountpoints, NEW v \in Vars,
           Add(p, d, v)
    PROVE  MountInv'
  <1> DEFINE r == [pm[p] EXCEPT !.opts = Append(@, Option(d, v))]
  <1>1. Touches(p)
    BY TouchesOne DEF MountInv
  <1>2. DOMAIN pm = Propagators /\ DOMAIN given = Propagators /\ IsState(st[v])
    BY DEF MountInv, TypeOK
  <1>3. /\ pm[p] # Nothing /\ d \notin Targets(pm[p]) /\ pm'[p] = r
        /\ given'[p] = given[p] \cup Vertices(st[v].out)
        /\ maps' = maps /\ ran' = ran /\ seen' = seen
    BY <1>2 DEF Add
  <1>4. IsPropagator(pm[p], p)
    BY <1>3 DEF MountInv, TypeOK
  <1>5. r.root = pm[p].root /\ ToSet(r.opts) = ToSet(pm[p].opts) \cup {Option(d, v)}
    <2> DEFINE q == pm[p]
    <2>1. IsPropagator(q, p) /\ d \notin Targets(q)
      BY <1>3, <1>4
    <2> HIDE DEF q
    <2>2. r = [q EXCEPT !.opts = Append(q.opts, Option(d, v))]
      BY DEF q
    <2> HIDE DEF r
    <2>3. r.root = q.root /\ ToSet(r.opts) = ToSet(q.opts) \cup {Option(d, v)}
      BY <1>2, <2>1, <2>2, OptionAdded
    <2> QED
      BY <2>3 DEF q
  <1>6. Option(d, v).out = st[v].out
    BY InFields DEF Option
  <1>7. Written(pm[p], maps[p], ran[p]) /\ OwnOnly(pm[p], maps[p], ran[p], given[p])
    BY <1>3 DEF MountInv
  <1> HIDE DEF r
  <1>8. Written(r, maps[p], ran[p])
    BY <1>5, <1>7 DEF Written, Targets
  <1>9. OwnOnly(r, maps[p], ran[p], given'[p])
    BY <1>3, <1>5, <1>6, <1>7 DEF OwnOnly, Known
  <1>10. SeesWrites'
    BY <1>3, SeenKept DEF MountInv
  <1> QED
    BY <1>1, <1>3, <1>8, <1>9, <1>10, TouchedInv

LEMMA RunInv ==
    ASSUME MountInv, TypeOK', NEW p \in Propagators, Run(p)
    PROVE  MountInv'
  <1> DEFINE x == RunVertex(pm[p], maps[p], p)
             r == RootAfter(pm[p], x)
             after == MountsAfter(pm[p], maps[p], x)
  <1>1. Touches(p)
    BY TouchesOne DEF MountInv
  <1>2. /\ DOMAIN pm = Propagators /\ DOMAIN maps = Propagators /\ DOMAIN ran = Propagators
        /\ IsMap(maps[p])
    BY DEF MountInv, TypeOK
  <1>3. pm[p] # Nothing
    BY DEF Run
  <1>4. IsPropagator(pm[p], p) /\ pm[p].states = p
    BY <1>3 DEF MountInv, TypeOK, IsPropagator
  <1>5. /\ pm'[p] = r /\ maps'[p] = after /\ ran'[p] = ran[p] \cup {x}
        /\ given' = given /\ seen' = seen \cup {<<x, ran[p]>>}
    BY <1>2, <1>4 DEF Run
  <1>6. Written(pm[p], maps[p], ran[p]) /\ OwnOnly(pm[p], maps[p], ran[p], given[p])
    BY <1>3 DEF MountInv
  <1>7. Written(r, after, ran[p] \cup {x})
    BY <1>2, <1>4, <1>6, RunWrites
  <1>8. OwnOnly(r, after, ran[p] \cup {x}, given[p])
    BY <1>2, <1>4, <1>6, RunKnown
  <1>9. \A y \in ran[p] : \A d \in MountsIn(y) : y \in Vertices(SourceAt(x, d))
    BY <1>2, <1>4, <1>6, RunSees DEF RunVertex
  <1> HIDE DEF x, r, after
  <1>10. SeesWrites'
    BY <1>5, <1>9, SeenMore DEF MountInv
  <1> QED
    BY <1>1, <1>5, <1>7, <1>8, <1>10, TouchedInv

LEMMA AsRunInv ==
    ASSUME MountInv, TypeOK', NEW p \in Propagators, NEW v \in Vars, AsRun(p, v)
    PROVE  MountInv'
  <1> DEFINE x == ExecOp(st[v].out, "asrun", CurrentMounts(pm[p], maps[p]))
  <1>1. Touches(p)
    BY TouchesOne DEF MountInv
  <1>2. pm[p] # Nothing
    BY DEF AsRun
  <1>3. IsPropagator(pm[p], p) /\ pm[p].states = p /\ IsMap(maps[p])
    BY <1>2 DEF MountInv, TypeOK, IsPropagator
  <1>4. /\ pm' = pm /\ maps' = maps /\ ran' = ran /\ given' = given
        /\ seen' = seen \cup {<<x, ran[p]>>}
    BY <1>3 DEF AsRun
  <1>5. Written(pm[p], maps[p], ran[p]) /\ OwnOnly(pm[p], maps[p], ran[p], given[p])
    BY <1>2 DEF MountInv
  <1>6. \A y \in ran[p] : \A d \in MountsIn(y) : y \in Vertices(SourceAt(x, d))
    BY <1>3, <1>5, RunSees
  <1> HIDE DEF x
  <1>7. SeesWrites'
    BY <1>4, <1>6, SeenMore DEF MountInv
  <1> QED
    BY <1>1, <1>4, <1>5, <1>7, TouchedInv

LEMMA CopyInv ==
    ASSUME MountInv, TypeOK', NEW p \in Propagators, NEW q \in Propagators, CopyPropagator(p, q)
    PROVE  MountInv'
  <1> DEFINE r == CopyOf(pm[p], q)
  <1>1. Touches(q)
    BY TouchesOne DEF MountInv
  <1>2. /\ DOMAIN pm = Propagators /\ DOMAIN maps = Propagators /\ DOMAIN ran = Propagators
        /\ DOMAIN given = Propagators
    BY DEF MountInv, TypeOK
  <1>3. pm[p] # Nothing
    BY DEF CopyPropagator
  <1>4. IsPropagator(pm[p], p) /\ pm[p].states = p
    BY <1>3 DEF MountInv, TypeOK, IsPropagator
  <1>5. /\ pm'[q] = r /\ maps'[q] = maps[p] /\ ran'[q] = ran[p] /\ given'[q] = given[p]
        /\ seen' = seen
    BY <1>2, <1>4 DEF CopyPropagator
  <1>6. r.opts = pm[p].opts /\ r.root = pm[p].root
    BY <1>4, CopyShape
  <1>7. Written(pm[p], maps[p], ran[p]) /\ OwnOnly(pm[p], maps[p], ran[p], given[p])
    BY <1>3 DEF MountInv
  <1> HIDE DEF r
  <1>8. Written(r, maps[p], ran[p]) /\ OwnOnly(r, maps[p], ran[p], given[p])
    BY <1>6, <1>7 DEF Written, OwnOnly, Targets
  <1>9. SeesWrites'
    BY <1>5, SeenKept DEF MountInv
  <1> QED
    BY <1>1, <1>5, <1>8, <1>9, TouchedInv

LEMMA ApplyRootInv ==
    ASSUME MountInv, TypeOK', NEW p \in Propagators, ApplyRoot(p)
    PROVE  MountInv'
  <1> DEFINE x == ExecOp(pm[p].root.out, "apply", {})
             s == RunExec(pm[p].root, x)
             r == [pm[p] EXCEPT !.root = s]
  <1>1. Touches(p)
    BY TouchesOne DEF MountInv
  <1>2. DOMAIN pm = Propagators
    BY DEF MountInv, TypeOK
  <1>3. /\ pm[p] # Nothing /\ pm'[p] = r
        /\ maps' = maps /\ ran' = ran /\ given' = given /\ seen' = seen
    BY <1>2 DEF ApplyRoot
  <1>4. IsPropagator(pm[p], p) /\ IsState(pm[p].root)
    BY <1>3 DEF MountInv, TypeOK, IsPropagator
  <1>5. Vertices(s.out) = {x} \cup Vertices(pm[p].root.out) /\ x.arg = "apply"
    BY <1>4, PlainRun
  <1>6. IsState(s)
    <2>1. IsMounts({})
      BY FS_EmptySet DEF IsMounts
    <2> QED
      BY <1>4, <2>1, RootOutput, OutputVertices, RunState
  <1>7. ~IsRun(x)
    BY <1>5, BuildingAssumption DEF IsRun
  <1> HIDE DEF x, s
  <1>8. r.root = s /\ r.opts = pm[p].opts
    BY <1>4, <1>6, RootReplaced
  <1>9. Written(pm[p], maps[p], ran[p]) /\ OwnOnly(pm[p], maps[p], ran[p], given[p])
    BY <1>3 DEF MountInv
  <1> HIDE DEF r
  <1>10. Written(r, maps[p], ran[p])
    BY <1>5, <1>8, <1>9 DEF Written, Targets
  <1>11. OwnOnly(r, maps[p], ran[p], given[p])
    BY <1>5, <1>7, <1>8, <1>9 DEF OwnOnly, Known
  <1>12. SeesWrites'
    BY <1>3, SeenKept DEF MountInv
  <1> QED
    BY <1>1, <1>3, <1>10, <1>11, <1>12, TouchedInv

LEMMA ApplyMountInv ==
    ASSUME MountInv, TypeOK', NEW p \in Propagators, NEW d \in Mountpoints, ApplyMount(p, d)
    PROVE  MountInv'
  <1> DEFINE m == maps[p]
             old == GetMount(m, d)
             s == File(old, <<Mkfile>>)
             after == ApplyMountTo(m, d, s)
  <1>1. Touches(p)
    BY TouchesOne DEF MountInv
  <1>2. DOMAIN maps = Propagators /\ IsMap(m)
    BY DEF MountInv, TypeOK
  <1>3. pm[p] # Nothing
    BY DEF ApplyMount
  <1>4. pm[p].states = p
    BY <1>3 DEF MountInv, TypeOK, IsPropagator
  <1>5. maps'[p] = after /\ pm' = pm /\ ran' = ran /\ given' = given /\ seen' = seen
    BY <1>2, <1>4 DEF ApplyMount
  <1>6. /\ DOMAIN after = DOMAIN m \cup {d} /\ after[d] = s
        /\ \A e \in DOMAIN m \ {d} : after[e] = m[e]
    BY <1>2, MapApplied
  <1>7. IsState(old)
    BY <1>2, ScratchIsState DEF GetMount, IsMap
  <1>8. PICK v : v.op = "file" /\ Vertices(s.out) = {v} \cup Vertices(old.out)
    BY <1>7, PlainFile
  <1>9. d \in DOMAIN m => old = m[d]
    BY DEF GetMount
  <1>10. d \notin DOMAIN m => Vertices(old.out) = {}
    BY StateFields DEF GetMount, ScratchState, Vertices
  <1>11. Written(pm[p], m, ran[p]) /\ OwnOnly(pm[p], m, ran[p], given[p])
    BY <1>3 DEF MountInv
  <1> HIDE DEF m, old, s, after
  <1>12. Written(pm[p], after, ran[p])
    BY <1>6, <1>8, <1>9, <1>11 DEF Written
  <1>13. Known(s.out, ran[p], given[p])
    BY <1>8, <1>9, <1>10, <1>11 DEF OwnOnly, Known, IsRun
  <1>14. OwnOnly(pm[p], after, ran[p], given[p])
    BY <1>6, <1>11, <1>13 DEF OwnOnly
  <1>15. SeesWrites'
    BY <1>5, SeenKept DEF MountInv
  <1> QED
    BY <1>1, <1>5, <1>12, <1>14, <1>15, TouchedInv

\* Building and loading leave propagators alone.
LEMMA MountsKept ==
    ASSUME MountInv, TypeOK', UNCHANGED mountVars
    PROVE  MountInv'
  BY SeenKept DEF mountVars, MountInv

LEMMA StepMounts == MountInv /\ [Next]_vars => MountInv'
  <1> SUFFICES ASSUME MountInv, [Next]_vars PROVE MountInv'
    OBVIOUS
  <1>1. TypeOK'
    BY StepTyped DEF MountInv
  <1>2. CASE Builds
    <2>1. UNCHANGED mountVars
      BY <1>2 DEF Builds, SetOne, SetLabels, RunOn, Rebuild, CopyTo, FileOn, RunWith,
                  MergeTo, DiffTo, Assign, BuildCall
    <2> QED
      BY <1>1, <2>1, MountsKept
  <1>3. CASE Loads
    <2>1. UNCHANGED mountVars
      BY <1>3 DEF Loads, Load, LoadRoot, LoadOf, MutateConfig
    <2> QED
      BY <1>1, <2>1, MountsKept
  <1>4. CASE Mounts
    BY <1>1, <1>4, PersistentInv, AddInv, RunInv, AsRunInv, CopyInv, ApplyRootInv, ApplyMountInv
       DEF Mounts
  <1>5. CASE UNCHANGED vars
    BY <1>1, <1>5, MountsKept DEF vars, mountVars
  <1> QED
    BY <1>2, <1>3, <1>4, <1>5 DEF Next

LEMMA MountInvariant == Spec => []MountInv
  BY InitMounts, StepMounts, PTL DEF Spec

\* "preserving any changes for future Run statements" (mounts.go:35-36): each
\* run is in what its propagator holds for its root and its mountpoints.
THEOREM NothingLost == Spec => []NoLostWrite
  <1>1. MountInv => NoLostWrite
    <2> SUFFICES ASSUME MountInv, NEW p \in Propagators, NEW x \in ran[p]
                 PROVE  /\ x \in Vertices(pm[p].root.out)
                        /\ \A d \in MountsIn(x) : x \in Vertices(maps[pm[p].states][d].out)
      BY DEF NoLostWrite
    <2>1. pm[p] # Nothing
      BY DEF MountInv, TypeOK
    <2>2. pm[p].states = p
      BY <2>1 DEF MountInv, TypeOK, IsPropagator
    <2>3. Written(pm[p], maps[p], ran[p])
      BY <2>1 DEF MountInv
    <2> QED
      BY <2>2, <2>3 DEF Written
  <1> QED
    BY <1>1, MountInvariant, PTL

\* "future Runs will see changes made by prior Runs" (mounts.go:11-12).
THEOREM WritesSeen == Spec => []SeesWrites
  <1>1. MountInv => SeesWrites
    BY DEF MountInv
  <1> QED
    BY <1>1, MountInvariant, PTL

\* Copy (mounts.go:104-113) gives a propagator that goes its own way: all runs in
\* what a propagator holds are its own, from before it was copied, or were in
\* what the program gave it.
THEOREM CopiesIsolated == Spec => []Isolated
  <1>1. MountInv => Isolated
    <2> SUFFICES ASSUME MountInv, NEW p \in Propagators, pm[p] # Nothing,
                        NEW s \in Held(p), NEW x \in Vertices(s.out),
                        x.op = "exec" /\ x.arg \in Propagators
                 PROVE  x \in ran[p] \cup given[p]
      BY DEF Isolated
    <2>1. pm[p].states = p
      BY DEF MountInv, TypeOK, IsPropagator
    <2>2. OwnOnly(pm[p], maps[p], ran[p], given[p])
      BY DEF MountInv
    <2>3. Known(s.out, ran[p], given[p])
      BY <2>1, <2>2 DEF OwnOnly, Held
    <2> QED
      BY <2>3 DEF Known, IsRun
  <1> QED
    BY <1>1, MountInvariant, PTL
=============================================================================
