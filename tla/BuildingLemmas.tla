--------------------------- MODULE BuildingLemmas ---------------------------
(* What the operators on vertices, outputs, states and image configs give, *)
(* for the proofs about programs.                                          *)
EXTENDS BuildingProps, FiniteSetTheorems, TLAPS

-----------------------------------------------------------------------------
(* Graphs and sequences.                                                   *)

\* An output is not Scratch, and its definition lists its own vertex and what
\* that is made of.
LEMMA OutputVertices ==
    ASSUME NEW v, NEW i
    PROVE  /\ IsOutput(Output(v, i)) /\ Output(v, i) # Scratch
           /\ Vertices(Output(v, i)) = {v} \cup v.below
  BY DEF IsOutput, Output, Scratch, Vertices, Digest

\* SetToSeq lists the members of a finite set, each once.
LEMMA SetToSeqLists ==
    ASSUME NEW S, IsFiniteSet(S)
    PROVE  /\ Cardinality(S) \in Nat
           /\ SetToSeq(S) \in [1..Cardinality(S) -> S]
           /\ SetToSeq(S) \in Seq(S)
           /\ \A i, j \in DOMAIN SetToSeq(S) : SetToSeq(S)[i] = SetToSeq(S)[j] => i = j
           /\ \A x \in S : \E i \in DOMAIN SetToSeq(S) : SetToSeq(S)[i] = x
  <1> DEFINE n == Cardinality(S)
             f == SetToSeq(S)
  <1>1. n \in Nat /\ ExistsBijection(1..n, S)
    BY FS_CardinalityType
  <1>2. \E g \in [1..n -> S] : IsInjective(g)
    BY <1>1 DEF ExistsBijection, Bijection, Injection
  <1>3. f \in [1..n -> S] /\ IsInjective(f)
    BY <1>2 DEF SetToSeq
  <1>4. f \in Seq(S)
    BY <1>1, <1>3
  <1>5. \A i, j \in DOMAIN f : f[i] = f[j] => i = j
    BY <1>3 DEF IsInjective
  <1>6. Cardinality(1..n) = n
    BY <1>1, FS_Interval
  <1>7. f \in Surjection(1..n, S)
    BY <1>1, <1>3, <1>6, FS_Injection DEF Injection
  <1>8. \A x \in S : \E i \in DOMAIN f : f[i] = x
    BY <1>3, <1>7 DEF Surjection
  <1> QED
    BY <1>1, <1>3, <1>4, <1>5, <1>8

\* A sequence over any set is one over its own members.
LEMMA SeqIsList ==
    ASSUME NEW S, NEW s \in Seq(S)
    PROVE  /\ IsList(s) /\ ToSet(s) \subseteq S
           /\ Len(s) \in Nat /\ DOMAIN s = 1..Len(s)
  <1>1. Len(s) \in Nat /\ DOMAIN s = 1..Len(s) /\ s = [i \in 1..Len(s) |-> s[i]]
    OBVIOUS
  <1>2. \A i \in 1..Len(s) : s[i] \in ToSet(s)
    BY <1>1 DEF ToSet
  <1>3. s \in Seq(ToSet(s))
    BY <1>1, <1>2
  <1>4. ToSet(s) \subseteq S
    BY DEF ToSet
  <1> QED
    BY <1>1, <1>3, <1>4 DEF IsList

\* Sequences of none, one and two.
LEMMA TupleLists ==
    /\ IsList(<<>>) /\ Len(<<>>) = 0 /\ DOMAIN <<>> = {} /\ ToSet(<<>>) = {}
    /\ \A e : IsList(<<e>>) /\ Len(<<e>>) = 1 /\ DOMAIN <<e>> = {1} /\ ToSet(<<e>>) = {e}
    /\ \A e, f : IsList(<<e, f>>) /\ DOMAIN <<e, f>> = {1, 2} /\ ToSet(<<e, f>>) = {e, f}
  <1>1. DOMAIN <<>> = {} /\ Len(<<>>) = 0
    OBVIOUS
  <1>2. ToSet(<<>>) = {} /\ <<>> \in Seq({})
    BY <1>1 DEF ToSet
  <1>3. ASSUME NEW e
        PROVE  IsList(<<e>>) /\ Len(<<e>>) = 1 /\ DOMAIN <<e>> = {1} /\ ToSet(<<e>>) = {e}
    <2>1. DOMAIN <<e>> = {1} /\ <<e>>[1] = e /\ Len(<<e>>) = 1
      OBVIOUS
    <2>2. ToSet(<<e>>) = {e}
      BY <2>1 DEF ToSet
    <2>3. <<e>> \in Seq({e})
      OBVIOUS
    <2> QED
      BY <2>1, <2>2, <2>3 DEF IsList
  <1>4. ASSUME NEW e, NEW f
        PROVE  IsList(<<e, f>>) /\ DOMAIN <<e, f>> = {1, 2} /\ ToSet(<<e, f>>) = {e, f}
    <2>1. DOMAIN <<e, f>> = {1, 2} /\ <<e, f>>[1] = e /\ <<e, f>>[2] = f
      OBVIOUS
    <2>2. ToSet(<<e, f>>) = {e, f}
      BY <2>1 DEF ToSet
    <2>3. <<e, f>> \in Seq({e, f})
      OBVIOUS
    <2> QED
      BY <2>1, <2>2, <2>3 DEF IsList
  <1> QED
    BY <1>1, <1>2, <1>3, <1>4 DEF IsList

\* The members of a sequence with one more at its front.
LEMMA ToSetPrepend ==
    ASSUME NEW e, NEW s, IsList(s)
    PROVE  ToSet(<<e>> \o s) = {e} \cup ToSet(s)
  <1> DEFINE t == <<e>> \o s
             n == Len(s)
  <1>1. n \in Nat /\ DOMAIN s = 1..n /\ s \in Seq(ToSet(s))
    BY DEF IsList
  <1>2. t \in Seq({e} \cup ToSet(s)) /\ Len(t) = n + 1 /\ DOMAIN t = 1..(n + 1)
    <2>1. s \in Seq({e} \cup ToSet(s)) /\ <<e>> \in Seq({e} \cup ToSet(s))
      BY <1>1
    <2> QED
      BY <2>1
  <1>3. t[1] = e /\ \A i \in 1..n : t[i + 1] = s[i]
    BY <1>1
  <1> HIDE DEF t, n
  <1>4. ToSet(t) \subseteq {e} \cup ToSet(s)
    BY <1>2 DEF ToSet
  <1>5. ASSUME NEW a \in ToSet(s)
        PROVE  a \in ToSet(t)
    <2>1. PICK i \in 1..n : s[i] = a
      BY <1>1 DEF ToSet
    <2>2. i + 1 \in DOMAIN t /\ t[i + 1] = a
      BY <1>1, <1>2, <1>3, <2>1
    <2> QED
      BY <2>2 DEF ToSet
  <1>6. e \in ToSet(t)
    BY <1>1, <1>2, <1>3 DEF ToSet
  <1> QED
    BY <1>4, <1>5, <1>6 DEF t

\* A sequence with one more at its end.
LEMMA AppendList ==
    ASSUME NEW s, IsList(s), NEW e
    PROVE  /\ IsList(Append(s, e)) /\ Len(s) \in Nat /\ Len(Append(s, e)) = Len(s) + 1
           /\ DOMAIN s = 1..Len(s) /\ DOMAIN Append(s, e) = 1..(Len(s) + 1)
           /\ \A i \in 1..Len(s) : Append(s, e)[i] = s[i]
           /\ Append(s, e)[Len(s) + 1] = e
           /\ ToSet(Append(s, e)) = ToSet(s) \cup {e}
  <1> DEFINE S == ToSet(s) \cup {e}
             n == Len(s)
             t == Append(s, e)
  <1>1. s \in Seq(S) /\ e \in S
    BY DEF IsList
  <1> HIDE DEF S
  <1>2. n \in Nat /\ DOMAIN s = 1..n
    BY <1>1
  <1>3. /\ t \in Seq(S) /\ Len(t) = n + 1 /\ DOMAIN t = 1..(n + 1)
        /\ \A i \in 1..n : t[i] = s[i]
        /\ t[n + 1] = e
    BY <1>1
  <1> HIDE DEF n, t
  <1>4. ToSet(t) = S
    <2>1. \A i \in 1..(n + 1) : i \in 1..n \/ i = n + 1
      BY <1>2
    <2>2. ToSet(t) \subseteq S
      BY <1>2, <1>3, <2>1 DEF ToSet, S
    <2>3. ASSUME NEW a \in ToSet(s)
          PROVE  a \in ToSet(t)
      <3>1. PICK i \in 1..n : s[i] = a
        BY <1>2 DEF ToSet
      <3>2. i \in DOMAIN t /\ t[i] = a
        BY <1>2, <1>3, <3>1
      <3> QED
        BY <3>2 DEF ToSet
    <2>4. n + 1 \in DOMAIN t
      BY <1>2, <1>3
    <2>5. e \in ToSet(t)
      BY <1>3, <2>4 DEF ToSet
    <2> QED
      BY <2>2, <2>3, <2>5 DEF S
  <1> QED
    BY <1>2, <1>3, <1>4 DEF IsList, S, n, t

\* Two sequences, one after the other.
LEMMA ConcatList ==
    ASSUME NEW s, NEW t, IsList(s), IsList(t)
    PROVE  /\ IsList(s \o t)
           /\ \A i \in DOMAIN (s \o t) : (s \o t)[i] \in ToSet(s) \cup ToSet(t)
           /\ Len(s \o t) = Len(s) + Len(t)
  <1> DEFINE S == ToSet(s) \cup ToSet(t)
             u == s \o t
  <1>1. s \in Seq(S) /\ t \in Seq(S)
    BY DEF IsList
  <1> HIDE DEF S
  <1>2. u \in Seq(S) /\ Len(u) = Len(s) + Len(t) /\ \A i \in DOMAIN u : u[i] \in S
    BY <1>1
  <1> HIDE DEF u
  <1>3. IsList(u)
    BY <1>2, SeqIsList
  <1> QED
    BY <1>2, <1>3 DEF S, u

\* Mounts that a run can have: one for each of finitely many mountpoints, none
\* of them the root.
IsMounts(mounts) ==
    /\ IsFiniteSet({m.name : m \in mounts})
    /\ \A m \in mounts : m.name # RootDir
    /\ \A m, n \in mounts : m.name = n.name => m = n

\* The inputs of a run are its root and its mounts.
LEMMA ExecInputs ==
    ASSUME NEW root, NEW arg, NEW mounts, IsMounts(mounts)
    PROVE  ToSet(ExecOp(root, arg, mounts).ins) = {In(RootDir, FALSE, root)} \cup mounts
  <1> DEFINE names == SetToSeq({m.name : m \in mounts})
             sorted == [i \in DOMAIN names |-> CHOOSE m \in mounts : m.name = names[i]]
             n == Cardinality({m.name : m \in mounts})
  <1>1. /\ n \in Nat /\ DOMAIN names = 1..n
        /\ \A i \in DOMAIN names : names[i] \in {m.name : m \in mounts}
        /\ \A x \in {m.name : m \in mounts} : \E i \in DOMAIN names : names[i] = x
    <2> HIDE DEF names, n
    <2>1. IsFiniteSet({m.name : m \in mounts})
      BY DEF IsMounts
    <2> QED
      BY <2>1, SetToSeqLists DEF names, n
  <1>2. \A i \in DOMAIN names : sorted[i] \in mounts /\ sorted[i].name = names[i]
    <2> HIDE DEF names
    <2> QED
      BY <1>1
  <1>3. DOMAIN sorted = 1..n
    BY <1>1
  <1> HIDE DEF names, n, sorted
  <1>4. ASSUME NEW m \in mounts
        PROVE  m \in ToSet(sorted)
    <2>1. PICK i \in DOMAIN names : names[i] = m.name
      BY <1>1
    <2>2. sorted[i] = m
      BY <1>2, <2>1 DEF IsMounts
    <2> QED
      BY <1>1, <1>3, <2>1, <2>2 DEF ToSet
  <1>5. ToSet(sorted) = mounts /\ IsList(sorted)
    <2>1. \A i \in 1..n : sorted[i] \in mounts
      BY <1>1, <1>2
    <2>2. ToSet(sorted) \subseteq mounts
      BY <1>3, <2>1 DEF ToSet
    <2>3. sorted = [i \in 1..n |-> sorted[i]]
      BY <1>1 DEF sorted
    <2>4. sorted \in Seq(mounts)
      BY <1>1, <2>1, <2>3
    <2> QED
      BY <1>4, <2>2, <2>4, SeqIsList
  <1>6. ExecOp(root, arg, mounts).ins = <<In(RootDir, FALSE, root)>> \o sorted
    BY DEF ExecOp, Vertex, names, sorted
  <1> QED
    BY <1>5, <1>6, ToSetPrepend

\* A run is made of the vertices of its root and of its mounts.
LEMMA ExecVertices ==
    ASSUME NEW root, NEW arg, NEW mounts, IsMounts(mounts)
    PROVE  LET x == ExecOp(root, arg, mounts) IN
           /\ x.op = "exec" /\ x.arg = arg
           /\ x.below = Vertices(root) \cup UNION {Vertices(m.out) : m \in mounts}
  <1> DEFINE x == ExecOp(root, arg, mounts)
  <1>1. ToSet(x.ins) = {In(RootDir, FALSE, root)} \cup mounts
    BY ExecInputs
  <1>2. /\ x.op = "exec" /\ x.arg = arg
        /\ x.below = UNION {Vertices(i.out) : i \in ToSet(x.ins)}
    BY DEF ExecOp, Vertex
  <1>3. In(RootDir, FALSE, root).out = root
    BY DEF In
  <1> QED
    BY <1>1, <1>2, <1>3

\* What a run leaves on its root is an output of it.
LEMMA RootOutput ==
    ASSUME NEW root, NEW arg, NEW mounts, IsMounts(mounts)
    PROVE  LET x == ExecOp(root, arg, mounts) IN \E i : MountOutput(x, RootDir) = Output(x, i)
  <1> DEFINE x == ExecOp(root, arg, mounts)
             r == In(RootDir, FALSE, root)
  <1>1. ToSet(x.ins) = {r} \cup mounts
    BY ExecInputs
  <1>2. r.name = RootDir /\ r.ro = FALSE
    BY DEF In
  <1> HIDE DEF x, r
  <1>3. (CHOOSE m \in ToSet(x.ins) : m.name = RootDir) = r
    BY <1>1, <1>2 DEF IsMounts
  <1>4. MountOutput(x, RootDir) = Output(x, IndexOf(x, r))
    BY <1>2, <1>3 DEF MountOutput
  <1> QED
    BY <1>4 DEF x

\* What a run leaves at a mountpoint is an output of it, or what was mounted
\* there readonly.
LEMMA MountOutputs ==
    ASSUME NEW root, NEW arg, NEW mounts, IsMounts(mounts), NEW k \in mounts
    PROVE  LET x == ExecOp(root, arg, mounts) IN
           /\ (CHOOSE m \in ToSet(x.ins) : m.name = k.name) = k
           /\ k.ro => MountOutput(x, k.name) = k.out
           /\ ~k.ro => \E i : MountOutput(x, k.name) = Output(x, i)
  <1> DEFINE x == ExecOp(root, arg, mounts)
             r == In(RootDir, FALSE, root)
             c == CHOOSE m \in ToSet(x.ins) : m.name = k.name
  <1>1. ToSet(x.ins) = {r} \cup mounts
    BY ExecInputs
  <1>2. r.name = RootDir
    BY DEF In
  <1> HIDE DEF x, r
  <1>3. c = k
    BY <1>1, <1>2 DEF IsMounts
  <1>4. MountOutput(x, k.name) = IF c.ro THEN c.out ELSE Output(x, IndexOf(x, c))
    BY DEF MountOutput
  <1> HIDE DEF c
  <1>5. MountOutput(x, k.name) = IF k.ro THEN k.out ELSE Output(x, IndexOf(x, k))
    BY <1>3, <1>4
  <1> QED
    BY <1>3, <1>5 DEF x, c

\* What a file operation is made of.
LEMMA FileVertices ==
    ASSUME NEW out, NEW actions, IsList(actions)
    PROVE  \E i, v :
           /\ FileOp(out, actions) = Output(v, i) /\ v.op = "file"
           /\ v.below = Vertices(out) \cup UNION {Vertices(a.out) : a \in ToSet(actions)}
  <1> DEFINE first == In("input", FALSE, out)
             v == Vertex("file", "", <<first>> \o actions, <<>>)
  <1>1. ToSet(<<first>> \o actions) = {first} \cup ToSet(actions)
    BY ToSetPrepend
  <1>2. /\ v.op = "file"
        /\ v.below = UNION {Vertices(i.out) : i \in ToSet(<<first>> \o actions)}
    BY DEF Vertex
  <1>3. first.out = out
    BY DEF In
  <1>4. v.below = Vertices(out) \cup UNION {Vertices(a.out) : a \in ToSet(actions)}
    BY <1>1, <1>2, <1>3
  <1>5. FileOp(out, actions) = Output(v, 0)
    BY DEF FileOp
  <1> QED
    BY <1>2, <1>4, <1>5

-----------------------------------------------------------------------------
(* Image configs and states.                                               *)

LEMMA EmptyImage == IsImage(EmptyConfig) /\ EmptyConfig.history = <<>>
  <1>1. EmptyConfig.history = <<>>
    BY DEF EmptyConfig
  <1>2. IsList(<<>>) /\ DOMAIN <<>> = {}
    BY TupleLists
  <1>3. EmptyConfig = [set |-> EmptyConfig.set, history |-> EmptyConfig.history]
    BY DEF EmptyConfig
  <1>4. EmptyConfig.set \in [Instructions -> Seq(Keys)]
    BY DEF EmptyConfig
  <1> QED
    BY <1>1, <1>2, <1>3, <1>4 DEF IsImage

LEMMA PulledImage ==
    ASSUME NEW i \in Images
    PROVE  /\ IsImage(Pulled[i])
           /\ \A k \in DOMAIN Pulled[i].history : Pulled[i].history[k].sess = NoSession
  BY BuildingAssumption DEF IsPulled

LEMMA StateFields ==
    ASSUME NEW out, NEW config, NEW ms
    PROVE  /\ State(out, config, ms).out = out
           /\ State(out, config, ms).config = config
           /\ State(out, config, ms).mutators = ms
           /\ \A o : [State(out, config, ms) EXCEPT !.out = o] = State(o, config, ms)
  BY DEF State

LEMMA NoMutators == IsList(<<>>) /\ DOMAIN <<>> = {} /\ IsConfig(<<>>)
  BY TupleLists DEF IsConfig

LEMMA PlainStates ==
    ASSUME NEW out, IsOutput(out), NEW config, IsConfig(config)
    PROVE  IsState(State(out, config, <<>>))
  <1> DEFINE s == State(out, config, <<>>)
  <1>1. s.out = out /\ s.config = config /\ s.mutators = <<>>
    BY DEF State
  <1>2. s = State(s.out, s.config, s.mutators)
    BY <1>1
  <1> HIDE DEF s
  <1>3. IsState(s)
    BY <1>1, <1>2, NoMutators DEF IsState
  <1> QED
    BY <1>3 DEF s

LEMMA ConfigOf ==
    ASSUME NEW img, IsImage(img),
           \A i \in DOMAIN img.history : img.history[i].sess = NoSession
    PROVE  IsConfig(<<img>>)
  BY DEF IsConfig

LEMMA EmptyIsConfig == IsConfig(<<EmptyConfig>>) /\ <<EmptyConfig>> # <<>>
  <1>1. \A i \in DOMAIN EmptyConfig.history : EmptyConfig.history[i].sess = NoSession
    BY EmptyImage, NoMutators
  <1> QED
    BY <1>1, EmptyImage, ConfigOf

LEMMA ScratchIsState == IsState(ScratchState)
  BY PlainStates, NoMutators DEF ScratchState, IsOutput

LEMMA StartStates == \A s \in Starts : IsState(s)
  <1>1. ASSUME NEW i \in Images PROVE IsState(Image(i, Pulled[i]))
    BY PlainStates, PulledImage, ConfigOf, OutputVertices DEF Image, SourceOp
  <1>2. ASSUME NEW l PROVE IsState(Local(l))
    BY PlainStates, NoMutators, OutputVertices DEF Local, SourceOp
  <1> QED
    BY <1>1, <1>2, ScratchIsState DEF Starts

\* Another output for a state, and more mutators.
LEMMA OutputReplaced ==
    ASSUME NEW s, IsState(s), NEW o, IsOutput(o)
    PROVE  /\ IsState([s EXCEPT !.out = o])
           /\ [s EXCEPT !.out = o].out = o
  <1> DEFINE t == [s EXCEPT !.out = o]
  <1>1. t = State(o, s.config, s.mutators)
    BY StateFields DEF IsState
  <1>2. t.out = o /\ t.config = s.config /\ t.mutators = s.mutators
    BY <1>1 DEF State
  <1> HIDE DEF t
  <1>3. IsState(t)
    BY <1>1, <1>2 DEF IsState
  <1> QED
    BY <1>2, <1>3 DEF t

LEMMA MutatorsAdded ==
    ASSUME NEW s, IsState(s), NEW ms, IsList(ms), \A m \in ToSet(ms) : IsMutator(m)
    PROVE  /\ IsState(withImageConfigMutators(s, ms))
           /\ withImageConfigMutators(s, ms).out = s.out
           /\ withImageConfigMutators(s, ms).config # <<>>
  <1> DEFINE c == IF s.config = <<>> THEN <<EmptyConfig>> ELSE s.config
             t == withImageConfigMutators(s, ms)
             all == s.mutators \o ms
  <1>1. t = State(s.out, c, all)
    <2>1. s = State(s.out, s.config, s.mutators)
      BY DEF IsState
    <2>2. t = [s EXCEPT !.config = c, !.mutators = all]
      BY DEF withImageConfigMutators
    <2> HIDE DEF c, all, t
    <2> QED
      BY <2>1, <2>2 DEF State
  <1>2. IsConfig(c) /\ c # <<>>
    BY EmptyIsConfig DEF IsState
  <1>3. IsList(all) /\ \A i \in DOMAIN all : all[i] \in ToSet(s.mutators) \cup ToSet(ms)
    BY ConcatList DEF IsState
  <1>4. \A m \in ToSet(s.mutators) : IsMutator(m)
    BY DEF IsState, ToSet
  <1> HIDE DEF all, c
  <1>5. t.out = s.out /\ t.config = c /\ t.mutators = all
    BY <1>1 DEF State
  <1> HIDE DEF t
  <1>6. IsState(t)
    BY <1>1, <1>2, <1>3, <1>4, <1>5 DEF IsState
  <1> QED
    BY <1>2, <1>5, <1>6 DEF t

LEMMA MutatorAdded ==
    ASSUME NEW s, IsState(s), NEW m, IsMutator(m)
    PROVE  /\ IsState(withImageConfigMutator(s, m))
           /\ withImageConfigMutator(s, m).out = s.out
  <1>1. IsList(<<m>>) /\ ToSet(<<m>>) = {m}
    BY TupleLists
  <1> QED
    BY <1>1, MutatorsAdded DEF withImageConfigMutator

LEMMA MutatorFields ==
    ASSUME NEW ins, NEW arg, NEW of
    PROVE  LET m == Mutator(ins, arg, of) IN
           m.ins = ins /\ m.arg = arg /\ m.of = of
  BY DEF Mutator

\* An instruction, or a step that has a layer, as a mutator.
LEMMA Mutators ==
    /\ \A i \in Instructions, k \in Keys : IsMutator(Mutator(i, k, <<>>))
    /\ \A i \in Layers : \A arg, of : IsMutator(Mutator(i, arg, of))
  <1>1. Instructions \cap Layers = {}
    BY DEF Instructions, Layers, KeyValues, Once, Replaced
  <1> QED
    BY <1>1, MutatorFields DEF IsMutator

LEMMA SetState ==
    ASSUME NEW s, IsState(s), NEW i \in Instructions, NEW k \in Keys
    PROVE  IsState(Set(s, i, k)) /\ Set(s, i, k).out = s.out
  BY MutatorAdded, Mutators DEF Set

LEMMA LabelsState ==
    ASSUME NEW s, IsState(s)
    PROVE  IsState(AddLabels(s, Keys)) /\ AddLabels(s, Keys).out = s.out
  <1> DEFINE keys == SetToSeq(Keys)
             ms == [i \in DOMAIN keys |-> Mutator("LABEL", keys[i], <<>>)]
             n == Cardinality(Keys)
  <1>1. n \in Nat /\ DOMAIN keys = 1..n /\ \A i \in 1..n : keys[i] \in Keys
    BY SetToSeqLists, BuildingAssumption
  <1>2. "LABEL" \in Instructions
    BY DEF Instructions, KeyValues
  <1>3. AddLabels(s, Keys) = withImageConfigMutators(s, ms)
    BY DEF AddLabels
  <1>4. \A i \in 1..n : IsMutator(ms[i])
    BY <1>1, <1>2, Mutators
  <1>5. ms \in Seq(ToSet(ms)) /\ DOMAIN ms = 1..n
    <2>1. DOMAIN ms = 1..n /\ ms = [i \in 1..n |-> ms[i]]
      BY <1>1
    <2>2. \A i \in 1..n : ms[i] \in ToSet(ms)
      BY <2>1 DEF ToSet
    <2> HIDE DEF ms, n
    <2> QED
      BY <1>1, <2>1, <2>2
  <1> HIDE DEF ms, n
  <1>6. \A m \in ToSet(ms) : IsMutator(m)
    BY <1>4, <1>5 DEF ToSet
  <1> QED
    BY <1>3, <1>5, <1>6, MutatorsAdded DEF IsList

LEMMA RunState ==
    ASSUME NEW s, IsState(s), NEW x, IsOutput(MountOutput(x, RootDir))
    PROVE  IsState(RunExec(s, x)) /\ RunExec(s, x).out = MountOutput(x, RootDir)
  <1> DEFINE t == [s EXCEPT !.out = MountOutput(x, RootDir)]
             m == Mutator("RUN", x.arg, <<>>)
  <1>1. IsState(t) /\ t.out = MountOutput(x, RootDir)
    BY OutputReplaced
  <1>2. IsMutator(m)
    BY Mutators DEF Layers
  <1>3. RunExec(s, x) = withImageConfigMutator(t, m)
    BY DEF RunExec
  <1> HIDE DEF t, m
  <1> QED
    BY <1>1, <1>2, <1>3, MutatorAdded

LEMMA FileState ==
    ASSUME NEW s, IsState(s), NEW actions
    PROVE  IsState(File(s, actions)) /\ File(s, actions).out = FileOp(s.out, actions)
  <1>1. IsOutput(FileOp(s.out, actions))
    BY OutputVertices DEF FileOp
  <1> QED
    BY <1>1, OutputReplaced DEF File

LEMMA CopyState ==
    ASSUME NEW s, IsState(s), NEW src
    PROVE  IsState(Copy(src, s))
  <1> DEFINE t == [s EXCEPT !.out = FileOp(@, <<CopyFrom(src.out)>>)]
             m == Mutator("COPY", "", <<Digest(src.out)>>)
  <1>1. IsOutput(FileOp(s.out, <<CopyFrom(src.out)>>))
    BY OutputVertices DEF FileOp
  <1>2. IsState(t)
    BY <1>1, OutputReplaced
  <1>3. IsMutator(m)
    BY Mutators DEF Layers
  <1>4. Copy(src, s) = withImageConfigMutator(t, m)
    BY DEF Copy
  <1> HIDE DEF t, m
  <1> QED
    BY <1>2, <1>3, <1>4, MutatorAdded

\* Two states as a sequence.
LEMMA PairList ==
    ASSUME NEW S, NEW ss \in [1..2 -> S]
    PROVE  ss \in Seq(S) /\ Len(ss) = 2 /\ DOMAIN ss = 1..2 /\ ss # <<>>
  <1>1. DOMAIN ss = 1..2 /\ (\A i \in 1..2 : ss[i] \in S) /\ ss = [i \in 1..2 |-> ss[i]]
    OBVIOUS
  <1>2. ss \in Seq(S)
    <2> DEFINE n == 2
    <2>1. n \in Nat /\ (\A i \in 1..n : ss[i] \in S) /\ ss = [i \in 1..n |-> ss[i]]
      BY <1>1
    <2> HIDE DEF n
    <2> QED
      BY <2>1
  <1>3. Len(ss) = 2
    BY <1>1, <1>2
  <1>4. Len(<<>>) = 0
    OBVIOUS
  <1> QED
    BY <1>1, <1>2, <1>3, <1>4

LEMMA MergeState ==
    ASSUME NEW S, NEW ss \in [1..2 -> S], \A i \in 1..2 : IsState(ss[i])
    PROVE  IsState(Merge(ss))
  <1> DEFINE outs == [i \in DOMAIN ss |-> ss[i].out]
             from == FirstWithConfig(ss)
             r == [from EXCEPT !.out = MergeOp(outs)]
             m == Mutator("MERGE", "", [i \in DOMAIN outs |-> Digest(outs[i])])
  <1>1. ss \in Seq(S) /\ Len(ss) = 2 /\ DOMAIN ss = 1..2 /\ ss # <<>>
    BY PairList
  <1>2. \A i \in 1..2 : IsState(ss[i])
    OBVIOUS
  <1>3. Merge(ss) = withImageConfigMutator(r, m)
    BY <1>1 DEF Merge
  <1>4. IsState(from)
    <2> DEFINE some == {i \in DOMAIN ss : ss[i].config # <<>>}
    <2>1. some \subseteq 1..2
      BY <1>1
    <2>2. some # {} => \E i \in some : \A j \in some : i <= j
      BY <2>1
    <2>3. CASE some = {}
      BY <2>3, ScratchIsState DEF FirstWithConfig
    <2>4. CASE some # {}
      <3> DEFINE i == CHOOSE i \in some : \A j \in some : i <= j
      <3>1. i \in 1..2
        BY <2>1, <2>2, <2>4
      <3>2. from = ss[i]
        BY <2>4 DEF FirstWithConfig
      <3> QED
        BY <1>2, <3>1, <3>2
    <2> QED
      BY <2>3, <2>4
  <1>5. IsOutput(MergeOp(outs))
    BY OutputVertices DEF MergeOp
  <1>6. IsMutator(m)
    BY Mutators DEF Layers
  <1> HIDE DEF from, m
  <1>7. IsState(r)
    BY <1>4, <1>5, OutputReplaced
  <1> QED
    BY <1>3, <1>6, <1>7, MutatorAdded

LEMMA DiffState ==
    ASSUME NEW s, NEW t, IsState(s), IsState(t)
    PROVE  IsState(Diff(s, t))
  <1> DEFINE r == [s EXCEPT !.out = DiffOp(@, t.out)]
             m == Mutator("DIFF", "", <<Digest(s.out), Digest(t.out)>>)
  <1>1. IsOutput(DiffOp(s.out, t.out))
    BY OutputVertices DEF DiffOp
  <1>2. IsState(r)
    BY <1>1, OutputReplaced
  <1>3. IsMutator(m)
    BY Mutators DEF Layers
  <1>4. Diff(s, t) = IF s.out = Scratch THEN t ELSE withImageConfigMutator(r, m)
    BY DEF Diff
  <1> HIDE DEF r, m
  <1> QED
    BY <1>2, <1>3, <1>4, MutatorAdded

\* What json.Marshal leaves of the config of a call knows no session.
LEMMA EncodedConfig ==
    ASSUME NEW config, config # <<>> => config = <<config[1]>> /\ IsImage(config[1])
    PROVE  IsConfig(Encoded(config)) /\ (Encoded(config) = <<>> <=> config = <<>>)
  <1>1. CASE config = <<>>
    BY <1>1, NoMutators DEF Encoded
  <1>2. CASE config # <<>>
    <2> DEFINE img == config[1]
               h == img.history
               without == WithoutSessions(h)
               res == [set |-> img.set, history |-> without]
    <2>1. img = [set |-> img.set, history |-> h]
      BY <1>2 DEF IsImage
    <2>2. Encoded(config) = <<[img EXCEPT !.history = without]>>
      BY <1>2 DEF Encoded
    <2>3. Encoded(config) = <<res>>
      BY <2>1, <2>2
    <2>4. /\ Len(h) \in Nat /\ DOMAIN h = 1..Len(h)
          /\ \A i \in 1..Len(h) : IsRecord(h[i])
      BY <1>2, SeqIsList DEF IsImage, IsList
    <2>5. DOMAIN without = 1..Len(h)
      BY <2>4 DEF WithoutSessions
    <2>6. ASSUME NEW i \in 1..Len(h)
          PROVE  IsRecord(without[i]) /\ without[i].sess = NoSession
      <3>1. without[i] = [h[i] EXCEPT !.sess = NoSession]
        BY <2>4 DEF WithoutSessions
      <3>2. h[i] = Record(h[i].ins, h[i].args, h[i].of, h[i].empty, h[i].sess)
        BY <2>4 DEF IsRecord
      <3> HIDE DEF h
      <3>3. without[i] = Record(h[i].ins, h[i].args, h[i].of, h[i].empty, NoSession)
        BY <3>1, <3>2 DEF Record
      <3> HIDE DEF without
      <3>4. /\ without[i].ins = h[i].ins /\ without[i].args = h[i].args
            /\ without[i].of = h[i].of /\ without[i].empty = h[i].empty
            /\ without[i].sess = NoSession
        BY <3>3 DEF Record
      <3> QED
        BY <2>4, <3>3, <3>4 DEF IsRecord, Sessions
    <2> HIDE DEF h
    <2>7. IsList(without)
      <3>1. without = [i \in 1..Len(h) |-> without[i]]
        BY <2>4 DEF WithoutSessions
      <3> HIDE DEF without
      <3>2. without \in Seq({without[i] : i \in 1..Len(h)})
        BY <2>4, <3>1
      <3> QED
        BY <3>2, SeqIsList
    <2> HIDE DEF without
    <2>8. res.set = img.set /\ res.history = without
      OBVIOUS
    <2>9. img.set \in [Instructions -> Seq(Keys)]
      BY <1>2 DEF IsImage
    <2>10. IsImage(res) /\ \A i \in DOMAIN res.history : res.history[i].sess = NoSession
      <3> HIDE DEF res, img
      <3> QED
        BY <2>5, <2>6, <2>7, <2>8, <2>9 DEF IsImage, res
    <2> HIDE DEF res
    <2> QED
      BY <1>2, <2>3, <2>10, ConfigOf
  <1> QED
    BY <1>1, <1>2

LEMMA RebuiltState ==
    ASSUME NEW call, IsCall(call)
    PROVE  IsState(BuildDefinition(MarshalWithImageConfig(call)))
  <1> DEFINE def == MarshalWithImageConfig(call)
             config == IF def.description = <<>> THEN <<EmptyConfig>> ELSE def.description
             out == BuildOp(def.out, def.description)
  <1>1. IsConfig(def.description)
    BY EncodedConfig DEF IsCall, MarshalWithImageConfig
  <1>2. IsConfig(config)
    BY <1>1, EmptyIsConfig
  <1>3. IsOutput(out)
    BY OutputVertices DEF BuildOp
  <1>4. BuildDefinition(def) = State(out, config, <<>>)
    BY DEF BuildDefinition
  <1> HIDE DEF def, config, out
  <1> QED
    BY <1>2, <1>3, <1>4, PlainStates DEF def

-----------------------------------------------------------------------------
(* What a mutator does to an image config: the values of its instruction   *)
(* change, and the history gets a record, or its last record an argument.  *)

LEMMA ImageFields ==
    ASSUME NEW set, NEW h
    PROVE  /\ [set |-> set, history |-> h].set = set
           /\ [set |-> set, history |-> h].history = h
  OBVIOUS

LEMMA RecordFields ==
    ASSUME NEW ins, NEW args, NEW of, NEW empty, NEW sess
    PROVE  LET r == Record(ins, args, of, empty, sess) IN
           r.ins = ins /\ r.args = args /\ r.of = of /\ r.empty = empty /\ r.sess = sess
  BY DEF Record

\* The shape of img with these values and this history.
LEMMA ImageOf ==
    ASSUME NEW set \in [Instructions -> Seq(Keys)], NEW h, IsList(h),
           \A i \in DOMAIN h : IsRecord(h[i])
    PROVE  IsImage([set |-> set, history |-> h])
  BY ImageFields DEF IsImage

LEMMA Commit ==
    ASSUME NEW img, IsImage(img), NEW ins, NEW args, NEW of, NEW empty, NEW sess \in Sessions,
           ins \in Instructions => args \in Seq(Keys)
    PROVE  LET r == Record(ins, args, of, empty, sess) IN
           /\ commitHistory(img, ins, args, of, empty, sess) =
                  [set |-> img.set, history |-> Append(img.history, r)]
           /\ IsRecord(r)
           /\ IsImage(commitHistory(img, ins, args, of, empty, sess))
  <1> DEFINE r == Record(ins, args, of, empty, sess)
             h == Append(img.history, r)
  <1>1. commitHistory(img, ins, args, of, empty, sess) = [set |-> img.set, history |-> h]
    <2>1. img = [set |-> img.set, history |-> img.history]
      BY DEF IsImage
    <2>2. commitHistory(img, ins, args, of, empty, sess) = [img EXCEPT !.history = h]
      BY DEF commitHistory
    <2> HIDE DEF h
    <2> QED
      BY <2>1, <2>2
  <1>2. IsRecord(r)
    BY RecordFields DEF IsRecord
  <1>3. IsList(h) /\ \A i \in DOMAIN h : h[i] = r \/ (i \in DOMAIN img.history /\ h[i] = img.history[i])
    <2> HIDE DEF r
    <2>1. IsList(img.history)
      BY DEF IsImage
    <2> QED
      BY <2>1, AppendList
  <1>4. \A i \in DOMAIN h : IsRecord(h[i])
    BY <1>2, <1>3 DEF IsImage
  <1>5. img.set \in [Instructions -> Seq(Keys)]
    BY DEF IsImage
  <1> HIDE DEF h, r
  <1>6. IsImage([set |-> img.set, history |-> h])
    BY <1>3, <1>4, <1>5, ImageOf
  <1> QED
    BY <1>1, <1>2, <1>6 DEF h, r

\* The last record has the instruction and the session.
CanExtend(h, ins, sess) == Len(h) > 0 /\ h[Len(h)].ins = ins /\ h[Len(h)].sess = sess

\* What commitHistoryKV does to an image.
IsKVCommit(img, ins, arg, sess, res) ==
    LET r == Record(ins, <<arg>>, <<>>, TRUE, sess)
        h == img.history
    IN  /\ IsImage(res) /\ IsRecord(r) /\ res.set = img.set
        /\ ~CanExtend(h, ins, sess) => res.history = Append(h, r)
        /\ CanExtend(h, ins, sess) => res.history = [h EXCEPT ![Len(h)].args = Append(@, arg)]

LEMMA CommitKV ==
    ASSUME NEW img, IsImage(img), NEW ins \in Instructions, NEW arg \in Keys, NEW sess \in Sessions
    PROVE  IsKVCommit(img, ins, arg, sess, commitHistoryKV(img, ins, arg, sess))
  <1> DEFINE h == img.history
             n == Len(h)
             res == commitHistoryKV(img, ins, arg, sess)
             r == Record(ins, <<arg>>, <<>>, TRUE, sess)
             g == [h EXCEPT ![n].args = Append(@, arg)]
  <1>1. <<arg>> \in Seq(Keys)
    OBVIOUS
  <1>2. IsRecord(r)
    BY <1>1, Commit
  <1>3. CASE ~CanExtend(h, ins, sess)
    <2>1. res = commitHistory(img, ins, <<arg>>, <<>>, TRUE, sess)
      BY <1>3 DEF commitHistoryKV, CanExtend
    <2> HIDE DEF res
    <2>2. IsImage(res) /\ res = [set |-> img.set, history |-> Append(h, r)]
      BY <1>1, <2>1, Commit
    <2> HIDE DEF r, h
    <2>3. res.set = img.set /\ res.history = Append(h, r)
      BY <2>2, ImageFields
    <2> QED
      BY <1>2, <1>3, <2>2, <2>3 DEF r, res, h, IsKVCommit
  <1>4. CASE CanExtend(h, ins, sess)
    <2>1. /\ IsList(h) /\ n \in Nat /\ DOMAIN h = 1..n
          /\ \A i \in DOMAIN h : IsRecord(h[i])
          /\ img = [set |-> img.set, history |-> h]
          /\ img.set \in [Instructions -> Seq(Keys)]
      BY SeqIsList DEF IsImage, IsList
    <2>2. n \in DOMAIN h /\ h[n].ins = ins /\ h[n].sess = sess
      BY <1>4, <2>1 DEF CanExtend
    <2>3. res = [img EXCEPT !.history = ExtendLast(@, arg)]
      BY <1>4 DEF commitHistoryKV, CanExtend
    <2>4. res = [set |-> img.set, history |-> g]
      <3>1. ExtendLast(h, arg) = g
        BY DEF ExtendLast
      <3> HIDE DEF g, res
      <3>2. res = [img EXCEPT !.history = g]
        BY <2>3, <3>1
      <3> QED
        BY <2>1, <3>2
    <2>5. DOMAIN g = 1..n /\ \A i \in 1..n : i # n => g[i] = h[i]
      BY <2>1
    <2>6. IsRecord(g[n])
      <3> DEFINE e == h[n]
                 args == Append(e.args, arg)
      <3>1. g[n] = [e EXCEPT !.args = args]
        BY <2>2
      <3>2. IsRecord(e) /\ e.ins \in Instructions
        BY <2>1, <2>2
      <3>3. args \in Seq(Keys)
        BY <3>2 DEF IsRecord
      <3> HIDE DEF e, args, g
      <3>4. g[n] = Record(e.ins, args, e.of, e.empty, e.sess)
        BY <3>1, <3>2 DEF IsRecord, Record
      <3> QED
        BY <3>2, <3>3, <3>4, RecordFields DEF IsRecord
    <2>7. IsList(g)
      <3>1. g = [i \in 1..n |-> g[i]]
        BY <2>1
      <3> HIDE DEF g
      <3>2. g \in Seq({g[i] : i \in 1..n})
        BY <2>1, <3>1
      <3> QED
        BY <3>2, SeqIsList
    <2>8. \A i \in DOMAIN g : IsRecord(g[i])
      BY <2>1, <2>5, <2>6
    <2> HIDE DEF g
    <2>9. IsImage(res) /\ res.set = img.set /\ res.history = g
      BY <2>1, <2>4, <2>7, <2>8, ImageOf, ImageFields
    <2> HIDE DEF res, r
    <2> QED
      BY <1>2, <1>4, <2>9 DEF res, r, g, IsKVCommit
  <1> QED
    BY <1>3, <1>4

LEMMA WithImage ==
    ASSUME NEW img, IsImage(img), NEW ins \in Instructions, NEW values \in Seq(Keys)
    PROVE  /\ IsImage(With(img, ins, values))
           /\ With(img, ins, values).history = img.history
           /\ With(img, ins, values).set = [img.set EXCEPT ![ins] = values]
  <1> DEFINE set == [img.set EXCEPT ![ins] = values]
  <1>1. /\ img = [set |-> img.set, history |-> img.history]
        /\ IsList(img.history) /\ \A i \in DOMAIN img.history : IsRecord(img.history[i])
        /\ set \in [Instructions -> Seq(Keys)]
    BY DEF IsImage
  <1>2. With(img, ins, values) = [img EXCEPT !.set = set]
    BY DEF With
  <1> HIDE DEF set
  <1>3. With(img, ins, values) = [set |-> set, history |-> img.history]
    BY <1>1, <1>2
  <1> QED
    BY <1>1, <1>3, ImageOf, ImageFields DEF set

\* The values of an instruction after a mutator.
NewValues(old, m) ==
    IF \/ m.ins \in {"LABEL"} \cup Once /\ m.arg \in ToSet(old) THEN old
    ELSE IF m.ins \in Replaced \cup {"PLATFORM"} THEN <<m.arg>>
    ELSE Append(old, m.arg)

\* The kinds of instructions exclude one another.
LEMMA KindsDisjoint ==
    /\ KeyValues \subseteq Instructions /\ Once \subseteq Instructions
    /\ Replaced \subseteq Instructions /\ "ONBUILD" \in Instructions /\ "PLATFORM" \in Instructions
    /\ Layers \cap Instructions = {} /\ "LABEL" \in KeyValues
    /\ KeyValues \cap Once = {} /\ KeyValues \cap Replaced = {} /\ Once \cap Replaced = {}
    /\ "ONBUILD" \notin KeyValues \cup Once \cup Replaced \cup Layers
    /\ "PLATFORM" \notin KeyValues \cup Once \cup Replaced \cup Layers
    /\ "ONBUILD" # "PLATFORM"
    /\ \A i \in Instructions :
          i \in KeyValues \/ i \in Once \/ i \in Replaced \/ i = "ONBUILD" \/ i = "PLATFORM"
  BY DEF Instructions, Layers, KeyValues, Once, Replaced

\* The image with the new values of the mutator's instruction.
Valued(img, m) == With(img, m.ins, NewValues(img.set[m.ins], m))

LEMMA ValuedImage ==
    ASSUME NEW img, IsImage(img), NEW m, IsMutator(m), m.ins \in Instructions
    PROVE  /\ NewValues(img.set[m.ins], m) \in Seq(Keys)
           /\ IsImage(Valued(img, m))
           /\ Valued(img, m).history = img.history
           /\ Valued(img, m).set = [img.set EXCEPT ![m.ins] = NewValues(img.set[m.ins], m)]
  <1>1. img.set[m.ins] \in Seq(Keys) /\ m.arg \in Keys
    BY DEF IsImage, IsMutator
  <1>2. NewValues(img.set[m.ins], m) \in Seq(Keys)
    BY <1>1 DEF NewValues
  <1> QED
    BY <1>2, WithImage DEF Valued

LEMMA MutateKeyValue ==
    ASSUME NEW img, IsImage(img), NEW m, IsMutator(m), m.ins \in KeyValues, NEW sess
    PROVE  Mutate(img, m, sess) = commitHistoryKV(Valued(img, m), m.ins, m.arg, sess)
  <1>1. Mutate(img, m, sess) = SetKeyValue(img, m, sess)
    BY DEF Mutate, KeyValues, Once, Replaced, Layers
  <1>2. m.ins \in {"LABEL"} \cup Once <=> m.ins = "LABEL"
    BY KindsDisjoint
  <1>3. m.ins \notin Replaced \cup {"PLATFORM"}
    BY KindsDisjoint
  <1> QED
    BY <1>1, <1>2, <1>3 DEF SetKeyValue, Valued, NewValues

LEMMA MutateInstruction ==
    ASSUME NEW img, IsImage(img), NEW m, IsMutator(m),
           m.ins \in Once \cup Replaced \cup {"ONBUILD"}, NEW sess
    PROVE  Mutate(img, m, sess) =
               IF m.ins \in Once /\ m.arg \in ToSet(img.set[m.ins]) THEN img
               ELSE commitInstruction(Valued(img, m), m)
  <1>1. CASE m.ins \in Once
    <2>1. Mutate(img, m, sess) = AddOnce(img, m)
      BY <1>1 DEF Mutate, KeyValues, Once, Replaced, Layers
    <2>2. m.ins \notin Replaced \cup {"PLATFORM"}
      BY <1>1, KindsDisjoint
    <2> QED
      BY <1>1, <2>1, <2>2 DEF AddOnce, Valued, NewValues
  <1>2. CASE m.ins \in Replaced
    <2>1. Mutate(img, m, sess) = Replace(img, m)
      BY <1>2 DEF Mutate, KeyValues, Once, Replaced, Layers
    <2>2. m.ins \notin {"LABEL"} \cup Once
      BY <1>2, KindsDisjoint
    <2> QED
      BY <1>2, <2>1, <2>2 DEF Replace, Valued, NewValues
  <1>3. CASE m.ins = "ONBUILD"
    <2>1. Mutate(img, m, sess) = AddDockerOnBuild(img, m)
      BY <1>3 DEF Mutate, KeyValues, Once, Replaced, Layers
    <2>2. m.ins \notin {"LABEL"} \cup Once \cup Replaced \cup {"PLATFORM"}
      BY <1>3, KindsDisjoint
    <2> QED
      BY <2>1, <2>2 DEF AddDockerOnBuild, Valued, NewValues
  <1> QED
    BY <1>1, <1>2, <1>3

LEMMA MutatePlatform ==
    ASSUME NEW img, IsImage(img), NEW m, IsMutator(m), m.ins = "PLATFORM", NEW sess
    PROVE  Mutate(img, m, sess) = Valued(img, m)
  <1>1. Mutate(img, m, sess) = Platform(img, m)
    BY DEF Mutate, KeyValues, Once, Replaced, Layers
  <1>2. m.ins \notin {"LABEL"} \cup Once
    BY KindsDisjoint
  <1> QED
    BY <1>1, <1>2 DEF Platform, Valued, NewValues

\* The values that a Diff leaves.
DiffValues(set) ==
    [i \in Instructions |-> IF i \in {"LABEL", "PLATFORM"} THEN set[i] ELSE <<>>]

LEMMA MutateLayer ==
    ASSUME NEW img, IsImage(img), NEW m, IsMutator(m), m.ins \in Layers, NEW sess
    PROVE  LET res == Mutate(img, m, sess)
               r == Record(m.ins, IF m.of = <<>> THEN <<m.arg>> ELSE <<>>, m.of, FALSE, NoSession)
           IN  /\ IsImage(res) /\ IsRecord(r) /\ r.ins = m.ins /\ r.sess = NoSession
               /\ res.set = IF m.ins = "DIFF" THEN DiffValues(img.set) ELSE img.set
               /\ res.history = Append(img.history, r)
  <1> DEFINE args == IF m.of = <<>> THEN <<m.arg>> ELSE <<>>
             r == Record(m.ins, args, m.of, FALSE, NoSession)
             set == IF m.ins = "DIFF" THEN DiffValues(img.set) ELSE img.set
             mid == [set |-> set, history |-> img.history]
             res == Mutate(img, m, sess)
  <1>1. /\ img = [set |-> img.set, history |-> img.history]
        /\ IsList(img.history) /\ \A i \in DOMAIN img.history : IsRecord(img.history[i])
        /\ img.set \in [Instructions -> Seq(Keys)]
    BY DEF IsImage
  <1>2. DiffValues(img.set) \in [Instructions -> Seq(Keys)]
    BY <1>1 DEF DiffValues
  <1>3. set \in [Instructions -> Seq(Keys)]
    BY <1>1, <1>2
  <1>4. res = CommitLayer(mid, m)
    <2>1. CASE m.ins = "DIFF"
      <3>1. res = ResetByDiff(img, m)
        BY <2>1 DEF Mutate, KeyValues, Once, Replaced, Layers
      <3>2. res = CommitLayer([img EXCEPT !.set = DiffValues(img.set)], m)
        BY <3>1 DEF ResetByDiff, DiffValues
      <3>3. [img EXCEPT !.set = DiffValues(img.set)] = mid
        BY <1>1, <2>1
      <3> QED
        BY <3>2, <3>3
    <2>2. CASE m.ins # "DIFF"
      <3>1. res = CommitLayer(img, m)
        BY <2>2 DEF Mutate, KeyValues, Once, Replaced, Layers
      <3> QED
        BY <1>1, <2>2, <3>1
    <2> QED
      BY <2>1, <2>2
  <1> HIDE DEF set
  <1>5. IsImage(mid) /\ mid.set = set /\ mid.history = img.history
    BY <1>1, <1>3, ImageOf, ImageFields
  <1> HIDE DEF mid, res
  <1>6. /\ res = [set |-> mid.set, history |-> Append(mid.history, r)]
        /\ IsRecord(r) /\ IsImage(res)
    <2>1. res = commitHistory(mid, m.ins, args, m.of, FALSE, NoSession)
      BY <1>4 DEF CommitLayer
    <2>2. m.ins \notin Instructions /\ NoSession \in Sessions
      BY KindsDisjoint DEF Sessions
    <2> HIDE DEF args
    <2>3. /\ commitHistory(mid, m.ins, args, m.of, FALSE, NoSession) =
                 [set |-> mid.set, history |-> Append(mid.history, r)]
          /\ IsRecord(r)
          /\ IsImage(commitHistory(mid, m.ins, args, m.of, FALSE, NoSession))
      BY <1>5, <2>2, Commit
    <2> HIDE DEF r
    <2> QED
      BY <2>1, <2>3
  <1>7. r.ins = m.ins /\ r.sess = NoSession
    <2> HIDE DEF args
    <2> QED
      BY DEF Record
  <1> HIDE DEF r
  <1>8. res.set = set /\ res.history = Append(img.history, r)
    BY <1>5, <1>6, ImageFields
  <1> QED
    BY <1>6, <1>7, <1>8 DEF set, res, r, args

LEMMA MutateImage ==
    ASSUME NEW img, IsImage(img), NEW m, IsMutator(m), NEW sess \in Sessions
    PROVE  IsImage(Mutate(img, m, sess))
  <1>1. CASE m.ins \in Layers
    BY <1>1, MutateLayer
  <1>2. CASE m.ins \in Instructions
    <2> DEFINE mid == Valued(img, m)
    <2>1. IsImage(mid) /\ m.arg \in Keys
      BY <1>2, ValuedImage DEF IsMutator
    <2> HIDE DEF mid
    <2>2. CASE m.ins \in KeyValues
      <3>1. IsImage(commitHistoryKV(mid, m.ins, m.arg, sess))
        BY <1>2, <2>1, CommitKV DEF IsKVCommit
      <3> QED
        BY <2>2, <3>1, MutateKeyValue DEF mid
    <2>3. CASE m.ins \in Once \cup Replaced \cup {"ONBUILD"}
      <3>1. <<m.arg>> \in Seq(Keys)
        BY <2>1
      <3>2. IsImage(commitInstruction(mid, m))
        BY <2>1, <3>1, Commit DEF commitInstruction, Sessions
      <3> QED
        BY <2>3, <3>2, MutateInstruction DEF mid
    <2>4. CASE m.ins = "PLATFORM"
      BY <2>1, <2>4, MutatePlatform DEF mid
    <2> QED
      BY <1>2, <2>2, <2>3, <2>4, KindsDisjoint
  <1> QED
    BY <1>1, <1>2 DEF IsMutator
=============================================================================
