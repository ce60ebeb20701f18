---------------------------- MODULE ImageHistory ----------------------------
(* state.go and image.go: an llb.State carries an image config and a chain *)
(* of functions that change it; LoadImageConfig applies the chain to a     *)
(* copy, and each function commits what it did to the image history.       *)
EXTENDS LlbGraph

\* The instructions by what they do to the config.
KeyValues == {"ENV", "LABEL"}
Once == {"EXPOSE", "VOLUME"}
Replaced == {"WORKDIR", "USER", "ENTRYPOINT", "CMD", "STOPSIGNAL", "HEALTHCHECK", "SHELL"}
Layers == {"RUN", "COPY", "MERGE", "DIFF"}
Instructions == KeyValues \cup Once \cup Replaced \cup {"ONBUILD", "PLATFORM"}

\* A history record: its instruction, what CreatedBy says after it (key=value
\* pairs or arguments, then digests), EmptyLayer and the session that made it.
NoSession == "none"
Record(ins, args, of, empty, sess) ==
    [ins |-> ins, args |-> args, of |-> of, empty |-> empty, sess |-> sess]

\* ImageConfig: the values of each instruction, and the history.
EmptyConfig == [set |-> [i \in Instructions |-> <<>>], history |-> <<>>]

\* An llb.State: its output, the imageConfigState.config (<<>> for nil) and the
\* imageConfigState.mutator as the sequence it chains.
State(out, config, mutators) == [out |-> out, config |-> config, mutators |-> mutators]
ScratchState == State(Scratch, <<>>, <<>>)

-----------------------------------------------------------------------------
commitHistory(img, ins, args, of, empty, sess) ==
    [img EXCEPT !.history = Append(@, Record(ins, args, of, empty, sess))]

ExtendLast(history, arg) == [history EXCEPT ![Len(history)].args = Append(@, arg)]

\* Mutant: any session may extend the last record.
CommitAnySession(img, ins, arg, sess) ==
    LET last == Len(img.history) IN
    IF last > 0 /\ img.history[last].ins = ins
    THEN [img EXCEPT !.history = ExtendLast(@, arg)]
    ELSE commitHistory(img, ins, <<arg>>, <<>>, TRUE, sess)

commitHistoryKV(img, ins, arg, sess) ==
    LET last == Len(img.history) IN
    IF last > 0 /\ img.history[last].ins = ins /\ img.history[last].sess = sess
    THEN [img EXCEPT !.history = ExtendLast(@, arg)]
    ELSE commitHistory(img, ins, <<arg>>, <<>>, TRUE, sess)

\* A mutator: the instruction, its argument or the digests it is about.
Mutator(ins, arg, of) == [ins |-> ins, arg |-> arg, of |-> of]

With(img, ins, values) == [img EXCEPT !.set[ins] = values]

\* AddDefaultEnv appends, whatever is there; AddLabel writes a map.
SetKeyValue(img, m, sess) ==
    LET old == img.set[m.ins]
        new == IF m.ins = "LABEL" /\ m.arg \in ToSet(old) THEN old ELSE Append(old, m.arg)
    IN  commitHistoryKV(With(img, m.ins, new), m.ins, m.arg, sess)

\* The other instructions have one argument and are records of their own.
commitInstruction(img, m) == commitHistory(img, m.ins, <<m.arg>>, <<>>, TRUE, NoSession)

AddDockerOnBuild(img, m) ==
    commitInstruction(With(img, m.ins, Append(img.set[m.ins], m.arg)), m)

\* AddExposedPort and AddVolume: nothing happens if it is there already.
AddOnce(img, m) ==
    IF m.arg \in ToSet(img.set[m.ins]) THEN img
    ELSE commitInstruction(With(img, m.ins, Append(img.set[m.ins], m.arg)), m)

Replace(img, m) == commitInstruction(With(img, m.ins, <<m.arg>>), m)

\* Platform is not an instruction of the history.
Platform(img, m) == With(img, m.ins, <<m.arg>>)

\* A step that has a layer: its argument or the digests it was made from.
CommitLayer(img, m) ==
    commitHistory(img, m.ins, IF m.of = <<>> THEN <<m.arg>> ELSE <<>>, m.of, FALSE, NoSession)

\* Mutant: the config of the lower state stays as it is.
DiffKeepsConfig(img, m) == CommitLayer(img, m)

\* Diff forgets all of the config but the labels and the platform.
ResetByDiff(img, m) ==
    CommitLayer([img EXCEPT !.set = [i \in Instructions |->
                    IF i \in {"LABEL", "PLATFORM"} THEN img.set[i] ELSE <<>>]], m)

\* Runs one mutator.
Mutate(img, m, sess) ==
    CASE m.ins \in KeyValues  -> SetKeyValue(img, m, sess)
      [] m.ins \in Once       -> AddOnce(img, m)
      [] m.ins \in Replaced   -> Replace(img, m)
      [] m.ins = "ONBUILD"    -> AddDockerOnBuild(img, m)
      [] m.ins = "PLATFORM"   -> Platform(img, m)
      [] m.ins = "DIFF"       -> ResetByDiff(img, m)
      [] m.ins \in Layers \ {"DIFF"} -> CommitLayer(img, m)

-----------------------------------------------------------------------------
\* A call of LoadImageConfig: the state's config is copied, then the mutators
\* that its mutator chains run on the copy, the oldest first; nil stays nil.
LoadImageConfig(st, sess) ==
    [state |-> st, sess |-> sess, config |-> st.config, done |-> 0]
RunMutator(call) ==
    [call EXCEPT !.config = <<Mutate(@[1], call.state.mutators[call.done + 1], call.sess)>>,
                 !.done = @ + 1]
HasLoaded(call) == call.done = Len(call.state.mutators)

\* Calls to withImageConfigMutator: a state without a config gets an empty one.
withImageConfigMutators(st, ms) ==
    [st EXCEPT !.config = IF @ = <<>> THEN <<EmptyConfig>> ELSE @,
               !.mutators = @ \o ms]
withImageConfigMutator(st, m) == withImageConfigMutators(st, <<m>>)

\* Image and ResolvedImage with the config the resolver returns; llb.Local,
\* llb.Git and the like have none.
Image(id, config) == State(SourceOp(id), <<config>>, <<>>)
Local(id) == State(SourceOp(id), <<>>, <<>>)

\* Every st.With(option) of an instruction.
Set(st, ins, arg) == withImageConfigMutator(st, Mutator(ins, arg, <<>>))

\* AddLabels goes through its map in the order of the keys.
AddLabels(st, args) ==
    LET keys == SetToSeq(args)
    IN  withImageConfigMutators(st, [i \in DOMAIN keys |-> Mutator("LABEL", keys[i], <<>>)])

\* llblib.File, which leaves the image history alone.
File(st, actions) == [st EXCEPT !.out = FileOp(@, actions)]

\* Run(...).Root().
RunExec(st, v) ==
    withImageConfigMutator([st EXCEPT !.out = MountOutput(v, RootDir)], Mutator("RUN", v.arg, <<>>))

Copy(src, st) ==
    withImageConfigMutator([st EXCEPT !.out = FileOp(@, <<CopyFrom(src.out)>>)],
                           Mutator("COPY", "", <<Digest(src.out)>>))

\* None or one state is left alone.  Else the config and mutators are those of
\* the first state that has a config.
FirstWithConfig(states) ==
    LET some == {i \in DOMAIN states : states[i].config # <<>>}
    IN  IF some = {} THEN ScratchState ELSE states[CHOOSE i \in some : \A j \in some : i <= j]

Merge(states) ==
    LET outs == [i \in DOMAIN states |-> states[i].out]
    IN  IF states = <<>> THEN ScratchState
        ELSE IF Len(states) = 1 THEN states[1]
        ELSE withImageConfigMutator([FirstWithConfig(states) EXCEPT !.out = MergeOp(outs)],
                 Mutator("MERGE", "", [i \in DOMAIN outs |-> Digest(outs[i])]))

\* A diff from scratch is the upper state.
Diff(lower, upper) ==
    IF lower.out = Scratch THEN upper
    ELSE withImageConfigMutator([lower EXCEPT !.out = DiffOp(@, upper.out)],
             Mutator("DIFF", "", <<Digest(lower.out), Digest(upper.out)>>))

-----------------------------------------------------------------------------
\* The JSON of a config: sessions are not part of it, and nil becomes null.
WithoutSessions(history) == [i \in DOMAIN history |-> [history[i] EXCEPT !.sess = NoSession]]
Encoded(config) ==
    IF config = <<>> THEN <<>>
    ELSE <<[config[1] EXCEPT !.history = WithoutSessions(@)]>>

\* After its call of LoadImageConfig.
MarshalWithImageConfig(call) ==
    [out |-> call.state.out, description |-> Encoded(call.config)]

\* null decodes to an empty config.
BuildDefinition(def) ==
    State(BuildOp(def.out, def.description),
          IF def.description = <<>> THEN <<EmptyConfig>> ELSE def.description, <<>>)
=============================================================================
