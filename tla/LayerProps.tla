----------------------------- MODULE LayerProps -----------------------------
(* The layers in the history of an image config and the operations in the  *)
(* graph of its state.                                                     *)
EXTENDS BuildingProps

LayersOf(history) ==
    FlattenSeq([i \in DOMAIN history |-> IF history[i].empty THEN <<>> ELSE <<history[i]>>])

\* An operation starts with such an output if it is none of llblib's.
IsBase(out) == out = Scratch \/ Digest(out).op = "source" \/ (Digest(out).op = "exec" /\ out[2] # 0)
IsImageBase(out) == out # Scratch /\ Digest(out).op = "source" /\ Digest(out).arg \in Images

\* Made by File, which leaves the config alone.
IsPlainFile(out) ==
    out # Scratch /\ Digest(out).op = "file" /\ Len(Digest(out).ins) # 2

\* What is left after so many plain file operations are taken off.
Strip(out) == IF IsPlainFile(out) THEN Digest(out).ins[1].out ELSE out
Stripped(out) ==
    LET f[n \in Nat] == IF n = 0 THEN out ELSE Strip(f[n - 1])
    IN  f

\* The state of this output has no config unless instructions gave it one.
Bare(out, depth) ==
    \E n \in 0..depth : LET base == Stripped(out)[n] IN IsBase(base) /\ ~IsImageBase(base)

\* The outputs whose history an operation may go on with: its first input, and
\* for a merge the first input that has a config.
Before(out, depth) ==
    LET v == Digest(out) IN
    IF IsBase(out) THEN {}
    ELSE IF v.op = "build" THEN {v.def[1]}
    ELSE IF v.op = "merge"
         THEN {v.ins[k].out : k \in {k \in DOMAIN v.ins : \A j \in 1..(k - 1) : Bare(v.ins[j].out, depth)}}
    ELSE {v.ins[1].out}

\* The layers that an operation adds, none for a build, and those of an image.
LayersAt(out) ==
    LET v == Digest(out)
        digests == [j \in DOMAIN v.ins |-> Digest(v.ins[j].out)]
        layer(ins, args, of) == <<Record(ins, args, of, FALSE, NoSession)>>
    IN  IF IsBase(out) THEN IF IsImageBase(out) THEN LayersOf(Pulled[Digest(out).arg].history) ELSE <<>>
        ELSE CASE v.op = "exec" -> layer("RUN", <<v.arg>>, <<>>)
               [] v.op = "file" -> IF IsPlainFile(out) THEN <<>>
                                   ELSE layer("COPY", <<>>, <<Digest(v.ins[2].out)>>)
               [] v.op = "diff" -> layer("DIFF", <<>>, digests)
               [] v.op = "merge" -> layer("MERGE", <<>>, digests)
               [] OTHER -> <<>>

\* Ways back from an output, and one step more of each: where one arrives, and
\* the layers of the operations on the way.
StepBack(ways, depth) ==
    UNION {{<<b, LayersAt(w[1]) \o w[2]>> : b \in Before(w[1], depth)} : w \in ways}
Ways(out, depth) ==
    LET f[n \in Nat] == IF n = 0 THEN {<<out, <<>>>>} ELSE StepBack(f[n - 1], depth)
    IN  f

\* The lists of layers that the graph of an output has, if it is not deeper.
LayersIn(out, depth) ==
    {LayersAt(w[1]) \o w[2] : w \in {w \in UNION {Ways(out, depth)[n] : n \in 0..depth} : IsBase(w[1])}}

\* The history of a loaded config has one record for each Run, Copy, Merge and
\* Diff on the way from the base to the state's output, in that order.  A graph
\* is not deeper than the number of calls that made it.
LayersMatch ==
    HasResult /\ Idle =>
        LayersOf(Result.history) \in LayersIn(loaded[1].state.out, built + mounted)
=============================================================================
