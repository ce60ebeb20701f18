------------------------------ MODULE LlbGraph ------------------------------
(* The part of BuildKit's llb package that state.go, mounts.go and yaml.go *)
(* use: vertices and their outputs.  A vertex is the record of all it is   *)
(* made of, so two vertices are equal when their digests are.              *)
EXTENDS Integers, FiniteSets, SequencesExt

\* An output is a vertex and an index; Scratch has no vertex.
Scratch == <<>>
Output(v, i) == <<v, i>>
Digest(out) == out[1]
IsOutput(out) == out = Scratch \/ out = Output(out[1], out[2])

\* A sequence, of whatever it has.
IsList(s) == s \in Seq(ToSet(s))

\* An input has the name of its mount, its action or its role.
In(name, ro, out) == [name |-> name, ro |-> ro, out |-> out]

\* All the vertices that the marshalled definition of an output lists, those
\* of the definitions in it included.
Vertices(out) == IF out = Scratch THEN {} ELSE {Digest(out)} \cup Digest(out).below

\* below: the vertices its inputs and the definition in it are made of.
Vertex(op, arg, ins, def) ==
    [op |-> op, arg |-> arg, ins |-> ins, def |-> def,
     below |-> UNION {Vertices(i.out) : i \in ToSet(ins)}
               \cup (IF def = <<>> THEN {} ELSE Vertices(def[1]))]

SourceOp(id) == Output(Vertex("source", id, <<>>, <<>>), 0)

\* An action of a file operation: Mkfile, or Copy from another state.
Mkfile == In("mkfile", FALSE, Scratch)
CopyFrom(out) == In("copy", FALSE, out)
FileOp(out, actions) ==
    Output(Vertex("file", "", <<In("input", FALSE, out)>> \o actions, <<>>), 0)

\* At least two outputs, none of them Scratch.
MergeOp(outs) ==
    Output(Vertex("merge", "", [i \in DOMAIN outs |-> In("", FALSE, outs[i])], <<>>), 0)

DiffOp(lower, upper) ==
    Output(Vertex("diff", "", <<In("lower", FALSE, lower), In("upper", FALSE, upper)>>, <<>>), 0)

\* llbbuild.Build on a file whose data is a definition and its description.
BuildOp(out, description) ==
    LET data == <<out, description>>
        file == Vertex("file", "", <<In("input", FALSE, Scratch), Mkfile>>, data)
    IN  Output(Vertex("build", "", <<In("", FALSE, Output(file, 0))>>, data), 0)

\* The mounts of a Run are sorted by their mountpoint, the root first.
RootDir == "/"
ExecOp(root, arg, mounts) ==
    LET names == SetToSeq({m.name : m \in mounts})
        sorted == [i \in DOMAIN names |-> CHOOSE m \in mounts : m.name = names[i]]
    IN  Vertex("exec", arg, <<In(RootDir, FALSE, root)>> \o sorted, <<>>)

\* The writable mounts of a run are its outputs, numbered from 0.
IndexOf(v, m) ==
    LET k == CHOOSE k \in DOMAIN v.ins : v.ins[k] = m
    IN  Cardinality({j \in 1..(k - 1) : ~v.ins[j].ro})

\* What a Run leaves at a mountpoint; a readonly mount is left as it was.
MountOutput(v, name) ==
    LET m == CHOOSE m \in ToSet(v.ins) : m.name = name
    IN  IF m.ro THEN m.out ELSE Output(v, IndexOf(v, m))
=============================================================================
