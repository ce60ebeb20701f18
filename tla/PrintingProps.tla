---------------------------- MODULE PrintingProps ----------------------------
(* What the printed documents have to do with the states.                  *)
EXTENDS Printing

IsAlias(nodes, n) == nodes[n].kind = "alias"

\* The nodes in the order in which they are written.
RECURSIVE WrittenFrom(_, _)
WrittenFrom(nodes, n) ==
    <<n>> \o FlattenSeq([i \in DOMAIN nodes[n].kids |-> WrittenFrom(nodes, nodes[n].kids[i])])

Document(yaml) ==
    FlattenSeq([i \in DOMAIN yaml.roots |-> WrittenFrom(yaml.nodes, yaml.roots[i])])

\* An alias names the anchor that its target has at the end, which no other
\* node has, and comes after it.
Resolves(yaml) ==
    LET d == Document(yaml)
        nodes == yaml.nodes IN
    \A i \in DOMAIN d : IsAlias(nodes, d[i]) =>
        LET to == nodes[d[i]].to IN
        /\ nodes[to].anchor = nodes[d[i]].anchor
        /\ \E j \in 1..(i - 1) : d[j] = to
        /\ \A j \in DOMAIN d :
              ~IsAlias(nodes, d[j]) /\ nodes[d[j]].anchor = nodes[d[i]].anchor => d[j] = to

\* The aliases of every document resolve.
AliasesResolve == \A outs \in Dumps : Resolves(ToYAML(outs))

\* The operation that a mount belongs to.
OperationOf(nodes, m) == CHOOSE n \in DOMAIN nodes : m \in ToSet(nodes[n].kids)

\* What is written at n is a way to write the output.  An alias names one
\* output.  An operation written in full as an input names none (yaml.go:340-347,
\* :529-536, :618), so it is a way to write each of its outputs.
RECURSIVE Matches(_, _, _), MatchesVertex(_, _, _)
Matches(nodes, n, out) ==
    LET t == nodes[n].to IN
    IF out = Scratch THEN nodes[IF IsAlias(nodes, n) THEN t ELSE n].kind = "scratch"
    ELSE IF ~IsAlias(nodes, n) THEN MatchesVertex(nodes, n, Digest(out))
    ELSE IF nodes[t].kind = "mount"
         THEN nodes[t].ix = out[2] /\ MatchesVertex(nodes, OperationOf(nodes, t), Digest(out))
         ELSE Digest(out).op # "exec" /\ MatchesVertex(nodes, t, Digest(out))

MatchesVertex(nodes, n, v) ==
    LET kids == nodes[n].kids
        kid(i) == nodes[kids[i]]
        action(i) == LET a == v.ins[i + 1] IN
            /\ kid(i).name = a.name
            /\ IF i = 1 THEN Matches(nodes, kid(1).kids[1], v.ins[1].out)
               ELSE nodes[kid(i).kids[1]].to = kids[i - 1]
            /\ a.name = "copy" => Matches(nodes, kid(i).kids[2], a.out)
    IN  /\ nodes[n].kind = v.op /\ nodes[n].name = v.arg
        /\ Len(kids) = Cardinality(Parts(v))
        /\ CASE v.op = "exec" -> \A i \in DOMAIN kids :
                   kid(i).name = v.ins[i].name /\ Matches(nodes, kid(i).kids[1], v.ins[i].out)
             [] v.op = "file" -> \A i \in DOMAIN kids : action(i)
             [] v.op = "build" -> Matches(nodes, kids[1], v.ins[1].out) /\ Matches(nodes, kids[2], v.def[1])
             [] v.op \in {"source", "merge", "diff"} ->
                   \A i \in DOMAIN kids : Matches(nodes, kids[i], v.ins[i].out)

\* A root is a way to write the output; MOUNT names the mount, and so the output.
RootMatches(nodes, root, out) ==
    LET kids == nodes[root].kids IN
    IF nodes[root].kind # "MOUNT" THEN Matches(nodes, root, out)
    ELSE /\ Matches(nodes, kids[2], out)
         /\ nodes[nodes[kids[2]].to].kind = "mount"
         /\ MatchesVertex(nodes, IF IsAlias(nodes, kids[1]) THEN nodes[kids[1]].to ELSE kids[1],
                        Digest(out))

\* A document has the operations that its states are made of, each with its
\* inputs, whether these are written in full or as an alias, and writes no node
\* twice.  An alias is of the very output that it stands for, and MOUNT names
\* the output of a root.  Which output of an operation is an input that is
\* written in full, the document does not tell, nor does this property.
DocumentMatches ==
    \A outs \in Dumps :
        LET yaml == ToYAML(outs) IN
        /\ \A i \in DOMAIN outs : RootMatches(yaml.nodes, yaml.roots[i], outs[i])
        /\ IsInjective(Document(yaml))
=============================================================================
