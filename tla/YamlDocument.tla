---------------------------- MODULE YamlDocument ----------------------------
(* yaml.go: ToYAML prints each vertex in full where it meets it first and  *)
(* as an alias after that.                                                 *)
EXTENDS LlbGraph

\* A node is what stands for a vertex, a mount, a file action or Scratch, an
\* alias, or the synthetic MOUNT.  ix is the "output" of a writable mount.
\* Anchors are <<k, i>> for ref<k>_<i>, <<k>> for ref<k> and <<-1>> for scratch.
NoAnchor == <<>>
Node(kind, name, ix, kids) ==
    [kind |-> kind, name |-> name, ix |-> ix, kids |-> kids, anchor |-> NoAnchor, to |-> 0]

\* graphState: the nodes made so far, the node of each vertex (cache), the
\* vertices that have a ref number (aliases, aliasCounter); and the node that
\* the last call returned.
NewGraphState ==
    [nodes |-> <<>>, cache |-> [v \in {} |-> 0], scratch |-> 0, aliases |-> <<>>, at |-> 0]

AddNode(g, n) == [g EXCEPT !.nodes = Append(@, n), !.at = Len(g.nodes) + 1]

\* The target gets the anchor and the alias has its name as its value.
yamlAliasOf(g, n, anchor) ==
    AddNode([g EXCEPT !.nodes[n].anchor = anchor],
            [Node("alias", "", -1, <<>>) EXCEPT !.to = n, !.anchor = anchor])

\* anchorName: v has a ref number from now on.
Numbered(g, v) ==
    IF v \in ToSet(g.aliases) THEN g ELSE [g EXCEPT !.aliases = Append(@, v)]
Number(g, v) == SelectInSeq(g.aliases, LAMBDA x : x = v) - 1

\* Mutant: all outputs of an operation have one anchor.
AnchorOfOperation(g, out) == <<Number(g, Digest(out))>>

AnchorOf(g, out) == <<Number(g, Digest(out)), out[2]>>

scratchNode(g) ==
    IF g.scratch # 0 THEN yamlAliasOf(g, g.scratch, <<-1>>)
    ELSE LET h == AddNode(g, Node("scratch", "", -1, <<>>)) IN [h EXCEPT !.scratch = h.at]

\* The mount of node n that has this output; 0 without one.
MountWith(g, n, ix) ==
    LET kids == g.nodes[n].kids
        i == IF g.nodes[n].kind # "exec" THEN 0
             ELSE SelectInSeq(kids, LAMBDA k : g.nodes[k].ix = ix)
    IN  IF i = 0 THEN 0 ELSE kids[i]

\* Mutant: an alias is always of the whole operation.
CachedOperation(g, out) == g.cache[Digest(out)]

\* What an alias of an output is an alias of: the mount, or the whole node.
Cached(g, out) ==
    LET n == g.cache[Digest(out)]
        m == MountWith(g, n, out[2])
    IN  IF m = 0 THEN n ELSE m

RECURSIVE visit(_, _)

Input(g, out) == IF out = Scratch THEN scratchNode(g) ELSE visit(g, out)

\* A node with what was returned last as its last kid.
Wrap(g, kind, name, ix, kids) == AddNode(g, Node(kind, name, ix, Append(kids, g.at)))

\* Bind mounts, which are all that LlbGraph has: the others have no input
\* (yaml.go:470-473) and no output (:439).
yamlMount(g, v, m) ==
    Wrap(Input(g, m.out), "mount", m.name,
         IF m.ro THEN -1 ELSE MountOutput(v, m.name)[2], <<>>)

\* The input of the i-th action of a file operation: an alias of the action
\* before it, or what the operation is applied to.
ActionInput(g, v, i, prev) ==
    IF i = 1 THEN Input(g, v.ins[1].out)
    ELSE yamlAliasOf(Numbered(g, v), Last(prev), <<Number(Numbered(g, v), v), i - 1>>)

\* The action, after its input; Copy has a source as well.
yamlFileAction(g, a) ==
    IF a.name = "copy" THEN Wrap(visit(g, a.out), "action", "copy", -1, <<g.at>>)
    ELSE Wrap(g, "action", a.name, -1, <<>>)

\* The i-th part of the node of v, after the parts prev.  A build has the file
\* with its definition and the definition's own graph, which newGraph gives
\* the same cache.  A build builds the output 0 of that file, and its errors
\* (yaml.go:613-640) and those of a diff (:682-692) are of definitions that no
\* function of the package makes.
Part(g, v, i, prev) ==
    CASE v.op = "exec"  -> yamlMount(g, v, v.ins[i])
      [] v.op = "file"  -> yamlFileAction(ActionInput(g, v, i, prev), v.ins[i + 1])
      [] v.op \in {"build", "merge", "diff"} ->
             Input(g, IF i \in DOMAIN v.ins THEN v.ins[i].out ELSE v.def[1])

Parts(v) ==
    CASE v.op = "file" -> 1..(Len(v.ins) - 1)
      [] v.op = "build" -> 1..2
      [] v.op \notin {"file", "build"} -> DOMAIN v.ins

AddPart(done, g) == [g |-> g, kids |-> Append(done.kids, g.at)]
Finish(done, v) == AddNode(done.g, Node(v.op, v.arg, -1, done.kids))

\* The node of a vertex that is not in the cache.
Render(g, v) ==
    Finish(FoldLeft(LAMBDA done, i : AddPart(done, Part(done.g, v, i, done.kids)),
                    [g |-> g, kids |-> <<>>], [i \in Parts(v) |-> i]), v)

Remember(g, v) == [g EXCEPT !.cache = @ @@ (v :> g.at)]
AliasCached(g, out) == yamlAliasOf(g, Cached(g, out), AnchorOf(g, out))

visit(g, out) ==
    IF Digest(out) \in DOMAIN g.cache THEN AliasCached(Numbered(g, Digest(out)), out)
    ELSE Remember(Render(g, Digest(out)), Digest(out))

\* MOUNT: the operation, or an alias of it if a mount of it was returned, and
\* an alias of the mount.
MountNode(g, out) ==
    LET n == Numbered(g, Digest(out))
        whole == g.nodes[g.at].kind = "exec"
        h == IF whole THEN yamlAliasOf(n, MountWith(n, g.at, out[2]), AnchorOf(n, out))
             ELSE yamlAliasOf(n, n.cache[Digest(out)], <<Number(n, Digest(out))>>)
    IN  AddNode(h, Node("MOUNT", "", -1, IF whole THEN <<g.at, h.at>> ELSE <<h.at, g.at>>))

\* One more state.
Root(g, out) ==
    IF out = Scratch \/ out[2] = 0 THEN Input(g, out) ELSE MountNode(visit(g, out), out)

ToYAML(outs) ==
    LET done == FoldLeft(LAMBDA acc, o : AddPart(acc, Root(acc.g, o)),
                         [g |-> NewGraphState, kids |-> <<>>], outs)
    IN  [nodes |-> done.g.nodes, roots |-> done.kids]
=============================================================================
