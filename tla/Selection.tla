------------------------------ MODULE Selection ------------------------------
(* Which nodes a command works on, in which order, and what a node inherits by    *)
(* column name (osmosis_propagation/node_filters.py and inheritance.py).          *)
(*                                                                                *)
(* A project m is a record: nodes, a function from identifiers to                 *)
(* [type, package, ephemeral, fqn, name, file, yaml, deps, text], where file and  *)
(* yaml are paths (sequences of segments, yaml Nowhere when there is none), deps  *)
(* a sequence of identifiers and text the description of the one column looked    *)
(* at, or Nothing.  The settings s are [external, select, paths, fqns], where     *)
(* select is the set dbt resolves the selectors to, or {}.                        *)
EXTENDS Naturals, Sequences, FiniteSets, SequencesExt, Ranking

CONSTANTS
    Nothing,   \* no text, no parent
    Nowhere,   \* no YAML file
    Computed   \* build_parent_map's sentinel of a computed column

(* ---- _iter_candidate_nodes ------------------------------------------------- *)

\* _is_fqn_match: the parts are a prefix of the name after the project.
FqnMatch(node, fqns) == \E f \in fqns : IsPrefix(f, Tail(node.fqn))

\* _is_file_match: by the stem, by a directory above, or by the file itself.
FileMatch(node, paths) ==
    \E p \in paths : \/ p[Len(p)] = node.name
                     \/ IsPrefix(p, node.file)
                     \/ node.yaml # Nowhere /\ IsPrefix(p, node.yaml)

IsCandidate(node, id, s) ==
    /\ node.type \in {"model", "source", "seed"}
    /\ node.package = "root" \/ s.external
    /\ ~(node.type = "model" /\ node.ephemeral)
    /\ IF s.select # {} THEN id \in s.select
       ELSE /\ s.paths # {} => FileMatch(node, s.paths)
            /\ s.fqns # {} => FqnMatch(node, s.fqns)

Candidates(m, s) == {id \in DOMAIN m.nodes : IsCandidate(m.nodes[id], id, s)}

\* _topological_sort.  The children of a node are a Python set, so they join the
\* queue in any order: the result is the set of orders Kahn's algorithm can give.
Parents(m, ids, n) == ToSet(m.nodes[n].deps) \cap ids
\* Mutant: a child is queued as soon as one of its parents is done.
EnqueueReached(m, ids, done, n) == {c \in ids : n \in Parents(m, ids, c)}
Enqueue(m, ids, done, n) == {c \in ids : /\ n \in Parents(m, ids, c)
                                         /\ Parents(m, ids, c) \subseteq done}

RECURSIVE Kahn(_, _, _, _)
Kahn(m, ids, queue, sorted) ==
    IF queue = <<>> THEN {sorted}
    ELSE LET n == Head(queue)
             done == ToSet(sorted) \cup {n}
             ready == Enqueue(m, ids, done, n) \ ToSet(queue)
         IN  UNION {Kahn(m, ids, Tail(queue) \o more, Append(sorted, n)) : more \in SetToSeqs(ready)}

Orders(m, s) ==
    LET ids == Candidates(m, s)
        free == {n \in ids : Parents(m, ids, n) = {}}
    IN  UNION {Kahn(m, ids, queue, <<>>) : queue \in SetToSeqs(free)}

\* A cycle raises an error.
Cyclic(m, s) == \E o \in Orders(m, s) : Len(o) < Cardinality(Candidates(m, s))

(* ---- Inheritance by name --------------------------------------------------- *)

\* _build_node_ancestor_tree: a depth-first walk; an ancestor belongs to the
\* generation at which the walk first comes to it, not to its least distance.
RECURSIVE Descend(_, _, _, _)
Descend(m, n, depth, tree) ==
    LET visit(t, d) == IF d \in DOMAIN t \/ d \notin DOMAIN m.nodes THEN t
                       ELSE Descend(m, d, depth + 1, (d :> depth) @@ t)
    IN  FoldLeft(visit, tree, m.nodes[n].deps)

Tree(m, n) == Descend(m, n, 1, n :> 0)

\* The keys "generation_<i>" sort as texts: 10 comes before 2.
Digits(i) == IF i < 10 THEN <<i>> ELSE <<i \div 10, i % 10>>
KeyBefore(i, j) == \/ Digits(i)[1] < Digits(j)[1]
                   \/ Digits(i)[1] = Digits(j)[1] /\ i < j
\* Mutant: generations are folded the other way round.
ClosestFirst(tree) ==
    Ranked({tree[a] : a \in DOMAIN tree}, KeyBefore)
FarthestFirst(tree) ==
    Reverse(Ranked({tree[a] : a \in DOMAIN tree}, KeyBefore))

\* One generation for one column (_build_column_knowledge_graph): the parent that
\* the lineage names, or else the first ancestor that has the column; a text
\* that is a placeholder is not inherited.  mentions is the set of ancestors that
\* have the column at all.
Provider(m, tree, g, n, parent, mentions) ==
    LET order == Ascending({a \in DOMAIN tree \ {n} : tree[a] = g})
        fit == SelectSeq(order, LAMBDA a : a \in mentions /\ (parent = Nothing \/ a = parent))
    IN  IF fit = <<>> THEN Nothing ELSE fit[1]

\* The text a column ends with in the knowledge graph: its own, overwritten from
\* the farthest generation to the closest.
Knowledge(m, n, parent, mentions) ==
    LET tree == Tree(m, n)
        merge(text, g) ==
            LET a == Provider(m, tree, g, n, parent, mentions)
            IN  IF a = Nothing \/ m.nodes[a].text = Nothing THEN text ELSE m.nodes[a].text
    IN  IF parent = Computed THEN m.nodes[n].text
        ELSE FoldLeft(merge, m.nodes[n].text, FarthestFirst(tree))

(* ---- What they should be --------------------------------------------------- *)

\* Every order lists each candidate once, after the candidates it depends on, and
\* a project without cycles is never refused; an ephemeral model, or a node of
\* another package unless asked for, is in none.
OrderFollowsDependencies(m, s) ==
    /\ ~Cyclic(m, s)
    /\ \A o \in Orders(m, s) :
         /\ IsInjective(o) /\ ToSet(o) = Candidates(m, s)
         /\ \A i, j \in DOMAIN o : o[i] \in ToSet(m.nodes[o[j]].deps) => i < j
         /\ \A i \in DOMAIN o : ~m.nodes[o[i]].ephemeral
                                /\ (m.nodes[o[i]].package = "root" \/ s.external)

RECURSIVE Ancestors(_, _)
Ancestors(m, S) ==
    LET more == S \cup UNION {ToSet(m.nodes[a].deps) \cap DOMAIN m.nodes : a \in S}
    IN  IF more = S THEN S ELSE Ancestors(m, more)

\* A column takes the text of an ancestor, the one its lineage names if it names
\* one, and no ancestor of a closer generation has the column with another text
\* (from the tenth on a generation comes before the second); a computed column
\* takes none.
InheritsFromClosest(m, n, parent, mentions) ==
    LET tree == Tree(m, n)
        above == Ancestors(m, {n}) \ {n}
        giving == {a \in above \cap mentions : m.nodes[a].text # Nothing
                                             /\ (parent = Nothing \/ a = parent)}
        got == Knowledge(m, n, parent, mentions)
    IN  /\ DOMAIN tree = above \cup {n}
        /\ parent = Computed \/ giving = {} => got = m.nodes[n].text
        /\ parent # Computed /\ got # m.nodes[n].text =>
             \E a \in giving : /\ m.nodes[a].text = got
                               /\ \A b \in giving : Provider(m, tree, tree[b], n, parent, mentions) = b
                                                      => \/ tree[a] <= tree[b]
                                                         \/ tree[a] > 9 /\ tree[b] \in 2..9
        /\ parent \in giving => got = m.nodes[parent].text
=============================================================================
