---------------------------- MODULE LineageGraph ----------------------------
(* What the lineage service and the explorer make of the columns' lineage:        *)
(* the upstream and downstream walks (lineage/service.py), the graph drawn from   *)
(* them (lineage/display/html/explore.py), the impact summary, and the origins    *)
(* of a column (api.py, _OriginTracer).                                           *)
(*                                                                                *)
(* A project p is a record: cols, the columns the registry has; entries, for      *)
(* each the sequence of its ColumnLineage entries [from, kind]; parents and       *)
(* exposed, the parents of a relation and of an exposure.  A column is            *)
(* <<relation, number>>, and the order of these pairs stands for the order of     *)
(* their names; tails holds <<q, r>> when the name of relation q ends with that   *)
(* of r (stg_orders, orders).  Labels, types and the model tree are left out.     *)
EXTENDS Naturals, Sequences, FiniteSets, SequencesExt, Ranking

Kinds == <<"derived", "direct", "renamed">>
Before(c, d) == \/ c[1] < d[1]
                \/ c[1] = d[1] /\ c[2] < d[2]
InOrder(S) == Ranked(S, Before)
Relations(p) == {c[1] : c \in p.cols}
Kids(p, r) == {s \in Relations(p) : r \in p.parents[s]}
Entries(p, c) == IF c \in p.cols THEN p.entries[c] ELSE <<>>

\* Entries sorted by kind, then by their first source; the sort is stable.
EntryBefore(e, f) ==
    LET rank(g) == CHOOSE i \in 1..3 : Kinds[i] = g.kind
    IN  \/ rank(e) < rank(f)
        \/ /\ rank(e) = rank(f)
           /\ f.from # {}
           /\ e.from = {} \/ Before(InOrder(e.from)[1], InOrder(f.from)[1])
SortedEntries(p, c) == SortSeq(Entries(p, c), EntryBefore)

(* ---- Upstream ------------------------------------------------------------- *)
(* A depth-first walk that shares visited.  recs is the result of the walk, one   *)
(* entry per column reached; gone are the references to unknown relations.        *)

\* Mutant: the entry of the reader is recorded even if the column has its own.
RecordedAlways(p, src, entry) == entry

\* The entry recorded for a column reached: its own first, or the reader's entry
\* when it has none.
Recorded(p, src, entry) == IF Entries(p, src) # <<>> THEN Entries(p, src)[1] ELSE entry

RECURSIVE Walk(_, _, _)
Walk(p, c, acc) ==
    LET steps == FlattenSeq([i \in DOMAIN SortedEntries(p, c) |->
                    LET e == SortedEntries(p, c)[i] IN [j \in DOMAIN InOrder(e.from) |->
                        [entry |-> e, src |-> InOrder(e.from)[j]]]])
        follow(a, s) ==
            IF s.src[1] \notin p.parents[c[1]] THEN a
            ELSE IF s.src[1] \notin Relations(p) THEN [a EXCEPT !.gone = @ \cup {s.src}]
            ELSE Walk(p, s.src,
                      [a EXCEPT !.recs = (s.src :> Recorded(p, s.src, s.entry)) @@ @])
    IN  IF c \in acc.visited THEN acc
        ELSE FoldLeft(follow, [acc EXCEPT !.visited = @ \cup {c}], steps)

Upstream(p, c) == Walk(p, c, [visited |-> {}, recs |-> <<>>, gone |-> {}])

(* ---- Downstream ----------------------------------------------------------- *)
(* A breadth-first walk, level by level in order; a later match overwrites the    *)
(* entry recorded for a column.                                                   *)

Readers(p, c) == {d \in p.cols : /\ d[1] \in Kids(p, c[1])
                                 /\ \E i \in DOMAIN p.entries[d] : c \in p.entries[d][i].from}

ReadBy(p, d, c) ==
    LET hits == SelectSeq(SortedEntries(p, d), LAMBDA e : c \in e.from) IN Last(hits)

Level(p, st) ==
    LET level == InOrder(st.frontier)
        record(r, c) == [d \in Readers(p, c) |-> ReadBy(p, d, c)] @@ r
        found == UNION {Readers(p, c) : c \in st.frontier}
    IN  [recs |-> FoldLeft(record, st.recs, level),
         visited |-> st.visited \cup found,
         frontier |-> found \ st.visited]

RECURSIVE Levels(_, _)
Levels(p, st) == IF st.frontier = {} THEN st ELSE Levels(p, Level(p, st))

Downstream(p, c) ==
    LET recs == Levels(p, [recs |-> <<>>, visited |-> {c}, frontier |-> {c}]).recs
        using == {c[1]} \cup {d[1] : d \in DOMAIN recs}
    IN  [recs |-> recs, exposures |-> {x \in DOMAIN p.exposed : p.exposed[x] \cap using # {}}]

\* get_column_impact: a derived column downstream is critical, any other is not.
Impact(p, c) ==
    LET down == Downstream(p, c)
        critical == {d \in DOMAIN down.recs : down.recs[d].kind = "derived"}
    IN  [models |-> Cardinality({d[1] : d \in DOMAIN down.recs}),
         columns |-> Cardinality(DOMAIN down.recs),
         exposures |-> Cardinality(down.exposures),
         critical |-> Cardinality(critical),
         low |-> Cardinality(DOMAIN down.recs \ critical)]

(* ---- The graph of the explorer -------------------------------------------- *)

\* _process_refs leaves out a source that it takes for the column itself:
\* src.endswith(its name).
LooksLike(p, s, d) == s[2] = d[2] /\ (s[1] = d[1] \/ <<s[1], d[1]>> \in p.tails)

\* _process_refs and the two that add what an edge starts from.
UpstreamPart(p, recs) ==
    UNION {{<<s, d>> : s \in {t \in recs[d].from : ~LooksLike(p, t, d)}} : d \in DOMAIN recs}

\* The main column's own sources, all entries of it (in _add_processed_data).
MainEdges(p, c) == {<<s, c>> : s \in UNION {e.from : e \in ToSet(Entries(p, c))}}

DownstreamPart(recs) == UNION {{<<s, d>> : s \in recs[d].from} : d \in DOMAIN recs}

\* Edges to exposures: from the columns of the downstream refs, and from every
\* drawn column of a relation in them (of the start, only the start column).
ExposureEdges(p, c, down, drawn) ==
    LET through == {d[1] : d \in DOMAIN down.recs} \ {c[1]}
        shown == {d \in drawn \cap p.cols : \/ d \in DOMAIN down.recs \cup {c}
                                            \/ d[1] \in through}
    IN  {<<d, x>> \in shown \X down.exposures : d[1] \in p.exposed[x]}

DropDangling(nodes, edges) == {e \in edges : e[1] \in nodes /\ e[2] \in nodes}

Drawn(p, c, refs, down, edges) ==
    LET columns == {c} \cup refs \cup {e[1] : e \in edges}
    IN  [columns |-> columns,
         exposures |-> down.exposures,
         edges |-> DropDangling(columns, edges),
         uses |-> ExposureEdges(p, c, down, columns)]

\* recs is the walk upstream, down the one downstream.
Joined(p, c, recs, down) ==
    Drawn(p, c, DOMAIN recs \cup DOMAIN down.recs, down,
          UpstreamPart(p, recs) \cup MainEdges(p, c) \cup DownstreamPart(down.recs))

Graph(p, c) == Joined(p, c, Upstream(p, c).recs, Downstream(p, c))

(* ---- Origins -------------------------------------------------------------- *)
(* _OriginTracer: the roots a value comes from, along first entries only, with a  *)
(* memo shared by every trace of a run.  roots are the relations that are sources *)
(* or seeds.                                                                      *)

\* What a column is followed to: the sources of its first entry.
FirstSources(p, c) == IF Entries(p, c) = <<>> THEN {} ELSE Entries(p, c)[1].from

RECURSIVE Trace(_, _, _, _)
Trace(p, c, stack, memo) ==
    LET self == [origins |-> {c}, via |-> {}]
        sources == FirstSources(p, c)
        visit(a, s) ==
            IF s[1] \notin Relations(p) THEN [a EXCEPT !.answer.origins = @ \cup {s}]
            ELSE LET r == Trace(p, s, stack \cup {c}, a.memo)
                 IN  [memo |-> r.memo,
                      answer |-> [origins |-> a.answer.origins \cup r.answer.origins,
                                  via |-> a.answer.via \cup r.answer.via]]
        walked == FoldLeft(visit, [memo |-> memo,
                                   answer |-> [origins |-> {}, via |-> {c[1]}]], InOrder(sources))
    IN  CASE c \in DOMAIN memo -> [memo |-> memo, answer |-> memo[c]]
          [] c[1] \in p.roots \/ c \in stack -> [memo |-> memo, answer |-> self]
          [] sources = {} -> [memo |-> (c :> self) @@ memo, answer |-> self]
          [] OTHER -> [memo |-> (c :> walked.answer) @@ walked.memo, answer |-> walked.answer]

\* The answers for a sequence of columns traced one after the other.
TraceAll(p, cs) ==
    LET next(a, c) == LET r == Trace(p, c, {}, a.memo)
                      IN  [memo |-> r.memo, answers |-> Append(a.answers, r.answer)]
    IN  FoldLeft(next, [memo |-> <<>>, answers |-> <<>>], cs).answers

(* ---- What they should be -------------------------------------------------- *)

RECURSIVE Closed(_, _)
Closed(R, S) ==
    LET more == S \cup {e[1] : e \in {f \in R : f[2] \in S}}
    IN  IF more = S THEN S ELSE Closed(R, more)

Feeds(p) == UNION {{<<s, d>> : s \in UNION {e.from : e \in ToSet(p.entries[d])}} : d \in p.cols}
FirstFeeds(p) ==
    UNION {{<<s, d>> : s \in UNION {p.entries[d][i].from : i \in {1} \cap DOMAIN p.entries[d]}}
             : d \in p.cols}
\* Dependencies along the project's own edges, which both walks follow.
Known(p) == {e \in Feeds(p) : e[1] \in p.cols /\ e[1][1] \in p.parents[e[2][1]]}
Above(p, c) == Closed(Known(p), {c}) \ {c}
Below(p, c) == Closed({<<e[2], e[1]>> : e \in Known(p)}, {c}) \ {c}

\* Two columns that feed a third in one entry.
Siblings(p) == UNION {UNION {e.from \X e.from : e \in ToSet(p.entries[d])} : d \in p.cols}

\* The graph holds every column above and below the chosen one.  Anything else on
\* it feeds a column on it.  Every edge is a dependency, or leads to a column
\* without lineage from a sibling of it (the reader's entry is recorded for such a
\* column, and its sources are drawn as the column's own).
GraphIsLineage(p, c, g) ==
    /\ {c} \cup Above(p, c) \cup Below(p, c) \subseteq g.columns
    /\ \A d \in g.columns \ ({c} \cup Above(p, c) \cup Below(p, c)) :
          \E e \in g.edges : e[1] = d
    /\ \A e \in g.edges : \/ e \in Feeds(p)
                          \/ e \in Siblings(p) /\ Entries(p, e[2]) = <<>>
    /\ \A u \in g.uses : u[1] \in {c} \cup Below(p, c)
                        \/ u[1][1] \in {d[1] : d \in Below(p, c)}

\* No step of the way is missing: all that feeds the chosen column, all that the
\* first entry of a column above names, and for each column below one of the
\* dependencies that lead to it from the chosen one.
StepsAreDrawn(p, c, g) ==
    /\ {e \in Feeds(p) : e[2] = c} \subseteq g.edges
    /\ \A e \in FirstFeeds(p) : e[2] \in Above(p, c) /\ e[1] # e[2] => e \in g.edges
    /\ \A d \in Below(p, c) : \E e \in g.edges :
          e[2] = d /\ e[1] \in {c} \cup Below(p, c)

\* The impact summary counts what is below, and the exposures of relations there.
ImpactIsClosure(p, c) ==
    LET impact == Impact(p, c)
        below == Below(p, c)
        rels == {d[1] : d \in below}
    IN  /\ impact.columns = Cardinality(below)
        /\ impact.models = Cardinality(rels)
        /\ impact.exposures = Cardinality({x \in DOMAIN p.exposed :
                                  p.exposed[x] \cap (rels \cup {c[1]}) # {}})
        /\ impact.critical >= Cardinality({d \in below : \A i \in DOMAIN p.entries[d] :
                                               p.entries[d][i].kind = "derived"})
        /\ impact.critical <= Cardinality({d \in below : \E i \in DOMAIN p.entries[d] :
                                               p.entries[d][i].kind = "derived"})

\* Where a value originates: the ends of the first entries' way up.  Only a column
\* that reads itself is an end with a way up.
Roots(p, c) ==
    {s \in Closed(FirstFeeds(p), {c}) :
        \/ s[1] \notin Relations(p) \ p.roots
        \/ ~\E e \in FirstFeeds(p) : e[2] = s
        \/ <<s, s>> \in FirstFeeds(p)}

\* Columns on a way that goes round through another column: two columns of an
\* incremental model that are each computed from the other's old value.
Turning(p) == {c \in p.cols : c \in Closed(FirstFeeds(p), {s \in p.cols \ {c} : <<s, c>> \in FirstFeeds(p)})}

\* A tracer's answer is the roots, whatever it was asked before.  On a way that goes
\* round it may name a column passed, and what it remembers of a column there may
\* lack roots: the first answer lacks none.
OriginsAreRoots(p, cs) ==
    LET answers == TraceAll(p, cs)
        turning == Turning(p)
        round(c) == Closed(FirstFeeds(p), {c}) \cap turning # {}
    IN  \A i \in DOMAIN cs :
          /\ answers[i].origins \subseteq Roots(p, cs[i]) \cup (turning \cap Closed(FirstFeeds(p), {cs[i]}))
          /\ i = 1 \/ ~round(cs[i]) => Roots(p, cs[i]) \subseteq answers[i].origins
=============================================================================
