----------------------------- MODULE SqlLineage -----------------------------
(* How the SQL parser (cll_generator/parser/sql_parser.py) finds the columns a   *)
(* model's output is made of, and what they are made of in fact.                 *)
(*                                                                               *)
(* A query is a sequence of named bodies, the CTEs in their order and the final  *)
(* one.  A body is a select or a union of selects.  A select has a scope, the    *)
(* relations of FROM and JOIN, and items: a bare column, a computed expression   *)
(* over columns, a constant, or a star.  A reference is <<relation, column>>,    *)
(* the relation being Unqualified when the SQL names none.  Aliases, quoting and *)
(* the rewriting of sqlglot trees before the walk are left out.                  *)
EXTENDS Naturals, Sequences, FiniteSets, SequencesExt

CONSTANTS
    Schema,       \* the base relations and the columns they have, in order
    Alphabet,     \* the names of columns, as sorted() puts them
    Told,        \* base relations whose columns the parser is told
    Self,         \* the model's own relation, {{ this }}
    Unqualified,  \* the relation of a reference that names none
    Many          \* the "" of cte_sources: no single source

Base == DOMAIN Schema
Selects(body) == IF body.kind = "union" THEN body.branches ELSE <<body>>
IsStar(item) == item.form = "star"

(* ---- What the parser builds ----------------------------------------------- *)
(* For each CTE: its columns in order, for each its source (or Many), the whole  *)
(* source set, the kind of transformation and the union branches, and the base   *)
(* relations read with a star.                                                   *)

NoLineage == [cols |-> <<>>, src |-> <<>>, set |-> <<>>, type |-> <<>>,
              branches |-> <<>>, base |-> {}]

With(f, c, v) == [d \in DOMAIN f \cup {c} |-> IF d = c THEN v ELSE f[d]]

\* extract_cte_model_mappings_from_parsed: the first relation the first select reads.
ToModel(body) == Selects(body)[1].scope[1]

\* The chain of first relations from a CTE down to a name that is none.
Bottom(env, t) ==
    LET B[u \in DOMAIN env.ctes \cup Base] ==
          IF u \in DOMAIN env.ctes THEN B[env.model[u]] ELSE u
    IN  B[t]

KnownIn(env, t) ==
    IF t \in DOMAIN env.ctes THEN ToSet(env.ctes[t].cols)
    ELSE IF t \in Told THEN ToSet(Schema[t]) ELSE {}

\* _pick_table_for_unqualified.
PickFor(env, select, col) ==
    LET having == {i \in DOMAIN select.scope : col \in KnownIn(env, select.scope[i])}
    IN  IF Len(select.scope) > 1 /\ Cardinality(having) = 1
        THEN select.scope[CHOOSE i \in having : TRUE]
        ELSE select.scope[1]

Table(env, select, ref) ==
    IF ref[1] = Unqualified THEN PickFor(env, select, ref[2]) ELSE ref[1]

Knows(env, t, col) == t \in DOMAIN env.ctes /\ col \in ToSet(env.ctes[t].cols)

\* _resolve_column_source.
Source(env, t, col) ==
    IF Knows(env, t, col) THEN env.ctes[t].src[col] ELSE <<Bottom(env, t), col>>

\* _get_source_set and _get_union_branches, in this order.
SourceSet(env, t, col) ==
    LET cte == env.ctes[t]
    IN  IF cte.set[col] # {} THEN cte.set[col] ELSE ToSet(cte.branches[col])

Traced(env, t, col) ==
    LET s == Source(env, t, col)
    IN  IF s = Many THEN SourceSet(env, t, col) ELSE {s}

\* Mutant: an alias of the select list hides a column of the tables.
LateralFirst(env, select, i, ref) ==
    /\ ref[1] = Unqualified
    /\ \E j \in 1..(i - 1) : ~IsStar(select.items[j]) /\ select.items[j].out = ref[2]
\* _reads_a_column: an unqualified name is a column of the scope if a relation is
\* known to have it, or if no item to the left defines it.
Lateral(env, select, i, ref) ==
    /\ ref[1] = Unqualified
    /\ \A t \in ToSet(select.scope) : ref[2] \notin KnownIn(env, t)
    /\ \E j \in 1..(i - 1) : ~IsStar(select.items[j]) /\ select.items[j].out = ref[2]

Defining(select, i, col) ==
    CHOOSE j \in 1..(i - 1) : ~IsStar(select.items[j]) /\ select.items[j].out = col

\* _extract_source_columns, through lateral aliases.
Extracted(env, select) ==
    LET E[i \in DOMAIN select.items] ==
          UNION {IF Lateral(env, select, i, ref)
                 THEN E[Defining(select, i, ref[2])]
                 ELSE Traced(env, Table(env, select, ref), ref[2]) :
                    ref \in ToSet(select.items[i].refs)}
    IN  E

Lineage(sources, type, branches) ==
    [sources |-> sources, type |-> type, branches |-> branches]

\* _analyze_column_reference and _handle_forward_reference.
Analyzed(env, select, i) ==
    LET item == select.items[i]
        ref == item.refs[1]
        t == Table(env, select, ref)
        cte == env.ctes[t]
        stored == t \in DOMAIN env.ctes /\ ref[2] \in ToSet(cte.cols)
        renamed == item.out # ref[2]
        type == IF stored /\ ~(renamed /\ cte.type[ref[2]] = "direct")
                THEN cte.type[ref[2]]
                ELSE IF renamed THEN "renamed" ELSE "direct"
    IN  CASE item.form = "constant" -> Lineage({}, "literal", <<>>)
          [] item.form = "computed" -> Lineage(Extracted(env, select)[i], "derived", <<>>)
          [] Lateral(env, select, i, ref) ->
                LET j == Defining(select, i, ref[2])
                IN  IF select.items[j].form = "constant"
                    THEN Lineage({}, "literal", <<>>)
                    ELSE Lineage(Extracted(env, select)[j], "derived", <<>>)
          [] Source(env, t, ref[2]) = Many ->
                Lineage(cte.set[ref[2]], IF type = "direct" THEN "derived" ELSE type,
                        cte.branches[ref[2]])
          [] OTHER -> Lineage({Source(env, t, ref[2])}, type,
                              IF stored THEN cte.branches[ref[2]] ELSE <<>>)

\* _store_column_lineage_in_cte.
Stored(cte, col, l) ==
    [cte EXCEPT
        !.cols = IF col \in ToSet(@) THEN @ ELSE Append(@, col),
        !.src = With(@, col, IF Cardinality(l.sources) = 1
                             THEN CHOOSE s \in l.sources : TRUE ELSE Many),
        !.set = With(@, col, IF Cardinality(l.sources) > 1 THEN l.sources ELSE {}),
        !.type = With(@, col, l.type),
        !.branches = With(@, col, IF l.type = "union" THEN l.branches ELSE <<>>)]

Sorted(cols) == SelectSeq(Alphabet, LAMBDA col : col \in ToSet(cols))

\* _copy_cte_columns_with_exclusions: in the order of the names, not of the CTE.
Copied(cte, from) ==
    FoldLeft(LAMBDA acc, col :
                [acc EXCEPT
                    !.cols = IF col \in ToSet(@) THEN @ ELSE Append(@, col),
                    !.src = With(@, col, from.src[col]),
                    !.set = With(@, col, from.set[col]),
                    !.type = With(@, col, from.type[col]),
                    !.branches = With(@, col, from.branches[col])],
             [cte EXCEPT !.base = @ \cup from.base], Sorted(from.cols))

\* The branch of _build_cte_sources for a plain select.
SelectCte(env, select) ==
    FoldLeft(LAMBDA acc, i :
                LET item == select.items[i]
                    t == select.scope[1]
                IN  IF ~IsStar(item) THEN Stored(acc, item.out, Analyzed(env, select, i))
                    ELSE IF t \in DOMAIN env.ctes THEN Copied(acc, env.ctes[t])
                    ELSE [acc EXCEPT !.base = @ \cup {t}],
             NoLineage, [i \in DOMAIN select.items |-> i])

\* _branch_column_sources: the one column a branch passes on, and all it reads.  A
\* column a CTE does not know is one of what that CTE reads, which may be a CTE too.
BranchColumn(env, t, col) ==
    LET s == IF Knows(env, t, col) THEN env.ctes[t].src[col]
             ELSE <<IF t \in DOMAIN env.ctes THEN env.model[t] ELSE t, col>>
    IN  IF s = Many THEN [one |-> <<>>, all |-> SourceSet(env, t, col)]
        ELSE [one |-> <<s>>, all |-> {s}]

\* _resolve_branch_source; an unqualified column is one of the first relation.
BranchTable(select, ref) == IF ref[1] = Unqualified THEN select.scope[1] ELSE ref[1]

BranchEntry(env, select, item) ==
    LET Read(ref) == BranchColumn(env, BranchTable(select, ref), ref[2])
    IN  IF item.form = "bare"
        THEN [out |-> item.out, constant |-> FALSE] @@ Read(item.refs[1])
        ELSE [out |-> item.out, constant |-> item.form = "constant", one |-> <<>>,
              all |-> UNION {Read(r).all : r \in ToSet(item.refs)}]

\* _expand_branch_columns: a star counts only over a CTE.
BranchEntries(env, select) ==
    FlattenSeq([i \in DOMAIN select.items |->
        IF ~IsStar(select.items[i]) THEN <<BranchEntry(env, select, select.items[i])>>
        ELSE IF select.scope[1] \notin DOMAIN env.ctes THEN <<>>
        ELSE LET cte == env.ctes[select.scope[1]]
             IN  [j \in DOMAIN cte.cols |->
                    [out |-> cte.cols[j], constant |-> FALSE]
                    @@ BranchColumn(env, select.scope[1], cte.cols[j])]])

\* _aligned_columns matches by position; _constant_set_op_column.
UnionColumn(entries, p) ==
    LET there == SelectSeq(entries, LAMBDA e : p <= Len(e))
        ones == FlattenSeq([b \in DOMAIN there |-> there[b][p].one])
        all == UNION {there[b][p].all : b \in DOMAIN there}
    IN  IF all = {} /\ ones = <<>> /\ \A b \in DOMAIN there : there[b][p].constant
        THEN Lineage({}, "literal", <<>>)
        ELSE Lineage(all, "union", ones)

UnionLineage(env, body) ==
    LET entries == [b \in DOMAIN body.branches |-> BranchEntries(env, body.branches[b])]
    IN  [p \in DOMAIN entries[1] |->
            [out |-> entries[1][p].out, lineage |-> UnionColumn(entries, p)]]

\* _process_union_cte: always the sentinel, with the whole set beside it.
UnionCte(env, body) ==
    LET lineage == UnionLineage(env, body)
        bases == UNION {LET t == s.scope[1] IN
                          IF t \in DOMAIN env.ctes THEN env.ctes[t].base \cup {env.model[t]}
                          ELSE {t} : s \in ToSet(body.branches)}
    IN  FoldLeft(LAMBDA acc, c :
                    [acc EXCEPT
                        !.cols = IF c.out \in ToSet(@) THEN @ ELSE Append(@, c.out),
                        !.src = With(@, c.out, Many),
                        !.set = With(@, c.out, c.lineage.sources),
                        !.type = With(@, c.out, c.lineage.type),
                        !.branches = With(@, c.out, c.lineage.branches)],
                 [NoLineage EXCEPT !.base = bases], lineage)

Cte(env, body) ==
    IF body.kind = "union" THEN UnionCte(env, body) ELSE SelectCte(env, body)

\* _build_cte_sources, one CTE at a time; the bodies are kept for the final select.
NoCtes == [ctes |-> <<>>, model |-> <<>>, body |-> <<>>]

Extend(env, name, body) ==
    [ctes |-> With(env.ctes, name, Cte(env, body)),
     model |-> With(env.model, name, ToModel(body)),
     body |-> With(env.body, name, body)]

\* expand_from_cte and expand_from_join_tables: the columns a final star brings.
Expanded(env, select) ==
    LET from == SelectSeq(select.scope, LAMBDA t : t \in DOMAIN env.ctes)
        Brought(t, col) ==
            LET cte == env.ctes[t]
                l == Lineage(IF cte.src[col] = Many THEN cte.set[col] ELSE {cte.src[col]},
                             cte.type[col],
                             IF cte.type[col] = "union" THEN cte.branches[col] ELSE <<>>)
            IN  [out |-> col, lineage |-> l]
    IN  FlattenSeq([i \in DOMAIN from |->
            [j \in DOMAIN env.ctes[from[i]].cols |->
                Brought(from[i], env.ctes[from[i]].cols[j])]])

\* A final `select *` from a CTE that is one select is that select.
Unwrapped(env, final) ==
    IF /\ final.kind = "select" /\ Len(final.items) = 1 /\ IsStar(final.items[1])
       /\ final.scope[1] \in DOMAIN env.body
       /\ env.body[final.scope[1]].kind = "select"
    THEN env.body[final.scope[1]]
    ELSE final

\* _parse_lineage_tree, once the CTEs are known.
Parse(env, last) ==
    LET final == Unwrapped(env, last)
        Of(i) == IF IsStar(final.items[i]) THEN Expanded(env, final)
                 ELSE <<[out |-> final.items[i].out, lineage |-> Analyzed(env, final, i)]>>
        outs == IF final.kind = "union" THEN UnionLineage(env, final)
                ELSE FlattenSeq([i \in DOMAIN final.items |-> Of(i)])
    IN  [c \in {outs[i].out : i \in DOMAIN outs} |->
            outs[CHOOSE i \in DOMAIN outs : outs[i].out = c].lineage]

(* ---- Incremental models ---------------------------------------------------- *)

\* The names of the model's own relation: {{ this }} and the CTEs that read it.
SelfNames(own, name, body) ==
    IF body.kind = "select" /\ body.scope[1] \in own THEN own \cup {name} ELSE own

\* _strip_self_referencing_union_branches: such branches go, unless none is left.
WithoutSelf(own, body) ==
    LET kept == SelectSeq(Selects(body), LAMBDA s : s.scope[1] \notin own)
    IN  IF body.kind = "select" \/ kept = <<>> THEN body
        ELSE IF Len(kept) = 1 THEN kept[1] @@ [kind |-> "select"]
        ELSE [body EXCEPT !.branches = kept]

(* ---- What the columns are made of ----------------------------------------- *)

\* The columns of every relation in their order, the base columns that flow into
\* each, and how: a column passed on unchanged keeps the kind it had.
Flow(from, kind) == [from |-> from, kind |-> kind]
Column(out, flow) == [out |-> out, flow |-> flow]
Outs(cols) == {cols[i].out : i \in DOMAIN cols}
FlowOf(cols, c) == cols[CHOOSE i \in DOMAIN cols : cols[i].out = c].flow

BaseFlows ==
    [t \in Base |-> [i \in DOMAIN Schema[t] |->
        Column(Schema[t][i], Flow({<<t, Schema[t][i]>>}, "passed"))]]

\* f has the columns of every relation before this one.
SelectFlows(f, s) ==
    LET Having(ref) == {t \in ToSet(s.scope) : ref[2] \in Outs(f[t])}
        I[i \in DOMAIN s.items] ==
            LET item == s.items[i]
                Of(ref) ==
                  IF ref[1] # Unqualified THEN FlowOf(f[ref[1]], ref[2])
                  ELSE IF Having(ref) # {}
                  THEN FlowOf(f[CHOOSE t \in Having(ref) : TRUE], ref[2])
                  ELSE I[Defining(s, i, ref[2])]
            IN  IF item.form = "bare" THEN Of(item.refs[1])
                ELSE Flow(UNION {Of(r).from : r \in ToSet(item.refs)}, item.form)
    IN  FlattenSeq([i \in DOMAIN s.items |->
            IF IsStar(s.items[i])
            THEN FlattenSeq([k \in DOMAIN s.scope |-> f[s.scope[k]]])
            ELSE <<Column(s.items[i].out, I[i])>>])

United(flows) ==
    IF \A g \in flows : g.kind = "constant" THEN Flow({}, "constant")
    ELSE Flow(UNION {g.from : g \in flows}, "union")

Flows(f, body) ==
    LET outs == [k \in DOMAIN Selects(body) |-> SelectFlows(f, Selects(body)[k])]
    IN  IF body.kind = "select" THEN outs[1]
        ELSE [p \in DOMAIN outs[1] |->
                Column(outs[1][p].out, United({outs[k][p].flow : k \in DOMAIN outs}))]

\* Where the parser guesses, and may be wrong: a star over a join follows the first
\* relation only, a union skips a star over columns it has no names of, an
\* unqualified column no single relation is known to have goes to the first, and
\* in a union one always does; a branch on the model's own relation is dropped
\* with all it joins.
Nameless(env, t) == t \in Base \/ env.ctes[t].base # {}

\* A union is aligned by the recorded order of a starred CTE, which is not that of
\* the query if the CTE, or one it has its columns from, copied them with a star.
Resorted(env, t) ==
    LET R[u \in DOMAIN env.ctes] ==
          \E s \in ToSet(Selects(env.body[u])) :
              /\ \E i \in DOMAIN s.items : IsStar(s.items[i])
              /\ s.scope[1] \in DOMAIN env.ctes
              /\ LET cols == env.ctes[s.scope[1]].cols
                 IN  cols # Sorted(cols) \/ R[s.scope[1]]
    IN  t \in DOMAIN env.ctes /\ R[t]

\* A column of a union is looked for one relation below a CTE that does not know it,
\* and then has the name of a CTE for its origin.
NamesCte(env, t, col) ==
    t \in DOMAIN env.ctes /\ ~Knows(env, t, col) /\ env.model[t] \in DOMAIN env.ctes

GuessesUnion(env, s) ==
    LET starred == \E i \in DOMAIN s.items : IsStar(s.items[i])
    IN  \/ starred /\ (Nameless(env, s.scope[1]) \/ Resorted(env, s.scope[1]))
        \/ \E i \in DOMAIN s.items : \E ref \in ToSet(s.items[i].refs) :
              \/ ref[1] = Unqualified /\ (Len(s.scope) > 1 \/ Lateral(env, s, i, ref))
              \/ NamesCte(env, BranchTable(s, ref), ref[2])

Guesses(env, own, body) ==
    \E s \in ToSet(Selects(body)) :
        \/ s.scope[1] \in own /\ Len(s.scope) > 1
        \/ Len(s.scope) > 1 /\ \E i \in DOMAIN s.items : IsStar(s.items[i])
        \/ body.kind = "union" /\ GuessesUnion(env, s)
        \/ /\ body.kind # "union" /\ Len(s.scope) > 1
           /\ \E i \in DOMAIN s.items : \E ref \in ToSet(s.items[i].refs) :
                 /\ ref[1] = Unqualified /\ ~Lateral(env, s, i, ref)
                 /\ \A t \in ToSet(s.scope) : ref[2] \notin KnownIn(env, t)
=============================================================================
