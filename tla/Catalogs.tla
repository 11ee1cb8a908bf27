------------------------------ MODULE Catalogs ------------------------------
(* "Which columns does this relation have": the answer compile-cll gives to the     *)
(* macros of a model it compiles offline (_ColumnProvider, offline_compile.py) and  *)
(* the one parse-cll expands stars with (LayeredCatalogReader), from the same       *)
(* setting cll-column-sources.                                                      *)
(*                                                                                  *)
(* A world is a record of                                                           *)
(*   relations  the relations of the manifest, in its order:                        *)
(*              [uid, kind, db, schema, ident, docs], docs the documented columns   *)
(*   sources    cll-column-sources, a sequence of "catalog", "live", "manifest"     *)
(*   file       catalog.json: columns by uid, as some earlier run saw them          *)
(*   warehouse  the columns of <<db, schema, ident>>, for the relations that exist  *)
(*   readable   the databases whose metadata the role may read                      *)
(*   sql        uid of a model compiled in this run -> [columns, stars]: what its   *)
(*              SQL selects by name, and the identifiers it selects everything from *)
EXTENDS Integers, Sequences, SequencesExt, FiniteSets, FiniteSetsExt, Functions, TLC

At(r) == <<r.db, r.schema, r.ident>>
RelationsOf(w) == ToSet(w.relations)
Uids(w) == {r.uid : r \in RelationsOf(w)}
Get(f, x) == IF x \in DOMAIN f THEN f[x] ELSE {}

\* YAML is the last resort unless it is configured earlier.
SourcesInOrder(w) ==
    IF "manifest" \in ToSet(w.sources) THEN w.sources ELSE Append(w.sources, "manifest")

\* Rows of information_schema for the databases that answer (fetch_snapshot), and the
\* relations they are joined to by database, schema and identifier (build_snapshot).
SnapshotRows(w) == [at \in {a \in DOMAIN w.warehouse : a[1] \in w.readable} |-> w.warehouse[at]]
\* Mutant: rows are joined to relations by identifier alone.
SnapshotByName(w) ==
    LET rows == SnapshotRows(w)
    IN  [u \in {r.uid : r \in {x \in RelationsOf(w) : \E a \in DOMAIN rows : a[3] = x.ident}} |->
            LET r == CHOOSE x \in RelationsOf(w) : x.uid = u
            IN  rows[CHOOSE a \in DOMAIN rows : a[3] = r.ident]]
Snapshot(w) ==
    LET rows == SnapshotRows(w)
    IN  [u \in {r.uid : r \in {x \in RelationsOf(w) : At(x) \in DOMAIN rows}} |->
            rows[At(CHOOSE x \in RelationsOf(w) : x.uid = u)]]

----
(* compile-cll *)

\* catalog.json and the snapshot are read by name (_catalog_relations): by schema and
\* identifier, the last entry counting, else by identifier alone, the first counting.
ByName(w, file, ident, schema) ==
    LET listed == SelectSeq(w.relations, LAMBDA r : r.ident = ident /\ Get(file, r.uid) # {})
        exact == SelectSeq(listed, LAMBDA r : r.schema = schema)
    IN  IF exact # <<>> THEN file[Last(exact).uid]
        ELSE IF listed # <<>> THEN file[Head(listed).uid] ELSE {}

\* Columns documented for any relation of that identifier (_manifest_relations).
Documented(w, ident) == UNION {r.docs : r \in {x \in RelationsOf(w) : x.ident = ident}}

\* The warehouse sources are consulted in their order; in the place of "manifest"
\* comes a model's own SQL, compiled earlier in this run, before what is documented.
\* `asked` holds the identifiers whose SQL is being traced: a model that selects
\* everything from a relation of its own name falls back to the documentation.
RECURSIVE ProvidedColumns(_, _, _, _)
FromCompiledSql(w, ident, asked) ==
    LET models == SelectSeq(w.relations, LAMBDA r : r.kind = "model" /\ r.ident = ident)
    IN  IF models = <<>> \/ ident \in asked THEN {}
        ELSE IF Last(models).uid \notin DOMAIN w.sql THEN {}
        ELSE LET sql == w.sql[Last(models).uid]
                 below == [i \in sql.stars |-> ProvidedColumns(w, i, "no schema", asked \cup {ident})]
             IN  IF {} \in Range(below) THEN {} ELSE sql.columns \cup UNION Range(below)
AnswerOf(w, source, ident, schema, asked) ==
    IF source # "manifest"
    THEN ByName(w, IF source = "catalog" THEN w.file ELSE Snapshot(w), ident, schema)
    ELSE LET compiled == FromCompiledSql(w, ident, asked)
         IN  IF compiled # {} THEN compiled ELSE Documented(w, ident)
FirstOf(answers) ==
    LET known == SelectSeq(answers, LAMBDA a : a # {}) IN IF known = <<>> THEN {} ELSE Head(known)
ProvidedColumns(w, ident, schema, asked) ==
    FirstOf([i \in DOMAIN SourcesInOrder(w) |->
                AnswerOf(w, SourcesInOrder(w)[i], ident, schema, asked)])

----
(* parse-cll *)

\* Models, seeds and sources of the manifest, each under its unique_id with the
\* columns its YAML documents (ManifestCatalogReader).
ManifestNodes(w) ==
    [u \in {r.uid : r \in {x \in RelationsOf(w) : x.kind # "snapshot"}} |->
        (CHOOSE x \in RelationsOf(w) : x.uid = u).docs]
\* The entries of a catalog file under their unique_id (CatalogReader).
CatalogNodes(w, file) == [u \in DOMAIN file \cap Uids(w) |-> file[u]]

\* load, get_models_nodes and _replace: the columns of the first configured source
\* that knows the relation. `snapshot` is target/cll-columns.json, <<>> without it.
LayerOf(w, snapshot, source, u) ==
    CASE source = "manifest" -> ManifestNodes(w)[u]
      [] source = "catalog" -> Get(CatalogNodes(w, w.file), u)
      [] source = "live" -> Get(CatalogNodes(w, snapshot), u)
Origin(w, snapshot, u) ==
    LET order == SourcesInOrder(w)
        at == SelectInSeq(order, LAMBDA source : LayerOf(w, snapshot, source, u) # {})
    IN  IF at = 0 THEN "none" ELSE order[at]

\* _get_live_columns: the relation's columns, nothing when the query fails.
LiveColumns(w, r) == IF r.db \in w.readable THEN Get(w.warehouse, At(r)) ELSE {}

\* _fill_live and _fill: without a snapshot the warehouse is asked for the relations
\* in `needed` that no warehouse source answered for, and its columns join theirs.
LayeredColumns(w, snapshot, needed, u) ==
    LET r == CHOOSE x \in RelationsOf(w) : x.uid = u
        origin == Origin(w, snapshot, u)
        layered == IF origin = "none" THEN {} ELSE LayerOf(w, snapshot, origin, u)
    IN  IF "live" \in ToSet(w.sources) /\ snapshot = <<>> /\ origin \in {"none", "manifest"} /\ u \in needed
        THEN layered \cup LiveColumns(w, r) ELSE layered

----
\* What the sources say of one relation, and the first of them that knows it.
Says(w, source, r) ==
    CASE source = "manifest" -> r.docs [] source = "catalog" -> Get(w.file, r.uid)
      [] source = "live" -> LiveColumns(w, r)
FirstKnown(w, r) ==
    FirstOf([i \in DOMAIN SourcesInOrder(w) |-> Says(w, SourcesInOrder(w)[i], r)])
Alone(w, r) == \A x \in RelationsOf(w) \ {r} : x.ident # r.ident
AloneInSchema(w, r) == \A x \in RelationsOf(w) \ {r} : x.ident = r.ident => x.schema # r.schema

\* A relation has its columns wholly from the first configured source that knows it,
\* for parse-cll whatever else has its name, and, when compile-cll has written the
\* snapshot, both commands agree on it: on sources and seeds, and on models that a
\* warehouse source before "manifest" knows, as far as names tell relations apart.
ColumnsAgree(w) ==
    LET live == "live" \in ToSet(w.sources)
        snapshot == IF live THEN Snapshot(w) ELSE <<>>
    IN  \A r \in {x \in RelationsOf(w) : x.kind # "snapshot"} :
            LET first == SelectInSeq(SourcesInOrder(w), LAMBDA s : Says(w, s, r) # {})
                byWarehouse == first # 0 /\ \A i \in 1..first : SourcesInOrder(w)[i] # "manifest"
                toldApart == \/ Alone(w, r) /\ (r.kind # "model" \/ byWarehouse)
                             \/ AloneInSchema(w, r) /\ first = 1 /\ byWarehouse
            IN  /\ (live => snapshot # <<>>) =>
                     LayeredColumns(w, snapshot, Uids(w), r.uid) = FirstKnown(w, r)
                /\ toldApart => ProvidedColumns(w, r.ident, r.schema, {}) = FirstKnown(w, r)

\* An answer taken from a model's SQL is what that SQL yields: the columns it names
\* and all of those of the relations it reads whole, never a part of them.
CompiledIsWhole(w) ==
    \A r \in {x \in RelationsOf(w) : x.kind = "model" /\ x.uid \in DOMAIN w.sql /\ Alone(w, x)} :
        LET compiled == FromCompiledSql(w, r.ident, {})
        IN  compiled # {} =>
              /\ w.sql[r.uid].columns \subseteq compiled
              /\ \A x \in RelationsOf(w) : x.ident \in w.sql[r.uid].stars /\ Alone(w, x) /\ x.kind # "model"
                    => FirstKnown(w, x) # {} /\ FirstKnown(w, x) \subseteq compiled
=============================================================================
