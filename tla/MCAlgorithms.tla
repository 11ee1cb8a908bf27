---------------------------- MODULE MCAlgorithms ----------------------------
(* The pure algorithms on bounded inputs: each initial state is one input, and an  *)
(* invariant compares what the code computes for it with what it should be.        *)
EXTENDS LineageGraph, Settings, Document, Selection, Migration,
        Enrichment, Inheritance, SourceTables, Catalogs

CONSTANTS Unqualified, Many, manifestText, yamlText, text1, text2, auto, manual, amlText, amlMore

VARIABLE sample

\* The kinds of input, taken in rounds: queries grow body by body meanwhile.
Rounds == << {"setting", "property", "document", "tables", "columns"},
             {"selection", "inherit", "graph"},
             {"migration", "enrichment", "chain"} >>
Begin(round) == [kind : {"start"}, round : {round}, of : Rounds[round]]
Start(kind) == sample.kind = "start" /\ sample.of = kind

\* Two base relations and the model's own one, for the queries.
BaseTables == [t \in {"a", "b", "this"} |->
                CASE t = "a" -> <<"x", "y">> [] t = "b" -> <<"z">> [] OTHER -> <<"x">>]
Sql == INSTANCE SqlQueries WITH Schema <- BaseTables, Told <- DOMAIN BaseTables, Self <- "this",
                               Alphabet <- <<"n", "w", "x", "y", "z">>

E(from, kind) == [from |-> from, kind |-> kind]

\* One source relation (1), three models (2, 3, 4) and a relation the registry
\* does not know (9); 3 reads 1 without depending on it (a hard-coded name).
\* Model 2 is incremental and may read its own columns, each the other one.
Choice2a == {<<>>, <<E({<<1,1>>}, "direct")>>, <<E({<<1,1>>, <<1,2>>}, "derived")>>,
             <<E({<<1,1>>}, "derived"), E({<<1,2>>}, "direct")>>,
             <<E({<<1,1>>, <<9,1>>}, "derived")>>, <<E({<<2,1>>, <<1,1>>}, "derived")>>,
             <<E({<<2,2>>, <<1,1>>}, "derived")>>}
Choice2b == {<<>>, <<E({<<1,2>>}, "renamed")>>, <<E({<<1,1>>}, "direct")>>,
             <<E({<<2,1>>}, "renamed")>>}
Choice3a == {<<>>, <<E({<<2,1>>}, "direct")>>, <<E({<<2,1>>, <<2,2>>}, "derived")>>,
             <<E({<<1,1>>, <<2,1>>}, "derived")>>,
             <<E({<<2,1>>}, "derived"), E({<<2,2>>}, "direct")>>}
Choice3b == {<<E({<<2,2>>}, "renamed")>>, <<E({}, "derived")>>, <<E({<<2,2>>, <<9,1>>}, "derived")>>}
Choice4 == {<<E({<<3,1>>}, "direct")>>, <<E({<<2,1>>, <<3,2>>}, "derived")>>,
            <<E({<<3,1>>}, "direct"), E({<<3,2>>}, "derived")>>}

Columns == {<<1,1>>, <<1,2>>, <<2,1>>, <<2,2>>, <<3,1>>, <<3,2>>, <<4,1>>}
Project(f, tails) ==
    [cols |-> Columns,
     entries |-> [c \in Columns |-> IF c \in DOMAIN f THEN f[c] ELSE <<>>],
     parents |-> << {}, {1, 9}, {2}, {2, 3} >>,
     exposed |-> [x1 |-> {3}, x2 |-> {2, 4}],
     roots |-> {1},
     tails |-> tails]

Projects(tails) ==
    {Project((<<2,1>> :> c[1]) @@ (<<2,2>> :> c[2]) @@ (<<3,1>> :> c[3]) @@ (<<3,2>> :> c[4])
                @@ (<<4,1>> :> c[5]), tails) :
        c \in Choice2a \X Choice2b \X Choice3a \X Choice3b \X Choice4}

\* Settings: the value written in a place is the place's number.
Written(i) ==
    {Empty, [Empty EXCEPT !.own = "dbt-osmosis-key" :> i], [Empty EXCEPT !.own = "snake" :> i],
     [Empty EXCEPT !.kebab = "snake" :> i], [Empty EXCEPT !.snake = "kebab" :> i],
     [Empty EXCEPT !.own = ("dbt_osmosis_key" :> Null) @@ ("kebab" :> i) @@ ("bare" :> i)]}

Nodes == [meta : Written(3), extra : Written(4),
          configMeta : Written(5), unrendered : Written(6) \ {Empty}]
ColumnSettings == [meta : Written(1), config : Written(2)]

Text(t) == {Null} \cup {[text |-> t, jinja |-> j] : j \in BOOLEAN}
Properties == [manifest : Text(manifestText), yaml : Text(yamlText), file : BOOLEAN]

TakeGraph ==
    /\ Start("graph")
    /\ \E p \in Projects({}), c \in Columns :
         sample' = [kind |-> "graph", p |-> p, c |-> c]
TakeSetting ==
    /\ Start("setting")
    /\ \E n \in Nodes, c \in ColumnSettings :
         sample' = [kind |-> "setting", n |-> n, c |-> c]
TakeProperty ==
    /\ Start("property")
    /\ \E p \in Properties :
         sample' = [kind |-> "property", p |-> p]

\* Documents: model m in up to two entries, with up to three version sections,
\* and three source entries of which two may be named by a template.
OldVersion(v) == [v |-> v, by |-> Absent]
VersionLists == {<<>>, <<OldVersion(1)>>, <<OldVersion(2), OldVersion(1), OldVersion(2)>>,
                 <<OldVersion(Absent), OldVersion(2)>>}
Entry(name, versions) == [name |-> name, latest |-> Absent, by |-> Absent, versions |-> versions]
ModelLists ==
    {<<>>} \cup {<<Entry("m", vs)>> : vs \in VersionLists}
           \cup {<<Entry("k", <<>>), Entry("m", vs), Entry("m", ws)>> : vs, ws \in VersionLists}

Tables == {<<>>} \cup {<< [name |-> t, identifier |-> i, by |-> Absent] >> :
                         t \in {"t", "u"}, i \in {Absent, "t"}}
SourceEntry(name, schema, tables) ==
    [name |-> name, schema |-> schema, database |-> Absent, tables |-> tables]
SourceLists ==
    {<<>>} \cup {<<SourceEntry(n1, s1, t1), SourceEntry(n2, s2, t2)>> :
                   n1 \in {"s", "template"}, n2 \in {"r", "template"}, s1, s2 \in {Absent, "schema"},
                   t1, t2 \in Tables}

ModelOf(name, version, latest, package) ==
    [kind |-> "model", name |-> name, version |-> version, latest |-> latest, package |-> package]
SourceOf(source, name, identifier) ==
    [kind |-> "source", source |-> source, name |-> name, identifier |-> identifier,
     schema |-> "schema", database |-> "db", package |-> FALSE]

ModelNodes ==
    {<<ModelOf("m", Absent, Absent, FALSE)>>,
     <<ModelOf("m", 1, 2, FALSE), ModelOf("j", Absent, Absent, FALSE), ModelOf("m", 2, 2, FALSE)>>,
     <<ModelOf("m", 2, Absent, FALSE), ModelOf("k", Absent, Absent, TRUE)>>,
     <<ModelOf("m", 3, 3, FALSE), ModelOf("m", 2, 3, FALSE)>>}
SourceNodes ==
    {<<SourceOf("s", "t", "t")>>, <<SourceOf("s", "t", "t"), SourceOf("s", "u", "u")>>,
     <<SourceOf("r", "u", "t"), SourceOf("s", "t", "t")>>}

TakeDocument ==
    /\ Start("document")
    /\ \/ \E ms \in ModelLists, ns \in ModelNodes :
            sample' = [kind |-> "document", doc |-> [models |-> ms, sources |-> <<>>], nodes |-> ns]
       \/ \E ss \in SourceLists, ns \in SourceNodes :
            sample' = [kind |-> "document", doc |-> [models |-> <<>>, sources |-> ss], nodes |-> ns]

\* Selections: node 1 a source, node 2 an ephemeral model or not, node 3 of the
\* project or of a package, node 4 and 5 models below them.
Node(type, package, ephemeral, file, deps) ==
    [type |-> type, package |-> package, ephemeral |-> ephemeral, fqn |-> <<"root">> \o file,
     name |-> file[Len(file)], file |-> file, yaml |-> Nowhere, deps |-> deps, text |-> Nothing]
SelectProjects ==
    {[nodes |-> <<Node("source", "root", FALSE, <<"raw", "a">>, <<>>),
                  Node("model", "root", e, <<"stg", "b">>, d2),
                  Node("model", p, FALSE, <<"stg", "c">>, d3),
                  Node("model", "root", FALSE, <<"mart", "d">>, d4),
                  Node(t, "root", FALSE, <<"mart", "e">>, d5)>>] :
        e \in BOOLEAN, p \in {"root", "other"}, t \in {"model", "test"},
        d2 \in {<<>>, <<1>>, <<4>>}, d3 \in {<<>>, <<1, 2>>},
        d4 \in {<<1>>, <<3, 1>>}, d5 \in {<<>>, <<2>>, <<4, 3, 2>>}}
Acyclic(p) == \A n \in DOMAIN p.nodes : n \notin UNION {Ancestors(p, {d}) : d \in ToSet(p.nodes[n].deps)}
SelectSettings ==
    [external : BOOLEAN, select : {{}, {1, 3, 4}}, paths : {{}, {<<"mart">>}}, fqns : {{}, {<<"stg">>}}]
    \cup {[external |-> FALSE, select |-> {}, paths |-> {<<"x", "b">>}, fqns |-> {}]}

\* Inheritance: a diamond whose short side is walked second, or a chain of twelve.
TextNode(deps, text) == [deps |-> deps, text |-> text]
TextOf == {Nothing, text1, text2}
InheritProjects ==
    {[nodes |-> <<TextNode(d1, t1), TextNode(<<3, 4>>, t2), TextNode(<<4, 9>>, t3), TextNode(<<>>, t4)>>] :
        d1 \in {<<2, 3>>, <<3, 2>>, <<4, 2>>}, t1, t2, t3, t4 \in TextOf}
    \cup {[nodes |-> [i \in 1..12 |->
             TextNode(IF i < 12 THEN <<i + 1>> ELSE <<>>,
                      IF i \in own THEN text1 ELSE IF i = other THEN text2 ELSE Nothing)]] :
            own \in SUBSET {2, 5, 11}, other \in {3, 9, 12}}

TakeSelection ==
    /\ Start("selection")
    /\ \E p \in {q \in SelectProjects : Acyclic(q)}, s \in SelectSettings :
         sample' = [kind |-> "selection", p |-> p, s |-> s]
TakeInherit ==
    /\ Start("inherit")
    /\ \E p \in InheritProjects, parent \in {Nothing, Computed, 2, 3},
         mentions \in {{2, 3}, {3, 4}, 1..12} :
         sample' = [kind |-> "inherit", p |-> p, parent |-> parent, mentions |-> mentions]

\* Comparisons: up to three columns in the YAML, "a" perhaps in two spellings.
Type(base, size, scale) == [base |-> base, size |-> size, scale |-> scale]
SomeTypes == {Type("int", 0, 0), Type("bigint", 0, 0), Type("varchar", 9, 0)}
MoreTypes == SomeTypes \cup {Type("interval", 0, 0), Type("datetime", 0, 0), Type("date", 0, 0),
    Type("varchar", 5, 0), Type("varchar", 0, 0), Type("unknown", 0, 0)}
    \cup {Type("numeric", p, s) : p \in {4, 6}, s \in 0..2}
YamlColumn(name, type) == [name |-> name, type |-> type]
YamlColumns ==
    {<<>>} \cup {<<YamlColumn("a", t)>> : t \in MoreTypes}
           \cup {<<YamlColumn("a", t), YamlColumn("b", u), YamlColumn(n, Type("date", 0, 0))>> :
                    t, u \in SomeTypes, n \in {"a", "c"}}
Comparisons ==
    [yaml : YamlColumns,
     db : {[a |-> t] : t \in MoreTypes} \cup {[a |-> t, d |-> Type("int", 0, 0)] : t \in SomeTypes}
          \cup {[d |-> Type("int", 0, 0), e |-> Type("date", 0, 0)]},
     alike : {{}, {<<"b", "d">>}, {<<"a", "d">>, <<"b", "d">>}, {<<"a", "e">>, <<"b", "e">>, <<"b", "d">>}},
     dialect : {"postgres", "databricks"}]
TakeMigration ==
    /\ Start("migration")
    /\ \E k \in Comparisons :
         sample' = [kind |-> "migration", k |-> k]

\* Enrichment: one file with a model of one column, one with a model of two, the
\* scripts of two catalogues, and anchors in either place.
OldForm(new, old) == new = old \/ (new = amlMore /\ old = amlText)
Anchored == [own : {NoAnchor, "dev", "aml"}, legacy : {NoAnchor}] \cup {[own |-> NoAnchor, legacy |-> "dev"]}
ColumnsNamed(name, texts) ==
    {[name |-> name, own |-> a.own, legacy |-> a.legacy, text |-> t] : a \in Anchored, t \in texts}
ModelOfColumns(name, anchor, columns) ==
    [name |-> name, own |-> anchor, legacy |-> NoAnchor, columns |-> columns]
Pairs ==
    {<<d, e>> : d \in ColumnsNamed("A", {auto, amlMore, manual}),
                e \in ColumnsNamed("A", {NoText}) \cup ColumnsNamed("B", {NoText, LongText})}
FilesToEnrich ==
    {<<[models |-> <<ModelOfColumns("m", NoAnchor, <<c>>)>>, rest |-> TRUE],
       [models |-> <<ModelOfColumns("n", a, p)>>, rest |-> FALSE]>> :
        a \in {NoAnchor, "dev", "aml"}, c \in ColumnsNamed("A", {NoText, manual}),
        p \in {q \in Pairs : q[2].own # "aml" /\ (q[2].name = "A" => q[1].text = manual)}}
Aml(force, globs, skip) ==
    [value |-> "aml", frozen |-> {"dev"}, force |-> force, globs |-> globs, skip |-> skip,
     found |-> ("A" :> amlText) @@ ("B" :> LongText), dry |-> FALSE]
Psa == [value |-> "psa", frozen |-> {"dev", "aml"}, force |-> TRUE, globs |-> {}, skip |-> {},
        found |-> ("A" :> manual), dry |-> FALSE]
Scripts == {[Psa EXCEPT !.dry = TRUE]} \cup {Aml(force, globs, skip) : force \in BOOLEAN, globs \in {{}, {"m", "n"}}, skip \in {{}, {"A"}}}
TakeEnrichment ==
    /\ Start("enrichment")
    /\ \E files \in FilesToEnrich, s \in Scripts :
         sample' = [kind |-> "enrichment", files |-> files, s |-> s]

\* Chains of three models, a column of each described in some way.
Desc(body, note) == [body |-> body, note |-> note]
NoConfig == [meta |-> <<>>, tags |-> {}]
ColumnIn(desc, meta, tags, config) == [desc |-> desc, meta |-> meta, tags |-> tags, config |-> config]
Owned(v) == OwnerKey :> v
ColumnsAt(i, descs) ==
    {ColumnIn(d, m, {}, NoConfig) : d \in descs, m \in {<<>>, Owned("aml"), Owned("upstream")}}
    \cup {ColumnIn(d, "pii" :> i, {i}, NoConfig) : d \in descs}
    \cup {ColumnIn(d, <<>>, {}, [meta |-> Owned("aml") @@ ("pii" :> i), tags |-> {i}]) : d \in descs}
Chains ==
    {<<a, b, c>> : a \in ColumnsAt(1, {Desc(text1, FALSE), Desc(DocBlock, TRUE)}),
                   b \in ColumnsAt(2, {NoDesc, Desc(text2, TRUE), Desc(Blanc, TRUE), Desc(Undocumented, FALSE)}),
                   c \in ColumnsAt(3, {NoDesc, Desc(DocBlock, FALSE), Desc(Blanc, TRUE)})}
ChainSettings ==
    LET plain == [fusion |-> FALSE, unrendered |-> FALSE, preferYaml |-> FALSE, skipMeta |-> FALSE,
                  skipTags |-> FALSE, keys |-> {}, owner |-> "this"]
    IN  UNION {{[plain EXCEPT !.fusion = f, !.keys = k, !.owner = o] :
                   k \in {{}, {"config"}}, o \in {"this", "upstream"}}
               \cup {[plain EXCEPT !.fusion = f, !.unrendered = TRUE],
                     [plain EXCEPT !.fusion = f, !.preferYaml = TRUE, !.skipMeta = TRUE]} :
                  f \in BOOLEAN}
TakeChain ==
    /\ Start("chain")
    /\ \E files \in Chains, s \in ChainSettings :
         sample' = [kind |-> "chain", files |-> files, s |-> s]

\* Declared sources: two schemas of up to two tables in any spelling, over two files.
Ident(id, spelling) == [id |-> id, spelling |-> spelling]
Spelled == {Ident("o", "lower"), Ident("o", "upper"), Ident("c", "upper")}
SourceEntriesIn(source, schema) ==
    {<<>>} \cup {<< [source |-> source, schema |-> schema, tables |-> ts] >> :
                    ts \in {<<>>, <<Ident("o", "lower")>>, <<Ident("c", "upper"), Ident("o", "upper")>>}}
SourceFiles ==
    {[p \in paths |-> [sources |-> IF p = "p" THEN raw \o crm ELSE IF "p" \in paths THEN <<>> ELSE crm,
                       rest |-> rest]] :
        raw \in SourceEntriesIn("raw", "r"), crm \in SourceEntriesIn("crm", "c"), rest \in BOOLEAN, paths \in SUBSET {"p", "q"}}
Declarations ==
    {<<[source |-> "raw", schema |-> "r", path |-> a], [source |-> "crm", schema |-> "c", path |-> b]>> :
        a, b \in {"p", "q", "new"}}
TakeTables ==
    /\ Start("tables")
    /\ \E files \in SourceFiles, declared \in Declarations, r \in SUBSET Spelled,
         c \in {{}, {Ident("o", "upper"), Ident("c", "upper")}}, output \in {"as is", "lower", "upper"} :
         sample' = [kind |-> "tables",
                    project |-> [files |-> files, declared |-> declared, db |-> [r |-> r, c |-> c], output |-> output]]

\* Relations: a model and a source that may share an identifier, a second source in
\* a database of its own, a snapshot and a model below them.
Relation(uid, kind, db, schema, ident, docs) ==
    [uid |-> uid, kind |-> kind, db |-> db, schema |-> schema, ident |-> ident, docs |-> docs]
Worlds ==
    [relations :
        {<<Relation("m", "model", "d1", "mart", "o", dm), Relation("n", "model", "d1", "mart", "n", {}),
           Relation("k", "snapshot", "d1", "mart", "k", {}),
           Relation("s", "source", "d1", schema, ident, ds), Relation("t", "source", "d2", "raw", "t", dt)>> :
            dm, ds \in {{}, {"a"}}, dt \in {{}, {"b"}}, ident \in {"o", "u"}, schema \in {"mart", "raw"}},
     sources : {<<"manifest">>, <<"live">>, <<"catalog", "live">>, <<"manifest", "live">>,
                <<"live", "manifest", "catalog">>},
     file : {<<>>, "s" :> {"a", "c"}, ("m" :> {"a", "d"}) @@ ("t" :> {"b"})},
     warehouse : {<<"d1", schema, ident>> :> {"a", "e"} : schema \in {"mart", "raw"}, ident \in {"o", "u"}}
                 \cup {(<<"d2", "raw", "t">> :> {"b", "f"}) @@ (<<"d1", "raw", "o">> :> {"a", "e"})},
     readable : {{"d1"}, {"d1", "d2"}},
     sql : {"m" :> [columns |-> {"a"}, stars |-> st] : st \in {{}, {"o"}, {"t"}, {"t", "u"}}}
           \cup {("n" :> [columns |-> {"g"}, stars |-> {"o"}]) @@ ("m" :> [columns |-> {"a"}, stars |-> {"t"}])}]
TakeColumns ==
    /\ Start("columns")
    /\ \E w \in Worlds : sample' = [kind |-> "columns", w |-> w]

Init == sample \in Begin(1) \cup {Sql!EmptyQuery}

NextRound == /\ sample.kind = "start" /\ sample.round < Len(Rounds)
             /\ sample' \in Begin(sample.round + 1)
Lengthen == sample.kind = "query" /\ sample' \in Sql!Longer(sample)
Checked == sample.kind # "start" /\ UNCHANGED sample

Next == \/ TakeGraph \/ TakeSetting \/ TakeProperty \/ TakeDocument \/ TakeSelection
        \/ TakeInherit \/ TakeMigration \/ TakeEnrichment \/ TakeChain
        \/ TakeTables \/ TakeColumns
        \/ NextRound \/ Lengthen \/ Checked
Spec == Init /\ [][Next]_sample

\* The explorer's graph of a column holds its lineage in both directions, every
\* step of it, and nothing that does not feed what is drawn; the impact summary
\* counts what is below; and its origins are the ends of its way up, whatever the
\* tracer, which remembers what it found, was asked before, unless the way up goes
\* round between columns (service.py, explore.py, _OriginTracer of api.py).
GraphShowsLineage == sample.kind = "graph" =>
    /\ \A g \in {Graph(sample.p, sample.c)} : /\ GraphIsLineage(sample.p, sample.c, g)
                                             /\ StepsAreDrawn(sample.p, sample.c, g)
    /\ ImpactIsClosure(sample.p, sample.c)
    /\ \A d \in sample.p.cols : OriginsAreRoots(sample.p, <<sample.c, d>>)

\* A setting written closer to the column is never overridden from further away, in
\* either shape of the YAML, the chain shown for it begins with the value in force,
\* and a template is not replaced by its rendering (introspection.py).
SettingsResolve ==
    /\ sample.kind = "setting" => /\ SettingsAreLayered(sample.n, sample.c)
                                  /\ NestingIsNeutral(sample.n, sample.c)
                                  /\ ChainExplains(sample.n, sample.c)
                                  /\ TemplateIsFound(sample.n)
    /\ sample.kind = "property" => PropertiesAgree(sample.p)

\* Each node's data goes to one section of the file, its own where it can be told,
\* in any order of the nodes, and no other entry is touched (sync_operations.py).
NodesFindTheirEntry == sample.kind = "document" =>
    /\ OneSectionEach(sample.doc, sample.nodes)
    /\ OthersUntouched(sample.doc, sample.nodes)
    /\ LET first == sample.nodes[1]
       IN  first.kind = "source" =>
             \A home \in DOMAIN sample.doc.sources :
                HasTable(sample.doc.sources[home], "name", first.name)
                  => LandsAtHome(sample.doc, first, home)

\* Whatever the order a set is walked in, the nodes of a command come after the
\* nodes they depend on, each once (node_filters.py).
NodesInOrder == sample.kind = "selection" => OrderFollowsDependencies(sample.p, sample.s)

\* A description inherited by name comes from the closest generation that has the
\* column (inheritance.py); one of the tenth or later may come before the second to
\* ninth, whose names sort after its own.
ClosestAncestorWins == sample.kind = "inherit" =>
    InheritsFromClosest(sample.p, 1, sample.parent, sample.mentions)

\* A migration script takes a table as the YAML describes it to the table as it is,
\* its rollback takes it back, and what is not marked breaking keeps every column
\* (diff.py, migration.py).
PlanMigrates == sample.kind = "migration" =>
    \A r \in Renames(sample.k) : \A plan \in PlansFor(sample.k, r) :
        /\ ScriptRoundTrip(sample.k, r, plan)
        /\ SafeStepsKeepColumns(sample.k, r, plan)
        /\ \A n \in DOMAIN sample.k.db \cap YamlNames(sample.k) :
             NarrowingHasDirection(YamlType(sample.k, n), sample.k.db[n])

\* A catalogue's script settles after one run, and the text of a developer or of
\* another catalogue that it is to respect survives it (_engine.py, _merge.py).
EnrichmentRespects == sample.kind = "enrichment" =>
    /\ RunSettles(sample.s, sample.files)
    /\ OwnersKept(<<sample.s>>, sample.files)
    /\ OwnersKept(<<Psa, Psa>>, Enrich(sample.s, sample.files))
    /\ OwnersKept(<<Psa, sample.s>>, sample.files)

\* Along a chain of models markers stay with their column, user meta, tags and texts
\* are not lost, a second run changes nothing, and the classic and the fusion layout
\* of a column say the same to dbt, also after a change of layout (inheritance.py,
\* transforms.py, _sync_doc_section of sync_operations.py).
ColumnsInherit == sample.kind = "chain" =>
    /\ MarkersStayHome(sample.s, sample.files)
    /\ TextsCascade(sample.s, sample.files)
    /\ SecondRunSettles(sample.s, sample.files)
    /\ \A n \in DOMAIN sample.files : LayoutKeepsColumn(sample.s, sample.files[n])

\* A declared source ends up with each table of its schema once, whatever the file
\* held, and a second run writes nothing (path_management.py).
SourcesAreListed == sample.kind = "tables" => SourcesComplete(sample.project)

\* compile-cll and parse-cll expand a star over a relation alike, to the columns of
\* the first configured source that knows it and of no other relation
\* (offline_compile.py, layered_catalog.py).
StarsExpandAlike == sample.kind = "columns" => ColumnsAgree(sample.w) /\ CompiledIsWhole(sample.w)

\* Unless it says that it guesses, the parser traces every output column of a query to
\* exactly the base columns that flow into it, the model's own apart: through CTEs
\* of CTEs, unions aligned by position, lateral aliases, joins of unqualified columns
\* and dropped self-reading branches. A column it calls direct or renamed, whose
\* description may be copied downstream, is passed on unchanged by every body it goes
\* through (sql_parser.py).
LineageIsDataFlow == sample.kind = "query" => Sql!TracesDataFlow(sample) /\ Sql!PassesOn(sample)
=============================================================================
