------------------------------ MODULE Document ------------------------------
(* Which entry of a schema file a node's data is written to (osmosis_propagation/ *)
(* sync_operations.py): finding or creating the source and table, the model and   *)
(* its version, and removing the duplicates met on the way.                       *)
(*                                                                                *)
(* A document is [models, sources], sequences of entries in file order.  A model  *)
(* entry is [name, latest, by, versions], a version [v, by]; a source entry is    *)
(* [name, schema, database, tables], a table [name, identifier, by]; a key that   *)
(* the file leaves out is Absent.  by is the node whose data the section holds.   *)
(* A name in a source entry may be a template that equals no node's source name.  *)
EXTENDS Naturals, Sequences, FiniteSets, SequencesExt, Ranking

CONSTANT Absent

Where(seq, Test(_)) == {i \in DOMAIN seq : Test(seq[i])}
Least(S) == CHOOSE i \in S : \A j \in S : i <= j
Greatest(S) == CHOOSE i \in S : \A j \in S : j <= i
Named(seq, name) == Where(seq, LAMBDA e : e.name = name)

(* ---- Sources -------------------------------------------------------------- *)

HasTable(source, field, value) == \E i \in DOMAIN source.tables : source.tables[i][field] = value

\* _disambiguate: one candidate, or the one of the node's schema, or database.
\* 0 stands for none.
Sole(S) == IF Cardinality(S) = 1 THEN CHOOSE i \in S : TRUE ELSE 0
Narrowed(S, T) == IF T = {} THEN S ELSE T

Disambiguate(sources, candidates, node) ==
    LET bySchema == {i \in candidates : sources[i].schema = node.schema}
        left == Narrowed(candidates, bySchema)
        byDatabase == {i \in left : sources[i].database = node.database}
    IN  IF Sole(candidates) # 0 THEN Sole(candidates)
        ELSE IF Sole(bySchema) # 0 THEN Sole(bySchema)
        ELSE Sole(Narrowed(left, byDatabase))

\* _get_or_create_source: by name, else by a table it holds.
SourceIndex(sources, node) ==
    LET exact == Named(sources, node.source)
        byIdentifier == Where(sources, LAMBDA s : HasTable(s, "identifier", node.identifier))
        byName == Where(sources, LAMBDA s : HasTable(s, "name", node.name))
    IN  IF exact # {} THEN Least(exact)
        ELSE Disambiguate(sources, IF byIdentifier # {} THEN byIdentifier ELSE byName, node)

\* _get_or_create_source_table and _sync_doc_section on it.
WithTable(source, node) ==
    LET at == Named(source.tables, node.name)
        new == [name |-> node.name, identifier |-> Absent, by |-> node]
    IN  [source EXCEPT !.tables = IF at = {} THEN Append(@, new)
                                  ELSE [@ EXCEPT ![Least(at)].by = node]]

SyncSource(doc, node) ==
    LET i == SourceIndex(doc.sources, node)
        new == [name |-> node.source, schema |-> Absent, database |-> Absent, tables |-> <<>>]
    IN  [doc EXCEPT !.sources = IF i = 0 THEN Append(@, WithTable(new, node))
                                ELSE [@ EXCEPT ![i] = WithTable(@, node)]]

(* ---- Models --------------------------------------------------------------- *)

\* Mutant: duplicate entries stay.
KeepAll(models, name) == models

\* _deduplicate_model_entries: the first entry of the name stays.
OneEntry(models, name) ==
    LET at == Named(models, name)
        stay == Ascending(DOMAIN models \ (at \ {Least(at)}))
    IN  [k \in DOMAIN stay |-> models[stay[k]]]

WithModel(models, name) ==
    IF Named(models, name) = {}
    THEN Append(models, [name |-> name, latest |-> Absent, by |-> Absent, versions |-> <<>>])
    ELSE OneEntry(models, name)

\* _deduplicate_versions: one entry per version, in the place of the first and
\* with the content of the last; an entry without a version is dropped.
OneOfEach(versions) ==
    LET same(i) == Where(versions, LAMBDA e : e.v = versions[i].v)
        firsts == Ascending({i \in DOMAIN versions : versions[i].v # Absent /\ i = Least(same(i))})
    IN  [k \in DOMAIN firsts |-> versions[Greatest(same(firsts[k]))]]

\* _get_or_create_version.
WithVersion(versions, node) ==
    LET kept == OneOfEach(versions)
        at == Where(kept, LAMBDA e : e.v = node.version)
    IN  IF at = {} THEN Append(kept, [v |-> node.version, by |-> node])
        ELSE [kept EXCEPT ![Least(at)].by = node]

\* _sync_versioned_model, or _sync_doc_section on the entry itself.
Sectioned(model, node) ==
    IF node.version = Absent THEN [model EXCEPT !.by = node]
    ELSE [model EXCEPT
            !.versions = WithVersion(@, node),
            !.latest = IF node.latest # Absent THEN node.latest
                       ELSE IF @ = Absent THEN node.version ELSE @]

SyncModel(doc, node) ==
    LET models == WithModel(doc.models, node.name)
        i == Least(Named(models, node.name))
    IN  [doc EXCEPT !.models = [models EXCEPT ![i] = Sectioned(@, node)]]

(* ---- Nodes and groups ------------------------------------------------------ *)

\* _sync_single_node_to_yaml: a node of a package is left alone.
Sync(doc, node) ==
    IF node.package THEN doc
    ELSE IF node.kind = "source" THEN SyncSource(doc, node) ELSE SyncModel(doc, node)

\* _group_sync_nodes: the versions of a model are one group, at its first member.
Groups(nodes) ==
    LET same(i, j) == /\ nodes[i].kind = "model" /\ nodes[j].kind = "model"
                      /\ nodes[i].name = nodes[j].name
                      /\ nodes[i].package = nodes[j].package
                      /\ Absent \notin {nodes[i].version, nodes[j].version}
        mates(i) == {i} \cup {j \in DOMAIN nodes : same(i, j)}
        heads == Ascending({i \in DOMAIN nodes : i = Least(mates(i))})
        members(k) == Ascending(mates(heads[k]))
    IN  [k \in DOMAIN heads |-> [i \in DOMAIN members(k) |-> nodes[members(k)[i]]]]

\* _sync_versioned_model_group_to_yaml: all versions of a group in their order,
\* without the question whether they belong to a package.
SyncGroup(doc, group) ==
    IF Len(group) = 1 THEN Sync(doc, group[1])
    ELSE FoldLeft(SyncModel, doc, SortSeq(group, LAMBDA a, b : a.version < b.version))

SyncAll(doc, nodes) == FoldLeft(SyncGroup, doc, Groups(nodes))

(* ---- What it should be ---------------------------------------------------- *)

Copies(doc, node) ==
    Cardinality({i \in DOMAIN doc.models : doc.models[i].by = node})
    + Cardinality({<<i, j>> \in (DOMAIN doc.models) \X (1..4) :
                      j \in DOMAIN doc.models[i].versions /\ doc.models[i].versions[j].by = node})
    + Cardinality({<<i, j>> \in (DOMAIN doc.sources) \X (1..4) :
                      j \in DOMAIN doc.sources[i].tables /\ doc.sources[i].tables[j].by = node})

\* Each of the project's nodes is written to one section, and a model that is
\* written has one entry and one section per version.
OneSectionEach(doc, nodes) ==
    LET after == SyncAll(doc, nodes)
    IN  \A n \in ToSet(nodes) : ~n.package =>
          /\ Copies(after, n) = 1
          /\ n.kind = "model" =>
               /\ Cardinality(Named(after.models, n.name)) = 1
               /\ n.version # Absent =>
                    LET entry == after.models[Least(Named(after.models, n.name))]
                    IN  IsInjective([k \in DOMAIN entry.versions |-> entry.versions[k].v])

\* Writing one node leaves every other entry as it is, and the entries written in
\* another order hold the same.
OthersUntouched(doc, nodes) ==
    LET after == SyncAll(doc, nodes)
        written == {n.name : n \in {m \in ToSet(nodes) : m.kind = "model" /\ ~m.package}}
        kept(d) == SelectSeq(d.models, LAMBDA e : e.name \notin written)
    IN  /\ kept(after) = kept(doc)
        /\ \A i \in DOMAIN doc.sources : \E j \in DOMAIN after.sources :
             /\ after.sources[j].name = doc.sources[i].name
             /\ Len(after.sources[j].tables) >= Len(doc.sources[i].tables)
        /\ ToSet(SyncAll(doc, Reverse(nodes)).models) = ToSet(after.models)

\* A table whose source entry is found by its name, or else by a table that only
\* one entry of the file has, is written to that entry: home names it.
LandsAtHome(doc, node, home) ==
    LET others == {i \in DOMAIN doc.sources \ {home} :
                     \/ doc.sources[i].name = node.source
                     \/ HasTable(doc.sources[i], "identifier", node.identifier)
                     \/ HasTable(doc.sources[i], "name", node.name)
                        /\ \/ doc.sources[home].schema # node.schema
                           \/ doc.sources[i].schema = node.schema}
    IN  others = {} => SourceIndex(doc.sources, node) = home
=============================================================================
