---------------------------- MODULE SourceTables ----------------------------
(* create_missing_source_yamls (osmosis_propagation/path_management.py): sources   *)
(* that dbt_project.yml declares and no file documents get a file of their own, and *)
(* sources that are documented get the tables the database has and they lack.       *)
(*                                                                                  *)
(* An identifier is [id, spelling]: two identifiers with one id differ in case only.*)
(* A project is [files, declared, db, output]: files maps a path to its document,   *)
(* [sources, rest] (rest: what else it holds); declared is the sequence of declared *)
(* sources, [source, schema, path]; db maps a schema to its identifiers; output is  *)
(* "as is", "lower" or "upper".                                                     *)
EXTENDS Sequences, SequencesExt, FiniteSets, FiniteSetsExt, Functions

EntryOf(entries, source) == SelectInSeq(entries, LAMBDA e : e.source = source)
TablesOf(entry) == {entry.tables[i] : i \in DOMAIN entry.tables}

\* dbt's manifest: every table of every entry of every file, by source.
ManifestTables(files, source) ==
    UNION {TablesOf(e) : e \in {x \in UNION {ToSet(files[p].sources) : p \in DOMAIN files} :
                                  x.source = source}}
InManifest(files, source) ==
    \E p \in DOMAIN files : EntryOf(files[p].sources, source) # 0

\* The name a table of the database is given in the YAML.
OutputName(project, identifier) ==
    IF project.output = "as is" THEN identifier
    ELSE [identifier EXCEPT !.spelling = project.output]

\* A document that is not there is read as an empty one.
Read(files, path) ==
    IF path \in DOMAIN files THEN files[path] ELSE [sources |-> <<>>, rest |-> FALSE]
\* A write replaces the whole file.
Write(files, path, doc) == (path :> doc) @@ files

\* Mutant: every table of the schema is appended.
ExtendedWhole(project, entry, new) ==
    entry.tables \o SetToSeq({OutputName(project, d) : d \in project.db[entry.schema]})

\* The tables of an entry that has the names of `entry`, and those of `new` that it
\* does not list: identifiers are compared as the database spells them and written
\* as the settings want them, in the order of the identifiers.
Extended(project, entry, new) ==
    LET missing == SetToSeq(new \ TablesOf(entry))
    IN  entry.tables \o [i \in DOMAIN missing |-> OutputName(project, missing[i])]

\* A declared source whose tables are documented somewhere: new ones are added to
\* the entry of that name in the file it is declared for, if that file has one.
UpdateExisting(project, files, spec, manifest) ==
    LET doc == Read(files, spec.path)
        at == EntryOf(doc.sources, spec.source)
        new == project.db[spec.schema] \ ManifestTables(manifest, spec.source)
    IN  IF new = {} THEN files
        ELSE Write(files, spec.path,
                   IF at = 0 THEN doc
                   ELSE [doc EXCEPT !.sources[at].tables =
                            Extended(project, doc.sources[at], new)])

\* A declared source that is documented nowhere: the file becomes its entry.
CreateFile(project, files, spec) ==
    Write(files, spec.path,
          [sources |-> << [source |-> spec.source, schema |-> spec.schema,
                           tables |-> SetToSeq({OutputName(project, d) : d \in project.db[spec.schema]})] >>,
           rest |-> FALSE])

\* One run: the declared sources in turn, all of them against the manifest the run
\* began with; the project is reloaded at the end.
CreateMissingSources(project) ==
    FoldSeq(LAMBDA spec, files :
                IF InManifest(project.files, spec.source)
                THEN UpdateExisting(project, files, spec, project.files)
                ELSE CreateFile(project, files, spec),
            project.files, project.declared)

----
\* Each declared source has a place of its own, and names in the files and in the
\* database are spelled the way they are written.
OwnPlaces(project) ==
    \A i \in DOMAIN project.declared :
        LET spec == project.declared[i]
            known(d) == InManifest(project.files, d.source)
        IN  /\ \A j \in DOMAIN project.declared \ {i} :
                 project.declared[j].path = spec.path => known(spec) /\ known(project.declared[j])
            /\ IF known(spec) THEN EntryOf(Read(project.files, spec.path).sources, spec.source) # 0
                             ELSE spec.path \notin DOMAIN project.files
            /\ \A d \in project.db[spec.schema] : OutputName(project, d) = d

\* Where every declared source has a place of its own and identifiers are spelled one
\* way, a run documents each table of the database, adding no table twice, keeps
\* everything else, and a second run finds nothing to do.
SourcesComplete(project) == OwnPlaces(project) =>
    LET after == CreateMissingSources(project)
        again == CreateMissingSources([project EXCEPT !.files = after])
        specs == ToSet(project.declared)
        Listed(files, source, t) ==
            FoldSet(LAMBDA p, n : n + FoldSeq(
                        LAMBDA e, k : k + (IF e.source # source THEN 0
                                           ELSE Len(SelectSeq(e.tables, LAMBDA u : u = t))),
                        0, files[p].sources), 0, DOMAIN files)
    IN  /\ \A s \in specs :
             LET before == ManifestTables(project.files, s.source)
             IN  /\ ManifestTables(after, s.source) = before \cup project.db[s.schema]
                 /\ \A t \in project.db[s.schema] :
                      Listed(after, s.source, t) =
                          IF t \in before THEN Listed(project.files, s.source, t) ELSE 1
        /\ \A p \in DOMAIN project.files :
             /\ after[p].rest = project.files[p].rest
             /\ \A i \in DOMAIN project.files[p].sources :
                  IsPrefix(project.files[p].sources[i].tables, after[p].sources[i].tables)
        /\ again = after
=============================================================================
