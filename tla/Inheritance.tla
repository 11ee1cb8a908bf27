------------------------------ MODULE Inheritance ------------------------------
(* What a column inherits by name along a chain of models, and how it reaches its   *)
(* YAML entry: the knowledge graph of inheritance.py, the operation                  *)
(* inherit_upstream_column_knowledge of transforms.py, and the merge of one column    *)
(* in _sync_doc_section (sync_operations.py).                                        *)
(*                                                                                   *)
(* A column, in a YAML file or in the manifest, is [desc, meta, tags, config]: desc   *)
(* is [body, note], the text and whether an annotation block follows it; meta is a    *)
(* function from keys to values, tags a set, config a record [meta, tags].  A chain   *)
(* is a sequence of files, one column each, model i + 1 selecting from model i;       *)
(* owner is the layer's desc-owner.                                                  *)
EXTENDS Naturals, Sequences, SequencesExt, FiniteSets

CONSTANTS
    Blanc,          \* no text
    Undocumented,   \* a placeholder text
    DocBlock, Rendered,  \* a text that calls doc(), and what dbt makes of it
    OwnerKey,       \* "desc-owner"
    ManagedKeys     \* the keys of get_managed_meta_keys

ASSUME InheritanceAssumption == OwnerKey \in ManagedKeys

NoDesc == [body |-> Blanc, note |-> FALSE]
Override(f, g) == [k \in DOMAIN f \cup DOMAIN g |-> IF k \in DOMAIN g THEN g[k] ELSE f[k]]
Keep(f, keys) == [k \in DOMAIN f \cap keys |-> f[k]]
Unmanaged(f) == Keep(f, DOMAIN f \ ManagedKeys)
StripNote(desc) == [desc EXCEPT !.note = FALSE]

\* What dbt reads of an entry: texts rendered, meta and tags and those of config
\* joined, in both places.
ParseColumn(entry) ==
    LET meta == Override(entry.meta, entry.config.meta)
        tags == entry.tags \cup entry.config.tags
    IN  [desc |-> [entry.desc EXCEPT !.body = IF @ = DocBlock THEN Rendered ELSE @],
         meta |-> meta, tags |-> tags, config |-> [meta |-> meta, tags |-> tags]]

(* ---- The knowledge graph ----------------------------------------------------- *)

\* _build_graph_edge and the override from the YAML buffer: a description is taken
\* from the ancestor's file, as it was when the command began, and from the manifest
\* only when the file has none.
BuildEdge(s, file, ancestor) ==
    [desc |-> IF file.desc # NoDesc THEN file.desc ELSE ancestor.desc,
     meta |-> ancestor.meta, tags |-> ancestor.tags,
     config |-> IF "config" \in s.keys /\ file.config # [meta |-> <<>>, tags |-> {}]
                THEN file.config ELSE ancestor.config]

CleanEdge(edge) ==
    [edge EXCEPT !.desc = IF @ = [body |-> Undocumented, note |-> FALSE] THEN NoDesc ELSE @]

\* _merge_graph_node_data: the ancestor's data over what is known, tags joined.
MergeData(known, edge) ==
    [desc |-> IF edge.desc = NoDesc THEN known.desc ELSE edge.desc,
     meta |-> Override(known.meta, edge.meta),
     tags |-> known.tags \cup edge.tags,
     config |-> [meta |-> Override(known.config.meta, edge.config.meta),
                 tags |-> known.config.tags \cup edge.config.tags]]

ColumnKnowledge(s, files, manifest, n) ==
    LET merge(known, a) == MergeData(known, CleanEdge(BuildEdge(s, files[a], manifest[a])))
    IN  FoldLeft(merge, manifest[n], [i \in 1..(n - 1) |-> i])

(* ---- inherit_upstream_column_knowledge ---------------------------------------- *)

OwnerOf(s, col) == IF OwnerKey \in DOMAIN col.meta THEN col.meta[OwnerKey] ELSE s.owner

TakesText(s, col) ==
    \/ OwnerOf(s, col) = "upstream"
    \/ col.desc.body = Blanc

\* Mutant: managed keys travel like other meta.
KeptMarkersTravel(own, known) == known

\* Managed keys do not travel, those of the column itself stay.
KeptMarkers(own, known) == Override(Unmanaged(known), Keep(own, ManagedKeys))

InheritColumn(s, col, known) ==
    [desc |-> IF TakesText(s, col) THEN StripNote(known.desc) ELSE col.desc,
     meta |-> IF s.skipMeta THEN col.meta ELSE KeptMarkers(col.meta, known.meta),
     tags |-> IF s.skipTags THEN col.tags ELSE known.tags,
     config |-> IF "config" \in s.keys
                THEN [meta |-> KeptMarkers(col.config.meta, known.config.meta),
                      tags |-> known.config.tags]
                ELSE col.config]

\* The models in their order, each reading what the ones before it have become.
InheritAll(s, files) ==
    LET step(manifest, n) ==
            [manifest EXCEPT ![n] = InheritColumn(s, @, ColumnKnowledge(s, files, manifest, n))]
    IN  FoldLeft(step, [n \in DOMAIN files |-> ParseColumn(files[n])], [n \in DOMAIN files |-> n])

(* ---- One column of _sync_doc_section ------------------------------------------ *)

KeepsEntryText(s, entry) == entry.desc.body = DocBlock /\ (s.unrendered \/ s.preferYaml)

FusionLayout(merged) ==
    [merged EXCEPT !.meta = <<>>, !.tags = {},
                   !.config = [meta |-> Override(Unmanaged(@.meta), merged.meta),
                               tags |-> @.tags \cup merged.tags]]
ClassicLayout(merged) ==
    [merged EXCEPT !.meta = Override(merged.config.meta, @),
                   !.tags = @ \cup merged.config.tags,
                   !.config = [meta |-> <<>>, tags |-> {}]]

SyncColumn(s, entry, col) ==
    LET merged == [desc |-> IF KeepsEntryText(s, entry) THEN entry.desc ELSE col.desc,
                   meta |-> IF s.skipMeta /\ entry.meta # <<>> THEN entry.meta ELSE col.meta,
                   tags |-> col.tags,
                   config |-> IF s.fusion THEN col.config ELSE entry.config]
    IN  IF s.fusion THEN FusionLayout(merged) ELSE ClassicLayout(merged)

RunInheritance(s, files) ==
    LET manifest == InheritAll(s, files)
    IN  [n \in DOMAIN files |-> SyncColumn(s, files[n], manifest[n])]

(* ---- What they should be ------------------------------------------------------ *)

NoteOnly(entry) == entry.desc.body = Blanc /\ entry.desc.note

\* Written back unchanged, a column says to dbt what it said before, in either
\* layout, and writing it again changes nothing.
LayoutKeepsColumn(s, entry) ==
    LET written == SyncColumn(s, entry, ParseColumn(entry))
    IN  /\ ParseColumn(written) = ParseColumn(entry)
        /\ SyncColumn(s, written, ParseColumn(written)) = written
        /\ LET other == [s EXCEPT !.fusion = ~@]
           IN  ParseColumn(SyncColumn(other, written, ParseColumn(written))) = ParseColumn(entry)

\* The markers of a column are its own, neither lost nor taken over; user meta and
\* tags only grow; an annotation is not taken over.
MarkersStayHome(s, files) ==
    LET after == [n \in DOMAIN files |-> ParseColumn(RunInheritance(s, files)[n])]
    IN  \A n \in DOMAIN files :
          LET before == ParseColumn(files[n])
          IN  /\ Keep(after[n].meta, ManagedKeys) = Keep(before.meta, ManagedKeys)
              /\ DOMAIN before.meta \subseteq DOMAIN after[n].meta
              /\ before.tags \subseteq after[n].tags
              /\ after[n].desc.note => before.desc.note

\* The text of a column that owns it stays; one that has none has the closest above
\* it, and no text becomes none, when no file above has an annotation alone.
TextsCascade(s, files) ==
    LET before == [n \in DOMAIN files |-> ParseColumn(files[n])]
        after == InheritAll(s, files)
        plain(m) == before[m].desc.body \notin {Blanc, Undocumented}
    IN  \A n \in DOMAIN files :
          /\ before[n].desc.body # Blanc /\ OwnerOf(s, before[n]) # "upstream"
               => after[n].desc = before[n].desc
          /\ (\A a \in 1..(n - 1) : ~NoteOnly(files[a])) =>
               /\ before[n].desc.body # Blanc => after[n].desc.body # Blanc
               /\ before[n].desc.body = Blanc =>
                    \A a \in 1..(n - 1) :
                       plain(a) /\ (\A b \in (a + 1)..(n - 1) : before[b].desc.body = Blanc)
                         => after[n].desc.body # Blanc

\* A second run changes nothing, unless a column takes its text from above always,
\* a file has an annotation alone, or a doc block that is not kept: what is inherited
\* is read from the files as they were.
SecondRunSettles(s, files) ==
    (\A n \in DOMAIN files : /\ ~NoteOnly(files[n])
                             /\ OwnerOf(s, ParseColumn(files[n])) # "upstream"
                             /\ files[n].desc.body = DocBlock => s.unrendered \/ s.preferYaml)
        => LET once == RunInheritance(s, files) IN RunInheritance(s, once) = once
=============================================================================
