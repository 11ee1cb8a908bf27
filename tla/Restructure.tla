---------------------------- MODULE Restructure ----------------------------
(***************************************************************************)
(* The restructuring of schema files: draft_restructure_delta_plan and     *)
(* apply_restructure_plan of commands/restructuring.py over the file       *)
(* mapping of path_management.py.  Every node whose entry is not in the    *)
(* file its path template asks for is moved: the entry is appended to the  *)
(* target file, then removed from the superseded one, which is deleted     *)
(* when nothing managed is left in it.                                     *)
(*                                                                         *)
(* A file is a record: how often each model (or seed) entry occurs, the    *)
(* source entries, whether it has managed sections that never move         *)
(* (unit_tests, data_tests) and whether it has preserved ones              *)
(* (semantic_models, exposures, ...).  All tables are tables of one        *)
(* source, which may have several entries, in one file or in several: dbt  *)
(* joins them, and a plan that merges files makes them.  The plan holds    *)
(* references into the documents the draft parsed, so a source entry may   *)
(* be shared by a buffered document and by several operations; shared[p]   *)
(* is the one parsed from p.  The bounded caches and the steps of a single *)
(* write are YamlBuffer's subject: here a write is one step and a parsed   *)
(* document stays until it is discarded.                                   *)
(***************************************************************************)
EXTENDS Integers, Sequences, FiniteSets, SequencesExt

CONSTANTS
  Paths,       \* schema files
  Models,      \* model and seed nodes
  Tables,      \* source nodes: the tables of one source
  Name,        \* Name[m]: the entry that documents model m; versions share one
  NoPath,      \* the path of a node without an entry
  NoFile,      \* a path with no file, or a file with no buffered document
  DryRuns,     \* values of context.settings.dry_run
  MaxEntries,  \* bound on the entries of the source in one file
  OtherPaths,  \* bound: files that may have unit_tests or data_tests
  KeptPaths    \* bound: files that may have preserved sections

ASSUME NodesAssumption ==
  Models \cap Tables = {} /\ DOMAIN Name = Models /\ IsFiniteSet(Tables)
ASSUME PathsAssumption ==
  NoPath \notin Paths /\ OtherPaths \subseteq Paths /\ KeptPaths \subseteq Paths
ASSUME DryRunsAssumption == DryRuns \subseteq BOOLEAN
ASSUME EntriesAssumption == MaxEntries \in Nat

Nodes == Models \cup Tables
Names == {Name[m] : m \in Models}

\* What a schema file holds, and an entry of its source list.
Entries == [draft : Paths \cup {NoPath}, tables : SUBSET Tables]
Documents == [models : [Names -> Nat], sources : Seq(Entries), other : BOOLEAN, kept : BOOLEAN]

ASSUME NoFileAssumption == NoFile \notin Documents

VARIABLES
  disk,         \* path -> file
  current,      \* node -> the path the manifest gives for its entry
  target,       \* node -> the path its template asks for
  origin,       \* table -> the file it is in at first, and which of the source's entries has it
  buffer,       \* _YAML_BUFFER_CACHE: path -> document
  shared,       \* path -> tables of the source entry the draft parsed from it
  plan,         \* targets of the operations not yet applied
  op,           \* target of the operation being applied
  superseded,   \* superseded paths of that operation not yet cleaned up
  phase,
  dryRun,
  mutated,      \* context.mutated
  diskMutated   \* has context.disk_mutation_count grown?

vars == <<disk, current, target, origin, buffer, shared, plan, op, superseded, phase, dryRun,
          mutated, diskMutated>>

-----------------------------------------------------------------------------
(* Documents                                                               *)

\* A source entry is an object of its own or the one the draft parsed from a path.
Parsed(tables) == [draft |-> NoPath, tables |-> tables]
Drafted(p) == [draft |-> p, tables |-> {}]
TablesOf(e, objects) == IF e.draft = NoPath THEN e.tables ELSE objects[e.draft]

Nothing == [models |-> [x \in Names |-> 0], sources |-> <<>>, other |-> FALSE, kept |-> FALSE]

\* The bytes a document is dumped to do not tell who shares its objects.
Dumped(doc, objects) ==
  [doc EXCEPT !.sources =
     [i \in DOMAIN doc.sources |-> Parsed(TablesOf(doc.sources[i], objects))]]

\* _read_yaml of an existing file.
Read(p) == IF buffer[p] # NoFile THEN buffer[p] ELSE disk[p]

\* Mutant: the deletion only asks for the kinds that move.
EmptiedOfNodes(doc) == doc.models = Nothing.models /\ doc.sources = <<>>

\* Nothing managed is left but the version.
Emptied(doc) == doc.models = Nothing.models /\ doc.sources = <<>> /\ ~doc.other

\* The k-th smallest of a set of positions.
Nth(kept, k) == CHOOSE i \in kept : Cardinality({j \in kept : j <= i}) = k

\* _remove_models, _remove_seeds and _remove_sources.
SourcesWithout(sources, nodes) ==
  LET kept == {i \in DOMAIN sources : TablesOf(sources[i], shared) \ nodes # {}}
  IN  [k \in 1..Cardinality(kept) |-> sources[Nth(kept, k)]]

\* Mutant: _remove_models is forgotten.
WithoutTables(doc, nodes) ==
  [doc EXCEPT
     !.sources = [i \in DOMAIN SourcesWithout(@, nodes) |->
                    LET e == SourcesWithout(@, nodes)[i]
                    IN  IF e.draft = NoPath THEN Parsed(e.tables \ nodes) ELSE e]]

Without(doc, nodes) ==
  [doc EXCEPT
     !.models = [x \in Names |-> IF \E m \in nodes \cap Models : Name[m] = x THEN 0 ELSE @[x]],
     !.sources = [i \in DOMAIN SourcesWithout(@, nodes) |->
                    LET e == SourcesWithout(@, nodes)[i]
                    IN  IF e.draft = NoPath THEN Parsed(e.tables \ nodes) ELSE e]]

\* _remove_sources replaces the tables inside the entry, which others may hold.
SharedWithout(doc, nodes) ==
  [p \in Paths |->
     IF \E i \in DOMAIN doc.sources : /\ doc.sources[i].draft = p
                                      /\ shared[p] \ nodes # {}
     THEN shared[p] \ nodes ELSE shared[p]]

-----------------------------------------------------------------------------
TypeOK ==
  /\ disk \in [Paths -> Documents \cup {NoFile}]
  /\ buffer \in [Paths -> Documents \cup {NoFile}]
  /\ current \in [Nodes -> Paths \cup {NoPath}] /\ target \in [Nodes -> Paths]
  /\ origin \in [Tables -> [file : Paths, nth : 1..MaxEntries]]
  /\ shared \in [Paths -> SUBSET Tables]
  /\ plan \subseteq Paths /\ op \in Paths \cup {NoPath} /\ superseded \subseteq Paths
  /\ phase \in {"draft", "prompt", "apply", "commit", "reload",
                "done", "declined", "aborted", "unparsable"}
  /\ dryRun \in BOOLEAN /\ mutated \in BOOLEAN /\ diskMutated \in BOOLEAN

\* A project dbt has just parsed: every node that has an entry has one, in the
\* file the manifest names.  Versions of a model share theirs; the tables of the
\* source are spread over entries and files.
TablesAt(p) == {t \in Tables : origin[t].file = p}
Positions(p) == {origin[t].nth : t \in TablesAt(p)}
SourcesAt(p) == [i \in Positions(p) |-> Parsed({t \in TablesAt(p) : origin[t].nth = i})]

FileOf(p, others, keeps) ==
  LET file == [models |-> [x \in Names |->
                             IF \E m \in Models : Name[m] = x /\ current[m] = p THEN 1 ELSE 0],
               sources |-> SourcesAt(p), other |-> p \in others, kept |-> p \in keeps]
  IN  IF file = Nothing THEN NoFile ELSE file

Init ==
  /\ current \in [Nodes -> Paths \cup {NoPath}]
  /\ \A m, k \in Models : Name[m] = Name[k] => current[m] = current[k]
  /\ origin \in [Tables -> [file : Paths, nth : 1..MaxEntries]]
  /\ \A t \in Tables : current[t] = origin[t].file
  /\ \A p \in Paths : \E n \in 0..MaxEntries : Positions(p) = 1..n
  /\ target \in [Nodes -> Paths]
  /\ \E others \in SUBSET OtherPaths, keeps \in SUBSET KeptPaths :
        disk = [p \in Paths |-> FileOf(p, others, keeps)]
  /\ buffer = [p \in Paths |-> NoFile] /\ shared = [p \in Paths |-> {}]
  /\ plan = {} /\ op = NoPath /\ superseded = {} /\ phase = "draft"
  /\ dryRun \in DryRuns /\ mutated = FALSE /\ diskMutated = FALSE

-----------------------------------------------------------------------------
(* draft_restructure_delta_plan                                            *)

\* SchemaFileLocation.is_valid fails for these.
Misplaced == {n \in Nodes : current[n] # target[n]}
MovedTo(q) == {n \in Misplaced : target[n] = q}
MovedFrom(p) == {n \in Misplaced : current[n] = p}

\* The pool reads the current file of every misplaced node; the plan has one
\* operation per target, in the order the jobs end.  An operation that moves a
\* table takes the first entry of the source in the file for the table's.
Draft ==
  /\ phase = "draft"
  /\ plan' = {target[n] : n \in Misplaced}
  /\ shared' = [p \in Paths |-> IF MovedFrom(p) = {} \/ disk[p].sources = <<>> THEN {}
                                ELSE disk[p].sources[1].tables]
  /\ buffer' = [p \in Paths |->
                  IF MovedFrom(p) = {} THEN NoFile
                  ELSE [disk[p] EXCEPT !.sources =
                          [i \in DOMAIN @ |-> IF i = 1 THEN Drafted(p) ELSE @[i]]]]
  /\ phase' = IF Misplaced = {} THEN "done" ELSE "prompt"
  /\ UNCHANGED <<disk, current, target, origin, op, superseded, dryRun, mutated, diskMutated>>

\* Mutant: operations of one target are merged without dropping duplicates.
ModelsExtended(q) == [x \in Names |-> Cardinality({m \in MovedTo(q) \cap Models : Name[m] = x})]

\* What the merged operation of target q appends: model entries once per name,
\* the first source entry of the current file once per table.
ModelsMoved(q) == [x \in Names |-> IF \E m \in MovedTo(q) \cap Models : Name[m] = x THEN 1 ELSE 0]
SourcesMoved(q) ==
  [i \in 1..Cardinality(MovedTo(q) \cap Tables) |->
     Drafted(current[SetToSeq(MovedTo(q) \cap Tables)[i]])]

Prompt ==
  /\ phase = "prompt"
  /\ phase' \in {"apply", "declined"}
  /\ UNCHANGED <<disk, current, target, origin, buffer, shared, plan, op, superseded, dryRun,
                 mutated, diskMutated>>

-----------------------------------------------------------------------------
(* apply_restructure_plan                                                  *)

\* _write_yaml of document out to p; a dry run leaves the document left buffered.
Write(p, out, left) ==
  /\ mutated' = (mutated \/ out # disk[p])
  /\ IF dryRun
     THEN /\ buffer' = [buffer EXCEPT ![p] = left]
          /\ UNCHANGED <<disk, diskMutated>>
     ELSE /\ disk' = [disk EXCEPT ![p] = out]
          /\ buffer' = [buffer EXCEPT ![p] = NoFile]
          /\ diskMutated' = (diskMutated \/ out # disk[p])

Appended(doc, q) ==
  [doc EXCEPT !.models = [x \in Names |-> @[x] + ModelsMoved(q)[x]],
              !.sources = @ \o SourcesMoved(q)]

\* The lists of the target's buffered document are extended in place, the
\* sections it lacks only exist in the output document.
ExtendedInPlace(doc, q) ==
  [doc EXCEPT !.models = IF doc.models = Nothing.models THEN @ ELSE Appended(doc, q).models,
              !.sources = IF @ = <<>> THEN @ ELSE Appended(doc, q).sources]

SupersededBy(q) == {current[n] : n \in MovedTo(q)} \ {NoPath}

WriteTarget(q) ==
  /\ phase = "apply" /\ superseded = {} /\ q \in plan
  /\ IF disk[q] = NoFile
     THEN Write(q, Dumped(Appended(Nothing, q), shared), buffer[q])
     ELSE Write(q, Dumped(Appended(Read(q), q), shared), ExtendedInPlace(Read(q), q))
  /\ plan' = plan \ {q} /\ op' = q
  /\ superseded' = SupersededBy(q)
  /\ UNCHANGED <<current, target, origin, shared, phase, dryRun>>

\* The nodes are removed from the superseded file, which is deleted or written.
Supersede(p) ==
  LET nodes == MovedTo(op) \cap MovedFrom(p)
      rest == Without(Read(p), nodes)
  IN  /\ phase = "apply" /\ p \in superseded
      /\ superseded' = superseded \ {p}
      /\ IF disk[p] = NoFile
         THEN UNCHANGED <<disk, buffer, shared, mutated, diskMutated>>
         ELSE /\ shared' = SharedWithout(Read(p), nodes)
              /\ IF Emptied(rest)
                 THEN /\ mutated' = TRUE
                      /\ IF dryRun
                         THEN /\ buffer' = [buffer EXCEPT ![p] = rest]
                              /\ UNCHANGED <<disk, diskMutated>>
                         ELSE /\ disk' = [disk EXCEPT ![p] = NoFile]
                              /\ buffer' = [buffer EXCEPT ![p] = NoFile]
                              /\ diskMutated' = TRUE
                 ELSE Write(p, Dumped(rest, SharedWithout(Read(p), nodes)), rest)
      /\ UNCHANGED <<current, target, origin, plan, op, phase, dryRun>>

Applied ==
  /\ phase = "apply" /\ plan = {} /\ superseded = {}
  /\ phase' = "commit"
  /\ UNCHANGED <<disk, current, target, origin, buffer, shared, plan, op, superseded, dryRun,
                 mutated, diskMutated>>

\* commit_yamls: every document still buffered.
CommitYamls ==
  LET dirty == {p \in Paths : buffer[p] # NoFile /\ Dumped(buffer[p], shared) # disk[p]}
  IN  /\ phase = "commit"
      /\ mutated' = (mutated \/ dirty # {})
      /\ IF dryRun
         THEN UNCHANGED <<disk, buffer, diskMutated>>
         ELSE /\ disk' = [p \in Paths |-> IF p \in dirty THEN Dumped(buffer[p], shared) ELSE disk[p]]
              /\ buffer' = [p \in Paths |-> NoFile]
              /\ diskMutated' = (diskMutated \/ dirty # {})
      /\ phase' = "reload"
      /\ UNCHANGED <<current, target, origin, shared, plan, op, superseded, dryRun>>

\* How many entries of file p document node n.
Count(n, p) ==
  IF disk[p] = NoFile THEN 0
  ELSE IF n \in Models THEN disk[p].models[Name[n]]
  ELSE Cardinality({i \in DOMAIN disk[p].sources : n \in disk[p].sources[i].tables})

Documented(n) == {p \in Paths : Count(n, p) > 0}
Twice(n) == \E p \in Paths : Count(n, p) > 1 \/ \E q \in Paths \ {p} : Count(n, p) + Count(n, q) > 1

\* dbt refuses to parse a project that documents a node twice.
Reload ==
  /\ phase = "reload"
  /\ IF diskMutated
     THEN IF \E n \in Nodes : Twice(n)
          THEN phase' = "unparsable" /\ UNCHANGED current
          ELSE /\ phase' = "done"
               /\ current' = [n \in Nodes |-> IF Documented(n) = {} THEN NoPath
                                              ELSE CHOOSE p \in Documented(n) : TRUE]
     ELSE phase' = "done" /\ UNCHANGED current
  /\ UNCHANGED <<disk, target, origin, buffer, shared, plan, op, superseded, dryRun, mutated, diskMutated>>

\* A read or a write raises, or the process dies: nothing more is written.
Abort ==
  /\ phase \in {"draft", "prompt", "apply", "commit", "reload"}
  /\ phase' = "aborted"
  /\ UNCHANGED <<disk, current, target, origin, buffer, shared, plan, op, superseded, dryRun,
                 mutated, diskMutated>>

Next ==
  \/ Draft \/ Prompt \/ Applied \/ CommitYamls \/ Reload \/ Abort
  \/ \E p \in Paths : WriteTarget(p) \/ Supersede(p)

Spec == Init /\ [][Next]_vars
-----------------------------------------------------------------------------
(* Properties                                                              *)

\* The entry a plan takes for a node's is the one that documents it.
Leads(n) == n \in Tables => origin[n].nth = 1

\* Whatever is done and wherever it stops, every node that had an entry on disk
\* still has one, and no file loses its unit_tests or data_tests, nor a file that
\* stays its preserved sections: the target is written before the superseded file
\* is cleaned up, which is deleted only when nothing managed is left in it.  A table
\* that is not in the first of its source's entries is excepted: what is moved is
\* the first entry (commands/restructuring.py:157), what is removed is its own (:284).
NothingManagedLost ==
  [][/\ \A n \in Nodes : Leads(n) /\ Documented(n) # {} => Documented(n)' # {}
     /\ \A p \in Paths : disk[p] # NoFile =>
          /\ disk[p].other => disk'[p] # NoFile /\ disk'[p].other
          /\ disk[p].kept /\ disk'[p] # NoFile => disk'[p].kept]_vars

\* A plan that was applied in full leaves every model entry once, in the file
\* its template asks for, and nowhere else, if its versions agree on that file.
ModelsHome ==
  phase \in {"done", "unparsable"} /\ ~dryRun =>
    \A m \in Models :
      (\A k \in Models : Name[k] = Name[m] => target[k] = target[m]) =>
        \A p \in Paths : Count(m, p) = IF p = target[m] THEN 1 ELSE 0

\* A full plan converges, with nothing left to move, and leaves a project dbt
\* can parse.  The exceptions are nodes that move together: tables of the source
\* in one file, or versions of a model whose templates ask for different files.
MovesWith(n, k) ==
  /\ n # k
  /\ \/ {n, k} \subseteq Tables /\ origin[n].file = origin[k].file
     \/ {n, k} \subseteq Models /\ Name[n] = Name[k] /\ target[n] # target[k]
Converges ==
  /\ phase = "done" /\ ~dryRun => \A n \in Misplaced : \E k \in Nodes : MovesWith(n, k)
  /\ phase = "unparsable" => \E n \in Misplaced, k \in Nodes : MovesWith(n, k)

\* The commit that ends a plan finds nothing to write: no buffered document is
\* left that could bring back a superseded file or an entry that moved.
CommitFindsNothing ==
  phase = "commit" /\ ~dryRun => \A p \in Paths : buffer[p] = NoFile

\* --check exits with an error exactly when there is something to move, whether
\* or not the run may write.
CheckIsTruthful ==
  phase \in {"reload", "unparsable"} \/ (phase = "done" /\ op = NoPath) =>
    (mutated <=> Misplaced # {})

\* What a plan leaves and reports: nothing to move, nothing to write, a true --check.
PlanSettles == Converges /\ CommitFindsNothing /\ CheckIsTruthful

\* Restructuring documents no table twice within one file: "Deduplicate
\* operations by target file path" (commands/restructuring.py:200).
SourcesOnce == \A t \in Tables, p \in Paths : Count(t, p) <= 1
=============================================================================
