# Verification of dbt-osmosis-cll

TLA+ models, TLC model-checking runs and TLAPS proofs for `src/dbt_osmosis_cll`, a tool that keeps the
documentation of a dbt project (its *schema YAML* files) in step with the project's models and propagates
column descriptions along column-level lineage (CLL).

All paths below are relative to `src/src/dbt_osmosis_cll/`; `osmosis_propagation/` is shortened to `op/` and
`cll_generator/` to `cg/`.

## 1. The system

A command (`cli/main.py`: `refactor`, `organize`, `document`, ...) builds a `YamlRefactorContext` (settings,
manifest, thread pool, YAML handler) and runs a pipeline of transforms over the *candidate nodes* of the dbt
project. The transforms mutate the manifest in memory; committing them writes the schema YAML files. Lineage
comes from parsing compiled SQL, lazily, from an artefact of an earlier run, or from a disk cache. Outside the
pipeline stand commands that compare, migrate, enrich, restructure or draw.

| Part | State it keeps | Operations | Interacts with |
|---|---|---|---|
| YAML buffer (`op/schema/`) | two LRU caches of parsed files with dirty flags; a handler lock and a cache lock; the files and their temporary siblings | `_read_yaml`, `_write_yaml`, `commit_yamls`, the caches' methods | every reader and writer of schema YAML, on every pool thread |
| YAML synchronisation (`op/sync_operations.py`) | none of its own: it mutates the buffered document in place | `sync_node_to_yaml`, `_sync_doc_section`, the search for a node's entry | the buffer; the manifest; the thread pool |
| Transforms and pipeline (`op/transforms.py`) | per-operation result; commit mode | inject, remove, sort, types, inherit, annotate; `TransformPipeline.__call__` | manifest, CLL, introspection, synchronisation |
| Description propagation (`op/transforms.py`, `op/annotations.py`) | descriptions and `desc-owner` / `desc-source` meta in the manifest | `inherit_upstream_column_knowledge_cll`, `_resolve_cll_description`, `annotate_column_origins` | CLL results; wave order |
| Name-based inheritance (`op/inheritance.py`) | none | ancestor tree, column knowledge graph | manifest, YAML |
| Node selection and order (`op/node_filters.py`) | a process-wide depth cache | `_iter_candidate_nodes`, `_topological_sort`, `_topological_waves` | every transform |
| CLL bridge (`integration/cll.py`) | in-memory and on-disk result caches, manifest indexes, failure sets | `get_cll_results`, `maybe_bulk_compile`, `get_column_origin` | lineage resolver; `dbt compile`; `target/` |
| Lineage resolver (`cg/artifacts/registry.py`, `cg/api.py`) | a lazily parsed model registry with a re-entrant lock and an in-progress set | `ensure_lineage`, `get_column_lineage`, `apply_cached_lineage` | SQL parser; CLL artefact |
| SQL parser (`cg/parser/`) | none across calls | CTEs, unions, stars, lateral aliases, joins | the registry answers "which columns has this relation" |
| CLL artefacts and catalogs (`cg/offline_compile.py`, `cg/artifacts/`) | files under `target/` | `compile-cll`, `parse-cll`, snapshots, layered catalogs | the warehouse; manifest |
| Lineage explorer and reports (`cg/lineage/`, `cg/report/`) | none | walks up and down, the drawn graph, impact, origins | registry |
| Path management and restructuring | the draft plan: superseded and target files | `create_missing_source_yamls`, `draft_restructure_delta_plan`, `apply_restructure_plan` | the buffer, file system |
| Introspection (`op/introspection.py`) | column cache per relation, resolver of settings | `get_columns`, `prefetch_columns`, `SettingsResolver.resolve` | warehouse or catalog |
| Context and project (`op/settings.py`, `op/config.py`) | mutation counters, the pool, the adapter and its time to live, the manifest | `close`, `adapter`, `_reload_manifest` | everything |
| Migration, diff, enrichment (`op/commands/`, `op/enrichment/`) | none across calls | comparison and plan; description scripts | warehouse, YAML |

What makes it hard: a thread pool runs the write path of many nodes at once over shared documents; the
documents live in bounded caches with several locks; each transform is re-run and is expected to be
idempotent; a file write has several steps and can fail or be cut off between any two; results are cached on
disk across runs and must not outlive what they were computed from; one name of a column reaches the code in
three spellings; and much of the rest is pure but recursive, over graphs and sequences whose corner cases
(duplicates, shadowed names, cycles, eleven generations) no one writes a test for.

| Part | Properties it must have | Hard to test because |
|---|---|---|
| YAML buffer and synchronisation | a node reported as written is on disk; no other entry and no preserved section is lost; a file never vanishes or is torn; every node of a batch is reported | needs two threads in one file, an eviction between two reads, a failing rename, or a crash between two system calls |
| CLL result cache | a cached result is the lineage of the text it is stored under, and of the model it is given to; a failure is retried; no entry is lost | needs several runs, with an edit and a failure between them |
| Propagation | the result does not depend on the order of threads and waves; a copy follows its source; an anchor is never overwritten | needs several passes over several models with different owners, and a run that covers only part of them |
| Column operations | what the warehouse still has keeps its documentation; a second run is silent | needs every combination of casing, order and a database that answers in between |
| Restructuring | no entry is lost when files are merged and superseded ones deleted | needs a failure between the write and the deletion |
| Lineage registry | an answer is what a parse in dependency order yields, whoever asked first; cycles end | re-entrant lock and lazily triggered recursion |
| Session | a table looks the same to all operations of a run; closing waits and never hangs | needs an interrupt or a failure while tasks hold the adapter lock |
| Pure algorithms | each agrees with a declarative definition of its result | the inputs that matter are small but many |

## 2. Modules

| Module | Models |
|---|---|
| `LruCache` | `LRUCache` of `op/schema/reader.py`: pure operators on a record of key order and dirty keys |
| `YamlBuffer` | `_read_yaml`, `_write_yaml`, `_replace_atomically`, `_mark_yaml_caches_dirty`, `_discard_yaml_caches`, and `sync_node_to_yaml` over a pool |
| `SchemaStore` | abstract: entries published one at a time into whole files; what `YamlBuffer` promises (refined by `INSTANCE ... WITH`) |
| `CllCache` | `get_cll_results`, the two cache tiers, `maybe_bulk_compile`, over several runs |
| `Propagation` | `inherit_upstream_column_knowledge_cll`, `annotate_column_origins`, `_resolve_cll_description`, `get_column_origin`, over several runs |
| `Restructure` | `draft_restructure_delta_plan`, `apply_restructure_plan` with its commit and reload |
| `Registry` | `ModelRegistry`: eager and lazy load, the recursive parse under the lock, star discovery, hydration from the CLL artefact, and `get_column_lineage` on several threads |
| `ColumnSync` | inject, remove, sort and type operations, `_sync_doc_section` over a list of columns, batch and atomic commits, over runs of `refactor` and `document` |
| `Session` | the pool, `prefetch_columns`, `get_columns` with its cache, the `adapter` property, `close` |
| `LineageGraph` | the service's two walks, the explorer's graph, `get_column_impact`, `_OriginTracer` |
| `SqlLineage`, `SqlQueries` | the analysis of a parsed query, and all queries of up to three bodies with what flows into their columns |
| `Catalogs` | the columns of a relation as `compile-cll` and as `parse-cll` answer it |
| `Settings` | `SettingsResolver`, its sources and its chain, `PropertyAccessor`, the path template |
| `Document` | the search, creation and merging of a node's entry in a document |
| `Selection` | candidates, `_topological_sort`, the ancestor tree and which ancestor provides a text |
| `Inheritance` | what a column inherits by name along a chain, and its entry under both layouts |
| `SourceTables` | `create_missing_source_yamls` |
| `Migration` | `compare_node` and `MigrationPlan` |
| `Enrichment` | `enrich_yaml_files` |
| `Ranking` | a finite set as an ascending sequence |
| `MC*` | the instances TLC checks; `MCAlgorithms` holds the inputs of all pure algorithms |
| `YamlBufferProofs` (with the lemmas on `LruCache`), `YamlBatchProofs`, `CllCacheProofs`, `PropagationProofs`, `RestructureProofs`, `RegistryProofs`, `ColumnSyncProofs`, `SessionProofs` | theorems (section 5) |

Three ways of composing: `YamlBuffer` uses `LruCache` for both its caches and implements `SchemaStore`;
`Registry` takes "which relation has this column" from the same rule as `SqlLineage` and is seeded by the
artefact; `ColumnSync` takes columns from either the warehouse or lineage and writes through the merge of the
synchronisation. `Propagation` sees a commit as per-node writes, what happens inside each being `YamlBuffer`.

### YamlBuffer

A schema file is abstracted to one entry per node (`absent`, `old`, `stub`, `new`) and a flag for its preserved
top-level sections. What the code does to an entry's columns is data; *that* the entry is appended first and
filled a step later, in a document other threads hold too, is control and kept: hence `stub`, and hence a
`heap` of documents, with caches and threads holding references.

| State | Code |
|---|---|
| `disk`, `temp` | the files and their `.tmp` siblings |
| `buffer`/`bufferDoc`, `original`/`originalKept` | `_YAML_BUFFER_CACHE`, `_YAML_ORIGINAL_CACHE` |
| `handlerLock`, `cacheLock` | `context.yaml_handler_lock`, `_YAML_BUFFER_CACHE_LOCK` |
| `pc`, `node`, `doc`, `staged` | position and locals of a pool thread |
| `todo`, `outcome`, `mutated` | the pool's queue, `failures`, the mutation counter |

One action is one critical section or one system call: `AcquireForRead`, `LookupHit` / `LookupMissing` /
`LookupLoads` / `LookupRaises`, `StoreOriginal`, `ReturnBuffered` / `ReturnRaises` are `_read_yaml`;
`OpenEntry`, `FillEntry`, `MarkBuffer`, `MarkOriginal` the mutation; `AcquireForWrite`, `MergePreserved`,
`Dump*`, `WriteTemp*`, `Rename`, `Replace`, `Fallback*`, `CleanUp`, `Discard*` are `_write_yaml`. A `Crash`
leaves `disk` and `temp` and starts a new process. `Peek` is a read by a transform before the commit.
The serialisation of the document is abstracted to its content; `yaml_handler.dump` may raise when another
thread grows the document under it.

### CllCache

A model's `.sql` file is a version, the project's macros a number; a compiled text is the pair dbt rendered.
`Contents` says which versions a model's file can have, so models of one name may have files that are alike, and
`Hash` is of the bytes alone. A result is a set of rows, each a model and the text it was computed from, so a wrong
result is visible as a row of another text or another model. `ColumnLineage` answers for every model of the name and
`KeepOwn` filters only if something is left (`integration/cll.py:301`). `LoadFails` takes an unreadable cache file
for an empty one (`:131`); the history variable `unread` says it happened in this process. `compiled`
and `outdated` are the artefact and the comparison of two mtimes; `file`, `memory`, `generation`, `lineage`
the disk cache, the dict loaded from it, the identity of that dict and the in-memory tier. Actions follow
`get_cll_results` statement by statement where another thread can come between; `maybe_bulk_compile` is four
actions, with dbt reading sources and writing artefacts separately.

### Propagation

A column's description is a text, an annotation that is there or not, the `desc-owner` key and its labels (tags
and unmanaged meta). `saved` is the YAML, `columns` the manifest of the running process. The walks are
recursive functions over a visited set, translated branch for branch from `_resolve_cll_description` and
`_compute_column_origin`. A thread first walks (`Resolve`) and then writes (`Apply`), so walks of one wave
interleave with writes of the same wave; `InWave` is the barrier `pool.map` makes. `Annotate` handles a node
in one step, since no column's annotation reads the text of another (the origin's description only goes into
the wording of the annotation). `EndRun` is the commit, seen as per-node writes (what happens inside each is
`YamlBuffer`).

Abstracted: what CLL finds for a column is the constant `Lineage` (`untraced`, `born`, `wall`, `union`,
`single`); a run may find nothing for the models whose analysis fails in it. Equivalence of descriptions is
the constant `Meaning`. Options that default to off are left out and named in the module.

### Restructure

A file is a record: how often it documents each model entry, its source entries, whether it has managed
sections that never move (`unit_tests`, `data_tests`) and preserved ones. `current` is what the manifest says,
`target` what the templates ask for; every pair of mappings is an initial state. The tables are of one source, whose
entries may be several, in one file or more (`origin`): an operation takes the first of the file (`Draft`), which need
not be the one the table is removed from (`Without`). The plan of the code is a list
of operations, one per target, in the order the pool's jobs end: here a set of targets from which the next is
chosen, since an operation's content follows from `current` and `target`. What does not follow is kept: the
content holds references into the documents parsed at draft time, and `_remove_sources` changes a source entry
in place, so `shared` holds the entries the plan refers to. `WriteTarget`, `Supersede`, `CommitYamls` and
`Reload` are the writes in their order; `Abort` ends the command anywhere. The steps of one write and the bounded
caches belong to `YamlBuffer`; the duplicates dbt rejects are external. Left out: the removal of an emptied
directory, and the rendering of path templates.

### Registry

A model's compiled SQL is what its columns read: items naming a column of one relation or an unqualified column
of a join, and relations read with `*`. The lock is re-entrant and has one owner, so one `stack` of frames
stands for the recursion of the thread that holds it: `EnterKnown`, `EnterTerminal`, `EnterParse`, `LookUp`,
`Resolve`, `Apply`, `NextStar` and `Finish` are the steps of `_ensure_lineage_locked` and of the discovery it
calls; `trails` are the in-progress sets, one per chain of discoveries. `EagerParse` and `EagerStars` are
`load` without laziness, `Hydrate` is `apply_cached_lineage` and `restrict_to`. Readers hold no lock.

### ColumnSync

A name is a letter in a case, so that the three normalisations can differ. `warehouse` and `yaml` outlive a run;
`columns` is the manifest. The database answers a whole run, none of it, or only its later operations
(`reached`), which is what lets one operation undo another. One action performs one operation of the pipeline on
the whole list, `Synced` the merge into the file and `Committed` the comparison that decides about a write. Left
out: the `skip-*` options, patterns of columns to ignore and `prefer-yaml-values`.

### Session

`Submit` maps an operation over the nodes (the first prefetches), a worker takes a node and goes through
`get_columns` by `Refuse`, `Hit`, `Miss`, `Catalogue`, `Describe`, `GiveUp`, `Store`, waiting for the manifest
mutex before each use of the adapter (`AdapterEnter`, `AdapterLeave`, with a connection that may have
expired). `Collect` takes results in order; a failed task or an `Interrupt` cancels what has not begun; `Shutdown`,
`CloseEnter`, `CloseLeave` are the two `close` methods. `Alter` is somebody else's `ALTER TABLE`. The cache and the
tables are keyed by relation (`RelationOf`), which two nodes may share. `CloseLeave` has the swallowed error of the
cleanup (`op/config.py:372`), which leaves some connections open; the history variable `cleaned` records it.

### The pure algorithms

Each is a set of operators over records, with a reference definition next to it: reachability for `LineageGraph`,
the flow of values through a query for `SqlLineage`, an explicit list of places in order of strength for
`Settings`, executing the script and its rollback on a table for `Migration`, the round trip through dbt's parser
for `Inheritance`, and so on. `MCAlgorithms` makes each input one state: `start` states choose a kind, a `Take*`
action an input of that kind, and queries grow by `Lengthen` one body at a time, so that a query is analysed from
the tables of its prefix.

## 3. Runs

| Run | Instance | Shows |
|---|---|---|
| `yaml_own_files` | 2 threads, 2 nodes in 2 files, I/O faults, 1 crash | `BatchIsSound`: reports are true, no file is truncated or holds a half-filled entry, reads find their entry; `ImplementsStore`: the batch implements `SchemaStore`; `EveryNodeSettles` |
| `yaml_serial` | 1 thread, 3 nodes in one file, faults, 1 crash, 1 earlier read | `FilesAdvance`: whatever happens a file keeps its preserved sections and no entry goes back; sharing a file is harmless without concurrency |
| `yaml_pinned` | 2 threads, 2 files, caches of one entry, failing renames, dry and real runs | the caches outgrow their limit only by pinned entries; reports are true although reads race evictions (`ReportsAreTrue`); the locks are taken in one order |
| `cll_threads` | 2 threads, 2 models of one name and never one text, 2 edits of one of them, 1 failure of a load, an analysis, a save or a run | results are those of the present text and recover after the failure |
| `cll_any_world` | 1 thread, 2 models of one name and a third, edits of sources and macros in the middle of a run, a partial scope, every failure | even then a model with a text and columns of its own gets rows of its own (`LineageIsOwn`), and no entry is lost by a process that could read the file (`EntriesSurvive`) |
| `propagation` | 5 nodes in 4 waves, 2 threads, full and partial scopes, 1 edit, 1 failure or crash | `WalksAgree`: a walk's result is a function of the files and its text is the one at its origin; copies stay in lockstep with their source; labels arrive; traced anchors stay |
| `restructure` | a model, 2 versions of another, a source of 2 tables in 1 or 2 entries, 3 files; all targets, real and dry | no managed section is lost wherever a plan stops, and no entry but a table outside the first entry of its source; model entries end up once and at home; `PlanSettles`: the commit resurrects nothing, `--check` is right, only nodes that move together keep a plan from converging |
| `registry` | 4 models and 2 sources, one self-reading, stars over models, two unqualified joins; 2 threads; eager, lazy, hydrated, restricted; an edit or a text that does not parse | `AnswersAreParses` with its three named exceptions; `DoneIsFinal`: readers need no lock; `RequestsAnswered` |
| `columns` | 2 columns, 2 runs, 1 edit of file or table; every combination of adapter, output case, order, command, commit mode | `DocumentationSurvives`, `FileAgrees`, `SecondRunIsSilent` |
| `session` | 2 workers, 2 nodes of which 1 source with relations of their own, 2 operations, 1 altered table, 1 expiry | `OneTablePerRun`, `ClosedIsQuiet`, `CloseEnds` |
| `algorithms` | one state per input, about 250 000 | one property per algorithm, see below |
| `yaml_shared_lost_update` | 2 threads, 2 nodes in one file | violation, see section 4 |

The properties of `algorithms` and the inputs they range over:

| Property | Inputs | Says |
|---|---|---|
| `GraphShowsLineage` | 4 relations of 1 or 2 columns, two columns that may read each other, 1260 lineages, an unknown relation, a hard-coded name, 2 exposures | the graph has all that is above and below and its edges are dependencies; impact counts what is below; origins do not depend on what the tracer was asked before, unless the way up goes round between columns |
| `SettingsResolve` | every combination of 6 places and 6 ways of writing | the closest place wins, and the chain reported explains the value |
| `NodesFindTheirEntry` | up to 2 entries of a model with up to 3 versions; 2 source entries with templates | each node's data lands in one section of its own and nobody else's entry changes |
| `NodesInOrder` | 288 acyclic graphs of 5 nodes, 17 selections | each candidate is listed once, after the candidates it reads directly; a project without cycles is never refused; ephemeral models and package nodes are left out |
| `ClosestAncestorWins` | a diamond in both orders, a chain of twelve | the text inherited is that of a closest ancestor that has one, generations from the tenth on counted after the first |
| `PlanMigrates` | up to 3 YAML columns, 15 types, 2 dialects | the script takes the documented table to the real one, the rollback back; safe steps keep columns |
| `EnrichmentRespects` | 2 files, anchors in both places, 9 scripts | foreign anchors and texts survive; a run settles |
| `ColumnsInherit` | chains of 3 models under 12 settings | markers stay home, texts cascade, a second run is silent, changing the layout keeps the column |
| `LineageIsDataFlow` | every query of up to 3 bodies over 2 tables and the model itself | a traced column is what flows into the output, and "direct" or "renamed" passes a value on unchanged |
| `SourcesAreListed` | 2 declared sources, 3 paths, every content of the files, 3 output cases | each table is listed once and a second run writes nothing, where paths are the sources' own |
| `StarsExpandAlike` | 5 relations over 2 databases, 5 orders of sources, partial catalogs | both commands expand a star alike, to the columns of the first source that knows the relation |

**Bounds.** Two threads are enough for the races in question: each involves one thread between two of its
steps and one other. Two nodes per file make a shared file; caches of one or two entries make evictions happen.
One failure and one edit suffice for every property, because each is about what a single fault leaves behind;
`cll_threads` allows two edits, so that a text can be edited away and back. The propagation project has every kind
of column, a diamond under a union, a rename that is followed and one model of each owner; its deepest chain is
four, below `MaxDepth`. Three files let a plan merge, split, swap and empty files. The registry's four models
contain the smallest cycle (a self-read), a star above a join and a model reached by two ways. Two columns are
enough for an order and for a name in two spellings; two runs for idempotence. Three bodies are a CTE of a CTE and
a final select, which is where aliases, stars and unions start to interact; a chain of twelve has a tenth and an
eleventh generation, whose names sort as strings before the second's.

**Fairness.** `YamlBuffer` and `CllCache` assume weak fairness of each thread (the pool runs a thread that can
go on) and, in `CllCache`, of the run itself, which is started again and again: `LineageRecovers` speaks of the
run after a failure. `Registry` assumes it of the thread at work under the lock and of each thread's `Acquire`;
`Session` of the main thread and of each worker (a query ends, with an answer or an error). A waiting thread can be
overtaken only finitely often, since the requests and tasks are bounded, so weak fairness of the acquisition is
enough. Failing actions are never required: they are bounded by a counter. Edits, interrupts and alterations are
not required to happen.

**Deadlock** is checked except where the modelled program ends: a finished plan, a closed command, the last run of
`columns`, all requests of `registry` answered.

## 4. Where the code and its documentation disagree

*Lost update in a shared file* (`yaml_shared_lost_update`): nodes of one YAML file are separate work items, so one
thread's stale document overwrites the entry another has reported as written. `PROJECT.json` quotes the sentence.

Found with the models, by checking the property named under the instance named, and not kept as runs:

- *Models of one name are given each other's rows*: `LineageIsOwn` without its conditions. Versions whose files are
  alike have one entry and one hash (`Contents` with a version in common), against the comment at
  `integration/cll.py:239` that only the hash tells them apart; and a model without rows of its own (not compiled, no
  documented columns) keeps the other's, which are persisted under its hash (`:301`). `OwnText` and `OwnColumns` are
  the conditions.
- *One failed read of the cache file loses the other entries*: `EntriesSurvive` without `~unread`. `_load_disk_cache`
  goes on with `{}` (`integration/cll.py:131`) and the next save writes that and the new entry over the file.
- *One failed compile poisons the lineage cache*: `CacheIsTruthful` with `"compile"` in `Failing`
  (`integration/cll.py:379` goes on, against the comment at `:314`).
- *A failed analysis removes an anchor*: `AnchoredTextKept` of `Propagation` with one failed analysis;
  desc-owner is managed meta and is stripped from a column without a row (`op/transforms.py:1742`).
- *A renamed copy of a glossary column is a run behind*: `CopiesInLockstep` with a glossary that has a column another
  model copies under a new name. The glossary is applied by the annotating pass, after the copy was taken.
- *A placeholder needs a second run*: `RunIsIdempotent` of `Propagation` with one edit (`op/transforms.py:961` writes
  what the walk at `:487` treats as empty).
- *A moved source is documented twice*: `SourcesOnce` of `Restructure`; every misplaced table brings the whole
  source entry and the lists are extended (`op/commands/restructuring.py:225`). dbt rejects the result.
- *A table outside the first entry of its source is lost*: `NothingManagedLost` without `Leads`. A plan moves the first
  entry that has the source's name (`op/commands/restructuring.py:157`) and `_remove_sources` (`:284`) removes the
  table from its own. Merging appends entries (`:225`), so a plan makes the files on which the next one does this.
- *A stale artefact is served*: `NeverSilentlyStale` of `Registry`. Freshness compares a model's own source text, so
  a model whose parent changed keeps its old rows (`cli/main.py`, `explore`: "the graph is never silently stale").
  It goes further than these rows: a model that is itself parsed from the present SQL looks up the columns of its
  join in the old ones (`cg/artifacts/registry.py:620`) and may give a column to the wrong relation. The attempt to
  prove `AnswersAreParses` showed it; `Excused` names it and `MCRegistry` contains it.
- *The pipeline is not idempotent for re-spelled columns*: `SecondRunIsSilent` of `ColumnSync` with
  `Respelled = {"database", "alphabetical"}`. `_position` (`op/transforms.py:1400`) compares spellings
  (`tests/core/test_pipeline_integration.py:219`: "A pipeline should be idempotent").
- *A union is misaligned, or names a CTE*: `LineageIsDataFlow` without the disjuncts `Resorted` and `NamesCte` of
  `Guesses`. `select *` from a CTE copies its columns in alphabetical order (`cg/parser/sql_parser.py:1480`), and a union
  branch that stars the copy is matched by that order, against the comment "insertion order == declaration order"
  (`:1305`): a column gets its neighbour's origin. A branch column a CTE does not know (it has `*` from another CTE) is
  resolved one relation down (`:1267`), where a select follows the chain (`:1600`).
- *Documented columns lost on Snowflake*: `DocumentationSurvives` without the first conjunct of
  `CaseIsSettled`: a model's columns from lineage are lower case, the manifest's upper, and with the output left as
  it is nothing folds them (`integration/cll.py:397`).
- *An atomic commit that changes the case loses what only the file knows* (tests, jinja): the same without the
  second conjunct. The command line only uses batch commits.
- *What is remembered of an origin may be incomplete*: `OriginsAreRoots` without its second condition. Where two
  columns of an incremental model are each computed from the other's old value, the tracer cuts the way at the first
  of them and remembers the other as it is then known (`cg/api.py:746`), for every later asker.
- *The explorer drops edges between columns whose relations' names end alike*: `StepsAreDrawn` with
  `tails = {<<2,3>>}` (`cg/lineage/display/html/explore.py:731`).
- One thread, three files, caches of two entries: preserved sections can be lost, since a buffer hit does not refresh
  `_YAML_ORIGINAL_CACHE` (`op/schema/reader.py:158` says nothing is lost). One thread, failing renames: a file
  can vanish, as `_replace_atomically` unlinks the target before the fallback rename (`op/schema/writer.py:101`).
- Two threads in one shared file: an entry is discarded between the two critical sections of `_read_yaml`; a node
  counted as *not written* is published by the next node's write.
- A run whose scope leaves out a stale ancestor violates `CacheIsTruthful`; a macro edit violates
  `LineageIsCurrent`, as the cache is validated by the model's own file only; two threads loading the cache file at
  once violate `EntriesSurvive`.
- Restructuring deletes a superseded file without managed entries together with the sections the parser hides
  (`op/schema/parser.py:32` says they survive).

Behaviour the models make explicit, which the properties allow by a named condition:

- *Sources.* `SourcesAreListed` holds under `OwnPlaces`. New tables are told by comparing the database's spelling
  with the manifest's names while the names appended are re-cased, so an output case of its own appends them again
  each run; a new source replaces the whole file at its path, so two sources sharing one alternate; a source
  documented in another file than the configured one gets an empty document; a table whose `identifier` differs from
  its name counts as new (`op/path_management.py:322` to `391`).
- *Catalogs.* With `live` but no snapshot, live columns join the documented ones even if the manifest is configured
  first, against "wholly from the first source that knows it" (`docs/USAGE.md:219`); a model compiled in this run
  answers in the manifest's place, so the two commands differ on models when the manifest comes before live;
  names in catalog files are read without the database. `_derived`'s memo is left out and its recursion on a model
  that selects from its own name ends, as in the code, in the documented columns.
- *SQL.* `LineageIsDataFlow` speaks of the queries outside `Guesses`, the operator that names the parser's limits: a
  final `select *` over a join unwraps the first CTE only; a union skips a star over a relation without known columns;
  an unqualified column that no single relation is known to have goes to the first one, in a union always (a lateral
  alias there is taken for a base column); a branch that reads the model itself is dropped with all it joins. Columns
  of the model itself are left out of the comparison. The two wrong unions above are in `Guesses` as well.
- *Explorer.* A column without lineage gets edges from its siblings; only the first entry of an intermediate column
  is drawn.
- *Settings.* A null in `config.meta` falls through, in `meta` it wins; option objects are read in kebab case only by
  the two late sources; the reported chain leaves the option objects out; the resolver's docstring lists a direct
  key the code does not read.
- *Entries.* A source entry is matched by identifier or name and may be another's; versions of a package's model are
  written when grouped although package nodes are skipped (`op/sync_operations.py:641`).
- *Order.* Only direct edges among candidates order them; generation names sort as strings, so an ancestor of the tenth or
  a later generation overrides one of the second to ninth (`op/inheritance.py:445`, "farthest to closest"); a
  generation is a depth-first depth.
- *Migration.* Two removed columns may be renamed to one added column and the script then fails; a rename keeps the
  old type; `databricks` gets a commented rename and a real rollback; "moderate" narrowing counts among the safe steps
  (`op/commands/migration.py:96`).
- *Enrichment.* The early return skips the clean-up pass; rendering drops sections other than models; the clean-up
  strips frozen column anchors under `model_anchor_globs`.
- *Inheritance.* The ancestor's YAML overrides the manifest in memory, so an `upstream` owner in a chain needs several
  runs; an ancestor's text that is only an annotation erases the text above it.
- *Session.* Two nodes of one relation (a source over a model's table) can both miss and query on either side of an
  `ALTER TABLE`, as the cache is checked and filled in two steps: with one relation for both nodes TLC finds
  `OneTablePerRun` violated without `OwnRelation`, the condition the property names. An error while the connections
  are closed is logged and the context counts as closed with connections open (`cleaned`). Prefetch ignores
  `disable_introspection`.

## 5. Theorems

TLAPS proves the following for all values of the constants, under the assumptions the modules name and the
hypotheses of the third column. A hypothesis is a property of the project or of the run that the theorem
states; where there is none, the theorem holds of every instance.

| Theorem | Says | Hypotheses |
|---|---|---|
| `YamlBufferProofs!DirtyKeysArePinned` | no method but a discard of the key itself drops a dirty key | |
| `YamlBufferProofs!TypeCorrect` | `Spec => []TypeOK` | |
| `YamlBufferProofs!LocksHeld` | `Spec => []LockDiscipline` | |
| `YamlBufferProofs!CachesStayBounded` | `Spec => []CachesBounded` | |
| `YamlBatchProofs!ReportsHold` | `Spec => []ReportsAreTrue` | `OwnFiles` |
| `YamlBatchProofs!BatchSound` | `Spec => []BatchIsSound` | `OwnFiles`, `CacheFits` |
| `YamlBatchProofs!FilesOnlyAdvance` | `Spec => FilesAdvance` | `OwnFiles`, `CacheFits`, `~RenameFaults` |
| `YamlBatchProofs!BatchImplementsStore` | `Spec => ImplementsStore`, the refinement of `SchemaStore` | `OwnFiles`, `CacheFits`, `~RenameFaults`, no dry runs |
| `CllCacheProofs!CllTypeCorrect` | `Spec => []TypeOK` | |
| `CllCacheProofs!RowsAreOwn` | `Spec => []LineageIsOwn` | per model, in the property: `OwnText`, `OwnColumns` |
| `CllCacheProofs!CacheTruth` | `Spec => []CacheIsTruthful` | `CalmWorld` |
| `CllCacheProofs!LineageTruth` | `Spec => []LineageIsCurrent` | `CalmWorld`, no macro edits; per model, in the property: `OwnText` |
| `CllCacheProofs!EntriesKept` | `Spec => EntriesSurvive` | `SingleThread`; per process, in the property: `~unread` |
| `PropagationProofs!OneAnswer` | `Spec => []WalksAgree` | `ShallowLineage` |
| `PropagationProofs!InLockstep` | `Spec => []CopiesInLockstep` | `ShallowLineage`, `GlossaryIsolated` |
| `PropagationProofs!LabelsGetThere` | `Spec => []LabelsArrive` | `ShallowLineage`, `AcyclicModels`, `RowsFollowRefs` |
| `PropagationProofs!AnchorsKept` | `Spec => []TracedAnchorsKept` | |
| `RestructureProofs!NothingLost` | `Spec => NothingManagedLost` | per table, in the property: `Leads` |
| `RestructureProofs!ModelsAreHome` | `Spec => []ModelsHome` | |
| `RestructureProofs!PlanDoesSettle` | `Spec => []PlanSettles` | |
| `RegistryProofs!DoneStays` | `Spec => DoneIsFinal` | `Acyclic` |
| `RegistryProofs!AnswersTrue` | `Spec => []AnswersAreParses` | `Acyclic` |
| `ColumnSyncProofs!DocumentationKept` | `Spec => []DocumentationSurvives` | `CasesAreSettled` |
| `ColumnSyncProofs!FilesAgree` | `Spec => []FileAgrees` | `CasesAreSettled`, `PipelinesCommit` |
| `ColumnSyncProofs!SecondRunSilent` | `Spec => SecondRunIsSilent` | `CasesAreSettled`, `SpellingIsKept` |
| `SessionProofs!OneTable` | `Spec => []OneTablePerRun` | per node, in the property: `OwnRelation` |
| `SessionProofs!Quiet` | `Spec => []ClosedIsQuiet` | for the connections, in the property: `cleaned` |

### The arguments

*YAML buffer.* `TypeOK` is not inductive, since a thread's next write goes into the document its lookup returned;
`TypeInv` adds that a cached path has a document (`CachedHasDoc`) and a thread past its lookup holds a mutable one
(`HoldsDocument`). A lock is held by the thread at the positions inside its section and by no other, which is its
own invariant. The bound of the caches is one of a loop: every insertion evicts until the size fits or no clean key
is left but the newest, and a dirty key became dirty while it was in the cache.

*A batch.* What `YamlBatchProofs` proves rests on a fact no lock of the code states: with a file for each node, a
document, a file, its temporary sibling and its cache entries are touched only by the thread that took the node.
`WorkInv` says a node in a thread's hands is nobody else's, `DocInv` that documents and files hold entries of their
own node only, `WriteInv` that what is staged and on disk after the mutation is the new entry; these three carry
`ReportsHold`. `HeldInv` (a thread finds its entry in the buffer from its read to its discard) needs a cache that holds
the files, and `KeptInv` (a cached original agrees with its file) a rename that works besides. Then the disk changes by
`Replace` alone, with everything else the file had (`DiskStep`), which is `FilesAdvance` and the abstract `Publish`;
a report is the abstract `Report` or `Fail`, a crash its `Restart`, and every other step stutters.

*CLL cache.* `OwnInv`: every dict, in the file, in memory and in threads' hands, has under a hash only rows that are
right for each model with a text and columns of its own that the hash fits. `TruthInv` adds that during a run every
artefact was compiled from the present source, so that rows stored under a hash are those of its text. `CoverInv`: the
dict in memory, and the copy a save is about to install, name all the file names, unless the file was not read.

*Propagation.* A walk hands a copy on as what it is a copy of: giving a column what its walk found changes no walk
that comes by later (`InheritedAlike`, `WalkStable`). Walks are recursive functions over a visited set; with ranks a
set never comes into play, so a walk is unfolded by induction on the rank, stated with sets ("a set that holds every
column whose lower ones it holds, holds all", from `WFMin`), since the library's induction rules cannot be used.
`PassInv` then says that in the middle of a pass each column is as the files have it or as its walk of the files would
leave it. `StepInv` is `CopiesInLockstep` for the columns outside the glossary: a written run moves no walk either.
`LabelInv`: waves grow along the lineage, so what a column is copied from has its labels already. `AnchorInv`: the
manifest holds the anchored text too, and neither pass writes to such a column whatever a walk returns.

*Restructuring.* `IInv` follows one entry: before its operation it is in its old file, after the operation's write
in its target, and the old file loses it only then (`At`, `PlacedInv`, `MovedInv`). The buffer needs an invariant of its
own (`BufferInv`): a document the draft has parsed is like its file as long as it has still to be cleaned up, with the
one exception the aliasing makes, that its first source entry has the tables of the plan (`shared`). It is what shows the
final commit to find nothing. A drafted entry has tables of its own file only, and those of the first entry until they
are moved (`SharedInv`); a table alone in its file, or in a file whose tables stay, is listed once (`Settles`).

*Registry.* The recursion goes down the graph of refs (`StackInv`): each frame has a model of lower rank than the
frame below, except for one that reads itself, and a frame that works has its model in an in-progress set and not
done. So no frame works on a model that is done.

That an answer is true (`AnswersTrue`) compares a recursion that is interrupted by lookups, shares its results
between requests and may start from an artefact with a reference that parses each model after those it reads. That
the reference exists is an induction along ranks (`Solution`, `ParsedFacts`). `RegInv` then describes the columns at
every point of the recursion. `WorkInv`: what the frame of a model has found so far is what the reference reads
there (`Reading`), once applied its columns are the reference's before stars (`Base`), and the star sources it is
through with are done, are the model itself or are the frame above. `Untouched`: the columns of a model that is
neither done nor at work are those of its YAML. `TrailInv`: what an in-progress set or the set of lookups names has a
frame, so that `EnterKnown` on a model that is not done can only be a model reading itself with `*`. `LazyInv`: what
is done is as the reference has it, as far as callers and lookups can tell (`Alike`: hydrating keeps the first entry
of a column only). `EagerInv` says the same of a load in two passes, `RequestInv` that a request's models are done
when its caller reads. The step that matters is `Resolve`: when no relation of the join needs a parse, each is known as
the reference knows it (`KnownAlike`), since its rank excludes that it is being parsed further down. An excuse is
handed up the graph (`ExcusedUp`), which the excuse the property had first was not; and hydrating gives back
the rows of the reference where nothing above the model has changed (`FreshParse`, `HydratedAlike`).

*Columns.* Each operation is a fold, a filter or a sort of a list, so the first part of the proof says what those
recursive definitions compute. The library's folds choose a function that goes down a set by its greatest element;
that there is one, and only one, is an induction along ranks (`Solution`, `FoldSolution`), and a stable sort is the
one permutation along a total order (`RankSorts`). The lemmas about the operations then need two facts of the names.
`Clean`: no two entries of a list are of one column, and a project that leaves the case alone has its names in the
case they compare in (`Spelled`); what the warehouse reports compares as it is spelled (`Fits`). Under these the
three ways to compare names are one, the comparison of columns (`NameFacts`), and each operation maps a clean list to
a clean one that has what the node still has, with its text (`PerformPasses`). `RunInv` carries it through a run: what
the file described when the run began is in the manifest under the same name (`ColumnsCarry`), and with its tests in
the buffered section (`DocCarries`); outside atomic runs that section is still the old one. `OrderInv`, for
`FilesAgree`, says what has been achieved at each position of the pipeline once every operation so far was answered:
after the injection no column is missing, after the removal none is left over, after the sort they are in order. An
answer that comes late cannot count, since a database that failed in this run is never `always` again.

`SecondRunSilent` compares two runs, so its invariant has to remember the first one in the file. `Tidy` says what
the operations so far have made of the manifest: everything asked for is there with its text (`Has`), nothing is left
over (`NoMore`), the sort keys rise (`KeysRise`), a refactor has typed every column. At the commit this becomes a
property of the file (`Settled`, by `FileIsSettled`), and it stays one until an edit (`SettledInv`). Each operation is
the identity on a settled list, if it is answered as before (`InjectStays`, `RemovedFacts`, `RisingStays`,
`TypedFacts`), and writing back what was parsed gives the section it was parsed from (`SyncedBack`); so the second run
keeps the manifest as parsed and the file as found (`RepeatInv`). That the sort keys of the names as written are those
of the names as sorted holds of the alphabetical key, which is computed from the written name; of the
warehouse position it holds only if the names were written that way before (`WrittenAs`), hence the second hypothesis.

*Session.* `SessionInv`: what was answered of a node with a relation of its own is what is cached, a worker that
asks the warehouse for such a node found nothing cached and is the only one at it, and where the main thread is
bounds what the tasks can be.

### The hypotheses

| Hypothesis | Means | Why it is needed, and where it holds |
|---|---|---|
| `OwnFiles` | nodes have files of their own | the result is false without: `yaml_shared_lost_update`, section 4. A path template that names the file after the model gives each node its own |
| `CacheFits` | the files of the batch are at most the cache's size | an eviction between two reads of a file loses preserved sections or makes a read fail (section 4); both caches hold 256 files (`op/schema/reader.py:146`) |
| `~RenameFaults` | `os.replace` does not fail | its fallback deletes the file first, so a fault between makes it vanish |
| no dry runs | `TRUE \notin DryRuns` | a dry run reports nodes it did not write; what it reports is `ReportsHold` |
| `CalmWorld` | no edit in the middle of a run, `dbt compile` does not fail half way, the run is about the whole project | then the hash and the compiled text are of one source; `cll_any_world` drops it and states neither property. Edits between runs, crashes, failed loads, analyses and saves remain |
| no macro edits | `MaxMacroEdits = 0` | the hash does not cover macros and variables |
| `SingleThread` | one thread resolves lineage | an unlocked load can bind an older dict over a newer one |
| `ShallowLineage` | columns have ranks up to `MaxDepth` along their lineage | deeper chains are cut at `cll-max-origin-depth` and the text is lost (hazard without a property). dbt rejects cycles of refs; an incremental model whose column is traced to its own table has no rank and is not covered |
| `GlossaryIsolated` | no description goes from a column of the glossary to one outside it | a glossary column gets its text after the inherit pass, so what copies it under another name is a run behind: with `<<stg, x>>` in the glossary of the run's instance TLC finds `CopiesInLockstep` violated after one run. The glossary is keyed by name, so only renaming models and unions can do this |
| `Leads(t)` | `t` is in the first entry of its source in its file | the result is false without (section 4). A source with one entry per file meets it |
| `AcyclicModels` | models have a height | dbt rejects a cycle of refs |
| `RowsFollowRefs` | a column is copied from a relation its model refers to | a hard-coded relation is in no wave order |
| `Acyclic` | what a model's SQL reads, itself excepted, ranks below it | dbt rejects a cycle of refs; a self-reading incremental model is covered |
| `OwnRelation(n)` | no other node has the relation of `n` | the result is false without (section 4). Models always have relations of their own; a source may be declared over a model's table |
| `cleaned` | closing the connections did not raise | `close` swallows the error and counts as done |
| `OwnText(m)` | no other model of the name can have the file `m` has | the cache is keyed by name and hash, so the result is false without (section 4). Models with names of their own have it |
| `OwnColumns(m)` | `m` has documented columns or no namesake | an empty answer for `m` keeps the namesake's rows (section 4) |
| `~unread` | this process has not failed to read the cache file | the save after a failed read drops the other entries (section 4) |
| `CasesAreSettled` | on Snowflake the output of models has a case of its own; an atomic pipeline leaves the case alone | both results are false without (section 4). The command line only uses batch commits |
| `PipelinesCommit` | the pipeline commits, in a batch or at once | a pipeline that never commits leaves the file as it was; `refactor` and `document` commit |
| `SpellingIsKept` | a file to be sorted as in the database first spells its names in the output case | the result is false without: the pipeline is then not idempotent (section 4); every file a run has written meets it |

`MCPropagation`, `MCRegistry` and `MCColumnSync` assume the hypotheses of their theorems of the instance
(`ProjectIsCovered`, `SettledAssumption`, `CommitAssumption`, `SpellingAssumption`), so TLC evaluates them;
`yaml_own_files` meets those of `YamlBatchProofs`, `yaml_pinned` has files of their own, `cll_threads` is a calm
world without macro edits and `cll_any_world` has one thread. `FilesAdvance` is proved of files of their own and
checked, by `yaml_serial`, of a shared file and a single thread.

### Not proved

- Liveness (`EveryNodeSettles`, `LineageRecovers`, `RequestsAnswered`, `CloseEnds`) and whether an action is enabled are
  out of the prover's reach.
- The properties of `algorithms` are about what recursive definitions compute for each input; `LineageGraph`,
  `Selection` and `Catalogs` use recursive operators, of which nothing can be proved. TLC enumerates the inputs.

## 6. What could follow

1. For which texts and glossaries a second run of `Propagation` changes nothing (a hazard without a property).
2. An abstract specification of restructuring (the set of documented nodes never shrinks), refined by `Restructure`.
3. `Pipeline`: `--check`, mutation counters and defer over the composition of `SchemaStore` and `Propagation`.
4. What a run guarantees two nodes of one relation in `Session`, and the catalog file as a source of columns.
5. The usage of columns in `WHERE`, `JOIN` and Jinja (`cg/parser/usage.py`), and reports built on it.

## 7. Not modelled, and why

`PROJECT.json` lists every part with its reason. In short: sqlglot's trees are replaced by a small query language,
and function classification and rendering are data; the command lines, formatting, plugins, reports and schema
validation have no state a property could be about; lint, generators, doc health and test suggestions read and
print; dbt itself, the warehouse and the file formats are external; demo project, vendored JavaScript and the
documentation site are not program logic. Edits of schema files by other programs while a command waits are not
modelled (a hazard without a property), nor is the depth limit of the origin walk, below which the instance stays.
