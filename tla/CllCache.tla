------------------------------ MODULE CllCache ------------------------------
(***************************************************************************)
(* The column-level lineage cache of integration/cll.py, over the life of  *)
(* several runs of the command: the in-memory results, the results kept in *)
(* target/cll_cache.json, the bulk compile that is meant to keep the SQL   *)
(* they are computed from up to date, and the pool threads that ask for    *)
(* the lineage of a model at the same time.                                *)
(*                                                                         *)
(* The content of a model's source file is abstracted to a version, what   *)
(* else dbt renders it from (the project's macros and variables) to a      *)
(* number.  A result is a set of rows <<model, text>>: the rows of that    *)
(* model as they are computed from that text.  The text is Blank when a    *)
(* documented model has no compiled SQL and every column becomes a row of  *)
(* its own; no row at all is Failed, the empty list, as when the analysis  *)
(* raised.  Files of models that share a name may have contents in common: *)
(* versions of a model that were copied from each other, or models of one  *)
(* name in two packages.                                                   *)
(***************************************************************************)
EXTENDS Naturals

CONSTANTS
    Models,        \* SQL models of the project
    Versions,      \* contents a model's source file can have
    Documented,    \* models whose YAML lists columns: they get rows without SQL
    NameOf,        \* the dbt name of a model; versions of a model share one
    Contents,      \* the versions the file of a model may have
    Scopes,        \* the candidate node sets a run may be started with
    Workers,       \* pool threads
    NoWorker,      \* the cache lock is free
    Missing,       \* no compiled SQL, no entry, nothing read
    MaxEdits,      \* bound on edits of source files
    MaxMacroEdits, \* bound on edits of macros and variables
    MaxFailures,   \* bound on failures of a compile, a load, an analysis or a save
    Failing,       \* the failures in play, a subset of FailureKinds
    EditsMidRun    \* whether sources may change while a run is going on

FailureKinds == {"compile", "load", "analysis", "save", "crash"}

ASSUME CllAssumption ==
    /\ Models # {} /\ Versions # {} /\ Workers # {}
    /\ Documented \subseteq Models
    /\ Contents \in [Models -> (SUBSET Versions) \ {{}}]
    /\ Scopes \subseteq (SUBSET Models) \ {{}}
    /\ NoWorker \notin Workers
    /\ Failing \subseteq FailureKinds
    /\ MaxEdits \in Nat /\ MaxMacroEdits \in Nat /\ MaxFailures \in Nat
    /\ EditsMidRun \in BOOLEAN

VARIABLES
    source,     \* content of each model's .sql file
    macros,     \* content of everything else a model is rendered from
    compiled,   \* text of each compiled artefact, or Missing
    outdated,   \* the source file's mtime is later than the artefact's
    file,       \* target/cll_cache.json: an entry or Missing per model name
    phase,      \* where the run is; "idle" between runs
    scope,      \* candidate nodes of the run
    stale,      \* models the bulk compile was asked for
    rendered,   \* sources as dbt compile has read them
    lineage,    \* _LINEAGE_CACHE
    memory,     \* _DISK_CACHE: the dict loaded from the file, or Missing
    unread,     \* history: a read of the cache file failed in this process
    generation, \* which dict object _DISK_CACHE holds
    lock,       \* _CACHE_LOCK
    pc,         \* the next step of each thread
    job,        \* what a thread has in its local variables
    edits, failures

runVars == <<scope, stale, rendered>>
cacheVars == <<lineage, memory, unread, generation, lock>>
threadVars == <<pc, job>>
worldVars == <<source, macros, compiled, outdated>>
vars == <<worldVars, file, phase, runVars, cacheVars, threadVars, edits, failures>>

-----------------------------------------------------------------------------
(* Values *)

Names == {NameOf[m] : m \in Models}
Blank == << >>       \* as a text: rows for the documented columns, none traced
Failed == {}         \* as a result: []
Hash(m) == source[m] \* of the bytes of the file: nothing says whose they are
Rendered(m) == <<source[m], macros>>
Hashes == Versions
Texts == Versions \X (0..MaxMacroEdits)
Results == SUBSET (Models \X (Texts \cup {Blank}))
Entry == [hash : Hashes, results : Results]
Caches == [Names -> Entry \cup {Missing}]
ASSUME MissingAssumption == Missing \notin Texts \cup Entry \cup Caches

NoEntries == [n \in Names |-> Missing]
NoJob == [model |-> Missing, hash |-> Missing, results |-> Missing,
          loaded |-> Missing, dict |-> Missing]
Jobs == [model : Models \cup {Missing}, hash : Hashes \cup {Missing},
         results : Results \cup {Missing}, loaded : Caches \cup {Missing},
         dict : Nat \cup {Missing}]
Pcs == {"idle", "hash", "load", "bind", "lookup", "compute", "store", "lock",
        "put", "write", "replace"}

TypeOK ==
    /\ source \in [Models -> Versions] /\ \A m \in Models : source[m] \in Contents[m]
    /\ macros \in 0..MaxMacroEdits
    /\ compiled \in [Models -> Texts \cup {Missing}]
    /\ outdated \in [Models -> BOOLEAN]
    /\ file \in Caches
    /\ phase \in {"idle", "check", "compile", "render", "lineage"}
    /\ scope \subseteq Models /\ stale \subseteq scope
    /\ rendered \in [Models -> Texts \cup {Missing}]
    /\ lineage \in [Models -> Results \cup {Missing}]
    /\ memory \in Caches \cup {Missing}
    /\ unread \in BOOLEAN /\ generation \in Nat
    /\ lock \in Workers \cup {NoWorker}
    /\ pc \in [Workers -> Pcs]
    /\ job \in [Workers -> Jobs]

(* The module-level state of a process that has just been started. *)
FreshProcess ==
    /\ scope = {} /\ stale = {}
    /\ rendered = [m \in Models |-> Missing]
    /\ lineage = [m \in Models |-> Missing]
    /\ memory = Missing /\ unread = FALSE /\ generation = 0
    /\ lock = NoWorker
    /\ pc = [w \in Workers |-> "idle"]
    /\ job = [w \in Workers |-> NoJob]

ProcessEnds ==
    /\ phase' = "idle"
    /\ scope' = {} /\ stale' = {}
    /\ rendered' = [m \in Models |-> Missing]
    /\ lineage' = [m \in Models |-> Missing]
    /\ memory' = Missing /\ unread' = FALSE /\ generation' = 0
    /\ lock' = NoWorker
    /\ pc' = [w \in Workers |-> "idle"]
    /\ job' = [w \in Workers |-> NoJob]

(* A project checked out with no target/ directory yet. *)
Init ==
    /\ source \in [Models -> Versions] /\ \A m \in Models : source[m] \in Contents[m]
    /\ macros = 0
    /\ compiled = [m \in Models |-> Missing]
    /\ outdated = [m \in Models |-> TRUE]
    /\ file = NoEntries
    /\ phase = "idle"
    /\ FreshProcess
    /\ edits = 0 /\ failures = 0

-----------------------------------------------------------------------------
(* The user, between runs or during one *)

MayFail(kind) == kind \in Failing /\ failures < MaxFailures
CountFailure == failures' = failures + 1

EditSource(m, v) ==
    /\ phase = "idle" \/ EditsMidRun
    /\ edits < MaxEdits
    /\ v \in Contents[m] \ {source[m]}
    /\ source' = [source EXCEPT ![m] = v]
    /\ outdated' = [outdated EXCEPT ![m] = TRUE]
    /\ edits' = edits + 1
    /\ UNCHANGED <<macros, compiled, file, phase, runVars, cacheVars, threadVars, failures>>

(* An edit of a macro leaves every model's own file, and its mtime, alone. *)
EditMacros ==
    /\ phase = "idle" \/ EditsMidRun
    /\ macros < MaxMacroEdits
    /\ macros' = macros + 1
    /\ UNCHANGED <<source, compiled, outdated, file, phase, runVars, cacheVars, threadVars, edits, failures>>

(* dbt run or dbt compile, started by hand. *)
UserCompiles(m) ==
    /\ phase = "idle" \/ EditsMidRun
    /\ compiled' = [compiled EXCEPT ![m] = Rendered(m)]
    /\ outdated' = [outdated EXCEPT ![m] = FALSE]
    /\ UNCHANGED <<source, macros, file, phase, runVars, cacheVars, threadVars, edits, failures>>

-----------------------------------------------------------------------------
(* maybe_bulk_compile *)

StartRun(s) ==
    /\ phase = "idle"
    /\ s \in Scopes
    /\ phase' = "check"
    /\ scope' = s
    /\ UNCHANGED <<worldVars, file, stale, rendered, cacheVars, threadVars, edits, failures>>

(* Mutant: only a missing artefact counts as stale. *)
StaleWhenMissing(m) == compiled[m] = Missing
IsCompiledSqlStale(m) == compiled[m] = Missing \/ outdated[m]

CheckFreshness ==
    /\ phase = "check"
    /\ stale' = {m \in scope : IsCompiledSqlStale(m)}
    /\ phase' = IF stale' = {} THEN "lineage" ELSE "compile"
    /\ UNCHANGED <<worldVars, file, scope, rendered, cacheVars, threadVars, edits, failures>>

DbtReads ==
    /\ phase = "compile"
    /\ rendered' = [m \in Models |-> IF m \in stale THEN Rendered(m) ELSE Missing]
    /\ phase' = "render"
    /\ UNCHANGED <<worldVars, file, scope, stale, cacheVars, threadVars, edits, failures>>

(* dbt compile writes the artefacts of the models in done. *)
DbtWrites(done) ==
    /\ compiled' = [m \in Models |-> IF m \in done THEN rendered[m] ELSE compiled[m]]
    /\ outdated' = [m \in Models |-> m \notin done /\ outdated[m]]

BulkCompile ==
    /\ phase = "render"
    /\ DbtWrites(stale)
    /\ phase' = "lineage"
    /\ UNCHANGED <<source, macros, file, runVars, cacheVars, threadVars, edits, failures>>

(* A failing compile is logged and the run goes on. *)
BulkCompileFails ==
    /\ phase = "render" /\ MayFail("compile")
    /\ \E done \in SUBSET stale : done # stale /\ DbtWrites(done)
    /\ phase' = "lineage"
    /\ CountFailure
    /\ UNCHANGED <<source, macros, file, runVars, cacheVars, threadVars, edits>>

-----------------------------------------------------------------------------
(* get_cll_results, step by step; a step reads or writes shared state once *)

At(w, l) == pc[w] = l
Goto(w, l) == pc' = [pc EXCEPT ![w] = l]
Note(w, field, value) == job' = [job EXCEPT ![w][field] = value]
Finish(w) == Goto(w, "idle") /\ job' = [job EXCEPT ![w] = NoJob]
Now(w) == job[w].model

(* Any model can be asked for: a candidate, or an ancestor of one. *)
Ask(w, m) ==
    /\ phase = "lineage" /\ At(w, "idle")
    /\ lineage[m] = Missing
    /\ Goto(w, "hash") /\ Note(w, "model", m)
    /\ UNCHANGED <<worldVars, file, phase, runVars, cacheVars, edits, failures>>

HashSource(w) ==
    /\ At(w, "hash")
    /\ Note(w, "hash", Hash(Now(w)))
    /\ Goto(w, IF memory = Missing THEN "load" ELSE "lookup")
    /\ UNCHANGED <<worldVars, file, phase, runVars, cacheVars, edits, failures>>

(* _load_disk_cache runs here without the lock. *)
LoadDiskCache(w) ==
    /\ At(w, "load")
    /\ Note(w, "loaded", file)
    /\ Goto(w, "bind")
    /\ UNCHANGED <<worldVars, file, phase, runVars, cacheVars, edits, failures>>

(* A file that cannot be read or parsed is logged and taken for an empty    *)
(* cache: the next save writes only what this process has put into it.      *)
LoadFails(w) ==
    /\ At(w, "load") /\ MayFail("load")
    /\ file # NoEntries
    /\ Note(w, "loaded", NoEntries)
    /\ unread' = TRUE
    /\ Goto(w, "bind")
    /\ CountFailure
    /\ UNCHANGED <<worldVars, file, phase, runVars, lineage, memory, generation, lock, edits>>

BindDiskCache(w) ==
    /\ At(w, "bind")
    /\ memory' = job[w].loaded
    /\ generation' = generation + 1
    /\ Note(w, "loaded", Missing)
    /\ Goto(w, "lookup")
    /\ UNCHANGED <<worldVars, file, phase, runVars, lineage, unread, lock, edits, failures>>

(* Mutant: an entry is believed without comparing hashes. *)
HitByName(w) == memory[NameOf[Now(w)]] # Missing
Hit(w) ==
    LET entry == memory[NameOf[Now(w)]]
    IN  entry # Missing /\ entry.hash = job[w].hash

LookupHit(w) ==
    /\ At(w, "lookup") /\ Hit(w)
    /\ lineage' = [lineage EXCEPT ![Now(w)] = memory[NameOf[Now(w)]].results]
    /\ Finish(w)
    /\ UNCHANGED <<worldVars, file, phase, runVars, memory, unread, generation, lock, edits, failures>>

LookupMiss(w) ==
    /\ At(w, "lookup") /\ ~Hit(w)
    /\ Goto(w, "compute")
    /\ UNCHANGED <<worldVars, file, phase, runVars, cacheVars, job, edits, failures>>

(* The resolver reads the compiled text.  A model without one is skipped by *)
(* the parser, and its documented columns become rows without lineage.      *)
RowsOf(m) ==
    IF compiled[m] # Missing THEN {<<m, compiled[m]>>}
    ELSE IF m \in Documented THEN {<<m, Blank>>} ELSE {}

(* The resolver is asked by name and answers for every model of that name. *)
ColumnLineage(m) == UNION {RowsOf(k) : k \in {k \in Models : NameOf[k] = NameOf[m]}}

(* Mutant: the rows are not told apart by unique_id. *)
KeepAll(m, rows) == rows

(* The rows of the model itself are kept, all of them where it has none.   *)
KeepOwn(m, rows) ==
    LET matched == {r \in rows : r[1] = m}
    IN  IF matched # {} THEN matched ELSE rows

Compute(w) ==
    /\ At(w, "compute")
    /\ Note(w, "results", KeepOwn(Now(w), ColumnLineage(Now(w))))
    /\ Goto(w, "store")
    /\ UNCHANGED <<worldVars, file, phase, runVars, cacheVars, edits, failures>>

ComputeRaises(w) ==
    /\ At(w, "compute") /\ MayFail("analysis")
    /\ Note(w, "results", Failed)
    /\ Goto(w, "store")
    /\ CountFailure
    /\ UNCHANGED <<worldVars, file, phase, runVars, cacheVars, edits>>

(* Mutant: a failed analysis is persisted like any other. *)
PersistsAll(results) == TRUE
Persists(results) == results # Failed

StoreLineage(w) ==
    /\ At(w, "store")
    /\ lineage' = [lineage EXCEPT ![Now(w)] = job[w].results]
    /\ IF Persists(job[w].results) THEN Goto(w, "lock") /\ UNCHANGED job ELSE Finish(w)
    /\ UNCHANGED <<worldVars, file, phase, runVars, memory, unread, generation, lock, edits, failures>>

-----------------------------------------------------------------------------
(* The update of the disk cache, under _CACHE_LOCK *)

AcquireCache(w) ==
    /\ At(w, "lock") /\ lock = NoWorker
    /\ lock' = w
    /\ Note(w, "dict", generation)
    /\ Goto(w, "put")
    /\ UNCHANGED <<worldVars, file, phase, runVars, lineage, memory, unread, generation, edits, failures>>

(* The entry goes into the dict looked up above, which an unlocked load may *)
(* have replaced since; the save below takes whatever is bound by then.     *)
PutEntry(w) ==
    /\ At(w, "put")
    /\ memory' = IF job[w].dict # generation THEN memory
                 ELSE [memory EXCEPT ![NameOf[Now(w)]] =
                          [hash |-> job[w].hash, results |-> job[w].results]]
    /\ Goto(w, "write")
    /\ UNCHANGED <<worldVars, file, phase, runVars, lineage, unread, generation, lock, job, edits, failures>>

(* Mutant: the cache file is truncated and written in place. *)
WriteInPlace(w) ==
    /\ At(w, "write")
    /\ Note(w, "loaded", memory)
    /\ file' = NoEntries
    /\ Goto(w, "replace")
    /\ UNCHANGED <<worldVars, phase, runVars, cacheVars, edits, failures>>

WriteTemp(w) ==
    /\ At(w, "write")
    /\ Note(w, "loaded", memory)
    /\ Goto(w, "replace")
    /\ UNCHANGED <<worldVars, file, phase, runVars, cacheVars, edits, failures>>

ReplaceFile(w) ==
    /\ At(w, "replace")
    /\ file' = job[w].loaded
    /\ lock' = NoWorker
    /\ Finish(w)
    /\ UNCHANGED <<worldVars, phase, runVars, lineage, memory, unread, generation, edits, failures>>

(* A failing save is logged and leaves the file as it was. *)
SaveFails(w) ==
    /\ pc[w] \in {"write", "replace"} /\ MayFail("save")
    /\ lock' = NoWorker
    /\ Finish(w)
    /\ CountFailure
    /\ UNCHANGED <<worldVars, file, phase, runVars, lineage, memory, unread, generation, edits>>

-----------------------------------------------------------------------------
(* A run ends when it has asked for every candidate, or it dies *)

EndRun ==
    /\ phase = "lineage"
    /\ \A m \in scope : lineage[m] # Missing
    /\ \A w \in Workers : At(w, "idle")
    /\ ProcessEnds
    /\ UNCHANGED <<worldVars, file, edits, failures>>

Crash ==
    /\ phase # "idle" /\ MayFail("crash")
    /\ ProcessEnds
    /\ CountFailure
    /\ UNCHANGED <<worldVars, file, edits>>

Step(w) ==
    \/ \E m \in scope : Ask(w, m)
    \/ HashSource(w) \/ LoadDiskCache(w) \/ LoadFails(w) \/ BindDiskCache(w)
    \/ LookupHit(w) \/ LookupMiss(w)
    \/ Compute(w) \/ ComputeRaises(w) \/ StoreLineage(w)
    \/ AcquireCache(w) \/ PutEntry(w) \/ WriteTemp(w) \/ ReplaceFile(w) \/ SaveFails(w)

Run == (\E s \in Scopes : StartRun(s)) \/ CheckFreshness \/ DbtReads \/ BulkCompile
       \/ BulkCompileFails \/ EndRun

Next ==
    \/ \E m \in Models, v \in Versions : EditSource(m, v)
    \/ EditMacros
    \/ \E m \in Models : UserCompiles(m)
    \/ Run \/ Crash
    \/ \E w \in Workers : Step(w) \/ \E m \in Models : Ask(w, m)

Spec == Init /\ [][Next]_vars

(* The command is run again and again, and its threads make progress. *)
FairSpec == Spec /\ WF_vars(Run) /\ \A w \in Workers : WF_vars(Step(w))

-----------------------------------------------------------------------------
(* Properties *)

(* No other model of m's name can have the source text m has: what the     *)
(* comment at integration/cll.py:239-242 takes for granted.                *)
OwnText(m) ==
    \A k \in Models \ {m} : NameOf[k] = NameOf[m] => Contents[k] \cap Contents[m] = {}

(* The analysis of m has rows even where its SQL was never compiled, so    *)
(* that those of another model of its name are not left standing.          *)
OwnColumns(m) == m \in Documented \/ \A k \in Models \ {m} : NameOf[k] # NameOf[m]

(* A persisted result is the lineage of one model, computed from the very  *)
(* source text its hash was taken from: what the comment at                *)
(* integration/cll.py:268 relies on when it never compares the compiled    *)
(* text with the hash.                                                     *)
CacheIsTruthful ==
    \A n \in Names : file[n] # Missing =>
        \E m \in Models, k \in 0..MaxMacroEdits :
            /\ NameOf[m] = n /\ file[n].hash \in Contents[m]
            /\ file[n].results = {<<m, <<file[n].hash, k>>>>}

(* What a run is given for a model is the lineage of that model as dbt     *)
(* would render it now, or nothing: never an earlier text's, and never     *)
(* another model's, where the files of a name tell its models apart        *)
(* (integration/cll.py:151-158, 239-242).                                  *)
LineageIsCurrent ==
    \A m \in Models : OwnText(m) => lineage[m] \in {Missing, Failed, {<<m, Rendered(m)>>}}

(* Whatever fails, whatever is edited and whichever thread computed it, a  *)
(* model with a text and columns of its own is never handed the rows of    *)
(* another model that shares its name: the disk cache is keyed by name,    *)
(* only the hash tells models apart (integration/cll.py:239-242), and the  *)
(* analysis answers for all models of a name (:301-308).                   *)
LineageIsOwn ==
    \A m \in Models : OwnText(m) /\ OwnColumns(m) /\ lineage[m] # Missing =>
        \A r \in lineage[m] : r[1] = m

(* Once an analysis has been persisted, the file keeps an entry for that   *)
(* name, whatever crashes or fails to be saved, unless this process could  *)
(* not read the file: unchanged models skip the analysis in later runs     *)
(* (integration/cll.py:7).                                                 *)
EntriesSurvive ==
    [][\A n \in Names : file[n] # Missing /\ ~unread => file'[n] # Missing]_vars

(* After the last failure and the last edit, a run is again and again      *)
(* given the right lineage of every model whose text is its own: a         *)
(* transient failure does not poison the cache (integration/cll.py:314).   *)
LineageRecovers ==
    \A m \in {k \in Models : OwnText(k)} : []<>(lineage[m] = {<<m, Rendered(m)>>})
=============================================================================
