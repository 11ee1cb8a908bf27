----------------------------- MODULE YamlBuffer -----------------------------
(***************************************************************************)
(* The YAML read/modify/write cycle of osmosis_propagation: the two caches *)
(* of schema/reader.py, the writer of schema/writer.py, and the batch sync *)
(* of sync_operations.py that drives them from a pool of threads.          *)
(*                                                                         *)
(* A schema file is the entries of its nodes plus the preserved top-level  *)
(* sections (semantic_models, exposures, ...), which parsing filters out   *)
(* and writing restores from the cache of originals.  A parsed document is *)
(* a mutable object that threads share through the buffer cache, so        *)
(* documents live in a heap and a cache or a thread holds a reference.     *)
(* An entry is "absent", "old" (stale), "stub" (created, columns not set   *)
(* yet) or "new" (what the manifest says).                                 *)
(***************************************************************************)
EXTENDS Integers, Sequences, FiniteSets, LruCache

CONSTANTS
  Workers,     \* threads of context.pool
  Nodes,       \* work items: manifest nodes to synchronise
  Home,        \* Home[n]: the YAML file that documents node n
  NoWorker,    \* the holder of a free lock
  NoDoc,       \* no document
  EmptyDoc,    \* the cached {} of a missing or empty file; never mutated
  DryRuns,     \* values of context.settings.dry_run a run may start with
  Faults,      \* may reads, temporary writes and unlinks raise OSError?
  RenameFaults,\* may os.replace and what follows it raise OSError?
  MaxPeeks,    \* bound: reads made by the transforms before the commit
  MaxCrashes   \* bound: process deaths followed by a new run

ASSUME HomeAssumption == Nodes # {} /\ Home \in [Nodes -> Paths]
ASSUME WorkersAssumption == NoWorker \notin Workers
\* A document is named after the work item or the peeked path that parsed it.
ASSUME DocsAssumption ==
  /\ Nodes \cap Paths = {}
  /\ NoDoc \notin Nodes \cup Paths \cup {EmptyDoc}
  /\ EmptyDoc \notin Nodes \cup Paths
ASSUME BoundsAssumption ==
  /\ DryRuns \subseteq BOOLEAN /\ Faults \in BOOLEAN /\ RenameFaults \in BOOLEAN
  /\ MaxPeeks \in Nat /\ MaxCrashes \in Nat

VARIABLES
  disk,           \* path -> file content
  temp,           \* path -> state of its .tmp sibling
  heap,           \* document -> node -> entry state
  buffer,         \* _YAML_BUFFER_CACHE: keys, recency, dirty set
  bufferDoc,      \* path -> the document the buffer cache maps it to
  original,       \* _YAML_ORIGINAL_CACHE: keys, recency, dirty set
  originalKept,   \* path -> did the cached original have preserved sections?
  handlerLock,    \* context.yaml_handler_lock
  cacheLock,      \* _YAML_BUFFER_CACHE_LOCK
  phase,          \* "transform" until the pipeline's _commit starts
  todo,           \* work items not yet taken from the pool's queue
  pc, node, doc, staged,   \* per thread: position, item, document, dump
  outcome,        \* node -> "pending", "ok", "failed"
  dryRun,         \* context.settings.dry_run, fixed while the command runs
  mutated,        \* context.mutated: was mutation_tracker called?
  peeks, crashes  \* counters for the bounds

cacheVars == <<buffer, bufferDoc, original, originalKept>>
lockVars == <<handlerLock, cacheLock>>
runVars == <<phase, todo, outcome, mutated, peeks, crashes>>
vars == <<disk, temp, heap, cacheVars, lockVars, runVars, pc, node, doc, staged, dryRun>>

-----------------------------------------------------------------------------
EntryStates == {"absent", "old", "stub", "new"}
Docs == Nodes \cup Paths
Blank == [n \in Nodes |-> "absent"]

Files == [state : {"missing", "torn", "whole"},
          entries : [Nodes -> EntryStates], kept : BOOLEAN]
NoFile == [state |-> "missing", entries |-> Blank, kept |-> FALSE]
Whole(entries, kept) == [state |-> "whole", entries |-> entries, kept |-> kept]
Torn == [state |-> "torn", entries |-> Blank, kept |-> FALSE]

Exists(p) == disk[p].state # "missing"

ReadPcs == {"lookup", "load_original"}
WritePcs == {"merge", "dump", "temp", "replace", "fallback_unlink",
             "fallback_rename", "cleanup", "discard_buffer", "discard_original"}
Pcs == {"idle", "read", "read_cache", "return", "open", "fill",
        "mark_buffer", "mark_original", "write"} \cup ReadPcs \cup WritePcs

TypeOK ==
  /\ disk \in [Paths -> Files]
  /\ temp \in [Paths -> {"none", "torn", "whole"}]
  /\ heap \in [Docs -> [Nodes -> EntryStates]]
  /\ buffer \in Caches /\ original \in Caches
  /\ bufferDoc \in [Paths -> Docs \cup {NoDoc, EmptyDoc}]
  /\ originalKept \in [Paths -> BOOLEAN]
  /\ handlerLock \in Workers \cup {NoWorker}
  /\ cacheLock \in Workers \cup {NoWorker}
  /\ phase \in {"transform", "commit"}
  /\ todo \in SUBSET Nodes
  /\ pc \in [Workers -> Pcs]
  /\ node \in [Workers -> Nodes]
  /\ doc \in [Workers -> Docs \cup {NoDoc, EmptyDoc}]
  /\ staged \in [Workers -> Files]
  /\ outcome \in [Nodes -> {"pending", "ok", "failed"}]
  /\ dryRun \in BOOLEAN /\ mutated \in BOOLEAN
  /\ peeks \in 0..MaxPeeks /\ crashes \in 0..MaxCrashes

-----------------------------------------------------------------------------
\* A file on disk before the run: it may be missing, may lack some of its
\* nodes, may carry preserved sections; it holds no other file's nodes.
InitialFiles(p) ==
  {f \in {NoFile} \cup {Whole(e, k) : e \in [Nodes -> {"absent", "old"}], k \in BOOLEAN} :
     \A n \in Nodes : Home[n] # p => f.entries[n] = "absent"}

\* The volatile state of a process that has just started.
FreshProcess ==
  /\ heap = [d \in Docs |-> Blank]
  /\ buffer = EmptyCache /\ bufferDoc = [p \in Paths |-> NoDoc]
  /\ original = EmptyCache /\ originalKept = [p \in Paths |-> FALSE]
  /\ handlerLock = NoWorker /\ cacheLock = NoWorker
  /\ phase = "transform" /\ todo = Nodes
  /\ pc = [w \in Workers |-> "idle"]
  /\ node = [w \in Workers |-> CHOOSE n \in Nodes : TRUE]
  /\ doc = [w \in Workers |-> NoDoc]
  /\ staged = [w \in Workers |-> NoFile]
  /\ outcome = [n \in Nodes |-> "pending"]
  /\ mutated = FALSE

Init ==
  /\ disk \in [Paths -> UNION {InitialFiles(p) : p \in Paths}]
  /\ \A p \in Paths : disk[p] \in InitialFiles(p)
  /\ temp = [p \in Paths |-> "none"]
  /\ FreshProcess
  /\ dryRun \in DryRuns
  /\ peeks = 0 /\ crashes = 0

Goto(w, l) == pc' = [pc EXCEPT ![w] = l]

\* The sync of w's node returned or raised; _sync_group reports it either way,
\* and the locals of the calls are gone.
Settle(w, result) ==
  /\ Goto(w, "idle")
  /\ outcome' = [outcome EXCEPT ![node[w]] = result]
  /\ doc' = [doc EXCEPT ![w] = NoDoc]
  /\ staged' = [staged EXCEPT ![w] = NoFile]

-----------------------------------------------------------------------------
(* schema/reader.py: _read_yaml                                            *)

\* What OsmosisYAML.load makes of file f: a document named d with the managed
\* entries only.  A file without any may parse to a falsy document.
Parsed(f, d) == IF f.entries = Blank THEN {d, EmptyDoc} ELSE {d}

LoadFiltered(p, d) ==
  /\ \E parsed \in Parsed(disk[p], d) :
        bufferDoc' = [bufferDoc EXCEPT ![p] = parsed]
  /\ heap' = [heap EXCEPT ![d] = disk[p].entries]
  /\ buffer' = SetItem(buffer, p)

LoadUnfiltered(p) ==
  /\ originalKept' = [originalKept EXCEPT ![p] = disk[p].kept]
  /\ original' = SetItem(original, p)

BufferMissing(p) ==
  /\ bufferDoc' = [bufferDoc EXCEPT ![p] = EmptyDoc]
  /\ buffer' = SetDefault(buffer, p)

\* A transform reads a YAML file (PropertyAccessor, inheritance) before the
\* commit: one whole _read_yaml with nobody else in the caches.
Peek(p) ==
  /\ phase = "transform" /\ peeks < MaxPeeks
  /\ \/ /\ Holds(buffer, p)
        /\ buffer' = GetItem(buffer, p)
        /\ UNCHANGED <<bufferDoc, original, originalKept, heap>>
     \/ /\ ~Holds(buffer, p) /\ ~Exists(p)
        /\ BufferMissing(p)
        /\ UNCHANGED <<original, originalKept, heap>>
     \/ /\ ~Holds(buffer, p) /\ Exists(p)
        /\ LoadFiltered(p, p) /\ LoadUnfiltered(p)
  /\ peeks' = peeks + 1
  /\ UNCHANGED <<disk, temp, lockVars, phase, todo, outcome, mutated, crashes,
                 pc, node, doc, staged>>

AcquireForRead(w) ==
  /\ pc[w] = "read" /\ handlerLock = NoWorker
  /\ handlerLock' = w /\ Goto(w, "read_cache")
  /\ UNCHANGED <<disk, temp, heap, cacheVars, cacheLock, runVars, node, doc, staged>>

AcquireCacheForRead(w) ==
  /\ pc[w] = "read_cache" /\ cacheLock = NoWorker
  /\ cacheLock' = w /\ Goto(w, "lookup")
  /\ UNCHANGED <<disk, temp, heap, cacheVars, handlerLock, runVars, node, doc, staged>>

ReleaseBoth == handlerLock' = NoWorker /\ cacheLock' = NoWorker

LookupHit(w) ==
  /\ pc[w] = "lookup" /\ Holds(buffer, Home[node[w]])
  /\ ReleaseBoth /\ Goto(w, "return")
  /\ UNCHANGED <<disk, temp, heap, cacheVars, runVars, node, doc, staged>>

\* A missing file: {} is cached and returned from inside the locked block.
LookupMissing(w) ==
  LET p == Home[node[w]] IN
  /\ pc[w] = "lookup" /\ ~Holds(buffer, p) /\ ~Exists(p)
  /\ BufferMissing(p)
  /\ doc' = [doc EXCEPT ![w] = EmptyDoc]
  /\ ReleaseBoth /\ Goto(w, "open")
  /\ UNCHANGED <<disk, temp, heap, original, originalKept, runVars, node, staged>>

LookupLoads(w) ==
  LET p == Home[node[w]] IN
  /\ pc[w] = "lookup" /\ ~Holds(buffer, p) /\ Exists(p)
  /\ LoadFiltered(p, node[w])
  /\ Goto(w, "load_original")
  /\ UNCHANGED <<disk, temp, original, originalKept, lockVars, runVars, node, doc, staged>>

\* YAMLError or OSError: logged, both locks released, re-raised.
LookupRaises(w) ==
  LET p == Home[node[w]] IN
  /\ pc[w] = "lookup" /\ ~Holds(buffer, p) /\ Exists(p) /\ Faults
  /\ ReleaseBoth /\ Settle(w, "failed")
  /\ UNCHANGED <<disk, temp, heap, cacheVars, phase, todo, mutated, peeks, crashes,
                 node>>

StoreOriginal(w) ==
  /\ pc[w] = "load_original"
  /\ LoadUnfiltered(Home[node[w]])
  /\ ReleaseBoth /\ Goto(w, "return")
  /\ UNCHANGED <<disk, temp, heap, buffer, bufferDoc, runVars, node, doc, staged>>

\* Mutant: hands out the file's content instead of the buffered document.
ReturnUnbuffered(w) ==
  LET p == Home[node[w]] IN
  /\ pc[w] = "return" /\ cacheLock = NoWorker /\ Holds(buffer, p)
  /\ doc' = [doc EXCEPT ![w] = NoFile]
  /\ buffer' = GetItem(buffer, p)
  /\ Goto(w, "open")
  /\ UNCHANGED <<disk, temp, heap, bufferDoc, original, originalKept, lockVars,
                 runVars, node, staged>>

\* `return _YAML_BUFFER_CACHE[path]` under a second acquisition of the lock.
ReturnBuffered(w) ==
  LET p == Home[node[w]] IN
  /\ pc[w] = "return" /\ cacheLock = NoWorker /\ Holds(buffer, p)
  /\ doc' = [doc EXCEPT ![w] = bufferDoc[p]]
  /\ buffer' = GetItem(buffer, p)
  /\ Goto(w, "open")
  /\ UNCHANGED <<disk, temp, heap, bufferDoc, original, originalKept, lockVars,
                 runVars, node, staged>>

\* Mutant: a vanished entry is swallowed and the node reported as written.
ReturnSwallows(w) ==
  /\ pc[w] = "return" /\ cacheLock = NoWorker /\ ~Holds(buffer, Home[node[w]])
  /\ Settle(w, "ok")
  /\ UNCHANGED <<disk, temp, heap, cacheVars, lockVars, phase, todo, mutated, peeks,
                 crashes, node>>

\* KeyError: the entry went away between the two acquisitions.
ReturnRaises(w) ==
  /\ pc[w] = "return" /\ cacheLock = NoWorker /\ ~Holds(buffer, Home[node[w]])
  /\ Settle(w, "failed")
  /\ UNCHANGED <<disk, temp, heap, cacheVars, lockVars, phase, todo, mutated, peeks,
                 crashes, node>>

-----------------------------------------------------------------------------
(* sync_operations.py: _sync_single_node_to_yaml                           *)

\* context.pool hands the next group to a thread.
Take(w, n) ==
  /\ phase = "commit" /\ pc[w] = "idle" /\ n \in todo
  /\ todo' = todo \ {n}
  /\ node' = [node EXCEPT ![w] = n]
  /\ Goto(w, "read")
  /\ UNCHANGED <<disk, temp, heap, cacheVars, lockVars, phase, outcome, mutated, peeks,
                 crashes, doc, staged>>

\* Mutant: always starts from a fresh document.
OpenAfresh(w) ==
  /\ pc[w] = "open"
  /\ doc' = [doc EXCEPT ![w] = node[w]]
  /\ heap' = [heap EXCEPT ![node[w]] = [Blank EXCEPT ![node[w]] = "stub"]]
  /\ Goto(w, "fill")
  /\ UNCHANGED <<disk, temp, cacheVars, lockVars, runVars, node, staged>>

\* `if not doc: doc = {"version": 2}` makes a document the cache does not know;
\* then the node's entry is looked up, or appended with no columns.
OpenEntry(w) ==
  LET n == node[w]
      d == IF doc[w] = EmptyDoc THEN n ELSE doc[w]
      entries == IF doc[w] = EmptyDoc THEN Blank ELSE heap[d]
  IN
  /\ pc[w] = "open"
  /\ doc' = [doc EXCEPT ![w] = d]
  /\ heap' = [heap EXCEPT ![d] =
                [entries EXCEPT ![n] = IF @ = "absent" THEN "stub" ELSE @]]
  /\ Goto(w, "fill")
  /\ UNCHANGED <<disk, temp, cacheVars, lockVars, runVars, node, staged>>

\* _sync_doc_section assigns the merged columns.
FillEntry(w) ==
  /\ pc[w] = "fill"
  /\ heap' = [heap EXCEPT ![doc[w]][node[w]] = "new"]
  /\ Goto(w, "mark_buffer")
  /\ UNCHANGED <<disk, temp, cacheVars, lockVars, runVars, node, doc, staged>>

\* _mark_yaml_caches_dirty: two steps, neither of them under cacheLock.
MarkBuffer(w) ==
  /\ pc[w] = "mark_buffer"
  /\ buffer' = MarkDirty(buffer, Home[node[w]])
  /\ Goto(w, "mark_original")
  /\ UNCHANGED <<disk, temp, heap, bufferDoc, original, originalKept, lockVars, runVars,
                 node, doc, staged>>

MarkOriginal(w) ==
  /\ pc[w] = "mark_original"
  /\ original' = MarkDirty(original, Home[node[w]])
  /\ Goto(w, "write")
  /\ UNCHANGED <<disk, temp, heap, buffer, bufferDoc, originalKept, lockVars, runVars,
                 node, doc, staged>>

-----------------------------------------------------------------------------
(* schema/writer.py: _write_yaml                                           *)

AcquireForWrite(w) ==
  /\ pc[w] = "write" /\ handlerLock = NoWorker
  /\ handlerLock' = w /\ Goto(w, "merge")
  /\ UNCHANGED <<disk, temp, heap, cacheVars, cacheLock, runVars, node, doc, staged>>

\* Mutant: writes the filtered document without restoring anything.
MergeNothing(w) ==
  /\ pc[w] = "merge" /\ cacheLock = NoWorker
  /\ staged' = [staged EXCEPT ![w] = Whole(Blank, FALSE)]
  /\ Goto(w, "dump")
  /\ UNCHANGED <<disk, temp, heap, cacheVars, lockVars, runVars, node, doc>>

\* _merge_preserved_sections needs the cached original; without one the
\* document is written as it was parsed, filtered.
MergePreserved(w) ==
  LET p == Home[node[w]] IN
  /\ pc[w] = "merge" /\ cacheLock = NoWorker
  /\ staged' = [staged EXCEPT ![w] =
                  Whole(Blank, Holds(original, p) /\ originalKept[p])]
  /\ original' = IF Holds(original, p) THEN GetItem(original, p) ELSE original
  /\ Goto(w, "dump")
  /\ UNCHANGED <<disk, temp, heap, buffer, bufferDoc, originalKept, lockVars, runVars,
                 node, doc>>

\* What yaml_handler.dump produces now, from the live shared document.
Modified(w) == Whole(heap[doc[w]], staged[w].kept)

DumpUnchanged(w) ==
  /\ pc[w] = "dump" /\ Modified(w) = disk[Home[node[w]]] /\ ~dryRun
  /\ Goto(w, "discard_buffer")
  /\ UNCHANGED <<disk, temp, heap, cacheVars, lockVars, runVars, node, doc, staged>>

\* In a dry run the change is only counted, and nothing is discarded.
DumpDry(w) ==
  /\ pc[w] = "dump" /\ dryRun
  /\ mutated' = (mutated \/ Modified(w) # disk[Home[node[w]]])
  /\ handlerLock' = NoWorker /\ Settle(w, "ok")
  /\ UNCHANGED <<disk, temp, heap, cacheVars, cacheLock, phase, todo, peeks, crashes,
                 node>>

\* Open the .tmp sibling for writing: it is truncated.
DumpChanged(w) ==
  LET p == Home[node[w]] IN
  /\ pc[w] = "dump" /\ Modified(w) # disk[p] /\ ~dryRun
  /\ staged' = [staged EXCEPT ![w] = Modified(w)]
  /\ temp' = [temp EXCEPT ![p] = "torn"]
  /\ Goto(w, "temp")
  /\ UNCHANGED <<disk, heap, cacheVars, lockVars, runVars, node, doc>>

\* Another thread grows the document while dump iterates over it.
DumpRaises(w) ==
  /\ pc[w] = "dump"
  /\ \E v \in Workers \ {w} : pc[v] \in {"open", "fill"} /\ doc[v] = doc[w]
  /\ handlerLock' = NoWorker /\ Settle(w, "failed")
  /\ UNCHANGED <<disk, temp, heap, cacheVars, cacheLock, phase, todo, mutated, peeks,
                 crashes, node>>

\* The write and its validation; a short write is an error like any other.
WriteTemp(w) ==
  /\ pc[w] = "temp"
  /\ temp' = [temp EXCEPT ![Home[node[w]]] = "whole"]
  /\ Goto(w, "replace")
  /\ UNCHANGED <<disk, heap, cacheVars, lockVars, runVars, node, doc, staged>>

\* Mutants: the written size is not validated; the write is retried.
WriteTempUnchecked(w) ==
  /\ pc[w] = "temp" /\ Faults
  /\ Goto(w, "replace")
  /\ UNCHANGED <<disk, temp, heap, cacheVars, lockVars, runVars, node, doc, staged>>

WriteTempRetries(w) ==
  /\ pc[w] = "temp" /\ Faults
  /\ Goto(w, "dump")
  /\ UNCHANGED <<disk, temp, heap, cacheVars, lockVars, runVars, node, doc, staged>>

WriteTempFails(w) ==
  /\ pc[w] = "temp" /\ Faults
  /\ Goto(w, "cleanup")
  /\ UNCHANGED <<disk, temp, heap, cacheVars, lockVars, runVars, node, doc, staged>>

\* The temporary file takes the target's name, with whatever it contains; the
\* mutation is counted before the handler lock is released.
Rename(w) ==
  LET p == Home[node[w]] IN
  /\ disk' = [disk EXCEPT ![p] = IF temp[p] = "whole" THEN staged[w] ELSE Torn]
  /\ temp' = [temp EXCEPT ![p] = "none"]
  /\ mutated' = TRUE
  /\ Goto(w, "discard_buffer")

Replace(w) ==
  /\ pc[w] = "replace" /\ Rename(w)
  /\ UNCHANGED <<heap, cacheVars, lockVars, phase, todo, outcome, peeks, crashes, node,
                 doc, staged>>

\* _replace_atomically's fallback: unlink the target, then rename.
ReplaceFails(w) ==
  /\ pc[w] = "replace" /\ RenameFaults
  /\ Goto(w, "fallback_unlink")
  /\ UNCHANGED <<disk, temp, heap, cacheVars, lockVars, runVars, node, doc, staged>>

FallbackUnlink(w) ==
  /\ pc[w] = "fallback_unlink"
  /\ disk' = [disk EXCEPT ![Home[node[w]]] = NoFile]
  /\ Goto(w, "fallback_rename")
  /\ UNCHANGED <<temp, heap, cacheVars, lockVars, runVars, node, doc, staged>>

FallbackRename(w) ==
  /\ pc[w] = "fallback_rename" /\ Rename(w)
  /\ UNCHANGED <<heap, cacheVars, lockVars, phase, todo, outcome, peeks, crashes, node,
                 doc, staged>>

FallbackFails(w) ==
  /\ pc[w] \in {"fallback_unlink", "fallback_rename"} /\ RenameFaults
  /\ Goto(w, "cleanup")
  /\ UNCHANGED <<disk, temp, heap, cacheVars, lockVars, runVars, node, doc, staged>>

\* Mutant: the handler lock is kept.
CleanUpKeepsLock(w) ==
  /\ pc[w] = "cleanup"
  /\ temp' = [temp EXCEPT ![Home[node[w]]] = "none"]
  /\ Settle(w, "failed")
  /\ UNCHANGED <<disk, heap, cacheVars, lockVars, phase, todo, mutated, peeks, crashes, node>>

\* The except block: unlink the temporary file (its own failure is swallowed),
\* keep the caches, re-raise.
CleanUp(w) ==
  LET p == Home[node[w]] IN
  /\ pc[w] = "cleanup"
  /\ \/ temp' = [temp EXCEPT ![p] = "none"]
     \/ Faults /\ temp' = temp
  /\ handlerLock' = NoWorker /\ Settle(w, "failed")
  /\ UNCHANGED <<disk, heap, cacheVars, cacheLock, phase, todo, mutated, peeks, crashes,
                 node>>

\* _discard_yaml_caches under cacheLock; then the handler lock is released.
DiscardBuffer(w) ==
  /\ pc[w] = "discard_buffer" /\ cacheLock = NoWorker
  /\ cacheLock' = w
  /\ buffer' = Discard(buffer, Home[node[w]])
  /\ Goto(w, "discard_original")
  /\ UNCHANGED <<disk, temp, heap, bufferDoc, original, originalKept, handlerLock, runVars,
                 node, doc, staged>>

DiscardOriginal(w) ==
  /\ pc[w] = "discard_original"
  /\ original' = Discard(original, Home[node[w]])
  /\ ReleaseBoth /\ Settle(w, "ok")
  /\ UNCHANGED <<disk, temp, heap, buffer, bufferDoc, originalKept, phase, todo, mutated,
                 peeks, crashes, node>>

-----------------------------------------------------------------------------
Step(w) ==
  \/ \E n \in Nodes : Take(w, n)
  \/ AcquireForRead(w) \/ AcquireCacheForRead(w)
  \/ LookupHit(w) \/ LookupMissing(w) \/ LookupLoads(w) \/ LookupRaises(w)
  \/ StoreOriginal(w) \/ ReturnBuffered(w) \/ ReturnRaises(w)
  \/ OpenEntry(w) \/ FillEntry(w) \/ MarkBuffer(w) \/ MarkOriginal(w)
  \/ AcquireForWrite(w) \/ MergePreserved(w)
  \/ DumpUnchanged(w) \/ DumpDry(w) \/ DumpChanged(w) \/ DumpRaises(w)
  \/ WriteTemp(w) \/ WriteTempFails(w)
  \/ Replace(w) \/ ReplaceFails(w)
  \/ FallbackUnlink(w) \/ FallbackRename(w) \/ FallbackFails(w)
  \/ CleanUp(w) \/ DiscardBuffer(w) \/ DiscardOriginal(w)

\* The transforms are over and the pipeline's _commit begins.
StartCommit ==
  /\ phase = "transform" /\ phase' = "commit"
  /\ UNCHANGED <<disk, temp, heap, cacheVars, lockVars, todo, outcome, mutated, peeks,
                 crashes, pc, node, doc, staged>>

\* The process dies and the user runs the command again: what is on disk stays.
Crash ==
  /\ crashes < MaxCrashes /\ crashes' = crashes + 1
  /\ heap' = [d \in Docs |-> Blank]
  /\ buffer' = EmptyCache /\ bufferDoc' = [p \in Paths |-> NoDoc]
  /\ original' = EmptyCache /\ originalKept' = [p \in Paths |-> FALSE]
  /\ handlerLock' = NoWorker /\ cacheLock' = NoWorker
  /\ phase' = "transform" /\ todo' = Nodes
  /\ pc' = [w \in Workers |-> "idle"]
  /\ node' = [w \in Workers |-> CHOOSE n \in Nodes : TRUE]
  /\ doc' = [w \in Workers |-> NoDoc]
  /\ staged' = [w \in Workers |-> NoFile]
  /\ outcome' = [n \in Nodes |-> "pending"]
  /\ mutated' = FALSE
  /\ UNCHANGED <<disk, temp, peeks>>

AllSettled == \A n \in Nodes : outcome[n] # "pending"

Finished == AllSettled /\ UNCHANGED vars

Next ==
  /\ \/ \E p \in Paths : Peek(p)
     \/ StartCommit
     \/ \E w \in Workers : Step(w)
     \/ Crash
     \/ Finished
  /\ UNCHANGED dryRun

Fairness ==
  /\ WF_vars(StartCommit /\ UNCHANGED dryRun)
  /\ \A w \in Workers : WF_vars(Step(w) /\ UNCHANGED dryRun)

Spec == Init /\ [][Next]_vars
FairSpec == Spec /\ Fairness

-----------------------------------------------------------------------------
(* Properties                                                              *)

\* The thread that reports success has its node's entry on disk, up to date:
\* nobody else's write of the same file undoes it (sync_node_to_yaml,
\* "We assume the manifest node is the single source of truth").
SyncedIsOnDisk ==
  \A n \in Nodes : outcome[n] = "ok" /\ ~dryRun =>
      Exists(Home[n]) /\ disk[Home[n]].entries[n] = "new"

\* No file on disk is ever truncated, or holds an entry whose columns another
\* thread was still filling in when the document was dumped.
DiskIsWhole ==
  \A p \in Paths : disk[p].state # "torn" /\ \A n \in Nodes : disk[p].entries[n] # "stub"

Rank(e) == CASE e = "absent" -> 0 [] e = "old" -> 1 [] e = "stub" -> 2 [] e = "new" -> 3

\* No step takes a schema file back: it keeps existing (_write_yaml, "If any step
\* fails, clean up temp file and preserve original"), its preserved sections survive
\* (parser.py, "must survive read/modify/write cycles unchanged"), and writing one
\* node never returns another node's entry to an older state, whichever document
\* the writer was holding.
FilesAdvance ==
  [][\A p \in Paths : Exists(p) =>
        /\ Exists(p)'
        /\ disk[p].kept => disk[p].kept'
        /\ \A n \in Nodes : Rank(disk[p].entries[n]) <= Rank(disk[p].entries[n]')]_vars

MaxOf(a, b) == IF a >= b THEN a ELSE b

\* The caches outgrow maxsize by no more than the entries pinned in them.
CachesBounded ==
  \A c \in {buffer, original} :
     Len(c.order) <= MaxOf(MaxSize, Cardinality(c.dirty) + 1)

\* Between its two critical sections a reader's document stays in the cache, so
\* `return _YAML_BUFFER_CACHE[path]` cannot raise (_read_yaml, "Multiple threads
\* can safely call this function concurrently").
ReturnFindsEntry ==
  \A w \in Workers : pc[w] = "return" => Holds(buffer, Home[node[w]])

\* The cache lock is only ever taken alone or inside the handler lock, and no
\* two threads are in the sections those locks protect.
LockDiscipline ==
  /\ \A w \in Workers : (handlerLock = w) <=> pc[w] \in {"read_cache"} \cup ReadPcs \cup WritePcs
  /\ \A w \in Workers : (cacheLock = w) <=> pc[w] \in ReadPcs \cup {"discard_original"}

\* A dry run that reports success for a node whose file would change has
\* recorded a mutation, which is what `--check --dry-run` exits on.
DryRunCountsChanges ==
  dryRun => \A n \in Nodes :
     outcome[n] = "ok" /\ disk[Home[n]].entries[n] # "new" => mutated

\* What a run reports of its nodes holds, in a real run as in a dry one.
ReportsAreTrue == SyncedIsOnDisk /\ DryRunCountsChanges

\* With a cache that holds the project and files of their own, no report is wrong, no
\* file is truncated and no read finds its entry gone, whatever fails.
BatchIsSound == SyncedIsOnDisk /\ DiskIsWhole /\ ReturnFindsEntry

\* Every work item is eventually reported, as written or as failed, whatever
\* fails and however often the process is restarted (the batch never hangs).
EveryNodeSettles == <>[]AllSettled

-----------------------------------------------------------------------------
(* What the batch promises                                                 *)

Store == INSTANCE SchemaStore WITH file <- disk

\* Seen from the disk and the batch report, the threads, locks and caches are
\* a store whose entries are published one at a time.
ImplementsStore == Store!Spec
=============================================================================
