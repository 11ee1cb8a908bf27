--------------------------- MODULE YamlBatchProofs ---------------------------
(***************************************************************************)
(* What a batch sync promises when every node has a schema file of its     *)
(* own, for any number of threads and nodes and whatever fails: the        *)
(* reports are true, the files are whole, and the batch implements the     *)
(* store of SchemaStore.  Everything rests on one fact that no lock of the *)
(* code states: a document, a file, its temporary sibling and its cache    *)
(* entries are touched by the one thread that took the file's node.        *)
(***************************************************************************)
EXTENDS YamlBufferProofs

OwnFiles == \A m, n \in Nodes : Home[m] = Home[n] => m = n

\* The document of a node is named after the node or after its file.
DocsOf(n) == {n, Home[n]}
Only(n) == [m \in Nodes |-> IF m = n THEN "new" ELSE "absent"]

FilledPcs == {"mark_buffer", "mark_original", "write"} \cup WritePcs
RenamePcs == {"replace", "fallback_unlink", "fallback_rename"}

-----------------------------------------------------------------------------
\* A node in the hands of a thread is nobody else's, and still unreported.
WorkInv ==
  /\ \A w \in Workers : pc[w] # "idle" =>
       phase = "commit" /\ node[w] \notin todo /\ outcome[node[w]] = "pending"
  /\ \A n \in todo : outcome[n] = "pending"
  /\ \A v, w \in Workers : pc[v] # "idle" /\ pc[w] # "idle" /\ node[v] = node[w] => v = w

\* Documents and files hold the entries of their own node only.
DocInv ==
  /\ \A p \in Paths : bufferDoc[p] \in {NoDoc, EmptyDoc, p} \cup {n \in Nodes : Home[n] = p}
  /\ \A w \in Workers :
       doc[w] \in IF pc[w] = "idle" THEN {NoDoc} ELSE {NoDoc, EmptyDoc} \cup DocsOf(node[w])
  /\ \A d \in Docs, n \in Nodes : d \notin DocsOf(n) => heap[d][n] = "absent"
  /\ \A p \in Paths, n \in Nodes : p # Home[n] => disk[p].entries[n] = "absent"

\* What a thread is about to write, has staged, and has put on disk.
Written(w) ==
  /\ pc[w] \in FilledPcs => heap[doc[w]][node[w]] = "new"
  /\ pc[w] \in {"temp"} \cup RenamePcs =>
       staged[w].state = "whole" /\ staged[w].entries = Only(node[w])
  /\ pc[w] \in RenamePcs => temp[Home[node[w]]] = "whole"
  /\ pc[w] \in {"discard_buffer", "discard_original"} =>
       Exists(Home[node[w]]) /\ disk[Home[node[w]]].entries[node[w]] = "new"

WriteInv == (\A w \in Workers : Written(w)) /\ DiskIsWhole /\ ReportsAreTrue

-----------------------------------------------------------------------------
\* In a cache that holds the project: from the read to the discard a thread finds
\* its node's entry in the buffer cache.
ReadDonePcs == {"load_original", "return", "open", "fill", "mark_buffer", "mark_original",
                "write", "merge", "dump", "temp", "cleanup", "discard_buffer"} \cup RenamePcs

HeldInv ==
  \A w \in Workers : pc[w] \in ReadDonePcs => Holds(buffer, Home[node[w]])

\* And while os.replace works: a cached original agrees with its file, no buffered
\* document of an existing file is without one, and what a thread has staged
\* carries the preserved sections its file has.
KeptInv ==
  /\ \A p \in Paths : Holds(original, p) => originalKept[p] = disk[p].kept
  /\ \A p \in Paths : ~Exists(p) => ~disk[p].kept
  /\ \A p \in Paths : Holds(buffer, p) /\ Exists(p) =>
       \/ Holds(original, p)
       \/ \E w \in Workers : pc[w] \in {"load_original", "discard_buffer"} /\ Home[node[w]] = p
  /\ \A w \in Workers :
       /\ pc[w] \in {"dump", "temp", "replace"} => staged[w].kept = disk[Home[node[w]]].kept
       /\ pc[w] = "discard_original" => ~Holds(buffer, Home[node[w]])
       /\ pc[w] \notin {"fallback_unlink", "fallback_rename"}

-----------------------------------------------------------------------------
\* What a step of one thread leaves alone: the locals of the others, and every
\* file, temporary file, cached document and report that is not of its node, which
\* it keeps from the moment it takes it until it reports it.
Frame(w) ==
  LET n == node'[w] IN
  /\ \A v \in Workers \ {w} :
       pc'[v] = pc[v] /\ node'[v] = node[v] /\ doc'[v] = doc[v] /\ staged'[v] = staged[v]
  /\ \A p \in Paths \ {Home[n]} :
       disk'[p] = disk[p] /\ temp'[p] = temp[p] /\ bufferDoc'[p] = bufferDoc[p]
  /\ \A d \in Docs \ DocsOf(n) : heap'[d] = heap[d]
  /\ \A m \in Nodes \ {n} : outcome'[m] = outcome[m]
  /\ IF pc[w] = "idle" THEN phase = "commit" /\ n \in todo /\ todo' = todo \ {n}
                       ELSE n = node[w] /\ todo' = todo
  /\ pc'[w] # "idle" => outcome' = outcome
  /\ phase' = phase /\ (mutated => mutated')

LEMMA StepFrame ==
  ASSUME TypeInv, DocInv, NEW w \in Workers, Step(w)
  PROVE  Frame(w)
  <1> USE HomeAssumption
  <1>1. /\ pc \in [Workers -> Pcs] /\ node \in [Workers -> Nodes]
        /\ doc \in [Workers -> Docs \cup {NoDoc, EmptyDoc}] /\ staged \in [Workers -> Files]
        /\ disk \in [Paths -> Files] /\ temp \in [Paths -> {"none", "torn", "whole"}]
        /\ bufferDoc \in [Paths -> Docs \cup {NoDoc, EmptyDoc}]
        /\ heap \in [Docs -> [Nodes -> EntryStates]]
        /\ outcome \in [Nodes -> {"pending", "ok", "failed"}]
    BY DEF TypeInv, TypeOK
  <1>2. pc[w] # "idle" /\ doc[w] \notin {NoDoc, EmptyDoc} => doc[w] \in DocsOf(node[w])
    BY DEF DocInv
  <1>3. pc[w] = "open" => doc[w] # NoDoc
    BY DEF TypeInv, HoldsDocument
  <1>4. pc[w] = "fill" => doc[w] \in Docs
    BY DEF TypeInv, HoldsDocument
  <1>5. Frame(w)
    <2>1. ASSUME NEW n \in Nodes, Take(w, n) PROVE Frame(w)
      BY <1>1, <2>1 DEF Take, Goto, Frame, DocsOf, cacheVars, lockVars, runVars
    <2>2. CASE AcquireForRead(w)
      BY <1>1, <2>2 DEF AcquireForRead, Goto, Frame, DocsOf, cacheVars, lockVars, runVars
    <2>3. CASE AcquireCacheForRead(w)
      BY <1>1, <2>3 DEF AcquireCacheForRead, Goto, Frame, DocsOf, cacheVars, lockVars, runVars
    <2>4. CASE LookupHit(w)
      BY <1>1, <2>4 DEF LookupHit, Goto, Frame, DocsOf, cacheVars, lockVars, runVars
    <2>5. CASE LookupMissing(w)
      BY <1>1, <2>5 DEF LookupMissing, Goto, BufferMissing, Frame, DocsOf, cacheVars, lockVars,
         runVars
    <2>6. CASE LookupLoads(w)
      BY <1>1, <2>6 DEF LookupLoads, Goto, LoadFiltered, Frame, DocsOf, cacheVars, lockVars, runVars
    <2>7. CASE LookupRaises(w)
      BY <1>1, <2>7 DEF LookupRaises, Goto, Settle, Frame, DocsOf, cacheVars, lockVars, runVars
    <2>8. CASE StoreOriginal(w)
      BY <1>1, <2>8 DEF StoreOriginal, Goto, LoadUnfiltered, Frame, DocsOf, cacheVars, lockVars,
         runVars
    <2>9. CASE ReturnBuffered(w)
      BY <1>1, <2>9 DEF ReturnBuffered, Goto, Frame, DocsOf, cacheVars, lockVars, runVars
    <2>10. CASE ReturnRaises(w)
      BY <1>1, <2>10 DEF ReturnRaises, Goto, Settle, Frame, DocsOf, cacheVars, lockVars, runVars
    <2>11. CASE OpenEntry(w)
      <3> DEFINE d == IF doc[w] = EmptyDoc THEN node[w] ELSE doc[w]
                 entries == IF doc[w] = EmptyDoc THEN Blank ELSE heap[d]
                 opened == [entries EXCEPT ![node[w]] = IF @ = "absent" THEN "stub" ELSE @]
      <3>1. d \in DocsOf(node[w])
        BY <2>11, <1>2, <1>3 DEF OpenEntry, DocsOf
      <3>2. heap' = [heap EXCEPT ![d] = opened] /\ node' = node
        BY <2>11 DEF OpenEntry
      <3> HIDE DEF d, opened
      <3>3. \A e \in Docs \ DocsOf(node[w]) : heap'[e] = heap[e]
        BY <1>1, <3>1, <3>2
      <3>4. QED
        BY <1>1, <2>11, <3>3 DEF OpenEntry, Goto, Frame, cacheVars, lockVars, runVars
    <2>12. CASE FillEntry(w)
      <3>1. doc[w] \in DocsOf(node[w])
        BY <2>12, <1>2, <1>4, DocsAssumption DEF FillEntry, Docs
      <3>2. QED
        BY <1>1, <2>12, <3>1 DEF FillEntry, Goto, Frame, cacheVars, lockVars, runVars
    <2>13. CASE MarkBuffer(w)
      BY <1>1, <2>13 DEF MarkBuffer, Goto, Frame, DocsOf, cacheVars, lockVars, runVars
    <2>14. CASE MarkOriginal(w)
      BY <1>1, <2>14 DEF MarkOriginal, Goto, Frame, DocsOf, cacheVars, lockVars, runVars
    <2>15. CASE AcquireForWrite(w)
      BY <1>1, <2>15 DEF AcquireForWrite, Goto, Frame, DocsOf, cacheVars, lockVars, runVars
    <2>16. CASE MergePreserved(w)
      BY <1>1, <2>16 DEF MergePreserved, Goto, Frame, DocsOf, cacheVars, lockVars, runVars
    <2>17. CASE DumpUnchanged(w)
      BY <1>1, <2>17 DEF DumpUnchanged, Goto, Frame, DocsOf, cacheVars, lockVars, runVars
    <2>18. CASE DumpDry(w)
      BY <1>1, <2>18 DEF DumpDry, Goto, Settle, Frame, DocsOf, cacheVars, lockVars, runVars
    <2>19. CASE DumpChanged(w)
      BY <1>1, <2>19 DEF DumpChanged, Goto, Frame, DocsOf, cacheVars, lockVars, runVars
    <2>20. CASE DumpRaises(w)
      BY <1>1, <2>20 DEF DumpRaises, Goto, Settle, Frame, DocsOf, cacheVars, lockVars, runVars
    <2>21. CASE WriteTemp(w)
      BY <1>1, <2>21 DEF WriteTemp, Goto, Frame, DocsOf, cacheVars, lockVars, runVars
    <2>22. CASE WriteTempFails(w)
      BY <1>1, <2>22 DEF WriteTempFails, Goto, Frame, DocsOf, cacheVars, lockVars, runVars
    <2>23. CASE Replace(w)
      BY <1>1, <2>23 DEF Replace, Goto, Rename, Frame, DocsOf, cacheVars, lockVars, runVars
    <2>24. CASE ReplaceFails(w)
      BY <1>1, <2>24 DEF ReplaceFails, Goto, Frame, DocsOf, cacheVars, lockVars, runVars
    <2>25. CASE FallbackUnlink(w)
      BY <1>1, <2>25 DEF FallbackUnlink, Goto, Frame, DocsOf, cacheVars, lockVars, runVars
    <2>26. CASE FallbackRename(w)
      BY <1>1, <2>26 DEF FallbackRename, Goto, Rename, Frame, DocsOf, cacheVars, lockVars, runVars
    <2>27. CASE FallbackFails(w)
      BY <1>1, <2>27 DEF FallbackFails, Goto, Frame, DocsOf, cacheVars, lockVars, runVars
    <2>28. CASE CleanUp(w)
      BY <1>1, <2>28 DEF CleanUp, Goto, Settle, Frame, DocsOf, cacheVars, lockVars, runVars
    <2>29. CASE DiscardBuffer(w)
      BY <1>1, <2>29 DEF DiscardBuffer, Goto, Frame, DocsOf, cacheVars, lockVars, runVars
    <2>30. CASE DiscardOriginal(w)
      BY <1>1, <2>30 DEF DiscardOriginal, Goto, Settle, Frame, DocsOf, cacheVars, lockVars, runVars
    <2>31. QED
      BY <2>1, <2>2, <2>3, <2>4, <2>5, <2>6, <2>7, <2>8, <2>9, <2>10, <2>11, <2>12, <2>13, <2>14,
         <2>15, <2>16, <2>17, <2>18, <2>19, <2>20, <2>21, <2>22, <2>23, <2>24, <2>25, <2>26, <2>27,
         <2>28, <2>29, <2>30 DEF Step
  <1>6. QED
    BY <1>5

-----------------------------------------------------------------------------
\* No thread takes a node another one is working on.
LEMMA NextWork == TypeInv /\ DocInv /\ WorkInv /\ [Next]_vars => WorkInv'
  <1> SUFFICES ASSUME TypeInv, DocInv, WorkInv, [Next]_vars PROVE WorkInv'
    OBVIOUS
  <1> USE DEF WorkInv
  <1>0. node \in [Workers -> Nodes] /\ node' \in [Workers -> Nodes] /\ todo \subseteq Nodes
    BY NextType DEF TypeInv, TypeOK
  <1>1. ASSUME NEW w \in Workers, Step(w) PROVE WorkInv'
    <2>1. Frame(w)
      BY <1>1, StepFrame
    <2>2. ASSUME NEW v \in Workers \ {w}, pc'[v] # "idle"
          PROVE  /\ pc'[v] = pc[v] /\ node'[v] = node[v] /\ node'[v] # node'[w]
                 /\ node'[v] \notin todo' /\ outcome'[node'[v]] = "pending"
      BY <1>0, <2>1, <2>2 DEF Frame
    <2>3. node'[w] \notin todo'
      BY <2>1 DEF Frame
    <2>4. pc'[w] # "idle" => outcome'[node'[w]] = "pending"
      BY <2>1 DEF Frame
    <2>5. \A n \in todo' : outcome'[n] = "pending"
      BY <1>0, <2>1, <2>3 DEF Frame
    <2>6. \A u, v \in Workers : pc'[u] # "idle" /\ pc'[v] # "idle" /\ node'[u] = node'[v] => u = v
      BY <2>2
    <2>7. \A v \in Workers : pc'[v] # "idle" => phase' = "commit"
      BY <2>1 DEF Frame
    <2>8. QED
      BY <2>2, <2>3, <2>4, <2>5, <2>6, <2>7
  <1>2. CASE Crash
    BY <1>2 DEF Crash
  <1>3. CASE (\E p \in Paths : Peek(p)) \/ StartCommit \/ Finished \/ UNCHANGED vars
    BY <1>3 DEF Peek, StartCommit, Finished, vars, runVars
  <1>4. QED
    BY <1>1, <1>2, <1>3 DEF Next

\* No thread, and no read before the commit, puts one node's entry or document
\* where another node's belong.
LEMMA NextDoc == OwnFiles /\ TypeInv /\ DocInv /\ WorkInv /\ WriteInv /\ [Next]_vars => DocInv'
  <1> SUFFICES ASSUME OwnFiles, TypeInv, DocInv, WorkInv, WriteInv, [Next]_vars PROVE DocInv'
    OBVIOUS
  <1> USE HomeAssumption
  <1>0. /\ pc \in [Workers -> Pcs] /\ node \in [Workers -> Nodes]
        /\ doc \in [Workers -> Docs \cup {NoDoc, EmptyDoc}]
        /\ disk \in [Paths -> Files]
        /\ bufferDoc \in [Paths -> Docs \cup {NoDoc, EmptyDoc}]
        /\ heap \in [Docs -> [Nodes -> EntryStates]]
    BY DEF TypeInv, TypeOK
  <1>1. ASSUME NEW p \in Paths, NEW d \in Docs, d = p \/ (d \in Nodes /\ Home[d] = p), LoadFiltered(p, d)
        PROVE  /\ \A q \in Paths : bufferDoc'[q] \in {NoDoc, EmptyDoc, q} \cup {n \in Nodes : Home[n] = q}
               /\ \A e \in Docs, n \in Nodes : e \notin DocsOf(n) => heap'[e][n] = "absent"
    <2>1. \A n \in Nodes : d \notin DocsOf(n) => p # Home[n]
      BY <1>1 DEF DocsOf, OwnFiles
    <2>2. \A e \in Docs, n \in Nodes : e \notin DocsOf(n) => heap'[e][n] = "absent"
      BY <1>0, <1>1, <2>1 DEF LoadFiltered, DocInv
    <2>3. bufferDoc'[p] \in {d, EmptyDoc} /\ \A q \in Paths \ {p} : bufferDoc'[q] = bufferDoc[q]
      BY <1>0, <1>1 DEF LoadFiltered, Parsed
    <2>4. QED
      BY <1>1, <2>2, <2>3 DEF DocInv
  <1>2. ASSUME NEW w \in Workers, Step(w) PROVE DocInv'
    <2> DEFINE n == node[w]
               p == Home[n]
    <2>0. Frame(w) /\ n \in Nodes /\ p \in Paths /\ n \in Docs /\ \A v \in Workers \ {w} : pc'[v] = pc[v] /\ node'[v] = node[v] /\ doc'[v] = doc[v]
      BY <1>0, <1>2, StepFrame DEF Frame, Docs
    <2> DEFINE Buffers == \A q \in Paths : bufferDoc'[q] \in {NoDoc, EmptyDoc, q} \cup {k \in Nodes : Home[k] = q}
               Heaps == \A e \in Docs, k \in Nodes : e \notin DocsOf(k) => heap'[e][k] = "absent"
               Disks == \A q \in Paths, k \in Nodes : q # Home[k] => disk'[q].entries[k] = "absent"
               Hand == doc'[w] \in IF pc'[w] = "idle" THEN {NoDoc} ELSE {NoDoc, EmptyDoc} \cup DocsOf(node'[w])
    <2>a. ASSUME Buffers, Heaps, Disks, Hand PROVE DocInv'
      BY <2>0, <2>a DEF DocInv
    <2>b. /\ UNCHANGED bufferDoc => Buffers
          /\ UNCHANGED heap => Heaps
          /\ UNCHANGED disk => Disks
          /\ UNCHANGED <<doc, node>> /\ pc[w] # "idle" /\ pc'[w] # "idle" => Hand
      BY DEF DocInv
    <2> HIDE DEF Buffers, Heaps, Disks, Hand
    <2>1. ASSUME NEW m \in Nodes, Take(w, m) PROVE DocInv'
      <3>1. UNCHANGED <<disk, bufferDoc, heap, doc>> /\ pc[w] = "idle" /\ pc'[w] # "idle"
        BY <1>0, <2>1 DEF Take, cacheVars, Goto
      <3>2. Hand
        BY <3>1 DEF DocInv, Hand
      <3>3. QED
        BY <2>a, <2>b, <3>1, <3>2
    <2>2. CASE \/ AcquireForRead(w) \/ AcquireCacheForRead(w) \/ LookupHit(w) \/ StoreOriginal(w)
               \/ MarkBuffer(w) \/ MarkOriginal(w) \/ AcquireForWrite(w) \/ MergePreserved(w)
               \/ DumpUnchanged(w) \/ DumpChanged(w) \/ WriteTemp(w) \/ WriteTempFails(w)
               \/ ReplaceFails(w) \/ FallbackFails(w) \/ DiscardBuffer(w)
      <3>1. UNCHANGED <<disk, bufferDoc, heap, doc, node>> /\ pc[w] # "idle" /\ pc'[w] # "idle"
        BY <1>0, <2>2 DEF AcquireForRead, AcquireCacheForRead, LookupHit, StoreOriginal, MarkBuffer,
           MarkOriginal, AcquireForWrite, MergePreserved, DumpUnchanged, DumpChanged, WriteTemp,
           WriteTempFails, ReplaceFails, FallbackFails, DiscardBuffer, Goto, cacheVars
      <3>2. QED
        BY <2>a, <2>b, <3>1
    <2>3. CASE \/ LookupRaises(w) \/ ReturnRaises(w) \/ DumpDry(w) \/ DumpRaises(w)
               \/ CleanUp(w) \/ DiscardOriginal(w)
      <3>1. UNCHANGED <<disk, bufferDoc, heap>> /\ pc'[w] = "idle" /\ doc'[w] = NoDoc
        BY <1>0, <2>3 DEF LookupRaises, ReturnRaises, DumpDry, DumpRaises, CleanUp, DiscardOriginal,
           Settle, Goto, cacheVars
      <3>2. Hand
        BY <3>1 DEF Hand
      <3>3. QED
        BY <2>a, <2>b, <3>1, <3>2
    <2>4. CASE LookupMissing(w)
      <3>1. /\ bufferDoc' = [bufferDoc EXCEPT ![p] = EmptyDoc] /\ UNCHANGED <<disk, heap>>
            /\ doc'[w] = EmptyDoc /\ pc'[w] = "open"
        BY <1>0, <2>4 DEF LookupMissing, BufferMissing, Goto
      <3>2. Buffers
        BY <1>0, <2>0, <3>1 DEF DocInv, Buffers
      <3>3. Hand
        BY <3>1 DEF Hand
      <3>4. QED
        BY <2>a, <2>b, <3>1, <3>2, <3>3
    <2>5. CASE LookupLoads(w)
      <3>1. Buffers /\ Heaps
        BY <1>1, <2>0, <2>5 DEF LookupLoads, Buffers, Heaps
      <3>2. UNCHANGED <<disk, doc, node>> /\ pc[w] # "idle" /\ pc'[w] # "idle"
        BY <1>0, <2>5 DEF LookupLoads, Goto
      <3>3. QED
        BY <2>a, <2>b, <3>1, <3>2
    <2>6. CASE ReturnBuffered(w)
      <3>1. /\ doc'[w] = bufferDoc[p] /\ pc'[w] = "open" /\ node' = node
            /\ UNCHANGED <<disk, bufferDoc, heap>>
        BY <1>0, <2>6 DEF ReturnBuffered, Goto
      <3>2. bufferDoc[p] \in {NoDoc, EmptyDoc} \cup DocsOf(n)
        BY <2>0 DEF DocInv, DocsOf, OwnFiles
      <3>3. Hand
        BY <3>1, <3>2 DEF Hand
      <3>4. QED
        BY <2>a, <2>b, <3>1, <3>3
    <2>7. CASE OpenEntry(w)
      <3> DEFINE d == IF doc[w] = EmptyDoc THEN n ELSE doc[w]
                 entries == IF doc[w] = EmptyDoc THEN Blank ELSE heap[d]
      <3>1. d \in DocsOf(n) /\ d \in Docs
        BY <2>0, <2>7 DEF OpenEntry, DocInv, TypeInv, HoldsDocument, DocsOf, Docs
      <3>2. entries \in [Nodes -> EntryStates] /\ \A k \in Nodes : d \notin DocsOf(k) => entries[k] = "absent"
        BY <1>0, <3>1, FileTypes DEF DocInv, Blank
      <3>3. heap' = [heap EXCEPT ![d] = [entries EXCEPT ![n] = IF @ = "absent" THEN "stub" ELSE @]]
        BY <2>7 DEF OpenEntry
      <3>4. doc'[w] = d /\ pc'[w] = "fill" /\ node' = node /\ UNCHANGED <<disk, bufferDoc>>
        BY <1>0, <2>7 DEF OpenEntry, Goto, cacheVars
      <3> HIDE DEF d, entries
      <3>5. Heaps
        <4> DEFINE opened == [entries EXCEPT ![n] = IF @ = "absent" THEN "stub" ELSE @]
        <4>1. \A k \in Nodes : k # n => opened[k] = entries[k]
          BY <2>0, <3>2
        <4>2. heap' = [heap EXCEPT ![d] = opened]
          BY <3>3
        <4> HIDE DEF opened
        <4>3. \A e \in Docs : heap'[e] = IF e = d THEN opened ELSE heap[e]
          BY <1>0, <4>2
        <4> SUFFICES ASSUME NEW e \in Docs, NEW k \in Nodes, e \notin DocsOf(k)
                     PROVE  heap'[e][k] = "absent"
          BY DEF Heaps
        <4>4. CASE e # d
          BY <4>3, <4>4 DEF DocInv
        <4>5. CASE e = d
          <5>1. k # n
            BY <3>1, <4>5
          <5>2. QED
            BY <3>2, <4>1, <4>3, <4>5, <5>1
        <4>6. QED
          BY <4>4, <4>5
      <3>6. Hand
        BY <3>1, <3>4 DEF Hand
      <3>7. QED
        BY <2>a, <2>b, <3>4, <3>5, <3>6
    <2>8. CASE FillEntry(w)
      <3>1. doc[w] \in DocsOf(n) /\ doc[w] \in Docs
        <4>1. pc[w] = "fill"
          BY <2>8 DEF FillEntry
        <4>2. doc[w] \in {NoDoc, EmptyDoc} \cup DocsOf(n)
          BY <4>1 DEF DocInv
        <4>3. doc[w] \in Docs
          BY <4>1 DEF TypeInv, HoldsDocument
        <4>4. NoDoc \notin Docs /\ EmptyDoc \notin Docs
          BY DocsAssumption DEF Docs
        <4>5. QED
          BY <4>2, <4>3, <4>4
      <3>2. heap' = [heap EXCEPT ![doc[w]][n] = "new"]
        BY <2>8 DEF FillEntry
      <3>3. UNCHANGED <<disk, bufferDoc, doc, node>> /\ pc[w] # "idle" /\ pc'[w] # "idle"
        BY <1>0, <2>8 DEF FillEntry, Goto, cacheVars
      <3>4. Heaps
        BY <1>0, <2>0, <3>1, <3>2 DEF DocInv, Heaps
      <3>5. QED
        BY <2>a, <2>b, <3>3, <3>4
    <2>9. CASE Replace(w) \/ FallbackRename(w) \/ FallbackUnlink(w)
      <3>1. /\ UNCHANGED <<bufferDoc, heap, doc, node>> /\ pc[w] # "idle" /\ pc'[w] # "idle"
            /\ disk' \in {[disk EXCEPT ![p] = staged[w]], [disk EXCEPT ![p] = Torn],
                          [disk EXCEPT ![p] = NoFile]}
        BY <1>0, <2>9 DEF Replace, FallbackRename, FallbackUnlink, Rename, Goto, cacheVars
      <3>2. staged[w].entries = Only(n)
        BY <2>9 DEF Replace, FallbackRename, FallbackUnlink, WriteInv, Written, RenamePcs
      <3>3. \A k \in Nodes : p # Home[k] =>
              /\ staged[w].entries[k] = "absent" /\ Torn.entries[k] = "absent"
              /\ NoFile.entries[k] = "absent"
        BY <3>2 DEF Only, Torn, NoFile, Blank
      <3>4. Disks
        BY <1>0, <2>0, <3>1, <3>3 DEF DocInv, Disks
      <3>5. QED
        BY <2>a, <2>b, <3>1, <3>4
    <2>10. QED
      BY <1>2, <2>1, <2>2, <2>3, <2>4, <2>5, <2>6, <2>7, <2>8, <2>9 DEF Step
  <1>3. ASSUME NEW p \in Paths, Peek(p) PROVE DocInv'
    <2>1. UNCHANGED <<disk, pc, node, doc>> /\ p \in Docs
      BY <1>3 DEF Peek, Docs
    <2>2. /\ \A q \in Paths : bufferDoc'[q] \in {NoDoc, EmptyDoc, q} \cup {n \in Nodes : Home[n] = q}
          /\ \A e \in Docs, n \in Nodes : e \notin DocsOf(n) => heap'[e][n] = "absent"
      <3>1. CASE LoadFiltered(p, p)
        BY <1>1, <2>1, <3>1
      <3>2. CASE UNCHANGED heap /\ (UNCHANGED bufferDoc \/ BufferMissing(p))
        BY <1>0, <3>2 DEF DocInv, BufferMissing
      <3>3. QED
        BY <1>3, <3>1, <3>2 DEF Peek
    <2>3. QED
      BY <2>1, <2>2 DEF DocInv
  <1>4. CASE Crash
    BY <1>4 DEF Crash, DocInv, Blank
  <1>5. CASE StartCommit \/ Finished \/ UNCHANGED vars
    BY <1>5 DEF StartCommit, Finished, vars, cacheVars, DocInv
  <1>6. QED
    BY <1>2, <1>3, <1>4, <1>5 DEF Next

-----------------------------------------------------------------------------
\* A document of one node is no document of another.
LEMMA DocsApart ==
  ASSUME OwnFiles, NEW m \in Nodes, NEW n \in Nodes, m # n
  PROVE  DocsOf(m) \cap DocsOf(n) = {} /\ Home[m] # Home[n]
BY HomeAssumption, DocsAssumption DEF OwnFiles, DocsOf

\* What a thread past "fill" holds is its node's entry, current, and no other.
LEMMA FilledDocument ==
  ASSUME OwnFiles, TypeInv, DocInv, NEW w \in Workers, pc[w] \in FilledPcs, Written(w)
  PROVE  /\ doc[w] \in Docs \cap DocsOf(node[w])
         /\ heap[doc[w]] = Only(node[w])
  <1>1. node[w] \in Nodes /\ heap \in [Docs -> [Nodes -> EntryStates]] /\ doc[w] \in Docs
    BY DEF TypeInv, TypeOK, HoldsDocument, FilledPcs
  <1>2. doc[w] \in {NoDoc, EmptyDoc} \cup DocsOf(node[w])
    BY DEF DocInv, FilledPcs, WritePcs
  <1>3. NoDoc \notin Docs /\ EmptyDoc \notin Docs
    BY DocsAssumption DEF Docs
  <1>4. \A k \in Nodes : k # node[w] => heap[doc[w]][k] = "absent"
    BY <1>1, <1>2, <1>3, DocsApart DEF DocInv
  <1>5. heap[doc[w]][node[w]] = "new"
    BY DEF Written
  <1>6. heap[doc[w]] = Only(node[w])
    BY <1>1, <1>4, <1>5 DEF Only
  <1>7. QED
    BY <1>1, <1>2, <1>3, <1>6

\* What a thread reports and writes is its node's, and nobody undoes it.
LEMMA NextWrite ==
  OwnFiles /\ TypeInv /\ DocInv /\ WorkInv /\ WriteInv /\ [Next]_vars => WriteInv'
  <1> SUFFICES ASSUME OwnFiles, TypeInv, DocInv, WorkInv, WriteInv, [Next]_vars PROVE WriteInv'
    OBVIOUS
  <1> USE HomeAssumption
  <1>0. /\ TypeInv' /\ WorkInv' /\ dryRun' = dryRun /\ dryRun \in BOOLEAN
    BY NextType, NextCached, NextHoldsDocument, NextWork DEF TypeInv, TypeOK, Next, vars
  <1>a. /\ pc \in [Workers -> Pcs] /\ node \in [Workers -> Nodes] /\ node' \in [Workers -> Nodes]
        /\ staged \in [Workers -> Files] /\ disk \in [Paths -> Files]
        /\ temp \in [Paths -> {"none", "torn", "whole"}]
        /\ heap \in [Docs -> [Nodes -> EntryStates]]
        /\ outcome \in [Nodes -> {"pending", "ok", "failed"}]
    BY <1>0 DEF TypeInv, TypeOK
  <1>1. ASSUME NEW w \in Workers, Step(w) PROVE WriteInv'
    <2> DEFINE n == node'[w]
               p == Home[n]
               Reported == outcome'[n] = "ok" =>
                 IF dryRun THEN disk'[p].entries[n] = "new" \/ mutated'
                 ELSE disk'[p].state # "missing" /\ disk'[p].entries[n] = "new"
               WholeFile == disk'[p].state # "torn" /\ \A k \in Nodes : disk'[p].entries[k] # "stub"
    <2>0. Frame(w) /\ n \in Nodes /\ p \in Paths
      BY <1>1, <1>a, StepFrame
    <2>1. ASSUME NEW v \in Workers \ {w} PROVE Written(v)'
      <3>1. pc'[v] = pc[v] /\ node'[v] = node[v] /\ doc'[v] = doc[v] /\ staged'[v] = staged[v]
        BY <2>0 DEF Frame
      <3>2. CASE pc[v] = "idle"
        BY <3>1, <3>2 DEF Written, FilledPcs, WritePcs, RenamePcs
      <3>3. CASE pc[v] # "idle"
        <4>1. node[v] \in Nodes /\ node[v] # n
          BY <1>a, <2>0, <3>3 DEF Frame, WorkInv
        <4>2. Home[node[v]] \in Paths \ {p} /\ DocsOf(node[v]) \cap DocsOf(n) = {}
          BY <2>0, <4>1, DocsApart
        <4>3. disk'[Home[node[v]]] = disk[Home[node[v]]] /\ temp'[Home[node[v]]] = temp[Home[node[v]]]
          BY <2>0, <4>2 DEF Frame
        <4>4. Written(v)
          BY DEF WriteInv
        <4>5. pc[v] \in FilledPcs => heap'[doc[v]] = heap[doc[v]]
          BY <2>0, <4>2, <4>4, FilledDocument DEF Frame
        <4>6. QED
          BY <3>1, <4>3, <4>4, <4>5 DEF Written, Exists
      <3>4. QED
        BY <3>2, <3>3
    <2>2. ASSUME Written(w)', Reported, WholeFile PROVE WriteInv'
      <3>1. DiskIsWhole'
        BY <2>0, <2>2 DEF Frame, WriteInv, DiskIsWhole
      <3>2. SyncedIsOnDisk'
        <4> SUFFICES ASSUME NEW m \in Nodes, outcome'[m] = "ok", ~dryRun
                     PROVE  Exists(Home[m])' /\ disk'[Home[m]].entries[m] = "new"
          BY <1>0 DEF SyncedIsOnDisk
        <4>1. CASE m = n
          BY <2>2, <4>1 DEF Exists
        <4>2. CASE m # n
          <5>1. outcome'[m] = outcome[m] /\ disk'[Home[m]] = disk[Home[m]]
            BY <2>0, <4>2, DocsApart DEF Frame
          <5>2. QED
            BY <5>1 DEF WriteInv, ReportsAreTrue, SyncedIsOnDisk, Exists
        <4>3. QED
          BY <4>1, <4>2
      <3>3. DryRunCountsChanges'
        <4> SUFFICES ASSUME NEW m \in Nodes, outcome'[m] = "ok", dryRun, disk'[Home[m]].entries[m] # "new"
                     PROVE  mutated'
          BY <1>0 DEF DryRunCountsChanges
        <4>1. CASE m = n
          BY <2>2, <4>1
        <4>2. CASE m # n
          <5>1. outcome'[m] = outcome[m] /\ disk'[Home[m]] = disk[Home[m]] /\ (mutated => mutated')
            BY <2>0, <4>2, DocsApart DEF Frame
          <5>2. QED
            BY <5>1 DEF WriteInv, ReportsAreTrue, DryRunCountsChanges
        <4>3. QED
          BY <4>1, <4>2
      <3>4. QED
        BY <2>1, <2>2, <3>1, <3>2, <3>3 DEF WriteInv, ReportsAreTrue
    <2>3. ASSUME pc'[w] # "idle" PROVE Reported
      BY <1>0, <2>3 DEF WorkInv
    <2>4. ASSUME disk' = disk PROVE WholeFile
      BY <2>0, <2>4 DEF WriteInv, DiskIsWhole
    <2>5. Written(w)
      BY DEF WriteInv
    <2> HIDE DEF Reported, WholeFile
    <2>6. ASSUME NEW m \in Nodes, Take(w, m) PROVE WriteInv'
      <3>1. disk' = disk /\ pc'[w] = "read"
        BY <1>a, <2>6 DEF Take, Goto
      <3>2. QED
        BY <2>2, <2>3, <2>4, <3>1 DEF Written, FilledPcs, WritePcs, RenamePcs
    <2>7. CASE \/ AcquireForRead(w) \/ AcquireCacheForRead(w) \/ LookupHit(w) \/ LookupMissing(w)
               \/ LookupLoads(w) \/ StoreOriginal(w) \/ ReturnBuffered(w) \/ OpenEntry(w)
      <3>1. disk' = disk /\ pc'[w] \in {"read_cache", "lookup", "return", "open", "load_original", "fill"}
        BY <1>a, <2>7 DEF AcquireForRead, AcquireCacheForRead, LookupHit, LookupMissing,
           LookupLoads, StoreOriginal, ReturnBuffered, OpenEntry, Goto
      <3>2. QED
        BY <2>2, <2>3, <2>4, <3>1 DEF Written, FilledPcs, WritePcs, RenamePcs
    <2>8. CASE LookupRaises(w) \/ ReturnRaises(w) \/ DumpRaises(w) \/ CleanUp(w)
      <3>1. disk' = disk /\ pc'[w] = "idle" /\ node' = node /\ outcome' = [outcome EXCEPT ![node[w]] = "failed"]
        BY <1>a, <2>8 DEF LookupRaises, ReturnRaises, DumpRaises, CleanUp, Settle, Goto
      <3>2. Reported
        BY <1>a, <3>1 DEF Reported
      <3>3. QED
        BY <2>2, <2>4, <3>1, <3>2 DEF Written, FilledPcs, WritePcs, RenamePcs
    <2>9. CASE FillEntry(w)
      <3>1. /\ disk' = disk /\ pc'[w] = "mark_buffer" /\ node' = node /\ doc' = doc
            /\ heap' = [heap EXCEPT ![doc[w]][node[w]] = "new"] /\ doc[w] \in Docs
        BY <1>a, <2>9 DEF FillEntry, Goto, TypeInv, HoldsDocument
      <3>2. heap'[doc'[w]][node'[w]] = "new"
        BY <1>a, <3>1
      <3>3. QED
        BY <2>2, <2>3, <2>4, <3>1, <3>2 DEF Written, FilledPcs, WritePcs, RenamePcs
    <2>10. CASE \/ MarkBuffer(w) \/ MarkOriginal(w) \/ AcquireForWrite(w) \/ MergePreserved(w)
                \/ WriteTempFails(w) \/ FallbackFails(w)
      <3>1. /\ disk' = disk /\ heap' = heap /\ node' = node /\ doc' = doc
            /\ pc[w] \in FilledPcs /\ pc'[w] \in {"mark_original", "write", "merge", "dump", "cleanup"}
        BY <1>a, <2>10 DEF MarkBuffer, MarkOriginal, AcquireForWrite, MergePreserved,
           WriteTempFails, FallbackFails, Goto, FilledPcs, WritePcs, RenamePcs
      <3>2. QED
        BY <2>2, <2>3, <2>4, <2>5, <3>1 DEF Written, FilledPcs, WritePcs, RenamePcs
    <2>11. CASE DumpUnchanged(w)
      <3>1. /\ disk' = disk /\ heap' = heap /\ node' = node /\ doc' = doc /\ pc[w] = "dump"
            /\ pc'[w] = "discard_buffer" /\ disk[p] = Whole(heap[doc[w]], staged[w].kept)
        BY <1>a, <2>11 DEF DumpUnchanged, Modified, Goto
      <3>2. heap[doc[w]][n] = "new"
        BY <2>5, <3>1 DEF Written, FilledPcs, WritePcs
      <3>3. disk'[p].state = "whole" /\ disk'[p].entries[n] = "new"
        BY <3>1, <3>2 DEF Whole
      <3>4. QED
        BY <2>2, <2>3, <2>4, <3>1, <3>2, <3>3 DEF Written, FilledPcs, WritePcs, RenamePcs, Exists
    <2>12. CASE DumpDry(w)
      <3>1. /\ disk' = disk /\ node' = node /\ pc[w] = "dump" /\ pc'[w] = "idle" /\ dryRun
            /\ mutated' = (mutated \/ Modified(w) # disk[p])
        BY <1>a, <2>12 DEF DumpDry, Settle, Goto
      <3>2. Modified(w).entries[n] = "new"
        BY <2>5, <3>1 DEF Modified, Whole, Written, FilledPcs, WritePcs
      <3>3. Reported
        BY <3>1, <3>2 DEF Reported
      <3>4. QED
        BY <2>2, <2>4, <3>1, <3>3 DEF Written, FilledPcs, WritePcs, RenamePcs
    <2>13. CASE DumpChanged(w)
      <3>1. /\ disk' = disk /\ heap' = heap /\ node' = node /\ doc' = doc /\ pc[w] = "dump"
            /\ pc'[w] = "temp" /\ staged'[w] = Whole(heap[doc[w]], staged[w].kept)
        BY <1>a, <2>13 DEF DumpChanged, Modified, Goto
      <3>2. heap[doc[w]] = Only(n) /\ heap[doc[w]][n] = "new"
        BY <2>5, <3>1, FilledDocument DEF FilledPcs, WritePcs, Written
      <3>3. staged'[w].state = "whole" /\ staged'[w].entries = Only(n)
        BY <3>1, <3>2 DEF Whole
      <3>4. QED
        BY <2>2, <2>3, <2>4, <3>1, <3>2, <3>3 DEF Written, FilledPcs, WritePcs, RenamePcs
    <2>14. CASE WriteTemp(w)
      <3>1. /\ disk' = disk /\ heap' = heap /\ node' = node /\ doc' = doc /\ staged' = staged
            /\ pc[w] = "temp" /\ pc'[w] = "replace" /\ temp'[p] = "whole"
        BY <1>a, <2>0, <2>14 DEF WriteTemp, Goto
      <3>2. QED
        BY <2>2, <2>3, <2>4, <2>5, <3>1 DEF Written, FilledPcs, WritePcs, RenamePcs
    <2>15. CASE ReplaceFails(w)
      <3>1. /\ disk' = disk /\ heap' = heap /\ node' = node /\ doc' = doc /\ staged' = staged
            /\ temp' = temp /\ pc[w] = "replace" /\ pc'[w] = "fallback_unlink"
        BY <1>a, <2>15 DEF ReplaceFails, Goto
      <3>2. QED
        BY <2>2, <2>3, <2>4, <2>5, <3>1 DEF Written, FilledPcs, WritePcs, RenamePcs
    <2>16. CASE FallbackUnlink(w)
      <3>1. /\ disk'[p] = NoFile /\ heap' = heap /\ node' = node /\ doc' = doc /\ staged' = staged
            /\ temp' = temp /\ pc[w] = "fallback_unlink" /\ pc'[w] = "fallback_rename"
        BY <1>a, <2>0, <2>16 DEF FallbackUnlink, Goto
      <3>2. WholeFile
        BY <3>1 DEF WholeFile, NoFile, Blank
      <3>3. QED
        BY <2>2, <2>3, <2>5, <3>1, <3>2 DEF Written, FilledPcs, WritePcs, RenamePcs
    <2>17. CASE Replace(w) \/ FallbackRename(w)
      <3>1. /\ disk' = [disk EXCEPT ![p] = IF temp[p] = "whole" THEN staged[w] ELSE Torn]
            /\ heap' = heap /\ node' = node /\ doc' = doc
            /\ pc[w] \in {"replace", "fallback_rename"} /\ pc'[w] = "discard_buffer"
        BY <1>a, <2>0, <2>17 DEF Replace, FallbackRename, Rename, Goto
      <3>2. temp[p] = "whole" /\ staged[w].state = "whole" /\ staged[w].entries = Only(n)
        BY <2>5, <3>1 DEF Written, RenamePcs
      <3>3. disk'[p].state = "whole" /\ disk'[p].entries = Only(n)
        BY <1>a, <2>0, <3>1, <3>2
      <3>4. WholeFile /\ disk'[p].entries[n] = "new" /\ disk'[p].state # "missing"
        BY <2>0, <3>3 DEF WholeFile, Only
      <3>5. QED
        BY <2>2, <2>3, <2>5, <3>1, <3>4 DEF Written, FilledPcs, WritePcs, RenamePcs, Exists
    <2>18. CASE DiscardBuffer(w)
      <3>1. /\ disk' = disk /\ heap' = heap /\ node' = node /\ doc' = doc
            /\ pc[w] = "discard_buffer" /\ pc'[w] = "discard_original"
        BY <1>a, <2>18 DEF DiscardBuffer, Goto
      <3>2. QED
        BY <2>2, <2>3, <2>4, <2>5, <3>1 DEF Written, FilledPcs, WritePcs, RenamePcs, Exists
    <2>19. CASE DiscardOriginal(w)
      <3>1. /\ disk' = disk /\ node' = node /\ pc[w] = "discard_original" /\ pc'[w] = "idle"
        BY <1>a, <2>19 DEF DiscardOriginal, Settle, Goto
      <3>2. disk'[p].state # "missing" /\ disk'[p].entries[n] = "new"
        BY <2>5, <3>1 DEF Written, Exists
      <3>3. Reported
        BY <3>2 DEF Reported
      <3>4. QED
        BY <2>2, <2>4, <3>1, <3>3 DEF Written, FilledPcs, WritePcs, RenamePcs
    <2>20. QED
      BY <1>1, <2>6, <2>7, <2>8, <2>9, <2>10, <2>11, <2>12, <2>13, <2>14, <2>15, <2>16, <2>17,
         <2>18, <2>19 DEF Step
  <1>2. ASSUME UNCHANGED <<disk, pc, outcome, mutated>>,
               \A w \in Workers : pc[w] = "idle" \/ UNCHANGED <<heap, temp, node, doc, staged>>
        PROVE  WriteInv'
    <2>1. \A w \in Workers : Written(w)'
      BY <1>2 DEF WriteInv, Written, Exists, FilledPcs, WritePcs, RenamePcs
    <2>2. DiskIsWhole' /\ ReportsAreTrue'
      BY <1>0, <1>2 DEF WriteInv, DiskIsWhole, ReportsAreTrue, SyncedIsOnDisk, DryRunCountsChanges,
         Exists
    <2>3. QED
      BY <2>1, <2>2 DEF WriteInv
  <1>3. ASSUME NEW q \in Paths, Peek(q) PROVE WriteInv'
    <2>1. \A w \in Workers : pc[w] = "idle"
      BY <1>3 DEF Peek, WorkInv
    <2>2. QED
      BY <1>2, <1>3, <2>1 DEF Peek
  <1>4. CASE Crash
    <2>1. \A w \in Workers : Written(w)'
      BY <1>4 DEF Crash, Written, FilledPcs, WritePcs, RenamePcs
    <2>2. DiskIsWhole' /\ ReportsAreTrue'
      BY <1>4 DEF Crash, WriteInv, DiskIsWhole, ReportsAreTrue, SyncedIsOnDisk, DryRunCountsChanges
    <2>3. QED
      BY <2>1, <2>2 DEF WriteInv
  <1>5. CASE StartCommit \/ Finished \/ UNCHANGED vars
    BY <1>2, <1>5 DEF StartCommit, Finished, vars, runVars
  <1>6. QED
    BY <1>1, <1>3, <1>4, <1>5 DEF Next

-----------------------------------------------------------------------------
OwnInv == TypeInv /\ WorkInv /\ DocInv /\ WriteInv

LEMMA InitOwn == Init => WorkInv /\ DocInv /\ WriteInv
  <1> SUFFICES ASSUME Init PROVE WorkInv /\ DocInv /\ WriteInv
    OBVIOUS
  <1>1. \A p \in Paths : /\ disk[p].state # "torn"
                         /\ \A n \in Nodes : /\ disk[p].entries[n] \in {"absent", "old"}
                                             /\ p # Home[n] => disk[p].entries[n] = "absent"
    <2>1. ASSUME NEW p \in Paths, NEW f \in InitialFiles(p)
          PROVE  /\ f.state # "torn"
                 /\ \A n \in Nodes : /\ f.entries[n] \in {"absent", "old"}
                                     /\ p # Home[n] => f.entries[n] = "absent"
      BY DEF InitialFiles, NoFile, Whole, Blank
    <2>2. QED
      BY <2>1 DEF Init
  <1>2. WorkInv
    BY DEF Init, FreshProcess, WorkInv
  <1>3. DocInv
    BY <1>1 DEF Init, FreshProcess, DocInv, Blank
  <1>4. WriteInv
    BY <1>1 DEF Init, FreshProcess, WriteInv, Written, FilledPcs, WritePcs, RenamePcs, DiskIsWhole,
       ReportsAreTrue, SyncedIsOnDisk, DryRunCountsChanges
  <1>5. QED
    BY <1>2, <1>3, <1>4

LEMMA OwnInvHolds == ASSUME OwnFiles PROVE Spec => []OwnInv
  <1>1. Init => WorkInv /\ DocInv /\ WriteInv
    BY InitOwn
  <1>2. TypeInv /\ WorkInv /\ DocInv /\ WriteInv /\ [Next]_vars => (WorkInv /\ DocInv /\ WriteInv)'
    BY NextWork, NextDoc, NextWrite
  <1>3. QED
    BY <1>1, <1>2, TypeInvHolds, PTL DEF Spec, OwnInv

\* Whatever the cache size, whatever raises (reads, temporary writes, unlinks,
\* os.replace and its fallback), in real runs and in dry ones: a node reported
\* as synchronised is, and a dry run that would change a file says so.
THEOREM ReportsHold == ASSUME OwnFiles PROVE Spec => []ReportsAreTrue
  <1>1. OwnInv => ReportsAreTrue
    BY DEF OwnInv, WriteInv
  <1>2. QED
    BY <1>1, OwnInvHolds, PTL

-----------------------------------------------------------------------------
(* With room in the cache: what a thread read stays cached until it is     *)
(* discarded                                                               *)

\* What a step takes out of the buffer cache is its own node's entry.
LEMMA OthersStayCached ==
  ASSUME CacheFits, TypeInv, CachesSound, NEW w \in Workers, Step(w),
         NEW q \in Paths, Holds(buffer, q), ~(pc[w] = "discard_buffer" /\ q = Home[node[w]])
  PROVE  Holds(buffer', q)
  <1> DEFINE p == Home[node[w]]
  <1>0. p \in Paths /\ buffer \in Caches
    BY HomeAssumption DEF TypeInv, TypeOK
  <1>1. Sound(buffer)
    BY DEF CachesSound
  <1>2. CASE LookupMissing(w)
    <2>1. buffer' = SetDefault(buffer, p)
      BY <1>2 DEF LookupMissing, BufferMissing
    <2>2. QED
      BY <1>0, <1>1, <2>1, MethodsKeepAll
  <1>3. CASE LookupLoads(w)
    <2>1. buffer' = SetItem(buffer, p)
      BY <1>3 DEF LookupLoads, LoadFiltered
    <2>2. QED
      BY <1>0, <1>1, <2>1, MethodsKeepAll
  <1>4. CASE ReturnBuffered(w) \/ MarkBuffer(w)
    <2>1. (Holds(buffer, p) /\ buffer' = GetItem(buffer, p)) \/ buffer' = MarkDirty(buffer, p)
      BY <1>4 DEF ReturnBuffered, MarkBuffer
    <2>2. QED
      BY <1>0, <2>1, MethodsKeys
  <1>5. CASE DiscardBuffer(w)
    <2>1. buffer' = Discard(buffer, p) /\ q # p
      BY <1>5 DEF DiscardBuffer
    <2>2. QED
      BY <1>0, <2>1, DiscardFacts
  <1>6. CASE ~(LookupMissing(w) \/ LookupLoads(w) \/ ReturnBuffered(w) \/ MarkBuffer(w) \/ DiscardBuffer(w))
    <2>1. buffer' = buffer
      BY <1>6 DEF Step, Take, AcquireForRead, AcquireCacheForRead, LookupHit, LookupRaises,
         ReturnRaises, StoreOriginal, OpenEntry, FillEntry, MarkOriginal, AcquireForWrite,
         MergePreserved, DumpUnchanged, DumpDry, DumpChanged, DumpRaises, WriteTemp, WriteTempFails,
         Replace, ReplaceFails, FallbackUnlink, FallbackRename, FallbackFails, CleanUp,
         DiscardOriginal, cacheVars
    <2>2. QED
      BY <2>1
  <1>7. QED
    BY <1>2, <1>3, <1>4, <1>5, <1>6

\* A step that ends behind a read was there before, or has just cached its entry.
LEMMA ReadCaches ==
  ASSUME TypeInv, HeldInv, NEW w \in Workers, Step(w), pc'[w] \in ReadDonePcs
  PROVE  /\ node'[w] = node[w] /\ pc[w] # "discard_buffer" /\ pc[w] # "idle"
         /\ Holds(buffer, Home[node[w]]) \/ Holds(buffer', Home[node[w]])
  <1> DEFINE p == Home[node[w]]
  <1>0. p \in Paths /\ buffer \in Caches /\ pc \in [Workers -> Pcs]
    BY HomeAssumption DEF TypeInv, TypeOK
  <1>1. CASE LookupMissing(w) \/ LookupLoads(w)
    <2>1. /\ ~Holds(buffer, p) /\ buffer' \in {SetDefault(buffer, p), SetItem(buffer, p)}
          /\ node' = node /\ pc[w] = "lookup"
      BY <1>1 DEF LookupMissing, LookupLoads, BufferMissing, LoadFiltered
    <2>2. Holds(buffer', p)
      BY <1>0, <2>1, InsertFacts DEF SetDefault, SetItem
    <2>3. QED
      BY <2>1, <2>2
  <1>2. CASE LookupHit(w)
    BY <1>2 DEF LookupHit
  <1>3. CASE pc[w] \in ReadDonePcs \ {"discard_buffer"} /\ ~(\E n \in Nodes : Take(w, n))
    <2>1. node' = node
      BY <1>3 DEF Step, AcquireForRead, AcquireCacheForRead, LookupHit, LookupMissing, LookupLoads,
         LookupRaises, ReturnBuffered, ReturnRaises, StoreOriginal, OpenEntry, FillEntry,
         MarkBuffer, MarkOriginal, AcquireForWrite, MergePreserved, DumpUnchanged, DumpDry,
         DumpChanged, DumpRaises, WriteTemp, WriteTempFails, Replace, ReplaceFails, FallbackUnlink,
         FallbackRename, FallbackFails, CleanUp, DiscardBuffer, DiscardOriginal
    <2>2. QED
      BY <1>3, <2>1 DEF HeldInv, ReadDonePcs, RenamePcs
  <1>4. CASE \/ pc[w] \notin ReadDonePcs \ {"discard_buffer"} /\ pc[w] # "lookup"
           \/ \E n \in Nodes : Take(w, n)
    <2>1. pc'[w] \in {"read", "read_cache", "lookup", "discard_original", "idle"}
      BY <1>0, <1>4 DEF Step, Take, AcquireForRead, AcquireCacheForRead, LookupHit, LookupMissing,
         LookupLoads, LookupRaises, ReturnBuffered, ReturnRaises, StoreOriginal, OpenEntry,
         FillEntry, MarkBuffer, MarkOriginal, AcquireForWrite, MergePreserved, DumpUnchanged,
         DumpDry, DumpChanged, DumpRaises, WriteTemp, WriteTempFails, Replace, ReplaceFails,
         FallbackUnlink, FallbackRename, FallbackFails, CleanUp, DiscardBuffer, DiscardOriginal,
         Goto, Settle, ReadDonePcs, RenamePcs
    <2>2. QED
      BY <2>1 DEF ReadDonePcs, RenamePcs
  <1>5. CASE pc[w] = "lookup" /\ ~(LookupMissing(w) \/ LookupLoads(w) \/ LookupHit(w))
    <2>1. LookupRaises(w)
      BY <1>5 DEF Step, Take, AcquireForRead, AcquireCacheForRead, ReturnBuffered, ReturnRaises,
         StoreOriginal, OpenEntry, FillEntry, MarkBuffer, MarkOriginal, AcquireForWrite,
         MergePreserved, DumpUnchanged, DumpDry, DumpChanged, DumpRaises, WriteTemp, WriteTempFails,
         Replace, ReplaceFails, FallbackUnlink, FallbackRename, FallbackFails, CleanUp,
         DiscardBuffer, DiscardOriginal
    <2>2. pc'[w] = "idle"
      BY <1>0, <2>1 DEF LookupRaises, Settle, Goto
    <2>3. QED
      BY <2>2 DEF ReadDonePcs, RenamePcs
  <1>6. QED
    BY <1>1, <1>2, <1>3, <1>4, <1>5

LEMMA NextHeld ==
  OwnFiles /\ CacheFits /\ TypeInv /\ CachesSound /\ DocInv /\ WorkInv /\ HeldInv /\ [Next]_vars => HeldInv'
  <1> SUFFICES ASSUME OwnFiles, CacheFits, TypeInv, CachesSound, DocInv, WorkInv, HeldInv, [Next]_vars
               PROVE  HeldInv'
    OBVIOUS
  <1>0. /\ pc \in [Workers -> Pcs] /\ node \in [Workers -> Nodes]
        /\ \A v \in Workers : Home[node[v]] \in Paths
    BY HomeAssumption DEF TypeInv, TypeOK
  <1>1. ASSUME NEW w \in Workers, Step(w) PROVE HeldInv'
    <2> SUFFICES ASSUME NEW v \in Workers, pc'[v] \in ReadDonePcs
                 PROVE  Holds(buffer', Home[node'[v]])
      BY DEF HeldInv
    <2>1. CASE v = w
      <3>1. /\ node'[w] = node[w] /\ pc[w] # "discard_buffer"
            /\ Holds(buffer, Home[node[w]]) \/ Holds(buffer', Home[node[w]])
        BY <1>1, <2>1, ReadCaches
      <3>2. QED
        BY <1>0, <1>1, <2>1, <3>1, OthersStayCached
    <2>2. CASE v # w
      <3>1. pc'[v] = pc[v] /\ node'[v] = node[v]
        BY <1>1, <2>2, StepFrame DEF Frame
      <3>2. Holds(buffer, Home[node[v]]) /\ pc[v] # "idle"
        BY <3>1 DEF HeldInv, ReadDonePcs, RenamePcs
      <3>3. pc[w] = "discard_buffer" => Home[node[v]] # Home[node[w]]
        BY <1>0, <2>2, <3>2 DEF WorkInv, OwnFiles
      <3>4. QED
        BY <1>0, <1>1, <3>1, <3>2, <3>3, OthersStayCached
    <2>3. QED
      BY <2>1, <2>2
  <1>2. ASSUME NEW q \in Paths, Peek(q) PROVE HeldInv'
    <2>1. \A w \in Workers : pc'[w] = "idle"
      BY <1>2 DEF Peek, WorkInv
    <2>2. QED
      BY <2>1 DEF HeldInv, ReadDonePcs, RenamePcs
  <1>3. CASE Crash
    BY <1>3 DEF Crash, HeldInv, ReadDonePcs, RenamePcs
  <1>4. CASE StartCommit \/ Finished \/ UNCHANGED vars
    BY <1>4 DEF StartCommit, Finished, vars, cacheVars, HeldInv
  <1>5. QED
    BY <1>1, <1>2, <1>3, <1>4 DEF Next

LEMMA HeldInvHolds == ASSUME OwnFiles, CacheFits PROVE Spec => []HeldInv
  <1>1. Init => HeldInv
    BY DEF Init, FreshProcess, HeldInv, ReadDonePcs, RenamePcs
  <1>2. TypeInv /\ CachesSound /\ OwnInv /\ HeldInv /\ [Next]_vars => HeldInv'
    BY NextHeld DEF OwnInv
  <1>3. QED
    BY <1>1, <1>2, TypeInvHolds, SoundInvHolds, OwnInvHolds, PTL DEF Spec

\* With a file of its own for every node and a cache that holds the project,
\* no read of a thread finds its entry gone, no file is ever torn, and what is
\* reported as synchronised is on disk: for any number of threads, whatever fails.
THEOREM BatchSound == ASSUME OwnFiles, CacheFits PROVE Spec => []BatchIsSound
  <1>1. OwnInv /\ HeldInv => BatchIsSound
    BY DEF OwnInv, WriteInv, ReportsAreTrue, HeldInv, ReadDonePcs, BatchIsSound, ReturnFindsEntry
  <1>2. QED
    BY <1>1, OwnInvHolds, HeldInvHolds, PTL

-----------------------------------------------------------------------------
(* With os.replace working: what a write stages carries the preserved      *)
(* sections, so that a real run implements the store of SchemaStore        *)

\* The state of one path and of the thread that holds its node, as KeptInv sees it.
KeptAt(w, p) ==
  /\ Holds(original, p) => originalKept[p] = disk[p].kept
  /\ ~Exists(p) => ~disk[p].kept
  /\ Holds(buffer, p) /\ Exists(p) =>
       Holds(original, p) \/ pc[w] \in {"load_original", "discard_buffer"}
  /\ pc[w] \in {"dump", "temp", "replace"} => staged[w].kept = disk[p].kept
  /\ pc[w] = "discard_original" => ~Holds(buffer, p)
  /\ pc[w] \notin {"fallback_unlink", "fallback_rename"}

\* A step keeps the cache entries of every path but its node's.
LEMMA OthersCached ==
  ASSUME CacheFits, TypeInv, CachesSound, NEW w \in Workers, Step(w),
         NEW q \in Paths, pc[w] = "idle" \/ q # Home[node[w]]
  PROVE  /\ Holds(buffer', q) <=> Holds(buffer, q)
         /\ Holds(original', q) <=> Holds(original, q)
         /\ originalKept'[q] = originalKept[q]
  <1> DEFINE p == Home[node[w]]
  <1>0. /\ p \in Paths /\ buffer \in Caches /\ original \in Caches
        /\ originalKept \in [Paths -> BOOLEAN]
    BY HomeAssumption DEF TypeInv, TypeOK
  <1>1. Sound(buffer) /\ Sound(original)
    BY DEF CachesSound
  <1>2. CASE LookupMissing(w)
    <2>1. buffer' = SetDefault(buffer, p) /\ original' = original /\ originalKept' = originalKept /\ q # p
      BY <1>2 DEF LookupMissing, BufferMissing
    <2>2. QED
      BY <1>0, <1>1, <2>1, MethodsKeepAll
  <1>3. CASE LookupLoads(w)
    <2>1. buffer' = SetItem(buffer, p) /\ original' = original /\ originalKept' = originalKept /\ q # p
      BY <1>3 DEF LookupLoads, LoadFiltered
    <2>2. QED
      BY <1>0, <1>1, <2>1, MethodsKeepAll
  <1>4. CASE ReturnBuffered(w) \/ MarkBuffer(w)
    <2>1. /\ \/ Holds(buffer, p) /\ buffer' = GetItem(buffer, p)
             \/ buffer' = MarkDirty(buffer, p)
          /\ original' = original /\ originalKept' = originalKept
      BY <1>4 DEF ReturnBuffered, MarkBuffer
    <2>2. QED
      BY <1>0, <2>1, MethodsKeys
  <1>5. CASE DiscardBuffer(w)
    <2>1. buffer' = Discard(buffer, p) /\ original' = original /\ originalKept' = originalKept /\ q # p
      BY <1>5 DEF DiscardBuffer
    <2>2. QED
      BY <1>0, <2>1, DiscardFacts
  <1>6. CASE StoreOriginal(w)
    <2>1. /\ buffer' = buffer /\ original' = SetItem(original, p) /\ q # p
          /\ originalKept' = [originalKept EXCEPT ![p] = disk[p].kept]
      BY <1>6 DEF StoreOriginal, LoadUnfiltered
    <2>2. originalKept'[q] = originalKept[q]
      BY <1>0, <2>1
    <2>3. QED
      BY <1>0, <1>1, <2>1, <2>2, MethodsKeepAll
  <1>7. CASE MarkOriginal(w) \/ MergePreserved(w)
    <2>1. /\ buffer' = buffer /\ originalKept' = originalKept
          /\ \/ original' \in {original, MarkDirty(original, p)}
             \/ Holds(original, p) /\ original' = GetItem(original, p)
      BY <1>7 DEF MarkOriginal, MergePreserved
    <2>2. QED
      BY <1>0, <2>1, MethodsKeys
  <1>8. CASE DiscardOriginal(w)
    <2>1. buffer' = buffer /\ original' = Discard(original, p) /\ originalKept' = originalKept /\ q # p
      BY <1>8 DEF DiscardOriginal
    <2>2. QED
      BY <1>0, <2>1, DiscardFacts
  <1>9. CASE ~(LookupMissing(w) \/ LookupLoads(w) \/ ReturnBuffered(w) \/ MarkBuffer(w) \/ DiscardBuffer(w)
               \/ StoreOriginal(w) \/ MarkOriginal(w) \/ MergePreserved(w) \/ DiscardOriginal(w))
    <2>1. buffer' = buffer /\ original' = original /\ originalKept' = originalKept
      BY <1>9 DEF Step, Take, AcquireForRead, AcquireCacheForRead, LookupHit, LookupRaises,
         ReturnRaises, OpenEntry, FillEntry, AcquireForWrite, DumpUnchanged, DumpDry, DumpChanged,
         DumpRaises, WriteTemp, WriteTempFails, Replace, ReplaceFails, FallbackUnlink,
         FallbackRename, FallbackFails, CleanUp, cacheVars
    <2>2. QED
      BY <2>1
  <1>10. QED
    BY <1>2, <1>3, <1>4, <1>5, <1>6, <1>7, <1>8, <1>9

LEMMA OwnKept ==
  ASSUME CacheFits, ~RenameFaults, TypeInv, CachesSound, HeldInv, NEW w \in Workers, Step(w),
         pc[w] # "idle", Written(w), NEW p \in Paths, p = Home[node[w]], KeptAt(w, p)
  PROVE  KeptAt(w, p)'
  <1>0. /\ buffer \in Caches /\ original \in Caches /\ originalKept \in [Paths -> BOOLEAN]
        /\ disk \in [Paths -> Files] /\ staged \in [Workers -> Files] /\ pc \in [Workers -> Pcs]
        /\ temp \in [Paths -> {"none", "torn", "whole"}]
    BY DEF TypeInv, TypeOK
  <1>1. Sound(buffer) /\ Sound(original)
    BY DEF CachesSound
  <1>2. CASE \/ AcquireForRead(w) \/ AcquireCacheForRead(w) \/ LookupHit(w) \/ LookupRaises(w) \/ ReturnRaises(w)
             \/ OpenEntry(w) \/ FillEntry(w) \/ AcquireForWrite(w) \/ DumpDry(w) \/ DumpRaises(w)
             \/ WriteTempFails(w) \/ CleanUp(w) \/ DumpUnchanged(w)
    <2>1. buffer' = buffer /\ original' = original /\ originalKept' = originalKept /\ disk' = disk
      BY <1>2 DEF AcquireForRead, AcquireCacheForRead, LookupHit, LookupRaises, ReturnRaises,
         OpenEntry, FillEntry, AcquireForWrite, DumpDry, DumpRaises, WriteTempFails, CleanUp,
         DumpUnchanged, cacheVars
    <2>2. /\ pc[w] \notin {"load_original", "discard_buffer"}
          /\ pc'[w] \in {"read_cache", "lookup", "return", "idle", "fill", "mark_buffer", "merge", "cleanup", "discard_buffer"}
      BY <1>0, <1>2 DEF AcquireForRead, AcquireCacheForRead, LookupHit, LookupRaises, ReturnRaises,
         OpenEntry, FillEntry, AcquireForWrite, DumpDry, DumpRaises, WriteTempFails, CleanUp,
         DumpUnchanged, Goto, Settle
    <2>3. QED
      BY <2>1, <2>2 DEF KeptAt, Exists
  <1>3. CASE LookupMissing(w)
    <2>1. /\ original' = original /\ originalKept' = originalKept /\ disk' = disk
          /\ ~Exists(p) /\ pc'[w] = "open"
      BY <1>0, <1>3 DEF LookupMissing, Goto
    <2>2. QED
      BY <2>1 DEF KeptAt, Exists
  <1>4. CASE LookupLoads(w)
    <2>1. original' = original /\ originalKept' = originalKept /\ disk' = disk /\ pc'[w] = "load_original"
      BY <1>0, <1>4 DEF LookupLoads, Goto
    <2>2. QED
      BY <2>1 DEF KeptAt, Exists
  <1>5. CASE StoreOriginal(w)
    <2>1. /\ original' = SetItem(original, p) /\ originalKept' = [originalKept EXCEPT ![p] = disk[p].kept]
          /\ disk' = disk /\ pc'[w] = "return"
      BY <1>0, <1>5 DEF StoreOriginal, LoadUnfiltered, Goto
    <2>2. Holds(original', p) /\ originalKept'[p] = disk[p].kept
      BY <1>0, <1>1, <2>1, MethodsKeepAll
    <2>3. QED
      BY <2>1, <2>2 DEF KeptAt, Exists
  <1>6. CASE ReturnBuffered(w) \/ MarkBuffer(w)
    <2>1. /\ \/ Holds(buffer, p) /\ buffer' = GetItem(buffer, p)
             \/ buffer' = MarkDirty(buffer, p)
          /\ original' = original /\ originalKept' = originalKept /\ disk' = disk
          /\ pc[w] \in {"return", "mark_buffer"} /\ pc'[w] \in {"open", "mark_original"}
      BY <1>0, <1>6 DEF ReturnBuffered, MarkBuffer, Goto
    <2>2. Holds(buffer', p) <=> Holds(buffer, p)
      BY <1>0, <2>1, MethodsKeys
    <2>3. QED
      BY <2>1, <2>2 DEF KeptAt, Exists
  <1>7. CASE MarkOriginal(w)
    <2>1. /\ original' = MarkDirty(original, p) /\ buffer' = buffer /\ originalKept' = originalKept /\ disk' = disk
          /\ pc[w] = "mark_original" /\ pc'[w] = "write"
      BY <1>0, <1>7 DEF MarkOriginal, Goto
    <2>2. Holds(original', p) <=> Holds(original, p)
      BY <1>0, <2>1, MethodsKeys
    <2>3. QED
      BY <2>1, <2>2 DEF KeptAt, Exists
  <1>8. CASE MergePreserved(w)
    <2>1. /\ original' = IF Holds(original, p) THEN GetItem(original, p) ELSE original
          /\ buffer' = buffer /\ originalKept' = originalKept /\ disk' = disk
          /\ pc[w] = "merge" /\ pc'[w] = "dump"
          /\ staged'[w].kept = (Holds(original, p) /\ originalKept[p])
      BY <1>0, <1>8 DEF MergePreserved, Goto, Whole
    <2>2. Holds(original', p) <=> Holds(original, p)
      BY <1>0, <2>1, MethodsKeys
    <2>3. Holds(buffer, p)
      BY <2>1 DEF HeldInv, ReadDonePcs
    <2>4. disk[p].kept \in BOOLEAN /\ originalKept[p] \in BOOLEAN
      BY <1>0 DEF Files
    <2>5. Holds(original, p) \/ ~disk[p].kept
      BY <2>1, <2>3 DEF KeptAt
    <2>6. staged'[w].kept = disk[p].kept
      BY <2>1, <2>4, <2>5 DEF KeptAt
    <2>7. QED
      BY <2>1, <2>2, <2>6 DEF KeptAt, Exists
  <1>9. CASE DumpChanged(w)
    <2>1. /\ buffer' = buffer /\ original' = original /\ originalKept' = originalKept /\ disk' = disk
          /\ pc[w] = "dump" /\ pc'[w] = "temp" /\ staged'[w].kept = staged[w].kept
      BY <1>0, <1>9 DEF DumpChanged, Goto, Modified, Whole, cacheVars
    <2>2. QED
      BY <2>1 DEF KeptAt, Exists
  <1>10. CASE WriteTemp(w)
    <2>1. /\ buffer' = buffer /\ original' = original /\ originalKept' = originalKept /\ disk' = disk
          /\ pc[w] = "temp" /\ pc'[w] = "replace" /\ staged' = staged
      BY <1>0, <1>10 DEF WriteTemp, Goto, cacheVars
    <2>2. QED
      BY <2>1 DEF KeptAt, Exists
  <1>11. CASE Replace(w)
    <2>1. /\ buffer' = buffer /\ original' = original /\ originalKept' = originalKept
          /\ disk'[p] = IF temp[p] = "whole" THEN staged[w] ELSE Torn
          /\ pc[w] = "replace" /\ pc'[w] = "discard_buffer"
      BY <1>0, <1>11 DEF Replace, Rename, Goto, cacheVars
    <2>2. disk'[p].kept = disk[p].kept /\ disk'[p].state = "whole"
      BY <2>1 DEF KeptAt, Written, RenamePcs
    <2>3. QED
      BY <2>1, <2>2 DEF KeptAt, Exists
  <1>12. CASE DiscardBuffer(w)
    <2>1. /\ buffer' = Discard(buffer, p) /\ original' = original /\ originalKept' = originalKept /\ disk' = disk
          /\ pc'[w] = "discard_original"
      BY <1>0, <1>12 DEF DiscardBuffer, Goto
    <2>2. ~Holds(buffer', p)
      BY <1>1, <2>1, DiscardRemoves
    <2>3. QED
      BY <2>1, <2>2 DEF KeptAt, Exists
  <1>13. CASE DiscardOriginal(w)
    <2>1. /\ original' = Discard(original, p) /\ buffer' = buffer /\ originalKept' = originalKept /\ disk' = disk
          /\ pc[w] = "discard_original" /\ pc'[w] = "idle"
      BY <1>0, <1>13 DEF DiscardOriginal, Settle, Goto
    <2>2. ~Holds(original', p) /\ ~Holds(buffer', p)
      BY <1>1, <2>1, DiscardRemoves DEF KeptAt
    <2>3. QED
      BY <2>1, <2>2 DEF KeptAt, Exists
  <1>14. QED
    <2>1. ~(\E n \in Nodes : Take(w, n))
      BY DEF Take
    <2>2. ~ReplaceFails(w) /\ ~FallbackFails(w) /\ ~FallbackUnlink(w) /\ ~FallbackRename(w)
      BY DEF ReplaceFails, FallbackFails, FallbackUnlink, FallbackRename, KeptAt
    <2>3. QED
      BY <1>2, <1>3, <1>4, <1>5, <1>6, <1>7, <1>8, <1>9, <1>10, <1>11, <1>12, <1>13, <2>1, <2>2
         DEF Step

LEMMA NextKept ==
  /\ OwnFiles /\ CacheFits /\ ~RenameFaults /\ TypeInv /\ CachesSound
  /\ OwnInv /\ HeldInv /\ KeptInv /\ [Next]_vars
  => KeptInv'
  <1> SUFFICES ASSUME OwnFiles, CacheFits, ~RenameFaults, TypeInv, CachesSound, OwnInv, HeldInv,
                      KeptInv, [Next]_vars
               PROVE  KeptInv'
    OBVIOUS
  <1>0. /\ pc \in [Workers -> Pcs] /\ node \in [Workers -> Nodes]
        /\ \A v \in Workers : Home[node[v]] \in Paths
        /\ WorkInv /\ DocInv /\ WriteInv
    BY HomeAssumption DEF TypeInv, TypeOK, OwnInv
  <1>1. ASSUME NEW v \in Workers, pc[v] # "idle" PROVE KeptAt(v, Home[node[v]])
    <2> DEFINE p == Home[node[v]]
    <2>0. p \in Paths
      BY <1>0
    <2>1. \A u \in Workers : pc[u] \in {"load_original", "discard_buffer"} /\ Home[node[u]] = p => u = v
      BY <1>0, <1>1 DEF OwnFiles, WorkInv
    <2>2. Holds(buffer, p) /\ Exists(p) =>
            Holds(original, p) \/ pc[v] \in {"load_original", "discard_buffer"}
      BY <2>0, <2>1 DEF KeptInv
    <2>3. QED
      BY <2>0, <2>2 DEF KeptInv, KeptAt
  <1>2. ASSUME NEW w \in Workers, Step(w) PROVE KeptInv'
    <2>a. node' \in [Workers -> Nodes] /\ Frame(w)
      <3>1. node' \in [Workers -> Nodes]
        BY NextType DEF TypeInv, TypeOK
      <3>2. QED
        BY <1>0, <1>2, <3>1, StepFrame
    <2>b. PICK n \in Nodes : n = node'[w]
      BY <2>a
    <2> DEFINE p == Home[n]
    <2>0. Frame(w) /\ n = node'[w] /\ p \in Paths
      BY <2>a, <2>b, HomeAssumption
    <2>1. pc[w] # "idle" => n = node[w]
      BY <2>0 DEF Frame
    <2>2. KeptAt(w, p)'
      <3>1. CASE pc[w] # "idle"
        BY <1>0, <1>1, <1>2, <2>0, <2>1, <3>1, OwnKept DEF WriteInv
      <3>2. CASE pc[w] = "idle"
        <4>1. Take(w, n) /\ n \in todo
          <5>1. PICK m \in Nodes : Take(w, m)
            BY <1>2, <3>2 DEF Step, AcquireForRead, AcquireCacheForRead, LookupHit, LookupMissing,
               LookupLoads, LookupRaises, ReturnBuffered, ReturnRaises, StoreOriginal, OpenEntry,
               FillEntry, MarkBuffer, MarkOriginal, AcquireForWrite, MergePreserved, DumpUnchanged,
               DumpDry, DumpChanged, DumpRaises, WriteTemp, WriteTempFails, Replace, ReplaceFails,
               FallbackUnlink, FallbackRename, FallbackFails, CleanUp, DiscardBuffer,
               DiscardOriginal
          <5>2. n = m
            BY <1>0, <2>0, <5>1 DEF Take
          <5>3. QED
            BY <5>1, <5>2 DEF Take
        <4>2. /\ buffer' = buffer /\ original' = original /\ originalKept' = originalKept /\ disk' = disk
              /\ pc'[w] = "read"
          BY <1>0, <4>1 DEF Take, Goto, cacheVars
        <4>3. \A u \in Workers : pc[u] \in {"load_original", "discard_buffer"} => Home[node[u]] # p
          BY <1>0, <2>0, <4>1 DEF OwnFiles, WorkInv
        <4>4. Holds(buffer, p) /\ Exists(p) => Holds(original, p)
          BY <2>0, <4>3 DEF KeptInv
        <4>5. QED
          BY <2>0, <4>2, <4>4 DEF KeptInv, KeptAt, Exists
      <3>3. QED
        BY <3>1, <3>2
    <2>3. ASSUME NEW q \in Paths, q # p
          PROVE  /\ Holds(buffer', q) <=> Holds(buffer, q)
                 /\ Holds(original', q) <=> Holds(original, q)
                 /\ originalKept'[q] = originalKept[q] /\ disk'[q] = disk[q]
      <3>1. disk'[q] = disk[q]
        BY <2>0, <2>3 DEF Frame
      <3>2. QED
        BY <1>2, <2>1, <2>3, <3>1, OthersCached
    <2>4. ASSUME NEW v \in Workers, v # w
          PROVE  /\ pc'[v] = pc[v] /\ node'[v] = node[v] /\ staged'[v] = staged[v]
                 /\ pc[v] # "idle" => Home[node[v]] # p
      <3>1. pc'[v] = pc[v] /\ node'[v] = node[v] /\ staged'[v] = staged[v]
        BY <2>0, <2>4 DEF Frame
      <3>2. pc[v] # "idle" => node[v] # n
        BY <1>0, <2>0, <2>4 DEF Frame, WorkInv
      <3>3. QED
        BY <1>0, <2>0, <3>1, <3>2 DEF OwnFiles
    <2> HIDE DEF p
    <2>5. ASSUME NEW q \in Paths
          PROVE  /\ Holds(original', q) => originalKept'[q] = disk'[q].kept
                 /\ disk'[q].state = "missing" => ~disk'[q].kept
      BY <2>2, <2>3 DEF KeptAt, KeptInv, Exists
    <2>6. ASSUME NEW q \in Paths, Holds(buffer', q), disk'[q].state # "missing", ~Holds(original', q)
          PROVE  \E v \in Workers : pc'[v] \in {"load_original", "discard_buffer"} /\ Home[node'[v]] = q
      <3>1. CASE q = p
        BY <2>0, <2>2, <2>6, <3>1 DEF KeptAt, Exists, p
      <3>2. CASE q # p
        <4>1. PICK v \in Workers : pc[v] \in {"load_original", "discard_buffer"} /\ Home[node[v]] = q
          BY <2>3, <2>6, <3>2 DEF KeptInv, Exists
        <4>2. v # w
          BY <2>0, <2>1, <3>2, <4>1 DEF p
        <4>3. QED
          BY <2>4, <4>1, <4>2
      <3>3. QED
        BY <3>1, <3>2
    <2>7. ASSUME NEW v \in Workers
          PROVE  /\ pc'[v] \in {"dump", "temp", "replace"} => staged'[v].kept = disk'[Home[node'[v]]].kept
                 /\ pc'[v] = "discard_original" => ~Holds(buffer', Home[node'[v]])
                 /\ pc'[v] \notin {"fallback_unlink", "fallback_rename"}
      <3>1. CASE v = w
        BY <2>0, <2>2, <3>1 DEF KeptAt, p
      <3>2. CASE v # w
        BY <1>0, <2>3, <2>4, <3>2 DEF KeptInv
      <3>3. QED
        BY <3>1, <3>2
    <2>8. QED
      BY <2>5, <2>6, <2>7 DEF KeptInv, Exists
  <1>3. ASSUME NEW q \in Paths, Peek(q) PROVE KeptInv'
    <2>0. /\ buffer \in Caches /\ original \in Caches /\ originalKept \in [Paths -> BOOLEAN]
          /\ Sound(buffer) /\ Sound(original)
      BY DEF TypeInv, TypeOK, CachesSound
    <2>1. disk' = disk /\ pc' = pc /\ node' = node /\ staged' = staged
      BY <1>3 DEF Peek
    <2>2. \A w \in Workers : pc'[w] = "idle"
      BY <1>0, <1>3, <2>1 DEF Peek, WorkInv
    <2>3. ASSUME NEW r \in Paths
          PROVE  /\ Holds(original', r) => originalKept'[r] = disk[r].kept
                 /\ Holds(buffer', r) /\ Exists(r) => Holds(original', r)
      <3>1. /\ Holds(original, r) => originalKept[r] = disk[r].kept
            /\ Holds(buffer, r) /\ Exists(r) => Holds(original, r)
        BY <2>1, <2>2 DEF KeptInv
      <3>2. CASE /\ Holds(buffer, q) /\ buffer' = GetItem(buffer, q)
                 /\ original' = original /\ originalKept' = originalKept
        BY <2>0, <3>1, <3>2, MethodsKeys
      <3>3. CASE /\ ~Exists(q) /\ buffer' = SetDefault(buffer, q)
                 /\ original' = original /\ originalKept' = originalKept
        BY <2>0, <3>1, <3>3, MethodsKeys
      <3>4. CASE /\ buffer' = SetItem(buffer, q) /\ original' = SetItem(original, q)
                 /\ originalKept' = [originalKept EXCEPT ![q] = disk[q].kept]
        <4>1. /\ Holds(buffer', r) <=> r = q \/ Holds(buffer, r)
              /\ Holds(original', r) <=> r = q \/ Holds(original, r)
          BY <2>0, <3>4, MethodsKeepAll
        <4>2. originalKept'[r] = IF r = q THEN disk[r].kept ELSE originalKept[r]
          BY <2>0, <3>4
        <4>3. QED
          BY <3>1, <4>1, <4>2
      <3>5. QED
        BY <1>3, <3>2, <3>3, <3>4 DEF Peek, BufferMissing, LoadFiltered, LoadUnfiltered
    <2>4. QED
      BY <2>1, <2>2, <2>3 DEF KeptInv, Exists
  <1>4. CASE Crash
    <2>1. \A p \in Paths : ~Holds(EmptyCache, p)
      BY DEF EmptyCache, Holds
    <2>2. QED
      BY <1>4, <2>1 DEF Crash, KeptInv, Exists
  <1>5. CASE StartCommit \/ Finished \/ UNCHANGED vars
    BY <1>5 DEF StartCommit, Finished, vars, cacheVars, KeptInv, Exists
  <1>6. QED
    BY <1>2, <1>3, <1>4, <1>5 DEF Next

KeptAll == TypeInv /\ CachesSound /\ OwnInv /\ HeldInv /\ KeptInv

LEMMA KeptAllHolds == ASSUME OwnFiles, CacheFits, ~RenameFaults PROVE Spec => []KeptAll
  <1>1. Init => KeptInv
    <2> SUFFICES ASSUME Init PROVE KeptInv
      OBVIOUS
    <2>1. \A p \in Paths : ~Holds(EmptyCache, p)
      BY DEF EmptyCache, Holds
    <2>2. ASSUME NEW p \in Paths, ~Exists(p) PROVE ~disk[p].kept
      <3>1. \A f \in InitialFiles(p) : f.state = "missing" => ~f.kept
        BY DEF InitialFiles, NoFile, Whole
      <3>2. QED
        BY <2>2, <3>1 DEF Init, Exists
    <2>3. QED
      BY <2>1, <2>2 DEF Init, FreshProcess, KeptInv
  <1>2. TypeInv /\ CachesSound /\ OwnInv /\ HeldInv /\ KeptInv /\ [Next]_vars => KeptInv'
    BY NextKept
  <1>3. QED
    BY <1>1, <1>2, TypeInvHolds, SoundInvHolds, OwnInvHolds, HeldInvHolds, PTL DEF Spec, KeptAll

\* What a published entry does to its file: the rest of the file stays.
Published(n) ==
  [state |-> "whole",
   entries |-> [m \in Nodes |-> IF m = n THEN "new" ELSE disk[Home[n]].entries[m]],
   kept |-> disk[Home[n]].kept]

\* Only os.replace changes a schema file, and it publishes one entry.
LEMMA DiskStep ==
  ASSUME OwnFiles, KeptAll, [Next]_vars
  PROVE  \/ disk' = disk
         \/ \E n \in Nodes : /\ outcome[n] = "pending" /\ outcome' = outcome
                             /\ disk' = [disk EXCEPT ![Home[n]] = Published(n)]
  <1>0. /\ TypeInv /\ KeptInv /\ WorkInv /\ DocInv /\ WriteInv
        /\ node \in [Workers -> Nodes] /\ staged \in [Workers -> Files] /\ disk \in [Paths -> Files]
    BY DEF KeptAll, OwnInv, TypeInv, TypeOK
  <1>1. ASSUME NEW w \in Workers, Replace(w)
        PROVE  \E n \in Nodes : /\ outcome[n] = "pending" /\ outcome' = outcome
                                /\ disk' = [disk EXCEPT ![Home[n]] = Published(n)]
    <2> DEFINE n == node[w]
               p == Home[n]
    <2>0. n \in Nodes /\ p \in Paths
      BY <1>0, HomeAssumption
    <2>1. /\ pc[w] = "replace" /\ outcome' = outcome
          /\ disk' = [disk EXCEPT ![p] = IF temp[p] = "whole" THEN staged[w] ELSE Torn]
      BY <1>1 DEF Replace, Rename
    <2>2. /\ temp[p] = "whole" /\ staged[w].state = "whole" /\ staged[w].entries = Only(n)
          /\ staged[w].kept = disk[p].kept /\ outcome[n] = "pending"
      BY <1>0, <2>1 DEF WriteInv, Written, RenamePcs, KeptInv, WorkInv
    <2>3. \A m \in Nodes : m # n => disk[p].entries[m] = "absent"
      BY <1>0, <2>0 DEF OwnFiles, DocInv
    <2>4. Only(n) = [m \in Nodes |-> IF m = n THEN "new" ELSE disk[p].entries[m]]
      BY <2>3 DEF Only
    <2>5. staged[w] = Published(n)
      BY <1>0, <2>2, <2>4 DEF Files, Published
    <2>6. QED
      BY <2>0, <2>1, <2>2, <2>5
  <1>2. ASSUME NEW w \in Workers, Step(w), ~Replace(w) PROVE disk' = disk
    <2>1. ~FallbackUnlink(w) /\ ~FallbackRename(w)
      BY <1>0 DEF FallbackUnlink, FallbackRename, KeptInv
    <2>2. QED
      BY <1>2, <2>1 DEF Step, Take, AcquireForRead, AcquireCacheForRead, LookupHit, LookupMissing,
         LookupLoads, LookupRaises, ReturnBuffered, ReturnRaises, StoreOriginal, OpenEntry,
         FillEntry, MarkBuffer, MarkOriginal, AcquireForWrite, MergePreserved, DumpUnchanged,
         DumpDry, DumpChanged, DumpRaises, WriteTemp, WriteTempFails, ReplaceFails, FallbackFails,
         CleanUp, DiscardBuffer, DiscardOriginal
  <1>3. QED
    BY <1>1, <1>2 DEF Next, Peek, StartCommit, Crash, Finished, vars

\* With files of their own, a cache that holds the project and a working
\* os.replace, no step of any thread takes a schema file back: entries only become
\* current and preserved sections stay, in real and dry runs, across crashes.
THEOREM FilesOnlyAdvance ==
  ASSUME OwnFiles, CacheFits, ~RenameFaults PROVE Spec => FilesAdvance
  <1>1. ASSUME KeptAll, [Next]_vars, NEW p \in Paths, Exists(p)
        PROVE  /\ Exists(p)'
               /\ disk[p].kept => disk[p].kept'
               /\ \A n \in Nodes : Rank(disk[p].entries[n]) <= Rank(disk[p].entries[n]')
    <2>0. disk \in [Paths -> Files]
      BY <1>1 DEF KeptAll, TypeInv, TypeOK
    <2>1. \A e \in EntryStates : Rank(e) \in 0..3 /\ Rank(e) <= Rank("new")
      BY DEF EntryStates, Rank
    <2>2. \A n \in Nodes : disk[p].entries[n] \in EntryStates
      BY <2>0 DEF Files
    <2>3. CASE disk'[p] = disk[p]
      BY <1>1, <2>1, <2>2, <2>3 DEF Exists
    <2>4. CASE disk'[p] # disk[p]
      <3>1. PICK n \in Nodes : disk' = [disk EXCEPT ![Home[n]] = Published(n)]
        BY <1>1, <2>4, DiskStep
      <3>2. disk'[p] = Published(n) /\ p = Home[n]
        BY <2>0, <2>4, <3>1
      <3>3. /\ disk'[p].state = "whole" /\ disk'[p].kept = disk[p].kept
            /\ \A m \in Nodes : disk'[p].entries[m] = IF m = n THEN "new" ELSE disk[p].entries[m]
        BY <3>2 DEF Published
      <3>4. QED
        BY <2>1, <2>2, <3>3 DEF Exists
    <2>5. QED
      BY <2>3, <2>4
  <1>2. KeptAll /\ [Next]_vars =>
          \A p \in Paths : Exists(p) =>
            /\ Exists(p)'
            /\ disk[p].kept => disk[p].kept'
            /\ \A n \in Nodes : Rank(disk[p].entries[n]) <= Rank(disk[p].entries[n]')
    BY <1>1
  <1>3. QED
    BY <1>2, KeptAllHolds, PTL DEF Spec, FilesAdvance

\* What a step does to the reports.
LEMMA ReportStep ==
  ASSUME OwnFiles, TRUE \notin DryRuns, dryRun \in DryRuns, KeptAll, [Next]_vars
  PROVE  \/ outcome' = outcome
         \/ Crash
         \/ \E n \in Nodes : /\ outcome[n] = "pending" /\ disk' = disk
                             /\ \/ outcome' = [outcome EXCEPT ![n] = "failed"]
                                \/ /\ outcome' = [outcome EXCEPT ![n] = "ok"]
                                   /\ disk[Home[n]].entries[n] = "new"
  <1>0. WorkInv /\ WriteInv /\ node \in [Workers -> Nodes] /\ dryRun \in BOOLEAN
    BY DEF KeptAll, OwnInv, TypeInv, TypeOK
  <1>1. ASSUME NEW w \in Workers, DiscardOriginal(w)
        PROVE  /\ outcome[node[w]] = "pending" /\ disk' = disk
               /\ outcome' = [outcome EXCEPT ![node[w]] = "ok"]
               /\ disk[Home[node[w]]].entries[node[w]] = "new"
    BY <1>0, <1>1 DEF DiscardOriginal, Settle, WorkInv, WriteInv, Written
  <1>2. ASSUME NEW w \in Workers, LookupRaises(w) \/ ReturnRaises(w) \/ DumpRaises(w) \/ CleanUp(w)
        PROVE  /\ outcome[node[w]] = "pending" /\ disk' = disk
               /\ outcome' = [outcome EXCEPT ![node[w]] = "failed"]
    BY <1>0, <1>2 DEF LookupRaises, ReturnRaises, DumpRaises, CleanUp, Settle, WorkInv
  <1>3. ASSUME NEW w \in Workers, Step(w), ~DiscardOriginal(w),
               ~(LookupRaises(w) \/ ReturnRaises(w) \/ DumpRaises(w) \/ CleanUp(w))
        PROVE  outcome' = outcome
    <2>1. ~DumpDry(w)
      BY <1>0 DEF DumpDry
    <2>2. QED
      BY <1>3, <2>1 DEF Step, Take, AcquireForRead, AcquireCacheForRead, LookupHit, LookupMissing,
         LookupLoads, ReturnBuffered, StoreOriginal, OpenEntry, FillEntry, MarkBuffer, MarkOriginal,
         AcquireForWrite, MergePreserved, DumpUnchanged, DumpChanged, WriteTemp, WriteTempFails,
         Replace, Rename, ReplaceFails, FallbackUnlink, FallbackRename, FallbackFails,
         DiscardBuffer, runVars
  <1>4. QED
    BY <1>0, <1>1, <1>2, <1>3 DEF Next, Peek, StartCommit, Finished, vars, runVars

\* A real run, seen from the disk and the batch report, is a store whose entries
\* are published one at a time and reported when they are current: for any number
\* of threads, nodes and files, with failing reads and writes, and across crashes.
THEOREM BatchImplementsStore ==
  ASSUME OwnFiles, CacheFits, ~RenameFaults, TRUE \notin DryRuns PROVE Spec => ImplementsStore
  <1>1. Init => Store!Init
    <2> SUFFICES ASSUME Init PROVE Store!Init
      OBVIOUS
    <2>1. ASSUME NEW p \in Paths
          PROVE  \A n \in Nodes : /\ disk[p].entries[n] \in {"absent", "old"}
                                  /\ Home[n] # p => disk[p].entries[n] = "absent"
      <3>1. ASSUME NEW f \in InitialFiles(p)
            PROVE  \A n \in Nodes : /\ f.entries[n] \in {"absent", "old"}
                                    /\ Home[n] # p => f.entries[n] = "absent"
        BY DEF InitialFiles, NoFile, Whole, Blank
      <3>2. QED
        BY <3>1 DEF Init
    <2>2. QED
      BY <2>1 DEF Init, FreshProcess, Store!Init
  <1>2. KeptAll /\ dryRun \in DryRuns /\ [Next]_vars => [Store!Next]_(Store!vars)
    <2> SUFFICES ASSUME KeptAll, dryRun \in DryRuns, [Next]_vars
                 PROVE  Store!Next \/ UNCHANGED <<disk, outcome>>
      BY DEF Store!vars
    <2>1. CASE disk' # disk
      <3>1. PICK n \in Nodes : /\ outcome[n] = "pending" /\ outcome' = outcome
                               /\ disk' = [disk EXCEPT ![Home[n]] = Published(n)]
        BY <2>1, DiskStep
      <3>2. disk' = [disk EXCEPT ![Home[n]] =
                       [state |-> "whole",
                        entries |-> [m \in Nodes |-> IF m \in {} \cup {n} THEN "new" ELSE @.entries[m]],
                        kept |-> @.kept]]
        BY <3>1 DEF Published
      <3>3. Store!Publish(n, {})
        BY <3>1, <3>2 DEF Store!Publish
      <3>4. QED
        BY <3>3 DEF Store!Next
    <2>2. CASE disk' = disk
      <3>1. CASE Crash
        BY <2>2, <3>1 DEF Crash, Store!Restart, Store!Next
      <3>2. ASSUME NEW n \in Nodes, outcome[n] = "pending", outcome' = [outcome EXCEPT ![n] = "failed"]
            PROVE  Store!Next
        BY <2>2, <3>2 DEF Store!Fail, Store!Next
      <3>3. ASSUME NEW n \in Nodes, outcome[n] = "pending", outcome' = [outcome EXCEPT ![n] = "ok"],
                   disk[Home[n]].entries[n] = "new"
            PROVE  Store!Next
        BY <2>2, <3>3 DEF Store!Report, Store!Next
      <3>4. QED
        BY <2>2, <3>1, <3>2, <3>3, ReportStep
    <2>3. QED
      BY <2>1, <2>2
  <1>3. Init => dryRun \in DryRuns
    BY DEF Init
  <1>4. dryRun \in DryRuns /\ [Next]_vars => (dryRun \in DryRuns)'
    BY DEF Next, vars
  <1>5. QED
    BY <1>1, <1>2, <1>3, <1>4, KeptAllHolds, PTL DEF Spec, ImplementsStore, Store!Spec
=============================================================================
