--------------------------- MODULE CllCacheProofs ---------------------------
(***************************************************************************)
(* Proofs about CllCache for every set of models, names, threads and       *)
(* failures.  The disk cache is keyed by a name that several models may    *)
(* share, and nothing in an entry says whose file its hash was taken from. *)
(* That a model with a text and columns of its own is never given the rows *)
(* of another rests on every dict and every local copy of one holding only *)
(* entries whose rows are those of each such model that the hash fits.     *)
(***************************************************************************)
EXTENDS CllCache, TLAPS

Told(m) == OwnText(m) /\ OwnColumns(m)
OwnRows(m) == {r \in Results : Told(m) => \A x \in r : x[1] = m}
OwnCaches == {c \in Caches : \A m \in Models :
                  c[NameOf[m]] # Missing /\ c[NameOf[m]].hash \in Contents[m] =>
                      c[NameOf[m]].results \in OwnRows(m)}

(* What a thread's local variables hold, by its next step. *)
JobHolds(w) ==
    /\ pc[w] # "idle" => job[w].model \in Models
    /\ pc[w] \notin {"idle", "hash"} =>
          job[w].hash \in Contents[job[w].model]
    /\ pc[w] \in {"bind", "replace"} => job[w].loaded \in OwnCaches
    /\ pc[w] \notin {"idle", "hash", "load", "bind"} => memory \in OwnCaches
    /\ pc[w] \in {"store", "lock", "put", "write", "replace"} =>
          job[w].results \in OwnRows(job[w].model)
    /\ pc[w] \in {"put", "write", "replace"} => job[w].dict \in Nat

OwnInv ==
    /\ TypeOK
    /\ phase = "idle" => stale = {}
    /\ file \in OwnCaches
    /\ memory \in OwnCaches \cup {Missing}
    /\ \A m \in Models : lineage[m] \in OwnRows(m) \cup {Missing}
    /\ \A w \in Workers : JobHolds(w)

-----------------------------------------------------------------------------
(* A dict with no entry, and a dict with one more entry of the right rows. *)

LEMMA NoEntriesOwn == NoEntries \in OwnCaches
BY DEF NoEntries, OwnCaches, Caches, Names

LEMMA PutKeepsOwn ==
    ASSUME NEW c \in OwnCaches, NEW m \in Models, NEW h \in Contents[m],
           NEW r \in OwnRows(m)
    PROVE  [c EXCEPT ![NameOf[m]] = [hash |-> h, results |-> r]] \in OwnCaches
<1> DEFINE e == [hash |-> h, results |-> r]
           d == [c EXCEPT ![NameOf[m]] = e]
<1>1. e \in Entry /\ e.hash = h /\ e.results = r
  BY CllAssumption DEF Entry, OwnRows, Hashes
<1>2. c \in Caches
  BY DEF OwnCaches
<1>3. d \in Caches
  BY <1>1, <1>2 DEF Caches
<1>4. ASSUME NEW k \in Models, d[NameOf[k]] # Missing, d[NameOf[k]].hash \in Contents[k]
      PROVE  d[NameOf[k]].results \in OwnRows(k)
  <2>1. NameOf[k] \in Names /\ NameOf[m] \in Names
    BY DEF Names
  <2>2. CASE NameOf[k] # NameOf[m]
    <3>1. d[NameOf[k]] = c[NameOf[k]]
      BY <1>2, <2>1, <2>2 DEF Caches
    <3> QED
      BY <1>4, <3>1 DEF OwnCaches
  <2>3. CASE NameOf[k] = NameOf[m]
    <3>1. d[NameOf[k]] = e
      BY <1>2, <2>1, <2>3 DEF Caches
    <3>2. h \in Contents[k]
      BY <1>1, <1>4, <3>1
    <3>3. CASE k = m
      BY <1>1, <3>1, <3>3
    <3>4. CASE k # m
      <4>1. ~Told(k)
        BY <2>3, <3>2, <3>4 DEF Told, OwnText
      <4> QED
        BY <1>1, <3>1, <4>1 DEF OwnRows
    <3> QED
      BY <3>3, <3>4
  <2> QED
    BY <2>2, <2>3
<1> HIDE DEF d
<1>5. d \in OwnCaches
  BY <1>3, <1>4 DEF OwnCaches
<1> QED
  BY <1>5 DEF d

(* The rows of one model, and what is kept of those of all its namesakes. *)
LEMMA RowsTyped ==
    ASSUME TypeOK, NEW m \in Models
    PROVE  RowsOf(m) \in Results /\ \A x \in RowsOf(m) : x[1] = m
BY DEF RowsOf, Results, TypeOK, Blank

LEMMA KeptRows ==
    ASSUME TypeOK, NEW m \in Models
    PROVE  /\ KeepOwn(m, ColumnLineage(m)) \in Results
           /\ RowsOf(m) # {} => KeepOwn(m, ColumnLineage(m)) = RowsOf(m)
<1> DEFINE rows == ColumnLineage(m)
           matched == {x \in rows : x[1] = m}
<1>1. rows \in Results
  <2>1. ASSUME NEW x \in rows PROVE x \in Models \X (Texts \cup {Blank})
    <3>1. PICK k \in Models : NameOf[k] = NameOf[m] /\ x \in RowsOf(k)
      BY DEF ColumnLineage
    <3> QED
      BY <3>1, RowsTyped DEF Results
  <2> QED
    BY <2>1 DEF Results
<1>2. matched = RowsOf(m)
  <2>1. ASSUME NEW x \in matched PROVE x \in RowsOf(m)
    <3>1. PICK k \in Models : NameOf[k] = NameOf[m] /\ x \in RowsOf(k)
      BY DEF ColumnLineage
    <3>2. k = m
      BY <3>1, RowsTyped
    <3> QED
      BY <3>1, <3>2
  <2>2. ASSUME NEW x \in RowsOf(m) PROVE x \in matched
    BY RowsTyped DEF ColumnLineage
  <2> QED
    BY <2>1, <2>2
<1>3. KeepOwn(m, rows) = IF matched # {} THEN matched ELSE rows
  BY DEF KeepOwn
<1> HIDE DEF rows, matched
<1>4. KeepOwn(m, rows) \in Results /\ (RowsOf(m) # {} => KeepOwn(m, rows) = RowsOf(m))
  BY <1>1, <1>2, <1>3, RowsTyped
<1> QED
  BY <1>4 DEF rows

(* The rows that are kept for a model are that model's. *)
LEMMA ComputedIsOwn ==
    ASSUME TypeOK, NEW m \in Models
    PROVE  KeepOwn(m, ColumnLineage(m)) \in OwnRows(m)
<1> DEFINE r == KeepOwn(m, ColumnLineage(m))
<1>1. r \in Results
  BY KeptRows
<1>2. ASSUME Told(m), NEW x \in r PROVE x[1] = m
  <2>1. CASE RowsOf(m) # {}
    BY <1>2, <2>1, KeptRows, RowsTyped
  <2>2. CASE RowsOf(m) = {}
    <3>1. m \notin Documented
      BY <2>2 DEF RowsOf
    <3>2. \A k \in Models : NameOf[k] = NameOf[m] => k = m
      BY <1>2, <3>1 DEF Told, OwnColumns
    <3>3. \A y \in ColumnLineage(m) : y \in RowsOf(m)
      BY <3>2 DEF ColumnLineage
    <3>4. x \in ColumnLineage(m)
      BY <1>2 DEF KeepOwn
    <3> QED
      BY <2>2, <3>3, <3>4
  <2> QED
    BY <2>1, <2>2
<1> QED
  BY <1>1, <1>2 DEF OwnRows

(* A failed analysis has no row that could be another's. *)
LEMMA FailedIsOwn == ASSUME NEW m \in Models PROVE Failed \in OwnRows(m)
BY DEF Failed, OwnRows, Results

LEMMA NoJobTyped == NoJob \in Jobs
BY DEF NoJob, Jobs

LEMMA InitOwn == Init => OwnInv
<1> SUFFICES ASSUME Init PROVE OwnInv
  OBVIOUS
<1>1. TypeOK
  <2>1. file \in Caches
    BY DEF Init, NoEntries, Caches
  <2>2. pc \in [Workers -> Pcs] /\ job \in [Workers -> Jobs]
    BY NoJobTyped DEF Init, FreshProcess, Pcs
  <2>3. macros \in 0..MaxMacroEdits
    BY CllAssumption DEF Init
  <2> QED
    BY <2>1, <2>2, <2>3 DEF Init, FreshProcess, TypeOK
<1>2. file \in OwnCaches
  BY NoEntriesOwn DEF Init
<1>3. \A w \in Workers : JobHolds(w)
  BY DEF Init, FreshProcess, JobHolds
<1> QED
  BY <1>1, <1>2, <1>3 DEF Init, FreshProcess, OwnInv

-----------------------------------------------------------------------------
(* Preservation, one case per action *)

LEMMA NextOwn == OwnInv /\ [Next]_vars => OwnInv'
<1> SUFFICES ASSUME OwnInv, [Next]_vars PROVE OwnInv'
  OBVIOUS
<1> USE DEF OwnInv, TypeOK
<1>1. ASSUME NEW m \in Models, NEW v \in Versions, EditSource(m, v) PROVE OwnInv'
  <2>1. source' = [source EXCEPT ![m] = v] /\ v \in Contents[m]
    BY <1>1 DEF EditSource
  <2>2. source' \in [Models -> Versions] /\ \A k \in Models : source'[k] \in Contents[k]
    BY <2>1
  <2> HIDE DEF OwnInv, TypeOK
  <2>3. TypeOK'
    BY <1>1, <2>2 DEF EditSource, OwnInv, TypeOK, runVars, cacheVars, threadVars
  <2>4. \A w \in Workers : JobHolds(w)'
    BY <1>1 DEF EditSource, OwnInv, JobHolds, cacheVars, threadVars
  <2> QED
    BY <1>1, <2>3, <2>4 DEF EditSource, OwnInv, runVars, cacheVars
<1>2. CASE EditMacros
  BY <1>2, CllAssumption DEF EditMacros, JobHolds, runVars, cacheVars, threadVars
<1>3. ASSUME NEW m \in Models, UserCompiles(m) PROVE OwnInv'
  BY <1>3 DEF UserCompiles, JobHolds, runVars, cacheVars, threadVars, Rendered, Texts
<1>4. ASSUME NEW s \in Scopes, StartRun(s) PROVE OwnInv'
  BY <1>4, CllAssumption DEF StartRun, JobHolds, worldVars, cacheVars, threadVars
<1>5. CASE CheckFreshness
  BY <1>5 DEF CheckFreshness, JobHolds, worldVars, cacheVars, threadVars
<1>6. CASE DbtReads
  BY <1>6 DEF DbtReads, JobHolds, worldVars, cacheVars, threadVars, Rendered, Texts
<1>7. CASE BulkCompile
  BY <1>7 DEF BulkCompile, DbtWrites, JobHolds, runVars, cacheVars, threadVars
<1>8. CASE BulkCompileFails
  BY <1>8 DEF BulkCompileFails, DbtWrites, JobHolds, runVars, cacheVars, threadVars
<1>9. CASE EndRun \/ Crash
  <2>1. pc' \in [Workers -> Pcs] /\ job' \in [Workers -> Jobs] /\ \A w \in Workers : JobHolds(w)'
    BY <1>9, NoJobTyped DEF EndRun, Crash, ProcessEnds, Pcs, JobHolds
  <2>2. ProcessEnds /\ UNCHANGED <<worldVars, file>>
    BY <1>9 DEF EndRun, Crash
  <2>3. /\ lineage' \in [Models -> Results \cup {Missing}]
        /\ \A m \in Models : lineage'[m] \in OwnRows(m) \cup {Missing}
        /\ rendered' \in [Models -> Texts \cup {Missing}]
    BY <2>2 DEF ProcessEnds
  <2> QED
    BY <2>1, <2>2, <2>3 DEF ProcessEnds, worldVars
<1>10. ASSUME NEW w \in Workers, NEW m \in Models, Ask(w, m) PROVE OwnInv'
  <2>1. /\ job' = [job EXCEPT ![w].model = m]
        /\ pc' = [pc EXCEPT ![w] = "hash"] /\ pc[w] = "idle"
    BY <1>10 DEF Ask, At, Goto, Note
  <2>2. job'[w] \in Jobs /\ job'[w].model = m
    BY <1>10, <2>1 DEF Jobs
  <2>3. pc' \in [Workers -> Pcs] /\ job' \in [Workers -> Jobs]
    BY <1>10, <2>1, <2>2 DEF Pcs
  <2>4. \A o \in Workers : JobHolds(o)'
    BY <1>10, <2>1, <2>2 DEF Ask, JobHolds, cacheVars
  <2> QED
    BY <1>10, <2>3, <2>4 DEF Ask, worldVars, runVars, cacheVars
<1>11. ASSUME NEW w \in Workers, Step(w) PROVE OwnInv'
  <2>1. CASE HashSource(w)
    <3> DEFINE m == job[w].model
    <3>1. m \in Models /\ Hash(m) \in Hashes /\ Hash(m) \in Contents[m]
      BY <1>11, <2>1 DEF HashSource, At, Hash, Hashes, JobHolds
    <3>2. job' = [job EXCEPT ![w].hash = Hash(m)]
      BY <2>1 DEF HashSource, Note, Now
    <3>3. memory = Missing \/ memory \in OwnCaches
      OBVIOUS
    <3> HIDE DEF m
    <3>4. job'[w] \in Jobs /\ job'[w].hash = Hash(m) /\ job'[w].model = job[w].model
      BY <1>11, <3>1, <3>2 DEF Jobs
    <3>5. pc' = [pc EXCEPT ![w] = IF memory = Missing THEN "load" ELSE "lookup"]
      BY <2>1 DEF HashSource, Goto
    <3>6. TypeOK'
      BY <1>11, <2>1, <3>2, <3>4, <3>5 DEF HashSource, worldVars, runVars, cacheVars, Pcs
    <3>7. JobHolds(w)'
      BY <1>11, <2>1, <3>1, <3>3, <3>4, <3>5 DEF HashSource, m, JobHolds, cacheVars
    <3>8. ASSUME NEW o \in Workers, o # w PROVE JobHolds(o)'
      BY <1>11, <2>1, <3>2, <3>5, <3>8 DEF HashSource, JobHolds, cacheVars
    <3> QED
      BY <2>1, <3>6, <3>7, <3>8 DEF HashSource, cacheVars, runVars
  <2>2. CASE LoadDiskCache(w)
    <3>1. /\ job' = [job EXCEPT ![w].loaded = file]
          /\ pc' = [pc EXCEPT ![w] = "bind"] /\ pc[w] = "load"
      BY <2>2 DEF LoadDiskCache, At, Goto, Note
    <3>2. job' \in [Workers -> Jobs] /\ pc' \in [Workers -> Pcs]
      BY <1>11, <3>1 DEF Jobs, Pcs
    <3>3. \A o \in Workers : JobHolds(o)'
      BY <1>11, <2>2, <3>1 DEF LoadDiskCache, JobHolds, cacheVars, Jobs
    <3> QED
      BY <2>2, <3>2, <3>3 DEF LoadDiskCache, worldVars, runVars, cacheVars
  <2>l. CASE LoadFails(w)
    <3>1. /\ job' = [job EXCEPT ![w].loaded = NoEntries]
          /\ pc' = [pc EXCEPT ![w] = "bind"] /\ pc[w] = "load"
      BY <2>l DEF LoadFails, At, Goto, Note
    <3>2. NoEntries \in Caches
      BY NoEntriesOwn DEF OwnCaches
    <3>3. job' \in [Workers -> Jobs] /\ pc' \in [Workers -> Pcs]
      BY <1>11, <3>1, <3>2 DEF Jobs, Pcs
    <3>4. \A o \in Workers : JobHolds(o)'
      BY <1>11, <2>l, <3>1, NoEntriesOwn DEF LoadFails, JobHolds, Jobs
    <3> QED
      BY <2>l, <3>3, <3>4 DEF LoadFails, worldVars, runVars
  <2>3. CASE BindDiskCache(w)
    <3>1. /\ job' = [job EXCEPT ![w].loaded = Missing] /\ memory' = job[w].loaded
          /\ pc' = [pc EXCEPT ![w] = "lookup"] /\ pc[w] = "bind"
      BY <2>3 DEF BindDiskCache, At, Goto, Note
    <3>2. memory' \in OwnCaches /\ memory' \in Caches
      BY <1>11, <3>1 DEF JobHolds, OwnCaches
    <3>3. job' \in [Workers -> Jobs] /\ pc' \in [Workers -> Pcs]
      BY <1>11, <3>1 DEF Jobs, Pcs
    <3>4. \A o \in Workers : JobHolds(o)'
      BY <1>11, <3>1, <3>2 DEF JobHolds, Jobs
    <3> QED
      BY <2>3, <3>2, <3>3, <3>4 DEF BindDiskCache, worldVars, runVars
  <2>4. CASE LookupHit(w)
    <3> DEFINE m == job[w].model
    <3>1. m \in Models /\ memory \in OwnCaches /\ job[w].hash \in Contents[m]
      BY <1>11, <2>4 DEF LookupHit, At, JobHolds
    <3>2. memory[NameOf[m]].results \in OwnRows(m)
      BY <2>4, <3>1 DEF LookupHit, Hit, Now, OwnCaches
    <3>3. lineage' = [lineage EXCEPT ![m] = memory[NameOf[m]].results]
      BY <2>4 DEF LookupHit, Now
    <3> HIDE DEF m
    <3>4. /\ lineage' \in [Models -> Results \cup {Missing}]
          /\ \A k \in Models : lineage'[k] \in OwnRows(k) \cup {Missing}
      BY <3>1, <3>2, <3>3 DEF OwnRows
    <3> QED
      BY <1>11, <2>4, <3>4 DEF LookupHit, At, Goto, Finish, NoJob, JobHolds, worldVars, runVars,
         Jobs, Pcs
  <2>5. CASE LookupMiss(w)
    BY <1>11, <2>5 DEF LookupMiss, At, Goto, JobHolds, worldVars, runVars, cacheVars, Pcs
  <2>6. CASE Compute(w)
    <3> DEFINE r == KeepOwn(job[w].model, ColumnLineage(job[w].model))
    <3>1. r \in OwnRows(job[w].model)
      BY <1>11, <2>6, ComputedIsOwn DEF Compute, At, JobHolds
    <3>2. job' = [job EXCEPT ![w].results = r]
      BY <2>6 DEF Compute, Note, Now
    <3> HIDE DEF r
    <3>3. r \in Results
      BY <3>1 DEF OwnRows
    <3> QED
      BY <1>11, <2>6, <3>1, <3>2, <3>3 DEF Compute, At, Goto, JobHolds, worldVars, runVars,
         cacheVars, Jobs, Pcs
  <2>7. CASE ComputeRaises(w)
    <3>1. job' = [job EXCEPT ![w].results = Failed]
      BY <2>7 DEF ComputeRaises, Note
    <3>2. job[w].model \in Models /\ Failed \in OwnRows(job[w].model)
      BY <1>11, <2>7, FailedIsOwn DEF ComputeRaises, At, JobHolds
    <3>3. Failed \in Results
      BY <3>2 DEF OwnRows
    <3> QED
      BY <1>11, <2>7, <3>1, <3>2, <3>3 DEF ComputeRaises, At, Goto, JobHolds, worldVars, runVars,
         cacheVars, Jobs, Pcs
  <2>8. CASE StoreLineage(w)
    <3> DEFINE m == job[w].model
               r == job[w].results
    <3>1. m \in Models /\ r \in OwnRows(m)
      BY <1>11, <2>8 DEF StoreLineage, At, JobHolds
    <3>2. lineage' = [lineage EXCEPT ![m] = r]
      BY <2>8 DEF StoreLineage, Now
    <3>3. \/ pc' = [pc EXCEPT ![w] = "lock"] /\ job' = job /\ r # Failed
          \/ pc' = [pc EXCEPT ![w] = "idle"] /\ job' = [job EXCEPT ![w] = NoJob]
      BY <2>8 DEF StoreLineage, Persists, Goto, Finish
    <3> HIDE DEF m
    <3>4. lineage' \in [Models -> Results \cup {Missing}]
      BY <3>1, <3>2 DEF OwnRows
    <3>5. \A k \in Models : lineage'[k] \in OwnRows(k) \cup {Missing}
      BY <3>1, <3>2
    <3>6. pc' \in [Workers -> Pcs] /\ job' \in [Workers -> Jobs]
      <4>1. NoJob \in Jobs
        BY DEF Jobs, NoJob
      <4>2. pc' \in [Workers -> Pcs]
        BY <3>3 DEF Pcs
      <4>3. job' \in [Workers -> Jobs]
        BY <3>3, <4>1
      <4> QED
        BY <4>2, <4>3
    <3>7. \A o \in Workers : JobHolds(o)'
      <4>1. memory' = memory /\ pc[w] = "store"
        BY <2>8 DEF StoreLineage, At
      <4>2. JobHolds(w)'
        BY <1>11, <3>1, <3>3, <4>1 DEF JobHolds, m
      <4>3. ASSUME NEW o \in Workers, o # w PROVE JobHolds(o)'
        BY <3>3, <4>1, <4>3 DEF JobHolds
      <4> QED
        BY <4>2, <4>3
    <3> QED
      BY <2>8, <3>4, <3>5, <3>6, <3>7 DEF StoreLineage, worldVars, runVars
  <2>9. CASE AcquireCache(w)
    <3>1. /\ job' = [job EXCEPT ![w].dict = generation]
          /\ pc' = [pc EXCEPT ![w] = "put"] /\ pc[w] = "lock"
      BY <2>9 DEF AcquireCache, At, Goto, Note
    <3>2. job'[w] \in Jobs /\ job'[w].dict = generation
          /\ \A f \in {"model", "hash", "results", "loaded"} : job'[w][f] = job[w][f]
      BY <1>11, <3>1 DEF Jobs
    <3>3. JobHolds(w)'
      BY <1>11, <2>9, <3>1, <3>2 DEF AcquireCache, JobHolds
    <3>4. ASSUME NEW o \in Workers, o # w PROVE JobHolds(o)'
      BY <2>9, <3>1, <3>4 DEF AcquireCache, JobHolds
    <3>5. pc' \in [Workers -> Pcs] /\ job' \in [Workers -> Jobs]
      BY <1>11, <3>1, <3>2 DEF Pcs
    <3> QED
      BY <1>11, <2>9, <3>3, <3>4, <3>5 DEF AcquireCache, worldVars, runVars
  <2>10. CASE PutEntry(w)
    <3>1. memory' \in OwnCaches
      BY <2>10, PutKeepsOwn DEF PutEntry, JobHolds, At, Now
    <3> QED
      BY <1>11, <2>10, <3>1 DEF PutEntry, At, Goto, JobHolds, worldVars, runVars, Pcs, OwnCaches
  <2>11. CASE WriteTemp(w)
    BY <1>11, <2>11 DEF WriteTemp, At, Goto, Note, JobHolds, worldVars, runVars, cacheVars, Jobs,
       Pcs, OwnCaches
  <2>12. CASE ReplaceFile(w)
    BY <1>11, <2>12 DEF ReplaceFile, At, Goto, Finish, NoJob, JobHolds, worldVars, runVars, Jobs,
       Pcs, OwnCaches
  <2>13. CASE SaveFails(w)
    BY <1>11, <2>13 DEF SaveFails, Goto, Finish, NoJob, JobHolds, worldVars, runVars, Jobs, Pcs
  <2> QED
    BY <1>10, <1>11, <2>1, <2>2, <2>3, <2>4, <2>5, <2>6, <2>7, <2>8, <2>9, <2>10, <2>11, <2>12,
       <2>13, <2>l, CllAssumption DEF Step
<1>12. CASE UNCHANGED vars
  BY <1>12 DEF vars, worldVars, runVars, cacheVars, threadVars, JobHolds
<1> QED
  BY <1>1, <1>2, <1>3, <1>4, <1>5, <1>6, <1>7, <1>8, <1>9, <1>10, <1>11, <1>12 DEF Next, Run

LEMMA OwnInvHolds == Spec => []OwnInv
BY InitOwn, NextOwn, PTL DEF Spec

(* Type correctness of the cache, its threads and the artefacts, for every *)
(* project and every pattern of failures and edits.                        *)
THEOREM CllTypeCorrect == Spec => []TypeOK
<1>1. OwnInv => TypeOK
  BY DEF OwnInv
<1> QED
  BY <1>1, OwnInvHolds, PTL

(* No run hands a model whose text no namesake can have, and which has     *)
(* columns of its own, the rows of another one: LineageIsOwn of            *)
(* get_cll_results, for any number of models sharing a name, also where    *)
(* others of them are alike, any threads, failures, edits and scopes.      *)
THEOREM RowsAreOwn == Spec => []LineageIsOwn
<1>1. OwnInv => LineageIsOwn
  BY DEF OwnInv, LineageIsOwn, OwnRows, Told
<1> QED
  BY <1>1, OwnInvHolds, PTL

-----------------------------------------------------------------------------
(* Truth of what is cached, when nothing is edited in the middle of a run, *)
(* dbt compile never fails half way and a run is about the whole project:  *)
(* then every text the resolver reads is the one the hash was taken from.  *)
(* Each of the three is needed: the run cll_threads rests on them, and     *)
(* cll_any_world, which drops them, does not state these properties.       *)

CalmWorld ==
    /\ ~EditsMidRun
    /\ "compile" \notin Failing
    /\ \A s \in Scopes : s = Models

TrueRows(m, h) == {{<<m, <<h, k>>>>} : k \in 0..MaxMacroEdits}
TrueCaches == {c \in Caches : \A n \in Names : c[n] # Missing =>
                   \E m \in Models : /\ NameOf[m] = n /\ c[n].hash \in Contents[m]
                                     /\ c[n].results \in TrueRows(m, c[n].hash)}

(* A fresh artefact was compiled from the source as it is. *)
Fresh(m) == ~outdated[m] /\ compiled[m] # Missing /\ compiled[m][1] = source[m]

TrueJob(w) ==
    /\ pc[w] # "idle" => phase = "lineage"
    /\ pc[w] \notin {"idle", "hash"} => job[w].hash = Hash(job[w].model)
    /\ pc[w] \in {"bind", "replace"} => job[w].loaded \in TrueCaches
    /\ pc[w] \notin {"idle", "hash", "load", "bind"} => memory \in TrueCaches
    /\ pc[w] = "store" => job[w].results \in TrueRows(job[w].model, job[w].hash) \cup {Failed}
    /\ pc[w] \in {"lock", "put", "write", "replace"} =>
          job[w].results \in TrueRows(job[w].model, job[w].hash)

TruthInv ==
    /\ OwnInv
    /\ \A m \in Models : ~outdated[m] => Fresh(m)
    /\ phase # "idle" => scope = Models
    /\ phase \in {"compile", "render"} => \A m \in Models \ stale : Fresh(m)
    /\ phase = "render" => \A m \in stale : rendered[m] = Rendered(m)
    /\ phase = "lineage" => \A m \in Models : Fresh(m)
    /\ file \in TrueCaches
    /\ memory \in TrueCaches \cup {Missing}
    /\ \A m \in Models : OwnText(m) =>
          lineage[m] \in TrueRows(m, Hash(m)) \cup {Failed, Missing}
    /\ phase = "idle" => \A m \in Models : lineage[m] = Missing
    /\ \A w \in Workers : TrueJob(w)
-----------------------------------------------------------------------------
LEMMA NoEntriesTrue == NoEntries \in TrueCaches
BY DEF NoEntries, TrueCaches, Caches

LEMMA PutKeepsTrue ==
    ASSUME NEW c \in TrueCaches, NEW m \in Models, NEW h \in Contents[m],
           NEW r \in TrueRows(m, h) \cap Results
    PROVE  [c EXCEPT ![NameOf[m]] = [hash |-> h, results |-> r]] \in TrueCaches
<1> DEFINE e == [hash |-> h, results |-> r]
           d == [c EXCEPT ![NameOf[m]] = e]
<1>1. e \in Entry /\ e.hash = h /\ e.results = r
  BY CllAssumption DEF Entry, Hashes
<1>2. c \in Caches
  BY DEF TrueCaches
<1>3. d \in Caches
  BY <1>1, <1>2 DEF Caches
<1>4. ASSUME NEW n \in Names, d[n] # Missing
      PROVE  \E k \in Models : /\ NameOf[k] = n /\ d[n].hash \in Contents[k]
                               /\ d[n].results \in TrueRows(k, d[n].hash)
  <2>1. CASE n = NameOf[m]
    <3>1. d[n] = e
      BY <1>2, <2>1 DEF Caches
    <3> QED
      BY <1>1, <2>1, <3>1
  <2>2. CASE n # NameOf[m]
    <3>1. d[n] = c[n]
      BY <1>2, <2>2 DEF Caches
    <3> QED
      BY <1>4, <3>1 DEF TrueCaches
  <2> QED
    BY <2>1, <2>2
<1> HIDE DEF d
<1>5. d \in TrueCaches
  BY <1>3, <1>4 DEF TrueCaches
<1> QED
  BY <1>5 DEF d

(* A hit on a hash no namesake can have is a hit on the model's own rows.  *)
LEMMA HitIsTrue ==
    ASSUME NEW c \in TrueCaches, NEW m \in Models, OwnText(m),
           c[NameOf[m]] # Missing, c[NameOf[m]].hash \in Contents[m]
    PROVE  c[NameOf[m]].results \in TrueRows(m, c[NameOf[m]].hash)
<1>1. NameOf[m] \in Names
  BY DEF Names
<1>2. PICK k \in Models : /\ NameOf[k] = NameOf[m] /\ c[NameOf[m]].hash \in Contents[k]
                         /\ c[NameOf[m]].results \in TrueRows(k, c[NameOf[m]].hash)
  BY <1>1 DEF TrueCaches
<1>3. k = m
  BY <1>2 DEF OwnText
<1> QED
  BY <1>2, <1>3

(* What the resolver reads off a fresh artefact. *)
LEMMA ComputedIsTrue ==
    ASSUME TypeOK, NEW m \in Models, Fresh(m)
    PROVE  KeepOwn(m, ColumnLineage(m)) \in TrueRows(m, Hash(m))
<1>1. PICK v \in Versions, k \in 0..MaxMacroEdits : compiled[m] = <<v, k>>
  BY DEF Fresh, TypeOK, Texts
<1>2. v = source[m]
  BY <1>1 DEF Fresh
<1>3. RowsOf(m) = {<<m, <<source[m], k>>>>}
  BY <1>1, <1>2 DEF RowsOf, Fresh
<1>4. KeepOwn(m, ColumnLineage(m)) = {<<m, <<source[m], k>>>>}
  BY <1>3, KeptRows
<1> QED
  BY <1>1, <1>4 DEF TrueRows, Hash

LEMMA InitTruth == Init => TruthInv
<1> SUFFICES ASSUME Init PROVE TruthInv
  OBVIOUS
<1>1. OwnInv
  BY InitOwn
<1>2. file \in TrueCaches
  BY NoEntriesTrue DEF Init
<1>3. \A w \in Workers : TrueJob(w)
  BY DEF Init, FreshProcess, TrueJob
<1> QED
  BY <1>1, <1>2, <1>3 DEF Init, FreshProcess, TruthInv

(* An edit or a compile by the user happens between runs. *)
LEMMA ThreadsAreIdle ==
    ASSUME TruthInv, phase = "idle"
    PROVE  \A w \in Workers : pc[w] = "idle"
BY DEF TruthInv, TrueJob

(* A step of the run itself leaves what the threads hold alone. *)
LEMMA NextTruth == CalmWorld /\ TruthInv /\ [Next]_vars => TruthInv'
<1> SUFFICES ASSUME CalmWorld, TruthInv, [Next]_vars PROVE TruthInv'
  OBVIOUS
<1>a. OwnInv /\ OwnInv'
  BY NextOwn DEF TruthInv
<1>b. TypeOK /\ TypeOK' /\ \A w \in Workers : JobHolds(w) /\ JobHolds(w)'
  BY <1>a DEF OwnInv
<1>1. ASSUME NEW m \in Models, NEW v \in Versions, EditSource(m, v) PROVE TruthInv'
  <2>1. phase = "idle" /\ phase' = "idle"
    BY <1>1 DEF EditSource, CalmWorld
  <2>2. \A w \in Workers : TrueJob(w)'
    BY <1>1, <2>1, ThreadsAreIdle DEF EditSource, threadVars, TrueJob
  <2>3. \A k \in Models : ~outdated[k]' => Fresh(k)'
    BY <1>1, <1>b DEF EditSource, TruthInv, Fresh, TypeOK
  <2>4. \A k \in Models : lineage'[k] = Missing
    BY <1>1, <2>1 DEF EditSource, TruthInv, cacheVars
  <2> QED
    BY <1>1, <1>a, <2>1, <2>2, <2>3, <2>4 DEF EditSource, TruthInv, cacheVars
<1>2. CASE EditMacros
  <2>1. phase = "idle" /\ phase' = "idle"
    BY <1>2 DEF EditMacros, CalmWorld
  <2>2. \A w \in Workers : TrueJob(w)'
    BY <1>2, <2>1, ThreadsAreIdle DEF EditMacros, threadVars, TrueJob
  <2> QED
    BY <1>2, <1>a, <2>1, <2>2 DEF EditMacros, TruthInv, Fresh, cacheVars, Hash
<1>3. ASSUME NEW m \in Models, UserCompiles(m) PROVE TruthInv'
  <2>1. phase = "idle" /\ phase' = "idle"
    BY <1>3 DEF UserCompiles, CalmWorld
  <2>2. \A w \in Workers : TrueJob(w)'
    BY <1>3, <2>1, ThreadsAreIdle DEF UserCompiles, threadVars, TrueJob
  <2>3. /\ compiled' = [compiled EXCEPT ![m] = <<source[m], macros>>]
        /\ outdated' = [outdated EXCEPT ![m] = FALSE] /\ source' = source
    BY <1>3 DEF UserCompiles, Rendered
  <2>4. compiled'[m] # Missing /\ compiled'[m][1] = source'[m]
    BY <1>b, <2>3, MissingAssumption DEF TypeOK, Texts
  <2>5. \A k \in Models : ~outdated'[k] => Fresh(k)'
    BY <1>b, <2>3, <2>4 DEF TruthInv, Fresh, TypeOK
  <2> QED
    BY <1>3, <1>a, <2>1, <2>2, <2>5 DEF UserCompiles, TruthInv, cacheVars, Hash
<1>4. ASSUME NEW s \in Scopes, StartRun(s) PROVE TruthInv'
  BY <1>4, <1>a, ThreadsAreIdle DEF StartRun, CalmWorld, TruthInv, TrueJob, Fresh, Hash, worldVars,
     cacheVars, threadVars
<1>5. CASE CheckFreshness
  BY <1>5, <1>a DEF CheckFreshness, IsCompiledSqlStale, TruthInv, TrueJob, Fresh, Hash, worldVars,
     cacheVars, threadVars
<1>6. CASE DbtReads
  <2>1. \A m \in stale : rendered'[m] = Rendered(m)'
    BY <1>6, <1>b DEF DbtReads, Rendered, worldVars, TypeOK
  <2>2. \A m \in Models \ stale : Fresh(m)'
    BY <1>6 DEF DbtReads, TruthInv, Fresh, worldVars
  <2> QED
    BY <1>6, <1>a, <2>1, <2>2 DEF DbtReads, TruthInv, TrueJob, Fresh, Hash, worldVars, cacheVars,
       threadVars
<1>7. CASE BulkCompile
  <2>1. /\ compiled' = [k \in Models |-> IF k \in stale THEN rendered[k] ELSE compiled[k]]
        /\ outdated' = [k \in Models |-> k \notin stale /\ outdated[k]]
        /\ source' = source
    BY <1>7 DEF BulkCompile, DbtWrites
  <2>2. \A k \in Models : Fresh(k)'
    <3>1. ASSUME NEW k \in stale PROVE Fresh(k)'
      <4>1. k \in Models /\ rendered[k] = <<source[k], macros>>
        BY <1>7, <1>b DEF BulkCompile, TruthInv, Rendered, TypeOK
      <4>2. <<source[k], macros>> # Missing
        BY <1>b, <4>1, MissingAssumption DEF TypeOK, Texts
      <4>3. compiled'[k] = <<source[k], macros>> /\ ~outdated'[k]
        BY <2>1, <4>1
      <4> QED
        BY <2>1, <4>2, <4>3 DEF Fresh
    <3>2. ASSUME NEW k \in Models \ stale PROVE Fresh(k)'
      BY <1>7, <2>1, <3>2 DEF BulkCompile, TruthInv, Fresh
    <3> QED
      BY <3>1, <3>2
  <2> QED
    BY <1>7, <1>a, <2>1, <2>2 DEF BulkCompile, TruthInv, TrueJob, Hash, runVars, cacheVars,
       threadVars
<1>8. CASE BulkCompileFails
  BY <1>8 DEF BulkCompileFails, MayFail, CalmWorld
<1>9. CASE EndRun \/ Crash
  BY <1>9, <1>a DEF EndRun, Crash, ProcessEnds, TruthInv, TrueJob, Fresh, worldVars
<1>10. ASSUME NEW w \in Workers, NEW m \in Models, Ask(w, m) PROVE TruthInv'
  BY <1>10, <1>a, <1>b DEF Ask, At, Goto, Note, TruthInv, TrueJob, TypeOK, Fresh, Hash, worldVars,
     runVars, cacheVars, Jobs
<1>11. ASSUME NEW w \in Workers, Step(w) PROVE TruthInv'
  <2> USE <1>a, <1>b DEF TypeOK
  <2>0. ASSUME pc[w] # "idle", UNCHANGED <<worldVars, phase, runVars>>, UNCHANGED lineage,
               file' \in TrueCaches, memory' = memory \/ memory' \in TrueCaches,
               TrueJob(w)',
               \A o \in Workers : o # w => pc'[o] = pc[o] /\ job'[o] = job[o]
        PROVE  TruthInv'
    BY <2>0 DEF TruthInv, TrueJob, Fresh, Hash, Rendered, worldVars, runVars
  <2>p. pc[w] # "idle" => phase = "lineage" /\ \A m \in Models : Fresh(m)
    BY DEF TruthInv, TrueJob
  <2>1. CASE HashSource(w)
    <3>1. TrueJob(w)'
      BY <2>1, <2>p DEF HashSource, At, Goto, Note, Now, TrueJob, TruthInv, Hash, worldVars,
         cacheVars, Jobs
    <3> QED
      BY <2>1, <2>0, <3>1 DEF HashSource, At, Goto, Note, TruthInv, cacheVars
  <2>2. CASE LoadDiskCache(w)
    <3>1. TrueJob(w)'
      BY <2>2, <2>p DEF LoadDiskCache, At, Goto, Note, TrueJob, TruthInv, Hash, worldVars, Jobs
    <3> QED
      BY <2>2, <2>0, <3>1 DEF LoadDiskCache, At, Goto, Note, TruthInv, cacheVars
  <2>l. CASE LoadFails(w)
    <3>1. TrueJob(w)'
      BY <2>l, <2>p, NoEntriesTrue DEF LoadFails, At, Goto, Note, TrueJob, TruthInv, Hash, worldVars,
         Jobs
    <3> QED
      BY <2>l, <2>0, <3>1 DEF LoadFails, At, Goto, Note, TruthInv
  <2>3. CASE BindDiskCache(w)
    <3>1. TrueJob(w)'
      BY <2>3, <2>p DEF BindDiskCache, At, Goto, Note, TrueJob, TruthInv, Hash, worldVars, Jobs
    <3>2. memory' \in TrueCaches
      BY <2>3 DEF BindDiskCache, At, TruthInv, TrueJob
    <3> QED
      BY <2>3, <2>0, <3>1, <3>2 DEF BindDiskCache, At, Goto, Note, TruthInv
  <2>4. CASE LookupHit(w)
    <3> DEFINE m == job[w].model
               e == memory[NameOf[m]]
    <3>1. m \in Models /\ memory \in TrueCaches
      BY <2>4 DEF LookupHit, At, JobHolds, TruthInv, TrueJob
    <3>2. job[w].hash = Hash(m) /\ e # Missing /\ e.hash = Hash(m) /\ Hash(m) \in Contents[m]
      BY <2>4, <3>1 DEF LookupHit, At, Hit, Now, TruthInv, TrueJob, Hash
    <3>3. OwnText(m) => e.results \in TrueRows(m, Hash(m))
      BY <3>1, <3>2, HitIsTrue
    <3>4. lineage' = [lineage EXCEPT ![m] = e.results]
      BY <2>4 DEF LookupHit, Now
    <3> HIDE DEF m, e
    <3>5. \A k \in Models : OwnText(k) =>
             lineage'[k] \in TrueRows(k, Hash(k)) \cup {Failed, Missing}
      BY <3>1, <3>3, <3>4 DEF TruthInv
    <3>6. \A o \in Workers : TrueJob(o)'
      BY <2>4, <2>p DEF LookupHit, At, Goto, Finish, NoJob, TruthInv, TrueJob, Hash, worldVars
    <3> QED
      BY <2>4, <2>p, <3>5, <3>6 DEF LookupHit, At, TruthInv, Fresh, Hash, worldVars, runVars
  <2>5. CASE LookupMiss(w)
    <3>1. TrueJob(w)'
      BY <2>5, <2>p DEF LookupMiss, At, Goto, TrueJob, TruthInv, Hash, worldVars, cacheVars
    <3> QED
      BY <2>5, <2>0, <3>1 DEF LookupMiss, At, Goto, TruthInv, cacheVars
  <2>6. CASE Compute(w)
    <3>1. job[w].model \in Models /\ job[w].hash = Hash(job[w].model) /\ Fresh(job[w].model)
      BY <2>6, <2>p DEF Compute, At, JobHolds, TruthInv, TrueJob
    <3> DEFINE r == KeepOwn(job[w].model, ColumnLineage(job[w].model))
    <3>2. r \in TrueRows(job[w].model, job[w].hash)
      BY <3>1, ComputedIsTrue
    <3>3. job' = [job EXCEPT ![w].results = r]
      BY <2>6 DEF Compute, Note, Now
    <3> HIDE DEF r
    <3>4. TrueJob(w)'
      <4>1. job'[w].results = r /\ job'[w].model = job[w].model /\ job'[w].hash = job[w].hash
        BY <3>3 DEF Jobs
      <4>2. pc'[w] = "store" /\ phase' = "lineage" /\ memory' = memory /\ memory \in TrueCaches
        BY <2>6, <2>p DEF Compute, At, Goto, TrueJob, TruthInv, cacheVars
      <4>3. Hash(job[w].model)' = Hash(job[w].model)
        BY <2>6, <4>1 DEF Compute, Hash, worldVars
      <4> QED
        BY <3>1, <3>2, <4>1, <4>2, <4>3 DEF TrueJob
    <3> QED
      BY <2>6, <2>0, <3>3, <3>4 DEF Compute, At, Goto, TruthInv, cacheVars
  <2>7. CASE ComputeRaises(w)
    <3>1. TrueJob(w)'
      BY <2>7, <2>p DEF ComputeRaises, At, Goto, Note, TrueJob, TruthInv, Hash, worldVars,
         cacheVars, Jobs
    <3> QED
      BY <2>7, <2>0, <3>1 DEF ComputeRaises, At, Goto, Note, TruthInv, cacheVars
  <2>8. CASE StoreLineage(w)
    <3> DEFINE m == job[w].model
    <3>1. m \in Models /\ job[w].results \in TrueRows(m, Hash(m)) \cup {Failed}
      BY <2>8 DEF StoreLineage, At, JobHolds, TruthInv, TrueJob
    <3>2. \A k \in Models : OwnText(k) =>
             lineage'[k] \in TrueRows(k, Hash(k)) \cup {Failed, Missing}
      BY <2>8, <3>1 DEF StoreLineage, Now, TruthInv
    <3>3. \A o \in Workers : TrueJob(o)'
      BY <2>8, <2>p DEF StoreLineage, Persists, At, Goto, Finish, NoJob, TruthInv, TrueJob, Hash,
         worldVars
    <3> QED
      BY <2>8, <2>p, <3>2, <3>3 DEF StoreLineage, At, TruthInv, Fresh, Hash, worldVars, runVars
  <2>9. CASE AcquireCache(w)
    <3>1. TrueJob(w)'
      BY <2>9, <2>p DEF AcquireCache, At, Goto, Note, TrueJob, TruthInv, Hash, worldVars, Jobs
    <3> QED
      BY <2>9, <2>0, <3>1 DEF AcquireCache, At, Goto, Note, TruthInv
  <2>10. CASE PutEntry(w)
    <3>1. /\ job[w].model \in Models /\ job[w].hash \in Contents[job[w].model]
          /\ job[w].results \in TrueRows(job[w].model, job[w].hash) \cap Results
      BY <2>10 DEF PutEntry, At, JobHolds, OwnRows, TruthInv, TrueJob
    <3>2. memory \in TrueCaches
      BY <2>10 DEF PutEntry, At, TruthInv, TrueJob
    <3>3. memory' \in TrueCaches
      BY <2>10, <3>1, <3>2, PutKeepsTrue DEF PutEntry, Now
    <3>4. TrueJob(w)'
      BY <2>10, <2>p, <3>3 DEF PutEntry, At, Goto, TrueJob, TruthInv, Hash, worldVars
    <3> QED
      BY <2>10, <2>0, <3>3, <3>4 DEF PutEntry, At, Goto, TruthInv
  <2>11. CASE WriteTemp(w)
    <3>1. memory \in TrueCaches
      BY <2>11 DEF WriteTemp, At, TruthInv, TrueJob
    <3>2. TrueJob(w)'
      BY <2>11, <2>p, <3>1 DEF WriteTemp, At, Goto, Note, TrueJob, TruthInv, Hash, worldVars,
         cacheVars, Jobs
    <3> QED
      BY <2>11, <2>0, <3>2 DEF WriteTemp, At, Goto, Note, TruthInv, cacheVars
  <2>12. CASE ReplaceFile(w)
    <3>1. TrueJob(w)'
      BY <2>12, <2>p DEF ReplaceFile, At, Goto, Finish, NoJob, TrueJob
    <3>2. file' \in TrueCaches
      BY <2>12 DEF ReplaceFile, At, TruthInv, TrueJob
    <3> QED
      BY <2>12, <2>0, <3>1, <3>2 DEF ReplaceFile, At, Goto, Finish, TruthInv
  <2>13. CASE SaveFails(w)
    <3>1. TrueJob(w)'
      BY <2>13, <2>p DEF SaveFails, Goto, Finish, NoJob, TrueJob
    <3> QED
      BY <2>13, <2>0, <3>1 DEF SaveFails, Goto, Finish, TruthInv
  <2> QED
    BY <1>10, <1>11, <2>1, <2>2, <2>3, <2>4, <2>5, <2>6, <2>7, <2>8, <2>9, <2>10, <2>11, <2>12,
       <2>13, <2>l, CllAssumption DEF Step
<1>12. CASE UNCHANGED vars
  BY <1>12, <1>a DEF vars, worldVars, runVars, cacheVars, threadVars, TruthInv, TrueJob, Fresh,
     Hash, Rendered
<1> QED
  BY <1>1, <1>2, <1>3, <1>4, <1>5, <1>6, <1>7, <1>8, <1>9, <1>10, <1>11, <1>12 DEF Next, Run

(* A persisted entry is the lineage of the text its hash was taken from,   *)
(* for any number of models, names, threads, crashes, failed analyses and  *)
(* failed saves: CacheIsTruthful of integration/cll.py:268.                *)
THEOREM CacheTruth == ASSUME CalmWorld PROVE Spec => []CacheIsTruthful
<1>1. TruthInv /\ [Next]_vars => TruthInv'
  BY NextTruth
<1>2. TruthInv => CacheIsTruthful
  BY DEF TruthInv, CacheIsTruthful, TrueCaches, TrueRows
<1> QED
  BY <1>1, <1>2, InitTruth, PTL DEF Spec

(* What a run is given for a model whose text no namesake can have is the  *)
(* lineage of the model as dbt renders it now, when macros and variables   *)
(* stay as they are, which no hash covers.                                 *)
THEOREM LineageTruth ==
    ASSUME CalmWorld, MaxMacroEdits = 0 PROVE Spec => []LineageIsCurrent
<1>1. TruthInv /\ [Next]_vars => TruthInv'
  BY NextTruth
<1>2. TruthInv => LineageIsCurrent
  <2> SUFFICES ASSUME TruthInv, NEW m \in Models, OwnText(m), lineage[m] \notin {Missing, Failed}
               PROVE  lineage[m] = {<<m, Rendered(m)>>}
    BY DEF LineageIsCurrent
  <2>1. macros = 0
    BY DEF TruthInv, OwnInv, TypeOK
  <2>2. PICK k \in 0..MaxMacroEdits : lineage[m] = {<<m, <<source[m], k>>>>}
    BY DEF TruthInv, TrueRows, Hash
  <2> QED
    BY <2>1, <2>2 DEF Rendered
<1> QED
  BY <1>1, <1>2, InitTruth, PTL DEF Spec

-----------------------------------------------------------------------------
(* What the file has an entry for is never lost as long as one thread at a *)
(* time resolves lineage: the dict bound in memory, and the copy of it a   *)
(* save is about to install, name everything the file names, unless the    *)
(* file could not be read.  With several threads an unlocked load can bind *)
(* an older dict over a newer one.                                         *)

SingleThread == \A v, w \in Workers : v = w
Covers(c) == \A n \in Names : file[n] # Missing => c[n] # Missing

CoverInv ==
    /\ OwnInv
    /\ memory # Missing /\ ~unread => Covers(memory)
    /\ \A w \in Workers :
          /\ pc[w] = "bind" /\ ~unread => Covers(job[w].loaded)
          /\ pc[w] = "replace" => job[w].loaded = memory /\ memory # Missing

LEMMA InitCover == Init => CoverInv
BY InitOwn DEF Init, FreshProcess, CoverInv

(* One entry more, and none less. *)
LEMMA PutKeepsCover ==
    ASSUME memory \in Caches, Covers(memory), NEW n \in Names, NEW e \in Entry
    PROVE  Covers([memory EXCEPT ![n] = e])
BY MissingAssumption DEF Covers, Caches

LEMMA NextCover == SingleThread /\ CoverInv /\ [Next]_vars => CoverInv'
<1> SUFFICES ASSUME SingleThread, CoverInv, [Next]_vars PROVE CoverInv'
  OBVIOUS
<1>a. OwnInv /\ OwnInv'
  BY NextOwn DEF CoverInv
<1>b. TypeOK /\ TypeOK' /\ \A w \in Workers : JobHolds(w)
  BY <1>a DEF OwnInv
<1>1. CASE UNCHANGED <<file, memory, unread, threadVars>>
  BY <1>1, <1>a DEF CoverInv, Covers, threadVars
<1>2. CASE EndRun \/ Crash
  BY <1>2, <1>a DEF EndRun, Crash, ProcessEnds, CoverInv
<1>3. ASSUME NEW w \in Workers, NEW m \in Models, Ask(w, m) PROVE CoverInv'
  BY <1>3, <1>a, <1>b DEF Ask, At, Goto, Note, CoverInv, Covers, cacheVars, TypeOK, SingleThread
<1>4. ASSUME NEW w \in Workers, Step(w) PROVE CoverInv'
  <2> USE <1>a, <1>b DEF TypeOK, SingleThread
  <2>0. ASSUME UNCHANGED <<file, memory, unread>>, pc'[w] \notin {"bind", "replace"}
        PROVE  CoverInv'
    BY <2>0 DEF CoverInv, Covers
  <2>1. CASE LoadDiskCache(w)
    <3>1. job'[w].loaded = file /\ UNCHANGED <<file, memory, unread>> /\ pc'[w] = "bind"
      BY <2>1 DEF LoadDiskCache, Note, Goto, cacheVars, Jobs
    <3> QED
      BY <3>1 DEF CoverInv, Covers
  <2>l. CASE LoadFails(w)
    BY <2>l DEF LoadFails, At, Goto, CoverInv
  <2>2. CASE BindDiskCache(w)
    <3>1. /\ memory' = job[w].loaded /\ UNCHANGED <<file, unread>> /\ pc'[w] = "lookup"
          /\ ~unread => Covers(memory)'
      BY <2>2 DEF BindDiskCache, At, Goto, CoverInv, Covers
    <3> QED
      BY <3>1 DEF CoverInv
  <2>3. CASE PutEntry(w)
    <3>1. /\ memory \in Caches /\ memory # Missing
          /\ NameOf[Now(w)] \in Names
          /\ [hash |-> job[w].hash, results |-> job[w].results] \in Entry
      <4>1. memory \in OwnCaches /\ job[w].model \in Models
            /\ job[w].hash \in Contents[job[w].model] /\ job[w].results \in Results
        BY <2>3 DEF PutEntry, At, JobHolds, OwnRows
      <4>2. memory \in Caches /\ memory # Missing
        BY <4>1, MissingAssumption DEF OwnCaches
      <4>3. job[w].hash \in Hashes
        BY <4>1, CllAssumption DEF Hashes
      <4> QED
        BY <4>1, <4>2, <4>3 DEF Now, Names, Entry
    <3>2. ~unread => Covers(memory')
      BY <2>3, <3>1, PutKeepsCover DEF PutEntry, CoverInv
    <3>3. UNCHANGED <<file, unread>> /\ pc'[w] = "write"
      BY <2>3 DEF PutEntry, Goto
    <3> QED
      BY <3>2, <3>3 DEF CoverInv, Covers
  <2>4. CASE WriteTemp(w)
    <3>1. memory # Missing
      BY <2>4, MissingAssumption DEF WriteTemp, At, JobHolds, OwnCaches
    <3>2. job'[w].loaded = memory /\ UNCHANGED <<file, memory, unread>>
      BY <2>4 DEF WriteTemp, Note, cacheVars, Jobs
    <3> QED
      BY <3>1, <3>2 DEF CoverInv, Covers
  <2>5. CASE ReplaceFile(w)
    <3>1. file' = memory /\ UNCHANGED <<memory, unread>> /\ pc'[w] = "idle"
      BY <2>5 DEF ReplaceFile, At, Goto, Finish, CoverInv
    <3> QED
      BY <3>1 DEF CoverInv, Covers
  <2>6. CASE HashSource(w) \/ LookupMiss(w) \/ Compute(w) \/ ComputeRaises(w) \/ AcquireCache(w)
    BY <2>6, <2>0 DEF HashSource, LookupMiss, Compute, ComputeRaises, AcquireCache, Goto, cacheVars
  <2>7. CASE LookupHit(w) \/ StoreLineage(w) \/ SaveFails(w)
    BY <2>7, <2>0 DEF LookupHit, StoreLineage, SaveFails, Finish, Goto
  <2> QED
    BY <1>3, <1>4, <2>1, <2>l, <2>2, <2>3, <2>4, <2>5, <2>6, <2>7, CllAssumption DEF Step
<1>5. ASSUME NEW m \in Models, NEW v \in Versions, EditSource(m, v) PROVE CoverInv'
  BY <1>1, <1>5 DEF EditSource, cacheVars
<1>6. ASSUME NEW m \in Models, UserCompiles(m) PROVE CoverInv'
  BY <1>1, <1>6 DEF UserCompiles, cacheVars
<1>7. ASSUME NEW s \in Scopes, StartRun(s) PROVE CoverInv'
  BY <1>1, <1>7 DEF StartRun, cacheVars
<1>8. CASE EditMacros \/ CheckFreshness \/ DbtReads \/ BulkCompile \/ BulkCompileFails
  BY <1>1, <1>8 DEF EditMacros, CheckFreshness, DbtReads, BulkCompile, BulkCompileFails, cacheVars
<1>9. CASE UNCHANGED vars
  BY <1>1, <1>9 DEF vars, cacheVars
<1> QED
  BY <1>2, <1>3, <1>4, <1>5, <1>6, <1>7, <1>8, <1>9 DEF Next, Run

(* EntriesSurvive of integration/cll.py:7, for one thread and whatever     *)
(* crashes, is edited or fails to be saved, in every process that could    *)
(* read the cache file.                                                    *)
THEOREM EntriesKept == ASSUME SingleThread PROVE Spec => EntriesSurvive
<1>1. CoverInv /\ [Next]_vars => CoverInv'
  BY NextCover
<1>2. CoverInv /\ [Next]_vars => [\A n \in Names : file[n] # Missing /\ ~unread => file'[n] # Missing]_vars
  <2> SUFFICES ASSUME CoverInv, [Next]_vars, NEW n \in Names, file[n] # Missing, ~unread
               PROVE  file'[n] # Missing
    OBVIOUS
  <2>1. ASSUME NEW w \in Workers, ReplaceFile(w) PROVE file'[n] # Missing
    BY <2>1 DEF ReplaceFile, At, CoverInv, Covers
  <2>2. CASE UNCHANGED file
    BY <2>2
  <2>3. file' = file \/ \E w \in Workers : ReplaceFile(w)
    <3>1. ASSUME NEW w \in Workers, Step(w) \/ \E m \in Models : Ask(w, m)
          PROVE  file' = file \/ ReplaceFile(w)
      BY <3>1 DEF Step, Ask, HashSource, LoadDiskCache, LoadFails, BindDiskCache, LookupHit, LookupMiss,
         Compute,
                  ComputeRaises, StoreLineage, AcquireCache, PutEntry, WriteTemp, SaveFails
    <3>2. CASE Run \/ Crash \/ EditMacros
      BY <3>2 DEF Run, StartRun, CheckFreshness, DbtReads, BulkCompile, BulkCompileFails, EndRun,
         Crash, EditMacros
    <3>3. ASSUME NEW m \in Models, UserCompiles(m) \/ \E v \in Versions : EditSource(m, v)
          PROVE  file' = file
      BY <3>3 DEF UserCompiles, EditSource
    <3>4. CASE UNCHANGED vars
      BY <3>4 DEF vars
    <3> QED
      BY <3>1, <3>2, <3>3, <3>4 DEF Next
  <2> QED
    BY <2>1, <2>2, <2>3
<1> QED
  BY <1>1, <1>2, InitCover, PTL DEF Spec, EntriesSurvive
=============================================================================
