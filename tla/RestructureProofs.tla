-------------------------- MODULE RestructureProofs --------------------------
(***************************************************************************)
(* Proofs about the restructuring of schema files, for every project, every*)
(* set of templates and wherever a plan stops: nothing managed is lost, a  *)
(* plan applied in full leaves each model entry once and at home, and what *)
(* it reports is true.                                                     *)
(***************************************************************************)
EXTENDS Restructure, FiniteSetTheorems, SequenceTheorems, TLAPS

-----------------------------------------------------------------------------
(* Sequences, sets of positions and files                                  *)

LEMMA FunIsSeq ==
  ASSUME NEW S, NEW n \in Nat, NEW f \in [1..n -> S]
  PROVE  f \in Seq(S) /\ Len(f) = n /\ DOMAIN f = 1..n
  <1>1. f \in Seq(S)
    OBVIOUS
  <1>2. DOMAIN f = 1..n /\ DOMAIN f = 1..Len(f) /\ Len(f) \in Nat
    BY <1>1, LenProperties
  <1>3. QED
    BY <1>1, <1>2

\* SetToSeq lists every element of a finite set.
LEMMA SetToSeqLists ==
  ASSUME NEW S, IsFiniteSet(S)
  PROVE  /\ Cardinality(S) \in Nat
         /\ SetToSeq(S) \in [1..Cardinality(S) -> S]
         /\ \A x \in S : \E i \in 1..Cardinality(S) : SetToSeq(S)[i] = x
         /\ \A i, j \in 1..Cardinality(S) : SetToSeq(S)[i] = SetToSeq(S)[j] => i = j
  <1> DEFINE n == Cardinality(S)
  <1>1. n \in Nat
    BY FS_CardinalityType
  <1>2. IsFiniteSet(1..n) /\ Cardinality(1..n) = n
    BY <1>1, FS_Interval
  <1>3. PICK f \in Bijection(1..n, S) : TRUE
    BY <1>2, FS_SameCardinalityBij DEF ExistsBijection
  <1>4. f \in [1..n -> S] /\ IsInjective(f)
    BY DEF Bijection, Injection
  <1>5. SetToSeq(S) \in [1..n -> S] /\ IsInjective(SetToSeq(S))
    BY <1>4 DEF SetToSeq
  <1>6. SetToSeq(S) \in Injection(1..n, S)
    BY <1>5 DEF Injection
  <1>7. SetToSeq(S) \in Surjection(1..n, S)
    BY <1>2, <1>6, FS_Injection
  <1>8. \A i, j \in 1..n : SetToSeq(S)[i] = SetToSeq(S)[j] => i = j
    BY <1>5 DEF IsInjective
  <1>9. QED
    BY <1>1, <1>5, <1>7, <1>8 DEF Surjection

\* Nth counts the positions of a finite set in order.
LEMMA NthCounts ==
  ASSUME NEW n \in Nat, NEW T \in SUBSET (1..n)
  PROVE  /\ Cardinality(T) \in Nat
         /\ \A k \in 1..Cardinality(T) : Nth(T, k) \in T
         /\ \A i \in T : \E k \in 1..Cardinality(T) : Nth(T, k) = i
         /\ \A k, l \in 1..Cardinality(T) : Nth(T, k) = Nth(T, l) => k = l
  <1> DEFINE Upto(i) == {j \in T : j <= i}
             rank == [i \in T |-> Cardinality(Upto(i))]
             N == Cardinality(T)
  <1>1. IsFiniteSet(T) /\ N \in Nat
    <2>1. IsFiniteSet(1..n)
      BY FS_Interval
    <2>2. IsFiniteSet(T)
      BY <2>1, FS_Subset
    <2>3. QED
      BY <2>2, FS_CardinalityType
  <1>2. ASSUME NEW i \in T PROVE IsFiniteSet(Upto(i)) /\ Cardinality(Upto(i)) \in 1..N
    <2>1. Upto(i) \in SUBSET T /\ i \in Upto(i)
      OBVIOUS
    <2>2. IsFiniteSet(Upto(i)) /\ Cardinality(Upto(i)) <= N /\ Cardinality(Upto(i)) \in Nat
      BY <1>1, <2>1, FS_Subset, FS_CardinalityType
    <2>3. Cardinality(Upto(i)) # 0
      BY <2>1, <2>2, FS_EmptySet
    <2>4. QED
      BY <1>1, <2>2, <2>3
  <1>3. ASSUME NEW i \in T, NEW j \in T, i < j PROVE Cardinality(Upto(i)) # Cardinality(Upto(j))
    <2>0. i \in Nat /\ j \in Nat /\ ~(j <= i) /\ j <= j /\ \A k \in T : k <= i => k <= j
      BY <1>3
    <2>1. Upto(i) \in SUBSET Upto(j) /\ j \in Upto(j) /\ j \notin Upto(i)
      <3>1. Upto(i) \subseteq Upto(j)
        BY <2>0
      <3>2. j \in Upto(j) /\ j \notin Upto(i)
        BY <2>0
      <3>3. QED
        BY <3>1, <3>2
    <2>2. IsFiniteSet(Upto(j))
      BY <1>2
    <2> HIDE DEF Upto
    <2>3. Upto(i) # Upto(j)
      BY <2>1
    <2>4. QED
      BY <2>1, <2>2, <2>3, FS_Subset
  <1>4. rank \in [T -> 1..N]
    BY <1>2
  <1>5. \A i, j \in T : rank[i] = rank[j] => i = j
    <2> SUFFICES ASSUME NEW i \in T, NEW j \in T, i # j PROVE rank[i] # rank[j]
      OBVIOUS
    <2>1. i < j \/ j < i
      OBVIOUS
    <2>2. QED
      BY <1>3, <2>1
  <1>6. rank \in Injection(T, 1..N)
    BY <1>4, <1>5 DEF Injection, IsInjective
  <1>7. IsFiniteSet(1..N) /\ Cardinality(1..N) = N
    BY <1>1, FS_Interval
  <1>8. rank \in Surjection(T, 1..N)
    BY <1>6, <1>7, FS_Injection
  <1>9. ASSUME NEW k \in 1..N PROVE Nth(T, k) \in T /\ rank[Nth(T, k)] = k
    <2>1. \E i \in T : Cardinality(Upto(i)) = k
      BY <1>8 DEF Surjection
    <2>2. Nth(T, k) \in T /\ Cardinality(Upto(Nth(T, k))) = k
      BY <2>1 DEF Nth
    <2>3. QED
      BY <2>2
  <1>10. ASSUME NEW i \in T PROVE Nth(T, rank[i]) = i /\ rank[i] \in 1..N
    BY <1>4, <1>5, <1>9
  <1>11. \A k, l \in 1..N : Nth(T, k) = Nth(T, l) => k = l
    BY <1>9
  <1>12. QED
    BY <1>1, <1>9, <1>10, <1>11

\* An entry of a document, and a document.
LEMMA ParsedFacts ==
  ASSUME NEW ts \in SUBSET Tables
  PROVE  Parsed(ts) \in Entries /\ Parsed(ts).draft = NoPath /\ Parsed(ts).tables = ts
BY DEF Parsed, Entries

LEMMA DraftedFacts ==
  ASSUME NEW p \in Paths
  PROVE  Drafted(p) \in Entries /\ Drafted(p).draft = p /\ p # NoPath
BY PathsAssumption DEF Drafted, Entries

LEMMA DocFields ==
  ASSUME NEW doc \in Documents
  PROVE  /\ doc.models \in [Names -> Nat] /\ doc.sources \in Seq(Entries)
         /\ doc.other \in BOOLEAN /\ doc.kept \in BOOLEAN
         /\ Len(doc.sources) \in Nat /\ DOMAIN doc.sources = 1..Len(doc.sources)
         /\ \A i \in DOMAIN doc.sources : doc.sources[i] \in Entries
  <1>1. /\ doc.models \in [Names -> Nat] /\ doc.sources \in Seq(Entries)
        /\ doc.other \in BOOLEAN /\ doc.kept \in BOOLEAN
    BY DEF Documents
  <1>2. Len(doc.sources) \in Nat /\ DOMAIN doc.sources = 1..Len(doc.sources)
    BY <1>1, LenProperties
  <1>3. \A i \in DOMAIN doc.sources : doc.sources[i] \in Entries
    BY <1>1, <1>2, ElementOfSeq
  <1>4. QED
    BY <1>1, <1>2, <1>3

LEMMA TablesOfType ==
  ASSUME NEW e \in Entries, NEW objects \in [Paths -> SUBSET Tables]
  PROVE  TablesOf(e, objects) \in SUBSET Tables
BY DEF TablesOf, Entries

LEMMA DocEdits ==
  ASSUME NEW doc \in Documents, NEW models \in [Names -> Nat], NEW sources \in Seq(Entries)
  PROVE  /\ LET d == [doc EXCEPT !.sources = sources]
            IN  d \in Documents /\ d.models = doc.models /\ d.sources = sources /\ d.other = doc.other /\ d.kept = doc.kept
         /\ LET d == [doc EXCEPT !.models = models, !.sources = sources]
            IN  d \in Documents /\ d.models = models /\ d.sources = sources /\ d.other = doc.other /\ d.kept = doc.kept
BY DEF Documents

\* What _write_yaml dumps says what the document says.
LEMMA DumpedFacts ==
  ASSUME NEW doc \in Documents, NEW objects \in [Paths -> SUBSET Tables]
  PROVE  LET out == Dumped(doc, objects)
         IN  /\ out \in Documents /\ out.models = doc.models
             /\ out.other = doc.other /\ out.kept = doc.kept
             /\ Len(out.sources) = Len(doc.sources)
             /\ DOMAIN out.sources = DOMAIN doc.sources
             /\ \A i \in DOMAIN doc.sources : /\ out.sources[i].draft = NoPath
                                              /\ out.sources[i].tables = TablesOf(doc.sources[i], objects)
  <1> DEFINE n == Len(doc.sources)
             sources == [i \in DOMAIN doc.sources |-> Parsed(TablesOf(doc.sources[i], objects))]
             out == Dumped(doc, objects)
  <1>1. n \in Nat /\ DOMAIN doc.sources = 1..n
    BY DocFields
  <1>2. \A i \in DOMAIN doc.sources : TablesOf(doc.sources[i], objects) \in SUBSET Tables
    BY DocFields, TablesOfType
  <1>3. sources \in [1..n -> Entries]
    BY <1>1, <1>2, ParsedFacts
  <1>4. sources \in Seq(Entries) /\ Len(sources) = n /\ DOMAIN sources = DOMAIN doc.sources
    BY <1>1, <1>3, FunIsSeq
  <1>5. \A i \in DOMAIN doc.sources : sources[i].draft = NoPath /\ sources[i].tables = TablesOf(doc.sources[i], objects)
    BY <1>2, ParsedFacts
  <1>6. out = [doc EXCEPT !.sources = sources]
    BY DEF Dumped
  <1> HIDE DEF sources
  <1>7. out \in Documents /\ out.models = doc.models /\ out.sources = sources /\ out.other = doc.other /\ out.kept = doc.kept
    BY <1>4, <1>6 DEF Documents
  <1>8. QED
    BY <1>4, <1>5, <1>7

\* A source list documents a table, and does so once.
Listed(s, t) == \E i \in DOMAIN s : t \in s[i].tables
ListedOnce(s, t) ==
  \E i \in DOMAIN s : t \in s[i].tables /\ \A j \in DOMAIN s : t \in s[j].tables => j = i

\* Entry i of a source list has a table left without the nodes.
Stays(s, nodes, i) == TablesOf(s[i], shared) \ nodes # {}

\* o tells where in list s an entry of list r was, and the entries that stay are there.
ComesFrom(o, r, s, nodes) ==
  /\ o \in [DOMAIN r -> DOMAIN s]
  /\ \A k, l \in DOMAIN r : o[k] = o[l] => k = l
  /\ \A i \in DOMAIN s : Stays(s, nodes, i) => \E k \in DOMAIN r : o[k] = i

\* What the removal of nodes leaves of a source list.
LEMMA SourcesWithoutFacts ==
  ASSUME NEW s \in Seq(Entries), NEW nodes,
         \A i \in DOMAIN s : TablesOf(s[i], shared) \in SUBSET Tables
  PROVE  /\ SourcesWithout(s, nodes) \in Seq(Entries)
         /\ \E o : /\ ComesFrom(o, SourcesWithout(s, nodes), s, nodes)
                   /\ \A k \in DOMAIN SourcesWithout(s, nodes) :
                        Stays(s, nodes, o[k]) /\ SourcesWithout(s, nodes)[k] = s[o[k]]
         /\ (\A i \in DOMAIN s : ~Stays(s, nodes, i)) => SourcesWithout(s, nodes) = <<>>
  <1> DEFINE n == Len(s)
             T == {i \in DOMAIN s : TablesOf(s[i], shared) \ nodes # {}}
             N == Cardinality(T)
             r == SourcesWithout(s, nodes)
             o == [k \in 1..N |-> Nth(T, k)]
  <1>1. n \in Nat /\ DOMAIN s = 1..n /\ T \in SUBSET (1..n)
    BY LenProperties
  <1>2. /\ N \in Nat
        /\ \A k \in 1..N : Nth(T, k) \in T
        /\ \A i \in T : \E k \in 1..N : Nth(T, k) = i
        /\ \A k, l \in 1..N : Nth(T, k) = Nth(T, l) => k = l
    BY <1>1, NthCounts
  <1>3. r = [k \in 1..N |-> s[Nth(T, k)]]
    BY DEF SourcesWithout
  <1>4. \A i \in T : i \in DOMAIN s /\ s[i] \in Entries
    BY <1>1, ElementOfSeq
  <1>5. T = {} => N = 0
    BY FS_EmptySet
  <1>6. \A i \in DOMAIN s : i \in T <=> TablesOf(s[i], shared) \ nodes # {}
    OBVIOUS
  <1> HIDE DEF T, r
  <1>7. r \in [1..N -> Entries]
    BY <1>2, <1>3, <1>4
  <1>8. r \in Seq(Entries) /\ Len(r) = N /\ DOMAIN r = 1..N
    BY <1>2, <1>7, FunIsSeq
  <1>9. T = {} => r = <<>>
    BY <1>5, <1>8, EmptySeq
  <1>10. o \in [DOMAIN r -> DOMAIN s]
    BY <1>2, <1>4, <1>8
  <1>11. \A k \in DOMAIN r : o[k] \in T /\ o[k] = Nth(T, k) /\ r[k] = s[o[k]]
    BY <1>2, <1>3, <1>8
  <1> HIDE DEF o
  <1>12. \A k \in DOMAIN r : TablesOf(s[o[k]], shared) \ nodes # {} /\ r[k] = s[o[k]]
    BY <1>4, <1>6, <1>11
  <1>13. \A k, l \in DOMAIN r : o[k] = o[l] => k = l
    BY <1>2, <1>8, <1>11
  <1>14. \A i \in DOMAIN s : TablesOf(s[i], shared) \ nodes # {} => \E k \in DOMAIN r : o[k] = i
    BY <1>2, <1>6, <1>8, <1>11
  <1>15. (\A i \in DOMAIN s : ~(TablesOf(s[i], shared) \ nodes # {})) => r = <<>>
    BY <1>4, <1>6, <1>9
  <1>16. ComesFrom(o, r, s, nodes)
    BY <1>10, <1>13, <1>14 DEF ComesFrom, Stays
  <1>17. \A k \in DOMAIN r : Stays(s, nodes, o[k]) /\ r[k] = s[o[k]]
    BY <1>12 DEF Stays
  <1>18. (\A i \in DOMAIN s : ~Stays(s, nodes, i)) => r = <<>>
    BY <1>15 DEF Stays
  <1>19. QED
    BY <1>8, <1>16, <1>17, <1>18 DEF r

-----------------------------------------------------------------------------
(* The invariant                                                           *)

\* A plan is being carried out, or waits to be.
Working == phase \in {"prompt", "apply", "commit", "reload"}

\* Nothing has been written to the disk alone: what is buffered is what is there.
Faithful == ~dryRun \/ op = NoPath

\* No entry of the document is shared with a draft.
Plain(doc) == \A i \in DOMAIN doc.sources : doc.sources[i].draft = NoPath

\* The manifest of a parsed project: one entry for all versions, tables where they
\* were, the source's entries in a file one after the other.
ParsedInv ==
  phase # "done" =>
    /\ \A t \in Tables : current[t] = origin[t].file
    /\ \A m, k \in Models : Name[m] = Name[k] => current[m] = current[k]
    /\ \A p \in Paths : \E n \in Nat : Positions(p) = 1..n

DraftInv ==
  phase = "draft" =>
    /\ plan = {} /\ ~mutated /\ ~diskMutated
    /\ \A p \in Paths :
         /\ buffer[p] = NoFile
         /\ MovedFrom(p) # {} => disk[p] # NoFile
         /\ disk[p] # NoFile => disk[p].sources = SourcesAt(p)

\* How far the plan is.
PlanInv ==
  /\ plan \subseteq {target[n] : n \in Misplaced}
  /\ op \notin plan
  /\ phase \in {"draft", "prompt"} => op = NoPath
  /\ superseded \subseteq SupersededBy(op)
  /\ superseded # {} => phase \in {"apply", "aborted"}
  /\ phase \in {"commit", "reload"} => plan = {}
  /\ Working => Misplaced # {} /\ (op = NoPath => \A n \in Misplaced : target[n] \in plan)
  /\ Working /\ op # NoPath => mutated
  /\ phase = "unparsable" => mutated /\ diskMutated /\ op # NoPath
  /\ dryRun => ~diskMutated
  /\ ~dryRun /\ op # NoPath /\ Working => diskMutated

\* Node n has still to leave its file.
Leaving(n) == target[n] \in plan \/ (target[n] = op /\ current[n] \in superseded)

\* A document the draft left in the buffer says what its file says, and the file
\* is still to be cleaned up for every node that leaves it.
SameAsDisk(p) ==
  /\ disk[p] # NoFile
  /\ buffer[p].models = disk[p].models
  /\ buffer[p].other = disk[p].other /\ buffer[p].kept = disk[p].kept
  /\ Len(buffer[p].sources) = Len(disk[p].sources)
  /\ \A i \in DOMAIN buffer[p].sources :
       /\ buffer[p].sources[i].draft \in {p, NoPath}
       /\ TablesOf(buffer[p].sources[i], shared) = disk[p].sources[i].tables

BufferInv ==
  Working /\ Faithful =>
    \A p \in Paths : buffer[p] # NoFile =>
      /\ SameAsDisk(p)
      /\ MovedFrom(p) # {} /\ \A n \in MovedFrom(p) : Leaving(n)

\* A source entry of the plan has tables of its file only, and still those that are
\* to be moved with it.
SharedInv ==
  Working /\ Faithful =>
    /\ \A p \in Paths : shared[p] \subseteq TablesAt(p)
    /\ \A t \in Tables \cap Misplaced : Leads(t) /\ target[t] \in plan => t \in shared[current[t]]

\* The file at p documents node n.
Has(n, p) ==
  /\ disk[p] # NoFile
  /\ IF n \in Models THEN disk[p].models[Name[n]] > 0
     ELSE Listed(disk[p].sources, n)

\* Superseded files are cleaned up when their entries are in the target.
MovedInv ==
  phase = "apply" /\ ~dryRun /\ superseded # {} => \A n \in MovedTo(op) : Leads(n) => Has(n, op)

\* Where the entry of node n is.
At(n, p) ==
  IF n \in Misplaced
  THEN \/ p = target[n] /\ phase # "draft" /\ target[n] \notin plan
       \/ p = current[n] /\ (phase = "draft" \/ Leaving(n))
  ELSE p = target[n]

Agrees(m) == \A k \in Models : Name[k] = Name[m] => target[k] = target[m]

ModelsPlaced ==
  (Working \/ phase = "draft") /\ ~dryRun =>
    \A m \in Models, p \in Paths :
      Agrees(m) => IF At(m, p) THEN disk[p] # NoFile /\ disk[p].models[Name[m]] = 1
                   ELSE disk[p] # NoFile => disk[p].models[Name[m]] = 0

\* Nothing of the source in the table's file moves, or there is only this table.
Settles(t) ==
  \/ TablesAt(origin[t].file) \cap Misplaced = {}
  \/ TablesAt(origin[t].file) = {t}

TablesPlaced ==
  (Working \/ phase = "draft") /\ ~dryRun =>
    \A t \in Tables, p \in Paths :
      Settles(t) => IF At(t, p) THEN disk[p] # NoFile /\ ListedOnce(disk[p].sources, t)
                    ELSE disk[p] # NoFile => ~Listed(disk[p].sources, t)

DiskPlain == \A p \in Paths : disk[p] # NoFile => Plain(disk[p])

PlacedInv == ModelsPlaced /\ TablesPlaced
IInv ==
  /\ TypeOK /\ ParsedInv /\ DraftInv /\ PlanInv /\ DiskPlain
  /\ BufferInv /\ SharedInv /\ MovedInv /\ PlacedInv

-----------------------------------------------------------------------------
(* What the operations do to documents                                     *)

LEMMA NothingFacts ==
  /\ Nothing \in Documents /\ Nothing.sources = <<>> /\ Nothing.other = FALSE /\ Nothing.kept = FALSE
  /\ \A x \in Names : Nothing.models[x] = 0
  <1>1. <<>> \in Seq(Entries)
    BY EmptySeq
  <1>2. QED
    BY <1>1 DEF Nothing, Documents

\* u tells which table each source entry of a target is for.
MovedWith(u, q) ==
  /\ u \in [1..Len(SourcesMoved(q)) -> MovedTo(q) \cap Tables]
  /\ \A i \in 1..Len(SourcesMoved(q)) : SourcesMoved(q)[i] = Drafted(current[u[i]])
  /\ \A i, j \in 1..Len(SourcesMoved(q)) : u[i] = u[j] => i = j
  /\ \A t \in MovedTo(q) \cap Tables : \E i \in 1..Len(SourcesMoved(q)) : u[i] = t

\* The source entries a target is given.
LEMMA SourcesMovedFacts ==
  ASSUME TypeOK, ParsedInv, phase # "done", NEW q
  PROVE  /\ SourcesMoved(q) \in Seq(Entries) /\ Len(SourcesMoved(q)) \in Nat
         /\ \A i \in 1..Len(SourcesMoved(q)) :
              \E t \in MovedTo(q) \cap Tables : SourcesMoved(q)[i] = Drafted(current[t])
         /\ \A t \in MovedTo(q) \cap Tables :
              \E i \in 1..Len(SourcesMoved(q)) : SourcesMoved(q)[i] = Drafted(current[t])
         /\ \E u : MovedWith(u, q)
  <1> DEFINE S == MovedTo(q) \cap Tables
             n == Cardinality(S)
             s == SourcesMoved(q)
  <1>1. IsFiniteSet(S)
    BY NodesAssumption, FS_Subset
  <1>2. /\ n \in Nat /\ SetToSeq(S) \in [1..n -> S]
        /\ \A t \in S : \E i \in 1..n : SetToSeq(S)[i] = t
        /\ \A i, j \in 1..n : SetToSeq(S)[i] = SetToSeq(S)[j] => i = j
    BY <1>1, SetToSeqLists
  <1>3. s = [i \in 1..n |-> Drafted(current[SetToSeq(S)[i]])]
    BY DEF SourcesMoved
  <1>4. \A t \in S : current[t] \in Paths
    BY DEF TypeOK, ParsedInv
  <1> HIDE DEF S, s
  <1>6. \A i \in 1..n : SetToSeq(S)[i] \in S /\ s[i] = Drafted(current[SetToSeq(S)[i]])
    BY <1>2, <1>3
  <1>7. s \in [1..n -> Entries]
    BY <1>3, <1>4, <1>6, DraftedFacts
  <1>8. s \in Seq(Entries) /\ Len(s) = n
    BY <1>2, <1>7, FunIsSeq
  <1>9. \A t \in S : \E i \in 1..n : s[i] = Drafted(current[t])
    BY <1>2, <1>6
  <1>10. 1..n = 1..Len(s)
    BY <1>8
  <1>11. /\ SetToSeq(S) \in [1..Len(s) -> S]
         /\ \A i \in 1..Len(s) : s[i] = Drafted(current[SetToSeq(S)[i]])
         /\ \A i, j \in 1..Len(s) : SetToSeq(S)[i] = SetToSeq(S)[j] => i = j
         /\ \A t \in S : \E i \in 1..Len(s) : SetToSeq(S)[i] = t
    BY <1>2, <1>6, <1>10
  <1>12. MovedWith(SetToSeq(S), q)
    BY <1>11 DEF MovedWith, S, s
  <1>13. /\ s \in Seq(Entries) /\ Len(s) \in Nat
         /\ \A i \in 1..Len(s) : \E t \in S : s[i] = Drafted(current[t])
         /\ \A t \in S : \E i \in 1..Len(s) : s[i] = Drafted(current[t])
    BY <1>2, <1>6, <1>8, <1>9, <1>10
  <1>14. QED
    BY <1>12, <1>13 DEF S, s

LEMMA ModelsMovedFacts ==
  ASSUME NEW q
  PROVE  /\ ModelsMoved(q) \in [Names -> Nat]
         /\ \A m \in Models : Name[m] \in Names /\ ModelsMoved(q)[Name[m]] \in {0, 1}
         /\ \A m \in MovedTo(q) \cap Models : ModelsMoved(q)[Name[m]] = 1
         /\ \A m \in Models : ModelsMoved(q)[Name[m]] = 1
                                => \E k \in MovedTo(q) \cap Models : Name[k] = Name[m]
BY DEF ModelsMoved, Names

LEMMA AppendedFacts ==
  ASSUME TypeOK, ParsedInv, phase # "done", NEW q, NEW doc \in Documents
  PROVE  LET d == Appended(doc, q)
         IN  /\ d \in Documents /\ d.other = doc.other /\ d.kept = doc.kept
             /\ \A x \in Names : d.models[x] = doc.models[x] + ModelsMoved(q)[x]
             /\ d.sources = doc.sources \o SourcesMoved(q)
  <1> DEFINE models == [x \in Names |-> doc.models[x] + ModelsMoved(q)[x]]
             sources == doc.sources \o SourcesMoved(q)
  <1>1. models \in [Names -> Nat]
    BY DocFields, ModelsMovedFacts
  <1>2. sources \in Seq(Entries)
    BY DocFields, SourcesMovedFacts, ConcatProperties
  <1>3. Appended(doc, q) = [doc EXCEPT !.models = models, !.sources = sources]
    BY DEF Appended
  <1>4. \A x \in Names : models[x] = doc.models[x] + ModelsMoved(q)[x]
    OBVIOUS
  <1> HIDE DEF models, sources
  <1>5. LET d == Appended(doc, q)
        IN  d \in Documents /\ d.models = models /\ d.sources = sources /\ d.other = doc.other /\ d.kept = doc.kept
    BY <1>1, <1>2, <1>3 DEF Documents
  <1>6. QED
    BY <1>4, <1>5 DEF sources

LEMMA ExtendedIsDocument ==
  ASSUME TypeOK, ParsedInv, phase # "done", NEW q, NEW doc \in Documents
  PROVE  ExtendedInPlace(doc, q) \in Documents
  <1> DEFINE d == Appended(doc, q)
             models == IF doc.models = Nothing.models THEN doc.models ELSE d.models
             sources == IF doc.sources = <<>> THEN doc.sources ELSE d.sources
  <1>1. d \in Documents
    BY AppendedFacts
  <1>2. models \in [Names -> Nat] /\ sources \in Seq(Entries)
    BY <1>1, DocFields
  <1>3. ExtendedInPlace(doc, q) = [doc EXCEPT !.models = models, !.sources = sources]
    BY DEF ExtendedInPlace
  <1> HIDE DEF models, sources
  <1>4. QED
    BY <1>2, <1>3 DEF Documents

\* List new is what is left of list old without the nodes: o tells where in old an
\* entry of new was; the objects of the drafts were was and are now.
KeepsTables(o, new, now, old, was, nodes) ==
  /\ o \in [DOMAIN new -> DOMAIN old]
  /\ \A k \in DOMAIN new : TablesOf(new[k], now) = TablesOf(old[o[k]], was) \ nodes
  /\ \A k, l \in DOMAIN new : o[k] = o[l] => k = l
  /\ \A i \in DOMAIN old : TablesOf(old[i], was) \ nodes # {} => \E k \in DOMAIN new : o[k] = i

\* The same of lists that share no objects.
KeepsEntries(o, new, old, nodes) ==
  /\ o \in [DOMAIN new -> DOMAIN old]
  /\ \A k \in DOMAIN new : new[k].tables = old[o[k]].tables \ nodes
  /\ \A k, l \in DOMAIN new : o[k] = o[l] => k = l
  /\ \A i \in DOMAIN old : old[i].tables \ nodes # {} => \E k \in DOMAIN new : o[k] = i

\* What the removal of nodes leaves of a document, and of the shared tables.
LEMMA SharedWithoutFacts ==
  ASSUME shared \in [Paths -> SUBSET Tables], NEW doc, NEW nodes
  PROVE  /\ SharedWithout(doc, nodes) \in [Paths -> SUBSET Tables]
         /\ \A p \in Paths : /\ shared[p] \ nodes \subseteq SharedWithout(doc, nodes)[p]
                             /\ SharedWithout(doc, nodes)[p] \subseteq shared[p]
                             /\ (\A i \in DOMAIN doc.sources : doc.sources[i].draft # p)
                                  => SharedWithout(doc, nodes)[p] = shared[p]
BY DEF SharedWithout

LEMMA WithoutFacts ==
  ASSUME shared \in [Paths -> SUBSET Tables], NEW doc \in Documents, NEW nodes
  PROVE  /\ Without(doc, nodes) \in Documents
         /\ Without(doc, nodes).other = doc.other /\ Without(doc, nodes).kept = doc.kept
         /\ \A x \in Names : Without(doc, nodes).models[x] = IF \E m \in nodes \cap Models : Name[m] = x
                                                            THEN 0 ELSE doc.models[x]
         /\ \E o : KeepsTables(o, Without(doc, nodes).sources, SharedWithout(doc, nodes),
                              doc.sources, shared, nodes)
         /\ (\A i \in DOMAIN doc.sources : TablesOf(doc.sources[i], shared) \ nodes = {})
              => Without(doc, nodes).sources = <<>>
  <1> DEFINE s == doc.sources
             w == SourcesWithout(s, nodes)
             objects == SharedWithout(doc, nodes)
             Cut(e) == IF e.draft = NoPath THEN Parsed(e.tables \ nodes) ELSE e
             models == [x \in Names |-> IF \E m \in nodes \cap Models : Name[m] = x THEN 0 ELSE doc.models[x]]
             sources == [k \in DOMAIN w |-> Cut(w[k])]
             rest == Without(doc, nodes)
  <1>1. /\ s \in Seq(Entries) /\ DOMAIN s = 1..Len(s) /\ Len(s) \in Nat /\ doc.models \in [Names -> Nat]
        /\ \A i \in DOMAIN s : s[i] \in Entries /\ TablesOf(s[i], shared) \in SUBSET Tables
    BY DocFields, TablesOfType
  <1>2. /\ w \in Seq(Entries)
        /\ (\A i \in DOMAIN s : ~Stays(s, nodes, i)) => w = <<>>
        /\ \E o : /\ ComesFrom(o, w, s, nodes)
                  /\ \A k \in DOMAIN w : Stays(s, nodes, o[k]) /\ w[k] = s[o[k]]
    <2> HIDE DEF s
    <2>1. QED
      BY <1>1, SourcesWithoutFacts
  <1>3. rest = [doc EXCEPT !.models = models, !.sources = sources]
    BY DEF Without
  <1>4. models \in [Names -> Nat]
    BY <1>1
  <1> HIDE DEF w, rest
  <1>5. \A e \in Entries : Cut(e) \in Entries
    BY ParsedFacts DEF Entries
  <1>6. \A i \in DOMAIN s : TablesOf(s[i], shared) \ nodes # {} =>
              TablesOf(Cut(s[i]), objects) = TablesOf(s[i], shared) \ nodes
    <2> SUFFICES ASSUME NEW i \in DOMAIN s, TablesOf(s[i], shared) \ nodes # {}
                 PROVE  TablesOf(Cut(s[i]), objects) = TablesOf(s[i], shared) \ nodes
      OBVIOUS
    <2> DEFINE e == s[i]
    <2>1. e \in Entries /\ e.tables \in SUBSET Tables /\ e.draft \in Paths \cup {NoPath}
      BY <1>1 DEF Entries
    <2>2. CASE e.draft = NoPath
      <3>1. Cut(e) = Parsed(e.tables \ nodes) /\ TablesOf(e, shared) = e.tables
        BY <2>2 DEF TablesOf
      <3>2. TablesOf(Cut(e), objects) = e.tables \ nodes
        BY <2>1, <3>1, ParsedFacts DEF TablesOf
      <3>3. QED
        BY <3>1, <3>2
    <2>3. CASE e.draft # NoPath
      <3>1. Cut(e) = e /\ TablesOf(e, shared) = shared[e.draft] /\ TablesOf(e, objects) = objects[e.draft]
        BY <2>3 DEF TablesOf
      <3>2. e.draft \in Paths
        BY <2>1, <2>3
      <3>3. objects[e.draft] = shared[e.draft] \ nodes
        BY <3>1, <3>2 DEF SharedWithout
      <3>4. QED
        BY <3>1, <3>3
    <2>4. QED
      BY <2>2, <2>3
  <1> DEFINE n == Len(w)
  <1>7. n \in Nat /\ DOMAIN w = 1..n /\ \A k \in DOMAIN w : w[k] \in Entries
    BY <1>2, LenProperties, ElementOfSeq
  <1>8. \A k \in DOMAIN w : sources[k] = Cut(w[k])
    OBVIOUS
  <1>9. sources \in [1..n -> Entries]
    BY <1>5, <1>7
  <1>10. sources \in Seq(Entries) /\ Len(sources) = n /\ DOMAIN sources = DOMAIN w
    BY <1>7, <1>9, FunIsSeq
  <1>11. \A x \in Names : models[x] = IF \E m \in nodes \cap Models : Name[m] = x THEN 0 ELSE doc.models[x]
    OBVIOUS
  <1> HIDE DEF sources, models
  <1>12. rest \in Documents /\ rest.models = models /\ rest.sources = sources /\ rest.other = doc.other /\ rest.kept = doc.kept
    BY <1>3, <1>4, <1>10 DEF Documents
  <1> HIDE DEF Cut, s, objects
  <1>13. \E o : KeepsTables(o, sources, objects, s, shared, nodes)
    <2>1. PICK o : /\ ComesFrom(o, w, s, nodes)
                   /\ \A k \in DOMAIN w : Stays(s, nodes, o[k]) /\ w[k] = s[o[k]]
      BY <1>2
    <2>2. /\ o \in [DOMAIN sources -> DOMAIN s]
          /\ \A k, l \in DOMAIN sources : o[k] = o[l] => k = l
          /\ \A i \in DOMAIN s : TablesOf(s[i], shared) \ nodes # {} => \E k \in DOMAIN sources : o[k] = i
      BY <1>10, <2>1 DEF ComesFrom, Stays
    <2>3. \A k \in DOMAIN sources : TablesOf(sources[k], objects) = TablesOf(s[o[k]], shared) \ nodes
      BY <1>6, <1>8, <1>10, <2>1, <2>2 DEF Stays
    <2>4. KeepsTables(o, sources, objects, s, shared, nodes)
      BY <2>2, <2>3 DEF KeepsTables
    <2>5. QED
      BY <2>4
  <1>14. (\A i \in DOMAIN s : TablesOf(s[i], shared) \ nodes = {}) => sources = <<>>
    <2> SUFFICES ASSUME \A i \in DOMAIN s : TablesOf(s[i], shared) \ nodes = {} PROVE sources = <<>>
      OBVIOUS
    <2>1. w = <<>>
      BY <1>2 DEF Stays
    <2>2. Len(sources) = 0
      BY <1>10, <2>1, EmptySeq
    <2>3. QED
      BY <1>10, <2>2, EmptySeq
  <1>15. QED
    BY <1>11, <1>12, <1>13, <1>14 DEF s, rest, objects

-----------------------------------------------------------------------------
(* What the operations write                                               *)

\* What a reader gets is what the file says.
LEMMA ReadFacts ==
  ASSUME TypeOK, DiskPlain, BufferInv, Working, Faithful, NEW p \in Paths, disk[p] # NoFile
  PROVE  LET doc == Read(p)
         IN  /\ doc \in Documents /\ disk[p] \in Documents /\ doc.models = disk[p].models
             /\ doc.other = disk[p].other /\ doc.kept = disk[p].kept
             /\ Len(doc.sources) = Len(disk[p].sources) /\ DOMAIN doc.sources = DOMAIN disk[p].sources
             /\ \A i \in DOMAIN doc.sources :
                  /\ TablesOf(doc.sources[i], shared) = disk[p].sources[i].tables
                  /\ doc.sources[i].draft \in {p, NoPath}
             /\ \A i \in DOMAIN doc.sources : doc.sources[i].draft = p => buffer[p] # NoFile
  <1>1. disk[p] \in Documents /\ buffer[p] \in Documents \cup {NoFile}
    BY DEF TypeOK
  <1>2. CASE buffer[p] = NoFile
    <2>1. Read(p) = disk[p]
      BY <1>2 DEF Read
    <2>2. \A i \in DOMAIN disk[p].sources : disk[p].sources[i].draft = NoPath
      BY DEF DiskPlain, Plain
    <2>3. NoPath # p
      BY PathsAssumption
    <2>4. QED
      BY <1>1, <2>1, <2>2, <2>3 DEF TablesOf
  <1>3. CASE buffer[p] # NoFile
    <2>1. Read(p) = buffer[p] /\ SameAsDisk(p) /\ buffer[p] \in Documents
      BY <1>1, <1>3 DEF Read, BufferInv
    <2>2. DOMAIN buffer[p].sources = DOMAIN disk[p].sources
      BY <1>1, <2>1, DocFields DEF SameAsDisk
    <2>3. QED
      BY <1>1, <1>3, <2>1, <2>2 DEF SameAsDisk
  <1>4. QED
    BY <1>2, <1>3

Old(q) == IF disk[q] = NoFile THEN Nothing ELSE disk[q]
TargetDoc(q) == Dumped(Appended(IF disk[q] = NoFile THEN Nothing ELSE Read(q), q), shared)

\* The target keeps what it has and is given the entries of the plan.
LEMMA TargetDocFacts ==
  ASSUME TypeOK, ParsedInv, DiskPlain, BufferInv, Working, Faithful, NEW q \in Paths
  PROVE  LET out == TargetDoc(q)
             old == Old(q)
             new == SourcesMoved(q)
         IN  /\ out \in Documents /\ Plain(out) /\ old \in Documents
             /\ out.other = old.other /\ out.kept = old.kept
             /\ \A x \in Names : out.models[x] = old.models[x] + ModelsMoved(q)[x]
             /\ Len(out.sources) = Len(old.sources) + Len(new)
             /\ \A i \in 1..Len(old.sources) : out.sources[i].tables = old.sources[i].tables
             /\ \A i \in 1..Len(new) : out.sources[Len(old.sources) + i].tables = TablesOf(new[i], shared)
  <1> DEFINE doc == IF disk[q] = NoFile THEN Nothing ELSE Read(q)
             app == Appended(doc, q)
             out == TargetDoc(q)
             old == Old(q)
             new == SourcesMoved(q)
  <1>0. phase # "done"
    BY DEF Working
  <1>1. /\ doc \in Documents /\ old \in Documents /\ doc.models = old.models
        /\ doc.other = old.other /\ doc.kept = old.kept /\ Len(doc.sources) = Len(old.sources)
        /\ \A i \in 1..Len(old.sources) : TablesOf(doc.sources[i], shared) = old.sources[i].tables
    <2>1. CASE disk[q] = NoFile
      <3>1. doc = Nothing /\ old = Nothing /\ Len(Nothing.sources) = 0
        BY <2>1, NothingFacts, EmptySeq DEF Old
      <3>2. QED
        BY <3>1, NothingFacts
    <2>2. CASE disk[q] # NoFile
      <3>1. doc = Read(q) /\ old = disk[q]
        BY <2>2 DEF Old
      <3>2. QED
        BY <2>2, <3>1, ReadFacts, DocFields
    <2>3. QED
      BY <2>1, <2>2
  <1> HIDE DEF doc, old
  <1>2. /\ app \in Documents /\ app.other = doc.other /\ app.kept = doc.kept
        /\ \A x \in Names : app.models[x] = doc.models[x] + ModelsMoved(q)[x]
        /\ app.sources = doc.sources \o new
    BY <1>0, <1>1, AppendedFacts
  <1>3. shared \in [Paths -> SUBSET Tables]
    BY DEF TypeOK
  <1>4. out = Dumped(app, shared)
    BY DEF TargetDoc, doc
  <1> HIDE DEF app, out
  <1>5. /\ out \in Documents /\ out.models = app.models
        /\ out.other = app.other /\ out.kept = app.kept
        /\ Len(out.sources) = Len(app.sources) /\ DOMAIN out.sources = DOMAIN app.sources
        /\ \A i \in DOMAIN app.sources : /\ out.sources[i].draft = NoPath
                                         /\ out.sources[i].tables = TablesOf(app.sources[i], shared)
    BY <1>2, <1>3, <1>4, DumpedFacts
  <1>6. Plain(out)
    BY <1>5 DEF Plain
  <1>7. doc.sources \in Seq(Entries) /\ new \in Seq(Entries) /\ Len(doc.sources) \in Nat /\ Len(new) \in Nat
    BY <1>0, <1>1, DocFields, SourcesMovedFacts
  <1> HIDE DEF new
  <1>8. /\ Len(app.sources) = Len(doc.sources) + Len(new)
        /\ \A i \in 1..Len(doc.sources) + Len(new) :
             app.sources[i] = IF i <= Len(doc.sources) THEN doc.sources[i] ELSE new[i - Len(doc.sources)]
    BY <1>2, <1>7, ConcatProperties
  <1>9. DOMAIN app.sources = 1..Len(doc.sources) + Len(new)
    BY <1>2, <1>8, DocFields
  <1>10. \A i \in 1..Len(old.sources) : out.sources[i].tables = old.sources[i].tables
    <2> SUFFICES ASSUME NEW i \in 1..Len(old.sources) PROVE out.sources[i].tables = old.sources[i].tables
      OBVIOUS
    <2>1. i \in 1..Len(doc.sources) + Len(new) /\ i <= Len(doc.sources)
      BY <1>1, <1>7
    <2>2. app.sources[i] = doc.sources[i] /\ i \in DOMAIN app.sources
      BY <1>8, <1>9, <2>1
    <2>3. QED
      BY <1>1, <1>5, <2>2
  <1>11. \A i \in 1..Len(new) : out.sources[Len(old.sources) + i].tables = TablesOf(new[i], shared)
    <2> SUFFICES ASSUME NEW i \in 1..Len(new)
                 PROVE  out.sources[Len(old.sources) + i].tables = TablesOf(new[i], shared)
      OBVIOUS
    <2> DEFINE j == Len(doc.sources) + i
    <2>1. j \in 1..Len(doc.sources) + Len(new) /\ ~(j <= Len(doc.sources)) /\ j - Len(doc.sources) = i
      BY <1>7
    <2> HIDE DEF j
    <2>2. app.sources[j] = new[i] /\ j \in DOMAIN app.sources
      BY <1>8, <1>9, <2>1
    <2>3. out.sources[j].tables = TablesOf(new[i], shared)
      BY <1>5, <2>2
    <2>4. QED
      BY <1>1, <2>3 DEF j
  <1>12. QED
    BY <1>1, <1>2, <1>5, <1>6, <1>8, <1>10, <1>11 DEF old, out, new

\* Which tables a target documents when it is written.
LEMMA TargetLists ==
  ASSUME TypeOK, ParsedInv, DiskPlain, BufferInv, Working, Faithful, NEW q \in Paths, NEW t
  PROVE  LET out == TargetDoc(q).sources
             old == Old(q).sources
             new == SourcesMoved(q)
             brings(i) == t \in TablesOf(new[i], shared)
         IN  /\ Listed(old, t) => Listed(out, t)
             /\ \A i \in 1..Len(new) : brings(i) => Listed(out, t)
             /\ ~Listed(old, t) /\ (\A i \in 1..Len(new) : ~brings(i)) => ~Listed(out, t)
             /\ ListedOnce(old, t) /\ (\A i \in 1..Len(new) : ~brings(i)) => ListedOnce(out, t)
             /\ \A i \in 1..Len(new) :
                  ~Listed(old, t) /\ brings(i) /\ (\A j \in 1..Len(new) : brings(j) => j = i) => ListedOnce(out, t)
  <1> DEFINE out == TargetDoc(q).sources
             old == Old(q).sources
             new == SourcesMoved(q)
             a == Len(old)
             b == Len(new)
             brings(i) == t \in TablesOf(new[i], shared)
  <1>1. /\ Len(out) = a + b
        /\ \A i \in 1..a : out[i].tables = old[i].tables
        /\ \A i \in 1..b : out[a + i].tables = TablesOf(new[i], shared)
        /\ TargetDoc(q) \in Documents /\ Old(q) \in Documents
    BY TargetDocFacts
  <1>2. phase # "done"
    BY DEF Working
  <1>3. a \in Nat /\ b \in Nat /\ DOMAIN out = 1..Len(out) /\ DOMAIN old = 1..a
    BY <1>1, <1>2, DocFields, SourcesMovedFacts
  <1> HIDE DEF out, old, new, a, b
  <1>4. DOMAIN out = 1..(a + b)
    BY <1>1, <1>3
  <1>5. \A k \in DOMAIN out : k \in 1..a \/ \E i \in 1..b : k = a + i
    <2> SUFFICES ASSUME NEW k \in DOMAIN out, k \notin 1..a PROVE \E i \in 1..b : k = a + i
      OBVIOUS
    <2>1. k - a \in 1..b /\ k = a + (k - a)
      BY <1>3, <1>4
    <2>2. QED
      BY <2>1
  <1>6. /\ \A i \in 1..a : i \in DOMAIN out
        /\ \A i \in 1..b : a + i \in DOMAIN out
    BY <1>3, <1>4
  <1>7. \A i, j \in 1..b : a + i = a + j => i = j
    BY <1>3
  <1>8. \A i \in 1..a : t \in out[i].tables <=> t \in old[i].tables
    BY <1>1
  <1>9. \A i \in 1..b : t \in out[a + i].tables <=> brings(i)
    BY <1>1
  <1> HIDE DEF brings
  <1>10. Listed(old, t) => Listed(out, t)
    BY <1>3, <1>6, <1>8 DEF Listed
  <1>11. \A i \in 1..b : brings(i) => Listed(out, t)
    BY <1>6, <1>9 DEF Listed
  <1>12. ~Listed(old, t) /\ (\A i \in 1..b : ~brings(i)) => ~Listed(out, t)
    BY <1>3, <1>5, <1>8, <1>9 DEF Listed
  <1>13. ASSUME ListedOnce(old, t), \A i \in 1..b : ~brings(i) PROVE ListedOnce(out, t)
    <2>1. PICK i \in 1..a : t \in old[i].tables /\ \A j \in 1..a : t \in old[j].tables => j = i
      BY <1>3, <1>13 DEF ListedOnce
    <2>2. \A k \in DOMAIN out : t \in out[k].tables => k \in 1..a
      BY <1>5, <1>9, <1>13
    <2>3. \A k \in DOMAIN out : t \in out[k].tables => k = i
      BY <1>8, <2>1, <2>2
    <2>4. QED
      BY <1>6, <1>8, <2>1, <2>3 DEF ListedOnce
  <1>14. ASSUME NEW i \in 1..b, ~Listed(old, t), brings(i), \A j \in 1..b : brings(j) => j = i
         PROVE  ListedOnce(out, t)
    <2>1. \A k \in DOMAIN out : t \in out[k].tables => \E j \in 1..b : k = a + j /\ brings(j)
      <3> SUFFICES ASSUME NEW k \in DOMAIN out, t \in out[k].tables
                   PROVE  \E j \in 1..b : k = a + j /\ brings(j)
        OBVIOUS
      <3>1. k \notin 1..a
        BY <1>3, <1>8, <1>14 DEF Listed
      <3>2. PICK j \in 1..b : k = a + j
        BY <1>5, <3>1
      <3>3. brings(j)
        BY <1>9, <3>2
      <3>4. QED
        BY <3>2, <3>3
    <2>2. \A k \in DOMAIN out : t \in out[k].tables => k = a + i
      BY <1>14, <2>1
    <2>3. a + i \in DOMAIN out /\ t \in out[a + i].tables
      BY <1>6, <1>9, <1>14
    <2>4. QED
      BY <2>2, <2>3 DEF ListedOnce
  <1>15. QED
    BY <1>10, <1>11, <1>12, <1>13, <1>14 DEF out, old, new, a, b, brings

LEMMA TargetWrite ==
  ASSUME NEW q, WriteTarget(q)
  PROVE  /\ phase = "apply" /\ superseded = {} /\ q \in plan
         /\ mutated' = (mutated \/ TargetDoc(q) # disk[q])
         /\ dryRun => disk' = disk /\ diskMutated' = diskMutated
         /\ ~dryRun => /\ disk' = [disk EXCEPT ![q] = TargetDoc(q)]
                       /\ buffer' = [buffer EXCEPT ![q] = NoFile]
                       /\ diskMutated' = (diskMutated \/ TargetDoc(q) # disk[q])
         /\ plan' = plan \ {q} /\ op' = q /\ superseded' = SupersededBy(q)
         /\ UNCHANGED <<current, target, origin, shared, phase, dryRun>>
BY DEF WriteTarget, Write, TargetDoc

LEMMA TargetDiffers ==
  ASSUME TypeOK, ParsedInv, DiskPlain, BufferInv, PlanInv, Working, Faithful, NEW q \in plan
  PROVE  TargetDoc(q) # disk[q]
  <1>1. q \in Paths /\ TargetDoc(q) \in Documents /\ Old(q) \in Documents
    BY TargetDocFacts DEF TypeOK
  <1>2. PICK n \in Misplaced : target[n] = q
    BY DEF PlanInv
  <1>3. n \in MovedTo(q) /\ (n \in Models \/ n \in Tables)
    BY <1>2 DEF MovedTo, Misplaced, Nodes
  <1>4. CASE disk[q] = NoFile
    BY <1>1, <1>4, NoFileAssumption
  <1>5. CASE disk[q] # NoFile /\ n \in Models
    <2>1. Name[n] \in Names /\ ModelsMoved(q)[Name[n]] = 1
      BY <1>3, <1>5, ModelsMovedFacts
    <2>2. TargetDoc(q).models[Name[n]] = Old(q).models[Name[n]] + 1
      BY <1>1, <2>1, TargetDocFacts
    <2>3. Old(q).models[Name[n]] \in Nat /\ Old(q) = disk[q]
      BY <1>1, <1>5, <2>1, DocFields DEF Old
    <2>4. QED
      BY <2>2, <2>3
  <1>6. CASE disk[q] # NoFile /\ n \in Tables
    <2>1. phase # "done"
      BY DEF Working
    <2>2. Len(SourcesMoved(q)) \in Nat /\ \E i \in 1..Len(SourcesMoved(q)) : TRUE
      BY <1>3, <1>6, <2>1, SourcesMovedFacts
    <2>3. Len(TargetDoc(q).sources) = Len(Old(q).sources) + Len(SourcesMoved(q))
      BY <1>1, TargetDocFacts
    <2>4. Old(q) = disk[q] /\ Len(Old(q).sources) \in Nat
      BY <1>1, <1>6, DocFields DEF Old
    <2>5. QED
      BY <2>2, <2>3, <2>4
  <1>7. QED
    BY <1>3, <1>4, <1>5, <1>6

Leavers(p) == MovedTo(op) \cap MovedFrom(p)
CleanDoc(p) == Dumped(Without(Read(p), Leavers(p)), SharedWithout(Read(p), Leavers(p)))

\* A superseded file keeps everything but what leaves.
LEMMA CleanDocFacts ==
  ASSUME TypeOK, DiskPlain, BufferInv, Working, Faithful, NEW p \in Paths, disk[p] # NoFile
  PROVE  /\ CleanDoc(p) \in Documents /\ Plain(CleanDoc(p))
         /\ CleanDoc(p).other = disk[p].other /\ CleanDoc(p).kept = disk[p].kept
         /\ Without(Read(p), Leavers(p)) \in Documents
         /\ Emptied(Without(Read(p), Leavers(p))) <=> Emptied(CleanDoc(p))
         /\ \A x \in Names : CleanDoc(p).models[x] = IF \E m \in Leavers(p) \cap Models : Name[m] = x
                                                     THEN 0 ELSE disk[p].models[x]
         /\ \E o : KeepsEntries(o, CleanDoc(p).sources, disk[p].sources, Leavers(p))
  <1> DEFINE doc == Read(p)
             nodes == Leavers(p)
             rest == Without(doc, nodes)
             objects == SharedWithout(doc, nodes)
             out == CleanDoc(p)
             old == disk[p]
  <1>1. /\ doc \in Documents /\ old \in Documents /\ doc.models = old.models
        /\ doc.other = old.other /\ doc.kept = old.kept
        /\ Len(doc.sources) = Len(old.sources) /\ DOMAIN doc.sources = DOMAIN old.sources
        /\ \A i \in DOMAIN doc.sources : TablesOf(doc.sources[i], shared) = old.sources[i].tables
    BY ReadFacts
  <1>2. shared \in [Paths -> SUBSET Tables] /\ objects \in [Paths -> SUBSET Tables]
    BY SharedWithoutFacts DEF TypeOK
  <1>3. out = Dumped(rest, objects)
    BY DEF CleanDoc
  <1> HIDE DEF doc, nodes
  <1>4. /\ rest \in Documents /\ rest.other = doc.other /\ rest.kept = doc.kept
        /\ \A x \in Names : rest.models[x] = IF \E m \in nodes \cap Models : Name[m] = x
                                             THEN 0 ELSE doc.models[x]
        /\ \E o : KeepsTables(o, rest.sources, objects, doc.sources, shared, nodes)
    BY <1>1, <1>2, WithoutFacts
  <1> HIDE DEF rest, objects, out
  <1>5. /\ out \in Documents /\ out.models = rest.models
        /\ out.other = rest.other /\ out.kept = rest.kept
        /\ Len(out.sources) = Len(rest.sources) /\ DOMAIN out.sources = DOMAIN rest.sources
        /\ \A k \in DOMAIN rest.sources : /\ out.sources[k].draft = NoPath
                                          /\ out.sources[k].tables = TablesOf(rest.sources[k], objects)
    BY <1>2, <1>3, <1>4, DumpedFacts
  <1>6. Plain(out)
    BY <1>5 DEF Plain
  <1>7. /\ rest.sources \in Seq(Entries) /\ out.sources \in Seq(Entries)
        /\ DOMAIN rest.sources = 1..Len(rest.sources) /\ DOMAIN doc.sources = 1..Len(doc.sources)
    BY <1>1, <1>4, <1>5, DocFields
  <1>8. out.sources = <<>> <=> rest.sources = <<>>
    BY <1>5, <1>7, EmptySeq
  <1>9. Emptied(rest) <=> Emptied(out)
    BY <1>5, <1>8 DEF Emptied
  <1>10. \E o : KeepsEntries(o, out.sources, old.sources, nodes)
    <2>1. PICK o : KeepsTables(o, rest.sources, objects, doc.sources, shared, nodes)
      BY <1>4
    <2>2. DOMAIN out.sources = DOMAIN rest.sources /\ DOMAIN doc.sources = DOMAIN old.sources
      BY <1>1, <1>5
    <2>3. /\ o \in [DOMAIN out.sources -> DOMAIN old.sources]
          /\ \A k, l \in DOMAIN out.sources : o[k] = o[l] => k = l
      BY <2>1, <2>2 DEF KeepsTables
    <2>4. ASSUME NEW k \in DOMAIN out.sources
          PROVE  out.sources[k].tables = old.sources[o[k]].tables \ nodes
      <3>1. k \in DOMAIN rest.sources
        BY <2>2
      <3>2. o[k] \in DOMAIN doc.sources
        BY <2>2, <2>3
      <3>3. out.sources[k].tables = TablesOf(rest.sources[k], objects)
        BY <1>5, <3>1
      <3>4. TablesOf(rest.sources[k], objects) = TablesOf(doc.sources[o[k]], shared) \ nodes
        BY <2>1, <3>1 DEF KeepsTables
      <3>5. TablesOf(doc.sources[o[k]], shared) = old.sources[o[k]].tables
        BY <1>1, <3>2
      <3>6. QED
        BY <3>3, <3>4, <3>5
    <2>5. \A i \in DOMAIN old.sources : old.sources[i].tables \ nodes # {} => \E k \in DOMAIN out.sources : o[k] = i
      BY <1>1, <2>1, <2>2 DEF KeepsTables
    <2>6. KeepsEntries(o, out.sources, old.sources, nodes)
      BY <2>3, <2>4, <2>5 DEF KeepsEntries
    <2>7. QED
      BY <2>6
  <1>11. \A x \in Names : out.models[x] = IF \E m \in nodes \cap Models : Name[m] = x THEN 0 ELSE old.models[x]
    BY <1>1, <1>4, <1>5
  <1>12. QED
    BY <1>1, <1>4, <1>5, <1>6, <1>9, <1>10, <1>11 DEF nodes, doc, rest, out

\* Which tables a superseded file documents when it is cleaned up.
LEMMA CleanLists ==
  ASSUME TypeOK, DiskPlain, BufferInv, Working, Faithful, NEW p \in Paths, disk[p] # NoFile, NEW t
  PROVE  LET out == CleanDoc(p).sources
             old == disk[p].sources
         IN  /\ t \in Leavers(p) \/ ~Listed(old, t) => ~Listed(out, t)
             /\ t \notin Leavers(p) /\ Listed(old, t) => Listed(out, t)
             /\ t \notin Leavers(p) /\ ListedOnce(old, t) => ListedOnce(out, t)
  <1> DEFINE out == CleanDoc(p).sources
             old == disk[p].sources
  <1>0. PICK o : KeepsEntries(o, out, old, Leavers(p))
    BY CleanDocFacts
  <1>1. /\ o \in [DOMAIN out -> DOMAIN old]
        /\ \A k \in DOMAIN out : out[k].tables = old[o[k]].tables \ Leavers(p)
        /\ \A k, l \in DOMAIN out : o[k] = o[l] => k = l
        /\ \A i \in DOMAIN old : old[i].tables \ Leavers(p) # {} => \E k \in DOMAIN out : o[k] = i
    BY <1>0 DEF KeepsEntries
  <1> HIDE DEF out, old
  <1>2. t \in Leavers(p) \/ ~Listed(old, t) => ~Listed(out, t)
    BY <1>1 DEF Listed
  <1>3. ASSUME NEW i \in DOMAIN old, t \in old[i].tables, t \notin Leavers(p)
        PROVE  \E k \in DOMAIN out : o[k] = i /\ t \in out[k].tables
    BY <1>1, <1>3
  <1>4. t \notin Leavers(p) /\ Listed(old, t) => Listed(out, t)
    BY <1>3 DEF Listed
  <1>5. ASSUME t \notin Leavers(p), ListedOnce(old, t) PROVE ListedOnce(out, t)
    <2>1. PICK i \in DOMAIN old : t \in old[i].tables /\ \A j \in DOMAIN old : t \in old[j].tables => j = i
      BY <1>5 DEF ListedOnce
    <2>2. PICK k \in DOMAIN out : o[k] = i /\ t \in out[k].tables
      BY <1>3, <1>5, <2>1
    <2>3. \A l \in DOMAIN out : t \in out[l].tables => o[l] = i
      BY <1>1, <2>1
    <2>4. QED
      BY <1>1, <2>2, <2>3 DEF ListedOnce
  <1>6. QED
    BY <1>2, <1>4, <1>5 DEF out, old

LEMMA CleanStep ==
  ASSUME TypeOK, DiskPlain, BufferInv, Working, Faithful, NEW p \in Paths, Supersede(p)
  PROVE  /\ phase = "apply" /\ p \in superseded /\ superseded' = superseded \ {p}
         /\ UNCHANGED <<current, target, origin, plan, op, phase, dryRun>>
         /\ disk[p] = NoFile => UNCHANGED <<disk, buffer, shared, mutated, diskMutated>>
         /\ disk[p] # NoFile =>
              /\ shared' = SharedWithout(Read(p), Leavers(p)) /\ (mutated => mutated')
              /\ dryRun => disk' = disk /\ diskMutated' = diskMutated
              /\ ~dryRun => /\ disk' = [disk EXCEPT ![p] = IF Emptied(CleanDoc(p)) THEN NoFile ELSE CleanDoc(p)]
                            /\ buffer' = [buffer EXCEPT ![p] = NoFile]
                            /\ diskMutated => diskMutated'
  <1>1. disk[p] # NoFile => (Emptied(Without(Read(p), Leavers(p))) <=> Emptied(CleanDoc(p)))
    BY CleanDocFacts
  <1>2. QED
    BY <1>1 DEF Supersede, Write, CleanDoc, Leavers

-----------------------------------------------------------------------------
(* Types, the manifest and the plan                                        *)

LEMMA ReadIsDocument ==
  ASSUME TypeOK, NEW p \in Paths, disk[p] # NoFile
  PROVE  Read(p) \in Documents
BY DEF TypeOK, Read

LEMMA TargetTypes ==
  ASSUME TypeOK, ParsedInv, DiskPlain, BufferInv, Working, NEW q \in Paths, WriteTarget(q)
  PROVE  /\ disk' \in [Paths -> Documents \cup {NoFile}] /\ buffer' \in [Paths -> Documents \cup {NoFile}]
         /\ mutated' \in BOOLEAN /\ diskMutated' \in BOOLEAN /\ DiskPlain'
  <1>0. phase # "done"
    BY DEF Working
  <1>1. CASE dryRun
    <2>1. /\ disk' = disk /\ diskMutated' = diskMutated /\ mutated' \in BOOLEAN
      BY <1>1, TargetWrite DEF TypeOK
    <2>2. CASE disk[q] = NoFile
      <3>1. buffer' = [buffer EXCEPT ![q] = buffer[q]]
        BY <1>1, <2>2 DEF WriteTarget, Write
      <3>2. QED
        BY <2>1, <3>1 DEF TypeOK, DiskPlain
    <2>3. CASE disk[q] # NoFile
      <3>1. buffer' = [buffer EXCEPT ![q] = ExtendedInPlace(Read(q), q)]
        BY <1>1, <2>3 DEF WriteTarget, Write
      <3>2. ExtendedInPlace(Read(q), q) \in Documents
        BY <1>0, <2>3, ReadIsDocument, ExtendedIsDocument
      <3>3. QED
        BY <2>1, <3>1, <3>2 DEF TypeOK, DiskPlain
    <2>4. QED
      BY <2>2, <2>3
  <1>2. CASE ~dryRun
    <2>1. Faithful
      BY <1>2 DEF Faithful
    <2>2. TargetDoc(q) \in Documents /\ Plain(TargetDoc(q))
      BY <2>1, TargetDocFacts
    <2>3. /\ disk' = [disk EXCEPT ![q] = TargetDoc(q)] /\ buffer' = [buffer EXCEPT ![q] = NoFile]
          /\ mutated' \in BOOLEAN /\ diskMutated' \in BOOLEAN
      BY <1>2, TargetWrite DEF TypeOK
    <2>4. DiskPlain'
      <3>1. \A r \in Paths : disk'[r] = IF r = q THEN TargetDoc(q) ELSE disk[r]
        BY <2>3 DEF TypeOK
      <3>2. \A r \in Paths : disk'[r] # NoFile => Plain(disk'[r])
        BY <2>2, <3>1 DEF DiskPlain
      <3>3. QED
        BY <3>2 DEF DiskPlain, Plain
    <2>5. QED
      BY <2>2, <2>3, <2>4 DEF TypeOK
  <1>3. QED
    BY <1>1, <1>2

LEMMA CleanTypes ==
  ASSUME TypeOK, DiskPlain, BufferInv, Working, NEW p \in Paths, Supersede(p)
  PROVE  /\ disk' \in [Paths -> Documents \cup {NoFile}] /\ buffer' \in [Paths -> Documents \cup {NoFile}]
         /\ shared' \in [Paths -> SUBSET Tables]
         /\ mutated' \in BOOLEAN /\ diskMutated' \in BOOLEAN /\ DiskPlain'
         /\ (mutated => mutated') /\ (diskMutated => diskMutated') /\ (dryRun => diskMutated' = diskMutated)
  <1> DEFINE nodes == Leavers(p)
             rest == Without(Read(p), nodes)
  <1>1. CASE disk[p] = NoFile
    BY <1>1 DEF Supersede, TypeOK, DiskPlain
  <1>2. CASE disk[p] # NoFile
    <2>1. Read(p) \in Documents /\ shared \in [Paths -> SUBSET Tables]
      BY <1>2, ReadIsDocument DEF TypeOK
    <2>2. rest \in Documents /\ SharedWithout(Read(p), nodes) \in [Paths -> SUBSET Tables]
      BY <2>1, WithoutFacts, SharedWithoutFacts
    <2>3. shared' = SharedWithout(Read(p), nodes)
      BY <1>2 DEF Supersede, Leavers
    <2>4. CASE dryRun
      <3>1. /\ disk' = disk /\ diskMutated' = diskMutated /\ buffer' = [buffer EXCEPT ![p] = rest]
            /\ mutated' \in BOOLEAN /\ (mutated => mutated')
        BY <1>2, <2>4 DEF Supersede, Write, Leavers, TypeOK
      <3>2. QED
        BY <2>2, <2>3, <3>1 DEF TypeOK, DiskPlain
    <2>5. CASE ~dryRun
      <3>1. Faithful
        BY <2>5 DEF Faithful
      <3>2. CleanDoc(p) \in Documents /\ Plain(CleanDoc(p))
        BY <1>2, <3>1, CleanDocFacts
      <3>3. /\ disk' = [disk EXCEPT ![p] = IF Emptied(CleanDoc(p)) THEN NoFile ELSE CleanDoc(p)]
            /\ buffer' = [buffer EXCEPT ![p] = NoFile]
            /\ (mutated => mutated') /\ (diskMutated => diskMutated')
        BY <1>2, <2>5, <3>1, CleanStep
      <3>4. mutated' \in BOOLEAN /\ diskMutated' \in BOOLEAN
        BY <1>2, <2>5 DEF Supersede, Write, TypeOK
      <3>5. DiskPlain'
        <4>1. \A r \in Paths : disk'[r] = IF r = p THEN (IF Emptied(CleanDoc(p)) THEN NoFile ELSE CleanDoc(p)) ELSE disk[r]
          BY <3>3 DEF TypeOK
        <4>2. \A r \in Paths : disk'[r] # NoFile => Plain(disk'[r])
          BY <3>2, <4>1 DEF DiskPlain
        <4>3. QED
          BY <4>2 DEF DiskPlain, Plain
      <3>6. QED
        BY <2>2, <2>3, <2>5, <3>2, <3>3, <3>4, <3>5 DEF TypeOK
    <2>6. QED
      BY <2>4, <2>5
  <1>3. QED
    BY <1>1, <1>2

\* A superseded file is not the target.
LEMMA SupersededFacts ==
  ASSUME TypeOK, NEW q, NEW p \in SupersededBy(q)
  PROVE  p \in Paths /\ p # q /\ \E n \in MovedTo(q) : current[n] = p
BY DEF TypeOK, SupersededBy, MovedTo, Misplaced, Nodes

\* When all is written the buffer is empty, so the commit has nothing to do.
LEMMA NothingBuffered ==
  ASSUME BufferInv, PlanInv, Working, ~dryRun, plan = {}, superseded = {}
  PROVE  \A p \in Paths : buffer[p] = NoFile
  <1>1. Faithful
    BY DEF Faithful
  <1>2. \A n : ~Leaving(n)
    BY DEF Leaving
  <1>3. QED
    BY <1>1, <1>2 DEF BufferInv

LEMMA NoneDirty ==
  ASSUME TypeOK, BufferInv, PlanInv, CommitYamls
  PROVE  /\ disk' = disk /\ buffer' = IF dryRun THEN buffer ELSE [p \in Paths |-> NoFile]
         /\ diskMutated' = diskMutated /\ (mutated => mutated') /\ mutated' \in BOOLEAN
         /\ phase = "commit" /\ phase' = "reload"
         /\ UNCHANGED <<current, target, origin, shared, plan, op, superseded, dryRun>>
  <1>1. CASE dryRun
    BY <1>1 DEF CommitYamls, TypeOK
  <1>2. CASE ~dryRun
    <2>1. Working /\ plan = {} /\ superseded = {}
      BY DEF Working, PlanInv, CommitYamls
    <2>2. \A p \in Paths : buffer[p] = NoFile
      BY <1>2, <2>1, NothingBuffered
    <2> DEFINE dirty == {p \in Paths : buffer[p] # NoFile /\ Dumped(buffer[p], shared) # disk[p]}
    <2>3. /\ disk' = [p \in Paths |-> disk[p]] /\ diskMutated' = (diskMutated \/ FALSE)
          /\ mutated' = (mutated \/ FALSE)
      <3>1. dirty = {}
        BY <2>2
      <3>2. /\ mutated' = (mutated \/ dirty # {}) /\ diskMutated' = (diskMutated \/ dirty # {})
            /\ disk' = [p \in Paths |-> IF p \in dirty THEN Dumped(buffer[p], shared) ELSE disk[p]]
        BY <1>2 DEF CommitYamls
      <3> HIDE DEF dirty
      <3>3. QED
        BY <3>1, <3>2
    <2>4. QED
      BY <1>2, <2>3 DEF CommitYamls, TypeOK
  <1>3. QED
    BY <1>1, <1>2

\* The document the draft leaves buffered for a file, and its first source entry.
DraftedSources(p) == [i \in DOMAIN disk[p].sources |-> IF i = 1 THEN Drafted(p) ELSE disk[p].sources[i]]

LEMMA DraftBuffersFacts ==
  ASSUME TypeOK, DraftInv, ParsedInv, Draft, NEW p \in Paths, MovedFrom(p) # {}
  PROVE  /\ disk[p] # NoFile /\ disk[p] \in Documents /\ disk[p].sources = SourcesAt(p)
         /\ DraftedSources(p) \in Seq(Entries)
         /\ Len(DraftedSources(p)) = Len(disk[p].sources)
         /\ DOMAIN DraftedSources(p) = DOMAIN disk[p].sources
         /\ buffer'[p] \in Documents /\ buffer'[p].sources = DraftedSources(p)
         /\ buffer'[p].models = disk[p].models
         /\ buffer'[p].other = disk[p].other /\ buffer'[p].kept = disk[p].kept
         /\ shared'[p] = IF disk[p].sources = <<>> THEN {} ELSE disk[p].sources[1].tables
  <1>1. disk[p] # NoFile /\ disk[p] \in Documents /\ disk[p].sources = SourcesAt(p)
    BY DEF DraftInv, Draft, TypeOK
  <1> DEFINE n == Len(disk[p].sources)
             sources == DraftedSources(p)
  <1>2. /\ n \in Nat /\ DOMAIN disk[p].sources = 1..n
        /\ \A i \in DOMAIN disk[p].sources : disk[p].sources[i] \in Entries
    BY <1>1, DocFields
  <1>3. sources \in [1..n -> Entries]
    BY <1>2, DraftedFacts DEF DraftedSources
  <1>4. sources \in Seq(Entries) /\ Len(sources) = n /\ DOMAIN sources = DOMAIN disk[p].sources
    BY <1>2, <1>3, FunIsSeq
  <1>5. buffer'[p] = [disk[p] EXCEPT !.sources = sources]
    BY DEF Draft, DraftedSources
  <1> HIDE DEF sources
  <1>6. /\ buffer'[p] \in Documents /\ buffer'[p].sources = sources
        /\ buffer'[p].models = disk[p].models
        /\ buffer'[p].other = disk[p].other /\ buffer'[p].kept = disk[p].kept
    BY <1>1, <1>4, <1>5 DEF Documents
  <1>7. shared'[p] = IF disk[p].sources = <<>> THEN {} ELSE disk[p].sources[1].tables
    BY DEF Draft
  <1>8. QED
    BY <1>1, <1>4, <1>6, <1>7 DEF sources

LEMMA DraftTypes ==
  ASSUME TypeOK, DraftInv, ParsedInv, Draft
  PROVE  buffer' \in [Paths -> Documents \cup {NoFile}] /\ shared' \in [Paths -> SUBSET Tables]
  <1>1. \A p \in Paths : buffer'[p] \in Documents \cup {NoFile} /\ shared'[p] \in SUBSET Tables
    <2> SUFFICES ASSUME NEW p \in Paths
                 PROVE  buffer'[p] \in Documents \cup {NoFile} /\ shared'[p] \in SUBSET Tables
      OBVIOUS
    <2>1. CASE MovedFrom(p) = {}
      BY <2>1 DEF Draft
    <2>2. CASE MovedFrom(p) # {}
      <3>1. disk[p] \in Documents /\ disk[p].sources = SourcesAt(p)
            /\ buffer'[p] \in Documents
            /\ shared'[p] = IF disk[p].sources = <<>> THEN {} ELSE disk[p].sources[1].tables
        BY <2>2, DraftBuffersFacts
      <3>2. disk[p].sources # <<>> => 1 \in DOMAIN disk[p].sources
        BY <3>1, DocFields, EmptySeq
      <3>3. disk[p].sources # <<>> => disk[p].sources[1] \in Entries
        BY <3>1, <3>2, DocFields
      <3>4. QED
        BY <3>1, <3>3 DEF Entries
    <2>3. QED
      BY <2>1, <2>2
  <1>2. buffer' = [p \in Paths |-> buffer'[p]] /\ shared' = [p \in Paths |-> shared'[p]]
    BY DEF Draft
  <1>3. QED
    BY <1>1, <1>2

LEMMA NextBase ==
  ASSUME IInv, [Next]_vars
  PROVE  TypeOK' /\ ParsedInv' /\ DraftInv' /\ PlanInv' /\ DiskPlain'
  <1> USE DEF IInv
  <1>1. CASE Draft
    <2>1. TypeOK'
      <3>1. plan' \subseteq Paths /\ dryRun' \in BOOLEAN /\ mutated' \in BOOLEAN /\ diskMutated' \in BOOLEAN
            /\ op' \in Paths \cup {NoPath} /\ superseded' \subseteq Paths
            /\ phase' \in {"draft", "prompt", "apply", "commit", "reload", "done", "declined", "aborted", "unparsable"}
        BY <1>1 DEF Draft, TypeOK, Misplaced
      <3>2. QED
        BY <1>1, <3>1, DraftTypes DEF Draft, TypeOK
    <2>2. ParsedInv' /\ DraftInv'
      BY <1>1 DEF Draft, ParsedInv, DraftInv, Positions, TablesAt
    <2>3. PlanInv'
      <3>1. /\ op' = NoPath /\ op = NoPath /\ superseded' = {} /\ Misplaced' = Misplaced
            /\ plan' = {target[n] : n \in Misplaced} /\ UNCHANGED <<target, origin, dryRun, diskMutated, mutated>>
            /\ phase' = IF Misplaced = {} THEN "done" ELSE "prompt"
            /\ phase = "draft" /\ ~diskMutated
        BY <1>1 DEF Draft, PlanInv, DraftInv, Misplaced, SupersededBy, MovedTo, TypeOK
      <3>2. NoPath \notin plan'
        BY <3>1, PathsAssumption DEF TypeOK, Misplaced
      <3>3. QED
        BY <3>1, <3>2 DEF PlanInv, Working
    <2>4. DiskPlain'
      BY <1>1 DEF Draft, DiskPlain, Plain
    <2>5. QED
      BY <2>1, <2>2, <2>3, <2>4
  <1>2. CASE Prompt \/ Applied \/ Abort
    <2>1. UNCHANGED <<disk, current, target, origin, buffer, shared, plan, op, superseded, dryRun, mutated, diskMutated>>
      BY <1>2 DEF Prompt, Applied, Abort
    <2>2. /\ Prompt => phase = "prompt" /\ phase' \in {"apply", "declined"}
          /\ Applied => phase = "apply" /\ plan = {} /\ superseded = {} /\ phase' = "commit"
          /\ Abort => phase' = "aborted" /\ phase # "done" /\ phase # "unparsable"
      BY <1>2 DEF Prompt, Applied, Abort
    <2>3. TypeOK'
      BY <1>2, <2>1, <2>2 DEF TypeOK
    <2>4. ParsedInv' /\ DraftInv' /\ DiskPlain'
      BY <1>2, <2>1, <2>2 DEF ParsedInv, DraftInv, DiskPlain, Plain, Positions, TablesAt
    <2>5. Misplaced' = Misplaced /\ SupersededBy(op)' = SupersededBy(op)
      BY <2>1 DEF Misplaced, SupersededBy, MovedTo
    <2>6. PlanInv'
      BY <1>2, <2>1, <2>2, <2>5 DEF PlanInv, Working
    <2>7. QED
      BY <2>3, <2>4, <2>6
  <1>3. ASSUME NEW q \in Paths, WriteTarget(q) PROVE TypeOK' /\ ParsedInv' /\ DraftInv' /\ PlanInv' /\ DiskPlain'
    <2>1. /\ phase = "apply" /\ superseded = {} /\ q \in plan
          /\ mutated' = (mutated \/ TargetDoc(q) # disk[q])
          /\ dryRun => disk' = disk /\ diskMutated' = diskMutated
          /\ ~dryRun => diskMutated' = (diskMutated \/ TargetDoc(q) # disk[q])
          /\ plan' = plan \ {q} /\ op' = q /\ superseded' = SupersededBy(q)
          /\ UNCHANGED <<current, target, origin, shared, phase, dryRun>>
      BY <1>3, TargetWrite
    <2>2. Working
      BY <2>1 DEF Working
    <2>3. /\ disk' \in [Paths -> Documents \cup {NoFile}] /\ buffer' \in [Paths -> Documents \cup {NoFile}]
          /\ mutated' \in BOOLEAN /\ diskMutated' \in BOOLEAN /\ DiskPlain'
      BY <1>3, <2>2, TargetTypes
    <2>4. SupersededBy(q) \subseteq Paths /\ Misplaced' = Misplaced /\ SupersededBy(op)' = SupersededBy(q)
      <3>1. SupersededBy(q) \subseteq Paths
        BY SupersededFacts
      <3>2. Misplaced' = Misplaced
        BY <2>1 DEF Misplaced
      <3>3. QED
        BY <2>1, <3>1, <3>2 DEF SupersededBy, MovedTo
    <2>5. TypeOK'
      BY <2>1, <2>3, <2>4 DEF TypeOK
    <2>6. ParsedInv' /\ DraftInv'
      BY <2>1 DEF ParsedInv, DraftInv, Positions, TablesAt
    <2>7. mutated' /\ (~dryRun => diskMutated')
      <3>1. op = NoPath => Faithful
        BY DEF Faithful
      <3>2. Faithful => TargetDoc(q) # disk[q]
        BY <2>1, <2>2, TargetDiffers
      <3>3. QED
        BY <2>1, <2>2, <3>1, <3>2 DEF PlanInv
    <2>8. PlanInv'
      BY <2>1, <2>2, <2>4, <2>7, PathsAssumption DEF PlanInv, Working
    <2>9. QED
      BY <2>3, <2>5, <2>6, <2>8
  <1>4. ASSUME NEW p \in Paths, Supersede(p) PROVE TypeOK' /\ ParsedInv' /\ DraftInv' /\ PlanInv' /\ DiskPlain'
    <2>1. /\ phase = "apply" /\ p \in superseded /\ superseded' = superseded \ {p}
          /\ UNCHANGED <<current, target, origin, plan, op, phase, dryRun>>
      BY <1>4 DEF Supersede
    <2>2. Working
      BY <2>1 DEF Working
    <2>3. /\ disk' \in [Paths -> Documents \cup {NoFile}] /\ buffer' \in [Paths -> Documents \cup {NoFile}]
          /\ shared' \in [Paths -> SUBSET Tables]
          /\ mutated' \in BOOLEAN /\ diskMutated' \in BOOLEAN /\ DiskPlain'
          /\ (mutated => mutated') /\ (diskMutated => diskMutated') /\ (dryRun => diskMutated' = diskMutated)
      BY <1>4, <2>2, CleanTypes
    <2>4. TypeOK'
      BY <2>1, <2>3 DEF TypeOK
    <2>5. ParsedInv' /\ DraftInv'
      BY <2>1 DEF ParsedInv, DraftInv, Positions, TablesAt
    <2>6. Misplaced' = Misplaced /\ SupersededBy(op)' = SupersededBy(op)
      BY <2>1 DEF Misplaced, SupersededBy, MovedTo
    <2>7. PlanInv'
      BY <2>1, <2>2, <2>3, <2>6 DEF PlanInv, Working
    <2>8. QED
      BY <2>3, <2>4, <2>5, <2>7
  <1>5. CASE CommitYamls
    <2>1. /\ disk' = disk /\ buffer' = IF dryRun THEN buffer ELSE [p \in Paths |-> NoFile]
          /\ diskMutated' = diskMutated /\ (mutated => mutated') /\ mutated' \in BOOLEAN
          /\ phase = "commit" /\ phase' = "reload"
          /\ UNCHANGED <<current, target, origin, shared, plan, op, superseded, dryRun>>
      BY <1>5, NoneDirty
    <2>2. TypeOK'
      BY <2>1 DEF TypeOK
    <2>3. ParsedInv' /\ DraftInv' /\ DiskPlain'
      BY <2>1 DEF ParsedInv, DraftInv, DiskPlain, Plain, Positions, TablesAt
    <2>4. Misplaced' = Misplaced /\ SupersededBy(op)' = SupersededBy(op)
      BY <2>1 DEF Misplaced, SupersededBy, MovedTo
    <2>5. PlanInv'
      BY <2>1, <2>4 DEF PlanInv, Working
    <2>6. QED
      BY <2>2, <2>3, <2>5
  <1>6. CASE Reload
    <2>1. /\ phase = "reload" /\ phase' \in {"done", "unparsable"} /\ (phase' = "unparsable" => diskMutated /\ current' = current)
          /\ UNCHANGED <<disk, target, origin, buffer, shared, plan, op, superseded, dryRun, mutated, diskMutated>>
      BY <1>6 DEF Reload
    <2>2. current' \in [Nodes -> Paths \cup {NoPath}]
      <3>1. \A n \in Nodes : Documented(n) # {} => (CHOOSE p \in Documented(n) : TRUE) \in Paths
        BY DEF Documented
      <3>2. QED
        BY <1>6, <3>1 DEF Reload, TypeOK
    <2>3. TypeOK'
      BY <2>1, <2>2 DEF TypeOK
    <2>4. ParsedInv' /\ DraftInv' /\ DiskPlain'
      BY <2>1 DEF ParsedInv, DraftInv, DiskPlain, Plain, Positions, TablesAt
    <2>5. plan = {} /\ superseded = {} /\ Working /\ (op = NoPath => plan # {})
      BY <2>1 DEF PlanInv, Working
    <2>6. PlanInv'
      BY <2>1, <2>5 DEF PlanInv, Working
    <2>7. QED
      BY <2>3, <2>4, <2>6
  <1>7. CASE UNCHANGED vars
    <2>1. UNCHANGED <<disk, current, target, origin, buffer, shared, plan, op, superseded, phase, dryRun, mutated, diskMutated>>
      BY <1>7 DEF vars
    <2>2. TypeOK' /\ ParsedInv' /\ DraftInv' /\ DiskPlain'
      <3>1. TypeOK'
        BY <2>1 DEF TypeOK
      <3>2. \A p : TablesAt(p)' = TablesAt(p) /\ MovedFrom(p)' = MovedFrom(p)
        BY <2>1 DEF TablesAt, MovedFrom, Misplaced
      <3>3. \A p : Positions(p)' = Positions(p)
        BY <2>1, <3>2 DEF Positions
      <3>4. \A p : SourcesAt(p)' = SourcesAt(p)
        BY <2>1, <3>2, <3>3 DEF SourcesAt
      <3>5. ParsedInv'
        BY <2>1, <3>3 DEF ParsedInv
      <3>6. DraftInv'
        BY <2>1, <3>2, <3>4 DEF DraftInv
      <3>7. DiskPlain'
        BY <2>1 DEF DiskPlain, Plain
      <3>8. QED
        BY <3>1, <3>5, <3>6, <3>7
    <2>3. PlanInv'
      BY <2>1 DEF PlanInv, Working, Misplaced, SupersededBy, MovedTo
    <2>4. QED
      BY <2>2, <2>3
  <1>8. QED
    BY <1>1, <1>2, <1>3, <1>4, <1>5, <1>6, <1>7 DEF Next

-----------------------------------------------------------------------------
(* What is buffered, shared and moved                                      *)

\* Steps that leave the plan where it is.
LEMMA SameNodes ==
  ASSUME UNCHANGED <<current, target>>
  PROVE  /\ Misplaced' = Misplaced
         /\ \A q : MovedTo(q)' = MovedTo(q) /\ MovedFrom(q)' = MovedFrom(q)
BY DEF Misplaced, MovedTo, MovedFrom

LEMMA SameBuffer ==
  ASSUME NEW p, disk'[p] = disk[p], buffer'[p] = buffer[p], shared'[p] = shared[p], SameAsDisk(p)
  PROVE  SameAsDisk(p)'
BY DEF SameAsDisk, TablesOf

LEMMA SameHas ==
  ASSUME NEW n, NEW p, disk'[p] = disk[p], Has(n, p)
  PROVE  Has(n, p)'
BY DEF Has, Listed

\* What a source's entries in a parsed file are.
LEMMA SourcesAtFacts ==
  ASSUME NEW p, \E n \in Nat : Positions(p) = 1..n
  PROVE  LET s == SourcesAt(p)
         IN  /\ s \in Seq(Entries) /\ DOMAIN s = Positions(p)
             /\ \A i \in DOMAIN s : /\ s[i] = Parsed({t \in TablesAt(p) : origin[t].nth = i})
                                    /\ s[i].draft = NoPath
                                    /\ s[i].tables = {t \in TablesAt(p) : origin[t].nth = i}
             /\ TablesAt(p) # {} => s # <<>> /\ 1 \in DOMAIN s
             /\ \A t \in TablesAt(p) : ListedOnce(s, t)
             /\ \A t : t \notin TablesAt(p) => ~Listed(s, t)
  <1> DEFINE s == SourcesAt(p)
             In(i) == {t \in TablesAt(p) : origin[t].nth = i}
  <1>1. PICK n \in Nat : Positions(p) = 1..n
    OBVIOUS
  <1>2. TablesAt(p) \subseteq Tables
    BY DEF TablesAt
  <1>3. \A i : In(i) \in SUBSET Tables
    BY <1>2
  <1>4. s = [i \in 1..n |-> Parsed(In(i))]
    BY <1>1 DEF SourcesAt
  <1>5. \A t \in TablesAt(p) : origin[t].nth \in Positions(p)
    BY DEF Positions
  <1> HIDE DEF s
  <1>6. \A i \in 1..n : s[i] = Parsed(In(i)) /\ s[i].draft = NoPath /\ s[i].tables = In(i) /\ s[i] \in Entries
    BY <1>3, <1>4, ParsedFacts
  <1>7. s \in [1..n -> Entries]
    BY <1>4, <1>6
  <1>8. s \in Seq(Entries) /\ Len(s) = n /\ DOMAIN s = 1..n
    BY <1>1, <1>7, FunIsSeq
  <1>9. TablesAt(p) # {} => s # <<>> /\ 1 \in DOMAIN s
    <2> SUFFICES ASSUME NEW t \in TablesAt(p) PROVE s # <<>> /\ 1 \in DOMAIN s
      OBVIOUS
    <2>1. origin[t].nth \in 1..n
      BY <1>1, <1>5
    <2>2. n # 0 /\ 1 \in 1..n
      BY <1>1, <2>1
    <2>3. QED
      BY <1>8, <2>2, EmptySeq
  <1>10. \A t \in TablesAt(p) : ListedOnce(s, t)
    <2> SUFFICES ASSUME NEW t \in TablesAt(p) PROVE ListedOnce(s, t)
      OBVIOUS
    <2>1. origin[t].nth \in DOMAIN s
      BY <1>1, <1>5, <1>8
    <2>2. ASSUME NEW i \in DOMAIN s PROVE t \in s[i].tables <=> i = origin[t].nth
      <3>1. s[i].tables = In(i)
        BY <1>6, <1>8
      <3>2. t \in In(i) <=> i = origin[t].nth
        OBVIOUS
      <3>3. QED
        BY <3>1, <3>2
    <2>3. QED
      BY <2>1, <2>2 DEF ListedOnce
  <1>11. \A t : t \notin TablesAt(p) => ~Listed(s, t)
    BY <1>6, <1>8 DEF Listed
  <1>12. QED
    BY <1>1, <1>6, <1>8, <1>9, <1>10, <1>11 DEF s

LEMMA DraftBuffers ==
  ASSUME IInv, Draft
  PROVE  BufferInv' /\ SharedInv'
  <1> USE DEF IInv
  <1>1. /\ phase = "draft" /\ op = NoPath /\ plan' = {target[n] : n \in Misplaced}
        /\ UNCHANGED <<disk, current, target, origin, op, superseded>>
    BY DEF Draft, PlanInv
  <1>2. Misplaced' = Misplaced /\ \A q : MovedFrom(q)' = MovedFrom(q)
    BY <1>1, SameNodes
  <1>3. ASSUME NEW p \in Paths
        PROVE  /\ \E n \in Nat : Positions(p) = 1..n
               /\ shared'[p] \subseteq TablesAt(p)
               /\ MovedFrom(p) # {} => \A t \in TablesAt(p) : Leads(t) => t \in shared'[p]
    <2>1. \E n \in Nat : Positions(p) = 1..n
      BY <1>1 DEF ParsedInv
    <2>2. CASE MovedFrom(p) = {}
      <3>1. shared'[p] = {}
        BY <2>2 DEF Draft
      <3>2. QED
        BY <2>1, <2>2, <3>1
    <2>3. CASE MovedFrom(p) # {}
      <3> DEFINE s == SourcesAt(p)
      <3>1. shared'[p] = IF s = <<>> THEN {} ELSE s[1].tables
        BY <2>3, DraftBuffersFacts
      <3>2. /\ s \in Seq(Entries)
            /\ \A i \in DOMAIN s : s[i].tables = {t \in TablesAt(p) : origin[t].nth = i}
            /\ TablesAt(p) # {} => s # <<>> /\ 1 \in DOMAIN s
        BY <2>1, SourcesAtFacts
      <3> HIDE DEF s
      <3>3. s # <<>> => 1 \in DOMAIN s
        <4>1. Len(s) \in Nat /\ DOMAIN s = 1..Len(s) /\ (s # <<>> => Len(s) # 0)
          BY <3>2, LenProperties, EmptySeq
        <4>2. QED
          BY <4>1
      <3>4. s # <<>> => shared'[p] = {t \in TablesAt(p) : origin[t].nth = 1}
        BY <3>1, <3>2, <3>3
      <3>5. shared'[p] \subseteq TablesAt(p)
        BY <3>1, <3>4
      <3>6. \A t \in TablesAt(p) : Leads(t) => t \in shared'[p]
        BY <3>2, <3>4 DEF Leads, TablesAt
      <3>7. QED
        BY <2>1, <3>5, <3>6
    <2>4. QED
      BY <2>2, <2>3
  <1>4. ASSUME NEW p \in Paths, buffer'[p] # NoFile
        PROVE  SameAsDisk(p)' /\ MovedFrom(p) # {}
    <2> DEFINE new == DraftedSources(p)
               s == disk[p].sources
    <2>1. MovedFrom(p) # {}
      BY <1>4 DEF Draft
    <2>2. /\ disk[p] # NoFile /\ disk[p] \in Documents /\ s = SourcesAt(p)
          /\ Len(new) = Len(s) /\ DOMAIN new = DOMAIN s
          /\ buffer'[p].sources = new /\ buffer'[p].models = disk[p].models
          /\ buffer'[p].other = disk[p].other /\ buffer'[p].kept = disk[p].kept
          /\ shared'[p] = IF s = <<>> THEN {} ELSE s[1].tables
      BY <2>1, DraftBuffersFacts
    <2>3. \A i \in DOMAIN s : s[i].draft = NoPath
      <3>1. \E n \in Nat : Positions(p) = 1..n
        BY <1>3
      <3>2. \A i \in DOMAIN SourcesAt(p) : SourcesAt(p)[i].draft = NoPath
        BY <3>1, SourcesAtFacts
      <3>3. QED
        BY <2>2, <3>2
    <2>4. \A i \in DOMAIN s : s # <<>> /\ new[i] = IF i = 1 THEN Drafted(p) ELSE s[i]
      BY DEF DraftedSources
    <2> HIDE DEF new
    <2>5. ASSUME NEW i \in DOMAIN s
          PROVE  /\ new[i].draft \in {p, NoPath}
                 /\ (IF new[i].draft = NoPath THEN new[i].tables ELSE shared'[new[i].draft]) = s[i].tables
      <3>1. CASE i = 1
        <4>1. new[i].draft = p /\ p # NoPath
          BY <2>4, <3>1, DraftedFacts
        <4>2. shared'[p] = s[i].tables
          BY <2>2, <2>4, <3>1
        <4>3. QED
          BY <4>1, <4>2
      <3>2. CASE i # 1
        BY <2>3, <2>4, <3>2
      <3>3. QED
        BY <3>1, <3>2
    <2>6. disk'[p] = disk[p]
      BY <1>1
    <2> HIDE DEF s
    <2>7. \A i \in DOMAIN buffer'[p].sources :
            /\ buffer'[p].sources[i].draft \in {p, NoPath}
            /\ (IF buffer'[p].sources[i].draft = NoPath THEN buffer'[p].sources[i].tables
                ELSE shared'[buffer'[p].sources[i].draft]) = s[i].tables
      BY <2>2, <2>5
    <2>8. SameAsDisk(p)'
      BY <2>2, <2>6, <2>7 DEF SameAsDisk, TablesOf, s
    <2>9. QED
      BY <2>1, <2>8
  <1>5. \A n \in Misplaced : Leaving(n)'
    BY <1>1 DEF Leaving
  <1>6. BufferInv'
    BY <1>2, <1>4, <1>5 DEF BufferInv, MovedFrom
  <1>7. ASSUME NEW t \in Tables \cap Misplaced, Leads(t) PROVE t \in shared'[current[t]]
    <2>1. current[t] = origin[t].file /\ current[t] \in Paths
      BY <1>1 DEF ParsedInv, TypeOK
    <2>2. t \in MovedFrom(current[t]) /\ t \in TablesAt(current[t])
      BY <2>1 DEF MovedFrom, TablesAt
    <2>3. QED
      BY <1>3, <1>7, <2>1, <2>2
  <1>8. \A t : Leads(t)' <=> Leads(t)
    BY <1>1 DEF Leads
  <1>9. \A p : TablesAt(p)' = TablesAt(p)
    BY <1>1 DEF TablesAt
  <1>10. SharedInv'
    BY <1>1, <1>2, <1>3, <1>7, <1>8, <1>9 DEF SharedInv
  <1>11. QED
    BY <1>6, <1>10

LEMMA TargetBuffers ==
  ASSUME IInv, NEW q \in Paths, WriteTarget(q), ~dryRun
  PROVE  BufferInv' /\ SharedInv' /\ MovedInv'
  <1> USE DEF IInv
  <1>1. /\ phase = "apply" /\ superseded = {} /\ q \in plan
        /\ disk' = [disk EXCEPT ![q] = TargetDoc(q)] /\ buffer' = [buffer EXCEPT ![q] = NoFile]
        /\ plan' = plan \ {q} /\ op' = q /\ superseded' = SupersededBy(q)
        /\ UNCHANGED <<current, target, origin, shared, phase, dryRun>>
    BY TargetWrite
  <1>2. Working /\ Faithful /\ phase # "done"
    BY <1>1 DEF Working, Faithful
  <1>3. Misplaced' = Misplaced /\ \A r : MovedFrom(r)' = MovedFrom(r) /\ MovedTo(r)' = MovedTo(r)
    BY <1>1, SameNodes
  <1>4. /\ \A r \in Paths : r # q => disk'[r] = disk[r] /\ buffer'[r] = buffer[r]
        /\ disk'[q] = TargetDoc(q) /\ buffer'[q] = NoFile
    BY <1>1 DEF TypeOK
  <1>5. BufferInv'
    <2> SUFFICES ASSUME NEW p \in Paths, buffer'[p] # NoFile
                 PROVE  SameAsDisk(p)' /\ MovedFrom(p) # {} /\ \A n \in MovedFrom(p) : Leaving(n)'
      BY <1>3 DEF BufferInv
    <2>1. p # q /\ buffer[p] # NoFile
      BY <1>4
    <2>2. SameAsDisk(p) /\ MovedFrom(p) # {} /\ \A n \in MovedFrom(p) : Leaving(n)
      BY <1>2, <2>1 DEF BufferInv
    <2>3. SameAsDisk(p)'
      BY <1>1, <1>4, <2>1, <2>2, SameBuffer
    <2>4. ASSUME NEW n \in MovedFrom(p) PROVE Leaving(n)'
      <3>1. target[n] \in plan /\ n \in Misplaced /\ current[n] = p
        BY <1>1, <2>2 DEF Leaving, MovedFrom
      <3>2. CASE target[n] = q
        <4>1. p \in SupersededBy(q)
          BY <3>1, <3>2, PathsAssumption DEF SupersededBy, MovedTo
        <4>2. QED
          BY <1>1, <3>1, <3>2, <4>1 DEF Leaving
      <3>3. CASE target[n] # q
        BY <1>1, <3>1, <3>3 DEF Leaving
      <3>4. QED
        BY <3>2, <3>3
    <2>5. QED
      BY <2>2, <2>3, <2>4
  <1>6. /\ \A t : Leads(t)' <=> Leads(t)
        /\ \A p : TablesAt(p)' = TablesAt(p)
    BY <1>1 DEF Leads, TablesAt
  <1>7. SharedInv' /\ MovedInv'
    <2>1. SharedInv'
      BY <1>1, <1>2, <1>3, <1>6 DEF SharedInv
    <2>2. ASSUME NEW n \in MovedTo(q), Leads(n) PROVE Has(n, q)'
      <3> DEFINE out == TargetDoc(q)
                 new == SourcesMoved(q)
      <3>1. out \in Documents /\ out # NoFile /\ Old(q) \in Documents
        BY <1>2, TargetDocFacts, NoFileAssumption
      <3>2. n \in Misplaced /\ target[n] = q /\ (n \in Models \/ n \in Tables)
        BY DEF MovedTo, Misplaced, Nodes
      <3>3. CASE n \in Models
        <4>1. Name[n] \in Names /\ ModelsMoved(q)[Name[n]] = 1
          BY <3>3, ModelsMovedFacts
        <4>2. out.models[Name[n]] = Old(q).models[Name[n]] + 1 /\ Old(q).models[Name[n]] \in Nat
          BY <1>2, <3>1, <4>1, TargetDocFacts, DocFields
        <4>3. out.models[Name[n]] > 0
          BY <4>2
        <4>4. QED
          BY <1>4, <3>1, <3>3, <4>3 DEF Has
      <3>4. CASE n \in Tables
        <4>1. PICK i \in 1..Len(new) : new[i] = Drafted(current[n])
          BY <1>2, <3>4, SourcesMovedFacts
        <4>2. current[n] \in Paths
          BY <1>2, <3>4 DEF ParsedInv, TypeOK
        <4>3. TablesOf(new[i], shared) = shared[current[n]] /\ n \in shared[current[n]]
          BY <1>1, <1>2, <2>2, <3>2, <3>4, <4>1, <4>2, DraftedFacts DEF TablesOf, SharedInv
        <4>4. Listed(out.sources, n)
          BY <1>2, <4>3, TargetLists
        <4>5. n \notin Models
          BY <3>4, NodesAssumption
        <4>6. QED
          BY <1>4, <3>1, <4>4, <4>5 DEF Has, Listed
      <3>5. QED
        BY <3>2, <3>3, <3>4
    <2>3. MovedInv'
      BY <1>1, <1>3, <1>6, <2>2 DEF MovedInv
    <2>4. QED
      BY <2>1, <2>3
  <1>8. QED
    BY <1>5, <1>6, <1>7

LEMMA CleanBuffers ==
  ASSUME IInv, NEW p \in Paths, Supersede(p), ~dryRun
  PROVE  BufferInv' /\ SharedInv' /\ MovedInv'
  <1> USE DEF IInv
  <1>1. Working /\ Faithful /\ phase = "apply"
    BY DEF Working, Faithful, Supersede
  <1>2. /\ p \in superseded /\ superseded' = superseded \ {p}
        /\ UNCHANGED <<current, target, origin, plan, op, phase, dryRun>>
        /\ disk[p] = NoFile => UNCHANGED <<disk, buffer, shared>>
        /\ disk[p] # NoFile =>
             /\ shared' = SharedWithout(Read(p), Leavers(p))
             /\ disk' = [disk EXCEPT ![p] = IF Emptied(CleanDoc(p)) THEN NoFile ELSE CleanDoc(p)]
             /\ buffer' = [buffer EXCEPT ![p] = NoFile]
    BY <1>1, CleanStep
  <1>3. Misplaced' = Misplaced /\ \A r : MovedFrom(r)' = MovedFrom(r) /\ MovedTo(r)' = MovedTo(r)
    BY <1>2, SameNodes
  <1>4. \A r \in Paths : r # p => disk'[r] = disk[r] /\ buffer'[r] = buffer[r] /\ shared'[r] = shared[r]
    <2>1. CASE disk[p] = NoFile
      BY <1>2, <2>1
    <2>2. CASE disk[p] # NoFile
      <3>1. \A i \in DOMAIN Read(p).sources : Read(p).sources[i].draft \in {p, NoPath}
        BY <1>1, <2>2, ReadFacts
      <3>2. \A r \in Paths : r # p => \A i \in DOMAIN Read(p).sources : Read(p).sources[i].draft # r
        BY <3>1, PathsAssumption
      <3>3. \A r \in Paths : r # p => shared'[r] = shared[r]
        BY <1>2, <2>2, <3>2, SharedWithoutFacts DEF TypeOK
      <3>4. QED
        BY <1>2, <2>2, <3>3 DEF TypeOK
    <2>3. QED
      BY <2>1, <2>2
  <1>5. buffer'[p] = NoFile
    <2>1. CASE disk[p] = NoFile
      BY <1>1, <1>2, <2>1 DEF BufferInv, SameAsDisk
    <2>2. CASE disk[p] # NoFile
      BY <1>2, <2>2 DEF TypeOK
    <2>3. QED
      BY <2>1, <2>2
  <1>6. BufferInv'
    <2> SUFFICES ASSUME NEW r \in Paths, buffer'[r] # NoFile
                 PROVE  SameAsDisk(r)' /\ MovedFrom(r) # {} /\ \A n \in MovedFrom(r) : Leaving(n)'
      BY <1>3 DEF BufferInv
    <2>1. r # p /\ buffer[r] # NoFile
      BY <1>4, <1>5
    <2>2. SameAsDisk(r) /\ MovedFrom(r) # {} /\ \A n \in MovedFrom(r) : Leaving(n)
      BY <1>1, <2>1 DEF BufferInv
    <2>3. SameAsDisk(r)'
      BY <1>4, <2>1, <2>2, SameBuffer
    <2>4. \A n \in MovedFrom(r) : Leaving(n)'
      BY <1>2, <2>1, <2>2 DEF Leaving, MovedFrom
    <2>5. QED
      BY <2>2, <2>3, <2>4
  <1>7. /\ \A t : Leads(t)' <=> Leads(t)
        /\ \A q : TablesAt(q)' = TablesAt(q)
    BY <1>2 DEF Leads, TablesAt
  <1>8. SharedInv'
    <2>1. ASSUME NEW t \in Tables \cap Misplaced, Leads(t), target[t] \in plan
          PROVE  t \in shared'[current[t]]
      <3>1. t \in shared[current[t]] /\ t \notin Leavers(p)
        BY <1>1, <2>1 DEF SharedInv, Leavers, MovedTo, PlanInv
      <3>2. current[t] \in Paths
        BY <1>1 DEF ParsedInv, TypeOK
      <3>3. QED
        BY <1>2, <3>1, <3>2, SharedWithoutFacts DEF TypeOK
    <2>2. \A q \in Paths : shared'[q] \subseteq shared[q]
      BY <1>2, SharedWithoutFacts DEF TypeOK
    <2>3. QED
      BY <1>1, <1>2, <1>3, <1>7, <2>1, <2>2 DEF SharedInv
  <1>9. MovedInv'
    <2> SUFFICES ASSUME NEW n \in MovedTo(op), superseded # {}, Leads(n) PROVE Has(n, op)'
      BY <1>2, <1>3, <1>7 DEF MovedInv
    <2>1. p # op
      BY <1>2, SupersededFacts DEF PlanInv
    <2>2. op \in Paths /\ Has(n, op)
      BY <1>1 DEF MovedInv, MovedTo, Misplaced, TypeOK
    <2>3. disk'[op] = disk[op] /\ op' = op
      BY <1>2, <1>4, <2>1, <2>2
    <2>4. Has(n, op)'
      BY <2>2, <2>3 DEF Has, Listed
    <2>5. QED
      BY <2>4
  <1>10. QED
    BY <1>6, <1>8, <1>9

LEMMA NextBuffers ==
  ASSUME IInv, [Next]_vars
  PROVE  BufferInv' /\ SharedInv' /\ MovedInv'
  <1> USE DEF IInv
  <1>1. CASE Draft
    <2>1. MovedInv'
      BY <1>1 DEF Draft, MovedInv
    <2>2. QED
      BY <1>1, <2>1, DraftBuffers
  <1>2. ASSUME phase \notin {"draft", "done"}, UNCHANGED <<disk, current, target, origin, buffer, shared, plan, op, superseded, dryRun>>,
               Working' => Working, phase' = "apply" => phase = "apply" \/ superseded = {}
        PROVE  BufferInv' /\ SharedInv' /\ MovedInv'
    <2>1. Misplaced' = Misplaced /\ \A r : MovedFrom(r)' = MovedFrom(r) /\ MovedTo(r)' = MovedTo(r)
      BY <1>2, SameNodes
    <2>2. BufferInv'
      BY <1>2, <2>1 DEF BufferInv, Faithful, SameAsDisk, TablesOf, Leaving
    <2>3. SharedInv'
      BY <1>2, <2>1 DEF SharedInv, Faithful, Leads, TablesAt
    <2>4. MovedInv'
      BY <1>2, <2>1 DEF MovedInv, Has, Listed, Leads
    <2>5. QED
      BY <2>2, <2>3, <2>4
  <1>3. CASE Prompt
    <2>1. superseded = {}
      BY <1>3 DEF Prompt, PlanInv
    <2>2. QED
      BY <1>2, <1>3, <2>1 DEF Prompt, Working
  <1>4. CASE Applied
    BY <1>2, <1>4 DEF Applied, Working
  <1>5. CASE Abort
    BY <1>5 DEF Abort, BufferInv, SharedInv, MovedInv, Working
  <1>6. CASE Reload
    BY <1>6 DEF Reload, BufferInv, SharedInv, MovedInv, Working
  <1>7. CASE CommitYamls
    <2>1. /\ disk' = disk /\ buffer' = IF dryRun THEN buffer ELSE [p \in Paths |-> NoFile]
          /\ phase = "commit" /\ phase' = "reload"
          /\ UNCHANGED <<current, target, origin, shared, plan, op, superseded, dryRun>>
      BY <1>7, NoneDirty
    <2>2. CASE dryRun
      BY <1>2, <2>1, <2>2 DEF Working
    <2>3. CASE ~dryRun
      <3>1. BufferInv'
        BY <2>1, <2>3 DEF BufferInv
      <3>2. MovedInv'
        BY <2>1 DEF MovedInv
      <3>3. plan = {} /\ Working /\ (Faithful' => Faithful)
        BY <2>1 DEF PlanInv, Working, Faithful
      <3>4. \A p : TablesAt(p)' = TablesAt(p)
        BY <2>1 DEF TablesAt
      <3>5. SharedInv'
        BY <2>1, <3>3, <3>4 DEF SharedInv
      <3>6. QED
        BY <3>1, <3>2, <3>5
    <2>4. QED
      BY <2>2, <2>3
  <1>8. ASSUME NEW q \in Paths, WriteTarget(q) \/ Supersede(q), dryRun
        PROVE  BufferInv' /\ SharedInv' /\ MovedInv'
    <2>1. dryRun' /\ op' # NoPath
      <3>1. WriteTarget(q) => op' = q /\ dryRun' = dryRun
        BY DEF WriteTarget
      <3>2. Supersede(q) => op' = op /\ dryRun' = dryRun /\ q \in superseded
        BY DEF Supersede
      <3>3. Supersede(q) => op # NoPath
        BY <3>2, SupersededFacts, PathsAssumption DEF PlanInv, TypeOK, MovedTo, Misplaced, Nodes
      <3>4. QED
        BY <1>8, <3>1, <3>2, <3>3, PathsAssumption
    <2>2. QED
      BY <2>1 DEF BufferInv, SharedInv, MovedInv, Faithful
  <1>9. ASSUME NEW q \in Paths, WriteTarget(q) \/ Supersede(q), ~dryRun
        PROVE  BufferInv' /\ SharedInv' /\ MovedInv'
    BY <1>9, TargetBuffers, CleanBuffers
  <1>10. CASE UNCHANGED vars
    <2>1. UNCHANGED <<disk, current, target, origin, buffer, shared, plan, op, superseded, dryRun, phase>>
      BY <1>10 DEF vars
    <2>2. Misplaced' = Misplaced /\ \A r : MovedFrom(r)' = MovedFrom(r) /\ MovedTo(r)' = MovedTo(r)
      BY <2>1, SameNodes
    <2>3. BufferInv'
      BY <2>1, <2>2 DEF BufferInv, Faithful, SameAsDisk, TablesOf, Leaving, Working
    <2>4. SharedInv' /\ MovedInv'
      BY <2>1, <2>2 DEF SharedInv, Faithful, Working, MovedInv, Has, Listed, Leads, TablesAt
    <2>5. QED
      BY <2>3, <2>4
  <1>11. QED
    BY <1>1, <1>3, <1>4, <1>5, <1>6, <1>7, <1>8, <1>9, <1>10 DEF Next

-----------------------------------------------------------------------------
(* Where the entries are                                                   *)

\* The only table of the source in its file is in the first entry there.
LEMMA AloneLeads ==
  ASSUME TypeOK, ParsedInv, phase # "done", NEW t \in Tables, TablesAt(origin[t].file) = {t}
  PROVE  Leads(t)
  <1> DEFINE p == origin[t].file
             k == origin[t].nth
  <1>1. p \in Paths /\ k \in Nat
    BY DEF TypeOK
  <1>2. PICK n \in Nat : Positions(p) = 1..n
    BY <1>1 DEF ParsedInv
  <1>3. Positions(p) = {k}
    BY DEF Positions
  <1> HIDE DEF k, p
  <1>4. n # 0 /\ 1 \in 1..n
    BY <1>2, <1>3
  <1>5. k = 1
    BY <1>2, <1>3, <1>4
  <1>6. QED
    BY <1>5 DEF Leads, k

\* An entry that is moved with another table does not hold a table that settles.
LEMMA SettleFacts ==
  ASSUME TypeOK, ParsedInv, SharedInv, Working, Faithful, phase # "done",
         NEW t \in Tables, Settles(t), NEW u \in Tables \cap Misplaced, t \in shared[current[u]]
  PROVE  u = t
  <1>1. current[u] = origin[u].file /\ current[u] \in Paths
    BY DEF ParsedInv, TypeOK
  <1>2. t \in TablesAt(current[u])
    BY <1>1 DEF SharedInv
  <1>3. origin[t].file = current[u]
    BY <1>2 DEF TablesAt
  <1>4. u \in TablesAt(origin[t].file)
    BY <1>1, <1>3 DEF TablesAt
  <1>5. QED
    BY <1>4 DEF Settles

\* The draft moves nothing.
LEMMA DraftAt ==
  ASSUME IInv, Draft, NEW n \in Nodes, NEW p \in Paths, Misplaced # {}
  PROVE  At(n, p)' <=> At(n, p)
  <1>1. phase = "draft" /\ phase' = "prompt" /\ plan' = {target[k] : k \in Misplaced}
    BY DEF Draft
  <1>2. UNCHANGED <<current, target, origin>>
    BY DEF Draft
  <1>3. Misplaced' = Misplaced
    BY <1>2, SameNodes
  <1>4. n \in Misplaced => target[n] \in plan'
    BY <1>1
  <1>5. QED
    BY <1>1, <1>2, <1>3, <1>4 DEF At, Leaving

\* Writing the target documents there what moves to it, and nothing else.
LEMMA TargetAt ==
  ASSUME IInv, NEW q \in Paths, WriteTarget(q), NEW n \in Nodes, NEW p \in Paths
  PROVE  /\ At(n, p)' <=> At(n, p) \/ (n \in MovedTo(q) /\ p = q)
         /\ n \in MovedTo(q) => ~At(n, q)
  <1>1. /\ phase = "apply" /\ superseded = {} /\ q \in plan
        /\ plan' = plan \ {q} /\ op' = q /\ superseded' = SupersededBy(q)
        /\ UNCHANGED <<current, target, origin, shared, phase, dryRun>>
    BY TargetWrite
  <1>2. Misplaced' = Misplaced
    BY <1>1, SameNodes
  <1>3. CASE n \notin Misplaced
    BY <1>1, <1>2, <1>3 DEF At, MovedTo
  <1>4. CASE n \in Misplaced /\ target[n] # q
    <2>1. Leaving(n)' <=> Leaving(n)
      BY <1>1, <1>4 DEF Leaving
    <2>2. n \notin MovedTo(q) /\ (target[n] \in plan' <=> target[n] \in plan)
      BY <1>1, <1>4 DEF MovedTo
    <2>3. QED
      BY <1>1, <1>2, <1>4, <2>1, <2>2 DEF At
  <1>5. CASE n \in Misplaced /\ target[n] = q
    <2>1. n \in MovedTo(q) /\ current[n] # q
      BY <1>5 DEF MovedTo, Misplaced
    <2>2. At(n, p) <=> p = current[n]
      BY <1>1, <1>5 DEF At, Leaving
    <2>3. p = current[n] => current[n] \in SupersededBy(q)
      BY <2>1, PathsAssumption DEF SupersededBy
    <2>4. At(n, p)' <=> p = q \/ p = current[n]
      BY <1>1, <1>2, <1>5, <2>3 DEF At, Leaving
    <2>5. ~At(n, q)
      BY <1>1, <1>5, <2>1 DEF At, Leaving
    <2>6. QED
      BY <2>1, <2>2, <2>4, <2>5
  <1>6. QED
    BY <1>3, <1>4, <1>5

\* Cleaning up a superseded file takes from it what leaves, and nothing else.
LEMMA CleanAt ==
  ASSUME IInv, NEW p \in Paths, Supersede(p), NEW n \in Nodes, NEW r \in Paths
  PROVE  At(n, r)' <=> At(n, r) /\ ~(n \in Leavers(p) /\ r = p)
  <1>1. /\ phase = "apply" /\ p \in superseded /\ superseded' = superseded \ {p}
        /\ UNCHANGED <<current, target, origin, plan, op, phase, dryRun>>
    BY DEF Supersede
  <1>2. Misplaced' = Misplaced
    BY <1>1, SameNodes
  <1>3. CASE n \notin Misplaced
    BY <1>1, <1>2, <1>3 DEF At, Leavers, MovedTo
  <1>4. CASE n \in Misplaced /\ n \notin Leavers(p)
    <2>1. target[n] # op \/ current[n] # p
      BY <1>4 DEF Leavers, MovedTo, MovedFrom
    <2>2. Leaving(n)' <=> Leaving(n)
      BY <1>1, <2>1 DEF Leaving
    <2>3. QED
      BY <1>1, <1>2, <1>4, <2>2 DEF At
  <1>5. CASE n \in Leavers(p)
    <2>1. n \in Misplaced /\ target[n] = op /\ current[n] = p
      BY <1>5 DEF Leavers, MovedTo, MovedFrom
    <2>2. op \notin plan /\ p # op
      BY <2>1 DEF IInv, PlanInv, Misplaced
    <2>3. At(n, r) <=> r = op \/ r = p
      BY <1>1, <2>1, <2>2 DEF At, Leaving
    <2>4. At(n, r)' <=> r = op
      BY <1>1, <1>2, <2>1, <2>2 DEF At, Leaving
    <2>5. QED
      BY <1>5, <2>2, <2>3, <2>4
  <1>6. QED
    BY <1>3, <1>4, <1>5

\* Versions of a model that agree on its file move together.
LEMMA VersionsTogether ==
  ASSUME ParsedInv, phase # "done", NEW m \in Models, Agrees(m), NEW k \in Models, Name[k] = Name[m]
  PROVE  /\ \A q : k \in MovedTo(q) => m \in MovedTo(q)
         /\ \A q : k \in MovedFrom(q) => m \in MovedFrom(q)
         /\ \A p : k \in Leavers(p) => m \in Leavers(p)
  <1>1. current[k] = current[m] /\ target[k] = target[m]
    BY DEF ParsedInv, Agrees
  <1>2. m \in Nodes
    BY DEF Nodes
  <1>3. QED
    BY <1>1, <1>2 DEF MovedTo, MovedFrom, Misplaced, Leavers

LEMMA TargetPlacesModels ==
  ASSUME IInv, NEW q \in Paths, WriteTarget(q), ~dryRun
  PROVE  ModelsPlaced'
  <1> USE DEF IInv
  <1>1. /\ phase = "apply" /\ disk' = [disk EXCEPT ![q] = TargetDoc(q)]
        /\ UNCHANGED <<current, target, origin, phase, dryRun>>
    BY TargetWrite
  <1>2. Working /\ Faithful /\ phase # "done" /\ \A m : Agrees(m)' <=> Agrees(m)
    BY <1>1 DEF Working, Faithful, Agrees
  <1> SUFFICES ASSUME NEW m \in Models, NEW p \in Paths, Agrees(m)
               PROVE  IF At(m, p)' THEN disk'[p] # NoFile /\ disk'[p].models[Name[m]] = 1
                      ELSE disk'[p] # NoFile => disk'[p].models[Name[m]] = 0
    BY <1>2 DEF ModelsPlaced
  <1>3. m \in Nodes /\ Name[m] \in Names
    BY DEF Nodes, Names
  <1>4. IF At(m, p) THEN disk[p] # NoFile /\ disk[p].models[Name[m]] = 1
        ELSE disk[p] # NoFile => disk[p].models[Name[m]] = 0
    BY <1>2 DEF PlacedInv, ModelsPlaced
  <1>5. CASE p # q
    <2>1. disk'[p] = disk[p] /\ (At(m, p)' <=> At(m, p))
      BY <1>1, <1>3, <1>5, TargetAt DEF TypeOK
    <2>2. QED
      BY <1>4, <2>1
  <1>6. CASE p = q
    <2>1. /\ TargetDoc(q) \in Documents /\ Old(q) \in Documents
          /\ TargetDoc(q).models[Name[m]] = Old(q).models[Name[m]] + ModelsMoved(q)[Name[m]]
      BY <1>2, <1>3, TargetDocFacts
    <2>2. disk'[p] = TargetDoc(q) /\ disk'[p] # NoFile
      BY <1>1, <1>6, <2>1, NoFileAssumption DEF TypeOK
    <2>3. Old(q).models[Name[m]] = IF At(m, q) THEN 1 ELSE 0
      BY <1>3, <1>4, <1>6, NothingFacts DEF Old
    <2>4. CASE m \in MovedTo(q)
      <3>1. ModelsMoved(q)[Name[m]] = 1 /\ ~At(m, q) /\ At(m, q)'
        BY <1>3, <2>4, ModelsMovedFacts, TargetAt
      <3>2. QED
        BY <1>6, <2>1, <2>2, <2>3, <3>1
    <2>5. CASE m \notin MovedTo(q)
      <3>1. ModelsMoved(q)[Name[m]] = 0
        BY <1>2, <2>5, ModelsMovedFacts, VersionsTogether
      <3>2. At(m, q)' <=> At(m, q)
        BY <1>3, <2>5, TargetAt
      <3>3. QED
        BY <1>6, <2>1, <2>2, <2>3, <3>1, <3>2
    <2>6. QED
      BY <2>4, <2>5
  <1>7. QED
    BY <1>5, <1>6

LEMMA TargetPlacesTables ==
  ASSUME IInv, NEW q \in Paths, WriteTarget(q), ~dryRun
  PROVE  TablesPlaced'
  <1> USE DEF IInv
  <1>1. /\ phase = "apply" /\ q \in plan /\ disk' = [disk EXCEPT ![q] = TargetDoc(q)]
        /\ UNCHANGED <<current, target, origin, phase, dryRun>>
    BY TargetWrite
  <1>2. Working /\ Faithful /\ phase # "done" /\ Misplaced' = Misplaced
    BY <1>1, SameNodes DEF Working, Faithful
  <1>3. \A t : Settles(t)' <=> Settles(t)
    BY <1>1, <1>2 DEF Settles, TablesAt
  <1> SUFFICES ASSUME NEW t \in Tables, Settles(t), NEW p \in Paths
               PROVE  IF At(t, p)' THEN disk'[p] # NoFile /\ ListedOnce(disk'[p].sources, t)
                      ELSE disk'[p] # NoFile => ~Listed(disk'[p].sources, t)
    BY <1>3 DEF TablesPlaced, ListedOnce, Listed
  <1>4. t \in Nodes
    BY DEF Nodes
  <1>5. IF At(t, p) THEN disk[p] # NoFile /\ ListedOnce(disk[p].sources, t)
        ELSE disk[p] # NoFile => ~Listed(disk[p].sources, t)
    BY <1>2 DEF PlacedInv, TablesPlaced
  <1>6. CASE p # q
    <2>1. disk'[p] = disk[p] /\ (At(t, p)' <=> At(t, p))
      BY <1>1, <1>4, <1>6, TargetAt DEF TypeOK
    <2>2. QED
      BY <1>5, <2>1
  <1>7. CASE p = q
    <2> DEFINE out == TargetDoc(q).sources
               old == Old(q).sources
               new == SourcesMoved(q)
    <2>1. TargetDoc(q) \in Documents
      BY <1>2, TargetDocFacts
    <2>2. disk'[p] = TargetDoc(q) /\ disk'[p] # NoFile
      BY <1>1, <1>7, <2>1, NoFileAssumption DEF TypeOK
    <2>3. ~Listed(<<>>, t)
      BY DEF Listed
    <2>4. IF At(t, q) THEN ListedOnce(old, t) ELSE ~Listed(old, t)
      BY <1>5, <1>7, <2>3, NothingFacts DEF Old
    <2>0. PICK u : MovedWith(u, q)
      BY <1>2, SourcesMovedFacts
    <2>5. /\ u \in [1..Len(new) -> MovedTo(q) \cap Tables]
          /\ \A i \in 1..Len(new) : new[i] = Drafted(current[u[i]])
          /\ \A i, j \in 1..Len(new) : u[i] = u[j] => i = j
          /\ \A k \in MovedTo(q) \cap Tables : \E i \in 1..Len(new) : u[i] = k
      BY <2>0 DEF MovedWith
    <2> HIDE DEF out, old, new
    <2>6. ASSUME NEW i \in 1..Len(new)
          PROVE  /\ u[i] \in MovedTo(q) \cap Tables
                 /\ t \in TablesOf(new[i], shared) <=> t \in shared[current[u[i]]]
      <3>1. u[i] \in MovedTo(q) \cap Tables /\ u[i] \in Tables
        BY <2>5
      <3>2. current[u[i]] \in Paths
        BY <1>2, <3>1 DEF ParsedInv, TypeOK
      <3>3. TablesOf(new[i], shared) = shared[current[u[i]]]
        BY <2>5, <3>2, DraftedFacts DEF TablesOf
      <3>4. QED
        BY <3>1, <3>3
    <2>7. \A i \in 1..Len(new) : t \in TablesOf(new[i], shared) => u[i] = t
      <3> SUFFICES ASSUME NEW i \in 1..Len(new), t \in TablesOf(new[i], shared) PROVE u[i] = t
        OBVIOUS
      <3>1. u[i] \in Tables \cap Misplaced /\ t \in shared[current[u[i]]]
        BY <2>6 DEF MovedTo
      <3>2. QED
        BY <1>2, <3>1, SettleFacts
    <2>8. CASE t \in MovedTo(q)
      <3>1. t \in Misplaced /\ target[t] = q /\ current[t] = origin[t].file
        BY <1>2, <2>8 DEF MovedTo, ParsedInv
      <3>2. TablesAt(origin[t].file) = {t}
        BY <3>1 DEF Settles, TablesAt
      <3>3. Leads(t)
        BY <1>2, <3>2, AloneLeads
      <3>4. ~At(t, q) /\ At(t, q)'
        BY <1>4, <2>8, TargetAt
      <3>5. PICK i \in 1..Len(new) : u[i] = t
        BY <2>5, <2>8
      <3>6. t \in TablesOf(new[i], shared)
        BY <1>1, <1>2, <2>6, <3>1, <3>3, <3>5 DEF SharedInv
      <3>7. \A j \in 1..Len(new) : t \in TablesOf(new[j], shared) => j = i
        BY <2>5, <2>7, <3>5
      <3>8. ListedOnce(out, t)
        BY <1>2, <2>4, <3>4, <3>6, <3>7, TargetLists DEF out, old, new
      <3>9. QED
        BY <1>7, <2>2, <3>4, <3>8 DEF out
    <2>9. CASE t \notin MovedTo(q)
      <3>1. \A i \in 1..Len(new) : t \notin TablesOf(new[i], shared)
        BY <2>6, <2>7, <2>9
      <3>2. At(t, q)' <=> At(t, q)
        BY <1>4, <2>9, TargetAt
      <3>3. IF At(t, q) THEN ListedOnce(out, t) ELSE ~Listed(out, t)
        BY <1>2, <2>4, <3>1, TargetLists DEF out, old, new
      <3>4. QED
        BY <1>7, <2>2, <3>2, <3>3 DEF out
    <2>10. QED
      BY <2>8, <2>9
  <1>8. QED
    BY <1>6, <1>7

LEMMA CleanPlacesModels ==
  ASSUME IInv, NEW p \in Paths, Supersede(p), ~dryRun
  PROVE  ModelsPlaced'
  <1> USE DEF IInv
  <1>1. Working /\ Faithful /\ phase # "done"
    BY DEF Working, Faithful, Supersede
  <1>2. /\ UNCHANGED <<current, target, origin, phase, dryRun>>
        /\ disk[p] = NoFile => disk' = disk
        /\ disk[p] # NoFile => disk' = [disk EXCEPT ![p] = IF Emptied(CleanDoc(p)) THEN NoFile ELSE CleanDoc(p)]
    BY <1>1, CleanStep
  <1>3. \A m : Agrees(m)' <=> Agrees(m)
    BY <1>2 DEF Agrees
  <1> SUFFICES ASSUME NEW m \in Models, NEW r \in Paths, Agrees(m)
               PROVE  IF At(m, r)' THEN disk'[r] # NoFile /\ disk'[r].models[Name[m]] = 1
                      ELSE disk'[r] # NoFile => disk'[r].models[Name[m]] = 0
    BY <1>3 DEF ModelsPlaced
  <1>4. m \in Nodes /\ Name[m] \in Names
    BY DEF Nodes, Names
  <1>5. IF At(m, r) THEN disk[r] # NoFile /\ disk[r].models[Name[m]] = 1
        ELSE disk[r] # NoFile => disk[r].models[Name[m]] = 0
    BY <1>1 DEF PlacedInv, ModelsPlaced
  <1>6. At(m, r)' <=> At(m, r) /\ ~(m \in Leavers(p) /\ r = p)
    BY <1>4, CleanAt
  <1>7. CASE r # p
    <2>1. disk'[r] = disk[r]
      BY <1>2, <1>7 DEF TypeOK
    <2>2. QED
      BY <1>5, <1>6, <1>7, <2>1
  <1>8. CASE r = p /\ disk[p] = NoFile
    BY <1>2, <1>5, <1>6, <1>8
  <1>9. CASE r = p /\ disk[p] # NoFile
    <2> DEFINE out == CleanDoc(p)
    <2>1. /\ out \in Documents
          /\ out.models[Name[m]] = IF \E k \in Leavers(p) \cap Models : Name[k] = Name[m]
                                   THEN 0 ELSE disk[p].models[Name[m]]
      BY <1>1, <1>4, <1>9, CleanDocFacts
    <2>2. disk'[p] = IF Emptied(out) THEN NoFile ELSE out
      BY <1>2, <1>9 DEF TypeOK
    <2>3. out # NoFile
      BY <2>1, NoFileAssumption
    <2> HIDE DEF out
    <2>4. CASE m \in Leavers(p)
      <3>1. out.models[Name[m]] = 0
        BY <2>1, <2>4
      <3>2. QED
        BY <1>6, <1>9, <2>2, <2>4, <3>1
    <2>5. CASE m \notin Leavers(p)
      <3>1. out.models[Name[m]] = disk[p].models[Name[m]]
        BY <1>1, <2>1, <2>5, VersionsTogether
      <3>2. At(m, r) => ~Emptied(out)
        BY <1>4, <1>5, <1>9, <3>1, NothingFacts DEF Emptied
      <3>3. QED
        BY <1>5, <1>6, <1>9, <2>2, <2>3, <2>5, <3>1, <3>2
    <2>6. QED
      BY <2>4, <2>5
  <1>10. QED
    BY <1>7, <1>8, <1>9

LEMMA CleanPlacesTables ==
  ASSUME IInv, NEW p \in Paths, Supersede(p), ~dryRun
  PROVE  TablesPlaced'
  <1> USE DEF IInv
  <1>1. Working /\ Faithful /\ phase # "done"
    BY DEF Working, Faithful, Supersede
  <1>2. /\ UNCHANGED <<current, target, origin, phase, dryRun>>
        /\ disk[p] = NoFile => disk' = disk
        /\ disk[p] # NoFile => disk' = [disk EXCEPT ![p] = IF Emptied(CleanDoc(p)) THEN NoFile ELSE CleanDoc(p)]
    BY <1>1, CleanStep
  <1>3. Misplaced' = Misplaced
    BY <1>2, SameNodes
  <1>4. \A t : Settles(t)' <=> Settles(t)
    BY <1>2, <1>3 DEF Settles, TablesAt
  <1> SUFFICES ASSUME NEW t \in Tables, Settles(t), NEW r \in Paths
               PROVE  IF At(t, r)' THEN disk'[r] # NoFile /\ ListedOnce(disk'[r].sources, t)
                      ELSE disk'[r] # NoFile => ~Listed(disk'[r].sources, t)
    BY <1>4 DEF TablesPlaced, ListedOnce, Listed
  <1>5. t \in Nodes
    BY DEF Nodes
  <1>6. IF At(t, r) THEN disk[r] # NoFile /\ ListedOnce(disk[r].sources, t)
        ELSE disk[r] # NoFile => ~Listed(disk[r].sources, t)
    BY <1>1 DEF PlacedInv, TablesPlaced
  <1>7. At(t, r)' <=> At(t, r) /\ ~(t \in Leavers(p) /\ r = p)
    BY <1>5, CleanAt
  <1>8. CASE r # p
    <2>1. disk'[r] = disk[r]
      BY <1>2, <1>8 DEF TypeOK
    <2>2. QED
      BY <1>6, <1>7, <1>8, <2>1
  <1>9. CASE r = p /\ disk[p] = NoFile
    BY <1>2, <1>6, <1>7, <1>9
  <1>10. CASE r = p /\ disk[p] # NoFile
    <2> DEFINE out == CleanDoc(p)
               old == disk[p].sources
    <2>1. out \in Documents /\ out # NoFile
      BY <1>1, <1>10, CleanDocFacts, NoFileAssumption
    <2>2. disk'[p] = IF Emptied(out) THEN NoFile ELSE out
      BY <1>2, <1>10 DEF TypeOK
    <2>3. /\ t \in Leavers(p) \/ ~Listed(old, t) => ~Listed(out.sources, t)
          /\ t \notin Leavers(p) /\ ListedOnce(old, t) => ListedOnce(out.sources, t)
      BY <1>1, <1>10, CleanLists
    <2> HIDE DEF out, old
    <2>4. CASE At(t, r) /\ t \notin Leavers(p)
      <3>1. ListedOnce(out.sources, t)
        BY <1>6, <1>10, <2>3, <2>4 DEF old
      <3>2. out.sources # <<>>
        BY <3>1 DEF ListedOnce
      <3>3. disk'[p] = out
        BY <2>2, <3>2 DEF Emptied
      <3>4. QED
        BY <1>7, <1>10, <2>1, <2>4, <3>1, <3>3
    <2>5. CASE ~At(t, r) \/ t \in Leavers(p)
      <3>1. ~Listed(out.sources, t)
        BY <1>6, <1>10, <2>3, <2>5 DEF old
      <3>2. QED
        BY <1>7, <1>10, <2>2, <2>5, <3>1
    <2>6. QED
      BY <2>4, <2>5
  <1>11. QED
    BY <1>8, <1>9, <1>10

LEMMA NextPlaced ==
  ASSUME IInv, [Next]_vars
  PROVE  PlacedInv'
  <1> USE DEF IInv
  <1>1. ASSUME (Working \/ phase = "draft")' => Working \/ phase = "draft",
               UNCHANGED <<disk, dryRun, current, target, origin>>,
               \A n \in Nodes, p \in Paths : At(n, p)' <=> At(n, p)
        PROVE  PlacedInv'
    <2>1. ModelsPlaced'
      BY <1>1 DEF PlacedInv, ModelsPlaced, Agrees, Nodes
    <2>2. Misplaced' = Misplaced
      BY <1>1, SameNodes
    <2>3. TablesPlaced'
      BY <1>1, <2>2 DEF PlacedInv, TablesPlaced, Settles, TablesAt, ListedOnce, Listed, Nodes
    <2>4. QED
      BY <2>1, <2>3 DEF PlacedInv
  <1>2. ASSUME phase # "draft", phase' # "draft", Working' => Working,
               UNCHANGED <<disk, dryRun, current, target, origin, plan, op, superseded>>
        PROVE  PlacedInv'
    <2>1. Misplaced' = Misplaced
      BY <1>2, SameNodes
    <2>2. \A n \in Nodes, p \in Paths : At(n, p)' <=> At(n, p)
      BY <1>2, <2>1 DEF At, Leaving
    <2>3. QED
      BY <1>1, <1>2, <2>2
  <1>3. CASE Draft
    <2>1. /\ phase = "draft" /\ phase' = IF Misplaced = {} THEN "done" ELSE "prompt"
          /\ UNCHANGED <<disk, dryRun, current, target, origin>>
      BY <1>3 DEF Draft
    <2>2. CASE Misplaced = {}
      BY <2>1, <2>2 DEF PlacedInv, ModelsPlaced, TablesPlaced, Working
    <2>3. CASE Misplaced # {}
      BY <1>1, <1>3, <2>1, <2>3, DraftAt
    <2>4. QED
      BY <2>2, <2>3
  <1>4. CASE Prompt \/ Applied
    BY <1>2, <1>4 DEF Prompt, Applied, Working
  <1>5. CASE Reload \/ Abort
    BY <1>5 DEF Reload, Abort, PlacedInv, ModelsPlaced, TablesPlaced, Working
  <1>6. CASE CommitYamls
    BY <1>2, <1>6, NoneDirty DEF Working
  <1>7. ASSUME NEW q \in Paths, WriteTarget(q) \/ Supersede(q) PROVE PlacedInv'
    <2>1. CASE dryRun
      BY <1>7, <2>1 DEF WriteTarget, Supersede, PlacedInv, ModelsPlaced, TablesPlaced
    <2>2. CASE ~dryRun
      BY <1>7, <2>2, TargetPlacesModels, TargetPlacesTables, CleanPlacesModels, CleanPlacesTables
         DEF PlacedInv
    <2>3. QED
      BY <2>1, <2>2
  <1>8. CASE UNCHANGED vars
    <2>1. UNCHANGED <<disk, dryRun, current, target, origin, plan, op, superseded, phase>>
      BY <1>8 DEF vars
    <2>2. Misplaced' = Misplaced
      BY <2>1, SameNodes
    <2>3. \A n \in Nodes, p \in Paths : At(n, p)' <=> At(n, p)
      BY <2>1, <2>2 DEF At, Leaving
    <2>4. QED
      BY <1>1, <2>1, <2>3 DEF Working
  <1>9. QED
    BY <1>3, <1>4, <1>5, <1>6, <1>7, <1>8 DEF Next

-----------------------------------------------------------------------------
(* A parsed project                                                        *)

LEMMA FileOfFacts ==
  ASSUME NEW p \in Paths, NEW others, NEW keeps, \E n \in Nat : Positions(p) = 1..n
  PROVE  LET file == FileOf(p, others, keeps)
         IN  /\ file \in Documents \cup {NoFile}
             /\ file # NoFile =>
                  /\ file.sources = SourcesAt(p)
                  /\ \A x \in Names : file.models[x] = IF \E m \in Models : Name[m] = x /\ current[m] = p
                                                       THEN 1 ELSE 0
             /\ (\E m \in Models : current[m] = p) => file # NoFile
             /\ TablesAt(p) # {} => file # NoFile
  <1> DEFINE models == [x \in Names |-> IF \E m \in Models : Name[m] = x /\ current[m] = p THEN 1 ELSE 0]
             sources == SourcesAt(p)
             file == [models |-> models, sources |-> sources, other |-> p \in others, kept |-> p \in keeps]
  <1>1. sources \in Seq(Entries) /\ (TablesAt(p) # {} => sources # <<>>)
    BY SourcesAtFacts
  <1>2. models \in [Names -> Nat]
    OBVIOUS
  <1>3. FileOf(p, others, keeps) = IF file = Nothing THEN NoFile ELSE file
    BY DEF FileOf
  <1>4. \A m \in Models : current[m] = p => models[Name[m]] = 1 /\ Name[m] \in Names
    BY DEF Names
  <1>5. \A x \in Names : models[x] = IF \E m \in Models : Name[m] = x /\ current[m] = p THEN 1 ELSE 0
    OBVIOUS
  <1> HIDE DEF models, sources
  <1>6. file \in Documents /\ file.models = models /\ file.sources = sources
    BY <1>1, <1>2 DEF Documents
  <1>7. (\E m \in Models : current[m] = p) => file # Nothing
    BY <1>4, <1>6, NothingFacts
  <1>8. TablesAt(p) # {} => file # Nothing
    BY <1>1, <1>6, NothingFacts
  <1> HIDE DEF file
  <1>9. /\ FileOf(p, others, keeps) \in Documents \cup {NoFile}
        /\ (\E m \in Models : current[m] = p) => FileOf(p, others, keeps) # NoFile
        /\ TablesAt(p) # {} => FileOf(p, others, keeps) # NoFile
    BY <1>3, <1>6, <1>7, <1>8, NoFileAssumption
  <1>10. FileOf(p, others, keeps) # NoFile => FileOf(p, others, keeps) = file
    BY <1>3
  <1>11. QED
    BY <1>5, <1>6, <1>9, <1>10 DEF sources

LEMMA InitIInv ==
  ASSUME Init
  PROVE  IInv
  <1>1. /\ current \in [Nodes -> Paths \cup {NoPath}] /\ target \in [Nodes -> Paths]
        /\ origin \in [Tables -> [file : Paths, nth : 1..MaxEntries]]
        /\ \A t \in Tables : current[t] = origin[t].file
        /\ \A m, k \in Models : Name[m] = Name[k] => current[m] = current[k]
        /\ buffer = [p \in Paths |-> NoFile] /\ shared = [p \in Paths |-> {}]
        /\ plan = {} /\ op = NoPath /\ superseded = {} /\ phase = "draft"
        /\ dryRun \in BOOLEAN /\ mutated = FALSE /\ diskMutated = FALSE
    BY DryRunsAssumption DEF Init
  <1>0. \A p \in Paths : \E n \in Nat : Positions(p) = 1..n
    <2>1. \A n \in 0..MaxEntries : n \in Nat
      BY EntriesAssumption
    <2>2. QED
      BY <2>1 DEF Init
  <1>2. PICK others, keeps : disk = [p \in Paths |-> FileOf(p, others, keeps)]
    BY DEF Init
  <1>3. ASSUME NEW p \in Paths
        PROVE  /\ disk[p] \in Documents \cup {NoFile}
               /\ disk[p] # NoFile =>
                    /\ disk[p].sources = SourcesAt(p)
                    /\ \A x \in Names : disk[p].models[x] = IF \E m \in Models : Name[m] = x /\ current[m] = p
                                                            THEN 1 ELSE 0
               /\ (\E m \in Models : current[m] = p) => disk[p] # NoFile
               /\ TablesAt(p) # {} => disk[p] # NoFile
    <2>1. disk[p] = FileOf(p, others, keeps)
      BY <1>2
    <2>2. QED
      BY <1>0, <2>1, FileOfFacts
  <1>4. disk \in [Paths -> Documents \cup {NoFile}]
    <2>1. DOMAIN disk = Paths /\ disk = [p \in Paths |-> disk[p]]
      BY <1>2
    <2>2. QED
      BY <1>3, <2>1
  <1>5. TypeOK
    BY <1>1, <1>4 DEF TypeOK
  <1>6. ParsedInv
    BY <1>0, <1>1 DEF ParsedInv
  <1>7. \A p \in Paths : MovedFrom(p) # {} => disk[p] # NoFile
    <2> SUFFICES ASSUME NEW p \in Paths, NEW n \in MovedFrom(p) PROVE disk[p] # NoFile
      OBVIOUS
    <2>1. n \in Models \cup Tables /\ current[n] = p
      BY DEF MovedFrom, Misplaced, Nodes
    <2>2. n \in Tables => n \in TablesAt(p)
      BY <1>1, <2>1 DEF TablesAt
    <2>3. QED
      BY <1>3, <2>1, <2>2
  <1>8. DraftInv
    BY <1>1, <1>3, <1>7 DEF DraftInv
  <1>9. PlanInv
    BY <1>1 DEF PlanInv, Working
  <1>11. DiskPlain
    <2> SUFFICES ASSUME NEW p \in Paths, disk[p] # NoFile, NEW i \in DOMAIN disk[p].sources
                 PROVE  disk[p].sources[i].draft = NoPath
      BY DEF DiskPlain, Plain
    <2>1. \E n \in Nat : Positions(p) = 1..n
      BY <1>0
    <2>2. disk[p].sources = SourcesAt(p)
      BY <1>3
    <2>3. \A j \in DOMAIN SourcesAt(p) : SourcesAt(p)[j].draft = NoPath
      BY <2>1, SourcesAtFacts
    <2>4. QED
      BY <2>2, <2>3
  <1>12. \A n \in Nodes, p \in Paths : At(n, p) <=> p = current[n]
    BY <1>1 DEF At, Misplaced
  <1>13. ModelsPlaced
    <2> SUFFICES ASSUME NEW m \in Models, NEW p \in Paths
                 PROVE  IF At(m, p) THEN disk[p] # NoFile /\ disk[p].models[Name[m]] = 1
                        ELSE disk[p] # NoFile => disk[p].models[Name[m]] = 0
      BY DEF ModelsPlaced
    <2>1. Name[m] \in Names /\ m \in Nodes /\ (At(m, p) <=> current[m] = p)
      BY <1>12 DEF Names, Nodes
    <2>2. CASE current[m] = p
      BY <1>3, <2>1, <2>2
    <2>3. CASE current[m] # p
      <3>1. ~\E k \in Models : Name[k] = Name[m] /\ current[k] = p
        BY <1>1, <2>3
      <3>2. QED
        BY <1>3, <2>1, <2>3, <3>1
    <2>4. QED
      BY <2>2, <2>3
  <1>14. TablesPlaced
    <2> SUFFICES ASSUME NEW t \in Tables, NEW p \in Paths
                 PROVE  IF At(t, p) THEN disk[p] # NoFile /\ ListedOnce(disk[p].sources, t)
                        ELSE disk[p] # NoFile => ~Listed(disk[p].sources, t)
      BY DEF TablesPlaced
    <2>1. t \in Nodes /\ (At(t, p) <=> t \in TablesAt(p))
      BY <1>1, <1>12 DEF Nodes, TablesAt
    <2>2. /\ t \in TablesAt(p) => ListedOnce(SourcesAt(p), t)
          /\ t \notin TablesAt(p) => ~Listed(SourcesAt(p), t)
      BY <1>0, SourcesAtFacts
    <2>3. QED
      BY <1>3, <2>1, <2>2
  <1>15. BufferInv /\ SharedInv /\ MovedInv
    BY <1>1 DEF BufferInv, SharedInv, MovedInv, Working
  <1>16. QED
    BY <1>5, <1>6, <1>8, <1>9, <1>11, <1>13, <1>14, <1>15 DEF IInv, PlacedInv

LEMMA NextIInv ==
  ASSUME IInv, [Next]_vars
  PROVE  IInv'
BY NextBase, NextBuffers, NextPlaced DEF IInv

\* A plan never leaves the states the invariant describes, whatever the nodes, the
\* templates, the order of the writes and the point where apply_restructure_plan stops.
THEOREM Invariant == Spec => []IInv
  <1>1. Init => IInv
    BY InitIInv
  <1>2. IInv /\ [Next]_vars => IInv'
    BY NextIInv
  <1>3. QED
    BY <1>1, <1>2, PTL DEF Spec

\* Every file stays a schema file, and every node keeps one current file and one target.
THEOREM TypesHold == Spec => []TypeOK
  <1>1. IInv => TypeOK
    BY DEF IInv
  <1>2. QED
    BY <1>1, Invariant, PTL

-----------------------------------------------------------------------------
(* Nothing managed is lost                                                 *)

\* How many entries of a source list document a table.
LEMMA CountTables ==
  ASSUME NEW d \in Documents, NEW t
  PROVE  LET T == {i \in DOMAIN d.sources : t \in d.sources[i].tables}
         IN  /\ Cardinality(T) \in Nat
             /\ Cardinality(T) > 0 <=> Listed(d.sources, t)
             /\ ~Listed(d.sources, t) => Cardinality(T) = 0
             /\ ListedOnce(d.sources, t) => Cardinality(T) = 1
  <1> DEFINE n == Len(d.sources)
             T == {i \in DOMAIN d.sources : t \in d.sources[i].tables}
  <1>1. n \in Nat /\ DOMAIN d.sources = 1..n
    BY DocFields
  <1>2. IsFiniteSet(T) /\ Cardinality(T) \in Nat
    <2>1. IsFiniteSet(1..n)
      BY <1>1, FS_Interval
    <2>2. T \subseteq 1..n
      BY <1>1
    <2> HIDE DEF T
    <2>3. QED
      BY <2>1, <2>2, FS_Subset, FS_CardinalityType
  <1>3. T = {} <=> ~Listed(d.sources, t)
    BY DEF Listed
  <1>4. ASSUME ListedOnce(d.sources, t) PROVE Cardinality(T) = 1
    <2>1. PICK i \in DOMAIN d.sources : /\ t \in d.sources[i].tables
                                        /\ \A j \in DOMAIN d.sources : t \in d.sources[j].tables => j = i
      BY <1>4 DEF ListedOnce
    <2>2. T = {i}
      BY <2>1
    <2> HIDE DEF T
    <2>3. QED
      BY <2>2, FS_Singleton
  <1> HIDE DEF T
  <1>5. Cardinality(T) = 0 <=> T = {}
    BY <1>2, FS_EmptySet
  <1>6. Cardinality(T) > 0 <=> Listed(d.sources, t)
    BY <1>2, <1>3, <1>5
  <1>7. ~Listed(d.sources, t) => Cardinality(T) = 0
    BY <1>3, <1>5
  <1>8. QED
    BY <1>2, <1>4, <1>6, <1>7 DEF T

\* A node is documented where the file has it, now and after a step.
LEMMA CountHas ==
  ASSUME disk \in [Paths -> Documents \cup {NoFile}], NEW n, NEW p \in Paths
  PROVE  Count(n, p) > 0 <=> Has(n, p)
  <1>1. CASE disk[p] = NoFile
    BY <1>1 DEF Count, Has
  <1>2. CASE disk[p] # NoFile
    <2>1. disk[p] \in Documents
      BY <1>2
    <2>2. CASE n \in Models
      BY <1>2, <2>2 DEF Count, Has
    <2>3. CASE n \notin Models
      <3>1. Cardinality({i \in DOMAIN disk[p].sources : n \in disk[p].sources[i].tables}) > 0
              <=> Listed(disk[p].sources, n)
        BY <2>1, CountTables
      <3>2. QED
        BY <1>2, <2>3, <3>1 DEF Count, Has
    <2>4. QED
      BY <2>2, <2>3
  <1>3. QED
    BY <1>1, <1>2

LEMMA CountHasNext ==
  ASSUME disk' \in [Paths -> Documents \cup {NoFile}], NEW n, NEW p \in Paths
  PROVE  Count(n, p)' > 0 <=> Has(n, p)'
  <1>1. CASE disk'[p] = NoFile
    BY <1>1 DEF Count, Has, Listed
  <1>2. CASE disk'[p] # NoFile
    <2>1. disk'[p] \in Documents
      BY <1>2
    <2>2. CASE n \in Models
      BY <1>2, <2>2 DEF Count, Has, Listed
    <2>3. CASE n \notin Models
      <3>1. Cardinality({i \in DOMAIN disk'[p].sources : n \in disk'[p].sources[i].tables}) > 0
              <=> Listed(disk'[p].sources, n)
        BY <2>1, CountTables
      <3>2. QED
        BY <1>2, <2>3, <3>1 DEF Count, Has, Listed
    <2>4. QED
      BY <2>2, <2>3
  <1>3. QED
    BY <1>1, <1>2

Keeps ==
  /\ \A n \in Nodes, p \in Paths : Leads(n) /\ Has(n, p) => \E r \in Paths : Has(n, r)'
  /\ \A p \in Paths : disk[p] # NoFile =>
       /\ disk[p].other => disk'[p] # NoFile /\ disk'[p].other
       /\ disk[p].kept /\ disk'[p] # NoFile => disk'[p].kept

LEMMA SameDiskKeeps ==
  ASSUME disk' = disk
  PROVE  Keeps
BY DEF Keeps, Has, Listed

LEMMA TargetKeeps ==
  ASSUME IInv, NEW q \in Paths, WriteTarget(q), ~dryRun
  PROVE  Keeps
  <1> USE DEF IInv
  <1>1. phase = "apply" /\ disk' = [disk EXCEPT ![q] = TargetDoc(q)]
    BY TargetWrite
  <1>2. Working /\ Faithful /\ phase # "done"
    BY <1>1 DEF Working, Faithful
  <1> DEFINE out == TargetDoc(q)
             old == Old(q)
             new == SourcesMoved(q)
  <1>3. /\ out \in Documents /\ old \in Documents
        /\ out.other = old.other /\ out.kept = old.kept
        /\ \A x \in Names : out.models[x] = old.models[x] + ModelsMoved(q)[x]
    BY <1>2, TargetDocFacts
  <1>4. Len(new) \in Nat /\ ModelsMoved(q) \in [Names -> Nat]
    BY <1>2, SourcesMovedFacts, ModelsMovedFacts
  <1>5. /\ old.models \in [Names -> Nat]
        /\ Len(old.sources) \in Nat /\ DOMAIN old.sources = 1..Len(old.sources)
        /\ DOMAIN out.sources = 1..Len(out.sources)
    BY <1>3, DocFields
  <1>6. disk'[q] = out /\ disk'[q] # NoFile
    BY <1>1, <1>3, NoFileAssumption DEF TypeOK
  <1>7. disk[q] # NoFile => old = disk[q]
    BY DEF Old
  <1>8. \A r \in Paths : r # q => disk'[r] = disk[r]
    BY <1>1 DEF TypeOK
  <1> HIDE DEF out, old, new
  <1>9. ASSUME NEW n \in Nodes, NEW p \in Paths, Has(n, p) PROVE Has(n, p)'
    <2>1. CASE p # q
      BY <1>8, <1>9, <2>1, SameHas
    <2>2. CASE p = q /\ n \in Models
      <3>1. Name[n] \in Names /\ old.models[Name[n]] > 0
        BY <1>7, <1>9, <2>2 DEF Has, Names
      <3>2. out.models[Name[n]] > 0
        BY <1>3, <1>4, <1>5, <3>1
      <3>3. QED
        BY <1>6, <2>2, <3>2 DEF Has
    <2>3. CASE p = q /\ n \notin Models
      <3>1. Listed(old.sources, n)
        BY <1>7, <1>9, <2>3 DEF Has
      <3>2. Listed(out.sources, n)
        BY <1>2, <3>1, TargetLists DEF out, old
      <3>3. QED
        BY <1>6, <2>3, <3>2 DEF Has, Listed
    <2>4. QED
      BY <2>1, <2>2, <2>3
  <1>10. ASSUME NEW p \in Paths, disk[p] # NoFile
         PROVE  /\ disk[p].other => disk'[p] # NoFile /\ disk'[p].other
                /\ disk[p].kept /\ disk'[p] # NoFile => disk'[p].kept
    BY <1>3, <1>6, <1>7, <1>8, <1>10
  <1>11. QED
    BY <1>9, <1>10 DEF Keeps

LEMMA CleanKeeps ==
  ASSUME IInv, NEW p \in Paths, Supersede(p), ~dryRun
  PROVE  Keeps
  <1> USE DEF IInv
  <1>1. Working /\ Faithful /\ phase = "apply"
    BY DEF Working, Faithful, Supersede
  <1>2. CASE disk[p] = NoFile
    BY <1>1, <1>2, CleanStep, SameDiskKeeps
  <1>3. CASE disk[p] # NoFile
    <2> DEFINE out == CleanDoc(p)
    <2>1. /\ p \in superseded /\ disk' = [disk EXCEPT ![p] = IF Emptied(out) THEN NoFile ELSE out]
      BY <1>1, <1>3, CleanStep
    <2>2. /\ disk'[p] = IF Emptied(out) THEN NoFile ELSE out
          /\ \A r \in Paths : r # p => disk'[r] = disk[r]
      BY <2>1 DEF TypeOK
    <2>3. /\ out \in Documents /\ out.other = disk[p].other /\ out.kept = disk[p].kept
          /\ \A x \in Names : out.models[x] = IF \E m \in Leavers(p) \cap Models : Name[m] = x
                                              THEN 0 ELSE disk[p].models[x]
      BY <1>1, <1>3, CleanDocFacts
    <2>4. out # NoFile
      BY <2>3, NoFileAssumption
    <2>5. p # op /\ \A n \in MovedTo(op) : Leads(n) => Has(n, op)
      BY <1>1, <2>1, SupersededFacts DEF PlanInv, MovedInv
    <2>6. ASSUME NEW n \in Leavers(p), Leads(n) PROVE op \in Paths /\ Has(n, op)'
      <3>1. op \in Paths /\ Has(n, op)
        BY <2>5, <2>6 DEF Leavers, MovedTo, Misplaced, TypeOK
      <3>2. disk'[op] = disk[op] /\ op' = op
        BY <2>2, <2>5, <3>1 DEF Supersede
      <3>3. QED
        BY <3>1, <3>2 DEF Has, Listed
    <2> HIDE DEF out
    <2>7. ASSUME NEW n \in Nodes, Has(n, p), n \in Models PROVE \E r \in Paths : Has(n, r)'
      <3>1. Name[n] \in Names /\ disk[p].models[Name[n]] > 0
        BY <2>7 DEF Has, Names
      <3>2. CASE \E m \in Leavers(p) \cap Models : Name[m] = Name[n]
        <4>1. PICK m \in Leavers(p) \cap Models : Name[m] = Name[n]
          BY <3>2
        <4>2. op \in Paths /\ Has(m, op)'
          BY <2>6, <4>1, NodesAssumption DEF Leads
        <4>3. Has(n, op)'
          BY <2>7, <4>1, <4>2 DEF Has
        <4>4. op' = op
          BY DEF Supersede
        <4>5. QED
          BY <4>2, <4>3, <4>4 DEF Has
      <3>3. CASE ~\E m \in Leavers(p) \cap Models : Name[m] = Name[n]
        <4>1. out.models[Name[n]] > 0
          BY <2>3, <3>1, <3>3
        <4>2. out.models # Nothing.models
          BY <3>1, <4>1, NothingFacts
        <4>3. disk'[p] = out
          BY <2>2, <4>2 DEF Emptied
        <4>4. Has(n, p)'
          BY <2>4, <2>7, <4>1, <4>3 DEF Has
        <4>5. QED
          BY <4>4
      <3>4. QED
        BY <3>2, <3>3
    <2>8. ASSUME NEW n \in Nodes, Leads(n), Has(n, p), n \notin Models PROVE \E r \in Paths : Has(n, r)'
      <3>1. CASE n \in Leavers(p)
        <4>1. op \in Paths /\ Has(n, op)'
          BY <2>6, <2>8, <3>1
        <4>2. op' = op
          BY DEF Supersede
        <4>3. QED
          BY <4>1, <4>2 DEF Has, Listed
      <3>2. CASE n \notin Leavers(p)
        <4>1. Listed(out.sources, n)
          BY <1>1, <1>3, <2>8, <3>2, CleanLists DEF Has, out
        <4>2. out.sources # <<>>
          BY <4>1 DEF Listed
        <4>3. disk'[p] = out
          BY <2>2, <4>2 DEF Emptied
        <4>4. Has(n, p)'
          BY <2>4, <2>8, <4>1, <4>3 DEF Has, Listed
        <4>5. QED
          BY <4>4
      <3>3. QED
        BY <3>1, <3>2
    <2>9. \A n \in Nodes, r \in Paths : r # p /\ Has(n, r) => Has(n, r)'
      BY <2>2, SameHas
    <2>10. ASSUME NEW r \in Paths, disk[r] # NoFile
           PROVE  /\ disk[r].other => disk'[r] # NoFile /\ disk'[r].other
                  /\ disk[r].kept /\ disk'[r] # NoFile => disk'[r].kept
      <3>1. CASE r # p
        BY <2>2, <2>10, <3>1
      <3>2. CASE r = p
        <4>1. disk[p].other => ~Emptied(out)
          BY <2>3 DEF Emptied
        <4>2. QED
          BY <2>2, <2>3, <2>4, <3>2, <4>1
      <3>3. QED
        BY <3>1, <3>2
    <2>11. QED
      BY <2>7, <2>8, <2>9, <2>10 DEF Keeps
  <1>4. QED
    BY <1>2, <1>3

LEMMA NextKeeps ==
  ASSUME IInv, [Next]_vars
  PROVE  Keeps
  <1>1. CASE Draft \/ Prompt \/ Applied \/ Reload \/ Abort \/ UNCHANGED vars
    <2>1. disk' = disk
      BY <1>1 DEF Draft, Prompt, Applied, Reload, Abort, vars
    <2>2. QED
      BY <2>1, SameDiskKeeps
  <1>2. CASE CommitYamls
    BY <1>2, NoneDirty, SameDiskKeeps DEF IInv
  <1>3. ASSUME NEW q \in Paths, WriteTarget(q) PROVE Keeps
    <2>1. dryRun => disk' = disk
      BY <1>3, TargetWrite
    <2>2. QED
      BY <1>3, <2>1, SameDiskKeeps, TargetKeeps
  <1>4. ASSUME NEW p \in Paths, Supersede(p) PROVE Keeps
    <2>1. dryRun => disk' = disk
      BY <1>4 DEF Supersede, Write
    <2>2. QED
      BY <1>4, <2>1, SameDiskKeeps, CleanKeeps
  <1>5. QED
    BY <1>1, <1>2, <1>3, <1>4 DEF Next

\* Whatever is moved, in whatever order, and wherever it stops, a node that had an
\* entry on disk has one after every step, and no file loses its unit_tests or
\* data_tests, nor a file that stays its preserved sections: apply_restructure_plan
\* writes the target before it cleans up what it supersedes.  The property excepts the
\* tables that are not in the first of their source's entries in a file, which are lost.
THEOREM NothingLost == Spec => NothingManagedLost
  <1>1. IInv /\ IInv' /\ [Next]_vars =>
          [/\ \A n \in Nodes : Leads(n) /\ Documented(n) # {} => Documented(n)' # {}
           /\ \A p \in Paths : disk[p] # NoFile =>
                /\ disk[p].other => disk'[p] # NoFile /\ disk'[p].other
                /\ disk[p].kept /\ disk'[p] # NoFile => disk'[p].kept]_vars
    <2> SUFFICES ASSUME IInv, IInv', [Next]_vars
                 PROVE  /\ \A n \in Nodes : Leads(n) /\ Documented(n) # {} => Documented(n)' # {}
                        /\ \A p \in Paths : disk[p] # NoFile =>
                             /\ disk[p].other => disk'[p] # NoFile /\ disk'[p].other
                             /\ disk[p].kept /\ disk'[p] # NoFile => disk'[p].kept
      OBVIOUS
    <2>1. Keeps
      BY NextKeeps
    <2>2. /\ \A n \in Nodes, p \in Paths : Count(n, p) > 0 <=> Has(n, p)
          /\ \A n \in Nodes, p \in Paths : Count(n, p)' > 0 <=> Has(n, p)'
      BY CountHas, CountHasNext DEF IInv, TypeOK
    <2>3. ASSUME NEW n \in Nodes, Leads(n), Documented(n) # {} PROVE Documented(n)' # {}
      <3>1. PICK p \in Paths : Count(n, p) > 0
        BY <2>3 DEF Documented
      <3>2. \E r \in Paths : Has(n, r)'
        BY <2>1, <2>2, <2>3, <3>1 DEF Keeps
      <3>3. \E r \in Paths : Count(n, r)' > 0
        BY <2>2, <3>2
      <3>4. QED
        BY <3>3 DEF Documented
    <2>4. QED
      BY <2>1, <2>3 DEF Keeps
  <1>2. Spec => []IInv
    BY Invariant
  <1>3. QED
    BY <1>1, <1>2, PTL DEF Spec, NothingManagedLost

-----------------------------------------------------------------------------
(* What a full plan leaves                                                 *)

\* Between two documents a node's entry is where At says, if it is its own.
Own(n) ==
  \/ n \in Models /\ Agrees(n)
  \/ n \in Tables /\ Settles(n)

LEMMA OwnCounts ==
  ASSUME IInv, ~dryRun, Working \/ phase = "draft",
         NEW n \in Nodes, Own(n), NEW p \in Paths
  PROVE  Count(n, p) = IF At(n, p) THEN 1 ELSE 0
  <1> USE DEF IInv
  <1>1. CASE n \in Models /\ Agrees(n)
    <2>1. IF At(n, p) THEN disk[p] # NoFile /\ disk[p].models[Name[n]] = 1
          ELSE disk[p] # NoFile => disk[p].models[Name[n]] = 0
      BY <1>1 DEF PlacedInv, ModelsPlaced
    <2>2. QED
      BY <1>1, <2>1 DEF Count
  <1>2. CASE n \in Tables /\ Settles(n)
    <2>1. IF At(n, p) THEN disk[p] # NoFile /\ ListedOnce(disk[p].sources, n)
          ELSE disk[p] # NoFile => ~Listed(disk[p].sources, n)
      BY <1>2 DEF PlacedInv, TablesPlaced
    <2>2. n \notin Models
      BY <1>2, NodesAssumption
    <2>3. CASE disk[p] = NoFile
      BY <2>1, <2>3 DEF Count
    <2>4. CASE disk[p] # NoFile
      <3> DEFINE N == Cardinality({i \in DOMAIN disk[p].sources : n \in disk[p].sources[i].tables})
      <3>1. disk[p] \in Documents
        BY <2>4 DEF TypeOK
      <3>2. /\ ~Listed(disk[p].sources, n) => N = 0
            /\ ListedOnce(disk[p].sources, n) => N = 1
        BY <3>1, CountTables
      <3>3. Count(n, p) = N
        BY <2>2, <2>4 DEF Count
      <3> HIDE DEF N
      <3>4. QED
        BY <2>1, <2>4, <3>2, <3>3
    <2>5. QED
      BY <2>3, <2>4
  <1>3. QED
    BY <1>1, <1>2 DEF Own

\* When nothing is left of the plan, or nothing was to move.
LEMMA HomeCounts ==
  ASSUME IInv, ~dryRun, phase = "reload" \/ (phase = "draft" /\ Misplaced = {}),
         NEW n \in Nodes, Own(n), NEW p \in Paths
  PROVE  Count(n, p) = IF p = target[n] THEN 1 ELSE 0
  <1> USE DEF IInv
  <1>1. Working \/ phase = "draft"
    BY DEF Working
  <1>2. phase = "reload" => plan = {} /\ superseded = {}
    BY DEF PlanInv
  <1>3. At(n, p) <=> p = target[n]
    BY <1>2 DEF At, Leaving, Misplaced
  <1>4. QED
    BY <1>1, <1>3, OwnCounts

\* A node that does not settle alone moves with another.
LEMMA NotOwn ==
  ASSUME TypeOK, ParsedInv, phase # "done", NEW n \in Nodes, ~Own(n)
  PROVE  \E k \in Nodes : MovesWith(n, k)
  <1>1. CASE n \in Models
    <2>1. PICK k \in Models : Name[k] = Name[n] /\ target[k] # target[n]
      BY <1>1 DEF Own, Agrees
    <2>2. k \in Nodes /\ n # k
      BY <2>1 DEF Nodes
    <2>3. MovesWith(n, k)
      BY <1>1, <2>1, <2>2 DEF MovesWith
    <2>4. QED
      BY <2>2, <2>3
  <1>2. CASE n \in Tables
    <2>1. PICK k \in TablesAt(origin[n].file) : k # n
      BY <1>2 DEF Own, Settles, TablesAt
    <2>2. k \in Nodes /\ MovesWith(n, k)
      BY <1>2, <2>1 DEF Nodes, MovesWith, TablesAt
    <2>3. QED
      BY <2>2
  <1>3. QED
    BY <1>1, <1>2 DEF Nodes

\* One of the nodes that move together was to move.
LEMMA NotOwnMoves ==
  ASSUME TypeOK, ParsedInv, phase # "done", NEW n \in Nodes, ~Own(n)
  PROVE  \E m \in Misplaced, k \in Nodes : MovesWith(m, k)
  <1>1. CASE n \in Models
    <2>1. PICK k \in Models : Name[k] = Name[n] /\ target[k] # target[n]
      BY <1>1 DEF Own, Agrees
    <2>2. k \in Nodes /\ n # k /\ current[k] = current[n]
      BY <1>1, <2>1 DEF Nodes, ParsedInv
    <2>3. MovesWith(n, k) /\ MovesWith(k, n)
      BY <1>1, <2>1, <2>2 DEF MovesWith
    <2>4. n \in Misplaced \/ k \in Misplaced
      BY <2>1, <2>2 DEF Misplaced
    <2>5. QED
      BY <2>2, <2>3, <2>4
  <1>2. CASE n \in Tables
    <2>1. PICK m \in TablesAt(origin[n].file) \cap Misplaced : TRUE
      BY <1>2 DEF Own, Settles
    <2>2. PICK k \in TablesAt(origin[n].file) : k # m
      BY <1>2, <2>1 DEF Own, Settles, TablesAt
    <2>3. k \in Nodes /\ MovesWith(m, k)
      BY <2>1, <2>2 DEF Nodes, MovesWith, TablesAt
    <2>4. QED
      BY <2>1, <2>3
  <1>3. QED
    BY <1>1, <1>2 DEF Nodes

\* A plan that was drafted and reloaded has written.
LEMMA ReloadFacts ==
  ASSUME IInv, phase = "reload"
  PROVE  op # NoPath /\ mutated /\ Misplaced # {} /\ (~dryRun <=> diskMutated)
  <1>1. Working
    BY DEF Working
  <1>2. QED
    BY <1>1 DEF IInv, PlanInv

LEMMA NextHome ==
  ASSUME IInv, ModelsHome, [Next]_vars
  PROVE  ModelsHome'
  <1> SUFFICES ASSUME phase' \in {"done", "unparsable"}, ~dryRun', NEW m \in Models, Agrees(m)', NEW p \in Paths
               PROVE  Count(m, p)' = IF p = target'[m] THEN 1 ELSE 0
    BY DEF ModelsHome, Agrees
  <1>1. /\ UNCHANGED <<disk, target, origin, dryRun>>
        /\ \/ phase = "reload" \/ (phase = "draft" /\ Misplaced = {})
           \/ phase \in {"done", "unparsable"}
    <2>1. CASE Draft
      BY <2>1 DEF Draft
    <2>2. CASE Reload
      BY <2>2 DEF Reload
    <2>3. CASE UNCHANGED vars
      BY <2>3 DEF vars
    <2>4. CASE Prompt \/ Applied \/ CommitYamls \/ Abort
      BY <2>4 DEF Prompt, Applied, CommitYamls, Abort
    <2>5. ASSUME NEW q \in Paths PROVE ~WriteTarget(q) /\ ~Supersede(q)
      BY DEF WriteTarget, Supersede
    <2>6. QED
      BY <2>1, <2>2, <2>3, <2>4, <2>5 DEF Next
  <1>2. Count(m, p)' = Count(m, p) /\ Agrees(m) /\ m \in Nodes
    BY <1>1 DEF Count, Agrees, Nodes
  <1>3. CASE phase \in {"done", "unparsable"}
    BY <1>1, <1>2, <1>3 DEF ModelsHome, Agrees
  <1>4. CASE phase = "reload" \/ (phase = "draft" /\ Misplaced = {})
    BY <1>1, <1>2, <1>4, HomeCounts DEF Own
  <1>5. QED
    BY <1>1, <1>3, <1>4

\* After a plan that was applied in full, every model whose versions agree has its
\* entry once, in the file its template asks for and nowhere else: operations that
\* target one file are merged, a target is only appended to what is not there yet,
\* and no buffered document brings a removed entry back.
THEOREM ModelsAreHome == Spec => []ModelsHome
  <1>1. Init => ModelsHome
    BY DEF Init, ModelsHome
  <1>2. IInv /\ ModelsHome /\ [Next]_vars => ModelsHome'
    BY NextHome
  <1>3. Spec => []IInv
    BY Invariant
  <1>4. QED
    BY <1>1, <1>2, <1>3, PTL DEF Spec

\* dbt parses what a full plan wrote, unless nodes move together.
LEMMA ReloadConverges ==
  ASSUME IInv, Reload
  PROVE  Converges'
  <1> USE DEF IInv
  <1>1. /\ phase = "reload" /\ UNCHANGED <<disk, target, origin, dryRun>>
        /\ diskMutated => \/ /\ \E n \in Nodes : Twice(n)
                             /\ phase' = "unparsable" /\ current' = current
                          \/ /\ phase' = "done"
                             /\ current' = [n \in Nodes |-> IF Documented(n) = {} THEN NoPath
                                                            ELSE CHOOSE p \in Documented(n) : TRUE]
        /\ ~diskMutated => phase' = "done"
    BY DEF Reload
  <1>2. ~dryRun <=> diskMutated
    BY <1>1, ReloadFacts
  <1>3. phase # "done"
    BY <1>1
  <1>4. \A n \in Nodes, p \in Paths : ~dryRun /\ Own(n) => Count(n, p) = IF p = target[n] THEN 1 ELSE 0
    BY <1>1, HomeCounts
  <1>5. \A n, k \in Nodes : MovesWith(n, k)' <=> MovesWith(n, k)
    BY <1>1 DEF MovesWith
  <1>6. ASSUME phase' = "done", ~dryRun, NEW n \in Nodes, n \in Misplaced'
        PROVE  \E k \in Nodes : MovesWith(n, k)
    <2>1. current'[n] = IF Documented(n) = {} THEN NoPath ELSE CHOOSE p \in Documented(n) : TRUE
      BY <1>1, <1>2, <1>6
    <2>2. target[n] \in Paths
      BY DEF TypeOK
    <2>3. Own(n) => Documented(n) = {target[n]}
      <3> SUFFICES ASSUME Own(n) PROVE Documented(n) = {target[n]}
        OBVIOUS
      <3>1. \A p \in Paths : Count(n, p) > 0 <=> p = target[n]
        BY <1>4, <1>6
      <3>2. QED
        BY <2>2, <3>1 DEF Documented
    <2>4. Own(n) => current'[n] = target[n]
      BY <2>1, <2>3
    <2>5. ~Own(n)
      BY <1>1, <1>6, <2>4 DEF Misplaced
    <2>6. QED
      BY <1>3, <2>5, NotOwn
  <1>7. ASSUME phase' = "unparsable"
        PROVE  \E n \in Misplaced', k \in Nodes : MovesWith(n, k)
    <2>1. PICK n \in Nodes : Twice(n)
      BY <1>1, <1>7
    <2>2. ~dryRun /\ current' = current
      BY <1>1, <1>2, <1>7
    <2>3. ~Own(n)
      <3> SUFFICES ASSUME Own(n) PROVE FALSE
        OBVIOUS
      <3>1. \A p \in Paths : Count(n, p) = IF p = target[n] THEN 1 ELSE 0
        BY <1>4, <2>2
      <3>2. PICK p \in Paths : Count(n, p) > 1 \/ \E q \in Paths \ {p} : Count(n, p) + Count(n, q) > 1
        BY <2>1 DEF Twice
      <3>3. ~(Count(n, p) > 1)
        BY <3>1
      <3>4. PICK q \in Paths \ {p} : Count(n, p) + Count(n, q) > 1
        BY <3>2, <3>3
      <3>5. Count(n, p) = 0 \/ Count(n, q) = 0
        BY <3>1, <3>4
      <3>6. QED
        BY <3>1, <3>4, <3>5
    <2>4. Misplaced' = Misplaced
      BY <1>1, <2>2 DEF Misplaced
    <2>5. QED
      BY <1>3, <2>3, <2>4, NotOwnMoves
  <1>8. \A n \in Misplaced' : n \in Nodes
    BY DEF Misplaced
  <1>9. QED
    BY <1>1, <1>5, <1>6, <1>7, <1>8 DEF Converges

LEMMA NextConverges ==
  ASSUME IInv, Converges, [Next]_vars
  PROVE  Converges'
  <1>1. CASE Draft
    <2>1. UNCHANGED <<current, target, origin>> /\ phase' = IF Misplaced = {} THEN "done" ELSE "prompt"
      BY <1>1 DEF Draft
    <2>2. Misplaced' = Misplaced
      BY <2>1, SameNodes
    <2>3. QED
      BY <2>1, <2>2 DEF Converges
  <1>2. CASE Reload
    BY <1>2, ReloadConverges
  <1>3. CASE Prompt \/ Applied \/ CommitYamls \/ Abort
    BY <1>3 DEF Prompt, Applied, CommitYamls, Abort, Converges
  <1>4. ASSUME NEW q \in Paths, WriteTarget(q) \/ Supersede(q) PROVE Converges'
    BY <1>4 DEF WriteTarget, Supersede, Converges
  <1>5. CASE UNCHANGED vars
    BY <1>5 DEF vars, Converges, Misplaced, MovesWith
  <1>6. QED
    BY <1>1, <1>2, <1>3, <1>4, <1>5 DEF Next

\* Nothing to move and nothing written, when the run had no plan.
NothingToDo == phase = "done" /\ op = NoPath => ~mutated /\ Misplaced = {}

LEMMA NextNothingToDo ==
  ASSUME IInv, NothingToDo, [Next]_vars
  PROVE  NothingToDo'
  <1>1. CASE Draft
    <2>1. /\ UNCHANGED <<current, target, origin, mutated>> /\ phase = "draft"
          /\ phase' = IF Misplaced = {} THEN "done" ELSE "prompt"
      BY <1>1 DEF Draft
    <2>2. Misplaced' = Misplaced
      BY <2>1, SameNodes
    <2>3. QED
      BY <2>1, <2>2 DEF NothingToDo, IInv, DraftInv
  <1>2. CASE Reload
    BY <1>2, ReloadFacts DEF Reload, NothingToDo
  <1>3. CASE Prompt \/ Applied \/ CommitYamls \/ Abort
    BY <1>3 DEF Prompt, Applied, CommitYamls, Abort, NothingToDo
  <1>4. ASSUME NEW q \in Paths, WriteTarget(q) \/ Supersede(q) PROVE NothingToDo'
    BY <1>4 DEF WriteTarget, Supersede, NothingToDo
  <1>5. CASE UNCHANGED vars
    BY <1>5 DEF vars, NothingToDo, Misplaced
  <1>6. QED
    BY <1>1, <1>2, <1>3, <1>4, <1>5 DEF Next

\* What a plan leaves and reports, for every project: unless nodes move together
\* nothing is left to move and dbt parses the result; the closing commit_yamls finds
\* nothing to write; and --check fails exactly when something was to move.
THEOREM PlanDoesSettle == Spec => []PlanSettles
  <1>1. Init => Converges /\ NothingToDo
    BY DEF Init, Converges, NothingToDo
  <1>2. IInv /\ Converges /\ NothingToDo /\ [Next]_vars => Converges' /\ NothingToDo'
    BY NextConverges, NextNothingToDo
  <1>3. IInv /\ Converges /\ NothingToDo => PlanSettles
    <2> SUFFICES ASSUME IInv, Converges, NothingToDo PROVE PlanSettles
      OBVIOUS
    <2>1. CommitFindsNothing
      <3> SUFFICES ASSUME phase = "commit", ~dryRun PROVE \A p \in Paths : buffer[p] = NoFile
        BY DEF CommitFindsNothing
      <3>1. Working /\ plan = {} /\ superseded = {}
        BY DEF Working, IInv, PlanInv
      <3>2. QED
        BY <3>1, NothingBuffered DEF IInv
    <2>2. phase = "reload" => mutated /\ Misplaced # {}
      BY ReloadFacts
    <2>3. phase = "unparsable" => mutated /\ Misplaced # {}
      BY DEF IInv, PlanInv, Converges
    <2>4. phase = "done" /\ op = NoPath => ~mutated /\ Misplaced = {}
      BY DEF NothingToDo
    <2>5. CheckIsTruthful
      BY <2>2, <2>3, <2>4 DEF CheckIsTruthful
    <2>6. QED
      BY <2>1, <2>5 DEF PlanSettles
  <1>4. Spec => []IInv
    BY Invariant
  <1>5. QED
    BY <1>1, <1>2, <1>3, <1>4, PTL DEF Spec
=============================================================================
