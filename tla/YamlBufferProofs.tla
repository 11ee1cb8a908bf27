-------------------------- MODULE YamlBufferProofs --------------------------
(***************************************************************************)
(* Lemmas about the operators of LruCache, for every set of paths and      *)
(* size, and theorems about YamlBuffer for every number of threads, nodes  *)
(* and files, every cache size and every assignment of nodes to files.     *)
(***************************************************************************)
EXTENDS YamlBuffer, SequenceTheorems, FiniteSetTheorems, WellFoundedInduction, TLAPS

-----------------------------------------------------------------------------
(* LRUCache                                                                *)

\* Removing one position keeps the rest, in order.
LEMMA RemoveAtFacts ==
  ASSUME NEW S, NEW s \in Seq(S), NEW i \in 1..Len(s)
  PROVE  /\ RemoveAt(s, i) \in Seq(S)
         /\ Len(RemoveAt(s, i)) = Len(s) - 1
         /\ \A j \in 1..Len(s)-1 : RemoveAt(s, i)[j] = IF j < i THEN s[j] ELSE s[j+1]
  <1> DEFINE a == SubSeq(s, 1, i-1)
             b == SubSeq(s, i+1, Len(s))
  <1>0. Len(s) \in Nat
    BY LenProperties
  <1>1. a \in Seq(S) /\ Len(a) = i-1 /\ \A j \in 1..i-1 : a[j] = s[j]
    BY <1>0, SubSeqProperties
  <1>2. b \in Seq(S) /\ Len(b) = Len(s)-i /\ \A j \in 1..Len(s)-i : b[j] = s[i+j]
    BY <1>0, SubSeqProperties
  <1>3. /\ a \o b \in Seq(S) /\ Len(a \o b) = Len(a) + Len(b)
        /\ \A j \in 1..Len(a)+Len(b) : (a \o b)[j] = IF j <= Len(a) THEN a[j] ELSE b[j-Len(a)]
    BY <1>1, <1>2, ConcatProperties
  <1>4. RemoveAt(s, i) = a \o b
    BY DEF RemoveAt
  <1> HIDE DEF a, b
  <1>5. Len(a \o b) = Len(s) - 1
    BY <1>0, <1>1, <1>2, <1>3
  <1>6. ASSUME NEW j \in 1..Len(s)-1
        PROVE  (a \o b)[j] = IF j < i THEN s[j] ELSE s[j+1]
    <2>1. (a \o b)[j] = IF j <= Len(a) THEN a[j] ELSE b[j-Len(a)]
      BY <1>0, <1>1, <1>2, <1>3
    <2>2. CASE j < i
      BY <1>0, <1>1, <2>1, <2>2
    <2>3. CASE ~(j < i)
      <3>1. j - (i-1) \in 1..Len(s)-i
        BY <1>0, <2>3
      <3>2. b[j-(i-1)] = s[i + (j-(i-1))]
        BY <1>2, <3>1
      <3>3. QED
        BY <1>0, <1>1, <2>1, <2>3, <3>2
    <2>4. QED
      BY <2>2, <2>3
  <1>7. QED
    BY <1>3, <1>4, <1>5, <1>6

\* A key that the cache holds has a position.
LEMMA PositionInRange ==
  ASSUME NEW c, NEW p, Holds(c, p)
  PROVE  Position(c, p) \in 1..Len(c.order) /\ c.order[Position(c, p)] = p
  BY DEF Position, Holds

\* A cache with a clean key has an oldest clean key.
LEMMA OldestCleanInRange ==
  ASSUME NEW c \in Caches, CleanPositions(c) # {}
  PROVE  OldestClean(c) \in 1..Len(c.order) /\ c.order[OldestClean(c)] \notin c.dirty
  <1>1. Len(c.order) \in Nat
    BY LenProperties DEF Caches
  <1>2. CleanPositions(c) \subseteq Nat
    BY <1>1 DEF CleanPositions
  <1>3. PICK i \in CleanPositions(c) :
          \A j \in CleanPositions(c) : ~(<<j, i>> \in OpToRel(<, Nat))
    BY <1>2, NatLessThanWellFounded, WFMin
  <1>4. \A j \in CleanPositions(c) : i <= j
    <2>1. ASSUME NEW j \in CleanPositions(c), j < i PROVE FALSE
      BY <1>2, <1>3, <2>1 DEF OpToRel
    <2>2. QED
      BY <1>2, <2>1
  <1>5. OldestClean(c) \in CleanPositions(c)
    BY <1>4 DEF OldestClean
  <1>6. QED
    BY <1>5 DEF CleanPositions

\* Removing any position of a cache's order leaves a cache, and only the key at
\* that position can be gone.
LEMMA RemoveKeeps ==
  ASSUME NEW c \in Caches, NEW i \in 1..Len(c.order)
  PROVE  /\ RemoveAt(c.order, i) \in Seq(Paths)
         /\ Len(RemoveAt(c.order, i)) = Len(c.order) - 1
         /\ \A q : q # c.order[i] /\ Holds(c, q) =>
              \E j \in 1..Len(c.order)-1 : RemoveAt(c.order, i)[j] = q
         /\ \A j \in 1..Len(c.order)-1 : Holds(c, RemoveAt(c.order, i)[j])
  <1>0. c.order \in Seq(Paths) /\ Len(c.order) \in Nat
    BY LenProperties DEF Caches
  <1>1. /\ RemoveAt(c.order, i) \in Seq(Paths)
        /\ Len(RemoveAt(c.order, i)) = Len(c.order) - 1
        /\ \A j \in 1..Len(c.order)-1 :
             RemoveAt(c.order, i)[j] = IF j < i THEN c.order[j] ELSE c.order[j+1]
    BY <1>0, RemoveAtFacts
  <1>2. ASSUME NEW q, q # c.order[i], Holds(c, q)
        PROVE  \E j \in 1..Len(c.order)-1 : RemoveAt(c.order, i)[j] = q
    <2>1. PICK k \in 1..Len(c.order) : c.order[k] = q
      BY <1>2 DEF Holds
    <2>2. CASE k < i
      <3>1. k \in 1..Len(c.order)-1 /\ RemoveAt(c.order, i)[k] = q
        BY <1>0, <1>1, <2>1, <2>2
      <3>2. QED
        BY <3>1
    <2>3. CASE k > i
      <3>1. k-1 \in 1..Len(c.order)-1 /\ ~(k-1 < i) /\ (k-1)+1 = k
        BY <1>0, <2>3
      <3>2. RemoveAt(c.order, i)[k-1] = c.order[k]
        BY <1>1, <3>1
      <3>3. QED
        BY <2>1, <3>1, <3>2
    <2>4. k # i
      BY <1>2, <2>1
    <2>5. QED
      BY <2>2, <2>3, <2>4
  <1>3. ASSUME NEW j \in 1..Len(c.order)-1
        PROVE  Holds(c, RemoveAt(c.order, i)[j])
    BY <1>0, <1>1 DEF Holds
  <1>4. QED
    BY <1>1, <1>2, <1>3

\* Eviction leaves a cache and never takes a dirty key.
LEMMA EvictOneCleanKeepsDirty ==
  ASSUME NEW c \in Caches
  PROVE  /\ EvictOneClean(c) \in Caches
         /\ EvictOneClean(c).dirty = c.dirty
         /\ \A q \in c.dirty : Holds(c, q) => Holds(EvictOneClean(c), q)
         /\ \A q : Holds(EvictOneClean(c), q) => Holds(c, q)
  <1>1. CASE CleanPositions(c) = {}
    BY <1>1 DEF EvictOneClean
  <1>2. CASE CleanPositions(c) # {}
    <2> DEFINE i == OldestClean(c)
    <2>1. i \in 1..Len(c.order) /\ c.order[i] \notin c.dirty
      BY <1>2, OldestCleanInRange
    <2>2. /\ EvictOneClean(c) = [c EXCEPT !.order = RemoveAt(c.order, i)]
          /\ EvictOneClean(c).order = RemoveAt(c.order, i)
          /\ EvictOneClean(c).dirty = c.dirty
      BY <1>2 DEF EvictOneClean, Caches
    <2> HIDE DEF i
    <2>3. RemoveAt(c.order, i) \in Seq(Paths)
      BY <2>1, RemoveKeeps
    <2>4. EvictOneClean(c) \in Caches
      BY <2>2, <2>3 DEF Caches
    <2>5. ASSUME NEW q \in c.dirty, Holds(c, q) PROVE Holds(EvictOneClean(c), q)
      <3>1. PICK j \in 1..Len(c.order)-1 : RemoveAt(c.order, i)[j] = q
        BY <2>1, <2>5, RemoveKeeps
      <3>2. Len(RemoveAt(c.order, i)) = Len(c.order) - 1
        BY <2>1, RemoveKeeps
      <3>3. QED
        BY <2>2, <3>1, <3>2 DEF Holds
    <2>6. ASSUME NEW q, Holds(EvictOneClean(c), q) PROVE Holds(c, q)
      <3>1. Len(RemoveAt(c.order, i)) = Len(c.order) - 1
        BY <2>1, RemoveKeeps
      <3>2. PICK j \in 1..Len(c.order)-1 : RemoveAt(c.order, i)[j] = q
        BY <2>2, <2>6, <3>1 DEF Holds
      <3>3. QED
        BY <2>1, <3>2, RemoveKeeps
    <2>7. QED
      BY <2>2, <2>4, <2>5, <2>6
  <1>3. QED
    BY <1>1, <1>2

\* Inserting a key leaves a cache that holds it and every dirty key it held.
LEMMA InsertFacts ==
  ASSUME NEW c \in Caches, NEW p \in Paths
  PROVE  /\ Insert(c, p) \in Caches /\ Insert(c, p).dirty = c.dirty
         /\ Holds(Insert(c, p), p)
         /\ \A q \in c.dirty : Holds(c, q) => Holds(Insert(c, p), q)
         /\ \A q : Holds(Insert(c, p), q) => q = p \/ Holds(c, q)
  <1> DEFINE e == IF Len(c.order) >= MaxSize THEN EvictOneClean(c) ELSE c
  <1>1. /\ e \in Caches /\ e.dirty = c.dirty
        /\ \A q \in c.dirty : Holds(c, q) => Holds(e, q)
        /\ \A q : Holds(e, q) => Holds(c, q)
    BY EvictOneCleanKeepsDirty
  <1>2. Insert(c, p) = [e EXCEPT !.order = Append(e.order, p)]
    BY <1>1 DEF Insert, Caches
  <1> HIDE DEF e
  <1>3. /\ Append(e.order, p) \in Seq(Paths)
        /\ Len(e.order) \in Nat
        /\ Len(Append(e.order, p)) = Len(e.order) + 1
        /\ Append(e.order, p)[Len(e.order) + 1] = p
        /\ \A i \in 1..Len(e.order) : Append(e.order, p)[i] = e.order[i]
    BY <1>1, LenProperties, AppendProperties DEF Caches
  <1>4. /\ Insert(c, p) \in Caches /\ Insert(c, p).dirty = c.dirty
        /\ Insert(c, p).order = Append(e.order, p)
    BY <1>1, <1>2, <1>3 DEF Caches
  <1>5. \A q : Holds(e, q) => Holds(Insert(c, p), q)
    BY <1>3, <1>4 DEF Holds
  <1>6. Holds(Insert(c, p), p)
    BY <1>3, <1>4 DEF Holds
  <1>7. ASSUME NEW q, Holds(Insert(c, p), q) PROVE q = p \/ Holds(c, q)
    <2>1. PICK k \in 1..Len(e.order)+1 : Append(e.order, p)[k] = q
      BY <1>3, <1>4, <1>7 DEF Holds
    <2>2. k \in 1..Len(e.order) => Holds(e, q)
      BY <1>3, <2>1 DEF Holds
    <2>3. k \in 1..Len(e.order) \/ k = Len(e.order) + 1
      BY <1>3
    <2>4. QED
      BY <1>1, <1>3, <2>1, <2>2, <2>3
  <1>8. QED
    BY <1>1, <1>4, <1>5, <1>6, <1>7

\* Touching a key leaves a cache with the same keys.
LEMMA MoveToEndFacts ==
  ASSUME NEW c \in Caches, NEW p \in Paths, Holds(c, p)
  PROVE  /\ MoveToEnd(c, p) \in Caches /\ MoveToEnd(c, p).dirty = c.dirty
         /\ \A q : Holds(MoveToEnd(c, p), q) <=> Holds(c, q)
  <1> DEFINE i == Position(c, p)
             s == RemoveAt(c.order, i)
  <1>1. i \in 1..Len(c.order) /\ c.order[i] = p
    BY PositionInRange
  <1>2. MoveToEnd(c, p) = [c EXCEPT !.order = Append(s, p)]
    BY DEF MoveToEnd, Caches
  <1> HIDE DEF i
  <1>3. /\ s \in Seq(Paths) /\ Len(s) = Len(c.order) - 1
        /\ \A q : q # p /\ Holds(c, q) => \E j \in 1..Len(c.order)-1 : s[j] = q
        /\ \A j \in 1..Len(c.order)-1 : Holds(c, s[j])
    <2>1. s \in Seq(Paths) /\ Len(s) = Len(c.order) - 1
      BY <1>1, RemoveKeeps
    <2>2. ASSUME NEW q, q # p, Holds(c, q)
          PROVE  \E j \in 1..Len(c.order)-1 : s[j] = q
      BY <1>1, <2>2, RemoveKeeps
    <2>3. \A j \in 1..Len(c.order)-1 : Holds(c, s[j])
      BY <1>1, RemoveKeeps
    <2>4. QED
      BY <2>1, <2>2, <2>3
  <1> HIDE DEF s
  <1>9. /\ \A q : q # p /\ Holds(c, q) => \E j \in 1..Len(s) : s[j] = q
        /\ \A j \in 1..Len(s) : Holds(c, s[j])
    BY <1>3
  <1>4. /\ Append(s, p) \in Seq(Paths) /\ Len(s) \in Nat
        /\ Len(Append(s, p)) = Len(s) + 1
        /\ Append(s, p)[Len(s) + 1] = p
        /\ \A j \in 1..Len(s) : Append(s, p)[j] = s[j]
    BY <1>3, LenProperties, AppendProperties
  <1>5. /\ MoveToEnd(c, p) \in Caches /\ MoveToEnd(c, p).dirty = c.dirty
        /\ MoveToEnd(c, p).order = Append(s, p)
    BY <1>2, <1>4 DEF Caches
  <1>6. ASSUME NEW q, Holds(c, q) PROVE Holds(MoveToEnd(c, p), q)
    <2>1. CASE q = p
      BY <1>4, <1>5, <2>1 DEF Holds
    <2>2. CASE q # p
      <3>1. PICK j \in 1..Len(s) : s[j] = q
        BY <1>6, <1>9, <2>2
      <3>2. j \in 1..Len(s)+1 /\ Append(s, p)[j] = q
        BY <1>4, <3>1
      <3>3. QED
        BY <1>4, <1>5, <3>2 DEF Holds
    <2>3. QED
      BY <2>1, <2>2
  <1>7. ASSUME NEW q, Holds(MoveToEnd(c, p), q) PROVE Holds(c, q)
    <2>1. PICK k \in 1..Len(s)+1 : Append(s, p)[k] = q
      BY <1>4, <1>5, <1>7 DEF Holds
    <2>2. k \in 1..Len(s) \/ k = Len(s) + 1
      BY <1>4
    <2>3. QED
      BY <1>9, <1>4, <2>1, <2>2
  <1>8. QED
    BY <1>5, <1>6, <1>7

\* Discarding a key leaves a cache with every other key.
LEMMA DiscardFacts ==
  ASSUME NEW c \in Caches, NEW p \in Paths
  PROVE  /\ Discard(c, p) \in Caches
         /\ Discard(c, p).dirty \subseteq c.dirty
         /\ \A q : q # p /\ Holds(c, q) => Holds(Discard(c, p), q)
         /\ \A q : Holds(Discard(c, p), q) => Holds(c, q)
  <1>1. CASE ~Holds(c, p)
    BY <1>1 DEF Discard
  <1>2. CASE Holds(c, p)
    <2> DEFINE i == Position(c, p)
               s == RemoveAt(c.order, i)
    <2>1. i \in 1..Len(c.order) /\ c.order[i] = p
      BY <1>2, PositionInRange
    <2>2. Discard(c, p) = [order |-> s, dirty |-> c.dirty \ {p}]
      BY <1>2 DEF Discard
    <2> HIDE DEF i
    <2>3. /\ s \in Seq(Paths) /\ Len(s) = Len(c.order) - 1
          /\ \A q : q # p /\ Holds(c, q) => \E j \in 1..Len(c.order)-1 : s[j] = q
          /\ \A j \in 1..Len(c.order)-1 : Holds(c, s[j])
      <3>1. s \in Seq(Paths) /\ Len(s) = Len(c.order) - 1
        BY <2>1, RemoveKeeps
      <3>2. ASSUME NEW q, q # p, Holds(c, q)
            PROVE  \E j \in 1..Len(c.order)-1 : s[j] = q
        BY <2>1, <3>2, RemoveKeeps
      <3>3. \A j \in 1..Len(c.order)-1 : Holds(c, s[j])
        BY <2>1, RemoveKeeps
      <3>4. QED
        BY <3>1, <3>2, <3>3
    <2> HIDE DEF s
    <2>4. /\ \A q : q # p /\ Holds(c, q) => \E j \in 1..Len(s) : s[j] = q
          /\ \A j \in 1..Len(s) : Holds(c, s[j])
      BY <2>3
    <2>5. /\ Discard(c, p).order = s
          /\ Discard(c, p) \in Caches
          /\ Discard(c, p).dirty \subseteq c.dirty
      BY <2>2, <2>3 DEF Caches
    <2>6. \A q : (\E j \in 1..Len(s) : s[j] = q) <=> Holds(Discard(c, p), q)
      BY <2>5 DEF Holds
    <2>7. QED
      BY <2>4, <2>5, <2>6
  <1>3. QED
    BY <1>1, <1>2

\* Every method of the cache returns a cache.
LEMMA MethodsType ==
  ASSUME NEW c \in Caches, NEW p \in Paths
  PROVE  /\ SetItem(c, p) \in Caches /\ SetDefault(c, p) \in Caches
         /\ Discard(c, p) \in Caches /\ MarkDirty(c, p) \in Caches
         /\ Holds(c, p) => GetItem(c, p) \in Caches
  <1>1. MarkDirty(c, p) \in Caches
    BY DEF MarkDirty, Caches
  <1>2. QED
    BY <1>1, InsertFacts, MoveToEndFacts, DiscardFacts DEF SetItem, SetDefault, GetItem

\* What the methods do to the set of keys.
LEMMA MethodsKeys ==
  ASSUME NEW c \in Caches, NEW p \in Paths
  PROVE  /\ \A q : Holds(SetItem(c, p), q) => q = p \/ Holds(c, q)
         /\ \A q : Holds(SetDefault(c, p), q) => q = p \/ Holds(c, q)
         /\ \A q : Holds(Discard(c, p), q) => Holds(c, q)
         /\ \A q : Holds(MarkDirty(c, p), q) <=> Holds(c, q)
         /\ Holds(c, p) => \A q : Holds(GetItem(c, p), q) <=> Holds(c, q)
  <1>1. \A q : Holds(MarkDirty(c, p), q) <=> Holds(c, q)
    <2>1. MarkDirty(c, p).order = c.order
      BY DEF MarkDirty, Caches
    <2>2. QED
      BY <2>1 DEF Holds
  <1>2. QED
    BY <1>1, InsertFacts, MoveToEndFacts, DiscardFacts DEF SetItem, SetDefault, GetItem

\* LRUCache's promise: no method but a discard of the key itself removes a
\* dirty key ("Dirty entries can be pinned so buffered YAML mutations are not
\* silently discarded before they are committed").
THEOREM DirtyKeysArePinned ==
  ASSUME NEW c \in Caches, NEW q \in c.dirty, Holds(c, q), NEW p \in Paths
  PROVE  /\ Holds(SetItem(c, p), q) /\ q \in SetItem(c, p).dirty
         /\ Holds(SetDefault(c, p), q) /\ q \in SetDefault(c, p).dirty
         /\ Holds(MarkDirty(c, p), q) /\ q \in MarkDirty(c, p).dirty
         /\ Holds(c, p) => Holds(GetItem(c, p), q) /\ q \in GetItem(c, p).dirty
         /\ p # q => Holds(Discard(c, p), q) /\ q \in Discard(c, p).dirty
  <1>1. Holds(MarkDirty(c, p), q) /\ q \in MarkDirty(c, p).dirty
    BY DEF MarkDirty, Holds, Caches
  <1>2. p # q => q \in Discard(c, p).dirty
    BY DEF Discard
  <1>3. QED
    BY <1>1, <1>2, InsertFacts, MoveToEndFacts, DiscardFacts DEF SetItem, SetDefault, GetItem

-----------------------------------------------------------------------------
\* A cache as its methods keep it: a key once, a dirty key never without its
\* entry, and no more entries than maxsize or one more than is pinned.
NoDuplicates(c) ==
  \A i, j \in 1..Len(c.order) : c.order[i] = c.order[j] => i = j

WithinBound(c) ==
  Len(c.order) <= MaxSize \/ Len(c.order) <= Cardinality(c.dirty) + 1

Sound(c) ==
  /\ c \in Caches /\ NoDuplicates(c)
  /\ IsFiniteSet(c.dirty) /\ \A q \in c.dirty : Holds(c, q)
  /\ WithinBound(c)

LEMMA EmptySound == Sound(EmptyCache)
  <1>1. EmptyCache \in Caches /\ Len(EmptyCache.order) = 0 /\ EmptyCache.dirty = {}
    BY EmptySeq DEF EmptyCache, Caches
  <1>2. QED
    BY <1>1, FS_EmptySet, MaxSizeAssumption DEF Sound, NoDuplicates, WithinBound

\* Taking one position away leaves no second copy of its key.
LEMMA RemoveOnce ==
  ASSUME NEW c \in Caches, NoDuplicates(c), NEW i \in 1..Len(c.order)
  PROVE  LET s == RemoveAt(c.order, i)
         IN  /\ \A j, k \in 1..Len(c.order)-1 : s[j] = s[k] => j = k
             /\ \A j \in 1..Len(c.order)-1 : s[j] # c.order[i]
  <1>0. c.order \in Seq(Paths) /\ Len(c.order) \in Nat
    BY LenProperties DEF Caches
  <1> DEFINE s == RemoveAt(c.order, i)
             at(j) == IF j < i THEN j ELSE j + 1
  <1>1. \A j \in 1..Len(c.order)-1 : s[j] = IF j < i THEN c.order[j] ELSE c.order[j+1]
    BY <1>0, RemoveAtFacts
  <1>2. \A j \in 1..Len(c.order)-1 : at(j) \in 1..Len(c.order) /\ at(j) # i /\ s[j] = c.order[at(j)]
    BY <1>0, <1>1
  <1>3. \A j, k \in 1..Len(c.order)-1 : at(j) = at(k) => j = k
    BY <1>0
  <1> HIDE DEF s, at
  <1>4. \A j, k \in 1..Len(c.order)-1 : s[j] = s[k] => j = k
    BY <1>2, <1>3 DEF NoDuplicates
  <1>5. \A j \in 1..Len(c.order)-1 : s[j] # c.order[i]
    BY <1>2 DEF NoDuplicates
  <1>6. QED
    BY <1>4, <1>5 DEF s

\* A cache whose keys are all dirty is no longer than its dirty set.
LEMMA AllDirty ==
  ASSUME NEW c, Sound(c), CleanPositions(c) = {}
  PROVE  Len(c.order) <= Cardinality(c.dirty)
  <1>1. c.order \in Seq(Paths) /\ Len(c.order) \in Nat
    BY LenProperties DEF Sound, Caches
  <1> DEFINE n == Len(c.order)
             f == [i \in 1..n |-> c.order[i]]
  <1>2. \A i \in 1..n : c.order[i] \in c.dirty
    BY DEF CleanPositions
  <1>3. f \in Injection(1..n, c.dirty)
    BY <1>2 DEF Injection, IsInjective, Sound, NoDuplicates
  <1>4. Cardinality(1..n) <= Cardinality(c.dirty)
    BY <1>3, FS_Injection DEF Sound
  <1>5. Cardinality(1..n) = n
    BY <1>1, FS_Interval
  <1>6. QED
    BY <1>4, <1>5

\* A key the cache does not hold is inserted at the end of what is kept.
LEMMA InsertSound ==
  ASSUME NEW c, Sound(c), NEW p \in Paths, ~Holds(c, p)
  PROVE  Sound(Insert(c, p))
  <1> DEFINE full == Len(c.order) >= MaxSize
             e == IF full THEN EvictOneClean(c) ELSE c
             d == Insert(c, p)
             n == Len(c.order)
             m == Len(e.order)
  <1>0. c \in Caches /\ c.order \in Seq(Paths) /\ n \in Nat /\ Cardinality(c.dirty) \in Nat
    BY LenProperties, FS_CardinalityType DEF Sound, Caches
  <1>1. /\ e \in Caches /\ e.dirty = c.dirty /\ \A q : Holds(e, q) => Holds(c, q)
    BY <1>0, EvictOneCleanKeepsDirty
  <1>2. /\ e.order \in Seq(Paths) /\ m \in Nat
        /\ d.order = Append(e.order, p)
        /\ Len(d.order) = m + 1 /\ d.order[m + 1] = p
        /\ \A i \in 1..m : d.order[i] = e.order[i]
    <2> HIDE DEF e
    <2>1. Insert(c, p) = [e EXCEPT !.order = Append(e.order, p)]
      BY <1>1 DEF Insert, Caches, e
    <2>2. e.order \in Seq(Paths) /\ m \in Nat
      BY <1>1, LenProperties DEF Caches
    <2>3. d.order = Append(e.order, p)
      BY <1>1, <2>1 DEF Caches
    <2>4. QED
      BY <2>2, <2>3, AppendProperties
  <1>3. d \in Caches /\ d.dirty = c.dirty /\ \A q \in c.dirty : Holds(d, q)
    BY <1>0, InsertFacts DEF Sound
  <1>4. NoDuplicates(e) /\ (m + 1 <= MaxSize \/ m + 1 <= Cardinality(c.dirty) + 1)
    <2>1. CASE ~full
      BY <1>0, <2>1, MaxSizeAssumption DEF Sound
    <2>2. CASE full /\ CleanPositions(c) = {}
      BY <1>0, <2>2, AllDirty DEF Sound, EvictOneClean
    <2>3. CASE full /\ CleanPositions(c) # {}
      <3> DEFINE i == OldestClean(c)
      <3>1. i \in 1..n
        BY <1>0, <2>3, OldestCleanInRange
      <3>2. e.order = RemoveAt(c.order, i)
        BY <1>0, <2>3 DEF EvictOneClean, Caches
      <3> HIDE DEF i, e
      <3>3. m = n - 1
        BY <1>0, <3>1, <3>2, RemoveKeeps
      <3>4. NoDuplicates(e)
        BY <1>0, <3>1, <3>2, <3>3, RemoveOnce DEF Sound, NoDuplicates
      <3>5. QED
        BY <1>0, <3>3, <3>4, MaxSizeAssumption DEF Sound, WithinBound
    <2>4. QED
      BY <2>1, <2>2, <2>3
  <1> HIDE DEF e, d
  <1>5. \A i \in 1..m : e.order[i] # p
    BY <1>1 DEF Holds
  <1>6. NoDuplicates(d)
    <2> SUFFICES ASSUME NEW i \in 1..m+1, NEW j \in 1..m+1, d.order[i] = d.order[j]
                 PROVE  i = j
      BY <1>2 DEF NoDuplicates
    <2>1. (i \in 1..m \/ i = m + 1) /\ (j \in 1..m \/ j = m + 1)
      BY <1>2
    <2>2. CASE i \in 1..m /\ j \in 1..m
      BY <1>2, <1>4, <2>2 DEF NoDuplicates
    <2>3. QED
      BY <1>2, <1>5, <2>1, <2>2
  <1>7. WithinBound(d)
    BY <1>2, <1>3, <1>4 DEF WithinBound
  <1>8. QED
    BY <1>3, <1>6, <1>7 DEF Sound, d

LEMMA MoveToEndSound ==
  ASSUME NEW c, Sound(c), NEW p \in Paths, Holds(c, p)
  PROVE  Sound(MoveToEnd(c, p))
  <1> DEFINE i == Position(c, p)
             s == RemoveAt(c.order, i)
             d == MoveToEnd(c, p)
             n == Len(c.order)
  <1>0. c \in Caches /\ c.order \in Seq(Paths) /\ n \in Nat
    BY LenProperties DEF Sound, Caches
  <1>1. i \in 1..n /\ c.order[i] = p
    BY PositionInRange
  <1>2. d.order = Append(s, p) /\ d.dirty = c.dirty
    BY <1>0 DEF MoveToEnd, Caches
  <1> HIDE DEF i
  <1>3. /\ s \in Seq(Paths) /\ Len(s) = n - 1
        /\ \A j, k \in 1..n-1 : s[j] = s[k] => j = k
        /\ \A j \in 1..n-1 : s[j] # p
    BY <1>0, <1>1, RemoveKeeps, RemoveOnce DEF Sound
  <1> HIDE DEF s, d
  <1>4. /\ Len(d.order) = n /\ d.order[n] = p
        /\ \A j \in 1..n-1 : d.order[j] = s[j]
    BY <1>0, <1>2, <1>3, AppendProperties
  <1>5. NoDuplicates(d)
    <2> SUFFICES ASSUME NEW j \in 1..n, NEW k \in 1..n, d.order[j] = d.order[k]
                 PROVE  j = k
      BY <1>4 DEF NoDuplicates
    <2>1. (j \in 1..n-1 \/ j = n) /\ (k \in 1..n-1 \/ k = n)
      BY <1>0
    <2>2. CASE j \in 1..n-1 /\ k \in 1..n-1
      BY <1>3, <1>4, <2>2
    <2>3. QED
      BY <1>3, <1>4, <2>1, <2>2
  <1>6. d \in Caches /\ \A q : Holds(d, q) <=> Holds(c, q)
    BY <1>0, MoveToEndFacts DEF d
  <1>7. QED
    BY <1>2, <1>4, <1>5, <1>6 DEF Sound, WithinBound, d

LEMMA DiscardSound ==
  ASSUME NEW c, Sound(c), NEW p \in Paths
  PROVE  Sound(Discard(c, p))
  <1> DEFINE i == Position(c, p)
             s == RemoveAt(c.order, i)
             d == Discard(c, p)
             n == Len(c.order)
  <1>0. c \in Caches /\ c.order \in Seq(Paths) /\ n \in Nat /\ Cardinality(c.dirty) \in Nat
    BY LenProperties, FS_CardinalityType DEF Sound, Caches
  <1>1. CASE ~Holds(c, p)
    BY <1>1 DEF Discard
  <1>2. CASE Holds(c, p)
    <2>1. i \in 1..n /\ c.order[i] = p
      BY <1>2, PositionInRange
    <2>2. d.order = s /\ d.dirty = c.dirty \ {p}
      BY <1>2 DEF Discard
    <2> HIDE DEF i
    <2>3. /\ Len(s) = n - 1
          /\ \A j, k \in 1..n-1 : s[j] = s[k] => j = k
      BY <1>0, <2>1, RemoveKeeps, RemoveOnce DEF Sound
    <2> HIDE DEF s, d
    <2>4. IsFiniteSet(d.dirty) /\ Cardinality(d.dirty) >= Cardinality(c.dirty) - 1 /\ Cardinality(d.dirty) \in Nat
      <3>1. IsFiniteSet(c.dirty)
        BY DEF Sound
      <3>2. /\ IsFiniteSet(c.dirty \ {p})
            /\ Cardinality(c.dirty \ {p}) =
                 IF p \in c.dirty THEN Cardinality(c.dirty) - 1 ELSE Cardinality(c.dirty)
        BY <3>1, FS_RemoveElement
      <3>3. Cardinality(c.dirty \ {p}) \in Nat
        BY <3>2, FS_CardinalityType
      <3>4. QED
        BY <1>0, <2>2, <3>2, <3>3
    <2>5. NoDuplicates(d)
      BY <2>2, <2>3 DEF NoDuplicates
    <2>6. d \in Caches /\ \A q \in d.dirty : Holds(d, q)
      BY <1>0, <2>2, DiscardFacts DEF Sound, d
    <2>7. WithinBound(d)
      BY <1>0, <2>2, <2>3, <2>4, MaxSizeAssumption DEF Sound, WithinBound
    <2>8. QED
      BY <2>4, <2>5, <2>6, <2>7 DEF Sound, d
  <1>3. QED
    BY <1>1, <1>2

\* Every method keeps a cache sound: at its limit it evicts, and it only grows
\* past the limit by what it was told to pin.
LEMMA MethodsSound ==
  ASSUME NEW c, Sound(c), NEW p \in Paths
  PROVE  /\ Sound(SetItem(c, p)) /\ Sound(SetDefault(c, p))
         /\ Sound(Discard(c, p)) /\ Sound(MarkDirty(c, p))
         /\ Holds(c, p) => Sound(GetItem(c, p))
  <1>1. Sound(MarkDirty(c, p))
    <2>1. CASE ~Holds(c, p)
      BY <2>1 DEF MarkDirty
    <2>2. CASE Holds(c, p)
      <3> DEFINE d == MarkDirty(c, p)
      <3>1. d.order = c.order /\ d.dirty = c.dirty \cup {p} /\ d \in Caches
        BY <2>2 DEF MarkDirty, Sound, Caches
      <3> HIDE DEF d
      <3>2. /\ IsFiniteSet(d.dirty) /\ Cardinality(d.dirty) >= Cardinality(c.dirty)
            /\ Cardinality(d.dirty) \in Nat /\ Cardinality(c.dirty) \in Nat /\ Len(c.order) \in Nat
        <4>1. IsFiniteSet(c.dirty) /\ c.order \in Seq(Paths)
          BY DEF Sound, Caches
        <4>2. /\ IsFiniteSet(c.dirty \cup {p})
              /\ Cardinality(c.dirty \cup {p}) =
                   IF p \in c.dirty THEN Cardinality(c.dirty) ELSE Cardinality(c.dirty) + 1
          BY <4>1, FS_AddElement
        <4>3. Cardinality(c.dirty) \in Nat
          BY <4>1, FS_CardinalityType
        <4>4. Len(c.order) \in Nat
          BY <4>1, LenProperties
        <4>5. QED
          BY <3>1, <4>2, <4>3, <4>4
      <3>3. NoDuplicates(d) /\ \A q \in d.dirty : Holds(d, q)
        BY <2>2, <3>1 DEF Sound, NoDuplicates, Holds
      <3>4. WithinBound(d)
        BY <3>1, <3>2 DEF Sound, WithinBound
      <3>5. QED
        BY <3>1, <3>2, <3>3, <3>4 DEF Sound, d
    <2>3. QED
      BY <2>1, <2>2
  <1>2. QED
    BY <1>1, InsertSound, MoveToEndSound, DiscardSound DEF SetItem, SetDefault, GetItem

-----------------------------------------------------------------------------
\* The cache has room for every path there is: nothing is ever evicted.
CacheFits == IsFiniteSet(Paths) /\ Cardinality(Paths) <= MaxSize

\* A key that a cache without duplicates does not hold finds a free place.
LEMMA RoomLeft ==
  ASSUME CacheFits, NEW c, Sound(c), NEW p \in Paths, ~Holds(c, p)
  PROVE  Len(c.order) < MaxSize
  <1>1. c.order \in Seq(Paths) /\ Len(c.order) \in Nat
    BY LenProperties DEF Sound, Caches
  <1> DEFINE n == Len(c.order)
             f == [i \in 1..n |-> c.order[i]]
  <1>2. IsFiniteSet(Paths) /\ Cardinality(Paths) <= MaxSize
    BY DEF CacheFits
  <1>3. /\ IsFiniteSet(Paths \ {p}) /\ Cardinality(Paths \ {p}) = Cardinality(Paths) - 1
        /\ Cardinality(Paths) \in Nat
    BY <1>2, FS_RemoveElement, FS_CardinalityType
  <1>4. \A i \in 1..n : c.order[i] \in Paths \ {p}
    BY <1>1, ElementOfSeq DEF Holds
  <1>5. f \in Injection(1..n, Paths \ {p})
    BY <1>4 DEF Injection, IsInjective, Sound, NoDuplicates
  <1>6. Cardinality(1..n) <= Cardinality(Paths \ {p})
    BY <1>3, <1>5, FS_Injection
  <1>7. Cardinality(1..n) = n
    BY <1>1, FS_Interval
  <1>8. QED
    BY <1>1, <1>2, <1>3, <1>6, <1>7, MaxSizeAssumption

\* With room for every path an insertion costs no key its place.
LEMMA InsertKeepsAll ==
  ASSUME CacheFits, NEW c, Sound(c), NEW p \in Paths, ~Holds(c, p)
  PROVE  \A q : Holds(c, q) => Holds(Insert(c, p), q)
  <1>1. c \in Caches /\ c.order \in Seq(Paths) /\ Len(c.order) \in Nat
    BY LenProperties DEF Sound, Caches
  <1>2. ~(Len(c.order) >= MaxSize)
    BY <1>1, RoomLeft, MaxSizeAssumption
  <1>3. Insert(c, p).order = Append(c.order, p)
    BY <1>1, <1>2 DEF Insert, Caches
  <1>4. /\ Len(Append(c.order, p)) = Len(c.order) + 1
        /\ \A i \in 1..Len(c.order) : Append(c.order, p)[i] = c.order[i]
    BY <1>1, AppendProperties
  <1>5. QED
    BY <1>1, <1>3, <1>4 DEF Holds

\* So the methods keep every key but the one they discard.
LEMMA MethodsKeepAll ==
  ASSUME CacheFits, NEW c, Sound(c), NEW p \in Paths
  PROVE  /\ \A q : Holds(SetItem(c, p), q) <=> q = p \/ Holds(c, q)
         /\ \A q : Holds(SetDefault(c, p), q) <=> q = p \/ Holds(c, q)
  <1>1. c \in Caches
    BY DEF Sound
  <1>2. CASE Holds(c, p)
    BY <1>1, <1>2, MoveToEndFacts DEF SetItem, SetDefault
  <1>3. CASE ~Holds(c, p)
    BY <1>1, <1>3, InsertKeepsAll, InsertFacts DEF SetItem, SetDefault
  <1>4. QED
    BY <1>2, <1>3

\* A discarded key is gone: it was there once.
LEMMA DiscardRemoves ==
  ASSUME NEW c, Sound(c), NEW p \in Paths
  PROVE  ~Holds(Discard(c, p), p)
  <1>1. CASE ~Holds(c, p)
    BY <1>1 DEF Discard
  <1>2. CASE Holds(c, p)
    <2> DEFINE i == Position(c, p)
               s == RemoveAt(c.order, i)
    <2>1. i \in 1..Len(c.order) /\ c.order[i] = p
      BY <1>2, PositionInRange
    <2>2. Discard(c, p).order = s
      BY <1>2 DEF Discard
    <2> HIDE DEF i
    <2>3. c \in Caches /\ NoDuplicates(c)
      BY DEF Sound
    <2>4. \A j \in 1..Len(c.order)-1 : s[j] # p
      BY <2>1, <2>3, RemoveOnce
    <2>5. Len(s) = Len(c.order) - 1
      BY <2>1, <2>3, RemoveKeeps
    <2>6. QED
      BY <2>2, <2>4, <2>5 DEF Holds
  <1>3. QED
    BY <1>1, <1>2

-----------------------------------------------------------------------------
(* The buffer                                                              *)

\* The files that Init, the writer and the fallback put on disk are files.
LEMMA FileTypes ==
  /\ Blank \in [Nodes -> EntryStates]
  /\ NoFile \in Files /\ Torn \in Files
  /\ \A e \in [Nodes -> EntryStates], k \in BOOLEAN : Whole(e, k) \in Files
  BY DEF Blank, EntryStates, NoFile, Torn, Whole, Files

LEMMA InitType == Init => TypeOK
  <1> SUFFICES ASSUME Init PROVE TypeOK
    OBVIOUS
  <1>1. disk \in [Paths -> Files]
    <2>1. \A p \in Paths : InitialFiles(p) \subseteq Files
      <3>1. [Nodes -> {"absent", "old"}] \subseteq [Nodes -> EntryStates]
        BY DEF EntryStates
      <3>2. QED
        BY <3>1, FileTypes DEF InitialFiles
    <2>2. QED
      BY <2>1 DEF Init
  <1>2. EmptyCache \in Caches
    BY EmptySeq DEF EmptyCache, Caches
  <1>3. (CHOOSE n \in Nodes : TRUE) \in Nodes
    BY HomeAssumption
  <1>4. /\ 0 \in 0..MaxPeeks /\ 0 \in 0..MaxCrashes
        /\ "idle" \in Pcs /\ NoFile \in Files /\ Blank \in [Nodes -> EntryStates]
    BY FileTypes, BoundsAssumption DEF Pcs
  <1>5. /\ temp \in [Paths -> {"none", "torn", "whole"}]
        /\ heap \in [Docs -> [Nodes -> EntryStates]]
        /\ bufferDoc \in [Paths -> Docs \cup {NoDoc, EmptyDoc}]
        /\ originalKept \in [Paths -> BOOLEAN]
    BY <1>4 DEF Init, FreshProcess
  <1>6. /\ buffer \in Caches /\ original \in Caches
        /\ handlerLock \in Workers \cup {NoWorker} /\ cacheLock \in Workers \cup {NoWorker}
        /\ phase \in {"transform", "commit"} /\ todo \in SUBSET Nodes
    BY <1>2 DEF Init, FreshProcess
  <1>7. /\ pc \in [Workers -> Pcs] /\ node \in [Workers -> Nodes]
        /\ doc \in [Workers -> Docs \cup {NoDoc, EmptyDoc}]
        /\ staged \in [Workers -> Files]
        /\ outcome \in [Nodes -> {"pending", "ok", "failed"}] /\ mutated \in BOOLEAN
    BY <1>3, <1>4 DEF Init, FreshProcess
  <1>8. QED
    BY BoundsAssumption, <1>1, <1>4, <1>5, <1>6, <1>7 DEF Init, TypeOK

\* A key of the buffer cache maps to a document, and a thread that has opened
\* its document holds a mutable one: TypeOK is not inductive without them.
CachedHasDoc == \A p \in Paths : Holds(buffer, p) => bufferDoc[p] # NoDoc

HoldsDocument ==
  \A w \in Workers :
    /\ pc[w] = "open" => doc[w] # NoDoc
    /\ pc[w] \in {"fill", "mark_buffer", "mark_original", "write"} \cup WritePcs
         => doc[w] \in Docs

TypeInv == TypeOK /\ CachedHasDoc /\ HoldsDocument

\* Both halves of a load keep the types of what they change.
LEMMA LoadTypes ==
  ASSUME TypeOK, NEW p \in Paths, NEW d \in Docs
  PROVE  /\ LoadFiltered(p, d) => /\ bufferDoc' \in [Paths -> Docs \cup {NoDoc, EmptyDoc}]
                                  /\ heap' \in [Docs -> [Nodes -> EntryStates]]
                                  /\ buffer' \in Caches
         /\ LoadUnfiltered(p) => /\ originalKept' \in [Paths -> BOOLEAN]
                                 /\ original' \in Caches
         /\ BufferMissing(p) => /\ bufferDoc' \in [Paths -> Docs \cup {NoDoc, EmptyDoc}]
                                /\ buffer' \in Caches
  <1>1. disk[p].entries \in [Nodes -> EntryStates] /\ disk[p].kept \in BOOLEAN
    BY DEF TypeOK, Files
  <1>2. Parsed(disk[p], d) \subseteq Docs \cup {NoDoc, EmptyDoc}
    BY DEF Parsed
  <1>3. LoadFiltered(p, d) => bufferDoc' \in [Paths -> Docs \cup {NoDoc, EmptyDoc}]
    BY <1>2 DEF LoadFiltered, TypeOK
  <1>4. LoadFiltered(p, d) => heap' \in [Docs -> [Nodes -> EntryStates]]
    BY <1>1 DEF LoadFiltered, TypeOK
  <1>5. LoadFiltered(p, d) => buffer' \in Caches
    BY MethodsType DEF LoadFiltered, TypeOK
  <1>6. LoadUnfiltered(p) => originalKept' \in [Paths -> BOOLEAN] /\ original' \in Caches
    BY <1>1, MethodsType DEF LoadUnfiltered, TypeOK
  <1>7. BufferMissing(p) => /\ bufferDoc' \in [Paths -> Docs \cup {NoDoc, EmptyDoc}]
                           /\ buffer' \in Caches
    BY MethodsType DEF BufferMissing, TypeOK
  <1>8. QED
    BY <1>3, <1>4, <1>5, <1>6, <1>7

\* Every action keeps the types.
LEMMA NextType == TypeInv /\ [Next]_vars => TypeOK'
  <1> SUFFICES ASSUME TypeOK, HoldsDocument, [Next]_vars PROVE TypeOK'
    BY DEF TypeInv
  <1> USE HomeAssumption, FileTypes DEF TypeOK
  <1>0. dryRun' \in BOOLEAN
    BY DEF Next, vars
  <1> USE <1>0
  <1>1. ASSUME NEW p \in Paths, Peek(p) PROVE TypeOK'
    <2>1. peeks' \in 0..MaxPeeks
      BY <1>1, BoundsAssumption DEF Peek
    <2>2. /\ bufferDoc' \in [Paths -> Docs \cup {NoDoc, EmptyDoc}]
          /\ heap' \in [Docs -> [Nodes -> EntryStates]]
          /\ buffer' \in Caches /\ original' \in Caches
          /\ originalKept' \in [Paths -> BOOLEAN]
      <3>1. p \in Docs
        BY DEF Docs
      <3>2. QED
        BY <1>1, <3>1, LoadTypes, MethodsType DEF Peek
    <2>3. QED
      BY <1>1, <2>1, <2>2 DEF Peek, lockVars
  <1>2. CASE StartCommit
    BY <1>2 DEF StartCommit, cacheVars, lockVars
  <1>3. ASSUME NEW w \in Workers, Step(w) PROVE TypeOK'
    <2> Home[node[w]] \in Paths
      OBVIOUS
    <2>1. ASSUME NEW n \in Nodes, Take(w, n) PROVE TypeOK'
      BY <2>1 DEF Take, Goto, Pcs, cacheVars, lockVars
    <2>2. CASE AcquireForRead(w)
      BY <2>2, MethodsType DEF AcquireForRead, Goto, Pcs, ReadPcs, WritePcs, cacheVars, lockVars,
         runVars
    <2>3. CASE AcquireCacheForRead(w)
      BY <2>3, MethodsType DEF AcquireCacheForRead, Goto, Pcs, ReadPcs, WritePcs, cacheVars,
         lockVars, runVars
    <2>4. CASE LookupHit(w)
      BY <2>4, MethodsType DEF LookupHit, Goto, ReleaseBoth, Pcs, ReadPcs, WritePcs, cacheVars,
         lockVars, runVars
    <2>5. CASE LookupMissing(w)
      BY <2>5, MethodsType DEF LookupMissing, Goto, ReleaseBoth, BufferMissing, Pcs, ReadPcs,
         WritePcs, cacheVars, lockVars, runVars
    <2>6. CASE LookupLoads(w)
      <3>1. node[w] \in Docs /\ "load_original" \in Pcs
        BY DEF Docs, Pcs, ReadPcs
      <3>2. /\ bufferDoc' \in [Paths -> Docs \cup {NoDoc, EmptyDoc}]
            /\ heap' \in [Docs -> [Nodes -> EntryStates]]
            /\ buffer' \in Caches
        BY <2>6, <3>1, LoadTypes DEF LookupLoads
      <3>3. QED
        BY <2>6, <3>1, <3>2 DEF LookupLoads, Goto, lockVars, runVars
    <2>7. CASE LookupRaises(w)
      BY <2>7, MethodsType DEF LookupRaises, Goto, ReleaseBoth, Settle, Pcs, ReadPcs, WritePcs,
         cacheVars, lockVars, runVars
    <2>8. CASE StoreOriginal(w)
      BY <2>8, MethodsType DEF StoreOriginal, Goto, ReleaseBoth, LoadUnfiltered, Files, Pcs,
         ReadPcs, WritePcs, cacheVars, lockVars, runVars
    <2>9. CASE ReturnBuffered(w)
      BY <2>9, MethodsType DEF ReturnBuffered, Goto, Pcs, ReadPcs, WritePcs, cacheVars, lockVars,
         runVars
    <2>10. CASE ReturnRaises(w)
      BY <2>10, MethodsType DEF ReturnRaises, Goto, Settle, Pcs, ReadPcs, WritePcs, cacheVars,
         lockVars, runVars
    <2>11. CASE OpenEntry(w)
      <3> DEFINE d == IF doc[w] = EmptyDoc THEN node[w] ELSE doc[w]
                 entries == IF doc[w] = EmptyDoc THEN Blank ELSE heap[d]
                 opened == [entries EXCEPT ![node[w]] = IF @ = "absent" THEN "stub" ELSE @]
      <3>1. d \in Docs \cup {NoDoc, EmptyDoc} /\ "fill" \in Pcs
        BY DEF Docs, Pcs
      <3>2. d \in Docs => opened \in [Nodes -> EntryStates]
        <4>1. SUFFICES ASSUME d \in Docs PROVE opened \in [Nodes -> EntryStates]
          OBVIOUS
        <4>2. entries \in [Nodes -> EntryStates]
          BY <4>1
        <4>3. QED
          BY <4>2 DEF EntryStates
      <3>3. heap' = [heap EXCEPT ![d] = opened] /\ doc' = [doc EXCEPT ![w] = d]
        BY <2>11 DEF OpenEntry
      <3> HIDE DEF d, opened
      <3>4. heap' \in [Docs -> [Nodes -> EntryStates]]
        BY <3>2, <3>3
      <3>5. doc' \in [Workers -> Docs \cup {NoDoc, EmptyDoc}]
        BY <3>1, <3>3
      <3>6. QED
        BY <2>11, <3>1, <3>4, <3>5 DEF OpenEntry, Goto, cacheVars, lockVars, runVars
    <2>12. CASE FillEntry(w)
      BY <2>12, MethodsType DEF FillEntry, Goto, EntryStates, Pcs, ReadPcs, WritePcs, cacheVars,
         lockVars, runVars
    <2>13. CASE MarkBuffer(w)
      BY <2>13, MethodsType DEF MarkBuffer, Goto, Pcs, ReadPcs, WritePcs, cacheVars, lockVars,
         runVars
    <2>14. CASE MarkOriginal(w)
      BY <2>14, MethodsType DEF MarkOriginal, Goto, Pcs, ReadPcs, WritePcs, cacheVars, lockVars,
         runVars
    <2>15. CASE AcquireForWrite(w)
      BY <2>15, MethodsType DEF AcquireForWrite, Goto, Pcs, ReadPcs, WritePcs, cacheVars, lockVars,
         runVars
    <2>16. CASE MergePreserved(w)
      BY <2>16, MethodsType DEF MergePreserved, Goto, Whole, Files, Pcs, ReadPcs, WritePcs,
         cacheVars, lockVars, runVars
    <2>17. CASE DumpUnchanged(w)
      BY <2>17, MethodsType DEF DumpUnchanged, Goto, Pcs, ReadPcs, WritePcs, cacheVars, lockVars,
         runVars
    <2>18. CASE DumpDry(w)
      BY <2>18, MethodsType DEF DumpDry, Goto, Settle, Pcs, ReadPcs, WritePcs, cacheVars, lockVars,
         runVars
    <2>19. CASE DumpChanged(w)
      <3>1. staged[w] \in Files /\ staged[w].kept \in BOOLEAN /\ "temp" \in Pcs
        BY DEF Files, Pcs, WritePcs
      <3>2. doc[w] \in Docs
        BY <2>19 DEF DumpChanged, HoldsDocument, WritePcs
      <3>3. Modified(w) \in Files
        BY <3>1, <3>2 DEF Modified
      <3>4. QED
        BY <2>19, <3>1, <3>3 DEF DumpChanged, Goto, cacheVars, lockVars, runVars
    <2>20. CASE DumpRaises(w)
      BY <2>20, MethodsType DEF DumpRaises, Goto, Settle, Pcs, ReadPcs, WritePcs, cacheVars,
         lockVars, runVars
    <2>21. CASE WriteTemp(w)
      BY <2>21, MethodsType DEF WriteTemp, Goto, Pcs, ReadPcs, WritePcs, cacheVars, lockVars,
         runVars
    <2>22. CASE WriteTempFails(w)
      BY <2>22, MethodsType DEF WriteTempFails, Goto, Pcs, ReadPcs, WritePcs, cacheVars, lockVars,
         runVars
    <2>23. CASE Replace(w)
      BY <2>23, MethodsType DEF Replace, Goto, Rename, Torn, Files, Pcs, ReadPcs, WritePcs,
         cacheVars, lockVars, runVars
    <2>24. CASE ReplaceFails(w)
      BY <2>24, MethodsType DEF ReplaceFails, Goto, Pcs, ReadPcs, WritePcs, cacheVars, lockVars,
         runVars
    <2>25. CASE FallbackUnlink(w)
      BY <2>25, MethodsType DEF FallbackUnlink, Goto, NoFile, Files, Pcs, ReadPcs, WritePcs,
         cacheVars, lockVars, runVars
    <2>26. CASE FallbackRename(w)
      BY <2>26, MethodsType DEF FallbackRename, Goto, Rename, Torn, Files, Pcs, ReadPcs, WritePcs,
         cacheVars, lockVars, runVars
    <2>27. CASE FallbackFails(w)
      BY <2>27, MethodsType DEF FallbackFails, Goto, Pcs, ReadPcs, WritePcs, cacheVars, lockVars,
         runVars
    <2>28. CASE CleanUp(w)
      BY <2>28, MethodsType DEF CleanUp, Goto, Settle, Pcs, ReadPcs, WritePcs, cacheVars, lockVars,
         runVars
    <2>29. CASE DiscardBuffer(w)
      BY <2>29, MethodsType DEF DiscardBuffer, Goto, Pcs, ReadPcs, WritePcs, cacheVars, lockVars,
         runVars
    <2>30. CASE DiscardOriginal(w)
      BY <2>30, MethodsType DEF DiscardOriginal, Goto, ReleaseBoth, Settle, Pcs, ReadPcs, WritePcs,
         cacheVars, lockVars, runVars
    <2>31. QED
      BY <1>3, <2>1, <2>2, <2>3, <2>4, <2>5, <2>6, <2>7, <2>8, <2>9, <2>10, <2>11, <2>12, <2>13,
         <2>14, <2>15, <2>16, <2>17, <2>18, <2>19, <2>20, <2>21, <2>22, <2>23, <2>24, <2>25, <2>26,
         <2>27, <2>28, <2>29, <2>30 DEF Step
  <1>4. CASE Crash
    <2>1. EmptyCache \in Caches
      BY EmptySeq DEF EmptyCache, Caches
    <2>2. (CHOOSE n \in Nodes : TRUE) \in Nodes
      OBVIOUS
    <2>3. crashes' \in 0..MaxCrashes /\ "idle" \in Pcs
      BY <1>4, BoundsAssumption DEF Crash, Pcs
    <2>4. /\ heap' \in [Docs -> [Nodes -> EntryStates]]
          /\ buffer' \in Caches /\ original' \in Caches
          /\ bufferDoc' \in [Paths -> Docs \cup {NoDoc, EmptyDoc}]
          /\ originalKept' \in [Paths -> BOOLEAN]
      BY <1>4, <2>1 DEF Crash
    <2>5. /\ pc' \in [Workers -> Pcs] /\ node' \in [Workers -> Nodes]
          /\ doc' \in [Workers -> Docs \cup {NoDoc, EmptyDoc}]
          /\ staged' \in [Workers -> Files]
          /\ outcome' \in [Nodes -> {"pending", "ok", "failed"}]
      BY <1>4, <2>2, <2>3 DEF Crash
    <2>6. QED
      BY <1>4, <2>3, <2>4, <2>5 DEF Crash
  <1>5. CASE Finished
    BY <1>5 DEF Finished, vars, cacheVars, lockVars, runVars
  <1>6. CASE UNCHANGED vars
    BY <1>6 DEF vars, cacheVars, lockVars, runVars
  <1>7. QED
    BY <1>1, <1>2, <1>3, <1>4, <1>5, <1>6 DEF Next

\* Every action keeps a document behind every cached key.
LEMMA NextCached == TypeInv /\ [Next]_vars => CachedHasDoc'
  <1> SUFFICES ASSUME TypeOK, CachedHasDoc, [Next]_vars PROVE CachedHasDoc'
    BY DEF TypeInv
  <1> USE HomeAssumption, DocsAssumption DEF CachedHasDoc
  <1>0. buffer \in Caches /\ bufferDoc \in [Paths -> Docs \cup {NoDoc, EmptyDoc}]
    BY DEF TypeOK
  <1>1. CASE UNCHANGED <<buffer, bufferDoc>>
    BY <1>1 DEF Holds
  <1>2. ASSUME NEW p \in Paths, NEW d \in Docs, LoadFiltered(p, d) PROVE CachedHasDoc'
    <2>1. NoDoc \notin Parsed(disk[p], d)
      BY DEF Parsed, Docs
    <2>2. \A q \in Paths : Holds(buffer', q) => q = p \/ Holds(buffer, q)
      BY <1>0, <1>2, MethodsKeys DEF LoadFiltered
    <2>3. QED
      BY <1>0, <1>2, <2>1, <2>2 DEF LoadFiltered, Holds
  <1>3. ASSUME NEW p \in Paths, BufferMissing(p) PROVE CachedHasDoc'
    <2>1. \A q \in Paths : Holds(buffer', q) => q = p \/ Holds(buffer, q)
      BY <1>0, <1>3, MethodsKeys DEF BufferMissing
    <2>2. QED
      BY <1>0, <1>3, <2>1 DEF BufferMissing, Holds
  <1>4. ASSUME NEW p \in Paths, bufferDoc' = bufferDoc,
               \/ Holds(buffer, p) /\ buffer' = GetItem(buffer, p)
               \/ buffer' = MarkDirty(buffer, p)
               \/ buffer' = Discard(buffer, p)
        PROVE  CachedHasDoc'
    <2>1. \A q \in Paths : Holds(buffer', q) => Holds(buffer, q)
      BY <1>0, <1>4, MethodsKeys
    <2>2. QED
      BY <1>4, <2>1 DEF Holds
  <1>5. ASSUME NEW p \in Paths, Peek(p) PROVE CachedHasDoc'
    <2>1. p \in Docs
      BY DEF Docs
    <2>2. QED
      BY <1>2, <1>3, <1>4, <1>5, <2>1 DEF Peek
  <1>6. CASE Crash
    BY <1>6 DEF Crash, Holds, EmptyCache
  <1>7. ASSUME NEW w \in Workers, Step(w) PROVE CachedHasDoc'
    <2> Home[node[w]] \in Paths /\ node[w] \in Docs
      BY DEF TypeOK, Docs
    <2>1. CASE LookupMissing(w)
      BY <1>3, <2>1 DEF LookupMissing
    <2>2. CASE LookupLoads(w)
      BY <1>2, <2>2 DEF LookupLoads
    <2>3. CASE ReturnBuffered(w)
      BY <1>4, <2>3 DEF ReturnBuffered
    <2>4. CASE MarkBuffer(w)
      BY <1>4, <2>4 DEF MarkBuffer
    <2>5. CASE DiscardBuffer(w)
      BY <1>4, <2>5 DEF DiscardBuffer
    <2>6. CASE ~(LookupMissing(w) \/ LookupLoads(w) \/ ReturnBuffered(w) \/ MarkBuffer(w) \/ DiscardBuffer(w))
      <3>1. UNCHANGED <<buffer, bufferDoc>>
        BY <1>7, <2>6 DEF Step, Take, AcquireForRead, AcquireCacheForRead, LookupHit, LookupRaises,
           StoreOriginal, ReturnRaises, OpenEntry, FillEntry, MarkOriginal, AcquireForWrite,
           MergePreserved, DumpUnchanged, DumpDry, DumpChanged, DumpRaises, WriteTemp,
           WriteTempFails, Replace, ReplaceFails, FallbackUnlink, FallbackRename, FallbackFails,
           CleanUp, DiscardOriginal, cacheVars
      <3>2. QED
        BY <1>1, <3>1
    <2>7. QED
      BY <2>1, <2>2, <2>3, <2>4, <2>5, <2>6
  <1>8. CASE StartCommit \/ Finished \/ UNCHANGED vars
    BY <1>1, <1>8 DEF StartCommit, Finished, vars, cacheVars
  <1>9. QED
    BY <1>5, <1>6, <1>7, <1>8 DEF Next

\* Every action keeps a mutable document in the hands of a thread past "open".
LEMMA NextHoldsDocument == TypeInv /\ [Next]_vars => HoldsDocument'
  <1> SUFFICES ASSUME TypeOK, CachedHasDoc, HoldsDocument, [Next]_vars PROVE HoldsDocument'
    BY DEF TypeInv
  <1> USE HomeAssumption, DocsAssumption DEF HoldsDocument, WritePcs
  <1>0. pc \in [Workers -> Pcs] /\ doc \in [Workers -> Docs \cup {NoDoc, EmptyDoc}]
    BY DEF TypeOK
  <1>1. ASSUME NEW w \in Workers, Step(w) PROVE HoldsDocument'
    <2> Home[node[w]] \in Paths /\ node[w] \in Docs
      BY DEF TypeOK, Docs
    <2>1. ASSUME NEW n \in Nodes, Take(w, n) PROVE HoldsDocument'
      BY <1>0, <2>1 DEF Take, Goto
    <2>2. CASE AcquireForRead(w)
      BY <1>0, <2>2 DEF AcquireForRead, Goto
    <2>3. CASE AcquireCacheForRead(w)
      BY <1>0, <2>3 DEF AcquireCacheForRead, Goto
    <2>4. CASE LookupHit(w)
      BY <1>0, <2>4 DEF LookupHit, Goto
    <2>5. CASE LookupMissing(w)
      BY <1>0, <2>5 DEF LookupMissing, Goto
    <2>6. CASE LookupLoads(w)
      BY <1>0, <2>6 DEF LookupLoads, Goto
    <2>7. CASE LookupRaises(w)
      BY <1>0, <2>7 DEF LookupRaises, Goto, Settle
    <2>8. CASE StoreOriginal(w)
      BY <1>0, <2>8 DEF StoreOriginal, Goto
    <2>9. CASE ReturnBuffered(w)
      BY <1>0, <2>9 DEF ReturnBuffered, Goto, CachedHasDoc
    <2>10. CASE ReturnRaises(w)
      BY <1>0, <2>10 DEF ReturnRaises, Goto, Settle
    <2>11. CASE OpenEntry(w)
      BY <1>0, <2>11 DEF OpenEntry, Goto
    <2>12. CASE FillEntry(w)
      BY <1>0, <2>12 DEF FillEntry, Goto
    <2>13. CASE MarkBuffer(w)
      BY <1>0, <2>13 DEF MarkBuffer, Goto
    <2>14. CASE MarkOriginal(w)
      BY <1>0, <2>14 DEF MarkOriginal, Goto
    <2>15. CASE AcquireForWrite(w)
      BY <1>0, <2>15 DEF AcquireForWrite, Goto
    <2>16. CASE MergePreserved(w)
      BY <1>0, <2>16 DEF MergePreserved, Goto
    <2>17. CASE DumpUnchanged(w)
      BY <1>0, <2>17 DEF DumpUnchanged, Goto
    <2>18. CASE DumpDry(w)
      BY <1>0, <2>18 DEF DumpDry, Goto, Settle
    <2>19. CASE DumpChanged(w)
      BY <1>0, <2>19 DEF DumpChanged, Goto
    <2>20. CASE DumpRaises(w)
      BY <1>0, <2>20 DEF DumpRaises, Goto, Settle
    <2>21. CASE WriteTemp(w)
      BY <1>0, <2>21 DEF WriteTemp, Goto
    <2>22. CASE WriteTempFails(w)
      BY <1>0, <2>22 DEF WriteTempFails, Goto
    <2>23. CASE Replace(w)
      BY <1>0, <2>23 DEF Replace, Goto, Rename
    <2>24. CASE ReplaceFails(w)
      BY <1>0, <2>24 DEF ReplaceFails, Goto
    <2>25. CASE FallbackUnlink(w)
      BY <1>0, <2>25 DEF FallbackUnlink, Goto
    <2>26. CASE FallbackRename(w)
      BY <1>0, <2>26 DEF FallbackRename, Goto, Rename
    <2>27. CASE FallbackFails(w)
      BY <1>0, <2>27 DEF FallbackFails, Goto
    <2>28. CASE CleanUp(w)
      BY <1>0, <2>28 DEF CleanUp, Goto, Settle
    <2>29. CASE DiscardBuffer(w)
      BY <1>0, <2>29 DEF DiscardBuffer, Goto
    <2>30. CASE DiscardOriginal(w)
      BY <1>0, <2>30 DEF DiscardOriginal, Goto, Settle
    <2>31. QED
      BY <1>1, <2>1, <2>2, <2>3, <2>4, <2>5, <2>6, <2>7, <2>8, <2>9, <2>10, <2>11, <2>12, <2>13,
         <2>14, <2>15, <2>16, <2>17, <2>18, <2>19, <2>20, <2>21, <2>22, <2>23, <2>24, <2>25, <2>26,
         <2>27, <2>28, <2>29, <2>30 DEF Step
  <1>2. CASE Crash
    BY <1>2 DEF Crash
  <1>3. CASE (\E p \in Paths : Peek(p)) \/ StartCommit \/ Finished \/ UNCHANGED vars
    BY <1>3 DEF Peek, StartCommit, Finished, vars
  <1>4. QED
    BY <1>1, <1>2, <1>3 DEF Next

\* The strengthened invariant is inductive.
LEMMA TypeInvHolds == Spec => []TypeInv
  <1>1. Init => TypeInv
    <2>1. Init => CachedHasDoc /\ HoldsDocument
      BY DEF Init, FreshProcess, CachedHasDoc, HoldsDocument, WritePcs, Holds, EmptyCache
    <2>2. QED
      BY <2>1, InitType DEF TypeInv
  <1>2. TypeInv /\ [Next]_vars => TypeInv'
    BY NextType, NextCached, NextHoldsDocument DEF TypeInv
  <1>3. QED
    BY <1>1, <1>2, PTL DEF Spec

\* Type correctness: caches stay caches, files stay files, threads stay at
\* positions of the code, for every instance.
THEOREM TypeCorrect == Spec => []TypeOK
  <1>1. TypeInv => TypeOK
    BY DEF TypeInv
  <1>2. QED
    BY <1>1, TypeInvHolds, PTL

\* Every action keeps the lock discipline.
LEMMA NextLocks == TypeOK /\ LockDiscipline /\ [Next]_vars => LockDiscipline'
  <1> SUFFICES ASSUME TypeOK, LockDiscipline, [Next]_vars PROVE LockDiscipline'
    OBVIOUS
  <1> USE WorkersAssumption DEF LockDiscipline, ReadPcs, WritePcs
  <1>0. pc \in [Workers -> Pcs]
    BY DEF TypeOK
  <1>1. ASSUME NEW w \in Workers, Step(w) PROVE LockDiscipline'
    <2>1. ASSUME NEW n \in Nodes, Take(w, n) PROVE LockDiscipline'
      BY <1>0, <2>1 DEF Take, Goto, lockVars
    <2>2. CASE AcquireForRead(w)
      BY <1>0, <2>2 DEF AcquireForRead, Goto, lockVars
    <2>3. CASE AcquireCacheForRead(w)
      BY <1>0, <2>3 DEF AcquireCacheForRead, Goto, lockVars
    <2>4. CASE LookupHit(w)
      BY <1>0, <2>4 DEF LookupHit, Goto, lockVars, ReleaseBoth
    <2>5. CASE LookupMissing(w)
      BY <1>0, <2>5 DEF LookupMissing, Goto, lockVars, ReleaseBoth
    <2>6. CASE LookupLoads(w)
      BY <1>0, <2>6 DEF LookupLoads, Goto, lockVars, ReleaseBoth
    <2>7. CASE LookupRaises(w)
      BY <1>0, <2>7 DEF LookupRaises, Goto, lockVars, Settle, ReleaseBoth
    <2>8. CASE StoreOriginal(w)
      BY <1>0, <2>8 DEF StoreOriginal, Goto, lockVars, ReleaseBoth
    <2>9. CASE ReturnBuffered(w)
      BY <1>0, <2>9 DEF ReturnBuffered, Goto, lockVars
    <2>10. CASE ReturnRaises(w)
      BY <1>0, <2>10 DEF ReturnRaises, Goto, lockVars, Settle
    <2>11. CASE OpenEntry(w)
      BY <1>0, <2>11 DEF OpenEntry, Goto, lockVars
    <2>12. CASE FillEntry(w)
      BY <1>0, <2>12 DEF FillEntry, Goto, lockVars
    <2>13. CASE MarkBuffer(w)
      BY <1>0, <2>13 DEF MarkBuffer, Goto, lockVars
    <2>14. CASE MarkOriginal(w)
      BY <1>0, <2>14 DEF MarkOriginal, Goto, lockVars
    <2>15. CASE AcquireForWrite(w)
      BY <1>0, <2>15 DEF AcquireForWrite, Goto, lockVars
    <2>16. CASE MergePreserved(w)
      BY <1>0, <2>16 DEF MergePreserved, Goto, lockVars
    <2>17. CASE DumpUnchanged(w)
      BY <1>0, <2>17 DEF DumpUnchanged, Goto, lockVars
    <2>18. CASE DumpDry(w)
      BY <1>0, <2>18 DEF DumpDry, Goto, lockVars, Settle
    <2>19. CASE DumpChanged(w)
      BY <1>0, <2>19 DEF DumpChanged, Goto, lockVars
    <2>20. CASE DumpRaises(w)
      BY <1>0, <2>20 DEF DumpRaises, Goto, lockVars, Settle
    <2>21. CASE WriteTemp(w)
      BY <1>0, <2>21 DEF WriteTemp, Goto, lockVars
    <2>22. CASE WriteTempFails(w)
      BY <1>0, <2>22 DEF WriteTempFails, Goto, lockVars
    <2>23. CASE Replace(w)
      BY <1>0, <2>23 DEF Replace, Goto, lockVars, Rename
    <2>24. CASE ReplaceFails(w)
      BY <1>0, <2>24 DEF ReplaceFails, Goto, lockVars
    <2>25. CASE FallbackUnlink(w)
      BY <1>0, <2>25 DEF FallbackUnlink, Goto, lockVars
    <2>26. CASE FallbackRename(w)
      BY <1>0, <2>26 DEF FallbackRename, Goto, lockVars, Rename
    <2>27. CASE FallbackFails(w)
      BY <1>0, <2>27 DEF FallbackFails, Goto, lockVars
    <2>28. CASE CleanUp(w)
      BY <1>0, <2>28 DEF CleanUp, Goto, lockVars, Settle
    <2>29. CASE DiscardBuffer(w)
      BY <1>0, <2>29 DEF DiscardBuffer, Goto, lockVars
    <2>30. CASE DiscardOriginal(w)
      BY <1>0, <2>30 DEF DiscardOriginal, Goto, lockVars, Settle, ReleaseBoth
    <2>31. QED
      BY <1>1, <2>1, <2>2, <2>3, <2>4, <2>5, <2>6, <2>7, <2>8, <2>9, <2>10, <2>11, <2>12, <2>13,
         <2>14, <2>15, <2>16, <2>17, <2>18, <2>19, <2>20, <2>21, <2>22, <2>23, <2>24, <2>25, <2>26,
         <2>27, <2>28, <2>29, <2>30 DEF Step
  <1>2. CASE Crash
    BY <1>2 DEF Crash
  <1>3. CASE (\E p \in Paths : Peek(p)) \/ StartCommit \/ Finished \/ UNCHANGED vars
    BY <1>3 DEF Peek, StartCommit, Finished, vars, lockVars
  <1>4. QED
    BY <1>1, <1>2, <1>3 DEF Next

\* Mutual exclusion and lock order: at most one thread is in the sections that
\* yaml_handler_lock or _YAML_BUFFER_CACHE_LOCK protects, and the second is only
\* kept across steps inside the first, so the two cannot deadlock.
THEOREM LocksHeld == Spec => []LockDiscipline
  <1>1. Init => LockDiscipline
    BY WorkersAssumption DEF Init, FreshProcess, LockDiscipline, ReadPcs, WritePcs
  <1>2. QED
    BY <1>1, NextLocks, TypeCorrect, PTL DEF Spec

-----------------------------------------------------------------------------
\* Every action uses the two caches through their methods only, and on keys the
\* methods expect: `buffer[path]` reads a key that is there.
CachesSound == Sound(buffer) /\ Sound(original)

LEMMA NextSound == TypeOK /\ CachesSound /\ [Next]_vars => CachesSound'
  <1> SUFFICES ASSUME TypeOK, CachesSound, [Next]_vars PROVE CachesSound'
    OBVIOUS
  <1> USE DEF CachesSound
  <1>1. CASE UNCHANGED <<buffer, original>>
    BY <1>1
  <1>2. ASSUME NEW p \in Paths,
               \/ buffer' \in {buffer, SetItem(buffer, p), SetDefault(buffer, p),
                               Discard(buffer, p), MarkDirty(buffer, p)}
               \/ Holds(buffer, p) /\ buffer' = GetItem(buffer, p),
               \/ original' \in {original, SetItem(original, p), Discard(original, p),
                                 MarkDirty(original, p)}
               \/ Holds(original, p) /\ original' = GetItem(original, p)
        PROVE  CachesSound'
    <2>1. Sound(buffer')
      BY <1>2, MethodsSound
    <2>2. Sound(original')
      BY <1>2, MethodsSound
    <2>3. QED
      BY <2>1, <2>2
  <1>3. ASSUME NEW p \in Paths, Peek(p) PROVE CachesSound'
    BY <1>2, <1>3 DEF Peek, BufferMissing, LoadFiltered, LoadUnfiltered
  <1>4. CASE Crash
    BY <1>4, EmptySound DEF Crash
  <1>5. ASSUME NEW w \in Workers, Step(w) PROVE CachesSound'
    <2> DEFINE p == Home[node[w]]
    <2>0. p \in Paths
      BY HomeAssumption DEF TypeOK
    <2>1. CASE LookupMissing(w)
      BY <1>2, <2>0, <2>1 DEF LookupMissing, BufferMissing
    <2>2. CASE LookupLoads(w)
      BY <1>2, <2>0, <2>2 DEF LookupLoads, LoadFiltered
    <2>3. CASE StoreOriginal(w)
      BY <1>2, <2>0, <2>3 DEF StoreOriginal, LoadUnfiltered
    <2>4. CASE ReturnBuffered(w)
      BY <1>2, <2>0, <2>4 DEF ReturnBuffered
    <2>5. CASE MarkBuffer(w)
      BY <1>2, <2>0, <2>5 DEF MarkBuffer
    <2>6. CASE MarkOriginal(w)
      BY <1>2, <2>0, <2>6 DEF MarkOriginal
    <2>7. CASE MergePreserved(w)
      BY <1>2, <2>0, <2>7 DEF MergePreserved
    <2>8. CASE DiscardBuffer(w)
      BY <1>2, <2>0, <2>8 DEF DiscardBuffer
    <2>9. CASE DiscardOriginal(w)
      BY <1>2, <2>0, <2>9 DEF DiscardOriginal
    <2>10. CASE ~(LookupMissing(w) \/ LookupLoads(w) \/ StoreOriginal(w) \/ ReturnBuffered(w) \/ MarkBuffer(w) \/ MarkOriginal(w) \/ MergePreserved(w) \/ DiscardBuffer(w) \/ DiscardOriginal(w))
      <3>1. UNCHANGED <<buffer, original>>
        BY <1>5, <2>10 DEF Step, Take, AcquireForRead, AcquireCacheForRead, LookupHit, LookupRaises,
           ReturnRaises, OpenEntry, FillEntry, AcquireForWrite, DumpUnchanged, DumpDry, DumpChanged,
           DumpRaises, WriteTemp, WriteTempFails, Replace, ReplaceFails, FallbackUnlink,
           FallbackRename, FallbackFails, CleanUp, cacheVars
      <3>2. QED
        BY <1>1, <3>1
    <2>11. QED
      BY <2>1, <2>2, <2>3, <2>4, <2>5, <2>6, <2>7, <2>8, <2>9, <2>10
  <1>6. CASE StartCommit \/ Finished \/ UNCHANGED vars
    BY <1>1, <1>6 DEF StartCommit, Finished, vars, cacheVars
  <1>7. QED
    BY <1>3, <1>4, <1>5, <1>6 DEF Next

LEMMA SoundInvHolds == Spec => []CachesSound
  <1>1. Init => CachesSound
    BY EmptySound DEF Init, FreshProcess, CachesSound
  <1>2. QED
    BY <1>1, NextSound, TypeCorrect, PTL DEF Spec

\* However many threads read, mark and write at once, neither cache outgrows its
\* limit by more than what is pinned in it: the dirty keys and the newest entry.
THEOREM CachesStayBounded == Spec => []CachesBounded
  <1>1. CachesSound => CachesBounded
    <2> SUFFICES ASSUME NEW c, Sound(c) PROVE Len(c.order) <= MaxOf(MaxSize, Cardinality(c.dirty) + 1)
      BY DEF CachesSound, CachesBounded
    <2>1. IsFiniteSet(c.dirty) /\ c.order \in Seq(Paths) /\ WithinBound(c)
      BY DEF Sound, Caches
    <2>2. Cardinality(c.dirty) \in Nat /\ Len(c.order) \in Nat
      BY <2>1, FS_CardinalityType, LenProperties
    <2>3. QED
      BY <2>1, <2>2, MaxSizeAssumption DEF WithinBound, MaxOf
  <1>2. QED
    BY <1>1, SoundInvHolds, PTL
=============================================================================
