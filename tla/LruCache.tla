------------------------------ MODULE LruCache ------------------------------
(***************************************************************************)
(* The LRUCache of osmosis_propagation/schema/reader.py as pure operators. *)
(*                                                                         *)
(* A cache is a record: `order` is the OrderedDict's key order, least      *)
(* recently used first, and `dirty` is _dirty_keys, the keys that eviction *)
(* must skip.  The values are kept by the module that uses the cache, one  *)
(* per key.  Every method of the class runs under the cache's own _lock,   *)
(* so each operator below is one atomic step of its caller.                *)
(***************************************************************************)
EXTENDS Integers, Sequences, SequencesExt, FiniteSets

CONSTANTS Paths,     \* the keys: YAML file paths
          MaxSize    \* maxsize, 256 in the code

ASSUME MaxSizeAssumption == MaxSize \in Nat \ {0}

Caches == [order : Seq(Paths), dirty : SUBSET Paths]

EmptyCache == [order |-> << >>, dirty |-> {}]

Keys(c) == {c.order[i] : i \in 1..Len(c.order)}

Holds(c, p) == \E i \in 1..Len(c.order) : c.order[i] = p

\* The position of a key that the cache holds.
Position(c, p) == CHOOSE i \in 1..Len(c.order) : c.order[i] = p

\* The positions eviction may take, oldest first.
CleanPositions(c) == {i \in 1..Len(c.order) : c.order[i] \notin c.dirty}

OldestClean(c) ==
  CHOOSE i \in CleanPositions(c) : \A j \in CleanPositions(c) : i <= j

\* At most one clean key goes; with every key dirty the cache stays as it is.
EvictOneClean(c) ==
  IF CleanPositions(c) = {} THEN c
  ELSE [c EXCEPT !.order = RemoveAt(@, OldestClean(c))]

MoveToEnd(c, p) ==
  [c EXCEPT !.order = Append(RemoveAt(@, Position(c, p)), p)]

\* Mutant: a full cache grows without evicting.
InsertUnbounded(c, p) == [c EXCEPT !.order = Append(@, p)]

\* __setitem__ and setdefault on a key that is not there: make room, append.
Insert(c, p) ==
  [(IF Len(c.order) >= MaxSize THEN EvictOneClean(c) ELSE c)
     EXCEPT !.order = Append(@, p)]

\* __getitem__ of a key that is there: it becomes the most recently used.
GetItem(c, p) == MoveToEnd(c, p)

SetItem(c, p) == IF Holds(c, p) THEN MoveToEnd(c, p) ELSE Insert(c, p)

\* setdefault leaves the recency of a key that is already there alone.
SetDefault(c, p) == IF Holds(c, p) THEN c ELSE Insert(c, p)

\* `if path in cache: del cache[path]`, as _discard_yaml_caches does it.
Discard(c, p) ==
  IF Holds(c, p)
  THEN [order |-> RemoveAt(c.order, Position(c, p)), dirty |-> c.dirty \ {p}]
  ELSE c

\* mark_dirty is a silent no-op for a key that is not cached.
MarkDirty(c, p) == IF Holds(c, p) THEN [c EXCEPT !.dirty = @ \cup {p}] ELSE c
=============================================================================
