-------------------------- MODULE ColumnSyncProofs --------------------------
(***************************************************************************)
(* Theorems about ColumnSync for every set of column names and texts, every*)
(* warehouse, every number of runs and edits, and every set of             *)
(* configurations that satisfies the hypotheses a theorem names.           *)
(*                                                                         *)
(* The operations are folds, filters and sorts, which are functions defined*)
(* by recursion down a rank: the first sections solve such recursions, the *)
(* next say what each operation makes of a list of columns, and the others *)
(* carry that through a run and across the edits between two runs: what    *)
(* was described, what the file has at the end, and that a second run over *)
(* it changes nothing.                                                     *)
(***************************************************************************)
EXTENDS ColumnSync, SequenceTheorems, FiniteSetTheorems, WellFoundedInduction, TLAPS

-----------------------------------------------------------------------------
(* Recursion down a rank                                                   *)

LEMMA Least ==
  ASSUME NEW T, T \subseteq Nat, T # {}
  PROVE  \E n \in T : \A k \in T : n <= k
  <1>1. PICK n \in T : \A k \in T : <<k, n>> \notin OpToRel(<, Nat)
    BY NatLessThanWellFounded, WFMin
  <1>2. ASSUME NEW k \in T PROVE n <= k
    <2>1. k \in Nat /\ n \in Nat
      OBVIOUS
    <2>2. <<k, n>> \notin OpToRel(<, Nat)
      BY <1>1
    <2>3. ~(k < n)
      BY <2>1, <2>2 DEF OpToRel
    <2>4. QED
      BY <2>1, <2>3
  <1>3. QED
    BY <1>2

\* A set that holds every element whose lower ones it holds, holds them all.
LEMMA ByRank ==
  ASSUME NEW X, NEW rank, \A x \in X : rank[x] \in Nat, NEW S,
         \A x \in X : (\A y \in X : rank[y] < rank[x] => y \in S) => x \in S
  PROVE  X \subseteq S
  <1> DEFINE T == {rank[x] : x \in X \ S}
  <1> SUFFICES ASSUME X \ S # {} PROVE FALSE
    OBVIOUS
  <1>1. T # {} /\ T \subseteq Nat
    OBVIOUS
  <1>2. PICK n \in T : \A k \in T : n <= k
    BY <1>1, Least
  <1>3. PICK x \in X \ S : rank[x] = n
    BY <1>2
  <1>4. ASSUME NEW y \in X, rank[y] < rank[x], y \notin S PROVE FALSE
    <2>1. rank[y] \in T /\ rank[y] \in Nat /\ rank[x] \in Nat
      BY <1>4
    <2>2. rank[x] <= rank[y]
      BY <1>2, <1>3, <2>1
    <2>3. QED
      BY <1>4, <2>1, <2>2
  <1>5. QED
    BY <1>3, <1>4

\* B defines the value of an element from the values of lower ones.
GoesDown(X, V, rank, B) ==
  /\ rank \in [X -> Nat] /\ B \in [[X -> V] -> [X -> V]]
  /\ \A f, g \in [X -> V] : \A x \in X :
        (\A y \in X : rank[y] < rank[x] => f[y] = g[y]) => B[f][x] = B[g][x]

\* A definition by recursion down a rank has a solution.
LEMMA Solution ==
  ASSUME NEW X, NEW V, V # {}, NEW rank, NEW B, GoesDown(X, V, rank, B)
  PROVE  \E f \in [X -> V] : f = B[f]
  <1> DEFINE Solves(w, n) == w \in [X -> V] /\ \A x \in X : rank[x] < n => w[x] = B[w][x]
             T == {n \in Nat : ~\E w : Solves(w, n)}
             sol == [n \in Nat |-> CHOOSE w : Solves(w, n)]
             d == [x \in X |-> sol[rank[x]+1][x]]
  <1>0. /\ rank \in [X -> Nat] /\ B \in [[X -> V] -> [X -> V]]
        /\ \A f, g \in [X -> V] : \A x \in X :
              (\A y \in X : rank[y] < rank[x] => f[y] = g[y]) => B[f][x] = B[g][x]
    BY DEF GoesDown
  <1>1. \E w : Solves(w, 0)
    <2>1. [x \in X |-> CHOOSE v \in V : TRUE] \in [X -> V]
      OBVIOUS
    <2>2. \A x \in X : ~(rank[x] < 0)
      BY <1>0
    <2>3. QED
      BY <2>1, <2>2
  <1>2. ASSUME NEW n \in Nat, NEW w, Solves(w, n) PROVE Solves(B[w], n+1)
    <2>1. B[w] \in [X -> V]
      BY <1>0, <1>2
    <2>2. ASSUME NEW x \in X, rank[x] < n+1 PROVE B[w][x] = B[B[w]][x]
      <3>1. \A y \in X : rank[y] < rank[x] => rank[y] < n
        <4>1. \A y \in X : rank[y] \in Nat
          BY <1>0
        <4>2. QED
          BY <2>2, <4>1
      <3>2. \A y \in X : rank[y] < rank[x] => w[y] = B[w][y]
        BY <1>2, <3>1
      <3>3. QED
        BY <1>0, <1>2, <2>1, <3>2
    <2>3. QED
      BY <2>1, <2>2
  <1>3. \A n \in Nat : \E w : Solves(w, n)
    <2> SUFFICES ASSUME T # {} PROVE FALSE
      OBVIOUS
    <2>1. PICK n \in T : \A k \in T : n <= k
      BY Least
    <2>2. n \in Nat /\ n # 0
      BY <1>1
    <2>3. n - 1 \in Nat /\ n - 1 \notin T
      BY <2>1, <2>2
    <2>4. PICK w : Solves(w, n-1)
      BY <2>3
    <2>5. Solves(B[w], (n-1)+1) /\ (n-1)+1 = n
      BY <1>2, <2>2, <2>3, <2>4
    <2>6. \E v : Solves(v, n)
      BY <2>5
    <2>7. QED
      BY <2>6
  <1>4. \A n \in Nat : Solves(sol[n], n)
    BY <1>3
  <1>5. ASSUME NEW n \in Nat, NEW k \in Nat, NEW w, NEW v, Solves(w, n), Solves(v, k)
        PROVE  \A x \in X : rank[x] < n /\ rank[x] < k => w[x] = v[x]
    <2> DEFINE S == {x \in X : rank[x] < n /\ rank[x] < k => w[x] = v[x]}
    <2>1. ASSUME NEW x \in X, \A y \in X : rank[y] < rank[x] => y \in S,
                 rank[x] < n, rank[x] < k
          PROVE  w[x] = v[x]
      <3>1. \A y \in X : rank[y] < rank[x] => rank[y] < n /\ rank[y] < k
        <4>1. \A y \in X : rank[y] \in Nat
          BY <1>0
        <4>2. QED
          BY <2>1, <4>1
      <3>2. \A y \in X : rank[y] < rank[x] => w[y] = v[y]
        BY <2>1, <3>1
      <3>3. B[w][x] = B[v][x]
        BY <1>0, <1>5, <3>2
      <3>4. QED
        BY <1>5, <2>1, <3>3
    <2>2. X \subseteq S
      <3>1. \A x \in X : (\A y \in X : rank[y] < rank[x] => y \in S) => x \in S
        BY <2>1
      <3>2. \A x \in X : rank[x] \in Nat
        BY <1>0
      <3> HIDE DEF S
      <3>3. QED
        BY <3>1, <3>2, ByRank
    <2>3. QED
      BY <2>2
  <1> HIDE DEF Solves, sol
  <1>6. d \in [X -> V]
    BY <1>0, <1>4 DEF Solves
  <1>7. ASSUME NEW x \in X PROVE d[x] = B[d][x]
    <2> DEFINE n == rank[x] + 1
               w == sol[n]
    <2>1. n \in Nat /\ Solves(w, n) /\ d[x] = w[x]
      BY <1>0, <1>4
    <2>2. ASSUME NEW y \in X, rank[y] < rank[x] PROVE d[y] = w[y]
      <3>1. rank[y]+1 \in Nat /\ rank[y] < rank[y]+1 /\ rank[y] < n
        BY <1>0, <2>2
      <3>2. Solves(sol[rank[y]+1], rank[y]+1)
        BY <1>4, <3>1
      <3> HIDE DEF w, n, d
      <3>3. sol[rank[y]+1][y] = w[y]
        BY <1>5, <2>1, <3>1, <3>2
      <3>4. QED
        BY <3>3 DEF d
    <2>3. w \in [X -> V] /\ w[x] = B[w][x]
      BY <1>0, <2>1 DEF Solves
    <2> HIDE DEF w, n, d
    <2>4. B[d][x] = B[w][x]
      BY <1>0, <1>6, <2>2, <2>3
    <2>5. QED
      BY <2>1, <2>3, <2>4
  <1>8. d = B[d]
    <2> HIDE DEF d
    <2>1. B[d] \in [X -> V]
      BY <1>0, <1>6
    <2>2. QED
      BY <1>6, <1>7, <2>1
  <1>9. QED
    BY <1>6, <1>8
-----------------------------------------------------------------------------
(* Folds                                                                   *)

LEMMA MaxOfInterval ==
  /\ \A k \in Nat \ {0} : Max(1..k) = k /\ (1..k) \ {k} = 1..(k-1)
  /\ \A n \in Nat : \A s \in SUBSET (1..n) : s # {} => Max(s) \in s
  <1>1. ASSUME NEW k \in Nat \ {0} PROVE Max(1..k) = k /\ (1..k) \ {k} = 1..(k-1)
    <2>1. k \in 1..k /\ \A y \in 1..k : k >= y
      OBVIOUS
    <2>2. \A x \in 1..k : (\A y \in 1..k : x >= y) => x = k
      BY <2>1
    <2>3. Max(1..k) = k
      BY <2>1, <2>2 DEF Max
    <2>4. QED
      BY <2>3
  <1>2. ASSUME NEW n \in Nat, NEW s \in SUBSET (1..n), s # {} PROVE Max(s) \in s
    <2> DEFINE T == {n - i : i \in s}
    <2>1. T \subseteq Nat /\ T # {}
      BY <1>2
    <2>2. PICK m \in T : \A k \in T : m <= k
      BY <2>1, Least
    <2>3. PICK i \in s : m = n - i
      OBVIOUS
    <2>4. ASSUME NEW j \in s PROVE i >= j
      <3>1. n - j \in T /\ i \in Nat /\ j \in Nat
        OBVIOUS
      <3>2. n - i <= n - j
        BY <2>2, <2>3, <3>1
      <3>3. QED
        BY <3>1, <3>2
    <2>5. QED
      BY <2>4 DEF Max
  <1>3. QED
    BY <1>1, <1>2

\* f folds seq from base by step, over every set of its positions.
Folds(f, A, base, n, seq, step) ==
  /\ f \in [SUBSET (1..n) -> A]
  /\ f = [s \in SUBSET (1..n) |->
             IF s = {} THEN base ELSE step[<<f[s \ {Max(s)}], seq[Max(s)]>>]]

LEMMA FoldSolution ==
  ASSUME NEW A, NEW X, NEW base \in A, NEW n \in Nat, NEW seq \in [1..n -> X],
         NEW step \in [A \X X -> A]
  PROVE  \E f : Folds(f, A, base, n, seq, step)
  <1> DEFINE P == SUBSET (1..n)
             size == [s \in P |-> Cardinality(s)]
             Body(f) == [s \in P |->
                IF s = {} THEN base ELSE step[<<f[s \ {Max(s)}], seq[Max(s)]>>]]
             B == [f \in [P -> A] |-> Body(f)]
  <1>1. ASSUME NEW s \in P
        PROVE  /\ IsFiniteSet(s) /\ Cardinality(s) \in Nat
               /\ s # {} => /\ Max(s) \in s /\ Max(s) \in 1..n /\ s \ {Max(s)} \in P
                            /\ Cardinality(s \ {Max(s)}) < Cardinality(s)
    <2>1. IsFiniteSet(s) /\ Cardinality(s) \in Nat
      <3>1. IsFiniteSet(1..n)
        BY FS_Interval
      <3>2. QED
        BY <3>1, FS_Subset, FS_CardinalityType
    <2>2. CASE s # {}
      <3>1. Max(s) \in s
        BY <2>2, MaxOfInterval
      <3>2. Cardinality(s \ {Max(s)}) = Cardinality(s) - 1
        BY <2>1, <3>1, FS_RemoveElement
      <3>3. Max(s) \in 1..n /\ s \ {Max(s)} \in P
        BY <3>1
      <3>4. Cardinality(s \ {Max(s)}) < Cardinality(s)
        BY <2>1, <3>2
      <3>5. QED
        BY <2>1, <3>1, <3>3, <3>4
    <2>3. QED
      BY <2>1, <2>2
  <1>2. ASSUME NEW f \in [P -> A] PROVE Body(f) \in [P -> A]
    <2>1. ASSUME NEW s \in P
          PROVE  (IF s = {} THEN base ELSE step[<<f[s \ {Max(s)}], seq[Max(s)]>>]) \in A
      BY <1>1
    <2>2. QED
      BY <2>1
  <1>3. ASSUME NEW f \in [P -> A], NEW g \in [P -> A], NEW s \in P,
               \A t \in P : size[t] < size[s] => f[t] = g[t]
        PROVE  B[f][s] = B[g][s]
    <2>1. s # {} => s \ {Max(s)} \in P /\ size[s \ {Max(s)}] < size[s]
      BY <1>1
    <2>2. s # {} => f[s \ {Max(s)}] = g[s \ {Max(s)}]
      BY <1>3, <2>1
    <2>3. QED
      BY <2>2
  <1>4. GoesDown(P, A, size, B)
    <2>1. size \in [P -> Nat]
      BY <1>1
    <2>2. B \in [[P -> A] -> [P -> A]]
      BY <1>2
    <2> HIDE DEF P, size, B
    <2>3. QED
      BY <1>3, <2>1, <2>2 DEF GoesDown
  <1>5. \E f \in [P -> A] : f = B[f]
    <2> HIDE DEF P, size, B
    <2>1. A # {}
      OBVIOUS
    <2>2. QED
      BY <1>4, <2>1, Solution
  <1>6. QED
    BY <1>5 DEF Folds

LEMMA UpTo ==
  ASSUME NEW n \in Nat, NEW S, 0 \in S, \A k \in 1..n : k-1 \in S => k \in S
  PROVE  0..n \subseteq S
  <1> DEFINE T == (0..n) \ S
  <1> SUFFICES ASSUME T # {} PROVE FALSE
    OBVIOUS
  <1>1. T \subseteq Nat
    OBVIOUS
  <1>2. PICK k \in T : \A j \in T : k <= j
    BY <1>1, Least
  <1>3. k \in 1..n /\ k-1 \in 0..n /\ ~(k <= k-1)
    OBVIOUS
  <1>4. k-1 \in S
    BY <1>2, <1>3
  <1>5. QED
    BY <1>3, <1>4

-----------------------------------------------------------------------------
(* Columns, entries and names                                              *)

Names == [letter : Letters, case : Case]
Descriptions == Texts \cup {NoText}
Types == {NoType, WarehouseType}
Columns == [name : Names, text : Descriptions, type : Types]
DocEntries == [name : Names, text : Descriptions, type : Types, extra : BOOLEAN]

\* Each column once.
Distinct(cols) == \A i, j \in DOMAIN cols : cols[i].name.letter = cols[j].name.letter => i = j

LettersOf(cols) == {cols[i].name.letter : i \in DOMAIN cols}

Plain(e) == [name |-> e.name, text |-> e.text, type |-> e.type]

LEMMA SeqFacts ==
  /\ \A S : \A s \in Seq(S) : /\ Len(s) \in Nat /\ DOMAIN s = 1..Len(s) /\ s \in [1..Len(s) -> S]
                              /\ s = [i \in 1..Len(s) |-> s[i]]
  /\ \A S : \A n \in Nat : \A s \in [1..n -> S] : s \in Seq(S) /\ Len(s) = n /\ DOMAIN s = 1..n
  <1>1. ASSUME NEW S, NEW n \in Nat, NEW s \in [1..n -> S]
        PROVE  s \in Seq(S) /\ Len(s) = n /\ DOMAIN s = 1..n
    <2>1. s \in Seq(S)
      OBVIOUS
    <2>2. DOMAIN s = 1..n /\ DOMAIN s = 1..Len(s) /\ Len(s) \in Nat
      BY <2>1, LenProperties
    <2>3. QED
      BY <2>1, <2>2
  <1>2. ASSUME NEW S, NEW s \in Seq(S)
        PROVE  /\ Len(s) \in Nat /\ DOMAIN s = 1..Len(s) /\ s \in [1..Len(s) -> S]
               /\ s = [i \in 1..Len(s) |-> s[i]]
    <2>1. Len(s) \in Nat /\ DOMAIN s = 1..Len(s)
      BY LenProperties
    <2>2. s \in [1..Len(s) -> S]
      OBVIOUS
    <2>3. QED
      BY <2>1, <2>2
  <1>3. QED
    BY <1>1, <1>2

\* A new column goes to the end.
LEMMA SameSeq ==
  ASSUME NEW S, NEW s \in Seq(S), NEW t \in Seq(S), DOMAIN s = DOMAIN t,
         \A i \in DOMAIN t : s[i] = t[i]
  PROVE  s = t
  <1>1. s = [i \in DOMAIN t |-> s[i]] /\ t = [i \in DOMAIN t |-> t[i]]
    BY SeqFacts
  <1>2. QED
    BY <1>1

LEMMA PutNew ==
  ASSUME NEW cols \in Seq(Columns), NEW col \in Columns,
         \A i \in DOMAIN cols : cols[i].name # col.name
  PROVE  /\ Put(cols, col) \in Seq(Columns) /\ Len(Put(cols, col)) = Len(cols) + 1
         /\ DOMAIN Put(cols, col) = 1..Len(cols)+1
         /\ \A i \in 1..Len(cols) : Put(cols, col)[i] = cols[i]
         /\ Put(cols, col)[Len(cols)+1] = col
  <1>1. Put(cols, col) = Append(cols, col)
    BY DEF Put
  <1>2. QED
    BY <1>1, AppendProperties, LenProperties

LEMMA PutType ==
  ASSUME NEW cols \in Seq(Columns), NEW col \in Columns
  PROVE  Put(cols, col) \in Seq(Columns)
  <1>1. CASE \E i \in DOMAIN cols : cols[i].name = col.name
    <2>1. Len(cols) \in Nat /\ DOMAIN cols = 1..Len(cols) /\ \A i \in 1..Len(cols) : cols[i] \in Columns
      BY SeqFacts
    <2>2. [i \in 1..Len(cols) |-> IF cols[i].name = col.name THEN col ELSE cols[i]]
            \in [1..Len(cols) -> Columns]
      BY <2>1
    <2>3. QED
      BY <1>1, <2>1, <2>2, SeqFacts DEF Put
  <1>2. CASE ~\E i \in DOMAIN cols : cols[i].name = col.name
    BY <1>2, AppendProperties DEF Put
  <1>3. QED
    BY <1>1, <1>2

LEMMA PlainType == \A e \in DocEntries : Plain(e) \in Columns
  BY DEF Plain, DocEntries, Columns

\* dbt reads the columns of a file that lists each once in their order.
LEMMA ParsedIs ==
  ASSUME NEW section \in Seq(DocEntries), Distinct(section)
  PROVE  Parsed(section) = [i \in DOMAIN section |-> Plain(section[i])]
  <1> DEFINE A == Seq(Columns)
             n == Len(section)
             step == [p \in A \X DocEntries |-> Put(p[1], Plain(p[2]))]
             iter == CHOOSE f : f = [s \in SUBSET (1..n) |->
                        IF s = {} THEN <<>>
                        ELSE Put(f[s \ {Max(s)}], Plain(section[Max(s)]))]
  <1>1. n \in Nat /\ section \in [1..n -> DocEntries] /\ DOMAIN section = 1..n
    BY SeqFacts
  <1>2. step \in [A \X DocEntries -> A] /\ <<>> \in A
    <2>1. \A p \in A \X DocEntries : Put(p[1], Plain(p[2])) \in A
      BY PutType, PlainType
    <2>2. QED
      BY <2>1, EmptySeq
  <1>3. Parsed(section) = iter[1..n]
    BY <1>1 DEF Parsed, FoldLeft, MapThenFoldSet, Plain
  <1>4. iter = [s \in SUBSET (1..n) |->
                  IF s = {} THEN <<>> ELSE Put(iter[s \ {Max(s)}], Plain(section[Max(s)]))]
    <2> HIDE DEF step, A, n
    <2>1. PICK f : Folds(f, A, <<>>, n, section, step)
      <3>1. <<>> \in A /\ step \in [A \X DocEntries -> A]
        BY <1>2
      <3> HIDE DEF iter
      <3>2. QED
        BY <1>1, <3>1, FoldSolution
    <2>0. /\ f \in [SUBSET (1..n) -> A]
          /\ f = [s \in SUBSET (1..n) |->
                    IF s = {} THEN <<>> ELSE step[<<f[s \ {Max(s)}], section[Max(s)]>>]]
      BY <2>1 DEF Folds
    <2>2. ASSUME NEW s \in SUBSET (1..n), s # {}
          PROVE  step[<<f[s \ {Max(s)}], section[Max(s)]>>]
                   = Put(f[s \ {Max(s)}], Plain(section[Max(s)]))
      <3>1. Max(s) \in 1..n /\ s \ {Max(s)} \in SUBSET (1..n)
        BY <1>1, <2>2, MaxOfInterval
      <3>2. f[s \ {Max(s)}] \in A /\ section[Max(s)] \in DocEntries
        BY <1>1, <2>0, <3>1
      <3>3. QED
        BY <3>2 DEF step
    <2>3. f = [s \in SUBSET (1..n) |->
                    IF s = {} THEN <<>> ELSE Put(f[s \ {Max(s)}], Plain(section[Max(s)]))]
      BY <2>0, <2>2
    <2>4. QED
      BY <2>3
  <1> HIDE DEF iter, step
  <1>5. iter[1..0] = <<>>
    <2>1. 1..0 = {} /\ {} \in SUBSET (1..n)
      BY <1>1
    <2>2. iter[{}] = <<>>
      BY <1>4, <2>1
    <2>3. QED
      BY <2>1, <2>2
  <1>6. ASSUME NEW k \in 1..n
        PROVE  iter[1..k] = Put(iter[1..(k-1)], Plain(section[k]))
    <2>1. k \in Nat \ {0} /\ 1..k # {} /\ 1..k \in SUBSET (1..n)
      <3> HIDE DEF n
      <3>1. k \in Nat /\ k >= 1 /\ k <= n /\ k \in 1..k
        BY <1>1
      <3>2. \A i \in 1..k : i \in 1..n
        BY <1>1, <3>1
      <3>3. k \in Nat \ {0}
        BY <3>1
      <3>4. 1..k # {}
        BY <3>1
      <3>5. 1..k \subseteq 1..n
        BY <3>2
      <3>6. QED
        BY <3>3, <3>4, <3>5
    <2>2. Max(1..k) = k /\ (1..k) \ {k} = 1..(k-1)
      BY <2>1, MaxOfInterval
    <2>3. iter[1..k] = Put(iter[(1..k) \ {Max(1..k)}], Plain(section[Max(1..k)]))
      BY <1>4, <2>1
    <2>4. QED
      BY <2>2, <2>3
  <1> DEFINE Good == {k \in 0..n : iter[1..k] = [i \in 1..k |-> Plain(section[i])]}
  <1>7. 0 \in Good
    <2>1. 1..0 = {} /\ 0 \in 0..n /\ <<>> = [i \in {} |-> Plain(section[i])]
      BY <1>1
    <2>2. QED
      BY <1>5, <2>1
  <1>8. ASSUME NEW k \in 1..n, k-1 \in Good PROVE k \in Good
    <2> DEFINE front == [i \in 1..k-1 |-> Plain(section[i])]
    <2>0. k-1 \in Nat /\ k \in 0..n /\ \A i \in 1..k-1 : i \in 1..n /\ i # k
      BY <1>1
    <2>1. front \in Seq(Columns) /\ Len(front) = k-1 /\ DOMAIN front = 1..k-1
      <3>1. front \in [1..k-1 -> Columns]
        BY <1>1, <2>0, PlainType
      <3>2. QED
        BY <2>0, <3>1, SeqFacts
    <2>2. Plain(section[k]) \in Columns
      BY <1>1, PlainType
    <2>3. \A i \in 1..k-1 : front[i].name # Plain(section[k]).name
      BY <1>1, <2>0 DEF Distinct, Plain
    <2> DEFINE whole == Put(front, Plain(section[k]))
    <2>4. /\ whole \in Seq(Columns) /\ Len(whole) = k
          /\ \A i \in 1..k-1 : whole[i] = Plain(section[i])
          /\ whole[k] = Plain(section[k])
      <3>1. (k-1)+1 = k
        BY <2>0
      <3>2. \A i \in 1..k-1 : front[i] = Plain(section[i])
        OBVIOUS
      <3> HIDE DEF front
      <3>3. QED
        BY <2>1, <2>2, <2>3, <3>1, <3>2, PutNew
    <2>5. iter[1..k] = whole
      BY <1>6, <1>8
    <2> HIDE DEF whole
    <2>6. whole = [i \in 1..k |-> whole[i]]
      BY <2>4, SeqFacts
    <2>7. \A i \in 1..k : whole[i] = Plain(section[i])
      <3>1. \A i \in 1..k : i \in 1..k-1 \/ i = k
        BY <2>0
      <3>2. QED
        BY <2>4, <3>1
    <2>8. QED
      BY <2>0, <2>5, <2>6, <2>7
  <1>9. n \in Good
    <2> HIDE DEF Good
    <2>1. 0..n \subseteq Good
      BY <1>1, <1>7, <1>8, UpTo
    <2>2. QED
      BY <1>1, <2>1
  <1>10. QED
    BY <1>1, <1>3, <1>9

-----------------------------------------------------------------------------
(* What the names compare to                                               *)

ConfigOK ==
  config \in [kind : {"model", "source"}, adapter : {"snowflake", "other"},
              output : {"asis", "lower", "upper"}, command : {"refactor", "document"},
              sortBy : {"database", "alphabetical"}, mode : {"none", "batch", "atomic"},
              dryRun : BOOLEAN]

\* A project that leaves the case alone writes in lower case, except on Snowflake.
Spelled(name) ==
  /\ name \in Names
  /\ config.output = "asis" /\ config.adapter # "snowflake" => name.case = "lower"

\* What is reported then compares as it is spelled.
Fits(name) ==
  /\ name \in Names
  /\ config.output = "asis" =>
       name.case = IF config.adapter = "snowflake" THEN "upper" ELSE "lower"

LEMMA NameRecords ==
  /\ \A l \in Letters, c \in Case : /\ Name(l, c) \in Names
                                    /\ Name(l, c).letter = l /\ Name(l, c).case = c
  /\ \A a \in Names : a.letter \in Letters /\ a.case \in Case
  /\ \A a, b \in Names : a.letter = b.letter /\ a.case = b.case => a = b
  /\ \A a \in Names, c \in Case :
       Cased(a, c) \in Names /\ Cased(a, c).letter = a.letter /\ Cased(a, c).case = c
  BY DEF Names, Name, Cased

LEMMA CaseFacts ==
  ASSUME ConfigOK
  PROVE  /\ \A a \in Names : /\ Normal(a) \in Names /\ Normal(a).letter = a.letter
                             /\ Folded(a) \in Names /\ Folded(a).letter = a.letter
                             /\ Output(a) \in Names /\ Output(a).letter = a.letter
         /\ config.adapter = "snowflake" => \A a \in Names : Normal(a).case = "upper"
         /\ config.adapter # "snowflake" => \A a : Normal(a) = a
         /\ config.output = "asis" => \A a : Output(a) = a /\ Folded(a) = a
         /\ config.output # "asis" =>
              \A a \in Names : Folded(a).case = "lower" /\ Output(a).case = config.output
  <1>1. "upper" \in Case /\ "lower" \in Case
    BY DEF Case
  <1>2. config.output # "asis" => config.output \in Case
    BY DEF ConfigOK, Case
  <1>3. ASSUME NEW a \in Names
        PROVE  /\ Normal(a) \in Names /\ Normal(a).letter = a.letter
               /\ config.adapter = "snowflake" => Normal(a).case = "upper"
    BY <1>1, NameRecords DEF Normal
  <1>4. ASSUME NEW a \in Names
        PROVE  /\ Folded(a) \in Names /\ Folded(a).letter = a.letter
               /\ config.output # "asis" => Folded(a).case = "lower"
    BY <1>1, NameRecords DEF Folded, CaseInsensitive
  <1>5. ASSUME NEW a \in Names
        PROVE  /\ Output(a) \in Names /\ Output(a).letter = a.letter
               /\ config.output # "asis" => Output(a).case = config.output
    BY <1>2, NameRecords DEF Output, CaseInsensitive
  <1>6. /\ config.adapter # "snowflake" => \A a : Normal(a) = a
        /\ config.output = "asis" => \A a : Output(a) = a /\ Folded(a) = a
    BY DEF Normal, Output, Folded, CaseInsensitive
  <1>7. QED
    BY <1>3, <1>4, <1>5, <1>6

\* All three ways to compare two names compare the letters.
LEMMA NameFacts ==
  ASSUME ConfigOK
  PROVE  /\ \A a, b \in Names : Normal(a) = Normal(b) => a.letter = b.letter
         /\ \A a, b \in Names :
              Cased(Normal(a), "lower") = Cased(b, "lower") <=> a.letter = b.letter
         /\ \A a, b : Spelled(a) /\ Spelled(b) =>
              (Folded(Normal(a)) = Folded(Normal(b)) <=> a.letter = b.letter)
         /\ \A a, b : Spelled(a) /\ Fits(b) =>
              (Folded(Normal(a)) = Folded(b) <=> a.letter = b.letter)
         /\ \A b : Fits(b) => Spelled(Output(b))
         /\ \A a : Spelled(a) => Spelled(Output(a))
  <1>0. "lower" \in Case
    BY DEF Case
  <1>1. \A a, b \in Names : Normal(a) = Normal(b) => a.letter = b.letter
    BY CaseFacts
  <1>2. ASSUME NEW a \in Names, NEW b \in Names
        PROVE  Cased(Normal(a), "lower") = Cased(b, "lower") <=> a.letter = b.letter
    <2> DEFINE x == Cased(Normal(a), "lower")
               y == Cased(b, "lower")
    <2>1. /\ x \in Names /\ x.letter = a.letter /\ x.case = "lower"
          /\ y \in Names /\ y.letter = b.letter /\ y.case = "lower"
      BY <1>0, CaseFacts, NameRecords
    <2> HIDE DEF x, y
    <2>2. QED
      BY <2>1, NameRecords DEF x, y
  <1>3. ASSUME NEW a, NEW b, Spelled(a), Spelled(b)
        PROVE  Folded(Normal(a)) = Folded(Normal(b)) <=> a.letter = b.letter
    <2> DEFINE x == Folded(Normal(a))
               y == Folded(Normal(b))
    <2>1. x \in Names /\ y \in Names /\ x.letter = a.letter /\ y.letter = b.letter
      BY <1>3, CaseFacts DEF Spelled
    <2>2. x.case = y.case
      <3>1. CASE config.output # "asis"
        <4>1. Normal(a) \in Names /\ Normal(b) \in Names
          BY <1>3, CaseFacts DEF Spelled
        <4>2. QED
          BY <3>1, <4>1, CaseFacts
      <3>2. CASE config.output = "asis" /\ config.adapter = "snowflake"
        BY <1>3, <3>2, CaseFacts DEF Spelled
      <3>3. CASE config.output = "asis" /\ config.adapter # "snowflake"
        BY <1>3, <3>3, CaseFacts DEF Spelled
      <3>4. QED
        BY <3>1, <3>2, <3>3
    <2> HIDE DEF x, y
    <2>3. QED
      BY <2>1, <2>2, NameRecords DEF x, y
  <1>4. ASSUME NEW a, NEW b, Spelled(a), Fits(b)
        PROVE  Folded(Normal(a)) = Folded(b) <=> a.letter = b.letter
    <2> DEFINE x == Folded(Normal(a))
               y == Folded(b)
    <2>1. x \in Names /\ y \in Names /\ x.letter = a.letter /\ y.letter = b.letter
      BY <1>4, CaseFacts DEF Spelled, Fits
    <2>2. x.case = y.case
      <3>1. CASE config.output # "asis"
        BY <1>4, <3>1, CaseFacts DEF Spelled, Fits
      <3>2. CASE config.output = "asis" /\ config.adapter = "snowflake"
        BY <1>4, <3>2, CaseFacts DEF Spelled, Fits
      <3>3. CASE config.output = "asis" /\ config.adapter # "snowflake"
        BY <1>4, <3>3, CaseFacts DEF Spelled, Fits
      <3>4. QED
        BY <3>1, <3>2, <3>3
    <2> HIDE DEF x, y
    <2>3. QED
      BY <2>1, <2>2, NameRecords DEF x, y
  <1>5. ASSUME NEW b, Fits(b) PROVE Spelled(Output(b))
    BY <1>5, CaseFacts DEF Spelled, Fits
  <1>6. ASSUME NEW a, Spelled(a) PROVE Spelled(Output(a))
    BY <1>6, CaseFacts DEF Spelled
  <1>7. QED
    BY <1>1, <1>2, <1>3, <1>4, <1>5, <1>6

-----------------------------------------------------------------------------
(* inject_missing_columns                                                  *)

Rows == [letter : Letters, comment : Descriptions]

WarehouseOK ==
  /\ warehouse \in Seq(Rows)
  /\ \A i, j \in DOMAIN warehouse : warehouse[i].letter = warehouse[j].letter => i = j

Clean(cols) == Distinct(cols) /\ \A i \in DOMAIN cols : Spelled(cols[i].name)

\* The columns of the warehouse, as the database or the lineage reports them.
Reports(incoming) ==
  /\ incoming \in Seq(Columns) /\ Len(incoming) = Len(warehouse)
  /\ \A k \in DOMAIN warehouse :
       /\ incoming[k].name.letter = warehouse[k].letter /\ Fits(incoming[k].name)
       /\ config.kind = "source" /\ incoming[k].text # NoText =>
            incoming[k].text = warehouse[k].comment

\* A text that a run keeps, or takes from the warehouse.
TextKept(new, old, l) ==
  \/ new = old
  \/ config.kind = "source" /\ new = warehouse[CommentOf(l)].comment

\* One turn of the loop of inject_missing_columns.
Injecting(cols, acc, inc) ==
  IF Folded(inc.name) \notin {Folded(Normal(n)) : n \in NamesOf(cols)}
  THEN Put(acc, [name |-> Output(inc.name), text |-> inc.text, type |-> inc.type])
  ELSE IF /\ config.kind = "source" /\ inc.text # NoText
          /\ \E i \in DOMAIN acc :
                Cased(Normal(acc[i].name), "lower") = Cased(inc.name, "lower")
  THEN [acc EXCEPT ![CHOOSE j \in DOMAIN acc :
                       /\ Cased(Normal(acc[j].name), "lower") = Cased(inc.name, "lower")
                       /\ \A k \in 1..(j - 1) :
                            Cased(Normal(acc[k].name), "lower") # Cased(inc.name, "lower")
                    ].text = inc.text]
  ELSE acc

LEMMA ColumnFields ==
  \A cols \in Seq(Columns) : \A i \in DOMAIN cols :
     /\ cols[i] \in Columns /\ cols[i].name \in Names
     /\ cols[i].text \in Descriptions /\ cols[i].type \in Types
  <1>1. ASSUME NEW cols \in Seq(Columns), NEW i \in DOMAIN cols PROVE cols[i] \in Columns
    <2>1. cols \in [1..Len(cols) -> Columns] /\ DOMAIN cols = 1..Len(cols)
      BY SeqFacts
    <2>2. QED
      BY <2>1
  <1>2. QED
    BY <1>1 DEF Columns

LEMMA WithText ==
  ASSUME NEW acc \in Seq(Columns), NEW i, NEW t \in Descriptions
  PROVE  LET r == [acc EXCEPT ![i].text = t]
         IN  /\ r \in Seq(Columns) /\ DOMAIN r = DOMAIN acc
             /\ \A k \in DOMAIN acc : /\ r[k].name = acc[k].name /\ r[k].type = acc[k].type
                                      /\ r[k].text = IF k = i THEN t ELSE acc[k].text
  <1> DEFINE r == [k \in 1..Len(acc) |-> IF k = i THEN [acc[k] EXCEPT !.text = t] ELSE acc[k]]
  <1>1. /\ Len(acc) \in Nat /\ DOMAIN acc = 1..Len(acc) /\ acc \in [1..Len(acc) -> Columns]
        /\ acc = [k \in 1..Len(acc) |-> acc[k]]
    BY SeqFacts
  <1>2. [acc EXCEPT ![i].text = t] = r
    BY <1>1
  <1>3. ASSUME NEW k \in 1..Len(acc)
        PROVE  /\ r[k] \in Columns /\ r[k].name = acc[k].name /\ r[k].type = acc[k].type
               /\ r[k].text = IF k = i THEN t ELSE acc[k].text
    BY <1>1 DEF Columns
  <1>4. r \in [1..Len(acc) -> Columns]
    BY <1>3
  <1>5. r \in Seq(Columns) /\ DOMAIN r = 1..Len(acc)
    BY <1>1, <1>4, SeqFacts
  <1> HIDE DEF r
  <1>6. QED
    BY <1>1, <1>2, <1>3, <1>5

LEMMA TextStays ==
  ASSUME NEW acc \in Seq(Columns), NEW i \in DOMAIN acc
  PROVE  [acc EXCEPT ![i].text = acc[i].text] = acc
  <1>1. acc = [k \in DOMAIN acc |-> acc[k]] /\ acc[i] \in Columns
    BY SeqFacts, ColumnFields
  <1>2. [acc[i] EXCEPT !.text = acc[i].text] = acc[i]
    BY <1>1 DEF Columns
  <1>3. [acc EXCEPT ![i].text = acc[i].text] = [acc EXCEPT ![i] = acc[i]]
    BY <1>2
  <1>4. QED
    BY <1>1, <1>3

LEMMA InjectingType ==
  ASSUME ConfigOK, NEW cols, NEW acc \in Seq(Columns), NEW inc \in Columns
  PROVE  Injecting(cols, acc, inc) \in Seq(Columns)
  <1>1. inc.name \in Names /\ inc.text \in Descriptions /\ inc.type \in Types
    BY DEF Columns
  <1>2. [name |-> Output(inc.name), text |-> inc.text, type |-> inc.type] \in Columns
    BY <1>1, CaseFacts DEF Columns
  <1>3. Put(acc, [name |-> Output(inc.name), text |-> inc.text, type |-> inc.type]) \in Seq(Columns)
    BY <1>2, PutType
  <1>4. \A i : [acc EXCEPT ![i].text = inc.text] \in Seq(Columns)
    BY <1>1, WithText
  <1>5. QED
    BY <1>3, <1>4 DEF Injecting

LEMMA InjectingStep ==
  ASSUME ConfigOK, NEW cols \in Seq(Columns), Clean(cols),
         NEW acc \in Seq(Columns), Clean(acc), NEW inc \in Columns, Fits(inc.name),
         NEW r, r = Injecting(cols, acc, inc)
  PROVE  /\ inc.name.letter \in LettersOf(cols) =>
              /\ r \in Seq(Columns) /\ DOMAIN r = DOMAIN acc
              /\ \A i \in DOMAIN acc :
                   /\ r[i].name = acc[i].name
                   /\ \/ r[i].text = acc[i].text
                      \/ /\ config.kind = "source" /\ inc.text # NoText
                         /\ acc[i].name.letter = inc.name.letter /\ r[i].text = inc.text
              /\ \A i \in DOMAIN acc :
                   acc[i].name.letter = inc.name.letter /\ config.kind = "source"
                     /\ inc.text # NoText => r[i].text = inc.text
         /\ inc.name.letter \notin LettersOf(cols) /\ inc.name.letter \notin LettersOf(acc) =>
              /\ r \in Seq(Columns) /\ DOMAIN r = 1..Len(acc)+1
              /\ \A i \in 1..Len(acc) : r[i] = acc[i]
              /\ r[Len(acc)+1].name = Output(inc.name) /\ r[Len(acc)+1].text = inc.text
         /\ /\ inc.name.letter \in LettersOf(cols)
            /\ config.kind = "source" /\ inc.text # NoText =>
                 \A i \in DOMAIN acc :
                   acc[i].name.letter = inc.name.letter => acc[i].text = inc.text
            => r = acc
  <1>1. inc.name \in Names /\ inc.text \in Descriptions /\ inc.type \in Types
    BY DEF Columns
  <1>2. \A i \in DOMAIN acc : acc[i].name \in Names
    BY ColumnFields
  <1>3. Folded(inc.name) \in {Folded(Normal(m)) : m \in NamesOf(cols)}
          <=> inc.name.letter \in LettersOf(cols)
    <2>1. \A m \in NamesOf(cols) : Folded(Normal(m)) = Folded(inc.name) <=> m.letter = inc.name.letter
      BY NameFacts DEF NamesOf, Clean
    <2>2. QED
      BY <2>1 DEF NamesOf, LettersOf
  <1>4. CASE inc.name.letter \in LettersOf(cols)
    <2> DEFINE Match(i) == Cased(Normal(acc[i].name), "lower") = Cased(inc.name, "lower")
               First(j) == Match(j) /\ \A k \in 1..(j-1) : ~Match(k)
               at == CHOOSE j \in DOMAIN acc : First(j)
    <2>1. \A i \in DOMAIN acc : Match(i) <=> acc[i].name.letter = inc.name.letter
      BY <1>1, <1>2, NameFacts
    <2>2. CASE config.kind = "source" /\ inc.text # NoText /\ \E i \in DOMAIN acc : Match(i)
      <3>1. PICK i \in DOMAIN acc : Match(i)
        BY <2>2
      <3>2. \A k \in 1..(i-1) : k \in DOMAIN acc /\ k # i
        <4>1. DOMAIN acc = 1..Len(acc) /\ Len(acc) \in Nat
          BY SeqFacts
        <4>2. QED
          BY <4>1
      <3>3. \A k \in DOMAIN acc : k # i => ~Match(k)
        BY <2>1, <3>1 DEF Clean, Distinct
      <3>4. First(i)
        BY <3>1, <3>2, <3>3
      <3>5. at \in DOMAIN acc /\ First(at)
        BY <3>4
      <3>6. r = [acc EXCEPT ![at].text = inc.text]
        BY <1>3, <1>4, <2>2 DEF Injecting
      <3>7. acc[at].name.letter = inc.name.letter
        BY <2>1, <3>5
      <3> HIDE DEF at, Match
      <3>8. /\ r \in Seq(Columns) /\ DOMAIN r = DOMAIN acc
            /\ \A k \in DOMAIN acc : /\ r[k].name = acc[k].name
                                     /\ r[k].text = IF k = at THEN inc.text ELSE acc[k].text
        BY <1>1, <3>6, WithText
      <3>9. \A k \in DOMAIN acc : acc[k].name.letter = inc.name.letter => k = at
        BY <3>5, <3>7 DEF Clean, Distinct
      <3>10. acc[at].text = inc.text => r = acc
        BY <1>1, <3>5, <3>6, TextStays
      <3>11. QED
        BY <1>4, <2>2, <3>5, <3>7, <3>8, <3>9, <3>10
    <2>3. CASE ~(config.kind = "source" /\ inc.text # NoText /\ \E i \in DOMAIN acc : Match(i))
      <3>1. r = acc
        BY <1>3, <1>4, <2>3 DEF Injecting
      <3>2. config.kind = "source" /\ inc.text # NoText =>
              \A i \in DOMAIN acc : acc[i].name.letter # inc.name.letter
        BY <2>1, <2>3
      <3>3. QED
        BY <1>4, <3>1, <3>2
    <2> HIDE DEF Match
    <2>4. QED
      BY <2>2, <2>3
  <1>5. CASE inc.name.letter \notin LettersOf(cols) /\ inc.name.letter \notin LettersOf(acc)
    <2> DEFINE col == [name |-> Output(inc.name), text |-> inc.text, type |-> inc.type]
    <2>1. r = Put(acc, col)
      BY <1>3, <1>5 DEF Injecting
    <2>2. /\ col \in Columns /\ col.name = Output(inc.name) /\ col.name.letter = inc.name.letter
          /\ col.text = inc.text
      BY <1>1, CaseFacts DEF Columns
    <2>3. \A i \in DOMAIN acc : acc[i].name # col.name
      BY <1>5, <2>2 DEF LettersOf
    <2> HIDE DEF col
    <2>4. QED
      BY <1>5, <2>1, <2>2, <2>3, PutNew
  <1>6. QED
    BY <1>4, <1>5

\* A column that is reported is there, and its comment where a source takes it.
Taken(cols, inc) ==
  \E i \in DOMAIN cols :
    /\ cols[i].name.letter = inc.name.letter
    /\ config.kind = "source" /\ inc.text # NoText => cols[i].text = inc.text

Has(cols, incoming) == \A k \in DOMAIN incoming : Taken(cols, incoming[k])

\* What the loop has made of cols after k of the columns reported.
InjectedSoFar(g, cols, incoming, k) ==   
  /\ g \in Seq(Columns) /\ Clean(g) /\ Len(cols) <= Len(g)
  /\ \A i \in DOMAIN cols : /\ g[i].name = cols[i].name
                            /\ TextKept(g[i].text, cols[i].text, cols[i].name.letter)
  /\ LettersOf(g) = LettersOf(cols) \cup {warehouse[j].letter : j \in 1..k}
  /\ NamesOf(g) \subseteq NamesOf(cols) \cup {Output(incoming[j].name) : j \in DOMAIN incoming}
  /\ \A j \in 1..k : Taken(g, incoming[j])

LEMMA CommentIs ==
  ASSUME WarehouseOK, NEW k \in DOMAIN warehouse
  PROVE  CommentOf(warehouse[k].letter) = k
  BY DEF WarehouseOK, CommentOf

LEMMA InjectedStep ==
  ASSUME ConfigOK, WarehouseOK, NEW cols \in Seq(Columns), Clean(cols),
         NEW incoming, Reports(incoming), NEW k \in 1..Len(warehouse),
         NEW g, InjectedSoFar(g, cols, incoming, k-1)
  PROVE  InjectedSoFar(Injecting(cols, g, incoming[k]), cols, incoming, k)
  <1> DEFINE inc == incoming[k]
             r == Injecting(cols, g, inc)
             l == warehouse[k].letter
             Upto(m) == {warehouse[j].letter : j \in 1..m}
  <1>1. /\ DOMAIN warehouse = 1..Len(warehouse) /\ DOMAIN incoming = 1..Len(warehouse)
        /\ Len(warehouse) \in Nat
    BY SeqFacts DEF WarehouseOK, Reports
  <1>2. inc \in Columns /\ Fits(inc.name) /\ inc.name.letter = l
    BY <1>1, ColumnFields DEF Reports
  <1>3. config.kind = "source" /\ inc.text # NoText => inc.text = warehouse[CommentOf(l)].comment
    BY <1>1, CommentIs DEF Reports
  <1>4. /\ g \in Seq(Columns) /\ Clean(g) /\ Len(cols) <= Len(g)
        /\ \A i \in DOMAIN cols : /\ g[i].name = cols[i].name
                                  /\ TextKept(g[i].text, cols[i].text, cols[i].name.letter)
        /\ LettersOf(g) = LettersOf(cols) \cup Upto(k-1)
        /\ NamesOf(g) \subseteq NamesOf(cols) \cup {Output(incoming[j].name) : j \in DOMAIN incoming}
        /\ \A j \in 1..k-1 : Taken(g, incoming[j])
    BY DEF InjectedSoFar
  <1>5. /\ DOMAIN cols = 1..Len(cols) /\ DOMAIN g = 1..Len(g)
        /\ Len(cols) \in Nat /\ Len(g) \in Nat
    BY <1>4, SeqFacts
  <1>6. l \notin Upto(k-1) /\ Upto(k) = Upto(k-1) \cup {l}
    <2>1. \A j \in 1..k-1 : j \in DOMAIN warehouse /\ k \in DOMAIN warehouse /\ j # k
      BY <1>1
    <2>2. \A j \in 1..k-1 : warehouse[j].letter # l
      BY <2>1 DEF WarehouseOK
    <2>3. 1..k = 1..k-1 \cup {k}
      BY <1>1
    <2>4. QED
      BY <2>2, <2>3
  <1> HIDE DEF inc, l, Upto, r
  <1>7. ASSUME l \in LettersOf(cols) PROVE InjectedSoFar(r, cols, incoming, k)
    <2>1. /\ r \in Seq(Columns) /\ DOMAIN r = DOMAIN g
          /\ \A i \in DOMAIN g :
               /\ r[i].name = g[i].name
               /\ \/ r[i].text = g[i].text
                  \/ /\ config.kind = "source" /\ inc.text # NoText
                     /\ g[i].name.letter = l /\ r[i].text = inc.text
      BY <1>2, <1>4, <1>7, InjectingStep DEF r
    <2>2. Clean(r)
      BY <1>4, <2>1 DEF Clean, Distinct
    <2>3. LettersOf(r) = LettersOf(g) /\ NamesOf(r) = NamesOf(g)
      BY <2>1 DEF LettersOf, NamesOf
    <2>4. LettersOf(r) = LettersOf(cols) \cup Upto(k)
      BY <1>4, <1>6, <1>7, <2>3
    <2>5. Len(r) = Len(g)
      BY <2>1, SeqFacts, <1>5
    <2>6. ASSUME NEW i \in DOMAIN cols
          PROVE  r[i].name = cols[i].name /\ TextKept(r[i].text, cols[i].text, cols[i].name.letter)
      <3>1. i \in DOMAIN g
        BY <1>4, <1>5
      <3>2. r[i].name = cols[i].name /\ g[i].name = cols[i].name
        BY <1>4, <2>1, <3>1
      <3>3. r[i].text = g[i].text \/ TextKept(r[i].text, cols[i].text, cols[i].name.letter)
        BY <1>3, <2>1, <3>1, <3>2 DEF TextKept
      <3>4. QED
        BY <1>4, <3>2, <3>3
    <2>7. ASSUME NEW j \in 1..k PROVE Taken(r, incoming[j])
      <3>1. CASE j = k
        <4>1. PICK i \in DOMAIN g : g[i].name.letter = l
          BY <1>4, <1>7 DEF LettersOf
        <4>2. i \in DOMAIN r /\ r[i].name.letter = inc.name.letter
          BY <1>2, <2>1, <4>1
        <4>3. config.kind = "source" /\ inc.text # NoText => r[i].text = inc.text
          BY <1>2, <1>4, <1>7, <4>1, InjectingStep DEF r
        <4>4. QED
          BY <3>1, <4>2, <4>3 DEF Taken, inc
      <3>2. CASE j # k
        <4>1. j \in 1..k-1 /\ j \in DOMAIN warehouse
          BY <1>1, <3>2
        <4>2. incoming[j].name.letter # l
          BY <1>6, <4>1 DEF Reports, Upto
        <4>3. Taken(g, incoming[j])
          BY <1>4, <4>1
        <4>4. QED
          BY <2>1, <4>2, <4>3 DEF Taken
      <3>3. QED
        BY <3>1, <3>2
    <2>8. QED
      BY <1>4, <2>1, <2>2, <2>3, <2>4, <2>5, <2>6, <2>7 DEF InjectedSoFar, Upto
  <1>8. ASSUME l \notin LettersOf(cols) PROVE InjectedSoFar(r, cols, incoming, k)
    <2>1. l \notin LettersOf(g)
      BY <1>4, <1>6, <1>8
    <2>2. /\ r \in Seq(Columns) /\ DOMAIN r = 1..Len(g)+1
          /\ \A i \in 1..Len(g) : r[i] = g[i]
          /\ r[Len(g)+1].name = Output(inc.name) /\ r[Len(g)+1].text = inc.text
      BY <1>2, <1>4, <1>8, <2>1, InjectingStep DEF r
    <2>3. \A i \in DOMAIN r : i \in DOMAIN g \/ i = Len(g)+1
      BY <1>5, <2>2
    <2>4. r[Len(g)+1].name.letter = l /\ Spelled(r[Len(g)+1].name)
      <3>1. inc.name \in Names
        BY <1>2 DEF Fits
      <3>2. QED
        BY <1>2, <2>2, <3>1, CaseFacts, NameFacts
    <2>5. Clean(r)
      <3>1. ASSUME NEW i \in DOMAIN r, NEW j \in DOMAIN r, r[i].name.letter = r[j].name.letter
            PROVE  i = j
        <4>1. CASE i \in DOMAIN g /\ j \in DOMAIN g
          BY <1>4, <1>5, <2>2, <3>1, <4>1 DEF Clean, Distinct
        <4>2. CASE i \in DOMAIN g /\ j = Len(g)+1
          BY <1>5, <2>1, <2>2, <2>4, <3>1, <4>2 DEF LettersOf
        <4>3. CASE j \in DOMAIN g /\ i = Len(g)+1
          BY <1>5, <2>1, <2>2, <2>4, <3>1, <4>3 DEF LettersOf
        <4>4. QED
          BY <2>3, <4>1, <4>2, <4>3
      <3>2. \A i \in DOMAIN r : Spelled(r[i].name)
        BY <1>4, <1>5, <2>2, <2>3, <2>4 DEF Clean
      <3>3. QED
        BY <3>1, <3>2 DEF Clean, Distinct
    <2>6. DOMAIN r = DOMAIN g \cup {Len(g)+1}
      BY <1>5, <2>2
    <2>7. LettersOf(r) = LettersOf(g) \cup {l}
      BY <1>5, <2>2, <2>4, <2>6 DEF LettersOf
    <2>8. NamesOf(r) = NamesOf(g) \cup {Output(inc.name)}
      BY <1>5, <2>2, <2>6 DEF NamesOf
    <2>9. Output(inc.name) \in {Output(incoming[j].name) : j \in DOMAIN incoming}
      BY <1>1 DEF inc
    <2>10. LettersOf(r) = LettersOf(cols) \cup Upto(k)
      BY <1>4, <1>6, <2>7
    <2>11. Len(cols) <= Len(r)
      BY <1>4, <1>5, <2>2, SeqFacts
    <2>12. \A i \in DOMAIN cols : r[i] = g[i]
      BY <1>4, <1>5, <2>2
    <2>13. ASSUME NEW j \in 1..k PROVE Taken(r, incoming[j])
      <3>1. CASE j = k
        <4>1. Len(g)+1 \in DOMAIN r
          BY <1>5, <2>2
        <4>2. r[Len(g)+1].name.letter = inc.name.letter /\ r[Len(g)+1].text = inc.text
          BY <1>2, <2>2, <2>4
        <4>3. QED
          BY <3>1, <4>1, <4>2 DEF Taken, inc
      <3>2. CASE j # k
        <4>1. j \in 1..k-1
          BY <1>1, <3>2
        <4>2. Taken(g, incoming[j])
          BY <1>4, <4>1
        <4>3. \A i \in DOMAIN g : i \in DOMAIN r /\ r[i] = g[i]
          BY <1>5, <2>2
        <4>4. QED
          BY <4>2, <4>3 DEF Taken
      <3>3. QED
        BY <3>1, <3>2
    <2>14. QED
      BY <1>4, <2>2, <2>5, <2>8, <2>9, <2>10, <2>11, <2>12, <2>13 DEF InjectedSoFar, Upto
  <1>9. QED
    BY <1>7, <1>8 DEF inc, r

\* The loop of inject_missing_columns, turn by turn.
LEMMA InjectedLoop ==
  ASSUME ConfigOK, NEW cols \in Seq(Columns), NEW incoming \in Seq(Columns)
  PROVE  \E g : /\ g[0] = cols /\ g[Len(incoming)] = Injected(cols, incoming)
                /\ \A k \in 1..Len(incoming) : g[k] = Injecting(cols, g[k-1], incoming[k])
  <1> DEFINE A == Seq(Columns)
             n == Len(incoming)
             step == [p \in A \X Columns |-> Injecting(cols, p[1], p[2])]
             iter == CHOOSE f : f = [s \in SUBSET (1..n) |->
                        IF s = {} THEN cols
                        ELSE Injecting(cols, f[s \ {Max(s)}], incoming[Max(s)])]
  <1>1. n \in Nat /\ incoming \in [1..n -> Columns] /\ DOMAIN incoming = 1..n
    BY SeqFacts
  <1>2. step \in [A \X Columns -> A] /\ cols \in A
    <2>1. \A p \in A \X Columns : Injecting(cols, p[1], p[2]) \in A
      BY InjectingType
    <2>2. QED
      BY <2>1
  <1>3. Injected(cols, incoming) = iter[1..n]
    BY <1>1 DEF Injected, FoldLeft, MapThenFoldSet, Injecting
  <1>4. iter = [s \in SUBSET (1..n) |->
                  IF s = {} THEN cols
                  ELSE Injecting(cols, iter[s \ {Max(s)}], incoming[Max(s)])]
    <2> HIDE DEF step, A, n
    <2>1. PICK f : Folds(f, A, cols, n, incoming, step)
      <3> HIDE DEF iter
      <3>1. QED
        BY <1>1, <1>2, FoldSolution
    <2>2. /\ f \in [SUBSET (1..n) -> A]
          /\ f = [s \in SUBSET (1..n) |->
                    IF s = {} THEN cols ELSE step[<<f[s \ {Max(s)}], incoming[Max(s)]>>]]
      BY <2>1 DEF Folds
    <2>3. ASSUME NEW s \in SUBSET (1..n), s # {}
          PROVE  step[<<f[s \ {Max(s)}], incoming[Max(s)]>>]
                   = Injecting(cols, f[s \ {Max(s)}], incoming[Max(s)])
      <3>1. Max(s) \in 1..n /\ s \ {Max(s)} \in SUBSET (1..n)
        BY <1>1, <2>3, MaxOfInterval
      <3>2. f[s \ {Max(s)}] \in A /\ incoming[Max(s)] \in Columns
        BY <1>1, <2>2, <3>1
      <3>3. QED
        BY <3>2 DEF step
    <2>4. f = [s \in SUBSET (1..n) |->
                    IF s = {} THEN cols
                    ELSE Injecting(cols, f[s \ {Max(s)}], incoming[Max(s)])]
      BY <2>2, <2>3
    <2>5. QED
      BY <2>4
  <1> HIDE DEF iter, step
  <1>5. iter[1..0] = cols
    <2>1. 1..0 = {} /\ {} \in SUBSET (1..n)
      BY <1>1
    <2>2. iter[{}] = cols
      BY <1>4, <2>1
    <2>3. QED
      BY <2>1, <2>2
  <1>6. ASSUME NEW k \in 1..n
        PROVE  iter[1..k] = Injecting(cols, iter[1..(k-1)], incoming[k])
    <2> HIDE DEF n
    <2>1. k \in Nat \ {0} /\ k \in 1..k /\ \A i \in 1..k : i \in 1..n
      BY <1>1
    <2>2. Max(1..k) = k /\ (1..k) \ {k} = 1..(k-1)
      BY <2>1, MaxOfInterval
    <2>3. 1..k # {} /\ 1..k \in SUBSET (1..n)
      BY <2>1
    <2>4. iter[1..k] = Injecting(cols, iter[(1..k) \ {Max(1..k)}], incoming[Max(1..k)])
      BY <1>4, <2>3
    <2>5. QED
      BY <2>2, <2>4
  <1> DEFINE g == [k \in 0..n |-> iter[1..k]]
  <1>7. g[0] = cols /\ g[n] = Injected(cols, incoming)
    <2>1. 0 \in 0..n /\ n \in 0..n
      BY <1>1
    <2>2. QED
      BY <1>3, <1>5, <2>1
  <1>8. ASSUME NEW k \in 1..n PROVE g[k] = Injecting(cols, g[k-1], incoming[k])
    <2>1. k \in 0..n /\ k-1 \in 0..n
      BY <1>1
    <2>2. QED
      BY <1>6, <2>1
  <1> HIDE DEF g
  <1>9. QED
    BY <1>7, <1>8

\* inject_missing_columns keeps the columns it finds, in front, and adds the
\* others that are reported.
LEMMA InjectedFacts ==
  ASSUME ConfigOK, WarehouseOK, NEW cols \in Seq(Columns), Clean(cols),
         NEW incoming, Reports(incoming)
  PROVE  InjectedSoFar(Injected(cols, incoming), cols, incoming, Len(warehouse))
  <1> DEFINE n == Len(warehouse)
  <1>1. n \in Nat /\ Len(incoming) = n /\ incoming \in Seq(Columns)
    BY SeqFacts DEF Reports, WarehouseOK
  <1>2. PICK g : /\ g[0] = cols /\ g[n] = Injected(cols, incoming)
                 /\ \A k \in 1..n : g[k] = Injecting(cols, g[k-1], incoming[k])
    BY <1>1, InjectedLoop
  <1> DEFINE Good == {k \in 0..n : InjectedSoFar(g[k], cols, incoming, k)}
  <1>3. 0 \in Good
    <2>1. 0 \in 0..n /\ {warehouse[j].letter : j \in 1..0} = {} /\ 1..0 = {}
      BY <1>1
    <2>2. Len(cols) \in Nat
      BY SeqFacts
    <2>3. InjectedSoFar(cols, cols, incoming, 0)
      BY <2>1, <2>2 DEF InjectedSoFar, TextKept
    <2>4. QED
      BY <1>2, <2>1, <2>3
  <1>4. ASSUME NEW k \in 1..n, k-1 \in Good PROVE k \in Good
    <2>1. InjectedSoFar(g[k-1], cols, incoming, k-1)
      BY <1>4
    <2>2. InjectedSoFar(g[k], cols, incoming, k)
      BY <1>2, <2>1, InjectedStep
    <2>3. QED
      BY <1>1, <2>2
  <1>5. n \in Good
    <2> HIDE DEF Good
    <2>1. 0..n \subseteq Good
      BY <1>1, <1>3, <1>4, UpTo
    <2>2. QED
      BY <1>1, <2>1
  <1>6. QED
    BY <1>2, <1>5

\* Where everything reported is there, nothing is injected.
LEMMA InjectStays ==
  ASSUME ConfigOK, WarehouseOK, NEW cols \in Seq(Columns), Clean(cols),
         NEW incoming, Reports(incoming), Has(cols, incoming)
  PROVE  Injected(cols, incoming) = cols
  <1> DEFINE n == Len(incoming)
  <1>1. /\ incoming \in Seq(Columns) /\ n \in Nat /\ DOMAIN incoming = 1..n
        /\ DOMAIN warehouse = 1..Len(warehouse) /\ Len(incoming) = Len(warehouse)
    BY SeqFacts DEF Reports, WarehouseOK
  <1>2. PICK g : /\ g[0] = cols /\ g[n] = Injected(cols, incoming)
                 /\ \A k \in 1..n : g[k] = Injecting(cols, g[k-1], incoming[k])
    BY <1>1, InjectedLoop
  <1>3. ASSUME NEW k \in 1..n PROVE Injecting(cols, cols, incoming[k]) = cols
    <2>1. incoming[k] \in Columns /\ Fits(incoming[k].name)
      BY <1>1, ColumnFields DEF Reports
    <2>2. PICK i \in DOMAIN cols :
            /\ cols[i].name.letter = incoming[k].name.letter
            /\ config.kind = "source" /\ incoming[k].text # NoText =>
                 cols[i].text = incoming[k].text
      BY <1>1 DEF Has, Taken
    <2>3. incoming[k].name.letter \in LettersOf(cols)
      BY <2>2 DEF LettersOf
    <2>4. config.kind = "source" /\ incoming[k].text # NoText =>
            \A j \in DOMAIN cols :
              cols[j].name.letter = incoming[k].name.letter => cols[j].text = incoming[k].text
      BY <2>2 DEF Clean, Distinct
    <2>5. QED
      BY <2>1, <2>3, <2>4, InjectingStep
  <1> DEFINE Good == {k \in 0..n : g[k] = cols}
  <1>4. 0 \in Good
    BY <1>1, <1>2
  <1>5. ASSUME NEW k \in 1..n, k-1 \in Good PROVE k \in Good
    BY <1>1, <1>2, <1>3, <1>5
  <1>6. n \in Good
    <2> HIDE DEF Good, n
    <2>1. 0..n \subseteq Good
      BY <1>1, <1>4, <1>5, UpTo
    <2>2. QED
      BY <1>1, <2>1
  <1>7. QED
    BY <1>2, <1>6

-----------------------------------------------------------------------------
(* remove_columns_not_in_database                                          *)

\* new is made of the columns of cols at the positions of p, each used once.
Picks(new, cols, p) ==
  /\ new \in Seq(Columns) /\ p \in [DOMAIN new -> DOMAIN cols]
  /\ \A i, j \in DOMAIN new : p[i] = p[j] => i = j
  /\ \A k \in DOMAIN new : new[k] = cols[p[k]]

\* f holds the first i columns without those in out.
Kept(f, cols, out, i) ==
  \E p : /\ Picks(f, cols, p) /\ {p[k] : k \in DOMAIN f} = (1..i) \ out
         /\ (1..i) \cap out = {} => DOMAIN f = 1..i /\ \A k \in DOMAIN f : p[k] = k

LEMMA KeptStep ==
  ASSUME NEW cols \in Seq(Columns), NEW out, NEW i \in DOMAIN cols, NEW f, Kept(f, cols, out, i-1)
  PROVE  Kept(f \o (IF i \in out THEN <<>> ELSE <<cols[i]>>), cols, out, i)
  <1>1. PICK p : /\ Picks(f, cols, p) /\ {p[k] : k \in DOMAIN f} = (1..i-1) \ out
                 /\ (1..i-1) \cap out = {} => DOMAIN f = 1..i-1 /\ \A k \in DOMAIN f : p[k] = k
    BY DEF Kept
  <1>2. f \in Seq(Columns) /\ Len(f) \in Nat /\ DOMAIN f = 1..Len(f)
    BY <1>1, SeqFacts DEF Picks
  <1>3. cols[i] \in Columns /\ i \in Nat /\ 1..i = (1..i-1) \cup {i} /\ i \notin 1..i-1
    <2>1. DOMAIN cols = 1..Len(cols) /\ Len(cols) \in Nat
      BY SeqFacts
    <2>2. i \in Nat /\ i >= 1
      BY <2>1
    <2>3. QED
      BY <2>2, ColumnFields
  <1>4. CASE i \in out
    <2>1. f \o <<>> = f
      BY <1>2, ConcatEmptySeq
    <2>2. (1..i) \ out = (1..i-1) \ out
      BY <1>3, <1>4
    <2>3. (1..i) \cap out # {}
      BY <1>3, <1>4
    <2>4. QED
      BY <1>1, <1>4, <2>1, <2>2, <2>3 DEF Kept
  <1>5. CASE i \notin out
    <2> DEFINE g == Append(f, cols[i])
               q == [k \in 1..Len(f)+1 |-> IF k = Len(f)+1 THEN i ELSE p[k]]
    <2>1. f \o <<cols[i]>> = g
      BY <1>2, <1>3, AppendIsConcat
    <2>2. /\ g \in Seq(Columns) /\ DOMAIN g = 1..Len(f)+1
          /\ \A k \in 1..Len(f) : g[k] = f[k]
          /\ g[Len(f)+1] = cols[i]
      BY <1>2, <1>3, AppendProperties, LenProperties
    <2>3. \A k \in 1..Len(f)+1 : k \in 1..Len(f) \/ k = Len(f)+1
      BY <1>2
    <2>4. \A k \in 1..Len(f) : k \in 1..Len(f)+1 /\ k # Len(f)+1 /\ q[k] = p[k]
      BY <1>2
    <2>5. q[Len(f)+1] = i /\ Len(f)+1 \in 1..Len(f)+1
      BY <1>2
    <2>6. \A k \in 1..Len(f) : p[k] \in DOMAIN cols /\ p[k] # i /\ g[k] = cols[p[k]]
      BY <1>1, <1>2, <1>3, <2>2 DEF Picks
    <2> HIDE DEF g
    <2>7. q \in [DOMAIN g -> DOMAIN cols]
      BY <2>2, <2>3, <2>6
    <2>8. \A k \in DOMAIN g : g[k] = cols[q[k]]
      BY <2>2, <2>3, <2>4, <2>5, <2>6
    <2> HIDE DEF q
    <2>9. \A k, j \in DOMAIN g : q[k] = q[j] => k = j
      BY <1>1, <1>2, <2>2, <2>3, <2>4, <2>5, <2>6 DEF Picks
    <2>10. {q[k] : k \in DOMAIN g} = (1..i) \ out
      <3>1. 1..Len(f)+1 = 1..Len(f) \cup {Len(f)+1}
        BY <1>2
      <3>2. {q[k] : k \in 1..Len(f)+1} = {q[k] : k \in 1..Len(f)} \cup {i}
        BY <2>5, <3>1
      <3>3. {q[k] : k \in 1..Len(f)} = {p[k] : k \in 1..Len(f)}
        BY <2>4
      <3>4. (1..i) \ out = ((1..i-1) \ out) \cup {i}
        BY <1>3, <1>5
      <3>5. QED
        BY <1>1, <1>2, <2>2, <3>2, <3>3, <3>4
    <2>11. Kept(g, cols, out, i)
      <3>1. Picks(g, cols, q)
        BY <2>2, <2>7, <2>8, <2>9 DEF Picks
      <3>2. ASSUME (1..i) \cap out = {} PROVE DOMAIN g = 1..i /\ \A k \in DOMAIN g : q[k] = k
        <4>1. (1..i-1) \cap out = {}
          BY <1>3, <3>2
        <4>2. 1..Len(f) = 1..i-1 /\ \A k \in 1..Len(f) : p[k] = k
          BY <1>1, <1>2, <4>1
        <4>3. Len(f) = i-1
          <5>1. i-1 \in Nat /\ i # 1 => i-1 \in 1..i-1
            BY <1>2, <1>3, <2>2, SeqFacts
          <5>2. Len(f) # 0 => Len(f) \in 1..Len(f)
            BY <1>2
          <5>3. QED
            BY <1>2, <1>3, <4>2, <5>1, <5>2
        <4>4. Len(f)+1 = i
          BY <1>2, <1>3, <4>3
        <4>5. QED
          BY <2>2, <2>3, <2>4, <2>5, <4>2, <4>4
      <3>3. QED
        BY <2>10, <3>1, <3>2 DEF Kept
    <2>12. QED
      BY <1>5, <2>1, <2>11 DEF g
  <1>6. QED
    BY <1>4, <1>5

LEMMA FlattenKeeps ==
  ASSUME NEW cols \in Seq(Columns), NEW out
  PROVE  Kept(FlattenSeq([i \in DOMAIN cols |-> IF i \in out THEN <<>> ELSE <<cols[i]>>]),
              cols, out, Len(cols))
  <1> DEFINE n == Len(cols)
             V == Seq(Columns)
             s == [i \in DOMAIN cols |-> IF i \in out THEN <<>> ELSE <<cols[i]>>]
  <1>1. n \in Nat /\ DOMAIN cols = 1..n /\ \A i \in 1..n : cols[i] \in Columns
    BY SeqFacts, ColumnFields
  <1>2. \A i \in 1..n : s[i] = (IF i \in out THEN <<>> ELSE <<cols[i]>>) /\ s[i] \in V
    BY <1>1, EmptySeq
  <1>3. s \in Seq(V) /\ Len(s) = n
    <2>1. s \in [1..n -> V]
      BY <1>1, <1>2
    <2> HIDE DEF s, V, n
    <2>2. QED
      BY <1>1, <2>1, SeqFacts
  <1>4. Kept(<<>>, cols, out, 0)
    <2> DEFINE p == [k \in {} |-> 0]
    <2>1. DOMAIN <<>> = {} /\ <<>> \in Seq(Columns) /\ 1..0 = {}
      OBVIOUS
    <2>2. p \in [{} -> DOMAIN cols]
      OBVIOUS
    <2>3. Picks(<<>>, cols, p)
      BY <2>1, <2>2 DEF Picks
    <2>4. {p[k] : k \in DOMAIN <<>>} = (1..0) \ out
      BY <2>1
    <2> HIDE DEF p
    <2>5. DOMAIN <<>> = 1..0 /\ \A k \in DOMAIN <<>> : p[k] = k
      BY <2>1
    <2>6. QED
      BY <2>3, <2>4, <2>5 DEF Kept
  <1>5. CASE n = 0
    <2>1. s = <<>>
      BY <1>3, <1>5, EmptySeq
    <2>2. FlattenSeq(s) = <<>>
      BY <1>3, <1>5, <2>1 DEF FlattenSeq
    <2>3. QED
      BY <1>4, <1>5, <2>2
  <1>6. CASE n # 0
    <2> DEFINE Body(f) == [i \in 1..n |-> IF i = 1 THEN s[i] ELSE f[i-1] \o s[i]]
               B == [f \in [1..n -> V] |-> Body(f)]
               id == [i \in 1..n |-> i]
               flatten == CHOOSE f : f = Body(f)
    <2>1. id \in [1..n -> Nat] /\ V # {}
      <3>1. \A i \in 1..n : i \in Nat
        BY <1>1
      <3>2. <<>> \in V
        BY EmptySeq
      <3>3. QED
        BY <3>1, <3>2
    <2>2. ASSUME NEW f \in [1..n -> V] PROVE Body(f) \in [1..n -> V]
      <3>1. ASSUME NEW i \in 1..n PROVE (IF i = 1 THEN s[i] ELSE f[i-1] \o s[i]) \in V
        <4>1. CASE i = 1
          BY <1>2, <4>1
        <4>2. CASE i # 1
          <5>1. i - 1 \in 1..n
            BY <1>1, <4>2
          <5>2. f[i-1] \in V /\ s[i] \in V
            BY <1>2, <5>1
          <5>3. QED
            BY <4>2, <5>2, ConcatProperties
        <4>3. QED
          BY <4>1, <4>2
      <3>2. QED
        BY <3>1
    <2>3. B \in [[1..n -> V] -> [1..n -> V]]
      BY <2>2
    <2>4. ASSUME NEW f \in [1..n -> V], NEW g \in [1..n -> V], NEW i \in 1..n,
                 \A j \in 1..n : id[j] < id[i] => f[j] = g[j]
          PROVE  B[f][i] = B[g][i]
      <3>1. i # 1 => i - 1 \in 1..n /\ id[i-1] < id[i]
        BY <1>1
      <3>2. i # 1 => f[i-1] = g[i-1]
        BY <2>4, <3>1
      <3>3. QED
        BY <3>2
    <2>5. \E f : f = Body(f)
      <3> DEFINE X == 1..n
      <3>1. GoesDown(X, V, id, B)
        <4>1. \A f, g \in [X -> V] : \A i \in X :
                (\A j \in X : id[j] < id[i] => f[j] = g[j]) => B[f][i] = B[g][i]
          BY <2>4
        <4>2. id \in [X -> Nat] /\ B \in [[X -> V] -> [X -> V]]
          BY <2>1, <2>3
        <4> HIDE DEF B, id, X, V
        <4>3. QED
          BY <4>1, <4>2 DEF GoesDown
      <3>2. \E f \in [X -> V] : f = B[f]
        <4> HIDE DEF B, id, X, V
        <4>1. QED
          BY <2>1, <3>1, Solution
      <3>3. QED
        BY <3>2
    <2>6. flatten = Body(flatten)
      BY <2>5
    <2>7. FlattenSeq(s) = flatten[n]
      BY <1>3, <1>6 DEF FlattenSeq, flatten
    <2> HIDE DEF flatten
    <2> DEFINE Good == {i \in 0..n : i # 0 => Kept(flatten[i], cols, out, i)}
    <2>8. ASSUME NEW i \in 1..n, i-1 \in Good PROVE i \in Good
      <3>1. flatten[i] = IF i = 1 THEN s[i] ELSE flatten[i-1] \o s[i]
        BY <2>6
      <3>2. CASE i = 1
        <4>1. Kept(<<>> \o s[i], cols, out, i)
          <5>1. i \in DOMAIN cols /\ i-1 = 0
            BY <1>1, <3>2
          <5>2. Kept(<<>> \o (IF i \in out THEN <<>> ELSE <<cols[i]>>), cols, out, i)
            BY <1>4, <5>1, KeptStep
          <5>3. QED
            BY <1>2, <5>2
        <4>2. <<>> \o s[i] = s[i]
          BY <1>2, ConcatEmptySeq
        <4>3. QED
          BY <1>1, <3>1, <3>2, <4>1, <4>2
      <3>3. CASE i # 1
        <4>1. Kept(flatten[i-1], cols, out, i-1)
          BY <1>1, <2>8, <3>3
        <4>2. Kept(flatten[i-1] \o s[i], cols, out, i)
          <5>1. i \in DOMAIN cols
            BY <1>1
          <5>2. Kept(flatten[i-1] \o (IF i \in out THEN <<>> ELSE <<cols[i]>>), cols, out, i)
            BY <4>1, <5>1, KeptStep
          <5>3. QED
            BY <1>2, <5>2
        <4>3. Kept(flatten[i], cols, out, i)
          <5>1. flatten[i] = flatten[i-1] \o s[i]
            BY <3>1, <3>3
          <5> HIDE DEF s
          <5>2. QED
            BY <4>2, <5>1
        <4>4. i \in 0..n
          BY <1>1
        <4>5. QED
          BY <4>3, <4>4
      <3>4. QED
        BY <3>2, <3>3
    <2>9. n \in Good
      <3>1. 0 \in Good
        BY <1>1
      <3> HIDE DEF Good, n
      <3>2. 0..n \subseteq Good
        BY <1>1, <2>8, <3>1, UpTo
      <3>3. QED
        BY <1>1, <3>2
    <2>10. QED
      BY <1>6, <2>7, <2>9
  <1>7. QED
    BY <1>5, <1>6

LEMMA PicksFacts ==
  ASSUME NEW cols \in Seq(Columns), Clean(cols), NEW new, NEW p, Picks(new, cols, p)
  PROVE  /\ new \in Seq(Columns) /\ Clean(new)
         /\ LettersOf(new) = {cols[p[k]].name.letter : k \in DOMAIN new}
         /\ NamesOf(new) \subseteq NamesOf(cols)
  <1>1. \A k \in DOMAIN new : p[k] \in DOMAIN cols /\ new[k] = cols[p[k]]
    BY DEF Picks
  <1>2. \A i, j \in DOMAIN new : p[i] = p[j] => i = j
    BY DEF Picks
  <1>3. Distinct(new)
    <2> SUFFICES ASSUME NEW i \in DOMAIN new, NEW j \in DOMAIN new,
                        new[i].name.letter = new[j].name.letter
                 PROVE  i = j
      BY DEF Distinct
    <2>1. p[i] = p[j]
      BY <1>1 DEF Clean, Distinct
    <2>2. QED
      BY <1>2, <2>1
  <1>4. \A i \in DOMAIN new : Spelled(new[i].name)
    BY <1>1 DEF Clean
  <1>5. LettersOf(new) = {cols[p[k]].name.letter : k \in DOMAIN new}
    BY <1>1 DEF LettersOf
  <1>6. NamesOf(new) \subseteq NamesOf(cols)
    BY <1>1 DEF NamesOf
  <1>7. QED
    BY <1>3, <1>4, <1>5, <1>6 DEF Clean, Picks

LEMMA WarehouseFacts ==
  ASSUME WarehouseOK
  PROVE  /\ Len(warehouse) \in Nat /\ DOMAIN warehouse = 1..Len(warehouse)
         /\ \A k \in DOMAIN warehouse : warehouse[k].letter \in InWarehouse
         /\ \A l \in InWarehouse : /\ CommentOf(l) \in DOMAIN warehouse
                                   /\ warehouse[CommentOf(l)].letter = l
         /\ \A incoming : Reports(incoming) => DOMAIN incoming = DOMAIN warehouse
  <1>1. Len(warehouse) \in Nat /\ DOMAIN warehouse = 1..Len(warehouse)
    BY SeqFacts DEF WarehouseOK
  <1>2. \A l \in InWarehouse : /\ CommentOf(l) \in DOMAIN warehouse
                               /\ warehouse[CommentOf(l)].letter = l
    BY DEF InWarehouse, CommentOf
  <1>3. \A incoming : Reports(incoming) => DOMAIN incoming = DOMAIN warehouse
    BY <1>1, SeqFacts DEF Reports
  <1>4. QED
    BY <1>1, <1>2, <1>3 DEF InWarehouse

\* What remove_columns_not_in_database keeps are the columns of the warehouse.
LEMMA RemovedFacts ==
  ASSUME ConfigOK, WarehouseOK, NEW cols \in Seq(Columns), Clean(cols),
         NEW incoming, Reports(incoming)
  PROVE  \E p : /\ Picks(Removed(cols, incoming), cols, p)
                /\ {p[k] : k \in DOMAIN Removed(cols, incoming)}
                     = {i \in DOMAIN cols : cols[i].name.letter \in InWarehouse}
                /\ LettersOf(cols) \subseteq InWarehouse => Removed(cols, incoming) = cols
  <1> DEFINE Compared(i) == Folded(Normal(cols[i].name))
             wanted == {Folded(inc.name) : inc \in ToSet(incoming)}
             popped == {i \in DOMAIN cols :
                          /\ Compared(i) \notin wanted
                          /\ \A j \in DOMAIN cols : j > i => Compared(j) # Compared(i)}
  <1>1. \A k \in DOMAIN warehouse :
          incoming[k].name.letter = warehouse[k].letter /\ Fits(incoming[k].name)
    BY DEF Reports
  <1>2. DOMAIN incoming = DOMAIN warehouse
    BY WarehouseFacts
  <1>3. ASSUME NEW i \in DOMAIN cols
        PROVE  Compared(i) \in wanted <=> cols[i].name.letter \in InWarehouse
    <2>1. \A k \in DOMAIN warehouse :
            Compared(i) = Folded(incoming[k].name) <=> cols[i].name.letter = warehouse[k].letter
      BY <1>1, NameFacts DEF Clean
    <2>2. Compared(i) \in wanted <=> \E k \in DOMAIN warehouse : Compared(i) = Folded(incoming[k].name)
      BY <1>2 DEF ToSet
    <2>3. cols[i].name.letter \in InWarehouse
            <=> \E k \in DOMAIN warehouse : cols[i].name.letter = warehouse[k].letter
      BY DEF InWarehouse
    <2>4. QED
      BY <2>1, <2>2, <2>3
  <1>4. ASSUME NEW i \in DOMAIN cols, NEW j \in DOMAIN cols, j > i
        PROVE  Compared(j) # Compared(i)
    <2>1. i # j
      <3>1. DOMAIN cols = 1..Len(cols) /\ Len(cols) \in Nat
        BY SeqFacts
      <3>2. QED
        BY <1>4, <3>1
    <2>2. QED
      BY <2>1, NameFacts DEF Clean, Distinct
  <1>5. popped = {i \in DOMAIN cols : cols[i].name.letter \notin InWarehouse}
    BY <1>3, <1>4
  <1>6. Removed(cols, incoming)
          = FlattenSeq([i \in DOMAIN cols |-> IF i \in popped THEN <<>> ELSE <<cols[i]>>])
    BY DEF Removed
  <1> HIDE DEF popped
  <1>7. Kept(Removed(cols, incoming), cols, popped, Len(cols))
    BY <1>6, FlattenKeeps
  <1>8. (1..Len(cols)) \ popped = {i \in DOMAIN cols : cols[i].name.letter \in InWarehouse}
    BY <1>5, SeqFacts
  <1>9. PICK p : /\ Picks(Removed(cols, incoming), cols, p)
                 /\ {p[k] : k \in DOMAIN Removed(cols, incoming)} = (1..Len(cols)) \ popped
                 /\ (1..Len(cols)) \cap popped = {} =>
                      /\ DOMAIN Removed(cols, incoming) = 1..Len(cols)
                      /\ \A k \in DOMAIN Removed(cols, incoming) : p[k] = k
    BY <1>7 DEF Kept
  <1>10. ASSUME LettersOf(cols) \subseteq InWarehouse PROVE Removed(cols, incoming) = cols
    <2>1. popped = {}
      BY <1>5, <1>10 DEF LettersOf
    <2>2. /\ DOMAIN Removed(cols, incoming) = 1..Len(cols)
          /\ \A k \in 1..Len(cols) : Removed(cols, incoming)[k] = cols[k]
      BY <1>9, <2>1 DEF Picks
    <2>3. Removed(cols, incoming) \in Seq(Columns)
      BY <1>9 DEF Picks
    <2> DEFINE new == Removed(cols, incoming)
    <2> HIDE DEF new
    <2>4. new \in Seq(Columns) /\ DOMAIN new = DOMAIN cols /\ \A k \in DOMAIN cols : new[k] = cols[k]
      BY <2>2, <2>3, SeqFacts DEF new
    <2>5. new = cols
      BY <2>4, SameSeq
    <2>6. QED
      BY <2>5 DEF new
  <1>11. QED
    BY <1>8, <1>9, <1>10

-----------------------------------------------------------------------------
(* The sorts                                                               *)

Sooner(key, i, j) == key[i] < key[j] \/ (key[i] = key[j] /\ i < j)
Below(key, n, i) == {j \in 1..n : Sooner(key, j, i)}

\* p[k] has k-1 others before it, if any has.
Ranks(p, key, n) ==
  \A k \in 1..n : (\E i \in 1..n : Cardinality(Below(key, n, i)) = k-1) =>
     p[k] \in 1..n /\ Cardinality(Below(key, n, p[k])) = k-1

Sorts(p, key, n) ==
  /\ \A k \in 1..n : p[k] \in 1..n
  /\ \A k, m \in 1..n : k < m => Sooner(key, p[k], p[m])
  /\ \A k, m \in 1..n : p[k] = p[m] => k = m
  /\ \A i \in 1..n : \E k \in 1..n : p[k] = i

LEMMA RankSorts ==
  ASSUME NEW n \in Nat, NEW key \in [1..n -> Int], NEW p, Ranks(p, key, n)
  PROVE  Sorts(p, key, n)
  <1> DEFINE rank == [i \in 1..n |-> Cardinality(Below(key, n, i)) + 1]
             size(i) == Cardinality(Below(key, n, i))
  <1>1. IsFiniteSet(1..n) /\ Cardinality(1..n) = n
    BY FS_Interval
  <1>2. ASSUME NEW i \in 1..n
        PROVE  IsFiniteSet(Below(key, n, i)) /\ size(i) \in Nat /\ size(i) + 1 \in 1..n
    <2>1. i \notin Below(key, n, i)
      BY DEF Below, Sooner
    <2>2. Below(key, n, i) \in SUBSET ((1..n) \ {i})
      BY <2>1 DEF Below
    <2>3. IsFiniteSet((1..n) \ {i}) /\ Cardinality((1..n) \ {i}) = n - 1
      BY <1>1, FS_RemoveElement
    <2>4. IsFiniteSet(Below(key, n, i)) /\ size(i) <= n - 1
      BY <2>2, <2>3, FS_Subset
    <2>5. size(i) \in Nat
      BY <2>4, FS_CardinalityType
    <2> HIDE DEF size
    <2>6. QED
      BY <2>4, <2>5
  <1>3. ASSUME NEW i \in 1..n, NEW j \in 1..n, Sooner(key, i, j)
        PROVE  size(i) < size(j)
    <2>1. \A m \in 1..n : Sooner(key, m, i) => Sooner(key, m, j)
      BY <1>3 DEF Sooner
    <2>2. Below(key, n, i) \subseteq Below(key, n, j)
      BY <2>1 DEF Below
    <2>3. i \in Below(key, n, j)
      BY <1>3 DEF Below
    <2>4. i \notin Below(key, n, i)
      BY DEF Below, Sooner
    <2>5. Below(key, n, i) # Below(key, n, j)
      BY <2>3, <2>4
    <2>6. size(i) <= size(j) /\ size(i) # size(j)
      BY <1>2, <2>2, <2>5, FS_Subset
    <2>7. size(i) \in Nat /\ size(j) \in Nat
      BY <1>2
    <2> HIDE DEF size
    <2>8. QED
      BY <2>6, <2>7
  <1>4. \A i, j \in 1..n : i # j => Sooner(key, i, j) \/ Sooner(key, j, i)
    BY DEF Sooner
  <1>5. \A i, j \in 1..n : size(i) = size(j) => i = j
    <2> SUFFICES ASSUME NEW i \in 1..n, NEW j \in 1..n, i # j PROVE size(i) # size(j)
      OBVIOUS
    <2>1. size(i) < size(j) \/ size(j) < size(i)
      BY <1>3, <1>4
    <2>2. size(i) \in Nat /\ size(j) \in Nat
      BY <1>2
    <2> HIDE DEF size
    <2>3. QED
      BY <2>1, <2>2
  <1>6. rank \in Surjection(1..n, 1..n)
    <2>1. rank \in [1..n -> 1..n]
      BY <1>2
    <2>2. \A i, j \in 1..n : rank[i] = rank[j] => i = j
      <3> SUFFICES ASSUME NEW i \in 1..n, NEW j \in 1..n, rank[i] = rank[j] PROVE i = j
        OBVIOUS
      <3>1. size(i) + 1 = size(j) + 1 /\ size(i) \in Nat /\ size(j) \in Nat
        BY <1>2
      <3> HIDE DEF size
      <3>2. size(i) = size(j)
        BY <3>1
      <3>3. QED
        BY <1>5, <3>2
    <2>3. rank \in Injection(1..n, 1..n)
      BY <2>1, <2>2 DEF Injection, IsInjective
    <2> HIDE DEF rank
    <2>4. QED
      BY <1>1, <2>3, FS_Injection
  <1>7. ASSUME NEW k \in 1..n PROVE p[k] \in 1..n /\ size(p[k]) = k-1
    <2>1. PICK i \in 1..n : rank[i] = k
      BY <1>6 DEF Surjection
    <2>2. size(i) = k-1
      <3>1. size(i) + 1 = k /\ size(i) \in Nat
        BY <1>2, <2>1
      <3> HIDE DEF size
      <3>2. QED
        BY <3>1
    <2>3. QED
      BY <2>2 DEF Ranks
  <1>8. ASSUME NEW k \in 1..n, NEW m \in 1..n, k < m PROVE Sooner(key, p[k], p[m])
    <2>1. /\ p[k] \in 1..n /\ p[m] \in 1..n /\ size(p[k]) = k-1 /\ size(p[m]) = m-1
      BY <1>7
    <2>2. p[k] # p[m]
      <3> HIDE DEF size
      <3>1. QED
        BY <1>8, <2>1
    <2>3. ~Sooner(key, p[m], p[k])
      <3>1. Sooner(key, p[m], p[k]) => size(p[m]) < size(p[k])
        BY <1>3, <2>1
      <3> HIDE DEF size
      <3>2. QED
        BY <1>8, <2>1, <3>1
    <2>4. QED
      BY <1>4, <2>1, <2>2, <2>3
  <1>9. ASSUME NEW k \in 1..n, NEW m \in 1..n, p[k] = p[m] PROVE k = m
    <2>1. size(p[k]) = k-1 /\ size(p[m]) = m-1
      BY <1>7
    <2> HIDE DEF size
    <2>2. QED
      BY <1>9, <2>1
  <1>10. ASSUME NEW i \in 1..n PROVE \E k \in 1..n : p[k] = i
    <2> DEFINE k == size(i) + 1
    <2>1. k \in 1..n
      BY <1>2
    <2>2. p[k] \in 1..n /\ size(p[k]) = k-1
      BY <1>7, <2>1
    <2>3. size(p[k]) = size(i)
      <3>1. size(i) \in Nat
        BY <1>2
      <3> HIDE DEF size
      <3>2. QED
        BY <2>2, <3>1
    <2>4. QED
      BY <1>5, <2>1, <2>2, <2>3
  <1>11. QED
    BY <1>7, <1>8, <1>9, <1>10 DEF Sorts

\* new is cols in another order.
Reorders(new, cols, p) ==
  Picks(new, cols, p) /\ {p[k] : k \in DOMAIN new} = DOMAIN cols

\* A list whose keys rise already stays as it is.
LEMMA RisingStays ==
  ASSUME NEW cols \in Seq(Columns), NEW key \in [1..Len(cols) -> Int], NEW p,
         Ranks(p, key, Len(cols)),
         NEW new, new = [k \in 1..Len(cols) |-> cols[p[k]]],
         \A i, j \in 1..Len(cols) : i < j => key[i] <= key[j]
  PROVE  new = cols
  <1> DEFINE n == Len(cols)
  <1>1. n \in Nat /\ cols = [i \in 1..n |-> cols[i]]
    BY SeqFacts
  <1>2. /\ key \in [1..n -> Int] /\ Ranks(p, key, n) /\ new = [k \in 1..n |-> cols[p[k]]]
        /\ \A i, j \in 1..n : i < j => key[i] <= key[j]
    OBVIOUS
  <1> HIDE DEF n
  <1>3. ASSUME NEW i \in 1..n PROVE Below(key, n, i) = 1..i-1
    <2>1. ASSUME NEW j \in 1..n PROVE Sooner(key, j, i) <=> j < i
      <3>1. key[i] \in Int /\ key[j] \in Int /\ i \in Nat /\ j \in Nat
        BY <1>1, <1>2
      <3>2. CASE j < i
        <4>1. key[j] <= key[i]
          BY <1>2, <3>2
        <4>2. QED
          BY <3>1, <3>2, <4>1 DEF Sooner
      <3>3. CASE j >= i
        <4>1. i < j => key[i] <= key[j]
          BY <1>2
        <4>2. i = j \/ i < j
          BY <3>1, <3>3
        <4>3. QED
          BY <3>1, <3>3, <4>1, <4>2 DEF Sooner
      <3>4. QED
        BY <3>1, <3>2, <3>3
    <2>2. \A j \in 1..i-1 : j \in 1..n /\ j < i
      BY <1>1
    <2>3. \A j \in 1..n : j < i => j \in 1..i-1
      BY <1>1
    <2>4. QED
      BY <2>1, <2>2, <2>3 DEF Below
  <1>4. ASSUME NEW i \in 1..n PROVE Cardinality(Below(key, n, i)) = i-1
    <2>1. i-1 \in Nat
      BY <1>1
    <2>2. Cardinality(1..i-1) = i-1
      BY <2>1, FS_Interval, 1 \in Int, i-1 \in Int
    <2>3. QED
      BY <1>3, <2>2
  <1>5. ASSUME NEW k \in 1..n PROVE p[k] = k
    <2>1. p[k] \in 1..n /\ Cardinality(Below(key, n, p[k])) = k-1
      BY <1>2, <1>4 DEF Ranks
    <2>2. Cardinality(Below(key, n, p[k])) = p[k]-1
      BY <1>4, <2>1
    <2>3. p[k] \in Nat /\ k \in Nat
      BY <1>1, <2>1
    <2>4. QED
      BY <2>1, <2>2, <2>3
  <1>6. QED
    BY <1>1, <1>2, <1>5

LEMMA SortReorders ==
  ASSUME NEW cols \in Seq(Columns), NEW key \in [1..Len(cols) -> Int], NEW p,
         Ranks(p, key, Len(cols)),
         NEW new, new = [k \in 1..Len(cols) |-> cols[p[k]]]
  PROVE  \E q : /\ Reorders(new, cols, q) /\ DOMAIN new = 1..Len(cols)
                /\ \A k, m \in 1..Len(cols) : k < m => Sooner(key, q[k], q[m])
  <1> DEFINE n == Len(cols)
             q == [k \in 1..n |-> p[k]]
  <1>1. n \in Nat /\ DOMAIN cols = 1..n /\ \A i \in 1..n : cols[i] \in Columns
    BY SeqFacts, ColumnFields
  <1>2. /\ \A k \in 1..n : p[k] \in 1..n
        /\ \A k, m \in 1..n : k < m => Sooner(key, p[k], p[m])
        /\ \A k, m \in 1..n : p[k] = p[m] => k = m
        /\ \A i \in 1..n : \E k \in 1..n : p[k] = i
    <2>1. Ranks(p, key, n)
      OBVIOUS
    <2>2. key \in [1..n -> Int]
      OBVIOUS
    <2>3. n \in Nat
      BY <1>1
    <2> HIDE DEF n
    <2>4. Sorts(p, key, n)
      BY <2>1, <2>2, <2>3, RankSorts
    <2>5. QED
      BY <2>4 DEF Sorts
  <1>3. \A k \in 1..n : q[k] = p[k]
    OBVIOUS
  <1>4. new = [k \in 1..n |-> cols[p[k]]]
    OBVIOUS
  <1>5. q \in [1..n -> 1..n]
    BY <1>2
  <1> HIDE DEF n, q
  <1>6. new \in [1..n -> Columns]
    BY <1>1, <1>2, <1>4
  <1>7. new \in Seq(Columns) /\ DOMAIN new = 1..n
    BY <1>1, <1>6, SeqFacts
  <1>8. \A k \in DOMAIN new : new[k] = cols[q[k]]
    BY <1>3, <1>4, <1>7
  <1>9. Picks(new, cols, q)
    <2>1. q \in [DOMAIN new -> DOMAIN cols]
      BY <1>1, <1>5, <1>7
    <2>2. \A i, j \in DOMAIN new : q[i] = q[j] => i = j
      <3>1. \A i, j \in 1..n : q[i] = q[j] => i = j
        BY <1>2, <1>3
      <3>2. QED
        BY <1>7, <3>1
    <2>3. QED
      BY <1>7, <1>8, <2>1, <2>2 DEF Picks
  <1>10. {q[k] : k \in DOMAIN new} = DOMAIN cols
    <2>1. \A k \in DOMAIN new : q[k] \in DOMAIN cols
      BY <1>1, <1>5, <1>7
    <2>2. \A i \in DOMAIN cols : \E k \in DOMAIN new : q[k] = i
      BY <1>1, <1>2, <1>3, <1>7
    <2>3. QED
      BY <2>1, <2>2
  <1>11. Reorders(new, cols, q)
    BY <1>9, <1>10 DEF Reorders
  <1>12. \A k, m \in 1..n : k < m => Sooner(key, q[k], q[m])
    BY <1>2, <1>3
  <1>13. QED
    BY <1>7, <1>11, <1>12 DEF n

\* The names of one case are in alphabetical order.
Alphabetical(cols) ==
  \A k, m \in DOMAIN cols :
    k < m /\ Output(cols[k].name).case = Output(cols[m].name).case
      => cols[k].name.letter < cols[m].name.letter

\* The key of sort_columns_alphabetically.
RankOf(name) ==
  Output(name).letter + (IF Output(name).case = "lower" THEN 1 + Cardinality(Letters) ELSE 0)
RanksRise(cols) ==
  \A k, m \in DOMAIN cols : k < m => RankOf(cols[k].name) <= RankOf(cols[m].name)

LEMMA ByNameFacts ==
  ASSUME ConfigOK, NEW cols \in Seq(Columns), Clean(cols)
  PROVE  /\ \E p : Reorders(SortedByName(cols), cols, p) /\ Alphabetical(SortedByName(cols))
         /\ RanksRise(SortedByName(cols))
         /\ RanksRise(cols) => SortedByName(cols) = cols
  <1> DEFINE n == Len(cols)
             key == [i \in 1..n |-> RankOf(cols[i].name)]
             Before(i, j) == \/ RankOf(cols[i].name) < RankOf(cols[j].name)
                             \/ RankOf(cols[i].name) = RankOf(cols[j].name) /\ i < j
             p == [k \in DOMAIN cols |-> CHOOSE i \in DOMAIN cols :
                     Cardinality({j \in DOMAIN cols : Before(j, i)}) = k - 1]
             new == SortedByName(cols)
  <1>1. n \in Nat /\ DOMAIN cols = 1..n /\ \A i \in 1..n : cols[i].name \in Names
    BY SeqFacts, ColumnFields
  <1>2. Cardinality(Letters) \in Nat /\ Letters \subseteq Nat
    BY ColumnAssumption, FS_CardinalityType
  <1>3. \A name \in Names : Output(name) \in Names /\ Output(name).letter = name.letter
                            /\ name.letter \in Nat /\ RankOf(name) \in Nat
    <2>1. ASSUME NEW name \in Names
          PROVE  /\ Output(name) \in Names /\ Output(name).letter = name.letter
                 /\ name.letter \in Nat
      BY <1>2, CaseFacts, NameRecords
    <2>2. QED
      BY <1>2, <2>1 DEF RankOf
  <1>4. new = [k \in 1..n |-> cols[p[k]]]
    BY <1>1 DEF SortedByName, StableSort, RankOf
  <1>5. key \in [1..n -> Int]
    BY <1>1, <1>3
  <1>6. \A i, j \in 1..n : Before(j, i) <=> Sooner(key, j, i)
    BY DEF Sooner
  <1>7. \A i \in 1..n : {j \in DOMAIN cols : Before(j, i)} = Below(key, n, i)
    BY <1>1, <1>6 DEF Below
  <1> HIDE DEF Before, key, n
  <1>8. ASSUME NEW k \in 1..n, \E i \in 1..n : Cardinality(Below(key, n, i)) = k-1
        PROVE  p[k] \in 1..n /\ Cardinality(Below(key, n, p[k])) = k-1
    <2>1. PICK i \in 1..n : Cardinality(Below(key, n, i)) = k-1
      BY <1>8
    <2>2. i \in DOMAIN cols /\ Cardinality({j \in DOMAIN cols : Before(j, i)}) = k-1
      BY <1>1, <1>7, <2>1
    <2>3. p[k] \in DOMAIN cols /\ Cardinality({j \in DOMAIN cols : Before(j, p[k])}) = k-1
      BY <1>1, <2>2
    <2>4. QED
      BY <1>1, <1>7, <2>3
  <1> HIDE DEF p, new
  <1>9. Ranks(p, key, n)
    BY <1>8 DEF Ranks
  <1>10. PICK q : /\ Reorders(new, cols, q) /\ DOMAIN new = 1..n
                  /\ \A k, m \in 1..n : k < m => Sooner(key, q[k], q[m])
    BY <1>4, <1>5, <1>9, SortReorders DEF n
  <1>11. ASSUME NEW k \in DOMAIN new, NEW m \in DOMAIN new, k < m,
                Output(new[k].name).case = Output(new[m].name).case
         PROVE  new[k].name.letter < new[m].name.letter
    <2> DEFINE a == cols[q[k]].name
               b == cols[q[m]].name
    <2>1. /\ q[k] \in 1..n /\ q[m] \in 1..n /\ q[k] # q[m]
          /\ new[k].name = a /\ new[m].name = b
      <3>1. q[k] = q[m] => k = m
        BY <1>10, <1>11 DEF Reorders, Picks
      <3>2. k # m
        BY <1>1, <1>10, <1>11
      <3>3. QED
        BY <1>1, <1>10, <3>1, <3>2 DEF Reorders, Picks
    <2>2. a \in Names /\ b \in Names /\ a.letter # b.letter
      BY <1>1, <2>1 DEF Clean, Distinct
    <2>3. RankOf(a) <= RankOf(b)
      <3>1. Sooner(key, q[k], q[m]) /\ key[q[k]] = RankOf(a) /\ key[q[m]] = RankOf(b)
        BY <1>10, <1>11, <2>1 DEF key
      <3>2. RankOf(a) \in Nat /\ RankOf(b) \in Nat
        BY <1>3, <2>2
      <3> HIDE DEF a, b
      <3>3. QED
        BY <3>1, <3>2 DEF Sooner
    <2>4. /\ Output(a).letter = a.letter /\ Output(b).letter = b.letter
          /\ Output(a).case = Output(b).case /\ a.letter \in Nat /\ b.letter \in Nat
      BY <1>3, <1>11, <2>1, <2>2
    <2>5. a.letter <= b.letter
      BY <1>2, <2>3, <2>4 DEF RankOf
    <2>6. a.letter < b.letter
      BY <2>2, <2>4, <2>5
    <2>7. QED
      BY <2>1, <2>6
  <1>12. ASSUME NEW k \in DOMAIN new, NEW m \in DOMAIN new, k < m
         PROVE  RankOf(new[k].name) <= RankOf(new[m].name)
    <2>1. /\ q[k] \in 1..n /\ q[m] \in 1..n
          /\ new[k].name = cols[q[k]].name /\ new[m].name = cols[q[m]].name
      BY <1>1, <1>10, <1>12 DEF Reorders, Picks
    <2>2. /\ Sooner(key, q[k], q[m])
          /\ key[q[k]] = RankOf(new[k].name) /\ key[q[m]] = RankOf(new[m].name)
      BY <1>10, <1>12, <2>1 DEF key
    <2>3. RankOf(new[k].name) \in Nat /\ RankOf(new[m].name) \in Nat
      BY <1>1, <1>3, <2>1
    <2>4. QED
      BY <2>2, <2>3 DEF Sooner
  <1>13. ASSUME RanksRise(cols) PROVE new = cols
    <2>1. \A i, j \in 1..n : i < j => key[i] <= key[j]
      BY <1>1, <1>13 DEF RanksRise, key
    <2>2. QED
      BY <1>4, <1>5, <1>9, <2>1, RisingStays DEF n
  <1>14. QED
    BY <1>10, <1>11, <1>12, <1>13 DEF Alphabetical, RanksRise, new

\* Every column is at the place the warehouse gives it.
InWarehouseOrder(cols) ==
  \A k, m \in DOMAIN cols :
    k < m => CommentOf(cols[k].name.letter) < CommentOf(cols[m].name.letter)

\* The key of sort_columns_as_in_database.
PlaceOf(incoming, name) ==
  IF \E i \in DOMAIN incoming : incoming[i].name = Normal(name)
  THEN CHOOSE i \in DOMAIN incoming : incoming[i].name = Normal(name)
  ELSE Len(incoming) + 1
PlacesRise(cols, incoming) ==
  \A k, m \in DOMAIN cols :
    k < m => PlaceOf(incoming, cols[k].name) <= PlaceOf(incoming, cols[m].name)

LEMMA AsWarehouseFacts ==
  ASSUME ConfigOK, WarehouseOK, NEW cols \in Seq(Columns), Clean(cols),
         NEW incoming, Reports(incoming)
  PROVE  /\ \E p : 
                /\ Reorders(SortedAsWarehouse(cols, incoming), cols, p)
                /\ (\A i \in DOMAIN cols : Normal(cols[i].name) \in NamesOf(incoming)) =>
                      InWarehouseOrder(SortedAsWarehouse(cols, incoming))
         /\ PlacesRise(SortedAsWarehouse(cols, incoming), incoming)
         /\ PlacesRise(cols, incoming) => SortedAsWarehouse(cols, incoming) = cols
  <1> DEFINE n == Len(cols)
             key == [i \in 1..n |-> PlaceOf(incoming, cols[i].name)]
             Before(i, j) == \/ PlaceOf(incoming, cols[i].name) < PlaceOf(incoming, cols[j].name)
                             \/ PlaceOf(incoming, cols[i].name) = PlaceOf(incoming, cols[j].name) /\ i < j
             p == [k \in DOMAIN cols |-> CHOOSE i \in DOMAIN cols :
                     Cardinality({j \in DOMAIN cols : Before(j, i)}) = k - 1]
             new == SortedAsWarehouse(cols, incoming)
  <1>1. n \in Nat /\ DOMAIN cols = 1..n /\ \A i \in 1..n : cols[i].name \in Names
    BY SeqFacts, ColumnFields
  <1>2. /\ Len(warehouse) \in Nat /\ Len(incoming) = Len(warehouse)
        /\ DOMAIN incoming = 1..Len(warehouse) /\ DOMAIN warehouse = 1..Len(warehouse)
        /\ \A k \in DOMAIN warehouse :
             incoming[k].name.letter = warehouse[k].letter /\ Fits(incoming[k].name)
    BY WarehouseFacts DEF Reports
  <1>3. ASSUME NEW name \in Names
        PROVE  /\ PlaceOf(incoming, name) \in Nat
               /\ Normal(name) \in NamesOf(incoming) => PlaceOf(incoming, name) = CommentOf(name.letter)
    <2>1. CASE \E i \in DOMAIN incoming : incoming[i].name = Normal(name)
      <3>1. /\ PlaceOf(incoming, name) \in DOMAIN incoming
            /\ incoming[PlaceOf(incoming, name)].name = Normal(name)
        BY <2>1 DEF PlaceOf
      <3>2. PlaceOf(incoming, name) \in DOMAIN warehouse /\ PlaceOf(incoming, name) \in Nat
        BY <1>2, <3>1
      <3>3. warehouse[PlaceOf(incoming, name)].letter = name.letter
        <4>1. Normal(name).letter = name.letter
          BY CaseFacts
        <4>2. incoming[PlaceOf(incoming, name)].name.letter = warehouse[PlaceOf(incoming, name)].letter
          BY <1>2, <3>2
        <4>3. QED
          BY <3>1, <4>1, <4>2
      <3>4. CommentOf(name.letter) = PlaceOf(incoming, name)
        BY <3>2, <3>3, CommentIs
      <3>5. QED
        BY <3>2, <3>4
    <2>2. CASE ~\E i \in DOMAIN incoming : incoming[i].name = Normal(name)
      <3>1. PlaceOf(incoming, name) = Len(incoming) + 1
        BY <2>2 DEF PlaceOf
      <3>2. Normal(name) \notin NamesOf(incoming)
        BY <2>2 DEF NamesOf
      <3>3. QED
        BY <1>2, <3>1, <3>2
    <2>3. QED
      BY <2>1, <2>2
  <1>4. new = [k \in 1..n |-> cols[p[k]]]
    BY <1>1 DEF SortedAsWarehouse, StableSort, PlaceOf
  <1>5. key \in [1..n -> Int]
    BY <1>1, <1>3
  <1>6. \A i, j \in 1..n : Before(j, i) <=> Sooner(key, j, i)
    BY DEF Sooner
  <1>7. \A i \in 1..n : {j \in DOMAIN cols : Before(j, i)} = Below(key, n, i)
    BY <1>1, <1>6 DEF Below
  <1> HIDE DEF Before, key, n
  <1>8. ASSUME NEW k \in 1..n, \E i \in 1..n : Cardinality(Below(key, n, i)) = k-1
        PROVE  p[k] \in 1..n /\ Cardinality(Below(key, n, p[k])) = k-1
    <2>1. PICK i \in 1..n : Cardinality(Below(key, n, i)) = k-1
      BY <1>8
    <2>2. i \in DOMAIN cols /\ Cardinality({j \in DOMAIN cols : Before(j, i)}) = k-1
      BY <1>1, <1>7, <2>1
    <2>3. p[k] \in DOMAIN cols /\ Cardinality({j \in DOMAIN cols : Before(j, p[k])}) = k-1
      BY <1>1, <2>2
    <2>4. QED
      BY <1>1, <1>7, <2>3
  <1> HIDE DEF p, new
  <1>9. Ranks(p, key, n)
    BY <1>8 DEF Ranks
  <1>10. PICK q : /\ Reorders(new, cols, q) /\ DOMAIN new = 1..n
                  /\ \A k, m \in 1..n : k < m => Sooner(key, q[k], q[m])
    BY <1>4, <1>5, <1>9, SortReorders DEF n
  <1>11. ASSUME \A i \in DOMAIN cols : Normal(cols[i].name) \in NamesOf(incoming),
                NEW k \in DOMAIN new, NEW m \in DOMAIN new, k < m
         PROVE  CommentOf(new[k].name.letter) < CommentOf(new[m].name.letter)
    <2> DEFINE a == cols[q[k]].name
               b == cols[q[m]].name
    <2>1. /\ q[k] \in 1..n /\ q[m] \in 1..n /\ q[k] # q[m]
          /\ new[k].name = a /\ new[m].name = b
      <3>1. q[k] = q[m] => k = m
        BY <1>10, <1>11 DEF Reorders, Picks
      <3>2. k # m
        BY <1>1, <1>10, <1>11
      <3>3. QED
        BY <1>1, <1>10, <3>1, <3>2 DEF Reorders, Picks
    <2>2. a \in Names /\ b \in Names /\ a.letter # b.letter
      BY <1>1, <2>1 DEF Clean, Distinct
    <2>3. /\ PlaceOf(incoming, a) = CommentOf(a.letter) /\ PlaceOf(incoming, b) = CommentOf(b.letter)
          /\ PlaceOf(incoming, a) \in Nat /\ PlaceOf(incoming, b) \in Nat
      <3>1. Normal(a) \in NamesOf(incoming) /\ Normal(b) \in NamesOf(incoming)
        BY <1>1, <1>11, <2>1
      <3>2. QED
        BY <1>3, <2>2, <3>1
    <2>4. PlaceOf(incoming, a) <= PlaceOf(incoming, b)
      <3>1. Sooner(key, q[k], q[m]) /\ key[q[k]] = PlaceOf(incoming, a) /\ key[q[m]] = PlaceOf(incoming, b)
        BY <1>10, <1>11, <2>1 DEF key
      <3> HIDE DEF a, b
      <3>2. QED
        BY <2>3, <3>1 DEF Sooner
    <2>5. PlaceOf(incoming, a) # PlaceOf(incoming, b)
      <3>1. \A name \in Names : Normal(name) \in NamesOf(incoming) =>
              warehouse[CommentOf(name.letter)].letter = name.letter
        <4> SUFFICES ASSUME NEW name \in Names, Normal(name) \in NamesOf(incoming)
                     PROVE  warehouse[CommentOf(name.letter)].letter = name.letter
          OBVIOUS
        <4>1. PICK i \in DOMAIN incoming : incoming[i].name = Normal(name)
          BY DEF NamesOf
        <4>2. warehouse[i].letter = name.letter /\ i \in DOMAIN warehouse
          BY <1>2, <4>1, CaseFacts
        <4>3. QED
          BY <4>2, CommentIs
      <3>2. Normal(a) \in NamesOf(incoming) /\ Normal(b) \in NamesOf(incoming)
        BY <1>1, <1>11, <2>1
      <3>3. QED
        BY <2>2, <2>3, <3>1, <3>2
    <2> HIDE DEF a, b
    <2>6. QED
      BY <2>1, <2>3, <2>4, <2>5
  <1>12. ASSUME NEW k \in DOMAIN new, NEW m \in DOMAIN new, k < m
         PROVE  PlaceOf(incoming, new[k].name) <= PlaceOf(incoming, new[m].name)
    <2>1. /\ q[k] \in 1..n /\ q[m] \in 1..n
          /\ new[k].name = cols[q[k]].name /\ new[m].name = cols[q[m]].name
      BY <1>1, <1>10, <1>12 DEF Reorders, Picks
    <2>2. /\ Sooner(key, q[k], q[m])
          /\ key[q[k]] = PlaceOf(incoming, new[k].name)
          /\ key[q[m]] = PlaceOf(incoming, new[m].name)
      BY <1>10, <1>12, <2>1 DEF key
    <2>3. PlaceOf(incoming, new[k].name) \in Nat /\ PlaceOf(incoming, new[m].name) \in Nat
      BY <1>1, <1>3, <2>1
    <2>4. QED
      BY <2>2, <2>3 DEF Sooner
  <1>13. ASSUME PlacesRise(cols, incoming) PROVE new = cols
    <2>1. \A i, j \in 1..n : i < j => key[i] <= key[j]
      BY <1>1, <1>13 DEF PlacesRise, key
    <2>2. QED
      BY <1>4, <1>5, <1>9, <2>1, RisingStays DEF n
  <1>14. QED
    BY <1>10, <1>11, <1>12, <1>13 DEF InWarehouseOrder, PlacesRise, new

-----------------------------------------------------------------------------
(* synchronize_data_types and _sync_doc_section                            *)

LEMMA ReordersFacts ==
  ASSUME NEW cols \in Seq(Columns), Clean(cols), NEW new, NEW p, Reorders(new, cols, p)
  PROVE  /\ new \in Seq(Columns) /\ Clean(new) /\ LettersOf(new) = LettersOf(cols)
         /\ NamesOf(new) \subseteq NamesOf(cols)
         /\ \A i \in DOMAIN cols : \E k \in DOMAIN new : new[k] = cols[i]
  <1>1. Picks(new, cols, p) /\ {p[k] : k \in DOMAIN new} = DOMAIN cols
    BY DEF Reorders
  <1>2. \A k \in DOMAIN new : p[k] \in DOMAIN cols /\ new[k] = cols[p[k]]
    BY <1>1 DEF Picks
  <1>3. \A i \in DOMAIN cols : \E k \in DOMAIN new : new[k] = cols[i]
    BY <1>1, <1>2
  <1>4. LettersOf(new) = LettersOf(cols)
    <2>1. LettersOf(new) \subseteq LettersOf(cols)
      BY <1>2 DEF LettersOf
    <2>2. LettersOf(cols) \subseteq LettersOf(new)
      BY <1>3 DEF LettersOf
    <2>3. QED
      BY <2>1, <2>2
  <1>5. QED
    BY <1>1, <1>3, <1>4, PicksFacts

LEMMA TypedFacts ==
  ASSUME NEW cols \in Seq(Columns), Clean(cols), NEW incoming, NEW new, new = Typed(cols, incoming)
  PROVE  /\ new \in Seq(Columns) /\ Clean(new) /\ DOMAIN new = DOMAIN cols
         /\ \A i \in DOMAIN cols : new[i].name = cols[i].name /\ new[i].text = cols[i].text
         /\ (\A k \in DOMAIN incoming : incoming[k].type = NoType) => new = cols
         /\ (\A i \in DOMAIN cols : cols[i].type = WarehouseType) => new = cols
  <1> DEFINE n == Len(cols)
  <1>1. n \in Nat /\ DOMAIN cols = 1..n /\ \A i \in 1..n : cols[i] \in Columns
    BY SeqFacts, ColumnFields
  <1>2. /\ DOMAIN new = 1..n /\ new = [i \in 1..n |-> new[i]]
        /\ \A i \in 1..n : new[i] = cols[i] \/ new[i] = [cols[i] EXCEPT !.type = WarehouseType]
    BY <1>1 DEF Typed
  <1>3. ASSUME NEW i \in 1..n
        PROVE  new[i] \in Columns /\ new[i].name = cols[i].name /\ new[i].text = cols[i].text
    <2>1. CASE new[i] = cols[i]
      BY <1>1, <2>1
    <2>2. CASE new[i] = [cols[i] EXCEPT !.type = WarehouseType]
      BY <1>1, <2>2 DEF Columns, Types
    <2>3. QED
      BY <1>2, <2>1, <2>2
  <1>4. ASSUME \A k \in DOMAIN incoming : incoming[k].type = NoType
        PROVE  \A i \in 1..n : new[i] = cols[i]
    BY <1>1, <1>4 DEF Typed, ToSet
  <1>5. ASSUME \A i \in DOMAIN cols : cols[i].type = WarehouseType
        PROVE  \A i \in 1..n : new[i] = cols[i]
    <2> SUFFICES ASSUME NEW i \in 1..n PROVE new[i] = cols[i]
      OBVIOUS
    <2>1. cols[i] \in Columns /\ cols[i].type = WarehouseType
      BY <1>1, <1>5
    <2>2. [cols[i] EXCEPT !.type = WarehouseType] = cols[i]
      BY <2>1 DEF Columns
    <2>3. QED
      BY <1>2, <2>2
  <1> HIDE DEF n
  <1>6. new \in [1..n -> Columns]
    BY <1>2, <1>3
  <1>7. new \in Seq(Columns)
    BY <1>1, <1>6, SeqFacts
  <1>8. Clean(new)
    BY <1>1, <1>2, <1>3 DEF Clean, Distinct
  <1>9. (\A i \in 1..n : new[i] = cols[i]) => new = cols
    BY <1>1, <1>2, <1>7, SameSeq
  <1>10. QED
    BY <1>1, <1>2, <1>3, <1>4, <1>5, <1>7, <1>8, <1>9

\* A column of the warehouse takes its type from the database.
LEMMA TypesTaken ==
  ASSUME ConfigOK, WarehouseOK, NEW cols \in Seq(Columns), Clean(cols),
         LettersOf(cols) \subseteq InWarehouse, NEW incoming, Reports(incoming),
         \A k \in DOMAIN incoming : incoming[k].type # NoType
  PROVE  \A i \in DOMAIN cols : Typed(cols, incoming)[i].type = WarehouseType
  <1> SUFFICES ASSUME NEW i \in DOMAIN cols
               PROVE  Typed(cols, incoming)[i].type = WarehouseType
    OBVIOUS
  <1>1. PICK k \in DOMAIN warehouse : warehouse[k].letter = cols[i].name.letter
    BY DEF LettersOf, InWarehouse
  <1>2. /\ k \in DOMAIN incoming /\ Fits(incoming[k].name)
        /\ incoming[k].name.letter = cols[i].name.letter
    BY <1>1, WarehouseFacts DEF Reports
  <1> DEFINE a == incoming[k].name
             b == cols[i].name
  <1>3. a \in Names /\ b \in Names /\ a.letter = b.letter /\ Spelled(b)
    BY <1>2 DEF Clean, Spelled, Fits
  <1>4. a = Normal(b) \/ (CaseInsensitive /\ Cased(a, "lower") = Cased(b, "lower"))
    <2>1. CASE config.output = "asis"
      <3>1. Normal(b) \in Names /\ Normal(b).letter = a.letter
        BY <1>3, CaseFacts
      <3>2. Normal(b).case = a.case
        BY <1>2, <1>3, <2>1, CaseFacts DEF Fits, Spelled
      <3>3. QED
        BY <1>3, <3>1, <3>2, NameRecords
    <2>2. CASE config.output # "asis"
      <3>1. Cased(a, "lower") = Cased(b, "lower")
        BY <1>3, NameRecords, "lower" \in Case DEF Case
      <3>2. QED
        BY <2>2, <3>1 DEF CaseInsensitive
    <2>3. QED
      BY <2>1, <2>2
  <1>5. incoming[k] \in ToSet(incoming) /\ incoming[k].type # NoType
    BY <1>2 DEF ToSet
  <1>6. cols[i] \in Columns
    BY ColumnFields
  <1>7. Typed(cols, incoming)[i] = [cols[i] EXCEPT !.type = WarehouseType]
    BY <1>4, <1>5 DEF Typed
  <1>8. QED
    BY <1>6, <1>7 DEF Columns

LEMMA EntryFields ==
  \A section \in Seq(DocEntries) : \A i \in DOMAIN section :
     /\ section[i] \in DocEntries /\ section[i].name \in Names
     /\ section[i].text \in Descriptions /\ section[i].type \in Types
     /\ section[i].extra \in BOOLEAN
  <1>1. ASSUME NEW section \in Seq(DocEntries), NEW i \in DOMAIN section
        PROVE  section[i] \in DocEntries
    <2>1. section \in [1..Len(section) -> DocEntries] /\ DOMAIN section = 1..Len(section)
      BY SeqFacts
    <2>2. QED
      BY <2>1
  <1>2. QED
    BY <1>1 DEF DocEntries

\* The entry that _sync_doc_section writes for a column.
EntryFor(col, section) ==
  LET same == {i \in DOMAIN section : Normal(section[i].name) = Normal(col.name)}
      old == section[CHOOSE i \in same : \A j \in same : j <= i]
  IN  [name |-> Output(col.name), text |-> col.text,
       type |-> IF col.type = NoType /\ same # {} THEN old.type ELSE col.type,
       extra |-> same # {} /\ old.extra]

LEMMA EntryFacts ==
  ASSUME ConfigOK, NEW col \in Columns, NEW section \in Seq(DocEntries), Distinct(section)
  PROVE  /\ EntryFor(col, section) \in DocEntries
         /\ EntryFor(col, section).name = Output(col.name)
         /\ EntryFor(col, section).text = col.text
         /\ col.type # NoType => EntryFor(col, section).type = col.type
         /\ \A j \in DOMAIN section :
              Plain(section[j]) = col /\ Output(col.name) = col.name
                => EntryFor(col, section) = section[j]
         /\ \A j \in DOMAIN section : section[j].name = col.name /\ section[j].extra =>
              EntryFor(col, section).extra
  <1> DEFINE same == {i \in DOMAIN section : Normal(section[i].name) = Normal(col.name)}
             last == CHOOSE i \in same : \A j \in same : j <= i
             e == EntryFor(col, section)
  <1>1. DOMAIN section = 1..Len(section) /\ Len(section) \in Nat
    BY SeqFacts
  <1>2. \A i, j \in same : i = j
    <2> SUFFICES ASSUME NEW i \in same, NEW j \in same PROVE i = j
      OBVIOUS
    <2>1. Normal(section[i].name) = Normal(section[j].name)
      OBVIOUS
    <2>2. section[i].name \in Names /\ section[j].name \in Names
      BY EntryFields
    <2>3. section[i].name.letter = section[j].name.letter
      BY <2>1, <2>2, NameFacts
    <2>4. QED
      BY <2>3 DEF Distinct
  <1>3. ASSUME NEW i \in same PROVE last = i
    <2>1. i \in Nat
      BY <1>1
    <2>2. \A j \in same : j <= i
      BY <1>2, <2>1
    <2>3. last \in same
      BY <2>2
    <2> HIDE DEF last
    <2>4. QED
      BY <1>2, <2>3
  <1>4. same # {} => /\ section[last].type \in Types /\ section[last].extra \in BOOLEAN
    <2> SUFFICES ASSUME same # {} PROVE section[last].type \in Types /\ section[last].extra \in BOOLEAN
      OBVIOUS
    <2>1. PICK i \in same : TRUE
      OBVIOUS
    <2>2. last = i
      BY <1>3
    <2> HIDE DEF last
    <2>3. QED
      BY <2>2, EntryFields
  <1>5. e = [name |-> Output(col.name), text |-> col.text,
             type |-> IF col.type = NoType /\ same # {} THEN section[last].type ELSE col.type,
             extra |-> same # {} /\ section[last].extra]
    BY DEF EntryFor
  <1>6. ASSUME NEW j \in DOMAIN section, section[j].name = col.name, section[j].extra
        PROVE  same # {} /\ section[last].extra
    <2>1. j \in same
      BY <1>6
    <2>2. last = j
      BY <1>3, <2>1
    <2> HIDE DEF last
    <2>3. QED
      BY <1>6, <2>1, <2>2
  <1> HIDE DEF last, same, e
  <1>7. col.name \in Names /\ col.text \in Descriptions /\ col.type \in Types
    BY DEF Columns
  <1>8. Output(col.name) \in Names
    BY <1>7, CaseFacts
  <1>9. (same # {} /\ section[last].extra) \in BOOLEAN
    OBVIOUS
  <1>10. (IF col.type = NoType /\ same # {} THEN section[last].type ELSE col.type) \in Types
    BY <1>4, <1>7
  <1>11. e \in DocEntries
    BY <1>5, <1>7, <1>8, <1>9, <1>10 DEF DocEntries
  <1>12. e.name = Output(col.name) /\ e.text = col.text /\ e.extra = (same # {} /\ section[last].extra)
    BY <1>5
  <1>13. ASSUME NEW j \in DOMAIN section, Plain(section[j]) = col, Output(col.name) = col.name
         PROVE  e = section[j]
    <2>1. section[j] \in DocEntries
      BY EntryFields
    <2>2. section[j].name = col.name /\ section[j].text = col.text /\ section[j].type = col.type
      BY <1>13 DEF Plain
    <2>3. j \in same
      BY <2>2 DEF same
    <2>4. section[last] = section[j] /\ same # {}
      BY <1>3, <2>3
    <2>5. section[j].extra \in BOOLEAN
      BY EntryFields
    <2>6. e = [name |-> section[j].name, text |-> section[j].text, type |-> section[j].type,
               extra |-> section[j].extra]
      BY <1>5, <1>13, <2>2, <2>4, <2>5
    <2>7. QED
      BY <2>1, <2>6 DEF DocEntries
  <1>14. col.type # NoType => e.type = col.type
    BY <1>5
  <1>15. QED
    BY <1>6, <1>11, <1>12, <1>13, <1>14 DEF e

LEMMA SyncedFacts ==
  ASSUME ConfigOK, NEW cols \in Seq(Columns), Clean(cols),
         NEW section \in Seq(DocEntries), Distinct(section), NEW new, new = Synced(cols, section)
  PROVE  /\ new \in Seq(DocEntries) /\ Clean(new) /\ DOMAIN new = DOMAIN cols
         /\ \A i \in DOMAIN cols :
              /\ new[i].name = Output(cols[i].name) /\ new[i].text = cols[i].text
              /\ cols[i].type # NoType => new[i].type = cols[i].type
              /\ \A j \in DOMAIN section : section[j].name = cols[i].name /\ section[j].extra =>
                   new[i].extra
  <1> DEFINE n == Len(cols)
  <1>1. n \in Nat /\ DOMAIN cols = 1..n /\ \A i \in 1..n : cols[i] \in Columns
    BY SeqFacts, ColumnFields
  <1>2. new = [i \in 1..n |-> EntryFor(cols[i], section)]
    BY <1>1 DEF Synced, EntryFor
  <1> HIDE DEF n
  <1>3. \A i \in 1..n :
          /\ new[i] = EntryFor(cols[i], section) /\ new[i] \in DocEntries
          /\ new[i].name = Output(cols[i].name) /\ new[i].text = cols[i].text
          /\ cols[i].type # NoType => new[i].type = cols[i].type
          /\ \A j \in DOMAIN section : section[j].name = cols[i].name /\ section[j].extra =>
               new[i].extra
    BY <1>1, <1>2, EntryFacts
  <1>4. new \in [1..n -> DocEntries] /\ DOMAIN new = 1..n
    BY <1>2, <1>3
  <1>5. new \in Seq(DocEntries)
    BY <1>1, <1>4, SeqFacts
  <1>6. ASSUME NEW i \in 1..n
        PROVE  Spelled(new[i].name) /\ new[i].name.letter = cols[i].name.letter
    <2>1. Spelled(cols[i].name) /\ cols[i].name \in Names
      BY <1>1 DEF Clean, Spelled
    <2>2. new[i].name = Output(cols[i].name)
      BY <1>3
    <2>3. Output(cols[i].name).letter = cols[i].name.letter
      BY <2>1, CaseFacts
    <2>4. QED
      BY <2>1, <2>2, <2>3, NameFacts
  <1>7. Clean(new)
    BY <1>1, <1>4, <1>6 DEF Clean, Distinct
  <1>8. QED
    BY <1>1, <1>3, <1>4, <1>5, <1>7

\* A section that dbt has parsed is written back as it is, if it is spelled as
\* the output is.
LEMMA SyncedBack ==
  ASSUME ConfigOK, NEW section \in Seq(DocEntries), Clean(section),
         \A i \in DOMAIN section : Output(section[i].name) = section[i].name
  PROVE  Synced(Parsed(section), section) = section
  <1> DEFINE cols == [i \in DOMAIN section |-> Plain(section[i])]
             new == Synced(Parsed(section), section)
  <1>1. Parsed(section) = cols
    BY ParsedIs DEF Clean
  <1>2. \A i \in DOMAIN section : section[i] \in DocEntries /\ Plain(section[i]) \in Columns
    BY EntryFields, PlainType
  <1>3. new = [i \in DOMAIN section |-> EntryFor(Plain(section[i]), section)]
    BY <1>1 DEF Synced, EntryFor
  <1>4. ASSUME NEW i \in DOMAIN section PROVE EntryFor(Plain(section[i]), section) = section[i]
    <2>1. Plain(section[i]).name = section[i].name
      BY DEF Plain
    <2>2. QED
      BY <1>2, <2>1, EntryFacts DEF Clean
  <1>5. section = [i \in DOMAIN section |-> section[i]]
    BY SeqFacts
  <1>6. QED
    BY <1>3, <1>4, <1>5

-----------------------------------------------------------------------------
(* The invariants                                                          *)

Stages ==
  {<<"idle">>, <<>>} \cup
  (IF config.command = "refactor"
   THEN {<<"inject", "remove", "sort", "types">>, <<"remove", "sort", "types">>,
         <<"sort", "types">>, <<"types">>}
   ELSE {<<"inject", "sort">>, <<"sort">>})

Reaches == {"unasked", "failed", "always", "late"}

TypeOK ==
  /\ config \in Configs /\ WarehouseOK
  /\ yaml \in Seq(DocEntries) /\ doc \in Seq(DocEntries) /\ before \in Seq(DocEntries)
  /\ columns \in Seq(Columns)
  /\ pc \in Stages /\ reached \in Reaches /\ cll \in BOOLEAN /\ mutated \in BOOLEAN
  /\ steady \in BOOLEAN \X Reaches /\ runs \in 0..MaxRuns /\ edits \in 0..MaxEdits

\* Files and manifest list a column once; a source has no lineage.
ListsOK ==
  /\ Clean(yaml) /\ Clean(doc) /\ Clean(before) /\ Clean(columns)
  /\ config.kind = "source" => ~cll

InRun == pc # <<"idle">>

\* A described column that the node still has is in the manifest and in the
\* buffered section under the name it had, described the same.
ColumnsCarry ==
  \A i \in DOMAIN before : before[i].name.letter \in InWarehouse =>
    \E j \in DOMAIN columns :
      /\ columns[j].name = before[i].name
      /\ TextKept(columns[j].text, before[i].text, before[i].name.letter)
DocCarries ==
  \A i \in DOMAIN before : before[i].name.letter \in InWarehouse =>
    \E j \in DOMAIN doc :
      /\ doc[j].name = before[i].name /\ (before[i].extra => doc[j].extra)
      /\ TextKept(doc[j].text, before[i].text, before[i].name.letter)

CommitsAtOnce == config.mode = "atomic" /\ ~config.dryRun

RunInv ==
  InRun =>
    /\ ColumnsCarry /\ DocCarries
    /\ yaml = IF CommitsAtOnce THEN doc ELSE before
    /\ config.mode # "atomic" => doc = before

KeepInv == TypeOK /\ ListsOK /\ RunInv /\ DocumentationSurvives

Answered == cll \/ reached = "always"

Reported == NamesOf(IF cll THEN FromCll ELSE FromDatabase)

\* The configured order.
Ordered(cols) ==
  IF config.sortBy = "database" THEN Placed => InWarehouseOrder(cols) ELSE Alphabetical(cols)

\* What the operations of a refactor have achieved so far, each of them answered.
OrderInv ==
  InRun /\ config.command = "refactor" =>
    /\ NamesOf(columns) \subseteq NamesOf(before) \cup {Output(r) : r \in Reported}
    /\ ~cll /\ reached = "unasked" => pc = Pipeline
    /\ Answered /\ pc # Pipeline => InWarehouse \subseteq LettersOf(columns)
    /\ Answered /\ pc \in {<<"sort", "types">>, <<"types">>, <<>>} =>
         LettersOf(columns) = InWarehouse
    /\ Answered /\ pc \in {<<"types">>, <<>>} => Ordered(columns)
    /\ CommitsAtOnce => /\ DOMAIN yaml = DOMAIN columns
                        /\ \A i \in DOMAIN yaml : yaml[i].name = columns[i].name

AgreeInv == KeepInv /\ OrderInv /\ FileAgrees

-----------------------------------------------------------------------------
(* The steps of a run                                                      *)

LEMMA TailFacts ==
  /\ Tail(<<"inject", "remove", "sort", "types">>) = <<"remove", "sort", "types">>
  /\ Tail(<<"remove", "sort", "types">>) = <<"sort", "types">>
  /\ Tail(<<"sort", "types">>) = <<"types">> /\ Tail(<<"types">>) = <<>>
  /\ Tail(<<"inject", "sort">>) = <<"sort">> /\ Tail(<<"sort">>) = <<>>
  OBVIOUS

LEMMA HeadFacts ==
  ASSUME pc \in Stages, NEW op \in {"inject", "remove", "sort", "types"}, Running(op)
  PROVE  /\ pc # <<"idle">> /\ pc # <<>> /\ Tail(pc) \in Stages /\ Tail(pc) # <<"idle">>
         /\ pc = <<"inject", "remove", "sort", "types">> => op = "inject"
         /\ pc = <<"remove", "sort", "types">> => op = "remove"
         /\ pc = <<"sort", "types">> => op = "sort"
         /\ pc = <<"types">> => op = "types"
  <1>1. pc # <<>> /\ Head(pc) = op
    BY DEF Running
  <1>2. pc # <<"idle">>
    BY <1>1
  <1>3. pc = <<"inject", "remove", "sort", "types">> => op = "inject"
    BY <1>1
  <1>4. pc = <<"remove", "sort", "types">> => op = "remove"
    BY <1>1
  <1>5. pc = <<"sort", "types">> => op = "sort"
    BY <1>1
  <1>6. pc = <<"types">> => op = "types"
    BY <1>1
  <1>7. CASE config.command = "refactor"
    <2>1. pc \in {<<"inject", "remove", "sort", "types">>, <<"remove", "sort", "types">>,
                  <<"sort", "types">>, <<"types">>}
      BY <1>1, <1>2, <1>7 DEF Stages
    <2>2. Tail(pc) \in {<<"remove", "sort", "types">>, <<"sort", "types">>, <<"types">>, <<>>}
      BY <2>1, TailFacts
    <2>3. Tail(pc) \in Stages
      BY <1>7, <2>2 DEF Stages
    <2>4. Tail(pc) # <<"idle">>
      BY <2>2
    <2>5. QED
      BY <1>1, <1>2, <1>3, <1>4, <1>5, <1>6, <2>3, <2>4
  <1>8. CASE config.command # "refactor"
    <2>1. pc \in {<<"inject", "sort">>, <<"sort">>}
      BY <1>1, <1>2, <1>8 DEF Stages
    <2>2. Tail(pc) \in {<<"sort">>, <<>>}
      BY <2>1, TailFacts
    <2>3. Tail(pc) \in Stages
      BY <1>8, <2>2 DEF Stages
    <2>4. Tail(pc) # <<"idle">>
      BY <2>2
    <2>5. QED
      BY <1>1, <1>2, <1>3, <1>4, <1>5, <1>6, <2>3, <2>4
  <1>9. QED
    BY <1>7, <1>8

LEMMA ConfigFacts ==
  ASSUME config \in Configs
  PROVE  /\ ConfigOK
         /\ CasesAreSettled =>
              /\ ~(config.kind = "model" /\ config.adapter = "snowflake" /\ config.output = "asis")
              /\ config.mode = "atomic" => config.output = "asis"
  BY ColumnAssumption DEF ConfigOK, CasesAreSettled, CaseIsSettled

LEMMA RowFields ==
  ASSUME WarehouseOK
  PROVE  \A k \in DOMAIN warehouse : /\ warehouse[k].letter \in Letters
                                     /\ warehouse[k].comment \in Descriptions
  <1>1. warehouse \in Seq(Rows)
    BY DEF WarehouseOK
  <1>2. warehouse \in [1..Len(warehouse) -> Rows] /\ DOMAIN warehouse = 1..Len(warehouse)
    BY <1>1, SeqFacts
  <1>3. \A k \in DOMAIN warehouse : warehouse[k] \in Rows
    BY <1>2
  <1>4. QED
    BY <1>3 DEF Rows

LEMMA CllReports ==
  ASSUME CasesAreSettled, TypeOK, ListsOK, cll
  PROVE  Reports(FromCll)
  <1> DEFINE n == Len(warehouse)
  <1>1. n \in Nat /\ DOMAIN warehouse = 1..n /\ WarehouseOK
    BY WarehouseFacts DEF TypeOK
  <1>2. \A k \in 1..n : warehouse[k].letter \in Letters
    BY <1>1, RowFields
  <1>3. "lower" \in Case
    BY DEF Case
  <1>4. \A k \in 1..n :
          /\ FromCll[k] = [name |-> Name(warehouse[k].letter, "lower"), text |-> NoText,
                           type |-> NoType]
    BY <1>1 DEF FromCll, Incoming
  <1>5. \A k \in 1..n :
          LET a == Name(warehouse[k].letter, "lower")
          IN  a \in Names /\ a.letter = warehouse[k].letter /\ a.case = "lower"
    BY <1>2, <1>3, NameRecords
  <1>6. ASSUME NEW k \in 1..n
        PROVE  /\ FromCll[k] \in Columns /\ FromCll[k].text = NoText
               /\ FromCll[k].name = Name(warehouse[k].letter, "lower")
    <2> DEFINE a == Name(warehouse[k].letter, "lower")
    <2>1. FromCll[k] = [name |-> a, text |-> NoText, type |-> NoType] /\ a \in Names
      BY <1>4, <1>5
    <2> HIDE DEF a
    <2>2. FromCll[k] \in Columns /\ FromCll[k].text = NoText /\ FromCll[k].name = a
      BY <2>1 DEF Columns, Descriptions, Types
    <2>3. QED
      BY <2>2 DEF a
  <1>7. FromCll \in [1..n -> Columns]
    <2>1. DOMAIN FromCll = 1..n /\ FromCll = [k \in 1..n |-> FromCll[k]]
      BY <1>1 DEF FromCll
    <2>2. QED
      BY <1>6, <2>1
  <1> HIDE DEF n
  <1>8. FromCll \in Seq(Columns) /\ Len(FromCll) = n
    BY <1>1, <1>7, SeqFacts
  <1>9. config.output = "asis" => config.adapter # "snowflake"
    BY ConfigFacts DEF TypeOK, ListsOK, ConfigOK
  <1>10. \A k \in 1..n :
           /\ FromCll[k].name.letter = warehouse[k].letter /\ Fits(FromCll[k].name)
           /\ FromCll[k].text = NoText
    <2> SUFFICES ASSUME NEW k \in 1..n
                 PROVE  /\ FromCll[k].name.letter = warehouse[k].letter
                        /\ Fits(FromCll[k].name) /\ FromCll[k].text = NoText
      OBVIOUS
    <2>1. FromCll[k].name = Name(warehouse[k].letter, "lower")
      BY <1>6
    <2>2. /\ FromCll[k].name \in Names /\ FromCll[k].name.case = "lower"
          /\ FromCll[k].name.letter = warehouse[k].letter
      BY <1>5, <2>1
    <2>3. QED
      BY <1>6, <1>9, <2>2 DEF Fits
  <1>11. QED
    BY <1>1, <1>8, <1>10 DEF Reports, n

LEMMA DatabaseReports ==
  ASSUME TypeOK
  PROVE  Reports(FromDatabase)
  <1> DEFINE n == Len(warehouse)
  <1>1. n \in Nat /\ DOMAIN warehouse = 1..n /\ WarehouseOK /\ ConfigOK
    BY WarehouseFacts, ConfigFacts DEF TypeOK
  <1>2. \A k \in 1..n : warehouse[k].letter \in Letters /\ warehouse[k].comment \in Descriptions
    BY <1>1, RowFields
  <1>3. "lower" \in Case
    BY DEF Case
  <1>4. \A k \in 1..n :
          FromDatabase[k] = [name |-> Normal(Name(warehouse[k].letter, "lower")),
                 text |-> warehouse[k].comment,
                 type |-> WarehouseType]
    BY <1>1 DEF FromDatabase, Incoming
  <1>5. ASSUME NEW k \in 1..n
        PROVE  LET a == Normal(Name(warehouse[k].letter, "lower"))
               IN  /\ a \in Names /\ a.letter = warehouse[k].letter
                   /\ a.case = IF config.adapter = "snowflake" THEN "upper" ELSE "lower"
    <2> DEFINE b == Name(warehouse[k].letter, "lower")
    <2>1. b \in Names /\ b.letter = warehouse[k].letter /\ b.case = "lower"
      BY <1>2, <1>3, NameRecords
    <2> HIDE DEF b
    <2>2. /\ Normal(b) \in Names /\ Normal(b).letter = b.letter
          /\ config.adapter = "snowflake" => Normal(b).case = "upper"
          /\ config.adapter # "snowflake" => Normal(b) = b
      BY <1>1, <2>1, CaseFacts
    <2>3. QED
      BY <2>1, <2>2 DEF b
  <1>6. ASSUME NEW k \in 1..n
        PROVE  /\ FromDatabase[k] \in Columns
               /\ config.kind = "source" => FromDatabase[k].text = warehouse[k].comment
               /\ FromDatabase[k].name = Normal(Name(warehouse[k].letter, "lower"))
    <2> DEFINE a == Normal(Name(warehouse[k].letter, "lower"))
               t == warehouse[k].comment
    <2>1. FromDatabase[k] = [name |-> a, text |-> t, type |-> WarehouseType] /\ a \in Names
      BY <1>4, <1>5
    <2>2. t \in Descriptions /\ (config.kind = "source" => t = warehouse[k].comment)
      BY <1>2 DEF Descriptions
    <2> HIDE DEF a, t
    <2>3. FromDatabase[k] \in Columns /\ FromDatabase[k].text = t /\ FromDatabase[k].name = a
      BY <2>1, <2>2 DEF Columns, Types
    <2>4. QED
      BY <2>2, <2>3 DEF a
  <1>7. FromDatabase \in [1..n -> Columns]
    <2>1. DOMAIN FromDatabase = 1..n /\ FromDatabase = [k \in 1..n |-> FromDatabase[k]]
      BY <1>1 DEF FromDatabase
    <2>2. QED
      BY <1>6, <2>1
  <1> HIDE DEF n
  <1>8. FromDatabase \in Seq(Columns) /\ Len(FromDatabase) = n
    BY <1>1, <1>7, SeqFacts
  <1>9. \A k \in 1..n :
           /\ FromDatabase[k].name.letter = warehouse[k].letter /\ Fits(FromDatabase[k].name)
           /\ config.kind = "source" => FromDatabase[k].text = warehouse[k].comment
    <2> SUFFICES ASSUME NEW k \in 1..n
                 PROVE  /\ FromDatabase[k].name.letter = warehouse[k].letter
                        /\ Fits(FromDatabase[k].name)
                        /\ config.kind = "source" => FromDatabase[k].text = warehouse[k].comment
      OBVIOUS
    <2>1. /\ FromDatabase[k].name \in Names /\ FromDatabase[k].name.letter = warehouse[k].letter
          /\ FromDatabase[k].name.case = IF config.adapter = "snowflake" THEN "upper" ELSE "lower"
      BY <1>5, <1>6
    <2>2. QED
      BY <1>6, <2>1 DEF Fits
  <1>10. QED
    BY <1>1, <1>8, <1>9 DEF Reports, n

\* new has what the node still has of columns.
Passes(new) ==
  /\ new \in Seq(Columns) /\ Clean(new)
  /\ \A i \in DOMAIN columns : columns[i].name.letter \in InWarehouse =>
       \E j \in DOMAIN new :
         /\ new[j].name = columns[i].name
         /\ TextKept(new[j].text, columns[i].text, columns[i].name.letter)

LEMMA ReorderedPasses ==
  ASSUME TypeOK, ListsOK, NEW new, NEW p, Reorders(new, columns, p)
  PROVE  Passes(new)
  BY ReordersFacts DEF Passes, TypeOK, ListsOK, TextKept

LEMMA PerformPasses ==
  ASSUME TypeOK, ListsOK, NEW incoming, Reports(incoming),
         NEW op \in {"inject", "remove", "sort", "types"}
  PROVE  Passes(Perform(op, incoming))
  <1>1. ConfigOK /\ WarehouseOK /\ columns \in Seq(Columns) /\ Clean(columns)
    BY ConfigFacts DEF TypeOK, ListsOK
  <1>2. CASE op = "inject"
    <2> DEFINE new == Injected(columns, incoming)
    <2>1. InjectedSoFar(new, columns, incoming, Len(warehouse))
      BY <1>1, InjectedFacts
    <2> HIDE DEF new
    <2>2. DOMAIN columns \subseteq DOMAIN new
      <3>1. /\ DOMAIN columns = 1..Len(columns) /\ DOMAIN new = 1..Len(new)
            /\ Len(columns) \in Nat /\ Len(new) \in Nat
        BY <1>1, <2>1, SeqFacts DEF InjectedSoFar
      <3>2. Len(columns) <= Len(new)
        BY <2>1 DEF InjectedSoFar
      <3>3. QED
        BY <3>1, <3>2
    <2>3. Passes(new)
      BY <2>1, <2>2 DEF InjectedSoFar, Passes
    <2>4. QED
      BY <1>2, <2>3 DEF Perform, new
  <1>3. CASE op = "remove"
    <2> DEFINE new == Removed(columns, incoming)
    <2>1. PICK p : /\ Picks(new, columns, p)
                   /\ {p[k] : k \in DOMAIN new}
                        = {i \in DOMAIN columns : columns[i].name.letter \in InWarehouse}
      BY <1>1, RemovedFacts
    <2> HIDE DEF new
    <2>2. \A i \in DOMAIN columns : columns[i].name.letter \in InWarehouse =>
            \E k \in DOMAIN new : new[k] = columns[i]
      BY <2>1 DEF Picks
    <2>3. new \in Seq(Columns) /\ Clean(new)
      BY <1>1, <2>1, PicksFacts
    <2>4. Passes(new)
      BY <2>2, <2>3 DEF Passes, TextKept
    <2>5. QED
      BY <1>3, <2>4 DEF Perform, new
  <1>4. CASE op = "sort"
    <2>1. Passes(SortedAsWarehouse(columns, incoming))
      BY <1>1, AsWarehouseFacts, ReorderedPasses
    <2>2. Passes(SortedByName(columns))
      BY <1>1, ByNameFacts, ReorderedPasses
    <2>3. QED
      BY <1>4, <2>1, <2>2 DEF Perform
  <1>5. CASE op = "types"
    <2> DEFINE new == Typed(columns, incoming)
    <2>1. /\ new \in Seq(Columns) /\ Clean(new) /\ DOMAIN new = DOMAIN columns
          /\ \A i \in DOMAIN columns : new[i].name = columns[i].name /\ new[i].text = columns[i].text
      BY <1>1, TypedFacts
    <2> HIDE DEF new
    <2>2. Passes(new)
      BY <2>1 DEF Passes, TextKept
    <2>3. QED
      BY <1>5, <2>2 DEF Perform, new
  <1>6. QED
    BY <1>2, <1>3, <1>4, <1>5

\* An operation that gets no answer.
Unanswered(op) ==
  IF op = "sort" /\ config.sortBy # "database" THEN SortedByName(columns) ELSE columns

LEMMA UnansweredPasses ==
  ASSUME TypeOK, ListsOK, NEW op
  PROVE  Passes(Unanswered(op))
  <1>1. ConfigOK /\ columns \in Seq(Columns) /\ Clean(columns)
    BY ConfigFacts DEF TypeOK, ListsOK
  <1>2. Passes(SortedByName(columns))
    BY <1>1, ByNameFacts, ReorderedPasses
  <1>3. Passes(columns)
    BY <1>1 DEF Passes, TextKept
  <1>4. QED
    BY <1>2, <1>3 DEF Unanswered

\* What one operation does to the rest.
Operated(new) ==
  /\ Done(new) /\ reached' \in Reaches
  /\ UNCHANGED <<config, warehouse, cll, before, steady, runs, edits>>

LEMMA OperationIs ==
  ASSUME CasesAreSettled, TypeOK, ListsOK,
         NEW op \in {"inject", "remove", "sort", "types"}, Operation(op)
  PROVE  /\ Running(op)
         /\ \E new :
              /\ Operated(new) /\ Passes(new)
              /\ \/ cll /\ new = Perform(op, FromCll) /\ reached' = reached
                 \/ /\ ~cll /\ new = Perform(op, FromDatabase)
                    /\ reached' = IF reached \in {"unasked", "always"} THEN "always" ELSE "late"
                 \/ /\ ~cll /\ new = Unanswered(op)
                    /\ reached \in {"unasked", "failed"} /\ reached' = "failed"
  <1>1. CASE WithLineage(op)
    <2>1. Running(op) /\ cll /\ Operated(Perform(op, FromCll)) /\ reached' = reached
      BY <1>1 DEF WithLineage, Operated, TypeOK
    <2>2. Passes(Perform(op, FromCll))
      BY <2>1, CllReports, PerformPasses
    <2>3. QED
      BY <2>1, <2>2
  <1>2. CASE WithDatabase(op)
    <2>1. /\ Running(op) /\ ~cll /\ Operated(Perform(op, FromDatabase))
          /\ reached' = IF reached \in {"unasked", "always"} THEN "always" ELSE "late"
      BY <1>2 DEF WithDatabase, Operated, Reaches
    <2>2. Passes(Perform(op, FromDatabase))
      BY DatabaseReports, PerformPasses
    <2>3. QED
      BY <2>1, <2>2
  <1>3. CASE WithNothing(op)
    <2>1. /\ Running(op) /\ ~cll /\ Operated(Unanswered(op))
          /\ reached \in {"unasked", "failed"} /\ reached' = "failed"
      BY <1>3 DEF WithNothing, Operated, Reaches, Unanswered
    <2>2. Passes(Unanswered(op))
      BY UnansweredPasses
    <2>3. QED
      BY <2>1, <2>2
  <1>4. QED
    BY <1>1, <1>2, <1>3 DEF Operation

\* A text kept twice is kept.
LEMMA KeptTwice ==
  ASSUME NEW a, NEW b, NEW c, NEW l, TextKept(b, a, l), TextKept(c, b, l)
  PROVE  TextKept(c, a, l)
  BY DEF TextKept

LEMMA PassedCarries ==
  ASSUME ColumnsCarry, NEW new, Passes(new)
  PROVE  \A i \in DOMAIN before : before[i].name.letter \in InWarehouse =>
           \E j \in DOMAIN new :
             /\ new[j].name = before[i].name
             /\ TextKept(new[j].text, before[i].text, before[i].name.letter)
  <1> SUFFICES ASSUME NEW i \in DOMAIN before, before[i].name.letter \in InWarehouse
               PROVE  \E j \in DOMAIN new :
                        /\ new[j].name = before[i].name
                        /\ TextKept(new[j].text, before[i].text, before[i].name.letter)
    OBVIOUS
  <1>1. PICK k \in DOMAIN columns :
          /\ columns[k].name = before[i].name
          /\ TextKept(columns[k].text, before[i].text, before[i].name.letter)
    BY DEF ColumnsCarry
  <1>2. PICK j \in DOMAIN new :
          /\ new[j].name = columns[k].name
          /\ TextKept(new[j].text, columns[k].text, columns[k].name.letter)
    BY <1>1 DEF Passes
  <1>3. TextKept(new[j].text, before[i].text, before[i].name.letter)
    BY <1>1, <1>2, KeptTwice
  <1>4. QED
    BY <1>1, <1>2, <1>3

\* The texts that a run keeps depend on the columns only.
SameWorld == config' = config /\ warehouse' = warehouse

LEMMA WarehouseStays ==
  ASSUME SameWorld
  PROVE  /\ InWarehouse' = InWarehouse
         /\ WarehouseOK' <=> WarehouseOK
         /\ ConfigOK' <=> ConfigOK
  BY DEF SameWorld, InWarehouse, WarehouseOK, ConfigOK

LEMMA CleanStays ==
  ASSUME SameWorld
  PROVE  /\ yaml' = yaml => (Clean(yaml)' <=> Clean(yaml))
         /\ doc' = doc => (Clean(doc)' <=> Clean(doc))
         /\ before' = before => (Clean(before)' <=> Clean(before))
         /\ columns' = columns => (Clean(columns)' <=> Clean(columns))
         /\ \A s : yaml' = s /\ Clean(s) => Clean(yaml)'
         /\ \A s : doc' = s /\ Clean(s) => Clean(doc)'
         /\ \A s : before' = s /\ Clean(s) => Clean(before)'
         /\ \A s : columns' = s /\ Clean(s) => Clean(columns)'
  BY DEF SameWorld, Clean, Distinct, Spelled

\* What one list carries of another.
CarriesText(new, old) ==
  \A i \in DOMAIN old : old[i].name.letter \in InWarehouse =>
    \E j \in DOMAIN new :
      /\ new[j].name = old[i].name
      /\ TextKept(new[j].text, old[i].text, old[i].name.letter)
CarriesEntry(new, old) ==
  \A i \in DOMAIN old : old[i].name.letter \in InWarehouse =>
    \E j \in DOMAIN new :
      /\ new[j].name = old[i].name /\ (old[i].extra => new[j].extra)
      /\ TextKept(new[j].text, old[i].text, old[i].name.letter)

LEMMA CarriesIs == /\ ColumnsCarry <=> CarriesText(columns, before)
                   /\ DocCarries <=> CarriesEntry(doc, before)
  BY DEF ColumnsCarry, DocCarries, CarriesText, CarriesEntry

LEMMA CarryStays ==
  ASSUME SameWorld
  PROVE  /\ \A new, old : columns' = new /\ before' = old /\ CarriesText(new, old) => ColumnsCarry'
         /\ \A new, old : doc' = new /\ before' = old /\ CarriesEntry(new, old) => DocCarries'
  <1>1. warehouse' = warehouse /\ config' = config
    BY DEF SameWorld
  <1>2. ASSUME NEW new, NEW old, columns' = new, before' = old, CarriesText(new, old)
        PROVE  ColumnsCarry'
    BY <1>1, <1>2 DEF ColumnsCarry, CarriesText, TextKept, CommentOf, InWarehouse
  <1>3. ASSUME NEW new, NEW old, doc' = new, before' = old, CarriesEntry(new, old)
        PROVE  DocCarries'
    BY <1>1, <1>3 DEF DocCarries, CarriesEntry, TextKept, CommentOf, InWarehouse
  <1>4. QED
    BY <1>2, <1>3

\* What an operation leaves in the buffered section and in the file.
Filed == /\ doc' \in Seq(DocEntries) /\ Clean(doc)' /\ yaml' \in Seq(DocEntries) /\ Clean(yaml)'
         /\ DocCarries' /\ mutated' \in BOOLEAN
         /\ yaml' = IF CommitsAtOnce THEN doc' ELSE before
         /\ config.mode # "atomic" => doc' = before

LEMMA AtomicFiles ==
  ASSUME CasesAreSettled, TypeOK, ListsOK, RunInv, InRun, config.mode = "atomic",
         NEW new, Operated(new), Passes(new)
  PROVE  Filed
  <1> DEFINE section == Synced(new, doc)
  <1>1. ConfigOK /\ config.output = "asis"
    BY ConfigFacts DEF TypeOK
  <1>2. new \in Seq(Columns) /\ Clean(new) /\ doc \in Seq(DocEntries) /\ Clean(doc) /\ Distinct(doc)
    BY DEF Passes, TypeOK, ListsOK, Clean
  <1>3. /\ section \in Seq(DocEntries) /\ Clean(section) /\ DOMAIN section = DOMAIN new
        /\ \A i \in DOMAIN new :
              /\ section[i].name = Output(new[i].name) /\ section[i].text = new[i].text
              /\ \A j \in DOMAIN doc : doc[j].name = new[i].name /\ doc[j].extra =>
                   section[i].extra
    BY <1>1, <1>2, SyncedFacts
  <1>4. /\ doc' = section /\ yaml' = IF config.dryRun THEN yaml ELSE section
        /\ mutated' = (mutated \/ section # yaml) /\ before' = before /\ SameWorld
    BY DEF Operated, Done, Committed, SameWorld
  <1> HIDE DEF section
  <1>5. \A a : Output(a) = a
    BY <1>1, CaseFacts
  <1>6. CarriesText(new, before)
    BY PassedCarries DEF RunInv, CarriesText
  <1>7. CarriesEntry(section, before)
    <2> SUFFICES ASSUME NEW i \in DOMAIN before, before[i].name.letter \in InWarehouse
                 PROVE  \E j \in DOMAIN section :
                          /\ section[j].name = before[i].name
                          /\ before[i].extra => section[j].extra
                          /\ TextKept(section[j].text, before[i].text, before[i].name.letter)
      BY DEF CarriesEntry
    <2>1. PICK j \in DOMAIN new :
            /\ new[j].name = before[i].name
            /\ TextKept(new[j].text, before[i].text, before[i].name.letter)
      BY <1>6 DEF CarriesText
    <2>2. PICK k \in DOMAIN doc :
            doc[k].name = before[i].name /\ (before[i].extra => doc[k].extra)
      BY DEF RunInv, DocCarries
    <2>3. /\ j \in DOMAIN section /\ section[j].name = before[i].name
          /\ section[j].text = new[j].text /\ (before[i].extra => section[j].extra)
      BY <1>3, <1>5, <2>1, <2>2
    <2>4. QED
      BY <2>1, <2>3
  <1>8. DocCarries'
    BY <1>4, <1>7, CarryStays
  <1>9. Clean(doc)'
    BY <1>3, <1>4, CleanStays
  <1>10. mutated' \in BOOLEAN
    BY <1>4 DEF TypeOK
  <1>11. CASE config.dryRun
    <2>1. yaml' = yaml /\ yaml = before /\ ~CommitsAtOnce
      BY <1>4, <1>11 DEF RunInv, CommitsAtOnce
    <2>2. Clean(yaml)' /\ yaml \in Seq(DocEntries)
      BY <1>4, <2>1, CleanStays DEF TypeOK, ListsOK
    <2>3. QED
      BY <1>3, <1>4, <1>8, <1>9, <1>10, <2>1, <2>2 DEF Filed
  <1>12. CASE ~config.dryRun
    <2>1. yaml' = section /\ CommitsAtOnce
      BY <1>4, <1>12 DEF CommitsAtOnce
    <2>2. Clean(yaml)'
      BY <1>3, <1>4, <2>1, CleanStays
    <2>3. QED
      BY <1>3, <1>4, <1>8, <1>9, <1>10, <2>1, <2>2 DEF Filed
  <1>13. config.dryRun \in BOOLEAN
    BY <1>1 DEF ConfigOK
  <1>14. QED
    BY <1>11, <1>12

LEMMA LaterFiles ==
  ASSUME TypeOK, ListsOK, RunInv, InRun, config.mode # "atomic", NEW new, Operated(new)
  PROVE  Filed
  <1>1. doc' = doc /\ yaml' = yaml /\ mutated' = mutated /\ before' = before /\ SameWorld
    BY DEF Operated, Done, SameWorld
  <1>2. yaml = before /\ doc = before /\ ~CommitsAtOnce /\ DocCarries
    BY DEF RunInv, CommitsAtOnce
  <1>3. DocCarries'
    BY <1>1, <1>2, CarriesIs, CarryStays
  <1>4. Clean(doc)' /\ Clean(yaml)'
    BY <1>1, CleanStays DEF ListsOK
  <1>5. QED
    BY <1>1, <1>2, <1>3, <1>4 DEF Filed, TypeOK

LEMMA OperationKeeps ==
  ASSUME CasesAreSettled, KeepInv,
         NEW op \in {"inject", "remove", "sort", "types"}, Operation(op)
  PROVE  KeepInv'
  <1>1. TypeOK /\ ListsOK /\ RunInv
    BY DEF KeepInv
  <1>2. Running(op) /\ \E new : Operated(new) /\ Passes(new)
    BY <1>1, OperationIs
  <1>3. PICK new : Operated(new) /\ Passes(new)
    BY <1>2
  <1>4. /\ pc' = Tail(pc) /\ columns' = new /\ reached' \in Reaches /\ before' = before
        /\ UNCHANGED <<config, warehouse, cll, before, steady, runs, edits>> /\ SameWorld
    BY <1>3 DEF Operated, Done, SameWorld
  <1>5. InRun /\ Tail(pc) \in Stages /\ Tail(pc) # <<"idle">>
    BY <1>1, <1>2, HeadFacts DEF TypeOK, InRun
  <1>6. Filed
    BY <1>1, <1>3, <1>5, AtomicFiles, LaterFiles
  <1>7. CarriesText(new, before)
    BY <1>1, <1>3, <1>5, PassedCarries DEF RunInv, CarriesText
  <1>8. ColumnsCarry'
    BY <1>4, <1>7, CarryStays
  <1>9. new \in Seq(Columns) /\ Clean(new)
    BY <1>3 DEF Passes
  <1>10. Clean(columns)' /\ Clean(before)'
    BY <1>1, <1>4, <1>9, CleanStays DEF ListsOK
  <1>11. Stages' = Stages /\ (CommitsAtOnce' <=> CommitsAtOnce) /\ WarehouseOK'
    <2>1. WarehouseOK'
      BY <1>1, <1>4, WarehouseStays DEF TypeOK
    <2>2. QED
      BY <1>4, <2>1 DEF Stages, CommitsAtOnce
  <1>12. TypeOK'
    BY <1>1, <1>4, <1>5, <1>6, <1>9, <1>11 DEF TypeOK, Filed
  <1>13. ListsOK'
    BY <1>1, <1>4, <1>6, <1>10 DEF ListsOK, Filed
  <1>14. RunInv'
    BY <1>4, <1>6, <1>8, <1>11 DEF RunInv, Filed
  <1>15. DocumentationSurvives'
    BY <1>4, <1>5 DEF DocumentationSurvives, Ended
  <1>16. QED
    BY <1>12, <1>13, <1>14, <1>15 DEF KeepInv

LEMMA StartKeeps ==
  ASSUME KeepInv, Start
  PROVE  KeepInv'
  <1>1. TypeOK /\ ListsOK /\ yaml \in Seq(DocEntries) /\ Clean(yaml)
    BY DEF KeepInv, TypeOK, ListsOK
  <1>2. /\ pc' = Pipeline /\ columns' = Parsed(yaml) /\ doc' = yaml /\ before' = yaml
        /\ cll' \in IF config.kind = "source" THEN {FALSE} ELSE BOOLEAN
        /\ reached' = "unasked" /\ mutated' = FALSE /\ runs' = runs + 1 /\ runs < MaxRuns
        /\ UNCHANGED <<config, warehouse, yaml, steady, edits>> /\ SameWorld
    BY DEF Start, SameWorld
  <1> DEFINE n == Len(yaml)
             new == Parsed(yaml)
  <1>3. DOMAIN yaml = 1..n /\ n \in Nat
    BY <1>1, SeqFacts
  <1>4. new = [i \in 1..n |-> Plain(yaml[i])]
    BY <1>1, <1>3, ParsedIs DEF Clean
  <1> HIDE DEF new, n
  <1>5. \A i \in 1..n : /\ new[i] \in Columns /\ new[i].name = yaml[i].name
                        /\ new[i].text = yaml[i].text
    <2> SUFFICES ASSUME NEW i \in 1..n
                 PROVE  new[i] \in Columns /\ new[i].name = yaml[i].name /\ new[i].text = yaml[i].text
      OBVIOUS
    <2>1. new[i] = Plain(yaml[i]) /\ yaml[i] \in DocEntries
      BY <1>1, <1>3, <1>4, EntryFields
    <2>2. Plain(yaml[i]).name = yaml[i].name /\ Plain(yaml[i]).text = yaml[i].text
      BY DEF Plain
    <2>3. QED
      BY <2>1, <2>2, PlainType
  <1>6. new \in Seq(Columns) /\ DOMAIN new = 1..n
    <2>1. new \in [1..n -> Columns] /\ DOMAIN new = 1..n
      BY <1>4, <1>5
    <2>2. QED
      BY <1>3, <2>1, SeqFacts
  <1>7. Clean(new)
    BY <1>1, <1>3, <1>5, <1>6 DEF Clean, Distinct
  <1>8. CarriesText(new, yaml) /\ CarriesEntry(yaml, yaml)
    BY <1>3, <1>5, <1>6 DEF CarriesText, CarriesEntry, TextKept
  <1>9. ColumnsCarry' /\ DocCarries'
    BY <1>2, <1>8, CarryStays DEF new
  <1>10. Clean(columns)' /\ Clean(before)' /\ Clean(doc)' /\ Clean(yaml)'
    BY <1>1, <1>2, <1>7, CleanStays DEF new
  <1>11. Stages' = Stages /\ WarehouseOK'
    BY <1>1, <1>2, WarehouseStays DEF TypeOK, Stages
  <1>12. pc' \in Stages /\ pc' # <<"idle">>
    <2>1. CASE config.command = "refactor"
      <3>1. pc' = <<"inject", "remove", "sort", "types">>
        BY <1>2, <2>1 DEF Pipeline
      <3>2. QED
        BY <2>1, <3>1 DEF Stages
    <2>2. CASE config.command # "refactor"
      <3>1. pc' = <<"inject", "sort">>
        BY <1>2, <2>2 DEF Pipeline
      <3>2. QED
        BY <2>2, <3>1 DEF Stages
    <2>3. QED
      BY <2>1, <2>2
  <1>13. cll' \in BOOLEAN /\ (config.kind = "source" => ~cll')
    BY <1>2
  <1>14. runs' \in 0..MaxRuns
    BY <1>1, <1>2, ColumnAssumption DEF TypeOK
  <1>15. TypeOK'
    BY <1>1, <1>2, <1>6, <1>11, <1>12, <1>13, <1>14 DEF TypeOK, Reaches, new
  <1>16. ListsOK'
    BY <1>2, <1>10, <1>13 DEF ListsOK
  <1>17. RunInv'
    BY <1>2, <1>9 DEF RunInv
  <1>18. DocumentationSurvives'
    BY <1>12 DEF DocumentationSurvives, Ended
  <1>19. QED
    BY <1>15, <1>16, <1>17, <1>18 DEF KeepInv

\* What the end of a pipeline leaves in the file.
EndFiled ==
  /\ doc' \in Seq(DocEntries) /\ Clean(doc)' /\ yaml' \in Seq(DocEntries) /\ Clean(yaml)'
  /\ mutated' \in BOOLEAN
  /\ \E section :
       /\ yaml' = section
       /\ \A i \in DOMAIN before : before[i].name.letter \in InWarehouse =>
            \E j \in DOMAIN section :
              /\ section[j].name.letter = before[i].name.letter
              /\ before[i].extra => section[j].extra
              /\ TextKept(section[j].text, before[i].text, before[i].name.letter)

LEMMA BatchFiles ==
  ASSUME TypeOK, ListsOK, RunInv, InRun, config.mode = "batch", SameWorld, before' = before,
         Committed(columns)
  PROVE  EndFiled
  <1> DEFINE section == Synced(columns, doc)
  <1>1. ConfigOK
    BY ConfigFacts DEF TypeOK
  <1>2. /\ columns \in Seq(Columns) /\ Clean(columns) /\ doc \in Seq(DocEntries) /\ Clean(doc)
        /\ Distinct(doc)
    BY DEF TypeOK, ListsOK, Clean
  <1>3. /\ section \in Seq(DocEntries) /\ Clean(section) /\ DOMAIN section = DOMAIN columns
        /\ \A i \in DOMAIN columns :
              /\ section[i].name = Output(columns[i].name) /\ section[i].text = columns[i].text
              /\ \A j \in DOMAIN doc : doc[j].name = columns[i].name /\ doc[j].extra =>
                   section[i].extra
    BY <1>1, <1>2, SyncedFacts
  <1>4. /\ doc' = section /\ yaml' = IF config.dryRun THEN yaml ELSE section
        /\ mutated' = (mutated \/ section # yaml)
    BY DEF Committed
  <1> HIDE DEF section
  <1>5. doc = before /\ yaml = before /\ ColumnsCarry
    BY DEF RunInv, CommitsAtOnce
  <1>6. Clean(doc)' /\ mutated' \in BOOLEAN
    BY <1>3, <1>4, CleanStays DEF TypeOK
  <1>7. CASE config.dryRun
    <2>1. yaml' = before
      BY <1>4, <1>5, <1>7
    <2>2. Clean(yaml)' /\ yaml' \in Seq(DocEntries)
      BY <1>5, <2>1, CleanStays DEF TypeOK, ListsOK
    <2>3. \A i \in DOMAIN before : TextKept(before[i].text, before[i].text, before[i].name.letter)
      BY DEF TextKept
    <2>4. QED
      BY <1>3, <1>4, <1>6, <2>1, <2>2, <2>3 DEF EndFiled
  <1>8. CASE ~config.dryRun
    <2>1. yaml' = section
      BY <1>4, <1>8
    <2>2. Clean(yaml)'
      BY <1>3, <2>1, CleanStays
    <2>3. ASSUME NEW i \in DOMAIN before, before[i].name.letter \in InWarehouse
          PROVE  \E j \in DOMAIN section :
                   /\ section[j].name.letter = before[i].name.letter
                   /\ before[i].extra => section[j].extra
                   /\ TextKept(section[j].text, before[i].text, before[i].name.letter)
      <3>1. PICK j \in DOMAIN columns :
              /\ columns[j].name = before[i].name
              /\ TextKept(columns[j].text, before[i].text, before[i].name.letter)
        BY <1>5, <2>3 DEF ColumnsCarry
      <3>2. columns[j].name \in Names
        BY <1>2 DEF Clean, Spelled
      <3>3. Output(columns[j].name).letter = columns[j].name.letter
        BY <1>1, <3>2, CaseFacts
      <3>4. before[i].extra => section[j].extra
        BY <1>3, <1>5, <3>1
      <3>5. QED
        BY <1>3, <3>1, <3>3, <3>4
    <2>4. QED
      BY <1>3, <1>4, <1>6, <2>1, <2>2, <2>3 DEF EndFiled
  <1>9. config.dryRun \in BOOLEAN
    BY <1>1 DEF ConfigOK
  <1>10. QED
    BY <1>7, <1>8, <1>9

LEMMA NoBatchFiles ==
  ASSUME TypeOK, ListsOK, RunInv, InRun, SameWorld, before' = before, UNCHANGED <<doc, mutated, yaml>>
  PROVE  EndFiled
  <1>1. Clean(doc)' /\ Clean(yaml)'
    BY CleanStays DEF ListsOK
  <1>2. CASE CommitsAtOnce
    <2>1. yaml = doc /\ DocCarries
      BY <1>2 DEF RunInv
    <2>2. QED
      BY <1>1, <2>1 DEF EndFiled, DocCarries, TypeOK
  <1>3. CASE ~CommitsAtOnce
    <2>1. yaml = before
      BY <1>3 DEF RunInv
    <2>2. \A i \in DOMAIN before : TextKept(before[i].text, before[i].text, before[i].name.letter)
      BY DEF TextKept
    <2>3. QED
      BY <1>1, <2>1, <2>2 DEF EndFiled, TypeOK
  <1>4. QED
    BY <1>2, <1>3

LEMMA FinishKeeps ==
  ASSUME KeepInv, Finish
  PROVE  KeepInv'
  <1>1. TypeOK /\ ListsOK /\ RunInv
    BY DEF KeepInv
  <1>2. /\ pc = <<>> /\ pc' = <<"idle">> /\ steady' = Answers
        /\ IF config.mode = "batch" THEN Committed(columns) ELSE UNCHANGED <<doc, mutated, yaml>>
        /\ UNCHANGED <<config, warehouse, columns, reached, cll, before, runs, edits>> /\ SameWorld
    BY DEF Finish, SameWorld
  <1>3. InRun
    BY <1>2 DEF InRun
  <1>4. EndFiled
    BY <1>1, <1>2, <1>3, BatchFiles, NoBatchFiles
  <1>5. Clean(columns)' /\ Clean(before)' /\ WarehouseOK' /\ Stages' = Stages
    BY <1>1, <1>2, CleanStays, WarehouseStays DEF ListsOK, TypeOK, Stages
  <1>6. TypeOK'
    BY <1>1, <1>2, <1>4, <1>5 DEF TypeOK, EndFiled, Stages, Answers
  <1>7. ListsOK'
    BY <1>1, <1>2, <1>4, <1>5 DEF ListsOK, EndFiled
  <1>8. RunInv'
    BY <1>2 DEF RunInv, InRun
  <1>9. DocumentationSurvives'
    <2>1. PICK section :
            /\ yaml' = section
            /\ \A i \in DOMAIN before : before[i].name.letter \in InWarehouse =>
                 \E j \in DOMAIN section :
                   /\ section[j].name.letter = before[i].name.letter
                   /\ before[i].extra => section[j].extra
                   /\ TextKept(section[j].text, before[i].text, before[i].name.letter)
      BY <1>4 DEF EndFiled
    <2>2. before' = before /\ config' = config /\ warehouse' = warehouse
      BY <1>2
    <2>3. QED
      BY <2>1, <2>2 DEF DocumentationSurvives, Entries, TextKept, CommentOf, InWarehouse
  <1>10. QED
    BY <1>6, <1>7, <1>8, <1>9 DEF KeepInv

\* An edit changes the file's texts or the warehouse between two runs.
LEMMA EditKeeps ==
  ASSUME KeepInv, Edit, WarehouseOK', yaml' \in Seq(DocEntries), Clean(yaml)'
  PROVE  KeepInv'
  <1>1. /\ pc = <<"idle">> /\ edits < MaxEdits /\ edits' = edits + 1 /\ steady' = NoAnswers
        /\ UNCHANGED <<config, columns, doc, pc, reached, cll, mutated, before, runs>>
    BY DEF Edit
  <1>2. TypeOK /\ ListsOK
    BY DEF KeepInv
  <1>3. Clean(columns)' /\ Clean(before)' /\ Clean(doc)'
    BY <1>1, <1>2 DEF ListsOK, Clean, Distinct, Spelled
  <1>4. Stages' = Stages /\ edits' \in 0..MaxEdits
    BY <1>1, <1>2, ColumnAssumption DEF Stages, TypeOK
  <1>5. TypeOK'
    BY <1>1, <1>2, <1>4 DEF TypeOK, NoAnswers, Reaches
  <1>6. ListsOK'
    BY <1>1, <1>2, <1>3 DEF ListsOK
  <1>7. RunInv' /\ DocumentationSurvives'
    BY <1>1 DEF RunInv, InRun, DocumentationSurvives, Ended
  <1>8. QED
    BY <1>5, <1>6, <1>7 DEF KeepInv

LEMMA DescribeKeeps ==
  ASSUME KeepInv, Describe
  PROVE  KeepInv'
  <1>1. PICK i \in DOMAIN yaml, text \in Texts : yaml' = [yaml EXCEPT ![i].text = text]
    BY DEF Describe
  <1>2. Edit /\ warehouse' = warehouse /\ config' = config /\ TypeOK /\ ListsOK
    BY DEF Describe, Edit, KeepInv
  <1> DEFINE n == Len(yaml)
             e == [yaml[i] EXCEPT !.text = text]
  <1>3. DOMAIN yaml = 1..n /\ n \in Nat /\ yaml = [k \in 1..n |-> yaml[k]]
    BY <1>2, SeqFacts DEF TypeOK
  <1>4. \A k \in 1..n : yaml[k] \in DocEntries
    BY <1>2, <1>3, EntryFields DEF TypeOK
  <1>5. e \in DocEntries /\ e.name = yaml[i].name
    BY <1>3, <1>4 DEF DocEntries, Descriptions
  <1>6. yaml' = [yaml EXCEPT ![i] = e]
    BY <1>1
  <1> HIDE DEF e, n
  <1>7. yaml' \in [1..n -> DocEntries] /\ \A k \in 1..n : yaml'[k].name = yaml[k].name
    BY <1>3, <1>4, <1>5, <1>6
  <1>8. yaml' \in Seq(DocEntries) /\ DOMAIN yaml' = 1..n
    BY <1>3, <1>7, SeqFacts
  <1>9. Clean(yaml)'
    <2>1. Clean(yaml)
      BY <1>2 DEF ListsOK
    <2>2. QED
      BY <1>2, <1>3, <1>7, <1>8, <2>1 DEF Clean, Distinct, Spelled
  <1>10. WarehouseOK'
    BY <1>2 DEF TypeOK, WarehouseOK
  <1>11. QED
    BY <1>2, <1>8, <1>9, <1>10, EditKeeps

LEMMA InsertAtFacts ==
  ASSUME NEW S, NEW s \in Seq(S), NEW i \in 1..Len(s)+1, NEW e \in S
  PROVE  /\ InsertAt(s, i, e) \in Seq(S) /\ Len(InsertAt(s, i, e)) = Len(s) + 1
         /\ \A j \in 1..Len(s)+1 :
              InsertAt(s, i, e)[j] = IF j < i THEN s[j] ELSE IF j = i THEN e ELSE s[j-1]
  <1> DEFINE n == Len(s)
             a == SubSeq(s, 1, i-1)
             b == SubSeq(s, i, n)
             m == a \o <<e>>
  <1>1. n \in Nat
    BY LenProperties
  <1>2. a \in Seq(S) /\ Len(a) = i-1 /\ \A j \in 1..i-1 : a[j] = s[j]
    BY <1>1, SubSeqProperties
  <1>3. b \in Seq(S) /\ Len(b) = n-i+1 /\ \A j \in 1..n-i+1 : b[j] = s[i+j-1]
    BY <1>1, SubSeqProperties
  <1>4. <<e>> \in Seq(S) /\ Len(<<e>>) = 1 /\ <<e>>[1] = e
    OBVIOUS
  <1> HIDE DEF a, b
  <1>5. m \in Seq(S) /\ Len(m) = i /\ \A j \in 1..i : m[j] = IF j < i THEN s[j] ELSE e
    <2>1. /\ m \in Seq(S) /\ Len(m) = Len(a) + Len(<<e>>)
          /\ \A j \in 1..Len(a)+Len(<<e>>) : m[j] = IF j <= Len(a) THEN a[j] ELSE <<e>>[j - Len(a)]
      BY <1>2, <1>4, ConcatProperties
    <2> HIDE DEF m
    <2>2. Len(m) = i
      BY <1>1, <1>2, <1>4, <2>1
    <2>3. ASSUME NEW j \in 1..i PROVE m[j] = IF j < i THEN s[j] ELSE e
      <3>1. CASE j < i
        <4>1. j \in 1..i-1 /\ j <= Len(a) /\ j \in 1..Len(a)+Len(<<e>>)
          BY <1>1, <1>2, <1>4, <3>1
        <4>2. QED
          BY <1>2, <2>1, <3>1, <4>1
      <3>2. CASE ~(j < i)
        <4>1. j = i /\ ~(j <= Len(a)) /\ j \in 1..Len(a)+Len(<<e>>) /\ j - Len(a) = 1
          BY <1>1, <1>2, <1>4, <3>2
        <4>2. QED
          BY <1>4, <2>1, <3>2, <4>1
      <3>3. QED
        BY <3>1, <3>2
    <2>4. QED
      BY <2>1, <2>2, <2>3
  <1>6. /\ m \o b \in Seq(S) /\ Len(m \o b) = Len(m) + Len(b)
        /\ \A j \in 1..Len(m)+Len(b) : (m \o b)[j] = IF j <= Len(m) THEN m[j] ELSE b[j-Len(m)]
    <2> HIDE DEF m
    <2>1. QED
      BY <1>3, <1>5, ConcatProperties
  <1>7. InsertAt(s, i, e) = m \o b
    BY DEF InsertAt, a, b
  <1> HIDE DEF m
  <1> DEFINE t == m \o b
  <1> HIDE DEF t
  <1>8. /\ t \in Seq(S) /\ Len(t) = n + 1
        /\ \A j \in 1..n+1 : t[j] = IF j <= i THEN m[j] ELSE b[j-i]
    BY <1>1, <1>3, <1>5, <1>6 DEF t
  <1>9. ASSUME NEW j \in 1..n+1
        PROVE  t[j] = IF j < i THEN s[j] ELSE IF j = i THEN e ELSE s[j-1]
    <2>1. CASE j <= i
      <3>1. j \in 1..i
        BY <1>1, <2>1
      <3>2. QED
        BY <1>5, <1>8, <2>1, <3>1
    <2>2. CASE ~(j <= i)
      <3>1. j - i \in 1..n-i+1 /\ i + (j-i) - 1 = j - 1 /\ ~(j < i) /\ j # i
        BY <1>1, <2>2
      <3>2. t[j] = b[j-i] /\ b[j-i] = s[i + (j-i) - 1]
        BY <1>3, <1>8, <2>2, <3>1
      <3>3. QED
        BY <3>1, <3>2
    <2>3. QED
      BY <2>1, <2>2
  <1>10. QED
    BY <1>7, <1>8, <1>9 DEF t

LEMMA RemoveAtFacts ==
  ASSUME NEW S, NEW s \in Seq(S), NEW i \in 1..Len(s)
  PROVE  /\ RemoveAt(s, i) \in Seq(S)
         /\ Len(RemoveAt(s, i)) = Len(s) - 1
         /\ \A j \in 1..Len(s)-1 : RemoveAt(s, i)[j] = IF j < i THEN s[j] ELSE s[j+1]
  <1> DEFINE a == SubSeq(s, 1, i-1)
             b == SubSeq(s, i+1, Len(s))
  <1>0. Len(s) \in Nat
    BY LenProperties
  <1>1. a \in Seq(S) /\ Len(a) = i-1 /\ \A j \in 1..i-1 : a[j] = s[j]
    BY <1>0, SubSeqProperties
  <1>2. b \in Seq(S) /\ Len(b) = Len(s)-i /\ \A j \in 1..Len(s)-i : b[j] = s[i+j]
    BY <1>0, SubSeqProperties
  <1>3. /\ a \o b \in Seq(S) /\ Len(a \o b) = Len(a) + Len(b)
        /\ \A j \in 1..Len(a)+Len(b) : (a \o b)[j] = IF j <= Len(a) THEN a[j] ELSE b[j-Len(a)]
    BY <1>1, <1>2, ConcatProperties
  <1>4. RemoveAt(s, i) = a \o b
    BY DEF RemoveAt
  <1> HIDE DEF a, b
  <1>5. Len(a \o b) = Len(s) - 1
    BY <1>0, <1>1, <1>2, <1>3
  <1>6. ASSUME NEW j \in 1..Len(s)-1
        PROVE  (a \o b)[j] = IF j < i THEN s[j] ELSE s[j+1]
    <2>1. (a \o b)[j] = IF j <= Len(a) THEN a[j] ELSE b[j-Len(a)]
      BY <1>0, <1>1, <1>2, <1>3
    <2>2. CASE j < i
      BY <1>0, <1>1, <2>1, <2>2
    <2>3. CASE ~(j < i)
      <3>1. j - (i-1) \in 1..Len(s)-i
        BY <1>0, <2>3
      <3>2. b[j-(i-1)] = s[i + (j-(i-1))]
        BY <1>2, <3>1
      <3>3. QED
        BY <1>0, <1>1, <2>1, <2>3, <3>2
    <2>4. QED
      BY <2>2, <2>3
  <1>7. QED
    BY <1>3, <1>4, <1>5, <1>6

LEMMA AddKeeps ==
  ASSUME KeepInv, AddToWarehouse
  PROVE  KeepInv'
  <1>1. PICK l \in Letters \ {warehouse[i].letter : i \in DOMAIN warehouse},
             comment \in Texts \cup {NoText}, at \in 1..(Len(warehouse) + 1) :
          warehouse' = InsertAt(warehouse, at, [letter |-> l, comment |-> comment])
    BY DEF AddToWarehouse
  <1>2. Edit /\ yaml' = yaml /\ config' = config /\ TypeOK /\ ListsOK
    BY DEF AddToWarehouse, Edit, KeepInv
  <1> DEFINE n == Len(warehouse)
             row == [letter |-> l, comment |-> comment]
             new == InsertAt(warehouse, at, row)
  <1>3. warehouse \in Seq(Rows) /\ DOMAIN warehouse = 1..n /\ n \in Nat
    BY <1>2, SeqFacts DEF TypeOK, WarehouseOK
  <1>4. row \in Rows /\ row.letter = l
    BY DEF Rows, Descriptions
  <1>5. new \in Seq(Rows) /\ Len(new) = n + 1
        /\ \A j \in 1..n+1 : new[j] = IF j < at THEN warehouse[j]
                                      ELSE IF j = at THEN row ELSE warehouse[j-1]
    <2> HIDE DEF row
    <2>1. QED
      BY <1>3, <1>4, InsertAtFacts
  <1> HIDE DEF new, row
  <1>6. DOMAIN new = 1..n+1
    BY <1>5, SeqFacts
  <1>7. \A i, j \in 1..n : warehouse[i].letter = warehouse[j].letter => i = j
    BY <1>2, <1>3 DEF TypeOK, WarehouseOK
  <1>8. \A i \in 1..n : warehouse[i].letter # l
    BY <1>1, <1>3
  <1>9. ASSUME NEW j \in 1..n+1
        PROVE  \/ j < at /\ j \in 1..n /\ new[j] = warehouse[j]
               \/ j = at /\ new[j] = row
               \/ j > at /\ j - 1 \in 1..n /\ new[j] = warehouse[j-1]
    BY <1>3, <1>5
  <1>10. ASSUME NEW i \in 1..n+1, NEW j \in 1..n+1, new[i].letter = new[j].letter
         PROVE  i = j
    <2>1. CASE i = at
      <3>1. ~(j < at) /\ ~(j > at)
        BY <1>4, <1>8, <1>9, <1>10, <2>1
      <3>2. QED
        BY <1>3, <2>1, <3>1
    <2>2. CASE j = at
      <3>1. ~(i < at) /\ ~(i > at)
        BY <1>4, <1>8, <1>9, <1>10, <2>2
      <3>2. QED
        BY <1>3, <2>2, <3>1
    <2>3. CASE i < at /\ j < at
      BY <1>3, <1>7, <1>9, <1>10, <2>3
    <2>4. CASE i > at /\ j > at
      <3>1. i - 1 \in 1..n /\ j - 1 \in 1..n /\ new[i] = warehouse[i-1] /\ new[j] = warehouse[j-1]
        BY <1>3, <1>9, <2>4
      <3>2. i - 1 = j - 1
        BY <1>7, <1>10, <3>1
      <3>3. QED
        BY <3>2
    <2>5. CASE i < at /\ j > at
      <3>1. i \in 1..n /\ j - 1 \in 1..n /\ new[i] = warehouse[i] /\ new[j] = warehouse[j-1]
        BY <1>3, <1>9, <2>5
      <3>2. i = j - 1
        BY <1>7, <1>10, <3>1
      <3>3. QED
        BY <1>3, <2>5, <3>2
    <2>6. CASE i > at /\ j < at
      <3>1. j \in 1..n /\ i - 1 \in 1..n /\ new[j] = warehouse[j] /\ new[i] = warehouse[i-1]
        BY <1>3, <1>9, <2>6
      <3>2. j = i - 1
        BY <1>7, <1>10, <3>1
      <3>3. QED
        BY <1>3, <2>6, <3>2
    <2>7. QED
      BY <1>3, <2>1, <2>2, <2>3, <2>4, <2>5, <2>6
  <1>11. WarehouseOK'
    BY <1>1, <1>5, <1>6, <1>10 DEF WarehouseOK, new, row
  <1>12. Clean(yaml)' /\ yaml' \in Seq(DocEntries)
    BY <1>2 DEF TypeOK, ListsOK, Clean, Distinct, Spelled
  <1>13. QED
    BY <1>2, <1>11, <1>12, EditKeeps

LEMMA DropKeeps ==
  ASSUME KeepInv, DropFromWarehouse
  PROVE  KeepInv'
  <1>1. PICK at \in DOMAIN warehouse : warehouse' = RemoveAt(warehouse, at)
    BY DEF DropFromWarehouse
  <1>2. Edit /\ yaml' = yaml /\ config' = config /\ TypeOK /\ ListsOK
    BY DEF DropFromWarehouse, Edit, KeepInv
  <1> DEFINE n == Len(warehouse)
             new == RemoveAt(warehouse, at)
  <1>3. warehouse \in Seq(Rows) /\ DOMAIN warehouse = 1..n /\ n \in Nat
    BY <1>2, SeqFacts DEF TypeOK, WarehouseOK
  <1>4. /\ new \in Seq(Rows) /\ Len(new) = n - 1
        /\ \A j \in 1..n-1 : new[j] = IF j < at THEN warehouse[j] ELSE warehouse[j+1]
    BY <1>3, RemoveAtFacts
  <1> HIDE DEF new
  <1>5. DOMAIN new = 1..n-1
    BY <1>4, SeqFacts
  <1>6. \A i, j \in 1..n : warehouse[i].letter = warehouse[j].letter => i = j
    BY <1>2, <1>3 DEF TypeOK, WarehouseOK
  <1> DEFINE old(j) == IF j < at THEN j ELSE j + 1
  <1>7. ASSUME NEW j \in 1..n-1
        PROVE  old(j) \in 1..n /\ new[j] = warehouse[old(j)]
    <2>1. old(j) \in 1..n
      BY <1>3
    <2>2. QED
      BY <1>4, <2>1
  <1>8. ASSUME NEW i \in 1..n-1, NEW j \in 1..n-1, old(i) = old(j)
        PROVE  i = j
    BY <1>3, <1>8
  <1> HIDE DEF old
  <1>9. \A i, j \in 1..n-1 : new[i].letter = new[j].letter => i = j
    BY <1>6, <1>7, <1>8
  <1>10. WarehouseOK'
    BY <1>1, <1>4, <1>5, <1>9 DEF WarehouseOK, new
  <1>11. Clean(yaml)' /\ yaml' \in Seq(DocEntries)
    BY <1>2 DEF TypeOK, ListsOK, Clean, Distinct, Spelled
  <1>12. QED
    BY <1>2, <1>10, <1>11, EditKeeps

LEMMA StutterKeeps ==
  ASSUME KeepInv, UNCHANGED vars
  PROVE  KeepInv'
  <1>1. /\ UNCHANGED <<config, warehouse, yaml, columns, doc, pc, reached, cll, mutated>>
        /\ UNCHANGED <<before, steady, runs, edits>>
        /\ SameWorld
    BY DEF vars, SameWorld
  <1>2. TypeOK /\ ListsOK /\ RunInv /\ DocumentationSurvives
    BY DEF KeepInv
  <1>3. /\ Clean(columns)' /\ Clean(before)' /\ Clean(doc)' /\ Clean(yaml)' /\ WarehouseOK'
        /\ Stages' = Stages
    BY <1>1, <1>2, CleanStays, WarehouseStays DEF ListsOK, TypeOK, Stages
  <1>4. TypeOK'
    BY <1>1, <1>2, <1>3 DEF TypeOK
  <1>5. ListsOK'
    BY <1>1, <1>2, <1>3 DEF ListsOK
  <1>6. RunInv'
    <2>1. ASSUME InRun PROVE ColumnsCarry' /\ DocCarries'
      BY <1>1, <1>2, <2>1, CarriesIs, CarryStays DEF RunInv
    <2>2. QED
      BY <1>1, <1>2, <2>1 DEF RunInv, InRun, CommitsAtOnce
  <1>7. DocumentationSurvives'
    BY <1>1, <1>2 DEF DocumentationSurvives, Ended, Entries, TextKept, CommentOf, InWarehouse,
                      NoAnswers
  <1>8. QED
    BY <1>4, <1>5, <1>6, <1>7 DEF KeepInv

\* A set lists its members once.
LEMMA SetToSeqOnce ==
  ASSUME NEW S, IsFiniteSet(S)
  PROVE  /\ Cardinality(S) \in Nat
         /\ SetToSeq(S) \in [1..Cardinality(S) -> S]
         /\ \A i, j \in 1..Cardinality(S) : SetToSeq(S)[i] = SetToSeq(S)[j] => i = j
  <1> DEFINE n == Cardinality(S)
  <1>1. n \in Nat
    BY FS_CardinalityType
  <1>2. IsFiniteSet(1..n) /\ Cardinality(1..n) = n
    BY <1>1, FS_Interval
  <1>3. PICK f \in Bijection(1..n, S) : TRUE
    BY <1>2, FS_SameCardinalityBij DEF ExistsBijection
  <1>4. f \in [1..n -> S] /\ IsInjective(f)
    BY DEF Bijection, Injection
  <1>5. SetToSeq(S) \in [1..n -> S] /\ IsInjective(SetToSeq(S))
    BY <1>4 DEF SetToSeq
  <1> HIDE DEF n
  <1>6. \A i, j \in 1..n : SetToSeq(S)[i] = SetToSeq(S)[j] => i = j
    BY <1>5 DEF IsInjective
  <1>7. QED
    BY <1>1, <1>5, <1>6 DEF n

\* The first file lists the names it documents, each once.
LEMMA DocumentedIs ==
  ASSUME NEW names, IsFiniteSet(names), \A a \in names : Spelled(a),
         \A a, b \in names : a.letter = b.letter => a = b,
         NEW section, section = Documented(names)
  PROVE  /\ section \in Seq(DocEntries) /\ Clean(section)
         /\ \A i \in DOMAIN section : section[i].name \in names
  <1> DEFINE n == Cardinality(names)
  <1>1. /\ n \in Nat /\ SetToSeq(names) \in [1..n -> names]
        /\ \A i, j \in 1..n : SetToSeq(names)[i] = SetToSeq(names)[j] => i = j
    BY SetToSeqOnce
  <1>2. DOMAIN SetToSeq(names) = 1..n
    BY <1>1
  <1> DEFINE text == CHOOSE t \in Texts : TRUE
  <1>3. text \in Descriptions
    BY ColumnAssumption DEF Descriptions
  <1>4. section = [i \in 1..n |-> [name |-> SetToSeq(names)[i], text |-> text, type |-> NoType,
                                   extra |-> TRUE]]
    BY <1>2 DEF Documented
  <1> HIDE DEF n, text
  <1>5. ASSUME NEW i \in 1..n
        PROVE  /\ section[i].name = SetToSeq(names)[i] /\ SetToSeq(names)[i] \in names
               /\ Spelled(section[i].name) /\ section[i] \in DocEntries
    <2>1. SetToSeq(names)[i] \in names
      BY <1>1
    <2>2. SetToSeq(names)[i] \in Names
      BY <2>1 DEF Spelled
    <2>3. QED
      BY <1>3, <1>4, <2>1, <2>2 DEF DocEntries, Types
  <1>6. section \in [1..n -> DocEntries] /\ DOMAIN section = 1..n
    BY <1>4, <1>5
  <1>7. section \in Seq(DocEntries)
    BY <1>1, <1>6, SeqFacts
  <1>8. Clean(section)
    <2> SUFFICES ASSUME NEW i \in 1..n, NEW j \in 1..n,
                        section[i].name.letter = section[j].name.letter
                 PROVE  i = j
      BY <1>5, <1>6 DEF Clean, Distinct
    <2>1. SetToSeq(names)[i] = SetToSeq(names)[j]
      BY <1>5
    <2>2. QED
      BY <1>1, <2>1
  <1>9. QED
    BY <1>5, <1>6, <1>7, <1>8

\* The case the first file writes its names in.
FirstNames(documented, case) == {Name(l, case[l]) : l \in documented}

LEMMA FirstNamesFacts ==
  ASSUME ConfigOK, NEW documented \in SUBSET Letters,
         NEW case \in [Letters -> IF config.output = "asis" THEN {"lower"}
                                  ELSE IF config.sortBy \in Respelled THEN Case
                                  ELSE {config.output}]
  PROVE  /\ IsFiniteSet(FirstNames(documented, case))
         /\ \A a \in FirstNames(documented, case) : Spelled(a)
         /\ \A a, b \in FirstNames(documented, case) : a.letter = b.letter => a = b
         /\ SpellingIsKept /\ config.sortBy = "database" =>
              \A a \in FirstNames(documented, case) : Output(a) = a
  <1> DEFINE names == FirstNames(documented, case)
  <1>0. names = {Name(l, case[l]) : l \in documented}
    BY DEF FirstNames
  <1> HIDE DEF names
  <1>1. \A l \in documented : /\ l \in Letters /\ case[l] \in Case
                              /\ config.output = "asis" => case[l] = "lower"
    <2> SUFFICES ASSUME NEW l \in documented
                 PROVE  /\ l \in Letters /\ case[l] \in Case
                        /\ config.output = "asis" => case[l] = "lower"
      OBVIOUS
    <2>1. case[l] \in IF config.output = "asis" THEN {"lower"}
                      ELSE IF config.sortBy \in Respelled THEN Case ELSE {config.output}
      OBVIOUS
    <2>2. QED
      BY <2>1 DEF ConfigOK, Case
  <1>2. \A a \in names : Spelled(a)
    BY <1>0, <1>1, NameRecords DEF Spelled
  <1>3. \A a, b \in names : a.letter = b.letter => a = b
    BY <1>0, <1>1, NameRecords
  <1>4. IsFiniteSet(names)
    <2>1. IsFiniteSet(documented)
      BY ColumnAssumption, FS_Subset
    <2> DEFINE f == [l \in documented |-> Name(l, case[l])]
    <2>2. f \in Surjection(documented, names)
      BY <1>0 DEF Surjection
    <2> HIDE DEF f
    <2>3. QED
      BY <2>1, <2>2, FS_Surjection
  <1>5. ASSUME SpellingIsKept, config.sortBy = "database", NEW a \in names
        PROVE  Output(a) = a
    <2>1. CASE config.output = "asis"
      BY <2>1, CaseFacts
    <2>2. CASE config.output # "asis"
      <3>1. PICK l \in documented : a = Name(l, case[l])
        BY <1>0
      <3>2. case[l] = config.output
        BY <1>5, <2>2 DEF SpellingIsKept
      <3>3. a \in Names /\ a.case = config.output
        BY <1>1, <3>1, <3>2, NameRecords
      <3>4. /\ Output(a) \in Names /\ Output(a).letter = a.letter
            /\ Output(a).case = config.output
        BY <2>2, <3>3, CaseFacts
      <3>5. QED
        BY <3>3, <3>4, NameRecords
    <2>3. QED
      BY <2>1, <2>2
  <1>6. QED
    BY <1>2, <1>3, <1>4, <1>5 DEF names

LEMMA DocumentedFacts ==
  ASSUME ConfigOK, NEW documented \in SUBSET Letters,
         NEW case \in [Letters -> IF config.output = "asis" THEN {"lower"}
                                  ELSE IF config.sortBy \in Respelled THEN Case
                                  ELSE {config.output}]
  PROVE  LET section == Documented({Name(l, case[l]) : l \in documented})
         IN  section \in Seq(DocEntries) /\ Clean(section)
  <1> DEFINE names == FirstNames(documented, case)
  <1>1. /\ IsFiniteSet(names) /\ \A a \in names : Spelled(a)
        /\ \A a, b \in names : a.letter = b.letter => a = b
    BY FirstNamesFacts
  <1> HIDE DEF names
  <1>2. Documented(names) \in Seq(DocEntries) /\ Clean(Documented(names))
    BY <1>1, DocumentedIs
  <1>3. QED
    BY <1>2 DEF names, FirstNames

LEMMA FirstWarehouse ==
  ASSUME NEW letters \in SUBSET Letters,
         warehouse = [i \in DOMAIN SetToSeq(letters) |->
                        [letter |-> SetToSeq(letters)[i], comment |-> NoText]]
  PROVE  WarehouseOK
  <1> DEFINE n == Cardinality(letters)
  <1>1. IsFiniteSet(letters)
    BY ColumnAssumption, FS_Subset
  <1>2. /\ n \in Nat /\ SetToSeq(letters) \in [1..n -> letters]
        /\ \A i, j \in 1..n : SetToSeq(letters)[i] = SetToSeq(letters)[j] => i = j
    BY <1>1, SetToSeqOnce
  <1> HIDE DEF n
  <1>3. warehouse = [i \in 1..n |-> [letter |-> SetToSeq(letters)[i], comment |-> NoText]]
    BY <1>2
  <1>4. \A i \in 1..n : warehouse[i] \in Rows /\ warehouse[i].letter = SetToSeq(letters)[i]
    BY <1>2, <1>3 DEF Rows, Descriptions
  <1>5. warehouse \in [1..n -> Rows] /\ DOMAIN warehouse = 1..n
    BY <1>3, <1>4
  <1>6. warehouse \in Seq(Rows)
    BY <1>2, <1>5, SeqFacts
  <1>7. QED
    BY <1>2, <1>4, <1>5, <1>6 DEF WarehouseOK

LEMMA InitKeeps ==
  ASSUME Init
  PROVE  KeepInv
  <1>1. config \in Configs /\ ConfigOK
    BY ConfigFacts DEF Init
  <1>2. PICK letters \in (SUBSET Letters) \ {{}}, documented \in SUBSET Letters,
             case \in [Letters -> IF config.output = "asis" THEN {"lower"}
                                  ELSE IF config.sortBy \in Respelled THEN Case
                                  ELSE {config.output}] :
          /\ warehouse = [i \in DOMAIN SetToSeq(letters) |->
                            [letter |-> SetToSeq(letters)[i], comment |-> NoText]]
          /\ yaml = Documented({Name(l, case[l]) : l \in documented})
    BY DEF Init
  <1>3. WarehouseOK
    BY <1>2, FirstWarehouse
  <1>4. yaml \in Seq(DocEntries) /\ Clean(yaml)
    BY <1>1, <1>2, DocumentedFacts
  <1>5. /\ columns = <<>> /\ doc = <<>> /\ before = yaml /\ pc = <<"idle">> /\ reached = "unasked"
        /\ cll = FALSE /\ mutated = FALSE /\ steady = NoAnswers /\ runs = 0 /\ edits = 0
    BY DEF Init
  <1>6. columns \in Seq(Columns) /\ doc \in Seq(DocEntries) /\ Clean(columns) /\ Clean(doc)
    <2>1. <<>> \in Seq(Columns) /\ <<>> \in Seq(DocEntries)
      OBVIOUS
    <2>2. DOMAIN columns = {} /\ DOMAIN doc = {}
      BY <1>5
    <2>3. QED
      BY <1>5, <2>1, <2>2 DEF Clean, Distinct
  <1>7. TypeOK
    <2>1. pc \in Stages
      BY <1>5 DEF Stages
    <2>2. reached \in Reaches /\ steady \in BOOLEAN \X Reaches
      BY <1>5 DEF Reaches, NoAnswers
    <2>3. runs \in 0..MaxRuns /\ edits \in 0..MaxEdits
      BY <1>5, ColumnAssumption
    <2>4. cll \in BOOLEAN /\ mutated \in BOOLEAN
      BY <1>5
    <2>5. before \in Seq(DocEntries)
      BY <1>4, <1>5
    <2>6. QED
      BY <1>1, <1>3, <1>4, <1>6, <2>1, <2>2, <2>3, <2>4, <2>5 DEF TypeOK
  <1>8. ListsOK
    BY <1>4, <1>5, <1>6 DEF ListsOK
  <1>9. RunInv /\ DocumentationSurvives
    BY <1>5 DEF RunInv, InRun, DocumentationSurvives, Ended
  <1>10. QED
    BY <1>7, <1>8, <1>9 DEF KeepInv

LEMMA NextKeeps ==
  ASSUME CasesAreSettled, KeepInv, [Next]_vars
  PROVE  KeepInv'
  <1>1. CASE Start
    BY <1>1, StartKeeps
  <1>2. CASE Finish
    BY <1>2, FinishKeeps
  <1>3. ASSUME NEW op \in {"inject", "remove", "sort", "types"}, Operation(op)
        PROVE  KeepInv'
    BY <1>3, OperationKeeps
  <1>4. CASE Describe
    BY <1>4, DescribeKeeps
  <1>5. CASE AddToWarehouse
    BY <1>5, AddKeeps
  <1>6. CASE DropFromWarehouse
    BY <1>6, DropKeeps
  <1>7. CASE UNCHANGED vars
    BY <1>7, StutterKeeps
  <1>8. QED
    BY <1>1, <1>2, <1>3, <1>4, <1>5, <1>6, <1>7 DEF Next

\* Under every configuration whose cases are settled, a described column that the
\* node still has stays described, and keeps what only the file knows, through
\* injection, removal, sorting, typing and both ways of committing, whatever the
\* warehouse and the lineage answered (transforms.py, sync_operations.py).
THEOREM DocumentationKept ==
  ASSUME CasesAreSettled
  PROVE  Spec => []DocumentationSurvives
  <1>1. Init => KeepInv
    BY InitKeeps
  <1>2. CasesAreSettled /\ KeepInv /\ [Next]_vars => KeepInv'
    BY NextKeeps
  <1>3. KeepInv => DocumentationSurvives
    BY DEF KeepInv
  <1>4. []CasesAreSettled
    BY PTL
  <1>5. QED
    BY <1>1, <1>2, <1>3, <1>4, PTL DEF Spec

-----------------------------------------------------------------------------
(* The columns and their order at the end of a refactor                    *)

\* What the operations that are answered ask.
Asked == IF cll THEN FromCll ELSE FromDatabase

Named(new) == NamesOf(new) \subseteq NamesOf(before) \cup {Output(r) : r \in Reported}

LEMMA AskedReports ==
  ASSUME CasesAreSettled, TypeOK, ListsOK
  PROVE  Reports(Asked) /\ NamesOf(Asked) = Reported
  BY CllReports, DatabaseReports DEF Asked, Reported

LEMMA InjectAchieves ==
  ASSUME TypeOK, ListsOK, NEW incoming, Reports(incoming), NamesOf(incoming) = Reported,
         Named(columns)
  PROVE  /\ Named(Injected(columns, incoming))
         /\ InWarehouse \subseteq LettersOf(Injected(columns, incoming))
  <1> DEFINE new == Injected(columns, incoming)
  <1>1. ConfigOK /\ WarehouseOK /\ columns \in Seq(Columns) /\ Clean(columns)
    BY ConfigFacts DEF TypeOK, ListsOK
  <1>2. InjectedSoFar(new, columns, incoming, Len(warehouse))
    BY <1>1, InjectedFacts
  <1> HIDE DEF new
  <1>3. DOMAIN warehouse = 1..Len(warehouse)
    BY <1>1, WarehouseFacts
  <1>4. InWarehouse \subseteq LettersOf(new)
    BY <1>2, <1>3 DEF InjectedSoFar, InWarehouse
  <1>5. {Output(incoming[j].name) : j \in DOMAIN incoming} \subseteq {Output(r) : r \in Reported}
    BY DEF NamesOf
  <1>6. Named(new)
    BY <1>2, <1>5 DEF Named, InjectedSoFar
  <1>7. QED
    BY <1>4, <1>6 DEF new

LEMMA RemoveAchieves ==
  ASSUME TypeOK, ListsOK, NEW incoming, Reports(incoming), Named(columns)
  PROVE  /\ Named(Removed(columns, incoming))
         /\ InWarehouse \subseteq LettersOf(columns) =>
              LettersOf(Removed(columns, incoming)) = InWarehouse
  <1> DEFINE new == Removed(columns, incoming)
  <1>1. ConfigOK /\ WarehouseOK /\ columns \in Seq(Columns) /\ Clean(columns)
    BY ConfigFacts DEF TypeOK, ListsOK
  <1>2. PICK p : /\ Picks(new, columns, p)
                 /\ {p[k] : k \in DOMAIN new}
                      = {i \in DOMAIN columns : columns[i].name.letter \in InWarehouse}
    BY <1>1, RemovedFacts
  <1> HIDE DEF new
  <1>3. /\ LettersOf(new) = {columns[p[k]].name.letter : k \in DOMAIN new}
        /\ NamesOf(new) \subseteq NamesOf(columns)
    BY <1>1, <1>2, PicksFacts
  <1>4. \A l \in LettersOf(new) : l \in InWarehouse
    BY <1>2, <1>3
  <1>5. ASSUME InWarehouse \subseteq LettersOf(columns), NEW l \in InWarehouse
        PROVE  l \in LettersOf(new)
    <2>1. PICK i \in DOMAIN columns : columns[i].name.letter = l
      BY <1>5 DEF LettersOf
    <2>2. PICK k \in DOMAIN new : p[k] = i
      BY <1>2, <2>1
    <2>3. QED
      BY <1>3, <2>1, <2>2
  <1>6. InWarehouse \subseteq LettersOf(columns) => LettersOf(new) = InWarehouse
    BY <1>4, <1>5
  <1>7. Named(new)
    BY <1>3 DEF Named
  <1>8. QED
    BY <1>6, <1>7 DEF new

LEMMA ReorderedNamed ==
  ASSUME TypeOK, ListsOK, Named(columns), NEW new, NEW p, Reorders(new, columns, p)
  PROVE  Named(new) /\ LettersOf(new) = LettersOf(columns)
  BY ReordersFacts DEF Named, TypeOK, ListsOK

LEMMA SortAchieves ==
  ASSUME TypeOK, ListsOK, NEW incoming, Reports(incoming), NamesOf(incoming) = Reported,
         Named(columns)
  PROVE  LET new == Perform("sort", incoming)
         IN  /\ Named(new) /\ LettersOf(new) = LettersOf(columns)
             /\ LettersOf(columns) = InWarehouse => Ordered(new)
  <1> DEFINE new == Perform("sort", incoming)
  <1>1. ConfigOK /\ WarehouseOK /\ columns \in Seq(Columns) /\ Clean(columns)
    BY ConfigFacts DEF TypeOK, ListsOK
  <1>2. CASE config.sortBy = "database"
    <2>1. new = SortedAsWarehouse(columns, incoming)
      BY <1>2 DEF Perform
    <2>2. PICK p : /\ Reorders(SortedAsWarehouse(columns, incoming), columns, p)
                   /\ (\A i \in DOMAIN columns : Normal(columns[i].name) \in NamesOf(incoming)) =>
                         InWarehouseOrder(SortedAsWarehouse(columns, incoming))
      BY <1>1, AsWarehouseFacts
    <2> HIDE DEF new
    <2>3. ASSUME Placed, LettersOf(columns) = InWarehouse, NEW i \in DOMAIN columns
          PROVE  Normal(columns[i].name) \in NamesOf(incoming)
      <3>1. columns[i].name \in NamesOf(before) \cup {Output(r) : r \in Reported}
        BY DEF Named, NamesOf
      <3>2. columns[i].name.letter \in InWarehouse
        BY <2>3 DEF LettersOf
      <3>3. QED
        BY <2>3, <3>1, <3>2 DEF Placed, Reported
    <2>4. LettersOf(columns) = InWarehouse => Ordered(new)
      BY <1>2, <2>1, <2>2, <2>3 DEF Ordered
    <2>5. QED
      BY <2>1, <2>2, <2>4, ReorderedNamed DEF new
  <1>3. CASE config.sortBy # "database"
    <2>1. new = SortedByName(columns)
      BY <1>3 DEF Perform
    <2>2. PICK p : Reorders(SortedByName(columns), columns, p) /\ Alphabetical(SortedByName(columns))
      BY <1>1, ByNameFacts
    <2> HIDE DEF new
    <2>3. Ordered(new)
      BY <1>3, <2>1, <2>2 DEF Ordered
    <2>4. QED
      BY <2>1, <2>2, <2>3, ReorderedNamed DEF new
  <1>4. QED
    BY <1>2, <1>3

LEMMA TypesAchieve ==
  ASSUME TypeOK, ListsOK, NEW incoming, Named(columns)
  PROVE  LET new == Typed(columns, incoming)
         IN  /\ Named(new) /\ LettersOf(new) = LettersOf(columns)
             /\ Ordered(columns) => Ordered(new)
  <1> DEFINE new == Typed(columns, incoming)
  <1>1. columns \in Seq(Columns) /\ Clean(columns)
    BY DEF TypeOK, ListsOK
  <1>2. DOMAIN new = DOMAIN columns /\ \A i \in DOMAIN columns : new[i].name = columns[i].name
    BY <1>1, TypedFacts
  <1> HIDE DEF new
  <1>3. NamesOf(new) = NamesOf(columns) /\ LettersOf(new) = LettersOf(columns)
    BY <1>2 DEF NamesOf, LettersOf
  <1>4. InWarehouseOrder(columns) => InWarehouseOrder(new)
    BY <1>2 DEF InWarehouseOrder
  <1>5. Alphabetical(columns) => Alphabetical(new)
    BY <1>2 DEF Alphabetical
  <1>6. QED
    BY <1>3, <1>4, <1>5 DEF Named, Ordered, new

LEMMA NothingAchieves ==
  ASSUME TypeOK, ListsOK, NEW op, Named(columns)
  PROVE  Named(Unanswered(op))
  <1>1. ConfigOK /\ columns \in Seq(Columns) /\ Clean(columns)
    BY ConfigFacts DEF TypeOK, ListsOK
  <1>2. Named(SortedByName(columns))
    BY <1>1, ByNameFacts, ReorderedNamed
  <1>3. QED
    BY <1>2 DEF Unanswered

LEMMA NamedStays ==
  ASSUME SameWorld
  PROVE  /\ cll' = cll => Reported' = Reported
         /\ cll' = cll /\ before' = before => (Placed' <=> Placed)
  <1>1. warehouse' = warehouse /\ config' = config
    BY DEF SameWorld
  <1>2. FromCll' = FromCll
    BY <1>1 DEF FromCll, Incoming, Name
  <1>3. FromDatabase' = FromDatabase
    BY <1>1 DEF FromDatabase, Incoming, Name, Normal, Cased
  <1>4. ASSUME cll' = cll PROVE Reported' = Reported
    BY <1>2, <1>3, <1>4 DEF Reported, NamesOf
  <1>5. ASSUME cll' = cll, before' = before PROVE Placed' <=> Placed
    BY <1>1, <1>2, <1>3, <1>5 DEF Placed, NamesOf, Output, Normal, Cased, CaseInsensitive,
       InWarehouse
  <1>6. QED
    BY <1>4, <1>5

\* What is achieved when rest is still to run.
Achieved(cols, rest) ==
  /\ rest # Pipeline => InWarehouse \subseteq LettersOf(cols)
  /\ rest \in {<<"sort", "types">>, <<"types">>, <<>>} => LettersOf(cols) = InWarehouse
  /\ rest \in {<<"types">>, <<>>} => Ordered(cols)

LEMMA StagesDiffer ==
  /\ <<"remove", "sort", "types">> \notin {<<"sort", "types">>, <<"types">>, <<>>}
  /\ <<"sort", "types">> \notin {<<"types">>, <<>>}
  /\ <<"inject", "remove", "sort", "types">> \notin
       {<<"remove", "sort", "types">>, <<"sort", "types">>, <<"types">>, <<>>}
  OBVIOUS

LEMMA AnsweredAchieves ==
  ASSUME CasesAreSettled, TypeOK, ListsOK, Named(columns), config.command = "refactor",
         NEW op \in {"inject", "remove", "sort", "types"}, Running(op),
         pc = Pipeline \/ Achieved(columns, pc)
  PROVE  Achieved(Perform(op, Asked), Tail(pc)) /\ Named(Perform(op, Asked))
  <1> DEFINE new == Perform(op, Asked)
             full == <<"inject", "remove", "sort", "types">>
  <1>1. Reports(Asked) /\ NamesOf(Asked) = Reported
    BY AskedReports
  <1>2. Pipeline = full
    BY DEF Pipeline
  <1>3. pc \in {full, <<"remove", "sort", "types">>, <<"sort", "types">>, <<"types">>}
    <2>1. pc \in Stages /\ pc # <<"idle">> /\ pc # <<>>
      BY HeadFacts DEF TypeOK
    <2>2. QED
      BY <2>1 DEF Stages
  <1>4. CASE pc = full
    <2>1. op = "inject" /\ Tail(pc) = <<"remove", "sort", "types">>
      BY <1>4, HeadFacts, TailFacts DEF TypeOK
    <2>2. new = Injected(columns, Asked)
      BY <2>1 DEF Perform
    <2>3. Named(new) /\ InWarehouse \subseteq LettersOf(new)
      BY <1>1, <2>2, InjectAchieves
    <2>4. QED
      BY <2>1, <2>3, StagesDiffer DEF Achieved
  <1>5. CASE pc = <<"remove", "sort", "types">>
    <2>1. op = "remove" /\ Tail(pc) = <<"sort", "types">>
      BY <1>5, HeadFacts, TailFacts DEF TypeOK
    <2>2. new = Removed(columns, Asked)
      BY <2>1 DEF Perform
    <2>3. InWarehouse \subseteq LettersOf(columns)
      BY <1>2, <1>5, StagesDiffer DEF Achieved
    <2>4. Named(new) /\ LettersOf(new) = InWarehouse
      BY <1>1, <2>2, <2>3, RemoveAchieves
    <2>5. QED
      BY <2>1, <2>4, StagesDiffer DEF Achieved
  <1>6. CASE pc = <<"sort", "types">>
    <2>1. op = "sort" /\ Tail(pc) = <<"types">>
      BY <1>6, HeadFacts, TailFacts DEF TypeOK
    <2>2. LettersOf(columns) = InWarehouse
      BY <1>2, <1>6, StagesDiffer DEF Achieved
    <2>3. Named(new) /\ LettersOf(new) = LettersOf(columns) /\ Ordered(new)
      BY <1>1, <2>1, <2>2, SortAchieves
    <2>4. QED
      BY <2>1, <2>2, <2>3 DEF Achieved
  <1>7. CASE pc = <<"types">>
    <2>1. op = "types"
      BY <1>7, HeadFacts DEF TypeOK
    <2>2. new = Typed(columns, Asked)
      BY <2>1 DEF Perform
    <2>3. LettersOf(columns) = InWarehouse /\ Ordered(columns)
      BY <1>2, <1>7, StagesDiffer DEF Achieved
    <2>4. Named(new) /\ LettersOf(new) = LettersOf(columns) /\ Ordered(new)
      BY <2>2, <2>3, TypesAchieve
    <2>5. QED
      BY <2>3, <2>4 DEF Achieved
  <1>8. QED
    BY <1>3, <1>4, <1>5, <1>6, <1>7

LEMMA PerformNamed ==
  ASSUME CasesAreSettled, TypeOK, ListsOK, Named(columns),
         NEW op \in {"inject", "remove", "sort", "types"}
  PROVE  Named(Perform(op, Asked))
  <1>1. Reports(Asked) /\ NamesOf(Asked) = Reported
    BY AskedReports
  <1>2. Named(Perform("inject", Asked))
    BY <1>1, InjectAchieves DEF Perform
  <1>3. Named(Perform("remove", Asked))
    BY <1>1, RemoveAchieves DEF Perform
  <1>4. Named(Perform("sort", Asked))
    BY <1>1, SortAchieves
  <1>5. Named(Perform("types", Asked))
    BY TypesAchieve DEF Perform
  <1>6. QED
    BY <1>2, <1>3, <1>4, <1>5

\* What an atomic pipeline commits has the manifest's names.
SameNames(section, cols) ==
  DOMAIN section = DOMAIN cols /\ \A i \in DOMAIN section : section[i].name = cols[i].name

LEMMA AtomicNames ==
  ASSUME CasesAreSettled, TypeOK, ListsOK, CommitsAtOnce, NEW new, Operated(new), Passes(new)
  PROVE  \E section : yaml' = section /\ SameNames(section, new)
  <1> DEFINE section == Synced(new, doc)
  <1>1. ConfigOK /\ config.output = "asis"
    BY ConfigFacts DEF TypeOK, CommitsAtOnce
  <1>2. new \in Seq(Columns) /\ Clean(new) /\ doc \in Seq(DocEntries) /\ Distinct(doc)
    BY DEF Passes, TypeOK, ListsOK, Clean
  <1>3. /\ DOMAIN section = DOMAIN new
        /\ \A i \in DOMAIN new : section[i].name = Output(new[i].name)
    BY <1>1, <1>2, SyncedFacts
  <1>4. yaml' = section
    BY DEF Operated, Done, Committed, CommitsAtOnce
  <1> HIDE DEF section
  <1>5. \A a : Output(a) = a
    BY <1>1, CaseFacts
  <1>6. QED
    BY <1>3, <1>4, <1>5 DEF SameNames

\* The order that cols has is the manifest's.
LEMMA OrderStays ==
  ASSUME SameWorld, cll' = cll, before' = before, NEW cols, columns' = cols
  PROVE  /\ Named(cols) => Named(columns)'
         /\ InWarehouse \subseteq LettersOf(cols) => InWarehouse' \subseteq LettersOf(columns)'
         /\ LettersOf(cols) = InWarehouse => LettersOf(columns)' = InWarehouse'
         /\ Ordered(cols) => Ordered(columns)'
  <1>1. Reported' = Reported /\ (Placed' <=> Placed) /\ InWarehouse' = InWarehouse
    BY NamedStays, WarehouseStays
  <1>2. warehouse' = warehouse /\ config' = config
    BY DEF SameWorld
  <1>3. Named(cols) => Named(columns)'
    BY <1>1, <1>2 DEF Named, NamesOf, Output, Cased, CaseInsensitive
  <1>4. LettersOf(columns)' = LettersOf(cols)
    BY DEF LettersOf
  <1>5. InWarehouseOrder(cols) => InWarehouseOrder(columns)'
    BY <1>2 DEF InWarehouseOrder, CommentOf
  <1>6. Alphabetical(cols) => Alphabetical(columns)'
    BY <1>2 DEF Alphabetical, Output, Cased, CaseInsensitive
  <1>7. Ordered(cols) => Ordered(columns)'
    BY <1>1, <1>2, <1>5, <1>6 DEF Ordered
  <1>8. QED
    BY <1>1, <1>3, <1>4, <1>7

LEMMA OperationOrders ==
  ASSUME CasesAreSettled, KeepInv, OrderInv,
         NEW op \in {"inject", "remove", "sort", "types"}, Operation(op)
  PROVE  OrderInv'
  <1>1. TypeOK /\ ListsOK
    BY DEF KeepInv
  <1>2. /\ Running(op)
        /\ \E new :
              /\ Operated(new) /\ Passes(new)
              /\ \/ cll /\ new = Perform(op, FromCll) /\ reached' = reached
                 \/ /\ ~cll /\ new = Perform(op, FromDatabase)
                    /\ reached' = IF reached \in {"unasked", "always"} THEN "always" ELSE "late"
                 \/ ~cll /\ new = Unanswered(op) /\ reached' = "failed"
    BY <1>1, OperationIs
  <1>3. PICK new :
          /\ Operated(new) /\ Passes(new)
          /\ \/ cll /\ new = Perform(op, FromCll) /\ reached' = reached
             \/ /\ ~cll /\ new = Perform(op, FromDatabase)
                /\ reached' = IF reached \in {"unasked", "always"} THEN "always" ELSE "late"
             \/ ~cll /\ new = Unanswered(op) /\ reached' = "failed"
    BY <1>2
  <1>4. /\ pc' = Tail(pc) /\ columns' = new
        /\ UNCHANGED <<config, warehouse, cll, before>> /\ SameWorld
    BY <1>3 DEF Operated, Done, SameWorld
  <1>5. InRun
    BY <1>1, <1>2, HeadFacts DEF TypeOK, InRun
  <1> SUFFICES ASSUME config.command = "refactor"
               PROVE  OrderInv'
    BY <1>4 DEF OrderInv
  <1>6. /\ Named(columns)
        /\ ~cll /\ reached = "unasked" => pc = Pipeline
        /\ Answered => pc = Pipeline \/ Achieved(columns, pc)
    BY <1>5 DEF OrderInv, Named, Achieved
  <1>7. Pipeline' = Pipeline /\ (CommitsAtOnce' <=> CommitsAtOnce)
    BY <1>4 DEF Pipeline, CommitsAtOnce
  <1>8. Named(new)
    <2>2. CASE new = Unanswered(op)
      BY <1>1, <1>6, <2>2, NothingAchieves
    <2>3. CASE new = Perform(op, Asked)
      BY <1>1, <1>6, <2>3, PerformNamed
    <2>4. QED
      BY <1>3, <2>2, <2>3 DEF Asked
  <1>9. Answered' => Achieved(new, Tail(pc))
    <2> SUFFICES ASSUME Answered' PROVE Achieved(new, Tail(pc))
      OBVIOUS
    <2>1. cll \/ reached' = "always"
      BY <1>4 DEF Answered
    <2>2. new = Perform(op, Asked)
      BY <1>3, <2>1 DEF Asked
    <2>3. Answered \/ pc = Pipeline
      BY <1>3, <1>6, <2>1 DEF Answered
    <2>4. QED
      BY <1>1, <1>2, <1>6, <2>2, <2>3, AnsweredAchieves
  <1>10. ~cll => reached' # "unasked"
    BY <1>3
  <1>11. CommitsAtOnce => \E section : yaml' = section /\ SameNames(section, new)
    BY <1>1, <1>3, AtomicNames
  <1>12. CommitsAtOnce => /\ DOMAIN yaml' = DOMAIN columns'
                          /\ \A i \in DOMAIN yaml' : yaml'[i].name = columns'[i].name
    BY <1>4, <1>11 DEF SameNames
  <1>13. Named(columns)'
    BY <1>4, <1>8, OrderStays
  <1>14. Answered' => Achieved(columns, pc)'
    BY <1>4, <1>7, <1>9, OrderStays DEF Achieved
  <1>15. QED
    BY <1>4, <1>7, <1>10, <1>12, <1>13, <1>14 DEF OrderInv, Named, Achieved

LEMMA StartOrders ==
  ASSUME KeepInv, Start
  PROVE  OrderInv'
  <1>1. TypeOK /\ ListsOK /\ yaml \in Seq(DocEntries) /\ Distinct(yaml)
    BY DEF KeepInv, TypeOK, ListsOK, Clean
  <1>2. /\ pc' = Pipeline /\ columns' = Parsed(yaml) /\ before' = yaml /\ yaml' = yaml
        /\ UNCHANGED <<config, warehouse>>
    BY DEF Start
  <1> DEFINE new == Parsed(yaml)
  <1>3. new = [i \in DOMAIN yaml |-> Plain(yaml[i])]
    BY <1>1, ParsedIs
  <1> HIDE DEF new
  <1>4. DOMAIN new = DOMAIN yaml /\ \A i \in DOMAIN yaml : new[i].name = yaml[i].name
    BY <1>3 DEF Plain
  <1>5. NamesOf(columns)' \subseteq NamesOf(before)'
    BY <1>2, <1>4 DEF NamesOf, new
  <1>6. DOMAIN yaml' = DOMAIN columns' /\ \A i \in DOMAIN yaml' : yaml'[i].name = columns'[i].name
    BY <1>2, <1>4 DEF new
  <1>7. Pipeline' = Pipeline
    BY <1>2 DEF Pipeline
  <1>8. config.command = "refactor" =>
          pc' \notin {<<"sort", "types">>, <<"types">>, <<>>}
    BY <1>2, StagesDiffer DEF Pipeline
  <1>9. QED
    BY <1>2, <1>5, <1>6, <1>7, <1>8 DEF OrderInv

\* A list that has the warehouse's columns, each once, is as long as it.
LEMMA AsLong ==
  ASSUME WarehouseOK, NEW cols \in Seq(Columns), Distinct(cols), LettersOf(cols) = InWarehouse
  PROVE  Len(cols) = Len(warehouse)
  <1> DEFINE m == Len(cols)
             n == Len(warehouse)
             f == [i \in 1..m |-> cols[i].name.letter]
             g == [i \in 1..n |-> warehouse[i].letter]
  <1>1. m \in Nat /\ DOMAIN cols = 1..m /\ n \in Nat /\ DOMAIN warehouse = 1..n
    BY SeqFacts, WarehouseFacts
  <1>2. f \in Bijection(1..m, InWarehouse)
    <2>1. \A i \in 1..m : f[i] \in InWarehouse
      BY <1>1 DEF LettersOf
    <2>2. \A i, j \in 1..m : f[i] = f[j] => i = j
      BY <1>1 DEF Distinct
    <2>3. \A l \in InWarehouse : \E i \in 1..m : f[i] = l
      BY <1>1 DEF LettersOf
    <2>4. f \in [1..m -> InWarehouse]
      BY <2>1
    <2> HIDE DEF f
    <2>5. QED
      BY <2>2, <2>3, <2>4 DEF Bijection, Injection, Surjection, IsInjective
  <1>3. g \in Bijection(1..n, InWarehouse)
    <2>1. \A i \in 1..n : g[i] \in InWarehouse
      BY <1>1 DEF InWarehouse
    <2>2. \A i, j \in 1..n : g[i] = g[j] => i = j
      BY <1>1 DEF WarehouseOK
    <2>3. \A l \in InWarehouse : \E i \in 1..n : g[i] = l
      BY <1>1 DEF InWarehouse
    <2>4. g \in [1..n -> InWarehouse]
      BY <2>1
    <2> HIDE DEF g
    <2>5. QED
      BY <2>2, <2>3, <2>4 DEF Bijection, Injection, Surjection, IsInjective
  <1> HIDE DEF f, g, m, n
  <1>4. ExistsBijection(1..m, InWarehouse) /\ ExistsBijection(1..n, InWarehouse)
    BY <1>2, <1>3 DEF ExistsBijection
  <1>5. /\ IsFiniteSet(1..m) /\ Cardinality(1..m) = m
        /\ IsFiniteSet(1..n) /\ Cardinality(1..n) = n
    BY <1>1, FS_Interval
  <1>6. Cardinality(InWarehouse) = m /\ Cardinality(InWarehouse) = n
    BY <1>4, <1>5, FS_Bijection
  <1>7. QED
    BY <1>6 DEF m, n

\* What a refactor that commits leaves in the file.
LEMMA FinalNames ==
  ASSUME CasesAreSettled, PipelinesCommit, TypeOK, ListsOK, OrderInv, Finish,
         config.command = "refactor", ~config.dryRun
  PROVE  \E section : /\ yaml' = section /\ DOMAIN section = DOMAIN columns
                      /\ \A i \in DOMAIN columns : section[i].name = Output(columns[i].name)
                      /\ Len(section) = Len(columns)
  <1>1. ConfigOK /\ (config.mode = "atomic" => config.output = "asis") /\ config.mode # "none"
    BY ConfigFacts DEF TypeOK, PipelinesCommit
  <1>2. /\ columns \in Seq(Columns) /\ Clean(columns) /\ doc \in Seq(DocEntries) /\ Distinct(doc)
        /\ yaml \in Seq(DocEntries)
    BY DEF TypeOK, ListsOK, Clean
  <1>3. ASSUME NEW section \in Seq(DocEntries), DOMAIN section = DOMAIN columns
        PROVE  Len(section) = Len(columns)
    <2>1. /\ Len(section) \in Nat /\ DOMAIN section = 1..Len(section)
          /\ Len(columns) \in Nat /\ DOMAIN columns = 1..Len(columns)
      BY <1>2, SeqFacts
    <2> DEFINE m == Len(section)
               n == Len(columns)
    <2>2. m \in Nat /\ n \in Nat /\ 1..m = 1..n
      BY <1>3, <2>1
    <2> HIDE DEF m, n
    <2>3. m > 0 => m \in 1..m
      BY <2>2
    <2>4. n > 0 => n \in 1..n
      BY <2>2
    <2>5. m > 0 => m <= n
      BY <2>2, <2>3
    <2>6. n > 0 => n <= m
      BY <2>2, <2>4
    <2>7. m = n
      BY <2>2, <2>5, <2>6
    <2>8. QED
      BY <2>7 DEF m, n
  <1>4. CASE config.mode = "batch"
    <2> DEFINE section == Synced(columns, doc)
    <2>1. /\ section \in Seq(DocEntries) /\ DOMAIN section = DOMAIN columns
          /\ \A i \in DOMAIN columns : section[i].name = Output(columns[i].name)
      BY <1>1, <1>2, SyncedFacts
    <2>2. yaml' = section
      BY <1>4 DEF Finish, Committed
    <2> HIDE DEF section
    <2>3. QED
      BY <1>3, <2>1, <2>2
  <1>5. CASE config.mode = "atomic"
    <2>1. yaml' = yaml /\ CommitsAtOnce /\ InRun
      BY <1>5 DEF Finish, CommitsAtOnce, InRun
    <2>2. DOMAIN yaml = DOMAIN columns /\ \A i \in DOMAIN yaml : yaml[i].name = columns[i].name
      BY <2>1 DEF OrderInv
    <2>3. \A a : Output(a) = a
      BY <1>1, <1>5, CaseFacts
    <2>4. QED
      BY <1>2, <1>3, <2>1, <2>2, <2>3
  <1>6. QED
    BY <1>1, <1>4, <1>5 DEF ConfigOK

\* What FileAgrees says of the file.
Covers(section, rows) ==
  /\ Len(section) = Len(rows)
  /\ {section[i].name.letter : i \in DOMAIN section} = {rows[i].letter : i \in DOMAIN rows}
InOrder(section, rows, sortBy) ==
  LET Place(l) == CHOOSE i \in DOMAIN rows : rows[i].letter = l
  IN  \A i, j \in DOMAIN section : i < j =>
        IF sortBy = "database"
        THEN Place(section[i].name.letter) < Place(section[j].name.letter)
        ELSE section[i].name.case = section[j].name.case
             => section[i].name.letter < section[j].name.letter

Expected == Ended /\ config.command = "refactor" /\ ~config.dryRun /\ Answered

LEMMA AgreesIs ==
  /\ FileAgrees <=>
       (Expected => /\ Covers(yaml, warehouse)
                    /\ (config.sortBy = "database" => Placed) =>
                          InOrder(yaml, warehouse, config.sortBy))
  /\ FileAgrees' <=>
       (Expected' => /\ Covers(yaml', warehouse')
                     /\ (config'.sortBy = "database" => Placed') =>
                           InOrder(yaml', warehouse', config'.sortBy))
  BY DEF FileAgrees, Expected, Answered, Covers, InOrder, InWarehouse, CommentOf

LEMMA FinishAgrees ==
  ASSUME CasesAreSettled, PipelinesCommit, TypeOK, ListsOK, OrderInv, Finish
  PROVE  FileAgrees'
  <1>1. /\ pc = <<>> /\ UNCHANGED <<config, warehouse, columns, reached, cll, before>>
        /\ SameWorld /\ InRun
    BY DEF Finish, SameWorld, InRun
  <1>2. Placed' <=> Placed
    BY <1>1, NamedStays
  <1> SUFFICES ASSUME config.command = "refactor", ~config.dryRun, Answered
               PROVE  /\ Covers(yaml', warehouse)
                      /\ (config.sortBy = "database" => Placed) =>
                            InOrder(yaml', warehouse, config.sortBy)
    BY <1>1, <1>2, AgreesIs DEF Expected, Answered
  <1>3. LettersOf(columns) = InWarehouse /\ Ordered(columns)
    BY <1>1 DEF OrderInv
  <1>4. PICK section : /\ yaml' = section /\ DOMAIN section = DOMAIN columns
                       /\ \A i \in DOMAIN columns : section[i].name = Output(columns[i].name)
                       /\ Len(section) = Len(columns)
    BY FinalNames
  <1>5. /\ ConfigOK /\ WarehouseOK /\ columns \in Seq(Columns) /\ Distinct(columns)
        /\ \A i \in DOMAIN columns : columns[i].name \in Names
    BY ConfigFacts DEF TypeOK, ListsOK, Clean, Spelled
  <1>6. Len(columns) = Len(warehouse)
    BY <1>3, <1>5, AsLong
  <1>7. \A i \in DOMAIN columns : section[i].name.letter = columns[i].name.letter
    BY <1>4, <1>5, CaseFacts
  <1>8. {section[i].name.letter : i \in DOMAIN section} = InWarehouse
    BY <1>3, <1>4, <1>7 DEF LettersOf
  <1>9. Covers(section, warehouse)
    BY <1>4, <1>6, <1>8 DEF Covers, InWarehouse
  <1>10. ASSUME config.sortBy = "database" => Placed
         PROVE  InOrder(section, warehouse, config.sortBy)
    <2> SUFFICES ASSUME NEW i \in DOMAIN section, NEW j \in DOMAIN section, i < j
                 PROVE  IF config.sortBy = "database"
                        THEN CommentOf(section[i].name.letter) < CommentOf(section[j].name.letter)
                        ELSE section[i].name.case = section[j].name.case
                               => section[i].name.letter < section[j].name.letter
      BY DEF InOrder, CommentOf
    <2>1. CASE config.sortBy = "database"
      <3>1. InWarehouseOrder(columns)
        BY <1>3, <1>10, <2>1 DEF Ordered
      <3>2. QED
        BY <1>4, <1>7, <2>1, <3>1 DEF InWarehouseOrder
    <2>2. CASE config.sortBy # "database"
      <3>1. Alphabetical(columns)
        BY <1>3, <2>2 DEF Ordered
      <3>2. QED
        BY <1>4, <1>7, <2>2, <3>1 DEF Alphabetical
    <2>3. QED
      BY <2>1, <2>2
  <1>11. QED
    BY <1>4, <1>9, <1>10

\* Between the runs nothing is promised of an edited file.
LEMMA EditAgrees ==
  ASSUME TypeOK, Edit
  PROVE  OrderInv' /\ FileAgrees'
  BY DEF Edit, OrderInv, InRun, FileAgrees, Ended

LEMMA StutterAgrees ==
  ASSUME OrderInv, FileAgrees, UNCHANGED vars
  PROVE  OrderInv' /\ FileAgrees'
  <1>1. /\ UNCHANGED <<config, warehouse, yaml, columns, doc, pc, reached, cll, mutated>>
        /\ UNCHANGED <<before, steady, runs, edits>> /\ SameWorld
    BY DEF vars, SameWorld
  <1>2. /\ InWarehouse' = InWarehouse /\ (Placed' <=> Placed) /\ Reported' = Reported
        /\ Pipeline' = Pipeline
    BY <1>1, WarehouseStays, NamedStays DEF Pipeline
  <1>3. FileAgrees'
    <2>1. Expected' <=> Expected
      BY <1>1 DEF Expected, Ended, NoAnswers, Answered
    <2>2. QED
      BY <1>1, <1>2, <2>1, AgreesIs
  <1>4. OrderInv'
    <2>1. /\ Named(columns) => Named(columns)'
          /\ InWarehouse \subseteq LettersOf(columns) => InWarehouse' \subseteq LettersOf(columns)'
          /\ LettersOf(columns) = InWarehouse => LettersOf(columns)' = InWarehouse'
          /\ Ordered(columns) => Ordered(columns)'
      BY <1>1, OrderStays
    <2>2. QED
      BY <1>1, <1>2, <2>1 DEF OrderInv, InRun, Answered, CommitsAtOnce, Named
  <1>5. QED
    BY <1>3, <1>4

LEMMA NextAgrees ==
  ASSUME CasesAreSettled, PipelinesCommit, AgreeInv, [Next]_vars
  PROVE  AgreeInv'
  <1>1. KeepInv /\ KeepInv' /\ TypeOK /\ ListsOK /\ OrderInv /\ FileAgrees
    BY NextKeeps DEF AgreeInv, KeepInv
  <1>2. CASE Start
    <2>1. pc' # <<"idle">>
      BY <1>2 DEF Start, Pipeline
    <2>2. QED
      BY <1>1, <1>2, <2>1, StartOrders DEF AgreeInv, FileAgrees, Ended
  <1>3. CASE Finish
    <2>1. OrderInv'
      BY <1>3 DEF Finish, OrderInv, InRun
    <2>2. QED
      BY <1>1, <1>3, <2>1, FinishAgrees DEF AgreeInv
  <1>4. ASSUME NEW op \in {"inject", "remove", "sort", "types"}, Operation(op)
        PROVE  AgreeInv'
    <2>1. Running(op)
      BY <1>1, <1>4, OperationIs
    <2>2. pc' = Tail(pc)
      BY <1>4 DEF Operation, WithLineage, WithDatabase, WithNothing, Done
    <2>3. pc' # <<"idle">>
      BY <1>1, <2>1, <2>2, HeadFacts DEF TypeOK
    <2>4. QED
      BY <1>1, <1>4, <2>3, OperationOrders DEF AgreeInv, FileAgrees, Ended
  <1>5. CASE Describe \/ AddToWarehouse \/ DropFromWarehouse
    <2>1. Edit
      BY <1>5 DEF Describe, AddToWarehouse, DropFromWarehouse
    <2>2. QED
      BY <1>1, <2>1, EditAgrees DEF AgreeInv
  <1>6. CASE UNCHANGED vars
    BY <1>1, <1>6, StutterAgrees DEF AgreeInv
  <1>7. QED
    BY <1>2, <1>3, <1>4, <1>5, <1>6 DEF Next

\* At the end of a refactor the operations of which were all answered, the file
\* that it committed has the node's columns, each once, in the configured order,
\* under the hypothesis on names that sort_columns_as_in_database needs (Placed).
THEOREM FilesAgree ==
  ASSUME CasesAreSettled, PipelinesCommit
  PROVE  Spec => []FileAgrees
  <1>1. Init => AgreeInv
    <2>1. ASSUME Init PROVE OrderInv /\ FileAgrees
      BY <2>1 DEF Init, OrderInv, InRun, FileAgrees, Ended
    <2>2. QED
      BY <2>1, InitKeeps DEF AgreeInv
  <1>2. CasesAreSettled /\ PipelinesCommit /\ AgreeInv /\ [Next]_vars => AgreeInv'
    BY NextAgrees
  <1>3. AgreeInv => FileAgrees
    BY DEF AgreeInv
  <1>4. [](CasesAreSettled /\ PipelinesCommit)
    BY PTL
  <1>5. QED
    BY <1>1, <1>2, <1>3, <1>4, PTL DEF Spec

-----------------------------------------------------------------------------
(* A second run: what an operation leaves is what it finds right            *)

WrittenAs(cols) == \A i \in DOMAIN cols : Output(cols[i].name) = cols[i].name

NoMore(cols) == LettersOf(cols) \subseteq InWarehouse

AllTyped(cols) == \A i \in DOMAIN cols : cols[i].type = WarehouseType

KeysRise(cols, incoming) ==
  IF config.sortBy = "database" THEN PlacesRise(cols, incoming) ELSE RanksRise(cols)

SortOf(cols, incoming) ==
  IF config.sortBy = "database" THEN SortedAsWarehouse(cols, incoming) ELSE SortedByName(cols)

LEMMA OutputTwice ==
  ASSUME ConfigOK
  PROVE  \A a \in Names : Output(Output(a)) = Output(a)
  <1> SUFFICES ASSUME NEW a \in Names PROVE Output(Output(a)) = Output(a)
    OBVIOUS
  <1>1. CASE config.output = "asis"
    BY <1>1, CaseFacts
  <1>2. CASE config.output # "asis"
    <2>1. Output(a) \in Names /\ Output(a).letter = a.letter /\ Output(a).case = config.output
      BY <1>2, CaseFacts
    <2>2. /\ Output(Output(a)) \in Names /\ Output(Output(a)).letter = a.letter
          /\ Output(Output(a)).case = config.output
      BY <1>2, <2>1, CaseFacts
    <2>3. QED
      BY <2>1, <2>2, NameRecords
  <1>3. QED
    BY <1>1, <1>2

LEMMA InjectTidies ==
  ASSUME ConfigOK, WarehouseOK, NEW cols \in Seq(Columns), Clean(cols),
         NEW incoming, Reports(incoming), NEW new, new = Injected(cols, incoming)
  PROVE  /\ Has(new, incoming) /\ (WrittenAs(cols) => WrittenAs(new))
         /\ Has(cols, incoming) => new = cols
  <1>1. InjectedSoFar(new, cols, incoming, Len(warehouse))
    BY InjectedFacts
  <1>2. DOMAIN incoming = 1..Len(warehouse)
    BY WarehouseFacts
  <1>3. Has(new, incoming)
    BY <1>1, <1>2 DEF InjectedSoFar, Has
  <1>4. ASSUME WrittenAs(cols) PROVE WrittenAs(new)
    <2>1. \A a \in NamesOf(cols) : Output(a) = a
      BY <1>4 DEF WrittenAs, NamesOf
    <2>2. \A j \in DOMAIN incoming : incoming[j].name \in Names
      BY ColumnFields DEF Reports
    <2>3. \A a \in NamesOf(new) : Output(a) = a
      BY <1>1, <2>1, <2>2, OutputTwice DEF InjectedSoFar
    <2>4. QED
      BY <2>3 DEF WrittenAs, NamesOf
  <1>5. QED
    BY <1>3, <1>4, InjectStays

LEMMA RemoveTidies ==
  ASSUME ConfigOK, WarehouseOK, NEW cols \in Seq(Columns), Clean(cols),
         NEW incoming, Reports(incoming), NEW new, new = Removed(cols, incoming)
  PROVE  /\ Has(cols, incoming) => Has(new, incoming)
         /\ WrittenAs(cols) => WrittenAs(new)
         /\ NoMore(new) /\ (NoMore(cols) => new = cols)
  <1>1. PICK p : /\ Picks(new, cols, p)
                 /\ {p[k] : k \in DOMAIN new}
                      = {i \in DOMAIN cols : cols[i].name.letter \in InWarehouse}
                 /\ LettersOf(cols) \subseteq InWarehouse => new = cols
    BY RemovedFacts
  <1>2. \A k \in DOMAIN new : p[k] \in DOMAIN cols /\ new[k] = cols[p[k]]
    BY <1>1 DEF Picks
  <1>3. NoMore(new)
    <2>1. \A k \in DOMAIN new : cols[p[k]].name.letter \in InWarehouse
      BY <1>1
    <2>2. QED
      BY <1>2, <2>1 DEF NoMore, LettersOf
  <1>4. ASSUME WrittenAs(cols) PROVE WrittenAs(new)
    BY <1>2, <1>4 DEF WrittenAs
  <1>5. ASSUME Has(cols, incoming), NEW k \in DOMAIN incoming PROVE Taken(new, incoming[k])
    <2>1. PICK i \in DOMAIN cols :
            /\ cols[i].name.letter = incoming[k].name.letter
            /\ config.kind = "source" /\ incoming[k].text # NoText =>
                 cols[i].text = incoming[k].text
      BY <1>5 DEF Has, Taken
    <2>2. cols[i].name.letter \in InWarehouse
      BY <2>1, WarehouseFacts DEF Reports
    <2>3. PICK m \in DOMAIN new : p[m] = i
      BY <1>1, <2>2
    <2>4. new[m] = cols[i]
      BY <1>2, <2>3
    <2>5. QED
      BY <2>1, <2>4 DEF Taken
  <1>6. QED
    BY <1>1, <1>3, <1>4, <1>5 DEF Has, NoMore

LEMMA SortTidies ==
  ASSUME ConfigOK, WarehouseOK, NEW cols \in Seq(Columns), Clean(cols),
         NEW incoming, Reports(incoming), NEW new, new = SortOf(cols, incoming)
  PROVE  /\ Has(cols, incoming) => Has(new, incoming)
         /\ WrittenAs(cols) => WrittenAs(new)
         /\ NoMore(cols) => NoMore(new)
         /\ KeysRise(new, incoming) /\ (KeysRise(cols, incoming) => new = cols)
  <1>1. /\ \E p : Reorders(new, cols, p)
        /\ KeysRise(new, incoming) /\ (KeysRise(cols, incoming) => new = cols)
    <2>1. CASE config.sortBy = "database"
      <3>1. new = SortedAsWarehouse(cols, incoming)
        BY <2>1 DEF SortOf
      <3>2. QED
        BY <2>1, <3>1, AsWarehouseFacts DEF KeysRise
    <2>2. CASE config.sortBy # "database"
      <3>1. new = SortedByName(cols)
        BY <2>2 DEF SortOf
      <3>2. QED
        BY <2>2, <3>1, ByNameFacts DEF KeysRise
    <2>3. QED
      BY <2>1, <2>2
  <1>2. PICK p : Reorders(new, cols, p)
    BY <1>1
  <1>3. /\ LettersOf(new) = LettersOf(cols) /\ NamesOf(new) \subseteq NamesOf(cols)
        /\ \A i \in DOMAIN cols : \E k \in DOMAIN new : new[k] = cols[i]
    BY <1>2, ReordersFacts
  <1>4. Has(cols, incoming) => Has(new, incoming)
    BY <1>3 DEF Has, Taken
  <1>5. ASSUME WrittenAs(cols) PROVE WrittenAs(new)
    <2>1. \A a \in NamesOf(cols) : Output(a) = a
      BY <1>5 DEF WrittenAs, NamesOf
    <2>2. \A a \in NamesOf(new) : Output(a) = a
      BY <1>3, <2>1
    <2>3. QED
      BY <2>2 DEF WrittenAs, NamesOf
  <1>6. QED
    BY <1>1, <1>3, <1>4, <1>5 DEF NoMore

\* A list with the names and the texts of another is as tidy.
LEMMA SameTidiness ==
  ASSUME NEW cols, NEW new, DOMAIN new = DOMAIN cols,
         \A i \in DOMAIN cols : new[i].name = cols[i].name /\ new[i].text = cols[i].text,
         NEW incoming
  PROVE  /\ Has(cols, incoming) => Has(new, incoming)
         /\ WrittenAs(cols) => WrittenAs(new)
         /\ NoMore(cols) => NoMore(new)
         /\ KeysRise(cols, incoming) => KeysRise(new, incoming)
  <1>1. Has(cols, incoming) => Has(new, incoming)
    BY DEF Has, Taken
  <1>2. WrittenAs(cols) => WrittenAs(new)
    BY DEF WrittenAs
  <1>3. LettersOf(new) = LettersOf(cols)
    BY DEF LettersOf
  <1>4. PlacesRise(cols, incoming) => PlacesRise(new, incoming)
    BY DEF PlacesRise
  <1>5. RanksRise(cols) => RanksRise(new)
    BY DEF RanksRise
  <1>6. QED
    BY <1>1, <1>2, <1>3, <1>4, <1>5 DEF NoMore, KeysRise

\* What an operation is answered with, and whether it is answered.
AskedOf(c) == IF c THEN FromCll ELSE FromDatabase
Resolved(c, r) == c \/ r = "always"

\* What a file must be for a run that is answered so to leave it alone.
Settled(cols, c, r) ==
  /\ WrittenAs(cols)
  /\ Resolved(c, r) =>
       /\ Has(cols, AskedOf(c))
       /\ config.command = "refactor" => NoMore(cols) /\ (c \/ AllTyped(cols))
  /\ Resolved(c, r) \/ config.sortBy # "database" => KeysRise(cols, AskedOf(c))

\* What the operations have made of that when rest is still to run.
Tidy(cols, rest, c, r) ==
  /\ config.sortBy = "database" => WrittenAs(cols)
  /\ ~c /\ r = "unasked" => rest = Pipeline
  /\ Resolved(c, r) =>
       /\ rest # Pipeline => Has(cols, AskedOf(c))
       /\ config.command = "refactor" =>
            /\ rest \in {<<"sort", "types">>, <<"types">>, <<>>} => NoMore(cols)
            /\ ~c /\ rest = <<>> => AllTyped(cols)
  /\ Resolved(c, r) \/ config.sortBy # "database" =>
       (rest \in {<<"types">>, <<>>} => KeysRise(cols, AskedOf(c)))

LEMMA AskedTypes ==
  ASSUME TypeOK
  PROVE  /\ \A k \in DOMAIN FromCll : FromCll[k].type = NoType
         /\ \A k \in DOMAIN FromDatabase : FromDatabase[k].type # NoType
  BY ColumnAssumption DEF FromCll, FromDatabase, Incoming

LEMMA AskedOfReports ==
  ASSUME CasesAreSettled, TypeOK, ListsOK
  PROVE  Reports(AskedOf(cll))
  BY CllReports, DatabaseReports DEF AskedOf

\* Where a run is when an operation is next.
LEMMA StageCases ==
  ASSUME pc \in Stages, NEW op \in {"inject", "remove", "sort", "types"}, Running(op), ConfigOK
  PROVE  \/ /\ op = "inject" /\ pc = Pipeline /\ Tail(pc) # Pipeline
            /\ Tail(pc) \notin {<<"sort", "types">>, <<"types">>, <<>>}
         \/ /\ op = "remove" /\ config.command = "refactor" /\ pc # Pipeline /\ Tail(pc) # Pipeline
            /\ Tail(pc) = <<"sort", "types">>
         \/ /\ op = "sort" /\ pc # Pipeline /\ Tail(pc) # Pipeline
            /\ config.command = "refactor" => pc = <<"sort", "types">> /\ Tail(pc) = <<"types">>
            /\ config.command # "refactor" => Tail(pc) = <<>>
         \/ /\ op = "types" /\ config.command = "refactor" /\ pc # Pipeline /\ Tail(pc) # Pipeline
            /\ pc = <<"types">> /\ Tail(pc) = <<>>
  <1>1. pc # <<>> /\ Head(pc) = op
    BY DEF Running
  <1>2. pc # <<"idle">>
    BY <1>1
  <1>3. CASE config.command = "refactor"
    <2>1. Pipeline = <<"inject", "remove", "sort", "types">>
      BY <1>3 DEF Pipeline
    <2>2. pc \in {<<"inject", "remove", "sort", "types">>, <<"remove", "sort", "types">>,
                  <<"sort", "types">>, <<"types">>}
      BY <1>1, <1>2, <1>3 DEF Stages
    <2>3. CASE pc = <<"inject", "remove", "sort", "types">>
      BY <1>1, <2>1, <2>3
    <2>4. CASE pc = <<"remove", "sort", "types">>
      BY <1>1, <1>3, <2>1, <2>4
    <2>5. CASE pc = <<"sort", "types">>
      BY <1>1, <1>3, <2>1, <2>5
    <2>6. CASE pc = <<"types">>
      BY <1>1, <1>3, <2>1, <2>6
    <2>7. QED
      BY <2>2, <2>3, <2>4, <2>5, <2>6
  <1>4. CASE config.command # "refactor"
    <2>1. Pipeline = <<"inject", "sort">>
      BY <1>4 DEF Pipeline
    <2>2. pc \in {<<"inject", "sort">>, <<"sort">>}
      BY <1>1, <1>2, <1>4 DEF Stages
    <2>3. CASE pc = <<"inject", "sort">>
      BY <1>1, <2>1, <2>3
    <2>4. CASE pc = <<"sort">>
      BY <1>1, <1>4, <2>1, <2>4
    <2>5. QED
      BY <2>2, <2>3, <2>4
  <1>5. QED
    BY <1>3, <1>4

LEMMA PerformTidies ==
  ASSUME CasesAreSettled, TypeOK, ListsOK, NEW op \in {"inject", "remove", "sort", "types"},
         Running(op), Tidy(columns, pc, cll, reached),
         NEW r, ~cll => r # "unasked", Resolved(cll, r) => Resolved(cll, reached) \/ pc = Pipeline,
         NEW new, new = Perform(op, AskedOf(cll))
  PROVE  Tidy(new, Tail(pc), cll, r)
  <1> DEFINE asked == AskedOf(cll)
  <1>1. /\ ConfigOK /\ WarehouseOK /\ columns \in Seq(Columns) /\ Clean(columns)
        /\ Reports(asked) /\ pc \in Stages
    BY ConfigFacts, AskedOfReports DEF TypeOK, ListsOK
  <1>2. /\ config.sortBy = "database" => WrittenAs(columns)
        /\ pc # Pipeline /\ Resolved(cll, r) =>
             /\ Has(columns, asked)
             /\ config.command = "refactor" =>
                  (pc \in {<<"sort", "types">>, <<"types">>, <<>>} => NoMore(columns))
        /\ pc = <<"types">> /\ pc # Pipeline /\ (Resolved(cll, r) \/ config.sortBy # "database") =>
             KeysRise(columns, asked)
    BY DEF Tidy
  <1>3. ~cll => /\ \A k \in DOMAIN asked : asked[k].type # NoType
    BY AskedTypes DEF AskedOf
  <1> HIDE DEF asked
  <1>4. CASE op = "inject" /\ pc = Pipeline /\ Tail(pc) # Pipeline
             /\ Tail(pc) \notin {<<"sort", "types">>, <<"types">>, <<>>}
    <2>1. new = Injected(columns, asked)
      BY <1>4 DEF Perform, asked
    <2>2. Has(new, asked) /\ (WrittenAs(columns) => WrittenAs(new))
      BY <1>1, <2>1, InjectTidies
    <2>3. QED
      BY <1>2, <1>4, <2>2 DEF Tidy, asked
  <1>5. CASE op = "remove" /\ config.command = "refactor" /\ pc # Pipeline /\ Tail(pc) # Pipeline
             /\ Tail(pc) = <<"sort", "types">>
    <2>1. new = Removed(columns, asked)
      BY <1>5 DEF Perform, asked
    <2>2. /\ Has(columns, asked) => Has(new, asked)
          /\ WrittenAs(columns) => WrittenAs(new)
          /\ NoMore(new)
      BY <1>1, <2>1, RemoveTidies
    <2>3. Tail(pc) \notin {<<"types">>, <<>>}
      BY <1>5, StagesDiffer
    <2>4. QED
      BY <1>2, <1>5, <2>2, <2>3 DEF Tidy, asked
  <1>6. CASE op = "sort" /\ pc # Pipeline /\ Tail(pc) # Pipeline
             /\ (config.command = "refactor" => pc = <<"sort", "types">> /\ Tail(pc) = <<"types">>)
             /\ (config.command # "refactor" => Tail(pc) = <<>>)
    <2>1. new = SortOf(columns, asked)
      BY <1>6 DEF Perform, SortOf, asked
    <2>2. /\ Has(columns, asked) => Has(new, asked)
          /\ WrittenAs(columns) => WrittenAs(new)
          /\ NoMore(columns) => NoMore(new)
          /\ KeysRise(new, asked)
      BY <1>1, <2>1, SortTidies
    <2>3. config.command = "refactor" => Tail(pc) # <<>>
      BY <1>6
    <2>4. Resolved(cll, r) =>
            /\ Has(new, asked)
            /\ config.command = "refactor" => NoMore(new)
      BY <1>2, <1>6, <2>2
    <2>5. QED
      BY <1>2, <1>6, <2>2, <2>3, <2>4 DEF Tidy, asked
  <1>7. CASE op = "types" /\ config.command = "refactor" /\ pc # Pipeline /\ Tail(pc) # Pipeline
             /\ pc = <<"types">> /\ Tail(pc) = <<>>
    <2>1. new = Typed(columns, asked)
      BY <1>7 DEF Perform, asked
    <2>2. /\ DOMAIN new = DOMAIN columns
          /\ \A i \in DOMAIN columns : new[i].name = columns[i].name /\ new[i].text = columns[i].text
      BY <1>1, <2>1, TypedFacts
    <2>3. /\ Has(columns, asked) => Has(new, asked)
          /\ WrittenAs(columns) => WrittenAs(new)
          /\ NoMore(columns) => NoMore(new)
          /\ KeysRise(columns, asked) => KeysRise(new, asked)
      BY <2>2, SameTidiness
    <2>4. ~cll /\ NoMore(columns) => AllTyped(new)
      BY <1>1, <1>3, <2>1, <2>2, TypesTaken DEF NoMore, AllTyped
    <2>5. Resolved(cll, r) => Has(columns, asked) /\ NoMore(columns)
      BY <1>2, <1>7
    <2>6. Resolved(cll, r) \/ config.sortBy # "database" => KeysRise(new, asked)
      BY <1>2, <1>7, <2>3
    <2>7. QED
      BY <1>2, <1>7, <2>3, <2>4, <2>5, <2>6 DEF Tidy, asked
  <1>8. QED
    BY <1>1, <1>4, <1>5, <1>6, <1>7, StageCases

LEMMA UnansweredTidies ==
  ASSUME CasesAreSettled, TypeOK, ListsOK, NEW op \in {"inject", "remove", "sort", "types"},
         Running(op), Tidy(columns, pc, cll, reached), ~cll,
         NEW new, new = Unanswered(op)
  PROVE  Tidy(new, Tail(pc), cll, "failed")
  <1> DEFINE asked == AskedOf(cll)
  <1>1. /\ ConfigOK /\ WarehouseOK /\ columns \in Seq(Columns) /\ Clean(columns)
        /\ Reports(asked) /\ pc \in Stages
    BY ConfigFacts, AskedOfReports DEF TypeOK, ListsOK
  <1>2. /\ config.sortBy = "database" => WrittenAs(columns)
        /\ pc = <<"types">> /\ config.sortBy # "database" => KeysRise(columns, asked)
    BY DEF Tidy
  <1> HIDE DEF asked
  <1>3. config.sortBy = "database" => new = columns
    BY DEF Unanswered
  <1>4. ASSUME config.sortBy # "database", Tail(pc) \in {<<"types">>, <<>>}
        PROVE  KeysRise(new, asked)
    <2>1. CASE op = "sort"
      <3>1. new = SortOf(columns, asked)
        BY <1>4, <2>1 DEF Unanswered, SortOf
      <3>2. QED
        BY <1>1, <3>1, SortTidies
    <2>2. CASE op = "types" /\ pc = <<"types">>
      BY <1>2, <1>4, <2>2 DEF Unanswered
    <2>3. QED
      BY <1>1, <1>4, <2>1, <2>2, StageCases, StagesDiffer
  <1>5. ~Resolved(cll, "failed")
    BY DEF Resolved
  <1>6. QED
    BY <1>2, <1>3, <1>4, <1>5 DEF Tidy, asked

\* An operation that is answered as before leaves a settled list as it is.
LEMMA PerformStays ==
  ASSUME CasesAreSettled, TypeOK, ListsOK, NEW op \in {"inject", "remove", "sort", "types"},
         Running(op), NEW r, Resolved(cll, r), Settled(columns, cll, r)
  PROVE  Perform(op, AskedOf(cll)) = columns
  <1> DEFINE asked == AskedOf(cll)
  <1>1. /\ ConfigOK /\ WarehouseOK /\ columns \in Seq(Columns) /\ Clean(columns)
        /\ Reports(asked) /\ pc \in Stages
    BY ConfigFacts, AskedOfReports DEF TypeOK, ListsOK
  <1>2. /\ Has(columns, asked) /\ KeysRise(columns, asked)
        /\ config.command = "refactor" => NoMore(columns) /\ (cll \/ AllTyped(columns))
    BY DEF Settled
  <1>3. (\A k \in DOMAIN asked : asked[k].type = NoType) \/ ~cll
    BY AskedTypes DEF AskedOf
  <1> HIDE DEF asked
  <1>4. CASE op = "inject"
    <2>1. Injected(columns, asked) = columns
      BY <1>1, <1>2, InjectTidies
    <2>2. QED
      BY <1>4, <2>1 DEF Perform, asked
  <1>5. CASE op = "remove" /\ config.command = "refactor"
    <2>1. Removed(columns, asked) = columns
      BY <1>1, <1>2, <1>5, RemoveTidies
    <2>2. QED
      BY <1>5, <2>1 DEF Perform, asked
  <1>6. CASE op = "sort"
    <2>1. SortOf(columns, asked) = columns
      BY <1>1, <1>2, SortTidies
    <2>2. QED
      BY <1>6, <2>1 DEF Perform, SortOf, asked
  <1>7. CASE op = "types" /\ config.command = "refactor"
    <2>1. Typed(columns, asked) = columns
      BY <1>1, <1>2, <1>3, <1>7, TypedFacts DEF AllTyped
    <2>2. QED
      BY <1>7, <2>1 DEF Perform, asked
  <1>8. QED
    BY <1>1, <1>4, <1>5, <1>6, <1>7, StageCases

LEMMA UnansweredStays ==
  ASSUME CasesAreSettled, TypeOK, ListsOK, NEW op, NEW r, Settled(columns, cll, r)
  PROVE  Unanswered(op) = columns
  <1>1. /\ ConfigOK /\ WarehouseOK /\ columns \in Seq(Columns) /\ Clean(columns)
        /\ Reports(AskedOf(cll))
    BY ConfigFacts, AskedOfReports DEF TypeOK, ListsOK
  <1>2. config.sortBy # "database" => SortOf(columns, AskedOf(cll)) = columns
    BY <1>1, SortTidies DEF Settled
  <1>3. QED
    BY <1>2 DEF Unanswered, SortOf

\* What a commit makes of the manifest's columns.
FileOf(section, cols) ==
  /\ DOMAIN section = DOMAIN cols
  /\ \A i \in DOMAIN cols :
       /\ section[i].name = Output(cols[i].name) /\ section[i].text = cols[i].text
       /\ cols[i].type # NoType => section[i].type = cols[i].type

LEMMA FileIsWritten ==
  ASSUME ConfigOK, NEW cols \in Seq(Columns), NEW section, FileOf(section, cols)
  PROVE  WrittenAs(section)
  <1>1. \A i \in DOMAIN cols : cols[i].name \in Names
    BY ColumnFields
  <1>2. QED
    BY <1>1, OutputTwice DEF FileOf, WrittenAs

LEMMA FileIsSettled ==
  ASSUME ConfigOK, NEW cols \in Seq(Columns), NEW section, FileOf(section, cols),
         NEW c, NEW r, Tidy(cols, <<>>, c, r)
  PROVE  Settled(section, c, r)
  <1>1. \A i \in DOMAIN cols : cols[i].name \in Names
    BY ColumnFields
  <1>2. /\ DOMAIN section = DOMAIN cols
        /\ \A i \in DOMAIN cols :
             /\ section[i].name = Output(cols[i].name)
             /\ section[i].name.letter = cols[i].name.letter
             /\ section[i].text = cols[i].text
             /\ cols[i].type # NoType => section[i].type = cols[i].type
    BY <1>1, CaseFacts DEF FileOf
  <1>3. <<>> # Pipeline
    BY DEF Pipeline
  <1>4. WrittenAs(section)
    BY FileIsWritten
  <1> DEFINE asked == AskedOf(c)
  <1> HIDE DEF asked
  <1>5. Has(cols, asked) => Has(section, asked)
    BY <1>2 DEF Has, Taken
  <1>6. LettersOf(section) = LettersOf(cols)
    BY <1>2 DEF LettersOf
  <1>7. AllTyped(cols) => AllTyped(section)
    BY <1>2, ColumnAssumption DEF AllTyped
  <1>8. ASSUME KeysRise(cols, asked), config.sortBy = "database" => WrittenAs(cols)
        PROVE  KeysRise(section, asked)
    <2>1. CASE config.sortBy = "database"
      <3>1. \A i \in DOMAIN cols : section[i].name = cols[i].name
        BY <1>2, <1>8, <2>1 DEF WrittenAs
      <3>2. QED
        BY <1>2, <1>8, <2>1, <3>1 DEF KeysRise, PlacesRise
    <2>2. CASE config.sortBy # "database"
      <3>1. \A i \in DOMAIN cols : RankOf(section[i].name) = RankOf(cols[i].name)
        <4>1. \A i \in DOMAIN cols : Output(section[i].name) = Output(cols[i].name)
          BY <1>1, <1>2, OutputTwice
        <4>2. QED
          BY <4>1 DEF RankOf
      <3>2. QED
        BY <1>2, <1>8, <2>2, <3>1 DEF KeysRise, RanksRise
    <2>3. QED
      BY <2>1, <2>2
  <1>9. /\ config.sortBy = "database" => WrittenAs(cols)
        /\ Resolved(c, r) =>
             /\ Has(cols, asked)
             /\ config.command = "refactor" => NoMore(cols) /\ (c \/ AllTyped(cols))
        /\ Resolved(c, r) \/ config.sortBy # "database" => KeysRise(cols, asked)
    BY <1>3 DEF Tidy, asked
  <1>10. QED
    BY <1>4, <1>5, <1>6, <1>7, <1>8, <1>9 DEF Settled, NoMore, asked

\* The manifest has what the file has.
LEMMA ParsedFields ==
  ASSUME NEW section \in Seq(DocEntries), Clean(section)
  PROVE  /\ DOMAIN Parsed(section) = DOMAIN section
         /\ \A i \in DOMAIN section :
              /\ Parsed(section)[i].name = section[i].name
              /\ Parsed(section)[i].text = section[i].text
              /\ Parsed(section)[i].type = section[i].type
  BY ParsedIs DEF Clean, Plain

LEMMA ParsedSettled ==
  ASSUME NEW section \in Seq(DocEntries), Clean(section), NEW c, NEW r, Settled(section, c, r)
  PROVE  Settled(Parsed(section), c, r)
  <1> DEFINE new == Parsed(section)
  <1>1. /\ DOMAIN new = DOMAIN section
        /\ \A i \in DOMAIN section :
             /\ new[i].name = section[i].name /\ new[i].text = section[i].text
             /\ new[i].type = section[i].type
    BY ParsedFields
  <1> HIDE DEF new
  <1>2. /\ Has(section, AskedOf(c)) => Has(new, AskedOf(c))
        /\ WrittenAs(section) => WrittenAs(new)
        /\ NoMore(section) => NoMore(new)
        /\ KeysRise(section, AskedOf(c)) => KeysRise(new, AskedOf(c))
    BY <1>1, SameTidiness
  <1>3. AllTyped(section) => AllTyped(new)
    BY <1>1 DEF AllTyped
  <1>4. QED
    BY <1>2, <1>3 DEF Settled, new

LEMMA FiledIs ==
  ASSUME TypeOK, ListsOK, NEW new \in Seq(Columns), Clean(new)
  PROVE  FileOf(Synced(new, doc), new)
  <1>1. ConfigOK /\ doc \in Seq(DocEntries) /\ Distinct(doc)
    BY ConfigFacts DEF TypeOK, ListsOK, Clean
  <1>2. QED
    BY <1>1, SyncedFacts DEF FileOf

-----------------------------------------------------------------------------
(* The invariant behind it                                                 *)

TidyInv ==
  /\ config.sortBy = "database" => WrittenAs(yaml)
  /\ InRun =>
       /\ Tidy(columns, pc, cll, reached)
       /\ CommitsAtOnce => FileOf(yaml, columns)

\* The file as the last run left it, if nothing was edited since.
FileAtRest == IF InRun THEN before ELSE yaml

Comparable == config.mode # "none" /\ ~config.dryRun /\ steady # NoAnswers

SettledInv == Comparable => Settled(FileAtRest, steady[1], steady[2])

\* A run that has so far been answered as the one before has changed nothing.
RepeatInv ==
  /\ InRun /\ Comparable
  /\ steady[1] = cll /\ reached \in {"unasked", steady[2]} /\ reached # "late"
  => columns = Parsed(before) /\ doc = before /\ yaml = before /\ ~mutated

UncommittedInv == InRun /\ config.mode = "none" => ~mutated

SilentInv == KeepInv /\ TidyInv /\ SettledInv /\ RepeatInv /\ UncommittedInv

LEMMA AskedStays ==
  ASSUME SameWorld
  PROVE  FromCll' = FromCll /\ FromDatabase' = FromDatabase /\ Pipeline' = Pipeline
  <1>1. warehouse' = warehouse /\ config' = config
    BY DEF SameWorld
  <1>2. FromCll' = FromCll
    BY <1>1 DEF FromCll, Incoming, Name
  <1>3. FromDatabase' = FromDatabase
    BY <1>1 DEF FromDatabase, Incoming, Name, Normal, Cased
  <1>4. QED
    BY <1>1, <1>2, <1>3 DEF Pipeline

\* Tidiness is about the configuration and the warehouse alone.
LEMMA TidyStays ==
  ASSUME SameWorld, NEW cols, NEW rest, NEW c, NEW r,
         columns' = cols, pc' = rest, cll' = c, reached' = r
  PROVE  Tidy(cols, rest, c, r) => Tidy(columns, pc, cll, reached)'
  <1>1. warehouse' = warehouse /\ config' = config /\ Pipeline' = Pipeline
        /\ AskedOf(cll)' = AskedOf(c)
    BY AskedStays DEF SameWorld, AskedOf
  <1>2. WrittenAs(cols) => WrittenAs(columns)'
    BY <1>1 DEF WrittenAs, Output, Cased, CaseInsensitive
  <1>3. Has(cols, AskedOf(c)) => Has(columns, AskedOf(cll))'
    BY <1>1 DEF Has, Taken
  <1>4. NoMore(cols) => NoMore(columns)'
    BY <1>1 DEF NoMore, LettersOf, InWarehouse
  <1>5. AllTyped(cols) => AllTyped(columns)'
    BY DEF AllTyped
  <1>6. PlacesRise(cols, AskedOf(c)) => PlacesRise(columns, AskedOf(cll))'
    BY <1>1 DEF PlacesRise, PlaceOf, Normal, Cased
  <1>7. RanksRise(cols) => RanksRise(columns)'
    BY <1>1 DEF RanksRise, RankOf, Output, Cased, CaseInsensitive
  <1>8. KeysRise(cols, AskedOf(c)) => KeysRise(columns, AskedOf(cll))'
    BY <1>1, <1>6, <1>7 DEF KeysRise
  <1>9. Resolved(cll, reached)' <=> Resolved(c, r)
    BY DEF Resolved
  <1>10. QED
    BY <1>1, <1>2, <1>3, <1>4, <1>5, <1>8, <1>9 DEF Tidy

LEMMA SettledStays ==
  ASSUME SameWorld, NEW file, NEW c, NEW r,
         FileAtRest' = file, steady'[1] = c, steady'[2] = r
  PROVE  Settled(file, c, r) => Settled(FileAtRest, steady[1], steady[2])'
  <1>1. warehouse' = warehouse /\ config' = config
        /\ AskedOf(steady[1])' = AskedOf(c)
    BY AskedStays DEF SameWorld, AskedOf
  <1>2. WrittenAs(file) => WrittenAs(FileAtRest)'
    BY <1>1 DEF WrittenAs, Output, Cased, CaseInsensitive
  <1>3. Has(file, AskedOf(c)) => Has(FileAtRest, AskedOf(steady[1]))'
    BY <1>1 DEF Has, Taken
  <1>4. NoMore(file) => NoMore(FileAtRest)'
    BY <1>1 DEF NoMore, LettersOf, InWarehouse
  <1>5. AllTyped(file) => AllTyped(FileAtRest)'
    BY DEF AllTyped
  <1>6. PlacesRise(file, AskedOf(c)) => PlacesRise(FileAtRest, AskedOf(steady[1]))'
    BY <1>1 DEF PlacesRise, PlaceOf, Normal, Cased
  <1>7. RanksRise(file) => RanksRise(FileAtRest)'
    BY <1>1 DEF RanksRise, RankOf, Output, Cased, CaseInsensitive
  <1>8. KeysRise(file, AskedOf(c)) => KeysRise(FileAtRest, AskedOf(steady[1]))'
    BY <1>1, <1>6, <1>7 DEF KeysRise
  <1>9. Resolved(steady[1], steady[2])' <=> Resolved(c, r)
    BY DEF Resolved
  <1>10. QED
    BY <1>1, <1>2, <1>3, <1>4, <1>5, <1>8, <1>9 DEF Settled

LEMMA FileStays ==
  ASSUME SameWorld, NEW section, yaml' = section, NEW cols, columns' = cols
  PROVE  /\ WrittenAs(section) => WrittenAs(yaml)'
         /\ FileOf(section, cols) => FileOf(yaml, columns)'
  <1>1. config' = config
    BY DEF SameWorld
  <1>2. WrittenAs(section) => WrittenAs(yaml)'
    BY <1>1 DEF WrittenAs, Output, Cased, CaseInsensitive
  <1>3. FileOf(section, cols) => FileOf(yaml, columns)'
    BY <1>1 DEF FileOf, Output, Cased, CaseInsensitive
  <1>4. QED
    BY <1>2, <1>3

\* The columns after an operation are as tidy as what is left to run asks.
LEMMA OperationTidy ==
  ASSUME CasesAreSettled, TypeOK, ListsOK, NEW op \in {"inject", "remove", "sort", "types"},
         Running(op), Tidy(columns, pc, cll, reached), NEW new,
         \/ cll /\ new = Perform(op, FromCll) /\ reached' = reached
         \/ /\ ~cll /\ new = Perform(op, FromDatabase)
            /\ reached' = IF reached \in {"unasked", "always"} THEN "always" ELSE "late"
         \/ ~cll /\ new = Unanswered(op) /\ reached' = "failed"
  PROVE  Tidy(new, Tail(pc), cll, reached')
  <1> DEFINE r == reached'
  <1>1. CASE cll /\ new = Perform(op, FromCll) /\ r = reached
    <2>1. new = Perform(op, AskedOf(cll)) /\ (~cll => r # "unasked")
      BY <1>1 DEF AskedOf
    <2>2. Resolved(cll, r) => Resolved(cll, reached) \/ pc = Pipeline
      BY <1>1
    <2> HIDE DEF r
    <2>3. Tidy(new, Tail(pc), cll, r)
      BY <2>1, <2>2, PerformTidies
    <2>4. QED
      BY <2>3 DEF r
  <1>2. CASE /\ ~cll /\ new = Perform(op, FromDatabase)
             /\ r = IF reached \in {"unasked", "always"} THEN "always" ELSE "late"
    <2>1. new = Perform(op, AskedOf(cll)) /\ (~cll => r # "unasked")
      BY <1>2 DEF AskedOf
    <2>2. Resolved(cll, r) => Resolved(cll, reached) \/ pc = Pipeline
      <3>1. ~cll /\ reached = "unasked" => pc = Pipeline
        BY DEF Tidy
      <3>2. QED
        BY <1>2, <3>1 DEF Resolved
    <2> HIDE DEF r
    <2>3. Tidy(new, Tail(pc), cll, r)
      BY <2>1, <2>2, PerformTidies
    <2>4. QED
      BY <2>3 DEF r
  <1>3. CASE ~cll /\ new = Unanswered(op) /\ r = "failed"
    <2>1. Tidy(new, Tail(pc), cll, "failed")
      BY <1>3, UnansweredTidies
    <2>2. QED
      BY <1>3, <2>1
  <1>4. QED
    BY <1>1, <1>2, <1>3

\* An operation that is answered as the last run's changes no column.
LEMMA OperationRepeats ==
  ASSUME CasesAreSettled, TypeOK, ListsOK, NEW op \in {"inject", "remove", "sort", "types"},
         Running(op), NEW r, Settled(columns, cll, r), NEW new,
         \/ cll /\ new = Perform(op, FromCll)
         \/ ~cll /\ new = Perform(op, FromDatabase) /\ r = "always"
         \/ ~cll /\ new = Unanswered(op)
  PROVE  new = columns
  <1>1. CASE cll /\ new = Perform(op, FromCll)
    <2>1. new = Perform(op, AskedOf(cll)) /\ Resolved(cll, r)
      BY <1>1 DEF AskedOf, Resolved
    <2>2. QED
      BY <2>1, PerformStays
  <1>2. CASE ~cll /\ new = Perform(op, FromDatabase) /\ r = "always"
    <2>1. new = Perform(op, AskedOf(cll)) /\ Resolved(cll, r)
      BY <1>2 DEF AskedOf, Resolved
    <2>2. QED
      BY <2>1, PerformStays
  <1>3. CASE ~cll /\ new = Unanswered(op)
    BY <1>3, UnansweredStays
  <1>4. QED
    BY <1>1, <1>2, <1>3

\* Nothing changed is nothing to commit.
LEMMA CommitRepeats ==
  ASSUME TypeOK, ListsOK, columns = Parsed(before), doc = before, yaml = before, ~mutated,
         WrittenAs(before), Committed(columns)
  PROVE  doc' = before /\ yaml' = before /\ ~mutated'
  <1>1. ConfigOK /\ before \in Seq(DocEntries) /\ Clean(before)
    BY ConfigFacts DEF TypeOK, ListsOK
  <1>2. Synced(columns, doc) = before
    BY <1>1, SyncedBack DEF WrittenAs
  <1> DEFINE section == Synced(columns, doc)
  <1>3. /\ doc' = section /\ mutated' = (mutated \/ section # yaml)
        /\ yaml' = IF config.dryRun THEN yaml ELSE section
    BY DEF Committed
  <1>4. QED
    BY <1>2, <1>3

LEMMA OperationSilent ==
  ASSUME CasesAreSettled, SilentInv,
         NEW op \in {"inject", "remove", "sort", "types"}, Operation(op)
  PROVE  TidyInv' /\ SettledInv' /\ RepeatInv' /\ UncommittedInv'
  <1>1. /\ TypeOK /\ ListsOK /\ RunInv /\ TidyInv /\ SettledInv /\ RepeatInv /\ UncommittedInv
        /\ ConfigOK
    BY ConfigFacts DEF SilentInv, KeepInv, TypeOK
  <1>2. Running(op)
    BY <1>1, OperationIs
  <1>3. PICK new :
          /\ Operated(new) /\ Passes(new)
          /\ \/ cll /\ new = Perform(op, FromCll) /\ reached' = reached
             \/ /\ ~cll /\ new = Perform(op, FromDatabase)
                /\ reached' = IF reached \in {"unasked", "always"} THEN "always" ELSE "late"
             \/ /\ ~cll /\ new = Unanswered(op)
                /\ reached \in {"unasked", "failed"} /\ reached' = "failed"
    BY <1>1, OperationIs
  <1>4. /\ pc' = Tail(pc) /\ columns' = new /\ SameWorld
        /\ UNCHANGED <<config, warehouse, cll, before, steady, runs, edits>>
        /\ IF config.mode = "atomic" THEN Committed(new) ELSE UNCHANGED <<doc, mutated, yaml>>
        /\ new \in Seq(Columns) /\ Clean(new)
    BY <1>3 DEF Operated, Done, SameWorld, Passes
  <1>5. InRun /\ InRun'
    BY <1>1, <1>2, <1>4, HeadFacts DEF TypeOK, InRun
  <1>6. TidyInv'
    <2>1. Tidy(columns, pc, cll, reached)
      BY <1>1, <1>5 DEF TidyInv
    <2>2. Tidy(new, Tail(pc), cll, reached')
      BY <1>1, <1>2, <1>3, <2>1, OperationTidy
    <2>3. Tidy(columns, pc, cll, reached)'
      BY <1>4, <2>2, TidyStays
    <2>4. CASE CommitsAtOnce
      <3> DEFINE section == Synced(new, doc)
      <3>1. yaml' = section
        BY <1>4, <2>4 DEF Committed, CommitsAtOnce
      <3>2. FileOf(section, new)
        BY <1>1, <1>4, FiledIs
      <3> HIDE DEF section
      <3>3. WrittenAs(section)
        BY <1>1, <1>4, <3>2, FileIsWritten
      <3>4. WrittenAs(yaml)' /\ FileOf(yaml, columns)'
        BY <1>4, <3>1, <3>2, <3>3, FileStays
      <3>5. QED
        BY <2>3, <3>4 DEF TidyInv
    <2>5. CASE ~CommitsAtOnce
      <3>1. yaml' = yaml /\ ~CommitsAtOnce'
        BY <1>1, <1>4, <2>5 DEF Committed, CommitsAtOnce, ConfigOK
      <3>2. config.sortBy = "database" => WrittenAs(yaml)'
        BY <1>1, <1>4, <3>1, FileStays DEF TidyInv
      <3>3. config' = config
        BY <1>4
      <3>4. QED
        BY <2>3, <3>1, <3>2, <3>3 DEF TidyInv
    <2>6. QED
      BY <2>4, <2>5
  <1>7. SettledInv'
    <2>1. FileAtRest = before /\ FileAtRest' = before
      BY <1>4, <1>5 DEF FileAtRest
    <2>2. Comparable' => Comparable
      BY <1>4 DEF Comparable, NoAnswers
    <2>3. ASSUME Comparable PROVE Settled(FileAtRest, steady[1], steady[2])'
      <3>1. Settled(before, steady[1], steady[2])
        BY <1>1, <2>1, <2>3 DEF SettledInv
      <3>2. steady'[1] = steady[1] /\ steady'[2] = steady[2]
        BY <1>4
      <3>3. QED
        BY <1>4, <2>1, <3>1, <3>2, SettledStays
    <2>4. QED
      BY <2>2, <2>3 DEF SettledInv
  <1>8. RepeatInv'
    <2> SUFFICES ASSUME Comparable', steady[1] = cll, reached' \in {"unasked", steady[2]},
                        reached' # "late"
                 PROVE  columns' = Parsed(before) /\ doc' = before /\ yaml' = before /\ ~mutated'
      BY <1>4 DEF RepeatInv
    <2>1. Comparable
      BY <1>4 DEF Comparable, NoAnswers
    <2>2. reached \in {"unasked", steady[2]} /\ reached # "late"
      BY <1>3
    <2>3. columns = Parsed(before) /\ doc = before /\ yaml = before /\ ~mutated
      BY <1>1, <1>5, <2>1, <2>2 DEF RepeatInv
    <2>4. Settled(before, cll, steady[2])
      BY <1>1, <1>5, <2>1 DEF SettledInv, FileAtRest
    <2>5. before \in Seq(DocEntries) /\ Clean(before) /\ WrittenAs(before)
      BY <1>1, <2>4 DEF TypeOK, ListsOK, Settled
    <2>6. Settled(columns, cll, steady[2])
      BY <2>3, <2>4, <2>5, ParsedSettled
    <2>7. \/ cll /\ new = Perform(op, FromCll)
          \/ ~cll /\ new = Perform(op, FromDatabase) /\ steady[2] = "always"
          \/ ~cll /\ new = Unanswered(op)
      BY <1>3
    <2>8. new = columns
      BY <1>1, <1>2, <2>6, <2>7, OperationRepeats
    <2>9. CASE config.mode = "atomic"
      <3>1. Committed(columns)
        BY <1>4, <2>8, <2>9
      <3>2. QED
        BY <1>1, <1>4, <2>3, <2>5, <2>8, <3>1, CommitRepeats
    <2>10. CASE config.mode # "atomic"
      BY <1>4, <2>3, <2>8, <2>10
    <2>11. QED
      BY <2>9, <2>10
  <1>9. UncommittedInv'
    BY <1>1, <1>4, <1>5 DEF UncommittedInv
  <1>10. QED
    BY <1>6, <1>7, <1>8, <1>9

LEMMA StartSilent ==
  ASSUME CasesAreSettled, SilentInv, Start
  PROVE  TidyInv' /\ SettledInv' /\ RepeatInv' /\ UncommittedInv'
  <1>1. /\ TypeOK /\ ListsOK /\ TidyInv /\ SettledInv /\ ConfigOK
        /\ config.mode = "atomic" => config.output = "asis"
    BY ConfigFacts DEF SilentInv, KeepInv, TypeOK
  <1>2. /\ pc = <<"idle">> /\ pc' = Pipeline /\ columns' = Parsed(yaml) /\ doc' = yaml
        /\ before' = yaml /\ reached' = "unasked" /\ mutated' = FALSE
        /\ UNCHANGED <<config, warehouse, yaml, steady, edits>> /\ SameWorld
    BY DEF Start, SameWorld
  <1>3. ~InRun /\ InRun'
    BY <1>2 DEF InRun, Pipeline
  <1>4. yaml \in Seq(DocEntries) /\ Clean(yaml)
    BY <1>1 DEF TypeOK, ListsOK
  <1> DEFINE new == Parsed(yaml)
  <1>5. /\ DOMAIN new = DOMAIN yaml
        /\ \A i \in DOMAIN yaml : /\ new[i].name = yaml[i].name /\ new[i].text = yaml[i].text
                                  /\ new[i].type = yaml[i].type
    BY <1>4, ParsedFields
  <1>6. columns' = new
    BY <1>2
  <1> HIDE DEF new
  <1>7. TidyInv'
    <2>1. config.sortBy = "database" => WrittenAs(yaml)
      BY <1>1 DEF TidyInv
    <2>2. config.sortBy = "database" => WrittenAs(new)
      BY <1>5, <2>1 DEF WrittenAs
    <2>3. Pipeline \notin {<<"sort", "types">>, <<"types">>, <<>>}
      BY DEF Pipeline
    <2>4. Tidy(new, Pipeline, cll', "unasked")
      BY <2>2, <2>3 DEF Tidy
    <2> DEFINE c == cll'
               rest == Pipeline
    <2>5. pc' = rest /\ cll' = c /\ Tidy(new, rest, c, "unasked")
      BY <1>2, <2>4
    <2> HIDE DEF c, rest
    <2>6. Tidy(columns, pc, cll, reached)'
      BY <1>2, <1>6, <2>5, TidyStays
    <2>7. config.sortBy = "database" => WrittenAs(yaml)'
      BY <1>2, <1>6, <2>1, FileStays
    <2>8. CommitsAtOnce => FileOf(yaml, columns)'
      <3>1. SUFFICES ASSUME CommitsAtOnce PROVE FileOf(yaml, new)
        BY <1>2, <1>6, FileStays
      <3>2. \A a : Output(a) = a
        BY <1>1, <3>1, CaseFacts DEF CommitsAtOnce
      <3>3. QED
        BY <1>5, <3>2 DEF FileOf
    <2>9. config' = config /\ (CommitsAtOnce' <=> CommitsAtOnce)
      BY <1>2 DEF CommitsAtOnce
    <2>10. QED
      BY <2>6, <2>7, <2>8, <2>9 DEF TidyInv
  <1>8. SettledInv'
    <2>1. FileAtRest = yaml /\ FileAtRest' = yaml
      BY <1>2, <1>3 DEF FileAtRest
    <2>2. Comparable' => Comparable
      BY <1>2 DEF Comparable, NoAnswers
    <2>3. ASSUME Comparable PROVE Settled(FileAtRest, steady[1], steady[2])'
      <3>1. Settled(yaml, steady[1], steady[2])
        BY <1>1, <2>1, <2>3 DEF SettledInv
      <3>2. steady'[1] = steady[1] /\ steady'[2] = steady[2]
        BY <1>2
      <3>3. QED
        BY <1>2, <2>1, <3>1, <3>2, SettledStays
    <2>4. QED
      BY <2>2, <2>3 DEF SettledInv
  <1>9. RepeatInv' /\ UncommittedInv'
    BY <1>2 DEF RepeatInv, UncommittedInv
  <1>10. QED
    BY <1>7, <1>8, <1>9

LEMMA FinishSilent ==
  ASSUME CasesAreSettled, SilentInv, Finish
  PROVE  TidyInv' /\ SettledInv' /\ RepeatInv' /\ UncommittedInv'
  <1>1. TypeOK /\ ListsOK /\ TidyInv /\ ConfigOK
    BY ConfigFacts DEF SilentInv, KeepInv, TypeOK
  <1>2. /\ pc = <<>> /\ pc' = <<"idle">> /\ steady' = Answers
        /\ IF config.mode = "batch" THEN Committed(columns) ELSE UNCHANGED <<doc, mutated, yaml>>
        /\ UNCHANGED <<config, warehouse, columns, reached, cll, before, runs, edits>> /\ SameWorld
    BY DEF Finish, SameWorld
  <1>3. InRun /\ ~InRun' /\ Tidy(columns, <<>>, cll, reached)
    BY <1>1, <1>2 DEF InRun, TidyInv
  <1>4. columns \in Seq(Columns) /\ Clean(columns)
    BY <1>1 DEF TypeOK, ListsOK
  <1>5. CASE config.mode # "none" /\ ~config.dryRun
    <2>1. \E section : yaml' = section /\ FileOf(section, columns)
      <3>1. CASE config.mode = "batch"
        <4>1. yaml' = Synced(columns, doc)
          BY <1>2, <1>5, <3>1 DEF Committed
        <4>2. FileOf(Synced(columns, doc), columns)
          BY <1>1, <1>4, FiledIs
        <4>3. QED
          BY <4>1, <4>2
      <3>2. CASE config.mode = "atomic"
        <4>1. yaml' = yaml /\ FileOf(yaml, columns)
          BY <1>1, <1>2, <1>3, <1>5, <3>2 DEF TidyInv, CommitsAtOnce
        <4>2. QED
          BY <4>1
      <3>3. QED
        BY <1>1, <1>5, <3>1, <3>2 DEF ConfigOK
    <2>2. PICK section : yaml' = section /\ FileOf(section, columns)
      BY <2>1
    <2>3. WrittenAs(section) /\ Settled(section, cll, reached)
      BY <1>1, <1>3, <1>4, <2>2, FileIsWritten, FileIsSettled
    <2>4. WrittenAs(yaml)'
      BY <1>2, <2>2, <2>3, FileStays
    <2>5. Settled(FileAtRest, steady[1], steady[2])'
      <3>1. /\ FileAtRest' = section /\ steady'[1] = cll /\ steady'[2] = reached
        BY <1>2, <1>3, <2>2 DEF FileAtRest, Answers
      <3>2. QED
        BY <1>2, <2>3, <3>1, SettledStays
    <2>6. QED
      BY <1>3, <2>4, <2>5 DEF TidyInv, SettledInv, RepeatInv, UncommittedInv
  <1>6. CASE config.mode = "none" \/ config.dryRun
    <2>1. yaml' = yaml
      BY <1>2, <1>6 DEF Committed
    <2>2. config.sortBy = "database" => WrittenAs(yaml)'
      BY <1>1, <1>2, <2>1, FileStays DEF TidyInv
    <2>3. ~Comparable' /\ config' = config
      BY <1>2, <1>6 DEF Comparable
    <2>4. QED
      BY <1>3, <2>2, <2>3 DEF TidyInv, SettledInv, RepeatInv, UncommittedInv
  <1>7. QED
    BY <1>1, <1>5, <1>6 DEF ConfigOK

\* An edit changes no spelling, and forgets what the last run was answered.
LEMMA EditSilent ==
  ASSUME TypeOK, TidyInv, Describe \/ AddToWarehouse \/ DropFromWarehouse
  PROVE  TidyInv' /\ SettledInv' /\ RepeatInv' /\ UncommittedInv'
  <1>1. Edit
    BY DEF Describe, AddToWarehouse, DropFromWarehouse
  <1>2. ~InRun' /\ ~Comparable' /\ config' = config
    BY <1>1 DEF Edit, InRun, Comparable, NoAnswers
  <1>3. /\ DOMAIN yaml' = DOMAIN yaml
        /\ \A i \in DOMAIN yaml : yaml'[i].name = yaml[i].name
    <2>1. CASE Describe
      <3>1. PICK k \in DOMAIN yaml, text \in Texts : yaml' = [yaml EXCEPT ![k].text = text]
        BY <2>1 DEF Describe
      <3>2. yaml[k] \in DocEntries
        BY <3>1, EntryFields DEF TypeOK
      <3> DEFINE e == [yaml[k] EXCEPT !.text = text]
      <3>3. e.name = yaml[k].name
        BY <3>2 DEF DocEntries
      <3>4. yaml' = [yaml EXCEPT ![k] = e]
        BY <3>1
      <3> HIDE DEF e
      <3>5. yaml = [i \in DOMAIN yaml |-> yaml[i]]
        BY SeqFacts DEF TypeOK
      <3>6. QED
        BY <3>1, <3>3, <3>4, <3>5
    <2>2. CASE AddToWarehouse \/ DropFromWarehouse
      BY <2>2 DEF AddToWarehouse, DropFromWarehouse
    <2>3. QED
      BY <2>1, <2>2
  <1>4. WrittenAs(yaml) => WrittenAs(yaml)'
    BY <1>2, <1>3 DEF WrittenAs, Output, Cased, CaseInsensitive
  <1>5. QED
    BY <1>2, <1>4 DEF TidyInv, SettledInv, RepeatInv, UncommittedInv

LEMMA StutterSilent ==
  ASSUME SilentInv, UNCHANGED vars
  PROVE  TidyInv' /\ SettledInv' /\ RepeatInv' /\ UncommittedInv'
  <1>1. TidyInv /\ SettledInv /\ RepeatInv /\ UncommittedInv
    BY DEF SilentInv
  <1>2. /\ UNCHANGED <<config, warehouse, yaml, columns, doc, pc, reached, cll, mutated>>
        /\ UNCHANGED <<before, steady, runs, edits>> /\ SameWorld
    BY DEF vars, SameWorld
  <1>3. /\ InRun' <=> InRun
        /\ Comparable' <=> Comparable
        /\ CommitsAtOnce' <=> CommitsAtOnce
        /\ FileAtRest' = FileAtRest
    BY <1>2 DEF InRun, Comparable, CommitsAtOnce, FileAtRest, NoAnswers
  <1>4. /\ WrittenAs(yaml) => WrittenAs(yaml)'
        /\ FileOf(yaml, columns) => FileOf(yaml, columns)'
    BY <1>2, FileStays
  <1>5. Tidy(columns, pc, cll, reached) => Tidy(columns, pc, cll, reached)'
    BY <1>2, TidyStays
  <1>6. Settled(FileAtRest, steady[1], steady[2]) => Settled(FileAtRest, steady[1], steady[2])'
    <2> DEFINE file == FileAtRest
               c == steady[1]
               r == steady[2]
    <2>1. FileAtRest' = file /\ steady'[1] = c /\ steady'[2] = r
      BY <1>2, <1>3
    <2>2. (Settled(FileAtRest, steady[1], steady[2]) <=> Settled(file, c, r))
      OBVIOUS
    <2> HIDE DEF file, c, r
    <2>3. QED
      BY <1>2, <2>1, <2>2, SettledStays
  <1>7. TidyInv'
    BY <1>1, <1>2, <1>3, <1>4, <1>5 DEF TidyInv
  <1>8. SettledInv'
    BY <1>1, <1>3, <1>6 DEF SettledInv
  <1>9. RepeatInv' /\ UncommittedInv'
    BY <1>1, <1>2, <1>3 DEF RepeatInv, UncommittedInv
  <1>10. QED
    BY <1>7, <1>8, <1>9

LEMMA InitSilent ==
  ASSUME SpellingIsKept, Init
  PROVE  SilentInv
  <1>1. KeepInv
    BY InitKeeps
  <1>2. config \in Configs /\ ConfigOK
    BY ConfigFacts DEF Init
  <1>3. PICK letters \in (SUBSET Letters) \ {{}}, documented \in SUBSET Letters,
             case \in [Letters -> IF config.output = "asis" THEN {"lower"}
                                  ELSE IF config.sortBy \in Respelled THEN Case
                                  ELSE {config.output}] :
          /\ warehouse = [i \in DOMAIN SetToSeq(letters) |->
                            [letter |-> SetToSeq(letters)[i], comment |-> NoText]]
          /\ yaml = Documented({Name(l, case[l]) : l \in documented})
    BY DEF Init
  <1> DEFINE names == FirstNames(documented, case)
  <1>4. yaml = Documented(names)
    BY <1>3 DEF FirstNames
  <1>5. /\ IsFiniteSet(names) /\ \A a \in names : Spelled(a)
        /\ \A a, b \in names : a.letter = b.letter => a = b
        /\ config.sortBy = "database" => \A a \in names : Output(a) = a
    BY <1>2, FirstNamesFacts
  <1> HIDE DEF names
  <1>6. \A i \in DOMAIN yaml : yaml[i].name \in names
    BY <1>4, <1>5, DocumentedIs
  <1>7. config.sortBy = "database" => WrittenAs(yaml)
    BY <1>5, <1>6 DEF WrittenAs
  <1>8. ~InRun /\ ~Comparable
    BY DEF Init, InRun, Comparable
  <1>9. QED
    BY <1>1, <1>7, <1>8 DEF SilentInv, TidyInv, SettledInv, RepeatInv, UncommittedInv

LEMMA NextSilent ==
  ASSUME CasesAreSettled, SilentInv, [Next]_vars
  PROVE  SilentInv'
  <1>1. KeepInv /\ TypeOK /\ TidyInv
    BY DEF SilentInv, KeepInv
  <1>2. KeepInv'
    BY <1>1, NextKeeps
  <1>3. TidyInv' /\ SettledInv' /\ RepeatInv' /\ UncommittedInv'
    <2>1. CASE Start
      BY <2>1, StartSilent
    <2>2. CASE Finish
      BY <2>2, FinishSilent
    <2>3. ASSUME NEW op \in {"inject", "remove", "sort", "types"}, Operation(op)
          PROVE  TidyInv' /\ SettledInv' /\ RepeatInv' /\ UncommittedInv'
      BY <2>3, OperationSilent
    <2>4. CASE Describe \/ AddToWarehouse \/ DropFromWarehouse
      BY <1>1, <2>4, EditSilent
    <2>5. CASE UNCHANGED vars
      BY <2>5, StutterSilent
    <2>6. QED
      BY <2>1, <2>2, <2>3, <2>4, <2>5 DEF Next
  <1>4. QED
    BY <1>2, <1>3 DEF SilentInv

LEMMA FinishRepeats ==
  ASSUME SilentInv, Finish, steady = Answers, reached # "late", ~config.dryRun
  PROVE  yaml' = before /\ ~mutated'
  <1>1. TypeOK /\ ListsOK /\ RunInv /\ TidyInv /\ SettledInv /\ RepeatInv /\ UncommittedInv
    BY DEF SilentInv, KeepInv
  <1>2. /\ pc = <<>> /\ InRun
        /\ IF config.mode = "batch" THEN Committed(columns) ELSE UNCHANGED <<doc, mutated, yaml>>
    BY DEF Finish, InRun
  <1>3. CASE config.mode = "none"
    BY <1>1, <1>2, <1>3 DEF RunInv, CommitsAtOnce, UncommittedInv
  <1>4. CASE config.mode # "none"
    <2>1. steady[1] = cll /\ steady[2] = reached
      BY DEF Answers
    <2>2. <<>> # Pipeline
      BY DEF Pipeline
    <2>3. ~(~cll /\ reached = "unasked")
      BY <1>1, <1>2, <2>2 DEF TidyInv, Tidy
    <2>4. Comparable
      <3>1. ASSUME steady = NoAnswers PROVE FALSE
        <4>1. steady[1] = FALSE /\ steady[2] = "unasked"
          BY <3>1 DEF NoAnswers
        <4>2. QED
          BY <2>1, <2>3, <4>1
      <3>2. QED
        BY <1>4, <3>1 DEF Comparable
    <2>5. columns = Parsed(before) /\ doc = before /\ yaml = before /\ ~mutated
      BY <1>1, <1>2, <2>1, <2>4 DEF RepeatInv
    <2>6. WrittenAs(before)
      BY <1>1, <1>2, <2>4 DEF SettledInv, Settled, FileAtRest
    <2>7. CASE config.mode = "batch"
      BY <1>1, <1>2, <2>5, <2>6, <2>7, CommitRepeats
    <2>8. CASE config.mode # "batch"
      BY <1>2, <2>5, <2>8
    <2>9. QED
      BY <2>7, <2>8
  <1>5. QED
    BY <1>3, <1>4

\* A run that is answered as the run before it was, with no edit between them,
\* finds nothing to change: it leaves the file as it found it and --check passes,
\* for both commands, in every commit mode and both sort orders (transforms.py,
\* sync_operations.py, the mutation counter behind --check).  A file to be sorted
\* as in the database must spell its names as they are written from the start.
THEOREM SecondRunSilent ==
  ASSUME CasesAreSettled, SpellingIsKept
  PROVE  Spec => SecondRunIsSilent
  <1>1. SpellingIsKept /\ Init => SilentInv
    BY InitSilent
  <1>2. CasesAreSettled /\ SilentInv /\ [Next]_vars => SilentInv'
    BY NextSilent
  <1>3. SilentInv /\ [Next]_vars =>
          [Finish /\ steady = Answers /\ reached # "late" /\ ~config.dryRun
             => yaml' = before /\ ~mutated']_vars
    BY FinishRepeats
  <1>4. [](CasesAreSettled /\ SpellingIsKept)
    BY PTL
  <1>5. QED
    BY <1>1, <1>2, <1>3, <1>4, PTL DEF Spec, SecondRunIsSilent
=============================================================================
