---------------------------- MODULE RegistryProofs ----------------------------
(***************************************************************************)
(* Two theorems about the registry, for any number of threads and models   *)
(* and any SQL.  Readers need no lock: once a model is marked done nobody  *)
(* changes its columns again.  And what they read is right: the rows       *)
(* answered are those of a parse of the whole project in dependency order, *)
(* whatever was asked before, by whom and in which order.                  *)
(*                                                                         *)
(* Both rest on the graph of refs being acyclic, which dbt enforces; an    *)
(* incremental model may read itself.  The recursion of                    *)
(* _ensure_lineage_locked then only ever goes down that graph, so it never *)
(* works on a model that a frame below it has in hand, and what it has     *)
(* found of a model is what the parse of the whole project would find.     *)
(***************************************************************************)
EXTENDS Registry, FiniteSetTheorems, SequenceTheorems, WellFoundedInduction, TLAPS

RankOf(w) == CHOOSE rank \in [Relations -> Nat] : Ranks(w, rank)

-----------------------------------------------------------------------------
(* The stack s of _ensure_lineage_locked with its in_progress sets t, the  *)
(* models a being parsed and the models d that are done, in the world w    *)

Frames == [model : Relations, how : {"request", "lookup", "star"},
           at : {"enter", "parse", "stars"}, left : SUBSET Items,
           found : SUBSET [out : Columns, source : Relations \X Columns],
           stars : SUBSET Relations]

\* A frame that works on a model works on an unfinished one, whose SQL it is
\* parsing or whose star sources it has still to read; all but the top one work.
FrameOK(s, i, a, d, w) ==
  /\ i < Len(s) => s[i].at # "enter"
  /\ s[i].at = "enter" => s[i].stars = {}
  /\ s[i].at # "enter" => s[i].model \in Models \ d
  /\ s[i].at = "parse" => s[i].model \in a /\ s[i].left \subseteq Sql(s[i].model, w).items
  /\ s[i].at = "stars" => s[i].stars \subseteq Sql(s[i].model, w).stars

\* The top frame is a model about to read itself with `*`.
SelfStar(s, i, j) ==
  /\ j = Len(s) /\ i = j - 1
  /\ s[j].at = "enter" /\ s[j].how = "star" /\ s[j].model = s[i].model

\* The stack goes down the graph of refs.
Descends(s, w) ==
  \A i, j \in 1..Len(s) :
     i < j => RankOf(w)[s[j].model] < RankOf(w)[s[i].model] \/ SelfStar(s, i, j)

\* Each frame has an in_progress set, the top one the last of them, and what a
\* frame works on is in its set.
ChainsOf(s, t, chain) ==
  /\ s # <<>> => chain[Len(s)] = Len(t)
  /\ \A i \in 1..Len(s) : s[i].at # "enter" => s[i].model \in t[chain[i]]
  /\ \A i \in 1..Len(s) : i > 1 =>
       chain[i] = IF NewChain(s[i].how) THEN chain[i-1] + 1 ELSE chain[i-1]
  /\ \A i, j \in 1..Len(s) : i < j => chain[i] <= chain[j]

Chained(s, t) == \E chain \in [1..Len(s) -> 1..Len(t)] : ChainsOf(s, t, chain)

StackOK(s, t, a, d, w) ==
  /\ s \in Seq(Frames) /\ t \in Seq(SUBSET Models)
  /\ \A i \in 1..Len(s) : FrameOK(s, i, a, d, w)
  /\ Descends(s, w)
  /\ Chained(s, t)

LEMMA RankFacts ==
  ASSUME Acyclic, NEW w \in [Models -> Versions]
  PROVE  RankOf(w) \in [Relations -> Nat] /\ Ranks(w, RankOf(w))
BY DEF Acyclic, RankOf

LEMMA EmptyOK ==
  ASSUME NEW t \in Seq(SUBSET Models), NEW a, NEW d, NEW w
  PROVE  StackOK(<<>>, t, a, d, w)
  <1>1. <<>> \in Seq(Frames) /\ Len(<<>>) = 0 /\ 1..0 = {}
    BY EmptySeq
  <1>2. [i \in 1..0 |-> 1] \in [1..0 -> 1..Len(t)]
    BY <1>1
  <1>3. ChainsOf(<<>>, t, [i \in 1..0 |-> 1])
    BY <1>1 DEF ChainsOf
  <1>4. QED
    BY <1>1, <1>2, <1>3 DEF StackOK, Descends, Chained

LEMMA FrontFacts ==
  ASSUME NEW S, NEW s \in Seq(S), s # <<>>
  PROVE  /\ Front(s) \in Seq(S) /\ Len(s) \in Nat /\ Len(s) >= 1 /\ Len(Front(s)) = Len(s) - 1
         /\ \A i \in 1..Len(s)-1 : Front(s)[i] = s[i]
  <1>1. Len(s) \in Nat \ {0}
    BY EmptySeq
  <1>2. \A i \in 1..Len(s)-1 : s[i] \in S
    BY <1>1, ElementOfSeq
  <1> DEFINE m == Len(s) - 1
             r == SubSeq(s, 1, m)
  <1>3. m \in Int /\ m >= 0
    BY <1>1
  <1>4. r \in Seq(S) /\ Len(r) = (IF 1 <= m THEN m-1+1 ELSE 0) /\ \A i \in 1..m-1+1 : r[i] = s[1+i-1]
    BY <1>2, <1>3, SubSeqProperties
  <1> HIDE DEF m, r
  <1>5. Len(r) = m /\ \A i \in 1..m : r[i] = s[i]
    BY <1>3, <1>4
  <1>6. QED
    BY <1>1, <1>4, <1>5 DEF Front, m, r

\* A frame whose model is not in the last in_progress set, or that works, is no
\* model reading itself: it lies strictly lower than every frame below it.
LEMMA StrictlyLower ==
  ASSUME NEW s, NEW t, NEW a, NEW d, NEW w, StackOK(s, t, a, d, w), s # <<>>,
         s[Len(s)].at # "enter" \/ s[Len(s)].model \notin t[Len(t)]
  PROVE  \A i \in 1..Len(s)-1 : RankOf(w)[s[Len(s)].model] < RankOf(w)[s[i].model]
  <1>1. s \in Seq(Frames) /\ Len(s) \in Nat \ {0}
    BY EmptySeq DEF StackOK
  <1>2. ASSUME NEW i \in 1..Len(s)-1, SelfStar(s, i, Len(s)) PROVE FALSE
    <2>1. s[i].at # "enter" /\ s[Len(s)].at = "enter" /\ s[i].model = s[Len(s)].model
      BY <1>1, <1>2 DEF StackOK, FrameOK, SelfStar
    <2>2. PICK chain \in [1..Len(s) -> 1..Len(t)] : ChainsOf(s, t, chain)
      BY DEF StackOK, Chained
    <2>3. chain[Len(s)] = Len(t) /\ s[i].model \in t[chain[i]]
      BY <1>1, <2>1, <2>2 DEF ChainsOf
    <2>4. chain[Len(s)] = chain[i]
      BY <1>1, <1>2, <2>2 DEF ChainsOf, SelfStar, NewChain
    <2>5. QED
      BY <2>1, <2>3, <2>4
  <1>3. QED
    BY <1>1, <1>2 DEF StackOK, Descends

\* The top frame starts or goes on working on its model.
LEMMA ChangeOK ==
  ASSUME NEW s, NEW t, NEW a, NEW d, NEW w, StackOK(s, t, a, d, w), s # <<>>,
         \A i \in 1..Len(s)-1 : RankOf(w)[s[Len(s)].model] < RankOf(w)[s[i].model],
         RankOf(w) \in [Relations -> Nat],
         NEW f \in Frames, f.model = s[Len(s)].model, f.how = s[Len(s)].how, f.at # "enter",
         f.model \in Models \ d,
         NEW b, a \ {f.model} \subseteq b,
         f.at = "parse" => f.model \in b /\ f.left \subseteq Sql(f.model, w).items,
         f.at = "stars" => f.stars \subseteq Sql(f.model, w).stars,
         NEW u \in Seq(SUBSET Models), Len(u) = Len(t), f.model \in u[Len(t)],
         \A i \in 1..Len(t) : t[i] \subseteq u[i]
  PROVE  StackOK([s EXCEPT ![Len(s)] = f], u, b, d, w)
  <1> DEFINE n == Len(s)
             r == [s EXCEPT ![n] = f]
  <1>1. s \in Seq(Frames) /\ n \in Nat \ {0} /\ n \in 1..n
    BY EmptySeq DEF StackOK
  <1>2. r \in Seq(Frames) /\ Len(r) = n /\ \A j \in 1..n : r[j] = IF j = n THEN f ELSE s[j]
    BY <1>1, ExceptSeq
  <1> HIDE DEF r
  <1>3. \A i \in 1..n : s[i] \in Frames
    BY <1>1, ElementOfSeq
  <1>4. \A i \in 1..n-1 : s[i].model # f.model
    BY <1>1, <1>3 DEF Frames
  <1>5. ASSUME NEW i \in 1..n PROVE FrameOK(r, i, b, d, w)
    <2>1. CASE i = n
      BY <1>1, <1>2, <2>1 DEF FrameOK
    <2>2. CASE i # n
      <3>1. i \in 1..n-1 /\ r[i] = s[i]
        BY <1>1, <1>2, <2>2
      <3>2. FrameOK(s, i, a, d, w) /\ s[i].model # f.model
        BY <3>1, <1>4 DEF StackOK
      <3>3. QED
        BY <1>2, <3>1, <3>2 DEF FrameOK
    <2>3. QED
      BY <2>1, <2>2
  <1>6. Descends(r, w)
    <2> SUFFICES ASSUME NEW i \in 1..n, NEW j \in 1..n, i < j
                 PROVE  RankOf(w)[r[j].model] < RankOf(w)[r[i].model]
      BY <1>2 DEF Descends
    <2>1. i \in 1..n-1 /\ r[i] = s[i]
      BY <1>1, <1>2
    <2>2. CASE j = n
      BY <1>2, <2>1, <2>2
    <2>3. CASE j # n
      <3>1. r[j] = s[j] /\ ~SelfStar(s, i, j)
        BY <1>2, <2>3 DEF SelfStar
      <3>2. QED
        BY <2>1, <3>1 DEF StackOK, Descends
    <2>4. QED
      BY <2>2, <2>3
  <1>7. Chained(r, u)
    <2>1. PICK chain \in [1..n -> 1..Len(t)] : ChainsOf(s, t, chain)
      BY DEF StackOK, Chained
    <2>2. r # <<>>
      BY <1>1, <1>2, EmptySeq
    <2>3. \A i \in 1..n : r[i].how = s[i].how
      BY <1>2
    <2>4. ASSUME NEW i \in 1..n, r[i].at # "enter" PROVE r[i].model \in u[chain[i]]
      <3>1. CASE i = n
        <4>1. chain[n] = Len(t) /\ r[n] = f
          BY <1>1, <1>2, <2>1 DEF ChainsOf
        <4>2. QED
          BY <3>1, <4>1
      <3>2. CASE i # n
        <4>1. r[i] = s[i] /\ chain[i] \in 1..Len(t)
          BY <1>2, <3>2
        <4>2. s[i].model \in t[chain[i]]
          BY <2>1, <2>4, <4>1 DEF ChainsOf
        <4>3. QED
          BY <4>1, <4>2
      <3>3. QED
        BY <3>1, <3>2
    <2>5. ChainsOf(r, u, chain)
      <3>1. chain[n] = Len(u)
        BY <1>1, <2>1 DEF ChainsOf
      <3>2. QED
        BY <1>2, <2>1, <2>3, <2>4, <3>1 DEF ChainsOf
    <2>6. QED
      BY <1>2, <2>5 DEF Chained
  <1>8. QED
    BY <1>2, <1>5, <1>6, <1>7 DEF StackOK, r

\* A frame is put on an empty stack, on one it lies strictly below, or on the very
\* model it names as a star source.
LEMMA PushOK ==
  ASSUME NEW s, NEW t, NEW a, NEW d, NEW w, StackOK(s, t, a, d, w),
         RankOf(w) \in [Relations -> Nat],
         NEW f \in Frames, f.at = "enter", f.stars = {},
         \/ s = <<>> /\ NewChain(f.how)
         \/ /\ s # <<>> /\ s[Len(s)].at # "enter"
            /\ \/ RankOf(w)[f.model] < RankOf(w)[s[Len(s)].model]
               \/ f.how = "star" /\ f.model = s[Len(s)].model,
         NEW b, a \subseteq b,
         NEW u, u = IF NewChain(f.how) THEN Append(t, {}) ELSE t
  PROVE  StackOK(Append(s, f), u, b, d, w)
  <1> DEFINE n == Len(s)
             r == Append(s, f)
  <1>1. s \in Seq(Frames) /\ n \in Nat /\ t \in Seq(SUBSET Models) /\ Len(t) \in Nat
    BY LenProperties DEF StackOK
  <1>2. /\ r \in Seq(Frames) /\ Len(r) = n + 1
        /\ r[n+1] = f /\ \A i \in 1..n : r[i] = s[i]
    BY <1>1, AppendProperties
  <1>3. u \in Seq(SUBSET Models) /\ Len(u) \in {Len(t), Len(t)+1} /\ \A i \in 1..Len(t) : u[i] = t[i]
    <2>1. {} \in SUBSET Models
      OBVIOUS
    <2>2. Append(t, {}) \in Seq(SUBSET Models) /\ Len(Append(t, {})) = Len(t) + 1 /\ \A i \in 1..Len(t) : Append(t, {})[i] = t[i]
      BY <1>1, <2>1, AppendProperties
    <2>3. QED
      BY <1>1, <2>2
  <1>4. Len(u) = IF NewChain(f.how) THEN Len(t) + 1 ELSE Len(t)
    <2>1. {} \in SUBSET Models
      OBVIOUS
    <2>2. Len(Append(t, {})) = Len(t) + 1
      BY <1>1, <2>1, AppendProperties
    <2>3. QED
      BY <2>2
  <1> HIDE DEF r
  <1>5. s # <<>> => n \in 1..n /\ n \in Nat \ {0}
    BY <1>1, EmptySeq
  <1>6. \A i \in 1..n : s[i] \in Frames /\ s[i].at # "enter"
    <2>1. \A i \in 1..n : s[i] \in Frames
      BY <1>1, ElementOfSeq
    <2>2. ASSUME NEW i \in 1..n PROVE s[i].at # "enter"
      <3>1. s # <<>>
        BY <1>1, <2>2, EmptySeq
      <3>2. i < n => s[i].at # "enter"
        BY <2>2 DEF StackOK, FrameOK
      <3>3. QED
        BY <1>1, <3>1, <3>2
    <2>3. QED
      BY <2>1, <2>2
  <1>7. ASSUME NEW i \in 1..n+1 PROVE FrameOK(r, i, b, d, w)
    <2>1. CASE i = n + 1
      BY <1>1, <1>2, <2>1 DEF FrameOK
    <2>2. CASE i # n + 1
      <3>1. i \in 1..n /\ r[i] = s[i]
        BY <1>1, <1>2, <2>2
      <3>2. FrameOK(s, i, a, d, w) /\ s[i].at # "enter"
        BY <1>6, <3>1 DEF StackOK
      <3>3. QED
        BY <3>1, <3>2 DEF FrameOK
    <2>3. QED
      BY <2>1, <2>2
  <1>8. Descends(r, w)
    <2>1. ASSUME NEW i \in 1..n, NEW j \in 1..n, i < j
          PROVE  RankOf(w)[s[j].model] < RankOf(w)[s[i].model]
      <3>1. ~SelfStar(s, i, j)
        BY <1>6, <2>1 DEF SelfStar
      <3>2. QED
        BY <2>1, <3>1 DEF StackOK, Descends
    <2>2. ASSUME NEW i \in 1..n
          PROVE  RankOf(w)[f.model] < RankOf(w)[s[i].model] \/ SelfStar(r, i, n+1)
      <3>1. s # <<>> /\ n \in 1..n
        BY <1>1, <1>5, <2>2, EmptySeq
      <3>2. CASE RankOf(w)[f.model] < RankOf(w)[s[n].model]
        <4>1. /\ RankOf(w)[f.model] \in Nat /\ RankOf(w)[s[n].model] \in Nat
              /\ RankOf(w)[s[i].model] \in Nat
          BY <1>6, <3>1 DEF Frames
        <4>2. i = n \/ RankOf(w)[s[n].model] < RankOf(w)[s[i].model]
          BY <1>1, <2>1, <3>1
        <4>3. QED
          BY <3>2, <4>1, <4>2
      <3>3. CASE f.how = "star" /\ f.model = s[n].model
        <4>1. CASE i = n
          BY <1>1, <1>2, <3>1, <3>3, <4>1 DEF SelfStar
        <4>2. CASE i # n
          BY <1>1, <2>1, <3>1, <3>3, <4>2
        <4>3. QED
          BY <4>1, <4>2
      <3>4. QED
        BY <3>1, <3>2, <3>3
    <2>3. ASSUME NEW i \in 1..n+1, NEW j \in 1..n+1, i < j
          PROVE  RankOf(w)[r[j].model] < RankOf(w)[r[i].model] \/ SelfStar(r, i, j)
      <3>1. i \in 1..n /\ r[i] = s[i]
        BY <1>1, <1>2, <2>3
      <3>2. CASE j = n + 1
        BY <1>2, <2>2, <3>1, <3>2
      <3>3. CASE j # n + 1
        <4>1. j \in 1..n /\ r[j] = s[j]
          BY <1>1, <1>2, <3>3
        <4>2. QED
          BY <2>1, <2>3, <3>1, <4>1
      <3>4. QED
        BY <3>2, <3>3
    <2>4. QED
      BY <1>2, <2>3 DEF Descends
  <1>9. Chained(r, u)
    <2>1. PICK chain \in [1..n -> 1..Len(t)] : ChainsOf(s, t, chain)
      BY DEF StackOK, Chained
    <2> DEFINE new == [i \in 1..n+1 |-> IF i = n + 1 THEN Len(u) ELSE chain[i]]
    <2>2. Len(u) >= 1 /\ Len(u) \in Nat
      <3>1. CASE NewChain(f.how)
        BY <1>1, <1>4, <3>1
      <3>2. CASE ~NewChain(f.how)
        <4>1. n \in 1..n
          BY <1>5, <3>2
        <4>2. chain[n] \in 1..Len(t)
          BY <2>1, <4>1
        <4>3. QED
          BY <1>1, <1>4, <3>2, <4>2
      <3>3. QED
        BY <3>1, <3>2
    <2>3. /\ new[n+1] = Len(u) /\ \A i \in 1..n : new[i] = chain[i]
          /\ \A i \in 1..n : chain[i] \in 1..Len(t)
      <3>1. n + 1 \in 1..n+1 /\ \A i \in 1..n : i \in 1..n+1 /\ i # n + 1
        BY <1>1
      <3>2. QED
        BY <2>1, <3>1
    <2>4. new \in [1..n+1 -> 1..Len(u)]
      BY <1>1, <1>4, <2>2
    <2> HIDE DEF new
    <2>5. ASSUME NEW i \in 1..n+1, r[i].at # "enter" PROVE r[i].model \in u[new[i]]
      <3>1. i \in 1..n /\ r[i] = s[i]
        BY <1>1, <1>2, <2>5
      <3>2. s[i].model \in t[chain[i]]
        BY <2>1, <2>5, <3>1 DEF ChainsOf
      <3>3. QED
        BY <1>3, <2>3, <3>1, <3>2
    <2>6. ASSUME NEW i \in 1..n+1, i > 1
          PROVE  new[i] = IF NewChain(r[i].how) THEN new[i-1] + 1 ELSE new[i-1]
      <3>1. i - 1 \in 1..n
        BY <1>1, <2>6
      <3>2. CASE i = n + 1
        <4>1. chain[n] = Len(t) /\ i - 1 = n
          BY <1>1, <1>5, <2>1, <2>6, <3>2, EmptySeq DEF ChainsOf
        <4>2. QED
          BY <1>1, <1>2, <1>4, <2>3, <3>1, <3>2, <4>1
      <3>3. CASE i # n + 1
        <4>1. i \in 1..n /\ r[i] = s[i]
          BY <1>1, <1>2, <3>3
        <4>2. QED
          BY <2>1, <2>3, <2>6, <3>1, <4>1 DEF ChainsOf
      <3>4. QED
        BY <3>2, <3>3
    <2>7. ASSUME NEW i \in 1..n+1, NEW j \in 1..n+1, i < j PROVE new[i] <= new[j]
      <3>1. i \in 1..n
        BY <1>1, <2>7
      <3>2. CASE j = n + 1
        BY <1>1, <1>4, <2>3, <3>1, <3>2
      <3>3. CASE j # n + 1
        <4>1. j \in 1..n
          BY <1>1, <3>3
        <4>2. QED
          BY <2>1, <2>3, <2>7, <3>1, <4>1 DEF ChainsOf
      <3>4. QED
        BY <3>2, <3>3
    <2>8. ChainsOf(r, u, new)
      BY <1>2, <2>3, <2>5, <2>6, <2>7 DEF ChainsOf
    <2>9. QED
      BY <1>2, <2>4, <2>8 DEF Chained
  <1>10. QED
    BY <1>2, <1>3, <1>7, <1>8, <1>9 DEF StackOK, r

\* The top frame returns; its model may be done then.
LEMMA PopOK ==
  ASSUME NEW s, NEW t, NEW a, NEW d, NEW w, StackOK(s, t, a, d, w), s # <<>>,
         RankOf(w) \in [Relations -> Nat],
         NEW u, u = IF NewChain(s[Len(s)].how) THEN Front(t) ELSE t,
         NEW b, a \ {s[Len(s)].model} \subseteq b, s[Len(s)].how # "lookup" => a \subseteq b,
         NEW e, \/ e = d
                \/ e = d \cup {s[Len(s)].model} /\ s[Len(s)].at # "enter"
                \/ e = d \cup {s[Len(s)].model} /\ s[Len(s)].model \notin Models
  PROVE  StackOK(Front(s), u, b, e, w)
  <1> DEFINE n == Len(s)
             r == Front(s)
             top == s[n]
  <1>1. /\ s \in Seq(Frames) /\ n \in Nat /\ n >= 1 /\ t \in Seq(SUBSET Models) /\ Len(t) \in Nat
        /\ r \in Seq(Frames) /\ Len(r) = n - 1 /\ \A i \in 1..n-1 : r[i] = s[i]
    BY LenProperties, FrontFacts DEF StackOK
  <1>2. PICK chain \in [1..n -> 1..Len(t)] : ChainsOf(s, t, chain)
    BY DEF StackOK, Chained
  <1>3. chain[n] = Len(t) /\ Len(t) >= 1 /\ t # <<>>
    BY <1>1, <1>2, EmptySeq DEF ChainsOf
  <1>4. /\ u \in Seq(SUBSET Models)
        /\ Len(u) = IF NewChain(top.how) THEN Len(t) - 1 ELSE Len(t)
        /\ \A i \in 1..Len(u) : u[i] = t[i]
    BY <1>1, <1>3, FrontFacts
  <1> HIDE DEF r
  <1>5. \A i \in 1..n-1 : s[i].at # "enter" /\ s[i].model \in Models \ d /\ FrameOK(s, i, a, d, w)
    BY <1>1 DEF StackOK, FrameOK
  <1>6. \A i \in 1..n-1 : RankOf(w)[top.model] < RankOf(w)[s[i].model] \/ SelfStar(s, i, n)
    BY <1>1 DEF StackOK, Descends
  <1>7. \A i \in 1..n-1 : s[i].model # top.model \/ SelfStar(s, i, n)
    <2>1. top \in Frames
      BY <1>1, ElementOfSeq
    <2>2. RankOf(w)[top.model] \in Nat
      BY <2>1 DEF Frames
    <2>3. QED
      BY <1>6, <2>2
  <1>8. ASSUME NEW i \in 1..n-1 PROVE FrameOK(r, i, b, e, w)
    <2>1. r[i] = s[i] /\ s[i].at # "enter" /\ s[i].model \in Models \ d /\ FrameOK(s, i, a, d, w)
      BY <1>1, <1>5
    <2>2. s[i].model \notin e
      BY <1>7, <2>1 DEF SelfStar
    <2>3. s[i].model \in a => s[i].model \in b
      BY <1>7 DEF SelfStar
    <2>4. QED
      BY <2>1, <2>2, <2>3 DEF FrameOK
  <1>9. Descends(r, w)
    <2> SUFFICES ASSUME NEW i \in 1..n-1, NEW j \in 1..n-1, i < j
                 PROVE  RankOf(w)[r[j].model] < RankOf(w)[r[i].model]
      BY <1>1 DEF Descends
    <2>0. j # n /\ i \in 1..n /\ j \in 1..n
      BY <1>1
    <2>1. r[i] = s[i] /\ r[j] = s[j] /\ ~SelfStar(s, i, j)
      BY <1>1, <2>0 DEF SelfStar
    <2>2. QED
      BY <2>0, <2>1 DEF StackOK, Descends
  <1>10. Chained(r, u)
    <2> DEFINE new == [i \in 1..n-1 |-> chain[i]]
    <2>0. \A i \in 1..n-1 : i \in 1..n
      BY <1>1
    <2>1. \A i \in 1..n-1 : new[i] = chain[i] /\ chain[i] \in 1..Len(t) /\ i \in 1..n
      BY <1>2, <2>0
    <2> HIDE DEF new
    <2>2. n > 1 => chain[n] = IF NewChain(top.how) THEN chain[n-1] + 1 ELSE chain[n-1]
      BY <1>1, <1>2 DEF ChainsOf
    <2>3. n > 1 => n - 1 \in 1..n-1 /\ chain[n-1] \in 1..Len(t) /\ chain[n-1] = Len(u)
      <3>1. n > 1 => n - 1 \in 1..n-1
        BY <1>1
      <3>2. QED
        BY <1>1, <1>3, <1>4, <2>1, <2>2, <3>1
    <2>4. \A i \in 1..n-1 : chain[i] <= chain[n-1]
      <3> SUFFICES ASSUME NEW i \in 1..n-1 PROVE chain[i] <= chain[n-1]
        OBVIOUS
      <3>1. n - 1 \in 1..n-1 /\ chain[i] \in Nat
        BY <1>1, <2>1
      <3>2. CASE i = n - 1
        BY <3>1, <3>2
      <3>3. CASE i # n - 1
        BY <1>1, <1>2, <2>1, <3>1, <3>3 DEF ChainsOf
      <3>4. QED
        BY <3>2, <3>3
    <2>5. \A i \in 1..n-1 : new[i] \in 1..Len(u)
      BY <1>1, <1>4, <2>1, <2>3, <2>4
    <2>6. new \in [1..n-1 -> 1..Len(u)]
      BY <2>5 DEF new
    <2>7. ASSUME NEW i \in 1..n-1 PROVE r[i].model \in u[new[i]]
      <3>1. s[i].model \in t[chain[i]]
        BY <1>2, <1>5, <2>1 DEF ChainsOf
      <3>2. QED
        BY <1>1, <1>4, <2>1, <2>5, <3>1
    <2>8. ASSUME NEW i \in 1..n-1, i > 1
          PROVE  new[i] = IF NewChain(r[i].how) THEN new[i-1] + 1 ELSE new[i-1]
      <3>1. i - 1 \in 1..n-1
        BY <1>1, <2>8
      <3>2. QED
        BY <1>1, <1>2, <2>1, <2>8, <3>1 DEF ChainsOf
    <2>9. \A i, j \in 1..n-1 : i < j => new[i] <= new[j]
      BY <1>2, <2>1 DEF ChainsOf
    <2>10. r # <<>> => new[n-1] = Len(u)
      <3>1. r # <<>> => n > 1
        BY <1>1, EmptySeq
      <3>2. QED
        BY <2>1, <2>3, <3>1
    <2>11. ChainsOf(r, u, new)
      BY <1>1, <2>7, <2>8, <2>9, <2>10 DEF ChainsOf
    <2>12. QED
      BY <1>1, <2>6, <2>11 DEF Chained
  <1>11. QED
    BY <1>1, <1>4, <1>8, <1>9, <1>10 DEF StackOK, r

-----------------------------------------------------------------------------
(* The registry                                                            *)

\* A column reads come from is one of its join's.
LEMMA PickedRelation ==
  ASSUME NEW item \in Items, NEW known PROVE PickTable(item, known) \in Relations
  <1> DEFINE having == {r \in ToSet(item.scope) : item.col \in known[r]}
  <1>1. item.scope \in Seq(Relations) /\ item.scope # <<>>
    BY DEF Items
  <1>2. Len(item.scope) \in Nat \ {0} /\ DOMAIN item.scope = 1..Len(item.scope)
    BY <1>1, EmptySeq, LenProperties
  <1>3. item.scope[1] \in Relations /\ ToSet(item.scope) \subseteq Relations
    BY <1>1, <1>2, ElementOfSeq DEF ToSet
  <1>4. Cardinality(having) = 1 => having # {}
    BY FS_EmptySet
  <1>5. QED
    BY <1>3, <1>4 DEF PickTable

\* The next model of a request is one of them.
LEMMA FirstPending ==
  ASSUME pending \subseteq Models, pending # {}
  PROVE  Order[CHOOSE i \in DOMAIN Order :
                 /\ Order[i] \in pending
                 /\ \A j \in 1..(i - 1) : Order[j] \notin pending] \in pending
  <1> DEFINE T == {i \in 1..Len(Order) : Order[i] \in pending}
  <1>1. /\ Order \in Seq(Models) /\ Len(Order) \in Nat /\ DOMAIN Order = 1..Len(Order)
        /\ ToSet(Order) = Models
    BY RegistryAssumption, LenProperties
  <1>2. T # {} /\ T \subseteq Nat
    BY <1>1 DEF ToSet
  <1>3. PICK i \in T : \A j \in T : <<j, i>> \notin OpToRel(<, Nat)
    BY <1>2, NatLessThanWellFounded, WFMin
  <1>4. \A j \in T : ~(j < i)
    BY <1>2, <1>3 DEF OpToRel
  <1>5. \A j \in 1..(i - 1) : Order[j] \notin pending
    BY <1>1, <1>4
  <1>6. i \in DOMAIN Order /\ Order[i] \in pending
    BY <1>1
  <1>7. QED
    BY <1>5, <1>6

ShapeInv ==
  /\ mode \in {"lazy", "eager"} /\ world \in [Models -> Versions]
  /\ columns = [r \in Relations |-> columns[r]]
  /\ done \subseteq Relations /\ (phase = "loading" => done \subseteq Models)
  /\ pending \subseteq Models
  /\ ask \in [Threads -> SUBSET Models]
  /\ pc \in [Threads -> {"idle", "waiting", "holding", "reading"}]
  /\ phase # "serving" =>
       stack = <<>> /\ owner = Nobody /\ \A t \in Threads : pc[t] = "idle"

StackInv == StackOK(stack, trails, active, done, world)

\* The frame at the top of the stack.
LEMMA TopFacts ==
  ASSUME ShapeInv, StackInv, stack # <<>>
  PROVE  /\ Len(stack) \in Nat \ {0} /\ Top \in Frames /\ phase = "serving"
         /\ FrameOK(stack, Len(stack), active, done, world)
         /\ Len(trails) \in Nat /\ Len(trails) >= 1 /\ trails \in Seq(SUBSET Models)
         /\ Top.at # "enter" => Top.model \in trails[Len(trails)]
  <1>1. stack \in Seq(Frames) /\ Len(stack) \in Nat \ {0} /\ trails \in Seq(SUBSET Models)
    BY EmptySeq DEF StackInv, StackOK
  <1>2. Len(stack) \in 1..Len(stack)
    BY <1>1
  <1>3. Top \in Frames /\ FrameOK(stack, Len(stack), active, done, world)
    BY <1>1, <1>2, ElementOfSeq DEF StackInv, StackOK, Top
  <1>4. PICK chain \in [1..Len(stack) -> 1..Len(trails)] : ChainsOf(stack, trails, chain)
    BY DEF StackInv, StackOK, Chained
  <1>5. chain[Len(stack)] = Len(trails) /\ chain[Len(stack)] \in 1..Len(trails)
    BY <1>2, <1>4 DEF ChainsOf
  <1>6. Top.at # "enter" => Top.model \in trails[Len(trails)]
    BY <1>2, <1>4, <1>5 DEF ChainsOf, Top
  <1>7. Len(trails) \in Nat /\ Len(trails) >= 1
    BY <1>1, <1>5, LenProperties
  <1>8. QED
    BY <1>1, <1>3, <1>6, <1>7 DEF ShapeInv

\* The SQL a model has in a world.
LEMMA SqlFacts ==
  ASSUME NEW m \in Models, NEW w \in [Models -> Versions]
  PROVE  /\ Sql(m, w) \in Texts
         /\ Sql(m, w).items \subseteq Items /\ Sql(m, w).stars \subseteq Relations
         /\ Sql(m, w).stars \subseteq Reads(m, w)
         /\ \A i \in Sql(m, w).items : ToSet(i.scope) \subseteq Reads(m, w)
BY RegistryAssumption DEF Sql, Texts, Reads

\* An eager load goes through the models one after another.
LEMMA NextModel ==
  ASSUME done \subseteq Models, done # Models
  PROVE  Order[Cardinality(done) + 1] \in Models
  <1>1. Order \in Seq(Models) /\ Len(Order) \in Nat /\ DOMAIN Order = 1..Len(Order) /\ ToSet(Order) = Models
    BY RegistryAssumption, LenProperties
  <1>2. [i \in 1..Len(Order) |-> Order[i]] \in Surjection(1..Len(Order), Models)
    <2>1. \A i \in 1..Len(Order) : Order[i] \in Models
      BY <1>1, ElementOfSeq
    <2>2. QED
      BY <1>1, <2>1 DEF ToSet, Surjection
  <1>3. IsFiniteSet(1..Len(Order)) /\ Cardinality(1..Len(Order)) = Len(Order)
    BY <1>1, FS_Interval
  <1>4. IsFiniteSet(Models) /\ Cardinality(Models) <= Len(Order)
    BY <1>2, <1>3, FS_Surjection
  <1>5. IsFiniteSet(done) /\ Cardinality(done) <= Cardinality(Models) /\ Cardinality(done) # Cardinality(Models)
    BY <1>4, FS_Subset
  <1>6. Cardinality(done) \in Nat /\ Cardinality(Models) \in Nat
    BY <1>4, <1>5, FS_CardinalityType
  <1>7. Cardinality(done) + 1 \in 1..Len(Order)
    BY <1>1, <1>4, <1>5, <1>6
  <1>8. QED
    BY <1>1, <1>7, ElementOfSeq

LEMMA NextShape == ShapeInv /\ StackInv /\ [Next]_vars => ShapeInv'
  <1> SUFFICES ASSUME ShapeInv, StackInv, [Next]_vars PROVE ShapeInv'
    OBVIOUS
  <1> USE DEF ShapeInv
  <1>1. CASE LoadLazy \/ Serve
    BY <1>1 DEF LoadLazy, Serve
  <1>2. CASE EagerParse
    <2>1. Order[Cardinality(done) + 1] \in Models
      BY <1>2, NextModel DEF EagerParse
    <2>2. columns' = [r \in Relations |-> columns'[r]]
      BY <1>2 DEF EagerParse
    <2>3. QED
      BY <1>2, <2>1, <2>2 DEF EagerParse, Relations
  <1>3. CASE EagerStars
    BY <1>3 DEF EagerStars
  <1>4. ASSUME NEW scope \in Scopes, NEW covered \in SUBSET scope, Hydrate(covered, scope) PROVE ShapeInv'
    BY <1>4, RegistryAssumption DEF Hydrate, Relations
  <1>5. ASSUME NEW t \in Threads,
               (\E m \in Models : Ask(t, {m})) \/ Ask(t, Models \cap here) \/ Acquire(t) \/ Release(t) \/ Read(t)
        PROVE  ShapeInv'
    <2>1. ASSUME NEW ms \in SUBSET Models, Ask(t, ms) PROVE ShapeInv'
      BY <2>1 DEF Ask
    <2>2. CASE Acquire(t)
      <3>1. pending' \subseteq Models /\ phase = "serving" /\ phase' = phase
        BY <2>2 DEF Acquire
      <3>2. QED
        BY <2>2, <3>1 DEF Acquire
    <2>3. CASE Release(t)
      <3>1. phase = "serving" /\ phase' = phase
        BY <2>3, RegistryAssumption DEF Release
      <3>2. QED
        BY <2>3, <3>1 DEF Release
    <2>4. CASE Read(t)
      BY <2>4 DEF Read
    <2>5. QED
      BY <1>5, <2>1, <2>2, <2>3, <2>4
  <1>6. CASE Ensure
    <2>1. phase = "serving"
      <3>1. CASE EnsureNext
        BY <3>1 DEF EnsureNext
      <3>2. CASE stack # <<>>
        BY <3>2
      <3>3. QED
        BY <1>6, <3>1, <3>2 DEF Ensure, EnterKnown, EnterTerminal, EnterParse, LookUp, Resolve,
           Apply, NextStar, Finish
    <2>2. Quiet
      BY <1>6 DEF Ensure, EnsureNext, EnterKnown, EnterTerminal, EnterParse, LookUp, Resolve, Apply,
         NextStar, Finish
    <2>3. pending' \subseteq Models
      BY <1>6 DEF Ensure, EnsureNext, EnterKnown, EnterTerminal, EnterParse, LookUp, Resolve, Apply,
         NextStar, Finish
    <2>4. columns' = [r \in Relations |-> columns'[r]]
      BY <1>6 DEF Ensure, EnsureNext, EnterKnown, EnterTerminal, EnterParse, LookUp, Resolve, Apply,
         NextStar, Finish
    <2>5. done' \subseteq Relations
      <3>1. CASE EnterTerminal
        BY <3>1 DEF EnterTerminal, Relations
      <3>2. CASE Finish
        <4>1. Top \in Frames
          BY <3>2, TopFacts DEF Finish
        <4>2. QED
          BY <3>2, <4>1 DEF Finish, Frames
      <3>3. CASE done' = done
        BY <3>3
      <3>4. QED
        BY <1>6, <3>1, <3>2, <3>3 DEF Ensure, EnsureNext, EnterKnown, EnterParse, LookUp, Resolve,
           Apply, NextStar
    <2>6. QED
      BY <2>1, <2>2, <2>3, <2>4, <2>5 DEF Quiet
  <1>7. CASE UNCHANGED vars
    BY <1>7 DEF vars
  <1>8. QED
    BY <1>1, <1>2, <1>3, <1>4, <1>5, <1>6, <1>7 DEF Next, Load

\* Every step keeps the stack going down.
LEMMA NextStack == Acyclic /\ ShapeInv /\ StackInv /\ [Next]_vars => StackInv'
  <1> SUFFICES ASSUME Acyclic, ShapeInv, StackInv, [Next]_vars PROVE StackInv'
    OBVIOUS
  <1> DEFINE n == Len(stack)
  <1>0. /\ world \in [Models -> Versions] /\ trails \in Seq(SUBSET Models)
        /\ RankOf(world) \in [Relations -> Nat] /\ Ranks(world, RankOf(world))
    BY RankFacts DEF ShapeInv, StackInv, StackOK
  <1>1. ASSUME UNCHANGED <<stack, trails, active, world>>, stack = <<>> \/ done' = done PROVE StackInv'
    <2>1. CASE stack = <<>>
      BY <1>0, <1>1, <2>1, EmptyOK DEF StackInv
    <2>2. CASE done' = done
      BY <1>1, <2>2 DEF StackInv
    <2>3. QED
      BY <1>1, <2>1, <2>2
  <1>2. CASE Load
    <2>1. phase # "serving" /\ UNCHANGED <<stack, trails, active, world>>
      BY <1>2 DEF Load, LoadLazy, EagerParse, EagerStars, Serve
    <2>2. QED
      BY <1>1, <2>1 DEF ShapeInv
  <1>3. ASSUME NEW scope \in Scopes, NEW covered \in SUBSET scope, Hydrate(covered, scope) PROVE StackInv'
    <2>1. phase # "serving" /\ UNCHANGED <<stack, trails, active, world>>
      BY <1>3 DEF Hydrate
    <2>2. QED
      BY <1>1, <2>1 DEF ShapeInv
  <1>4. ASSUME NEW t \in Threads,
               (\E m \in Models : Ask(t, {m})) \/ Ask(t, Models \cap here) \/ Acquire(t) \/ Release(t) \/ Read(t)
        PROVE  StackInv'
    BY <1>1, <1>4 DEF Ask, Acquire, Release, Read
  <1>5. ASSUME Quiet PROVE world' = world
    BY <1>5 DEF Quiet
  <1>6. CASE EnsureNext
    <2> DEFINE m == Order[CHOOSE i \in DOMAIN Order :
                            /\ Order[i] \in pending
                            /\ \A j \in 1..(i - 1) : Order[j] \notin pending]
               f == Frame(m, "request")
    <2>1. m \in Models /\ m \in Relations
      BY <1>6, FirstPending DEF EnsureNext, ShapeInv, Relations
    <2>2. /\ stack = <<>> /\ stack' = Append(stack, f) /\ active' = active /\ done' = done /\ world' = world
          /\ trails' = IF NewChain("request") THEN Append(trails, {}) ELSE trails
      BY <1>5, <1>6 DEF EnsureNext, Push, Frame
    <2> HIDE DEF m
    <2>3. f \in Frames /\ f.at = "enter" /\ f.stars = {} /\ f.how = "request" /\ NewChain(f.how)
      BY <2>1 DEF Frame, Frames, NewChain
    <2> HIDE DEF f
    <2>4. QED
      BY <1>0, <2>2, <2>3, PushOK DEF StackInv
  <1>7. ASSUME stack # <<>>, Pop, Quiet,
               \/ done' = done
               \/ done' = done \cup {Top.model} /\ Top.at # "enter"
               \/ done' = done \cup {Top.model} /\ Top.model \notin Models
        PROVE  StackInv'
    <2>1. /\ stack' = Front(stack) /\ trails' = IF NewChain(Top.how) THEN Front(trails) ELSE trails
          /\ active \ {Top.model} \subseteq active' /\ (Top.how # "lookup" => active \subseteq active')
          /\ world' = world
      BY <1>5, <1>7 DEF Pop
    <2>2. StackOK(Front(stack), trails', active', done', world)
      BY <1>0, <1>7, <2>1, PopOK DEF StackInv, Top
    <2>3. QED
      BY <2>1, <2>2 DEF StackInv
  <1>8. CASE EnterKnown
    BY <1>7, <1>8 DEF EnterKnown
  <1>9. CASE EnterTerminal
    BY <1>7, <1>9, RegistryAssumption DEF EnterTerminal
  <1>10. CASE Finish
    <2>1. Top.at # "enter"
      BY <1>10 DEF Finish
    <2>2. QED
      BY <1>7, <1>10, <2>1 DEF Finish
  <1>11. ASSUME stack # <<>>, Top.at # "enter" \/ Top.model \notin trails[Len(trails)]
         PROVE  \A i \in 1..n-1 : RankOf(world)[stack[n].model] < RankOf(world)[stack[i].model]
    BY <1>11, StrictlyLower DEF StackInv, Top
  <1>12. CASE EnterParse
    <2> DEFINE sql == Sql(Top.model, world)
               f == IF sql.breaks THEN [Top EXCEPT !.at = "stars"]
                    ELSE [Top EXCEPT !.at = "parse", !.left = sql.items]
               u == [trails EXCEPT ![Len(trails)] = @ \cup {Top.model}]
    <2>1. /\ stack # <<>> /\ Top.at = "enter" /\ Top.model \in Models \ (done \cup trails[Len(trails)])
          /\ trails' = u /\ done' = done /\ world' = world /\ stack' = [stack EXCEPT ![n] = f]
          /\ active' = IF sql.breaks THEN active \ {Top.model} ELSE active \cup {Top.model}
      BY <1>5, <1>12 DEF EnterParse, SetTop
    <2>2. Top \in Frames /\ Len(trails) \in Nat /\ Len(trails) >= 1 /\ Top.left \subseteq Items
      BY <2>1, TopFacts DEF Frames
    <2>3. sql.items \subseteq Items /\ sql.stars \subseteq Relations
      BY <1>0, <2>1, SqlFacts
    <2>4. /\ f \in Frames /\ f.model = Top.model /\ f.how = Top.how /\ f.at # "enter"
          /\ f.at = "parse" => f.left = sql.items /\ ~sql.breaks
          /\ f.at = "stars" => f.stars = Top.stars
      BY <2>2, <2>3 DEF Frames
    <2>5. u \in Seq(SUBSET Models) /\ Len(u) = Len(trails)
          /\ \A i \in 1..Len(trails) : u[i] = IF i = Len(trails) THEN trails[i] \cup {Top.model} ELSE trails[i]
      <3>1. Len(trails) \in 1..Len(trails)
        BY <2>2
      <3>2. trails[Len(trails)] \cup {Top.model} \in SUBSET Models
        BY <1>0, <2>1, <3>1, ElementOfSeq
      <3> DEFINE v == trails[Len(trails)] \cup {Top.model}
      <3>3. u = [trails EXCEPT ![Len(trails)] = v]
        OBVIOUS
      <3> HIDE DEF u, v
      <3>4. u \in Seq(SUBSET Models) /\ Len(u) = Len(trails)
            /\ \A i \in 1..Len(trails) : u[i] = IF i = Len(trails) THEN v ELSE trails[i]
        BY <1>0, <3>1, <3>2, <3>3, ExceptSeq DEF v
      <3>5. QED
        BY <3>1, <3>4 DEF v
    <2> HIDE DEF u
    <2>6. Top.model \in u[Len(trails)] /\ \A i \in 1..Len(trails) : trails[i] \subseteq u[i]
      <3>1. Len(trails) \in 1..Len(trails)
        BY <2>2
      <3>2. u[Len(trails)] = trails[Len(trails)] \cup {Top.model}
        BY <2>5, <3>1
      <3>3. \A i \in 1..Len(trails) : trails[i] \subseteq u[i]
        BY <2>5
      <3>4. QED
        BY <3>2, <3>3
    <2>7. f.at = "stars" => f.stars \subseteq Sql(f.model, world).stars
      BY <2>1, <2>2, <2>4, TopFacts DEF FrameOK, Top
    <2> HIDE DEF f
    <2>8. active \ {f.model} \subseteq active' /\ (f.at = "parse" => f.model \in active')
      BY <2>1, <2>4
    <2>9. StackOK([stack EXCEPT ![n] = f], u, active', done, world)
      BY <1>0, <1>11, <2>1, <2>4, <2>5, <2>6, <2>7, <2>8, ChangeOK DEF StackInv, Top
    <2>10. QED
      BY <2>1, <2>9 DEF StackInv
  <1>13. CASE LookUp
    <2>1. PICK i \in Top.left : \E r \in Blind(i) :
            /\ active' = active \cup {r}
            /\ Push(Frame(r, "lookup"))
      BY <1>13 DEF LookUp
    <2>2. PICK r \in Blind(i) : active' = active \cup {r} /\ Push(Frame(r, "lookup"))
      BY <2>1
    <2>3. stack # <<>> /\ Top.at = "parse" /\ done' = done /\ world' = world
      BY <1>5, <1>13 DEF LookUp
    <2>4. Top \in Frames /\ Top.model \in Models /\ Top.model \in active /\ i \in Sql(Top.model, world).items
      BY <2>3, TopFacts DEF FrameOK, Top
    <2>5. r \in ToSet(i.scope) /\ r \in Models /\ r \notin active /\ r \in Relations
      BY DEF Blind, Relations
    <2>6. r \in Reads(Top.model, world) \ {Top.model}
      BY <1>0, <2>4, <2>5, SqlFacts
    <2>7. RankOf(world)[r] < RankOf(world)[Top.model]
      BY <1>0, <2>4, <2>6 DEF Ranks
    <2> DEFINE f == Frame(r, "lookup")
    <2>8. f \in Frames /\ f.at = "enter" /\ f.stars = {} /\ f.model = r /\ f.how = "lookup"
      BY <2>5 DEF Frame, Frames
    <2>9. stack' = Append(stack, f) /\ trails' = IF NewChain(f.how) THEN Append(trails, {}) ELSE trails
      BY <2>2 DEF Push
    <2> HIDE DEF f
    <2>10. StackOK(Append(stack, f), trails', active', done, world)
      BY <1>0, <2>2, <2>3, <2>7, <2>8, <2>9, PushOK DEF StackInv, Top
    <2>11. QED
      BY <2>3, <2>9, <2>10 DEF StackInv
  <1>14. ASSUME stack # <<>>, Top.at # "enter", world' = world, done' = done, trails' = trails,
                active \ {Top.model} \subseteq active',
                NEW f \in Frames, stack' = [stack EXCEPT ![n] = f],
                f.model = Top.model, f.how = Top.how, f.at # "enter",
                f.at = "parse" => f.model \in active' /\ f.left \subseteq Sql(f.model, world).items,
                f.at = "stars" => f.stars \subseteq Sql(f.model, world).stars
         PROVE  StackInv'
    <2>1. /\ Top.model \in Models \ done /\ Top.model \in trails[Len(trails)]
          /\ Len(trails) = Len(trails) /\ \A i \in 1..Len(trails) : trails[i] \subseteq trails[i]
      BY <1>14, TopFacts DEF FrameOK, Top
    <2>2. StackOK([stack EXCEPT ![n] = f], trails, active', done, world)
      BY <1>0, <1>11, <1>14, <2>1, ChangeOK DEF StackInv, Top
    <2>3. QED
      BY <1>14, <2>2 DEF StackInv
  <1>15. CASE Resolve
    <2>1. PICK i \in Top.left :
            LET r == PickTable(i, [q \in ToSet(i.scope) |-> KnownColumns(q, columns[q], here)])
            IN  SetTop([Top EXCEPT !.left = @ \ {i},
                          !.found = @ \cup {[out |-> i.out, source |-> <<r, i.col>>]}])
      BY <1>15 DEF Resolve
    <2> DEFINE r == PickTable(i, [q \in ToSet(i.scope) |-> KnownColumns(q, columns[q], here)])
               f == [Top EXCEPT !.left = @ \ {i},
                       !.found = @ \cup {[out |-> i.out, source |-> <<r, i.col>>]}]
    <2>2. /\ stack # <<>> /\ Top.at = "parse" /\ world' = world /\ done' = done
          /\ trails' = trails /\ active' = active
      BY <1>5, <1>15 DEF Resolve
    <2>3. /\ Top \in Frames /\ Top.model \in active
          /\ Top.left \subseteq Sql(Top.model, world).items
      BY <2>2, TopFacts DEF FrameOK, Top
    <2>4. i \in Items
      BY <2>3 DEF Frames
    <2>5. r \in Relations
      BY <2>4, PickedRelation
    <2>6. stack' = [stack EXCEPT ![n] = f]
      BY <2>1 DEF SetTop
    <2> HIDE DEF r
    <2>7. f \in Frames /\ f.model = Top.model /\ f.how = Top.how /\ f.at = "parse" /\ f.left = Top.left \ {i}
      <3>1. [out |-> i.out, source |-> <<r, i.col>>] \in [out : Columns, source : Relations \X Columns]
        BY <2>4, <2>5 DEF Items
      <3> DEFINE e == [out |-> i.out, source |-> <<r, i.col>>]
                 found == Top.found \cup {e}
                 left == Top.left \ {i}
      <3>2. found \in SUBSET [out : Columns, source : Relations \X Columns]
        BY <2>3, <3>1 DEF Frames
      <3>3. left \in SUBSET Items
        BY <2>3 DEF Frames
      <3>4. f = [Top EXCEPT !.left = left, !.found = found]
        OBVIOUS
      <3> HIDE DEF f, left, found
      <3>5. f \in Frames /\ f.model = Top.model /\ f.how = Top.how /\ f.at = "parse" /\ f.left = left
        BY <2>2, <2>3, <3>2, <3>3, <3>4 DEF Frames
      <3>6. QED
        BY <3>5 DEF left
    <2> HIDE DEF f
    <2>8. f.model \in active' /\ f.left \subseteq Sql(f.model, world).items
      BY <2>2, <2>3, <2>7
    <2>9. QED
      BY <1>14, <2>2, <2>6, <2>7, <2>8
  <1>16. CASE Apply
    <2> DEFINE stars == Sql(Top.model, world).stars \cap here
               f == [Top EXCEPT !.at = "stars", !.stars = stars]
    <2>1. /\ stack # <<>> /\ Top.at = "parse" /\ world' = world /\ done' = done
          /\ trails' = trails /\ active' = active \ {Top.model} /\ stack' = [stack EXCEPT ![n] = f]
      BY <1>5, <1>16 DEF Apply, SetTop
    <2>2. Top \in Frames /\ Top.model \in Models
      BY <2>1, TopFacts DEF FrameOK, Top
    <2>3. stars \in SUBSET Relations /\ stars \subseteq Sql(Top.model, world).stars
      BY <1>0, <2>2, SqlFacts
    <2> HIDE DEF stars
    <2>4. f \in Frames /\ f.model = Top.model /\ f.how = Top.how /\ f.at = "stars" /\ f.stars = stars
      BY <2>2, <2>3 DEF Frames
    <2> HIDE DEF f
    <2>5. QED
      BY <1>14, <2>1, <2>3, <2>4
  <1>17. CASE NextStar
    <2>1. PICK r \in Top.stars :
            stack' = Append([stack EXCEPT ![Len(stack)].stars = @ \ {r}], Frame(r, "star"))
      BY <1>17 DEF NextStar
    <2>2. /\ stack # <<>> /\ Top.at = "stars" /\ world' = world /\ done' = done
          /\ trails' = trails /\ active' = active
      BY <1>5, <1>17 DEF NextStar
    <2>3. /\ Top \in Frames /\ Top.model \in Models \ done /\ Top.stars \subseteq Sql(Top.model, world).stars
          /\ Top.model \in trails[Len(trails)] /\ n \in Nat \ {0} /\ stack \in Seq(Frames)
      BY <2>2, TopFacts DEF FrameOK, Top, StackInv, StackOK
    <2>4. r \in Relations /\ r \in Reads(Top.model, world)
      BY <1>0, <2>3, SqlFacts DEF Frames
    <2>5. r = Top.model \/ RankOf(world)[r] < RankOf(world)[Top.model]
      BY <1>0, <2>3, <2>4 DEF Ranks
    <2> DEFINE g == [Top EXCEPT !.stars = @ \ {r}]
               s == [stack EXCEPT ![n] = g]
               f == Frame(r, "star")
    <2>6. g \in Frames /\ g.model = Top.model /\ g.how = Top.how /\ g.at = "stars" /\ g.stars = Top.stars \ {r}
      BY <2>2, <2>3 DEF Frames
    <2>7. stack' = Append(s, f)
      BY <2>1 DEF Top
    <2> HIDE DEF g
    <2>8. StackOK(s, trails, active, done, world)
      <3>1. \A i \in 1..Len(trails) : trails[i] \subseteq trails[i]
        OBVIOUS
      <3>2. QED
        BY <1>0, <1>11, <2>2, <2>3, <2>6, <3>1, ChangeOK DEF StackInv, Top
    <2>9. s # <<>> /\ Len(s) = n /\ s[n] = g
      <3>1. n \in 1..n
        BY <2>3
      <3>2. s \in Seq(Frames) /\ Len(s) = n /\ \A j \in 1..n : s[j] = IF j = n THEN g ELSE stack[j]
        BY <2>3, <2>6, <3>1, ExceptSeq
      <3> HIDE DEF s
      <3>3. QED
        BY <2>3, <3>1, <3>2, EmptySeq
    <2> HIDE DEF s
    <2>10. f \in Frames /\ f.at = "enter" /\ f.stars = {} /\ f.model = r /\ f.how = "star"
      BY <2>4 DEF Frame, Frames
    <2> HIDE DEF f
    <2>11. ~NewChain(f.how)
      BY <2>10 DEF NewChain
    <2>12. StackOK(Append(s, f), trails, active, done, world)
      BY <1>0, <2>5, <2>6, <2>8, <2>9, <2>10, <2>11, PushOK
    <2>13. QED
      BY <2>2, <2>7, <2>12 DEF StackInv
  <1>18. CASE UNCHANGED vars
    BY <1>18 DEF vars, StackInv
  <1>19. CASE Ensure
    BY <1>6, <1>8, <1>9, <1>10, <1>12, <1>13, <1>15, <1>16, <1>17, <1>19 DEF Ensure
  <1>20. QED
    BY <1>2, <1>3, <1>4, <1>18, <1>19 DEF Next

LEMMA InitReg == Init => ShapeInv /\ StackInv
  <1> SUFFICES ASSUME Init PROVE ShapeInv /\ StackInv
    OBVIOUS
  <1>1. ShapeInv
    BY RegistryAssumption DEF Init, ShapeInv
  <1>2. trails \in Seq(SUBSET Models) /\ stack = <<>>
    BY EmptySeq DEF Init
  <1>3. QED
    BY <1>1, <1>2, EmptyOK DEF StackInv

\* Whoever serves leaves the columns of a done model alone.
LEMMA DoneAlone ==
  ASSUME ShapeInv, StackInv, [Next]_vars, phase = "serving", NEW r \in done
  PROVE  columns'[r] = columns[r] /\ r \in done'
  <1>1. r \in Relations
    BY DEF ShapeInv
  <1>2. CASE Apply
    <2>1. Top.model \notin done
      BY <1>2, TopFacts DEF Apply, FrameOK, Top
    <2>2. columns = [q \in Relations |-> columns[q]]
      BY DEF ShapeInv
    <2>3. columns'[r] = columns[r]
      BY <1>1, <1>2, <2>1, <2>2 DEF Apply
    <2>4. QED
      BY <1>2, <2>3 DEF Apply
  <1>3. CASE Finish
    <2>1. Top.model \notin done
      BY <1>3, TopFacts DEF Finish, FrameOK, Top
    <2>2. columns = [q \in Relations |-> columns[q]]
      BY DEF ShapeInv
    <2>3. columns'[r] = columns[r]
      BY <1>1, <1>3, <2>1, <2>2 DEF Finish
    <2>4. QED
      BY <1>3, <2>3 DEF Finish
  <1>4. CASE columns' = columns /\ done \subseteq done'
    BY <1>4
  <1>5. ASSUME Ensure, ~Apply, ~Finish PROVE columns' = columns /\ done \subseteq done'
    BY <1>5 DEF Ensure, EnsureNext, EnterKnown, EnterTerminal, EnterParse, LookUp, Resolve, NextStar
  <1>6. CASE Load
    BY <1>6 DEF Load, LoadLazy, EagerParse, EagerStars, Serve
  <1>7. ASSUME NEW scope \in Scopes, NEW covered \in SUBSET scope, Hydrate(covered, scope) PROVE FALSE
    BY <1>7 DEF Hydrate
  <1>8. ASSUME NEW t \in Threads,
               (\E m \in Models : Ask(t, {m})) \/ Ask(t, Models \cap here) \/ Acquire(t) \/ Release(t) \/ Read(t)
        PROVE  columns' = columns /\ done \subseteq done'
    BY <1>8 DEF Ask, Acquire, Release, Read
  <1>9. CASE UNCHANGED vars
    BY <1>4, <1>9 DEF vars
  <1>10. QED
    BY <1>2, <1>3, <1>4, <1>5, <1>6, <1>7, <1>8, <1>9 DEF Next

\* Where refs are acyclic, no step of any thread changes the columns of a model
\* that is done, so callers may read them after the lock is released.
THEOREM DoneStays == ASSUME Acyclic PROVE Spec => DoneIsFinal
  <1>1. Init => ShapeInv /\ StackInv
    BY InitReg
  <1>2. ShapeInv /\ StackInv /\ [Next]_vars => (ShapeInv /\ StackInv)'
    BY NextShape, NextStack
  <1>3. ShapeInv /\ StackInv /\ [Next]_vars
        => [\A r \in done : phase = "serving" => columns'[r] = columns[r] /\ r \in done']_vars
    BY DoneAlone
  <1>4. QED
    BY <1>1, <1>2, <1>3, PTL DEF Spec, DoneIsFinal

-----------------------------------------------------------------------------
(* Recursion down a rank                                                   *)

LEMMA Least ==
  ASSUME NEW T, T \subseteq Nat, T # {}
  PROVE  \E n \in T : \A k \in T : n <= k
  <1>1. PICK n \in T : \A k \in T : <<k, n>> \notin OpToRel(<, Nat)
    BY NatLessThanWellFounded, WFMin
  <1>2. ASSUME NEW k \in T PROVE n <= k
    <2>1. k \in Nat /\ n \in Nat
      OBVIOUS
    <2>2. <<k, n>> \notin OpToRel(<, Nat)
      BY <1>1
    <2>3. ~(k < n)
      BY <2>1, <2>2 DEF OpToRel
    <2>4. QED
      BY <2>1, <2>3
  <1>3. QED
    BY <1>2

\* A set that holds every element whose lower ones it holds, holds them all.
LEMMA ByRank ==
  ASSUME NEW X, NEW rank, \A x \in X : rank[x] \in Nat, NEW S,
         \A x \in X : (\A y \in X : rank[y] < rank[x] => y \in S) => x \in S
  PROVE  X \subseteq S
  <1> DEFINE T == {rank[x] : x \in X \ S}
  <1> SUFFICES ASSUME X \ S # {} PROVE FALSE
    OBVIOUS
  <1>1. T # {} /\ T \subseteq Nat
    OBVIOUS
  <1>2. PICK n \in T : \A k \in T : n <= k
    BY <1>1, Least
  <1>3. PICK x \in X \ S : rank[x] = n
    BY <1>2
  <1>4. ASSUME NEW y \in X, rank[y] < rank[x], y \notin S PROVE FALSE
    <2>1. rank[y] \in T /\ rank[y] \in Nat /\ rank[x] \in Nat
      BY <1>4
    <2>2. rank[x] <= rank[y]
      BY <1>2, <1>3, <2>1
    <2>3. QED
      BY <1>4, <2>1, <2>2
  <1>5. QED
    BY <1>3, <1>4

\* B defines the value of an element from the values of lower ones.
GoesDown(X, V, rank, B) ==
  /\ rank \in [X -> Nat] /\ B \in [[X -> V] -> [X -> V]]
  /\ \A f, g \in [X -> V] : \A x \in X :
        (\A y \in X : rank[y] < rank[x] => f[y] = g[y]) => B[f][x] = B[g][x]

\* A definition by recursion down a rank has a solution.
LEMMA Solution ==
  ASSUME NEW X, NEW V, V # {}, NEW rank, NEW B, GoesDown(X, V, rank, B)
  PROVE  \E f \in [X -> V] : f = B[f]
  <1> DEFINE Solves(w, n) == w \in [X -> V] /\ \A x \in X : rank[x] < n => w[x] = B[w][x]
             T == {n \in Nat : ~\E w : Solves(w, n)}
             sol == [n \in Nat |-> CHOOSE w : Solves(w, n)]
             d == [x \in X |-> sol[rank[x]+1][x]]
  <1>0. /\ rank \in [X -> Nat] /\ B \in [[X -> V] -> [X -> V]]
        /\ \A f, g \in [X -> V] : \A x \in X :
              (\A y \in X : rank[y] < rank[x] => f[y] = g[y]) => B[f][x] = B[g][x]
    BY DEF GoesDown
  <1>1. \E w : Solves(w, 0)
    <2>1. [x \in X |-> CHOOSE v \in V : TRUE] \in [X -> V]
      OBVIOUS
    <2>2. \A x \in X : ~(rank[x] < 0)
      BY <1>0
    <2>3. QED
      BY <2>1, <2>2
  <1>2. ASSUME NEW n \in Nat, NEW w, Solves(w, n) PROVE Solves(B[w], n+1)
    <2>1. B[w] \in [X -> V]
      BY <1>0, <1>2
    <2>2. ASSUME NEW x \in X, rank[x] < n+1 PROVE B[w][x] = B[B[w]][x]
      <3>1. \A y \in X : rank[y] < rank[x] => rank[y] < n
        <4>1. \A y \in X : rank[y] \in Nat
          BY <1>0
        <4>2. QED
          BY <2>2, <4>1
      <3>2. \A y \in X : rank[y] < rank[x] => w[y] = B[w][y]
        BY <1>2, <3>1
      <3>3. QED
        BY <1>0, <1>2, <2>1, <3>2
    <2>3. QED
      BY <2>1, <2>2
  <1>3. \A n \in Nat : \E w : Solves(w, n)
    <2> SUFFICES ASSUME T # {} PROVE FALSE
      OBVIOUS
    <2>1. PICK n \in T : \A k \in T : n <= k
      BY Least
    <2>2. n \in Nat /\ n # 0
      BY <1>1
    <2>3. n - 1 \in Nat /\ n - 1 \notin T
      BY <2>1, <2>2
    <2>4. PICK w : Solves(w, n-1)
      BY <2>3
    <2>5. Solves(B[w], (n-1)+1) /\ (n-1)+1 = n
      BY <1>2, <2>2, <2>3, <2>4
    <2>6. \E v : Solves(v, n)
      BY <2>5
    <2>7. QED
      BY <2>6
  <1>4. \A n \in Nat : Solves(sol[n], n)
    BY <1>3
  <1>5. ASSUME NEW n \in Nat, NEW k \in Nat, NEW w, NEW v, Solves(w, n), Solves(v, k)
        PROVE  \A x \in X : rank[x] < n /\ rank[x] < k => w[x] = v[x]
    <2> DEFINE S == {x \in X : rank[x] < n /\ rank[x] < k => w[x] = v[x]}
    <2>1. ASSUME NEW x \in X, \A y \in X : rank[y] < rank[x] => y \in S,
                 rank[x] < n, rank[x] < k
          PROVE  w[x] = v[x]
      <3>1. \A y \in X : rank[y] < rank[x] => rank[y] < n /\ rank[y] < k
        <4>1. \A y \in X : rank[y] \in Nat
          BY <1>0
        <4>2. QED
          BY <2>1, <4>1
      <3>2. \A y \in X : rank[y] < rank[x] => w[y] = v[y]
        BY <2>1, <3>1
      <3>3. B[w][x] = B[v][x]
        BY <1>0, <1>5, <3>2
      <3>4. QED
        BY <1>5, <2>1, <3>3
    <2>2. X \subseteq S
      <3>1. \A x \in X : (\A y \in X : rank[y] < rank[x] => y \in S) => x \in S
        BY <2>1
      <3>2. \A x \in X : rank[x] \in Nat
        BY <1>0
      <3> HIDE DEF S
      <3>3. QED
        BY <3>1, <3>2, ByRank
    <2>3. QED
      BY <2>2
  <1> HIDE DEF Solves, sol
  <1>6. d \in [X -> V]
    BY <1>0, <1>4 DEF Solves
  <1>7. ASSUME NEW x \in X PROVE d[x] = B[d][x]
    <2> DEFINE n == rank[x] + 1
               w == sol[n]
    <2>1. n \in Nat /\ Solves(w, n) /\ d[x] = w[x]
      BY <1>0, <1>4
    <2>2. ASSUME NEW y \in X, rank[y] < rank[x] PROVE d[y] = w[y]
      <3>1. rank[y]+1 \in Nat /\ rank[y] < rank[y]+1 /\ rank[y] < n
        BY <1>0, <2>2
      <3>2. Solves(sol[rank[y]+1], rank[y]+1)
        BY <1>4, <3>1
      <3> HIDE DEF w, n, d
      <3>3. sol[rank[y]+1][y] = w[y]
        BY <1>5, <2>1, <3>1, <3>2
      <3>4. QED
        BY <3>3 DEF d
    <2>3. w \in [X -> V] /\ w[x] = B[w][x]
      BY <1>0, <2>1 DEF Solves
    <2> HIDE DEF w, n, d
    <2>4. B[d][x] = B[w][x]
      BY <1>0, <1>6, <2>2, <2>3
    <2>5. QED
      BY <2>1, <2>3, <2>4
  <1>8. d = B[d]
    <2> HIDE DEF d
    <2>1. B[d] \in [X -> V]
      BY <1>0, <1>6
    <2>2. QED
      BY <1>6, <1>7, <2>1
  <1>9. QED
    BY <1>6, <1>8

-----------------------------------------------------------------------------
(* Columns and their lineage entries                                       *)

Sources == Relations \X Columns
Entries == (SUBSET Sources) \ {{}}
Cols == UNION {[D -> Seq(Entries)] : D \in SUBSET Columns}
Founds == SUBSET [out : Columns, source : Sources]

LEMMA ColsFacts ==
  /\ \A cols \in Cols : /\ DOMAIN cols \subseteq Columns /\ cols = [c \in DOMAIN cols |-> cols[c]]
                        /\ \A c \in DOMAIN cols : cols[c] \in Seq(Entries)
  /\ \A cols : /\ DOMAIN cols \subseteq Columns /\ cols = [c \in DOMAIN cols |-> cols[c]]
               /\ \A c \in DOMAIN cols : cols[c] \in Seq(Entries)
               => cols \in Cols
  /\ Cols # {}
  <1>1. \A cols \in Cols : \E D \in SUBSET Columns : cols \in [D -> Seq(Entries)]
    BY DEF Cols
  <1>2. ASSUME NEW cols, DOMAIN cols \subseteq Columns, cols = [c \in DOMAIN cols |-> cols[c]],
               \A c \in DOMAIN cols : cols[c] \in Seq(Entries)
        PROVE  cols \in Cols
    <2>1. cols \in [DOMAIN cols -> Seq(Entries)]
      BY <1>2
    <2>2. DOMAIN cols \in SUBSET Columns
      BY <1>2
    <2>3. QED
      BY <2>1, <2>2 DEF Cols
  <1>3. [c \in {} |-> <<>>] \in [{} -> Seq(Entries)] /\ {} \in SUBSET Columns
    OBVIOUS
  <1>4. Cols # {}
    BY <1>3 DEF Cols
  <1>5. QED
    BY <1>1, <1>2, <1>4

LEMMA FlattenType ==
  ASSUME NEW S, NEW n \in Nat, NEW s \in [1..n -> Seq(S)]
  PROVE  FlattenSeq(s) \in Seq(S)
  <1>1. s \in Seq(Seq(S)) /\ Len(s) = n
    OBVIOUS
  <1>2. CASE n = 0
    <2>1. s = <<>> /\ s \in Seq(S)
      BY <1>1, <1>2, EmptySeq
    <2>2. QED
      BY <1>1, <1>2, <2>1 DEF FlattenSeq
  <1>3. CASE n # 0
    <2> DEFINE Body(f) == [i \in 1..n |-> IF i = 1 THEN s[i] ELSE f[i-1] \o s[i]]
               B == [f \in [1..n -> Seq(S)] |-> Body(f)]
               id == [i \in 1..n |-> i]
               flatten == CHOOSE f : f = Body(f)
    <2>1. id \in [1..n -> Nat] /\ Seq(S) # {}
      <3>1. \A i \in 1..n : i \in Nat
        OBVIOUS
      <3>2. <<>> \in Seq(S)
        BY EmptySeq
      <3>3. QED
        BY <3>1, <3>2
    <2>2. ASSUME NEW f \in [1..n -> Seq(S)] PROVE Body(f) \in [1..n -> Seq(S)]
      <3>1. ASSUME NEW i \in 1..n PROVE (IF i = 1 THEN s[i] ELSE f[i-1] \o s[i]) \in Seq(S)
        <4>1. CASE i = 1
          BY <4>1
        <4>2. CASE i # 1
          <5>1. i - 1 \in 1..n
            BY <4>2
          <5>2. f[i-1] \in Seq(S) /\ s[i] \in Seq(S)
            BY <5>1
          <5>3. QED
            BY <4>2, <5>2, ConcatProperties
        <4>3. QED
          BY <4>1, <4>2
      <3>2. QED
        BY <3>1
    <2>3. B \in [[1..n -> Seq(S)] -> [1..n -> Seq(S)]]
      BY <2>2
    <2>4. ASSUME NEW f \in [1..n -> Seq(S)], NEW g \in [1..n -> Seq(S)], NEW i \in 1..n,
                 \A j \in 1..n : id[j] < id[i] => f[j] = g[j]
          PROVE  B[f][i] = B[g][i]
      <3>1. i # 1 => i - 1 \in 1..n /\ id[i-1] < id[i]
        OBVIOUS
      <3>2. i # 1 => f[i-1] = g[i-1]
        BY <2>4, <3>1
      <3>3. QED
        BY <3>2
    <2>5. \E f \in [1..n -> Seq(S)] : f = B[f]
      <3> DEFINE X == 1..n
                 V == Seq(S)
      <3>1. V # {} /\ GoesDown(X, V, id, B)
        <4>1. \A f, g \in [X -> V] : \A i \in X :
                (\A j \in X : id[j] < id[i] => f[j] = g[j]) => B[f][i] = B[g][i]
          BY <2>4
        <4>2. id \in [X -> Nat] /\ V # {} /\ B \in [[X -> V] -> [X -> V]]
          BY <2>1, <2>3
        <4> HIDE DEF B, id, X, V
        <4>3. QED
          BY <4>1, <4>2 DEF GoesDown
      <3> HIDE DEF B, id, X, V
      <3>3. \E f \in [X -> V] : f = B[f]
        BY <3>1, Solution
      <3>4. QED
        BY <3>3 DEF X, V
    <2>6. flatten = Body(flatten)
      <3>1. \E f : f = Body(f)
        BY <2>5
      <3>2. QED
        BY <3>1
    <2> HIDE DEF flatten
    <2> DEFINE G == {i \in 1..n : flatten[i] \in Seq(S)}
    <2>7. ASSUME NEW i \in 1..n, \A j \in 1..n : id[j] < id[i] => j \in G
          PROVE  flatten[i] \in Seq(S)
      <3>1. flatten[i] = IF i = 1 THEN s[i] ELSE flatten[i-1] \o s[i]
        BY <2>6
      <3>2. i # 1 => i - 1 \in 1..n /\ id[i-1] < id[i]
        OBVIOUS
      <3>3. i # 1 => flatten[i-1] \in Seq(S)
        BY <2>7, <3>2
      <3>4. QED
        BY <3>1, <3>3, ConcatProperties
    <2>8. 1..n \subseteq G
      <3>1. \A i \in 1..n : (\A j \in 1..n : id[j] < id[i] => j \in G) => i \in G
        BY <2>7
      <3>2. \A i \in 1..n : id[i] \in Nat
        OBVIOUS
      <3> DEFINE X == 1..n
      <3> HIDE DEF G, id
      <3>3. /\ \A i \in X : (\A j \in X : id[j] < id[i] => j \in G) => i \in G
            /\ \A i \in X : id[i] \in Nat
        BY <3>1, <3>2
      <3> HIDE DEF X
      <3>4. X \subseteq G
        BY <3>3, ByRank
      <3>5. QED
        BY <3>4 DEF X
    <2>9. flatten[n] \in Seq(S)
      <3>1. n \in 1..n
        BY <1>3
      <3>2. QED
        BY <2>8, <3>1
    <2>10. FlattenSeq(s) = flatten[n]
      BY <1>1, <1>3 DEF FlattenSeq, flatten
    <2>11. QED
      BY <2>9, <2>10
  <1>4. QED
    BY <1>2, <1>3

LEMMA SetToSeqType ==
  ASSUME NEW S, IsFiniteSet(S)
  PROVE  /\ Cardinality(S) \in Nat
         /\ \A i \in 1..Cardinality(S) : SetToSeq(S)[i] \in S
  <1>1. Cardinality(S) \in Nat /\ ExistsBijection(1..Cardinality(S), S)
    BY FS_CardinalityType
  <1>2. PICK f \in [1..Cardinality(S) -> S] : IsInjective(f)
    BY <1>1 DEF ExistsBijection, Bijection, Injection, IsInjective
  <1>3. SetToSeq(S) \in [1..Cardinality(S) -> S]
    BY <1>2 DEF SetToSeq
  <1>4. QED
    BY <1>1, <1>3

LEMMA RelationsFinite == IsFiniteSet(Relations)
  <1>1. Order \in Seq(Models) /\ Len(Order) \in Nat /\ DOMAIN Order = 1..Len(Order) /\ ToSet(Order) = Models
    BY RegistryAssumption, LenProperties
  <1>2. [i \in 1..Len(Order) |-> Order[i]] \in Surjection(1..Len(Order), Models)
    <2>1. \A i \in 1..Len(Order) : Order[i] \in Models
      BY <1>1, ElementOfSeq
    <2>2. QED
      BY <1>1, <2>1 DEF ToSet, Surjection
  <1>3. IsFiniteSet(1..Len(Order))
    BY <1>1, FS_Interval
  <1>4. IsFiniteSet(Models)
    BY <1>2, <1>3, FS_Surjection
  <1>5. QED
    BY <1>4, RegistryAssumption, FS_Union DEF Relations

LEMMA YamlType ==
  ASSUME NEW r \in Relations
  PROVE  Yaml(r) \in Cols /\ DOMAIN Yaml(r) = Documented[r] /\ \A c \in Documented[r] : Yaml(r)[c] = <<>>
  <1>1. Documented[r] \subseteq Columns /\ <<>> \in Seq(Entries)
    BY RegistryAssumption, EmptySeq
  <1>2. QED
    BY <1>1, ColsFacts DEF Yaml

Outs(found) == {f.out : f \in found}

LEMMA AppliedType ==
  ASSUME NEW cols \in Cols, NEW found \in Founds
  PROVE  /\ Applied(cols, found) \in Cols
         /\ DOMAIN Applied(cols, found) = DOMAIN cols \cup Outs(found)
         /\ \A c \in Outs(found) : Applied(cols, found)[c] # <<>>
  <1> DEFINE e(c) == {f.source : f \in {g \in found : g.out = c}}
             r == Applied(cols, found)
  <1>1. ASSUME NEW c \in Outs(found) PROVE c \in Columns /\ e(c) \in Entries
    <2>1. PICK f \in found : f.out = c
      BY DEF Outs
    <2>2. \A g \in found : g.out \in Columns /\ g.source \in Sources
      BY DEF Founds
    <2>3. f.source \in e(c) /\ e(c) \subseteq Sources
      BY <2>1, <2>2
    <2>4. QED
      BY <2>1, <2>2, <2>3 DEF Entries
  <1> HIDE DEF e
  <1>2. r = [c \in DOMAIN cols \cup Outs(found) |-> IF c \in Outs(found) THEN <<e(c)>> ELSE cols[c]]
    BY DEF Applied, Outs, e
  <1>3. \A c \in Outs(found) : <<e(c)>> \in Seq(Entries) /\ <<e(c)>> # <<>>
    BY <1>1
  <1>4. /\ DOMAIN r = DOMAIN cols \cup Outs(found)
        /\ \A c \in DOMAIN cols \cup Outs(found) : r[c] = IF c \in Outs(found) THEN <<e(c)>> ELSE cols[c]
    BY <1>2
  <1>5. r = [c \in DOMAIN r |-> r[c]]
    BY <1>2, <1>4
  <1>6. DOMAIN r \subseteq Columns /\ \A c \in DOMAIN r : r[c] \in Seq(Entries)
    BY <1>1, <1>3, <1>4, ColsFacts
  <1> HIDE DEF r
  <1>7. r \in Cols
    BY <1>5, <1>6, ColsFacts
  <1>8. QED
    BY <1>3, <1>4, <1>7 DEF r

\* What `*` passes on depends on the names of the columns it reads alone.
Passed(cols, c, stars, all) ==
  [i \in 1..Cardinality(stars) |->
     IF c \in DOMAIN all[SetToSeq(stars)[i]] /\ {<<SetToSeq(stars)[i], c>>} \notin ToSet(cols[c])
     THEN <<{<<SetToSeq(stars)[i], c>>}>> ELSE <<>>]

LEMMA StarredPasses ==
  ASSUME NEW cols, NEW stars, NEW all
  PROVE  Starred(cols, stars, all)
           = [c \in DOMAIN cols |-> cols[c] \o FlattenSeq(Passed(cols, c, stars, all))]
BY DEF Starred, Passed

LEMMA PassedType ==
  ASSUME NEW cols \in Cols, NEW stars \in SUBSET Relations, NEW all, NEW c \in DOMAIN cols
  PROVE  FlattenSeq(Passed(cols, c, stars, all)) \in Seq(Entries)
  <1> DEFINE n == Cardinality(stars)
  <1>1. n \in Nat /\ \A i \in 1..n : SetToSeq(stars)[i] \in Relations
    BY RelationsFinite, FS_Subset, SetToSeqType
  <1>2. c \in Columns
    BY ColsFacts
  <1>3. ASSUME NEW i \in 1..n PROVE Passed(cols, c, stars, all)[i] \in Seq(Entries)
    <2> DEFINE q == SetToSeq(stars)[i]
    <2>1. {<<q, c>>} \in Entries
      BY <1>1, <1>2 DEF Entries, Sources
    <2>2. Passed(cols, c, stars, all)[i] \in {<<{<<q, c>>}>>, <<>>}
      BY DEF Passed
    <2>3. <<{<<q, c>>}>> \in Seq(Entries) /\ <<>> \in Seq(Entries)
      BY <2>1, EmptySeq
    <2>4. QED
      BY <2>2, <2>3
  <1>4. Passed(cols, c, stars, all) \in [1..n -> Seq(Entries)]
    <2>1. Passed(cols, c, stars, all) = [i \in 1..n |-> Passed(cols, c, stars, all)[i]]
      BY DEF Passed
    <2>2. QED
      BY <1>3, <2>1
  <1>5. QED
    BY <1>1, <1>4, FlattenType

LEMMA StarredType ==
  ASSUME NEW cols \in Cols, NEW stars \in SUBSET Relations, NEW all
  PROVE  Starred(cols, stars, all) \in Cols /\ DOMAIN Starred(cols, stars, all) = DOMAIN cols
  <1> DEFINE r == Starred(cols, stars, all)
  <1>1. ASSUME NEW c \in DOMAIN cols PROVE cols[c] \o FlattenSeq(Passed(cols, c, stars, all)) \in Seq(Entries)
    BY ColsFacts, PassedType, ConcatProperties
  <1>2. r = [c \in DOMAIN cols |-> cols[c] \o FlattenSeq(Passed(cols, c, stars, all))]
    BY StarredPasses
  <1>3. DOMAIN r = DOMAIN cols /\ r = [c \in DOMAIN r |-> r[c]] /\ \A c \in DOMAIN r : r[c] \in Seq(Entries)
    BY <1>1, <1>2
  <1>4. DOMAIN cols \subseteq Columns
    BY ColsFacts
  <1> HIDE DEF r
  <1>5. QED
    BY <1>3, <1>4, ColsFacts DEF r

LEMMA StarredSame ==
  ASSUME NEW cols, NEW stars \in SUBSET Relations, NEW all, NEW other,
         \A q \in stars : DOMAIN all[q] = DOMAIN other[q]
  PROVE  Starred(cols, stars, all) = Starred(cols, stars, other)
  <1>1. \A i \in 1..Cardinality(stars) : SetToSeq(stars)[i] \in stars
    BY RelationsFinite, FS_Subset, SetToSeqType
  <1>2. \A c : Passed(cols, c, stars, all) = Passed(cols, c, stars, other)
    BY <1>1 DEF Passed
  <1>3. QED
    BY <1>2, StarredPasses

-----------------------------------------------------------------------------
(* What a parse of the whole project yields                                *)

\* A column read by r, the columns of the other relations being those of F.
ReadIn(r, F, i) ==
  [out |-> i.out,
   source |-> <<PickTable(i, [q \in ToSet(i.scope) |->
                                KnownColumns(q, IF q = r THEN Yaml(r) ELSE F[q], Relations)]), i.col>>]

BaseIn(r, w, F) == Applied(Yaml(r), {ReadIn(r, F, i) : i \in Sql(r, w).items})

ParseIn(r, w, F) ==
  IF r \in Terminals \/ r \notin Relations \/ Sql(r, w).breaks THEN Yaml(r)
  ELSE Starred(BaseIn(r, w, F), Sql(r, w).stars \cap Relations,
               [q \in Sql(r, w).stars \cap Relations |-> IF q = r THEN BaseIn(r, w, F) ELSE F[q]])

LEMMA ParsedIs ==
  ASSUME NEW w
  PROVE  Parsed(w, Relations) = CHOOSE F : F = [r \in Relations |-> ParseIn(r, w, F)]
  <1>1. \A F : \A r \in Relations :
           ParseIn(r, w, F) =
             IF r \in Terminals \/ r \notin Relations THEN Yaml(r)
             ELSE IF Sql(r, w).breaks THEN Yaml(r)
             ELSE Starred(BaseIn(r, w, F), Sql(r, w).stars \cap Relations,
                    [q \in Sql(r, w).stars \cap Relations |-> IF q = r THEN BaseIn(r, w, F) ELSE F[q]])
    BY DEF ParseIn
  <1> DEFINE Body(r, F) == 
             IF r \in Terminals \/ r \notin Relations THEN Yaml(r)
             ELSE IF Sql(r, w).breaks THEN Yaml(r)
             ELSE Starred(BaseIn(r, w, F), Sql(r, w).stars \cap Relations,
                    [q \in Sql(r, w).stars \cap Relations |-> IF q = r THEN BaseIn(r, w, F) ELSE F[q]])
  <1>2. Parsed(w, Relations) = CHOOSE F : F = [r \in Relations |-> Body(r, F)]
    BY DEF Parsed, BaseIn, ReadIn
  <1>3. \A F : [r \in Relations |-> Body(r, F)] = [r \in Relations |-> ParseIn(r, w, F)]
    BY <1>1
  <1> HIDE DEF Body
  <1>4. QED
    BY <1>2, <1>3

LEMMA ReadType ==
  ASSUME NEW r \in Relations, NEW F, NEW i \in Items
  PROVE  ReadIn(r, F, i) \in [out : Columns, source : Sources] /\ ReadIn(r, F, i).out = i.out
  <1> DEFINE known == [q \in ToSet(i.scope) |->
                         KnownColumns(q, IF q = r THEN Yaml(r) ELSE F[q], Relations)]
             s == PickTable(i, known)
  <1>1. s \in Relations
    BY PickedRelation
  <1>2. ReadIn(r, F, i) = [out |-> i.out, source |-> <<s, i.col>>]
    BY DEF ReadIn
  <1>3. i.out \in Columns /\ i.col \in Columns
    BY DEF Items
  <1> HIDE DEF s
  <1>4. <<s, i.col>> \in Sources
    BY <1>1, <1>3 DEF Sources
  <1>5. QED
    BY <1>2, <1>3, <1>4

LEMMA BaseType ==
  ASSUME NEW m \in Models, NEW w \in [Models -> Versions], NEW F
  PROVE  /\ BaseIn(m, w, F) \in Cols
         /\ DOMAIN BaseIn(m, w, F) = Documented[m] \cup {i.out : i \in Sql(m, w).items}
  <1> DEFINE found == {ReadIn(m, F, i) : i \in Sql(m, w).items}
  <1>1. m \in Relations /\ Sql(m, w).items \subseteq Items
    BY SqlFacts DEF Relations
  <1>2. found \in Founds /\ Outs(found) = {i.out : i \in Sql(m, w).items}
    BY <1>1, ReadType DEF Founds, Outs
  <1>3. BaseIn(m, w, F) = Applied(Yaml(m), found)
    BY DEF BaseIn
  <1> HIDE DEF found
  <1>4. Yaml(m) \in Cols /\ DOMAIN Yaml(m) = Documented[m]
    BY <1>1, YamlType
  <1>5. Applied(Yaml(m), found) \in Cols /\ DOMAIN Applied(Yaml(m), found) = Documented[m] \cup Outs(found)
    BY <1>2, <1>4, AppliedType
  <1>6. QED
    BY <1>2, <1>3, <1>5

LEMMA ParseType ==
  ASSUME NEW r \in Relations, NEW w \in [Models -> Versions], NEW F
  PROVE  ParseIn(r, w, F) \in Cols
  <1>1. CASE r \in Terminals \/ Sql(r, w).breaks
    BY <1>1, YamlType DEF ParseIn
  <1>2. CASE r \in Models /\ ~(r \in Terminals \/ Sql(r, w).breaks)
    BY <1>2, BaseType, StarredType DEF ParseIn
  <1>3. QED
    BY <1>1, <1>2 DEF Relations

LEMMA ReadSame ==
  ASSUME NEW r, NEW i, NEW F, NEW G, \A q \in ToSet(i.scope) \ {r} : F[q] = G[q]
  PROVE  ReadIn(r, F, i) = ReadIn(r, G, i)
  <1>1. [q \in ToSet(i.scope) |-> KnownColumns(q, IF q = r THEN Yaml(r) ELSE F[q], Relations)]
      = [q \in ToSet(i.scope) |-> KnownColumns(q, IF q = r THEN Yaml(r) ELSE G[q], Relations)]
    OBVIOUS
  <1>2. QED
    BY <1>1 DEF ReadIn

LEMMA BaseSame ==
  ASSUME NEW m \in Models, NEW w \in [Models -> Versions], NEW F, NEW G,
         \A q \in Reads(m, w) \ {m} : F[q] = G[q]
  PROVE  BaseIn(m, w, F) = BaseIn(m, w, G)
  <1>1. \A i \in Sql(m, w).items : ReadIn(m, F, i) = ReadIn(m, G, i)
    BY SqlFacts, ReadSame
  <1>2. QED
    BY <1>1 DEF BaseIn

LEMMA ParseSame ==
  ASSUME NEW r \in Relations, NEW w \in [Models -> Versions], NEW F, NEW G,
         r \in Models => \A q \in Reads(r, w) \ {r} : F[q] = G[q]
  PROVE  ParseIn(r, w, F) = ParseIn(r, w, G)
  <1>1. CASE r \in Terminals \/ Sql(r, w).breaks
    BY <1>1 DEF ParseIn
  <1>2. CASE r \in Models /\ ~(r \in Terminals \/ Sql(r, w).breaks)
    <2>1. BaseIn(r, w, F) = BaseIn(r, w, G)
      BY <1>2, BaseSame
    <2>2. [q \in Sql(r, w).stars \cap Relations |-> IF q = r THEN BaseIn(r, w, F) ELSE F[q]]
        = [q \in Sql(r, w).stars \cap Relations |-> IF q = r THEN BaseIn(r, w, G) ELSE G[q]]
      BY <1>2, <2>1, SqlFacts
    <2>3. QED
      BY <1>2, <2>1, <2>2 DEF ParseIn
  <1>3. QED
    BY <1>1, <1>2 DEF Relations

LEMMA ReadsBelow ==
  ASSUME Acyclic, NEW w \in [Models -> Versions]
  PROVE  \E rank \in [Relations -> Nat] :
           \A m \in Models : /\ Reads(m, w) \subseteq Relations
                             /\ \A q \in Reads(m, w) \ {m} : rank[q] < rank[m]
  <1>1. \A m \in Models : Reads(m, w) \subseteq Relations
    <2> SUFFICES ASSUME NEW m \in Models, NEW q \in Reads(m, w) PROVE q \in Relations
      OBVIOUS
    <2>1. CASE q \in Sql(m, w).stars
      BY <2>1, SqlFacts
    <2>2. ASSUME NEW i \in Sql(m, w).items, q \in ToSet(i.scope) PROVE q \in Relations
      <3>1. i.scope \in Seq(Relations)
        BY SqlFacts DEF Items
      <3>2. QED
        BY <2>2, <3>1, ElementOfSeq, LenProperties DEF ToSet
    <2>3. QED
      BY <2>1, <2>2 DEF Reads
  <1>2. QED
    BY <1>1, RankFacts DEF Ranks

\* The parse of the whole project exists: each model is parsed after those it reads.
LEMMA ParsedFacts ==
  ASSUME Acyclic, NEW w \in [Models -> Versions]
  PROVE  /\ Parsed(w, Relations) \in [Relations -> Cols]
         /\ \A r \in Relations : Parsed(w, Relations)[r] = ParseIn(r, w, Parsed(w, Relations))
  <1> DEFINE B == [F \in [Relations -> Cols] |-> [r \in Relations |-> ParseIn(r, w, F)]]
             P == Parsed(w, Relations)
  <1>1. PICK rank \in [Relations -> Nat] :
          \A m \in Models : /\ Reads(m, w) \subseteq Relations
                            /\ \A q \in Reads(m, w) \ {m} : rank[q] < rank[m]
    BY ReadsBelow
  <1>2. GoesDown(Relations, Cols, rank, B)
    <2>1. B \in [[Relations -> Cols] -> [Relations -> Cols]]
      BY ParseType
    <2>2. ASSUME NEW F \in [Relations -> Cols], NEW G \in [Relations -> Cols], NEW r \in Relations,
                 \A q \in Relations : rank[q] < rank[r] => F[q] = G[q]
          PROVE  B[F][r] = B[G][r]
      <3>1. ParseIn(r, w, F) = ParseIn(r, w, G)
        BY <1>1, <2>2, ParseSame
      <3>2. B[F][r] = ParseIn(r, w, F) /\ B[G][r] = ParseIn(r, w, G)
        OBVIOUS
      <3>3. QED
        BY <3>1, <3>2
    <2> HIDE DEF B
    <2>3. QED
      BY <2>1, <2>2 DEF GoesDown
  <1>3. Cols # {}
    BY ColsFacts
  <1>4. PICK F \in [Relations -> Cols] : F = B[F]
    <2> HIDE DEF B
    <2>1. QED
      BY <1>2, <1>3, Solution
  <1>5. F = [r \in Relations |-> ParseIn(r, w, F)]
    BY <1>4
  <1>6. P = [r \in Relations |-> ParseIn(r, w, P)]
    BY <1>5, ParsedIs
  <1> HIDE DEF P
  <1>7. \A r \in Relations : P[r] = ParseIn(r, w, P)
    BY <1>6
  <1>8. P \in [Relations -> Cols]
    BY <1>6, <1>7, ParseType
  <1>9. QED
    BY <1>7, <1>8 DEF P

-----------------------------------------------------------------------------
(* The models above a model                                                *)

AboveIn(r, w, A) ==
  IF r \in Terminals THEN {}
  ELSE (Reads(r, w) \ {r}) \cup UNION {A[q] : q \in Reads(r, w) \ {r}}

LEMMA AboveFacts ==
  ASSUME Acyclic, NEW w \in [Models -> Versions]
  PROVE  /\ \A r \in Relations : Above(r, w) \subseteq Relations
         /\ \A r \in Terminals : Above(r, w) = {}
         /\ \A m \in Models : \A q \in Reads(m, w) \ {m} :
              q \in Relations /\ q \in Above(m, w) /\ Above(q, w) \subseteq Above(m, w)
  <1> DEFINE V == SUBSET Relations
             Body(A) == [r \in Relations |-> AboveIn(r, w, A)]
             B == [A \in [Relations -> V] |-> Body(A)]
             A == CHOOSE f : f = Body(f)
  <1>1. PICK rank \in [Relations -> Nat] :
          \A m \in Models : /\ Reads(m, w) \subseteq Relations
                            /\ \A q \in Reads(m, w) \ {m} : rank[q] < rank[m]
    BY ReadsBelow
  <1>2. GoesDown(Relations, V, rank, B)
    <2>1. ASSUME NEW f \in [Relations -> V], NEW r \in Relations PROVE AboveIn(r, w, f) \in V
      BY <1>1, <2>1 DEF AboveIn, Relations
    <2>2. B \in [[Relations -> V] -> [Relations -> V]]
      BY <2>1
    <2>3. ASSUME NEW f \in [Relations -> V], NEW g \in [Relations -> V], NEW r \in Relations,
                 \A q \in Relations : rank[q] < rank[r] => f[q] = g[q]
          PROVE  B[f][r] = B[g][r]
      <3>1. CASE r \in Terminals
        BY <3>1 DEF AboveIn
      <3>2. CASE r \in Models /\ r \notin Terminals
        <4>1. \A q \in Reads(r, w) \ {r} : f[q] = g[q]
          BY <1>1, <2>3, <3>2
        <4>2. {f[q] : q \in Reads(r, w) \ {r}} = {g[q] : q \in Reads(r, w) \ {r}}
          BY <4>1
        <4>3. AboveIn(r, w, f) = AboveIn(r, w, g)
          BY <4>2 DEF AboveIn
        <4>4. QED
          BY <4>3
      <3>3. QED
        BY <3>1, <3>2 DEF Relations
    <2> HIDE DEF B
    <2>4. QED
      BY <2>2, <2>3 DEF GoesDown
  <1>3. PICK f \in [Relations -> V] : f = B[f]
    <2> HIDE DEF B
    <2>1. V # {}
      OBVIOUS
    <2>2. QED
      BY <1>2, <2>1, Solution
  <1>4. A = Body(A)
    BY <1>3
  <1>5. \A r \in Relations : Above(r, w) = A[r]
    BY DEF Above, AboveIn
  <1> HIDE DEF A
  <1>6. \A r \in Relations : A[r] = AboveIn(r, w, A)
    BY <1>4
  <1>7. \A r \in Relations : r \in Terminals => Above(r, w) = {}
    BY <1>5, <1>6 DEF AboveIn
  <1>8. ASSUME NEW m \in Models, NEW q \in Reads(m, w) \ {m}
        PROVE  q \in Relations /\ q \in Above(m, w) /\ Above(q, w) \subseteq Above(m, w)
    <2>1. m \in Relations /\ q \in Relations /\ m \notin Terminals
      BY <1>1, RegistryAssumption DEF Relations
    <2>2. A[m] = (Reads(m, w) \ {m}) \cup UNION {A[p] : p \in Reads(m, w) \ {m}}
      BY <1>6, <2>1 DEF AboveIn
    <2>3. A[q] \in {A[p] : p \in Reads(m, w) \ {m}}
      OBVIOUS
    <2>4. A[q] \subseteq UNION {A[p] : p \in Reads(m, w) \ {m}}
      BY <2>3
    <2>5. q \in A[m] /\ A[q] \subseteq A[m]
      BY <2>2, <2>4
    <2>6. QED
      BY <1>5, <2>1, <2>5
  <1> DEFINE S == {r \in Relations : A[r] \subseteq Relations}
  <1>9. ASSUME NEW r \in Relations, \A q \in Relations : rank[q] < rank[r] => q \in S PROVE r \in S
    <2>1. CASE r \in Terminals
      BY <1>6, <2>1 DEF AboveIn
    <2>2. CASE r \in Models /\ r \notin Terminals
      <3>1. \A q \in Reads(r, w) \ {r} : q \in Relations /\ A[q] \subseteq Relations
        BY <1>1, <1>9, <2>2
      <3>2. A[r] = (Reads(r, w) \ {r}) \cup UNION {A[q] : q \in Reads(r, w) \ {r}}
        BY <1>6, <2>2 DEF AboveIn
      <3>3. UNION {A[q] : q \in Reads(r, w) \ {r}} \subseteq Relations
        BY <3>1
      <3>4. QED
        BY <3>1, <3>2, <3>3
    <2>3. QED
      BY <2>1, <2>2 DEF Relations
  <1>10. Relations \subseteq S
    <2> HIDE DEF S
    <2>1. QED
      BY <1>9, ByRank
  <1>11. QED
    BY <1>5, <1>7, <1>8, <1>10 DEF Relations

-----------------------------------------------------------------------------
(* Rows                                                                    *)

\* Columns with the same lineage in what callers and lookups see of it.
Alike(cols, f) ==
  /\ Rows(cols) = Rows(f) /\ DOMAIN cols = DOMAIN f
  /\ \A c \in DOMAIN f : cols[c] = <<>> <=> f[c] = <<>>

\* Lookups learn as much from columns that are alike.
LEMMA AlikeKnown ==
  ASSUME NEW r, NEW cols, NEW f, Alike(cols, f), NEW held, r \in held
  PROVE  KnownColumns(r, cols, held) = KnownColumns(r, f, Relations) \/ r \notin Relations
  <1>1. {c \in DOMAIN cols : cols[c] # <<>>} = {c \in DOMAIN f : f[c] # <<>>} /\ DOMAIN cols = DOMAIN f
    BY DEF Alike
  <1>2. Discovered(r, cols) = Discovered(r, f)
    BY <1>1 DEF Discovered
  <1>3. QED
    BY <1>2 DEF KnownColumns

LEMMA AlikeSelf == ASSUME NEW cols PROVE Alike(cols, cols)
BY DEF Alike

-----------------------------------------------------------------------------
(* What a registry should answer                                           *)

Truth(r) == Parsed(world, Relations)[r]
Reading(m, i) == ReadIn(m, Parsed(world, Relations), i)
Base(m) == BaseIn(m, world, Parsed(world, Relations))

LEMMA TruthFacts ==
  ASSUME Acyclic, world \in [Models -> Versions]
  PROVE  /\ \A r \in Terminals : Truth(r) = Yaml(r)
         /\ \A m \in Models : Sql(m, world).breaks => Truth(m) = Yaml(m)
         /\ \A m \in Models : ~Sql(m, world).breaks =>
              /\ Truth(m) = Starred(Base(m), Sql(m, world).stars,
                              [q \in Sql(m, world).stars |-> IF q = m THEN Base(m) ELSE Truth(q)])
              /\ DOMAIN Truth(m) = DOMAIN Base(m)
         /\ \A r \in Relations : Truth(r) \in Cols
  <1> DEFINE P == Parsed(world, Relations)
  <1>1. P \in [Relations -> Cols] /\ \A r \in Relations : P[r] = ParseIn(r, world, P)
    BY ParsedFacts
  <1> HIDE DEF P
  <1>2. \A r \in Relations : Truth(r) = P[r]
    BY DEF Truth, P
  <1>3. \A r \in Terminals : Truth(r) = Yaml(r)
    BY <1>1, <1>2 DEF ParseIn, Relations
  <1>4. \A m \in Models : Sql(m, world).breaks => Truth(m) = Yaml(m)
    BY <1>1, <1>2 DEF ParseIn, Relations
  <1>5. ASSUME NEW m \in Models, ~Sql(m, world).breaks
        PROVE  /\ Truth(m) = Starred(Base(m), Sql(m, world).stars,
                                [q \in Sql(m, world).stars |-> IF q = m THEN Base(m) ELSE Truth(q)])
               /\ DOMAIN Truth(m) = DOMAIN Base(m)
    <2>1. m \in Relations /\ m \notin Terminals
      BY RegistryAssumption DEF Relations
    <2>2. Sql(m, world).stars \subseteq Relations
      BY SqlFacts
    <2>3. Base(m) = BaseIn(m, world, P) /\ Base(m) \in Cols
      BY BaseType DEF Base, P
    <2>4. Truth(m) = Starred(Base(m), Sql(m, world).stars \cap Relations,
                       [q \in Sql(m, world).stars \cap Relations |-> IF q = m THEN Base(m) ELSE P[q]])
      BY <1>1, <1>2, <1>5, <2>1, <2>3 DEF ParseIn
    <2>5. Sql(m, world).stars \cap Relations = Sql(m, world).stars
      BY <2>2
    <2>6. [q \in Sql(m, world).stars |-> IF q = m THEN Base(m) ELSE P[q]]
        = [q \in Sql(m, world).stars |-> IF q = m THEN Base(m) ELSE Truth(q)]
      BY <1>2, <2>2
    <2>7. QED
      BY <2>2, <2>3, <2>4, <2>5, <2>6, StarredType
  <1>6. QED
    BY <1>1, <1>2, <1>3, <1>4, <1>5

\* What excuses the rows of a model excuses those of the models that read it.
LEMMA ExcusedUp ==
  ASSUME Acyclic, world \in [Models -> Versions], mode = "lazy",
         NEW m \in Models, ~Excused(m), NEW q \in Reads(m, world) \ {m}
  PROVE  ~Excused(q) /\ q \in Relations /\ q \in here
  <1>1. q \in Relations /\ q \in Above(m, world) /\ Above(q, world) \subseteq Above(m, world)
    BY AboveFacts
  <1>2. QED
    BY <1>1 DEF Excused

\* An entry of a parse has sources.
LEMMA RowFacts ==
  ASSUME NEW f \in Cols, NEW c \in DOMAIN f
  PROVE  /\ f[c] = <<>> \/ f[c][1] \in Entries
         /\ Row(f[c]).sources = {} <=> f[c] = <<>>
  <1>1. f[c] \in Seq(Entries)
    BY ColsFacts
  <1>2. f[c] = <<>> \/ f[c][1] \in Entries
    <2>1. f[c] # <<>> => 1 \in 1..Len(f[c])
      BY <1>1, EmptySeq
    <2>2. QED
      BY <1>1, <2>1, ElementOfSeq
  <1>3. QED
    BY <1>2 DEF Row, Entries

\* A model whose own text and whose ancestors' texts are as they were has the rows
\* it had.
LEMMA FreshParse ==
  ASSUME Acyclic, world \in [Models -> Versions], written \in [Models -> Versions],
         NEW m \in Models, Fresh(m), \A a \in Above(m, world) \cap Models : Fresh(a)
  PROVE  Parsed(written, Relations)[m] = Truth(m)
  <1> DEFINE P == Parsed(world, Relations)
             Q == Parsed(written, Relations)
             Settled(r) == (r \in Models => Fresh(r)) /\ \A a \in Above(r, world) \cap Models : Fresh(a)
             S == {r \in Relations : Settled(r) => Q[r] = P[r]}
  <1>1. PICK rank \in [Relations -> Nat] :
          \A r \in Models : /\ Reads(r, world) \subseteq Relations
                            /\ \A q \in Reads(r, world) \ {r} : rank[q] < rank[r]
    BY ReadsBelow
  <1>2. \A r \in Relations : P[r] = ParseIn(r, world, P) /\ Q[r] = ParseIn(r, written, Q)
    BY ParsedFacts
  <1> HIDE DEF P, Q
  <1>3. ASSUME NEW r \in Relations, \A q \in Relations : rank[q] < rank[r] => q \in S, Settled(r)
        PROVE  Q[r] = P[r]
    <2>1. CASE r \in Terminals
      BY <1>2, <2>1 DEF ParseIn
    <2>2. CASE r \in Models /\ r \notin Terminals
      <3>1. \A q \in Reads(r, world) \ {r} : Q[q] = P[q]
        <4> SUFFICES ASSUME NEW q \in Reads(r, world) \ {r} PROVE Q[q] = P[q]
          OBVIOUS
        <4>1. q \in Relations /\ rank[q] < rank[r] /\ q \in Above(r, world) /\ Above(q, world) \subseteq Above(r, world)
          BY <1>1, <2>2, AboveFacts
        <4>2. Settled(q)
          BY <1>3, <4>1
        <4>3. QED
          BY <1>3, <4>1, <4>2
      <3>2. ParseIn(r, world, Q) = ParseIn(r, world, P)
        BY <2>2, <3>1, ParseSame
      <3>3. Sql(r, written) = Sql(r, world)
        BY <1>3, <2>2 DEF Fresh, Sql
      <3>4. ParseIn(r, written, Q) = ParseIn(r, world, Q)
        BY <3>3 DEF ParseIn, BaseIn
      <3>5. QED
        BY <1>2, <3>2, <3>4
    <2>3. QED
      BY <2>1, <2>2 DEF Relations
  <1>4. Relations \subseteq S
    <2>1. \A r \in Relations : (\A q \in Relations : rank[q] < rank[r] => q \in S) => r \in S
      BY <1>3
    <2>2. \A r \in Relations : rank[r] \in Nat
      BY <1>1
    <2> HIDE DEF S
    <2>3. QED
      BY <2>1, <2>2, ByRank
  <1>5. m \in S /\ Settled(m)
    BY <1>4 DEF Relations
  <1>6. QED
    BY <1>5 DEF Truth, P, Q

\* Hydrating brings back what callers and lookups saw of the columns.
LEMMA HydratedAlike ==
  ASSUME Acyclic, written \in [Models -> Versions], NEW m \in Models, columns[m] = Yaml(m)
  PROVE  Alike(FromArtefact(m), Parsed(written, Relations)[m])
  <1> DEFINE f == Parsed(written, Relations)[m]
             told == {c \in DOMAIN f : f[c] # <<>>}
             g == [c \in Documented[m] \cup told |-> IF c \in told THEN <<Row(f[c]).sources>> ELSE <<>>]
  <1>1. m \in Relations /\ m \notin Terminals
    BY RegistryAssumption DEF Relations
  <1>2. f \in Cols /\ f = ParseIn(m, written, Parsed(written, Relations))
    BY <1>1, ParsedFacts
  <1>3. DOMAIN Yaml(m) = Documented[m] /\ \A c \in Documented[m] : Yaml(m)[c] = <<>>
    BY <1>1, YamlType
  <1>4. Documented[m] \subseteq DOMAIN f /\ \A c \in DOMAIN f \ Documented[m] : f[c] # <<>>
    <2>1. CASE Sql(m, written).breaks
      BY <1>2, <1>3, <2>1 DEF ParseIn
    <2>2. CASE ~Sql(m, written).breaks
      <3> DEFINE base == BaseIn(m, written, Parsed(written, Relations))
                 stars == Sql(m, written).stars \cap Relations
                 all == [q \in stars |-> IF q = m THEN base ELSE Parsed(written, Relations)[q]]
      <3>1. f = Starred(base, stars, all)
        BY <1>1, <1>2, <2>2 DEF ParseIn
      <3>2. base \in Cols /\ DOMAIN base = Documented[m] \cup {i.out : i \in Sql(m, written).items}
        BY BaseType
      <3> HIDE DEF base, all, stars
      <3>3. stars \in SUBSET Relations
        BY DEF stars
      <3>4. DOMAIN f = DOMAIN base
        BY <3>1, <3>2, <3>3, StarredType
      <3>5. ASSUME NEW c \in DOMAIN f \ Documented[m] PROVE f[c] # <<>>
        <4>1. f[c] = base[c] \o FlattenSeq(Passed(base, c, stars, all))
          BY <3>1, <3>4, StarredPasses
        <4>2. base[c] # <<>>
          <5> DEFINE found == {ReadIn(m, Parsed(written, Relations), i) : i \in Sql(m, written).items}
          <5>1. found \in Founds /\ Outs(found) = {i.out : i \in Sql(m, written).items}
            BY <1>1, ReadType, SqlFacts DEF Founds, Outs
          <5>2. base = Applied(Yaml(m), found)
            BY DEF base, BaseIn
          <5>3. c \in Outs(found)
            BY <3>2, <3>4, <3>5, <5>1
          <5> HIDE DEF found
          <5>4. Yaml(m) \in Cols
            BY <1>1, YamlType
          <5>5. QED
            BY <5>1, <5>2, <5>3, <5>4, AppliedType
        <4>3. base[c] \in Seq(Entries)
          BY <3>2, <3>4, <3>5, ColsFacts
        <4>4. FlattenSeq(Passed(base, c, stars, all)) \in Seq(Entries)
          BY <3>2, <3>3, <3>4, <3>5, PassedType
        <4>5. QED
          BY <4>1, <4>2, <4>3, <4>4, ConcatProperties, EmptySeq
      <3>6. QED
        BY <3>2, <3>4, <3>5
    <2>3. QED
      BY <2>1, <2>2
  <1>5. \A c \in DOMAIN f : /\ f[c] = <<>> \/ f[c][1] \in Entries
                            /\ Row(f[c]).sources = {} <=> f[c] = <<>>
    BY <1>2, RowFacts
  <1>6. FromArtefact(m) = g
    <2>1. DOMAIN Rows(f) = DOMAIN f /\ \A c \in DOMAIN f : Rows(f)[c] = Row(f[c])
      BY DEF Rows
    <2>2. {c \in DOMAIN Rows(f) : Rows(f)[c].sources # {}} = told
      BY <1>5, <2>1
    <2>3. FromArtefact(m) = [c \in DOMAIN columns[m] \cup told |->
                               IF c \in told THEN <<Rows(f)[c].sources>> ELSE columns[m][c]]
      BY <2>2 DEF FromArtefact
    <2> HIDE DEF f
    <2>4. QED
      BY <1>3, <2>1, <2>3
  <1> HIDE DEF f
  <1>7. DOMAIN g = DOMAIN f
    BY <1>4
  <1>8. ASSUME NEW c \in DOMAIN f PROVE Row(g[c]) = Row(f[c]) /\ (g[c] = <<>> <=> f[c] = <<>>)
    <2>1. CASE f[c] = <<>>
      <3>1. c \in Documented[m] /\ c \notin told
        BY <1>4, <2>1
      <3>2. g[c] = <<>>
        BY <3>1
      <3>3. QED
        BY <2>1, <3>2
    <2>2. CASE f[c] # <<>>
      <3>1. g[c] = <<Row(f[c]).sources>> /\ Row(f[c]).sources = f[c][1]
        BY <2>2 DEF Row
      <3> DEFINE e == f[c][1]
      <3> HIDE DEF e, g
      <3>2. g[c] = <<e>>
        BY <3>1 DEF e
      <3>3. <<e>> # <<>> /\ <<e>>[1] = e
        OBVIOUS
      <3>4. QED
        BY <2>2, <3>2, <3>3 DEF Row, e
    <2>3. QED
      BY <2>1, <2>2
  <1> HIDE DEF g
  <1>9. Rows(g) = Rows(f)
    BY <1>7, <1>8 DEF Rows
  <1>10. QED
    BY <1>6, <1>7, <1>8, <1>9 DEF Alike, f

-----------------------------------------------------------------------------
(* The columns of the models at work, for the stack s, the in_progress     *)
(* sets t, the models a being parsed, the columns cols and the models d    *)
(* that are done                                                           *)

\* What a frame has found so far, and the star sources it is through with.
FrameTells(s, i, cols, d) ==
  LET m == s[i].model
      sql == Sql(m, world)
  IN  /\ m \in here /\ s[i].stars \subseteq here
      /\ s[i].at = "enter" => s[i].found = {}
      /\ s[i].at = "parse" =>
           /\ ~sql.breaks /\ cols[m] = Yaml(m)
           /\ Excused(m) \/ s[i].found = {Reading(m, j) : j \in sql.items \ s[i].left}
      /\ s[i].at = "stars" /\ sql.breaks => cols[m] = Yaml(m)
      /\ s[i].at = "stars" /\ ~sql.breaks =>
           /\ Excused(m) \/ cols[m] = Base(m)
           /\ \A q \in (sql.stars \cap here) \ s[i].stars :
                q \in d \/ q = m \/ (i < Len(s) /\ s[i+1].model = q)

Works(s, i, m) == s[i].at # "enter" /\ s[i].model = m

\* Nobody has written the columns of a model that is not done and not at work.
Untouched(s, cols, d) ==
  \A r \in Models \ d : (\A i \in 1..Len(s) : ~Works(s, i, r)) => cols[r] = Yaml(r)

\* What is in progress is done or at work, and what is being parsed or looked up
\* has its frame.
TrailOK(s, t, a, d) ==
  /\ \A c \in 1..Len(t) : \A r \in t[c] : r \in d \/ \E i \in 1..Len(s) : Works(s, i, r)
  /\ s # <<>> => s[1].how = "request"
  /\ s # <<>> => (s[Len(s)].at = "enter" /\ NewChain(s[Len(s)].how) => t[Len(t)] = {})
  /\ \A r \in a : \E i \in 1..Len(s) :
       s[i].model = r /\ (s[i].at = "parse" \/ (s[i].at = "enter" /\ s[i].how = "lookup"))

WorkInv == \A i \in 1..Len(stack) : FrameTells(stack, i, columns, done)
TrailInv == TrailOK(stack, trails, active, done)

\* A lazy registry: what is done is as a parse of the project has it.
LazyInv ==
  mode = "lazy" =>
    /\ Untouched(stack, columns, done)
    /\ \A r \in Models \cap done : Excused(r) \/ Alike(columns[r], Truth(r))
    /\ phase # "serving" => done = {} /\ hydrated = {} /\ here = Relations

\* An eager one: columns are found first, then those read with `*` are added.
EagerInv ==
  mode = "eager" =>
    /\ stack = <<>> /\ owner = Nobody /\ \A t \in Threads : pc[t] \in {"idle", "reading"}
    /\ phase # "loaded" /\ hydrated = {} /\ here = Relations
    /\ phase = "loading" => \A r \in Models :
         /\ r \in done /\ ~Sql(r, world).breaks =>
              /\ DOMAIN columns[r] = DOMAIN Base(r)
              /\ Excused(r) \/ columns[r] = Base(r)
         /\ ~(r \in done /\ ~Sql(r, world).breaks) => columns[r] = Yaml(r)
    /\ phase = "serving" => \A r \in Models : Excused(r) \/ columns[r] = Truth(r)

Bottom(s) == {s[i].model : i \in {1} \cap 1..Len(s)}

\* The models of a request are done when its caller reads them.
RequestInv ==
  /\ owner \in Threads \cup {Nobody}
  /\ \A t \in Threads :
      /\ phase # "serving" => ask[t] = {} /\ answer[t] = <<>>
      /\ ask[t] \subseteq here
      /\ pc[t] = "holding" <=> owner = t
      /\ owner = t => /\ pending \subseteq here
                      /\ ask[t] \subseteq done \cup pending \cup Bottom(stack)
      /\ mode = "lazy" /\ pc[t] = "reading" => ask[t] \subseteq done

AnswerInv ==
  /\ written \in [Models -> Versions] /\ hydrated \subseteq Models
  /\ \A r \in Terminals : columns[r] = Yaml(r)
  /\ answer = [t \in Threads |-> answer[t]]
  /\ \A t \in Threads : DOMAIN answer[t] \subseteq Models
  /\ AnswersAreParses

RegInv == WorkInv /\ TrailInv /\ LazyInv /\ EagerInv /\ RequestInv /\ AnswerInv

\* The top frame goes on with its model; the frames below do not see it.
LEMMA ChangeTells ==
  ASSUME NEW s \in Seq(Frames), s # <<>>, NEW f \in Frames, f.model = s[Len(s)].model,
         NEW cols, NEW new, NEW d,
         \A i \in 1..Len(s)-1 : FrameTells(s, i, cols, d) /\ new[s[i].model] = cols[s[i].model]
  PROVE  \A i \in 1..Len(s)-1 : FrameTells([s EXCEPT ![Len(s)] = f], i, new, d)
  <1> DEFINE n == Len(s)
             r == [s EXCEPT ![n] = f]
  <1>1. n \in Nat \ {0} /\ n \in 1..n
    BY EmptySeq
  <1>2. Len(r) = n /\ \A j \in 1..n : r[j] = IF j = n THEN f ELSE s[j]
    BY <1>1, ExceptSeq
  <1> HIDE DEF r
  <1>3. ASSUME NEW i \in 1..n-1 PROVE FrameTells(r, i, new, d)
    <2>1. r[i] = s[i] /\ r[i+1].model = s[i+1].model /\ i < Len(r) /\ i < Len(s)
      BY <1>1, <1>2
    <2>2. QED
      BY <2>1 DEF FrameTells
  <1>4. QED
    BY <1>3 DEF r

LEMMA PushTells ==
  ASSUME NEW s \in Seq(Frames), NEW f \in Frames, f.at = "enter", f.model \in here, f.stars = {}, f.found = {},
         NEW cols, NEW d,
         \A i \in 1..Len(s) : i < Len(s) => FrameTells(s, i, cols, d),
         s # <<>> => FrameTells(Append(s, f), Len(s), cols, d)
  PROVE  \A i \in 1..Len(s)+1 : FrameTells(Append(s, f), i, cols, d)
  <1> DEFINE n == Len(s)
             r == Append(s, f)
  <1>1. n \in Nat /\ Len(r) = n + 1 /\ r[n+1] = f /\ \A i \in 1..n : r[i] = s[i]
    BY AppendProperties, LenProperties
  <1>2. n # 0 => s # <<>>
    BY EmptySeq
  <1> HIDE DEF r
  <1>3. ASSUME NEW i \in 1..n, i < n PROVE FrameTells(r, i, cols, d)
    <2>1. r[i] = s[i] /\ r[i+1] = s[i+1] /\ i < Len(r)
      BY <1>1, <1>3
    <2>2. FrameTells(s, i, cols, d)
      BY <1>3
    <2>3. QED
      BY <1>3, <2>1, <2>2 DEF FrameTells
  <1>4. FrameTells(r, n+1, cols, d)
    BY <1>1 DEF FrameTells
  <1>5. n # 0 => FrameTells(r, n, cols, d)
    BY <1>2 DEF r
  <1>6. \A i \in 1..n+1 : i = n+1 \/ (i = n /\ n # 0) \/ (i \in 1..n /\ i < n)
    BY <1>1
  <1>7. QED
    BY <1>3, <1>4, <1>5, <1>6 DEF r

\* The top frame returns, with its model done or to the model itself.
LEMMA PopTells ==
  ASSUME NEW s \in Seq(Frames), s # <<>>, NEW cols, NEW new, NEW d, NEW e, d \subseteq e,
         \A i \in 1..Len(s)-1 : FrameTells(s, i, cols, d) /\ new[s[i].model] = cols[s[i].model],
         Len(s) > 1 => s[Len(s)].model \in e \/ s[Len(s)].model = s[Len(s)-1].model
  PROVE  \A i \in 1..Len(Front(s)) : FrameTells(Front(s), i, new, e)
  <1> DEFINE n == Len(s)
             r == Front(s)
  <1>1. n \in Nat /\ n >= 1 /\ Len(r) = n - 1 /\ \A i \in 1..n-1 : r[i] = s[i]
    BY FrontFacts
  <1> HIDE DEF r
  <1> SUFFICES ASSUME NEW i \in 1..n-1 PROVE FrameTells(r, i, new, e)
    BY <1>1 DEF r
  <1>2. r[i] = s[i] /\ FrameTells(s, i, cols, d) /\ new[s[i].model] = cols[s[i].model] /\ i < n
    BY <1>1
  <1>3. CASE i < n - 1
    <2>1. r[i+1] = s[i+1] /\ i < Len(r)
      BY <1>1, <1>3
    <2>2. QED
      BY <1>2, <2>1 DEF FrameTells
  <1>4. CASE i = n - 1
    <2>1. s[i+1].model \in e \/ s[i+1].model = s[i].model
      BY <1>1, <1>4
    <2>2. QED
      BY <1>2, <2>1 DEF FrameTells
  <1>5. QED
    BY <1>1, <1>3, <1>4

LEMMA ChangeTrail ==
  ASSUME NEW s \in Seq(Frames), s # <<>>, NEW t, NEW a, NEW d, TrailOK(s, t, a, d),
         NEW f \in Frames, f.model = s[Len(s)].model, f.how = s[Len(s)].how, f.at # "enter",
         NEW u, Len(u) = Len(t), \A c \in 1..Len(t) : u[c] \subseteq t[c] \cup {f.model},
         NEW b, b \subseteq a \cup {f.model}, f.model \in b => f.at = "parse"
  PROVE  TrailOK([s EXCEPT ![Len(s)] = f], u, b, d)
  <1> DEFINE n == Len(s)
             r == [s EXCEPT ![n] = f]
  <1>1. n \in Nat \ {0} /\ n \in 1..n
    BY EmptySeq
  <1>2. Len(r) = n /\ r \in Seq(Frames) /\ \A j \in 1..n : r[j] = IF j = n THEN f ELSE s[j]
    BY <1>1, ExceptSeq
  <1> HIDE DEF r
  <1>3. ASSUME NEW c \in 1..Len(u), NEW m \in u[c] PROVE m \in d \/ \E i \in 1..n : Works(r, i, m)
    <2>1. CASE m = f.model
      <3>1. Works(r, n, m)
        BY <1>1, <1>2, <2>1 DEF Works
      <3>2. QED
        BY <1>1, <3>1
    <2>2. CASE m # f.model
      <3>1. m \in t[c]
        BY <1>3, <2>2
      <3>2. m \in d \/ \E i \in 1..n : Works(s, i, m)
        BY <3>1 DEF TrailOK
      <3>3. QED
        BY <1>2, <2>2, <3>2 DEF Works
    <2>3. QED
      BY <2>1, <2>2
  <1>4. ASSUME NEW m \in b
        PROVE  \E i \in 1..n : r[i].model = m /\ (r[i].at = "parse" \/ (r[i].at = "enter" /\ r[i].how = "lookup"))
    <2>1. CASE m = f.model
      BY <1>1, <1>2, <2>1
    <2>2. CASE m # f.model
      <3>1. PICK i \in 1..n : s[i].model = m /\ (s[i].at = "parse" \/ (s[i].at = "enter" /\ s[i].how = "lookup"))
        BY <2>2 DEF TrailOK
      <3>2. r[i] = s[i]
        BY <1>2, <2>2, <3>1
      <3>3. QED
        BY <3>1, <3>2
    <2>3. QED
      BY <2>1, <2>2
  <1>5. r[1].how = "request" /\ r[n].at # "enter"
    <2>1. s[1].how = "request" /\ 1 \in 1..n
      BY <1>1 DEF TrailOK
    <2>2. r[n] = f /\ r[1] = IF 1 = n THEN f ELSE s[1]
      BY <1>1, <1>2, <2>1
    <2> HIDE DEF n
    <2>3. s[n].how = f.how
      BY DEF n
    <2>4. QED
      BY <2>1, <2>2, <2>3
  <1>6. TrailOK(r, u, b, d)
    <2> HIDE DEF n
    <2>1. Len(r) = n
      BY <1>2
    <2>2. \A c \in 1..Len(u) : \A m \in u[c] : m \in d \/ \E i \in 1..n : Works(r, i, m)
      BY <1>3
    <2>3. \A m \in b : \E i \in 1..n :
             r[i].model = m /\ (r[i].at = "parse" \/ (r[i].at = "enter" /\ r[i].how = "lookup"))
      BY <1>4
    <2>4. QED
      BY <1>5, <2>1, <2>2, <2>3 DEF TrailOK
  <1>7. QED
    BY <1>6 DEF r

LEMMA PushTrail ==
  ASSUME NEW s \in Seq(Frames), NEW t \in Seq(SUBSET Models), NEW a, NEW d, TrailOK(s, t, a, d),
         NEW f \in Frames, f.at = "enter", s = <<>> => f.how = "request",
         NEW u, u = IF NewChain(f.how) THEN Append(t, {}) ELSE t,
         NEW b, \A m \in b : m \in a \/ (m = f.model /\ f.how = "lookup")
  PROVE  TrailOK(Append(s, f), u, b, d)
  <1> DEFINE n == Len(s)
             r == Append(s, f)
  <1>1. n \in Nat /\ Len(r) = n + 1 /\ r[n+1] = f /\ \A i \in 1..n : r[i] = s[i]
    BY AppendProperties, LenProperties
  <1>2. /\ Len(t) \in Nat
        /\ NewChain(f.how) => Len(u) = Len(t)+1 /\ u[Len(t)+1] = {}
        /\ ~NewChain(f.how) => Len(u) = Len(t)
        /\ \A c \in 1..Len(t) : u[c] = t[c]
    <2>1. {} \in SUBSET Models
      OBVIOUS
    <2>2. /\ Len(t) \in Nat /\ Len(Append(t, {})) = Len(t)+1 /\ Append(t, {})[Len(t)+1] = {}
          /\ \A c \in 1..Len(t) : Append(t, {})[c] = t[c]
      BY <2>1, AppendProperties, LenProperties
    <2>3. QED
      BY <2>2
  <1>3. n # 0 => s # <<>>
    BY EmptySeq
  <1> HIDE DEF r
  <1>4. ASSUME NEW c \in 1..Len(u), NEW m \in u[c] PROVE m \in d \/ \E i \in 1..n+1 : Works(r, i, m)
    <2>1. c \in 1..Len(t) /\ m \in t[c]
      BY <1>2, <1>4
    <2>2. m \in d \/ \E i \in 1..n : Works(s, i, m)
      BY <2>1 DEF TrailOK
    <2>3. \A i \in 1..n : i \in 1..n+1
      BY <1>1
    <2>4. QED
      BY <1>1, <2>2, <2>3 DEF Works
  <1>5. ASSUME NEW m \in b
        PROVE  \E i \in 1..n+1 : r[i].model = m /\ (r[i].at = "parse" \/ (r[i].at = "enter" /\ r[i].how = "lookup"))
    <2>1. n+1 \in 1..n+1 /\ \A i \in 1..n : i \in 1..n+1
      BY <1>1
    <2>2. CASE m \in a
      BY <1>1, <2>1, <2>2 DEF TrailOK
    <2>3. CASE m = f.model /\ f.how = "lookup"
      BY <1>1, <2>1, <2>3
    <2>4. QED
      BY <1>5, <2>2, <2>3
  <1>6. r[1].how = "request"
    <2>1. CASE n = 0
      <3>1. s = <<>>
        BY <2>1, EmptySeq, <1>1
      <3>2. QED
        BY <1>1, <2>1, <3>1
    <2>2. CASE n # 0
      <3>1. 1 \in 1..n
        BY <1>1, <2>2
      <3>2. QED
        BY <1>1, <1>3, <2>2, <3>1 DEF TrailOK
    <2>3. QED
      BY <2>1, <2>2
  <1>7. NewChain(r[n+1].how) => u[Len(u)] = {}
    BY <1>1, <1>2
  <1>8. QED
    BY <1>1, <1>4, <1>5, <1>6, <1>7 DEF TrailOK, r

LEMMA PopTrail ==
  ASSUME NEW s \in Seq(Frames), s # <<>>, NEW t \in Seq(SUBSET Models), t # <<>>, NEW a, NEW d,
         TrailOK(s, t, a, d),
         \A i \in 1..Len(s)-1 : s[i].at # "enter",
         s[Len(s)].at # "parse",
         NEW u, u = IF NewChain(s[Len(s)].how) THEN Front(t) ELSE t,
         NEW b, b = IF s[Len(s)].how = "lookup" THEN a \ {s[Len(s)].model} ELSE a,
         NEW e, d \subseteq e, s[Len(s)].at # "enter" => s[Len(s)].model \in e
  PROVE  TrailOK(Front(s), u, b, e)
  <1> DEFINE n == Len(s)
             r == Front(s)
  <1>1. n \in Nat /\ n >= 1 /\ r \in Seq(Frames) /\ Len(r) = n - 1 /\ \A i \in 1..n-1 : r[i] = s[i]
    BY FrontFacts
  <1>2. Len(t) \in Nat /\ Len(u) <= Len(t) /\ Len(u) \in Nat /\ \A c \in 1..Len(u) : u[c] = t[c]
    BY FrontFacts, LenProperties
  <1>3. \A i \in 1..n : i = n \/ i \in 1..n-1
    BY <1>1
  <1> HIDE DEF r
  <1>4. ASSUME NEW c \in 1..Len(u), NEW m \in u[c] PROVE m \in e \/ \E i \in 1..n-1 : Works(r, i, m)
    <2>1. c \in 1..Len(t) /\ m \in t[c]
      BY <1>2
    <2>2. m \in d \/ \E i \in 1..n : Works(s, i, m)
      BY <2>1 DEF TrailOK
    <2>3. \A i \in 1..n-1 : Works(s, i, m) => Works(r, i, m)
      BY <1>1 DEF Works
    <2>4. Works(s, n, m) => m \in e
      BY DEF Works
    <2>5. QED
      BY <1>3, <2>2, <2>3, <2>4
  <1>5. ASSUME NEW m \in b
        PROVE  \E i \in 1..n-1 : r[i].model = m /\ (r[i].at = "parse" \/ (r[i].at = "enter" /\ r[i].how = "lookup"))
    <2>1. m \in a
      OBVIOUS
    <2>2. PICK i \in 1..n : s[i].model = m /\ (s[i].at = "parse" \/ (s[i].at = "enter" /\ s[i].how = "lookup"))
      BY <2>1 DEF TrailOK
    <2>3. i # n
      BY <2>2
    <2>4. i \in 1..n-1 /\ r[i] = s[i]
      BY <1>1, <1>3, <2>3
    <2>5. QED
      BY <2>2, <2>4
  <1>6. r # <<>> => r[1].how = "request" /\ r[n-1].at # "enter"
    <2>1. r # <<>> => n - 1 \in 1..n-1 /\ 1 \in 1..n-1
      BY <1>1, EmptySeq
    <2>2. QED
      BY <1>1, <2>1 DEF TrailOK
  <1>7. QED
    BY <1>1, <1>4, <1>5, <1>6 DEF TrailOK, r

-----------------------------------------------------------------------------
(* Steps of whoever holds the lock                                         *)

Steady == UNCHANGED <<mode, origins, world, written, here, hydrated>>

\* What a registry should answer is settled when it starts to serve.
LEMMA SteadyParsed ==
  ASSUME UNCHANGED <<origins, world>>
  PROVE  Parsed(world, Relations)' = Parsed(world, Relations)
BY DEF Parsed, KnownColumns, Static, Discovered, DefinedBySql

LEMMA SteadyFacts ==
  ASSUME Steady
  PROVE  /\ \A m : Truth(m)' = Truth(m) /\ Base(m)' = Base(m)
         /\ \A m, i : Reading(m, i)' = Reading(m, i)
         /\ \A m : Excused(m)' = Excused(m)
  <1>1. Parsed(world, Relations)' = Parsed(world, Relations)
    BY SteadyParsed DEF Steady
  <1>2. \A m : Truth(m)' = Truth(m)
    BY <1>1 DEF Truth
  <1>3. \A F, m, i : ReadIn(m, F, i)' = ReadIn(m, F, i)
    BY DEF Steady, ReadIn, KnownColumns, Static, Discovered, DefinedBySql
  <1>4. \A m, i : Reading(m, i)' = Reading(m, i)
    BY <1>1, <1>3 DEF Reading
  <1>5. \A m : Base(m)' = Base(m)
    BY <1>1, <1>3 DEF Base, BaseIn, Steady
  <1>6. \A m : Excused(m)' = Excused(m)
    BY DEF Steady, Excused, Outdated, Fresh
  <1>7. QED
    BY <1>2, <1>4, <1>5, <1>6

LEMMA WorkPrimed ==
  ASSUME Steady, \A i \in 1..Len(stack') : FrameTells(stack', i, columns', done')
  PROVE  WorkInv'
BY SteadyFacts DEF Steady, WorkInv, FrameTells

\* Work on the lineage leaves threads and their answers alone; the rest follows
\* from what it does to the columns.
LEMMA EnsureRest ==
  ASSUME RegInv, mode = "lazy", phase = "serving", Quiet, done \subseteq done',
         \A r \in Terminals : columns'[r] = columns[r],
         \A i \in 1..Len(stack') : FrameTells(stack', i, columns', done'),
         TrailOK(stack', trails', active', done'), Untouched(stack', columns', done'),
         \A r \in Models \cap done' : \/ r \in done /\ columns'[r] = columns[r]
                                      \/ Excused(r) \/ Alike(columns'[r], Truth(r)),
         pending' \subseteq pending,
         done \cup pending \cup Bottom(stack) \subseteq done' \cup pending' \cup Bottom(stack')
  PROVE  RegInv'
  <1>1. Steady
    BY DEF Quiet, Steady
  <1>2. /\ \A m : Truth(m)' = Truth(m) /\ Excused(m)' = Excused(m)
    BY <1>1, SteadyFacts
  <1>3. WorkInv' /\ TrailInv'
    BY <1>1, WorkPrimed DEF TrailInv
  <1>4. LazyInv'
    <2>1. \A r \in Models \cap done' : Excused(r) \/ Alike(columns'[r], Truth(r))
      BY DEF RegInv, LazyInv
    <2>2. phase' = "serving"
      BY DEF Quiet
    <2>3. QED
      BY <1>2, <2>1, <2>2 DEF LazyInv
  <1>5. EagerInv'
    BY DEF Quiet, EagerInv
  <1>6. RequestInv'
    <2> DEFINE old == done \cup pending \cup Bottom(stack)
               new == done' \cup pending' \cup Bottom(stack')
    <2>1. old \subseteq new
      OBVIOUS
    <2>2. \A t \in Threads : owner = t => ask[t] \subseteq old
      BY DEF RegInv, RequestInv
    <2>3. \A t \in Threads : owner = t => ask[t] \subseteq new
      BY <2>1, <2>2
    <2> HIDE DEF old
    <2>4. /\ owner' = owner /\ pc' = pc /\ ask' = ask /\ answer' = answer /\ phase' = phase /\ here' = here
          /\ mode' = mode
      BY DEF Quiet
    <2>5. \A t \in Threads : owner' = t => ask'[t] \subseteq new
      BY <2>3, <2>4
    <2>6. \A t \in Threads : owner = t => pending' \subseteq here
      BY DEF RegInv, RequestInv
    <2>7. \A t \in Threads : pc[t] = "reading" => ask[t] \subseteq done'
      BY DEF RegInv, RequestInv
    <2>8. \A t \in Threads : ask[t] \subseteq here /\ (pc[t] = "holding" <=> owner = t)
      BY DEF RegInv, RequestInv
    <2>9. owner \in Threads \cup {Nobody}
      BY DEF RegInv, RequestInv
    <2>10. QED
      BY <2>4, <2>5, <2>6, <2>7, <2>8, <2>9 DEF RequestInv
  <1>7. AnswerInv'
    <2>1. /\ written' = written /\ hydrated' = hydrated /\ answer' = answer
          /\ AnswerInv
      BY DEF Quiet, RegInv
    <2>2. AnswersAreParses'
      BY <1>2, <2>1 DEF AnswerInv, AnswersAreParses, Truth
    <2>3. QED
      BY <2>1, <2>2 DEF AnswerInv
  <1>8. QED
    BY <1>3, <1>4, <1>5, <1>6, <1>7 DEF RegInv

\* Where the work stands when there is a frame.
LEMMA AtWork ==
  ASSUME ShapeInv, StackInv, RegInv, stack # <<>>
  PROVE  /\ mode = "lazy" /\ phase = "serving" /\ owner \in Threads \cup {Nobody}
         /\ Len(stack) \in Nat \ {0} /\ stack \in Seq(Frames) /\ Top \in Frames /\ Top = stack[Len(stack)]
         /\ trails \in Seq(SUBSET Models) /\ trails # <<>> /\ Len(trails) \in Nat /\ Len(trails) >= 1
         /\ \A i \in 1..Len(stack) : stack[i] \in Frames /\ FrameTells(stack, i, columns, done)
         /\ \A i \in 1..Len(stack)-1 : stack[i].at # "enter" /\ stack[i].model \in Models \ done
         /\ Top.at # "enter" => Top.model \in Models \ done
         /\ TrailOK(stack, trails, active, done) /\ Untouched(stack, columns, done)
         /\ world \in [Models -> Versions]
  <1>1. /\ Len(stack) \in Nat \ {0} /\ Top \in Frames /\ phase = "serving"
        /\ FrameOK(stack, Len(stack), active, done, world)
        /\ Len(trails) \in Nat /\ Len(trails) >= 1 /\ trails \in Seq(SUBSET Models)
    BY TopFacts
  <1>2. mode = "lazy"
    BY DEF ShapeInv, RegInv, EagerInv
  <1>3. stack \in Seq(Frames) /\ \A i \in 1..Len(stack) : stack[i] \in Frames
    BY ElementOfSeq DEF StackInv, StackOK
  <1>4. \A i \in 1..Len(stack) : FrameOK(stack, i, active, done, world)
    BY DEF StackInv, StackOK
  <1>5. \A i \in 1..Len(stack)-1 : stack[i].at # "enter" /\ stack[i].model \in Models \ done
    BY <1>1, <1>4 DEF FrameOK
  <1>6. trails # <<>>
    BY <1>1, EmptySeq
  <1>7. Top.at # "enter" => Top.model \in Models \ done
    BY <1>1 DEF FrameOK, Top
  <1>8. QED
    BY <1>1, <1>2, <1>3, <1>5, <1>6, <1>7
       DEF Top, RegInv, WorkInv, TrailInv, LazyInv, RequestInv, ShapeInv

\* Below a frame that works, or is about to, lies no frame of the same model.
LEMMA WorksAlone ==
  ASSUME Acyclic, ShapeInv, StackInv, RegInv, stack # <<>>,
         Top.at # "enter" \/ Top.model \notin trails[Len(trails)]
  PROVE  \A i \in 1..Len(stack)-1 : /\ stack[i].model # Top.model
                                    /\ RankOf(world)[Top.model] < RankOf(world)[stack[i].model]
  <1>1. \A i \in 1..Len(stack)-1 : RankOf(world)[Top.model] < RankOf(world)[stack[i].model]
    BY StrictlyLower DEF StackInv, Top
  <1>2. RankOf(world)[Top.model] \in Nat
    BY RankFacts, AtWork DEF Frames
  <1>3. QED
    BY <1>1, <1>2

\* The frame at the top returns.
LEMMA PopStep ==
  ASSUME Acyclic, ShapeInv, StackInv, RegInv, stack # <<>>, Pop, Quiet, pending' = pending,
         done \subseteq done', done' \subseteq done \cup {Top.model},
         Top.at # "parse", Top.at # "enter" => Top.model \in done',
         Top.at = "enter" => columns' = columns /\ (Top.model \in Models => done' = done),
         Top.model \in done' \/ (Len(stack) > 1 /\ Top.model = stack[Len(stack)-1].model),
         \A r \in Relations \ {Top.model} : columns'[r] = columns[r],
         Top.at # "enter" => Excused(Top.model) \/ Alike(columns'[Top.model], Truth(Top.model))
  PROVE  RegInv'
  <1> DEFINE n == Len(stack)
             top == stack[n]
  <1>1. /\ mode = "lazy" /\ phase = "serving" /\ n \in Nat \ {0} /\ stack \in Seq(Frames) /\ Top = top
        /\ top \in Frames /\ trails \in Seq(SUBSET Models) /\ trails # <<>>
        /\ \A i \in 1..n : stack[i] \in Frames /\ FrameTells(stack, i, columns, done)
        /\ \A i \in 1..n-1 : stack[i].at # "enter"
        /\ top.at # "enter" => top.model \in Models \ done
        /\ TrailOK(stack, trails, active, done) /\ Untouched(stack, columns, done)
    BY AtWork
  <1>2. /\ stack' = Front(stack)
        /\ trails' = IF NewChain(top.how) THEN Front(trails) ELSE trails
        /\ active' = IF top.how = "lookup" THEN active \ {top.model} ELSE active
    BY <1>1 DEF Pop
  <1>3. Len(stack') = n - 1 /\ \A i \in 1..n-1 : stack'[i] = stack[i]
    BY <1>1, <1>2, FrontFacts
  <1>4. \A i \in 1..n-1 : columns'[stack[i].model] = columns[stack[i].model]
    <2>1. CASE Top.at = "enter"
      BY <2>1
    <2>2. CASE Top.at # "enter"
      BY <1>1, <2>2, WorksAlone DEF Frames
    <2>3. QED
      BY <2>1, <2>2
  <1>5. \A i \in 1..Len(stack') : FrameTells(stack', i, columns', done')
    <2>1. \A i \in 1..n-1 : i \in 1..n
      BY <1>1
    <2>2. \A i \in 1..n-1 : FrameTells(stack, i, columns, done) /\ columns'[stack[i].model] = columns[stack[i].model]
      BY <1>1, <1>4, <2>1
    <2>3. stack[n].model \in done' \/ stack[n].model = stack[n-1].model
      BY <1>1
    <2>4. \A i \in 1..Len(Front(stack)) : FrameTells(Front(stack), i, columns', done')
      BY <1>1, <2>2, <2>3, PopTells
    <2>5. QED
      BY <1>2, <2>4
  <1>6. TrailOK(stack', trails', active', done')
    BY <1>1, <1>2, PopTrail
  <1>7. Untouched(stack', columns', done')
    <2> SUFFICES ASSUME NEW r \in Models \ done', \A i \in 1..n-1 : ~Works(stack', i, r)
                 PROVE  columns'[r] = Yaml(r)
      BY <1>3 DEF Untouched
    <2>1. ~Works(stack, n, r)
      BY <1>1 DEF Works
    <2>2. \A i \in 1..n-1 : ~Works(stack, i, r)
      BY <1>3 DEF Works
    <2>3. columns[r] = Yaml(r)
      <3>1. \A i \in 1..n : i = n \/ i \in 1..n-1
        BY <1>1
      <3>2. QED
        BY <1>1, <2>1, <2>2, <3>1 DEF Untouched
    <2>4. columns'[r] = columns[r]
      BY <1>1 DEF Relations
    <2>5. QED
      BY <2>3, <2>4
  <1>8. ASSUME NEW r \in Models \cap done'
        PROVE  \/ r \in done /\ columns'[r] = columns[r]
               \/ Excused(r) \/ Alike(columns'[r], Truth(r))
    <2>1. CASE r \in done
      BY <1>1, <2>1 DEF Relations
    <2>2. CASE r = Top.model /\ r \notin done
      BY <1>8, <2>2
    <2>3. QED
      BY <2>1, <2>2
  <1>9. done \cup pending \cup Bottom(stack) \subseteq done' \cup pending' \cup Bottom(stack')
    <2>1. Bottom(stack) \subseteq done' \cup Bottom(stack')
      <3>1. CASE n = 1
        BY <1>1, <3>1 DEF Bottom
      <3>2. CASE n > 1
        <4>1. 1 \in 1..n-1 /\ 1 \in 1..n
          BY <1>1, <3>2
        <4>2. stack'[1] = stack[1] /\ Bottom(stack) = {stack[1].model} /\ Bottom(stack') = {stack'[1].model}
          BY <1>3, <4>1 DEF Bottom
        <4>3. QED
          BY <4>2
      <3>3. n = 1 \/ n > 1
        <4>1. n \in Nat \ {0}
          BY AtWork
        <4> HIDE DEF n
        <4>2. QED
          BY <4>1
      <3>4. QED
        BY <3>1, <3>2, <3>3
    <2>2. QED
      BY <2>1
  <1>10. \A r \in Terminals : columns'[r] = columns[r]
    <2>1. Top.at # "enter" => Top.model \notin Terminals
      BY <1>1, RegistryAssumption
    <2>2. QED
      BY <2>1 DEF Relations
  <1>11. QED
    BY <1>1, <1>5, <1>6, <1>7, <1>8, <1>9, <1>10, EnsureRest

LEMMA KnownStep ==
  ASSUME Acyclic, ShapeInv, StackInv, RegInv, EnterKnown
  PROVE  RegInv'
  <1>1. /\ stack # <<>> /\ Pop /\ Quiet /\ pending' = pending /\ done' = done /\ columns' = columns
        /\ Top.at = "enter" /\ Top.model \in done \cup trails[Len(trails)]
    BY DEF EnterKnown
  <1> DEFINE n == Len(stack)
  <1>2. Top.model \in done \/ (n > 1 /\ Top.model = stack[n-1].model)
    <2> SUFFICES ASSUME Top.model \notin done, Top.model \in trails[Len(trails)]
                 PROVE  n > 1 /\ Top.model = stack[n-1].model
      BY <1>1
    <2>1. n \in Nat \ {0} /\ Len(trails) \in 1..Len(trails) /\ Top = stack[n] /\ Top \in Frames
      BY <1>1, AtWork
    <2>2. PICK i \in 1..n : Works(stack, i, Top.model)
      BY <1>1, <2>1, AtWork DEF TrailOK
    <2>3. i # n
      BY <1>1, <2>1, <2>2 DEF Works
    <2>4. RankOf(world)[Top.model] < RankOf(world)[stack[i].model] \/ SelfStar(stack, i, n)
      BY <2>1, <2>3 DEF StackInv, StackOK, Descends
    <2>5. RankOf(world)[Top.model] \in Nat /\ stack[i].model = Top.model
      BY <1>1, <2>1, <2>2, RankFacts, AtWork DEF Frames, Works
    <2>6. SelfStar(stack, i, n)
      BY <2>4, <2>5
    <2>7. QED
      BY <2>1, <2>5, <2>6 DEF SelfStar
  <1>3. QED
    BY <1>1, <1>2, PopStep

LEMMA TerminalStep ==
  ASSUME Acyclic, ShapeInv, StackInv, RegInv, EnterTerminal
  PROVE  RegInv'
  <1>1. /\ stack # <<>> /\ Pop /\ Quiet /\ pending' = pending /\ done' = done \cup {Top.model}
        /\ columns' = columns /\ Top.at = "enter" /\ Top.model \in Terminals
    BY DEF EnterTerminal
  <1>2. Top.model \notin Models
    BY <1>1, RegistryAssumption
  <1>3. QED
    BY <1>1, <1>2, PopStep

\* Relations whose columns are as they will stay.
LEMMA SettledColumns ==
  ASSUME Acyclic, RegInv, world \in [Models -> Versions], mode = "lazy",
         NEW q \in Relations, q \in done \/ q \in Terminals, ~Excused(q)
  PROVE  Alike(columns[q], Truth(q))
  <1>1. CASE q \in Terminals
    <2>1. columns[q] = Yaml(q) /\ Truth(q) = Yaml(q)
      BY <1>1, TruthFacts DEF RegInv, AnswerInv
    <2>2. QED
      BY <2>1, AlikeSelf
  <1>2. CASE q \in Models /\ q \in done
    BY <1>2 DEF RegInv, LazyInv
  <1>3. QED
    BY <1>1, <1>2 DEF Relations

LEMMA FinishStep ==
  ASSUME Acyclic, ShapeInv, StackInv, RegInv, Finish
  PROVE  RegInv'
  <1> DEFINE m == Top.model
             n == Len(stack)
             sql == Sql(m, world)
             stars == sql.stars \cap here
             f == Starred(columns[m], stars, columns)
  <1>1. /\ stack # <<>> /\ Pop /\ Quiet /\ pending' = pending /\ done' = done \cup {m}
        /\ columns' = IF sql.breaks THEN columns ELSE [columns EXCEPT ![m] = f]
        /\ Top.at = "stars" /\ Top.stars = {}
    BY DEF Finish
  <1>2. /\ m \in Models \ done /\ mode = "lazy" /\ world \in [Models -> Versions] /\ n \in Nat \ {0}
        /\ FrameTells(stack, n, columns, done) /\ Top = stack[n] /\ m \in Relations
    BY <1>1, AtWork DEF Frames
  <1>3. columns = [r \in Relations |-> columns[r]]
    BY DEF ShapeInv
  <1>4. CASE sql.breaks
    <2>1. columns'[m] = Yaml(m)
      BY <1>1, <1>2, <1>4 DEF FrameTells
    <2>2. Truth(m) = Yaml(m)
      BY <1>2, <1>4, TruthFacts
    <2>3. Alike(columns'[m], Truth(m))
      BY <2>1, <2>2, AlikeSelf
    <2>4. QED
      BY <1>1, <1>4, <2>3, PopStep
  <1>5. CASE ~sql.breaks
    <2> HIDE DEF f
    <2>1. columns'[m] = f /\ \A r \in Relations \ {m} : columns'[r] = columns[r]
      BY <1>1, <1>2, <1>3, <1>5
    <2>2. ASSUME ~Excused(m) PROVE f = Truth(m)
      <3>1. m \in here /\ columns[m] = Base(m) /\ \A q \in stars : q \in done \/ q = m
        BY <1>1, <1>2, <1>5, <2>2 DEF FrameTells
      <3>2. sql.stars \subseteq Reads(m, world) /\ sql.stars \subseteq Relations
        BY <1>2, SqlFacts
      <3>3. stars = sql.stars
        BY <1>2, <2>2, <3>1, <3>2, ExcusedUp
      <3> DEFINE all == [q \in sql.stars |-> IF q = m THEN Base(m) ELSE Truth(q)]
      <3>4. Truth(m) = Starred(Base(m), sql.stars, all)
        BY <1>2, <1>5, TruthFacts
      <3>5. ASSUME NEW q \in sql.stars PROVE DOMAIN columns[q] = DOMAIN all[q]
        <4>1. CASE q = m
          BY <3>1, <4>1
        <4>2. CASE q # m
          <5>1. q \in done /\ ~Excused(q) /\ q \in Relations
            BY <1>2, <2>2, <3>1, <3>2, <3>3, <4>2, ExcusedUp
          <5>2. Alike(columns[q], Truth(q))
            BY <1>2, <5>1, SettledColumns
          <5>3. QED
            BY <4>2, <5>2 DEF Alike
        <4>3. QED
          BY <4>1, <4>2
      <3> HIDE DEF all, sql, stars
      <3>6. Starred(Base(m), sql.stars, columns) = Starred(Base(m), sql.stars, all)
        BY <3>2, <3>5, StarredSame
      <3>7. QED
        BY <3>1, <3>3, <3>4, <3>6 DEF f
    <2>3. Excused(m) \/ Alike(columns'[m], Truth(m))
      BY <2>1, <2>2, AlikeSelf
    <2>4. QED
      BY <1>1, <2>1, <2>3, PopStep
  <1>6. QED
    BY <1>4, <1>5

\* The frame at the top goes on with its model.
LEMMA ChangeStep ==
  ASSUME Acyclic, ShapeInv, StackInv, RegInv, stack # <<>>, Quiet, done' = done, pending' = pending,
         Top.at # "enter" \/ Top.model \notin trails[Len(trails)], Top.model \in Models \ done,
         NEW f \in Frames, stack' = [stack EXCEPT ![Len(stack)] = f],
         f.model = Top.model, f.how = Top.how, f.at # "enter",
         Len(trails') = Len(trails), \A c \in 1..Len(trails) : trails'[c] \subseteq trails[c] \cup {f.model},
         active' \subseteq active \cup {f.model}, f.model \in active' => f.at = "parse",
         \A r \in Relations \ {f.model} : columns'[r] = columns[r],
         FrameTells(stack', Len(stack), columns', done)
  PROVE  RegInv'
  <1> DEFINE n == Len(stack)
  <1>1. /\ mode = "lazy" /\ phase = "serving" /\ n \in Nat \ {0} /\ stack \in Seq(Frames) /\ Top = stack[n]
        /\ \A i \in 1..n : stack[i] \in Frames /\ FrameTells(stack, i, columns, done)
        /\ TrailOK(stack, trails, active, done) /\ Untouched(stack, columns, done)
    BY AtWork
  <1>2. Len(stack') = n /\ \A i \in 1..n : stack'[i] = IF i = n THEN f ELSE stack[i]
    <2>1. n \in 1..n
      BY <1>1
    <2>2. QED
      BY <1>1, <2>1, ExceptSeq
  <1>3. \A i \in 1..n-1 : FrameTells(stack, i, columns, done) /\ columns'[stack[i].model] = columns[stack[i].model]
    <2> SUFFICES ASSUME NEW i \in 1..n-1
                 PROVE  FrameTells(stack, i, columns, done) /\ columns'[stack[i].model] = columns[stack[i].model]
      OBVIOUS
    <2>1. stack[i].model # Top.model
      BY WorksAlone
    <2>2. i \in 1..n
      BY <1>1
    <2>3. QED
      BY <1>1, <2>1, <2>2 DEF Frames
  <1>4. \A i \in 1..n-1 : FrameTells(stack', i, columns', done)
    BY <1>1, <1>3, ChangeTells
  <1>5. \A i \in 1..Len(stack') : FrameTells(stack', i, columns', done')
    <2>0. n \in Nat /\ Len(stack') = n
      BY <1>1, <1>2
    <2> HIDE DEF n
    <2>1. \A i \in 1..Len(stack') : i = n \/ i \in 1..n-1
      BY <2>0
    <2>2. FrameTells(stack', n, columns', done')
      BY DEF n
    <2>3. QED
      BY <1>4, <2>1, <2>2
  <1>6. TrailOK(stack', trails', active', done')
    BY <1>1, ChangeTrail
  <1>7. Untouched(stack', columns', done')
    <2> SUFFICES ASSUME NEW r \in Models \ done, \A i \in 1..n : ~Works(stack', i, r)
                 PROVE  columns'[r] = Yaml(r)
      BY <1>2 DEF Untouched
    <2>1. r # f.model
      <3>1. stack'[n] = f /\ n \in 1..n
        BY <1>1, <1>2
      <3>2. QED
        BY <3>1 DEF Works
    <2>2. \A i \in 1..n : ~Works(stack, i, r)
      BY <1>1, <1>2, <2>1 DEF Works
    <2>3. columns[r] = Yaml(r)
      BY <2>2, <1>1 DEF Untouched
    <2>4. QED
      BY <2>1, <2>3 DEF Relations
  <1>8. \A r \in Models \cap done' : r \in done /\ columns'[r] = columns[r]
    BY DEF Relations
  <1>9. \A r \in Terminals : columns'[r] = columns[r]
    BY RegistryAssumption DEF Relations
  <1>10. Bottom(stack') = Bottom(stack)
    <2>1. \A i \in 1..n : stack'[i].model = stack[i].model
      BY <1>1, <1>2
    <2>2. 1..Len(stack') = 1..Len(stack)
      BY <1>2
    <2>3. QED
      BY <2>1, <2>2 DEF Bottom
  <1>11. QED
    BY <1>1, <1>5, <1>6, <1>7, <1>8, <1>9, <1>10, EnsureRest

\* A frame is put on the stack, once the one below it is s[Len(s)].
LEMMA PushStep ==
  ASSUME ShapeInv, StackInv, RegInv, mode = "lazy", phase = "serving", Quiet,
         columns' = columns, done' = done, trails \in Seq(SUBSET Models),
         NEW s \in Seq(Frames), TrailOK(s, trails, active, done), Untouched(s, columns, done),
         \A i \in 1..Len(s) : i < Len(s) => FrameTells(s, i, columns, done),
         NEW f \in Frames, f.at = "enter", f.model \in here, f.stars = {}, f.found = {},
         s = <<>> => f.how = "request", stack' = Append(s, f),
         trails' = IF NewChain(f.how) THEN Append(trails, {}) ELSE trails,
         \A m \in active' : m \in active \/ (m = f.model /\ f.how = "lookup"),
         s # <<>> => FrameTells(Append(s, f), Len(s), columns, done),
         pending' \subseteq pending,
         pending \cup Bottom(stack) \subseteq pending' \cup Bottom(stack')
  PROVE  RegInv'
  <1> DEFINE n == Len(s)
  <1>1. n \in Nat /\ Len(stack') = n + 1 /\ stack'[n+1] = f /\ \A i \in 1..n : stack'[i] = s[i]
    BY AppendProperties, LenProperties
  <1>2. \A i \in 1..Len(stack') : FrameTells(stack', i, columns', done')
    <2>1. \A i \in 1..n+1 : FrameTells(Append(s, f), i, columns, done)
      BY PushTells
    <2>2. QED
      BY <1>1, <2>1
  <1>3. TrailOK(stack', trails', active', done')
    BY PushTrail
  <1>4. Untouched(stack', columns', done')
    <2> SUFFICES ASSUME NEW r \in Models \ done, \A i \in 1..n+1 : ~Works(stack', i, r)
                 PROVE  columns[r] = Yaml(r)
      BY <1>1 DEF Untouched
    <2>1. \A i \in 1..n : ~Works(s, i, r)
      BY <1>1 DEF Works
    <2>2. QED
      BY <2>1 DEF Untouched
  <1>5. \A r \in Models \cap done' : r \in done /\ columns'[r] = columns[r]
    OBVIOUS
  <1>6. \A r \in Terminals : columns'[r] = columns[r]
    OBVIOUS
  <1>7. done \cup pending \cup Bottom(stack) \subseteq done' \cup pending' \cup Bottom(stack')
    OBVIOUS
  <1>8. QED
    BY <1>2, <1>3, <1>4, <1>5, <1>6, <1>7, EnsureRest

LEMMA EnsureNextStep ==
  ASSUME Acyclic, ShapeInv, StackInv, RegInv, EnsureNext
  PROVE  RegInv'
  <1> DEFINE m == Order[CHOOSE i \in DOMAIN Order :
                          /\ Order[i] \in pending
                          /\ \A j \in 1..(i - 1) : Order[j] \notin pending]
             f == Frame(m, "request")
  <1>1. /\ owner # Nobody /\ stack = <<>> /\ pending # {} /\ pending' = pending \ {m}
        /\ stack' = Append(stack, f) /\ columns' = columns /\ done' = done /\ active' = active /\ Quiet
        /\ trails' = IF NewChain("request") THEN Append(trails, {}) ELSE trails
    BY DEF EnsureNext, Push, Frame
  <1>2. m \in pending /\ m \in Models
    BY <1>1, FirstPending DEF ShapeInv
  <1> HIDE DEF m
  <1>3. owner \in Threads /\ pending \subseteq here /\ mode = "lazy" /\ phase = "serving"
    BY <1>1 DEF RegInv, RequestInv, EagerInv, ShapeInv
  <1>4. /\ f \in Frames /\ f.at = "enter" /\ f.stars = {} /\ f.found = {} /\ f.how = "request" /\ f.model = m
        /\ f.model \in here
    BY <1>2, <1>3 DEF Frame, Frames, Relations
  <1> HIDE DEF f
  <1>5. /\ stack \in Seq(Frames) /\ trails \in Seq(SUBSET Models)
        /\ TrailOK(stack, trails, active, done) /\ Untouched(stack, columns, done)
    BY <1>3 DEF StackInv, StackOK, RegInv, TrailInv, LazyInv
  <1>6. Len(stack) = 0 /\ \A i \in 1..Len(stack) : FALSE
    BY <1>1
  <1>7. Bottom(stack) = {} /\ Bottom(stack') = {m}
    <2>1. Len(stack') = 1 /\ stack'[1] = f
      BY <1>1, <1>4, <1>5, <1>6, AppendProperties
    <2>2. QED
      BY <1>4, <1>6, <2>1 DEF Bottom
  <1>8. QED
    BY <1>1, <1>3, <1>4, <1>5, <1>6, <1>7, PushStep

LEMMA EnterParseStep ==
  ASSUME Acyclic, ShapeInv, StackInv, RegInv, EnterParse
  PROVE  RegInv'
  <1> DEFINE m == Top.model
             n == Len(stack)
             sql == Sql(m, world)
             f == IF sql.breaks THEN [Top EXCEPT !.at = "stars"]
                  ELSE [Top EXCEPT !.at = "parse", !.left = sql.items]
  <1>1. /\ stack # <<>> /\ Top.at = "enter" /\ m \in Models \ (done \cup trails[Len(trails)])
        /\ trails' = [trails EXCEPT ![Len(trails)] = @ \cup {m}]
        /\ stack' = [stack EXCEPT ![n] = f] /\ columns' = columns /\ done' = done /\ pending' = pending
        /\ active' = IF sql.breaks THEN active \ {m} ELSE active \cup {m}
        /\ Quiet
    BY DEF EnterParse, SetTop
  <1>2. /\ n \in Nat \ {0} /\ stack \in Seq(Frames) /\ Top \in Frames /\ Top = stack[n]
        /\ FrameTells(stack, n, columns, done) /\ Untouched(stack, columns, done)
        /\ world \in [Models -> Versions] /\ trails \in Seq(SUBSET Models)
    BY <1>1, AtWork
  <1>3. columns[m] = Yaml(m)
    <2>1. \A i \in 1..n-1 : stack[i].model # m
      BY <1>1, WorksAlone
    <2>2. \A i \in 1..n : ~Works(stack, i, m)
      BY <1>1, <1>2, <2>1 DEF Works
    <2>3. QED
      BY <1>1, <1>2, <2>2 DEF Untouched
  <1>4. sql.items \in SUBSET Items
    BY <1>1, <1>2, SqlFacts
  <1>5. /\ f \in Frames /\ f.model = m /\ f.how = Top.how /\ f.at = (IF sql.breaks THEN "stars" ELSE "parse")
        /\ f.stars = Top.stars /\ f.found = Top.found /\ (~sql.breaks => f.left = sql.items)
    BY <1>2, <1>4 DEF Frames
  <1> HIDE DEF f
  <1>6. stack'[n] = f /\ Len(stack') = n
    <2>1. n \in 1..n
      BY <1>2
    <2>2. QED
      BY <1>1, <1>2, <1>5, <2>1, ExceptSeq
  <1>7. m \in here /\ Top.stars \subseteq here /\ Top.found = {}
    BY <1>1, <1>2 DEF FrameTells
  <1>8. FrameTells(stack', n, columns', done)
    BY <1>1, <1>3, <1>5, <1>6, <1>7 DEF FrameTells
  <1>9. Len(trails') = Len(trails) /\ \A c \in 1..Len(trails) : trails'[c] \subseteq trails[c] \cup {m}
    BY <1>1, <1>2
  <1>10. active' \subseteq active \cup {m} /\ (m \in active' => f.at = "parse") /\ f.at # "enter"
    BY <1>1, <1>5
  <1>11. QED
    BY <1>1, <1>5, <1>8, <1>9, <1>10, ChangeStep

LEMMA ApplyStep ==
  ASSUME Acyclic, ShapeInv, StackInv, RegInv, Apply
  PROVE  RegInv'
  <1> DEFINE m == Top.model
             n == Len(stack)
             sql == Sql(m, world)
             stars == sql.stars \cap here
             f == [Top EXCEPT !.at = "stars", !.stars = stars]
  <1>1. /\ stack # <<>> /\ Top.at = "parse" /\ Top.left = {}
        /\ columns' = [columns EXCEPT ![m] = Applied(@, Top.found)]
        /\ active' = active \ {m} /\ stack' = [stack EXCEPT ![n] = f]
        /\ done' = done /\ trails' = trails /\ pending' = pending /\ Quiet
    BY DEF Apply, SetTop
  <1>2. /\ n \in Nat \ {0} /\ stack \in Seq(Frames) /\ Top \in Frames /\ Top = stack[n]
        /\ FrameTells(stack, n, columns, done) /\ m \in Models \ done /\ m \in Relations
        /\ world \in [Models -> Versions]
    BY <1>1, AtWork DEF Frames
  <1>3. columns = [r \in Relations |-> columns[r]]
    BY DEF ShapeInv
  <1>4. columns'[m] = Applied(columns[m], Top.found) /\ \A r \in Relations \ {m} : columns'[r] = columns[r]
    BY <1>1, <1>2, <1>3
  <1>5. Excused(m) \/ columns'[m] = Base(m)
    <2>1. /\ columns[m] = Yaml(m)
          /\ Excused(m) \/ Top.found = {Reading(m, j) : j \in sql.items \ Top.left}
      BY <1>1, <1>2 DEF FrameTells
    <2>2. Base(m) = Applied(Yaml(m), {Reading(m, j) : j \in sql.items \ Top.left})
      <3>1. sql.items \ Top.left = sql.items
        BY <1>1
      <3>2. QED
        BY <3>1 DEF Base, BaseIn, Reading
    <2>3. QED
      BY <1>4, <2>1, <2>2
  <1>6. ~sql.breaks /\ m \in here
    BY <1>1, <1>2 DEF FrameTells
  <1>7. stars \in SUBSET Relations
    BY <1>2, SqlFacts
  <1>8. f \in Frames /\ f.model = m /\ f.how = Top.how /\ f.at = "stars" /\ f.stars = stars
    <2> HIDE DEF stars
    <2>1. QED
      BY <1>2, <1>7 DEF Frames
  <1> HIDE DEF f
  <1>9. stack'[n] = f /\ Len(stack') = n
    <2>1. n \in 1..n
      BY <1>2
    <2>2. QED
      BY <1>1, <1>2, <1>8, <2>1, ExceptSeq
  <1>10. FrameTells(stack', n, columns', done)
    BY <1>5, <1>6, <1>8, <1>9 DEF FrameTells
  <1>11. QED
    BY <1>1, <1>2, <1>4, <1>8, <1>10, ChangeStep

\* What a frame reads is neither at work nor being looked up below it.
LEMMA ReadsIdle ==
  ASSUME Acyclic, ShapeInv, StackInv, RegInv, stack # <<>>, Top.at # "enter",
         NEW q \in Reads(Top.model, world) \ {Top.model}
  PROVE  /\ q \notin active /\ \A i \in 1..Len(stack) : ~Works(stack, i, q)
         /\ Top.at = "stars" => Top.model \notin active
  <1> DEFINE m == Top.model
             n == Len(stack)
             R == RankOf(world)
  <1>1. /\ m \in Models \ done /\ Top = stack[n] /\ n \in Nat \ {0} /\ Top \in Frames
        /\ TrailOK(stack, trails, active, done) /\ world \in [Models -> Versions]
    BY AtWork
  <1>2. R \in [Relations -> Nat] /\ Ranks(world, R)
    BY <1>1, RankFacts
  <1>3. R[q] < R[m]
    BY <1>1, <1>2 DEF Ranks
  <1>4. \A i \in 1..n-1 : stack[i].model # m /\ R[m] < R[stack[i].model]
    BY WorksAlone
  <1>5. q \in Relations /\ R[q] \in Nat /\ R[m] \in Nat
    <2>1. m \in Relations
      BY <1>1 DEF Frames
    <2>2. q \in Relations
      BY <1>1, AboveFacts
    <2>3. QED
      BY <1>2, <2>1, <2>2
  <1> HIDE DEF R, m
  <1>6. ASSUME NEW i \in 1..n PROVE stack[i].model # q
    <2>1. CASE i = n
      BY <1>1, <2>1 DEF m
    <2>2. CASE i # n
      <3>1. i \in 1..n-1
        BY <1>1, <2>2
      <3>2. R[m] < R[stack[i].model]
        BY <1>4, <3>1
      <3>3. QED
        BY <1>3, <1>5, <3>2
    <2>3. QED
      BY <2>1, <2>2
  <1>7. q \notin active
    BY <1>1, <1>6 DEF TrailOK
  <1>8. \A i \in 1..n : ~Works(stack, i, q)
    BY <1>6 DEF Works
  <1>9. QED
    <2>1. ASSUME Top.at = "stars", m \in active PROVE FALSE
      <3>1. PICK i \in 1..n : stack[i].model = m /\ (stack[i].at = "parse" \/ stack[i].at = "enter")
        BY <1>1, <2>1 DEF TrailOK
      <3>2. i = n \/ i \in 1..n-1
        BY <1>1
      <3>3. QED
        BY <1>1, <1>4, <2>1, <3>1, <3>2
    <2>2. QED
      BY <1>7, <1>8, <2>1 DEF m

LEMMA LookUpStep ==
  ASSUME Acyclic, ShapeInv, StackInv, RegInv, LookUp
  PROVE  RegInv'
  <1> DEFINE n == Len(stack)
  <1>1. /\ stack # <<>> /\ Top.at = "parse" /\ columns' = columns /\ done' = done /\ pending' = pending /\ Quiet
        /\ \E i \in Top.left : \E r \in Blind(i) :
              active' = active \cup {r} /\ Push(Frame(r, "lookup"))
    BY DEF LookUp
  <1>2. PICK i \in Top.left : \E r \in Blind(i) : active' = active \cup {r} /\ Push(Frame(r, "lookup"))
    BY <1>1
  <1>3. PICK r \in Blind(i) : active' = active \cup {r} /\ Push(Frame(r, "lookup"))
    BY <1>2
  <1> DEFINE f == Frame(r, "lookup")
  <1>4. r \in Relations /\ r \in here
    BY DEF Blind, Relations
  <1>5. /\ f \in Frames /\ f.at = "enter" /\ f.model = r /\ f.how = "lookup" /\ f.stars = {} /\ f.found = {}
    BY <1>4 DEF Frame, Frames
  <1>6. stack' = Append(stack, f) /\ trails' = IF NewChain(f.how) THEN Append(trails, {}) ELSE trails
    BY <1>3 DEF Push
  <1> HIDE DEF f
  <1>7. /\ mode = "lazy" /\ phase = "serving" /\ n \in Nat \ {0} /\ stack \in Seq(Frames) /\ Top = stack[n]
        /\ trails \in Seq(SUBSET Models)
        /\ \A j \in 1..n : FrameTells(stack, j, columns, done)
        /\ TrailOK(stack, trails, active, done) /\ Untouched(stack, columns, done)
    BY <1>1, AtWork
  <1>8. Len(stack') = n + 1 /\ \A j \in 1..n : stack'[j] = stack[j]
    BY <1>5, <1>6, <1>7, AppendProperties
  <1>9. FrameTells(Append(stack, f), n, columns, done)
    <2>1. n \in 1..n
      BY <1>7
    <2>2. FrameTells(stack, n, columns, done) /\ stack'[n] = stack[n] /\ stack[n].at = "parse"
      BY <1>1, <1>7, <1>8, <2>1
    <2>3. FrameTells(stack', n, columns, done)
      BY <2>2 DEF FrameTells
    <2>4. QED
      BY <1>6, <2>3
  <1>10. Bottom(stack) \subseteq Bottom(stack')
    <2>1. 1 \in 1..n /\ 1 \in 1..n+1
      BY <1>7
    <2>2. QED
      BY <1>8, <2>1 DEF Bottom
  <1>11. \A m \in active' : m \in active \/ (m = f.model /\ f.how = "lookup")
    BY <1>3, <1>5
  <1>12. QED
    BY <1>1, <1>4, <1>5, <1>6, <1>7, <1>9, <1>10, <1>11, PushStep

LEMMA NextStarStep ==
  ASSUME Acyclic, ShapeInv, StackInv, RegInv, NextStar
  PROVE  RegInv'
  <1> DEFINE n == Len(stack)
             m == Top.model
             sql == Sql(m, world)
  <1>1. /\ stack # <<>> /\ Top.at = "stars" /\ Quiet /\ columns' = columns /\ done' = done
        /\ active' = active /\ trails' = trails /\ pending' = pending
        /\ \E r \in Top.stars :
             stack' = Append([stack EXCEPT ![Len(stack)].stars = @ \ {r}], Frame(r, "star"))
    BY DEF NextStar
  <1>2. PICK r \in Top.stars :
          stack' = Append([stack EXCEPT ![Len(stack)].stars = @ \ {r}], Frame(r, "star"))
    BY <1>1
  <1> DEFINE g == [Top EXCEPT !.stars = @ \ {r}]
             s == [stack EXCEPT ![n] = g]
             f == Frame(r, "star")
  <1>3. /\ mode = "lazy" /\ phase = "serving" /\ n \in Nat \ {0} /\ stack \in Seq(Frames) /\ Top = stack[n]
        /\ Top \in Frames /\ trails \in Seq(SUBSET Models) /\ m \in Models \ done
        /\ \A j \in 1..n : FrameTells(stack, j, columns, done)
        /\ TrailOK(stack, trails, active, done) /\ Untouched(stack, columns, done)
        /\ world \in [Models -> Versions]
    BY <1>1, AtWork
  <1>4. n \in 1..n
    BY <1>3
  <1>5. Top.stars \subseteq here /\ r \in Relations
    BY <1>3, <1>4 DEF FrameTells, Frames
  <1>6. /\ g \in Frames /\ g.model = m /\ g.how = Top.how /\ g.at = "stars" /\ g.stars = Top.stars \ {r}
        /\ g.found = Top.found
    BY <1>1, <1>3 DEF Frames
  <1>7. f \in Frames /\ f.at = "enter" /\ f.model = r /\ f.how = "star" /\ f.stars = {} /\ f.found = {}
    BY <1>5 DEF Frame, Frames
  <1>8. stack' = Append(s, f)
    BY <1>2 DEF Top
  <1> HIDE DEF g, f
  <1>9. s \in Seq(Frames) /\ Len(s) = n /\ \A j \in 1..n : s[j] = IF j = n THEN g ELSE stack[j]
    BY <1>3, <1>4, <1>6, ExceptSeq
  <1>10. m \notin active
    <2>1. Top.stars \subseteq Sql(m, world).stars /\ Sql(m, world).stars \subseteq Reads(m, world)
      BY <1>1, <1>3, TopFacts, SqlFacts DEF FrameOK, Top
    <2>2. CASE r # m
      BY <1>1, <2>1, <2>2, ReadsIdle
    <2>3. CASE r = m
      <3>1. \A i \in 1..n-1 : stack[i].model # m
        BY <1>1, WorksAlone
      <3>2. \A i \in 1..n : i = n \/ i \in 1..n-1
        BY <1>3
      <3>3. QED
        BY <1>1, <1>3, <3>1, <3>2 DEF TrailOK
    <2>4. QED
      BY <2>2, <2>3
  <1>11. TrailOK(s, trails, active, done)
    <2>1. \A c \in 1..Len(trails) : trails[c] \subseteq trails[c] \cup {g.model}
      OBVIOUS
    <2>2. QED
      BY <1>1, <1>3, <1>6, <1>10, <2>1, ChangeTrail
  <1>12. Untouched(s, columns, done)
    <2>1. \A j \in 1..n : \A x : Works(s, j, x) <=> Works(stack, j, x)
      BY <1>1, <1>3, <1>6, <1>9 DEF Works
    <2>2. QED
      BY <1>3, <1>9, <2>1 DEF Untouched
  <1>13. \A j \in 1..Len(s) : j < Len(s) => FrameTells(s, j, columns, done)
    <2>1. \A j \in 1..n-1 : j \in 1..n
      BY <1>3
    <2>2. \A j \in 1..n-1 : FrameTells(stack, j, columns, done) /\ columns[stack[j].model] = columns[stack[j].model]
      BY <1>3, <2>1
    <2>3. \A j \in 1..n-1 : FrameTells(s, j, columns, done)
      BY <1>1, <1>3, <1>6, <2>2, ChangeTells
    <2>4. \A j \in 1..n : j < n => j \in 1..n-1
      BY <1>3
    <2>5. QED
      BY <1>9, <2>3, <2>4
  <1> HIDE DEF s
  <1>14. Len(stack') = n + 1 /\ stack'[n+1] = f /\ stack'[n] = g /\ \A j \in 1..n : stack'[j] = s[j]
    BY <1>4, <1>7, <1>8, <1>9, AppendProperties
  <1>15. FrameTells(stack', n, columns, done)
    <2>1. FrameTells(stack, n, columns, done)
      BY <1>3, <1>4
    <2>2. m \in here /\ g.stars \subseteq here /\ (sql.breaks => columns[m] = Yaml(m))
      BY <1>1, <1>3, <1>6, <2>1 DEF FrameTells
    <2>3. ~sql.breaks => Excused(m) \/ columns[m] = Base(m)
      BY <1>1, <1>3, <2>1 DEF FrameTells
    <2>4. ASSUME ~sql.breaks, NEW q \in (sql.stars \cap here) \ g.stars
          PROVE  q \in done \/ q = m \/ (n < Len(stack') /\ stack'[n+1].model = q)
      <3>1. CASE q = r
        BY <1>3, <1>7, <1>14, <3>1
      <3>2. CASE q # r
        <4>1. q \in (sql.stars \cap here) \ Top.stars
          BY <1>6, <2>4, <3>2
        <4>2. QED
          BY <1>1, <1>3, <2>1, <2>4, <4>1 DEF FrameTells
      <3>3. QED
        BY <3>1, <3>2
    <2>5. QED
      BY <1>6, <1>14, <2>2, <2>3, <2>4 DEF FrameTells
  <1>16. Bottom(stack) \subseteq Bottom(stack')
    <2>1. 1 \in 1..n /\ 1 \in 1..n+1
      BY <1>3
    <2>2. stack'[1].model = stack[1].model
      BY <1>3, <1>6, <1>9, <1>14, <2>1
    <2>3. QED
      BY <1>14, <2>1, <2>2 DEF Bottom
  <1>17. s # <<>>
    BY <1>3, <1>9, EmptySeq
  <1>18. /\ f.model \in here /\ trails' = IF NewChain(f.how) THEN Append(trails, {}) ELSE trails
         /\ \A x \in active' : x \in active
    BY <1>1, <1>5, <1>7 DEF NewChain
  <1>19. FrameTells(Append(s, f), Len(s), columns, done)
    BY <1>8, <1>9, <1>15
  <1>20. QED
    BY <1>1, <1>3, <1>7, <1>8, <1>9, <1>11, <1>12, <1>13, <1>16, <1>17, <1>18, <1>19, PushStep

\* Once a lookup need not parse, the relations of a join are known as a parse of
\* the whole project knows them.
LEMMA KnownAlike ==
  ASSUME Acyclic, ShapeInv, StackInv, RegInv, stack # <<>>, Top.at = "parse",
         NEW i \in Top.left, Blind(i) = {}, Len(i.scope) > 1, ~Excused(Top.model), NEW q \in ToSet(i.scope)
  PROVE  KnownColumns(q, columns[q], here)
           = KnownColumns(q, IF q = Top.model THEN Yaml(Top.model) ELSE Parsed(world, Relations)[q], Relations)
  <1> DEFINE m == Top.model
             n == Len(stack)
  <1>1. /\ m \in Models \ done /\ m \in Relations /\ n \in Nat \ {0} /\ Top = stack[n] /\ mode = "lazy"
        /\ FrameTells(stack, n, columns, done) /\ Untouched(stack, columns, done)
        /\ world \in [Models -> Versions]
    BY AtWork DEF Frames
  <1>2. m \in here /\ columns[m] = Yaml(m)
    BY <1>1 DEF FrameTells
  <1>3. q \in Reads(m, world)
    <2>1. Top.left \subseteq Sql(m, world).items
      BY TopFacts DEF FrameOK, Top
    <2>2. QED
      BY <1>1, <2>1, SqlFacts
  <1>4. CASE q = m
    <2>1. Alike(columns[m], Yaml(m))
      BY <1>2, AlikeSelf
    <2>2. QED
      BY <1>1, <1>2, <1>4, <2>1, AlikeKnown
  <1>5. CASE q # m
    <2>1. q \in Reads(m, world) \ {m}
      BY <1>3, <1>5
    <2>2. ~Excused(q) /\ q \in Relations /\ q \in here
      BY <1>1, <2>1, ExcusedUp
    <2>3. q \notin active /\ \A j \in 1..n : ~Works(stack, j, q)
      BY <2>1, ReadsIdle
    <2>4. CASE Static(q)
      BY <2>4 DEF KnownColumns
    <2>5. CASE q \in done \/ q \in Terminals
      <3>1. Alike(columns[q], Truth(q))
        BY <1>1, <2>2, <2>5, SettledColumns
      <3>2. KnownColumns(q, columns[q], here) = KnownColumns(q, Truth(q), Relations)
        BY <2>2, <3>1, AlikeKnown
      <3>3. QED
        BY <1>5, <3>2 DEF Truth
    <2>6. CASE q \in Models \ done /\ ~Static(q)
      <3>1. DOMAIN columns[q] # {} /\ ~DefinedBySql(q)
        BY <2>2, <2>3, <2>6 DEF Blind
      <3>2. Documented[q] = {}
        BY <2>6, <3>1 DEF Static
      <3>3. columns[q] = Yaml(q)
        BY <1>1, <2>3, <2>6 DEF Untouched
      <3>4. QED
        BY <2>2, <3>1, <3>2, <3>3, YamlType
    <2>7. QED
      BY <2>2, <2>4, <2>5, <2>6 DEF Relations
  <1>6. QED
    BY <1>4, <1>5

LEMMA ResolveStep ==
  ASSUME Acyclic, ShapeInv, StackInv, RegInv, Resolve
  PROVE  RegInv'
  <1> DEFINE m == Top.model
             n == Len(stack)
             sql == Sql(m, world)
  <1>1. /\ stack # <<>> /\ Top.at = "parse" /\ Quiet /\ columns' = columns /\ done' = done
        /\ active' = active /\ trails' = trails /\ pending' = pending
    BY DEF Resolve
  <1>2. PICK i \in Top.left :
          /\ Blind(i) = {}
          /\ LET r == PickTable(i, [q \in ToSet(i.scope) |-> KnownColumns(q, columns[q], here)])
             IN  SetTop([Top EXCEPT !.left = @ \ {i},
                           !.found = @ \cup {[out |-> i.out, source |-> <<r, i.col>>]}])
    BY DEF Resolve
  <1> DEFINE known == [q \in ToSet(i.scope) |-> KnownColumns(q, columns[q], here)]
             r == PickTable(i, known)
             e == [out |-> i.out, source |-> <<r, i.col>>]
             left == Top.left \ {i}
             found == Top.found \cup {e}
             f == [Top EXCEPT !.left = left, !.found = found]
  <1>3. /\ n \in Nat \ {0} /\ stack \in Seq(Frames) /\ Top \in Frames /\ Top = stack[n]
        /\ FrameTells(stack, n, columns, done) /\ m \in Models \ done
        /\ world \in [Models -> Versions]
    BY <1>1, AtWork
  <1>4. i \in Items /\ Top.left \subseteq sql.items
    BY <1>1, <1>3, TopFacts DEF Frames, FrameOK, Top
  <1>5. stack' = [stack EXCEPT ![n] = f]
    BY <1>2 DEF SetTop
  <1>6. ASSUME ~Excused(m) PROVE e = Reading(m, i)
    <2> DEFINE P == Parsed(world, Relations)
               truth == [q \in ToSet(i.scope) |-> KnownColumns(q, IF q = m THEN Yaml(m) ELSE P[q], Relations)]
    <2>1. Reading(m, i) = [out |-> i.out, source |-> <<PickTable(i, truth), i.col>>]
      BY DEF Reading, ReadIn
    <2>2. r = PickTable(i, truth)
      <3>1. CASE Len(i.scope) > 1
        <4>1. \A q \in ToSet(i.scope) : known[q] = truth[q]
          BY <1>1, <1>2, <1>6, <3>1, KnownAlike
        <4>2. known = truth
          BY <4>1
        <4>3. QED
          BY <4>2
      <3>2. CASE ~(Len(i.scope) > 1)
        <4> HIDE DEF known, truth
        <4>1. QED
          BY <3>2 DEF PickTable
      <3>3. QED
        BY <3>1, <3>2
    <2> HIDE DEF truth, r
    <2>3. QED
      BY <2>1, <2>2
  <1>7. e \in [out : Columns, source : Relations \X Columns]
    <2>1. r \in Relations
      BY <1>4, PickedRelation
    <2> HIDE DEF r
    <2>2. QED
      BY <1>4, <2>1 DEF Items
  <1>8. found \in SUBSET [out : Columns, source : Relations \X Columns] /\ left \in SUBSET Items
    <2> HIDE DEF e
    <2>1. QED
      BY <1>3, <1>7 DEF Frames
  <1>9. Excused(m) \/ found = {Reading(m, j) : j \in sql.items \ left}
    <2>1. Excused(m) \/ Top.found = {Reading(m, j) : j \in sql.items \ Top.left}
      BY <1>1, <1>3 DEF FrameTells
    <2>2. ASSUME e = Reading(m, i), Top.found = {Reading(m, j) : j \in sql.items \ Top.left}
          PROVE  found = {Reading(m, j) : j \in sql.items \ left}
      <3>1. sql.items \ left = (sql.items \ Top.left) \cup {i}
        BY <1>4
      <3> HIDE DEF left, e, sql
      <3>2. QED
        BY <2>2, <3>1
    <2>3. QED
      BY <1>6, <2>1, <2>2
  <1> HIDE DEF left, found
  <1>10. /\ f \in Frames /\ f.model = m /\ f.how = Top.how /\ f.at = "parse" /\ f.left = left /\ f.found = found
         /\ f.stars = Top.stars
    BY <1>1, <1>3, <1>8 DEF Frames
  <1> HIDE DEF f
  <1>11. stack'[n] = f /\ Len(stack') = n
    <2>1. n \in 1..n
      BY <1>3
    <2>2. QED
      BY <1>3, <1>5, <1>10, <2>1, ExceptSeq
  <1>12. FrameTells(stack', n, columns', done)
    BY <1>1, <1>3, <1>9, <1>10, <1>11 DEF FrameTells
  <1>13. m \in active' => f.at = "parse"
    BY <1>10
  <1>14. QED
    BY <1>1, <1>3, <1>5, <1>10, <1>12, ChangeStep

LEMMA EnsureStep ==
  ASSUME Acyclic, ShapeInv, StackInv, RegInv, Ensure
  PROVE  RegInv'
BY EnsureNextStep, KnownStep, TerminalStep, EnterParseStep, LookUpStep, ResolveStep, ApplyStep,
   NextStarStep, FinishStep DEF Ensure

-----------------------------------------------------------------------------
(* Loading, the artefact and requests                                      *)

Core == <<phase, columns, done, stack, trails, active>>

\* What a step leaves alone when it touches neither the lineage nor the stack.
LEMMA CoreSame ==
  ASSUME RegInv, Steady, UNCHANGED Core
  PROVE  /\ WorkInv' /\ TrailInv' /\ LazyInv'
         /\ answer' = answer => AnswerInv'
         /\ UNCHANGED <<owner, pc>> => EagerInv'
         /\ mode = "eager" /\ owner' = Nobody /\ (\A t \in Threads : pc'[t] \in {"idle", "reading"}) => EagerInv'
         /\ mode = "lazy" => EagerInv'
  <1>1. /\ \A m : Truth(m)' = Truth(m) /\ Base(m)' = Base(m)
        /\ \A m : Excused(m)' = Excused(m)
    BY SteadyFacts
  <1>2. WorkInv' /\ TrailInv'
    BY WorkPrimed DEF RegInv, WorkInv, TrailInv, Core
  <1>3. LazyInv'
    BY <1>1 DEF RegInv, LazyInv, Core, Steady
  <1>4. ASSUME answer' = answer PROVE AnswerInv'
    BY <1>1, <1>4 DEF RegInv, AnswerInv, AnswersAreParses, Truth, Core, Steady
  <1>5. ASSUME UNCHANGED <<owner, pc>> PROVE EagerInv'
    BY <1>1, <1>5 DEF RegInv, EagerInv, Core, Steady
  <1>6. ASSUME mode = "eager", owner' = Nobody, \A t \in Threads : pc'[t] \in {"idle", "reading"} PROVE EagerInv'
    BY <1>1, <1>6 DEF RegInv, EagerInv, Core, Steady
  <1>7. ASSUME mode = "lazy" PROVE EagerInv'
    BY <1>7 DEF EagerInv, Steady
  <1>8. QED
    BY <1>2, <1>3, <1>4, <1>5, <1>6, <1>7

LEMMA InitRegInv == Init => RegInv
  <1> SUFFICES ASSUME Init PROVE RegInv
    OBVIOUS
  <1>1. stack = <<>> /\ trails = <<>> /\ Len(stack) = 0 /\ Len(trails) = 0
    BY DEF Init
  <1>2. WorkInv /\ TrailInv
    BY <1>1 DEF Init, WorkInv, TrailInv, TrailOK
  <1>3. LazyInv
    BY DEF Init, LazyInv, Untouched, Relations
  <1>4. EagerInv
    BY DEF Init, EagerInv, Relations
  <1>5. RequestInv
    BY RegistryAssumption DEF Init, RequestInv
  <1>6. AnswerInv
    BY RegistryAssumption DEF Init, AnswerInv, AnswersAreParses, Relations
  <1>7. QED
    BY <1>2, <1>3, <1>4, <1>5, <1>6 DEF RegInv

LEMMA AskStep ==
  ASSUME ShapeInv, RegInv, NEW t \in Threads, NEW ms \in SUBSET Models, Ask(t, ms)
  PROVE  RegInv'
  <1>1. Steady /\ UNCHANGED Core /\ answer' = answer /\ owner' = owner /\ pending' = pending
    BY DEF Ask, Steady, Core
  <1>2. WorkInv' /\ TrailInv' /\ LazyInv' /\ AnswerInv'
    BY <1>1, CoreSame
  <1>3. /\ phase = "serving" /\ pc[t] = "idle" /\ ms \subseteq here
        /\ ask' = [ask EXCEPT ![t] = ms]
        /\ pc' = [pc EXCEPT ![t] = IF mode = "lazy" THEN "waiting" ELSE "reading"]
    BY DEF Ask
  <1>4. EagerInv'
    <2>1. CASE mode = "lazy"
      BY <1>1, <2>1, CoreSame
    <2>2. CASE mode = "eager"
      <3>1. \A u \in Threads : pc'[u] \in {"idle", "reading"}
        BY <1>3, <2>2 DEF ShapeInv, RegInv, EagerInv
      <3>2. owner' = Nobody
        BY <1>1, <2>2 DEF RegInv, EagerInv
      <3>3. QED
        BY <1>1, <2>2, <3>1, <3>2, CoreSame
    <2>3. QED
      BY <2>1, <2>2 DEF ShapeInv
  <1>5. RequestInv'
    <2>1. /\ ask'[t] = ms /\ pc'[t] \notin {"holding", "idle"} /\ (mode = "lazy" => pc'[t] # "reading")
          /\ \A u \in Threads \ {t} : ask'[u] = ask[u] /\ pc'[u] = pc[u]
      BY <1>3 DEF ShapeInv
    <2>2. owner # t
      BY <1>3 DEF RegInv, RequestInv
    <2>3. QED
      BY <1>1, <1>3, <2>1, <2>2 DEF RegInv, RequestInv, Core, Steady
  <1>6. QED
    BY <1>2, <1>4, <1>5 DEF RegInv

LEMMA AcquireStep ==
  ASSUME ShapeInv, RegInv, NEW t \in Threads, Acquire(t)
  PROVE  RegInv'
  <1>1. /\ Steady /\ UNCHANGED Core /\ answer' = answer /\ ask' = ask /\ owner = Nobody /\ owner' = t
        /\ pc[t] = "waiting" /\ pending' = ask[t] \ done /\ pc' = [pc EXCEPT ![t] = "holding"]
    BY DEF Acquire, Steady, Core
  <1>2. mode = "lazy"
    BY <1>1 DEF ShapeInv, RegInv, EagerInv
  <1>3. WorkInv' /\ TrailInv' /\ LazyInv' /\ AnswerInv' /\ EagerInv'
    BY <1>1, <1>2, CoreSame
  <1>4. RequestInv'
    <2>1. pc'[t] = "holding" /\ \A u \in Threads \ {t} : pc'[u] = pc[u] /\ pc[u] # "holding"
      BY <1>1, RegistryAssumption DEF ShapeInv, RegInv, RequestInv
    <2>2. QED
      BY <1>1, <2>1 DEF RegInv, RequestInv, Core, Steady
  <1>5. QED
    BY <1>3, <1>4 DEF RegInv

LEMMA ReleaseStep ==
  ASSUME ShapeInv, RegInv, NEW t \in Threads, Release(t)
  PROVE  RegInv'
  <1>1. /\ Steady /\ UNCHANGED Core /\ answer' = answer /\ ask' = ask /\ owner = t /\ owner' = Nobody
        /\ stack = <<>> /\ pending = {} /\ pending' = pending /\ pc' = [pc EXCEPT ![t] = "reading"]
    BY DEF Release, Steady, Core
  <1>2. mode = "lazy"
    BY <1>1, RegistryAssumption DEF ShapeInv, RegInv, EagerInv
  <1>3. WorkInv' /\ TrailInv' /\ LazyInv' /\ AnswerInv' /\ EagerInv'
    BY <1>1, <1>2, CoreSame
  <1>4. RequestInv'
    <2>1. pc'[t] = "reading" /\ \A u \in Threads \ {t} : pc'[u] = pc[u] /\ pc[u] # "holding"
      BY <1>1 DEF ShapeInv, RegInv, RequestInv
    <2>2. Bottom(stack) = {}
      <3>1. Len(stack) = 0
        BY <1>1
      <3>2. QED
        BY <3>1 DEF Bottom
    <2>3. ask[t] \subseteq done
      BY <1>1, <2>2 DEF RegInv, RequestInv
    <2>4. \A u \in Threads : owner' # u
      BY <1>1, RegistryAssumption
    <2>5. QED
      BY <1>1, <2>1, <2>3, <2>4 DEF RegInv, RequestInv, Core, Steady
  <1>5. QED
    BY <1>3, <1>4 DEF RegInv

LEMMA ReadStep ==
  ASSUME ShapeInv, RegInv, NEW t \in Threads, Read(t)
  PROVE  RegInv'
  <1>1. /\ Steady /\ UNCHANGED Core /\ ask' = ask /\ owner' = owner /\ pending' = pending
        /\ pc[t] = "reading" /\ pc' = [pc EXCEPT ![t] = "idle"]
        /\ answer' = [answer EXCEPT ![t] = [m \in ask[t] |-> Rows(columns[m])]]
    BY DEF Read, Steady, Core
  <1>2. phase = "serving" /\ ask[t] \in SUBSET Models
    BY <1>1 DEF ShapeInv
  <1>3. WorkInv' /\ TrailInv' /\ LazyInv'
    BY <1>1, CoreSame
  <1>4. EagerInv'
    <2>1. CASE mode = "lazy"
      BY <1>1, <2>1, CoreSame
    <2>2. CASE mode = "eager"
      <3>1. \A u \in Threads : pc'[u] \in {"idle", "reading"}
        BY <1>1, <2>2 DEF ShapeInv, RegInv, EagerInv
      <3>2. owner' = Nobody
        BY <1>1, <2>2 DEF RegInv, EagerInv
      <3>3. QED
        BY <1>1, <2>2, <3>1, <3>2, CoreSame
    <2>3. QED
      BY <2>1, <2>2 DEF ShapeInv
  <1>5. RequestInv'
    <2>1. pc'[t] = "idle" /\ \A u \in Threads \ {t} : pc'[u] = pc[u]
      BY <1>1 DEF ShapeInv
    <2>2. owner # t
      BY <1>1 DEF RegInv, RequestInv
    <2>3. QED
      BY <1>1, <1>2, <2>1, <2>2 DEF RegInv, RequestInv, Core, Steady
  <1>6. ASSUME NEW m \in ask[t] PROVE Excused(m) \/ Rows(columns[m]) = Rows(Truth(m))
    <2>1. m \in Models
      BY <1>2
    <2>2. CASE mode = "lazy"
      <3>1. m \in done
        BY <1>1, <2>2 DEF RegInv, RequestInv
      <3>2. Excused(m) \/ Alike(columns[m], Truth(m))
        BY <2>1, <2>2, <3>1 DEF RegInv, LazyInv
      <3>3. QED
        BY <3>2 DEF Alike
    <2>3. CASE mode = "eager"
      BY <1>2, <2>1, <2>3 DEF RegInv, EagerInv
    <2>4. QED
      BY <2>2, <2>3 DEF ShapeInv
  <1>7. AnswerInv'
    <2>1. /\ \A m : Truth(m)' = Truth(m)
          /\ \A m : Excused(m)' = Excused(m)
      BY <1>1, SteadyFacts
    <2>2. /\ answer' = [u \in Threads |-> answer'[u]]
          /\ answer'[t] = [m \in ask[t] |-> Rows(columns[m])]
          /\ \A u \in Threads \ {t} : answer'[u] = answer[u]
      BY <1>1 DEF RegInv, AnswerInv
    <2>3. ASSUME NEW u \in Threads, NEW m \in DOMAIN answer'[u]
          PROVE  m \in Models /\ (Excused(m) \/ answer'[u][m] = Rows(Truth(m)))
      <3>1. CASE u = t
        BY <1>2, <1>6, <2>2, <2>3, <3>1
      <3>2. CASE u # t
        BY <2>2, <2>3, <3>2 DEF RegInv, AnswerInv, AnswersAreParses, Truth
      <3>3. QED
        BY <3>1, <3>2
    <2>4. AnswersAreParses'
      BY <2>1, <2>3 DEF AnswersAreParses, Truth
    <2>5. QED
      BY <1>1, <2>2, <2>3, <2>4 DEF RegInv, AnswerInv, Core, Steady
  <1>8. QED
    BY <1>3, <1>4, <1>5, <1>7 DEF RegInv

\* The phase moves on without a change of the lineage.
LEMMA PhaseStep ==
  ASSUME ShapeInv, RegInv, LoadLazy \/ Serve
  PROVE  RegInv'
  <1>1. /\ mode = "lazy" /\ phase # "serving" /\ Steady
        /\ UNCHANGED <<columns, done, stack, trails, active, owner, pc, ask, answer, pending>>
    BY DEF LoadLazy, Serve, ShapeInv, RegInv, EagerInv, Steady
  <1>2. /\ \A m : Truth(m)' = Truth(m)
        /\ \A m : Excused(m)' = Excused(m)
    BY <1>1, SteadyFacts
  <1>3. WorkInv' /\ TrailInv'
    BY <1>1, WorkPrimed DEF RegInv, WorkInv, TrailInv
  <1>4. LazyInv' /\ EagerInv'
    BY <1>1, <1>2 DEF RegInv, LazyInv, EagerInv, Steady
  <1>5. RequestInv'
    BY <1>1 DEF RegInv, RequestInv, Steady
  <1>6. AnswerInv'
    BY <1>1, <1>2 DEF RegInv, AnswerInv, AnswersAreParses, Truth, Steady
  <1>7. QED
    BY <1>3, <1>4, <1>5, <1>6 DEF RegInv

\* What an eager load finds in the SQL of a model.
LEMMA EagerFinds ==
  ASSUME mode = "eager", NEW m \in Models, world \in [Models -> Versions]
  PROVE  /\ Outs(EagerFound(m)) = {i.out : i \in Sql(m, world).items}
         /\ Excused(m) \/ EagerFound(m) = {Reading(m, i) : i \in Sql(m, world).items}
  <1> DEFINE items == Sql(m, world).items
             K(i) == [r \in ToSet(i.scope) |-> KnownColumns(r, columns[r], here)]
             E(i) == [out |-> i.out, source |-> <<PickTable(i, K(i)), i.col>>]
  <1>1. EagerFound(m) = {E(i) : i \in items}
    BY DEF EagerFound
  <1>2. Outs({E(i) : i \in items}) = {i.out : i \in items}
    <2>1. \A i : E(i).out = i.out
      OBVIOUS
    <2> HIDE DEF E, items
    <2>2. QED
      BY <2>1 DEF Outs
  <1>3. ASSUME ~Excused(m), NEW i \in items PROVE E(i) = Reading(m, i)
    <2>1. ~(Len(i.scope) > 1)
      BY <1>3 DEF Excused
    <2>2. \A known : PickTable(i, known) = i.scope[1]
      BY <2>1 DEF PickTable
    <2> HIDE DEF K
    <2>3. QED
      BY <2>2 DEF Reading, ReadIn
  <1> HIDE DEF E
  <1>4. QED
    BY <1>1, <1>2, <1>3

LEMMA EagerParseStep ==
  ASSUME Acyclic, ShapeInv, RegInv, EagerParse
  PROVE  RegInv'
  <1> DEFINE m == Order[Cardinality(done) + 1]
             sql == Sql(m, world)
             found == EagerFound(m)
  <1>1. /\ mode = "eager" /\ phase = "loading" /\ done # Models /\ Steady /\ done' = done \cup {m}
        /\ columns' = IF sql.breaks THEN columns ELSE [columns EXCEPT ![m] = Applied(@, found)]
        /\ UNCHANGED <<phase, stack, trails, active, owner, pc, ask, answer, pending>>
    BY DEF EagerParse, Steady
  <1>2. done \subseteq Models /\ m \in Models /\ world \in [Models -> Versions] /\ m \in Relations
    BY <1>1, NextModel DEF ShapeInv, Relations
  <1>3. /\ \A r : Truth(r)' = Truth(r) /\ Base(r)' = Base(r)
        /\ \A r : Excused(r)' = Excused(r)
    BY <1>1, SteadyFacts
  <1>4. stack' = <<>> /\ Len(stack') = 0
    BY <1>1 DEF RegInv, EagerInv
  <1>5. WorkInv'
    BY <1>1, <1>4, WorkPrimed
  <1>6. TrailInv'
    BY <1>1, <1>4 DEF RegInv, TrailInv, TrailOK
  <1>7. LazyInv'
    BY <1>1 DEF LazyInv, Steady
  <1>8. RequestInv' /\ \A r \in Terminals : columns'[r] = columns[r]
    <2>1. \A r \in Relations \ {m} : columns'[r] = columns[r]
      BY <1>1, <1>2 DEF ShapeInv
    <2>2. RequestInv'
      BY <1>1, RegistryAssumption DEF RegInv, RequestInv, ShapeInv, Steady
    <2>3. QED
      BY <1>2, <2>1, <2>2, RegistryAssumption DEF Relations
  <1>9. AnswerInv'
    BY <1>1, <1>3, <1>8 DEF RegInv, AnswerInv, AnswersAreParses, Truth, Steady
  <1>10. ASSUME NEW r \in Models
         PROVE  /\ r \in done' /\ ~Sql(r, world).breaks =>
                     /\ DOMAIN columns'[r] = DOMAIN Base(r)
                     /\ Excused(r) \/ columns'[r] = Base(r)
                /\ ~(r \in done' /\ ~Sql(r, world).breaks) => columns'[r] = Yaml(r)
    <2>1. /\ r \in done /\ ~Sql(r, world).breaks =>
                /\ DOMAIN columns[r] = DOMAIN Base(r)
                /\ Excused(r) \/ columns[r] = Base(r)
          /\ ~(r \in done /\ ~Sql(r, world).breaks) => columns[r] = Yaml(r)
      BY <1>1 DEF RegInv, EagerInv
    <2>2. CASE r # m \/ sql.breaks
      <3>1. columns'[r] = columns[r] /\ (r \in done' <=> r \in done \/ r = m)
        BY <1>1, <1>2, <2>2 DEF ShapeInv, Relations
      <3>2. QED
        BY <2>1, <2>2, <3>1
    <2>3. CASE r = m /\ ~sql.breaks
      <3>1. columns'[m] = Applied(columns[m], found)
        BY <1>1, <1>2, <2>3 DEF ShapeInv
      <3>2. /\ Outs(found) = {i.out : i \in sql.items}
            /\ Excused(m) \/ found = {Reading(m, i) : i \in sql.items}
        BY <1>1, <1>2, EagerFinds
      <3>3. DOMAIN Base(m) = Documented[m] \cup {i.out : i \in sql.items}
        BY <1>2, BaseType DEF Base
      <3>4. DOMAIN columns[m] = Documented[m] \/ DOMAIN columns[m] = DOMAIN Base(m)
        BY <1>2, <2>1, <2>3, YamlType
      <3>5. Base(m) = Applied(Yaml(m), {Reading(m, i) : i \in sql.items})
        BY DEF Base, BaseIn, Reading
      <3>6. \A cols : DOMAIN Applied(cols, found) = DOMAIN cols \cup Outs(found)
        BY DEF Applied, Outs
      <3>7. Applied(Applied(Yaml(m), found), found) = Applied(Yaml(m), found)
        <4> DEFINE old == Applied(Yaml(m), found)
                   new == Applied(old, found)
                   outs == {x.out : x \in found}
        <4>1. old = [c \in DOMAIN Yaml(m) \cup outs |->
                       IF c \in outs THEN <<{x.source : x \in {g \in found : g.out = c}}>> ELSE Yaml(m)[c]]
          BY DEF Applied
        <4>2. new = [c \in DOMAIN old \cup outs |->
                       IF c \in outs THEN <<{x.source : x \in {g \in found : g.out = c}}>> ELSE old[c]]
          BY DEF Applied
        <4> HIDE DEF old, new, outs, found
        <4>3. DOMAIN new = DOMAIN old /\ \A c \in DOMAIN old : new[c] = old[c]
          BY <4>1, <4>2
        <4>4. QED
          BY <4>1, <4>2, <4>3 DEF old, new
      <3> HIDE DEF found
      <3>8. DOMAIN columns'[m] = DOMAIN Base(m)
        BY <3>1, <3>2, <3>3, <3>4, <3>6
      <3>9. Excused(m) \/ columns'[m] = Base(m)
        BY <2>1, <2>3, <3>1, <3>2, <3>5, <3>7
      <3>10. QED
        BY <1>1, <2>3, <3>8, <3>9
    <2>4. QED
      BY <2>2, <2>3
  <1>11. EagerInv'
    BY <1>1, <1>3, <1>10 DEF RegInv, EagerInv, Steady
  <1>12. QED
    BY <1>5, <1>6, <1>7, <1>8, <1>9, <1>11 DEF RegInv

LEMMA EagerStarsStep ==
  ASSUME Acyclic, ShapeInv, RegInv, EagerStars
  PROVE  RegInv'
  <1>1. /\ mode = "eager" /\ phase = "loading" /\ done = Models /\ Steady /\ phase' = "serving"
        /\ columns' = [r \in Relations |->
                          IF r \in Terminals \/ (r \in Models /\ Sql(r, world).breaks) THEN columns[r]
                          ELSE Starred(columns[r], Sql(r, world).stars, columns)]
        /\ UNCHANGED <<done, stack, trails, active, owner, pc, ask, answer, pending>>
    BY DEF EagerStars, Steady
  <1>2. world \in [Models -> Versions]
    BY DEF ShapeInv
  <1>3. /\ \A r : Truth(r)' = Truth(r)
        /\ \A r : Excused(r)' = Excused(r)
    BY <1>1, SteadyFacts
  <1>4. stack' = <<>> /\ Len(stack') = 0
    BY <1>1 DEF RegInv, EagerInv
  <1>5. WorkInv'
    BY <1>1, <1>4, WorkPrimed
  <1>6. TrailInv'
    BY <1>1, <1>4 DEF RegInv, TrailInv, TrailOK
  <1>7. LazyInv'
    BY <1>1 DEF LazyInv, Steady
  <1>8. RequestInv' /\ \A r \in Terminals : columns'[r] = columns[r]
    BY <1>1, RegistryAssumption DEF RegInv, RequestInv, ShapeInv, Steady, Relations
  <1>9. AnswerInv'
    BY <1>1, <1>3, <1>8 DEF RegInv, AnswerInv, AnswersAreParses, Truth, Steady
  <1>10. ASSUME NEW r \in Models, ~Excused(r) PROVE columns'[r] = Truth(r)
    <2> DEFINE sql == Sql(r, world)
    <2>0. r \in Relations /\ r \notin Terminals
      BY RegistryAssumption DEF Relations
    <2>1. CASE sql.breaks
      <3>1. columns'[r] = columns[r] /\ columns[r] = Yaml(r)
        BY <1>1, <2>0, <2>1 DEF RegInv, EagerInv
      <3>2. QED
        BY <1>2, <2>1, <3>1, TruthFacts
    <2>2. CASE ~sql.breaks
      <3> DEFINE all == [q \in sql.stars |-> IF q = r THEN Base(r) ELSE Truth(q)]
      <3>1. columns'[r] = Starred(columns[r], sql.stars, columns) /\ columns[r] = Base(r)
        BY <1>1, <1>10, <2>0, <2>2 DEF RegInv, EagerInv
      <3>2. Truth(r) = Starred(Base(r), sql.stars, all)
        BY <1>2, <2>2, TruthFacts
      <3>3. sql.stars \in SUBSET Relations
        BY <1>2, SqlFacts
      <3>4. ASSUME NEW q \in sql.stars PROVE DOMAIN columns[q] = DOMAIN all[q]
        <4>1. CASE q = r
          BY <3>1, <4>1
        <4>2. CASE q # r /\ q \in Terminals
          BY <1>2, <4>2, TruthFacts DEF RegInv, AnswerInv
        <4>3. CASE q # r /\ q \in Models /\ Sql(q, world).breaks
          <5>1. columns[q] = Yaml(q)
            BY <1>1, <4>3 DEF RegInv, EagerInv
          <5>2. QED
            BY <1>2, <4>3, <5>1, TruthFacts
        <4>4. CASE q # r /\ q \in Models /\ ~Sql(q, world).breaks
          <5>1. DOMAIN columns[q] = DOMAIN Base(q)
            BY <1>1, <4>4 DEF RegInv, EagerInv
          <5>2. QED
            BY <1>2, <4>4, <5>1, TruthFacts
        <4>5. QED
          BY <3>3, <4>1, <4>2, <4>3, <4>4 DEF Relations
      <3> HIDE DEF all, sql
      <3>5. Starred(Base(r), sql.stars, columns) = Starred(Base(r), sql.stars, all)
        BY <3>3, <3>4, StarredSame
      <3>6. QED
        BY <3>1, <3>2, <3>5
    <2>3. QED
      BY <2>1, <2>2
  <1>11. EagerInv'
    BY <1>1, <1>3, <1>10 DEF RegInv, EagerInv, Steady
  <1>12. QED
    BY <1>5, <1>6, <1>7, <1>8, <1>9, <1>11 DEF RegInv

LEMMA HydrateStep ==
  ASSUME Acyclic, ShapeInv, RegInv, NEW scope \in Scopes, NEW covered \in SUBSET scope,
         Hydrate(covered, scope)
  PROVE  RegInv'
  <1> DEFINE ms == {m \in covered : Fresh(m)}
  <1>1. /\ phase = "loaded" /\ phase' = "serving"
        /\ columns' = [r \in Relations |-> IF r \in ms THEN FromArtefact(r) ELSE columns[r]]
        /\ done' = done \cup ms /\ hydrated' = ms
        /\ UNCHANGED <<mode, origins, world, written, active, owner, stack, trails, pending, pc, ask, asks, answer>>
    BY DEF Hydrate
  <1>2. ms \subseteq Models
    BY RegistryAssumption
  <1>3. /\ mode = "lazy" /\ stack = <<>> /\ Len(stack) = 0 /\ owner = Nobody
        /\ \A t \in Threads : pc[t] = "idle" /\ ask[t] = {} /\ answer[t] = <<>>
        /\ world \in [Models -> Versions] /\ written \in [Models -> Versions]
        /\ done = {}
    BY <1>1 DEF ShapeInv, RegInv, EagerInv, RequestInv, AnswerInv, LazyInv
  <1>4. \A r \in Models : columns[r] = Yaml(r)
    BY <1>3 DEF RegInv, LazyInv, Untouched
  <1>5. \A m : Truth(m)' = Truth(m)
    BY <1>1, SteadyParsed DEF Truth
  <1>6. WorkInv'
    BY <1>1, <1>3 DEF WorkInv
  <1>7. TrailInv'
    BY <1>1, <1>3 DEF RegInv, TrailInv, TrailOK
  <1>8. LazyInv'
    <2>1. Untouched(stack', columns', done')
      BY <1>1, <1>4 DEF Untouched, Relations
    <2>2. ASSUME NEW r \in Models \cap done' PROVE Excused(r)' \/ Alike(columns'[r], Truth(r)')
      <3>1. r \in ms /\ r \in Relations /\ Fresh(r)
        BY <1>1, <1>3 DEF Relations
      <3>2. columns'[r] = FromArtefact(r)
        BY <1>1, <3>1
      <3>3. Alike(FromArtefact(r), Parsed(written, Relations)[r])
        BY <1>3, <1>4, HydratedAlike
      <3>4. CASE \A a \in Above(r, world) \cap Models : Fresh(a)
        <4>1. Parsed(written, Relations)[r] = Truth(r)
          BY <1>3, <3>1, <3>4, FreshParse
        <4>2. QED
          BY <1>5, <3>2, <3>3, <4>1
      <3>5. CASE ~\A a \in Above(r, world) \cap Models : Fresh(a)
        <4>1. Outdated(r)'
          BY <1>1, <3>1, <3>5 DEF Outdated, Fresh
        <4>2. Excused(r)'
          BY <4>1 DEF Excused
        <4>3. QED
          BY <4>2
      <3>6. QED
        BY <3>4, <3>5
    <2>3. QED
      BY <1>1, <2>1, <2>2 DEF LazyInv
  <1>9. EagerInv'
    BY <1>1, <1>3 DEF EagerInv
  <1>10. RequestInv'
    BY <1>1, <1>3, RegistryAssumption DEF RequestInv
  <1>11. AnswerInv'
    <2>1. \A r \in Terminals : columns'[r] = columns[r]
      BY <1>1, <1>2, RegistryAssumption DEF Relations
    <2>2. \A t \in Threads : DOMAIN answer'[t] = {}
      BY <1>1, <1>3
    <2>3. AnswersAreParses'
      BY <2>2 DEF AnswersAreParses
    <2>4. QED
      BY <1>1, <1>2, <1>3, <2>1, <2>2, <2>3 DEF RegInv, AnswerInv
  <1>12. QED
    BY <1>6, <1>7, <1>8, <1>9, <1>10, <1>11 DEF RegInv

LEMMA NextReg == Acyclic /\ ShapeInv /\ StackInv /\ RegInv /\ [Next]_vars => RegInv'
  <1> SUFFICES ASSUME Acyclic, ShapeInv, StackInv, RegInv, [Next]_vars PROVE RegInv'
    OBVIOUS
  <1>1. CASE Load
    BY <1>1, PhaseStep, EagerParseStep, EagerStarsStep DEF Load
  <1>2. ASSUME NEW scope \in Scopes, NEW covered \in SUBSET scope, Hydrate(covered, scope) PROVE RegInv'
    BY <1>2, HydrateStep
  <1>3. ASSUME NEW t \in Threads,
               (\E m \in Models : Ask(t, {m})) \/ Ask(t, Models \cap here) \/ Acquire(t) \/ Release(t) \/ Read(t)
        PROVE  RegInv'
    <2>1. ASSUME NEW ms \in SUBSET Models, Ask(t, ms) PROVE RegInv'
      BY <2>1, AskStep
    <2>2. QED
      BY <1>3, <2>1, AcquireStep, ReleaseStep, ReadStep
  <1>4. CASE Ensure
    BY <1>4, EnsureStep
  <1>5. CASE UNCHANGED vars
    <2>1. Steady /\ UNCHANGED Core /\ UNCHANGED <<owner, pc, ask, answer, pending>>
      BY <1>5 DEF vars, Steady, Core
    <2>2. WorkInv' /\ TrailInv' /\ LazyInv' /\ EagerInv' /\ AnswerInv'
      BY <2>1, CoreSame
    <2>3. RequestInv'
      BY <2>1 DEF RegInv, RequestInv, Core, Steady
    <2>4. QED
      BY <2>2, <2>3 DEF RegInv
  <1>6. QED
    BY <1>1, <1>2, <1>3, <1>4, <1>5 DEF Next

\* Where refs are acyclic, whatever was asked before, by whom and in which order,
\* what get_column_lineage answers is what a parse of the whole project in
\* dependency order yields, apart from the answers the code cannot give: below an
\* artefact that is out of date, below relations a selector dropped, and, in an
\* eager load, where a column of a join is looked up too early.
THEOREM AnswersTrue == ASSUME Acyclic PROVE Spec => []AnswersAreParses
  <1>1. Init => ShapeInv /\ StackInv /\ RegInv
    BY InitReg, InitRegInv
  <1>2. ShapeInv /\ StackInv /\ RegInv /\ [Next]_vars => (ShapeInv /\ StackInv /\ RegInv)'
    BY NextShape, NextStack, NextReg
  <1>3. RegInv => AnswersAreParses
    BY DEF RegInv, AnswerInv
  <1>4. QED
    BY <1>1, <1>2, <1>3, PTL DEF Spec
=============================================================================
