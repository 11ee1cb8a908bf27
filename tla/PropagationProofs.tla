-------------------------- MODULE PropagationProofs --------------------------
(***************************************************************************)
(* What holds of the propagation of descriptions and labels in every       *)
(* project: whatever its columns, layers, glossary, scopes, threads and    *)
(* bounds.                                                                 *)
(*                                                                         *)
(* The order of the passes does not show because a walk hands a copy on as *)
(* what it is a copy of: giving a column what its walk found changes no    *)
(* walk that comes by later (InheritedAlike, WalkStable), so every thread  *)
(* finds what the schema files say (PassInv).  From the same two facts a   *)
(* written run moves no walk either, and copies stay in step (StepInv).    *)
(* Labels arrive because waves grow along the lineage (LabelInv), and an   *)
(* anchored text is never overwritten, whatever a walk finds (AnchorInv).  *)
(***************************************************************************)
EXTENDS Propagation, FiniteSetTheorems, WellFoundedInduction, TLAPS

-----------------------------------------------------------------------------
(* What a walk finds *)

LEMMA Least ==
    ASSUME NEW T, T \subseteq Nat, T # {}
    PROVE  \E n \in T : \A k \in T : n <= k
<1>1. PICK n \in T : \A k \in T : <<k, n>> \notin OpToRel(<, Nat)
  BY NatLessThanWellFounded, WFMin
<1>2. ASSUME NEW k \in T PROVE n <= k
  <2>1. k \in Nat /\ n \in Nat
    OBVIOUS
  <2>2. <<k, n>> \notin OpToRel(<, Nat)
    BY <1>1
  <2>3. ~(k < n)
    BY <2>1, <2>2 DEF OpToRel
  <2>. QED
    BY <2>1, <2>3
<1>. QED
  BY <1>2

LEMMA RowFacts ==
    ASSUME NEW c \in Columns, NEW f
    PROVE  /\ Row(f, c) = Lineage[c] \/ (Row(f, c) = Untraced /\ DOMAIN Row(f, c).from = {})
           /\ Row(f, c).from \in Seq(Columns \cup Outside)
           /\ \A i \in DOMAIN Row(f, c).from : Row(f, c).from[i] \in Columns \cup Outside
           /\ \A rank : Ranks(rank) => \A i \in DOMAIN Row(f, c).from :
                Row(f, c).from[i] \in Columns => rank[Row(f, c).from[i]] < rank[c]
<1>1. Row(f, c) = Lineage[c] \/ Row(f, c) = Untraced
  BY DEF Row
<1>2. /\ Untraced.from = << >> /\ << >> \in Seq(Columns \cup Outside) /\ DOMAIN << >> = {}
  BY DEF Untraced
<1>3. Lineage[c].from \in Seq(Columns \cup Outside)
  BY PropagationAssumption
<1>4. \A s \in Seq(Columns \cup Outside) : \A i \in DOMAIN s : s[i] \in Columns \cup Outside
  OBVIOUS
<1>5. Row(f, c).from \in Seq(Columns \cup Outside)
  BY <1>1, <1>2, <1>3
<1>. QED
  BY <1>1, <1>2, <1>3, <1>4, <1>5 DEF Ranks

Branches(f, walk, call) ==
    [i \in DOMAIN Row(f, call[2]).from |->
       walk[<<call[1] \cup {call[2]}, Row(f, call[2]).from[i]>>]]
Body(D, f, walk) ==
    [call \in Calls |->
       Answer(D, f, call[1], call[2],
              [i \in DOMAIN Row(f, call[2]).from |->
                 walk[<<call[1] \cup {call[2]}, Row(f, call[2]).from[i]>>]])]

LEMMA CallFacts ==
    ASSUME NEW call \in Calls
    PROVE  /\ call[1] \in SUBSET Columns /\ call[2] \in Columns \cup Outside
           /\ call[2] \in Columns => \A f : \A i \in DOMAIN Row(f, call[2]).from :
                <<call[1] \cup {call[2]}, Row(f, call[2]).from[i]>> \in Calls
<1>1. call[1] \in SUBSET Columns /\ call[2] \in Columns \cup Outside
  BY DEF Calls
<1>2. ASSUME NEW f, call[2] \in Columns, NEW i \in DOMAIN Row(f, call[2]).from
      PROVE  <<call[1] \cup {call[2]}, Row(f, call[2]).from[i]>> \in Calls
  <2>1. Row(f, call[2]).from[i] \in Columns \cup Outside
    BY <1>2, RowFacts
  <2>. QED
    BY <1>1, <1>2, <2>1 DEF Calls
<1>. QED
  BY <1>1, <1>2

\* A walk outside the project's columns finds nothing, and what is found at a
\* column depends on its branches alone.
LEMMA AnswerOutside ==
    ASSUME NEW D, NEW f, NEW v, NEW c \in Outside, NEW branches
    PROVE  Answer(D, f, v, c, branches) = Nothing
BY DEF Answer

\* The recursion of a walk ends: a function satisfies it.
LEMMA WalkDefined ==
    ASSUME ShallowLineage, NEW D, NEW f
    PROVE  LET walk == ResolveCllDescription(D, f)
           IN  \A call \in Calls :
                 walk[call] = Answer(D, f, call[1], call[2], Branches(f, walk, call))
<1>1. PICK rank \in [Columns -> 0..MaxDepth] : Ranks(rank)
  BY DEF ShallowLineage
<1>. DEFINE Below(call, n) == call[2] \in Outside \/ rank[call[2]] < n
            Solves(w, call) == w[call] = Answer(D, f, call[1], call[2], Branches(f, w, call))
            Upto(n) == \E w : /\ w = [call \in Calls |-> w[call]]
                              /\ \A call \in Calls : Below(call, n) => Solves(w, call)
            T == {n \in Nat : ~Upto(n)}
<1>2. ASSUME NEW w, NEW call \in Calls
      PROVE  Body(D, f, w)[call] = Answer(D, f, call[1], call[2], Branches(f, w, call))
  BY DEF Body, Branches
<1>3. ASSUME NEW n \in Nat, NEW w, \A call \in Calls : Below(call, n) => Solves(w, call)
      PROVE  \A call \in Calls : Below(call, n + 1) => Solves(Body(D, f, w), call)
  <2>1. \A call \in Calls : Below(call, n) => Body(D, f, w)[call] = w[call]
    BY <1>2, <1>3
  <2>2. ASSUME NEW call \in Calls, Below(call, n + 1) PROVE Solves(Body(D, f, w), call)
    <3>1. CASE call[2] \in Outside
      BY <1>2, <3>1, AnswerOutside
    <3>2. CASE call[2] \in Columns
      <4>1. ASSUME NEW i \in DOMAIN Row(f, call[2]).from
            PROVE  LET next == <<call[1] \cup {call[2]}, Row(f, call[2]).from[i]>>
                   IN  Body(D, f, w)[next] = w[next]
        <5>. DEFINE p == Row(f, call[2]).from[i]
                    next == <<call[1] \cup {call[2]}, p>>
        <5>1. next \in Calls /\ next[2] = p
          BY <3>2, CallFacts
        <5>2. p \in Outside \/ (p \in Columns /\ rank[p] < rank[call[2]])
          BY <1>1, <3>2, RowFacts
        <5>3. rank[call[2]] < n + 1 /\ rank[call[2]] \in Nat
          BY <2>2, <3>2, PropagationAssumption
        <5>4. p \in Columns => rank[p] \in Nat
          BY <1>1, PropagationAssumption
        <5>5. Below(next, n)
          BY <5>1, <5>2, <5>3, <5>4
        <5>. HIDE DEF p, next
        <5>6. Body(D, f, w)[next] = w[next]
          BY <2>1, <5>1, <5>5
        <5>. QED
          BY <5>6 DEF p, next
      <4>2. Branches(f, Body(D, f, w), call) = Branches(f, w, call)
        BY <4>1 DEF Branches
      <4>. QED
        BY <1>2, <4>2
    <3>. QED
      BY <3>1, <3>2, CallFacts
  <2>. QED
    BY <2>2
<1>4. ASSUME NEW n \in Nat, Upto(n) PROVE Upto(n + 1)
  <2>1. PICK w : \A call \in Calls : Below(call, n) => Solves(w, call)
    BY <1>4
  <2>2. Body(D, f, w) = [call \in Calls |-> Body(D, f, w)[call]]
    BY DEF Body
  <2>3. \A call \in Calls : Below(call, n + 1) => Solves(Body(D, f, w), call)
    BY <1>3, <2>1
  <2>4. PICK b : b = Body(D, f, w)
    OBVIOUS
  <2>5. b = [call \in Calls |-> b[call]] /\ \A call \in Calls : Below(call, n + 1) => Solves(b, call)
    BY <2>2, <2>3, <2>4
  <2>. QED
    BY <2>5
<1>5. Upto(0)
  <2>. DEFINE w == [call \in Calls |-> Nothing]
  <2>1. w = [call \in Calls |-> w[call]]
    OBVIOUS
  <2>2. ASSUME NEW call \in Calls, Below(call, 0) PROVE call[2] \in Outside
    <3>1. call[2] \in Columns => rank[call[2]] \in Nat
      BY PropagationAssumption
    <3>. QED
      BY <2>2, <3>1, CallFacts
  <2>3. \A call \in Calls : Below(call, 0) => Solves(w, call)
    BY <2>2, AnswerOutside
  <2>. QED
    BY <2>1, <2>3
<1>. HIDE DEF Upto
<1>6. \A n \in Nat : Upto(n)
  <2>. SUFFICES ASSUME T # {} PROVE FALSE
    OBVIOUS
  <2>1. PICK n \in T : \A k \in T : n <= k
    BY Least
  <2>2. n # 0 /\ n \in Nat /\ ~Upto(n)
    BY <1>5
  <2>3. n - 1 \in Nat /\ n - 1 \notin T /\ (n - 1) + 1 = n
    BY <2>1, <2>2
  <2>4. Upto(n - 1)
    BY <2>3
  <2>. QED
    BY <1>4, <2>2, <2>3, <2>4
<1>7. Upto(MaxDepth + 1)
  BY <1>6, PropagationAssumption
<1>8. PICK w : w = [call \in Calls |-> w[call]] /\ \A call \in Calls : Below(call, MaxDepth + 1) => Solves(w, call)
  BY <1>7 DEF Upto
<1>9. \A call \in Calls : Solves(w, call)
  <2>1. \A call \in Calls : call[2] \in Columns => rank[call[2]] < MaxDepth + 1
    BY PropagationAssumption
  <2>2. \A call \in Calls : Below(call, MaxDepth + 1)
    BY <2>1, CallFacts
  <2>. QED
    BY <1>8, <2>2
<1>10. w = Body(D, f, w)
  <2>1. \A call \in Calls : w[call] = Body(D, f, w)[call]
    BY <1>2, <1>9
  <2>2. Body(D, f, w) = [call \in Calls |-> Body(D, f, w)[call]]
    BY DEF Body
  <2>. QED
    BY <1>8, <2>1, <2>2
<1>11. ResolveCllDescription(D, f) = CHOOSE walk : walk = Body(D, f, walk)
  BY DEF ResolveCllDescription, Body
<1>12. ResolveCllDescription(D, f) = Body(D, f, ResolveCllDescription(D, f))
  BY <1>10, <1>11
<1>. QED
  BY <1>2, <1>12

\* Induction on a height: a set that holds every element whose lower ones it
\* holds, holds them all.
LEMMA ByHeight ==
    ASSUME NEW X, NEW height, \A x \in X : height[x] \in Nat, NEW S,
           \A x \in X : (\A y \in X : height[y] < height[x] => y \in S) => x \in S
    PROVE  \A x \in X : x \in S
<1>. DEFINE T == {height[x] : x \in X \ S}
<1>. SUFFICES ASSUME X \ S # {} PROVE FALSE
  OBVIOUS
<1>1. T # {} /\ T \subseteq Nat
  OBVIOUS
<1>2. PICK n \in T : \A k \in T : n <= k
  BY <1>1, Least
<1>3. PICK x \in X \ S : height[x] = n
  BY <1>2
<1>4. ASSUME NEW y \in X, height[y] < height[x] PROVE y \in S
  <2>. SUFFICES ASSUME y \notin S PROVE FALSE
    OBVIOUS
  <2>1. height[y] \in T /\ height[y] \in Nat /\ height[x] \in Nat
    OBVIOUS
  <2>2. height[x] <= height[y]
    BY <1>2, <1>3, <2>1
  <2>. QED
    BY <1>4, <2>1, <2>2
<1>. QED
  BY <1>3, <1>4

LEMMA ByRank ==
    ASSUME NEW rank, Ranks(rank), NEW S,
           \A c \in Columns : (\A p \in Columns : rank[p] < rank[c] => p \in S) => c \in S
    PROVE  \A c \in Columns : c \in S
<1>1. \A c \in Columns : rank[c] \in Nat
  BY PropagationAssumption DEF Ranks
<1>. QED
  BY <1>1, ByHeight

\* What a walk that starts at c finds, and what one that starts at each of its
\* branches does.
Reach(D, f, c) == ResolveCllDescription(D, f)[<<{}, c>>]
Tops(D, f, c) == [i \in DOMAIN Row(f, c).from |-> Reach(D, f, Row(f, c).from[i])]

\* A walk goes on above c.
Hops(D, f, c) ==
    \/ Row(f, c).kind = "union" /\ Agree(Tops(D, f, c))
    \/ Crosses(c, Row(f, c))

\* The same answer whatever the walk has visited on the way down, as long as it
\* comes from higher ranks.
LEMMA VisitedIrrelevant ==
    ASSUME NEW rank, Ranks(rank), NEW D, NEW f, NEW c \in Columns,
           NEW v \in SUBSET Columns, IsFiniteSet(v), Cardinality(v) + rank[c] <= MaxDepth,
           \A u \in v : rank[c] < rank[u]
    PROVE  ResolveCllDescription(D, f)[<<v, c>>] = Reach(D, f, c)
<1>. DEFINE W == ResolveCllDescription(D, f)
            Fits(s, d) == /\ IsFiniteSet(s) /\ Cardinality(s) + rank[d] <= MaxDepth
                          /\ \A u \in s : rank[d] < rank[u]
            S == {d \in Columns : \A s \in SUBSET Columns : Fits(s, d) => W[<<s, d>>] = W[<<{}, d>>]}
<1>1. \A d \in Columns : rank[d] \in Nat /\ rank[d] <= MaxDepth
  BY PropagationAssumption DEF Ranks
<1>2. MaxDepth \in Nat /\ IsFiniteSet({}) /\ Cardinality({}) = 0
  BY PropagationAssumption, FS_EmptySet
<1>3. \A call \in Calls : W[call] = Answer(D, f, call[1], call[2], Branches(f, W, call))
  BY WalkDefined DEF ShallowLineage, Ranks
<1>. HIDE DEF W
<1>4. ASSUME NEW s \in SUBSET Columns, NEW d \in Columns
      PROVE  W[<<s, d>>] = Answer(D, f, s, d, [i \in DOMAIN Row(f, d).from |->
                                                W[<<s \cup {d}, Row(f, d).from[i]>>]])
  <2>1. PICK call : call = <<s, d>>
    OBVIOUS
  <2>2. call \in Calls /\ call[1] = s /\ call[2] = d
    BY <2>1 DEF Calls
  <2>3. Branches(f, W, call) = [i \in DOMAIN Row(f, d).from |-> W[<<s \cup {d}, Row(f, d).from[i]>>]]
    BY <2>2 DEF Branches
  <2>. QED
    BY <1>3, <2>1, <2>2, <2>3
<1>5. ASSUME NEW o \in Outside, NEW s \in SUBSET Columns PROVE W[<<s, o>>] = Nothing
  <2>1. PICK call : call = <<s, o>>
    OBVIOUS
  <2>2. call \in Calls /\ call[2] = o
    BY <2>1 DEF Calls
  <2>3. Answer(D, f, call[1], call[2], Branches(f, W, call)) = Nothing
    BY <2>2, AnswerOutside
  <2>. QED
    BY <1>3, <2>1, <2>2, <2>3
<1>6. ASSUME NEW d \in Columns, \A p \in Columns : rank[p] < rank[d] => p \in S
      PROVE  d \in S
  <2>1. ASSUME NEW s \in SUBSET Columns, Fits(s, d), NEW i \in DOMAIN Row(f, d).from
        PROVE  W[<<s \cup {d}, Row(f, d).from[i]>>] = W[<<{}, Row(f, d).from[i]>>]
    <3>1. PICK p \in Columns \cup Outside : p = Row(f, d).from[i]
      BY RowFacts
    <3>2. CASE p \in Outside
      BY <1>5, <3>1, <3>2
    <3>3. CASE p \in Columns
      <4>1. rank[p] < rank[d]
        BY <3>1, <3>3, RowFacts
      <4>2. d \notin s
        BY <2>1, <1>1
      <4>3. IsFiniteSet(s \cup {d}) /\ Cardinality(s \cup {d}) = Cardinality(s) + 1
        BY <2>1, <4>2, FS_AddElement
      <4>4. Cardinality(s) \in Nat
        BY <2>1, FS_CardinalityType
      <4>5. rank[p] \in Nat /\ rank[d] \in Nat
        BY <1>1, <3>3
      <4>6. Cardinality(s \cup {d}) + rank[p] <= MaxDepth
        BY <1>2, <2>1, <4>1, <4>3, <4>4, <4>5
      <4>7. \A u \in s \cup {d} : rank[p] < rank[u]
        <5>1. \A u \in s : rank[u] \in Nat /\ rank[d] < rank[u]
          BY <1>1, <2>1
        <5>. QED
          BY <4>1, <4>5, <5>1
      <4>8. p \in S /\ s \cup {d} \in SUBSET Columns
        BY <1>6, <3>3, <4>1
      <4>9. W[<<s \cup {d}, p>>] = W[<<{}, p>>]
        BY <4>3, <4>6, <4>7, <4>8
      <4>. QED
        BY <3>1, <4>9
    <3>. QED
      BY <3>2, <3>3
  <2>. DEFINE tops == [i \in DOMAIN Row(f, d).from |-> W[<<{}, Row(f, d).from[i]>>]]
  <2>2. ASSUME NEW s \in SUBSET Columns, Fits(s, d) PROVE W[<<s, d>>] = Answer(D, f, s, d, tops)
    <3>1. [i \in DOMAIN Row(f, d).from |-> W[<<s \cup {d}, Row(f, d).from[i]>>]] = tops
      BY <2>1, <2>2
    <3>. QED
      BY <1>4, <3>1
  <2>. HIDE DEF tops
  <2>3. ASSUME NEW s \in SUBSET Columns, Fits(s, d)
        PROVE  Answer(D, f, s, d, tops) = Answer(D, f, {}, d, tops)
    <3>1. d \notin s /\ Cardinality(s) <= MaxDepth
      BY <1>1, <1>2, <2>3, FS_CardinalityType
    <3>2. ~(Cardinality(s) > MaxDepth) /\ ~(Cardinality({}) > MaxDepth)
      BY <1>2, <2>3, <3>1, FS_CardinalityType
    <3>3. d \in s \cup Outside <=> d \in {} \cup Outside
      BY <3>1
    <3>. QED
      BY <3>2, <3>3 DEF Answer
  <2>4. Fits({}, d)
    BY <1>1, <1>2
  <2>. QED
    BY <2>2, <2>3, <2>4
<1>. HIDE DEF S
<1>7. \A d \in Columns : d \in S
  BY <1>6, ByRank
<1>. QED
  BY <1>7 DEF S, W, Reach

\* A walk that starts outside the project finds nothing.
LEMMA ReachOutside ==
    ASSUME ShallowLineage, NEW D, NEW f, NEW o \in Outside
    PROVE  Reach(D, f, o) = Nothing
<1>1. PICK call : call = <<{}, o>>
  OBVIOUS
<1>2. call \in Calls /\ call[2] = o
  BY <1>1 DEF Calls
<1>. QED
  BY <1>1, <1>2, WalkDefined, AnswerOutside DEF Reach

\* A walk at a column: its own text where the walk ends, and what the column
\* hands down where it goes on.
LEMMA WalkEquation ==
    ASSUME ShallowLineage, NEW D, NEW f, NEW c \in Columns
    PROVE  Reach(D, f, c) =
             IF c[1] \notin Sources /\ Hops(D, f, c)
             THEN PassThrough(D, c, Upstream(D, f, c)) ELSE Here(D, c)
<1>1. PICK rank \in [Columns -> 0..MaxDepth] : Ranks(rank)
  BY DEF ShallowLineage
<1>. DEFINE W == ResolveCllDescription(D, f)
            row == Row(f, c)
            tops == [i \in DOMAIN row.from |-> W[<<{}, row.from[i]>>]]
<1>2. PICK call : call = <<{}, c>>
  OBVIOUS
<1>3. call \in Calls /\ call[1] = {} /\ call[2] = c
  BY <1>2 DEF Calls
<1>4. W[call] = Answer(D, f, {}, c, Branches(f, W, call))
  <2>1. W[call] = Answer(D, f, call[1], call[2], Branches(f, W, call))
    BY <1>3, WalkDefined
  <2>. HIDE DEF W
  <2>. QED
    BY <2>1, <1>3
<1>5. ASSUME NEW i \in DOMAIN row.from
      PROVE  W[<<{} \cup {c}, row.from[i]>>] = W[<<{}, row.from[i]>>]
  <2>1. PICK p \in Columns \cup Outside : p = row.from[i]
    BY RowFacts
  <2>2. CASE p \in Outside
    <3>1. PICK there : there = <<{} \cup {c}, p>>
      OBVIOUS
    <3>2. there \in Calls /\ there[2] = p
      BY <3>1 DEF Calls
    <3>3. W[there] = Nothing
      BY <2>2, <3>2, WalkDefined, AnswerOutside
    <3>. QED
      BY <2>1, <2>2, <3>1, <3>3, ReachOutside DEF Reach
  <2>3. CASE p \in Columns
    <3>1. rank[p] < rank[c] /\ rank[c] <= MaxDepth /\ rank[p] \in Nat /\ rank[c] \in Nat /\ MaxDepth \in Nat
      BY <1>1, <2>1, <2>3, RowFacts, PropagationAssumption
    <3>2. IsFiniteSet({} \cup {c}) /\ Cardinality({} \cup {c}) = 1
      BY FS_EmptySet, FS_AddElement
    <3>3. Cardinality({} \cup {c}) + rank[p] <= MaxDepth /\ {} \cup {c} \in SUBSET Columns
      BY <3>1, <3>2
    <3>4. \A u \in {} \cup {c} : rank[p] < rank[u]
      BY <3>1
    <3>5. W[<<{} \cup {c}, p>>] = Reach(D, f, p)
      BY <1>1, <2>3, <3>2, <3>3, <3>4, VisitedIrrelevant
    <3>. QED
      BY <2>1, <3>5 DEF Reach
  <2>. QED
    BY <2>2, <2>3
<1>6. Branches(f, W, call) = tops
  BY <1>3, <1>5 DEF Branches
<1>7. tops = Tops(D, f, c) /\ W[call] = Reach(D, f, c)
  BY <1>2 DEF Tops, Reach
<1>8. c \notin {} \cup Outside /\ ~(Cardinality({}) > MaxDepth)
  BY PropagationAssumption, FS_EmptySet
<1>9. Upstream(D, f, c) = IF row.kind = "union" /\ Agree(tops)
                          THEN [text |-> First(tops).text, origin |-> Nowhere]
                          ELSE IF Crosses(c, row) THEN tops[1] ELSE Nothing
  BY DEF Upstream
<1>10. Reach(D, f, c) = Answer(D, f, {}, c, tops)
  BY <1>4, <1>6, <1>7
<1>. DEFINE hops == (row.kind = "union" /\ Agree(tops)) \/ Crosses(c, row)
<1>11. Hops(D, f, c) <=> hops
  BY <1>7 DEF Hops
<1>. HIDE DEF tops
<1>. QED
  BY <1>8, <1>9, <1>10, <1>11 DEF Answer

\* Upstream is a function of what the branches find, and nothing where the walk ends.
LEMMA UpstreamOfTops ==
    ASSUME NEW D, NEW f, NEW c
    PROVE  /\ Upstream(D, f, c) =
                IF Row(f, c).kind = "union" /\ Agree(Tops(D, f, c))
                THEN [text |-> First(Tops(D, f, c)).text, origin |-> Nowhere]
                ELSE IF Crosses(c, Row(f, c)) THEN Tops(D, f, c)[1] ELSE Nothing
           /\ ~Hops(D, f, c) => Upstream(D, f, c) = Nothing
<1>. DEFINE tops == [i \in DOMAIN Row(f, c).from |->
                       ResolveCllDescription(D, f)[<<{}, Row(f, c).from[i]>>]]
<1>1. tops = Tops(D, f, c)
  BY DEF Tops, Reach
<1>2. Upstream(D, f, c) = IF Row(f, c).kind = "union" /\ Agree(tops)
                          THEN [text |-> First(tops).text, origin |-> Nowhere]
                          ELSE IF Crosses(c, Row(f, c)) THEN tops[1] ELSE Nothing
  BY DEF Upstream
<1>. HIDE DEF tops
<1>. QED
  BY <1>1, <1>2 DEF Hops

LEMMA TopFacts ==
    ASSUME NEW D, NEW f, NEW c \in Columns
    PROVE  /\ DOMAIN Tops(D, f, c) \subseteq Nat
           /\ DOMAIN Tops(D, f, c) = DOMAIN Row(f, c).from
           /\ \A i \in DOMAIN Tops(D, f, c) : Tops(D, f, c)[i] = Reach(D, f, Row(f, c).from[i])
           /\ Row(f, c).kind = "single" => 1 \in DOMAIN Tops(D, f, c)
<1>1. DOMAIN Tops(D, f, c) = DOMAIN Row(f, c).from
  BY DEF Tops
<1>2. \A s \in Seq(Columns \cup Outside) : DOMAIN s = 1..Len(s) /\ Len(s) \in Nat
  OBVIOUS
<1>3. Row(f, c).from \in Seq(Columns \cup Outside)
  BY RowFacts
<1>4. Row(f, c).kind = "single" => 1 \in DOMAIN Row(f, c).from
  <2>1. Row(f, c).kind = "single" => Row(f, c) = Lineage[c]
    BY DEF Row, Untraced
  <2>. QED
    BY <1>2, <1>3, <2>1, PropagationAssumption
<1>. QED
  BY <1>1, <1>2, <1>3, <1>4 DEF Tops

\* Branches that agree have a first one with a text.
LEMMA FirstDescribed ==
    ASSUME NEW branches, DOMAIN branches \subseteq Nat, Agree(branches)
    PROVE  \E i \in DOMAIN branches : First(branches) = branches[i] /\ branches[i].text # Empty
<1>1. Described(branches) # {} /\ Described(branches) \subseteq Nat
  BY DEF Agree, Described
<1>2. PICK i \in Described(branches) : \A j \in Described(branches) : i <= j
  BY <1>1, Least
<1>. DEFINE i0 == CHOOSE k \in Described(branches) : \A j \in Described(branches) : k <= j
<1>3. i0 \in Described(branches)
  BY <1>2
<1>4. First(branches) = branches[i0]
  BY DEF First
<1>. HIDE DEF i0
<1>. QED
  BY <1>3, <1>4 DEF Described

\* An answer of the right type, whose origin holds the text it names.
Truthful(D, up) ==
    /\ up \in Resolutions
    /\ up.origin # Nowhere => up.origin \in Columns /\ D[up.origin].text = up.text

LEMMA HereTruthful ==
    ASSUME NEW D \in [Columns -> States], NEW c \in Columns
    PROVE  Truthful(D, Here(D, c)) /\ Truthful(D, Nothing)
<1>1. Nothing \in Resolutions /\ Nothing.origin = Nowhere
  BY DEF Nothing, Resolutions
<1>2. D[c] \in States /\ Nowhere \notin Columns
  BY PropagationAssumption
<1>3. Own(D, c) \in Texts \cup {Empty}
  BY <1>2 DEF Own, States, Descriptions
<1>4. CASE Own(D, c) = Empty
  BY <1>1, <1>4 DEF Here, Truthful
<1>5. CASE Own(D, c) # Empty
  <2>1. Here(D, c) = [text |-> Own(D, c), origin |-> c] /\ Own(D, c) = D[c].text
    BY <1>5 DEF Here, Own
  <2>. QED
    BY <1>1, <1>3, <2>1 DEF Truthful, Resolutions
<1>. QED
  BY <1>4, <1>5

LEMMA UpstreamTruthful ==
    ASSUME NEW D \in [Columns -> States], NEW f, NEW c \in Columns,
           \A i \in DOMAIN Tops(D, f, c) : Truthful(D, Tops(D, f, c)[i])
    PROVE  Truthful(D, Upstream(D, f, c))
<1>1. CASE Row(f, c).kind = "union" /\ Agree(Tops(D, f, c))
  <2>1. PICK i \in DOMAIN Tops(D, f, c) : First(Tops(D, f, c)) = Tops(D, f, c)[i]
    BY <1>1, TopFacts, FirstDescribed
  <2>2. Upstream(D, f, c) = [text |-> Tops(D, f, c)[i].text, origin |-> Nowhere]
    BY <1>1, <2>1, UpstreamOfTops
  <2>3. Tops(D, f, c)[i].text \in Texts \cup {Empty}
    BY DEF Truthful, Resolutions
  <2>. QED
    BY <2>2, <2>3 DEF Truthful, Resolutions
<1>2. CASE ~(Row(f, c).kind = "union" /\ Agree(Tops(D, f, c))) /\ Crosses(c, Row(f, c))
  <2>1. Upstream(D, f, c) = Tops(D, f, c)[1]
    BY <1>2, UpstreamOfTops
  <2>2. 1 \in DOMAIN Tops(D, f, c)
    BY <1>2, TopFacts DEF Crosses
  <2>. QED
    BY <2>1, <2>2
<1>3. CASE ~(Row(f, c).kind = "union" /\ Agree(Tops(D, f, c))) /\ ~Crosses(c, Row(f, c))
  <2>1. Upstream(D, f, c) = Nothing
    BY <1>3, UpstreamOfTops
  <2>. QED
    BY <2>1, HereTruthful
<1>. QED
  BY <1>1, <1>2, <1>3

\* Every walk answers a text of the project or none, and the column it names as
\* the origin has that text.
LEMMA WalksTruthful ==
    ASSUME ShallowLineage, NEW D \in [Columns -> States], NEW f
    PROVE  /\ \A c \in Columns \cup Outside : Truthful(D, Reach(D, f, c))
           /\ \A c \in Columns : Truthful(D, Upstream(D, f, c))
<1>1. PICK rank \in [Columns -> 0..MaxDepth] : Ranks(rank)
  BY DEF ShallowLineage
<1>. DEFINE S == {c \in Columns : Truthful(D, Reach(D, f, c))}
<1>2. ASSUME NEW c \in Columns,
             \A p \in Columns : rank[p] < rank[c] => p \in S
      PROVE  \A i \in DOMAIN Tops(D, f, c) : Truthful(D, Tops(D, f, c)[i])
  <2>1. ASSUME NEW i \in DOMAIN Tops(D, f, c) PROVE Truthful(D, Tops(D, f, c)[i])
    <3>1. i \in DOMAIN Row(f, c).from
      BY TopFacts
    <3>2. PICK p \in Columns \cup Outside : p = Row(f, c).from[i]
      BY <3>1, RowFacts
    <3>3. Tops(D, f, c)[i] = Reach(D, f, p)
      BY <3>2, TopFacts
    <3>4. CASE p \in Outside
      BY <3>3, <3>4, ReachOutside, HereTruthful
    <3>5. CASE p \in Columns
      <4>1. rank[p] < rank[c]
        BY <1>1, <3>1, <3>2, <3>5, RowFacts
      <4>. QED
        BY <1>2, <3>3, <3>5, <4>1
    <3>. QED
      BY <3>4, <3>5
  <2>. QED
    BY <2>1
<1>3. ASSUME NEW c \in Columns, \A p \in Columns : rank[p] < rank[c] => p \in S
      PROVE  c \in S
  <2>1. Truthful(D, Upstream(D, f, c)) /\ Truthful(D, Here(D, c))
    BY <1>2, <1>3, UpstreamTruthful, HereTruthful
  <2>2. Reach(D, f, c) \in {Upstream(D, f, c), Here(D, c)}
    BY WalkEquation DEF PassThrough
  <2>3. Truthful(D, Reach(D, f, c))
    BY <2>1, <2>2
  <2>. QED
    BY <2>3
<1>. HIDE DEF S
<1>4. \A c \in Columns : c \in S
  BY <1>1, <1>3, ByRank
<1>5. \A c \in Columns : Truthful(D, Reach(D, f, c))
  BY <1>4 DEF S
<1>6. \A c \in Outside : Truthful(D, Reach(D, f, c))
  <2>1. \A c \in Columns : Truthful(D, Nothing)
    BY HereTruthful
  <2>2. Truthful(D, Nothing)
    BY DEF Truthful, Nothing, Resolutions
  <2>. QED
    BY <2>2, ReachOutside
<1>7. \A c \in Columns : Truthful(D, Upstream(D, f, c))
  BY <1>2, <1>4, UpstreamTruthful
<1>. QED
  BY <1>5, <1>6, <1>7

\* Two states of the columns in which c hands down the same: the same text of
\* its own where the walk ends, and otherwise the same under what is above it.
Alike(D, E, f, c) ==
    IF c[1] \notin Sources /\ Hops(D, f, c)
    THEN PassThrough(E, c, Upstream(D, f, c)) = PassThrough(D, c, Upstream(D, f, c))
    ELSE Here(E, c) = Here(D, c)

\* Columns to which descriptions come from such columns only, or from outside
\* the project.
ClosedUp(C, f) ==
    /\ C \subseteq Columns
    /\ \A c \in C : Carries(f, c) =>
          \A i \in DOMAIN Row(f, c).from : Row(f, c).from[i] \in C \cup Outside

\* A walk finds the same in two states that are alike on all it can come to.
LEMMA WalkStable ==
    ASSUME ShallowLineage, NEW D, NEW E, NEW f, NEW C, ClosedUp(C, f),
           \A c \in C : Alike(D, E, f, c)
    PROVE  \A c \in C : /\ Reach(E, f, c) = Reach(D, f, c)
                        /\ Upstream(E, f, c) = Upstream(D, f, c)
<1>1. PICK rank \in [Columns -> 0..MaxDepth] : Ranks(rank)
  BY DEF ShallowLineage
<1>. DEFINE S == {c \in Columns : c \in C => Reach(E, f, c) = Reach(D, f, c)}
<1>2. ASSUME NEW c \in C, Carries(f, c), \A p \in Columns : rank[p] < rank[c] => p \in S
      PROVE  Tops(E, f, c) = Tops(D, f, c)
  <2>1. ASSUME NEW i \in DOMAIN Row(f, c).from
        PROVE  Reach(E, f, Row(f, c).from[i]) = Reach(D, f, Row(f, c).from[i])
    <3>1. PICK p \in C \cup Outside : p = Row(f, c).from[i]
      BY <1>2 DEF ClosedUp
    <3>2. CASE p \in Outside
      BY <3>1, <3>2, ReachOutside
    <3>3. CASE p \in C
      <4>1. c \in Columns /\ p \in Columns
        BY <3>3 DEF ClosedUp
      <4>2. rank[p] < rank[c]
        BY <1>1, <3>1, <4>1, RowFacts
      <4>. QED
        BY <1>2, <3>1, <3>3, <4>1, <4>2
    <3>. QED
      BY <3>2, <3>3
  <2>. QED
    BY <2>1 DEF Tops
<1>3. ASSUME NEW c \in C, Carries(f, c) => Tops(E, f, c) = Tops(D, f, c)
      PROVE  /\ Upstream(E, f, c) = Upstream(D, f, c)
             /\ Hops(E, f, c) <=> Hops(D, f, c)
  BY <1>3, UpstreamOfTops DEF Hops, Carries
<1>4. ASSUME NEW c \in Columns, \A p \in Columns : rank[p] < rank[c] => p \in S
      PROVE  c \in S
  <2>1. ASSUME c \in C PROVE Reach(E, f, c) = Reach(D, f, c)
    <3>1. Upstream(E, f, c) = Upstream(D, f, c) /\ (Hops(E, f, c) <=> Hops(D, f, c))
      BY <1>2, <1>3, <1>4, <2>1
    <3>2. Alike(D, E, f, c)
      BY <2>1
    <3>. QED
      BY <3>1, <3>2, WalkEquation DEF Alike
  <2>. QED
    BY <2>1
<1>. HIDE DEF S
<1>5. \A c \in Columns : c \in S
  BY <1>1, <1>4, ByRank
<1>6. ASSUME NEW c \in C
      PROVE  /\ Reach(E, f, c) = Reach(D, f, c)
             /\ Upstream(E, f, c) = Upstream(D, f, c)
  <2>1. c \in Columns
    BY DEF ClosedUp
  <2>2. Carries(f, c) => Tops(E, f, c) = Tops(D, f, c)
    BY <1>2, <1>5
  <2>. QED
    BY <1>3, <1>5, <2>1, <2>2 DEF S
<1>. QED
  BY <1>6

-----------------------------------------------------------------------------
(* Type correctness *)

LEMMA InheritedTyped ==
    ASSUME NEW D \in [Columns -> States], NEW f, NEW c \in Columns, NEW up \in Resolutions
    PROVE  Inherited(D, f, c, up) \in States
<1>1. /\ D[c].text \in Descriptions /\ D[c].tagged \in BOOLEAN
      /\ D[c].owner \in Owners /\ D[c].labels \subseteq Labels
  BY DEF States
<1>2. up.text \in Descriptions
  BY DEF Resolutions, Descriptions
<1>3. InheritedText(D, c, up) \in Descriptions
  BY <1>1, <1>2 DEF InheritedText
<1>4. (D[c].tagged /\ ~Writes(D, c, up)) \in BOOLEAN
  BY <1>1
<1>5. (IF Injects(D, c, up) THEN "upstream" ELSE D[c].owner) \in Owners
  BY <1>1 DEF Owners
<1>6. InheritedLabels(D, f, c) \subseteq Labels
  <2>. DEFINE progenitor == {Row(f, c).from[i] : i \in DOMAIN Row(f, c).from} \cap Columns
  <2>1. InheritedLabels(D, f, c) = D[c].labels \cup
          (IF Row(f, c).kind = "single" THEN UNION {D[p].labels : p \in progenitor} ELSE {})
    BY DEF InheritedLabels
  <2>2. \A p \in progenitor : D[p].labels \subseteq Labels
    BY DEF States
  <2>. HIDE DEF progenitor
  <2>. QED
    BY <1>1, <2>1, <2>2
<1>. QED
  BY <1>3, <1>4, <1>5, <1>6 DEF Inherited, States

\* What annotating makes of a text: the text, or nothing of a placeholder.
LEMMA AnnotatedTraceTyped ==
    ASSUME NEW f, NEW c, NEW text
    PROVE  /\ AnnotatedTrace(f, c, text).text \in {text, NoPlaceholder(text)}
           /\ AnnotatedTrace(f, c, text).tagged \in BOOLEAN
<1>. DEFINE row == Row(f, c)
            deep == ColumnOrigin(f)[0, c]
            origin == IF deep = Lost THEN [at |-> row.from[1], computed |-> FALSE] ELSE deep
            annotates == Mode[c[1]] # "never"
            elsewhere == annotates /\ (origin.computed \/ origin.at[2] # c[2] \/ Mode[c[1]] = "always")
            computedHere == [text |-> IF annotates THEN NoPlaceholder(text) ELSE text,
                             tagged |-> annotates]
            ownOrigin == [text |-> text, tagged |-> FALSE]
            traced == [text |-> NoPlaceholder(text), tagged |-> elsewhere]
<1>1. AnnotatedTrace(f, c, text) = (IF row.kind \in {"union", "wall"} THEN computedHere
                                    ELSE IF origin.at[1] = c[1] THEN ownOrigin ELSE traced)
  BY DEF AnnotatedTrace
<1>2. annotates \in BOOLEAN /\ elsewhere \in BOOLEAN
  OBVIOUS
<1>3. /\ computedHere.text \in {text, NoPlaceholder(text)} /\ computedHere.tagged = annotates
      /\ ownOrigin.text = text /\ ownOrigin.tagged = FALSE
      /\ traced.text = NoPlaceholder(text) /\ traced.tagged = elsewhere
  BY DEF NoPlaceholder
<1>. HIDE DEF row, origin, computedHere, ownOrigin, traced, annotates, elsewhere
<1>. QED
  BY <1>1, <1>2, <1>3

LEMMA AnnotatedTyped ==
    ASSUME NEW D \in [Columns -> States], NEW f, NEW c \in Columns
    PROVE  Annotated(D, f, c) \in States
<1>. DEFINE a == AnnotatedTrace(f, c, D[c].text)
<1>1. D[c] \in States
  OBVIOUS
<1>2. Glossary[c] \in Texts \cup {Empty} /\ Texts \cup {Empty} \subseteq Descriptions
  BY PropagationAssumption DEF Descriptions
<1>3. \A t \in Descriptions : NoPlaceholder(t) \in Descriptions
  BY DEF NoPlaceholder, Descriptions
<1>4. a.text \in Descriptions /\ a.tagged \in BOOLEAN
  BY <1>1, <1>3, AnnotatedTraceTyped DEF States
<1>5. \/ Annotated(D, f, c) = [D[c] EXCEPT !.text = Glossary[c], !.tagged = FALSE, !.owner = "unset"]
      \/ Annotated(D, f, c) = [D[c] EXCEPT !.text = NoPlaceholder(@), !.tagged = FALSE, !.owner = "unset"]
      \/ Annotated(D, f, c) = [D[c] EXCEPT !.text = a.text, !.tagged = a.tagged]
  BY DEF Annotated
<1>. HIDE DEF a
<1>. QED
  BY <1>1, <1>2, <1>3, <1>4, <1>5 DEF States, Owners

LEMMA InitTyped == Init => TypeOK
<1>. SUFFICES ASSUME Init PROVE TypeOK
  OBVIOUS
<1>1. PICK source \in [ColumnsOf(Sources) -> SourceTexts] :
        saved = [c \in Columns |->
            [text |-> IF c[1] \in Sources THEN source[c] ELSE Anchored[c],
             tagged |-> FALSE,
             owner |-> IF c[1] \in Sources \/ Anchored[c] = Empty THEN "unset" ELSE "anchor",
             labels |-> InitialLabels[c]]]
  BY DEF Init
<1>2. ASSUME NEW c \in Columns
      PROVE  [text |-> IF c[1] \in Sources THEN source[c] ELSE Anchored[c],
              tagged |-> FALSE,
              owner |-> IF c[1] \in Sources \/ Anchored[c] = Empty THEN "unset" ELSE "anchor",
              labels |-> InitialLabels[c]] \in States
  <2>1. c[1] \in Sources => source[c] \in Texts \cup {Empty}
    BY PropagationAssumption DEF ColumnsOf
  <2>2. Anchored[c] \in Texts \cup {Empty} /\ InitialLabels[c] \in SUBSET Labels
    BY PropagationAssumption
  <2>3. (IF c[1] \in Sources THEN source[c] ELSE Anchored[c]) \in Descriptions
    BY <2>1, <2>2 DEF Descriptions
  <2>4. (IF c[1] \in Sources \/ Anchored[c] = Empty THEN "unset" ELSE "anchor") \in Owners
    BY DEF Owners
  <2>. QED
    BY <2>2, <2>3, <2>4 DEF States
<1>3. saved \in [Columns -> States] /\ columns \in [Columns -> States]
  BY <1>1, <1>2 DEF Init
<1>4. authored \in [Columns -> Texts \cup {Empty}]
  <2>1. authored = [c \in Columns |-> IF c[1] \in Sources THEN Empty ELSE Anchored[c]]
    BY DEF Init
  <2>2. \A c \in Columns : (IF c[1] \in Sources THEN Empty ELSE Anchored[c]) \in Texts \cup {Empty}
    BY PropagationAssumption
  <2>. QED
    BY <2>1, <2>2
<1>5. resolved \in [Columns -> Resolutions \cup {Unresolved}]
  BY DEF Init, Untouched
<1>. QED
  BY <1>3, <1>4, <1>5, PropagationAssumption DEF Init, TypeOK

LEMMA NextTyped == ASSUME ShallowLineage PROVE TypeOK /\ [Next]_vars => TypeOK'
<1>. SUFFICES ASSUME TypeOK, [Next]_vars PROVE TypeOK'
  OBVIOUS
<1>. USE DEF TypeOK
<1>b. MaxEdits \in Nat /\ MaxFailures \in Nat /\ edits \in Nat /\ failures \in Nat
  BY PropagationAssumption
<1>u. Untouched \in [Columns -> Resolutions \cup {Unresolved}]
  BY DEF Untouched
<1>1. ASSUME NEW c \in Columns, NEW state \in States, Edit(c, state) PROVE TypeOK'
  <2>1. saved' = [saved EXCEPT ![c] = state] /\ columns' = saved'
    BY <1>1 DEF Edit
  <2>2. saved' \in [Columns -> States] /\ columns' \in [Columns -> States]
    BY <2>1
  <2>3. authored' \in [Columns -> Texts \cup {Empty}]
    <3>1. PICK t : t = IF state.owner = "anchor" /\ state.text \in Texts THEN state.text ELSE Empty
      OBVIOUS
    <3>2. t \in Texts \cup {Empty} /\ authored' = [authored EXCEPT ![c] = t]
      BY <1>1, <3>1 DEF Edit
    <3>. QED
      BY <3>2
  <2>4. edits' \in 0..MaxEdits
    BY <1>1, <1>b DEF Edit, MayEdit
  <2>5. UNCHANGED <<phase, scope, failed, pending, resolved, failures>> /\ fresh' = {}
    BY <1>1 DEF Edit
  <2>. QED
    BY <2>2, <2>3, <2>4, <2>5
<1>2. ASSUME NEW c \in Edited, NEW t \in Descriptions, Describe(c, t) PROVE TypeOK'
  <2>1. c \in Columns /\ saved[c] \in States
    BY PropagationAssumption
  <2>2. PICK q : q = [saved[c] EXCEPT !.text = t, !.tagged = FALSE]
    OBVIOUS
  <2>3. q \in States
    BY <2>1, <2>2 DEF States
  <2>4. Edit(c, q)
    BY <1>2, <2>2 DEF Describe
  <2>. QED
    BY <1>1, <2>1, <2>3, <2>4
<1>3. ASSUME NEW c \in Edited, NEW o \in Owners, SetOwner(c, o) PROVE TypeOK'
  <2>1. c \in Columns /\ saved[c] \in States
    BY PropagationAssumption
  <2>2. PICK q : q = [saved[c] EXCEPT !.owner = o]
    OBVIOUS
  <2>3. q \in States
    BY <2>1, <2>2 DEF States
  <2>4. Edit(c, q)
    BY <1>3, <2>2 DEF SetOwner
  <2>. QED
    BY <1>1, <2>1, <2>3, <2>4
<1>4. ASSUME NEW s \in Scopes, NEW f, f \subseteq Models, StartRun(s, f) PROVE TypeOK'
  <2>1. /\ phase' = "inherit" /\ scope' = s /\ failed' = f /\ pending' = ColumnsOf(s \ Sources)
        /\ UNCHANGED <<saved, columns, resolved, fresh, authored, edits>>
    BY <1>4 DEF StartRun
  <2>2. s \subseteq Models /\ ColumnsOf(s \ Sources) \subseteq Columns
    BY PropagationAssumption DEF ColumnsOf
  <2>3. failures' \in 0..MaxFailures
    <3>1. CASE f = {}
      BY <1>4, <1>b, <3>1 DEF StartRun
    <3>2. CASE f # {}
      BY <1>4, <1>b, <3>2 DEF StartRun
    <3>. QED
      BY <3>1, <3>2
  <2>. QED
    BY <1>4, <2>1, <2>2, <2>3
<1>5. ASSUME NEW c \in Columns, Resolve(c) PROVE TypeOK'
  <2>1. Upstream(columns, failed, c) \in Resolutions
    BY WalksTruthful DEF Truthful
  <2>2. PICK up : up = Upstream(columns, failed, c)
    OBVIOUS
  <2>3. resolved' = [resolved EXCEPT ![c] = up]
    BY <1>5, <2>2 DEF Resolve
  <2>4. resolved' \in [Columns -> Resolutions \cup {Unresolved}]
    BY <2>1, <2>2, <2>3
  <2>5. /\ pending' \subseteq Columns
        /\ UNCHANGED <<saved, columns, phase, scope, failed, fresh, authored, edits, failures>>
    BY <1>5 DEF Resolve
  <2>. QED
    BY <2>4, <2>5
<1>6. ASSUME NEW c \in Columns, Apply(c) PROVE TypeOK'
  <2>1. resolved[c] \in Resolutions
    BY <1>6 DEF Apply, InFlight
  <2>2. PICK new : new = Inherited(columns, failed, c, resolved[c])
    OBVIOUS
  <2>3. new \in States
    BY <2>1, <2>2, InheritedTyped
  <2>4. columns' = [columns EXCEPT ![c] = new] /\ resolved' = [resolved EXCEPT ![c] = Unresolved]
    BY <1>6, <2>2 DEF Apply
  <2>5. columns' \in [Columns -> States] /\ resolved' \in [Columns -> Resolutions \cup {Unresolved}]
    BY <2>3, <2>4
  <2>6. UNCHANGED <<saved, phase, scope, failed, pending, fresh, authored, edits, failures>>
    BY <1>6 DEF Apply
  <2>. QED
    BY <2>5, <2>6
<1>7. ASSUME NEW m, Annotate(m) PROVE TypeOK'
  <2>1. \A c \in Columns : Annotated(columns, failed, c) \in States /\ columns[c] \in States
    BY AnnotatedTyped
  <2>2. columns' = [c \in Columns |-> IF c \in ColumnsOf({m}) THEN Annotated(columns, failed, c)
                                      ELSE columns[c]]
    BY <1>7 DEF Annotate
  <2>3. columns' \in [Columns -> States]
    BY <2>1, <2>2
  <2>4. /\ pending' \subseteq Columns
        /\ UNCHANGED <<saved, phase, scope, failed, resolved, fresh, authored, edits, failures>>
    BY <1>7 DEF Annotate
  <2>. QED
    BY <2>3, <2>4
<1>8. ASSUME StartAnnotating \/ StartCommitting PROVE TypeOK'
  <2>1. pending' \subseteq Columns
    BY <1>8 DEF StartAnnotating, StartCommitting, ColumnsOf
  <2>. QED
    BY <1>8, <2>1 DEF StartAnnotating, StartCommitting
<1>9. ASSUME NEW written, EndRun(written), fresh' \subseteq Models, failures' \in 0..MaxFailures
      PROVE  TypeOK'
  <2>1. saved' = [c \in Columns |-> IF c[1] \in written THEN columns[c] ELSE saved[c]]
        /\ columns' = saved'
    BY <1>9 DEF EndRun
  <2>2. saved' \in [Columns -> States]
    BY <2>1
  <2>3. /\ phase' = "idle" /\ scope' = {} /\ failed' = {} /\ pending' = {}
        /\ resolved' = Untouched /\ UNCHANGED <<authored, edits>>
    BY <1>9 DEF EndRun
  <2>. QED
    BY <1>9, <1>u, <2>1, <2>2, <2>3
<1>10. CASE UNCHANGED vars
  BY <1>10 DEF vars, runVars
<1>11. CASE Step
  <2>1. ASSUME Commit PROVE TypeOK'
    BY <2>1, <1>9 DEF Commit
  <2>. QED
    BY <1>11, <2>1, <1>5, <1>6, <1>7, <1>8 DEF Step
<1>12. CASE CommitFails
  <2>1. PICK m \in scope \cap Unreliable :
          /\ EndRun(scope \ {m})
          /\ fresh' = IF failed = {} THEN fresh \cup (scope \ {m}) ELSE {}
    BY <1>12 DEF CommitFails
  <2>2. failures' \in 0..MaxFailures
    BY <1>12, <1>b DEF CommitFails
  <2>. QED
    BY <2>1, <2>2, <1>9
<1>13. CASE Die
  <2>1. EndRun({}) /\ fresh' = fresh /\ failures' \in 0..MaxFailures
    BY <1>13, <1>b DEF Die
  <2>. QED
    BY <2>1, <1>9
<1>14. ASSUME NEW s \in Scopes, StartRun(s, {}) \/ \E m \in Unreliable : StartRun(s, {m})
       PROVE  TypeOK'
  <2>1. ASSUME NEW m \in Unreliable, StartRun(s, {m}) PROVE TypeOK'
    <3>1. {m} \subseteq Models
      BY PropagationAssumption
    <3>. QED
      BY <1>4, <2>1, <3>1
  <2>2. ASSUME StartRun(s, {}) PROVE TypeOK'
    BY <1>4, <2>2
  <2>. QED
    BY <1>14, <2>1, <2>2
<1>. QED
  BY <1>2, <1>3, <1>10, <1>11, <1>12, <1>13, <1>14 DEF Next

\* The types hold in every project whose lineage has no cycle and no chain
\* longer than cll-max-origin-depth; a walk needs both to be defined.
THEOREM TypesHold == ASSUME ShallowLineage PROVE Spec => []TypeOK
  BY InitTyped, NextTyped, PTL DEF Spec

-----------------------------------------------------------------------------
(* What the passes make of the schema files *)

\* The columns a run handles, and what its inherit pass makes of one of them if
\* no other column is touched.
InScope == ColumnsOf(scope \ Sources)
Expected(c) == Inherited(saved, failed, c, Upstream(saved, failed, c))

Agrees(s, t) == s.text = t.text /\ s.owner = t.owner

\* What annotating leaves of what the inherit pass made; the text of a column
\* of the glossary is the glossary's.
Settled(s, c) ==
    Glossary[c] = Empty =>
        IF Row(failed, c).kind = "untraced"
        THEN s.text = NoPlaceholder(Expected(c).text)
        ELSE /\ s.text \in {Expected(c).text, NoPlaceholder(Expected(c).text)}
             /\ s.owner = Expected(c).owner

\* While columns are handled, one is as the schema files have it until its
\* turn is over; a thread holds what a walk of the schema files finds.
InheritInv ==
    /\ InFlight \subseteq InScope /\ pending \cap InFlight = {}
    /\ \A c \in InFlight : resolved[c] = Upstream(saved, failed, c)
    /\ \A c \in Columns :
         IF c \in InScope \ (pending \cup InFlight)
         THEN Agrees(columns[c], Expected(c)) ELSE columns[c] = saved[c]

AnnotateInv ==
    \A c \in Columns :
       /\ c \notin InScope => columns[c] = saved[c]
       /\ c \in pending => Agrees(columns[c], Expected(c))
       /\ c \in InScope \ pending => Settled(columns[c], c)

PassInv ==
    /\ pending \subseteq InScope
    /\ phase # "inherit" => resolved = Untouched
    /\ phase = "idle" => columns = saved
    /\ phase = "inherit" => InheritInv
    /\ phase \in {"annotate", "commit"} => AnnotateInv
    /\ phase = "commit" => pending = {}

LEMMA NoneInFlight == resolved = Untouched => InFlight = {}
BY DEF Untouched, InFlight

\* What the inherit pass writes depends on the column itself and on its walk.
LEMMA InheritedLocal ==
    ASSUME NEW D, NEW E, NEW f, NEW c, NEW up, D[c] = E[c]
    PROVE  Agrees(Inherited(D, f, c, up), Inherited(E, f, c, up))
<1>1. Authority(D, c) = Authority(E, c)
  BY DEF Authority
<1>2. (Forces(D, c) <=> Forces(E, c)) /\ (Blank(D, c) <=> Blank(E, c))
  BY <1>1 DEF Forces, Blank
<1>3. Writes(D, c, up) <=> Writes(E, c, up)
  BY <1>2 DEF Writes
<1>4. InheritedText(D, c, up) = InheritedText(E, c, up)
  BY <1>3 DEF InheritedText
<1>5. Injects(D, c, up) <=> Injects(E, c, up)
  BY <1>1, <1>2, <1>4 DEF Injects
<1>. QED
  BY <1>4, <1>5 DEF Inherited, Agrees

\* A column with the same text and owner hands down the same.
LEMMA AgreeingAlike ==
    ASSUME NEW D, NEW E, NEW f, NEW c, Agrees(E[c], D[c])
    PROVE  Alike(D, E, f, c)
<1>1. Own(E, c) = Own(D, c) /\ Authority(E, c) = Authority(D, c)
  BY DEF Agrees, Own, Authority
<1>2. Here(E, c) = Here(D, c) /\ (Owns(E, c) <=> Owns(D, c))
  BY <1>1 DEF Here, Owns
<1>. QED
  BY <1>1, <1>2 DEF Alike, PassThrough

\* So does one that was given what its walk found: a copy of what is above is
\* passed over, and so is a column that is told to follow its upstream.
LEMMA InheritedAlike ==
    ASSUME NEW D \in [Columns -> States], NEW E, NEW f, NEW c \in Columns, c[1] \notin Sources,
           Truthful(D, Upstream(D, f, c)),
           LET new == Inherited(D, f, c, Upstream(D, f, c))
           IN  /\ E[c].text \in {new.text, NoPlaceholder(new.text)}
               /\ Hops(D, f, c) => E[c].owner = new.owner
    PROVE  Alike(D, E, f, c)
<1>. DEFINE up == Upstream(D, f, c)
<1>1. up.text \in Texts \cup {Empty} /\ up.text # Placeholder
  BY PropagationAssumption DEF Truthful, Resolutions
<1>2. Nothing.text = Empty
  BY DEF Nothing
<1>3. ~Hops(D, f, c) => up = Nothing
  BY UpstreamOfTops
<1>. DEFINE new == Inherited(D, f, c, up)
<1>4. /\ new.text = IF Writes(D, c, up) THEN up.text ELSE D[c].text
      /\ new.owner = IF Injects(D, c, up) THEN "upstream" ELSE D[c].owner
  BY DEF Inherited, InheritedText
<1>5. E[c].text \in {new.text, NoPlaceholder(new.text)} /\ (Hops(D, f, c) => E[c].owner = new.owner)
  OBVIOUS
<1>. HIDE DEF new, up
<1>6. Own(E, c) = IF new.text = Placeholder THEN Empty ELSE new.text
  BY <1>5 DEF Own, NoPlaceholder
<1>8. CASE ~Hops(D, f, c)
  <2>1. ~Writes(D, c, up)
    BY <1>2, <1>3, <1>8 DEF Writes
  <2>2. Own(E, c) = Own(D, c)
    BY <1>4, <1>6, <2>1 DEF Own
  <2>. QED
    BY <1>8, <2>2 DEF Alike, Here
<1>9. CASE Hops(D, f, c) /\ Writes(D, c, up)
  <2>1. Own(E, c) = up.text /\ up.text # Empty
    BY <1>1, <1>4, <1>6, <1>9 DEF Writes
  <2>2. PassThrough(E, c, up) = up
    BY <2>1 DEF PassThrough, Same
  <2>3. Own(D, c) = Empty \/ ~Owns(D, c)
    BY <1>9 DEF Writes, Forces, Blank, Own, Owns
  <2>4. PassThrough(D, c, up) = up
    BY <2>3 DEF PassThrough
  <2>. QED
    BY <1>9, <2>2, <2>4 DEF Alike, up
<1>10. CASE Hops(D, f, c) /\ ~Writes(D, c, up) /\ Injects(D, c, up)
  <2>1. new.owner = "upstream" /\ D[c].text = up.text
    BY <1>4, <1>10 DEF Injects, InheritedText
  <2>2. ~Owns(E, c)
    BY <1>5, <1>10, <2>1 DEF Owns, Authority
  <2>3. Own(D, c) = up.text
    BY <1>1, <2>1 DEF Own
  <2>4. PassThrough(E, c, up) = up /\ PassThrough(D, c, up) = up
    BY <2>2, <2>3 DEF PassThrough, Same
  <2>. QED
    BY <1>10, <2>4 DEF Alike, up
<1>11. CASE Hops(D, f, c) /\ ~Writes(D, c, up) /\ ~Injects(D, c, up)
  <2>1. new.text = D[c].text /\ E[c].owner = D[c].owner
    BY <1>4, <1>5, <1>11
  <2>2. Own(E, c) = Own(D, c) /\ (Owns(E, c) <=> Owns(D, c))
    BY <1>6, <2>1 DEF Own, Owns, Authority
  <2>3. PassThrough(E, c, up) = PassThrough(D, c, up)
    BY <2>2 DEF PassThrough, Here
  <2>. QED
    BY <1>11, <2>3 DEF Alike, up
<1>. QED
  BY <1>8, <1>9, <1>10, <1>11

\* Every walk of the inherit pass finds what it would find in the schema files.
LEMMA PassStable ==
    ASSUME ShallowLineage, TypeOK, PassInv, phase = "inherit", NEW c \in Columns
    PROVE  Upstream(columns, failed, c) = Upstream(saved, failed, c)
<1>1. saved \in [Columns -> States] /\ ClosedUp(Columns, failed)
  BY RowFacts DEF TypeOK, ClosedUp
<1>2. ASSUME NEW d \in Columns PROVE Alike(saved, columns, failed, d)
  <2>1. CASE d \in InScope \ (pending \cup InFlight)
    <3>1. Agrees(columns[d], Expected(d)) /\ d[1] \notin Sources
      BY <2>1 DEF PassInv, InheritInv, InScope, ColumnsOf
    <3>2. Truthful(saved, Upstream(saved, failed, d))
      BY <1>1, WalksTruthful
    <3>. QED
      BY <1>1, <3>1, <3>2, InheritedAlike DEF Agrees, Expected
  <2>2. CASE d \notin InScope \ (pending \cup InFlight)
    <3>1. columns[d] = saved[d]
      BY <2>2 DEF PassInv, InheritInv
    <3>. QED
      BY <3>1, AgreeingAlike DEF Agrees
  <2>. QED
    BY <2>1, <2>2
<1>. QED
  BY <1>1, <1>2, WalkStable

LEMMA NextPending == ASSUME NEW m, pending # {} PROVE NextOf(m) \in pending
<1>1. \E c \in pending : c[1] = m \/ \A d \in pending : d[1] # m
  OBVIOUS
<1>. QED
  BY <1>1 DEF NextOf

LEMMA InitPass == Init => PassInv
<1>. SUFFICES ASSUME Init PROVE PassInv
  OBVIOUS
<1>. QED
  BY DEF Init, PassInv

LEMMA NextPass ==
    ASSUME ShallowLineage PROVE TypeOK /\ PassInv /\ [Next]_vars => PassInv'
<1>. SUFFICES ASSUME TypeOK, PassInv, [Next]_vars PROVE PassInv'
  OBVIOUS
<1>shape. /\ columns = [d \in Columns |-> columns[d]] /\ resolved = [d \in Columns |-> resolved[d]]
          /\ pending \subseteq Columns
  BY DEF TypeOK
<1>1. ASSUME NEW c, NEW state, Edit(c, state) PROVE PassInv'
  <2>1. /\ phase = "idle" /\ columns' = saved'
        /\ UNCHANGED <<phase, scope, failed, pending, resolved>>
    BY <1>1 DEF Edit, MayEdit
  <2>. QED
    BY <2>1 DEF PassInv, InScope
<1>2. ASSUME NEW c, NEW t, Describe(c, t) \/ SetOwner(c, t) PROVE PassInv'
  BY <1>1, <1>2 DEF Describe, SetOwner
<1>3. ASSUME NEW s, NEW f, StartRun(s, f) PROVE PassInv'
  <2>1. /\ phase = "idle" /\ phase' = "inherit" /\ scope' = s /\ failed' = f
        /\ pending' = ColumnsOf(s \ Sources) /\ UNCHANGED <<saved, columns, resolved>>
    BY <1>3 DEF StartRun
  <2>2. resolved' = Untouched /\ columns' = saved' /\ InScope' = pending'
    BY <2>1 DEF PassInv, InScope
  <2>3. InFlight' = {}
    BY <2>2 DEF InFlight, Untouched
  <2>4. InheritInv'
    BY <2>2, <2>3 DEF InheritInv
  <2>. QED
    BY <2>1, <2>2, <2>4 DEF PassInv
<1>4. ASSUME NEW c \in Columns, Resolve(c) PROVE PassInv'
  <2>1. /\ phase = "inherit" /\ pending # {} /\ c = NextOf(c[1]) /\ pending' = pending \ {c}
        /\ resolved' = [resolved EXCEPT ![c] = Upstream(columns, failed, c)]
        /\ UNCHANGED <<saved, columns, phase, scope, failed>>
        /\ \A d \in InFlight : d[1] # c[1]
    BY <1>4 DEF Resolve
  <2>2. c \in pending
    BY <2>1, NextPending
  <2>3. PICK up : up = Upstream(saved, failed, c)
    OBVIOUS
  <2>4. up = Upstream(columns, failed, c)
    BY <2>1, <2>3, PassStable
  <2>5. up # Unresolved
    <3>1. saved \in [Columns -> States]
      BY DEF TypeOK
    <3>2. Truthful(saved, Upstream(saved, failed, c))
      BY <3>1, WalksTruthful
    <3>. QED
      BY <2>3, <3>2, PropagationAssumption DEF Truthful
  <2>6. \A d \in Columns : resolved'[d] = IF d = c THEN up ELSE resolved[d]
    BY <1>shape, <2>1, <2>4
  <2>7. InFlight' = InFlight \cup {c}
    BY <2>5, <2>6 DEF InFlight
  <2>8. InScope' = InScope /\ \A d \in Columns : Expected(d)' = Expected(d)
    BY <2>1 DEF InScope, Expected
  <2>9. \A d \in InFlight' : resolved'[d] = Upstream(saved, failed, d)'
    BY <2>1, <2>3, <2>6, <2>7 DEF PassInv, InheritInv, InFlight
  <2>10. InFlight' \subseteq InScope' /\ pending' \cap InFlight' = {} /\ pending' \subseteq InScope'
    BY <2>1, <2>2, <2>7, <2>8 DEF PassInv, InheritInv
  <2>11. InScope' \ (pending' \cup InFlight') = InScope \ (pending \cup InFlight)
    BY <2>1, <2>2, <2>7, <2>8
  <2>12. \A d \in Columns :
           IF d \in InScope' \ (pending' \cup InFlight')
           THEN Agrees(columns[d], Expected(d))' ELSE columns'[d] = saved'[d]
    BY <2>1, <2>8, <2>11 DEF PassInv, InheritInv, Agrees
  <2>. QED
    BY <2>1, <2>9, <2>10, <2>12 DEF PassInv, InheritInv
<1>5. ASSUME NEW c \in Columns, Apply(c) PROVE PassInv'
  <2>1. /\ c \in InFlight /\ resolved' = [resolved EXCEPT ![c] = Unresolved]
        /\ UNCHANGED <<saved, phase, scope, failed, pending>>
    BY <1>5 DEF Apply
  <2>2. phase = "inherit"
    BY <2>1, NoneInFlight DEF PassInv
  <2>3. resolved[c] = Upstream(saved, failed, c) /\ columns[c] = saved[c]
    BY <2>1, <2>2 DEF PassInv, InheritInv
  <2>4. PICK new : new = Inherited(columns, failed, c, resolved[c])
    OBVIOUS
  <2>5. Agrees(new, Expected(c))
    BY <2>3, <2>4, InheritedLocal DEF Expected
  <2>6. columns' = [columns EXCEPT ![c] = new]
    BY <1>5, <2>4 DEF Apply
  <2>7. \A d \in Columns : /\ columns'[d] = IF d = c THEN new ELSE columns[d]
                           /\ resolved'[d] = IF d = c THEN Unresolved ELSE resolved[d]
    BY <1>shape, <2>1, <2>6
  <2>8. InFlight' = InFlight \ {c}
    BY <2>7 DEF InFlight
  <2>9. InScope' = InScope /\ \A d \in Columns : Expected(d)' = Expected(d)
    BY <2>1 DEF InScope, Expected
  <2>10. c \in InScope /\ c \notin pending
    BY <2>1, <2>2 DEF PassInv, InheritInv
  <2>11. \A d \in InFlight' : resolved'[d] = Upstream(saved, failed, d)'
    BY <2>1, <2>2, <2>7, <2>8 DEF PassInv, InheritInv, InFlight
  <2>12. InScope' \ (pending' \cup InFlight') = (InScope \ (pending \cup InFlight)) \cup {c}
    BY <2>1, <2>8, <2>9, <2>10
  <2>13. ASSUME NEW d \in Columns
         PROVE  IF d \in InScope' \ (pending' \cup InFlight')
                THEN Agrees(columns[d], Expected(d))' ELSE columns'[d] = saved'[d]
    <3>1. CASE d = c
      BY <2>5, <2>7, <2>9, <2>12, <3>1 DEF Agrees
    <3>2. CASE d # c
      BY <2>1, <2>2, <2>7, <2>9, <2>12, <3>2 DEF PassInv, InheritInv, Agrees
    <3>. QED
      BY <3>1, <3>2
  <2>14. InFlight' \subseteq InScope' /\ pending' \cap InFlight' = {} /\ pending' \subseteq InScope'
    BY <2>1, <2>2, <2>8, <2>9 DEF PassInv, InheritInv
  <2>. QED
    BY <2>1, <2>2, <2>11, <2>13, <2>14 DEF PassInv, InheritInv
<1>6. ASSUME StartAnnotating PROVE PassInv'
  <2>1. /\ phase = "inherit" /\ pending = {} /\ InFlight = {} /\ phase' = "annotate"
        /\ pending' = InScope /\ UNCHANGED <<saved, columns, scope, failed, resolved>>
    BY <1>6 DEF StartAnnotating, InScope
  <2>2. resolved = Untouched
    BY <1>shape, <2>1 DEF InFlight, Untouched
  <2>3. InScope' = InScope /\ \A d \in Columns : Expected(d)' = Expected(d)
    BY <2>1 DEF InScope, Expected
  <2>4. \A d \in Columns : IF d \in InScope THEN Agrees(columns[d], Expected(d)) ELSE columns[d] = saved[d]
    BY <2>1 DEF PassInv, InheritInv
  <2>5. InScope \subseteq Columns
    BY DEF InScope, ColumnsOf
  <2>6. AnnotateInv'
    BY <2>1, <2>3, <2>4, <2>5 DEF AnnotateInv, Agrees
  <2>. QED
    BY <2>1, <2>2, <2>3, <2>6 DEF PassInv
<1>7. ASSUME NEW m, Annotate(m) PROVE PassInv'
  <2>. DEFINE mine == ColumnsOf({m})
  <2>1. /\ phase = "annotate" /\ mine \subseteq pending /\ pending' = pending \ mine
        /\ columns' = [c \in Columns |-> IF c \in mine THEN Annotated(columns, failed, c)
                                         ELSE columns[c]]
        /\ UNCHANGED <<saved, phase, scope, failed, resolved>>
    BY <1>7 DEF Annotate
  <2>. HIDE DEF mine
  <2>2. InScope' = InScope /\ \A d \in Columns : Expected(d)' = Expected(d)
    BY <2>1 DEF InScope, Expected
  <2>3. AnnotateInv
    BY <2>1 DEF PassInv
  <2>4. ASSUME NEW d \in mine PROVE Settled(Annotated(columns, failed, d), d)
    <3>1. d \in pending /\ d \in Columns /\ Agrees(columns[d], Expected(d)) /\ columns[d] \in States
      BY <1>shape, <2>1, <2>3 DEF AnnotateInv, TypeOK
    <3>. DEFINE a == AnnotatedTrace(failed, d, columns[d].text)
    <3>2. a.text \in {columns[d].text, NoPlaceholder(columns[d].text)}
      BY AnnotatedTraceTyped
    <3>3. Glossary[d] = Empty /\ Row(failed, d).kind # "untraced" =>
            Annotated(columns, failed, d) = [columns[d] EXCEPT !.text = a.text, !.tagged = a.tagged]
      BY DEF Annotated
    <3>4. Glossary[d] = Empty /\ Row(failed, d).kind = "untraced" =>
            Annotated(columns, failed, d) =
              [columns[d] EXCEPT !.text = NoPlaceholder(@), !.tagged = FALSE, !.owner = "unset"]
      BY DEF Annotated
    <3>. HIDE DEF a
    <3>5. CASE Glossary[d] # Empty
      BY <3>5 DEF Settled
    <3>6. CASE Glossary[d] = Empty /\ Row(failed, d).kind = "untraced"
      <4>1. Annotated(columns, failed, d).text = NoPlaceholder(columns[d].text)
        BY <3>1, <3>4, <3>6 DEF States
      <4>. QED
        BY <3>1, <3>6, <4>1 DEF Settled, Agrees
    <3>7. CASE Glossary[d] = Empty /\ Row(failed, d).kind # "untraced"
      <4>1. /\ Annotated(columns, failed, d).text = a.text
            /\ Annotated(columns, failed, d).owner = columns[d].owner
        BY <3>1, <3>3, <3>7 DEF States
      <4>. QED
        BY <3>1, <3>2, <3>7, <4>1 DEF Settled, Agrees
    <3>. QED
      BY <3>5, <3>6, <3>7
  <2>5. ASSUME NEW s, NEW d, Settled(s, d) PROVE Settled(s, d)'
    BY <2>1, <2>5 DEF Settled, Expected
  <2>6. ASSUME NEW d \in Columns
        PROVE  /\ d \notin InScope' => columns'[d] = saved'[d]
               /\ d \in pending' => Agrees(columns[d], Expected(d))'
               /\ d \in InScope' \ pending' => Settled(columns[d], d)'
    <3>1. CASE d \in mine
      <4>1. d \in InScope /\ d \notin pending' /\ columns'[d] = Annotated(columns, failed, d)
        BY <2>1, <3>1 DEF PassInv
      <4>2. PICK s : s = Annotated(columns, failed, d)
        OBVIOUS
      <4>3. Settled(s, d)
        BY <2>4, <3>1, <4>2
      <4>4. Settled(s, d)'
        BY <2>5, <4>3
      <4>5. columns'[d] = s
        BY <4>1, <4>2
      <4>. QED
        BY <2>2, <4>1, <4>4, <4>5 DEF Settled
    <3>2. CASE d \notin mine
      <4>1. columns'[d] = columns[d] /\ (d \in pending' <=> d \in pending)
        BY <2>1, <3>2
      <4>. QED
        BY <2>1, <2>2, <2>3, <4>1 DEF AnnotateInv, Agrees, Settled
    <3>. QED
      BY <3>1, <3>2
  <2>7. AnnotateInv'
    BY <2>6 DEF AnnotateInv
  <2>. QED
    BY <2>1, <2>2, <2>7 DEF PassInv
<1>8. ASSUME StartCommitting PROVE PassInv'
  <2>1. /\ phase = "annotate" /\ pending = {} /\ phase' = "commit"
        /\ UNCHANGED <<saved, columns, scope, failed, pending, resolved>>
    BY <1>8 DEF StartCommitting
  <2>2. AnnotateInv' <=> AnnotateInv
    BY <2>1 DEF AnnotateInv, InScope, Expected, Settled, Agrees
  <2>. QED
    BY <2>1, <2>2 DEF PassInv, InScope
<1>9. ASSUME NEW written, EndRun(written) PROVE PassInv'
  <2>1. /\ columns' = saved' /\ phase' = "idle" /\ pending' = {} /\ resolved' = Untouched
    BY <1>9 DEF EndRun
  <2>2. Untouched' = Untouched
    BY DEF Untouched
  <2>. QED
    BY <2>1, <2>2 DEF PassInv
<1>10. CASE UNCHANGED vars
  <2>1. UNCHANGED <<saved, columns, phase, scope, failed, pending, resolved>>
    BY <1>10 DEF vars, runVars
  <2>2. (AnnotateInv' <=> AnnotateInv) /\ (InheritInv' <=> InheritInv) /\ InScope' = InScope
    BY <2>1 DEF AnnotateInv, InheritInv, InFlight, InScope, Expected, Settled, Agrees
  <2>. QED
    BY <2>1, <2>2 DEF PassInv
<1>11. CASE Step
  BY <1>11, <1>4, <1>5, <1>6, <1>7, <1>8, <1>9 DEF Step, Commit
<1>12. CASE CommitFails \/ Die
  BY <1>12, <1>9 DEF CommitFails, Die
<1>. QED
  BY <1>2, <1>3, <1>10, <1>11, <1>12 DEF Next

\* Where the inherit pass ends every column has what its walk of the schema
\* files gives it, in whatever order threads and waves took them, and every
\* origin a walk names holds the text (transforms.py:486-488).
THEOREM OneAnswer == ASSUME ShallowLineage PROVE Spec => []WalksAgree
<1>1. ASSUME TypeOK, PassInv PROVE OrderIrrelevant
  <2>1. pending \subseteq InScope /\ (phase = "annotate" => AnnotateInv) /\ InScope \subseteq Columns
    BY <1>1 DEF PassInv, InScope, ColumnsOf
  <2>. QED
    BY <2>1 DEF OrderIrrelevant, AnnotateInv, Agrees, Expected
<1>2. ASSUME TypeOK, PassInv PROVE OriginHoldsText
  <2>1. \A c \in Columns : Truthful(columns, Upstream(columns, failed, c))
    BY <1>2, WalksTruthful DEF TypeOK
  <2>. QED
    BY <1>2, <2>1 DEF OriginHoldsText, Truthful, TypeOK
<1>3. TypeOK /\ PassInv => WalksAgree
  BY <1>1, <1>2 DEF WalksAgree
<1>. QED
  BY InitTyped, NextTyped, InitPass, NextPass, <1>3, PTL DEF Spec

-----------------------------------------------------------------------------
(* Copies keep up with what they follow *)

\* What the clean runs since the last edit have left of the columns they wrote.
InStep(D, c) ==
    LET up == Upstream(D, {}, c)
    IN  Authority(D, c) = "upstream" /\ up.text # Empty => D[c].text = up.text

StepInv ==
    /\ phase = "idle" => failed = {}
    /\ \A c \in ColumnsOf(fresh \ Sources) : Glossary[c] = Empty => InStep(saved, c)

\* The columns outside the glossary are closed under what descriptions come from.
LEMMA GlossaryClosed ==
    ASSUME GlossaryIsolated
    PROVE  ClosedUp({c \in Columns : Glossary[c] = Empty}, {})
<1>1. \A c \in Columns : Row({}, c) = Lineage[c]
  BY DEF Row
<1>2. \A c \in Columns : \A i \in DOMAIN Row({}, c).from : Row({}, c).from[i] \in Columns \cup Outside
  BY RowFacts
<1>. QED
  BY <1>1, <1>2 DEF GlossaryIsolated, ClosedUp

\* A clean run that is written, in part or in full, moves no walk, and what it
\* wrote is in step.
LEMMA WrittenInStep ==
    ASSUME ShallowLineage, GlossaryIsolated, TypeOK, PassInv, StepInv,
           NEW written, written \subseteq scope, EndRun(written),
           failed = {}, phase = "commit"
    PROVE  \A c \in ColumnsOf((fresh \cup written) \ Sources) :
             Glossary[c] = Empty => InStep(saved', c)
<1>. DEFINE C == {c \in Columns : Glossary[c] = Empty}
<1>1. saved' = [c \in Columns |-> IF c[1] \in written THEN columns[c] ELSE saved[c]]
  BY DEF EndRun
<1>2. saved \in [Columns -> States]
  BY DEF TypeOK
<1>3. AnnotateInv /\ pending = {}
  BY DEF PassInv
<1>4. PICK E : E = saved'
  OBVIOUS
<1>5. \A c \in Columns : E[c] = IF c[1] \in written THEN columns[c] ELSE saved[c]
  BY <1>1, <1>4
<1>6. ASSUME NEW c \in Columns, c[1] \in written, c[1] \notin Sources, Glossary[c] = Empty
      PROVE  E[c] = columns[c] /\ Settled(E[c], c)
  <2>1. c \in InScope \ pending /\ E[c] = columns[c]
    BY <1>3, <1>5, <1>6 DEF InScope, ColumnsOf
  <2>. QED
    BY <1>3, <2>1 DEF AnnotateInv
<1>7. ASSUME NEW c \in Columns PROVE Truthful(saved, Upstream(saved, {}, c))
  BY <1>2, WalksTruthful
<1>8. ASSUME NEW c \in C PROVE Alike(saved, E, {}, c)
  <2>1. CASE c[1] \in written /\ c[1] \notin Sources
    <3>. DEFINE new == Inherited(saved, {}, c, Upstream(saved, {}, c))
    <3>1. Settled(E[c], c) /\ Expected(c) = new
      BY <1>6, <2>1 DEF Expected
    <3>2. E[c].text \in {new.text, NoPlaceholder(new.text)}
      BY <3>1 DEF Settled
    <3>3. Hops(saved, {}, c) => Row({}, c).kind # "untraced"
      BY DEF Hops, Crosses
    <3>4. Hops(saved, {}, c) => E[c].owner = new.owner
      BY <3>1, <3>3 DEF Settled
    <3>. QED
      BY <1>2, <1>7, <2>1, <3>2, <3>4, InheritedAlike
  <2>2. CASE c[1] \notin written
    <3>1. E[c] = saved[c]
      BY <1>5, <2>2
    <3>. QED
      BY <3>1, AgreeingAlike DEF Agrees
  <2>3. CASE c[1] \in written /\ c[1] \in Sources
    <3>1. c \notin InScope
      BY <2>3 DEF InScope, ColumnsOf
    <3>2. E[c] = saved[c]
      BY <1>3, <1>5, <3>1 DEF AnnotateInv
    <3>. QED
      BY <3>2, AgreeingAlike DEF Agrees
  <2>. QED
    BY <2>1, <2>2, <2>3
<1>9. ClosedUp(C, {})
  BY GlossaryClosed
<1>. HIDE DEF C
<1>10. \A c \in C : Upstream(E, {}, c) = Upstream(saved, {}, c)
  BY <1>8, <1>9, WalkStable
<1>11. ASSUME NEW c \in ColumnsOf((fresh \cup written) \ Sources), Glossary[c] = Empty
       PROVE  InStep(E, c)
  <2>. DEFINE up == Upstream(saved, {}, c)
              new == Inherited(saved, {}, c, up)
  <2>1. c \in Columns /\ c[1] \notin Sources /\ c \in C /\ c[1] \in fresh \cup written
    BY <1>11 DEF ColumnsOf, C
  <2>2. Upstream(E, {}, c) = up
    BY <1>10, <2>1
  <2>3. CASE c[1] \notin written
    <3>1. E[c] = saved[c] /\ c \in ColumnsOf(fresh \ Sources)
      BY <1>5, <2>1, <2>3 DEF ColumnsOf
    <3>2. InStep(saved, c)
      BY <1>11, <3>1 DEF StepInv
    <3>. QED
      BY <2>2, <3>1, <3>2 DEF InStep, Authority
  <2>4. CASE c[1] \in written
    <3>. SUFFICES ASSUME Authority(E, c) = "upstream", up.text # Empty PROVE E[c].text = up.text
      BY <2>2 DEF InStep
    <3>1. Settled(E[c], c) /\ Expected(c) = new
      BY <1>6, <1>11, <2>1, <2>4 DEF Expected
    <3>2. up.text \in Texts /\ up.text # Placeholder
      BY <1>7, <2>1, PropagationAssumption DEF Truthful, Resolutions
    <3>3. Row({}, c).kind # "untraced"
      BY UpstreamOfTops DEF Hops, Crosses, Nothing
    <3>4. E[c].text \in {new.text, NoPlaceholder(new.text)} /\ E[c].owner = new.owner
      BY <1>11, <3>1, <3>3 DEF Settled
    <3>5. /\ new.text = IF Writes(saved, c, up) THEN up.text ELSE saved[c].text
          /\ new.owner = IF Injects(saved, c, up) THEN "upstream" ELSE saved[c].owner
      BY DEF Inherited, InheritedText
    <3>6. Injects(saved, c, up) => new.text = up.text
      BY DEF Inherited, Injects
    <3>. HIDE DEF new, up
    <3>7. ~Injects(saved, c, up) => new.text = up.text
      BY <3>4, <3>5 DEF Writes, Forces, Authority
    <3>. QED
      BY <3>2, <3>4, <3>6, <3>7 DEF NoPlaceholder
  <2>. QED
    BY <2>3, <2>4
<1>. QED
  BY <1>4, <1>11

LEMMA NextStep ==
    ASSUME ShallowLineage, GlossaryIsolated
    PROVE  TypeOK /\ PassInv /\ StepInv /\ [Next]_vars => StepInv'
<1>. SUFFICES ASSUME TypeOK, PassInv, StepInv, [Next]_vars PROVE StepInv'
  OBVIOUS
<1>1. ASSUME NEW c, NEW state, Edit(c, state) PROVE StepInv'
  BY <1>1 DEF Edit, MayEdit, StepInv, ColumnsOf
<1>2. ASSUME NEW c, NEW t, Describe(c, t) \/ SetOwner(c, t) PROVE StepInv'
  BY <1>1, <1>2 DEF Describe, SetOwner
<1>3. ASSUME UNCHANGED <<saved, fresh>>, phase' # "idle" \/ UNCHANGED <<phase, failed>>
      PROVE  StepInv'
  BY <1>3 DEF StepInv, InStep, Authority
<1>4. ASSUME NEW s, NEW f, StartRun(s, f) PROVE StepInv'
  BY <1>3, <1>4 DEF StartRun
<1>5. ASSUME NEW c, Resolve(c) PROVE StepInv'
  BY <1>3, <1>5 DEF Resolve
<1>6. ASSUME NEW c, Apply(c) PROVE StepInv'
  BY <1>3, <1>6 DEF Apply
<1>7. ASSUME NEW m, Annotate(m) PROVE StepInv'
  BY <1>3, <1>7 DEF Annotate
<1>8. ASSUME StartAnnotating \/ StartCommitting PROVE StepInv'
  BY <1>3, <1>8 DEF StartAnnotating, StartCommitting
<1>9. ASSUME NEW written, written \subseteq scope, phase = "commit", EndRun(written),
             fresh' = IF failed = {} THEN fresh \cup written ELSE {}
      PROVE  StepInv'
  <2>1. failed' = {}
    BY <1>9 DEF EndRun
  <2>2. CASE failed = {}
    <3>1. \A c \in ColumnsOf((fresh \cup written) \ Sources) :
            Glossary[c] = Empty => InStep(saved', c)
      BY <1>9, <2>2, WrittenInStep
    <3>2. fresh' = fresh \cup written
      BY <1>9, <2>2
    <3>. QED
      BY <2>1, <3>1, <3>2 DEF StepInv, InStep, Authority
  <2>3. CASE failed # {}
    <3>1. fresh' = {} /\ ColumnsOf({} \ Sources) = {}
      BY <1>9, <2>3 DEF ColumnsOf
    <3>. QED
      BY <2>1, <3>1 DEF StepInv
  <2>. QED
    BY <2>2, <2>3
<1>10. CASE Commit
  BY <1>9, <1>10 DEF Commit
<1>11. CASE CommitFails
  <2>1. PICK m \in scope \cap Unreliable :
          /\ EndRun(scope \ {m})
          /\ fresh' = IF failed = {} THEN fresh \cup (scope \ {m}) ELSE {}
    BY <1>11 DEF CommitFails
  <2>2. phase = "commit" /\ scope \ {m} \subseteq scope
    BY <1>11 DEF CommitFails
  <2>. QED
    BY <1>9, <2>1, <2>2
<1>12. CASE Die
  <2>1. EndRun({}) /\ fresh' = fresh /\ saved \in [Columns -> States]
    BY <1>12 DEF Die, TypeOK
  <2>2. saved' = saved /\ failed' = {}
    BY <2>1 DEF EndRun
  <2>. QED
    BY <2>1, <2>2 DEF StepInv, InStep, Authority
<1>13. CASE UNCHANGED vars
  BY <1>3, <1>13 DEF vars, runVars
<1>14. CASE Step
  BY <1>5, <1>6, <1>7, <1>8, <1>10, <1>14 DEF Step
<1>. QED
  BY <1>2, <1>4, <1>11, <1>12, <1>13, <1>14 DEF Next

\* Between runs, a column that follows its upstream has the upstream text once
\* a clean run has written it, whichever models were selected, failed to be
\* written, or held stale copies (transforms.py:1029-1030).
THEOREM InLockstep ==
    ASSUME ShallowLineage, GlossaryIsolated PROVE Spec => []CopiesInLockstep
<1>1. Init => StepInv
  BY DEF Init, StepInv, ColumnsOf
<1>2. StepInv => CopiesInLockstep
  BY DEF StepInv, CopiesInLockstep, InStep
<1>. QED
  BY InitTyped, NextTyped, InitPass, NextPass, <1>1, NextStep, <1>2, PTL DEF Spec

-----------------------------------------------------------------------------
(* The waves *)

DepthOver(depths, m) ==
    IF DependsOn[m] = {} THEN 0 ELSE 1 + Highest({depths[u] : u \in DependsOn[m]})
DepthBody(depths) ==
    [m \in Models |->
        IF DependsOn[m] = {} THEN 0 ELSE 1 + Highest({depths[u] : u \in DependsOn[m]})]

LEMMA DepthLocal ==
    ASSUME NEW a, NEW b, NEW m, \A u \in DependsOn[m] : a[u] = b[u]
    PROVE  DepthOver(a, m) = DepthOver(b, m)
<1>1. {a[u] : u \in DependsOn[m]} = {b[u] : u \in DependsOn[m]}
  OBVIOUS
<1>. QED
  BY <1>1 DEF DepthOver

\* The recursion of Depth ends.
LEMMA DepthDefined ==
    ASSUME AcyclicModels
    PROVE  \A m \in Models : Depth[m] = DepthOver(Depth, m)
<1>1. PICK top \in Nat : \E height \in [Models -> 0..top] : Heights(height, top)
  BY DEF AcyclicModels
<1>2. PICK height \in [Models -> 0..top] : Heights(height, top)
  BY <1>1
<1>. DEFINE Upto(n) == \E w : /\ w = [m \in Models |-> w[m]]
                              /\ \A m \in Models : height[m] < n => w[m] = DepthOver(w, m)
            T == {n \in Nat : ~Upto(n)}
<1>3. \A m \in Models : height[m] \in Nat /\ height[m] <= top /\ DependsOn[m] \subseteq Models
  BY PropagationAssumption
<1>4. ASSUME NEW w, NEW m \in Models PROVE DepthBody(w)[m] = DepthOver(w, m)
  BY DEF DepthBody, DepthOver
<1>5. ASSUME NEW n \in Nat, NEW w, \A m \in Models : height[m] < n => w[m] = DepthOver(w, m)
      PROVE  \A m \in Models : height[m] < n + 1 => DepthBody(w)[m] = DepthOver(DepthBody(w), m)
  <2>1. \A m \in Models : height[m] < n => DepthBody(w)[m] = w[m]
    BY <1>4, <1>5
  <2>2. ASSUME NEW m \in Models, height[m] < n + 1
        PROVE  DepthBody(w)[m] = DepthOver(DepthBody(w), m)
    <3>1. \A u \in DependsOn[m] : u \in Models /\ height[u] < n
      BY <1>2, <1>3, <2>2 DEF Heights
    <3>2. \A u \in DependsOn[m] : w[u] = DepthBody(w)[u]
      BY <2>1, <3>1
    <3>. QED
      BY <1>4, <3>2, DepthLocal
  <2>. QED
    BY <2>2
<1>6. ASSUME NEW n \in Nat, Upto(n) PROVE Upto(n + 1)
  <2>1. PICK w : \A m \in Models : height[m] < n => w[m] = DepthOver(w, m)
    BY <1>6
  <2>2. PICK b : b = DepthBody(w)
    OBVIOUS
  <2>3. b = [m \in Models |-> b[m]]
    BY <2>2 DEF DepthBody
  <2>4. \A m \in Models : height[m] < n + 1 => b[m] = DepthOver(b, m)
    BY <1>5, <2>1, <2>2
  <2>. QED
    BY <2>3, <2>4
<1>7. Upto(0)
  <2>. DEFINE w == [m \in Models |-> 0]
  <2>1. w = [m \in Models |-> w[m]]
    OBVIOUS
  <2>2. \A m \in Models : height[m] < 0 => w[m] = DepthOver(w, m)
    BY <1>3
  <2>. HIDE DEF w
  <2>. QED
    BY <2>1, <2>2
<1>. HIDE DEF Upto
<1>8. \A n \in Nat : Upto(n)
  <2>. SUFFICES ASSUME T # {} PROVE FALSE
    OBVIOUS
  <2>1. PICK n \in T : \A k \in T : n <= k
    BY Least
  <2>2. n # 0 /\ n \in Nat /\ ~Upto(n)
    BY <1>7
  <2>3. n - 1 \in Nat /\ n - 1 \notin T /\ (n - 1) + 1 = n
    BY <2>1, <2>2
  <2>4. Upto(n - 1)
    BY <2>3
  <2>. QED
    BY <1>6, <2>2, <2>3, <2>4
<1>9. Upto(top + 1)
  BY <1>8
<1>10. PICK w : /\ w = [m \in Models |-> w[m]]
                /\ \A m \in Models : height[m] < top + 1 => w[m] = DepthOver(w, m)
  BY <1>9 DEF Upto
<1>11. \A m \in Models : w[m] = DepthBody(w)[m]
  BY <1>3, <1>4, <1>10
<1>12. w = DepthBody(w)
  <2>1. DepthBody(w) = [m \in Models |-> DepthBody(w)[m]]
    BY DEF DepthBody
  <2>. QED
    BY <1>10, <1>11, <2>1
<1>13. Depth = CHOOSE depths : depths = DepthBody(depths)
  BY DEF Depth, DepthBody
<1>14. Depth = DepthBody(Depth)
  BY <1>12, <1>13
<1>. QED
  BY <1>4, <1>14

\* A model is in a later wave than the models it depends on.
LEMMA DepthGrows ==
    ASSUME AcyclicModels
    PROVE  \A m \in Models : Depth[m] \in Nat /\ \A u \in DependsOn[m] : Depth[u] < Depth[m]
<1>1. PICK top \in Nat : \E height \in [Models -> 0..top] : Heights(height, top)
  BY DEF AcyclicModels
<1>2. PICK height \in [Models -> 0..top] : Heights(height, top)
  BY <1>1
<1>3. \A m \in Models : height[m] \in Nat /\ height[m] <= top /\ DependsOn[m] \subseteq Models
  BY PropagationAssumption
<1>. DEFINE S == {m \in Models : Depth[m] \in Nat /\ Depth[m] <= height[m]}
<1>4. ASSUME NEW m \in Models, DependsOn[m] # {}, \A u \in DependsOn[m] : u \in S
      PROVE  /\ Depth[m] \in Nat /\ Depth[m] <= height[m]
             /\ \A u \in DependsOn[m] : Depth[u] < Depth[m]
  <2>. DEFINE D == {Depth[u] : u \in DependsOn[m]}
              Room == {top - d : d \in D}
              IsTop(d) == \A u \in DependsOn[m] : Depth[u] <= d
  <2>1. \A u \in DependsOn[m] : Depth[u] \in Nat /\ Depth[u] <= height[u] /\ height[u] < height[m]
                                  /\ height[u] \in Nat
    BY <1>2, <1>3, <1>4 DEF Heights
  <2>2. \A u \in DependsOn[m] : top - Depth[u] \in Nat
    BY <1>3, <2>1
  <2>3. Room # {} /\ Room \subseteq Nat
    BY <1>4, <2>2
  <2>4. PICK r \in Room : \A k \in Room : r <= k
    BY <2>3, Least
  <2>5. PICK u0 \in DependsOn[m] : r = top - Depth[u0]
    BY <2>4
  <2>6. Depth[u0] \in D /\ IsTop(Depth[u0])
    <3>1. ASSUME NEW u \in DependsOn[m] PROVE Depth[u] <= Depth[u0]
      <4>1. top - Depth[u] \in Room
        OBVIOUS
      <4>2. top - Depth[u0] <= top - Depth[u]
        BY <2>4, <2>5, <4>1
      <4>. QED
        BY <2>1, <4>2
    <3>. QED
      BY <3>1
  <2>. DEFINE d0 == Highest(D)
  <2>7. d0 \in D /\ IsTop(d0)
    <3>1. \E d \in D : \A e \in D : e <= d
      BY <2>6
    <3>2. d0 \in D /\ \A e \in D : e <= d0
      BY <3>1 DEF Highest
    <3>. QED
      BY <3>2
  <2>8. Depth[m] = 1 + d0
    BY <1>4, DepthDefined DEF DepthOver
  <2>. HIDE DEF d0
  <2>9. PICK u1 \in DependsOn[m] : d0 = Depth[u1]
    BY <2>7
  <2>10. d0 \in Nat /\ d0 < height[m]
    BY <1>3, <2>1, <2>9
  <2>. QED
    BY <1>3, <2>1, <2>7, <2>8, <2>10
<1>5. ASSUME NEW m \in Models, DependsOn[m] = {} PROVE Depth[m] = 0
  BY <1>5, DepthDefined DEF DepthOver
<1>6. ASSUME NEW m \in Models, \A u \in Models : height[u] < height[m] => u \in S
      PROVE  m \in S
  <2>1. \A u \in DependsOn[m] : u \in S
    BY <1>2, <1>3, <1>6 DEF Heights
  <2>2. CASE DependsOn[m] = {}
    BY <1>3, <1>5, <2>2
  <2>3. CASE DependsOn[m] # {}
    BY <1>4, <2>1, <2>3
  <2>. QED
    BY <2>2, <2>3
<1>. HIDE DEF S
<1>7. \A m \in Models : m \in S
  BY <1>3, <1>6, ByHeight
<1>8. ASSUME NEW m \in Models
      PROVE  Depth[m] \in Nat /\ \A u \in DependsOn[m] : Depth[u] < Depth[m]
  <2>1. \A u \in DependsOn[m] : u \in S
    BY <1>3, <1>7
  <2>. QED
    BY <1>4, <1>5, <2>1
<1>. QED
  BY <1>8

-----------------------------------------------------------------------------
(* Labels *)

\* The column has the labels of the column it is copied from.
Labelled(c) ==
    c[1] \notin failed /\ Lineage[c].kind = "single" /\ Lineage[c].from[1] \in Columns
        => columns[Lineage[c].from[1]].labels \subseteq columns[c].labels

\* A column that is taken is in no later wave than one that is not done, so what
\* a column was copied from has all the labels it will have in this run.
LabelInv ==
    /\ phase = "inherit" =>
         /\ \A c \in InScope \ pending : \A d \in pending \cup InFlight : Depth[c[1]] <= Depth[d[1]]
         /\ \A c \in InScope \ (pending \cup InFlight) : Labelled(c)
    /\ phase \in {"annotate", "commit"} => \A c \in InScope : Labelled(c)

LEMMA LabelsInherited ==
    ASSUME NEW D, NEW f, NEW c \in Columns, NEW up
    PROVE  /\ D[c].labels \subseteq Inherited(D, f, c, up).labels
           /\ c[1] \notin f /\ Lineage[c].kind = "single" /\ Lineage[c].from[1] \in Columns
                => D[Lineage[c].from[1]].labels \subseteq Inherited(D, f, c, up).labels
<1>. DEFINE row == Row(f, c)
            progenitor == {row.from[i] : i \in DOMAIN row.from} \cap Columns
<1>1. Inherited(D, f, c, up).labels = InheritedLabels(D, f, c)
  BY DEF Inherited
<1>2. InheritedLabels(D, f, c) =
        D[c].labels \cup (IF row.kind = "single" THEN UNION {D[p].labels : p \in progenitor} ELSE {})
  BY DEF InheritedLabels
<1>3. ASSUME c[1] \notin f, Lineage[c].kind = "single", Lineage[c].from[1] \in Columns
      PROVE  row.kind = "single" /\ Lineage[c].from[1] \in progenitor
  <2>1. row = Lineage[c] /\ 1 \in DOMAIN row.from
    BY <1>3, TopFacts DEF Row
  <2>. QED
    BY <1>3, <2>1
<1>. HIDE DEF row, progenitor
<1>. QED
  BY <1>1, <1>2, <1>3

LEMMA LabelsAnnotated ==
    ASSUME NEW D \in [Columns -> States], NEW f, NEW c \in Columns
    PROVE  Annotated(D, f, c).labels = D[c].labels
<1>. DEFINE a == AnnotatedTrace(f, c, D[c].text)
<1>1. \/ Annotated(D, f, c) = [D[c] EXCEPT !.text = Glossary[c], !.tagged = FALSE, !.owner = "unset"]
      \/ Annotated(D, f, c) = [D[c] EXCEPT !.text = NoPlaceholder(@), !.tagged = FALSE, !.owner = "unset"]
      \/ Annotated(D, f, c) = [D[c] EXCEPT !.text = a.text, !.tagged = a.tagged]
  BY DEF Annotated
<1>2. D[c] \in States
  OBVIOUS
<1>. HIDE DEF a
<1>. QED
  BY <1>1, <1>2 DEF States

LEMMA NextLabels ==
    ASSUME ShallowLineage, AcyclicModels, RowsFollowRefs
    PROVE  TypeOK /\ PassInv /\ LabelInv /\ [Next]_vars => LabelInv'
<1>. SUFFICES ASSUME TypeOK, PassInv, LabelInv, [Next]_vars PROVE LabelInv'
  OBVIOUS
<1>shape. /\ columns = [d \in Columns |-> columns[d]] /\ resolved = [d \in Columns |-> resolved[d]]
          /\ InScope \subseteq Columns
  BY DEF TypeOK, InScope, ColumnsOf
<1>depth. \A c \in Columns : Depth[c[1]] \in Nat
  BY DepthGrows DEF Models
<1>1. ASSUME phase' = "idle" PROVE LabelInv'
  BY <1>1 DEF LabelInv
<1>2. ASSUME NEW c, NEW t, Describe(c, t) \/ SetOwner(c, t) PROVE LabelInv'
  BY <1>1, <1>2 DEF Describe, SetOwner, Edit, MayEdit
<1>3. ASSUME NEW s, NEW f, StartRun(s, f) PROVE LabelInv'
  <2>1. phase' = "inherit" /\ scope' = s /\ pending' = ColumnsOf(s \ Sources)
    BY <1>3 DEF StartRun
  <2>2. InScope' \ pending' = {}
    BY <2>1 DEF InScope
  <2>. QED
    BY <2>1, <2>2 DEF LabelInv
<1>4. ASSUME NEW c \in Columns, Resolve(c) PROVE LabelInv'
  <2>1. /\ phase = "inherit" /\ pending # {} /\ c = NextOf(c[1]) /\ InWave(c)
        /\ pending' = pending \ {c}
        /\ resolved' = [resolved EXCEPT ![c] = Upstream(columns, failed, c)]
        /\ UNCHANGED <<saved, columns, phase, scope, failed>>
    BY <1>4 DEF Resolve
  <2>2. c \in pending
    BY <2>1, NextPending
  <2>3. Upstream(columns, failed, c) # Unresolved
    <3>1. columns \in [Columns -> States]
      BY DEF TypeOK
    <3>2. Truthful(columns, Upstream(columns, failed, c))
      BY <3>1, WalksTruthful
    <3>. QED
      BY <3>2, PropagationAssumption DEF Truthful
  <2>4. PICK up : up = Upstream(columns, failed, c)
    OBVIOUS
  <2>5. \A d \in Columns : resolved'[d] = IF d = c THEN up ELSE resolved[d]
    BY <1>shape, <2>1, <2>4
  <2>6. InFlight' = InFlight \cup {c}
    BY <2>3, <2>4, <2>5 DEF InFlight
  <2>7. InScope' = InScope /\ (\A d : Labelled(d)' <=> Labelled(d))
    BY <2>1 DEF InScope, Labelled
  <2>8. pending' \cup InFlight' = pending \cup InFlight
    BY <2>1, <2>2, <2>6
  <2>9. ASSUME NEW d \in InScope' \ pending', NEW e \in pending' \cup InFlight'
        PROVE  Depth[d[1]] <= Depth[e[1]]
    <3>1. CASE d = c
      BY <2>1, <2>8, <3>1 DEF InWave
    <3>2. CASE d # c
      BY <2>1, <2>7, <2>8, <3>2 DEF LabelInv
    <3>. QED
      BY <3>1, <3>2
  <2>. QED
    BY <2>1, <2>7, <2>8, <2>9 DEF LabelInv
<1>5. ASSUME NEW c \in Columns, Apply(c) PROVE LabelInv'
  <2>1. /\ c \in InFlight /\ resolved' = [resolved EXCEPT ![c] = Unresolved]
        /\ UNCHANGED <<saved, phase, scope, failed, pending>>
    BY <1>5 DEF Apply
  <2>2. phase = "inherit"
    BY <2>1, NoneInFlight DEF PassInv
  <2>3. PICK new : new = Inherited(columns, failed, c, resolved[c])
    OBVIOUS
  <2>4. columns' = [columns EXCEPT ![c] = new]
    BY <1>5, <2>3 DEF Apply
  <2>5. \A d \in Columns : /\ columns'[d] = IF d = c THEN new ELSE columns[d]
                           /\ resolved'[d] = IF d = c THEN Unresolved ELSE resolved[d]
    BY <1>shape, <2>1, <2>4
  <2>6. InFlight' = InFlight \ {c} /\ InScope' = InScope
    BY <2>1, <2>5 DEF InFlight, InScope
  <2>7. c \in InScope /\ c \notin pending
    BY <2>1, <2>2 DEF PassInv, InheritInv
  <2>8. ASSUME NEW d \in InScope \ pending, Lineage[d].kind = "single", Lineage[d].from[1] \in Columns
        PROVE  Lineage[d].from[1] # c
    <3>1. d \in Columns /\ d[1] \in Models
      BY <1>shape DEF Models
    <3>2. Lineage[d].from[1][1] \in DependsOn[d[1]]
      BY <2>8, <3>1 DEF RowsFollowRefs
    <3>3. Depth[Lineage[d].from[1][1]] < Depth[d[1]]
      BY <3>1, <3>2, DepthGrows
    <3>4. Depth[d[1]] <= Depth[c[1]]
      BY <2>1, <2>2 DEF LabelInv
    <3>5. Depth[c[1]] \in Nat /\ Depth[d[1]] \in Nat
      BY <1>depth, <3>1
    <3>. QED
      BY <3>3, <3>4, <3>5
  <2>9. ASSUME NEW d \in InScope' \ (pending' \cup InFlight') PROVE Labelled(d)'
    <3>. SUFFICES ASSUME d[1] \notin failed', Lineage[d].kind = "single", Lineage[d].from[1] \in Columns
                  PROVE  columns'[Lineage[d].from[1]].labels \subseteq columns'[d].labels
      BY DEF Labelled
    <3>1. d \in InScope \ pending /\ d \in Columns
      BY <1>shape, <2>1, <2>6
    <3>2. columns'[Lineage[d].from[1]] = columns[Lineage[d].from[1]]
      BY <2>5, <2>8, <3>1
    <3>3. CASE d = c
      <4>1. columns[Lineage[c].from[1]].labels \subseteq new.labels
        BY <2>1, <2>3, <3>3, LabelsInherited
      <4>. QED
        BY <2>5, <3>2, <3>3, <4>1
    <3>4. CASE d # c
      <4>1. Labelled(d) /\ columns'[d] = columns[d] /\ d[1] \notin failed
        BY <2>1, <2>2, <2>5, <2>6, <3>1, <3>4 DEF LabelInv
      <4>. QED
        BY <3>2, <4>1 DEF Labelled
    <3>. QED
      BY <3>3, <3>4
  <2>10. \A d \in InScope' \ pending' : \A e \in pending' \cup InFlight' : Depth[d[1]] <= Depth[e[1]]
    BY <2>1, <2>2, <2>6 DEF LabelInv
  <2>. QED
    BY <2>1, <2>2, <2>9, <2>10 DEF LabelInv
<1>6. ASSUME StartAnnotating PROVE LabelInv'
  <2>1. /\ phase = "inherit" /\ pending = {} /\ InFlight = {} /\ phase' = "annotate"
        /\ UNCHANGED <<columns, scope, failed>>
    BY <1>6 DEF StartAnnotating
  <2>2. InScope' = InScope /\ (\A d : Labelled(d)' <=> Labelled(d))
    BY <2>1 DEF InScope, Labelled
  <2>. QED
    BY <2>1, <2>2 DEF LabelInv
<1>7. ASSUME NEW m, Annotate(m) PROVE LabelInv'
  <2>1. /\ phase = "annotate"
        /\ columns' = [c \in Columns |-> IF c \in ColumnsOf({m}) THEN Annotated(columns, failed, c)
                                         ELSE columns[c]]
        /\ UNCHANGED <<saved, phase, scope, failed, resolved>>
    BY <1>7 DEF Annotate
  <2>2. \A d \in Columns : Annotated(columns, failed, d).labels = columns[d].labels
    BY LabelsAnnotated DEF TypeOK
  <2>3. \A d \in Columns : columns'[d].labels = columns[d].labels
    BY <2>1, <2>2
  <2>4. InScope' = InScope /\ \A d \in Columns : Labelled(d) => Labelled(d)'
    BY <2>1, <2>3 DEF InScope, Labelled
  <2>. QED
    BY <1>shape, <2>1, <2>4 DEF LabelInv
<1>8. ASSUME StartCommitting PROVE LabelInv'
  <2>1. phase = "annotate" /\ phase' = "commit" /\ UNCHANGED <<columns, scope, failed>>
    BY <1>8 DEF StartCommitting
  <2>2. InScope' = InScope /\ (\A d : Labelled(d)' <=> Labelled(d))
    BY <2>1 DEF InScope, Labelled
  <2>. QED
    BY <2>1, <2>2 DEF LabelInv
<1>9. ASSUME Commit \/ CommitFails \/ Die PROVE LabelInv'
  BY <1>1, <1>9 DEF Commit, CommitFails, Die, EndRun
<1>10. CASE UNCHANGED vars
  BY <1>10 DEF vars, runVars, LabelInv, Labelled, InScope, InFlight
<1>11. CASE Step
  BY <1>4, <1>5, <1>6, <1>7, <1>8, <1>9, <1>11 DEF Step
<1>. QED
  BY <1>2, <1>3, <1>9, <1>10, <1>11 DEF Next

\* One run carries a label through every model it covers, however deep, because
\* no model is handled before its upstreams (transforms.py:802-803).
THEOREM LabelsGetThere ==
    ASSUME ShallowLineage, AcyclicModels, RowsFollowRefs PROVE Spec => []LabelsArrive
<1>1. Init => LabelInv
  BY DEF Init, LabelInv
<1>2. LabelInv => LabelsArrive
  BY DEF LabelInv, LabelsArrive, Labelled, InScope, ColumnsOf
<1>. QED
  BY InitTyped, NextTyped, InitPass, NextPass, <1>1, NextLabels, <1>2, PTL DEF Spec

-----------------------------------------------------------------------------
(* Anchored texts *)

\* A state of the columns is a function to records with four fields, whatever
\* is in them; a walk's text is put into such a record unseen.
Shaped(D) ==
    /\ D = [c \in Columns |-> D[c]]
    /\ \A c \in Columns :
         D[c] = [text |-> D[c].text, tagged |-> D[c].tagged,
                 owner |-> D[c].owner, labels |-> D[c].labels]

\* A column whose text a developer wrote under an anchor, with a row, and not
\* in the glossary.
Protected(c) ==
    authored[c] # Empty /\ Glossary[c] = Empty /\ Lineage[c].kind # "untraced"

Holds(D, c) == D[c].text = authored[c] /\ D[c].owner = "anchor"

Bookkeeping ==
    /\ authored \in [Columns -> Texts \cup {Empty}]
    /\ failures \in Nat
    /\ failures = 0 => failed = {}

AnchorInv ==
    /\ Bookkeeping
    /\ Shaped(saved) /\ Shaped(columns)
    /\ failures = 0 => \A c \in Columns : Protected(c) => Holds(saved, c) /\ Holds(columns, c)

LEMMA InitAnchors == Init => AnchorInv
<1>. SUFFICES ASSUME Init PROVE AnchorInv
  OBVIOUS
<1>1. PICK source \in [ColumnsOf(Sources) -> SourceTexts] :
        saved = [c \in Columns |->
            [text |-> IF c[1] \in Sources THEN source[c] ELSE Anchored[c],
             tagged |-> FALSE,
             owner |-> IF c[1] \in Sources \/ Anchored[c] = Empty THEN "unset" ELSE "anchor",
             labels |-> InitialLabels[c]]]
  BY DEF Init
<1>2. Bookkeeping
  BY PropagationAssumption DEF Init, Bookkeeping
<1>3. Shaped(saved) /\ Shaped(columns)
  BY <1>1 DEF Init, Shaped
<1>4. ASSUME NEW c \in Columns, Protected(c) PROVE Holds(saved, c) /\ Holds(columns, c)
  BY <1>1, <1>4 DEF Init, Protected, Holds
<1>. QED
  BY <1>2, <1>3, <1>4 DEF AnchorInv

\* The inherit pass leaves the text and the owner of an anchored column alone,
\* whatever its walk found.
LEMMA InheritKeepsAnchor ==
    ASSUME NEW D, NEW f, NEW c \in Columns, NEW up,
           D[c].owner = "anchor", D[c].text # Empty
    PROVE  /\ Inherited(D, f, c, up).text = D[c].text
           /\ Inherited(D, f, c, up).owner = "anchor"
<1>1. Authority(D, c) = "anchor"
  BY DEF Authority
<1>2. ~Forces(D, c) /\ ~Blank(D, c)
  BY <1>1 DEF Forces, Blank
<1>3. InheritedText(D, c, up) = D[c].text
  BY <1>2 DEF InheritedText, Writes
<1>4. ~Injects(D, c, up)
  BY <1>1 DEF Injects
<1>. QED
  BY <1>3, <1>4 DEF Inherited

\* The annotation of a traced column never changes a real text.
LEMMA AnnotatedTextKept ==
    ASSUME NEW f, NEW c, NEW text, text # Placeholder
    PROVE  AnnotatedTrace(f, c, text).text = text
<1>1. NoPlaceholder(text) = text
  BY DEF NoPlaceholder
<1>. DEFINE row == Row(f, c)
            deep == ColumnOrigin(f)[0, c]
            origin == IF deep = Lost THEN [at |-> row.from[1], computed |-> FALSE] ELSE deep
            annotates == Mode[c[1]] # "never"
            computedHere == [text |-> IF annotates THEN NoPlaceholder(text) ELSE text,
                             tagged |-> annotates]
            ownOrigin == [text |-> text, tagged |-> FALSE]
            traced == [text |-> NoPlaceholder(text),
                       tagged |-> annotates /\ (origin.computed \/ origin.at[2] # c[2]
                                                  \/ Mode[c[1]] = "always")]
<1>2. AnnotatedTrace(f, c, text) = (IF row.kind \in {"union", "wall"} THEN computedHere
                                    ELSE IF origin.at[1] = c[1] THEN ownOrigin ELSE traced)
  BY DEF AnnotatedTrace
<1>3. computedHere.text = text /\ ownOrigin.text = text /\ traced.text = text
  BY <1>1
<1>. HIDE DEF row, origin, computedHere, ownOrigin, traced
<1>. QED
  BY <1>2, <1>3

LEMMA AnnotateKeepsAnchor ==
    ASSUME NEW D, NEW c \in Columns, Shaped(D), Glossary[c] = Empty,
           Lineage[c].kind # "untraced", D[c].text # Placeholder
    PROVE  /\ Annotated(D, {}, c).text = D[c].text
           /\ Annotated(D, {}, c).owner = D[c].owner
<1>1. Row({}, c).kind # "untraced"
  BY DEF Row
<1>. DEFINE a == AnnotatedTrace({}, c, D[c].text)
<1>2. a.text = D[c].text
  BY AnnotatedTextKept
<1>3. Annotated(D, {}, c) = [D[c] EXCEPT !.text = a.text, !.tagged = a.tagged]
  BY <1>1 DEF Annotated
<1>. HIDE DEF a
<1>. QED
  BY <1>2, <1>3 DEF Shaped

\* Both passes give every column a record again.
LEMMA RecordsAgain ==
    ASSUME NEW D, NEW f, NEW c \in Columns, NEW up, Shaped(D)
    PROVE  \A r \in {Inherited(D, f, c, up), Annotated(D, f, c)} :
             r = [text |-> r.text, tagged |-> r.tagged, owner |-> r.owner, labels |-> r.labels]
<1>1. D[c] = [text |-> D[c].text, tagged |-> D[c].tagged, owner |-> D[c].owner,
              labels |-> D[c].labels]
  BY DEF Shaped
<1>. DEFINE a == AnnotatedTrace(f, c, D[c].text)
<1>2. \/ Annotated(D, f, c) = [D[c] EXCEPT !.text = Glossary[c], !.tagged = FALSE, !.owner = "unset"]
      \/ Annotated(D, f, c) = [D[c] EXCEPT !.text = NoPlaceholder(@), !.tagged = FALSE, !.owner = "unset"]
      \/ Annotated(D, f, c) = [D[c] EXCEPT !.text = a.text, !.tagged = a.tagged]
  BY DEF Annotated
<1>. HIDE DEF a
<1>3. LET r == Annotated(D, f, c)
      IN  r = [text |-> r.text, tagged |-> r.tagged, owner |-> r.owner, labels |-> r.labels]
  BY <1>1, <1>2
<1>4. LET r == Inherited(D, f, c, up)
      IN  r = [text |-> r.text, tagged |-> r.tagged, owner |-> r.owner, labels |-> r.labels]
  BY DEF Inherited
<1>. QED
  BY <1>3, <1>4

\* What a developer's edit leaves is a record of the same fields.
LEMMA RecordEdited ==
    ASSUME NEW r, NEW t, NEW g, NEW o, NEW q,
           r = [text |-> r.text, tagged |-> r.tagged, owner |-> r.owner, labels |-> r.labels],
           q = [r EXCEPT !.text = t, !.tagged = g] \/ q = [r EXCEPT !.owner = o]
    PROVE  q = [text |-> q.text, tagged |-> q.tagged, owner |-> q.owner, labels |-> q.labels]
  OBVIOUS

LEMMA NextAnchors == AnchorInv /\ [Next]_vars => AnchorInv'
<1>. SUFFICES ASSUME AnchorInv, [Next]_vars PROVE AnchorInv'
  OBVIOUS
<1>. USE DEF AnchorInv
<1>texts. Empty \notin Texts /\ Placeholder \notin Texts
  BY PropagationAssumption
<1>1. ASSUME NEW c \in Columns, NEW state, Edit(c, state),
             state = [text |-> state.text, tagged |-> state.tagged,
                      owner |-> state.owner, labels |-> state.labels]
      PROVE  AnchorInv'
  <2>1. Bookkeeping'
    BY <1>1, <1>texts DEF Edit, Bookkeeping
  <2>2. saved' = [saved EXCEPT ![c] = state] /\ columns' = saved' /\ failures' = failures
    BY <1>1 DEF Edit
  <2>3. \A d \in Columns : saved'[d] = IF d = c THEN state ELSE saved[d]
    BY <2>2 DEF Shaped
  <2>4. Shaped(saved)' /\ Shaped(columns)'
    BY <1>1, <2>2, <2>3 DEF Shaped
  <2>5. ASSUME NEW d \in Columns, failures = 0, Protected(d)' PROVE Holds(saved, d)'
    <3>1. CASE d = c
      BY <1>1, <2>3, <2>5, <3>1 DEF Edit, Protected, Holds, Bookkeeping
    <3>2. CASE d # c
      <4>1. authored'[d] = authored[d] /\ saved'[d] = saved[d]
        BY <1>1, <2>3, <3>2 DEF Edit, Bookkeeping
      <4>. QED
        BY <4>1, <2>5 DEF Protected, Holds
    <3>. QED
      BY <3>1, <3>2
  <2>. QED
    BY <2>1, <2>2, <2>4, <2>5 DEF Holds
<1>2. ASSUME NEW c \in Columns, NEW t, Describe(c, t) PROVE AnchorInv'
  <2>. DEFINE state == [saved[c] EXCEPT !.text = t, !.tagged = FALSE]
  <2>1. saved[c] = [text |-> saved[c].text, tagged |-> saved[c].tagged,
                    owner |-> saved[c].owner, labels |-> saved[c].labels]
    BY DEF Shaped
  <2>2. Edit(c, state)
    BY <1>2 DEF Describe
  <2>3. PICK q : q = state
    OBVIOUS
  <2>4. q = [text |-> q.text, tagged |-> q.tagged, owner |-> q.owner, labels |-> q.labels]
    BY <2>1, <2>3, RecordEdited
  <2>. HIDE DEF state
  <2>. QED
    BY <2>2, <2>3, <2>4, <1>1
<1>3. ASSUME NEW c \in Columns, NEW o, SetOwner(c, o) PROVE AnchorInv'
  <2>. DEFINE state == [saved[c] EXCEPT !.owner = o]
  <2>1. saved[c] = [text |-> saved[c].text, tagged |-> saved[c].tagged,
                    owner |-> saved[c].owner, labels |-> saved[c].labels]
    BY DEF Shaped
  <2>2. Edit(c, state)
    BY <1>3 DEF SetOwner
  <2>3. PICK q : q = state
    OBVIOUS
  <2>4. q = [text |-> q.text, tagged |-> q.tagged, owner |-> q.owner, labels |-> q.labels]
    BY <2>1, <2>3, RecordEdited
  <2>. HIDE DEF state
  <2>. QED
    BY <2>2, <2>3, <2>4, <1>1
<1>4. ASSUME NEW s, NEW f, StartRun(s, f) PROVE AnchorInv'
  <2>1. UNCHANGED <<saved, columns, authored>> /\ failed' = f
        /\ failures' = failures + (IF f = {} THEN 0 ELSE 1)
    BY <1>4 DEF StartRun
  <2>2. Bookkeeping' /\ (failures' = 0 => failures = 0)
    BY <2>1 DEF Bookkeeping
  <2>. QED
    BY <2>1, <2>2 DEF Shaped, Protected, Holds
<1>5. ASSUME NEW c \in Columns, Resolve(c) PROVE AnchorInv'
  <2>1. UNCHANGED <<saved, columns, authored, failed, failures>>
    BY <1>5 DEF Resolve
  <2>. QED
    BY <2>1 DEF Bookkeeping, Shaped, Protected, Holds
<1>6. ASSUME NEW c \in Columns, Apply(c) PROVE AnchorInv'
  <2>. DEFINE new == Inherited(columns, failed, c, resolved[c])
  <2>1. UNCHANGED <<saved, authored, failed, failures>> /\ columns' = [columns EXCEPT ![c] = new]
    BY <1>6 DEF Apply
  <2>2. new = [text |-> new.text, tagged |-> new.tagged, owner |-> new.owner, labels |-> new.labels]
    BY RecordsAgain
  <2>3. ASSUME failures = 0, Protected(c) PROVE new.text = authored[c] /\ new.owner = "anchor"
    <3>1. columns[c].owner = "anchor" /\ columns[c].text # Empty /\ columns[c].text = authored[c]
      BY <2>3 DEF Holds, Protected
    <3>. QED
      BY <3>1, InheritKeepsAnchor
  <2>. HIDE DEF new
  <2>4. \A d \in Columns : columns'[d] = IF d = c THEN new ELSE columns[d]
    BY <2>1 DEF Shaped
  <2>5. Shaped(saved)' /\ Shaped(columns)'
    BY <2>1, <2>2, <2>4 DEF Shaped
  <2>6. ASSUME NEW d \in Columns, failures = 0, Protected(d)
        PROVE  Holds(saved, d)' /\ Holds(columns, d)'
    BY <2>1, <2>3, <2>4, <2>6 DEF Holds
  <2>. QED
    BY <2>1, <2>5, <2>6 DEF Bookkeeping, Protected
<1>7. ASSUME NEW m, Annotate(m) PROVE AnchorInv'
  <2>. DEFINE new(d) == IF d \in ColumnsOf({m}) THEN Annotated(columns, failed, d) ELSE columns[d]
  <2>1. UNCHANGED <<saved, authored, failed, failures>> /\ columns' = [d \in Columns |-> new(d)]
    BY <1>7 DEF Annotate
  <2>2. \A d \in Columns : new(d) = [text |-> new(d).text, tagged |-> new(d).tagged,
                                     owner |-> new(d).owner, labels |-> new(d).labels]
    BY RecordsAgain DEF Shaped
  <2>3. ASSUME NEW d \in Columns, failures = 0, Protected(d)
        PROVE  new(d).text = authored[d] /\ new(d).owner = "anchor"
    <3>1. failed = {} /\ authored[d] \in Texts
      BY <2>3 DEF Bookkeeping, Protected
    <3>2. columns[d].owner = "anchor" /\ columns[d].text # Placeholder /\ columns[d].text = authored[d]
      BY <2>3, <3>1, <1>texts DEF Holds
    <3>3. /\ Annotated(columns, {}, d).text = columns[d].text
          /\ Annotated(columns, {}, d).owner = columns[d].owner
      BY <2>3, <3>2, AnnotateKeepsAnchor DEF Protected
    <3>. QED
      BY <3>1, <3>2, <3>3
  <2>. HIDE DEF new
  <2>4. \A d \in Columns : columns'[d] = new(d)
    BY <2>1
  <2>5. Shaped(saved)' /\ Shaped(columns)'
    BY <2>1, <2>2, <2>4 DEF Shaped
  <2>6. ASSUME NEW d \in Columns, failures = 0, Protected(d)
        PROVE  Holds(saved, d)' /\ Holds(columns, d)'
    BY <2>1, <2>3, <2>4, <2>6 DEF Holds
  <2>. QED
    BY <2>1, <2>5, <2>6 DEF Bookkeeping, Protected
<1>8. ASSUME StartAnnotating \/ StartCommitting PROVE AnchorInv'
  <2>1. UNCHANGED <<saved, columns, authored, failed, failures>>
    BY <1>8 DEF StartAnnotating, StartCommitting
  <2>. QED
    BY <2>1 DEF Bookkeeping, Shaped, Protected, Holds
<1>9. ASSUME NEW written, EndRun(written), failures' \in {failures, failures + 1} PROVE AnchorInv'
  <2>1. /\ saved' = [c \in Columns |-> IF c[1] \in written THEN columns[c] ELSE saved[c]]
        /\ columns' = saved' /\ failed' = {} /\ authored' = authored
    BY <1>9 DEF EndRun
  <2>2. \A c \in Columns : saved'[c] \in {columns[c], saved[c]}
    BY <2>1
  <2>3. Shaped(saved)' /\ Shaped(columns)'
    BY <2>1, <2>2 DEF Shaped
  <2>4. Bookkeeping' /\ (failures' = 0 => failures = 0)
    BY <1>9, <2>1 DEF Bookkeeping
  <2>. QED
    BY <2>1, <2>2, <2>3, <2>4 DEF Protected, Holds
<1>10. CASE UNCHANGED vars
  BY <1>10 DEF vars, runVars, Bookkeeping, Shaped, Protected, Holds
<1>11. CASE Step
  <2>1. ASSUME Commit PROVE AnchorInv'
    BY <2>1, <1>9 DEF Commit
  <2>. QED
    BY <1>11, <2>1, <1>5, <1>6, <1>7, <1>8 DEF Step
<1>12. CASE CommitFails
  <2>1. PICK m \in scope \cap Unreliable : EndRun(scope \ {m})
    BY <1>12 DEF CommitFails
  <2>2. failures' = failures + 1
    BY <1>12 DEF CommitFails
  <2>. QED
    BY <2>1, <2>2, <1>9
<1>13. CASE Die
  <2>1. EndRun({}) /\ failures' = failures + 1
    BY <1>13 DEF Die
  <2>. QED
    BY <2>1, <1>9
<1>14. ASSUME NEW c \in Edited, NEW t, Describe(c, t) PROVE AnchorInv'
  BY <1>14, <1>2, PropagationAssumption
<1>15. ASSUME NEW c \in Edited, NEW o, SetOwner(c, o) PROVE AnchorInv'
  BY <1>15, <1>3, PropagationAssumption
<1>. QED
  BY <1>4, <1>10, <1>11, <1>12, <1>13, <1>14, <1>15 DEF Next

\* What a developer wrote under a named desc-owner, on a column CLL traces,
\* stays as written while every analysis succeeds (transforms.py:942-949, the
\* desc-owner rule of inherit_upstream_column_knowledge_cll).
THEOREM AnchorsKept == Spec => []TracedAnchorsKept
<1>1. AnchorInv => TracedAnchorsKept
  BY DEF AnchorInv, TracedAnchorsKept, Protected, Holds
<1>. QED
  BY InitAnchors, NextAnchors, <1>1, PTL DEF Spec
=============================================================================
