------------------------------ MODULE SqlQueries ------------------------------
(* Every query of at most three bodies over two base relations and the model's    *)
(* own one, built body by body: two CTEs and a final select, each reading the     *)
(* one before it, alone, joined or in a union with any earlier relation; and what  *)
(* the parser of SqlLineage should make of it.                                    *)
(*                                                                                *)
(* A query q is [depth, env, own, flows, whole, last, guessed]: how many bodies it *)
(* has, the parser's tables for all but the last, the names of the model's own     *)
(* relation, what the columns are made of without the self-reading branches and    *)
(* with them, the last body as the parser is given it, and whether the parser says *)
(* that it guesses somewhere.                                                      *)
EXTENDS SqlLineage

Names == <<"c1", "c2", "c3">>

Item(form, out, refs) == [form |-> form, out |-> out, refs |-> refs]
Of(scope, items) == [kind |-> "select", scope |-> scope, items |-> items]
Star == Item("star", "w", <<>>)
Bare(out, t, c) == Item("bare", out, << <<t, c>> >>)
LastOut(f, t) == Last(f[t]).out

\* Selects from one relation: a star, a column, a constant beside a column, and
\* items that use the name an item to their left defines.
Short(f, t) ==
    LET c == LastOut(f, t)
    IN  {Of(<<t>>, <<Star>>),
         Of(<<t>>, <<Bare(c, t, c)>>),
         Of(<<t>>, <<Item("constant", "n", <<>>), Bare("w", Unqualified, c)>>)}

Plain(f, t) ==
    LET c == LastOut(f, t)
    IN  Short(f, t) \cup
        {Of(<<t>>, <<Item("computed", "n", << <<t, c>> >>), Bare("w", Unqualified, "n")>>),
         Of(<<t>>, <<Item("constant", "n", <<>>),
                     Item("computed", "w", << <<Unqualified, "n">>, <<t, c>> >>)>>)}

\* Selects from a join; unqualified columns and a star only when no name clashes.
Joined(f, t, u) ==
    LET c == LastOut(f, t)
        d == LastOut(f, u)
    IN  {Of(<<t, u>>, <<Item("computed", "w", << <<t, c>>, <<u, d>> >>), Bare(d, u, d)>>)}
        \cup (IF Outs(f[t]) \cap Outs(f[u]) = {}
              THEN {Of(<<t, u>>, <<Star>>),
                    Of(<<t, u>>, <<Bare(d, Unqualified, d), Bare(c, Unqualified, c)>>)}
              ELSE {})

Width(f, s) == IF IsStar(s.items[1]) THEN Len(f[s.scope[1]]) ELSE Len(s.items)

Unions(f, t, u) ==
    {[kind |-> "union", branches |-> pair] :
        pair \in {p \in (Plain(f, t) \X Short(f, u)) \cup (Short(f, u) \X Plain(f, t)) :
                    Width(f, p[1]) = Width(f, p[2])}}

Latest(q) == IF q.depth = 0 THEN {"a", Self} ELSE {Names[q.depth]}

Bodies(q) ==
    LET f == q.flows
    IN  UNION {Plain(f, t)
               \cup UNION {Joined(f, t, u) \cup Joined(f, u, t) : u \in DOMAIN f \ {t}}
               \cup UNION {Unions(f, t, u) : u \in DOMAIN f} : t \in Latest(q)}

EmptyQuery ==
    [kind |-> "query", depth |-> 0, env |-> NoCtes, own |-> {Self}, flows |-> BaseFlows,
     whole |-> BaseFlows, last |-> <<>>, guessed |-> FALSE]

\* Dropping the self-reading branches must leave the names of the columns.
Fits(q, body) ==
    LET names == IF q.depth = 0 THEN q.own ELSE SelfNames(q.own, Names[q.depth], q.last)
        outs == Flows(q.flows, body)
    IN  /\ Cardinality(Outs(outs)) = Len(outs)
        /\ Outs(Flows(q.flows, WithoutSelf(names, body))) = Outs(outs)

AddBody(q, body) ==
    LET before == IF q.depth = 0 THEN q.env ELSE Extend(q.env, Names[q.depth], q.last)
        names == IF q.depth = 0 THEN q.own ELSE SelfNames(q.own, Names[q.depth], q.last)
        kept == WithoutSelf(names, body)
    IN  [kind |-> "query", depth |-> q.depth + 1, env |-> before, own |-> names, last |-> kept,
         whole |-> With(q.whole, Names[q.depth + 1], Flows(q.whole, body)),
         flows |-> With(q.flows, Names[q.depth + 1], Flows(q.flows, kept)),
         guessed |-> Guesses(before, names, body) \/ Guesses(before, names, kept)]

\* A query the parser guesses about is not extended.
Longer(q) ==
    IF q.depth < 3 /\ ~q.guessed
    THEN {AddBody(q, body) : body \in {b \in Bodies(q) : Fits(q, b)}} ELSE {}

(* ---- What the parser should find ---------------------------------------------- *)

Truth(q, g) == LET f == g[Names[q.depth]] IN [c \in Outs(f) |-> FlowOf(f, c)]
NotSelf(from) == {c \in from : c[1] # Self}

\* Every output column is traced to exactly the base columns that flow into it; one
\* left out is one a final star passes on from a base relation under its own name.
TracesDataFlow(q) ==
    q.depth > 0 /\ ~q.guessed =>
        LET parse == Parse(q.env, q.last)
            truth == Truth(q, q.whole)
        IN  /\ DOMAIN parse \subseteq DOMAIN truth
            /\ \A c \in DOMAIN parse :
                  NotSelf(parse[c].sources) = NotSelf(truth[c].from)
            /\ \A c \in DOMAIN truth \ DOMAIN parse :
                  \E t \in Base : /\ <<t, c>> \in truth[c].from
                                  /\ NotSelf(truth[c].from) \subseteq {<<t, c>>}

\* A column called direct or renamed is passed on unchanged by every body.
PassesOn(q) ==
    q.depth > 0 /\ ~q.guessed =>
        LET parse == Parse(q.env, q.last)
            truth == Truth(q, q.flows)
        IN  \A c \in DOMAIN parse :
                parse[c].type \in {"direct", "renamed"} => truth[c].kind = "passed"
=============================================================================
