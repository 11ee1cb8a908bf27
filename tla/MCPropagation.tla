---------------------------- MODULE MCPropagation ----------------------------
(* A project of a source, raw, and models in three waves: stg reads raw, dim *)
(* and fact read stg, mart unites them.  dim lets descriptions through its    *)
(* rename, mart computes a column, stg has a glossary column that comes from  *)
(* a relation dbt does not know, and mart's y is anchored by its developer.   *)
EXTENDS Propagation, TLC

CONSTANTS raw, ext, stg, dim, fact, mart, x, y, k, w, one, uno, two, label

Single(m, name) == [kind |-> "single", from |-> << <<m, name>> >>]
Without(kind) == [kind |-> kind, from |-> << >>]

ProjectLineage ==
    (<<raw, x>> :> Without("untraced"))
    @@ (<<stg, x>> :> Single(raw, x)) @@ (<<stg, k>> :> Single(ext, k))
    @@ (<<dim, x>> :> Single(stg, x)) @@ (<<dim, y>> :> Single(stg, x))
    @@ (<<fact, x>> :> Single(stg, x))
    @@ (<<mart, x>> :> [kind |-> "union", from |-> << <<dim, x>>, <<fact, x>> >>])
    @@ (<<mart, y>> :> Single(dim, y)) @@ (<<mart, w>> :> Without("wall"))
ProjectColumns == DOMAIN ProjectLineage
ExternalColumns == {<<ext, k>>}
ProjectDepends ==
    (raw :> {}) @@ (stg :> {raw}) @@ (dim :> {stg}) @@ (fact :> {stg}) @@ (mart :> {dim, fact})
ProjectOwner ==
    (raw :> "this") @@ (stg :> "this") @@ (dim :> "upstream") @@ (fact :> "this")
    @@ (mart :> "upstream")
ProjectMode ==
    (raw :> "never") @@ (stg :> "if_altered") @@ (dim :> "if_altered") @@ (fact :> "always")
    @@ (mart :> "if_altered")
KeyGlossary == [c \in ProjectColumns |-> IF c = <<stg, k>> THEN two ELSE Empty]
AnchoredMart == [c \in ProjectColumns |-> IF c = <<mart, y>> THEN two ELSE Empty]
TwoMeanings == (one :> 1) @@ (uno :> 1) @@ (two :> 2)
SourceLabels == [c \in ProjectColumns |-> IF c[1] = raw THEN {label} ELSE {}]
EditedColumns == {<<raw, x>>, <<stg, x>>, <<dim, x>>}

\* The project is one of those the theorems are about.
ProjectRank ==
    [c \in ProjectColumns |-> CASE c[1] = raw -> 0 [] c[1] = stg -> 1
                                [] c[1] \in {dim, fact} -> 2 [] c[1] = mart -> 3]
ProjectHeight == (raw :> 0) @@ (stg :> 1) @@ (dim :> 2) @@ (fact :> 2) @@ (mart :> 3)
ASSUME ProjectIsCovered ==
    Ranks(ProjectRank) /\ Heights(ProjectHeight, 3) /\ RowsFollowRefs /\ GlossaryIsolated

AnyScope == {Models, {stg, mart}}
=============================================================================
