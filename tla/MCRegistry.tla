------------------------------ MODULE MCRegistry ------------------------------
(* An instance of Registry for TLC: k reads mid and s1 with `select *`, mid joins *)
(* p with q, and q with s1, without qualifying its columns, q reads p with `*`,  *)
(* and p is incremental and reads itself in a join and with `*`.  Of the models  *)
(* k and q have documented columns.  An edit gives q another column, or breaks   *)
(* p, which an artefact that covers q alone does not notice.                     *)
EXTENDS Registry

CONSTANTS p, q, mid, k, s1, s2, x, y, v1, v2, t1, t2

ManifestOrder == <<k, mid, q, p>>
YamlColumns == [r \in {p, q, mid, k, s1, s2} |->
                  CASE r = s1 -> {x} [] r = s2 -> {y} [] r \in {k, q} -> {x, y} [] OTHER -> {}]
Item(out, col, scope) == [out |-> out, col |-> col, scope |-> scope]
Text(items, stars) == [items |-> items, stars |-> stars, breaks |-> FALSE]
Broken == [items |-> {}, stars |-> {}, breaks |-> TRUE]
ManifestTexts ==
    [r \in {p, q, mid, k} |-> [v \in {v1, v2} |->
        CASE r = p -> IF v = v1 THEN Text({Item(x, x, <<s1, p>>)}, {p}) ELSE Broken
          [] r = q -> IF v = v1 THEN Text({Item(y, y, <<s2>>)}, {p})
                      ELSE Text({Item(x, y, <<s2>>)}, {})
          [] r = mid -> Text({Item(y, y, <<p, q>>), Item(x, x, <<q, s1>>)}, {})
          [] r = k -> Text({}, {mid, s1})]]
Edited == {p, q}
Selections == {Models, {mid, k}, {q}}

\* The instance is one the theorem of RegistryProofs is about.
ModelRank == [r \in {p, q, mid, k, s1, s2} |->
                CASE r \in {s1, s2} -> 0 [] r = p -> 1 [] r = q -> 2 [] r = mid -> 3
                  [] OTHER -> 4]
ASSUME ProjectIsCovered == \A w \in [Models -> Versions] : Ranks(w, ModelRank)
===============================================================================
