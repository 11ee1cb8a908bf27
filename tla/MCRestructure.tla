---------------------------- MODULE MCRestructure ----------------------------
(* Three files, a model, the two versions of another, and a source of two    *)
(* tables, in one entry, in two entries of a file or in two files.            *)
EXTENDS Restructure

CONSTANTS m1, v1, v2, single, versioned, t1, t2, p1, p2, p3

Versions == (m1 :> single) @@ (v1 :> versioned) @@ (v2 :> versioned)
SymmetricNames ==
  Permutations({p2, p3}) \cup Permutations({t1, t2}) \cup Permutations({v1, v2})
=============================================================================
