---------------------------- MODULE MCYamlBuffer ----------------------------
(* Small instances of YamlBuffer: one node per file, or files shared by two  *)
(* nodes.                                                                     *)
EXTENDS YamlBuffer

CONSTANTS n1, n2, n3, p1, p2, p3

OwnFiles2 == (n1 :> p1) @@ (n2 :> p2)
SharedFile == (n1 :> p1) @@ (n2 :> p1)
SharedByThree == (n1 :> p1) @@ (n2 :> p1) @@ (n3 :> p1)
=============================================================================
