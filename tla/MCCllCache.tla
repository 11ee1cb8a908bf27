----------------------------- MODULE MCCllCache -----------------------------
(* Instances of CllCache for TLC. *)
EXTENDS CllCache

CONSTANTS a, b, c, v1, v2, v3, v4, w1, w2

TwoModels == {a, b}
ThreeModels == {a, b, c}
FourVersions == {v1, v2, v3, v4}
OneWorker == {w1}
TwoWorkers == {w1, w2}
OnlyA == {a}
\* Versions of one model: one name, so one entry in the disk cache.
SharedName == [m \in Models |-> a]
\* The first file can be edited, and the two can never be alike.
TextsDiffer == [m \in Models |-> IF m = a THEN {v1, v2} ELSE {v3}]
\* A third model has a name, and an entry, of its own.
TwoNames == [m \in Models |-> IF m = c THEN c ELSE a]
OneEditable == [m \in Models |-> CASE m = a -> {v1, v2} [] m = b -> {v3} [] OTHER -> {v4}]
Everything == {Models}
WithoutB == {{a, c}}
=============================================================================
