---------------------------- MODULE SchemaStore -----------------------------
(***************************************************************************)
(* What synchronising nodes into their schema files promises: each file is *)
(* updated one entry at a time, atomically, and nothing else in it moves;  *)
(* a node is reported "ok" only when its entry is up to date on disk.      *)
(***************************************************************************)
CONSTANTS Paths, Nodes, Home

VARIABLES file,      \* path -> file content, as in YamlBuffer
          outcome    \* node -> what the batch reports of it

vars == <<file, outcome>>

Init ==
  /\ \A p \in Paths : \A n \in Nodes :
        /\ file[p].entries[n] \in {"absent", "old"}
        /\ Home[n] # p => file[p].entries[n] = "absent"
  /\ outcome = [n \in Nodes |-> "pending"]

\* The one write of a node's sync: its entry becomes current, the rest of the
\* file and its preserved sections stay.  An entry of the same file whose own
\* write failed earlier may still be in the buffered document, and go with it.
Publish(n, late) ==
  /\ outcome[n] = "pending"
  /\ \A m \in late : Home[m] = Home[n] /\ outcome[m] = "failed"
  /\ file' = [file EXCEPT ![Home[n]] =
                [state |-> "whole",
                 entries |-> [m \in Nodes |-> IF m \in late \cup {n} THEN "new"
                                             ELSE @.entries[m]],
                 kept |-> @.kept]]
  /\ UNCHANGED outcome

Report(n) ==
  /\ outcome[n] = "pending" /\ file[Home[n]].entries[n] = "new"
  /\ outcome' = [outcome EXCEPT ![n] = "ok"]
  /\ UNCHANGED file

Fail(n) ==
  /\ outcome[n] = "pending"
  /\ outcome' = [outcome EXCEPT ![n] = "failed"]
  /\ UNCHANGED file

\* The process dies; the next run starts over from what is on disk.
Restart ==
  /\ outcome' = [n \in Nodes |-> "pending"]
  /\ UNCHANGED file

Next ==
  \/ Restart
  \/ \E n \in Nodes :
       \/ \E late \in SUBSET Nodes : Publish(n, late)
       \/ Report(n) \/ Fail(n)

Spec == Init /\ [][Next]_vars
=============================================================================
