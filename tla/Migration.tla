------------------------------ MODULE Migration ------------------------------
(* The schema diff (commands/diff.py) between the columns a YAML file has for a   *)
(* node and those of its table, and the migration plan (commands/migration.py)     *)
(* made of it: the script that takes a table as the YAML describes it to the table *)
(* as it is, and its rollback.                                                     *)
(*                                                                                 *)
(* A comparison is a record [yaml, db, alike, dialect]: the columns of the YAML in *)
(* its order, each [name, type] with its name normalised (two spellings of a name  *)
(* are two columns), the table as a function from names to types, the pairs        *)
(* <<old, new>> of names fuzzy matching takes for a renamed column, and the        *)
(* dialect.  A type is [base, size, scale]; 0 is a size or scale that is not       *)
(* given, as the code tells neither apart.                                         *)
EXTENDS Naturals, SequencesExt

CONSTANT Refused  \* what is left of a table when a statement fails

(* ---- The diff ---------------------------------------------------------------- *)

\* The families, by the words they look for inside the normalised type.
Families == { {"bigint", "int", "integer", "smallint", "interval"}, {"varchar", "text"},
              {"timestamp", "datetime"}, {"date", "datetime"}, {"numeric"} }
Integers == <<"bigint", "int", "integer", "smallint">>
IndexOf(base) == CHOOSE i \in DOMAIN Integers : Integers[i] = base

Less(new, old) == old > 0 /\ new > 0 /\ new < old
Narrows(old, new) ==
    \/ old.base = new.base /\ (Less(new.size, old.size) \/ Less(new.scale, old.scale))
    \/ /\ {old.base, new.base} \subseteq ToSet(Integers)
       /\ IndexOf(old.base) < IndexOf(new.base)

Severity(old, new) ==
    CASE old = new -> "safe"
      [] old # new /\ \A f \in Families : ~({old.base, new.base} \subseteq f) -> "breaking"
      [] OTHER -> IF Narrows(old, new) THEN "moderate" ELSE "safe"

YamlNames(k) == {k.yaml[i].name : i \in DOMAIN k.yaml}
\* Of two spellings of a name the first is compared.
YamlType(k, name) == k.yaml[CHOOSE i \in DOMAIN k.yaml :
    k.yaml[i].name = name /\ \A j \in 1..(i - 1) : k.yaml[j].name # name].type
AddedNames(k) == DOMAIN k.db \ YamlNames(k)
RemovedNames(k) == YamlNames(k) \ DOMAIN k.db

\* Every removed column takes the added one that is most like it, if any is alike
\* enough; each is matched against all of the added ones.
Renames(k) ==
    LET matched == {old \in RemovedNames(k) : \E new \in AddedNames(k) : <<old, new>> \in k.alike}
    IN  {r \in [matched -> AddedNames(k)] : \A old \in matched : <<old, r[old]>> \in k.alike}

Change(op, name, to, severity) == [op |-> op, name |-> name, to |-> to, severity |-> severity]
Added(k, name) == Change("add", name, k.db[name], "safe")
Dropped(k, name) == Change("drop", name, YamlType(k, name), "moderate")
Moved(r, old) == Change("rename", old, r[old], "safe")
Retyped(k, name) == Change("type", name, k.db[name], Severity(YamlType(k, name), k.db[name]))

\* Mutant: a renamed column is added as well.
AddsAll(k, r) == {Added(k, n) : n \in AddedNames(k)}
Adds(k, r) == {Added(k, n) : n \in AddedNames(k) \ {r[old] : old \in DOMAIN r}}
Drops(k, r) == {Dropped(k, n) : n \in RemovedNames(k) \ DOMAIN r}
Types(k) == {Retyped(k, n) : n \in {m \in DOMAIN k.db \cap YamlNames(k) :
                                      YamlType(k, m) # k.db[m]}}

(* ---- The plan ---------------------------------------------------------------- *)

\* Renames, additions, changes of type and removals, in this order; the order among
\* changes of one kind is that of a Python set.
PlansFor(k, r) ==
    {renames \o adds \o types \o drops :
        renames \in SetToSeqs({Moved(r, old) : old \in DOMAIN r}), adds \in SetToSeqs(Adds(k, r)),
        types \in SetToSeqs(Types(k)), drops \in SetToSeqs(Drops(k, r))}

Without(f, names) == [n \in DOMAIN f \ names |-> f[n]]
With(f, name, v) == [n \in DOMAIN f \cup {name} |-> IF n = name THEN v ELSE f[n]]

AddColumn(table, name, type) == IF name \in DOMAIN table THEN Refused ELSE With(table, name, type)
DropColumn(table, name) == IF name \in DOMAIN table THEN Without(table, {name}) ELSE Refused
RenameColumn(table, old, new) ==
    IF old \in DOMAIN table /\ new \notin DOMAIN table
    THEN With(Without(table, {old}), new, table[old]) ELSE Refused
SetType(table, name, type) ==
    IF name \in DOMAIN table THEN With(table, name, type) ELSE Refused

\* What the SQL of a step does to the table; databricks gets a comment for a rename.
Execute(k, table, step) ==
    IF table = Refused THEN Refused
    ELSE CASE step.op = "add" -> AddColumn(table, step.name, step.to)
           [] step.op = "drop" -> DropColumn(table, step.name)
           [] step.op = "type" -> SetType(table, step.name, step.to)
           [] step.op = "rename" -> IF k.dialect = "databricks" THEN table
                                    ELSE RenameColumn(table, step.name, step.to)

\* What its rollback does; a dropped column cannot be restored.
Undo(k, table, step) ==
    IF table = Refused THEN Refused
    ELSE CASE step.op = "add" -> DropColumn(table, step.name)
           [] step.op = "drop" -> table
           [] step.op = "type" -> SetType(table, step.name, YamlType(k, step.name))
           [] step.op = "rename" -> RenameColumn(table, step.to, step.name)

Migrate(k, table, plan) == FoldLeft(LAMBDA t, s : Execute(k, t, s), table, plan)
RollBack(k, table, plan) == FoldLeft(LAMBDA t, s : Undo(k, t, s), table, Reverse(plan))

IsBreaking(k, step) ==
    CASE step.op = "drop" -> TRUE
      [] step.op = "add" -> FALSE
      [] step.op = "rename" -> k.dialect = "databricks"
      [] step.op = "type" -> step.severity = "breaking"
SafeSteps(k, plan) == SelectSeq(plan, LAMBDA s : ~IsBreaking(k, s))

(* ---- What they promise ------------------------------------------------------- *)

Described(k) == [n \in YamlNames(k) |-> YamlType(k, n)]
Collides(r) == \E x, y \in DOMAIN r : x # y /\ r[x] = r[y]

\* The script runs on the table the YAML describes and leaves the columns of the
\* real one, with its types but for a renamed column, which keeps its own; then the
\* rollback, run after it, brings back what the YAML describes but for the dropped
\* columns.  Not so when two columns are taken for the same renamed one.
ScriptRoundTrip(k, r, plan) ==
    LET reached == Migrate(k, Described(k), plan)
    IN  (~Collides(r) /\ k.dialect # "databricks") =>
          /\ reached # Refused
          /\ DOMAIN reached = DOMAIN k.db
          /\ \A n \in DOMAIN k.db \ {r[old] : old \in DOMAIN r} : reached[n] = k.db[n]
          /\ RollBack(k, reached, plan) = Without(Described(k), RemovedNames(k) \ DOMAIN r)

\* The steps not marked breaking keep each column the YAML describes, under its name
\* or the new one, and with a type of its family.
SafeStepsKeepColumns(k, r, plan) ==
    LET reached == Migrate(k, Described(k), SafeSteps(k, plan))
    IN  ~Collides(r) =>
          \A n \in YamlNames(k) :
             LET now == IF n \in DOMAIN r /\ k.dialect # "databricks" THEN r[n] ELSE n
             IN  /\ reached # Refused /\ now \in DOMAIN reached
                 /\ \/ reached[now] = YamlType(k, n)
                    \/ \E f \in Families : {reached[now].base, YamlType(k, n).base} \subseteq f

\* No change of type is narrowing in both directions, unless size and scale change
\* in opposite ways.
NarrowingHasDirection(old, new) ==
    Narrows(old, new) /\ Narrows(new, old) => Less(new.size, old.size) # Less(new.scale, old.scale)
=============================================================================
