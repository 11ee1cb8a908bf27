----------------------------- MODULE ColumnSync -----------------------------
(* The pipelines of `refactor` and `document` (cli/main.py) over one node: the   *)
(* column operations of transforms.py, the commit modes of TransformPipeline and *)
(* the merge of the node into its schema file (_sync_doc_section).               *)
(*                                                                               *)
(* A name is a letter, a number here, in a case; the manifest and the file hold  *)
(* sequences of columns.  A column has a text and a type, and in the file also   *)
(* what the manifest knows nothing of (tests, unrendered jinja): extra.          *)
(*                                                                               *)
(* Inheritance and annotation, which run between Remove and Sort, write texts    *)
(* only and are the module Propagation.  Left out: the skip-* options, patterns  *)
(* of columns to ignore, prefer-yaml-values, the classic and the fusion layout   *)
(* of meta and tags, and formatting.                                             *)
EXTENDS Naturals, Sequences, FiniteSets, SequencesExt

CONSTANTS
    Letters,      \* column names, in alphabetical order
    Texts,        \* descriptions a user or the warehouse may give a column
    NoText,       \* no description
    NoType,       \* no data type
    WarehouseType,\* the data type the warehouse reports
    Configs,      \* records [kind, adapter, output, command, sortBy, mode, dryRun]
    Respelled,    \* sort orders for which the first file may spell names in any case
    MaxRuns,      \* bound on the runs of the command
    MaxEdits      \* bound on the edits between them

ASSUME ColumnAssumption ==
    /\ Letters \subseteq Nat /\ IsFiniteSet(Letters)
    /\ Texts # {} /\ NoText \notin Texts /\ NoType # WarehouseType
    /\ Configs \subseteq
         [kind : {"model", "source"}, adapter : {"snowflake", "other"},
          output : {"asis", "lower", "upper"}, command : {"refactor", "document"},
          sortBy : {"database", "alphabetical"}, mode : {"none", "batch", "atomic"},
          dryRun : BOOLEAN]
    /\ MaxRuns \in Nat /\ MaxEdits \in Nat

VARIABLES
    config,     \* what the command line and the project say, for every run
    warehouse,  \* the node's columns in order: [letter, comment]
    yaml,       \* the node's section in its file: [name, text, type, extra]
    columns,    \* the node's columns in the manifest: [name, text, type]
    doc,        \* the buffered section, which a dry run changes as well
    pc,         \* the operations still to run; "idle" between runs
    reached,    \* the database in this run: "unasked", "failed", or it has answered
                \* ("always" or "late") and its answer is cached
    cll,        \* lineage knows the model's columns in this run
    mutated,    \* what --check reports
    before,     \* the file when the run began
    steady,     \* what a run was answered, until something is edited
    runs, edits

vars == <<config, warehouse, yaml, columns, doc, pc, reached, cll, mutated,
          before, steady, runs, edits>>

Case == {"lower", "upper"}
Name(l, c) == [letter |-> l, case |-> c]
Cased(name, c) == [name EXCEPT !.case = c]

\* normalize_column_name: Snowflake folds to upper case, the others keep the case.
Normal(name) == IF config.adapter = "snowflake" THEN Cased(name, "upper") ELSE name

CaseInsensitive == config.output # "asis"
Folded(name) == IF CaseInsensitive THEN Cased(name, "lower") ELSE name
Output(name) == IF CaseInsensitive THEN Cased(name, config.output) ELSE name

\* A Python dict: a new key goes to the end, a known one keeps its place.
Put(cols, col) ==
    IF \E i \in DOMAIN cols : cols[i].name = col.name
    THEN [i \in DOMAIN cols |-> IF cols[i].name = col.name THEN col ELSE cols[i]]
    ELSE Append(cols, col)

NamesOf(cols) == {cols[i].name : i \in DOMAIN cols}
At(cols, name) == cols[CHOOSE i \in DOMAIN cols : cols[i].name = name]

(* ---- Where the operations take the columns from ---------------------------- *)

Incoming(name, text, type) == [name |-> name, text |-> text, type |-> type]

\* get_model_columns_from_cll: lower case, no comment and no type.
FromCll == [i \in DOMAIN warehouse |->
              Incoming(Name(warehouse[i].letter, "lower"), NoText, NoType)]

\* get_columns: the name the adapter reports, normalized.
FromDatabase ==
    [i \in DOMAIN warehouse |->
        Incoming(Normal(Name(warehouse[i].letter, "lower")), warehouse[i].comment, WarehouseType)]

(* ---- The operations, on the manifest's columns ------------------------------ *)

\* inject_missing_columns: what is there is looked up once, before the loop.
Injected(cols, incoming) ==
    LET current == {Folded(Normal(n)) : n \in NamesOf(cols)}
        Present(acc, inc) ==
            \E i \in DOMAIN acc :
                Cased(Normal(acc[i].name), "lower") = Cased(inc.name, "lower")
        Step(acc, inc) ==
            IF Folded(inc.name) \notin current
            THEN Put(acc, [name |-> Output(inc.name), text |-> inc.text, type |-> inc.type])
            ELSE IF config.kind = "source" /\ inc.text # NoText /\ Present(acc, inc)
            THEN LET i == CHOOSE j \in DOMAIN acc :
                            /\ Cased(Normal(acc[j].name), "lower") = Cased(inc.name, "lower")
                            /\ \A k \in 1..(j - 1) :
                                Cased(Normal(acc[k].name), "lower") # Cased(inc.name, "lower")
                 IN  [acc EXCEPT ![i].text = inc.text]
            ELSE acc
    IN  FoldLeft(Step, cols, incoming)

\* Mutant: names are compared as they are spelled.
RemovedAsSpelled(cols, incoming) ==
    SelectSeq(cols, LAMBDA col : \E inc \in ToSet(incoming) : inc.name = Normal(col.name))
\* remove_columns_not_in_database: of names that compare equal, the last stands
\* for all of them.
Removed(cols, incoming) ==
    LET Compared(i) == Folded(Normal(cols[i].name))
        wanted == {Folded(inc.name) : inc \in ToSet(incoming)}
        popped == {i \in DOMAIN cols :
                     /\ Compared(i) \notin wanted
                     /\ \A j \in DOMAIN cols : j > i => Compared(j) # Compared(i)}
    IN  FlattenSeq([i \in DOMAIN cols |-> IF i \in popped THEN <<>> ELSE <<cols[i]>>])

StableSort(cols, Key(_)) ==
    LET Before(i, j) == \/ Key(cols[i].name) < Key(cols[j].name)
                        \/ Key(cols[i].name) = Key(cols[j].name) /\ i < j
    IN  [k \in DOMAIN cols |->
            cols[CHOOSE i \in DOMAIN cols :
                    Cardinality({j \in DOMAIN cols : Before(j, i)}) = k - 1]]

\* Mutant: positions are looked up by exact spelling.
SortedAsSpelled(cols, incoming) ==
    LET Position(name) ==
            IF \E i \in DOMAIN incoming : incoming[i].name = name
            THEN CHOOSE i \in DOMAIN incoming : incoming[i].name = name
            ELSE Len(incoming) + 1
    IN  StableSort(cols, Position)
\* sort_columns_as_in_database: an unknown column goes to the end.
SortedAsWarehouse(cols, incoming) ==
    LET Position(name) ==
            IF \E i \in DOMAIN incoming : incoming[i].name = Normal(name)
            THEN CHOOSE i \in DOMAIN incoming : incoming[i].name = Normal(name)
            ELSE Len(incoming) + 1
    IN  StableSort(cols, Position)

\* sort_columns_alphabetically, by the name as it will be written; upper case
\* letters come before lower case ones.
SortedByName(cols) ==
    LET Rank(name) ==
            LET out == Output(name)
            IN  out.letter + (IF out.case = "lower" THEN 1 + Cardinality(Letters) ELSE 0)
    IN  StableSort(cols, Rank)

\* synchronize_data_types.
Typed(cols, incoming) ==
    LET For(name) ==
            {inc \in ToSet(incoming) :
                \/ inc.name = Normal(name)
                \/ CaseInsensitive /\ Cased(inc.name, "lower") = Cased(name, "lower")}
    IN  [i \in DOMAIN cols |->
            IF \E inc \in For(cols[i].name) : inc.type # NoType
            THEN [cols[i] EXCEPT !.type = WarehouseType] ELSE cols[i]]

(* ---- _sync_doc_section ------------------------------------------------------- *)

\* For each column of the node the entry of that normalized name, the last of
\* several, is overwritten; entries of no column are dropped.
Synced(cols, section) ==
    LET Same(col) == {i \in DOMAIN section : Normal(section[i].name) = Normal(col.name)}
        Entry(col) ==
            LET found == Same(col) # {}
                old == section[CHOOSE i \in Same(col) : \A j \in Same(col) : j <= i]
            IN  [name |-> Output(col.name), text |-> col.text,
                 type |-> IF col.type = NoType /\ found THEN old.type ELSE col.type,
                 extra |-> found /\ old.extra]
    IN  [i \in DOMAIN cols |-> Entry(cols[i])]

\* What dbt makes of the file when it parses the project.
Parsed(section) ==
    FoldLeft(LAMBDA acc, e : Put(acc, [name |-> e.name, text |-> e.text, type |-> e.type]),
             <<>>, section)

(* ---- The pipeline ------------------------------------------------------------ *)

\* refactor and document, in the order of cli/main.py.
Pipeline == IF config.command = "refactor"
            THEN <<"inject", "remove", "sort", "types">> ELSE <<"inject", "sort">>

\* One parse of the project at the start; compiling may or may not give lineage.
Start ==
    /\ pc = <<"idle">> /\ runs < MaxRuns
    /\ pc' = Pipeline
    /\ columns' = Parsed(yaml) /\ doc' = yaml /\ before' = yaml
    /\ cll' \in IF config.kind = "source" THEN {FALSE} ELSE BOOLEAN
    /\ reached' = "unasked" /\ mutated' = FALSE /\ runs' = runs + 1
    /\ UNCHANGED <<config, warehouse, yaml, steady, edits>>

\* Mutant: a column is committed without comparing it with the file.
CommittedUncompared(cols) ==
    LET section == Synced(cols, doc)
    IN  /\ doc' = section
        /\ mutated' = TRUE
        /\ yaml' = IF config.dryRun THEN yaml ELSE section
\* sync_node_to_yaml with commit, and the counter behind --check.
Committed(cols) ==
    LET section == Synced(cols, doc)
    IN  /\ doc' = section
        /\ mutated' = (mutated \/ section # yaml)
        /\ yaml' = IF config.dryRun THEN yaml ELSE section

\* The end of an operation: an atomic pipeline commits here.
Done(cols) ==
    /\ pc' = Tail(pc)
    /\ columns' = cols
    /\ IF config.mode = "atomic" THEN Committed(cols)
       ELSE UNCHANGED <<doc, mutated, yaml>>

Perform(op, incoming) ==
    CASE op = "inject" -> Injected(columns, incoming)
      [] op = "remove" -> Removed(columns, incoming)
      [] op = "sort" -> IF config.sortBy = "database"
                        THEN SortedAsWarehouse(columns, incoming)
                        ELSE SortedByName(columns)
      [] op = "types" -> Typed(columns, incoming)

Running(op) == pc # <<>> /\ Head(pc) = op

\* A model whose columns lineage knows.
WithLineage(op) ==
    /\ Running(op) /\ cll
    /\ Done(Perform(op, FromCll))
    /\ UNCHANGED <<config, warehouse, reached, cll, before, steady, runs, edits>>

\* A source, or with db-fallback-on-cll-failure a model, and the database answers.
WithDatabase(op) ==
    /\ Running(op) /\ ~cll
    /\ reached' = IF reached \in {"unasked", "always"} THEN "always" ELSE "late"
    /\ Done(Perform(op, FromDatabase))
    /\ UNCHANGED <<config, warehouse, cll, before, steady, runs, edits>>

\* Neither answers: the operation returns, and an alphabetical sort does not ask.
WithNothing(op) ==
    /\ Running(op) /\ ~cll /\ reached \in {"unasked", "failed"}
    /\ reached' = "failed"
    /\ Done(IF op = "sort" /\ config.sortBy # "database" THEN SortedByName(columns) ELSE columns)
    /\ UNCHANGED <<config, warehouse, cll, before, steady, runs, edits>>

NoAnswers == <<FALSE, "unasked">>
Answers == <<cll, reached>>

\* The end of the pipeline: a batch commits everything now; "none" never does.
Finish ==
    /\ pc = <<>>
    /\ pc' = <<"idle">>
    /\ IF config.mode = "batch" THEN Committed(columns)
       ELSE UNCHANGED <<doc, mutated, yaml>>
    /\ steady' = Answers
    /\ UNCHANGED <<config, warehouse, columns, reached, cll, before, runs, edits>>

(* ---- Between the runs -------------------------------------------------------- *)

Edit == pc = <<"idle">> /\ edits < MaxEdits /\ edits' = edits + 1 /\ steady' = NoAnswers
        /\ UNCHANGED <<config, columns, doc, pc, reached, cll, mutated, before, runs>>

Describe ==
    /\ Edit
    /\ \E i \in DOMAIN yaml, text \in Texts : yaml' = [yaml EXCEPT ![i].text = text]
    /\ UNCHANGED warehouse

AddToWarehouse ==
    /\ Edit
    /\ \E l \in Letters \ {warehouse[i].letter : i \in DOMAIN warehouse},
         comment \in Texts \cup {NoText}, at \in 1..(Len(warehouse) + 1) :
            warehouse' = InsertAt(warehouse, at, [letter |-> l, comment |-> comment])
    /\ UNCHANGED yaml

DropFromWarehouse ==
    /\ Edit /\ Len(warehouse) > 1
    /\ \E at \in DOMAIN warehouse : warehouse' = RemoveAt(warehouse, at)
    /\ UNCHANGED yaml

\* The file documents some of the columns, with tests, in the case the project
\* writes them in; where the output has a case of its own, in any case.
Documented(names) ==
    LET seq == SetToSeq(names)
    IN  [i \in DOMAIN seq |->
            [name |-> seq[i], text |-> CHOOSE t \in Texts : TRUE, type |-> NoType,
             extra |-> TRUE]]

Init ==
    /\ config \in Configs
    /\ \E letters \in (SUBSET Letters) \ {{}}, documented \in SUBSET Letters,
         case \in [Letters -> IF config.output = "asis" THEN {"lower"}
                              ELSE IF config.sortBy \in Respelled THEN Case
                              ELSE {config.output}] :
            /\ warehouse = [i \in DOMAIN SetToSeq(letters) |->
                              [letter |-> SetToSeq(letters)[i], comment |-> NoText]]
            /\ yaml = Documented({Name(l, case[l]) : l \in documented})
    /\ columns = <<>> /\ doc = <<>> /\ before = yaml
    /\ pc = <<"idle">> /\ reached = "unasked" /\ cll = FALSE /\ mutated = FALSE
    /\ steady = NoAnswers /\ runs = 0 /\ edits = 0

Operation(op) == WithLineage(op) \/ WithDatabase(op) \/ WithNothing(op)

Next ==
    \/ Start \/ Finish
    \/ \E op \in {"inject", "remove", "sort", "types"} : Operation(op)
    \/ Describe \/ AddToWarehouse \/ DropFromWarehouse

Spec == Init /\ [][Next]_vars

(* ---- Properties -------------------------------------------------------------- *)

\* On Snowflake a model's columns come from lineage in lower case and from the
\* manifest in upper case, so the output must have a case of its own; and an
\* atomic pipeline must not change the case, for what it commits is compared with
\* the manifest's spelling in the next operation.
CaseIsSettled(c) ==
    /\ ~(c.kind = "model" /\ c.adapter = "snowflake" /\ c.output = "asis")
    /\ c.mode = "atomic" => c.output = "asis"

CasesAreSettled == \A c \in Configs : CaseIsSettled(c)

\* Both commands commit, in either mode.
PipelinesCommit == \A c \in Configs : c.mode # "none"

\* A file to be sorted as in the database first spells its names as they are
\* written.
SpellingIsKept == "database" \notin Respelled

Entries(section, l) == {i \in DOMAIN section : section[i].name.letter = l}
InWarehouse == {warehouse[i].letter : i \in DOMAIN warehouse}
CommentOf(l) == (CHOOSE i \in DOMAIN warehouse : warehouse[i].letter = l)
Ended == pc = <<"idle">> /\ steady # NoAnswers

\* A column that was described when a run began, and that the node still has, is
\* described the same when it ends, whatever the operations in between saw of the
\* warehouse, and keeps what only the file knows; a source may take the
\* warehouse's comment (inject, remove and sync, with their three ways to compare
\* names).
DocumentationSurvives ==
    Ended => \A i \in DOMAIN before :
        LET e == before[i]
            l == e.name.letter
        IN  l \in InWarehouse =>
              \E j \in Entries(yaml, l) :
                 /\ e.extra => yaml[j].extra
                 /\ \/ e.text = yaml[j].text
                    \/ config.kind = "source" /\ yaml[j].text = warehouse[CommentOf(l)].comment

\* sort_columns_as_in_database, alone of the operations, compares names as they
\* are spelled: it places a column only when the manifest spells it as it is
\* reported, before the output case is applied and after.
Placed ==
    LET reported == NamesOf(IF cll THEN FromCll ELSE FromDatabase)
    IN  \A name \in NamesOf(before) \cup {Output(r) : r \in reported} :
            name.letter \in InWarehouse => Normal(name) \in reported

\* After a refactor the operations of which were all answered, the file has the
\* node's columns, each once, in the configured order.
FileAgrees ==
    Ended /\ config.command = "refactor" /\ ~config.dryRun
          /\ (cll \/ reached = "always") =>
        /\ Len(yaml) = Len(warehouse)
        /\ {yaml[i].name.letter : i \in DOMAIN yaml} = InWarehouse
        /\ (config.sortBy = "database" => Placed) => \A i, j \in DOMAIN yaml : i < j =>
              IF config.sortBy = "database"
              THEN CommentOf(yaml[i].name.letter) < CommentOf(yaml[j].name.letter)
              ELSE yaml[i].name.case = yaml[j].name.case
                   => yaml[i].name.letter < yaml[j].name.letter

\* A run after a run that was answered the same, with no edit between them, finds
\* nothing to change and --check passes.
SecondRunIsSilent ==
    [][Finish /\ steady = Answers /\ reached # "late" /\ ~config.dryRun
          => yaml' = before /\ ~mutated']_vars
=============================================================================
