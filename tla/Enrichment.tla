------------------------------ MODULE Enrichment ------------------------------
(* The enrichment of YAML files from an external catalogue of descriptions         *)
(* (enrichment/_engine.py, _merge.py, _yaml.py): collect the columns that may be    *)
(* described, fetch, merge, write, and clean the files of models that are anchored  *)
(* as a whole.                                                                      *)
(*                                                                                  *)
(* files is a sequence of [models, rest], rest telling whether the file has other   *)
(* sections; a model is [name, own, legacy, columns], a column [name, own, legacy,  *)
(* text], own the anchor under config.meta and legacy the one under meta.  Names    *)
(* of columns are upper-case here, as they are wherever the engine compares them.   *)
(* A run of a script is [value, frozen, force, globs, skip, found, dry]: the anchor  *)
(* it writes, the anchors it respects, the models it anchors as a whole, the columns *)
(* it leaves alone, and a function with the texts the fetcher finds.                *)
EXTENDS Naturals, Sequences, SequencesExt, FiniteSets, FiniteSetsExt, Functions

CONSTANTS
    NoAnchor,
    NoText,          \* an empty description
    Autos,           \* the texts replaceable_pattern matches
    LongText,        \* a text too long for one line
    WrappedText,     \* the same, wrapped
    Extends(_, _)    \* Extends(old, new): old begins with new

(* ---- Anchors ---- *)

AnchorOf(entry) == IF entry.own # NoAnchor THEN entry.own ELSE entry.legacy
SetAnchor(entry, value) == [entry EXCEPT !.own = value, !.legacy = NoAnchor]
StripAnchor(entry) == [entry EXCEPT !.own = NoAnchor, !.legacy = NoAnchor]

(* ---- Collect, fetch, merge ---- *)

Replaceable(text) == text = NoText \/ text \in Autos

\* Mutant: frozen anchors are not looked at.
EnrichableUnfrozen(s, model, col) ==
    /\ AnchorOf(model) \notin s.frozen
    /\ col.name \notin s.skip
    /\ s.force \/ Replaceable(col.text)
Enrichable(s, model, col) ==
    /\ AnchorOf(model) \notin s.frozen
    /\ col.name \notin s.skip
    /\ AnchorOf(col) \notin s.frozen
    /\ s.force \/ Replaceable(col.text)

\* merge_description, None when nothing is to change; with force the caller takes
\* the old text for None, which anchors the column all the same.
MergeDescription(s, old, new) ==
    CASE Replaceable(old) -> {new}
      [] ~Replaceable(old) /\ Extends(old, new) -> {}
      [] OTHER -> IF s.force THEN {new} ELSE {}
NewText(s, col) ==
    IF col.name \notin DOMAIN s.found THEN {}
    ELSE LET merged == MergeDescription(s, col.text, s.found[col.name])
         IN  IF merged = {} /\ s.force THEN {col.text} ELSE merged

\* The updates of a file, by the names of model and column; of columns with the
\* same names the last one collected gives the text.
SlotsOf(file) == UNION {{<<m, c>> : c \in DOMAIN file.models[m].columns} : m \in DOMAIN file.models}
NamesAt(file, at) == <<file.models[at[1]].name, file.models[at[1]].columns[at[2]].name>>
Later(x, y) == x[1] > y[1] \/ (x[1] = y[1] /\ x[2] > y[2])
Updates(s, file) ==
    LET at(x) == file.models[x[1]].columns[x[2]]
        work == {x \in SlotsOf(file) : /\ Enrichable(s, file.models[x[1]], at(x))
                                       /\ NewText(s, at(x)) # {}}
        last(n) == CHOOSE x \in work : /\ NamesAt(file, x) = n
                                       /\ \A y \in work : NamesAt(file, y) = n => ~Later(y, x)
    IN  [n \in {NamesAt(file, x) : x \in work} |-> CHOOSE t \in NewText(s, at(last(n))) : TRUE]

(* ---- Write ---- *)

\* render_model_yml writes the models only, and wraps what does not fit a line.
Render(file) ==
    LET shown(col) == [col EXCEPT !.text = IF @ = LongText THEN WrappedText ELSE @]
    IN  [models |-> [m \in DOMAIN file.models |->
                       [file.models[m] EXCEPT !.columns = [c \in DOMAIN @ |-> shown(@[c])]]],
         rest |-> FALSE]

WriteColumn(s, updates, whole, model, col) ==
    LET name == <<model.name, col.name>>
        described == IF name \in DOMAIN updates THEN [col EXCEPT !.text = updates[name]] ELSE col
    IN  IF whole THEN StripAnchor(described)
        ELSE IF name \in DOMAIN updates THEN SetAnchor(described, s.value) ELSE described

WriteModel(s, updates, model) ==
    LET whole == model.name \in s.globs /\ \E n \in DOMAIN updates : n[1] = model.name
        columns == [c \in DOMAIN model.columns |->
                      WriteColumn(s, updates, whole, model, model.columns[c])]
        kept == [model EXCEPT !.columns = columns]
    IN  IF whole THEN SetAnchor(kept, s.value) ELSE kept

WriteFile(s, file) ==
    Render([file EXCEPT !.models = [m \in DOMAIN @ |-> WriteModel(s, Updates(s, file), @[m])]])

\* The cleanup pass: the models anchored as a whole of a file without updates.
CleanModel(s, model) ==
    IF model.name \notin s.globs THEN model
    ELSE LET kept == [model EXCEPT !.columns = [c \in DOMAIN @ |-> StripAnchor(@[c])]]
         IN  IF AnchorOf(model) # s.value THEN SetAnchor(kept, s.value) ELSE kept
CleanFile(s, file) ==
    LET cleaned == [file EXCEPT !.models = [m \in DOMAIN @ |-> CleanModel(s, @[m])]]
    IN  IF cleaned # file THEN Render(cleaned) ELSE file

\* enrich_yaml_files; without any update it returns before the cleanup pass.
Enrich(s, files) ==
    IF s.dry \/ \A f \in DOMAIN files : DOMAIN Updates(s, files[f]) = {} THEN files
    ELSE [f \in DOMAIN files |-> IF DOMAIN Updates(s, files[f]) # {}
                                 THEN WriteFile(s, files[f]) ELSE CleanFile(s, files[f])]

(* ---- What it promises -------------------------------------------------------- *)

\* A model anchored as a whole has no column or anchor the script should respect:
\* the engine replaces and strips those of such a model without looking at them.
GlobsAreFree(s, files) ==
    \A f \in DOMAIN files : \A m \in DOMAIN files[f].models :
        LET model == files[f].models[m]
        IN  model.name \in s.globs =>
              /\ AnchorOf(model) \notin s.frozen \ {s.value}
              /\ \A c \in DOMAIN model.columns : AnchorOf(model.columns[c]) \notin s.frozen \ {s.value}

SameText(old, new) == new = old \/ (old = LongText /\ new = WrappedText)

\* A second run of a script finds nothing to do.
RunSettles(s, files) ==
    GlobsAreFree(s, files) => LET once == Enrich(s, files) IN Enrich(s, once) = once

\* After any runs of scripts, a column whose anchor or whose model's anchor each of
\* them respects has its text and anchors as before; and without force no text
\* somebody wrote changes.  Two columns of a model whose names differ in case only
\* share the update of either.
OwnersKept(runs, files) ==
    LET after == FoldLeft(LAMBDA fs, s : Enrich(s, fs), files, runs)
    IN  (\A i \in DOMAIN runs : GlobsAreFree(runs[i], files)) =>
        \A f \in DOMAIN files : \A x \in SlotsOf(files[f]) :
            LET model == files[f].models[x[1]]  col == model.columns[x[2]]
                now == after[f].models[x[1]].columns[x[2]]
                alone == \A y \in SlotsOf(files[f]) \ {x} : NamesAt(files[f], y) # NamesAt(files[f], x)
                respected(s) == {AnchorOf(model), AnchorOf(col)} \cap (s.frozen \ {s.value}) # {}
            IN  alone =>
                /\ (\A i \in DOMAIN runs : respected(runs[i])) =>
                      /\ SameText(col.text, now.text)
                      /\ AnchorOf(now) = AnchorOf(col)
                /\ (\A i \in DOMAIN runs : ~runs[i].force) /\ ~Replaceable(col.text)
                      => SameText(col.text, now.text)
=============================================================================
