----------------------------- MODULE Propagation -----------------------------
(***************************************************************************)
(* How column descriptions travel through a dbt project: the passes        *)
(* inherit_upstream_column_knowledge_cll and annotate_column_origins of    *)
(* osmosis_propagation/transforms.py, with the lineage walks they share    *)
(* with integration/cll.py, over the life of several runs and edits.       *)
(*                                                                         *)
(* A column is a pair <<model, name>>.  Its description is a text, and the *)
(* annotation block osmosis appends to it, which is only there or not; its *)
(* meta is the desc-owner key; its tags and other meta are labels.  The    *)
(* walks read descriptions from the manifest, and from the YAML when the   *)
(* manifest has none: a run parses its manifest from that YAML and never   *)
(* blanks a real text, so the second read finds what the first did and is  *)
(* left out, as are the options skip-add-tags, skip-merge-meta and         *)
(* write-cll-tags-to-meta, at their defaults.                              *)
(***************************************************************************)
EXTENDS Naturals, Sequences, FiniteSets

CONSTANTS
    Columns,        \* columns of the project's sources and models
    Outside,        \* columns of relations no dbt node declares
    Sources,        \* models that are sources: no SQL, no lineage
    Lineage,        \* what CLL finds for each column of a model
    DependsOn,      \* depends_on.nodes of each model
    LayerOwner,     \* desc-owner of a model's layer
    ThroughRenames, \* models with inherit-through-renames
    Mode,           \* annotate-column-origin-infos of a model
    Glossary,       \* central documentation: a text, or Empty, per column
    Texts,          \* descriptions with content
    Meaning,        \* texts with one meaning are descriptions_equivalent
    Placeholder,    \* a text that counts as undocumented
    Empty,          \* no description
    Nowhere,        \* no origin; no column
    Unresolved,     \* no thread holds a walk's result for the column
    Labels,         \* tags and unmanaged meta keys
    InitialLabels,  \* labels a column is declared with
    Anchored,       \* text a developer wrote under a named desc-owner, or Empty
    SourceTexts,    \* bound: what a source column may be described with at first
    Edited,         \* bound: the columns developers edit between runs
    Unreliable,     \* bound: models whose analysis or write may fail
    Scopes,         \* candidate node sets a run may be started with
    Threads,        \* size of context.pool
    MaxDepth,       \* cll-max-origin-depth
    MaxEdits,       \* bound on edits by developers
    MaxFailures     \* bound on analyses and writes that fail, and on crashes

Models == {c[1] : c \in Columns}
ColumnsOf(models) == {c \in Columns : c[1] \in models}
Owners == {"unset", "upstream", "this", "anchor"}
Kinds == {"untraced", "born", "wall", "union", "single"}
Descriptions == Texts \cup {Placeholder, Empty}

\* What a walk finds, and the column it is from.
Resolutions == [text : Texts \cup {Empty}, origin : Columns \cup {Nowhere}]

\* Lineage[c].from: the branches of a union, the progenitor of a single-source
\* column; empty for a column no row traces, born here or computed here.
ASSUME PropagationAssumption ==
    /\ Outside \cap Columns = {} /\ Nowhere \notin Columns \cup Outside
    /\ Lineage \in [Columns -> [kind : Kinds, from : Seq(Columns \cup Outside)]]
    /\ \A c \in Columns : Lineage[c].kind = "single" => Len(Lineage[c].from) = 1
    /\ DependsOn \in [Models -> SUBSET Models]
    /\ LayerOwner \in [Models -> Owners \ {"unset"}]
    /\ Mode \in [Models -> {"never", "if_altered", "always"}]
    /\ Glossary \in [Columns -> Texts \cup {Empty}]
    /\ Placeholder \notin Texts \cup {Empty} /\ Empty \notin Texts /\ Unresolved \notin Resolutions
    /\ InitialLabels \in [Columns -> SUBSET Labels]
    /\ Anchored \in [Columns -> Texts \cup {Empty}] /\ Edited \subseteq Columns
    /\ SourceTexts \subseteq Texts \cup {Empty}
    /\ Scopes \subseteq SUBSET Models /\ Unreliable \subseteq Models \ Sources
    /\ Threads \in Nat \ {0} /\ MaxDepth \in Nat
    /\ MaxEdits \in Nat /\ MaxFailures \in Nat

VARIABLES
    saved,    \* the columns as the schema files have them
    columns,  \* the columns in the manifest of the running process
    phase,    \* where the run is
    scope,    \* its candidate nodes
    failed,   \* models whose analysis fails in this run
    pending,  \* columns the current pass has not taken yet
    resolved, \* column -> what its walk returned, while a thread holds it
    fresh,    \* history: models a clean run has covered since the last edit
    authored, \* history: the text a developer wrote under a named anchor
    edits, failures

runVars == <<columns, phase, scope, failed, pending, resolved>>
vars == <<saved, runVars, fresh, authored, edits, failures>>

States == [text : Descriptions, tagged : BOOLEAN, owner : Owners, labels : SUBSET Labels]
Nothing == [text |-> Empty, origin |-> Nowhere]

TypeOK ==
    /\ saved \in [Columns -> States]
    /\ columns \in [Columns -> States]
    /\ phase \in {"idle", "inherit", "annotate", "commit"}
    /\ scope \subseteq Models /\ failed \subseteq Models
    /\ pending \subseteq Columns
    /\ resolved \in [Columns -> Resolutions \cup {Unresolved}]
    /\ fresh \subseteq Models
    /\ authored \in [Columns -> Texts \cup {Empty}]
    /\ edits \in 0..MaxEdits /\ failures \in 0..MaxFailures

Untouched == [c \in Columns |-> Unresolved]

Init ==
    /\ \E source \in [ColumnsOf(Sources) -> SourceTexts] :
        saved = [c \in Columns |->
            [text |-> IF c[1] \in Sources THEN source[c] ELSE Anchored[c],
             tagged |-> FALSE,
             owner |-> IF c[1] \in Sources \/ Anchored[c] = Empty THEN "unset" ELSE "anchor",
             labels |-> InitialLabels[c]]]
    /\ columns = saved
    /\ phase = "idle" /\ scope = {} /\ failed = {} /\ pending = {}
    /\ resolved = Untouched
    /\ fresh = {}
    /\ authored = [c \in Columns |-> IF c[1] \in Sources THEN Empty ELSE Anchored[c]]
    /\ edits = 0 /\ failures = 0

-----------------------------------------------------------------------------
(* The lineage walks.  D is a state of all columns. *)

Same(s, t) == s # Empty /\ t # Empty /\ Meaning[s] = Meaning[t]

(* The stored description of c, unless it is a placeholder. *)
Own(D, c) == IF D[c].text = Placeholder THEN Empty ELSE D[c].text

Authority(D, c) == IF D[c].owner = "unset" THEN LayerOwner[c[1]] ELSE D[c].owner

(* Mutant: a copy is trusted like a text written here. *)
OwnsCopies(D, c) == TRUE
Owns(D, c) == Authority(D, c) # "upstream"

Untraced == [kind |-> "untraced", from |-> << >>]
Row(f, c) == IF c[1] \in f THEN Untraced ELSE Lineage[c]

(* A description crosses a hop that keeps the name, and a renaming hop only *)
(* into a model that opted in.                                              *)
Crosses(c, row) ==
    row.kind = "single" /\ (row.from[1][2] = c[2] \/ c[1] \in ThroughRenames)

(* The branches that have a text, the first of them, and whether they agree. *)
Described(branches) == {i \in DOMAIN branches : branches[i].text # Empty}
First(branches) ==
    branches[CHOOSE i \in Described(branches) : \A j \in Described(branches) : i <= j]
Agree(branches) ==
    /\ Described(branches) # {}
    /\ \A i \in Described(branches) : Same(First(branches).text, branches[i].text)

Here(D, c) == IF Own(D, c) = Empty THEN Nothing ELSE [text |-> Own(D, c), origin |-> c]

(* What a column hands down when upstream says up: its own text if it owns *)
(* one that differs, and otherwise what upstream says.                     *)
PassThrough(D, c, up) ==
    IF Owns(D, c) /\ Own(D, c) # Empty /\ ~Same(Own(D, c), up.text) THEN Here(D, c) ELSE up

(* What a walk that has visited some columns answers at c, given what the   *)
(* branches of c answered.  Its depth is the number of columns visited.      *)
Answer(D, f, visited, c, branches) ==
    LET row == Row(f, c)
    IN  IF c \in visited \cup Outside \/ Cardinality(visited) > MaxDepth THEN Nothing
        ELSE IF c[1] \in Sources THEN Here(D, c)
        ELSE IF row.kind = "union" /\ Agree(branches)
             THEN PassThrough(D, c, [text |-> First(branches).text, origin |-> Nowhere])
        ELSE IF Crosses(c, row) THEN PassThrough(D, c, branches[1])
        ELSE Here(D, c)

\* The columns a walk has visited, and the one it comes to.
Calls == (SUBSET Columns) \X (Columns \cup Outside)

ResolveCllDescription(D, f) ==
    LET walk[call \in Calls] ==
        Answer(D, f, call[1], call[2],
               [i \in DOMAIN Row(f, call[2]).from |->
                  walk[<<call[1] \cup {call[2]}, Row(f, call[2]).from[i]>>]])
    IN  walk

(* What the inherit pass finds upstream of c. *)
Upstream(D, f, c) ==
    LET row == Row(f, c)
        walk == ResolveCllDescription(D, f)
        branches == [i \in DOMAIN row.from |-> walk[<<{}, row.from[i]>>]]
    IN  IF row.kind = "union" /\ Agree(branches)
        THEN [text |-> First(branches).text, origin |-> Nowhere]
        ELSE IF Crosses(c, row) THEN branches[1] ELSE Nothing

(* get_column_origin: where the column is computed, or the source or first  *)
(* column it comes from.  Structure only, no descriptions.                  *)
Lost == [at |-> <<Nowhere, Nowhere>>, computed |-> FALSE]
ColumnOrigin(f) ==
    LET trace[depth \in Nat, c \in Columns \cup Outside] ==
        LET row == Row(f, c)
        IN  IF c[1] \in Sources THEN [at |-> c, computed |-> FALSE]
            ELSE IF c \in Outside \/ depth > MaxDepth \/ row.kind = "untraced" THEN Lost
            ELSE IF row.kind = "single" THEN trace[depth + 1, row.from[1]]
            ELSE [at |-> c, computed |-> row.kind # "born"]
    IN  trace

-----------------------------------------------------------------------------
(* Developers, between runs *)

MayEdit == phase = "idle" /\ edits < MaxEdits

Edit(c, state) ==
    /\ MayEdit
    /\ state # saved[c]
    /\ saved' = [saved EXCEPT ![c] = state]
    /\ columns' = saved'
    /\ authored' = [authored EXCEPT ![c] =
                      IF state.owner = "anchor" /\ state.text \in Texts THEN state.text ELSE Empty]
    /\ fresh' = {}
    /\ edits' = edits + 1
    /\ UNCHANGED <<phase, scope, failed, pending, resolved, failures>>

Describe(c, text) == Edit(c, [saved[c] EXCEPT !.text = text, !.tagged = FALSE])
SetOwner(c, owner) == c[1] \notin Sources /\ Edit(c, [saved[c] EXCEPT !.owner = owner])

-----------------------------------------------------------------------------
(* The passes, wave by wave *)

Highest(S) == CHOOSE d \in S : \A e \in S : e <= d

\* Longest path from a node without upstreams (dbt rejects cycles).
Depth[m \in Models] ==
    IF DependsOn[m] = {} THEN 0 ELSE 1 + Highest({Depth[u] : u \in DependsOn[m]})

InFlight == {c \in Columns : resolved[c] # Unresolved}

\* The columns of a node are handled one by one, in the order they are declared.
NextOf(m) == CHOOSE c \in pending : c[1] = m \/ \A d \in pending : d[1] # m

(* Mutant: no barrier between the waves. *)
AnyWave(c) == TRUE
(* A column's turn: every column of an earlier wave is done. *)
InWave(c) == \A d \in pending \cup InFlight : Depth[c[1]] <= Depth[d[1]]

(* A new process: its manifest is parsed from the schema files, and f are  *)
(* the models whose analysis is going to fail.                             *)
StartRun(s, f) ==
    /\ phase = "idle" /\ s \in Scopes
    /\ f = {} \/ failures < MaxFailures
    /\ phase' = "inherit" /\ scope' = s /\ failed' = f
    /\ pending' = ColumnsOf(s \ Sources)
    /\ failures' = failures + (IF f = {} THEN 0 ELSE 1)
    /\ UNCHANGED <<saved, columns, resolved, fresh, authored, edits>>

(* A thread walks upstream for the next column of its node, ... *)
Resolve(c) ==
    /\ phase = "inherit" /\ pending # {} /\ c = NextOf(c[1]) /\ InWave(c)
    /\ Cardinality(InFlight) < Threads
    /\ \A d \in InFlight : d[1] # c[1]
    /\ pending' = pending \ {c}
    /\ resolved' = [resolved EXCEPT ![c] = Upstream(columns, failed, c)]
    /\ UNCHANGED <<saved, columns, phase, scope, failed, fresh, authored, edits, failures>>

(* Mutant: desc-owner is read from the layer only. *)
LayerForces(D, c) == LayerOwner[c[1]] = "upstream"
(* An annotation without a text counts as empty and is always overwritten. *)
Forces(D, c) == Authority(D, c) = "upstream" \/ (D[c].text = Empty /\ D[c].tagged)
Blank(D, c) == D[c].text = Empty /\ ~D[c].tagged

Writes(D, c, up) == up.text # Empty /\ (Forces(D, c) \/ Blank(D, c))
InheritedText(D, c, up) == IF Writes(D, c, up) THEN up.text ELSE D[c].text

(* desc-owner: upstream goes onto a column that provably holds its text. *)
Injects(D, c, up) ==
    /\ Authority(D, c) = "this" /\ ~Forces(D, c)
    /\ up.origin \notin {Nowhere, c}
    /\ InheritedText(D, c, up) = up.text

InheritedLabels(D, f, c) ==
    LET row == Row(f, c)
        progenitor == {row.from[i] : i \in DOMAIN row.from} \cap Columns
    IN  D[c].labels \cup (IF row.kind = "single" THEN UNION {D[p].labels : p \in progenitor} ELSE {})

Inherited(D, f, c, up) ==
    [text |-> InheritedText(D, c, up),
     tagged |-> D[c].tagged /\ ~Writes(D, c, up),
     owner |-> IF Injects(D, c, up) THEN "upstream" ELSE D[c].owner,
     labels |-> InheritedLabels(D, f, c)]

(* ... and then writes what it decides into the manifest. *)
Apply(c) ==
    /\ c \in InFlight
    /\ columns' = [columns EXCEPT ![c] = Inherited(columns, failed, c, resolved[c])]
    /\ resolved' = [resolved EXCEPT ![c] = Unresolved]
    /\ UNCHANGED <<saved, phase, scope, failed, pending, fresh, authored, edits, failures>>

StartAnnotating ==
    /\ phase = "inherit" /\ pending = {} /\ InFlight = {}
    /\ phase' = "annotate" /\ pending' = ColumnsOf(scope \ Sources)
    /\ UNCHANGED <<saved, columns, scope, failed, resolved, fresh, authored, edits, failures>>

NoPlaceholder(text) == IF text = Placeholder THEN Empty ELSE text

(* The annotation of a traced column: whether it has one, and its text. *)
AnnotatedTrace(f, c, text) ==
    LET row == Row(f, c)
        deep == ColumnOrigin(f)[0, c]
        origin == IF deep = Lost THEN [at |-> row.from[1], computed |-> FALSE] ELSE deep
        annotates == Mode[c[1]] # "never"
    IN  IF row.kind \in {"union", "wall"}
        THEN [text |-> IF annotates THEN NoPlaceholder(text) ELSE text, tagged |-> annotates]
        ELSE IF origin.at[1] = c[1] THEN [text |-> text, tagged |-> FALSE]
        ELSE [text |-> NoPlaceholder(text),
              tagged |-> annotates /\ (origin.computed \/ origin.at[2] # c[2]
                                         \/ Mode[c[1]] = "always")]

(* Managed meta, desc-owner included, goes from a column of the glossary   *)
(* and from one without a row.                                             *)
Annotated(D, f, c) ==
    IF Glossary[c] # Empty
    THEN [D[c] EXCEPT !.text = Glossary[c], !.tagged = FALSE, !.owner = "unset"]
    ELSE IF Row(f, c).kind = "untraced"
    THEN [D[c] EXCEPT !.text = NoPlaceholder(@), !.tagged = FALSE, !.owner = "unset"]
    ELSE LET a == AnnotatedTrace(f, c, D[c].text)
         IN  [D[c] EXCEPT !.text = a.text, !.tagged = a.tagged]

(* annotate_column_origins on one node: no column reads another's text. *)
Annotate(m) ==
    LET mine == ColumnsOf({m}) IN
    /\ phase = "annotate" /\ mine # {} /\ mine \subseteq pending
    /\ \A c \in mine : InWave(c)
    /\ pending' = pending \ mine
    /\ columns' = [c \in Columns |-> IF c \in mine THEN Annotated(columns, failed, c)
                                     ELSE columns[c]]
    /\ UNCHANGED <<saved, phase, scope, failed, resolved, fresh, authored, edits, failures>>

StartCommitting ==
    /\ phase = "annotate" /\ pending = {}
    /\ phase' = "commit"
    /\ UNCHANGED <<saved, columns, scope, failed, pending, resolved, fresh, authored, edits, failures>>

(* The nodes of the scope are written; one whose write fails, and all of   *)
(* them when the run dies before, keep what they had.                      *)
EndRun(written) ==
    /\ written \subseteq scope
    /\ saved' = [c \in Columns |-> IF c[1] \in written THEN columns[c] ELSE saved[c]]
    /\ columns' = saved'
    /\ phase' = "idle" /\ scope' = {} /\ failed' = {} /\ pending' = {}
    /\ resolved' = Untouched
    /\ UNCHANGED <<authored, edits>>

Commit ==
    /\ phase = "commit" /\ EndRun(scope)
    /\ fresh' = IF failed = {} THEN fresh \cup scope ELSE {}
    /\ UNCHANGED failures

CommitFails ==
    /\ phase = "commit" /\ failures < MaxFailures
    /\ \E m \in scope \cap Unreliable :
          /\ EndRun(scope \ {m})
          /\ fresh' = IF failed = {} THEN fresh \cup (scope \ {m}) ELSE {}
    /\ failures' = failures + 1

Die ==
    /\ phase # "idle" /\ failures < MaxFailures
    /\ EndRun({})
    /\ failures' = failures + 1
    /\ UNCHANGED fresh

Step ==
    \/ \E c \in Columns : Resolve(c) \/ Apply(c)
    \/ \E m \in Models : Annotate(m)
    \/ StartAnnotating \/ StartCommitting \/ Commit

Next ==
    \/ \E c \in Edited, t \in Descriptions : Describe(c, t)
    \/ \E c \in Edited, o \in Owners : SetOwner(c, o)
    \/ \E s \in Scopes : StartRun(s, {}) \/ \E m \in Unreliable : StartRun(s, {m})
    \/ Step \/ CommitFails \/ Die

Spec == Init /\ [][Next]_vars

-----------------------------------------------------------------------------
(* Projects the theorems of PropagationProofs are about.  A walk or a wave   *)
(* has no defined end without the first and the third.                       *)

\* Columns can be ranked along their lineage, and no chain is longer than
\* cll-max-origin-depth.  dbt rejects a cycle of refs; an incremental model that
\* reads its own table has no such rank and is not covered.
Ranks(rank) ==
    /\ rank \in [Columns -> 0..MaxDepth]
    /\ \A c \in Columns : \A i \in DOMAIN Lineage[c].from :
         Lineage[c].from[i] \in Columns => rank[Lineage[c].from[i]] < rank[c]
ShallowLineage == \E rank \in [Columns -> 0..MaxDepth] : Ranks(rank)

\* No description comes from a column of the glossary to one outside it.  The
\* glossary is keyed by column name (transforms.py:1697), so only a renaming hop
\* of a model with inherit-through-renames, or a renaming union, could do that.
Carries(f, c) == Row(f, c).kind = "union" \/ Crosses(c, Row(f, c))
GlossaryIsolated ==
    \A c \in Columns : Glossary[c] = Empty /\ Carries({}, c) =>
        \A i \in DOMAIN Lineage[c].from :
            Lineage[c].from[i] \in Columns => Glossary[Lineage[c].from[i]] = Empty

\* dbt rejects a cycle of refs, so models have a height.
Heights(height, top) ==
    /\ top \in Nat /\ height \in [Models -> 0..top]
    /\ \A m \in Models : \A u \in DependsOn[m] : height[u] < height[m]
AcyclicModels == \E top \in Nat : \E height \in [Models -> 0..top] : Heights(height, top)

\* A column is copied from a relation its model refers to, never from one it
\* only names.
RowsFollowRefs ==
    \A c \in Columns :
        Lineage[c].kind = "single" /\ Lineage[c].from[1] \in Columns
            => Lineage[c].from[1][1] \in DependsOn[c[1]]

-----------------------------------------------------------------------------
(* Properties *)

(* The inherit pass computes a function of what the schema files say: the   *)
(* order of the threads and the waves, and what other columns have been     *)
(* given so far, do not show in any description or owner ("propagation is a *)
(* pure function of {origins, anchors, config}", transforms.py:486).        *)
OrderIrrelevant ==
    phase = "annotate" /\ pending = ColumnsOf(scope \ Sources) =>
        \A c \in pending :
            LET expected == Inherited(saved, failed, c, Upstream(saved, failed, c))
            IN  columns[c].text = expected.text /\ columns[c].owner = expected.owner

(* Whatever a walk of the inherit pass says the origin of a description is, *)
(* that column itself has that description at that moment: "the inherited   *)
(* text and its desc-source pointer always agree" (transforms.py:488).      *)
OriginHoldsText ==
    phase = "inherit" =>
        \A c \in pending :
            LET up == Upstream(columns, failed, c)
            IN  up.origin # Nowhere => columns[up.origin].text = up.text

(* A walk gives one answer in every order, and a true one.                  *)
WalksAgree == OrderIrrelevant /\ OriginHoldsText

(* Between runs, a column that follows its upstream has the upstream text   *)
(* as soon as one run covered it, also when the models between them were    *)
(* not selected, failed to be written, or hold copies that are out of date  *)
(* ("keeps the description in lockstep", transforms.py:1029-1030).          *)
CopiesInLockstep ==
    phase = "idle" =>
        \A c \in ColumnsOf(fresh \ Sources) :
            LET up == Upstream(saved, {}, c)
            IN  Authority(saved, c) = "upstream" /\ Glossary[c] = Empty /\ up.text # Empty
                    => saved[c].text = up.text

(* One run carries a label through every model it covers, however deep: a   *)
(* model is not handled before its upstreams ("every node sees the          *)
(* fully-enriched in-memory state", transforms.py:802-803).                 *)
LabelsArrive ==
    phase = "commit" =>
        \A c \in ColumnsOf(scope \ (Sources \cup failed)) :
            LET row == Lineage[c]
            IN  row.kind = "single" /\ row.from[1] \in Columns
                    => columns[row.from[1]].labels \subseteq columns[c].labels

(* What a developer wrote under a named desc-owner stays as written, in     *)
(* every later run (README.md:33, "any anchor value protects a local        *)
(* description"); the glossary is allowed to overrule it (README.md:37).    *)
AnchoredTextKept ==
    \A c \in Columns :
        authored[c] # Empty /\ Glossary[c] = Empty => saved[c].text = authored[c]

(* The same as long as every analysis succeeds and every anchored column    *)
(* has a row.                                                               *)
TracedAnchorsKept ==
    failures = 0 =>
        \A c \in Columns :
            /\ authored[c] # Empty
            /\ Glossary[c] = Empty /\ Lineage[c].kind # "untraced"
            => saved[c].text = authored[c] /\ saved[c].owner = "anchor"

(* A run over what the previous run left changes nothing: propagation is    *)
(* "idempotent in a single pass" (transforms.py:487).                       *)
RunIsIdempotent ==
    phase = "commit" /\ failed = {} /\ scope \subseteq fresh =>
        \A c \in ColumnsOf(scope) : columns[c].text = saved[c].text

=============================================================================
