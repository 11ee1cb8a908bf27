------------------------------- MODULE Registry -------------------------------
(* The lineage registry (cll_generator/artifacts/registry.py) with the callers   *)
(* that read it (cll_generator/api.py) and the artefact that seeds it            *)
(* (cll_generator/lineage/cll_artifact.py).                                      *)
(*                                                                               *)
(* A model's compiled SQL is what its columns read: items that name a column of  *)
(* one relation, or an unqualified column of a join, and the relations read with *)
(* `select *`.  To resolve an unqualified column the parser asks which relation  *)
(* of the join has it, and a lazy registry answers by parsing that relation      *)
(* first, from inside the parse.  The re-entrant lock has one owner, so one      *)
(* stack of frames stands for the recursion; other threads only read the columns *)
(* of a model once its parse is done.                                            *)
EXTENDS Naturals, Sequences, FiniteSets, SequencesExt

CONSTANTS
    Threads,     \* callers of the registry: pool threads or explorer requests
    Models,      \* SQL models of the manifest
    Terminals,   \* sources and seeds, whose columns are always documented
    Order,       \* the models in manifest order
    Columns,     \* column names
    Documented,  \* [Models \cup Terminals -> SUBSET Columns], the YAML columns
    Versions,    \* texts a model's SQL file may have
    First,       \* the text the artefact was written for
    Editable,    \* models edited since
    Scopes,      \* selections an artefact may be built from
    SQL,         \* [Models -> [Versions -> [items, stars, breaks]]]
    Nobody,      \* no owner of the lock
    MaxAsks      \* bound: requests of one thread

Relations == Models \cup Terminals

\* A column read: the output it feeds, its name, the relations it may come from.
Items == [out : Columns, col : Columns, scope : Seq(Relations) \ {<<>>}]
Texts == [items : SUBSET Items, stars : SUBSET Relations, breaks : BOOLEAN]

ASSUME RegistryAssumption ==
    /\ Models \cap Terminals = {} /\ IsFiniteSet(Terminals)
    /\ Nobody \notin Threads
    /\ Order \in Seq(Models) /\ ToSet(Order) = Models
    /\ Documented \in [Relations -> SUBSET Columns]
    /\ First \in Versions
    /\ Scopes \subseteq SUBSET Models
    /\ SQL \in [Models -> [Versions -> Texts]]
    /\ MaxAsks \in Nat

VARIABLES
    mode,      \* "lazy" or "eager" (lazy_lineage)
    origins,   \* the catalog reader states column origins (column_origin)
    world,     \* [Models -> Versions], the SQL the manifest holds
    written,   \* [Models -> Versions], the SQL when the artefact was written
    phase,     \* "loading", "loaded", "serving"
    here,      \* relations the registry still holds (restrict_to)
    columns,   \* model.columns: column -> lineage entries, each a set of sources
    done,      \* _lineage_done
    hydrated,  \* models seeded from the artefact
    active,    \* _column_lookup_active
    owner,     \* holder of _parse_lock
    stack,     \* frames of _ensure_lineage_locked
    trails,    \* the in_progress sets, one for each chain of the stack
    pending,   \* models the owner's request still has to ensure
    pc, ask, asks, answer

vars == <<mode, origins, world, written, phase, here, columns, done, hydrated,
          active, owner, stack, trails, pending, pc, ask, asks, answer>>

Sql(m, w) == SQL[m][w[m]]
Top == stack[Len(stack)]

(* ---- Resolving columns ------------------------------------------------- *)

\* _columns_defined_by_sql: the YAML of such a model does not count as columns.
DefinedBySql(r) == origins /\ r \in Models

\* table_columns of load(): known once and for all, restrict_to changes nothing.
Static(r) == Documented[r] # {} /\ ~DefinedBySql(r)

\* What _discover_relation_columns answers when it need not parse.
Discovered(r, cols) ==
    LET traced == {c \in DOMAIN cols : cols[c] # <<>>}
    IN  IF DefinedBySql(r) /\ traced # {} THEN traced ELSE DOMAIN cols

KnownColumns(r, cols, held) ==
    IF Static(r) THEN Documented[r]
    ELSE IF r \in held THEN Discovered(r, cols) ELSE {}

\* _pick_table_for_unqualified: the one relation that has the column, else the
\* first of the join.
PickTable(item, known) ==
    LET having == {r \in ToSet(item.scope) : item.col \in known[r]}
    IN  IF Len(item.scope) > 1 /\ Cardinality(having) = 1
        THEN CHOOSE r \in having : TRUE
        ELSE item.scope[1]

\* _apply_column_lineage: found columns get their lineage, unknown ones a stub.
Applied(cols, found) ==
    LET outs == {f.out : f \in found}
    IN  [c \in DOMAIN cols \cup outs |->
            IF c \in outs THEN <<{f.source : f \in {g \in found : g.out = c}}>>
            ELSE cols[c]]

\* _process_star_references_for: a relation read with `*` passes the columns
\* both sides have, unless that very entry is there.
Starred(cols, stars, all) ==
    LET With(c, r) == IF c \in DOMAIN all[r] /\ {<<r, c>>} \notin ToSet(cols[c])
                      THEN <<{<<r, c>>}>> ELSE <<>>
    IN  [c \in DOMAIN cols |->
            cols[c] \o FlattenSeq([i \in 1..Cardinality(stars) |->
                                      With(c, SetToSeq(stars)[i])])]

Yaml(r) == [c \in Documented[r] |-> <<>>]

(* ---- What a parse of the whole project yields --------------------------- *)

\* The columns of every relation when each model is parsed after those it reads.
Parsed(w, held) ==
    LET F[r \in Relations] ==
          IF r \in Terminals \/ r \notin held THEN Yaml(r)
          ELSE LET sql == Sql(r, w)
                   Of(q) == IF q = r THEN Yaml(r) ELSE F[q]
                   known(item) == [q \in ToSet(item.scope) |->
                                      KnownColumns(q, Of(q), held)]
                   found == {[out |-> i.out, source |-> <<PickTable(i, known(i)), i.col>>] :
                                i \in sql.items}
                   base == Applied(Yaml(r), found)
                   stars == sql.stars \cap held
               IN  IF sql.breaks THEN Yaml(r)
                   ELSE Starred(base, stars,
                           [q \in stars |-> IF q = r THEN base ELSE F[q]])
    IN  F

\* The row get_column_lineage returns for a column: its first entry, and whether
\* it starts a chain (no single upstream model, or a terminal one).
Row(entries) ==
    IF entries = <<>> THEN [sources |-> {}, first |-> TRUE]
    ELSE [sources |-> entries[1],
          first |-> \A s \in entries[1] : s[1] \in Terminals]

Rows(cols) == [c \in DOMAIN cols |-> Row(cols[c])]

(* ---- Loading ------------------------------------------------------------ *)

Init ==
    /\ mode \in {"lazy", "eager"}
    /\ origins \in BOOLEAN
    /\ written = [m \in Models |-> First]
    /\ world \in {w \in [Models -> Versions] : \A m \in Models \ Editable : w[m] = First}
    /\ phase = "loading"
    /\ here = Relations
    /\ columns = [r \in Relations |-> Yaml(r)]
    /\ done = {} /\ hydrated = {} /\ active = {}
    /\ owner = Nobody /\ stack = <<>> /\ trails = <<>> /\ pending = {}
    /\ pc = [t \in Threads |-> "idle"]
    /\ ask = [t \in Threads |-> {}]
    /\ asks = [t \in Threads |-> 0]
    /\ answer = [t \in Threads |-> <<>>]

\* A lazy registry leaves the SQL alone.
LoadLazy ==
    /\ phase = "loading" /\ mode = "lazy"
    /\ phase' = "loaded"
    /\ UNCHANGED <<mode, origins, world, written, here, columns, done, hydrated,
                   active, owner, stack, trails, pending, pc, ask, asks, answer>>

\* _process_lineage: one model after another in manifest order; a lookup sees
\* what has been parsed so far.
EagerFound(m) ==
    {[out |-> i.out,
      source |-> <<PickTable(i, [r \in ToSet(i.scope) |->
                                    KnownColumns(r, columns[r], here)]), i.col>>] :
        i \in Sql(m, world).items}

EagerParse ==
    /\ phase = "loading" /\ mode = "eager" /\ done # Models
    /\ LET m == Order[Cardinality(done) + 1] IN
        /\ done' = done \cup {m}
        /\ columns' = IF Sql(m, world).breaks THEN columns
                      ELSE [columns EXCEPT ![m] = Applied(@, EagerFound(m))]
    /\ UNCHANGED <<mode, origins, world, written, phase, here, hydrated, active,
                   owner, stack, trails, pending, pc, ask, asks, answer>>

EagerStars ==
    /\ phase = "loading" /\ mode = "eager" /\ done = Models
    /\ columns' = [r \in Relations |->
                      IF r \in Terminals \/ (r \in Models /\ Sql(r, world).breaks)
                      THEN columns[r]
                      ELSE Starred(columns[r], Sql(r, world).stars, columns)]
    /\ phase' = "serving"
    /\ UNCHANGED <<mode, origins, world, written, here, done, hydrated, active,
                   owner, stack, trails, pending, pc, ask, asks, answer>>

(* ---- The artefact ------------------------------------------------------- *)

\* stale_models: by the model's own source text.
Fresh(m) == written[m] = world[m]

\* The rows of a file written in the old world, and what hydrating makes of one.
\* A row without inputs yields no entry: the column stays as it was.
FromArtefact(m) ==
    LET rows == Rows(Parsed(written, Relations)[m])
        told == {c \in DOMAIN rows : rows[c].sources # {}}
    IN  [c \in DOMAIN columns[m] \cup told |->
            IF c \in told THEN <<rows[c].sources>> ELSE columns[m][c]]

\* apply_cached_lineage, then restrict_to for an artefact built from a selector:
\* the models of the selection and the terminals they read are kept.
Kept(scope) ==
    scope \cup {r \in Terminals : \E m \in scope :
                  \/ r \in Sql(m, world).stars
                  \/ \E i \in Sql(m, world).items : r \in ToSet(i.scope)}

Hydrate(covered, scope) ==
    /\ phase = "loaded"
    /\ LET ms == {m \in covered : Fresh(m)} IN
        /\ columns' = [r \in Relations |-> IF r \in ms THEN FromArtefact(r) ELSE columns[r]]
        /\ done' = done \cup ms
        /\ hydrated' = ms
    /\ here' = Kept(scope)
    /\ phase' = "serving"
    /\ UNCHANGED <<mode, origins, world, written, active, owner, stack, trails,
                   pending, pc, ask, asks, answer>>

\* get_column_lineage and the live explorer start without an artefact.
Serve ==
    /\ phase = "loaded"
    /\ phase' = "serving"
    /\ UNCHANGED <<mode, origins, world, written, here, columns, done, hydrated,
                   active, owner, stack, trails, pending, pc, ask, asks, answer>>

(* ---- Requests ----------------------------------------------------------- *)

\* get_column_lineage(models=[m]) or, without a filter, of every model.
Ask(t, ms) ==
    /\ phase = "serving" /\ pc[t] = "idle" /\ asks[t] < MaxAsks
    /\ ms # {} /\ ms \subseteq here
    /\ ask' = [ask EXCEPT ![t] = ms]
    /\ asks' = [asks EXCEPT ![t] = @ + 1]
    /\ pc' = [pc EXCEPT ![t] = IF mode = "lazy" THEN "waiting" ELSE "reading"]
    /\ UNCHANGED <<mode, origins, world, written, phase, here, columns, done,
                   hydrated, active, owner, stack, trails, pending, answer>>

\* ensure_lineage, or ensure_all_lineage, which collects the unparsed models.
Acquire(t) ==
    /\ pc[t] = "waiting" /\ owner = Nobody
    /\ owner' = t
    /\ pending' = ask[t] \ done
    /\ pc' = [pc EXCEPT ![t] = "holding"]
    /\ UNCHANGED <<mode, origins, world, written, phase, here, columns, done,
                   hydrated, active, stack, trails, ask, asks, answer>>

Release(t) ==
    /\ owner = t /\ stack = <<>> /\ pending = {}
    /\ owner' = Nobody
    /\ pc' = [pc EXCEPT ![t] = "reading"]
    /\ UNCHANGED <<mode, origins, world, written, phase, here, columns, done,
                   hydrated, active, stack, trails, pending, ask, asks, answer>>

\* The caller reads model.columns after the lock is free again.
Read(t) ==
    /\ pc[t] = "reading"
    /\ answer' = [answer EXCEPT ![t] = [m \in ask[t] |-> Rows(columns[m])]]
    /\ pc' = [pc EXCEPT ![t] = "idle"]
    /\ UNCHANGED <<mode, origins, world, written, phase, here, columns, done,
                   hydrated, active, owner, stack, trails, pending, ask, asks>>

(* ---- _ensure_lineage_locked --------------------------------------------- *)

Frame(m, how) == [model |-> m, how |-> how, at |-> "enter",
                  left |-> {}, found |-> {}, stars |-> {}]

SetTop(f) == stack' = [stack EXCEPT ![Len(stack)] = f]
NewChain(how) == how \in {"request", "lookup"}

\* A star source shares the caller's in_progress set, others start an empty one.
Push(f) ==
    /\ stack' = Append(stack, f)
    /\ trails' = IF NewChain(f.how) THEN Append(trails, {}) ELSE trails

Pop ==
    /\ stack' = Front(stack)
    /\ trails' = IF NewChain(Top.how) THEN Front(trails) ELSE trails
    /\ active' = IF Top.how = "lookup" THEN active \ {Top.model} ELSE active

Quiet == UNCHANGED <<mode, origins, world, written, phase, here, hydrated, owner,
                     pc, ask, asks, answer>>

EnsureNext ==
    /\ owner # Nobody /\ stack = <<>> /\ pending # {}
    /\ LET m == Order[CHOOSE i \in DOMAIN Order :
                        /\ Order[i] \in pending
                        /\ \A j \in 1..(i - 1) : Order[j] \notin pending] IN
        /\ Push(Frame(m, "request"))
        /\ pending' = pending \ {m}
    /\ UNCHANGED <<columns, done, active>> /\ Quiet

\* Mutant: the in_progress set is not consulted.
EnterDoneOnly ==
    /\ stack # <<>> /\ Top.at = "enter"
    /\ Top.model \in done
    /\ Pop
    /\ UNCHANGED <<columns, done, pending>> /\ Quiet

\* Parsed already, or on the stack of this chain.
EnterKnown ==
    /\ stack # <<>> /\ Top.at = "enter"
    /\ Top.model \in done \cup trails[Len(trails)]
    /\ Pop
    /\ UNCHANGED <<columns, done, pending>> /\ Quiet

EnterTerminal ==
    /\ stack # <<>> /\ Top.at = "enter" /\ Top.model \in Terminals \ done
    /\ done' = done \cup {Top.model}
    /\ Pop
    /\ UNCHANGED <<columns, pending>> /\ Quiet

\* Mutant: a model is marked done before it is parsed.
EnterParseMarksDone ==
    /\ stack # <<>> /\ Top.at = "enter"
    /\ Top.model \in Models \ (done \cup trails[Len(trails)])
    /\ trails' = [trails EXCEPT ![Len(trails)] = @ \cup {Top.model}]
    /\ SetTop([Top EXCEPT !.at = "parse", !.left = Sql(Top.model, world).items])
    /\ active' = active \cup {Top.model}
    /\ done' = done \cup {Top.model}
    /\ UNCHANGED <<columns, pending>> /\ Quiet

\* _parse_model_lineage; SQL that cannot be parsed is logged and left.
EnterParse ==
    /\ stack # <<>> /\ Top.at = "enter"
    /\ Top.model \in Models \ (done \cup trails[Len(trails)])
    /\ trails' = [trails EXCEPT ![Len(trails)] = @ \cup {Top.model}]
    /\ LET sql == Sql(Top.model, world) IN
        IF sql.breaks
        THEN SetTop([Top EXCEPT !.at = "stars"]) /\ active' = active \ {Top.model}
        ELSE /\ SetTop([Top EXCEPT !.at = "parse", !.left = sql.items])
             /\ active' = active \cup {Top.model}
    /\ UNCHANGED <<columns, done, pending>> /\ Quiet

\* Mutant: a lookup never parses.
NeverBlind(item) == {}

\* The relations of a join whose columns only a parse can tell.
Blind(item) ==
    {r \in ToSet(item.scope) \cap Models :
        /\ Len(item.scope) > 1 /\ ~Static(r) /\ r \in here
        /\ DOMAIN columns[r] = {} \/ DefinedBySql(r)
        /\ r \notin done \cup active}

\* _discover_relation_columns parses the relation, with an in_progress set of
\* its own, before the column can be resolved.
LookUp ==
    /\ stack # <<>> /\ Top.at = "parse"
    /\ \E i \in Top.left : \E r \in Blind(i) :
        /\ active' = active \cup {r}
        /\ Push(Frame(r, "lookup"))
    /\ UNCHANGED <<columns, done, pending>> /\ Quiet

Resolve ==
    /\ stack # <<>> /\ Top.at = "parse"
    /\ \E i \in Top.left :
        /\ Blind(i) = {}
        /\ LET r == PickTable(i, [q \in ToSet(i.scope) |-> KnownColumns(q, columns[q], here)])
           IN  SetTop([Top EXCEPT !.left = @ \ {i},
                         !.found = @ \cup {[out |-> i.out, source |-> <<r, i.col>>]}])
    /\ UNCHANGED <<columns, done, active, trails, pending>> /\ Quiet

\* End of the parse: star sources are parsed next, then their columns passed on.
Apply ==
    /\ stack # <<>> /\ Top.at = "parse" /\ Top.left = {}
    /\ columns' = [columns EXCEPT ![Top.model] = Applied(@, Top.found)]
    /\ active' = active \ {Top.model}
    /\ SetTop([Top EXCEPT !.at = "stars",
                 !.stars = Sql(Top.model, world).stars \cap here])
    /\ UNCHANGED <<done, trails, pending>> /\ Quiet

NextStar ==
    /\ stack # <<>> /\ Top.at = "stars"
    /\ \E r \in Top.stars :
        /\ stack' = Append([stack EXCEPT ![Len(stack)].stars = @ \ {r}], Frame(r, "star"))
    /\ UNCHANGED <<columns, done, active, trails, pending>> /\ Quiet

Finish ==
    /\ stack # <<>> /\ Top.at = "stars" /\ Top.stars = {}
    /\ LET sql == Sql(Top.model, world) IN
        columns' = IF sql.breaks THEN columns
                   ELSE [columns EXCEPT ![Top.model] =
                            Starred(@, sql.stars \cap here, columns)]
    /\ done' = done \cup {Top.model}
    /\ Pop
    /\ UNCHANGED pending /\ Quiet

Ensure == \/ EnsureNext \/ EnterKnown \/ EnterTerminal \/ EnterParse \/ LookUp
          \/ Resolve \/ Apply \/ NextStar \/ Finish

Load == LoadLazy \/ EagerParse \/ EagerStars \/ Serve

Next ==
    \/ Load
    \/ \E scope \in Scopes : \E covered \in SUBSET scope : Hydrate(covered, scope)
    \/ \E t \in Threads :
        \/ \E m \in Models : Ask(t, {m})
        \/ Ask(t, Models \cap here)
        \/ Acquire(t) \/ Release(t) \/ Read(t)
    \/ Ensure

Fairness ==
    /\ WF_vars(Load)
    /\ WF_vars(Ensure)
    /\ \A t \in Threads : WF_vars(Acquire(t)) /\ WF_vars(Release(t) \/ Read(t))

Spec == Init /\ [][Next]_vars
FairSpec == Spec /\ Fairness

(* ---- Properties ---------------------------------------------------------- *)

\* Types; the lock is held exactly while someone works through a request, and
\* there is one in_progress set for each chain of frames.
TypeOK ==
    /\ mode \in {"lazy", "eager"} /\ origins \in BOOLEAN
    /\ world \in [Models -> Versions] /\ written \in [Models -> Versions]
    /\ phase \in {"loading", "loaded", "serving"}
    /\ here \subseteq Relations /\ done \subseteq Relations
    /\ hydrated \subseteq Models /\ active \subseteq Models
    /\ owner \in Threads \cup {Nobody}
    /\ Len(trails) = Len(SelectSeq(stack, LAMBDA f : NewChain(f.how)))
    /\ \A t \in Threads : pc[t] \in {"idle", "waiting", "holding", "reading"}
    /\ \A t \in Threads : (pc[t] = "holding") <=> (owner = t)
    /\ owner = Nobody => stack = <<>> /\ active = {}

Reads(m, w) ==
    Sql(m, w).stars \cup UNION {ToSet(i.scope) : i \in Sql(m, w).items}

\* dbt rejects a cycle of refs, whatever the edits: what a model reads besides
\* itself has a lower rank.
Ranks(w, rank) == \A m \in Models : \A q \in Reads(m, w) \ {m} : rank[q] < rank[m]
Acyclic == \A w \in [Models -> Versions] : \E rank \in [Relations -> Nat] : Ranks(w, rank)

\* Relations whose text decides what the rows of m are, and the models above.
Above(m, w) ==
    LET A[r \in Relations] ==
          IF r \in Terminals THEN {}
          ELSE LET up == Reads(r, w) \ {r} IN up \cup UNION {A[q] : q \in up}
    IN  A[m]

\* A caller gets, whatever was asked before and by whom, exactly the rows a parse
\* of the project in dependency order yields.  Three exceptions, each a limit of
\* the code: rows of an artefact are those of the parents as they were, and a
\* model parsed below them looks up its columns among them; a model parsed in a
\* restricted registry cannot see dropped parents; and an eager load looks up the
\* columns of a model it has not parsed yet.
Outdated(h) == h \in hydrated /\ \E a \in Above(h, world) \cap Models : ~Fresh(a)

Excused(m) ==
    \/ \E h \in {m} \cup Above(m, world) : Outdated(h)
    \/ (Above(m, world) \ here) # {}
    \/ mode = "eager" /\ \E i \in Sql(m, world).items : Len(i.scope) > 1

AnswersAreParses ==
    \A t \in Threads : \A m \in DOMAIN answer[t] :
        Excused(m) \/ answer[t][m] = Rows(Parsed(world, Relations)[m])

\* "Models the artifact misses - and models whose source SQL changed since it was
\* written - are parsed individually on first access, so the graph is never
\* silently stale or incomplete" (lineage explore).
NeverSilentlyStale ==
    \A t \in Threads : \A m \in DOMAIN answer[t] :
        mode = "lazy" => answer[t][m] = Rows(Parsed(world, Relations)[m])

\* Once a model is marked done nobody changes its columns: readers hold no lock.
DoneIsFinal ==
    [][\A r \in done : phase = "serving" => columns'[r] = columns[r] /\ r \in done']_vars

\* The recursion ends and the lock is handed on: every request is answered.
RequestsAnswered == \A t \in Threads : (pc[t] = "waiting") ~> (pc[t] = "idle")
===============================================================================
