------------------------------ MODULE Settings ------------------------------
(* How a setting of a node or of a column is found (osmosis_propagation/          *)
(* introspection.py): SettingsResolver and its two late sources, the template of  *)
(* a node's YAML path, and PropertyAccessor, which chooses between the manifest's *)
(* rendered text and the text of the YAML file.                                   *)
(*                                                                                *)
(* A place is a dict a setting can be written in: its own keys and its two option *)
(* objects (dbt-osmosis-options, dbt_osmosis_options), each a function from the    *)
(* spellings present to values.  A spelling is one of the four of one setting;    *)
(* "bare" is the key without a setting, dbt-osmosis, which names the path.        *)
EXTENDS Naturals, Sequences, SequencesExt

CONSTANTS
    Null,      \* YAML's null, Python's None
    Blank,     \* the empty text
    Fallback   \* the caller's default, a value no place holds

Prefixed == <<"dbt-osmosis-key", "dbt_osmosis_key">>
Direct == <<"kebab", "snake">>
Empty == [own |-> <<>>, kebab |-> <<>>, snake |-> <<>>]

\* The values of the spellings that a dict has, in the order they are looked for.
Hits(dict, spellings) ==
    LET present == SelectSeq(spellings, LAMBDA s : s \in DOMAIN dict)
    IN  [i \in DOMAIN present |-> dict[present[i]]]

\* One place for resolve: its own keys, then its option objects.
Layer(place) == Hits(place.own, Prefixed \o Direct)
                \o Hits(place.kebab, Prefixed \o Direct)
                \o Hits(place.snake, Prefixed \o Direct)
\* config.extra takes prefixed keys only; its option objects take any.
ExtraLayer(place) == Hits(place.own, Prefixed)
                     \o Hits(place.kebab, Prefixed \o Direct)
                     \o Hits(place.snake, Prefixed \o Direct)

First(values) == IF values = <<>> THEN Null ELSE values[1]

\* ConfigMetaSource.get and UnrenderedConfigSource.get: both option objects are
\* asked for the kebab spelling only, and a null counts as nothing.
ConfigMetaGet(place) == First(Hits(place.own, Prefixed \o Direct)
                              \o Hits(place.kebab, <<"kebab">>) \o Hits(place.snake, <<"kebab">>))
UnrenderedGet(place) == First(Hits(place.own, Prefixed)
                              \o Hits(place.kebab, <<"kebab">>) \o Hits(place.snake, <<"kebab">>))

ColumnLayers(col) == Layer(col.meta) \o Layer(col.config)
NodeLayers(n) == Layer(n.meta) \o ExtraLayer(n.extra)

\* Mutant: the node's places are asked before the column's.
LayersNodeFirst(n, col) == NodeLayers(n) \o ColumnLayers(col)

\* resolve: the column's places, the node's, then the two late sources.
Layers(n, col) == ColumnLayers(col) \o NodeLayers(n)

Resolve(n, col, fallback) ==
    LET late == SelectSeq(<<ConfigMetaGet(n.configMeta), UnrenderedGet(n.unrendered)>>,
                          LAMBDA v : v # Null)
    IN  (Layers(n, col) \o late \o <<fallback>>)[1]

\* has: resolve with a sentinel no place can hold.
Has(n, col) == Resolve(n, col, Fallback) # Fallback

\* get_precedence_chain: what each source would answer, for display.
Chain(n, col) ==
    LET value(place) == First(Hits(place.own, Prefixed \o Direct))
    IN  <<value(col.meta), value(n.meta), value(n.extra),
          ConfigMetaGet(n.configMeta), UnrenderedGet(n.unrendered)>>

\* get_yaml_path_template: the bare key, in an order of its own; Null and the
\* empty text count as nothing.
Template(n) ==
    First(FlattenSeq([i \in 1..4 |->
        SelectSeq(Hits(<<n.extra, n.configMeta, n.meta, n.unrendered>>[i].own, <<"bare">>),
                  LAMBDA v : v \notin {Null, Blank})]))

\* What writing the YAML in the Fusion shape does to a column's meta.
Nested(col) == [meta |-> Empty, config |-> col.meta]

(* ---- PropertyAccessor ----------------------------------------------------- *)
(* A property is [manifest, yaml, file]: the manifest's value, the YAML's and     *)
(* whether the node has a YAML file that can be read.  A text is Null or          *)
(* [text, jinja].                                                                 *)

FromYaml(prop) == IF prop.file THEN prop.yaml ELSE Null

Property(prop, source) ==
    LET yaml == FromYaml(prop)
    IN  CASE source = "auto" -> IF yaml # Null /\ yaml.jinja THEN yaml ELSE prop.manifest
          [] source = "yaml" -> IF yaml # Null THEN yaml ELSE prop.manifest
          [] OTHER -> prop.manifest

HasProperty(prop) == prop.manifest # Null \/ FromYaml(prop) # Null

(* ---- What they should be -------------------------------------------------- *)

Places(n, col) == <<col.meta, col.config, n.meta, n.extra, n.configMeta, n.unrendered>>

\* A node and a column with the places outside ks emptied.
Only(n, col, ks) ==
    LET keep(i) == IF i \in ks THEN Places(n, col)[i] ELSE Empty
    IN  [col |-> [meta |-> keep(1), config |-> keep(2)],
         n |-> [meta |-> keep(3), extra |-> keep(4), configMeta |-> keep(5), unrendered |-> keep(6)]]

Answer(part) == Resolve(part.n, part.col, Fallback)

\* A place that answers, with what outranks it, keeps its answer whatever lies
\* below: a column's setting is never overridden by its node's, nor the model's
\* YAML by the project's.  What no place answers alone, they do not answer together.
SettingsAreLayered(n, col) ==
    /\ \A k \in 1..6 : LET part == Only(n, col, 1..k)
                       IN  Has(part.n, part.col) => Resolve(n, col, Fallback) = Answer(part)
    /\ Has(n, col) => \E i \in 1..6 : Answer(Only(n, col, {i})) = Resolve(n, col, Fallback)

\* The chain shown for a setting begins with the value in force, as far as it
\* shows every place: not the option objects, nor a column's config, and it takes
\* direct keys of config.extra, which the setting does not.
ChainExplains(n, col) ==
    LET shown == SelectSeq(Chain(n, col), LAMBDA v : v # Null)
    IN  (/\ col.config = Empty
         /\ \A i \in {1, 3, 4} : /\ Places(n, col)[i].kebab = <<>>
                                 /\ Places(n, col)[i].snake = <<>>
                                 /\ Null \notin {Places(n, col)[i].own[s] : s \in DOMAIN Places(n, col)[i].own}
         /\ Hits(n.extra.own, Direct) = <<>>)
        => Resolve(n, col, Fallback) = (shown \o <<Fallback>>)[1]

\* A path template is found exactly when some place holds one that is not blank.
TemplateIsFound(n) ==
    Template(n) # Null <=>
        \E i \in 3..6 : LET place == Places(n, [meta |-> Empty, config |-> Empty])[i].own
                        IN  "bare" \in DOMAIN place /\ place["bare"] \notin {Null, Blank}

\* Writing a column's meta under its config, as the Fusion shape has it, changes
\* no setting of that column (desc-owner stays in force).
NestingIsNeutral(n, col) ==
    col.config = Empty => Resolve(n, col, Fallback) = Resolve(n, Nested(col), Fallback)

\* A text the YAML holds as a template is not replaced by its rendering when the
\* accessor chooses, and a property is present when some source gives it.
PropertiesAgree(prop) ==
    /\ FromYaml(prop) # Null /\ FromYaml(prop).jinja => Property(prop, "auto") = FromYaml(prop)
    /\ HasProperty(prop) <=> \E s \in {"auto", "yaml", "manifest", "database"} : Property(prop, s) # Null
=============================================================================
