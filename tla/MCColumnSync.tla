---------------------------- MODULE MCColumnSync ----------------------------
(* One node with two columns, under every configuration. *)
EXTENDS ColumnSync

Config(kind, adapter, output, command, sortBy, mode, dryRun) ==
    [kind |-> kind, adapter |-> adapter, output |-> output, command |-> command,
     sortBy |-> sortBy, mode |-> mode, dryRun |-> dryRun]

ConfigsDef ==
    {c \in {Config(k, a, o, cmd, s, m, d) :
                k \in {"model", "source"}, a \in {"snowflake", "other"},
                o \in {"asis", "lower", "upper"}, cmd \in {"refactor", "document"},
                s \in {"database", "alphabetical"}, m \in {"batch", "atomic"}, d \in BOOLEAN} :
        CaseIsSettled(c)}

\* The hypotheses of the theorems about this module.
ASSUME SettledAssumption == CasesAreSettled
ASSUME CommitAssumption == PipelinesCommit
ASSUME SpellingAssumption == SpellingIsKept
=============================================================================
