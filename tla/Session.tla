------------------------------- MODULE Session -------------------------------
(* One command over the warehouse: the column cache of introspection.py, the      *)
(* connections of DbtProjectContext (config.py), the worker pool each operation   *)
(* of the pipeline maps over the nodes, and YamlRefactorContext.close             *)
(* (settings.py), which may come while workers are still at it.                   *)
(*                                                                                *)
(* A table is the number of times it was altered; what a query says of it is a    *)
(* record [version, comments], as only the catalogue has comments.  The nodes     *)
(* here are those whose columns the operations ask the warehouse for.  The cache  *)
(* is keyed by relation, and two nodes may have one: a source over the table of a *)
(* model, say.                                                                    *)
EXTENDS Naturals, Sequences, FiniteSets, SequencesExt

CONSTANTS
    Workers,     \* threads of the pool
    Main,        \* the thread that runs the command
    Nobody,      \* holder of the free manifest mutex
    Order,       \* the nodes, in the order of _iter_candidate_nodes
    Sources,     \* those of them that are sources
    RelationOf,  \* the relation of a node
    Operations,  \* how many operations of the pipeline ask for columns
    NoAnswer,    \* not in the cache
    MaxAltered,  \* bound on the changes to tables during the run
    MaxExpired   \* bound on the connections that outlive connection_ttl

Nodes == ToSet(Order)
Relations == {RelationOf[n] : n \in Nodes}
Threads == Workers \cup {Main}

ASSUME SessionAssumption ==
    /\ Order \in Seq(Nodes) /\ IsInjective(Order) /\ Order # <<>>
    /\ Sources \subseteq Nodes
    /\ NoAnswer \notin [version : Nat, comments : BOOLEAN]
    /\ Main \notin Workers /\ Nobody \notin Threads
    /\ Operations \in Nat \ {0} /\ MaxAltered \in Nat /\ MaxExpired \in Nat

VARIABLES
    offline,    \* --disable-introspection
    phase,      \* of the main thread
    op,         \* the operation it is at
    collected,  \* how many of the operation's results it has taken
    result,     \* of the task of each node: "todo", "running", "ok", "failed", "cancelled"
    stage,      \* of a worker in get_columns, "free" when it has no task
    need,       \* of a worker: "mutex", "refresh" (it holds the mutex) or "adapter"
    at,         \* the node a worker is at
    got,        \* what a worker was told by the warehouse
    cache,      \* _COLUMN_LIST_CACHE
    world,      \* the table of each relation
    conn,       \* of a thread: does it have an open connection
    fresh,      \* of a worker: is its connection younger than connection_ttl
    cleaned,    \* history: closing the connections has not raised
    mutex,      \* who holds the manifest mutex
    answers,    \* all that get_columns has returned of a node, the empty answers aside
    altered, expired

main == <<phase, op, collected>>
tasks == <<result, stage, need, at, got, answers>>
links == <<conn, fresh, cleaned, mutex>>
vars == <<offline, main, tasks, cache, world, links, altered, expired>>

Table(r, comments) == [version |-> world[r], comments |-> comments]

Init ==
    /\ offline \in BOOLEAN
    /\ phase = "between" /\ op = 0 /\ collected = 0
    /\ result = [n \in Nodes |-> "todo"]
    /\ stage = [w \in Workers |-> "free"]
    /\ need = [w \in Workers |-> "adapter"]
    /\ at = [w \in Workers |-> Order[1]]
    /\ got = [w \in Workers |-> NoAnswer]
    /\ cache = [r \in Relations |-> NoAnswer]
    /\ world = [r \in Relations |-> 0]
    /\ conn = [t \in Threads |-> FALSE]
    /\ fresh = [w \in Workers |-> FALSE]
    /\ cleaned = TRUE /\ mutex = Nobody
    /\ answers = [n \in Nodes |-> {}]
    /\ altered = 0 /\ expired = 0

(* ---- The main thread ------------------------------------------------------ *)

\* An operation begins.  The first, inject_missing_columns, prefetches the columns
\* of all sources with one query, which may fail; it does so with introspection
\* disabled, too.  No worker is at it meanwhile.
Submit ==
    /\ phase = "between" /\ op < Operations
    /\ phase' = "mapping" /\ op' = op + 1 /\ collected' = 0
    /\ result' = [n \in Nodes |-> "todo"]
    /\ \E told \in IF op = 0 THEN SUBSET {RelationOf[n] : n \in Sources} ELSE {{}} :
         /\ cache' = [r \in Relations |-> IF r \in told THEN Table(r, TRUE) ELSE cache[r]]
         /\ conn' = [conn EXCEPT ![Main] = @ \/ told # {}]
    /\ UNCHANGED <<offline, stage, need, at, got, answers, world, fresh, cleaned, mutex,
                   altered, expired>>

Cancelled == [n \in Nodes |-> IF result[n] = "todo" THEN "cancelled" ELSE result[n]]

\* pool.map hands out the results in the order of the nodes; a task that raised
\* raises here, and the tasks that have not begun are cancelled.
Collect ==
    /\ phase = "mapping" /\ collected < Len(Order)
    /\ LET mine == result[Order[collected + 1]] IN
         \/ /\ mine = "ok"
            /\ collected' = collected + 1 /\ result' = result
            /\ phase' = IF collected' < Len(Order) THEN "mapping" ELSE "between"
         \/ /\ mine = "failed"
            /\ collected' = collected /\ result' = Cancelled
            /\ phase' = "leaving"
    /\ UNCHANGED <<offline, op, stage, need, at, got, answers, cache, world, links,
                   altered, expired>>

\* Ctrl-C in the main thread: the exception leaves pool.map the same way.
Interrupt ==
    /\ phase = "mapping"
    /\ result' = Cancelled /\ phase' = "leaving"
    /\ UNCHANGED <<offline, op, collected, stage, need, at, got, answers, cache, world,
                   links, altered, expired>>

Complete ==
    /\ phase = "between" /\ op = Operations
    /\ phase' = "leaving"
    /\ UNCHANGED <<offline, op, collected, tasks, cache, world, links, altered, expired>>

\* Mutant: the pool is shut down without waiting for its tasks.
ShutdownAtOnce ==
    /\ phase = "leaving"
    /\ phase' = "closing"
    /\ UNCHANGED <<offline, op, collected, tasks, cache, world, links, altered, expired>>
\* YamlRefactorContext.close: first pool.shutdown(wait=True).
Shutdown ==
    /\ phase = "leaving"
    /\ \A w \in Workers : stage[w] = "free"
    /\ phase' = "closing"
    /\ UNCHANGED <<offline, op, collected, tasks, cache, world, links, altered, expired>>

\* Then DbtProjectContext.close, under the mutex.
CloseEnter ==
    /\ phase = "closing" /\ mutex = Nobody
    /\ mutex' = Main /\ phase' = "cleaning"
    /\ UNCHANGED <<offline, op, collected, tasks, cache, world, conn, fresh, cleaned,
                   altered, expired>>

\* An error of cleanup_all is logged and the context is closed all the same, with
\* what connections that left open.
CloseLeave ==
    /\ phase = "cleaning"
    /\ \/ conn' = [t \in Threads |-> FALSE] /\ UNCHANGED cleaned
       \/ /\ \E left \in SUBSET {t \in Threads : conn[t]} : conn' = [t \in Threads |-> t \in left]
          /\ cleaned' = FALSE
    /\ mutex' = Nobody /\ phase' = "closed"
    /\ UNCHANGED <<offline, op, collected, tasks, cache, world, fresh, altered, expired>>

(* ---- The adapter property ------------------------------------------------- *)

Wait(w) == stage[w] # "free" /\ need[w] = "mutex"
Has(w, s) == stage[w] = s /\ need[w] = "adapter"

AdapterEnter(w) ==
    /\ Wait(w) /\ mutex = Nobody
    /\ mutex' = w /\ need' = [need EXCEPT ![w] = "refresh"]
    /\ UNCHANGED <<offline, main, result, stage, at, got, answers, cache, world, conn,
                   fresh, cleaned, altered, expired>>

\* Mutant: the lock is kept when connecting fails.
AdapterLeaveUnlessFailed(w) ==
    /\ need[w] = "refresh"
    /\ need' = [need EXCEPT ![w] = "adapter"]
    /\ fresh' = [fresh EXCEPT ![w] = TRUE]
    /\ \/ fresh[w] /\ conn' = conn /\ mutex' = Nobody
       \/ ~fresh[w] /\ conn' = [conn EXCEPT ![w] = FALSE] /\ mutex' = Nobody
       \/ ~fresh[w] /\ conn' = conn /\ mutex' = mutex
    /\ UNCHANGED <<offline, main, result, stage, at, got, answers, cache, world, cleaned,
                   altered, expired>>

\* An old connection, and the one a thread does not have yet, is replaced; if that
\* fails the thread goes on with what it has.
AdapterLeave(w) ==
    /\ need[w] = "refresh"
    /\ need' = [need EXCEPT ![w] = "adapter"]
    /\ fresh' = [fresh EXCEPT ![w] = TRUE]
    /\ conn' \in IF fresh[w] THEN {conn} ELSE {conn, [conn EXCEPT ![w] = FALSE]}
    /\ mutex' = Nobody
    /\ UNCHANGED <<offline, main, result, stage, at, got, answers, cache, world, cleaned,
                   altered, expired>>

(* ---- get_columns ---------------------------------------------------------- *)

Take(w, n) ==
    /\ stage[w] = "free" /\ result[n] = "todo" /\ phase \in {"mapping", "leaving"}
    /\ result' = [result EXCEPT ![n] = "running"]
    /\ stage' = [stage EXCEPT ![w] = "resolve"]
    /\ need' = [need EXCEPT ![w] = "mutex"]
    /\ at' = [at EXCEPT ![w] = n]
    /\ UNCHANGED <<offline, main, got, answers, cache, world, links, altered, expired>>

To(w, s, n) ==
    /\ stage' = [stage EXCEPT ![w] = s] /\ need' = [need EXCEPT ![w] = n]
    /\ UNCHANGED <<offline, main, result, at, answers, world, fresh, cleaned, mutex, altered,
                   expired>>

\* The task ends; told is the set of what get_columns returned of the node, if
\* anything.
End(w, status, told) ==
    /\ stage' = [stage EXCEPT ![w] = "free"]
    /\ result' = [result EXCEPT ![at[w]] = status]
    /\ answers' = [answers EXCEPT ![at[w]] = @ \cup told]
    /\ at' = [at EXCEPT ![w] = Order[1]] /\ got' = [got EXCEPT ![w] = NoAnswer]
    /\ UNCHANGED <<offline, main, need, world, links, altered, expired>>

\* The relation of the node: an exception here, or in the rest of the operation,
\* is not caught.
Fail(w) == Has(w, "resolve") /\ End(w, "failed", {}) /\ UNCHANGED cache
Refuse(w) == Has(w, "resolve") /\ offline /\ End(w, "ok", {}) /\ UNCHANGED cache
Hit(w) == /\ Has(w, "resolve") /\ ~offline /\ cache[RelationOf[at[w]]] # NoAnswer
          /\ End(w, "ok", {cache[RelationOf[at[w]]]}) /\ UNCHANGED cache
Miss(w) == /\ Has(w, "resolve") /\ ~offline /\ cache[RelationOf[at[w]]] = NoAnswer
           /\ To(w, "catalogue", "mutex") /\ UNCHANGED <<got, cache, conn>>

\* A query opens the thread's connection; the catalogue may fail or have no rows,
\* which leaves the question to DESCRIBE.
Tell(w, comments) ==
    /\ To(w, "store", "adapter")
    /\ got' = [got EXCEPT ![w] = Table(RelationOf[at[w]], comments)]
    /\ conn' = [conn EXCEPT ![w] = TRUE]
    /\ UNCHANGED cache

Catalogue(w) ==
    /\ Has(w, "catalogue")
    /\ \/ Tell(w, TRUE)
       \/ /\ To(w, "describe", "mutex")
          /\ conn' \in {conn, [conn EXCEPT ![w] = TRUE]} /\ UNCHANGED <<got, cache>>

Describe(w) == Has(w, "describe") /\ Tell(w, FALSE)

\* An error of DESCRIBE is logged, the answer empty and nothing is cached.
GiveUp(w) == Has(w, "describe") /\ End(w, "ok", {}) /\ UNCHANGED cache

\* Mutant: the answer is returned without being stored.
ReturnUncached(w) ==
    /\ Has(w, "store")
    /\ UNCHANGED cache
    /\ End(w, "ok", {got[w]})
Store(w) ==
    /\ Has(w, "store")
    /\ cache' = [cache EXCEPT ![RelationOf[at[w]]] = got[w]]
    /\ End(w, "ok", {got[w]})

(* ---- Around them ---------------------------------------------------------- *)

Alter(r) ==
    /\ altered < MaxAltered /\ phase # "closed"
    /\ altered' = altered + 1 /\ world' = [world EXCEPT ![r] = @ + 1]
    /\ UNCHANGED <<offline, main, tasks, cache, links, expired>>

Expire(t) ==
    /\ expired < MaxExpired /\ fresh[t] /\ phase # "closed"
    /\ expired' = expired + 1 /\ fresh' = [fresh EXCEPT ![t] = FALSE]
    /\ UNCHANGED <<offline, main, tasks, cache, world, conn, cleaned, mutex, altered>>

Work(w) ==
    \/ AdapterEnter(w) \/ AdapterLeave(w) \/ (\E n \in Nodes : Take(w, n))
    \/ Fail(w) \/ Refuse(w) \/ Hit(w) \/ Miss(w)
    \/ Catalogue(w) \/ Describe(w) \/ GiveUp(w) \/ Store(w)

Command == Submit \/ Collect \/ Complete \/ Shutdown \/ CloseEnter \/ CloseLeave

Next ==
    \/ Command \/ Interrupt
    \/ \E w \in Workers : Work(w)
    \/ \E r \in Relations : Alter(r)
    \/ \E w \in Workers : Expire(w)

\* The scheduler runs every thread that can run, and queries end; a thread that
\* waits for the mutex gets it, as only finitely many others will take it.
Fairness == WF_vars(Command) /\ \A w \in Workers : WF_vars(Work(w))

Spec == Init /\ [][Next]_vars /\ Fairness

(* ---- Properties ----------------------------------------------------------- *)

TypeOK ==
    /\ phase \in {"between", "mapping", "leaving", "closing", "cleaning", "closed"}
    /\ op \in 0..Operations /\ collected \in 0..Len(Order)
    /\ \A n \in Nodes : result[n] \in {"todo", "running", "ok", "failed", "cancelled"}
    /\ \A w \in Workers : /\ stage[w] \in {"free", "resolve", "catalogue", "describe", "store"}
                          /\ need[w] \in {"mutex", "refresh", "adapter"}
    /\ mutex \in Threads \cup {Nobody}

\* No other node has the relation of n.
OwnRelation(n) == \A k \in Nodes \ {n} : RelationOf[k] # RelationOf[n]

\* Whatever happens to a table during the run, all operations that are told its
\* columns for the one node that has it are told the same ones: what one injected
\* another will not remove (the cache of introspection.py, prefetched, filled by
\* either kind of query, or not filled when both failed).
OneTablePerRun == \A n \in Nodes : OwnRelation(n) => Cardinality(answers[n]) <= 1

\* A closed context leaves nothing behind: no task goes on, none will begin, and no
\* connection stays open unless closing them raised, also when the command was
\* interrupted or an operation failed while workers were querying.
ClosedIsQuiet ==
    phase = "closed" => /\ \A w \in Workers : stage[w] = "free"
                        /\ \A n \in Nodes : result[n] \notin {"todo", "running"}
                        /\ cleaned => \A t \in Threads : ~conn[t]

\* Every command comes to its end: closing waits for the workers, the workers wait
\* for the mutex, and nobody waits for good.
CloseEnds == <>(phase = "closed")
==============================================================================
