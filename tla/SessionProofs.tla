---------------------------- MODULE SessionProofs ----------------------------
(* Theorems about Session, for every number of workers, nodes and operations.     *)
(* Neither property is inductive: one rests on what is cached while a worker is   *)
(* asking, which holds as a node has one worker; the other on how far the tasks   *)
(* of an operation are wherever the main thread is.                               *)
EXTENDS Session, FiniteSetTheorems, TLAPS

Told == [version : Nat, comments : BOOLEAN]
Gone == {"closing", "cleaning", "closed"}
Working == {w \in Workers : stage[w] # "free"}

Types ==
    /\ phase \in {"between", "mapping", "leaving"} \cup Gone
    /\ op \in Nat /\ collected \in Nat
    /\ result \in [Nodes -> {"todo", "running", "ok", "failed", "cancelled"}]
    /\ stage \in [Workers -> {"free", "resolve", "catalogue", "describe", "store"}]
    /\ need \in [Workers -> {"mutex", "refresh", "adapter"}]
    /\ at \in [Workers -> Nodes]
    /\ got \in [Workers -> Told \cup {NoAnswer}]
    /\ cache \in [Relations -> Told \cup {NoAnswer}]
    /\ world \in [Relations -> Nat]
    /\ conn \in [Threads -> BOOLEAN]
    /\ answers \in [Nodes -> SUBSET Told]

\* A node that is being worked on has one worker, and a busy worker works on a node.
OneWorkerEach ==
    /\ \A w \in Workers : w \in Working => result[at[w]] = "running"
    /\ \A v, w \in Workers : v \in Working /\ w \in Working /\ at[v] = at[w] => v = w
    /\ \A n \in Nodes : result[n] = "running" => \E w \in Workers : w \in Working /\ at[w] = n

\* What was answered of a node with a relation of its own is what is cached; whoever
\* asks the warehouse for it has found nothing cached, and nobody has stored anything
\* since.
AnswersAreCached ==
    /\ \A n \in Nodes : OwnRelation(n) => answers[n] \subseteq {cache[RelationOf[n]]}
    /\ \A w \in Workers :
         /\ stage[w] \in {"catalogue", "describe", "store"} /\ OwnRelation(at[w])
              => cache[RelationOf[at[w]]] = NoAnswer
         /\ stage[w] = "store" => got[w] \in Told

\* Where the main thread is says how far the tasks of the operation are.
TasksFollow ==
    /\ op = 0 => /\ phase = "between" /\ \A n \in Nodes : answers[n] = {}
                 /\ \A n \in Nodes : result[n] = "todo"
    /\ phase = "between" /\ op # 0 => \A n \in Nodes : result[n] = "ok"
    /\ phase = "mapping" => /\ collected < Len(Order)
                            /\ \A i \in 1..collected : result[Order[i]] = "ok"
    /\ phase \in {"leaving"} \cup Gone => \A n \in Nodes : result[n] # "todo"
    /\ phase \in Gone => \A w \in Workers : w \notin Working
    /\ phase = "closed" /\ cleaned => \A t \in Threads : ~conn[t]

SessionInv == Types /\ OneWorkerEach /\ AnswersAreCached /\ TasksFollow

\* Orders, workers and the record of an answer, in the form the steps use.
LEMMA Facts ==
    /\ Len(Order) \in Nat \ {0} /\ Nodes = {Order[i] : i \in 1..Len(Order)}
    /\ Order[1] \in Nodes /\ Main \in Threads /\ Workers \subseteq Threads
    /\ Main \notin Workers /\ NoAnswer \notin Told /\ Operations \in Nat \ {0}
<1>1. Order \in Seq(Nodes) /\ Order # <<>>
  BY SessionAssumption
<1>2. Len(Order) \in Nat \ {0} /\ DOMAIN Order = 1..Len(Order)
  BY <1>1
<1>3. Nodes = {Order[i] : i \in 1..Len(Order)}
  BY <1>2 DEF Nodes, ToSet
<1> QED
  BY <1>2, <1>3, SessionAssumption DEF Threads, Told

\* A command begins with nothing cached, answered or at work.
LEMMA SessionInvInit == Init => SessionInv
  BY Facts DEF Init, SessionInv, Types, OneWorkerEach, AnswersAreCached, TasksFollow, Working, Gone,
     Relations

\* A step of a task, or of the adapter, that neither begins nor ends a task.
LEMMA StepKeeps ==
    ASSUME SessionInv, Types', UNCHANGED <<main, result, at, answers, cache, cleaned>>,
           \A v \in Workers : v \in Working' <=> v \in Working,
           \A v \in Workers : stage'[v] \in {"catalogue", "describe", "store"} /\ OwnRelation(at[v])
                               => cache[RelationOf[at[v]]] = NoAnswer,
           \A v \in Workers : stage'[v] = "store" => got'[v] \in Told,
           phase = "closed" /\ cleaned => \A t \in Threads : ~conn'[t]
    PROVE  SessionInv'
<1>1. OneWorkerEach'
  BY DEF SessionInv, OneWorkerEach, main
<1>2. AnswersAreCached'
  BY DEF SessionInv, AnswersAreCached, Types, OwnRelation
<1>3. TasksFollow'
  BY DEF SessionInv, TasksFollow, main, Gone
<1> QED
  BY <1>1, <1>2, <1>3 DEF SessionInv

\* A task that ends, its node's answer being what is cached afterwards.
LEMMA EndKeeps ==
    ASSUME NEW w \in Workers, SessionInv, w \in Working,
           NEW status \in {"ok", "failed"}, NEW told \in SUBSET Told,
           End(w, status, told), cache' \in [Relations -> Told \cup {NoAnswer}],
           \A r \in Relations \ {RelationOf[at[w]]} : cache'[r] = cache[r],
           OwnRelation(at[w]) => told \cup answers[at[w]] \subseteq {cache'[RelationOf[at[w]]]}
    PROVE  SessionInv'
<1> DEFINE n == at[w]
<1>1. n \in Nodes /\ result[n] = "running" /\ phase \notin Gone /\ op # 0
  BY Facts DEF SessionInv, Types, OneWorkerEach, TasksFollow
<1>2. /\ stage' = [stage EXCEPT ![w] = "free"] /\ result' = [result EXCEPT ![n] = status]
      /\ answers' = [answers EXCEPT ![n] = @ \cup told]
      /\ at' = [at EXCEPT ![w] = Order[1]] /\ got' = [got EXCEPT ![w] = NoAnswer]
      /\ UNCHANGED <<need, world, conn, cleaned, phase, op, collected>>
  BY DEF End, main, links
<1>3. \A v \in Workers \ {w} : v \in Working => at[v] # n
  BY DEF SessionInv, OneWorkerEach
<1>4. Types'
  BY <1>1, <1>2, Facts DEF SessionInv, Types
<1>5. \A v \in Workers \ {w} : at'[v] = at[v] /\ stage'[v] = stage[v] /\ got'[v] = got[v]
  BY <1>2 DEF SessionInv, Types
<1>6. Working' = Working \ {w}
  <2>1. stage'[w] = "free"
    BY <1>2 DEF SessionInv, Types
  <2> QED
    BY <1>5, <2>1 DEF Working
<1>7. \A v \in Workers : /\ v \in Working' <=> (v \in Working /\ v # w)
                         /\ v # w => at'[v] = at[v] /\ stage'[v] = stage[v] /\ got'[v] = got[v]
  BY <1>5, <1>6
<1>8. OneWorkerEach'
  <2>1. \A v \in Workers : v \in Working' => result'[at'[v]] = "running"
    BY <1>1, <1>2, <1>3, <1>7 DEF SessionInv, Types, OneWorkerEach
  <2>2. \A v, u \in Workers : {v, u} \subseteq Working' /\ at'[v] = at'[u] => v = u
    BY <1>7 DEF SessionInv, OneWorkerEach
  <2>3. \A m \in Nodes : result'[m] = "running" => \E v \in Workers : v \in Working' /\ at'[v] = m
    <3> SUFFICES ASSUME NEW m \in Nodes, result'[m] = "running"
                 PROVE  \E v \in Workers : v \in Working' /\ at'[v] = m
      OBVIOUS
    <3>1. m # n /\ result[m] = "running"
      BY <1>1, <1>2 DEF SessionInv, Types
    <3>2. PICK v \in Workers : v \in Working /\ at[v] = m
      BY <3>1 DEF SessionInv, OneWorkerEach
    <3> QED
      BY <3>1, <3>2, <1>7
  <2> QED
    BY <2>1, <2>2, <2>3 DEF OneWorkerEach
<1>9. AnswersAreCached'
  <2>0. \A m \in Nodes \ {n} : OwnRelation(m) =>
           RelationOf[m] \in Relations /\ cache'[RelationOf[m]] = cache[RelationOf[m]]
    BY <1>1 DEF OwnRelation, Relations
  <2>1. \A m \in Nodes : OwnRelation(m) => answers'[m] \subseteq {cache'[RelationOf[m]]}
    BY <1>1, <1>2, <2>0 DEF SessionInv, Types, AnswersAreCached
  <2>2. \A v \in Workers :
           /\ stage'[v] \in {"catalogue", "describe", "store"} /\ OwnRelation(at'[v])
                => cache'[RelationOf[at'[v]]] = NoAnswer
           /\ stage'[v] = "store" => got'[v] \in Told
    <3> SUFFICES ASSUME NEW v \in Workers, stage'[v] \in {"catalogue", "describe", "store"}
                 PROVE  /\ OwnRelation(at'[v]) => cache'[RelationOf[at'[v]]] = NoAnswer
                        /\ stage'[v] = "store" => got'[v] \in Told
      OBVIOUS
    <3>1. v # w
      BY <1>2 DEF SessionInv, Types
    <3>2. v \in Working /\ at[v] # n /\ at'[v] = at[v] /\ stage'[v] = stage[v] /\ got'[v] = got[v]
      BY <1>3, <1>7, <3>1 DEF Working
    <3> QED
      BY <2>0, <3>2 DEF SessionInv, AnswersAreCached, Types
  <2> QED
    BY <2>1, <2>2 DEF AnswersAreCached, OwnRelation
<1>10. TasksFollow'
  <2>1. \A m \in Nodes : /\ result'[m] # "todo" \/ result[m] = "todo"
                         /\ result[m] = "ok" => result'[m] = "ok"
    BY <1>1, <1>2 DEF SessionInv, Types
  <2>2. collected \in Nat /\ (phase = "mapping" => collected < Len(Order))
    BY DEF SessionInv, Types, TasksFollow
  <2>3. \A i \in 1..collected : phase = "mapping" => Order[i] \in Nodes
    BY <2>2, Facts
  <2> QED
    BY <1>1, <1>2, <2>1, <2>3 DEF SessionInv, TasksFollow, Gone
<1> QED
  BY <1>4, <1>8, <1>9, <1>10 DEF SessionInv

\* A node's task that is taken from the queue.
LEMMA TakeKeeps ==
    ASSUME NEW w \in Workers, NEW n \in Nodes, SessionInv, Take(w, n)
    PROVE  SessionInv'
<1>1. /\ w \notin Working /\ result[n] = "todo" /\ phase = "mapping" /\ op # 0
      /\ result' = [result EXCEPT ![n] = "running"]
      /\ stage' = [stage EXCEPT ![w] = "resolve"] /\ at' = [at EXCEPT ![w] = n]
      /\ need' = [need EXCEPT ![w] = "mutex"]
      /\ UNCHANGED <<phase, op, collected, got, answers, cache, world, conn, cleaned>>
  BY DEF Take, main, links, SessionInv, TasksFollow, Working
<1>2. Types'
  BY <1>1 DEF SessionInv, Types
<1>3. /\ stage'[w] = "resolve" /\ at'[w] = n
      /\ \A v \in Workers \ {w} : at'[v] = at[v] /\ stage'[v] = stage[v]
  BY <1>1 DEF SessionInv, Types
<1>4. Working' = Working \cup {w}
  BY <1>3 DEF Working
<1>5. \A v \in Working : at[v] # n
  BY <1>1 DEF SessionInv, OneWorkerEach, Working
<1>6. result'[n] = "running" /\ \A m \in Nodes \ {n} : result'[m] = result[m]
  BY <1>1 DEF SessionInv, Types
<1>7. OneWorkerEach'
  <2>1. \A v \in Workers : v \in Working' => result'[at'[v]] = "running"
    BY <1>3, <1>4, <1>6 DEF SessionInv, Types, OneWorkerEach
  <2>2. \A v, u \in Workers : v \in Working' /\ u \in Working' /\ at'[v] = at'[u] => v = u
    BY <1>3, <1>4, <1>5 DEF SessionInv, OneWorkerEach
  <2>3. \A m \in Nodes : result'[m] = "running" => \E v \in Workers : v \in Working' /\ at'[v] = m
    <3> SUFFICES ASSUME NEW m \in Nodes, result'[m] = "running"
                 PROVE  \E v \in Workers : v \in Working' /\ at'[v] = m
      OBVIOUS
    <3>1. CASE m = n
      BY <3>1, <1>3, <1>4
    <3>2. CASE m # n
      <4>1. PICK v \in Workers : v \in Working /\ at[v] = m
        BY <3>2, <1>6 DEF SessionInv, OneWorkerEach
      <4> QED
        BY <4>1, <1>1, <1>3, <1>4
    <3> QED
      BY <3>1, <3>2
  <2> QED
    BY <2>1, <2>2, <2>3 DEF OneWorkerEach
<1>8. AnswersAreCached'
  BY <1>1, <1>3 DEF SessionInv, AnswersAreCached, OwnRelation
<1>9. TasksFollow'
  <2>1. \A i \in 1..collected : Order[i] \in Nodes \ {n}
    <3> SUFFICES ASSUME NEW i \in 1..collected
                 PROVE  Order[i] \in Nodes \ {n}
      OBVIOUS
    <3>1. result[Order[i]] = "ok"
      BY <1>1 DEF SessionInv, TasksFollow
    <3>2. collected \in Nat /\ collected < Len(Order)
      BY <1>1 DEF SessionInv, Types, TasksFollow
    <3>3. Order[i] \in Nodes
      BY <3>2, Facts
    <3> QED
      BY <1>1, <3>1, <3>3
  <2> QED
    BY <1>1, <1>6, <2>1 DEF SessionInv, TasksFollow, Gone
<1> QED
  BY <1>2, <1>7, <1>8, <1>9 DEF SessionInv

\* Between two operations, and in those that all have ended, nobody works.
LEMMA Idle == SessionInv /\ phase = "between" => Working = {}
  BY DEF SessionInv, TasksFollow, OneWorkerEach, Types, Working

\* An operation begins: only the first may prefetch, and before it nothing was answered.
LEMMA SubmitKeeps ==
    ASSUME SessionInv, Submit
    PROVE  SessionInv'
<1>1. PICK told \in IF op = 0 THEN SUBSET {RelationOf[n] : n \in Sources} ELSE {{}} :
        /\ cache' = [r \in Relations |-> IF r \in told THEN Table(r, TRUE) ELSE cache[r]]
        /\ conn' = [conn EXCEPT ![Main] = @ \/ told # {}]
  BY DEF Submit
<1>2. /\ phase = "between" /\ phase' = "mapping" /\ op' = op + 1 /\ collected' = 0
      /\ result' = [n \in Nodes |-> "todo"]
      /\ UNCHANGED <<stage, need, at, got, answers, world>>
  BY DEF Submit
<1>3. Working = {} /\ Working' = {}
  BY <1>2, Idle DEF Working
<1>4. \A r \in Relations : Table(r, TRUE) \in Told
  BY DEF SessionInv, Types, Table, Told
<1>5. cache' \in [Relations -> Told \cup {NoAnswer}]
  BY <1>1, <1>4 DEF SessionInv, Types
<1>6. conn' \in [Threads -> BOOLEAN]
  BY <1>1, Facts DEF SessionInv, Types
<1>7. Types'
  BY <1>2, <1>5, <1>6 DEF SessionInv, Types
<1>8. OneWorkerEach'
  BY <1>2, <1>3 DEF OneWorkerEach
<1>9. AnswersAreCached'
  <2>1. \A n \in Nodes : OwnRelation(n) => answers'[n] \subseteq {cache'[RelationOf[n]]}
    <3>1. CASE op = 0
      BY <1>2, <3>1 DEF SessionInv, TasksFollow
    <3>2. CASE op # 0
      BY <1>1, <1>2, <3>2 DEF SessionInv, AnswersAreCached, Relations
    <3> QED
      BY <3>1, <3>2
  <2> QED
    BY <1>2, <1>3, <2>1 DEF AnswersAreCached, Working, OwnRelation
<1>10. TasksFollow'
  BY <1>2, Facts DEF SessionInv, Types, TasksFollow, Gone
<1> QED
  BY <1>7, <1>8, <1>9, <1>10 DEF SessionInv

\* The tasks that have not begun are cancelled and the command goes on to close.
LEMMA LeaveKeeps ==
    ASSUME SessionInv, phase = "mapping", phase' = "leaving", result' = Cancelled,
           UNCHANGED <<op, collected, stage, need, at, got, answers, cache, world, conn, cleaned>>
    PROVE  SessionInv'
<1>1. op # 0
  BY DEF SessionInv, TasksFollow
<1>2. Types'
  BY DEF SessionInv, Types, Cancelled
<1>3. OneWorkerEach' /\ AnswersAreCached'
  BY DEF SessionInv, Types, OneWorkerEach, AnswersAreCached, Cancelled, Working, OwnRelation
<1>4. TasksFollow'
  BY <1>1 DEF SessionInv, Types, TasksFollow, Cancelled, Gone
<1> QED
  BY <1>2, <1>3, <1>4 DEF SessionInv

\* A result is collected, or its exception leaves the operation.
LEMMA CollectKeeps ==
    ASSUME SessionInv, Collect
    PROVE  SessionInv'
<1>1. /\ phase = "mapping" /\ collected < Len(Order) /\ op # 0
      /\ UNCHANGED <<op, stage, need, at, got, answers, cache, world, conn, cleaned>>
  BY DEF Collect, links, SessionInv, TasksFollow
<1>2. CASE result[Order[collected + 1]] = "failed" /\ phase' = "leaving"
  BY <1>1, <1>2, LeaveKeeps DEF Collect
<1>3. CASE /\ result[Order[collected + 1]] = "ok" /\ result' = result
           /\ collected' = collected + 1
           /\ phase' = IF collected' < Len(Order) THEN "mapping" ELSE "between"
  <2>1. Types'
    BY <1>1, <1>3 DEF SessionInv, Types
  <2>2. OneWorkerEach' /\ AnswersAreCached'
    BY <1>1, <1>3 DEF SessionInv, OneWorkerEach, AnswersAreCached, Working, OwnRelation
  <2>3. \A i \in 1..collected' : result[Order[i]] = "ok"
    BY <1>1, <1>3 DEF SessionInv, Types, TasksFollow
  <2>4. collected' >= Len(Order) => \A n \in Nodes : result[n] = "ok"
    BY <1>1, <1>3, <2>3, Facts DEF SessionInv, Types
  <2>5. TasksFollow'
    BY <1>1, <1>3, <2>3, <2>4, Facts DEF SessionInv, Types, TasksFollow, Gone
  <2> QED
    BY <2>1, <2>2, <2>5 DEF SessionInv
<1> QED
  BY <1>2, <1>3 DEF Collect

\* The steps of the main thread towards the end.
LEMMA ClosingKeeps ==
    ASSUME SessionInv, Complete \/ Shutdown \/ CloseEnter \/ CloseLeave
    PROVE  SessionInv'
<1>1. UNCHANGED <<op, collected, tasks, cache, world>>
  BY DEF Complete, Shutdown, CloseEnter, CloseLeave
<1>8. conn' \in [Threads -> BOOLEAN]
  <2>1. CASE CloseLeave
    <3>1. CASE conn' = [t \in Threads |-> FALSE]
      BY <3>1
    <3>2. CASE \E left \in SUBSET {t \in Threads : conn[t]} : conn' = [t \in Threads |-> t \in left]
      BY <3>2
    <3> QED
      BY <2>1, <3>1, <3>2 DEF CloseLeave
  <2>2. CASE Complete \/ Shutdown \/ CloseEnter
    BY <2>2 DEF Complete, Shutdown, CloseEnter, links, SessionInv, Types
  <2> QED
    BY <2>1, <2>2
<1>2. /\ phase' \in {"leaving"} \cup Gone
      /\ phase' = "closed" /\ cleaned' => \A t \in Threads : ~conn'[t]
  BY DEF Complete, Shutdown, CloseEnter, CloseLeave, Gone
<1>3. op # 0 /\ \A n \in Nodes : result[n] # "todo"
  BY Facts DEF Complete, Shutdown, CloseEnter, CloseLeave, Gone, SessionInv, Types, TasksFollow
<1>4. phase' \in Gone => Working = {}
  BY DEF Complete, Shutdown, CloseEnter, CloseLeave, Gone, SessionInv, TasksFollow, Working
<1>5. Types'
  BY <1>1, <1>2, <1>8 DEF SessionInv, Types, tasks, Gone
<1>6. OneWorkerEach' /\ AnswersAreCached'
  BY <1>1 DEF SessionInv, OneWorkerEach, AnswersAreCached, Working, OwnRelation, tasks
<1>7. TasksFollow'
  BY <1>1, <1>2, <1>3, <1>4 DEF TasksFollow, Working, tasks, Gone
<1> QED
  BY <1>5, <1>6, <1>7 DEF SessionInv

\* A query that tells a worker the columns of its node, or does not.
LEMMA AskKeeps ==
    ASSUME NEW w \in Workers, SessionInv,
           Miss(w) \/ Catalogue(w) \/ Describe(w)
    PROVE  SessionInv'
<1> DEFINE n == at[w]
<1>1. /\ w \in Working /\ n \in Nodes /\ RelationOf[n] \in Relations
      /\ OwnRelation(n) => cache[RelationOf[n]] = NoAnswer
      /\ UNCHANGED <<main, result, at, answers, cache, world, cleaned>>
  BY DEF Miss, Catalogue, Describe, Has, To, Tell, Working, SessionInv, AnswersAreCached, Types,
     Relations
<1>2. PICK s \in {"catalogue", "describe", "store"}, m \in {"mutex", "adapter"} :
        stage' = [stage EXCEPT ![w] = s] /\ need' = [need EXCEPT ![w] = m]
  BY DEF Miss, Catalogue, Describe, To, Tell
<1>3. conn' = conn \/ conn' = [conn EXCEPT ![w] = TRUE]
  BY DEF Miss, Catalogue, Describe, To, Tell
<1>4. \A comments \in BOOLEAN : Table(RelationOf[n], comments) \in Told
  BY <1>1 DEF SessionInv, Types, Table, Told
<1>5. \/ got' = got /\ s # "store"
      \/ \E t \in Told : got' = [got EXCEPT ![w] = t]
  <2>1. CASE Tell(w, TRUE) \/ Tell(w, FALSE)
    BY <2>1, <1>4 DEF Tell
  <2>2. CASE got' = got /\ (To(w, "catalogue", "mutex") \/ To(w, "describe", "mutex"))
    BY <2>2, <1>2 DEF To, SessionInv, Types
  <2> QED
    BY <2>1, <2>2 DEF Miss, Catalogue, Describe
<1>6. Types'
  <2>1. conn' \in [Threads -> BOOLEAN]
    BY <1>3, Facts DEF SessionInv, Types
  <2>2. got' \in [Workers -> Told \cup {NoAnswer}]
    BY <1>5 DEF SessionInv, Types
  <2>3. /\ stage' \in [Workers -> {"free", "resolve", "catalogue", "describe", "store"}]
        /\ need' \in [Workers -> {"mutex", "refresh", "adapter"}]
    BY <1>2 DEF SessionInv, Types
  <2> QED
    BY <1>1, <2>1, <2>2, <2>3 DEF SessionInv, Types, main
<1>7. stage'[w] = s /\ \A v \in Workers \ {w} : stage'[v] = stage[v] /\ got'[v] = got[v]
  BY <1>2, <1>5 DEF SessionInv, Types
<1>8. s = "store" => got'[w] \in Told
  BY <1>5 DEF SessionInv, Types
<1>9. \A v \in Workers : v \in Working' <=> v \in Working
  BY <1>1, <1>7 DEF Working
<1>10. phase \notin Gone
  BY <1>1 DEF SessionInv, TasksFollow
<1>11. \A v \in Workers :
         /\ stage'[v] \in {"catalogue", "describe", "store"} /\ OwnRelation(at[v])
              => cache[RelationOf[at[v]]] = NoAnswer
         /\ stage'[v] = "store" => got'[v] \in Told
  BY <1>1, <1>7, <1>8 DEF SessionInv, AnswersAreCached
<1> QED
  BY <1>1, <1>6, <1>9, <1>10, <1>11, StepKeeps DEF Gone

\* The adapter property, entered and left.
LEMMA AdapterKeeps ==
    ASSUME NEW w \in Workers, SessionInv, AdapterEnter(w) \/ AdapterLeave(w)
    PROVE  SessionInv'
<1>1. /\ UNCHANGED <<main, result, stage, at, got, answers, cache, world, cleaned>>
      /\ need' = [need EXCEPT ![w] = "refresh"] \/ need' = [need EXCEPT ![w] = "adapter"]
      /\ conn' = conn \/ conn' = [conn EXCEPT ![w] = FALSE]
  BY DEF AdapterEnter, AdapterLeave
<1>2. Types'
  BY <1>1, Facts DEF SessionInv, Types, main
<1>3. phase = "closed" /\ cleaned => \A t \in Threads : ~conn'[t]
  <2>1. conn \in [Threads -> BOOLEAN] /\ w \in Threads
    BY Facts DEF SessionInv, Types
  <2>2. \A t \in Threads : conn'[t] => conn[t]
    BY <1>1, <2>1
  <2> QED
    BY <2>2 DEF SessionInv, TasksFollow
<1>4. \A v \in Workers : v \in Working' <=> v \in Working
  BY <1>1 DEF Working
<1> QED
  BY <1>1, <1>2, <1>3, <1>4, StepKeeps DEF SessionInv, AnswersAreCached

\* The five ways get_columns ends, each by EndKeeps.
LEMMA FinishKeeps ==
    ASSUME NEW w \in Workers, SessionInv,
           Fail(w) \/ Refuse(w) \/ Hit(w) \/ GiveUp(w) \/ Store(w)
    PROVE  SessionInv'
<1> DEFINE n == at[w]
           r == RelationOf[n]
<1>1. /\ w \in Working /\ n \in Nodes /\ cache \in [Relations -> Told \cup {NoAnswer}]
      /\ r \in Relations
  BY DEF Fail, Refuse, Hit, GiveUp, Store, Has, Working, SessionInv, Types, Relations
<1>2. answers[n] \in SUBSET Told /\ (OwnRelation(n) => answers[n] \subseteq {cache[r]})
  BY <1>1 DEF SessionInv, Types, AnswersAreCached
<1>3. CASE Fail(w) \/ Refuse(w) \/ GiveUp(w)
  <2>1. PICK status \in {"ok", "failed"} : End(w, status, {}) /\ cache' = cache
    BY <1>3 DEF Fail, Refuse, GiveUp
  <2>2. {} \in SUBSET Told
    OBVIOUS
  <2> QED
    BY <1>1, <1>2, <2>1, <2>2, EndKeeps
<1>4. CASE Hit(w)
  <2>1. End(w, "ok", {cache[r]}) /\ cache' = cache /\ {cache[r]} \in SUBSET Told
    BY <1>1, <1>4 DEF Hit
  <2> QED
    BY <1>1, <1>2, <2>1, EndKeeps
<1>5. CASE Store(w)
  <2>1. /\ End(w, "ok", {got[w]}) /\ cache' = [cache EXCEPT ![r] = got[w]]
        /\ (OwnRelation(n) => cache[r] = NoAnswer) /\ got[w] \in Told
    BY <1>5 DEF Store, Has, SessionInv, AnswersAreCached
  <2>2. OwnRelation(n) => answers[n] = {}
    BY <1>2, <2>1, Facts
  <2>3. {got[w]} \in SUBSET Told /\ cache'[r] = got[w] /\ cache' \in [Relations -> Told \cup {NoAnswer}]
    BY <1>1, <2>1
  <2>4. \A q \in Relations \ {r} : cache'[q] = cache[q]
    BY <1>1, <2>1
  <2> QED
    BY <1>1, <2>1, <2>2, <2>3, <2>4, EndKeeps
<1> QED
  BY <1>3, <1>4, <1>5

\* Every step keeps the invariant.
LEMMA SessionInvNext == SessionInv /\ [Next]_vars => SessionInv'
<1> SUFFICES ASSUME SessionInv, [Next]_vars
             PROVE  SessionInv'
  OBVIOUS
<1>1. CASE Command
  BY <1>1, SubmitKeeps, CollectKeeps, ClosingKeeps DEF Command
<1>2. CASE Interrupt
  BY <1>2, LeaveKeeps DEF Interrupt, links
<1>3. ASSUME NEW w \in Workers, Work(w)
      PROVE  SessionInv'
  BY <1>3, AdapterKeeps, TakeKeeps, AskKeeps, FinishKeeps DEF Work
<1>4. ASSUME NEW r \in Relations, Alter(r)
      PROVE  SessionInv'
  <2>1. UNCHANGED <<main, tasks, cache, links>> /\ world' = [world EXCEPT ![r] = @ + 1]
    BY <1>4 DEF Alter
  <2>2. Types'
    BY <2>1 DEF SessionInv, Types, main, tasks, links
  <2> QED
    BY <2>1, <2>2 DEF SessionInv, OneWorkerEach, AnswersAreCached, TasksFollow, Working, main,
       tasks, links, OwnRelation
<1>5. CASE (\E w \in Workers : Expire(w)) \/ UNCHANGED vars
  <2>1. UNCHANGED <<main, tasks, cache, world, conn, cleaned>>
    BY <1>5 DEF Expire, vars, links
  <2> QED
    BY <2>1 DEF SessionInv, Types, OneWorkerEach, AnswersAreCached, TasksFollow, Working, main,
       tasks, OwnRelation
<1> QED
  BY <1>1, <1>2, <1>3, <1>4, <1>5 DEF Next

\* What a command is told of a relation that one node has it is told in every
\* operation: get_columns answers from the cache or stores what it answers, for any
\* pool and project, whatever holds of relations that nodes share.
THEOREM OneTable == Spec => []OneTablePerRun
<1>1. SessionInv => OneTablePerRun
  <2> SUFFICES ASSUME SessionInv, NEW n \in Nodes, OwnRelation(n)
               PROVE  Cardinality(answers[n]) <= 1
    BY DEF OneTablePerRun
  <2>1. answers[n] = {} \/ answers[n] = {cache[RelationOf[n]]}
    BY DEF SessionInv, AnswersAreCached
  <2>2. Cardinality({}) = 0 /\ Cardinality({cache[RelationOf[n]]}) = 1
    BY FS_EmptySet, FS_Singleton
  <2> QED
    BY <2>1, <2>2
<1> QED
  BY <1>1, SessionInvInit, SessionInvNext, PTL DEF Spec

\* A closed command has no task running or waiting, and no connection open unless
\* closing them raised, for any pool and project and wherever it was interrupted.
THEOREM Quiet == Spec => []ClosedIsQuiet
<1>1. SessionInv => ClosedIsQuiet
  BY DEF SessionInv, OneWorkerEach, TasksFollow, ClosedIsQuiet, Gone, Working
<1> QED
  BY <1>1, SessionInvInit, SessionInvNext, PTL DEF Spec
==============================================================================
