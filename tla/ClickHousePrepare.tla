------------------------- MODULE ClickHousePrepare -------------------------
(***************************************************************************)
(* Preparation of one ClickHouse schema by several containers, on a        *)
(* cluster or on a single server.  A server or proxy container prepares    *)
(* its schema at every start, a one-shot init container once; they share   *)
(* nothing but ClickHouse.                                                 *)
(*                                                                         *)
(* Code modelled: internal/clickhouse/schema.go (Prepare and its helpers), *)
(* client.go (request) and internal/storageinit/prepare.go (the retries    *)
(* of a preparation, with bootstrap.Retry).                                *)
(*                                                                         *)
(* One action per request.  A statement with ON CLUSTER becomes one task   *)
(* for each replica, which carry them out on their own, also after the     *)
(* request has failed.                                                     *)
(***************************************************************************)
EXTENDS Integers, FiniteSets

CONSTANTS
  Nodes,        \* containers that run Client.Prepare
  Clustered,    \* containers configured with a cluster name
  Creating,     \* containers configured with create = true
  Replicas,     \* replicas of the ClickHouse cluster
  Entry,        \* the replica the configured URL leads to
  Tables,       \* number of tables of the dataset
  Attempts,     \* attempts of a preparation; the code makes 3
  MaxFaults     \* bound on outages, lost answers and stop signals

ASSUME ScopeAssumption ==
  /\ Clustered \subseteq Nodes
  /\ Creating \subseteq Nodes
  /\ IsFiniteSet(Replicas)
  /\ Entry \in Replicas
  /\ Tables \in Nat \ {0}
  /\ Attempts \in Nat \ {0}
  /\ MaxFaults \in Nat

VARIABLES
  pc,         \* pc[n]: the request container n is about to make
  step,       \* step[n]: object of the plan n is at, 0 for the database
  nodes,      \* nodes[n]: replicas n has counted in the cluster
  calls,      \* calls[n]: attempts begun
  cancelled,  \* cancelled[n]: a stop signal has ended the context
  result,     \* result[n]: what the retries returned
  objects,    \* objects[r]: objects that exist on replica r
  tasks,      \* <<o, r>>: r has been asked to create o and has not yet tried
  up,         \* replicas that answer
  faults      \* outages, lost answers and stop signals so far

control == <<pc, step, nodes, calls, cancelled, result>>
vars == <<control, objects, tasks, up, faults>>

Database == [kind |-> "database", table |-> 0]
Local(t) == [kind |-> "local", table |-> t]
Distributed(t) == [kind |-> "distributed", table |-> t]
Plain(t) == [kind |-> "plain", table |-> t]

Objects ==
  {Database} \cup
  UNION {{Local(t), Distributed(t), Plain(t)} : t \in 1..Tables}

\* "distributed" and "plain" are two engines of one name, the table's; the
\* local table of a cluster has a name of its own.
Name(o) == IF o.kind = "plain" THEN Distributed(o.table) ELSE o

Exists(o, r) == \E p \in objects[r] : Name(p) = Name(o)

\* The objects a container prepares, in this order: the database, then every
\* table; on a cluster its local table first.
LastStep(n) == IF n \in Clustered THEN 2 * Tables ELSE Tables
Plan(n, i) ==
  IF i = 0 THEN Database
  ELSE IF n \notin Clustered THEN Plain(i)
  ELSE IF i % 2 = 1 THEN Local((i + 1) \div 2)
  ELSE Distributed(i \div 2)

Preparing == {"cluster", "engines", "check", "create", "creating", "recheck"}
Phases == Preparing \cup {"created", "waiting", "ready", "failed"}

TypeOK ==
  /\ pc \in [Nodes -> Phases]
  /\ step \in [Nodes -> Nat]
  /\ \A n \in Nodes : step[n] \in 0..LastStep(n)
  /\ nodes \in [Nodes -> Nat]
  /\ calls \in [Nodes -> 0..Attempts]
  /\ cancelled \in [Nodes -> BOOLEAN]
  /\ result \in [Nodes -> {"none", "nil", "stopped", "cancelled", "last"}]
  /\ objects \in [Replicas -> SUBSET Objects]
  /\ tasks \subseteq Objects \X Replicas
  /\ up \subseteq Replicas
  /\ faults \in 0..MaxFaults

\* A replica is empty, or full (from an earlier deployment, before another
\* replica joined), or has the tables of a deployment without a cluster.
FullCluster == {Database} \cup {Local(t) : t \in 1..Tables} \cup
               {Distributed(t) : t \in 1..Tables}
FullSingle == {Database} \cup {Plain(t) : t \in 1..Tables}

Init ==
  /\ pc = [n \in Nodes |-> "created"]
  /\ step = [n \in Nodes |-> 0]
  /\ nodes = [n \in Nodes |-> 0]
  /\ calls = [n \in Nodes |-> 0]
  /\ cancelled = [n \in Nodes |-> FALSE]
  /\ result = [n \in Nodes |-> "none"]
  /\ \/ objects \in [Replicas -> {{}, FullCluster}]
     \/ objects = [r \in Replicas |-> IF r = Entry THEN FullSingle ELSE {}]
  /\ tasks = {}
  /\ up = Replicas
  /\ faults = 0

-----------------------------------------------------------------------------
(* ClickHouse *)

ReplicaDown(r) ==
  /\ r \in up
  /\ faults < MaxFaults
  /\ faults' = faults + 1
  /\ up' = up \ {r}
  /\ UNCHANGED <<control, objects, tasks>>

ReplicaUp(r) ==
  /\ r \notin up
  /\ up' = up \cup {r}
  /\ UNCHANGED <<control, objects, tasks, faults>>

\* A table needs its database, a Distributed table the local one it copies.
Possible(o, r) ==
  /\ o.kind # "database" => Database \in objects[r]
  /\ o.kind = "distributed" => Local(o.table) \in objects[r]

\* CREATE ... IF NOT EXISTS on one replica: nothing happens when the name is
\* taken, whatever its engine, or when the statement fails there.
Execute(o, r) ==
  /\ <<o, r>> \in tasks
  /\ r \in up
  /\ tasks' = tasks \ {<<o, r>>}
  /\ objects' = IF Exists(o, r) \/ ~Possible(o, r)
                THEN objects
                ELSE [objects EXCEPT ![r] = @ \cup {o}]
  /\ UNCHANGED <<control, up, faults>>

-----------------------------------------------------------------------------
(* Containers: storageinit.preparation.prepare and bootstrap.Retry *)

\* Bug: a query leaves out the replicas that do not answer.
Seen_available(n) == IF n \in Clustered THEN Replicas \cap up ELSE {Entry}

\* The replicas a query of n is about.
Seen(n) == IF n \in Clustered THEN Replicas ELSE {Entry}

\* A query is answered only if all of them do, and while n is not stopping.
Answered(n) == Seen(n) \cup {Entry} \subseteq up /\ ~cancelled[n]

Goto(n, phase) ==
  /\ pc' = [pc EXCEPT ![n] = phase]
  /\ UNCHANGED <<nodes, calls, cancelled, result>>

Return(n, r) ==
  /\ pc' = [pc EXCEPT ![n] = IF r = "nil" THEN "ready" ELSE "failed"]
  /\ result' = [result EXCEPT ![n] = r]
  /\ UNCHANGED <<nodes, calls, cancelled>>

\* Every attempt runs the whole of Client.Prepare.
BeginAttempt(n) ==
  /\ pc' = [pc EXCEPT ![n] = IF n \in Clustered THEN "cluster" ELSE "check"]
  /\ step' = [step EXCEPT ![n] = 0]
  /\ nodes' = [nodes EXCEPT ![n] = 1]

\* The container starts, or starts again after its entrypoint has failed.
Start(n) ==
  /\ pc[n] \in {"created", "failed"}
  /\ BeginAttempt(n)
  /\ calls' = [calls EXCEPT ![n] = 1]
  /\ cancelled' = [cancelled EXCEPT ![n] = FALSE]
  /\ result' = [result EXCEPT ![n] = "none"]
  /\ UNCHANGED <<objects, tasks, up, faults>>

StopSignal(n) ==
  /\ pc[n] \in Preparing \cup {"waiting"}
  /\ ~cancelled[n]
  /\ faults < MaxFaults
  /\ faults' = faults + 1
  /\ cancelled' = [cancelled EXCEPT ![n] = TRUE]
  /\ UNCHANGED <<pc, step, nodes, calls, result, objects, tasks, up>>

\* Bug: the context is not asked after a failed attempt.
DialFails_ignoreContext(n) ==
  /\ pc[n] \in Preparing \ {"creating"}
  /\ Entry \notin up
  /\ IF calls[n] = Attempts THEN Return(n, "last") ELSE Goto(n, "waiting")
  /\ UNCHANGED <<step, objects, tasks, up, faults>>

\* Only a connection that could not be opened is tried again.
DialFails(n) ==
  /\ pc[n] \in Preparing \ {"creating"}
  /\ Entry \notin up
  /\ IF cancelled[n] THEN Return(n, "cancelled")
     ELSE IF calls[n] = Attempts THEN Return(n, "last")
     ELSE Goto(n, "waiting")
  /\ UNCHANGED <<step, objects, tasks, up, faults>>

Resume(n) ==
  /\ pc[n] = "waiting"
  /\ BeginAttempt(n)
  /\ calls' = [calls EXCEPT ![n] = @ + 1]
  /\ UNCHANGED <<cancelled, result, objects, tasks, up, faults>>

GiveUp(n) ==
  /\ pc[n] = "waiting"
  /\ cancelled[n]
  /\ Return(n, "cancelled")
  /\ UNCHANGED <<step, objects, tasks, up, faults>>

\* A replica does not answer, the context has ended, or an answer is lost.
\* A container that is killed here leaves the same behind.
RequestFails(n) ==
  /\ pc[n] \in Preparing
  /\ \/ ~Answered(n) /\ UNCHANGED faults
     \/ faults < MaxFaults /\ faults' = faults + 1
  /\ Return(n, "stopped")
  /\ UNCHANGED <<step, objects, tasks, up>>

-----------------------------------------------------------------------------
(* Containers: clickhouse.Client.Prepare *)

\* Bug: the engines of existing tables are not looked at first.
CountCluster_noEngines(n) ==
  /\ pc[n] = "cluster"
  /\ Answered(n)
  /\ nodes' = [nodes EXCEPT ![n] = Cardinality(Seen(n))]
  /\ pc' = [pc EXCEPT ![n] = "check"]
  /\ UNCHANGED <<step, calls, cancelled, result, objects, tasks, up, faults>>

CountCluster(n) ==
  /\ pc[n] = "cluster"
  /\ Answered(n)
  /\ nodes' = [nodes EXCEPT ![n] = Cardinality(Seen(n))]
  /\ pc' = [pc EXCEPT ![n] = "engines"]
  /\ UNCHANGED <<step, calls, cancelled, result, objects, tasks, up, faults>>

PlainTables == {r \in Replicas : \E t \in 1..Tables : Plain(t) \in objects[r]}

\* checkDistributedTables: a table of another engine is never converted.
CheckEngines(n) ==
  /\ pc[n] = "engines"
  /\ Answered(n)
  /\ IF PlainTables = {} THEN Goto(n, "check") ELSE Return(n, "stopped")
  /\ UNCHANGED <<step, objects, tasks, up, faults>>

Present(n) ==
  Cardinality({r \in Seen(n) : Exists(Plan(n, step[n]), r)}) = nodes[n]

\* The object is there: the next one, or Prepare returns nil.
Advance(n) ==
  IF step[n] = LastStep(n)
  THEN Return(n, "nil") /\ UNCHANGED step
  ELSE Goto(n, "check") /\ step' = [step EXCEPT ![n] = @ + 1]

\* The first count of ensure.
Check(n) ==
  /\ pc[n] = "check"
  /\ Answered(n)
  /\ \/ Present(n) /\ Advance(n)
     \/ /\ ~Present(n)
        /\ IF n \in Creating THEN Goto(n, "create") ELSE Return(n, "stopped")
        /\ UNCHANGED step
  /\ UNCHANGED <<objects, tasks, up, faults>>

\* Bug: the statement lacks its ON CLUSTER clause.
Create_entryOnly(n) ==
  /\ pc[n] = "create"
  /\ Entry \in up
  /\ ~cancelled[n]
  /\ tasks' = tasks \cup {<<Plan(n, step[n]), Entry>>}
  /\ Goto(n, "creating")
  /\ UNCHANGED <<step, objects, up, faults>>

\* The DDL statement reaches ClickHouse, which hands it to the replicas.
Create(n) ==
  /\ pc[n] = "create"
  /\ Entry \in up
  /\ ~cancelled[n]
  /\ tasks' = tasks \cup ({Plan(n, step[n])} \X Seen(n))
  /\ Goto(n, "creating")
  /\ UNCHANGED <<step, objects, up, faults>>

\* Bug: the answer is believed and the objects are not counted again.
Created_believed(n) ==
  /\ pc[n] = "creating"
  /\ Entry \in up
  /\ n \notin Clustered => <<Plan(n, step[n]), Entry>> \notin tasks
  /\ Advance(n)
  /\ UNCHANGED <<objects, tasks, up, faults>>

\* Its answer.  That of ON CLUSTER may come before every replica is done, as
\* the settings of the user decide.
Created(n) ==
  /\ pc[n] = "creating"
  /\ Entry \in up
  /\ n \notin Clustered => <<Plan(n, step[n]), Entry>> \notin tasks
  /\ Goto(n, "recheck")
  /\ UNCHANGED <<step, objects, tasks, up, faults>>

\* The second count of ensure.
Recheck(n) ==
  /\ pc[n] = "recheck"
  /\ Answered(n)
  /\ \/ Present(n) /\ Advance(n)
     \/ ~Present(n) /\ Return(n, "stopped") /\ UNCHANGED step
  /\ UNCHANGED <<objects, tasks, up, faults>>

-----------------------------------------------------------------------------
Container(n) ==
  \/ Start(n) \/ DialFails(n) \/ Resume(n) \/ GiveUp(n) \/ RequestFails(n)
  \/ CountCluster(n) \/ CheckEngines(n)
  \/ Check(n) \/ Create(n) \/ Created(n) \/ Recheck(n)

Next ==
  \/ \E n \in Nodes : Container(n) \/ StopSignal(n)
  \/ \E r \in Replicas : ReplicaDown(r) \/ ReplicaUp(r)
  \/ \E o \in Objects, r \in Replicas : Execute(o, r)

Spec == Init /\ [][Next]_vars

\* Containers run and are restarted by their policy; replicas come back and
\* carry out what they were asked.
Fairness ==
  /\ \A n \in Nodes : WF_vars(Container(n))
  /\ \A r \in Replicas : WF_vars(ReplicaUp(r))
  /\ \A o \in Objects, r \in Replicas : WF_vars(Execute(o, r))

FairSpec == Spec /\ Fairness

-----------------------------------------------------------------------------
(* Properties *)

\* A container that goes on to its service has every object on every replica
\* it is configured for: whatever went down, was lost or ran at the same time,
\* and although statements carry on behind a request that failed.
ReadyEverywhere ==
  \A n \in Nodes : pc[n] = "ready" =>
    \A i \in 0..LastStep(n), r \in Replicas :
      n \in Clustered \/ r = Entry => Exists(Plan(n, i), r)

\* A Distributed table is created only when every replica has the local table
\* behind it, so that no insert or query is routed to a replica without one.
LocalFirst ==
  [][\A r \in Replicas, t \in 1..Tables :
       Distributed(t) \in objects'[r] \ objects[r] =>
         \A s \in Replicas : Local(t) \in objects[s]]_vars

\* What the comment of checkDistributedTables' call promises: where a table of
\* another engine stands in the way, no unused _local table is created.
NoUnusedLocal ==
  [][\A r \in Replicas, t \in 1..Tables :
       Local(t) \in objects'[r] \ objects[r] => PlainTables = {}]_vars

\* What the comment of Prepare says of a cluster: its tables use the
\* Distributed engine.
ClusterTablesDistributed ==
  \A n \in Clustered : pc[n] = "ready" => PlainTables = {}

\* A cluster free of plain tables is prepared in the end by every container,
\* also by those that only check, whatever fails a bounded number of times.
EventuallyPrepared ==
  [](PlainTables = {}) => <>[](\A n \in Nodes : pc[n] = "ready")

-----------------------------------------------------------------------------
(* Every container is one caller of bootstrap.Retry. *)

RetryOf(n) == INSTANCE Retry WITH
  at <- CASE pc[n] = "created" -> "idle"
          [] pc[n] = "waiting" -> "pause"
          [] pc[n] \in {"ready", "failed"} -> "returned"
          [] OTHER -> "attempt",
  limit <- Attempts,
  calls <- calls[n],
  cancelled <- cancelled[n],
  result <- result[n]

\* The attempts of every container, their number, their pauses and the way
\* they end with a stop signal are those bootstrap.Retry promises.
ImplementsRetry ==
  /\ \A n \in Nodes : RetryOf(n)!Init
  /\ [][\A n \in Nodes : [RetryOf(n)!Next]_(RetryOf(n)!vars)]_vars
=============================================================================
