---------------------- MODULE ClickHousePrepare_proofs ----------------------
(***************************************************************************)
(* Proofs about ClickHousePrepare for any containers, replicas, number of  *)
(* tables and of faults.                                                   *)
(*                                                                         *)
(* Objects are never dropped, so what a container has counted on every     *)
(* replica it sees stays there: the invariant says that the steps behind a *)
(* container are done, and that a pending task for a Distributed table has *)
(* its local tables.                                                       *)
(***************************************************************************)
EXTENDS ClickHousePrepare, FiniteSetTheorems, TLAPS

Counting == {"check", "create", "creating", "recheck"}

Done(n, i) == \A r \in Seen(n) : Exists(Plan(n, i), r)

\* What n knows: the replicas it has counted, and the steps it has done.  A
\* pause is followed by an attempt, so one must be left.
Known(n) ==
  /\ pc[n] = "waiting" => calls[n] < Attempts
  /\ pc[n] \in {"cluster", "engines"} => step[n] = 0
  /\ pc[n] \in Counting \cup {"engines"} => nodes[n] = Cardinality(Seen(n))
  /\ pc[n] \in Counting => \A i \in 0..LastStep(n) : i < step[n] => Done(n, i)
  /\ pc[n] = "ready" => \A i \in 0..LastStep(n) : Done(n, i)

LocalBehind ==
  \A o \in Objects, r \in Replicas :
    <<o, r>> \in tasks /\ o.kind = "distributed" =>
      \A s \in Replicas : Local(o.table) \in objects[s]

IInv == TypeOK /\ (\A n \in Nodes : Known(n)) /\ LocalBehind

-----------------------------------------------------------------------------
(* Facts about the plan *)

\* The number of steps is a natural number.
LEMMA LastStepType ==
  ASSUME NEW n \in Nodes
  PROVE  LastStep(n) \in Nat
BY ScopeAssumption DEF LastStep

\* Every step of the plan is one of the objects.
LEMMA PlanType ==
  ASSUME NEW n \in Nodes, NEW i \in 0..LastStep(n)
  PROVE  Plan(n, i) \in Objects
<1>1. Tables \in Nat \ {0}
  BY ScopeAssumption
<1>2. CASE i = 0
  BY <1>2 DEF Plan, Objects
<1>3. CASE i # 0 /\ n \notin Clustered
  <2>1. i \in 1..Tables
    BY <1>1, <1>3 DEF LastStep
  <2> QED  BY <1>3, <2>1 DEF Plan, Objects
<1>4. CASE i # 0 /\ n \in Clustered /\ i % 2 = 1
  <2>1. (i + 1) \div 2 \in 1..Tables
    BY <1>1, <1>4 DEF LastStep
  <2> QED  BY <1>4, <2>1 DEF Plan, Objects
<1>5. CASE i # 0 /\ n \in Clustered /\ i % 2 # 1
  <2>1. i \div 2 \in 1..Tables
    BY <1>1, <1>5 DEF LastStep
  <2> QED  BY <1>5, <2>1 DEF Plan, Objects
<1> QED  BY <1>2, <1>3, <1>4, <1>5

\* The step before a Distributed table is its local table.
LEMMA LocalBefore ==
  ASSUME NEW n \in Nodes, NEW i \in 0..LastStep(n),
         Plan(n, i).kind = "distributed"
  PROVE  /\ n \in Clustered
         /\ i - 1 \in 0..LastStep(n)
         /\ Plan(n, i - 1) = Local(Plan(n, i).table)
<1>1. LastStep(n) \in Nat
  BY LastStepType
<1>2. i # 0 /\ n \in Clustered /\ i % 2 # 1
  BY DEF Plan, Database, Plain, Local
<1>3. i - 1 \in 0..LastStep(n)
  BY <1>1, <1>2
<1>4. Plan(n, i).table = i \div 2
  BY <1>2 DEF Plan, Distributed
<1>5. i - 1 # 0 /\ (i - 1) % 2 = 1 /\ ((i - 1) + 1) \div 2 = i \div 2
  BY <1>1, <1>2
<1>6. Plan(n, i - 1) = Local(((i - 1) + 1) \div 2)
  BY <1>2, <1>5 DEF Plan
<1> QED  BY <1>2, <1>3, <1>4, <1>5, <1>6

\* The name of a local table belongs to that table alone.
LEMMA LocalName ==
  ASSUME TypeOK, NEW t \in 1..Tables, NEW r \in Replicas, Exists(Local(t), r)
  PROVE  Local(t) \in objects[r]
<1>1. PICK p \in objects[r] : Name(p) = Name(Local(t))
  BY DEF Exists
<1>2. p \in Objects
  BY DEF TypeOK
<1>3. Name(Local(t)) = Local(t)
  BY DEF Name, Local
<1>4. p.kind # "plain"
  BY <1>1, <1>3 DEF Name, Local, Distributed
<1>5. p = Local(t)
  BY <1>1, <1>3, <1>4 DEF Name
<1> QED  BY <1>1, <1>5

\* Counting an object on all replicas means that each of them has it.
LEMMA PresentDone ==
  ASSUME NEW n \in Nodes, nodes[n] = Cardinality(Seen(n)), Present(n)
  PROVE  Done(n, step[n])
<1> DEFINE T == {r \in Seen(n) : Exists(Plan(n, step[n]), r)}
<1>1. IsFiniteSet(Seen(n))
  BY ScopeAssumption, FS_Singleton DEF Seen
<1>2. T \in SUBSET Seen(n)
  OBVIOUS
<1>3. Cardinality(T) = Cardinality(Seen(n))
  BY DEF Present
<1>4. Seen(n) = T
  BY <1>1, <1>2, <1>3, FS_Subset
<1> QED  BY <1>4 DEF Done

-----------------------------------------------------------------------------
(* Type correctness *)

LEMMA TypeInit == Init => TypeOK
<1> SUFFICES ASSUME Init PROVE TypeOK
  OBVIOUS
<1>1. pc \in [Nodes -> Phases] /\ nodes \in [Nodes -> Nat]
  BY DEF Init, Phases
<1>2. /\ step \in [Nodes -> Nat]
      /\ \A n \in Nodes : step[n] \in 0..LastStep(n)
  BY LastStepType DEF Init
<1>3. calls \in [Nodes -> 0..Attempts] /\ cancelled \in [Nodes -> BOOLEAN]
  BY ScopeAssumption DEF Init
<1>4. result \in [Nodes -> {"none", "nil", "stopped", "cancelled", "last"}]
  BY DEF Init
<1>5. objects \in [Replicas -> SUBSET Objects]
  <2>1. {} \subseteq Objects /\ FullCluster \subseteq Objects /\
        FullSingle \subseteq Objects
    BY DEF FullCluster, FullSingle, Objects
  <2>2. CASE objects \in [Replicas -> {{}, FullCluster}]
    BY <2>1, <2>2
  <2>3. CASE objects = [r \in Replicas |-> IF r = Entry THEN FullSingle ELSE {}]
    BY <2>1, <2>3
  <2> QED  BY <2>2, <2>3 DEF Init
<1>6. tasks \subseteq Objects \X Replicas /\ up \subseteq Replicas /\
      faults \in 0..MaxFaults
  BY ScopeAssumption DEF Init
<1> QED  BY <1>1, <1>2, <1>3, <1>4, <1>5, <1>6 DEF TypeOK

\* Going on to the next object keeps the types.
LEMMA AdvanceType ==
  ASSUME TypeOK, NEW n \in Nodes, Advance(n),
         UNCHANGED <<objects, tasks, up, faults>>
  PROVE  TypeOK'
<1>1. CASE step[n] = LastStep(n)
  BY <1>1 DEF Advance, Return, TypeOK, Phases
<1>2. CASE step[n] # LastStep(n)
  <2>1. step[n] + 1 \in 0..LastStep(n)
    BY <1>2, LastStepType DEF TypeOK
  <2>2. /\ step' \in [Nodes -> Nat]
        /\ \A m \in Nodes : step'[m] \in 0..LastStep(m)
    BY <1>2, <2>1 DEF Advance, TypeOK
  <2>3. pc' \in [Nodes -> Phases]
    BY <1>2 DEF Advance, Goto, TypeOK, Phases, Preparing
  <2> QED  BY <1>2, <2>2, <2>3 DEF Advance, Goto, TypeOK
<1> QED  BY <1>1, <1>2

\* No action leads out of the types.
LEMMA TypeStep == IInv /\ [Next]_vars => TypeOK'
<1> SUFFICES ASSUME IInv, [Next]_vars PROVE TypeOK'
  OBVIOUS
<1> TypeOK /\ \A n \in Nodes : pc[n] = "waiting" => calls[n] < Attempts
  BY DEF IInv, Known
<1> USE ScopeAssumption, LastStepType DEF TypeOK, Phases, Preparing
<1>1. ASSUME NEW n \in Nodes, Start(n) PROVE TypeOK'
  BY <1>1 DEF Start, BeginAttempt
<1>2. ASSUME NEW n \in Nodes, DialFails(n) PROVE TypeOK'
  BY <1>2 DEF DialFails, Return, Goto
<1>3. ASSUME NEW n \in Nodes, Resume(n) PROVE TypeOK'
  <2>1. calls[n] + 1 \in 0..Attempts
    BY <1>3 DEF Resume
  <2> QED  BY <1>3, <2>1 DEF Resume, BeginAttempt
<1>4. ASSUME NEW n \in Nodes, GiveUp(n) PROVE TypeOK'
  BY <1>4 DEF GiveUp, Return
<1>5. ASSUME NEW n \in Nodes, RequestFails(n) PROVE TypeOK'
  BY <1>5 DEF RequestFails, Return
<1>6. ASSUME NEW n \in Nodes, CountCluster(n) PROVE TypeOK'
  <2>1. IsFiniteSet(Seen(n))
    BY FS_Singleton DEF Seen
  <2>2. Cardinality(Seen(n)) \in Nat
    BY <2>1, FS_CardinalityType
  <2> QED  BY <1>6, <2>2 DEF CountCluster
<1>7. ASSUME NEW n \in Nodes, CheckEngines(n) PROVE TypeOK'
  BY <1>7 DEF CheckEngines, Return, Goto
<1>8. ASSUME NEW n \in Nodes, Check(n) PROVE TypeOK'
  <2>1. CASE Present(n)
    BY <1>8, <2>1, AdvanceType DEF Check
  <2>2. CASE ~Present(n)
    BY <1>8, <2>2 DEF Check, Return, Goto
  <2> QED  BY <2>1, <2>2
<1>9. ASSUME NEW n \in Nodes, Create(n) PROVE TypeOK'
  <2>1. Plan(n, step[n]) \in Objects /\ Seen(n) \subseteq Replicas
    BY PlanType DEF Seen
  <2> QED  BY <1>9, <2>1 DEF Create, Goto
<1>10. ASSUME NEW n \in Nodes, Created(n) PROVE TypeOK'
  BY <1>10 DEF Created, Goto
<1>11. ASSUME NEW n \in Nodes, Recheck(n) PROVE TypeOK'
  <2>1. CASE Present(n)
    BY <1>11, <2>1, AdvanceType DEF Recheck
  <2>2. CASE ~Present(n)
    BY <1>11, <2>2 DEF Recheck, Return, Goto
  <2> QED  BY <2>1, <2>2
<1>12. ASSUME NEW n \in Nodes, StopSignal(n) PROVE TypeOK'
  BY <1>12 DEF StopSignal
<1>13. ASSUME NEW r \in Replicas, ReplicaDown(r) \/ ReplicaUp(r) PROVE TypeOK'
  BY <1>13 DEF ReplicaDown, ReplicaUp, control
<1>14. ASSUME NEW o \in Objects, NEW r \in Replicas, Execute(o, r)
       PROVE TypeOK'
  BY <1>14 DEF Execute, control
<1>15. CASE UNCHANGED vars
  BY <1>15 DEF vars, control
<1> QED
  BY <1>1, <1>2, <1>3, <1>4, <1>5, <1>6, <1>7, <1>8, <1>9, <1>10, <1>11,
     <1>12, <1>13, <1>14, <1>15 DEF Next, Container

-----------------------------------------------------------------------------
(* The inductive invariant *)

\* No object is ever dropped.
LEMMA ObjectsGrow ==
  ASSUME TypeOK, [Next]_vars
  PROVE  \A r \in Replicas : objects[r] \subseteq objects'[r]
<1>1. ASSUME NEW o \in Objects, NEW r \in Replicas, Execute(o, r)
      PROVE  \A s \in Replicas : objects[s] \subseteq objects'[s]
  BY <1>1 DEF Execute, TypeOK
<1>2. ASSUME NEW n \in Nodes, Container(n) \/ StopSignal(n)
      PROVE  objects' = objects
  BY <1>2 DEF Container, Start, DialFails, Resume, GiveUp, RequestFails,
     CountCluster, CheckEngines, Check, Create, Created, Recheck, StopSignal
<1>3. ASSUME NEW r \in Replicas, ReplicaDown(r) \/ ReplicaUp(r)
      PROVE  objects' = objects
  BY <1>3 DEF ReplicaDown, ReplicaUp
<1> QED  BY <1>1, <1>2, <1>3 DEF Next, vars

\* A step that was done stays done.
LEMMA DoneStays ==
  ASSUME TypeOK, [Next]_vars, NEW n \in Nodes, NEW i \in Nat, Done(n, i)
  PROVE  Done(n, i)'
<1>1. Seen(n) \subseteq Replicas
  BY ScopeAssumption DEF Seen
<1>2. \A r \in Seen(n) : objects[r] \subseteq objects'[r]
  BY <1>1, ObjectsGrow
<1> QED  BY <1>2 DEF Done, Exists, Seen

\* A step of one container leaves what the others know about themselves.
LEMMA OthersSame ==
  ASSUME TypeOK, NEW n \in Nodes, Container(n) \/ StopSignal(n),
         NEW m \in Nodes, m # n
  PROVE  /\ pc'[m] = pc[m] /\ step'[m] = step[m]
         /\ nodes'[m] = nodes[m] /\ calls'[m] = calls[m]
         /\ cancelled'[m] = cancelled[m] /\ result'[m] = result[m]
<1> USE DEF TypeOK
<1>1. CASE Start(n) \/ Resume(n)
  BY <1>1 DEF Start, Resume, BeginAttempt
<1>2. CASE DialFails(n) \/ GiveUp(n) \/ RequestFails(n) \/ StopSignal(n)
  BY <1>2 DEF DialFails, GiveUp, RequestFails, StopSignal, Return, Goto
<1>3. CASE CountCluster(n) \/ CheckEngines(n) \/ Create(n) \/ Created(n)
  BY <1>3 DEF CountCluster, CheckEngines, Create, Created, Return, Goto
<1>4. CASE Check(n)
  BY <1>4 DEF Check, Advance, Return, Goto
<1>5. CASE Recheck(n)
  BY <1>5 DEF Recheck, Advance, Return, Goto
<1> QED  BY <1>1, <1>2, <1>3, <1>4, <1>5 DEF Container

\* Going on to the next object: the one that was counted is done.
LEMMA AdvanceKnown ==
  ASSUME TypeOK, NEW n \in Nodes, Known(n), pc[n] \in Counting,
         Present(n), Advance(n), UNCHANGED <<objects, tasks, up, faults>>
  PROVE  Known(n)'
<1>1. step[n] \in 0..LastStep(n) /\ LastStep(n) \in Nat
  BY LastStepType DEF TypeOK
<1>2. Done(n, step[n])
  BY PresentDone DEF Known
<1>3. \A i \in 0..LastStep(n) : i <= step[n] => Done(n, i)
  <2> SUFFICES ASSUME NEW i \in 0..LastStep(n), i <= step[n] PROVE Done(n, i)
    OBVIOUS
  <2>1. CASE i = step[n]
    BY <2>1, <1>2
  <2>2. CASE i < step[n]
    BY <2>2 DEF Known
  <2> QED  BY <1>1, <2>1, <2>2
<1>4. \A i \in 0..LastStep(n) : Done(n, i) => Done(n, i)'
  BY DEF Done, Exists, Seen
<1>5. CASE step[n] = LastStep(n)
  <2>1. pc'[n] = "ready"
    BY <1>5 DEF Advance, Return, TypeOK
  <2> QED  BY <1>1, <1>3, <1>4, <1>5, <2>1 DEF Known, Counting
<1>6. CASE step[n] # LastStep(n)
  <2>1. pc'[n] = "check" /\ step'[n] = step[n] + 1 /\ nodes'[n] = nodes[n]
    BY <1>6 DEF Advance, Goto, TypeOK
  <2>2. \A i \in 0..LastStep(n) : i < step'[n] => Done(n, i)'
    BY <1>1, <1>3, <1>4, <2>1
  <2>3. nodes'[n] = Cardinality(Seen(n)')
    BY <2>1 DEF Known, Seen
  <2> QED  BY <2>1, <2>2, <2>3 DEF Known, Counting
<1> QED  BY <1>5, <1>6

\* What a container knows stays true through every step.
LEMMA KnownStep ==
  ASSUME IInv, [Next]_vars, NEW n \in Nodes
  PROVE  Known(n)'
<1> TypeOK /\ Known(n) /\ step[n] \in 0..LastStep(n)
  BY DEF IInv, TypeOK
<1> LastStep(n) \in Nat
  BY LastStepType
<1>1. \A i \in 0..LastStep(n) : Done(n, i) => Done(n, i)'
  BY DoneStays
<1>2. Seen(n)' = Seen(n)
  BY DEF Seen
<1>3. ASSUME pc'[n] = pc[n], step'[n] = step[n], nodes'[n] = nodes[n],
             calls'[n] = calls[n]
      PROVE  Known(n)'
  BY <1>1, <1>2, <1>3 DEF Known
<1>4. ASSUME pc'[n] \in {"cluster", "check"}, step'[n] = 0,
             pc'[n] = "check" => n \notin Clustered, nodes'[n] = 1
      PROVE  Known(n)'
  <2>1. pc'[n] = "check" => nodes'[n] = Cardinality(Seen(n))
    BY <1>4, FS_Singleton DEF Seen
  <2> QED  BY <1>2, <1>4, <2>1 DEF Known, Counting
<1>5. ASSUME pc'[n] = "failed"
      PROVE  Known(n)'
  BY <1>5 DEF Known, Counting
<1>6. ASSUME pc[n] \in Counting \cup {"engines"}, pc'[n] \in Counting,
             step'[n] = step[n], nodes'[n] = nodes[n]
      PROVE  Known(n)'
  BY <1>1, <1>2, <1>6 DEF Known, Counting
<1>7. CASE Start(n) \/ Resume(n)
  BY <1>4, <1>7 DEF Start, Resume, BeginAttempt, TypeOK
<1>8. CASE DialFails(n)
  <2>1. calls[n] # Attempts => calls[n] < Attempts
    BY ScopeAssumption DEF TypeOK
  <2>2. \/ pc'[n] = "failed"
        \/ pc'[n] = "waiting" /\ calls[n] # Attempts /\ calls'[n] = calls[n]
    BY <1>8 DEF DialFails, Return, Goto, TypeOK
  <2>3. CASE pc'[n] = "waiting"
    BY <2>1, <2>2, <2>3 DEF Known, Counting
  <2> QED  BY <1>5, <2>2, <2>3
<1>9. CASE GiveUp(n) \/ RequestFails(n)
  BY <1>5, <1>9 DEF GiveUp, RequestFails, Return, TypeOK
<1>10. CASE CountCluster(n)
  BY <1>2, <1>10 DEF CountCluster, Known, Counting, TypeOK
<1>11. CASE CheckEngines(n)
  <2>1. CASE PlainTables = {}
    BY <1>6, <1>11, <2>1 DEF CheckEngines, Goto, TypeOK, Counting
  <2>2. CASE PlainTables # {}
    BY <1>5, <1>11, <2>2 DEF CheckEngines, Return, TypeOK
  <2> QED  BY <2>1, <2>2
<1>12. CASE Check(n)
  <2>1. CASE Present(n)
    BY <1>12, <2>1, AdvanceKnown DEF Check, Counting
  <2>2. CASE ~Present(n) /\ n \in Creating
    BY <1>6, <1>12, <2>2 DEF Check, Goto, TypeOK, Counting
  <2>3. CASE ~Present(n) /\ n \notin Creating
    BY <1>5, <1>12, <2>3 DEF Check, Return, TypeOK
  <2> QED  BY <2>1, <2>2, <2>3
<1>13. CASE Create(n) \/ Created(n)
  BY <1>6, <1>13 DEF Create, Created, Goto, TypeOK, Counting
<1>14. CASE Recheck(n)
  <2>1. CASE Present(n)
    BY <1>14, <2>1, AdvanceKnown DEF Recheck, Counting
  <2>2. CASE ~Present(n)
    BY <1>5, <1>14, <2>2 DEF Recheck, Return, TypeOK
  <2> QED  BY <2>1, <2>2
<1>15. CASE StopSignal(n)
  BY <1>3, <1>15 DEF StopSignal
<1>16. ASSUME NEW m \in Nodes, m # n, Container(m) \/ StopSignal(m)
       PROVE  Known(n)'
  BY <1>3, <1>16, OthersSame
<1>17. ASSUME NEW r \in Replicas, ReplicaDown(r) \/ ReplicaUp(r)
       PROVE  Known(n)'
  BY <1>3, <1>17 DEF ReplicaDown, ReplicaUp, control
<1>18. ASSUME NEW o \in Objects, NEW r \in Replicas, Execute(o, r)
       PROVE  Known(n)'
  BY <1>3, <1>18 DEF Execute, control
<1>19. CASE UNCHANGED vars
  BY <1>3, <1>19 DEF vars, control
<1>20. CASE Container(n)
  BY <1>7, <1>8, <1>9, <1>10, <1>11, <1>12, <1>13, <1>14, <1>20 DEF Container
<1> QED
  BY <1>15, <1>16, <1>17, <1>18, <1>19, <1>20 DEF Next

\* Only a container that has done the local step asks for a Distributed table.
LEMMA LocalBehindStep ==
  ASSUME IInv, [Next]_vars
  PROVE  LocalBehind'
<1> TypeOK
  BY DEF IInv
<1> SUFFICES ASSUME NEW o \in Objects, NEW r \in Replicas, <<o, r>> \in tasks',
                    o.kind = "distributed", NEW s \in Replicas
             PROVE  Local(o.table) \in objects'[s]
  BY DEF LocalBehind
<1>1. objects[s] \subseteq objects'[s]
  BY ObjectsGrow
<1>2. CASE <<o, r>> \in tasks
  BY <1>1, <1>2 DEF IInv, LocalBehind
<1>3. CASE <<o, r>> \notin tasks
  <2>1. PICK n \in Nodes : Create(n)
    <3>1. ASSUME NEW n \in Nodes, Container(n) \/ StopSignal(n), ~Create(n)
          PROVE  tasks' = tasks
      BY <3>1 DEF Container, Start, DialFails, Resume, GiveUp, RequestFails,
         CountCluster, CheckEngines, Check, Created, Recheck, StopSignal
    <3>2. ASSUME NEW x \in Replicas, ReplicaDown(x) \/ ReplicaUp(x)
          PROVE  tasks' = tasks
      BY <3>2 DEF ReplicaDown, ReplicaUp
    <3>3. ASSUME NEW p \in Objects, NEW x \in Replicas, Execute(p, x)
          PROVE  tasks' \subseteq tasks
      BY <3>3 DEF Execute
    <3> QED  BY <1>3, <3>1, <3>2, <3>3 DEF Next, vars
  <2> DEFINE i == step[n]
  <2>2. i \in 0..LastStep(n) /\ o = Plan(n, i)
    BY <1>3, <2>1 DEF Create, TypeOK
  <2>3. /\ n \in Clustered
        /\ i - 1 \in 0..LastStep(n)
        /\ Plan(n, i - 1) = Local(o.table)
    BY <2>2, LocalBefore
  <2>4. Done(n, i - 1)
    BY <2>1, <2>2, <2>3 DEF Create, IInv, Known, Counting
  <2>5. Exists(Local(o.table), s)
    BY <2>3, <2>4 DEF Done, Seen
  <2>6. o.table \in 1..Tables
    BY ScopeAssumption DEF Objects, Database, Local, Distributed, Plain
  <2> QED  BY <1>1, <2>5, <2>6, LocalName
<1> QED  BY <1>2, <1>3

LEMMA IInvInit == Init => IInv
BY TypeInit DEF Init, IInv, Known, Counting, LocalBehind

LEMMA IInvStep == IInv /\ [Next]_vars => IInv'
BY TypeStep, KnownStep, LocalBehindStep DEF IInv

LEMMA Invariance == Spec => []IInv
BY IInvInit, IInvStep, PTL DEF Spec

-----------------------------------------------------------------------------
(* Theorems *)

\* Every reachable state is well typed; in particular the attempts of a
\* preparation never exceed their number.
THEOREM TypeCorrect == Spec => []TypeOK
<1>1. IInv => TypeOK
  BY DEF IInv
<1> QED  BY <1>1, Invariance, PTL

\* A container is ready only when each object of its plan exists on each
\* replica it is configured for.
THEOREM ReadyMeansEverywhere == Spec => []ReadyEverywhere
<1>1. IInv => ReadyEverywhere
  BY DEF IInv, Known, ReadyEverywhere, Done, Seen
<1> QED  BY <1>1, Invariance, PTL

\* A Distributed table is created only above its local tables.
THEOREM LocalTablesFirst == Spec => LocalFirst
<1>1. ASSUME IInv, [Next]_vars, NEW r \in Replicas, NEW t \in 1..Tables,
             Distributed(t) \in objects'[r] \ objects[r], NEW s \in Replicas
      PROVE  Local(t) \in objects[s]
  <2>1. <<Distributed(t), r>> \in tasks
    <3>1. ASSUME NEW o \in Objects, NEW x \in Replicas, Execute(o, x)
          PROVE  <<Distributed(t), r>> \in tasks
      BY <1>1, <3>1 DEF Execute, IInv, TypeOK
    <3>2. ASSUME NEW n \in Nodes, Container(n) \/ StopSignal(n)
          PROVE  objects' = objects
      BY <3>2 DEF Container, Start, DialFails, Resume, GiveUp, RequestFails,
         CountCluster, CheckEngines, Check, Create, Created, Recheck, StopSignal
    <3>3. ASSUME NEW x \in Replicas, ReplicaDown(x) \/ ReplicaUp(x)
          PROVE  objects' = objects
      BY <3>3 DEF ReplicaDown, ReplicaUp
    <3> QED  BY <1>1, <3>1, <3>2, <3>3 DEF Next, vars
  <2>2. Distributed(t) \in Objects
    BY DEF Objects
  <2> QED  BY <1>1, <2>1, <2>2 DEF IInv, LocalBehind, Distributed
<1>2. IInv /\ [Next]_vars =>
        [\A r \in Replicas, t \in 1..Tables :
           Distributed(t) \in objects'[r] \ objects[r] =>
             \A s \in Replicas : Local(t) \in objects[s]]_vars
  BY <1>1
<1> QED  BY <1>2, Invariance, PTL DEF Spec, LocalFirst

-----------------------------------------------------------------------------
(* Tables of another engine *)

\* Where every container has the cluster's configuration, one that is past
\* checkDistributedTables has found no plain table, and there is still none:
\* plain tables are neither made nor asked for.
Converting ==
  /\ \A o \in Objects, r \in Replicas :
       <<o, r>> \in tasks => o.kind # "plain" /\ PlainTables = {}
  /\ \A n \in Nodes : pc[n] \in Counting \cup {"ready"} => PlainTables = {}

LEMMA PlainStays ==
  ASSUME TypeOK, Converting, [Next]_vars
  PROVE  PlainTables' = PlainTables
<1>1. ASSUME NEW o \in Objects, NEW r \in Replicas, Execute(o, r)
      PROVE  PlainTables' = PlainTables
  <2>1. o.kind # "plain"
    BY <1>1 DEF Execute, Converting
  <2>2. ASSUME NEW s \in Replicas, NEW t \in 1..Tables
        PROVE  Plain(t) \in objects'[s] <=> Plain(t) \in objects[s]
    <3>1. Plain(t) # o
      BY <2>1 DEF Plain
    <3>2. QED
      BY <1>1, <3>1 DEF Execute, TypeOK
  <2>3. QED
    BY <2>2 DEF PlainTables
<1>2. ASSUME objects' = objects
      PROVE  PlainTables' = PlainTables
  BY <1>2 DEF PlainTables
<1>3. ASSUME NEW n \in Nodes, Container(n) \/ StopSignal(n)
      PROVE  objects' = objects
  BY <1>3 DEF Container, Start, DialFails, Resume, GiveUp, RequestFails,
     CountCluster, CheckEngines, Check, Create, Created, Recheck, StopSignal
<1>4. ASSUME NEW r \in Replicas, ReplicaDown(r) \/ ReplicaUp(r)
      PROVE  objects' = objects
  BY <1>4 DEF ReplicaDown, ReplicaUp
<1> QED  BY <1>1, <1>2, <1>3, <1>4 DEF Next, vars

LEMMA ConvertingStep ==
  ASSUME IInv, Clustered = Nodes, Converting, [Next]_vars
  PROVE  Converting'
<1> TypeOK
  BY DEF IInv
<1>1. PlainTables' = PlainTables
  BY PlainStays
\* Only a container past the check asks, and never for a plain table.
<1>2. ASSUME NEW o \in Objects, NEW r \in Replicas, <<o, r>> \in tasks'
      PROVE  o.kind # "plain" /\ PlainTables = {}
  <2>1. CASE <<o, r>> \in tasks
    BY <2>1 DEF Converting
  <2>2. CASE <<o, r>> \notin tasks
    <3>1. PICK n \in Nodes : Create(n)
      <4>1. ASSUME NEW n \in Nodes, Container(n) \/ StopSignal(n), ~Create(n)
            PROVE  tasks' = tasks
        BY <4>1 DEF Container, Start, DialFails, Resume, GiveUp, RequestFails,
           CountCluster, CheckEngines, Check, Created, Recheck, StopSignal
      <4>2. ASSUME NEW x \in Replicas, ReplicaDown(x) \/ ReplicaUp(x)
            PROVE  tasks' = tasks
        BY <4>2 DEF ReplicaDown, ReplicaUp
      <4>3. ASSUME NEW p \in Objects, NEW x \in Replicas, Execute(p, x)
            PROVE  tasks' \subseteq tasks
        BY <4>3 DEF Execute
      <4> QED  BY <1>2, <2>2, <4>1, <4>2, <4>3 DEF Next, vars
    <3>2. PlainTables = {}
      BY <3>1 DEF Create, Converting, Counting
    <3>3. o = Plan(n, step[n]) /\ n \in Clustered
      BY <1>2, <2>2, <3>1 DEF Create
    <3>4. o.kind # "plain"
      BY <3>3 DEF Plan, Database, Local, Distributed
    <3> QED  BY <3>2, <3>4
  <2> QED  BY <2>1, <2>2
<1>3. ASSUME NEW n \in Nodes, pc'[n] \in Counting \cup {"ready"}
      PROVE  PlainTables = {}
  <2>1. CASE pc[n] \in Counting \cup {"ready"}
    BY <2>1 DEF Converting
  <2>2. CASE pc[n] \notin Counting \cup {"ready"}
    <3>1. ASSUME NEW m \in Nodes, Container(m) \/ StopSignal(m)
          PROVE  PlainTables = {}
      <4>1. m = n
        BY <1>3, <2>2, <3>1, OthersSame
      <4>2. CASE CheckEngines(n)
        BY <1>3, <4>2 DEF CheckEngines, Return, Counting, TypeOK
      <4>3. CASE Start(n) \/ Resume(n)
        BY <1>3, <4>3 DEF Start, Resume, BeginAttempt, Counting, TypeOK
      <4>4. CASE DialFails(n) \/ GiveUp(n) \/ RequestFails(n)
        BY <1>3, <4>4 DEF DialFails, GiveUp, RequestFails, Return, Goto, Counting, TypeOK
      <4>5. CASE CountCluster(n) \/ StopSignal(n)
        BY <1>3, <2>2, <4>5 DEF CountCluster, StopSignal, Counting, TypeOK
      <4>6. CASE Check(n) \/ Create(n) \/ Created(n) \/ Recheck(n)
        BY <2>2, <4>6 DEF Check, Create, Created, Recheck, Counting
      <4> QED  BY <3>1, <4>1, <4>2, <4>3, <4>4, <4>5, <4>6 DEF Container
    <3>2. CASE UNCHANGED pc
      BY <1>3, <2>2, <3>2
    <3> QED
      BY <3>1, <3>2 DEF Next, vars, control, ReplicaDown, ReplicaUp, Execute
  <2> QED  BY <2>1, <2>2
<1> QED  BY <1>1, <1>2, <1>3 DEF Converting

\* checkDistributedTables: where every container is configured for the cluster,
\* a table of another engine stops the preparation before anything is made of
\* it, retries and restarts included, and a prepared cluster has none.
THEOREM NothingConverted ==
  ASSUME Clustered = Nodes
  PROVE  Spec => NoUnusedLocal /\ []ClusterTablesDistributed
<1>1. Init => Converting
  BY DEF Init, Converting, Counting
<1>2. IInv /\ Converting /\ [Next]_vars => Converting'
  BY ConvertingStep
<1>3. Converting => ClusterTablesDistributed
  BY DEF Converting, ClusterTablesDistributed
<1>4. ASSUME IInv, Converting, [Next]_vars, NEW r \in Replicas, NEW t \in 1..Tables,
             Local(t) \in objects'[r] \ objects[r]
      PROVE  PlainTables = {}
  <2>1. <<Local(t), r>> \in tasks
    <3>1. ASSUME NEW o \in Objects, NEW x \in Replicas, Execute(o, x)
          PROVE  <<Local(t), r>> \in tasks
      BY <1>4, <3>1 DEF Execute, IInv, TypeOK
    <3>2. ASSUME NEW n \in Nodes, Container(n) \/ StopSignal(n)
          PROVE  objects' = objects
      BY <3>2 DEF Container, Start, DialFails, Resume, GiveUp, RequestFails,
         CountCluster, CheckEngines, Check, Create, Created, Recheck, StopSignal
    <3>3. ASSUME NEW x \in Replicas, ReplicaDown(x) \/ ReplicaUp(x)
          PROVE  objects' = objects
      BY <3>3 DEF ReplicaDown, ReplicaUp
    <3> QED  BY <1>4, <3>1, <3>2, <3>3 DEF Next, vars
  <2>2. Local(t) \in Objects
    BY DEF Objects
  <2> QED  BY <1>4, <2>1, <2>2 DEF Converting
<1>5. IInv /\ Converting /\ [Next]_vars =>
        [\A r \in Replicas, t \in 1..Tables :
           Local(t) \in objects'[r] \ objects[r] => PlainTables = {}]_vars
  BY <1>4
<1> QED  BY <1>1, <1>2, <1>3, <1>5, Invariance, PTL DEF Spec, NoUnusedLocal

-----------------------------------------------------------------------------
(* Refinement: every container is a caller of bootstrap.Retry. *)

\* The state of Retry that a phase stands for.
At(n) ==
  CASE pc[n] = "created" -> "idle"
    [] pc[n] = "waiting" -> "pause"
    [] pc[n] \in {"ready", "failed"} -> "returned"
    [] OTHER -> "attempt"

\* A step that leaves the control of n alone.
LEMMA RetrySame ==
  ASSUME NEW n \in Nodes, pc'[n] = pc[n], calls'[n] = calls[n],
         cancelled'[n] = cancelled[n], result'[n] = result[n]
  PROVE  [RetryOf(n)!Next]_(RetryOf(n)!vars)
BY DEF RetryOf!vars

\* A step of n within an attempt, or one that ends it with a result.
LEMMA WithinAttempt ==
  ASSUME NEW n \in Nodes, At(n) = "attempt",
         calls'[n] = calls[n], cancelled'[n] = cancelled[n],
         \/ At(n)' = "attempt" /\ result'[n] = result[n]
         \/ At(n)' = "returned" /\ result'[n] \in {"nil", "stopped"}
  PROVE  [RetryOf(n)!Next]_(RetryOf(n)!vars)
BY DEF At, RetryOf!Next, RetryOf!vars, RetryOf!Succeed, RetryOf!Stop, RetryOf!Return

\* Advance is such a step: it goes on, or Retry returns nil.
LEMMA AdvanceRetry ==
  ASSUME TypeOK, NEW n \in Nodes, pc[n] \in Counting, Advance(n)
  PROVE  [RetryOf(n)!Next]_(RetryOf(n)!vars)
<1>1. At(n) = "attempt"
  BY DEF At, Counting
<1>2. CASE step[n] = LastStep(n)
  <2>1. pc'[n] = "ready" /\ result'[n] = "nil" /\ calls'[n] = calls[n] /\
        cancelled'[n] = cancelled[n]
    BY <1>2 DEF Advance, Return, TypeOK
  <2> QED  BY <1>1, <2>1, WithinAttempt DEF At
<1>3. CASE step[n] # LastStep(n)
  <2>1. pc'[n] = "check" /\ result'[n] = result[n] /\ calls'[n] = calls[n] /\
        cancelled'[n] = cancelled[n]
    BY <1>3 DEF Advance, Goto, TypeOK
  <2> QED  BY <1>1, <2>1, WithinAttempt DEF At
<1> QED  BY <1>2, <1>3

\* Every step of a container is a step of its Retry or changes nothing of it.
LEMMA RetryStep ==
  ASSUME TypeOK, NEW n \in Nodes, Container(n) \/ StopSignal(n)
  PROVE  [RetryOf(n)!Next]_(RetryOf(n)!vars)
<1>1. CASE Start(n)
  <2>1. RetryOf(n)!Call
    <3>1. At(n) \in {"idle", "returned"}
      BY <1>1 DEF Start, At
    <3>2. pc'[n] \in {"cluster", "check"} /\ calls'[n] = 1 /\
          cancelled'[n] = FALSE /\ result'[n] = "none"
      BY <1>1 DEF Start, BeginAttempt, TypeOK
    <3> QED  BY <3>1, <3>2, ScopeAssumption DEF At, RetryOf!Call
  <2> QED  BY <2>1 DEF RetryOf!Next
<1>2. CASE DialFails(n)
  <2>1. At(n) = "attempt"
    BY <1>2 DEF DialFails, Preparing, At
  <2>2. calls'[n] = calls[n] /\ cancelled'[n] = cancelled[n]
    BY <1>2 DEF DialFails, Return, Goto
  <2>3. CASE cancelled[n]
    <3>1. pc'[n] = "failed" /\ result'[n] = "cancelled"
      BY <1>2, <2>3 DEF DialFails, Return, TypeOK
    <3> QED
      BY <2>1, <2>2, <2>3, <3>1
      DEF At, RetryOf!Next, RetryOf!Fail, RetryOf!Return
  <2>4. CASE ~cancelled[n] /\ calls[n] = Attempts
    <3>1. pc'[n] = "failed" /\ result'[n] = "last"
      BY <1>2, <2>4 DEF DialFails, Return, TypeOK
    <3> QED
      BY <2>1, <2>2, <2>4, <3>1
      DEF At, RetryOf!Next, RetryOf!Fail, RetryOf!Return
  <2>5. CASE ~cancelled[n] /\ calls[n] # Attempts
    <3>1. pc'[n] = "waiting" /\ result'[n] = result[n]
      BY <1>2, <2>5 DEF DialFails, Goto, TypeOK
    <3> QED
      BY <2>1, <2>2, <2>5, <3>1 DEF At, RetryOf!Next, RetryOf!Fail
  <2> QED  BY <2>3, <2>4, <2>5
<1>3. CASE Resume(n)
  <2>1. pc[n] = "waiting" /\ pc'[n] \in {"cluster", "check"} /\
        calls'[n] = calls[n] + 1 /\ cancelled'[n] = cancelled[n] /\
        result'[n] = result[n]
    BY <1>3 DEF Resume, BeginAttempt, TypeOK
  <2>2. Attempts # 0
    BY ScopeAssumption
  <2> QED  BY <2>1, <2>2 DEF RetryOf!Next, RetryOf!Resume
<1>4. CASE GiveUp(n)
  <2>1. pc[n] = "waiting" /\ cancelled[n] /\ pc'[n] = "failed" /\
        calls'[n] = calls[n] /\ cancelled'[n] = cancelled[n] /\
        result'[n] = "cancelled"
    BY <1>4 DEF GiveUp, Return, TypeOK
  <2> QED  BY <2>1 DEF RetryOf!Next, RetryOf!GiveUp, RetryOf!Return
<1>5. CASE RequestFails(n)
  <2>1. At(n) = "attempt"
    BY <1>5 DEF RequestFails, Preparing, At
  <2>2. pc'[n] = "failed" /\ calls'[n] = calls[n] /\
        cancelled'[n] = cancelled[n] /\ result'[n] = "stopped"
    BY <1>5 DEF RequestFails, Return, TypeOK
  <2> QED  BY <2>1, <2>2, WithinAttempt DEF At
<1>6. CASE CountCluster(n) \/ Create(n) \/ Created(n)
  <2>1. At(n) = "attempt"
    BY <1>6 DEF CountCluster, Create, Created, At
  <2>2. pc'[n] \in {"engines", "creating", "recheck"} /\
        calls'[n] = calls[n] /\ cancelled'[n] = cancelled[n] /\
        result'[n] = result[n]
    BY <1>6 DEF CountCluster, Create, Created, Goto, TypeOK
  <2> QED  BY <2>1, <2>2, WithinAttempt DEF At
<1>7. ASSUME pc[n] \in {"engines", "check", "recheck"},
             \/ Goto(n, "check") \/ Goto(n, "create")
             \/ Return(n, "stopped")
      PROVE  [RetryOf(n)!Next]_(RetryOf(n)!vars)
  <2>1. At(n) = "attempt"
    BY <1>7 DEF At
  <2>2. calls'[n] = calls[n] /\ cancelled'[n] = cancelled[n]
    BY <1>7 DEF Goto, Return
  <2>3. \/ pc'[n] \in {"check", "create"} /\ result'[n] = result[n]
        \/ pc'[n] = "failed" /\ result'[n] = "stopped"
    BY <1>7 DEF Goto, Return, TypeOK
  <2> QED  BY <2>1, <2>2, <2>3, WithinAttempt DEF At
<1>8. CASE CheckEngines(n)
  BY <1>7, <1>8 DEF CheckEngines
<1>9. CASE Check(n)
  BY <1>7, <1>9, AdvanceRetry DEF Check, Counting
<1>10. CASE Recheck(n)
  BY <1>7, <1>10, AdvanceRetry DEF Recheck, Counting
<1>11. CASE StopSignal(n)
  <2>1. At(n) \in {"attempt", "pause"}
    BY <1>11 DEF StopSignal, Preparing, At
  <2>2. ~cancelled[n] /\ cancelled'[n] = TRUE /\ pc'[n] = pc[n] /\
        calls'[n] = calls[n] /\ result'[n] = result[n]
    BY <1>11 DEF StopSignal, TypeOK
  <2> QED  BY <2>1, <2>2 DEF At, RetryOf!Next, RetryOf!Cancel
<1> QED
  BY <1>1, <1>2, <1>3, <1>4, <1>5, <1>6, <1>8, <1>9, <1>10, <1>11
  DEF Container

\* The preparation of every container implements bootstrap.Retry: the attempts,
\* their number, and the end that a stop signal puts to them.
THEOREM PrepareImplementsRetry == Spec => ImplementsRetry
<1>1. Init => \A n \in Nodes : RetryOf(n)!Init
  BY ScopeAssumption DEF Init, RetryOf!Init
<1>2. ASSUME IInv, [Next]_vars, NEW n \in Nodes
      PROVE  [RetryOf(n)!Next]_(RetryOf(n)!vars)
  <2> TypeOK
    BY <1>2 DEF IInv
  <2>1. ASSUME NEW m \in Nodes, Container(m) \/ StopSignal(m)
        PROVE  [RetryOf(n)!Next]_(RetryOf(n)!vars)
    <3>1. CASE m = n
      BY <2>1, <3>1, RetryStep
    <3>2. CASE m # n
      BY <2>1, <3>2, OthersSame, RetrySame
    <3> QED  BY <3>1, <3>2
  <2>2. ASSUME NEW r \in Replicas, ReplicaDown(r) \/ ReplicaUp(r)
        PROVE  [RetryOf(n)!Next]_(RetryOf(n)!vars)
    BY <2>2, RetrySame DEF ReplicaDown, ReplicaUp, control
  <2>3. ASSUME NEW o \in Objects, NEW r \in Replicas, Execute(o, r)
        PROVE  [RetryOf(n)!Next]_(RetryOf(n)!vars)
    BY <2>3, RetrySame DEF Execute, control
  <2>4. CASE UNCHANGED vars
    BY <2>4, RetrySame DEF vars, control
  <2> QED  BY <1>2, <2>1, <2>2, <2>3, <2>4 DEF Next
<1>3. IInv /\ [Next]_vars =>
        [\A n \in Nodes : [RetryOf(n)!Next]_(RetryOf(n)!vars)]_vars
  BY <1>2
<1> QED  BY <1>1, <1>3, Invariance, PTL DEF Spec, ImplementsRetry
=============================================================================
