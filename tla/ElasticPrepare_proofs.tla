----------------------- MODULE ElasticPrepare_proofs -----------------------
(***************************************************************************)
(* Proofs about ElasticPrepare for any containers, providers, history      *)
(* types, numbers of attempts and of faults.                               *)
(*                                                                         *)
(* Nothing is ever removed from Elasticsearch, so what a container has     *)
(* found stays there: the invariant says that the providers and objects    *)
(* behind a container exist, and that a creation under way has the         *)
(* pipeline of its object.                                                 *)
(***************************************************************************)
EXTENDS ElasticPrepare, TLAPS

Complete(c, p) ==
  \A i \in Steps(Plans[c][p]) : Exists(Object(Plans[c][p], i))

\* What c has behind it.  A pause is followed by an attempt, so one is left.
Known(c) ==
  /\ pc[c] \in Busy => AllValid(c)
  /\ pc[c] = "waiting" => calls[c] # Attempts
  /\ pc[c] \in Busy => \A p \in DOMAIN Plans[c] : p < task[c] => Complete(c, p)
  /\ pc[c] \in Preparing => \A i \in Steps(Schema(c)) :
       i < step[c] => Exists(Object(Schema(c), i))
  /\ pc[c] = "prepared" => Complete(c, task[c])
  /\ pc[c] = "ready" => \A p \in DOMAIN Plans[c] : Complete(c, p)

HasPipeline(o) ==
  \A q \in Objects :
    q.kind = "pipeline" /\ q.type = o.type /\ q.daily = o.daily
      => stored[q] # Nobody

PipelineSent ==
  \A c \in Containers, o \in Objects :
    <<c, o>> \in puts /\ o.kind # "pipeline" => HasPipeline(o)

IInv == TypeOK /\ (\A c \in Containers : Known(c)) /\ PipelineSent

-----------------------------------------------------------------------------
(* Facts about plans *)

\* A provider of a plan is a schema record with a list of types.
LEMMA PlanType ==
  ASSUME NEW c \in Containers
  PROVE  /\ Plans[c] \in Seq(SchemaRecords(Types))
         /\ Len(Plans[c]) \in Nat
         /\ DOMAIN Plans[c] = 1..Len(Plans[c])
         /\ \A p \in DOMAIN Plans[c] :
              /\ Plans[c][p] \in SchemaRecords(Types)
              /\ Plans[c][p].types \in Seq(Types)
              /\ Len(Plans[c][p].types) \in Nat
              /\ Plans[c][p].daily \in BOOLEAN
<1>1. Plans[c] \in Seq(SchemaRecords(Types))
  BY ScopeAssumption
<1>2. /\ Len(Plans[c]) \in Nat
      /\ DOMAIN Plans[c] = 1..Len(Plans[c])
      /\ \A p \in DOMAIN Plans[c] : Plans[c][p] \in SchemaRecords(Types)
  BY <1>1
<1>3. ASSUME NEW p \in DOMAIN Plans[c]
      PROVE  /\ Plans[c][p].types \in Seq(Types)
             /\ Len(Plans[c][p].types) \in Nat
             /\ Plans[c][p].daily \in BOOLEAN
  <2>1. Plans[c][p] \in SchemaRecords(Types)
    BY <1>2
  <2>2. Plans[c][p].types \in Seq(Types) /\ Plans[c][p].daily \in BOOLEAN
    BY <2>1 DEF SchemaRecords
  <2> QED  BY <2>2
<1> QED  BY <1>1, <1>2, <1>3

\* From gives an object at or behind a place, and passes over none.
LEMMA FromNext ==
  ASSUME NEW c \in Containers, NEW p \in DOMAIN Plans[c], NEW i \in Nat, i # 0
  PROVE  /\ From(Plans[c][p], i) # 0 => From(Plans[c][p], i) \in Steps(Plans[c][p])
         /\ From(Plans[c][p], i) = 0 => \A j \in Steps(Plans[c][p]) : j < i
         /\ From(Plans[c][p], i) # 0 => \A j \in Steps(Plans[c][p]) :
              j < From(Plans[c][p], i) => j < i
         /\ From(Plans[c][p], i) \in Nat
<1> DEFINE s == Plans[c][p]
           n == 2 * Len(s.types)
<1>1. Len(s.types) \in Nat /\ n \in Nat
  BY PlanType
<1>2. \A j \in 1..n : j % 2 = 0 => j \in Steps(s)
  BY DEF Steps
<1>3. \A j \in Steps(s) : j \in 1..n
  BY DEF Steps
<1>4. i % 2 = 0 \/ (i + 1) % 2 = 0
  OBVIOUS
<1>5. CASE i \in Steps(s)
  BY <1>1, <1>3, <1>5 DEF From
<1>6. CASE i \notin Steps(s) /\ i + 1 \in Steps(s)
  <2>1. \A j \in Steps(s) : j < i + 1 => j < i
    BY <1>1, <1>3, <1>6
  <2> QED  BY <1>6, <2>1 DEF From
<1>7. CASE i \notin Steps(s) /\ i + 1 \notin Steps(s)
  <2>1. \A j \in Steps(s) : j < i
    BY <1>1, <1>2, <1>3, <1>4, <1>7
  <2> QED  BY <1>7, <2>1 DEF From
<1> QED  BY <1>5, <1>6, <1>7

\* A valid provider has a first object, and nothing comes before it.
LEMMA FromFirst ==
  ASSUME NEW c \in Containers, AllValid(c), NEW p \in DOMAIN Plans[c]
  PROVE  /\ From(Plans[c][p], 1) \in Steps(Plans[c][p])
         /\ \A j \in Steps(Plans[c][p]) : ~(j < From(Plans[c][p], 1))
<1> DEFINE s == Plans[c][p]
<1>1. s.types \in Seq(Types) /\ s.types # <<>>
  BY PlanType, ScopeAssumption DEF AllValid
<1>2. Len(s.types) \in Nat /\ Len(s.types) # 0
  BY <1>1
<1>3. 2 \in Steps(s)
  BY <1>2 DEF Steps
<1>4. \A j \in Steps(s) : j \in Nat /\ ~(j < 1)
  BY <1>2 DEF Steps
<1>5. From(s, 1) # 0
  BY <1>3 DEF From
<1> QED  BY <1>4, <1>5, FromNext

\* What a container is at is one of the objects.
LEMMA CurrentType ==
  ASSUME NEW c \in Containers, NEW p \in DOMAIN Plans[c],
         NEW i \in Steps(Plans[c][p])
  PROVE  Object(Plans[c][p], i) \in Objects
<1>1. Plans[c][p] \in Schemas
  BY DEF Schemas
<1> QED  BY <1>1 DEF Objects

\* An object that is no pipeline comes right after its pipeline, if it has one.
LEMMA PipelineBefore ==
  ASSUME NEW c \in Containers, NEW p \in DOMAIN Plans[c],
         NEW i \in Steps(Plans[c][p]), Object(Plans[c][p], i).kind # "pipeline",
         NEW q \in Objects, q.kind = "pipeline",
         q.type = Object(Plans[c][p], i).type,
         q.daily = Object(Plans[c][p], i).daily
  PROVE  /\ i - 1 \in Steps(Plans[c][p])
         /\ Object(Plans[c][p], i - 1) = q
<1> DEFINE s == Plans[c][p]
<1>1. Len(s.types) \in Nat /\ i \in 1..(2 * Len(s.types))
  BY PlanType DEF Steps
<1>2. i % 2 = 0
  BY <1>1 DEF Object, Pipeline
<1>3. /\ Object(s, i) = Index(TypeAt(s, i), s.daily)
      /\ q.type = TypeAt(s, i) /\ q.daily = s.daily
  BY <1>2 DEF Object, Index
<1>4. PICK d \in Containers : \E r \in DOMAIN Plans[d] : \E j \in Steps(Plans[d][r]) :
        q = Object(Plans[d][r], j)
  BY DEF Objects, Schemas
<1>5. PICK r \in DOMAIN Plans[d] : \E j \in Steps(Plans[d][r]) :
        q = Object(Plans[d][r], j)
  BY <1>4
<1>6. PICK j \in Steps(Plans[d][r]) : q = Object(Plans[d][r], j)
  BY <1>5
<1> DEFINE t == Plans[d][r]
<1>7. Len(t.types) \in Nat /\ j \in 1..(2 * Len(t.types))
  BY PlanType DEF Steps
<1>8. j % 2 = 1
  <2>1. j % 2 = 0 \/ j % 2 = 1
    BY <1>7
  <2> QED  BY <1>6, <2>1 DEF Object, Index
<1>9. /\ q = Pipeline(TypeAt(t, j), t.daily)
      /\ t.daily \/ TypeAt(t, j) = "json"
  BY <1>6, <1>8 DEF Object, Steps
<1>10. /\ q = Pipeline(TypeAt(s, i), s.daily)
       /\ s.daily \/ TypeAt(s, i) = "json"
  BY <1>3, <1>9 DEF Pipeline
<1>11. i - 1 \in 1..(2 * Len(s.types)) /\ (i - 1) % 2 = 1
  BY <1>1, <1>2, SMTT(60)
<1>12. TypeAt(s, i - 1) = TypeAt(s, i)
  <2>1. ((i - 1) + 1) \div 2 = (i + 1) \div 2
    BY <1>1, <1>2
  <2> QED  BY <2>1 DEF TypeAt
<1>13. i - 1 \in Steps(s)
  BY <1>10, <1>11, <1>12 DEF Steps
<1>14. Object(s, i - 1) = Pipeline(TypeAt(s, i - 1), s.daily)
  BY <1>11 DEF Object
<1> QED  BY <1>10, <1>12, <1>13, <1>14

-----------------------------------------------------------------------------
(* Type correctness *)

\* A step of one container leaves the others alone.
LEMMA OthersSame ==
  ASSUME TypeOK, NEW c \in Containers, NEW d \in Containers, c # d,
         Container(c) \/ StopSignal(c) \/ \E o \in Objects : Apply(c, o)
  PROVE  /\ pc'[d] = pc[d] /\ task'[d] = task[d] /\ step'[d] = step[d]
         /\ put'[d] = put[d] /\ calls'[d] = calls[d]
         /\ cancelled'[d] = cancelled[d] /\ result'[d] = result[d]
<1> USE DEF TypeOK
<1>1. CASE Start(c)
  BY <1>1 DEF Start, BeginTask, BeginAttempt
<1>2. CASE NextTask(c)
  BY <1>2 DEF NextTask, BeginTask, BeginAttempt
<1>3. CASE Resume(c)
  BY <1>3 DEF Resume, BeginAttempt
<1>4. CASE GiveUp(c)
  BY <1>4 DEF GiveUp, Return
<1>5. CASE Look(c)
  BY <1>5 DEF Look, Found, Missing, AttemptFails, Return, Goto
<1>6. CASE LookLegacy(c)
  BY <1>6 DEF LookLegacy, Found, Missing, AttemptFails, Return, Goto
<1>7. CASE Put(c)
  BY <1>7 DEF Put, Goto
<1>8. CASE LookFails(c)
  BY <1>8 DEF LookFails, AttemptFails, Return, Goto
<1>9. CASE PutFails(c)
  BY <1>9 DEF PutFails, Goto
<1>10. CASE StopSignal(c)
  BY <1>10 DEF StopSignal
<1>11. CASE \E o \in Objects : Apply(c, o)
  BY <1>11 DEF Apply
<1> QED
  BY <1>1, <1>2, <1>3, <1>4, <1>5, <1>6, <1>7, <1>8, <1>9, <1>10, <1>11
  DEF Container

\* The end of an attempt.
LEMMA AttemptFailsShape ==
  ASSUME TypeOK, NEW c \in Containers, NEW error, AttemptFails(c, error)
  PROVE  /\ UNCHANGED <<calls, cancelled>>
         /\ pc' \in [Containers -> Phases]
         /\ result' \in [Containers -> {"none", "nil", "stopped", "cancelled", "last"}]
         /\ \/ pc'[c] = "waiting" /\ calls[c] # Attempts /\ result'[c] = result[c]
            \/ pc'[c] = "failed" /\ result'[c] \in {"stopped", "cancelled", "last"}
BY DEF TypeOK, AttemptFails, Return, Goto, Phases, Busy

\* An object that is there.
LEMMA FoundShape ==
  ASSUME TypeOK, NEW c \in Containers, pc[c] \in Preparing, Found(c)
  PROVE  /\ UNCHANGED <<calls, cancelled>>
         /\ pc' \in [Containers -> Phases]
         /\ step' \in [Containers -> Nat]
         /\ put' \in [Containers -> Errors \cup {"none", "ok"}]
         /\ result' \in [Containers -> {"none", "nil", "stopped", "cancelled", "last"}]
         /\ \/ /\ pc'[c] = "look" /\ result'[c] = result[c]
               /\ step'[c] = From(Schema(c), step[c] + 1) /\ step'[c] # 0
            \/ /\ pc'[c] = "prepared" /\ result'[c] = "nil"
               /\ From(Schema(c), step[c] + 1) = 0
<1>1. task[c] \in DOMAIN Plans[c] /\ step[c] + 1 \in Nat /\ step[c] + 1 # 0
  BY DEF TypeOK, Busy
<1>2. From(Schema(c), step[c] + 1) \in Nat
  BY <1>1, FromNext DEF Schema
<1>3. CASE From(Schema(c), step[c] + 1) = 0
  BY <1>3 DEF TypeOK, Found, Return, Phases, Busy
<1>4. CASE From(Schema(c), step[c] + 1) # 0
  BY <1>2, <1>4 DEF TypeOK, Found, Goto, Phases, Busy, Preparing, Looking
<1> QED  BY <1>3, <1>4

\* The three ways a look ends: another request, an object that exists, an
\* attempt that fails.
LookShape(c) ==
  \/ /\ pc'[c] \in {"legacy", "put"} /\ step'[c] = step[c]
     /\ result'[c] = result[c]
  \/ /\ Exists(Current(c)) /\ pc'[c] = "look" /\ result'[c] = result[c]
     /\ step'[c] = From(Schema(c), step[c] + 1) /\ step'[c] # 0
  \/ /\ Exists(Current(c)) /\ pc'[c] = "prepared" /\ result'[c] = "nil"
     /\ From(Schema(c), step[c] + 1) = 0
  \/ /\ pc'[c] = "waiting" /\ calls[c] # Attempts /\ result'[c] = result[c]
  \/ /\ pc'[c] = "failed" /\ result'[c] \in {"stopped", "cancelled", "last"}

LEMMA LookStep ==
  ASSUME TypeOK, NEW c \in Containers, Look(c) \/ LookLegacy(c) \/ LookFails(c)
  PROVE  /\ UNCHANGED <<task, calls, cancelled, stored, legacy, puts, up>>
         /\ pc' \in [Containers -> Phases]
         /\ step' \in [Containers -> Nat]
         /\ put' \in [Containers -> Errors \cup {"none", "ok"}]
         /\ result' \in [Containers -> {"none", "nil", "stopped", "cancelled", "last"}]
         /\ faults' \in 0..MaxFaults
         /\ pc[c] \in Looking
         /\ LookShape(c)
<1>1. pc[c] \in Looking /\ pc[c] \in Preparing
  BY DEF Look, LookLegacy, LookFails, Looking, Preparing
<1>2. UNCHANGED <<task, stored, legacy, puts, up>>
  BY DEF Look, LookLegacy, LookFails
<1>3. faults' \in 0..MaxFaults
  BY ScopeAssumption DEF Look, LookLegacy, LookFails, Fails, Fault, TypeOK
<1>4. CASE Exists(Current(c)) /\ Found(c)
  BY <1>1, <1>2, <1>3, <1>4, FoundShape DEF LookShape
<1>5. CASE UNCHANGED <<step, put>> /\ \E phase \in {"legacy", "put"} : Goto(c, phase)
  BY <1>1, <1>2, <1>3, <1>5
  DEF TypeOK, Goto, LookShape, Phases, Busy, Preparing, Looking
<1>6. CASE UNCHANGED <<step, put>> /\ \E error : AttemptFails(c, error)
  <2>1. PICK error : AttemptFails(c, error)
    BY <1>6
  <2>2. step' \in [Containers -> Nat] /\
        put' \in [Containers -> Errors \cup {"none", "ok"}]
    BY <1>6 DEF TypeOK
  <2> QED  BY <1>1, <1>2, <1>3, <2>1, <2>2, AttemptFailsShape DEF LookShape
<1>7. CASE UNCHANGED <<step, put>> /\ Return(c, "stopped")
  BY <1>1, <1>2, <1>3, <1>7 DEF TypeOK, Return, LookShape, Phases, Busy
<1>8. ASSUME Missing(c)
      PROVE  /\ UNCHANGED <<step, put>>
             /\ \/ \E phase \in {"legacy", "put"} : Goto(c, phase)
                \/ \E error : AttemptFails(c, error)
                \/ Return(c, "stopped")
  BY <1>8 DEF Missing
<1>9. CASE Look(c)
  BY <1>4, <1>5, <1>6, <1>7, <1>8, <1>9 DEF Look, Exists
<1>10. CASE LookLegacy(c)
  BY <1>4, <1>5, <1>6, <1>7, <1>8, <1>10 DEF LookLegacy, Exists
<1>11. CASE LookFails(c)
  <2>1. \E error : AttemptFails(c, error)
    BY <1>11 DEF LookFails
  <2>2. UNCHANGED <<step, put>>
    BY <1>11 DEF LookFails
  <2> QED  BY <1>6, <2>1, <2>2
<1> QED  BY <1>9, <1>10, <1>11

\* The start of a provider's retries, or the end of the list.
BeginShape(c, p) ==
  \/ /\ p \in DOMAIN Plans[c] /\ pc'[c] = "look" /\ task'[c] = p
     /\ step'[c] = From(Plans[c][p], 1) /\ step'[c] \in Steps(Plans[c][p])
     /\ calls'[c] = 1 /\ result'[c] = "none"
  \/ /\ p \notin DOMAIN Plans[c] /\ pc'[c] = "ready"
     /\ calls'[c] = calls[c] /\ result'[c] = result[c]

LEMMA BeginStep ==
  ASSUME TypeOK, NEW c \in Containers, AllValid(c), NEW p \in Nat, BeginTask(c, p)
  PROVE  /\ pc' \in [Containers -> Phases]
         /\ task' \in [Containers -> Nat]
         /\ step' \in [Containers -> Nat]
         /\ put' \in [Containers -> Errors \cup {"none", "ok"}]
         /\ calls' \in [Containers -> 0..Attempts]
         /\ result' \in [Containers -> {"none", "nil", "stopped", "cancelled", "last"}]
         /\ BeginShape(c, p)
<1>1. CASE p \in DOMAIN Plans[c]
  <2>1. From(Plans[c][p], 1) \in Nat /\ From(Plans[c][p], 1) \in Steps(Plans[c][p])
    BY <1>1, FromFirst, FromNext
  <2>2. 1 \in 0..Attempts
    BY ScopeAssumption
  <2> QED
    BY <1>1, <2>1, <2>2, SMTT(60)
    DEF TypeOK, BeginTask, BeginAttempt, BeginShape, Phases, Busy, Preparing, Looking
<1>2. CASE p \notin DOMAIN Plans[c]
  BY <1>2 DEF TypeOK, BeginTask, BeginShape, Phases
<1> QED  BY <1>1, <1>2

\* What TypeOK says of one container's place in its plan.
Placed(c) ==
  /\ pc[c] \in Busy => task[c] \in DOMAIN Plans[c] /\ calls[c] # 0
  /\ pc[c] \in Preparing => step[c] \in Steps(Schema(c))

\* A container's own place stays one of its plan.
LEMMA PlacedOwn ==
  ASSUME TypeOK, NEW c \in Containers, Known(c),
         Container(c) \/ StopSignal(c) \/ \E o \in Objects : Apply(c, o)
  PROVE  Placed(c)'
<1> USE DEF Busy, Preparing, Looking
<1>1. CASE Start(c)
  <2>1. CASE AllValid(c)
    <3>1. BeginTask(c, 1)
      BY <1>1, <2>1 DEF Start
    <3> QED  BY <2>1, <3>1, BeginStep DEF BeginShape, Placed, Schema
  <2>2. CASE ~AllValid(c)
    BY <1>1, <2>2 DEF Start, Placed, TypeOK
  <2> QED  BY <2>1, <2>2
<1>2. CASE NextTask(c)
  <2>1. AllValid(c) /\ task[c] + 1 \in Nat /\ BeginTask(c, task[c] + 1)
    BY <1>2 DEF NextTask, Known, TypeOK
  <2> QED  BY <2>1, BeginStep DEF BeginShape, Placed, Schema
<1>3. CASE Resume(c)
  <2>1. AllValid(c) /\ task[c] \in DOMAIN Plans[c]
    BY <1>3 DEF Resume, Known, TypeOK
  <2>2. /\ pc'[c] = "look" /\ task'[c] = task[c]
        /\ step'[c] = From(Plans[c][task[c]], 1) /\ calls'[c] = calls[c] + 1
    BY <1>3 DEF Resume, BeginAttempt, TypeOK
  <2>3. calls'[c] # 0
    BY <2>2 DEF TypeOK
  <2> QED  BY <2>1, <2>2, <2>3, FromFirst DEF Placed, Schema
<1>4. CASE GiveUp(c)
  BY <1>4 DEF GiveUp, Return, Placed, TypeOK
<1>5. CASE Look(c) \/ LookLegacy(c) \/ LookFails(c)
  <2>1. LookShape(c) /\ pc[c] \in Looking /\ UNCHANGED <<task, calls>>
    BY <1>5, LookStep
  <2>2. task[c] \in DOMAIN Plans[c] /\ calls[c] # 0 /\ step[c] \in Steps(Schema(c))
    BY <2>1 DEF TypeOK
  <2>3. step[c] + 1 \in Nat /\ step[c] + 1 # 0
    BY DEF TypeOK
  <2>4. From(Schema(c), step[c] + 1) # 0 =>
          From(Schema(c), step[c] + 1) \in Steps(Schema(c))
    BY <2>2, <2>3, FromNext DEF Schema
  <2>5. Schema(c)' = Schema(c)
    BY <2>1 DEF Schema
  <2> QED  BY <2>1, <2>2, <2>4, <2>5 DEF LookShape, Placed
<1>6. CASE Put(c)
  BY <1>6 DEF Put, Goto, Placed, TypeOK, Schema
<1>7. CASE PutFails(c)
  BY <1>7 DEF PutFails, Goto, Placed, TypeOK, Schema
<1>8. CASE StopSignal(c)
  BY <1>8 DEF StopSignal, Placed, TypeOK, Schema
<1>9. CASE \E o \in Objects : Apply(c, o)
  BY <1>9 DEF Apply, Placed, TypeOK, Schema
<1> QED
  BY <1>1, <1>2, <1>3, <1>4, <1>5, <1>6, <1>7, <1>8, <1>9 DEF Container

\* The sets the variables range over, after a step of a container.
Ranges ==
  /\ pc \in [Containers -> Phases]
  /\ task \in [Containers -> Nat]
  /\ step \in [Containers -> Nat]
  /\ put \in [Containers -> Errors \cup {"none", "ok"}]
  /\ calls \in [Containers -> 0..Attempts]
  /\ cancelled \in [Containers -> BOOLEAN]
  /\ result \in [Containers -> {"none", "nil", "stopped", "cancelled", "last"}]
  /\ stored \in [Objects -> Containers \cup {Nobody, Admin}]
  /\ legacy \subseteq Templates
  /\ puts \subseteq Containers \X Objects
  /\ up \in BOOLEAN
  /\ faults \in 0..MaxFaults

LEMMA FaultType ==
  ASSUME faults \in 0..MaxFaults, Fault \/ UNCHANGED faults
  PROVE  faults' \in 0..MaxFaults
BY ScopeAssumption DEF Fault

LEMMA RangesStep ==
  ASSUME TypeOK, NEW c \in Containers, Known(c),
         Container(c) \/ StopSignal(c) \/ \E o \in Objects : Apply(c, o)
  PROVE  Ranges'
<1>0. Ranges
  BY DEF TypeOK, Ranges
<1>1. CASE Start(c)
  <2>1. faults' \in 0..MaxFaults
    BY <1>0, <1>1, FaultType DEF Start, Ranges
  <2>2. CASE AllValid(c)
    <3>1. BeginTask(c, 1) /\ cancelled' = [cancelled EXCEPT ![c] = FALSE]
      BY <1>1, <2>2 DEF Start
    <3>2. cancelled' \in [Containers -> BOOLEAN]
      BY <1>0, <3>1 DEF Ranges
    <3> QED  BY <1>0, <1>1, <2>1, <2>2, <3>1, <3>2, BeginStep DEF Start, Ranges
  <2>3. CASE ~AllValid(c)
    BY <1>0, <1>1, <2>1, <2>3 DEF Start, Ranges, Phases
  <2> QED  BY <2>2, <2>3
<1>2. CASE NextTask(c)
  <2>1. AllValid(c) /\ task[c] + 1 \in Nat /\ BeginTask(c, task[c] + 1)
    BY <1>2 DEF NextTask, Known, TypeOK, Busy
  <2> QED  BY <1>0, <1>2, <2>1, BeginStep DEF NextTask, Ranges
<1>3. CASE Resume(c)
  <2>1. AllValid(c) /\ task[c] \in DOMAIN Plans[c]
    BY <1>3 DEF Resume, Known, TypeOK, Busy
  <2>2. From(Plans[c][task[c]], 1) \in Nat
    BY <2>1, FromNext
  <2>3. calls[c] + 1 \in 0..Attempts
    BY <1>3, ScopeAssumption DEF Resume, Known, TypeOK
  <2> QED
    BY <1>0, <1>3, <2>2, <2>3
    DEF Resume, BeginAttempt, Ranges, Phases, Busy, Preparing, Looking
<1>4. CASE GiveUp(c)
  BY <1>0, <1>4 DEF GiveUp, Return, Ranges, Phases
<1>5. CASE Look(c) \/ LookLegacy(c) \/ LookFails(c)
  BY <1>0, <1>5, LookStep DEF Ranges
<1>6. CASE Put(c)
  <2>1. Current(c) \in Objects
    BY <1>6, CurrentType DEF Put, TypeOK, Busy, Preparing, Current, Schema
  <2> QED
    BY <1>0, <1>6, <2>1 DEF Put, Goto, Ranges, Phases, Busy, Preparing, Looking
<1>7. CASE PutFails(c)
  <2>1. faults' \in 0..MaxFaults
    BY <1>0, <1>7, FaultType DEF PutFails, Fails, Ranges
  <2>2. put' \in [Containers -> Errors \cup {"none", "ok"}]
    BY <1>0, <1>7 DEF PutFails, Ranges
  <2> QED
    BY <1>0, <1>7, <2>1, <2>2
    DEF PutFails, Goto, Ranges, Phases, Busy, Preparing, Looking
<1>8. CASE StopSignal(c)
  BY <1>0, <1>8, FaultType DEF StopSignal, Ranges
<1>9. CASE \E o \in Objects : Apply(c, o)
  BY <1>0, <1>9 DEF Apply, Ranges, Phases, Busy, Preparing, Looking, Errors
<1> QED
  BY <1>1, <1>2, <1>3, <1>4, <1>5, <1>6, <1>7, <1>8, <1>9 DEF Container

\* Steps of Elasticsearch and the administrator that no container takes part in.
Outside == Down \/ Up \/ \E o \in Objects : AdminDefines(o)

LEMMA OutsideStep ==
  ASSUME TypeOK, Outside \/ UNCHANGED vars
  PROVE  UNCHANGED <<control, puts>> /\ Ranges'
<1>1. Ranges
  BY DEF TypeOK, Ranges
<1>2. CASE Down \/ Up
  BY <1>1, <1>2, FaultType DEF Down, Up, Ranges, control
<1>3. CASE \E o \in Objects : AdminDefines(o)
  BY <1>1, <1>3, FaultType DEF AdminDefines, Ranges, control
<1>4. CASE UNCHANGED vars
  BY <1>1, <1>4 DEF vars, Ranges, control
<1> QED  BY <1>2, <1>3, <1>4 DEF Outside

LEMMA TypeStep ==
  ASSUME IInv, [Next]_vars
  PROVE  TypeOK'
<1> TypeOK /\ \A c \in Containers : Known(c)
  BY DEF IInv
<1>1. ASSUME NEW c \in Containers,
             Container(c) \/ StopSignal(c) \/ \E o \in Objects : Apply(c, o)
      PROVE  TypeOK'
  <2>1. Ranges'
    BY <1>1, RangesStep
  <2>2. ASSUME NEW d \in Containers
        PROVE  Placed(d)'
    <3>1. CASE d = c
      BY <1>1, <3>1, PlacedOwn
    <3>2. CASE d # c
      BY <1>1, <3>2, OthersSame DEF TypeOK, Placed, Schema
    <3> QED  BY <3>1, <3>2
  <2> QED  BY <2>1, <2>2 DEF TypeOK, Ranges, Placed
<1>2. CASE Outside \/ UNCHANGED vars
  <2>1. Ranges' /\ UNCHANGED control
    BY <1>2, OutsideStep
  <2>2. ASSUME NEW d \in Containers
        PROVE  Placed(d)'
    BY <2>1 DEF control, TypeOK, Placed, Schema
  <2> QED  BY <2>1, <2>2 DEF TypeOK, Ranges, Placed
<1> QED  BY <1>1, <1>2 DEF Next, Outside

-----------------------------------------------------------------------------
(* What is behind a container stays there *)

\* Nothing is removed.
LEMMA Kept ==
  ASSUME TypeOK, [Next]_vars, NEW o \in Objects
  PROVE  /\ stored[o] # Nobody => stored'[o] # Nobody
         /\ Exists(o) => Exists(o)'
<1>1. ASSUME NEW c \in Containers, Container(c) \/ StopSignal(c)
      PROVE  UNCHANGED <<stored, legacy>>
  <2>1. CASE Look(c) \/ LookLegacy(c) \/ LookFails(c)
    BY <2>1, LookStep
  <2> QED
    BY <1>1, <2>1
    DEF Container, StopSignal, Start, NextTask, Resume, GiveUp, Put, PutFails
<1>2. ASSUME NEW c \in Containers, NEW p \in Objects, Apply(c, p)
      PROVE  /\ legacy' = legacy
             /\ stored[o] # Nobody => stored'[o] # Nobody
  <2>1. c # Nobody
    BY ScopeAssumption
  <2> QED  BY <1>2, <2>1 DEF Apply, TypeOK
<1>3. ASSUME NEW p \in Objects, AdminDefines(p)
      PROVE  /\ legacy \subseteq legacy'
             /\ stored[o] # Nobody => stored'[o] # Nobody
  <2>1. Admin # Nobody
    BY ScopeAssumption
  <2> QED  BY <1>3, <2>1 DEF AdminDefines, TypeOK
<1>4. CASE Down \/ Up \/ UNCHANGED vars
  BY <1>4 DEF Down, Up, vars, Exists
<1> QED  BY <1>1, <1>2, <1>3, <1>4 DEF Next, Exists

\* A container whose control does not change knows what it knew.
LEMMA KnownSame ==
  ASSUME TypeOK, [Next]_vars, NEW c \in Containers, Known(c),
         pc'[c] = pc[c], task'[c] = task[c], step'[c] = step[c],
         calls'[c] = calls[c]
  PROVE  Known(c)'
<1>1. ASSUME NEW p \in DOMAIN Plans[c], Complete(c, p)
      PROVE  Complete(c, p)'
  BY <1>1, CurrentType, Kept DEF Complete
<1>2. Schema(c)' = Schema(c)
  BY DEF Schema
<1>3. pc[c] \in Busy => task[c] \in DOMAIN Plans[c]
  BY DEF TypeOK
<1>4. pc[c] \in Preparing => \A i \in Steps(Schema(c)) :
        Exists(Object(Schema(c), i)) => Exists(Object(Schema(c), i))'
  BY <1>3, CurrentType, Kept DEF Schema, Busy
<1>5. AllValid(c)' = AllValid(c)
  BY DEF AllValid
<1> QED  BY <1>1, <1>2, <1>3, <1>4, <1>5 DEF Known, Busy

\* The beginning of a provider, when those before it are complete.
LEMMA KnownBegin ==
  ASSUME TypeOK, [Next]_vars, NEW c \in Containers, AllValid(c),
         NEW p \in Nat, p # 0,
         \A q \in DOMAIN Plans[c] : q < p => Complete(c, q),
         BeginShape(c, p)
  PROVE  Known(c)'
<1>1. \A q \in DOMAIN Plans[c] : Complete(c, q) => Complete(c, q)'
  BY CurrentType, Kept DEF Complete
<1>2. CASE p \in DOMAIN Plans[c] /\ pc'[c] = "look"
  <2>1. /\ task'[c] = p /\ step'[c] = From(Plans[c][p], 1)
        /\ Schema(c)' = Plans[c][p]
    BY <1>2 DEF BeginShape, Schema
  <2>2. \A i \in Steps(Plans[c][p]) : ~(i < step'[c])
    BY <1>2, <2>1, FromFirst
  <2> QED
    BY <1>1, <1>2, <2>1, <2>2 DEF Known, AllValid, Busy, Preparing, Looking
<1>3. CASE p \notin DOMAIN Plans[c] /\ pc'[c] = "ready"
  <2>1. \A q \in DOMAIN Plans[c] : q < p
    BY <1>3, PlanType
  <2> QED
    BY <1>1, <1>3, <2>1 DEF Known, Busy, Preparing, Looking
<1> QED  BY <1>2, <1>3 DEF BeginShape

\* After a look the objects behind c are still there, and the one it found.
LEMMA KnownLook ==
  ASSUME TypeOK, [Next]_vars, NEW c \in Containers, Known(c),
         Look(c) \/ LookLegacy(c) \/ LookFails(c)
  PROVE  Known(c)'
<1>1. /\ LookShape(c) /\ pc[c] \in Preparing /\ UNCHANGED <<task, calls>>
      /\ Schema(c)' = Schema(c) /\ AllValid(c)' = AllValid(c)
  BY LookStep DEF Preparing, Schema, AllValid
<1>2. /\ task[c] \in DOMAIN Plans[c] /\ step[c] + 1 \in Nat /\ step[c] + 1 # 0
      /\ step[c] \in Nat
  BY <1>1 DEF TypeOK, Busy
<1>3. /\ AllValid(c)
      /\ \A p \in DOMAIN Plans[c] : p < task[c] => Complete(c, p)'
      /\ \A i \in Steps(Schema(c)) :
           Exists(Object(Schema(c), i)) => Exists(Object(Schema(c), i))'
  BY <1>1, <1>2, CurrentType, Kept DEF Known, Complete, Schema, Busy
<1>4. /\ \A i \in Steps(Schema(c)) : i < step[c] => Exists(Object(Schema(c), i))'
      /\ \A i \in Steps(Schema(c)) : i \in Nat
  <2>1. Len(Schema(c).types) \in Nat
    BY <1>2, PlanType DEF Schema
  <2> QED  BY <1>1, <1>3, <2>1 DEF Known, Steps
<1>5. CASE pc'[c] \in {"legacy", "put"} /\ step'[c] = step[c]
  BY <1>1, <1>3, <1>4, <1>5 DEF Known, Busy, Preparing, Looking
<1>6. CASE Exists(Current(c)) /\ pc'[c] = "look" /\ step'[c] # 0 /\
           step'[c] = From(Schema(c), step[c] + 1)
  <2>1. \A i \in Steps(Schema(c)) : i < step'[c] => i < step[c] \/ i = step[c]
    BY <1>2, <1>4, <1>6, FromNext, SMTT(60) DEF Schema
  <2>2. \A i \in Steps(Schema(c)) : i < step'[c] => Exists(Object(Schema(c), i))'
    BY <1>3, <1>4, <1>6, <2>1 DEF Current
  <2> QED
    BY <1>1, <1>3, <1>6, <2>2 DEF Known, Busy, Preparing, Looking
<1>7. CASE Exists(Current(c)) /\ pc'[c] = "prepared" /\
           From(Schema(c), step[c] + 1) = 0
  <2>1. \A i \in Steps(Schema(c)) : i < step[c] \/ i = step[c]
    <3>1. \A i \in Steps(Schema(c)) : i < step[c] + 1
      BY <1>2, <1>7, FromNext DEF Schema
    <3> QED  BY <1>2, <1>4, <3>1
  <2>2. Complete(c, task[c])'
    BY <1>1, <1>3, <1>4, <1>7, <2>1 DEF Current, Complete, Schema
  <2> QED
    BY <1>1, <1>3, <1>7, <2>2 DEF Known, Busy, Preparing, Looking
<1>8. CASE pc'[c] = "waiting" /\ calls[c] # Attempts
  BY <1>1, <1>3, <1>8 DEF Known, Busy, Preparing, Looking
<1>9. CASE pc'[c] = "failed"
  BY <1>9 DEF Known, Busy, Preparing, Looking
<1> QED  BY <1>1, <1>5, <1>6, <1>7, <1>8, <1>9 DEF LookShape

\* A container's own steps keep what it knows.
LEMMA KnownOwn ==
  ASSUME TypeOK, [Next]_vars, NEW c \in Containers, Known(c),
         Container(c) \/ StopSignal(c) \/ \E o \in Objects : Apply(c, o)
  PROVE  Known(c)'
<1>1. CASE Start(c)
  <2>1. CASE AllValid(c)
    <3>1. BeginShape(c, 1)
      BY <1>1, <2>1, BeginStep DEF Start
    <3>2. \A q \in DOMAIN Plans[c] : ~(q < 1)
      BY PlanType
    <3> QED  BY <2>1, <3>1, <3>2, KnownBegin
  <2>2. CASE ~AllValid(c)
    <3>1. pc'[c] = "failed"
      BY <1>1, <2>2 DEF Start, TypeOK
    <3> QED  BY <3>1 DEF Known, Busy, Preparing, Looking
  <2> QED  BY <2>1, <2>2
<1>2. CASE NextTask(c)
  <2>1. /\ pc[c] = "prepared" /\ AllValid(c) /\ BeginTask(c, task[c] + 1)
        /\ task[c] + 1 \in Nat /\ task[c] + 1 # 0 /\ task[c] \in Nat
    BY <1>2 DEF NextTask, Known, TypeOK, Busy
  <2>2. \A q \in DOMAIN Plans[c] : q < task[c] + 1 => Complete(c, q)
    <3>1. \A q \in DOMAIN Plans[c] : q < task[c] + 1 => q < task[c] \/ q = task[c]
      BY <2>1, PlanType
    <3> QED  BY <2>1, <3>1 DEF Known, Busy
  <2> QED  BY <2>1, <2>2, BeginStep, KnownBegin
<1>3. CASE Resume(c)
  <2>1. AllValid(c) /\ task[c] \in DOMAIN Plans[c] /\ task[c] \in Nat
    BY <1>3 DEF Resume, Known, TypeOK, Busy
  <2>2. /\ pc'[c] = "look" /\ task'[c] = task[c] /\ Schema(c)' = Schema(c)
        /\ step'[c] = From(Schema(c), 1)
    BY <1>3 DEF Resume, BeginAttempt, TypeOK, Schema
  <2>3. \A i \in Steps(Schema(c)) : ~(i < step'[c])
    BY <2>1, <2>2, FromFirst DEF Schema
  <2>4. \A p \in DOMAIN Plans[c] : p < task[c] => Complete(c, p)'
    BY <1>3, CurrentType, Kept DEF Resume, Known, Complete, Busy
  <2> QED
    BY <2>1, <2>2, <2>3, <2>4 DEF Known, AllValid, Busy, Preparing, Looking
<1>4. CASE GiveUp(c)
  <2>1. pc'[c] = "failed"
    BY <1>4 DEF GiveUp, Return, TypeOK
  <2> QED  BY <2>1 DEF Known, Busy, Preparing, Looking
<1>5. CASE Look(c) \/ LookLegacy(c) \/ LookFails(c)
  BY <1>5, KnownLook
<1>6. ASSUME pc[c] \in Preparing, pc'[c] \in Preparing,
             task'[c] = task[c], step'[c] = step[c]
      PROVE  Known(c)'
  <2>1. /\ Schema(c)' = Schema(c) /\ AllValid(c)' = AllValid(c)
        /\ task[c] \in DOMAIN Plans[c]
    BY <1>6 DEF Schema, AllValid, TypeOK, Busy
  <2>2. \A p \in DOMAIN Plans[c] : p < task[c] => Complete(c, p)'
    BY <1>6, CurrentType, Kept DEF Known, Complete, Busy
  <2>3. \A i \in Steps(Schema(c)) : i < step[c] => Exists(Object(Schema(c), i))'
    BY <1>6, <2>1, CurrentType, Kept DEF Known, Schema
  <2> QED
    BY <1>6, <2>1, <2>2, <2>3 DEF Known, Busy, Preparing, Looking
<1>7. CASE Put(c)
  BY <1>6, <1>7 DEF Put, Goto, TypeOK, Preparing
<1>8. CASE PutFails(c)
  BY <1>6, <1>8 DEF PutFails, Goto, TypeOK, Preparing, Looking
<1>9. CASE StopSignal(c)
  BY <1>9, KnownSame DEF StopSignal
<1>10. CASE \E o \in Objects : Apply(c, o)
  <2>1. \/ pc'[c] = pc[c]
        \/ pc[c] = "sent" /\ pc'[c] = "look"
    BY <1>10 DEF Apply, TypeOK
  <2>2. task'[c] = task[c] /\ step'[c] = step[c] /\ calls'[c] = calls[c]
    BY <1>10 DEF Apply
  <2> QED  BY <1>6, <2>1, <2>2, KnownSame DEF Preparing, Looking
<1> QED
  BY <1>1, <1>2, <1>3, <1>4, <1>5, <1>7, <1>8, <1>9, <1>10 DEF Container

\* Creations that are under way keep their pipelines, and a new one has its own.
LEMMA PipelineStep ==
  ASSUME IInv, [Next]_vars
  PROVE  PipelineSent'
<1> TypeOK /\ PipelineSent /\ \A c \in Containers : Known(c)
  BY DEF IInv
<1>1. \A o \in Objects : HasPipeline(o) => HasPipeline(o)'
  BY Kept DEF HasPipeline
<1>2. CASE puts' \subseteq puts
  BY <1>1, <1>2 DEF PipelineSent
<1>3. ASSUME NEW c \in Containers, Put(c)
      PROVE  PipelineSent'
  <2>1. /\ puts' = puts \cup {<<c, Current(c)>>} /\ stored' = stored
        /\ task[c] \in DOMAIN Plans[c] /\ step[c] \in Steps(Schema(c))
    BY <1>3 DEF Put, TypeOK, Busy, Preparing
  <2>2. ASSUME Current(c).kind # "pipeline", NEW q \in Objects,
               q.kind = "pipeline", q.type = Current(c).type,
               q.daily = Current(c).daily
        PROVE  stored[q] # Nobody
    <3>1. step[c] - 1 \in Steps(Schema(c)) /\ Object(Schema(c), step[c] - 1) = q
      BY <2>1, <2>2, PipelineBefore DEF Current, Schema
    <3>2. Exists(q)
      <4>1. step[c] - 1 < step[c]
        BY DEF TypeOK
      <4> QED  BY <1>3, <3>1, <4>1 DEF Put, Known, Preparing
    <3> QED  BY <2>2, <3>2 DEF Exists, TypeOK, Templates
  <2>3. Current(c).kind # "pipeline" => HasPipeline(Current(c))
    BY <2>2 DEF HasPipeline
  <2> QED  BY <1>1, <2>1, <2>3 DEF PipelineSent, HasPipeline
<1>4. ASSUME NEW c \in Containers, Container(c) \/ StopSignal(c), ~Put(c)
      PROVE  puts' \subseteq puts
  <2>1. CASE Look(c) \/ LookLegacy(c) \/ LookFails(c)
    BY <2>1, LookStep
  <2> QED
    BY <1>4, <2>1
    DEF Container, StopSignal, Start, NextTask, Resume, GiveUp, PutFails
<1>5. ASSUME NEW c \in Containers, NEW o \in Objects, Apply(c, o)
      PROVE  puts' \subseteq puts
  BY <1>5 DEF Apply
<1>6. CASE Outside \/ UNCHANGED vars
  BY <1>2, <1>6, OutsideStep
<1> QED  BY <1>2, <1>3, <1>4, <1>5, <1>6 DEF Next, Outside

\* The invariant holds at first,
LEMMA InitIInv == Init => IInv
<1> SUFFICES ASSUME Init PROVE IInv
  OBVIOUS
<1>1. TypeOK
  <2>1. stored \in [Objects -> Containers \cup {Nobody, Admin}]
    BY DEF Init
  <2>2. 0 \in 0..Attempts /\ 0 \in 0..MaxFaults
    BY ScopeAssumption
  <2> QED
    BY <2>1, <2>2 DEF Init, TypeOK, Phases, Busy, Preparing, Looking
<1>2. \A c \in Containers : Known(c)
  BY DEF Init, Known, Busy, Preparing, Looking
<1>3. PipelineSent
  BY DEF Init, PipelineSent
<1> QED  BY <1>1, <1>2, <1>3 DEF IInv

\* and every step preserves it.
LEMMA NextIInv == IInv /\ [Next]_vars => IInv'
<1> SUFFICES ASSUME IInv, [Next]_vars PROVE IInv'
  OBVIOUS
<1> TypeOK /\ \A c \in Containers : Known(c)
  BY DEF IInv
<1>1. ASSUME NEW d \in Containers
      PROVE  Known(d)'
  <2>1. ASSUME NEW c \in Containers,
               Container(c) \/ StopSignal(c) \/ \E o \in Objects : Apply(c, o)
        PROVE  Known(d)'
    <3>1. CASE d = c
      BY <2>1, <3>1, KnownOwn
    <3>2. CASE d # c
      BY <2>1, <3>2, OthersSame, KnownSame
    <3> QED  BY <3>1, <3>2
  <2>2. CASE Outside \/ UNCHANGED vars
    BY <2>2, OutsideStep, KnownSame DEF control
  <2> QED  BY <2>1, <2>2 DEF Next, Outside
<1> QED  BY <1>1, TypeStep, PipelineStep DEF IInv

LEMMA Invariance == Spec => []IInv
BY InitIInv, NextIInv, PTL DEF Spec

-----------------------------------------------------------------------------
(* Theorems *)

\* Every reachable state is well typed: attempts stay within their number, and
\* whoever works is at an object of a provider of its plan.
THEOREM TypeCorrect == Spec => []TypeOK
<1>1. IInv => TypeOK
  BY DEF IInv
<1> QED  BY <1>1, Invariance, PTL

\* What a container calls prepared is complete.
THEOREM ReadyMeansComplete == Spec => []ReadyComplete
<1>1. IInv => ReadyComplete
  BY DEF IInv, Known, Complete, ReadyComplete
<1> QED  BY <1>1, Invariance, PTL

\* A definition changes by the administrator or by a creation that is under way
\* and, for an index or a template, only if there was none.
LEMMA StoredStep ==
  ASSUME TypeOK, [Next]_vars, NEW o \in Objects, stored'[o] # stored[o]
  PROVE  \/ stored'[o] = Admin
         \/ \E c \in Containers :
              /\ stored'[o] = c
              /\ <<c, o>> \in puts
              /\ o.kind # "pipeline" => stored[o] = Nobody
<1>1. ASSUME NEW c \in Containers, Container(c) \/ StopSignal(c)
      PROVE  stored' = stored
  <2>1. CASE Look(c) \/ LookLegacy(c) \/ LookFails(c)
    BY <2>1, LookStep
  <2> QED
    BY <1>1, <2>1
    DEF Container, StopSignal, Start, NextTask, Resume, GiveUp, Put, PutFails
<1>2. ASSUME NEW c \in Containers, NEW p \in Objects, Apply(c, p)
      PROVE  /\ p = o /\ stored'[o] = c /\ <<c, o>> \in puts
             /\ o.kind # "pipeline" => stored[o] = Nobody
  <2>1. ~(CreateOnly(p) /\ stored[p] # Nobody)
    BY <1>2 DEF Apply
  <2>2. stored' = [stored EXCEPT ![p] = c] /\ <<c, p>> \in puts
    BY <1>2, <2>1 DEF Apply
  <2>3. p = o /\ stored'[o] = c
    BY <2>2 DEF TypeOK
  <2> QED  BY <2>1, <2>2, <2>3 DEF CreateOnly
<1>3. ASSUME NEW p \in Objects, AdminDefines(p)
      PROVE  stored'[o] = Admin
  BY <1>3 DEF AdminDefines, TypeOK
<1>4. CASE Down \/ Up \/ UNCHANGED vars
  BY <1>4 DEF Down, Up, vars
<1> QED  BY <1>1, <1>2, <1>3, <1>4 DEF Next

\* No container replaces an index or a template.
THEOREM DefinitionsStay == Spec => DefinitionsKept
<1>1. IInv /\ [Next]_vars => [\A o \in Objects :
        o.kind # "pipeline" /\ stored[o] # Nobody /\ stored'[o] # stored[o]
          => stored'[o] = Admin]_vars
  BY StoredStep DEF IInv
<1> QED  BY <1>1, Invariance, PTL DEF Spec, DefinitionsKept

\* An index or a template that a container creates has its pipeline.
THEOREM PipelinesFirst == Spec => PipelineFirst
<1>1. ASSUME IInv, [Next]_vars, NEW o \in Objects, o.kind # "pipeline",
             stored'[o] # stored[o], stored'[o] \in Containers
      PROVE  HasPipeline(o)
  <2>1. Admin \notin Containers
    BY ScopeAssumption
  <2> QED  BY <1>1, <2>1, StoredStep DEF IInv, PipelineSent
<1>2. IInv /\ [Next]_vars => [\A o \in Objects :
        o.kind # "pipeline" /\ stored'[o] # stored[o] /\ stored'[o] \in Containers
          => \A q \in Objects :
               q.kind = "pipeline" /\ q.type = o.type /\ q.daily = o.daily
                 => stored[q] # Nobody]_vars
  BY <1>1 DEF HasPipeline
<1> QED  BY <1>2, Invariance, PTL DEF Spec, PipelineFirst

-----------------------------------------------------------------------------
(* Refinement: every container is a caller of bootstrap.Retry. *)

\* The state of Retry that a phase stands for.
At(c) ==
  CASE calls[c] = 0 -> "idle"
    [] calls[c] # 0 /\ pc[c] \in Preparing -> "attempt"
    [] calls[c] # 0 /\ pc[c] = "waiting" -> "pause"
    [] OTHER -> "returned"

\* A step that leaves the control of c alone, or its state of Retry.
LEMMA RetrySame ==
  ASSUME NEW c \in Containers, At(c)' = At(c), calls'[c] = calls[c],
         cancelled'[c] = cancelled[c], result'[c] = result[c]
  PROVE  [RetryOf(c)!Next]_(RetryOf(c)!vars)
BY DEF RetryOf!vars, At

\* A call: of the first provider by a container that starts, or of the next.
LEMMA RetryCall ==
  ASSUME TypeOK, TypeOK', NEW c \in Containers, NEW p \in Nat,
         At(c) \in {"idle", "returned"}, BeginShape(c, p), p \in DOMAIN Plans[c]
  PROVE  [RetryOf(c)!Next]_(RetryOf(c)!vars)
<1>1. At(c)' = "attempt" /\ calls'[c] = 1 /\ result'[c] = "none"
  BY DEF BeginShape, At, Preparing, Looking
<1>2. cancelled'[c] \in BOOLEAN
  BY DEF TypeOK
<1> QED  BY <1>1, <1>2, ScopeAssumption DEF At, RetryOf!Next, RetryOf!Call

\* The end of an attempt that failed.
LEMMA RetryFail ==
  ASSUME TypeOK, NEW c \in Containers, pc[c] \in Preparing, NEW error,
         AttemptFails(c, error)
  PROVE  [RetryOf(c)!Next]_(RetryOf(c)!vars)
<1>1. At(c) = "attempt" /\ calls[c] # 0
  <2>1. calls[c] # 0
    BY DEF TypeOK, Busy
  <2> QED  BY <2>1 DEF At, Preparing, Looking
<1>2. calls'[c] = calls[c] /\ cancelled'[c] = cancelled[c]
  BY AttemptFailsShape
<1>3. CASE error # "dial"
  <2>1. pc'[c] = "failed" /\ result'[c] = "stopped"
    BY <1>3 DEF AttemptFails, Return, TypeOK
  <2>2. At(c)' = "returned"
    BY <1>1, <1>2, <2>1 DEF At, Preparing, Looking
  <2> QED
    BY <1>1, <1>2, <2>1, <2>2 DEF At, RetryOf!Next, RetryOf!Stop, RetryOf!Return
<1>4. CASE error = "dial" /\ cancelled[c]
  <2>1. pc'[c] = "failed" /\ result'[c] = "cancelled"
    BY <1>4 DEF AttemptFails, Return, TypeOK
  <2>2. At(c)' = "returned"
    BY <1>1, <1>2, <2>1 DEF At, Preparing, Looking
  <2> QED
    BY <1>1, <1>2, <1>4, <2>1, <2>2
    DEF At, RetryOf!Next, RetryOf!Fail, RetryOf!Return
<1>5. CASE error = "dial" /\ ~cancelled[c] /\ calls[c] = Attempts
  <2>1. pc'[c] = "failed" /\ result'[c] = "last"
    BY <1>5 DEF AttemptFails, Return, TypeOK
  <2>2. At(c)' = "returned"
    BY <1>1, <1>2, <2>1 DEF At, Preparing, Looking
  <2> QED
    BY <1>1, <1>2, <1>5, <2>1, <2>2
    DEF At, RetryOf!Next, RetryOf!Fail, RetryOf!Return
<1>6. CASE error = "dial" /\ ~cancelled[c] /\ calls[c] # Attempts
  <2>1. pc'[c] = "waiting" /\ result'[c] = result[c]
    BY <1>6 DEF AttemptFails, Goto, TypeOK
  <2>2. At(c)' = "pause"
    BY <1>1, <1>2, <2>1 DEF At, Preparing, Looking
  <2> QED
    BY <1>1, <1>2, <1>6, <2>1, <2>2 DEF At, RetryOf!Next, RetryOf!Fail
<1> QED  BY <1>3, <1>4, <1>5, <1>6

\* An object that exists: within the attempt, or its success.
LEMMA RetryFound ==
  ASSUME TypeOK, NEW c \in Containers, pc[c] \in Preparing, Found(c)
  PROVE  [RetryOf(c)!Next]_(RetryOf(c)!vars)
<1>1. At(c) = "attempt" /\ calls[c] # 0
  <2>1. calls[c] # 0
    BY DEF TypeOK, Busy
  <2> QED  BY <2>1 DEF At, Preparing, Looking
<1>2. calls'[c] = calls[c] /\ cancelled'[c] = cancelled[c]
  BY FoundShape
<1>3. CASE pc'[c] = "look" /\ result'[c] = result[c]
  BY <1>1, <1>2, <1>3, RetrySame DEF At, Preparing, Looking
<1>4. CASE pc'[c] = "prepared" /\ result'[c] = "nil"
  <2>1. At(c)' = "returned"
    BY <1>1, <1>2, <1>4 DEF At, Preparing, Looking
  <2> QED
    BY <1>1, <1>2, <1>4, <2>1
    DEF At, RetryOf!Next, RetryOf!Succeed, RetryOf!Return
<1> QED  BY <1>3, <1>4, FoundShape

\* Going from request to request is no step of Retry.
LEMMA RetryWithin ==
  ASSUME TypeOK, NEW c \in Containers, pc[c] \in Preparing, pc'[c] \in Preparing,
         calls'[c] = calls[c], cancelled'[c] = cancelled[c], result'[c] = result[c]
  PROVE  [RetryOf(c)!Next]_(RetryOf(c)!vars)
BY RetrySame DEF At, Preparing, Looking

LEMMA RetryMissing ==
  ASSUME TypeOK, NEW c \in Containers, pc[c] \in Preparing, Missing(c)
  PROVE  [RetryOf(c)!Next]_(RetryOf(c)!vars)
<1>1. CASE Goto(c, "put")
  BY <1>1, RetryWithin DEF Goto, TypeOK, Preparing
<1>2. CASE Return(c, "stopped")
  <2>1. AttemptFails(c, "other")
    BY <1>2 DEF AttemptFails
  <2> QED  BY <2>1, RetryFail
<1>3. CASE AttemptFails(c, put[c])
  BY <1>3, RetryFail
<1> QED  BY <1>1, <1>2, <1>3 DEF Missing

\* Every step of a container is a step of its Retry or changes nothing of it.
LEMMA RetryStep ==
  ASSUME TypeOK, TypeOK', NEW c \in Containers, Known(c),
         Container(c) \/ StopSignal(c) \/ \E o \in Objects : Apply(c, o)
  PROVE  [RetryOf(c)!Next]_(RetryOf(c)!vars)
<1>1. CASE Start(c)
  <2>1. At(c) \in {"idle", "returned"}
    BY <1>1 DEF Start, At, Preparing, Looking
  <2>2. CASE AllValid(c)
    <3>1. BeginShape(c, 1)
      BY <1>1, <2>2, BeginStep DEF Start
    <3>2. 1 \in DOMAIN Plans[c]
      BY PlanType, ScopeAssumption
    <3> QED  BY <2>1, <3>1, <3>2, RetryCall
  <2>3. CASE ~AllValid(c)
    <3>1. pc'[c] = "failed" /\ UNCHANGED <<calls, cancelled, result>>
      BY <1>1, <2>3 DEF Start, TypeOK
    <3>2. At(c)' = At(c)
      BY <1>1, <3>1 DEF Start, At, Preparing, Looking
    <3> QED  BY <3>1, <3>2, RetrySame
  <2> QED  BY <2>2, <2>3
<1>2. CASE NextTask(c)
  <2>1. /\ AllValid(c) /\ task[c] + 1 \in Nat /\ BeginTask(c, task[c] + 1)
        /\ pc[c] = "prepared" /\ calls[c] # 0 /\ cancelled' = cancelled
    BY <1>2 DEF NextTask, Known, TypeOK, Busy
  <2>2. BeginShape(c, task[c] + 1)
    BY <2>1, BeginStep
  <2>3. At(c) = "returned"
    BY <2>1 DEF At, Preparing, Looking
  <2>4. CASE task[c] + 1 \in DOMAIN Plans[c]
    BY <2>1, <2>2, <2>3, <2>4, RetryCall
  <2>5. CASE task[c] + 1 \notin DOMAIN Plans[c]
    <3>1. pc'[c] = "ready" /\ calls'[c] = calls[c] /\ result'[c] = result[c]
      BY <2>2, <2>5 DEF BeginShape
    <3>2. At(c)' = At(c)
      BY <2>1, <2>3, <3>1 DEF At, Preparing, Looking
    <3> QED  BY <2>1, <3>1, <3>2, RetrySame
  <2> QED  BY <2>4, <2>5
<1>3. CASE Resume(c)
  <2>1. /\ pc[c] = "waiting" /\ pc'[c] = "look" /\ calls[c] # 0
        /\ calls'[c] = calls[c] + 1 /\ calls'[c] # 0
        /\ cancelled'[c] = cancelled[c] /\ result'[c] = result[c]
    BY <1>3 DEF Resume, BeginAttempt, TypeOK, Busy
  <2>2. At(c) = "pause" /\ At(c)' = "attempt"
    BY <2>1 DEF At, Preparing, Looking
  <2>3. Attempts # 0
    BY ScopeAssumption
  <2> QED  BY <2>1, <2>2, <2>3 DEF At, RetryOf!Next, RetryOf!Resume
<1>4. CASE GiveUp(c)
  <2>1. /\ pc[c] = "waiting" /\ pc'[c] = "failed" /\ calls[c] # 0 /\ cancelled[c]
        /\ calls'[c] = calls[c] /\ cancelled'[c] = cancelled[c]
        /\ result'[c] = "cancelled"
    BY <1>4 DEF GiveUp, Return, TypeOK, Busy
  <2>2. At(c) = "pause" /\ At(c)' = "returned"
    BY <2>1 DEF At, Preparing, Looking
  <2> QED
    BY <2>1, <2>2 DEF At, RetryOf!Next, RetryOf!GiveUp, RetryOf!Return
<1>5. CASE Look(c)
  <2>1. pc[c] \in Preparing
    BY <1>5 DEF Look, Preparing, Looking
  <2>2. CASE Goto(c, "legacy")
    BY <2>1, <2>2, RetryWithin DEF Goto, TypeOK, Preparing, Looking
  <2> QED  BY <1>5, <2>1, <2>2, RetryFound, RetryMissing DEF Look
<1>6. CASE LookLegacy(c)
  <2>1. pc[c] \in Preparing
    BY <1>6 DEF LookLegacy, Preparing, Looking
  <2> QED  BY <1>6, <2>1, RetryFound, RetryMissing DEF LookLegacy
<1>7. CASE LookFails(c)
  BY <1>7, RetryFail DEF LookFails, Preparing
<1>8. CASE Put(c)
  BY <1>8, RetryWithin DEF Put, Goto, TypeOK, Preparing
<1>9. CASE PutFails(c)
  BY <1>9, RetryWithin DEF PutFails, Goto, TypeOK, Preparing, Looking
<1>10. CASE StopSignal(c)
  <2>1. /\ ~cancelled[c] /\ cancelled'[c] = TRUE
        /\ pc'[c] = pc[c] /\ calls'[c] = calls[c] /\ result'[c] = result[c]
    BY <1>10 DEF StopSignal, TypeOK
  <2>2. At(c)' = At(c)
    BY <2>1 DEF At
  <2> QED  BY <2>1, <2>2 DEF At, RetryOf!Next, RetryOf!Cancel
<1>11. CASE \E o \in Objects : Apply(c, o)
  <2>1. /\ calls'[c] = calls[c] /\ cancelled'[c] = cancelled[c]
        /\ result'[c] = result[c]
        /\ \/ pc'[c] = pc[c]
           \/ pc[c] = "sent" /\ pc'[c] = "look"
    BY <1>11 DEF Apply, TypeOK
  <2> QED  BY <2>1, RetrySame DEF At, Preparing, Looking
<1> QED
  BY <1>1, <1>2, <1>3, <1>4, <1>5, <1>6, <1>7, <1>8, <1>9, <1>10, <1>11
  DEF Container

\* The retries of every container, for one provider after the other and under
\* one context, are those of bootstrap.Retry.
THEOREM PrepareImplementsRetry == Spec => ImplementsRetry
<1>1. Init => \A c \in Containers : RetryOf(c)!Init
  BY ScopeAssumption DEF Init, RetryOf!Init
<1>2. ASSUME IInv, IInv', [Next]_vars, NEW c \in Containers
      PROVE  [RetryOf(c)!Next]_(RetryOf(c)!vars)
  <2> TypeOK /\ TypeOK' /\ \A d \in Containers : Known(d)
    BY <1>2 DEF IInv
  <2>1. ASSUME NEW d \in Containers,
               Container(d) \/ StopSignal(d) \/ \E o \in Objects : Apply(d, o)
        PROVE  [RetryOf(c)!Next]_(RetryOf(c)!vars)
    <3>1. CASE d = c
      BY <2>1, <3>1, RetryStep
    <3>2. CASE d # c
      BY <2>1, <3>2, OthersSame, RetrySame DEF At
    <3> QED  BY <3>1, <3>2
  <2>2. CASE Outside \/ UNCHANGED vars
    BY <2>2, OutsideStep, RetrySame DEF control, At
  <2> QED  BY <1>2, <2>1, <2>2 DEF Next, Outside
<1>3. IInv /\ IInv' /\ [Next]_vars =>
        [\A c \in Containers : [RetryOf(c)!Next]_(RetryOf(c)!vars)]_vars
  BY <1>2
<1> QED  BY <1>1, <1>3, Invariance, PTL DEF Spec, ImplementsRetry
=============================================================================
