--------------------------- MODULE ElasticPrepare ---------------------------
(***************************************************************************)
(* Preparation of Elasticsearch for history: several containers, each with *)
(* a list of providers, one Elasticsearch and an administrator.  All the   *)
(* providers of a container are validated, then prepared one after the     *)
(* other, each with retries of its own; a stop signal ends them all.       *)
(*                                                                         *)
(* Code modelled: internal/elasticsearch/schema.go (objects, objectExists, *)
(* Prepare), client.go (request, exists), internal/storageinit/prepare.go  *)
(* and elasticsearch.go.                                                   *)
(*                                                                         *)
(* One action per request.  A PUT that has been sent is carried out by     *)
(* Elasticsearch in an action of its own, also when its sender has stopped *)
(* waiting or has been killed.                                             *)
(***************************************************************************)
EXTENDS Naturals, Sequences, FiniteSets

CONSTANTS
  Containers,  \* server, proxy and one-shot init containers
  Plans,       \* Plans[c]: the providers of c that have _SCHEMA, in order
  Nobody,      \* the author of what does not exist
  Admin,       \* an administrator, who defines objects of his own
  Attempts,    \* attempts of a preparation; the code makes 3
  MaxFaults    \* bound on outages, lost answers, signals and interventions

\* A provider's history types, date_index, create and whether its options
\* pass the validation.
SchemaRecords(types) ==
  [types : Seq(types), daily : BOOLEAN, create : BOOLEAN, valid : BOOLEAN]

Types == {"dbl", "uint", "str", "text", "log", "json"}

ASSUME ScopeAssumption ==
  /\ Plans \in [Containers -> Seq(SchemaRecords(Types))]
  /\ \A c \in Containers :
       /\ Plans[c] # <<>>
       /\ \A p \in DOMAIN Plans[c] : Plans[c][p].valid => Plans[c][p].types # <<>>
  /\ Nobody \notin Containers \cup {Admin}
  /\ Admin \notin Containers
  /\ Attempts \in Nat \ {0}
  /\ MaxFaults \in Nat

VARIABLES
  pc,         \* pc[c]: the request c is about to make
  task,       \* task[c]: provider c is at
  step,       \* step[c]: object of the provider c is at
  put,        \* put[c]: how the creation of this object has ended
  calls,      \* calls[c]: attempts begun for this provider
  cancelled,  \* cancelled[c]: a stop signal has ended the context
  result,     \* result[c]: what the retries returned
  stored,     \* stored[o]: author of the definition Elasticsearch has
  legacy,     \* templates that exist under the legacy template API
  puts,       \* creations sent and not yet carried out
  up,         \* Elasticsearch accepts connections
  faults      \* outages, lost answers, signals and interventions so far

control == <<pc, task, step, put, calls, cancelled, result>>
vars == <<control, stored, legacy, puts, up, faults>>

-----------------------------------------------------------------------------
(* The objects of a schema: for every type its pipeline, if it needs one,  *)
(* and then its index or, for daily indices, its index template.           *)

Pipeline(t, daily) == [kind |-> "pipeline", type |-> t, daily |-> daily]
Index(t, daily) == [kind |-> IF daily THEN "template" ELSE "index",
                    type |-> t, daily |-> daily]

TypeAt(s, i) == s.types[(i + 1) \div 2]
Object(s, i) ==
  IF i % 2 = 1 THEN Pipeline(TypeAt(s, i), s.daily)
  ELSE Index(TypeAt(s, i), s.daily)
Steps(s) ==
  {i \in 1..(2 * Len(s.types)) : i % 2 = 0 \/ s.daily \/ TypeAt(s, i) = "json"}

\* The first object at or behind a place, 0 if there is none: only every other
\* place can be empty.
From(s, i) ==
  IF i \in Steps(s) THEN i ELSE IF i + 1 \in Steps(s) THEN i + 1 ELSE 0

Schemas == UNION {{Plans[c][p] : p \in DOMAIN Plans[c]} : c \in Containers}
Objects == UNION {{Object(s, i) : i \in Steps(s)} : s \in Schemas}
Templates == {o \in Objects : o.kind = "template"}

\* Bug: templates are sent without create=true.
CreateOnly_indices(o) == o.kind = "index"

\* Definitions a PUT never replaces: an index, and a template that is sent
\* with create=true.
CreateOnly(o) == o.kind # "pipeline"

Schema(c) == Plans[c][task[c]]
Current(c) == Object(Schema(c), step[c])
AllValid(c) == \A p \in DOMAIN Plans[c] : Plans[c][p].valid

-----------------------------------------------------------------------------
Looking == {"look", "legacy"}
Preparing == Looking \cup {"put", "sent"}
Busy == Preparing \cup {"prepared", "waiting"}
Phases == Busy \cup {"created", "ready", "failed"}

\* Errors of a request: no connection, a connection that broke, any other
\* (an HTTP status, a timeout, the end of the context).
Errors == {"dial", "broken", "other"}

TypeOK ==
  /\ pc \in [Containers -> Phases]
  /\ task \in [Containers -> Nat]
  /\ step \in [Containers -> Nat]
  /\ \A c \in Containers :
       /\ pc[c] \in Busy => task[c] \in DOMAIN Plans[c] /\ calls[c] # 0
       /\ pc[c] \in Preparing => step[c] \in Steps(Schema(c))
  /\ put \in [Containers -> Errors \cup {"none", "ok"}]
  /\ calls \in [Containers -> 0..Attempts]
  /\ cancelled \in [Containers -> BOOLEAN]
  /\ result \in [Containers -> {"none", "nil", "stopped", "cancelled", "last"}]
  /\ stored \in [Objects -> Containers \cup {Nobody, Admin}]
  /\ legacy \subseteq Templates
  /\ puts \subseteq Containers \X Objects
  /\ up \in BOOLEAN
  /\ faults \in 0..MaxFaults

\* Elasticsearch has nothing yet or what an administrator has prepared.
Init ==
  /\ pc = [c \in Containers |-> "created"]
  /\ task = [c \in Containers |-> 0]
  /\ step = [c \in Containers |-> 0]
  /\ put = [c \in Containers |-> "none"]
  /\ calls = [c \in Containers |-> 0]
  /\ cancelled = [c \in Containers |-> FALSE]
  /\ result = [c \in Containers |-> "none"]
  /\ \E author \in {Nobody, Admin} : stored = [o \in Objects |-> author]
  /\ legacy \in {{}, Templates}
  /\ puts = {}
  /\ up = TRUE
  /\ faults = 0

Fault == faults < MaxFaults /\ faults' = faults + 1

-----------------------------------------------------------------------------
(* Elasticsearch and its administrator *)

Down ==
  /\ up
  /\ Fault
  /\ up' = FALSE
  /\ UNCHANGED <<control, stored, legacy, puts>>

Up ==
  /\ ~up
  /\ up' = TRUE
  /\ UNCHANGED <<control, stored, legacy, puts, faults>>

\* Whoever created or replaced it, an object is never removed.
AdminDefines(o) ==
  /\ stored[o] # Admin
  /\ Fault
  /\ \/ stored' = [stored EXCEPT ![o] = Admin] /\ UNCHANGED legacy
     \/ o \in Templates \ legacy /\ legacy' = legacy \cup {o} /\ UNCHANGED stored
  /\ UNCHANGED <<control, puts, up>>

\* A PUT is carried out.  Its sender learns the outcome if it still waits; a
\* definition that must not be replaced is answered with HTTP 400.
Apply(c, o) ==
  LET refused == CreateOnly(o) /\ stored[o] # Nobody
  IN /\ <<c, o>> \in puts
     /\ up
     /\ puts' = puts \ {<<c, o>>}
     /\ stored' = IF refused THEN stored ELSE [stored EXCEPT ![o] = c]
     /\ IF pc[c] = "sent" /\ Current(c) = o
        THEN /\ pc' = [pc EXCEPT ![c] = "look"]
             /\ put' = [put EXCEPT ![c] = IF refused THEN "other" ELSE "ok"]
        ELSE UNCHANGED <<pc, put>>
     /\ UNCHANGED <<task, step, calls, cancelled, result, legacy, up, faults>>

-----------------------------------------------------------------------------
(* Containers: storageinit.prepareSchemas, preparation.prepare and Retry *)

Goto(c, phase) ==
  /\ pc' = [pc EXCEPT ![c] = phase]
  /\ UNCHANGED <<calls, cancelled, result>>

Return(c, r) ==
  /\ pc' = [pc EXCEPT ![c] = IF r = "nil" THEN "prepared" ELSE "failed"]
  /\ result' = [result EXCEPT ![c] = r]
  /\ UNCHANGED <<calls, cancelled>>

\* Every attempt goes through all the objects of the provider.
BeginAttempt(c, p) ==
  /\ pc' = [pc EXCEPT ![c] = "look"]
  /\ step' = [step EXCEPT ![c] = From(Plans[c][p], 1)]
  /\ put' = [put EXCEPT ![c] = "none"]

BeginTask(c, p) ==
  IF p \in DOMAIN Plans[c]
  THEN /\ BeginAttempt(c, p)
       /\ task' = [task EXCEPT ![c] = p]
       /\ calls' = [calls EXCEPT ![c] = 1]
       /\ result' = [result EXCEPT ![c] = "none"]
  ELSE /\ pc' = [pc EXCEPT ![c] = "ready"]
       /\ UNCHANGED <<task, step, put, calls, result>>

\* The container starts, for the first time, by its policy after a failure or
\* because somebody restarts it.  Nothing is requested before every provider
\* has been validated.
Start(c) ==
  /\ \/ pc[c] \in {"created", "failed"} /\ UNCHANGED faults
     \/ pc[c] = "ready" /\ Fault
  /\ IF AllValid(c)
     THEN /\ BeginTask(c, 1)
          /\ cancelled' = [cancelled EXCEPT ![c] = FALSE]
     ELSE /\ pc' = [pc EXCEPT ![c] = "failed"]
          /\ UNCHANGED <<task, step, put, calls, cancelled, result>>
  /\ UNCHANGED <<stored, legacy, puts, up>>

NextTask(c) ==
  /\ pc[c] = "prepared"
  /\ BeginTask(c, task[c] + 1)
  /\ UNCHANGED <<cancelled, stored, legacy, puts, up, faults>>

StopSignal(c) ==
  /\ pc[c] \in Busy
  /\ ~cancelled[c]
  /\ Fault
  /\ cancelled' = [cancelled EXCEPT ![c] = TRUE]
  /\ UNCHANGED <<pc, task, step, put, calls, result, stored, legacy, puts, up>>

\* Bug: the attempts are not counted and the context is not asked.
AttemptFails_forever(c, error) ==
  IF error = "dial" THEN Goto(c, "waiting") ELSE Return(c, "stopped")

\* Bug: one attempt too many.
AttemptFails_oneMore(c, error) ==
  IF error # "dial" THEN Return(c, "stopped")
  ELSE IF cancelled[c] THEN Return(c, "cancelled")
  ELSE IF calls[c] > Attempts THEN Return(c, "last")
  ELSE Goto(c, "waiting")

\* Only a connection that could not be opened is tried again.
AttemptFails(c, error) ==
  IF error # "dial" THEN Return(c, "stopped")
  ELSE IF cancelled[c] THEN Return(c, "cancelled")
  ELSE IF calls[c] = Attempts THEN Return(c, "last")
  ELSE Goto(c, "waiting")

Resume(c) ==
  /\ pc[c] = "waiting"
  /\ BeginAttempt(c, task[c])
  /\ calls' = [calls EXCEPT ![c] = @ + 1]
  /\ UNCHANGED <<task, cancelled, result, stored, legacy, puts, up, faults>>

GiveUp(c) ==
  /\ pc[c] = "waiting"
  /\ cancelled[c]
  /\ Return(c, "cancelled")
  /\ UNCHANGED <<task, step, put, stored, legacy, puts, up, faults>>

-----------------------------------------------------------------------------
(* Containers: elasticsearch.Client.Prepare *)

Answered(c) == up /\ ~cancelled[c]

\* The object exists: on to the next one, or Prepare returns nil.
Found(c) ==
  LET next == From(Schema(c), step[c] + 1)
  IN /\ put' = [put EXCEPT ![c] = "none"]
     /\ IF next = 0
        THEN Return(c, "nil") /\ UNCHANGED step
        ELSE Goto(c, "look") /\ step' = [step EXCEPT ![c] = next]

\* The object is missing: before its creation, or still after it.
Missing(c) ==
  /\ IF put[c] # "none" THEN AttemptFails(c, put[c])
     ELSE IF Schema(c).create THEN Goto(c, "put")
     ELSE Return(c, "stopped")
  /\ UNCHANGED <<step, put>>

\* Bug: templates are looked for under the alternate path only.
Look_alternate(c) ==
  /\ pc[c] = "look"
  /\ Answered(c)
  /\ IF Current(c) \in Templates
     THEN Goto(c, "legacy") /\ UNCHANGED <<step, put>>
     ELSE IF stored[Current(c)] # Nobody THEN Found(c) ELSE Missing(c)
  /\ UNCHANGED <<task, stored, legacy, puts, up, faults>>

\* objectExists, before and after the creation.
Look(c) ==
  /\ pc[c] = "look"
  /\ Answered(c)
  /\ IF stored[Current(c)] # Nobody THEN Found(c)
     ELSE IF Current(c) \in Templates
     THEN Goto(c, "legacy") /\ UNCHANGED <<step, put>>
     ELSE Missing(c)
  /\ UNCHANGED <<task, stored, legacy, puts, up, faults>>

\* The second request of objectExists: a legacy template counts too.
LookLegacy(c) ==
  /\ pc[c] = "legacy"
  /\ Answered(c)
  /\ IF Current(c) \in legacy THEN Found(c) ELSE Missing(c)
  /\ UNCHANGED <<task, stored, legacy, puts, up, faults>>

Put(c) ==
  /\ pc[c] = "put"
  /\ Answered(c)
  /\ Goto(c, "sent")
  /\ puts' = puts \cup {<<c, Current(c)>>}
  /\ UNCHANGED <<task, step, put, stored, legacy, up, faults>>

\* How a request can fail.  A container that is killed leaves the same behind
\* as one that stops after an error.
Fails(c, error) ==
  \/ error = "dial" /\ ~up /\ pc[c] # "sent" /\ UNCHANGED faults
  \/ error = "other" /\ cancelled[c] /\ UNCHANGED faults
  \/ error \in {"broken", "other"} /\ Fault

\* The error that decides on a retry: the first network error of the joined
\* ones, the failed creation before the failed look.
Joined(c, error) == IF put[c] \in {"dial", "broken"} THEN put[c] ELSE error

LookFails(c) ==
  /\ pc[c] \in Looking
  /\ \E error \in Errors : Fails(c, error) /\ AttemptFails(c, Joined(c, error))
  /\ UNCHANGED <<task, step, put, stored, legacy, puts, up>>

\* Bug: a creation that was not answered is taken for done.
PutFails_done(c) ==
  /\ pc[c] \in {"put", "sent"}
  /\ \E error \in Errors : Fails(c, error)
  /\ Found(c)
  /\ UNCHANGED <<task, stored, legacy, puts, up>>

\* The creation fails before or after it was sent, and Elasticsearch may have
\* received it: the object is looked for all the same.
PutFails(c) ==
  /\ pc[c] \in {"put", "sent"}
  /\ \E error \in Errors : Fails(c, error) /\ put' = [put EXCEPT ![c] = error]
  /\ Goto(c, "look")
  /\ puts' \in {puts, puts \ {<<c, Current(c)>>}}
  /\ UNCHANGED <<task, step, stored, legacy, up>>

-----------------------------------------------------------------------------
Container(c) ==
  \/ Start(c) \/ NextTask(c) \/ Resume(c) \/ GiveUp(c)
  \/ Look(c) \/ LookLegacy(c) \/ Put(c) \/ LookFails(c) \/ PutFails(c)

Next ==
  \/ \E c \in Containers : Container(c) \/ StopSignal(c)
  \/ \E c \in Containers, o \in Objects : Apply(c, o)
  \/ \E o \in Objects : AdminDefines(o)
  \/ Down \/ Up

Spec == Init /\ [][Next]_vars

\* Containers run and are restarted by their policy, Elasticsearch comes back
\* and carries out what it has received.
Fairness ==
  /\ WF_vars(Up)
  /\ \A c \in Containers : WF_vars(Container(c))
  /\ \A c \in Containers, o \in Objects : WF_vars(Apply(c, o))

FairSpec == Spec /\ Fairness

-----------------------------------------------------------------------------
(* Properties *)

Exists(o) == stored[o] # Nobody \/ o \in legacy

\* A container that goes on to its service, or ends its one-shot command with
\* success, has all the objects of all its providers: whatever was refused,
\* lost or carried out late, and whoever else was at work.
ReadyComplete ==
  \A c \in Containers : pc[c] = "ready" =>
    \A p \in DOMAIN Plans[c] : \A i \in Steps(Plans[c][p]) :
      Exists(Object(Plans[c][p], i))

\* What the READMEs say of create=true, as far as Elasticsearch can keep it: an
\* index or a template that exists is not replaced by a container, although
\* looking and creating are separate requests and creations may come late.
DefinitionsKept ==
  [][\A o \in Objects :
       o.kind # "pipeline" /\ stored[o] # Nobody /\ stored'[o] # stored[o]
         => stored'[o] = Admin]_vars

\* A container creates an index or a template only when the pipeline that its
\* documents go through exists.
PipelineFirst ==
  [][\A o \in Objects :
       o.kind # "pipeline" /\ stored'[o] # stored[o] /\ stored'[o] \in Containers
         => \A q \in Objects :
              q.kind = "pipeline" /\ q.type = o.type /\ q.daily = o.daily
                => stored[q] # Nobody]_vars

\* Every valid container is prepared in the end, also one that only checks
\* what another one creates, whatever fails a bounded number of times.
Created(o) ==
  \E c \in Containers : AllValid(c) /\ \E p \in DOMAIN Plans[c] :
    Plans[c][p].create /\ \E i \in Steps(Plans[c][p]) : Object(Plans[c][p], i) = o

EventuallyPrepared ==
  (\A o \in Objects : Created(o)) =>
    \A c \in Containers : AllValid(c) => <>[](pc[c] = "ready")

-----------------------------------------------------------------------------
(* Every container calls bootstrap.Retry, once for each provider. *)

RetryOf(c) == INSTANCE Retry WITH
  at <- CASE calls[c] = 0 -> "idle"
          [] calls[c] # 0 /\ pc[c] \in Preparing -> "attempt"
          [] calls[c] # 0 /\ pc[c] = "waiting" -> "pause"
          [] OTHER -> "returned",
  limit <- Attempts,
  calls <- calls[c],
  cancelled <- cancelled[c],
  result <- result[c]

\* The attempts of every provider, their number, their pauses and the way they
\* end with a stop signal are those bootstrap.Retry promises.
ImplementsRetry ==
  /\ \A c \in Containers : RetryOf(c)!Init
  /\ [][\A c \in Containers : [RetryOf(c)!Next]_(RetryOf(c)!vars)]_vars
=============================================================================
