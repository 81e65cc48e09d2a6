--------------------------- MODULE MySQLProvision ---------------------------
(***************************************************************************)
(* Provisioning of one MySQL database by several containers: every         *)
(* container of the server-mysql image (a server node, or a one-shot       *)
(* init_db_only container) runs mysql.DB.Prepare before it hands over to   *)
(* its service.  The containers share nothing but the database.            *)
(*                                                                         *)
(* Code modelled: internal/mysql/schema.go, connection.go, database.go,    *)
(* internal/bootstrap/database.go (RunAdditionalSQLScripts) and            *)
(* command.go (DBService), and the start order of compose.yaml.            *)
(*                                                                         *)
(* One action per statement sent to the database, because two containers   *)
(* interleave between statements and a container can be killed there; the  *)
(* statement it has sent just before takes effect later, or never.         *)
(***************************************************************************)
EXTENDS Naturals, FiniteSets

CONSTANTS
  Nodes,        \* containers that run DB.Prepare
  Server,       \* the database server, as an importer of the scripts
  Restartable,  \* containers whose restart policy starts them again
  After,        \* After[n]: containers that must complete before n starts
  CreateUser,   \* db.createUser: administrative credentials are configured
  Total,        \* statements of the schema file and the additional dbscripts
  FileEnds,     \* last statement of each file; the smallest ends the schema
  TableAt,      \* the statement that creates the dbversion table
  VersionAt,    \* the statement that inserts the version row
  Repeatable,   \* statements that succeed although already applied
  MaxFaults     \* bound on crashes and database outages in one behaviour

\* The first statement of create.sql creates a table, which fails when the
\* table exists.  The schema file holds the dbversion table and its row.
ASSUME ScriptAssumption ==
  /\ Total \in Nat \ {0}
  /\ TableAt \in 1..Total
  /\ VersionAt \in 1..Total
  /\ TableAt < VersionAt
  /\ FileEnds \subseteq 1..Total
  /\ \A e \in FileEnds : VersionAt <= e
  /\ Total \in FileEnds
  /\ Repeatable \subseteq 2..Total

ASSUME ContainerAssumption ==
  /\ Restartable \subseteq Nodes
  /\ After \in [Nodes -> SUBSET Nodes]
  /\ CreateUser \in BOOLEAN
  /\ MaxFaults \in Nat
  /\ Server \notin Nodes

VARIABLES
  pc,         \* pc[n]: the statement container n is about to run
  session,    \* session[n]: the database connection n uses is alive
  found,      \* found[n]: the answer of the mysql.user query, until it is used
  next,       \* next[n]: next statement of the scripts n imports
  completed,  \* containers whose Prepare has returned nil at least once
  dbUp,       \* the database accepts connections
  late,       \* statements of dead containers the server still executes
  account,    \* the Zabbix user exists in mysql.user
  granted,    \* the Zabbix user holds its privileges on the database
  database,   \* the Zabbix database exists
  applied,    \* script statements whose effect is in the database
  faults      \* crashes and outages so far

shared == <<account, granted, database, applied>>
server == <<dbUp, late>>
vars == <<pc, session, found, next, completed, server, shared, faults>>

Script == 1..Total
TableExists == TableAt \in applied
Versioned == VersionAt \in applied

Connected == {"userCheck", "userWrite", "userGrant", "dbCheck", "dbCreate",
              "dbGrant", "tableCheck", "versionRead"}
Preparing == Connected \cup {"connect", "openScript", "import"}
Phases == Preparing \cup {"created", "ready", "exited"}

\* What a server may carry out behind its sender's back: a CREATE, a GRANT, or
\* one statement of the scripts.
Writes == {"userWrite", "userGrant", "dbCreate", "dbGrant", "import"}
Statement == [request : Writes, number : 1..Total]

TypeOK ==
  /\ pc \in [Nodes -> Phases]
  /\ session \in [Nodes -> BOOLEAN]
  /\ found \in [Nodes -> BOOLEAN]
  /\ next \in [Nodes -> 1..Total + 1]
  /\ completed \subseteq Nodes
  /\ dbUp \in BOOLEAN
  /\ late \subseteq Statement
  /\ account \in BOOLEAN
  /\ granted \in BOOLEAN
  /\ database \in BOOLEAN
  /\ applied \subseteq Script
  /\ faults \in 0..MaxFaults

\* A database is found empty, made by the MySQL image or by hand (user,
\* database, grants), or fully imported by an earlier deployment.
Init ==
  /\ pc = [n \in Nodes |-> "created"]
  /\ session = [n \in Nodes |-> FALSE]
  /\ found = [n \in Nodes |-> FALSE]
  /\ next = [n \in Nodes |-> 1]
  /\ completed = {}
  /\ dbUp = FALSE
  /\ late = {}
  /\ account \in BOOLEAN
  /\ granted \in (IF account THEN BOOLEAN ELSE {FALSE})
  /\ database \in BOOLEAN
  /\ applied \in (IF database THEN {{}, Script} ELSE {{}})
  /\ faults = 0

-----------------------------------------------------------------------------
(* The database server *)

DatabaseUp ==
  /\ ~dbUp
  /\ dbUp' = TRUE
  /\ UNCHANGED <<pc, session, found, next, completed, late, shared, faults>>

\* An outage ends every open session and what it executes; committed
\* statements stay.
DatabaseDown ==
  /\ dbUp
  /\ faults < MaxFaults
  /\ faults' = faults + 1
  /\ dbUp' = FALSE
  /\ session' = [n \in Nodes |-> FALSE]
  /\ late' = {}
  /\ UNCHANGED <<pc, found, next, completed, shared>>

\* The statement of a dead container takes effect, unless it fails: a GRANT
\* without a grantee, a CREATE or an INSERT of what is there already.
GoOn(s) ==
  /\ s \in late
  /\ late' = late \ {s}
  /\ account' = (account \/ s.request = "userWrite")
  /\ granted' = (granted \/ s.request = "userGrant" \/ (s.request = "dbGrant" /\ account))
  /\ database' = (database \/ s.request = "dbCreate")
  /\ applied' = applied \cup {k \in {s.number} : s.request = "import"}
  /\ UNCHANGED <<pc, session, found, next, completed, dbUp, faults>>

-----------------------------------------------------------------------------
(* Containers *)

\* Bug: the service waits only for the start of its dependencies.
Start_ungated(n) ==
  /\ pc[n] = "created"
  /\ \A m \in After[n] : pc[m] # "created"
  /\ pc' = [pc EXCEPT ![n] = "connect"]
  /\ UNCHANGED <<session, found, next, completed, server, shared, faults>>

\* The service starts only when the containers it depends on have completed.
Start(n) ==
  /\ pc[n] = "created"
  /\ After[n] \subseteq completed
  /\ pc' = [pc EXCEPT ![n] = "connect"]
  /\ UNCHANGED <<session, found, next, completed, server, shared, faults>>

Goto(n, phase) == pc' = [pc EXCEPT ![n] = phase]

\* Prepare returns an error and the process exits: its session is closed.
Exit(n) ==
  /\ Goto(n, "exited")
  /\ session' = [session EXCEPT ![n] = FALSE]
  /\ UNCHANGED <<found, next, completed, server, shared, faults>>

\* A write that has been sent when its container dies is at the server.
Sent(n) ==
  {s \in {[request |-> pc[n], number |-> next[n]]} : pc[n] \in Writes /\ session[n]}

\* The container is killed, while preparing or while its service runs, before
\* or after it has sent its next statement.
Crash(n) ==
  /\ pc[n] \in Preparing \cup {"ready"}
  /\ faults < MaxFaults
  /\ faults' = faults + 1
  /\ Goto(n, "exited")
  /\ session' = [session EXCEPT ![n] = FALSE]
  /\ late' \in {late, late \cup Sent(n)}
  /\ UNCHANGED <<found, next, completed, dbUp, shared>>

\* Bug: statements are counted from zero after a restart.
Restart_zero(n) ==
  /\ pc[n] = "exited"
  /\ n \in Restartable
  /\ Goto(n, "connect")
  /\ found' = [found EXCEPT ![n] = FALSE]
  /\ next' = [next EXCEPT ![n] = 0]
  /\ UNCHANGED <<session, completed, server, shared, faults>>

\* A restarted process begins again with nothing but the database.
Restart(n) ==
  /\ pc[n] = "exited"
  /\ n \in Restartable
  /\ Goto(n, "connect")
  /\ found' = [found EXCEPT ![n] = FALSE]
  /\ next' = [next EXCEPT ![n] = 1]
  /\ UNCHANGED <<session, completed, server, shared, faults>>

\* waitForConnection retries until the database answers.
Connect(n) ==
  /\ pc[n] = "connect"
  /\ dbUp
  /\ session' = [session EXCEPT ![n] = TRUE]
  /\ Goto(n, IF CreateUser THEN "userCheck" ELSE "dbCheck")
  /\ UNCHANGED <<found, next, completed, server, shared, faults>>

\* Only the first connection is retried: a statement on a dead session fails,
\* and so does opening the session of a script while the database is down.
SessionError(n) ==
  /\ \/ pc[n] \in Connected \cup {"import"} /\ ~session[n]
     \/ pc[n] = "openScript" /\ ~dbUp
  /\ Exit(n)

-----------------------------------------------------------------------------
(* ensureUser *)

CheckUser(n) ==
  /\ pc[n] = "userCheck"
  /\ session[n]
  /\ found' = [found EXCEPT ![n] = account]
  /\ Goto(n, "userWrite")
  /\ UNCHANGED <<session, next, completed, server, shared, faults>>

\* Bug: the user is created without asking whether it exists.
WriteUser_createOnly(n) ==
  /\ pc[n] = "userWrite"
  /\ session[n]
  /\ \/ /\ ~account
        /\ account' = TRUE
        /\ Goto(n, "userGrant")
        /\ UNCHANGED <<session, found, next, completed, server, granted,
                       database, applied, faults>>
     \/ /\ account
        /\ Exit(n)

\* CREATE USER fails when the user exists, ALTER USER when it does not.
WriteUser(n) ==
  /\ pc[n] = "userWrite"
  /\ session[n]
  /\ \/ /\ account = found[n]
        /\ account' = TRUE
        /\ Goto(n, "userGrant")
        /\ UNCHANGED <<session, found, next, completed, server, granted,
                       database, applied, faults>>
     \/ /\ account # found[n]
        /\ Exit(n)

\* Bug: an existing user is taken to be granted already.
GrantUser_skipExisting(n) ==
  /\ pc[n] = "userGrant"
  /\ session[n]
  /\ granted' = (IF found[n] THEN granted ELSE TRUE)
  /\ Goto(n, "dbCheck")
  /\ UNCHANGED <<session, found, next, completed, server, account, database,
                 applied, faults>>

GrantUser(n) ==
  /\ pc[n] = "userGrant"
  /\ session[n]
  /\ granted' = TRUE
  /\ Goto(n, "dbCheck")
  /\ UNCHANGED <<session, found, next, completed, server, account, database,
                 applied, faults>>

-----------------------------------------------------------------------------
(* createDB *)

\* ensureUser has returned: its answer is of no use any more.
CheckDatabase(n) ==
  /\ pc[n] = "dbCheck"
  /\ session[n]
  /\ found' = [found EXCEPT ![n] = FALSE]
  /\ Goto(n, IF database THEN "tableCheck" ELSE "dbCreate")
  /\ UNCHANGED <<session, next, completed, server, shared, faults>>

\* CREATE DATABASE fails when another container has created it meanwhile.
CreateDatabase(n) ==
  /\ pc[n] = "dbCreate"
  /\ session[n]
  /\ \/ /\ ~database
        /\ database' = TRUE
        /\ Goto(n, "dbGrant")
        /\ UNCHANGED <<session, found, next, completed, server, account,
                       granted, applied, faults>>
     \/ /\ database
        /\ Exit(n)

\* GRANT fails when the grantee does not exist.
GrantDatabase(n) ==
  /\ pc[n] = "dbGrant"
  /\ session[n]
  /\ \/ /\ account
        /\ granted' = TRUE
        /\ Goto(n, "tableCheck")
        /\ UNCHANGED <<session, found, next, completed, server, account,
                       database, applied, faults>>
     \/ /\ ~account
        /\ Exit(n)

-----------------------------------------------------------------------------
(* createSchema *)

CheckTable(n) ==
  /\ pc[n] = "tableCheck"
  /\ session[n]
  /\ Goto(n, IF TableExists THEN "versionRead" ELSE "openScript")
  /\ UNCHANGED <<session, found, next, completed, server, shared, faults>>

Complete(n) ==
  /\ Goto(n, "ready")
  /\ completed' = completed \cup {n}

\* Bug: an existing dbversion table is taken for a provisioned database.
ReadVersion_tableSuffices(n) ==
  /\ pc[n] = "versionRead"
  /\ session[n]
  /\ Complete(n)
  /\ UNCHANGED <<session, found, next, server, shared, faults>>

\* A version row ends Prepare; a table without a row is imported again.
ReadVersion(n) ==
  /\ pc[n] = "versionRead"
  /\ session[n]
  /\ IF Versioned
     THEN Complete(n)
     ELSE Goto(n, "openScript") /\ UNCHANGED completed
  /\ UNCHANGED <<session, found, next, server, shared, faults>>

\* Every script file is run on a session of its own, which is not retried.
OpenScript(n) ==
  /\ pc[n] = "openScript"
  /\ dbUp
  /\ session' = [session EXCEPT ![n] = TRUE]
  /\ Goto(n, "import")
  /\ UNCHANGED <<found, next, completed, server, shared, faults>>

\* A statement that creates what exists fails; the import ends there.
Fails(s) == s \in applied \ Repeatable

\* Bug: the error of a statement is dropped and the script goes on.
ImportStatement_ignoreError(n) ==
  /\ pc[n] = "import"
  /\ session[n]
  /\ applied' = applied \cup {next[n]}
  /\ next' = [next EXCEPT ![n] = @ + 1]
  /\ CASE next[n] = Total -> Complete(n)
       [] next[n] \in FileEnds \ {Total} ->
            Goto(n, "openScript") /\ UNCHANGED completed
       [] OTHER -> UNCHANGED <<pc, completed>>
  /\ UNCHANGED <<session, found, server, account, granted, database, faults>>

\* Bug: a failed script is started over at its next statement, on a new session.
ImportStatement_resume(n) ==
  /\ pc[n] = "import"
  /\ session[n]
  /\ next' = [next EXCEPT ![n] = @ + 1]
  /\ applied' = applied \cup {next[n]}
  /\ IF next[n] = Total
     THEN Complete(n)
     ELSE /\ Goto(n, IF Fails(next[n]) \/ next[n] \in FileEnds
                     THEN "openScript" ELSE "import")
          /\ UNCHANGED completed
  /\ UNCHANGED <<session, found, server, account, granted, database, faults>>

\* The next statement of the scripts: it takes effect and the file goes on,
\* the next file is opened, or Prepare returns nil after the last one.
ImportStatement(n) ==
  /\ pc[n] = "import"
  /\ session[n]
  /\ \/ /\ Fails(next[n])
        /\ Exit(n)
     \/ /\ ~Fails(next[n])
        /\ applied' = applied \cup {next[n]}
        /\ next' = [next EXCEPT ![n] = @ + 1]
        /\ CASE next[n] = Total -> Complete(n)
             [] next[n] \in FileEnds \ {Total} ->
                  Goto(n, "openScript") /\ UNCHANGED completed
             [] OTHER -> UNCHANGED <<pc, completed>>
        /\ UNCHANGED <<session, found, server, account, granted, database,
                       faults>>

-----------------------------------------------------------------------------
Prepare(n) ==
  \/ Connect(n) \/ SessionError(n)
  \/ CheckUser(n) \/ WriteUser(n) \/ GrantUser(n)
  \/ CheckDatabase(n) \/ CreateDatabase(n) \/ GrantDatabase(n)
  \/ CheckTable(n) \/ ReadVersion(n)
  \/ OpenScript(n) \/ ImportStatement(n)

Next ==
  \/ DatabaseUp \/ DatabaseDown
  \/ \E n \in Nodes : Start(n) \/ Prepare(n) \/ Crash(n) \/ Restart(n)
  \/ \E s \in late : GoOn(s)

Spec == Init /\ [][Next]_vars

\* A started process runs until Prepare returns, the container engine starts
\* and restarts what it must, and the database comes back after an outage and
\* executes what it was sent.
Fairness ==
  /\ WF_vars(DatabaseUp)
  /\ WF_vars(\E s \in late : GoOn(s))
  /\ \A n \in Nodes : WF_vars(Start(n) \/ Prepare(n) \/ Restart(n))

FairSpec == Spec /\ Fairness

-----------------------------------------------------------------------------
(* Properties *)

\* n has applied part of the scripts in its current run, or has left the next
\* statement to the server.
Importing(n) == pc[n] \in {"openScript", "import"} /\ next[n] > 1
LateImport(s) == s.request = "import" /\ s.number > 1

\* createSchema decides by a query and imports statement by statement, with no
\* lock and no transaction.  Still at most one container gets past the first
\* statement of create.sql at a time ...
OneImporter ==
  /\ \A m, n \in Nodes : Importing(m) /\ Importing(n) => m = n
  /\ \A r, s \in late : LateImport(r) /\ LateImport(s) => r = s
  /\ \A n \in Nodes, s \in late : ~(Importing(n) /\ LateImport(s))

\* ... so what the database holds is always a prefix of the scripts in order,
\* never a mixture of two imports or a script applied around a gap.
PrefixApplied == \E k \in 0..Total : applied = 1..k

\* A container whose Prepare returned nil finds a database, a version row and,
\* when Prepare manages the user, a user with privileges: no sequence of
\* crashes between CREATE USER, CREATE DATABASE and their GRANT skips one.
ReadyUsable ==
  \A n \in Nodes : pc[n] = "ready" =>
    /\ database
    /\ Versioned
    /\ CreateUser => account /\ granted

\* What the comment of Prepare promises: provisioning includes the whole
\* schema and the additional dbscripts.
ReadyImported == \A n \in Nodes : pc[n] = "ready" => applied = Script

\* compose.yaml starts the services only after the one-shot init container has
\* completed, and never restarts that one: under this order every service
\* that gets ready has the whole import, whatever crashes.
GatedReadyImported ==
  \A n \in Nodes : pc[n] = "ready" /\ After[n] # {} => applied = Script

\* The import was cut off before the version row and nobody is at it, nor is
\* its last statement under way.
Stranded ==
  /\ applied # {}
  /\ ~Versioned
  /\ \A n \in Nodes : ~Importing(n)
  /\ \A s \in late : ~LateImport(s)

\* A partial import is never continued: a later run starts at the first
\* statement, which fails.  Nothing in Prepare repairs it.
StrandedForever == [][Stranded => Stranded' /\ applied' = applied]_vars

AllReady == \A n \in Nodes : pc[n] = "ready"

\* Containers racing for user, database and schema make one another fail, but
\* with a restart policy all of them get ready unless an import is cut off.
EventuallyReady == []~Stranded => <>[]AllReady

-----------------------------------------------------------------------------
(* Refinement: the statements above implement the abstract import. *)

Import == INSTANCE SchemaImport WITH
  owner <- {n \in Nodes : Importing(n)}
             \cup {x \in {Server} : \E s \in late : LateImport(s)},
  ready <- {n \in Nodes : pc[n] = "ready"}

\* Every step of every container is a step of the abstract import or changes
\* nothing of it: whatever the interleaving and the crashes, the database is
\* written by a single owner in order and an abandoned import stays as it is.
ImplementsImport == Import!Spec
=============================================================================
