---------------------------- MODULE PgProvision ----------------------------
(***************************************************************************)
(* Provisioning of one PostgreSQL database by several containers of the    *)
(* server-pgsql image, each running postgresql.DB.Prepare.                 *)
(*                                                                         *)
(* Code modelled: internal/postgresql/schema.go and connection.go, with    *)
(* RunAdditionalSQLScripts of internal/bootstrap/database.go.              *)
(*                                                                         *)
(* Unlike MySQL, DDL is transactional: a file is sent as one query, so its *)
(* effect is that of the transactions it consists of, each all or nothing. *)
(* The query outlives the container that sent it: the server goes on with  *)
(* the rest of the file until it fails, ends, or notices that nobody is    *)
(* there to answer to.  What follows the schema file (the TimescaleDB      *)
(* extension, its script and the additional scripts) are queries of their  *)
(* own, which a dead container never sends.                                *)
(***************************************************************************)
EXTENDS Naturals, FiniteSets

CONSTANTS
  Nodes,      \* containers that run DB.Prepare
  Server,     \* the database server, as an importer of the scripts
  Total,      \* transactions of all files, in their order
  SchemaEnd,  \* last transaction of the schema file
  VersionAt,  \* the transaction that inserts the version row
  Extension,  \* transactions sent over the administrative session
  FileStarts, \* transactions that begin a file and so open a session
  Named,      \* a namespace is configured that may be missing
  MaxFaults   \* bound on crashes and database outages

\* The schema file creates the dbversion table in its first transaction.
ASSUME ScriptAssumption ==
  /\ Total \in Nat /\ Total > 1
  /\ SchemaEnd \in 1..Total
  /\ VersionAt \in 1..SchemaEnd
  /\ Extension \subseteq 1..Total
  /\ FileStarts \subseteq 1..Total
  /\ 1 \in FileStarts /\ FileStarts \cap Extension = {}
  /\ Named \in BOOLEAN
  /\ MaxFaults \in Nat
  /\ Server \notin Nodes

VARIABLES
  pc,         \* pc[n]: the request container n is about to make
  session,    \* session[n]: its current administrative session is alive
  file,       \* file[n]: the session of the file it executes
  next,       \* next[n]: the transaction it executes next
  dbUp,       \* the database server answers
  late,       \* queries of dead containers the server still executes
  userDatabase, \* a database of the administrative user's name accepts it
  database,   \* the Zabbix database exists
  namespace,  \* the configured namespace exists
  applied,    \* transactions that have been committed
  faults      \* crashes and outages so far

server == <<dbUp, late>>
shared == <<userDatabase, database, namespace, applied>>
vars == <<pc, session, file, next, server, shared, faults>>

Versioned == VersionAt \in applied

\* Requests made over an administrative session.
Administrative == {"dbCheck", "dbCreate", "nsCheck", "nsCreate", "tableCheck", "versionRead"}
Preparing == Administrative \cup {"connect", "target", "import"}

\* Writes are the requests a server may carry out behind their sender's back:
\* a CREATE, or a query of the scripts with the transaction it has got to.
Writes == {"dbCreate", "nsCreate", "import"}
Query == [request : Writes, transaction : 1..Total]

TypeOK ==
  /\ pc \in [Nodes -> Preparing \cup {"ready", "exited"}]
  /\ session \in [Nodes -> BOOLEAN]
  /\ file \in [Nodes -> {"none", "open", "dead"}]
  /\ next \in [Nodes -> 1..Total]
  /\ dbUp \in BOOLEAN
  /\ late \subseteq Query
  /\ userDatabase \in BOOLEAN
  /\ database \in BOOLEAN
  /\ namespace \in BOOLEAN
  /\ applied \subseteq 1..Total
  /\ faults \in 0..MaxFaults

\* The database is missing, made by hand, or imported by an earlier
\* deployment.
Init ==
  /\ pc = [n \in Nodes |-> "connect"]
  /\ session = [n \in Nodes |-> FALSE]
  /\ file = [n \in Nodes |-> "none"]
  /\ next = [n \in Nodes |-> 1]
  /\ dbUp = FALSE
  /\ late = {}
  /\ userDatabase \in BOOLEAN
  /\ database \in BOOLEAN
  /\ namespace \in (IF database THEN {~Named, TRUE} ELSE {~Named})
  /\ applied \in (IF database /\ namespace THEN {{}, 1..Total} ELSE {{}})
  /\ faults = 0

-----------------------------------------------------------------------------
(* The database server *)

DatabaseUp ==
  /\ ~dbUp
  /\ dbUp' = TRUE
  /\ UNCHANGED <<pc, session, file, next, late, shared, faults>>

\* An outage ends every session and every query; open transactions are rolled back.
DatabaseDown ==
  /\ dbUp
  /\ faults < MaxFaults
  /\ faults' = faults + 1
  /\ dbUp' = FALSE
  /\ session' = [n \in Nodes |-> FALSE]
  /\ file' = [n \in Nodes |-> IF file[n] = "open" THEN "dead" ELSE file[n]]
  /\ late' = {}
  /\ UNCHANGED <<pc, next, shared>>

\* The transaction is the last of its query.
EndsQuery(k) == k = Total \/ k + 1 \in FileStarts \cup Extension

\* The server executes the next transaction of a query whose sender is dead:
\* what exists already ends the query, as it does for a living sender.
GoOn(q) ==
  /\ q \in late
  /\ database' = (database \/ q.request = "dbCreate")
  /\ namespace' = (namespace \/ q.request = "nsCreate")
  /\ applied' = applied \cup {k \in {q.transaction} : q.request = "import"}
  /\ IF q.request # "import" \/ q.transaction \in applied \/ EndsQuery(q.transaction)
       THEN late' = late \ {q}
       ELSE late' = (late \ {q}) \cup {[q EXCEPT !.transaction = @ + 1]}
  /\ UNCHANGED <<pc, session, file, next, dbUp, userDatabase, faults>>

\* The server fails to answer, notices so that the client is gone, and ends
\* the query between two transactions.
Notice(q) ==
  /\ q \in late
  /\ late' = late \ {q}
  /\ UNCHANGED <<pc, session, file, next, dbUp, shared, faults>>

-----------------------------------------------------------------------------
(* Containers *)

Goto(n, request) == pc' = [pc EXCEPT ![n] = request]

\* Prepare returns an error, or the process is killed.
Leave(n) ==
  /\ Goto(n, "exited")
  /\ session' = [session EXCEPT ![n] = FALSE]
  /\ file' = [file EXCEPT ![n] = "none"]

\* The session of the next transaction: the extension is created over the
\* administrative one, which has stayed open.
Usable(n) ==
  IF next[n] \in Extension THEN session[n] ELSE file[n] = "open"

\* A write that has been sent when its container dies is at the server.
Sent(n) ==
  {q \in {[request |-> pc[n], transaction |-> next[n]]} :
     \/ pc[n] \in {"dbCreate", "nsCreate"} /\ session[n]
     \/ pc[n] = "import" /\ Usable(n)}

\* The process is killed, before or after it has sent its next request.
Crash(n) ==
  /\ pc[n] # "exited"
  /\ faults < MaxFaults
  /\ faults' = faults + 1
  /\ Leave(n)
  /\ late' \in {late, late \cup Sent(n)}
  /\ UNCHANGED <<next, dbUp, shared>>

Restart(n) ==
  /\ pc[n] = "exited"
  /\ Goto(n, "connect")
  /\ next' = [next EXCEPT ![n] = 1]
  /\ UNCHANGED <<session, file, server, shared, faults>>

Fail(n) == Leave(n) /\ UNCHANGED <<next, server, shared, faults>>

\* Bug: only the Zabbix database is tried.
Connect_ownDatabase(n) ==
  /\ pc[n] = "connect" /\ dbUp /\ database
  /\ Goto(n, "dbCheck")
  /\ session' = [session EXCEPT ![n] = TRUE]
  /\ UNCHANGED <<file, next, server, shared, faults>>

\* waitForConnection: tried without end, on the database of the user's name
\* first and on the Zabbix database then; while there is neither it waits.
Connect(n) ==
  /\ pc[n] = "connect" /\ dbUp
  /\ userDatabase \/ database
  /\ Goto(n, "dbCheck")
  /\ session' = [session EXCEPT ![n] = TRUE]
  /\ UNCHANGED <<file, next, server, shared, faults>>

\* A request over a session that an outage has ended.
SessionError(n) ==
  /\ pc[n] \in Administrative /\ ~session[n]
  /\ Fail(n)

Ask(n, request, exists, absent, present) ==
  /\ pc[n] = request /\ session[n]
  /\ Goto(n, IF exists THEN present ELSE absent)
  /\ UNCHANGED <<session, file, next, server, shared, faults>>

\* createDB
CheckDatabase(n) == Ask(n, "dbCheck", database, "dbCreate", "target")

\* CREATE DATABASE fails when another container has been faster.
CreateDatabase(n) ==
  /\ pc[n] = "dbCreate" /\ session[n]
  /\ IF database
       THEN Fail(n)
       ELSE /\ database' = TRUE
            /\ Goto(n, "target")
            /\ UNCHANGED <<session, file, next, server, userDatabase, namespace, applied, faults>>

\* createSchema opens a session of its own, and only once.
ConnectTarget(n) ==
  /\ pc[n] = "target"
  /\ IF dbUp
       THEN /\ Goto(n, IF Named THEN "nsCheck" ELSE "tableCheck")
            /\ session' = [session EXCEPT ![n] = TRUE]
            /\ UNCHANGED <<file, next, server, shared, faults>>
       ELSE Fail(n)

\* createNamespace
CheckNamespace(n) == Ask(n, "nsCheck", namespace, "nsCreate", "tableCheck")

CreateNamespace(n) ==
  /\ pc[n] = "nsCreate" /\ session[n]
  /\ IF namespace
       THEN Fail(n)
       ELSE /\ namespace' = TRUE
            /\ Goto(n, "tableCheck")
            /\ UNCHANGED <<session, file, next, server, userDatabase, database, applied, faults>>

\* The dbversion table, and the version in it.
CheckTable(n) == Ask(n, "tableCheck", 1 \in applied, "import", "versionRead")

\* Bug: the table is taken for the version.
ReadVersion_tableSuffices(n) == Ask(n, "versionRead", TRUE, "import", "ready")

ReadVersion(n) == Ask(n, "versionRead", Versioned, "import", "ready")

\* executeSQLFile opens a session for each file.
OpenFile(n) ==
  /\ pc[n] = "import" /\ next[n] \in FileStarts /\ file[n] = "none"
  /\ IF dbUp
       THEN /\ file' = [file EXCEPT ![n] = "open"]
            /\ UNCHANGED <<pc, session, next, server, shared, faults>>
       ELSE Fail(n)

Broken(n) ==
  IF next[n] \in Extension THEN ~session[n] ELSE file[n] = "dead"

ImportError(n) ==
  /\ pc[n] = "import" /\ Broken(n)
  /\ Fail(n)

\* Bug: the end of the last file is not noticed.
Commit_pastEnd(n) ==
  /\ applied' = applied \cup {next[n]}
  /\ next' = [next EXCEPT ![n] = @ + 1]
  /\ file' = [file EXCEPT ![n] =
                IF EndsQuery(next[n]) THEN "none" ELSE @]
  /\ UNCHANGED <<pc, session, server, userDatabase, database, namespace, faults>>

\* The next transaction is committed; the session of a file ends with it.
Commit(n) ==
  /\ applied' = applied \cup {next[n]}
  /\ IF next[n] = Total
       THEN /\ Goto(n, "ready")
            /\ session' = [session EXCEPT ![n] = FALSE]
            /\ file' = [file EXCEPT ![n] = "none"]
            /\ UNCHANGED next
       ELSE /\ next' = [next EXCEPT ![n] = @ + 1]
            /\ file' = [file EXCEPT ![n] =
                          IF EndsQuery(next[n]) THEN "none" ELSE @]
            /\ UNCHANGED <<pc, session>>
  /\ UNCHANGED <<server, userDatabase, database, namespace, faults>>

\* Bug: an error of a statement is not returned.
Transaction_ignoreError(n) ==
  /\ pc[n] = "import" /\ Usable(n)
  /\ Commit(n)

\* A transaction of a file another container has applied creates what
\* exists; one that has waited for the other to commit fails then.
Transaction(n) ==
  /\ pc[n] = "import" /\ Usable(n)
  /\ IF next[n] \in applied THEN Fail(n) ELSE Commit(n)

Prepare(n) ==
  \/ Connect(n) \/ SessionError(n)
  \/ CheckDatabase(n) \/ CreateDatabase(n)
  \/ ConnectTarget(n) \/ CheckNamespace(n) \/ CreateNamespace(n)
  \/ CheckTable(n) \/ ReadVersion(n)
  \/ OpenFile(n) \/ ImportError(n) \/ Transaction(n)

Next ==
  \/ DatabaseUp \/ DatabaseDown
  \/ \E n \in Nodes : Prepare(n) \/ Crash(n) \/ Restart(n)
  \/ \E q \in late : GoOn(q) \/ Notice(q)

Spec == Init /\ [][Next]_vars

\* The database server comes back and executes what it was sent, a container
\* goes on with its start, and its restart policy starts it again.
Fairness ==
  /\ WF_vars(DatabaseUp)
  /\ WF_vars(\E q \in late : GoOn(q) \/ Notice(q))
  /\ \A n \in Nodes : WF_vars(Prepare(n)) /\ WF_vars(Restart(n))

FairSpec == Spec /\ Fairness

-----------------------------------------------------------------------------
(* Properties *)

\* Past the first transaction, which only one container can commit: a
\* container, or the server with the query of a dead one.
Importing(n) == pc[n] = "import" /\ next[n] > 1
LateImport(q) == q.request = "import" /\ q.transaction > 1

\* createSchema: a container that is ready has found, or made, the whole
\* schema up to the version row, in a database and a namespace that exist.
ReadySchema ==
  \A n \in Nodes : pc[n] = "ready" =>
    database /\ namespace /\ 1..VersionAt \subseteq applied

\* createSchema: at most one importer is past the first transaction, be it a
\* container or what a dead one has left running in the server; what it has
\* applied is a prefix of the files.
OneImporter ==
  /\ \A n \in Nodes : Importing(n) =>
       /\ applied = 1..(next[n] - 1)
       /\ \A m \in Nodes \ {n} : ~Importing(m)
       /\ \A q \in late : ~LateImport(q)
  /\ \A q \in late : LateImport(q) =>
       /\ applied = 1..(q.transaction - 1)
       /\ \A r \in late \ {q} : ~LateImport(r)

\* createSchema returns when it finds a version, and fails at the first
\* transaction when it finds none: once a container has died in its import
\* and the server has come to the end of the query it had sent, the rest of
\* the files, TimescaleDB and the additional scripts among them, is never
\* applied by anybody.
Unfinished ==
  /\ applied # {} /\ applied # 1..Total
  /\ \A n \in Nodes : ~Importing(n)
  /\ \A q \in late : ~LateImport(q)
UnfinishedForever == [][Unfinished => Unfinished' /\ applied' = applied]_vars

\* Races for the database, the namespace and the schema only cost restarts:
\* when the faults end, every container becomes ready, provided there is a
\* database to connect to and no import has ended before the version row.
AllReady == \A n \in Nodes : pc[n] = "ready"
EventuallyReady ==
  (userDatabase \/ database) /\ [](~(Unfinished /\ ~Versioned)) => <>[]AllReady

\* Prepare implements the abstract import, with transactions for statements.
Import == INSTANCE SchemaImport WITH
  owner <- {n \in Nodes : Importing(n)}
             \cup {s \in {Server} : \E q \in late : LateImport(q)},
  ready <- {n \in Nodes : pc[n] = "ready"}
ImplementsImport == Import!Spec
=============================================================================
