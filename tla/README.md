# TLA+ models of the Zabbix container entrypoints

This repository builds the container images of Zabbix. Its program is the set of
entrypoints in `src/templates/entrypoints`: a Go binary that is the first process
of every container, prepares what the service needs, and then replaces itself by
the service (or supervises it, in the web images). Everything else is Dockerfiles,
templates, compose and Kubernetes descriptions and build scripts.

The entrypoints are short programs, but what they do is shared: several containers
provision one database or one ClickHouse cluster at once, containers are killed
and restarted by a policy, directories and databases outlive the container that
was writing to them. The models are about that. Paths below are relative to
`src/templates/entrypoints/internal/` unless they start with `src/` or `cmd/`.

Contents: [the system](#the-system), [the modules](#the-modules), [the
runs](#the-runs), [fairness](#fairness), [the proofs](#the-proofs),
[findings](#findings), [what is not modelled](#what-is-not-modelled), [the
plan](#the-plan).

## The system

Every entrypoint is `bootstrap.Main` around `WithResolvedSecrets` around
`Service`, `DBService` or `StorageInitEntrypoint` (`bootstrap/command.go`). The
order of a database service is

    secrets -> Vault credentials -> administrative session, schema -> wait as the
    Zabbix user -> configuration files -> storage providers -> hooks -> exec

and any error ends the process; what happens next is up to the restart policy.

| Component | State it keeps | Operations | Interacts with |
|---|---|---|---|
| Secrets (`bootstrap/secret*.go`, `provider_secrets.go`) | files and directories under the internal secrets directory, variables `*_FILE` | resolve the secrets of a plan, remove stale ones, rebuild the directories of CAs and of Vault | the mounted files, which the orchestrator may replace at any time; every later step |
| Vault client (`vault/`) | none; a context that a stop signal ends | AppRole login, read of credentials, each retried | Vault |
| MySQL provisioning (`mysql/`) | the database | connect with retries, create user, database and grants, import the schema and additional scripts | other containers on the same database |
| PostgreSQL provisioning (`postgresql/`) | the database | connect, create database, namespace and extension, import | other containers on the same database |
| SQLite provisioning (`sqlite/`) | one file, which outlives the container | look for a schema, import it in one transaction | nobody |
| SQL splitter (`mysql/sqlscript.go`) | delimiter, current statement, mode | cut a script into statements | the import of MySQL |
| Storage providers (`storageprovider/`) | the environment | decode providers, add their credentials, render them for the server or the frontend, delete the variables | secrets; storage initialization; the service |
| Storage initialization (`storageinit/`, `clickhouse/`, `elasticsearch/`) | ClickHouse tables on every replica; Elasticsearch pipelines, templates, indices | validate all providers, then prepare each with three attempts | other containers, cluster replicas, administrators |
| Retries (`bootstrap/retry.go`, `signals.go`) | attempts, the context | `Retry`, `Stop`, `Wait` | all that talk to a network |
| Configuration files (`config/`, `bootstrap/indexed.go`, `files.go`) | `*.conf` files, which may lie on a volume | merge modules, rewrite indexed parameters, replace rules, set plugin paths | the user, whose lines are in the same files; earlier starts |
| Service start (`cmd/*`, `server/`, `proxy/`) | the environment | the order of all the above | all |
| Hooks (`hooks/`) | none | run `entrypoint.d` in order | scripts of the user |
| Web preparation (`web/`) | includes, links, templates and the PHP configuration | prepare PHP, nginx or Apache | earlier starts of the same container |
| Web stack (`web/stack.go`) | two processes, a results channel, a signals channel, a timer | supervise | php-fpm, the web server, the container engine |
| Deployment (`src/compose*.yaml`, `src/kubernetes.yaml`) | which containers exist | start order, restart policies | all containers |

What is hard in it:

* **Containers that race.** Nodes of one HA cluster start at once on one empty
  database or one ClickHouse. There is no lock: `createSchema` asks whether the
  version table exists and then imports.
* **Crashes between steps.** A statement of the MySQL import commits on its own; a
  kill between two leaves half a schema. Certificates are copied file by file,
  configuration files are written one after the other, and all of it may be found
  by the next start, perhaps under another environment.
* **Answers that are lost or late.** A ClickHouse statement `ON CLUSTER`, or an
  Elasticsearch `PUT`, takes effect after its sender has given up.
* **Looking and acting apart.** Existence of users, databases, tables, engines and
  objects is read with one request and used with another.
* **Waiting without a bound** for a database, with credentials that were read
  once.
* **Scanning in pieces.** A SQL script is read line by line, while literals,
  comments and triggers go on over lines and contain delimiters.
* **Stop signals** at any point of a retry, a pause or the supervision of two
  processes, with a `select` over several ready channels.

What makes each component correct:

* provisioning: one importer at a time, a database that is always a prefix of the
  scripts, no container ready on something unusable, all ready in the end;
* storage initialization: ready means every object on every replica; objects that
  carry others exist first; nothing that exists is replaced;
* retries: exactly the attempts allowed, none after a final answer or after the
  stop signal was seen;
* secrets: a start uses its own secrets only, clears the places it is in charge of
  from what earlier ones have left there, and is not disturbed by leftovers;
* configuration: what runs is what its environment asks for, next to the lines of
  the user, however many starts have failed before; restarts change nothing; a
  start that fails never makes the next one fail; storage providers have all
  their credentials, and the environment has none of them left;
* splitting: the statements sent are the statements written;
* supervision: no process left behind, an honest error, an end.

`PROJECT.json` lists each component with its status and each hazard with the line
where it bites and the properties that cover it.

## The modules

| Module | Models | Proofs |
|---|---|---|
| `SchemaImport` | abstract: what provisioning a shared database promises | |
| `MySQLProvision` | `mysql/schema.go`, `connection.go`, start order of compose | `MySQLProvision_proofs` |
| `PgProvision` | `postgresql/schema.go`, `connection.go` | `PgProvision_proofs` |
| `SqlPieces` | what a SQL script is: its pieces, their text, their meaning, when they are well-formed; and the operators on texts that the splitter uses | |
| `SqlScript` | `mysql/sqlscript.go`, against the meaning of the pieces of a script | `SqlScript_proofs` |
| `Retry` | abstract: what `bootstrap.Retry` promises to its callers, with or without a limit | |
| `ClickHousePrepare` | `clickhouse/schema.go`, `client.go`, `storageinit/prepare.go` | `ClickHousePrepare_proofs` |
| `ElasticPrepare` | `elasticsearch/schema.go`, `client.go`, `storageinit/prepare.go` | `ElasticPrepare_proofs` |
| `SecretFiles` | `bootstrap/secrets.go`, `secret_registry.go`, `provider_secrets.go`, `secret_files.go`, `secret_ca.go`, `rehash_unix.go` | `SecretFiles_proofs` |
| `ConfigFiles` | `config/parameters.go`, `bootstrap/indexed.go`, `files.go`, as operators on files | `ServiceStart_proofs` |
| `StorageProviders` | `storageprovider/`, `web/*_provider.go`, what `storageinit/prepare.go` refuses, as operators on providers | `ServiceStart_proofs` |
| `ServiceStart` | `cmd/server-*`, `proxy-mysql`, `proxy-sqlite3`, `agent`, `agent2`, `mcp-server`, `server/`, `proxy/`, `web/` up to the supervisor, `sqlite/`, `vault/`, the wait in `mysql/connection.go`, over restarts; uses `ConfigFiles` and `StorageProviders` | `ServiceStart_proofs` |
| `Supervise` | `web/stack.go` | `Supervise_proofs` |

`MySQLProvision` and `PgProvision` implement `SchemaImport`; `ClickHousePrepare`,
`ElasticPrepare`, and the Vault requests and the database wait of `ServiceStart`
implement `Retry`, whose `limit` is a variable because one process makes calls with
and without one. The modules `MC...` hold the instances for TLC. `map` in `PROJECT.json` gives the
source lines of every definition.

### MySQLProvision

One action per statement sent to the database. `pc[n]` is the statement container
n is about to run, `found[n]` the answer of its query for the user (used after
others may have acted), `session[n]` whether its connection is alive. The scripts
are the numbers `1..Total`; `applied` is the set of those whose effect is in the
database. The constants say what matters about them: the statement that creates
the version table, the one that inserts its row, the ends of the files, and which
statements may be repeated. The first one may not, which is what makes one
container lose a race: the first statement of `create.sql` is a `CREATE TABLE`. A
crash ends a container between any two statements, before or after it has sent the
next one: a statement that was sent is in `late`, and the server carries it out
whenever it likes (`GoOn`), unless it fails or an outage comes first. An outage ends
all sessions.
`Restartable` and `After` are the restart policies and start order of the compose
files (`src/compose.yaml` 83-99, `src/compose_zabbix_components.yaml` 163-205).

A database is found empty, created by the MySQL image or by hand (user, database,
grants), or complete from an earlier deployment. When the container manages no
user (`CreateUser = FALSE`) and dies between `CREATE DATABASE` and its `GRANT`,
the grants stay missing: the next run finds the database and skips them, and
`ensureUser`, which repeats them otherwise, does nothing.
`ReadyUsable` therefore claims grants for `CreateUser` only. A
second `compose up` starts the one-shot initialization again; that is outside the
model, in which it runs once.

### SqlPieces and SqlScript

What `MySQLProvision` takes as given: that a script is the sequence of statements
somebody wrote. `write` works on one line and has no look at the next one. `SqlScript` has
one action per branch of it, over classes of characters ("a" for any one without a
meaning, "D" for the word DELIMITER).

A script is given as pieces: a character of a statement, a literal, a comment (kept,
dropped, or up to the end of the line), the end of a statement, a change of the
delimiter, and a literal or comment that breaks off (`openLiteral`, `openComment`).
`Reading` puts their texts together and, with no scanning, says which statements they
make; `Meaning` is what the database should get. A piece is `WellFormed` when it is what
it is called: a literal has characters, escaped ones and doubled quotes up to its end,
nothing begins at a character, the delimiter stands only where a statement ends, and
where no statement has begun a line that reads like a change of the delimiter is one.
`ScriptsAssumption` asks this of the constant `Scripts`, and TLC evaluates it.

### PgProvision

The same over PostgreSQL, where a file is one query. A step is a transaction: a
file of the repository may hold its own `BEGIN`/`COMMIT`, so the constants say
which transaction ends the schema file and which holds the version row
(`SchemaEnd`, `VersionAt`). Unlike with MySQL a first transaction that is cut off
leaves nothing behind, so the race can start over. `Extension` are the
transactions sent over the administrative session (`CREATE EXTENSION
timescaledb`), `FileStarts` those that open a new one.

A query outlives its sender: what a container had sent when it was killed stays in
`late` with the transaction it has got to, and the server goes on with it, transaction by
transaction to the end of the file (`GoOn`, `EndsQuery`). It may also notice, as it
does when it has something to tell, that nobody is there, and end between two
transactions (`Notice`). The files behind that one are never sent. So the importer is a
container or the server, and an import is `Unfinished` only when neither is at it. An
error or an outage ends the query at once.

`Connect` tries the database of the user's name, then that of Zabbix, and waits while
neither is there (`postgresql/connection.go:157`): whether the first one accepts the user
is `userDatabase`, chosen at the start. Several endpoints with
`target_session_attrs=read-write` and TLS are left out.

### ClickHousePrepare

One action per request. `objects[r]` is what exists on replica r; a statement `ON
CLUSTER` becomes one task for every replica (`tasks`), carried out whenever the
replica likes, also after the request has failed or timed out, and its answer may
come before all replicas have acted. A container looks at the cluster, then at the
engines of existing tables, then for each object counts the replicas that have it,
creates it, and counts again. A killed container is a request that fails: it keeps
nothing. The cluster does not grow while a schema is prepared; a cluster without
nodes is refused by the code before anything happens and is not an instance.

### ElasticPrepare

One action per request; a `PUT` that was sent is carried out by an action of its
own (`Apply`), also when its sender has stopped waiting. `stored[o]` is the author
of the definition of o. An administrator may define objects at any time. Where the
creation and the second look both fail, the first network error of the two decides
whether the attempt is repeated; only errors of dialling are. Identical `PUT`s of
one container that are under way together are one. Objects are never deleted. A
provider with `create` off only looks: it fails, and its container is started again,
until somebody else has created what is missing.

### SecretFiles

One start after another on one internal directory, each with any of
`Configurations`. The content of a file is the version of the operator's
configuration it was made from, so that an old file is one with an old version;
mounted files may be updated during a start. The actions follow `ResolveSecrets`:
the clean-up of providers, every secret of the plan in its order, the shared
directory, the Vault directory, the directories of CAs. Writing a file is two
steps (temporary file, rename) and a rebuilt directory is one step for each removal,
one for each copy, and for a directory of CAs one more for the links `openssl rehash`
makes (`Rehash`), with a kill or an error between any two.

The component is the server, with one file of each kind (certificate and key of
Vault are two files of one kind; a rotation between the two copies can separate
them, which no code here could notice). "credential" stands for the secrets that are
values. A variable that is set to nothing ("empty") is no secret (`Given`), but makes
its provider one of the plan (`Named`); the plan is empty only for a command of the
history providers without any.

What an earlier start has left is gone from the places a start is in charge of
(`InCharge`): the managed files of the secrets of its plan and of all providers of its
families, and the directories it removes or rebuilds. `OldFilesGone` says so, with the
exception the code makes: a switch from an inline secret to a mounted file leaves the
managed file where it is, unused (`Mounted`). It says nothing about the files of another
command, and nothing about temporary files that a SIGKILL leaves beside a managed file:
both stay on the disk.

The compose files give the directory a tmpfs of the container, which starts empty;
without it (the image alone, restarted), or on a named volume or an `emptyDir` of
a pod, a start finds what the one before has left.

### ConfigFiles, StorageProviders and ServiceStart

A file is a sequence of lines; a line is a setting of a parameter, the same
commented out, a setting behind blanks, other text or blank. `ConfigFiles` has the
functions of `config/parameters.go`: `MergeParameterValues`, `SetParameter`,
`UpdateIndexedParameter`, `ReplaceAtEnd` over `Rewrite`, and the collection of
indexed variables (`Collectable`, `Collected`) with gaps, duplicates, empty values
and suffixes that are no number. Values are numbers: i stands for the reference
`${PREFIX_i}`, numbers from 50 on for literals.

`StorageProviders` has what becomes of a provider: its JSON object and the variables
with its credentials are decoded into one set of options (`Decodable`, `Decoded`),
which are rendered for the server (`Rendered`: a path is split into location and
name, the types of history become `value_types`) or put into the list of the frontend
(`WebList`, from the indexed providers or from the list: `Sources`), and the variables
are deleted. `NativeIntended` and `WebIntended` say what the service should find, option
by option and not by way of the functions above. JSON itself, quotes and option names are
syntax and left out; a value or a path is accepted or not.

`ServiceStart` runs all these in the order of each program (`ServerSteps`,
`ProxySteps`, `SqliteSteps`, `NginxSteps`, `ApacheSteps`, `AgentSteps`,
`Agent2Steps`, `McpSteps`), behind Vault (`stage`, `calls`) and the wait for the
database (`stage = "connect"`), which has no limit. `Rotate` replaces the credentials
after they have been read: the container then waits with the old ones
(`mysql/connection.go:141`), and only a new start reads others; a server or proxy that
has administrative credentials of its own ("admin" in `features`) waits with these, and
goes on (`WaitsWithVault`; `mysql/database.go:106`, `postgresql/database.go:95`). An
attempt that cannot configure its connection to PostgreSQL ends the wait (`Refused`;
`postgresql/connection.go:182`). `Redeploy` replaces the environment and keeps the files
or takes those of the new image; `base` remembers the files a deployment has
found. Files are written by renaming a complete copy, one step; the tool access
file of the MCP server is truncated, filled from its template, then replaced:
three steps. The includes of nginx are emptied before they may be filled, links are
removed before they are made again, each in a step of its own. Placeholders of
templates and unwanted lines of Apache are replaced once and for all: with kept
files another setting has no effect later, which is what `base` is for. The SQLite
database is one more file; its transaction is a copy that replaces it at the commit
and is lost with the process. Databases and storage schemas are prepared, and hooks
run, with success or failure; the first two have modules of their own.

A kill during a Vault request looks like an answer that is final; it is left out
of pauses, where it changes nothing. Left out as well: the HA node name, the
clean-up of the environment at the end, the server lists and feature switches (all changes of
the environment only), the plugin file for NVIDIA (one more `set`), CyberArk (one
request instead of two), the settings of PHP that only become variables. What
decides about the files of a web server is the set `features` (its user, sources of
links, certificates, IPv6, the real-IP settings).

The assumptions are about the environments and images a container can be given:
deployments of one program have the same file names (`ScopeAssumption`); files are
sequences of lines over the constant `Names`, there is one for every step that writes,
and the variables are finitely many (`DeploymentAssumption`); a variable is that of one
provider, holds a JSON object or none, and its credentials are of the kinds in
`provider_secrets.go` (`ProviderAssumption`, `WellFormed`). TLC evaluates them on the
instance, where `Names` is the set of all strings.

### Supervise

`pc` is where `supervise` is; `child[i]` goes from process to goroutine to result
to collected. Processes exit by themselves, obey SIGTERM or ignore it; results
arrive in any order; the `select` statements take any ready channel. `N` is 2 in
the code; the instance has 3 to have a child that is neither first nor last.

## The runs

One run of a module checks its type invariant `TypeOK` besides the properties named
here; that of `ClickHousePrepare` is proved and not run. Every property has a mutant in `PROJECT.json`: a small
change of one mapped definition, like one a programmer might make, under which it
fails.

| Run | Instance | Distinct states | What it shows |
|---|---|---|---|
| `mysql_race` | 3 servers with a restart policy, 4 statements in 2 files, the version table at 2 and its row at 3, the last statement repeatable, 2 faults, fair | 1,109,867 | `ReadyUsable`, `StrandedForever`, `ImplementsImport`, `EventuallyReady` |
| `mysql_compose` | one-shot init container before 2 servers | 9,728 | `GatedReadyImported` |
| `mysql_comment` | 2 servers | violation | `ReadyImported` fails, see [findings](#findings) |
| `sql_script` | every well-formed script of up to 3 of about 40 parts (words of single characters, literals, comments, ends, changes, what breaks off), and of up to 5 around a trigger | 468,828 | `SplitAsWritten` |
| `postgres` | 3 servers, 4 transactions (2 of the schema, the extension, one more file), a namespace, with and without a database of the user, 2 faults, fair | 463,653 | `ReadySchema`, `UnfinishedForever`, `EventuallyReady`, `ImplementsImport` |
| `clickhouse_cluster` | 2 containers, 2 replicas, 1 table, 2 attempts, 2 faults, symmetric | 1,516,940 | `ReadyEverywhere`, `LocalFirst`, `NoUnusedLocal`, `ImplementsRetry` |
| `clickhouse_live` | one container creates, the other one checks; 1 fault, fair | 304,390 | `EventuallyPrepared` |
| `clickhouse_engines` | one container with, one without the cluster name, no fault | violation | `ClusterTablesDistributed` fails |
| `elasticsearch` | a server that creates for two providers (daily and plain), a proxy that races for the first and only checks the second, 2 attempts, 2 faults, fair | 403,027 | `ReadyComplete`, `DefinitionsKept`, `PipelineFirst`, `ImplementsRetry`, `EventuallyPrepared` |
| `secret_files` | 2 starts, 1 update of mounted files, 148 configurations, one provider of each family | 325,992 | `NothingOld`, `ExactDirectories`, `OldFilesGone`, `LeftoversHarmless` |
| `service_start` | 61 deployments of 8 programs, 3 attempts, 3 faults, 2 changes of the environment, fair | 1,066,450 | `Configured`, `Stable`, `ImplementsRetry`, `EventuallyRunning` |
| `supervise` | 3 children, fair | 27,770 | `NoOrphan`, `EveryoneAsked`, `NotSelfInflicted`, `GraceBeforeKill`, `Stops` |

Why the bounds are enough:

* Two containers race in all pairs of steps; three are used where the third one
  may arrive after the first two have met (one imports, one has failed, one
  joins). Symmetry is used with safety only.
* The scripts have a statement before, at and behind each one that matters: before
  the version table, the table, the row, and one more file; `mysql_compose` and
  `mysql_comment` also have one between the row and the end of the schema, and
  `postgres` a file of two transactions. The proofs remove this bound.
* Three parts of a script are a context, what stands in it, and what follows; what
  the splitter remembers between pieces is the delimiter, a mode and whether a
  statement has begun. The proof removes this bound. A trigger needs five: the change of the delimiter, two
  statements, the end, the change back.
* Two faults are needed for the longest stories: a cut-off import (one) and an
  outage for the container that meets it (two). The counters `faults`, `deploys`,
  `starts`, `version` and the number of attempts are the only things bounded by
  the models, each by a constant named `Max...` or `Attempts`.
* With one table a cluster has four objects of a plan (database, local,
  Distributed, and the plain table that stands in the way). More tables repeat the
  two steps. `Attempts` is 2 for the databases: a first, and a last one. It is 3,
  as in the code, for Vault.
* A third start of `SecretFiles` would meet leftovers of two different
  configurations at once; kinds of files do not touch each other's places, and for
  one kind two starts give every content. It is too large for the instance.
* The deployments of `ServiceStart` contain every kind of step with files that
  have no such parameter, an example of it, settings of the user, settings behind
  blanks and blank lines at the end; and environments with and without variables,
  with gaps, with two variables of one number, without a number and with an empty
  value. Databases are new, of an older version, or damaged in the two ways the code
  tells apart. Providers come indexed, as a list and in the native syntax, with
  credentials in JSON, in variables and as files, that agree, compete or are refused.
  Two changes of the environment are a removal after an addition.

Deadlock is checked in `supervise`, whose last state stutters. Elsewhere the
system may really stop: a one-shot container has ended, services run with all
faults used up.

## Fairness

Weak fairness of single processes, and of things that the properties themselves
must assume:

* `MySQLProvision`: `DatabaseUp`, the statements of dead containers, and per container
  `Start`, `Prepare` or `Restart`. Containers are scheduled; the restart policy starts
  them again (only those in `Restartable`); the liveness claims are about databases that
  come back and execute what they were sent.
* `PgProvision`: the same, with `Prepare` and `Restart` apart; a query of a dead
  container goes on or is ended. `EventuallyReady` has two premises: some database
  accepts the user, and no import ends before the version row.
* `ClickHousePrepare`: `Container`, `ReplicaUp`, and `Execute` for each task: the
  distributed DDL queue of ClickHouse retries until it is carried out.
* `ElasticPrepare`: `Up`, `Container`, and `Apply` for each request that was
  accepted.
* `ServiceStart`: `Container`, everything the container, its runtime and the services
  it asks do without being disturbed: the entrypoint is one thread, an attempt has a
  timeout, a pause a timer, and an ended entrypoint is started again by the restart
  policy. Kills, signals, rotations and failing operations are not part of it.
* `Supervise`: the supervisor, the goroutines that report, and the death of a
  killed process (SIGKILL cannot be ignored). Nothing is assumed of `Exit`:
  children need neither exit nor obey SIGTERM.

Faults are never fair and their number is bounded, so that a liveness property
says: after the last fault. `EventuallyRunning` makes two exceptions, both of which
are in the code: an environment or a database that somebody has to repair first
(`Acceptable`), and a container whose credentials were replaced in Vault while it
waits for the database with them (`OutOfDate`), which nothing ends but a restart. `SecretFiles` and
`SqlScript` have safety only.

## The proofs

Eight modules, checked by TLAPS for all values of the constants that satisfy the
named assumptions (`ScriptAssumption`, `ContainerAssumption`, `ScopeAssumption`,
`NAssumption`, `ConfigurationAssumption`, `DeploymentAssumption`, `ProviderAssumption`,
`ScriptsAssumption`).

**MySQLProvision** (`TypeCorrect`, `SingleImporter`, `PrefixAlways`,
`ReadyContainersUsable`, `StrandedStays`, `GatedImportWhole`,
`ProvisionImplementsImport`). For any number of containers, any script, any start order. `OneImporter` is not inductive:
why can a second container not pass the first statement? Because of what is in the
database. The invariant is

    TypeOK /\ NextFresh        a run decides to import with statement 1
           /\ PrefixApplied    the database holds 1..k
           /\ ImporterAtFront  whoever is past 1 stands right behind k
           /\ OneImporter
           /\ UserSeen /\ DatabaseSeen   what each phase has established

A container past statement 1, or the server with such a statement of a dead one, stands
at the front; another one can only be at statement 1, which fails because it is applied.
Every step is shown to be `Quiet`
(nothing applied) or the `Effect` of one container, and the lemmas are about these
two instead of twenty actions. The assumption it rests on is that the first
statement cannot be repeated (`Repeatable \subseteq 2..Total`).

`GatedImportWhole` is about the start order: a container i that is not restarted and
that all others wait for, which is what the compose file has. Nobody but i is then
ever past the version row without the rest (`Gate(i)`): while i has not succeeded no
other one has started, and i itself meets a database whose version row is there only
with everything else, or it ends.

**SqlScript** (`SqlTypes`, `SplitsAsWritten`): every well-formed script, however long, is
split into the statements its pieces make, and one that breaks off in a literal or a
comment is refused. `SplitAsWritten` is about the end; the invariant `SInv` says where the
splitter stands on the way there (`SqlPosition`):

    TypeOK /\ the script is well-formed /\ no space in the delimiter
           /\ while it runs, for some n and p (Position)
                Understood(n)   delimiter and statements are those before piece n + 1
                At(p)           line and rest are the text behind the p-th character
                Lines(p)        only the last character of a line may be a newline
                and either      p is where piece n + 1 starts, in code, with the
                  InFront(n)    statement so far; no command if its line has been read
                or              p is behind the j-th character of that piece, with its
                  Within(n, j)  mode and the part of it that is kept
           /\ SplitAsWritten

Each action takes p on by one, by two or by the delimiter, and n on when the piece ends.
Inside of a literal `Within` holds a path from here to its end, over characters, escaped
ones and doubled quotes (`Path`): the splitter takes the same one, since no two of them
begin alike. That it sees no further than its line does no harm: nothing it looks for has
a newline before its last character (`AheadIs`), so that seeing it in the line and seeing
it in the text are the same (`BeginsSeen`), and well-formed pieces then begin as what they
are (`BeginsIs`). A change of the delimiter is the whole of its line, and no other line
is taken for one (`ChangeSeen`). The texts of the pieces are put together by a recursive
function; what is needed of it is its value for n + 1 from that for n (`ReadingIs`), which
is shown by induction over the numbers. The splitter sees the text only, so that two
well-formed scripts with the same text have the same statements: what a text means does
not depend on how it is put together.

**PgProvision** (`TypeCorrect`, `ReadyMeansSchema`, `SingleImporter`,
`UnfinishedStays`, `PrepareImplementsImport`). The same argument over
transactions: `TypeOK`, `NextFresh`, `PrefixApplied`, `OneImporter`, what has been
`Established`, the namespace, and `ReadySchema`. The first transaction holds the
version table. `OneImporter` counts the server with the query of a dead container as an
importer, which is what `UnfinishedStays` needs: only when neither a container nor the
server is past the first transaction is there nobody left to apply another one.

**ClickHousePrepare** (`TypeCorrect`, `ReadyMeansEverywhere`, `LocalTablesFirst`,
`NothingConverted`, `PrepareImplementsRetry`). Objects are never dropped, so what a container has
counted stays true: `Known(n)` says that the steps behind n are done on every
replica it sees, `LocalBehind` that a pending task for a Distributed table has its
local tables everywhere. The counts are over the finite set `Replicas`: a count
equal to the number of replicas means all of them, by the theorems about
cardinality. `NothingConverted` has the hypothesis `Clustered = Nodes`: then nobody
creates a plain table, so that the one that has passed the check of the engines
cannot come to be wrong (`Converting`). The run `clickhouse_engines` shows that the
hypothesis is needed.

**ElasticPrepare** (`TypeCorrect`, `ReadyMeansComplete`, `DefinitionsStay`,
`PipelinesFirst`, `PrepareImplementsRetry`). `Known(c)` as above, over the
providers and their objects; `PipelineSent` says that a creation under way,
perhaps of a container that has died, has the pipeline of its object.

**SecretFiles** (`Invariant`, `TypeCorrect`, `OnlyNewFiles`, `DirectoriesExact`,
`OldFilesReplaced`, `OutcomeOfConfiguration`), for any number of starts and updates of
mounted files, any configurations and any providers. The properties are about the
last state of a start; the invariant says how far it has come. `Built(T, F)` is
about a directory T that is rebuilt to hold the files F: what is in it belongs to F
or is still to be removed, what is still to be copied belongs to F, and each file of F
is still to be copied or of this start. `Progress` says of each command what the
steps behind it have left (the secrets resolved, those withdrawn removed, the Vault
directory and those of the CAs built, nothing unfinished), `Judged` that only a
configuration that cannot be carried out is refused. That is why leftovers do no
harm: each place is either rebuilt from nothing, or written or removed before it is
used, and no step between reads it.

**Supervise** (`TypeCorrect`, `NoOrphanEver`, `CountExact`, `StatusHonest`,
`AllAsked`, `KillIsGraceful`), for any number of children. The heart is `RemainingExact`:
`remaining` is the number of results still to come, which needs to know what has
not happened yet in each phase (`StartPhase`), that the first child to exit is
done with (`FirstDone`), and who was asked (`EveryoneAsked`, `KillsAsked`).

**ConfigFiles and StorageProviders**, in the first part of `ServiceStart_proofs` (`RewriteReplaces`, `RewriteMerges`, `ReplaceAtEndIs`,
`ServerFindsProviders`, `FrontendFindsProviders`): what the functions of `ConfigFiles` do
to every file, and those of `StorageProviders` to every environment they accept. A
rewrite leaves the values that were given and no others, keeps the lines of the user in
their order, and changes nothing when it is done once more. The heart is `Only`, the
elements of a sequence that are in a set: it goes through concatenations and cuts
(`OnlyConcat`, `SequenceCut`), and `InsertIs` and `TrimmedIs` say where a rewrite cuts.
An induction over sequences is one over a set of them that has the empty one and with
each sequence its continuations (`SequenceInduction`, from the well-foundedness of the
numbers): a theorem of the library that takes a property cannot be used. For the server
it is shown that what a provider was given is decoded (`DecodedWanted`) and that what was
split is joined to the same (`RenderedUnderstood`); for the frontend, that the numbers of
providers have no gaps, so that they are all read and in their order
(`IndexedInOrder`), and that leaving some out keeps the order of the rest
(`OnlyInOrder`).

**ServiceStart** (`TypeCorrect`, `StartImplementsRetry`, `StartedAnew`, `StableFiles`,
`ConfiguredAnew`), for any deployments, files, environments, and any numbers of attempts,
faults and changes. `TypeOK` is inductive; it holds that a pause is followed
by an attempt, which the refinement needs, or is one of the wait without a limit.
The two requests to Vault and the wait are three calls of `Retry` by one process,
one after the other, with a context of its own for the last one.

`Configured` and `Stable` speak of a container that runs, and are not inductive: a file
may be as old as the deployment, or left by any earlier start. `StartInv` says for
each file what every start, complete or not, keeps true of it, in terms of the deployment
d, the files b it has found, the files f as they are, and the number n of steps behind
this start:

    TypeOK /\ FilesTyped
           /\ Checked           the steps behind it were valid
           /\ Progress(d, b, f, n)
                Solos           a file with one step: as found, or as that step makes
                                it; the latter when the step is behind
                Includes        emptied and filled again
                Symlinks        removed, made, withdrawn
                Removals        lines removed, the more the further
                ToolAccess      restored from the template, then replaced
                SchemaState     the database has all of the schema or none of it,
                                the transaction a prefix

The steps of a program are in tables (`ServerTable`, ...), from which the lemmas take
that no two steps of the first kind share a file (`Alone`). A start that begins anew keeps
`Progress` because its statement for n = 0 is the weakest (`ProgressStart`); that a step
done twice does the same as once is what the theorems about `ConfigFiles` say. At the end
n is the number of steps, and `Progress` is `Configured` for the files
(`FilesIntended`); for the providers `Checked` and the theorems about `StorageProviders`
give it (`ProvidersIntended`).

`OneImporter` of both databases, `PrefixApplied` of MySQL, the `TypeOK` of ClickHouse
and `RemainingExact` are proved and not run: `ImplementsImport`, and `Stops` with
`NoOrphan`, fail with them.

Only model-checked:

* liveness (`EventuallyReady`, `EventuallyPrepared`, `EventuallyRunning`, `Stops`),
  which TLAPS does not do;
* `ScopeAssumption` and the others for the deployments of the instance, and the
  properties of `mysql_comment` and `clickhouse_engines`, which do not hold.

## Findings

Two comments promise more than the code does.

* `mysql_comment`: `mysql/schema.go:118` says that `Prepare` "imports the schema
  together with the additional dbscripts". It returns as soon as the version row
  is there (`mysql/schema.go:103`), which is before the end of the import: a
  server that starts beside an importing one, or after one that died behind the
  row, runs on part of the schema. Behind the gate of the compose file this does
  not happen (`GatedReadyImported`). In `src/kubernetes.yaml` 462-467 the gate is
  an init container, which is restarted after a kill; its second run finds the
  row, and the gate opens. PostgreSQL commits the row with the schema file, so
  there, once the server is through with that file, only TimescaleDB and the additional
  scripts can be lost
  (`UnfinishedForever`; the comment at `postgresql/schema.go:123-125` is of the
  same kind).
* `clickhouse_engines`: `clickhouse/schema.go:89` says that cluster tables "must
  use the Distributed engine". The engines are looked at once; a table another
  container, configured without the cluster name, creates after that is only
  counted (`clickhouse/schema.go:176`), and the cluster is accepted.

## What is not modelled

* Connection settings, TLS files and endpoints of the databases (`mysql/database.go`,
  `tls.go`), and the options of the storage clients: functions from the environment
  to a connection. The models take their outcome as constants.
* Syntax: JSON and its single quotes, quoting of options, URLs, DDL and index texts,
  the wording of includes and templates, time zones and other settings that are
  passed on as they are.
* The clean-up of the environment before `exec` (`bootstrap/environment.go`): a filter
  by prefixes without a state. That of storage providers is in `StorageProviders`.
* Entrypoints without a state of their own (web service, bridge adapter, Java
  gateway, SNMP traps), the trap handler script, the health check.
* Windows variants, image builds, certificate and SBOM scripts.
* Hooks and database servers are what they do to the rest: a hook may do anything;
  here it ends well or not and does not edit the files. The transactions of
  PostgreSQL and SQLite are atomic.
* Files that go wrong in themselves: a disk that loses a renamed file, users that
  edit files while an entrypoint runs, several containers on one configuration volume
  or one SQLite file.
* The growth of a ClickHouse cluster.
* Pipelines of Elasticsearch are created with a `PUT` that replaces, so one that
  somebody else has defined between the look and the `PUT` is lost.
  `DefinitionsKept` is about indices and templates, which Elasticsearch is asked
  not to replace. A legacy template that somebody makes between the look and the `PUT` is
  not replaced but shadowed by the composable one; no property speaks of that.
* What configuration files keep on a volume when a variable goes: references of indexed
  parameters to it (`config/parameters.go:53`) and modules merged earlier. The code takes
  them for lines of the user, and `Configured` states it so.
* A certificate of Vault and its key that come from two rotations.

## The plan

Done, in this order: MySQL provisioning with its abstract import; the supervisor;
retries and ClickHouse; secrets; PostgreSQL; Elasticsearch; configuration files
and the start of services; the SQL splitter; the web servers, SQLite, the wait for
the database and the rotation of credentials; storage providers.

All safety properties of the runs are proved. Next, most important first:

1. Elasticsearch: the pipeline that is replaced, as a question of its own.
2. `SecretFiles` with the plans of the other images.
3. Where `MySQLProvision` meets `SqlScript`: scripts of the repository as constants that
   are read off pieces.
