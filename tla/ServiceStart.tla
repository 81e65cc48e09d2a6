---------------------------- MODULE ServiceStart ----------------------------
(***************************************************************************)
(* The start of a Zabbix container, from its entrypoint to the service,    *)
(* over and over: the credentials from Vault, the database, the            *)
(* configuration files one after the other, the hooks, the service.  Any   *)
(* step can fail and the container can be killed between any two; what has *)
(* been written to the configuration files stays for the next start.       *)
(*                                                                         *)
(* Code modelled: cmd/server-mysql, proxy-mysql, proxy-sqlite3, agent,     *)
(* agent2 and mcp-server (main.go), internal/server/server.go,             *)
(* internal/proxy/proxy.go, internal/web (web.go, php.go, nginx.go,        *)
(* apache.go), internal/sqlite/sqlite.go, internal/config                  *)
(* (item_key_rules.go, tool_access_rules.go), internal/vault/vault.go, the *)
(* wait for the database in internal/mysql and postgresql (connection.go), *)
(* internal/hooks/hooks.go and the configuration of storage providers in   *)
(* internal/storageprovider and storageinit.                               *)
(*                                                                         *)
(* A file is replaced as a whole by a rename, so writing it is one step;   *)
(* one that is rewritten in place is emptied in a step of its own.  The    *)
(* database is prepared as in MySQLProvision and PgProvision, the storage  *)
(* providers as in ClickHousePrepare and ElasticPrepare; here these either *)
(* succeed or fail.                                                        *)
(***************************************************************************)
EXTENDS StorageProviders

CONSTANTS
  Names,        \* of parameters, files and statements
  Deployments,  \* images with their environment and their shipped files
  Attempts,     \* attempts of a request to Vault; the code makes 3
  MaxFaults,    \* bound on kills, signals and failures from outside
  MaxDeploys    \* bound on the changes of the environment

(***************************************************************************)
(* A deployment:                                                           *)
(*   program    one of Programs                                            *)
(*   shipped    the configuration files of the image, by name              *)
(*   variables  indexed variables, as in ConfigFiles                       *)
(*   modules    ZBX_LOADMODULE: the items of the list                      *)
(*   given      ZBX_LOADMODULE is not empty                                *)
(*   vault      how the database credentials are found: "none" without     *)
(*              Vault, "token" or "approle"                                *)
(*   providers  the storage providers in the environment, as in            *)
(*              StorageProviders; a variable without one has the native    *)
(*              syntax, except on the web                                  *)
(*   faulty     parameters whose value is not valid                        *)
(*   features   what else decides about the files of a web server: "root"  *)
(*              is its user; "http" and "https", the sources of its links, *)
(*              "certs" and "ipv6" are there; "real_ip" and                *)
(*              "real_ip_header" are set.  And "admin" of a server or      *)
(*              proxy: it prepares the database with credentials of its    *)
(*              own, which are not those in Vault                          *)
(*   setting    the value of its settings                                  *)
(***************************************************************************)
Programs ==
  {"server", "proxy", "sqlite", "agent", "agent2", "mcp", "nginx", "apache"}

KeyRules == {"AllowKey", "DenyKey", "AllowKeyRegexp", "DenyKeyRegexp"}
ToolRules == {"AllowTool", "DenyTool", "AllowToolRegexp", "DenyToolRegexp"}

Step(op, file, params) == [op |-> op, file |-> file, params |-> params]

\* What each program does to its configuration, in order.
ServerSteps ==
  <<Step("merge", "modules", {"LoadModule"}),
    Step("providers", "", {"HistoryProvider"}),
    Step("providers", "", {"TelemetryProvider"}),
    Step("indexed", "history_storage", {"HistoryProvider"}),
    Step("indexed", "telemetry", {"TelemetryProvider"}),
    Step("hooks", "", {})>>

ProxySteps ==
  <<Step("merge", "modules", {"LoadModule"}),
    Step("providers", "", {"TelemetryProvider"}),
    Step("indexed", "telemetry", {"TelemetryProvider"}),
    Step("hooks", "", {})>>

AgentSteps ==
  <<Step("rules", "item_keys", KeyRules),
    Step("indexed", "aliases", {"Alias"}),
    Step("indexed", "user_parameters", {"UserParameter"}),
    Step("merge", "modules", {"LoadModule"}),
    Step("hooks", "", {})>>

\* The agent sets one more path, in the same way, where the NVIDIA tools are
\* installed.
Agent2Steps ==
  <<Step("rules", "item_keys", KeyRules),
    Step("indexed", "aliases", {"Alias"}),
    Step("indexed", "user_parameters", {"UserParameter"}),
    Step("set", "mongodb", {"Plugins.MongoDB.System.Path"}),
    Step("set", "postgresql", {"Plugins.PostgreSQL.System.Path"}),
    Step("set", "mssql", {"Plugins.MSSQL.System.Path"}),
    Step("set", "ember", {"Plugins.EmberPlus.System.Path"}),
    Step("hooks", "", {})>>

McpSteps ==
  <<Step("open", "tool_access", ToolRules),
    Step("restore", "tool_access", ToolRules),
    Step("replace", "tool_access", ToolRules)>>

\* Bug: each statement of the schema is committed on its own.
SqliteSteps_autocommit ==
  <<Step("execute", "db", {"hosts"}), Step("execute", "db", {"dbversion"}),
    Step("execute", "db", {"mandatory"}), Step("execute", "db", {"items"}),
    Step("merge", "modules", {"LoadModule"}),
    Step("providers", "", {"TelemetryProvider"}),
    Step("indexed", "telemetry", {"TelemetryProvider"}),
    Step("hooks", "", {})>>

\* The transaction that creates the schema works on a copy of the database,
\* which is lost with the process; the rest is that of every proxy.
SqliteSteps ==
  <<Step("begin", "transaction", {}),
    Step("execute", "transaction", {"hosts"}), Step("execute", "transaction", {"dbversion"}),
    Step("execute", "transaction", {"mandatory"}), Step("execute", "transaction", {"items"}),
    Step("commit", "db", {}),
    Step("merge", "modules", {"LoadModule"}),
    Step("providers", "", {"TelemetryProvider"}),
    Step("indexed", "telemetry", {"TelemetryProvider"}),
    Step("hooks", "", {})>>

\* A file of includes is emptied before it may be filled; a link is removed
\* before it is made anew, or when the certificates are gone.
NginxSteps ==
  <<Step("providers", "", {"HistoryProvider"}),
    Step("providers", "", {"TelemetryProvider"}),
    Step("append", "php", {"root"}),
    Step("open", "access_log", {}), Step("open", "user", {}),
    Step("open", "real_ip", {}), Step("open", "listen_ipv6", {}),
    Step("open", "listen_ipv6_ssl", {}),
    Step("fill", "user", {"root"}),
    Step("unlink", "http", {"http"}), Step("link", "http", {"http"}),
    Step("fill", "listen_ipv6", {"http", "ipv6"}),
    Step("unlink", "https", {"certs", "https"}),
    Step("link", "https", {"certs", "https"}),
    Step("fill", "listen_ipv6_ssl", {"certs", "https", "ipv6"}),
    Step("withdraw", "https", {"certs"}),
    Step("replace_in", "server_common", {"FCGI_READ_TIMEOUT", "HTTP_INDEX_FILE"}),
    Step("replace_in", "nginx_conf", {"EXPOSE_WEB_SERVER_INFO"}),
    Step("fill", "access_log", {}),
    Step("fill", "real_ip", {"real_ip"}),
    Step("hooks", "", {})>>

ApacheSteps ==
  <<Step("providers", "", {"HistoryProvider"}),
    Step("providers", "", {"TelemetryProvider"}),
    Step("append", "php", {"root"}),
    Step("unlink", "http", {"http"}), Step("link", "http", {"http"}),
    Step("unlink", "https", {"certs", "https"}),
    Step("link", "https", {"certs", "https"}),
    Step("withdraw", "https", {"certs"}),
    Step("remove_lines", "server_common", {"real_ip"}),
    Step("remove_lines", "server_common", {"real_ip_header"}),
    Step("hooks", "", {})>>

Steps(program) ==
  CASE program = "server" -> ServerSteps
    [] program = "proxy"  -> ProxySteps
    [] program = "sqlite" -> SqliteSteps
    [] program = "nginx"  -> NginxSteps
    [] program = "apache" -> ApacheSteps
    [] program = "agent"  -> AgentSteps
    [] program = "agent2" -> Agent2Steps
    [] program = "mcp"    -> McpSteps

\* The value "set" gives to a parameter: the path of the plugin's executable.
PluginPath == 100

\* What "append" and "fill" write.
Line(file) == <<"text", file, 101>>

\* The statements of the schema: tables and the row with the version.
Statement(name) == <<"text", name, 102>>
VersionTable == Statement("dbversion")
VersionRow == Statement("mandatory")
Schema == <<Statement("hosts"), VersionTable, VersionRow, Statement("items")>>

ASSUME ScopeAssumption ==
  /\ \A d \in Deployments : d.program \in Programs
  /\ \A d, e \in Deployments :
       d.program = e.program => DOMAIN d.shipped = DOMAIN e.shipped
  /\ Attempts \in Nat \ {0}
  /\ MaxFaults \in Nat
  /\ MaxDeploys \in Nat

\* The files are sequences of lines, one for every step that writes, and the
\* environment has finitely many variables.
ASSUME DeploymentAssumption ==
  /\ "" \in Names
  /\ \A p \in Programs : \A i \in DOMAIN Steps(p) :
       Steps(p)[i].file \in Names /\ Steps(p)[i].params \subseteq Names
  /\ \A d \in Deployments :
       /\ \A f \in DOMAIN d.shipped : d.shipped[f] \in Seq(Lines(Names))
       /\ \A i \in DOMAIN Steps(d.program) :
            Steps(d.program)[i].file \in DOMAIN d.shipped \cup {""}
       /\ d.program = "mcp" => "template" \in DOMAIN d.shipped
       /\ IsFiniteSet(d.variables) /\ d.variables \subseteq Names \X Int \X BOOLEAN
       /\ d.modules \in Seq(Int)
       /\ d.setting \in Int

\* A variable is that of one provider.
ASSUME ProviderAssumption ==
  \A d \in Deployments :
    /\ \A p \in d.providers : WellFormed(p, Names)
    /\ \A p, q \in d.providers : p.param = q.param /\ p.index = q.index => p = q

UsesDatabase(program) == program \in {"server", "proxy", "nginx", "apache"}
PreparesDatabase(program) == program \in {"server", "proxy"}

\* The session the container waits for is one with the credentials in Vault.
WaitsWithVault(d) == d.vault # "none" /\ ~(PreparesDatabase(d.program) /\ "admin" \in d.features)

OnlyParam(step) == CHOOSE p \in step.params : TRUE

VARIABLES
  deployed,   \* the deployment
  base,       \* the files at the time of the deployment
  files,      \* the files, by name
  phase,      \* where the container is
  step,       \* its step of the configuration
  stage,      \* what is tried: "login" to or "read" from Vault, or "connect"
  calls,      \* attempts begun for this request
  cancelled,  \* a stop signal has ended the context of the requests
  result,     \* how the last request has ended
  stale,      \* the credentials have changed since they were read
  faults,     \* kills, signals and failures from outside so far
  deploys     \* changes of the deployment so far

request == <<stage, calls, cancelled, result, stale>>
vars == <<deployed, base, files, phase, step, request, faults, deploys>>

Phases == {"down", "attempt", "pause", "token", "credentials",
           "database", "configure", "running"}

TypeOK ==
  /\ deployed \in Deployments
  /\ DOMAIN files = DOMAIN deployed.shipped
  /\ DOMAIN base = DOMAIN files
  /\ phase \in Phases
  /\ step \in DOMAIN Steps(deployed.program)
  /\ stage \in {"login", "read", "connect"}
  /\ calls \in 0..Attempts
  /\ phase \in {"attempt", "pause", "token"} => calls # 0
  /\ phase = "pause" => stage = "connect" \/ calls < Attempts
  /\ stale \in BOOLEAN
  /\ cancelled \in BOOLEAN
  /\ result \in {"none", "nil", "stopped", "cancelled", "last"}
  /\ faults \in 0..MaxFaults
  /\ deploys \in 0..MaxDeploys

Init ==
  /\ deployed \in Deployments
  /\ base = deployed.shipped
  /\ files = deployed.shipped
  /\ phase = "down"
  /\ step = 1
  /\ stage = "read"
  /\ calls = 0
  /\ cancelled = FALSE
  /\ result = "none"
  /\ stale = FALSE
  /\ faults = 0
  /\ deploys = 0

Fault == faults < MaxFaults /\ faults' = faults + 1

-----------------------------------------------------------------------------
(* The container and its runtime *)

\* The container is created anew, with another environment: with the files of
\* the image or, when they lie on a volume, with those of the last container.
Redeploy ==
  /\ phase \in {"down", "running"}
  /\ deploys < MaxDeploys
  /\ deploys' = deploys + 1
  /\ \E next \in Deployments :
       /\ next.program = deployed.program
       /\ next # deployed
       /\ deployed' = next
       /\ \E kept \in {files, next.shipped} : files' = kept /\ base' = kept
  /\ phase' = "down"
  /\ stale' = FALSE
  /\ UNCHANGED <<step, stage, calls, cancelled, result, faults>>

\* While a request to Vault is under way a kill leaves the same behind as an
\* error that is not tried again.
Crash ==
  /\ phase \notin {"down", "pause"}
  /\ Fault
  /\ phase' = "down"
  /\ result' = IF phase = "attempt" THEN "stopped" ELSE result
  /\ UNCHANGED <<deployed, base, files, step, stage, calls, cancelled, stale, deploys>>

BeginRequest(kind) ==
  /\ phase' = "attempt"
  /\ stage' = kind
  /\ calls' = 1
  /\ result' = "none"

\* The runtime starts the container, which has failed or has been stopped.
Start ==
  /\ phase = "down"
  /\ IF ~UsesDatabase(deployed.program)
     THEN phase' = "configure" /\ UNCHANGED <<stage, calls, cancelled, result>>
     ELSE IF deployed.vault = "none"
     THEN phase' = "credentials" /\ UNCHANGED <<stage, calls, cancelled, result>>
     ELSE /\ BeginRequest(IF deployed.vault = "approle" THEN "login" ELSE "read")
          /\ cancelled' = FALSE
  /\ step' = 1
  /\ UNCHANGED <<deployed, base, files, stale, faults, deploys>>

-----------------------------------------------------------------------------
(* Calls of bootstrap.Retry: vaultClient.request and waitForConnection *)

StopSignal ==
  /\ phase \in {"attempt", "pause", "token"}
  /\ ~cancelled
  /\ Fault
  /\ cancelled' = TRUE
  /\ UNCHANGED <<deployed, base, files, phase, step, stage, calls, result, stale, deploys>>

Return(r, then) ==
  /\ phase' = then
  /\ result' = r
  /\ UNCHANGED <<stage, calls, cancelled>>

Following ==
  IF stage = "login" THEN "token"
  ELSE IF stage = "read" THEN "credentials"
  ELSE IF PreparesDatabase(deployed.program) THEN "database" ELSE "configure"

\* The database refuses the credentials the container waits with.
OutOfDate == stale /\ WaitsWithVault(deployed)

\* An answer with a status of success, read completely; what it says is
\* decoded outside the retries, so that an error there ends the start.  Or the
\* database accepts the credentials.
Answered ==
  /\ phase = "attempt"
  /\ \/ /\ stage = "connect" => ~OutOfDate
        /\ Return("nil", Following)
        /\ UNCHANGED faults
     \/ stage # "connect" /\ Return("nil", "down") /\ Fault
  /\ stale' = (IF stage = "read" THEN FALSE ELSE stale)
  /\ UNCHANGED <<deployed, base, files, step, deploys>>

\* Without a limit the wait for the database goes on.
Limit == IF stage = "connect" THEN 0 ELSE Attempts

\* Bug: the attempts are counted from 1.
AttemptFails_fewer ==
  IF cancelled THEN Return("cancelled", "down")
  ELSE IF calls = Limit - 1 THEN Return("last", "down")
  ELSE phase' = "pause" /\ UNCHANGED <<stage, calls, cancelled, result>>

\* Bug: one attempt too many.
AttemptFails_oneMore ==
  IF cancelled THEN Return("cancelled", "down")
  ELSE IF stage # "connect" /\ calls > Limit THEN Return("last", "down")
  ELSE phase' = "pause" /\ UNCHANGED <<stage, calls, cancelled, result>>

AttemptFails ==
  IF cancelled THEN Return("cancelled", "down")
  ELSE IF calls = Limit THEN Return("last", "down")
  ELSE phase' = "pause" /\ UNCHANGED <<stage, calls, cancelled, result>>

\* No connection, an answer cut off, or a status that is worth a retry; the
\* database refuses credentials that are no longer valid.
Unavailable ==
  /\ phase = "attempt"
  /\ \/ Fault
     \/ stage = "connect" /\ OutOfDate /\ UNCHANGED faults
  /\ AttemptFails
  /\ UNCHANGED <<deployed, base, files, step, stale, deploys>>

\* Any other status; or an attempt cannot configure its connection to
\* PostgreSQL, for a certificate that cannot be read.  With MySQL this fails
\* before the first attempt, as a kill does then.
Refused ==
  /\ phase = "attempt"
  /\ Fault
  /\ Return("stopped", "down")
  /\ UNCHANGED <<deployed, base, files, step, stale, deploys>>

\* The signal ends the request.
Interrupted ==
  /\ phase = "attempt"
  /\ cancelled
  /\ AttemptFails
  /\ UNCHANGED <<deployed, base, files, step, stale, faults, deploys>>

Resume ==
  /\ phase = "pause"
  /\ phase' = "attempt"
  /\ calls' = IF Limit = 0 THEN calls ELSE calls + 1
  /\ UNCHANGED <<deployed, base, files, step, stage, cancelled, result, stale,
                 faults, deploys>>

GiveUp ==
  /\ phase = "pause"
  /\ cancelled
  /\ Return("cancelled", "down")
  /\ UNCHANGED <<deployed, base, files, step, stale, faults, deploys>>

\* With the token of the login the credentials are read: a request of its own
\* with attempts of its own, under the same context.
Read ==
  /\ phase = "token"
  /\ BeginRequest("read")
  /\ UNCHANGED <<deployed, base, files, step, cancelled, stale, faults, deploys>>

\* With the credentials the container waits for the database, under a context
\* of its own.
Connect ==
  /\ phase = "credentials"
  /\ BeginRequest("connect")
  /\ cancelled' = FALSE
  /\ UNCHANGED <<deployed, base, files, step, stale, faults, deploys>>

\* The credentials are replaced in Vault and in the database.  With others
\* than those of Vault that is a change of the environment.
Rotate ==
  /\ deployed.vault # "none"
  /\ \/ phase = "credentials"
     \/ phase \in {"attempt", "pause"} /\ stage = "connect"
  /\ ~stale
  /\ Fault
  /\ stale' = TRUE
  /\ UNCHANGED <<deployed, base, files, phase, step, stage, calls, cancelled,
                 result, deploys>>

-----------------------------------------------------------------------------
(* The database and the configuration *)

\* The database is prepared, or that has failed.
Database ==
  /\ phase = "database"
  /\ \/ phase' = "configure" /\ UNCHANGED faults
     \/ phase' = "down" /\ Fault
  /\ UNCHANGED <<deployed, base, files, step, request, deploys>>

Current == Steps(deployed.program)[step]
At(op) == phase = "configure" /\ Current.op = op

Advance ==
  /\ IF step < Len(Steps(deployed.program))
     THEN step' = step + 1 /\ UNCHANGED phase
     ELSE phase' = "running" /\ UNCHANGED step
  /\ UNCHANGED <<deployed, base, request, faults, deploys>>

\* The entrypoint ends with an error.
Fails ==
  /\ phase' = "down"
  /\ UNCHANGED <<deployed, base, files, step, request, deploys>>

\* The database has no schema yet.
Fresh == ~Contains(files["db"], VersionTable)

OnFrontend == deployed.program \in {"nginx", "apache"}

\* The providers of a parameter can be decoded and converted.
Convertible(param) ==
  IF OnFrontend THEN WebAccepted(deployed.variables, deployed.providers, param)
  ELSE NativeAccepted(deployed.variables, deployed.providers, param)

\* The environment with which the start goes on.
Converted(param) ==
  IF OnFrontend THEN OnWeb(deployed.providers, param) ELSE Native(deployed.providers, param)

\* The variables of a step can be collected, where rules and providers refuse a
\* suffix that is no number, and its providers or its value are valid.
Valid(s) ==
  /\ Collectable(deployed.variables, s.params, s.op \in {"rules", "open"})
  /\ s.op = "providers" => Convertible(OnlyParam(s))
  /\ s.op = "replace_in" => s.params \cap deployed.faulty = {}

\* A database with a schema has a version, and one without has none of what the
\* schema creates.
Accepted(s) ==
  /\ Valid(s)
  /\ s.op = "begin" => (Fresh \/ Contains(files["db"], VersionRow))
  /\ (s.op = "execute" /\ Fresh) => ~Contains(files[s.file], Statement(OnlyParam(s)))

\* The features a step of a web server is for are all there.
Asked(s) == s.params \subseteq deployed.features

\* What a step makes of its file.
Result(s, lines) ==
  CASE s.op = "merge" ->
         MergeParameterValues(lines, OnlyParam(s), deployed.given, deployed.modules)
    [] s.op = "indexed" ->
         UpdateIndexedParameter(lines, OnlyParam(s), deployed.variables)
    [] s.op = "set" -> SetParameter(lines, OnlyParam(s), PluginPath)
    [] s.op = "rules" ->
         ReplaceAtEnd(lines, s.params, Collected(deployed.variables, s.params))
    [] s.op = "open" -> <<>>
    [] s.op = "restore" -> files["template"]
    [] s.op = "replace" ->
         IF Indexed(deployed.variables, s.params) = {} THEN lines
         ELSE ReplaceAtEnd(lines, s.params, Collected(deployed.variables, s.params))
    [] s.op = "append" -> IF Asked(s) THEN AppendMissing(lines, Line(s.file)) ELSE lines
    [] s.op = "fill" -> IF Asked(s) THEN <<Line(s.file)>> ELSE lines
    [] s.op = "unlink" -> IF Asked(s) THEN <<>> ELSE lines
    [] s.op = "link" -> IF Asked(s) THEN <<Link(s.file)>> ELSE lines
    [] s.op = "withdraw" ->
         IF Asked(s) THEN lines ELSE RemoveMatchingSymlink(lines, s.file)
    [] s.op = "replace_in" -> Filled(lines, s.params, deployed.setting)
    [] s.op = "remove_lines" ->
         IF Asked(s) THEN lines ELSE RemoveLinesContaining(lines, s.params)
    [] s.op = "begin" -> files["db"]
    [] s.op = "execute" -> IF Fresh THEN Append(lines, Statement(OnlyParam(s))) ELSE lines
    [] s.op = "commit" -> IF Fresh THEN files["transaction"] ELSE lines

Writing == {"merge", "indexed", "set", "rules", "open", "restore", "replace",
            "append", "fill", "unlink", "link", "withdraw", "replace_in",
            "remove_lines", "begin", "execute", "commit"}

\* The file of the step is written, in place for "open" and "restore", by
\* renaming a complete copy for all others.
Write ==
  /\ phase = "configure"
  /\ Current.op \in Writing
  /\ Accepted(Current)
  /\ files' = [files EXCEPT ![Current.file] = Result(Current, @)]
  /\ Advance

\* Variables with gaps, used twice, empty or without a number, values that are
\* not valid, a damaged database: the start ends with the files of the earlier
\* steps written.
Reject ==
  /\ phase = "configure"
  /\ Current.op \in Writing \cup {"providers"}
  /\ ~Accepted(Current)
  /\ Fails
  /\ UNCHANGED faults

\* The file system fails.
WriteFails ==
  /\ phase = "configure"
  /\ Current.op \in Writing
  /\ Fault
  /\ Fails

\* The providers of a parameter are decoded and converted in the environment,
\* then the schemas asked for are prepared.
Providers ==
  /\ At("providers")
  /\ Accepted(Current)
  /\ \/ Advance /\ UNCHANGED files
     \/ /\ ~OnFrontend
        /\ \E p \in IndexedOf(deployed.providers, OnlyParam(Current)) : p.schema # "none"
        /\ Fails /\ Fault

\* The hooks run one after the other; the first one that fails ends the start.
Hooks ==
  /\ At("hooks")
  /\ \/ Advance /\ UNCHANGED files
     \/ Fails /\ Fault

Next ==
  \/ Redeploy \/ Crash \/ Start
  \/ StopSignal \/ Answered \/ Unavailable \/ Refused \/ Interrupted
  \/ Resume \/ GiveUp \/ Read \/ Connect \/ Rotate
  \/ Database \/ Write \/ Reject \/ WriteFails \/ Providers \/ Hooks

Spec == Init /\ [][Next]_vars

\* What the container, the runtime and the services it asks do without being
\* disturbed from outside.
Container ==
  \/ Start \/ Answered \/ Unavailable \/ Interrupted
  \/ Resume \/ GiveUp \/ Read \/ Connect
  \/ Database \/ Write \/ Reject \/ Providers \/ Hooks

\* The runtime starts a container again whose entrypoint has ended; an attempt
\* has a timeout and a pause a timer, and the entrypoint runs as one thread.
FairSpec == Spec /\ WF_vars(Container)

-----------------------------------------------------------------------------
(* Properties *)

\* Lines about these are not wanted in the files of Apache.
Unset == {"real_ip", "real_ip_header"} \ deployed.features

\* What a step should have made of a file it found as `before`.
Intended(s, before, after) ==
  LET rules == Collected(deployed.variables, s.params)
      param == OnlyParam(s)
      old == Values(before, param)
  IN CASE s.op = "merge" ->
            /\ Values(after, param) =
                 IF deployed.given
                 THEN old \o Without(deployed.modules, Range(old))
                 ELSE <<>>
            /\ Others(after, param) = Others(before, param)
       [] s.op = "indexed" ->
            IF rules = <<>> THEN after = before
            ELSE /\ Values(after, param) = [i \in DOMAIN rules |-> i - 1]
                 /\ Others(after, param) = Others(before, param)
       [] s.op = "set" ->
            /\ Values(after, param) = <<PluginPath>>
            /\ Others(after, param) = Others(before, param)
       [] s.op = "rules" ->
            /\ Settings(after, s.params) = rules
            /\ OthersAny(after, s.params) = OthersAny(before, s.params)
       [] s.op = "replace" ->
            /\ Settings(after, s.params) =
                 IF rules = <<>> THEN Settings(files["template"], s.params) ELSE rules
            /\ OthersAny(after, s.params) = OthersAny(files["template"], s.params)
       [] s.op = "append" ->
            IF Asked(s) /\ ~Contains(before, Line(s.file))
            THEN after = Append(before, Line(s.file)) ELSE after = before
       [] s.op = "fill" -> after = IF Asked(s) THEN <<Line(s.file)>> ELSE <<>>
       [] s.op = "link" ->
            after = IF Asked(s) THEN <<Link(s.file)>>
                    ELSE IF "certs" \in s.params \ deployed.features /\ before = <<Link(s.file)>>
                    THEN <<>> ELSE before
       [] s.op = "replace_in" ->
            /\ DOMAIN after = DOMAIN before
            /\ \A i \in DOMAIN before :
                 IF before[i][1] = "placeholder" /\ before[i][2] \in s.params
                 THEN after[i] = <<"text", before[i][2], deployed.setting>>
                 ELSE after[i] = before[i]
       [] s.op = "remove_lines" ->
            \A i \in DOMAIN before :
              Contains(after, before[i]) <=> before[i][2] \notin Unset
       [] s.op = "commit" ->
            after = IF Contains(before, VersionTable) THEN before ELSE before \o Schema
       [] OTHER -> TRUE

\* What the service should find of its storage providers.
IntendedProviders(param) ==
  IF OnFrontend THEN WebIntended(deployed.providers, param, Converted(param))
  ELSE NativeIntended(deployed.providers, param, Converted(param))

\* A service that runs reads the parameters its environment asks for, in their
\* order, next to the lines of the user, which are all kept: as if its start
\* had been the first one on the files the deployment has found, whatever
\* starts have failed or have been killed half-way before.  Its storage
\* providers have all their credentials, and no variable has them any more.
Configured ==
  phase = "running" =>
    \A i \in DOMAIN Steps(deployed.program) :
      LET s == Steps(deployed.program)[i]
      IN /\ s.file # "" => Intended(s, base[s.file], files[s.file])
         /\ s.op = "providers" => IntendedProviders(OnlyParam(s))

\* Starting a configured container again rewrites none of its files: neither
\* parameters nor blank lines pile up with the restarts.
Stable ==
  phase = "running" =>
    \A i \in DOMAIN Steps(deployed.program) :
      LET s == Steps(deployed.program)[i]
      IN s.op \in {"merge", "indexed", "set", "rules", "append", "replace_in",
                   "remove_lines", "commit"} =>
           Result(s, files[s.file]) = files[s.file]

\* Nothing the operator has to repair first.
Acceptable ==
  \A i \in DOMAIN Steps(deployed.program) :
    LET s == Steps(deployed.program)[i]
    IN /\ Valid(s)
       /\ s.op = "execute" =>
            LET db == base["db"]
            IN IF Contains(db, VersionTable) THEN Contains(db, VersionRow)
               ELSE ~Contains(db, Statement(OnlyParam(s)))

\* Whatever fails and wherever a start is killed, the service runs in the end:
\* nothing a start leaves behind stops the next one.  Only a container whose
\* credentials are replaced in Vault while it waits for the database with them
\* waits on: it does not read them again.
EventuallyRunning ==
  <>[](Acceptable =>
         \/ phase = "running"
         \/ OutOfDate /\ stage = "connect" /\ phase \in {"attempt", "pause"})

-----------------------------------------------------------------------------
(* Both requests to Vault and the wait for the database are calls of Retry. *)

RetryOf == INSTANCE Retry WITH
  limit <- Limit,
  at <- CASE calls = 0 -> "idle"
          [] calls # 0 /\ phase = "attempt" -> "attempt"
          [] calls # 0 /\ phase = "pause" -> "pause"
          [] OTHER -> "returned"

\* The login and the reading of the credentials are each tried as often as
\* bootstrap.Retry promises and the connection to the database without a bound;
\* all of them end with the stop signal.
ImplementsRetry == RetryOf!Spec
=============================================================================
