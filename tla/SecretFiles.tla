---------------------------- MODULE SecretFiles ----------------------------
(***************************************************************************)
(* The secrets of a server container.  At every start, before anything     *)
(* else, ResolveSecrets turns the secrets given inline into files of the   *)
(* internal secrets directory, finds the files the operator has mounted,   *)
(* and rebuilds the directories of certificates the server reads.  The     *)
(* internal directory may outlive the container that filled it, so a start *)
(* meets what earlier starts, finished or killed, have left there.         *)
(*                                                                         *)
(* Code modelled: internal/bootstrap/secrets.go, secret_registry.go,       *)
(* provider_secrets.go, secret_files.go and secret_ca.go for the component *)
(* server, with one file of each kind: every file of a kind is handled     *)
(* alike and on its own.                                                   *)
(*                                                                         *)
(* The content of a file is the version of the operator's configuration it *)
(* comes from: every start has a new one, and mounted files may be updated *)
(* at any time.  Version 0 stands for a file that does not exist.          *)
(***************************************************************************)
EXTENDS Integers, Sequences

CONSTANTS
  HistoryProviders,    \* sequence of the history providers that may be named
  TelemetryProviders,  \* sequence of the telemetry providers that may be named
  SharedNames,         \* names of files in mounted directories
  Configurations,      \* the configurations a start may find
  MaxStarts,           \* bound on the starts of the container
  MaxUpdates           \* bound on updates of mounted files during a start

Elements(s) == {s[i] : i \in DOMAIN s}
Providers == Elements(HistoryProviders) \cup Elements(TelemetryProviders)

\* The secrets of the plan, in the order in which they are resolved.
\* "tls" stands for the files that are always active, "database" for those
\* of the database connection, "vault" for the client certificate of Vault,
\* a provider for its CA file and "credential" for the values (accounts of the
\* database, tokens of Vault, passwords of providers), which leave nothing on
\* disk.
Order == <<"tls", "database", "vault">>
           \o HistoryProviders \o TelemetryProviders \o <<"credential">>
Files == {"tls", "database", "vault"} \cup Providers
Secrets == Files \cup {"credential"}

Commands ==
  {"service", "init_db_only", "init_db_history_providers", "init_db_telemetry"}

\* The code names the directories of a provider for its family and number,
\* history/1 or telemetry/2, which are the names of nothing else.
ASSUME ProviderAssumption ==
  /\ HistoryProviders \in Seq(STRING) /\ TelemetryProviders \in Seq(STRING)
  /\ Providers \cap {"tls", "database", "vault", "credential", "ssl", "links"} = {}
  /\ "links" \notin SharedNames

(***************************************************************************)
(* What a start finds in its environment and in the mounted directories.   *)
(***************************************************************************)
Configuration ==
  [command : Commands,
   source : [Secrets ->             \* "empty": a variable that is set to nothing
               {"unset", "empty", "inline", "relative", "absolute", "both"}],
   active : SUBSET Secrets,       \* switched on by their mode or provider
   current : SUBSET Secrets,      \* relative path found in the current place
   other : SUBSET Secrets,        \* ... in /run/secrets or a legacy place
   vaultDB : BOOLEAN,             \* ZBX_VAULTDBPATH is set
   clash : BOOLEAN,               \* the deprecated variable differs
   inside : BOOLEAN,              \* the Vault file lies in the shared directory
   shared : SUBSET SharedNames,   \* files of the shared directory
   sharedTwice : BOOLEAN,         \* current and legacy directory have files
   taken : BOOLEAN,               \* the shared directory has the managed name
   caGiven : BOOLEAN,             \* ZBX_SSLCALOCATION is set
   ca : SUBSET SharedNames,       \* files of the directory of CAs
   caTwice : BOOLEAN]             \* current and legacy directory have files

Given(c, s) == c.source[s] \notin {"unset", "empty"}

ASSUME ConfigurationAssumption ==
  /\ Configurations \subseteq Configuration
  /\ \A c \in Configurations :
       /\ c.inside => c.source["vault"] \in {"relative", "absolute"}
       /\ c.clash => c.source["vault"] \in {"relative", "absolute", "both"}
       /\ c.command = "init_db_history_providers" /\ Given(c, "credential") =>
            c.active \cap Elements(HistoryProviders) # {}
  /\ MaxStarts \in Nat
  /\ MaxUpdates \in Nat

(***************************************************************************)
(* The internal directory: a place is a directory and a name.  "links"     *)
(* stands for the links openssl rehash makes to the CAs of a directory.    *)
(***************************************************************************)
FileOf(s) == <<<<s>>, s>>
Tree(dir) == {<<dir, n>> : n \in Secrets \cup SharedNames \cup {"external", "links", "temp"}}
VaultDir == <<"vault">>
GlobalCA == <<"ssl", "ca">>
ProviderCA(p) == <<p, "ca">>
Links(dir) == <<dir, "links">>
Directories == {<<s>> : s \in Files} \cup {GlobalCA}
                 \cup {ProviderCA(p) : p \in Providers}
Places == UNION {Tree(dir) : dir \in Directories}
NoTemp == [place |-> <<>>, version |-> 0]

VARIABLES
  status,   \* of the container
  config,   \* what the current start has found
  stage,    \* the part of ResolveSecrets being executed
  next,     \* index in Order of the secret to handle next
  env,      \* env[s]: what the variable of s names so far
  clear,    \* places still to be removed by the current operation
  fill,     \* places still to be written by the current operation
  held,     \* the certificate of Vault, read before its directory is rebuilt
  temp,     \* the temporary file being written, or NoTemp
  disk,     \* disk[p]: the version of the content of place p
  version,  \* the current version of the operator's configuration
  since,    \* its version when the container was started
  starts    \* starts so far

work == <<clear, fill, held, temp>>
vars == <<status, config, stage, next, env, work, disk, version, since, starts>>

Present == {p \in Places : disk[p] # 0}
Idle == clear = {} /\ fill = {} /\ temp = NoTemp

Init ==
  /\ status = "down"
  /\ config \in Configurations
  /\ stage = "cleanup" /\ next = 1
  /\ env = [s \in Secrets |-> "unset"]
  /\ clear = {} /\ fill = {} /\ held = 0 /\ temp = NoTemp
  /\ disk = [p \in Places |-> 0]
  /\ version = 1 /\ since = 1 /\ starts = 0

(***************************************************************************)
(* The plan of a command.                                                  *)
(***************************************************************************)
ProvidersFor(command) ==
  (IF command \in {"service", "init_db_history_providers"}
     THEN Elements(HistoryProviders) ELSE {})
  \cup
  (IF command \in {"service", "init_db_telemetry"}
     THEN Elements(TelemetryProviders) ELSE {})

\* The providers of which a variable is set, be it to nothing.
Named(c) ==
  {p \in ProvidersFor(c.command) : p \in c.active \/ c.source[p] # "unset"}

Plan(c) ==
  (IF c.command = "service" THEN {"tls"} ELSE {})
  \cup (IF c.command \in {"service", "init_db_only"} THEN {"database"} ELSE {})
  \cup (IF c.command # "init_db_history_providers" THEN {"vault"} ELSE {})
  \cup (IF c.command # "init_db_history_providers" \/ Named(c) # {}
          THEN {"credential"} ELSE {})
  \cup Named(c)

Active(c, s) == s = "tls" \/ s \in c.active

\* A provider without its definition must not have secrets.
PlanError(c) == \E p \in ProvidersFor(c.command) :
                   p \notin c.active /\ Given(c, p)

\* Nothing to resolve: a command of the history providers, and no provider.
EmptyPlan(c) == Plan(c) = {}

\* locateSecret: /run/secrets wins over the current directory, but a file in
\* both the current and the legacy directory is an error.  Files of providers
\* have one place only.
Located(c, s) ==
  \/ c.source[s] = "absolute"
  \/ /\ c.source[s] = "relative"
     /\ IF s \in {"database", "credential"} THEN s \in c.current \cup c.other
        ELSE IF s \in Providers THEN s \in c.current
        ELSE s \in (c.current \ c.other) \cup (c.other \ c.current)

UsesShared(c) == c.command # "init_db_only"
UsesCA(c) == c.command # "init_db_only" \/ c.vaultDB

(***************************************************************************)
(* Beginning and end of a start.                                           *)
(***************************************************************************)
Enter(s) == stage' = s /\ next' = 1

\* Bug: only files with the name of a mounted file are cleared.
Entries_known(dir) == {<<dir, n>> : n \in SharedNames \cup {"external"}} \cap Present

\* What removeTree, or the clearing of a directory entry by entry, removes.
Entries(dir) == Tree(dir) \cap Present

\* Bug: the directories of the CAs of removed providers are left alone.
Stale_files(c) == {FileOf(p) : p \in ProvidersFor(c.command)}

\* What cleanupStaleProviderSecrets removes.
Stale(c) == UNION {{FileOf(p)} \cup Tree(ProviderCA(p)) : p \in ProvidersFor(c.command)}

\* A container starts.  A provider without its definition is refused before
\* anything is touched; otherwise cleanupStaleProviderSecrets begins.
Start ==
  /\ status \in {"down", "failed", "refused"}
  /\ starts < MaxStarts
  /\ starts' = starts + 1
  /\ version' = version + 1
  /\ since' = version + 1
  /\ \E c \in Configurations :
       /\ config' = c
       /\ env' = [s \in Secrets |-> "unset"]
       /\ Enter("cleanup")
       /\ IF PlanError(c)
            THEN status' = "refused" /\ clear' = {}
            ELSE status' = "resolving" /\ clear' = Stale(c) \cap Present
  /\ fill' = {} /\ held' = 0 /\ temp' = NoTemp
  /\ UNCHANGED disk

\* The process is gone, and what it had in memory.
Gone ==
  /\ Enter("cleanup")
  /\ env' = [s \in Secrets |-> "unset"]
  /\ clear' = {} /\ fill' = {} /\ held' = 0 /\ temp' = NoTemp
  /\ UNCHANGED <<config, version, since, starts>>

\* ResolveSecrets returns an error; a temporary file is removed.
Refuse ==
  /\ status' = "refused"
  /\ Gone
  /\ UNCHANGED disk

\* The process is killed; the temporary file it was writing stays.
Crash ==
  /\ status \in {"resolving", "ready"}
  /\ status' = "down"
  /\ Gone
  /\ disk' = IF temp = NoTemp THEN disk
             ELSE [disk EXCEPT ![<<temp.place[1], "temp">>] = temp.version]

\* A file cannot be read or written, or a directory not be rehashed: the start
\* fails, a temporary file is removed.
IOFails ==
  /\ status = "resolving"
  /\ status' = "failed"
  /\ Gone
  /\ UNCHANGED disk

\* The operator's mounted files are replaced while the container starts.
Update ==
  /\ status = "resolving"
  /\ version - since < MaxUpdates
  /\ version' = version + 1
  /\ UNCHANGED <<status, config, stage, next, env, work, disk, since, starts>>

(***************************************************************************)
(* The operations on the internal directory.                               *)
(***************************************************************************)
control == <<status, config, stage, next, env, held, version, since, starts>>

Remove ==
  /\ status = "resolving"
  /\ \E p \in clear :
       /\ disk' = [disk EXCEPT ![p] = 0]
       /\ clear' = clear \ {p}
  /\ UNCHANGED <<control, fill, temp>>

\* What is written at a place: an inline secret, the certificate of Vault
\* read beforehand, or a copy of a file as it is now.
Content(p) ==
  CASE stage = "files" -> since
    [] stage = "vault" /\ p = FileOf("vault") -> held
    [] stage = "providers" /\ p[2] # "external" -> disk[FileOf(p[2])]
    [] OTHER -> version

\* writeSecret: the data goes to a temporary file of the same directory,
\* which is then renamed.  The certificate of Vault is written last.
BeginWrite ==
  /\ status = "resolving"
  /\ clear = {} /\ temp = NoTemp
  /\ \E p \in fill :
       /\ p[2] # "links"
       /\ stage = "vault" /\ p = FileOf("vault") => fill = {p} /\ ~config.taken
       /\ temp' = [place |-> p, version |-> Content(p)]
  /\ UNCHANGED <<control, clear, fill, disk>>

EndWrite ==
  /\ status = "resolving"
  /\ temp # NoTemp
  /\ disk' = [disk EXCEPT ![temp.place] = temp.version]
  /\ fill' = fill \ {temp.place}
  /\ temp' = NoTemp
  /\ UNCHANGED <<control, clear>>

\* rehashDirectory, when all the files of a directory of CAs are there.
Rehash ==
  /\ status = "resolving"
  /\ clear = {} /\ temp = NoTemp
  /\ \E p \in fill :
       /\ p[2] = "links" /\ fill = {p}
       /\ disk' = [disk EXCEPT ![p] = version]
  /\ fill' = {}
  /\ UNCHANGED <<control, clear, temp>>

(***************************************************************************)
(* The parts of ResolveSecrets.                                            *)
(***************************************************************************)
At(s) == status = "resolving" /\ stage = s /\ Idle

\* normalizeSecretAlias, once the secrets of old providers are gone.
Normalize ==
  /\ At("cleanup")
  /\ IF config.clash /\ "vault" \in Plan(config)
       THEN Refuse
       ELSE /\ IF EmptyPlan(config)
                 THEN status' = "ready" /\ UNCHANGED <<stage, next>>
                 ELSE Enter("files") /\ UNCHANGED status
            /\ UNCHANGED <<config, env, work, disk, version, since, starts>>

\* resolveFileSecret and resolveValueSecret for the next secret of the plan.
Current == Order[next]
Unused(s) == ~Active(config, s) \/ ~Given(config, s)

\* Bug: values are written to files as well.
Managed_all(s) == {FileOf(s)}

\* The managed file of a secret, for those that are files.
Managed(s) == IF s \in Files THEN {FileOf(s)} ELSE {}

Resolve ==
  /\ At("files") /\ next \in DOMAIN Order
  /\ Current \in Plan(config)
  /\ \/ /\ Unused(Current)
        /\ clear' = Managed(Current) \cap Present
        /\ next' = next + 1
        /\ UNCHANGED <<status, config, stage, env, fill, held, temp, disk, version, since, starts>>
     \/ /\ ~Unused(Current) /\ config.source[Current] = "inline"
        /\ fill' = Managed(Current)
        /\ env' = [env EXCEPT ![Current] = "managed"]
        /\ next' = next + 1
        /\ UNCHANGED <<status, config, stage, clear, held, temp, disk, version, since, starts>>
     \/ /\ ~Unused(Current) /\ Located(config, Current)
        /\ env' = [env EXCEPT ![Current] = "external"]
        /\ next' = next + 1
        /\ UNCHANGED <<status, config, stage, work, disk, version, since, starts>>
     \/ /\ ~Unused(Current) /\ config.source[Current] # "inline" /\ ~Located(config, Current)
        /\ Refuse

Skip ==
  /\ At("files")
  /\ IF next \in DOMAIN Order
       THEN Current \notin Plan(config) /\ next' = next + 1 /\ stage' = stage
       ELSE Enter("shared")
  /\ UNCHANGED <<status, config, env, work, disk, version, since, starts>>

\* resolveSharedTLSDirectories.
SharedDirectories ==
  /\ At("shared")
  /\ IF UsesShared(config) /\ config.sharedTwice
       THEN Refuse
       ELSE /\ Enter(IF config.command = "service" THEN "vault" ELSE "ca")
            /\ UNCHANGED <<status, config, env, work, disk, version, since, starts>>

\* prepareVaultTLSFile: the certificate of Vault must lie in the directory
\* the server reads; unless it does, or is not used, a managed copy of that
\* directory is made.
Rebuilt(c) == env["vault"] # "unset" /\ ~c.inside

\* Bug: a certificate an earlier start has left is preferred.
Certificate_kept == IF disk[FileOf("vault")] # 0 THEN disk[FileOf("vault")] ELSE version

\* The certificate of Vault, read before its directory is removed.
Certificate == IF env["vault"] = "managed" THEN disk[FileOf("vault")] ELSE version

VaultTLS ==
  /\ At("vault") /\ next = 1
  /\ clear' = Entries(VaultDir)
  /\ next' = 2
  /\ IF Rebuilt(config)
       THEN /\ held' = Certificate
            /\ fill' = {<<VaultDir, n>> : n \in config.shared} \cup {FileOf("vault")}
            /\ env' = [env EXCEPT !["vault"] = "managed"]
       ELSE UNCHANGED <<held, fill, env>>
  /\ UNCHANGED <<status, config, stage, temp, disk, version, since, starts>>

\* Bug: the name is looked for in the managed directory.
VaultTaken_target ==
  /\ At("vault") /\ next = 1 /\ Rebuilt(config)
  /\ env["vault"] = "external" /\ disk[FileOf("vault")] # 0
  /\ Refuse

\* The shared directory has a file with the name of the managed one.
VaultTaken ==
  /\ status = "resolving" /\ stage = "vault" /\ next = 2
  /\ clear = {} /\ temp = NoTemp
  /\ FileOf("vault") \in fill /\ config.taken
  /\ Refuse

VaultDone ==
  /\ At("vault") /\ next = 2
  /\ Enter("ca")
  /\ UNCHANGED <<status, config, env, work, disk, version, since, starts>>

CAFiles(c) ==
  IF c.ca = {} THEN {}
  ELSE {<<GlobalCA, n>> : n \in c.ca} \cup {Links(GlobalCA)}

\* resolveGlobalCA: without CAs the directory is only removed.
CADirectory ==
  /\ At("ca") /\ next = 1
  /\ IF UsesCA(config) /\ ~config.caGiven
       THEN IF config.caTwice
              THEN Refuse
              ELSE /\ clear' = Entries(GlobalCA)
                   /\ fill' = CAFiles(config)
                   /\ next' = 2
                   /\ UNCHANGED <<status, config, stage, env, held, temp, disk, version, since, starts>>
       ELSE /\ next' = 2
            /\ UNCHANGED <<status, config, stage, env, work, disk, version, since, starts>>

CADone ==
  /\ At("ca") /\ next = 2
  /\ Enter("providers")
  /\ UNCHANGED <<status, config, env, work, disk, version, since, starts>>

\* What the directory of a provider gets: its CA, and the links to it.
TrustFile(p) == <<ProviderCA(p), IF env[p] = "managed" THEN p ELSE "external">>
TrustFiles(p) == {TrustFile(p), Links(ProviderCA(p))}

\* resolveProviderCAs: a directory with the CA of one provider.
ProviderCAs ==
  /\ At("providers") /\ next \in DOMAIN Order
  /\ next' = next + 1
  /\ IF Current \in Providers /\ env[Current] # "unset"
       THEN /\ clear' = Entries(ProviderCA(Current))
            /\ fill' = TrustFiles(Current)
       ELSE UNCHANGED <<clear, fill>>
  /\ UNCHANGED <<status, config, stage, env, held, temp, disk, version, since, starts>>

Ready ==
  /\ At("providers") /\ next \notin DOMAIN Order
  /\ status' = "ready"
  /\ UNCHANGED <<config, stage, next, env, work, disk, version, since, starts>>

Next ==
  \/ Start \/ Crash \/ IOFails \/ Update
  \/ Remove \/ BeginWrite \/ EndWrite \/ Rehash
  \/ Normalize \/ Resolve \/ Skip
  \/ SharedDirectories \/ VaultTLS \/ VaultTaken \/ VaultDone
  \/ CADirectory \/ CADone \/ ProviderCAs \/ Ready

Spec == Init /\ [][Next]_vars

(***************************************************************************)
(* Properties.                                                             *)
(***************************************************************************)

\* Every variable has its type; what is being written or removed lies in the
\* internal directory.
TypeOK ==
  /\ status \in {"down", "resolving", "ready", "refused", "failed"}
  /\ config \in Configurations
  /\ stage \in {"cleanup", "files", "shared", "vault", "ca", "providers"}
  /\ next \in 1..(Len(Order) + 1)
  /\ env \in [Secrets -> {"unset", "managed", "external"}]
  /\ clear \subseteq Places /\ fill \subseteq Places
  /\ held \in Nat
  /\ temp = NoTemp \/ temp \in [place : Places, version : Nat]
  /\ disk \in [Places -> Nat]
  /\ version \in Nat /\ since \in Nat /\ starts \in Nat

\* What is in a directory.
Holds(dir) == {p \in Tree(dir) : disk[p] # 0}

\* The directories the server is told to read, and the files they must hold.
Used(s) == status = "ready" /\ s \in Plan(config) /\ env[s] # "unset"
VaultRebuilt == Used("vault") /\ config.command = "service" /\ ~config.inside
CARebuilt == status = "ready" /\ stage # "cleanup" /\ UsesCA(config) /\ ~config.caGiven

\* resolveFileSecret, prepareManagedCADir, prepareVaultTLSDirectory: every
\* file the server is told to read comes from this start, never from an
\* earlier one, killed or not, whose files are still in the directory.
NothingOld ==
  /\ \A s \in Files : Used(s) /\ env[s] = "managed" => disk[FileOf(s)] >= since
  /\ VaultRebuilt => \A n \in config.shared : disk[<<VaultDir, n>>] >= since
  /\ CARebuilt => \A n \in config.ca : disk[<<GlobalCA, n>>] >= since
  /\ \A p \in Providers : Used(p) =>
       \E n \in {p, "external"} : disk[<<ProviderCA(p), n>>] >= since

\* prepareManagedCADir and prepareVaultTLSDirectory: a rebuilt directory
\* holds exactly the files of this start, and a directory of CAs the links to
\* them: no certificate the operator has withdrawn is trusted, none is there
\* without its link, and no unfinished file is left.
ExactDirectories ==
  /\ CARebuilt => Holds(GlobalCA) = CAFiles(config)
  /\ VaultRebuilt => Holds(VaultDir) =
       {<<VaultDir, n>> : n \in config.shared} \cup {FileOf("vault")}
  /\ \A p \in Providers : Used(p) => Holds(ProviderCA(p)) = TrustFiles(p)

\* The places a start is in charge of: the managed files of its plan and of
\* all providers of its families, and the directories it removes or rebuilds.
InCharge ==
  {FileOf(s) : s \in (Files \cap Plan(config)) \cup ProvidersFor(config.command)}
  \cup (IF config.command = "service" THEN Tree(VaultDir) ELSE {})
  \cup (IF CARebuilt THEN Tree(GlobalCA) ELSE {})
  \cup UNION {Tree(ProviderCA(p)) : p \in ProvidersFor(config.command)}

\* Secrets that are mounted files.  If one was inline before, its managed file
\* is left where it is; a service removes the one of Vault with its directory.
Mounted ==
  {s \in {"tls", "database", "vault"} :
     env[s] = "external" /\ ~(s = "vault" /\ config.command = "service")}

\* cleanupStaleProviderSecrets, resolveFileSecret, prepareVaultTLSFile and
\* prepareManagedCADir: when a start has ended well, nothing of an earlier
\* start is in a place this one is in charge of, be it of a secret that is set
\* no more or switched off, of a provider that is gone or of a withdrawn
\* certificate, except for the managed file of a secret that is a mounted file
\* by now.  What a start is not in charge of may stay: the files of another
\* command, and temporary files that a kill has left beside a managed file.
OldFilesGone ==
  status = "ready" =>
    \A p \in InCharge \ {FileOf(s) : s \in Mounted} :
      disk[p] = 0 \/ disk[p] >= since

\* The outcome of a start is that of a start on an empty directory: what
\* earlier starts have left makes no configuration fail or succeed.
Acceptable(c) ==
  /\ ~PlanError(c)
  /\ ~(c.clash /\ "vault" \in Plan(c))
  /\ EmptyPlan(c) \/
       /\ \A s \in Plan(c) : Active(c, s) /\ Given(c, s) =>
                               c.source[s] = "inline" \/ Located(c, s)
       /\ UsesShared(c) => ~c.sharedTwice
       /\ ~(c.command = "service" /\ c.taken /\ ~c.inside
              /\ "vault" \in c.active /\ Given(c, "vault"))
       /\ UsesCA(c) /\ ~c.caGiven => ~c.caTwice

LeftoversHarmless ==
  /\ status = "ready" => Acceptable(config)
  /\ status = "refused" => ~Acceptable(config)
=============================================================================
