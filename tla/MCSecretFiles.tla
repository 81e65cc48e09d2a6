--------------------------- MODULE MCSecretFiles ---------------------------
(* Small instances of SecretFiles for TLC: the configurations an operator  *)
(* may go through, each varying one or two parts of a plain one.           *)
EXTENDS SecretFiles

OneHistory == <<"history-1">>
OneTelemetry == <<"telemetry-1">>
MCSecrets == {"tls", "database", "vault", "credential", "history-1", "telemetry-1"}

Base ==
  [command |-> "service", source |-> [s \in MCSecrets |-> "unset"],
   active |-> MCSecrets, current |-> {}, other |-> {}, vaultDB |-> FALSE,
   clash |-> FALSE, inside |-> FALSE, shared |-> {}, sharedTwice |-> FALSE,
   taken |-> FALSE, caGiven |-> FALSE, ca |-> {}, caTwice |-> FALSE]

\* One secret from every source, for a command, in use or not.
Sources(s, commands) ==
  {[Base EXCEPT !.command = m, !.source[s] = x, !.active = a] :
     m \in commands, x \in {"unset", "empty", "inline", "both"}, a \in {{}, {s}}}
  \cup
  {[Base EXCEPT !.command = m, !.source[s] = "relative", !.current = n, !.other = o] :
     m \in commands, n \in {{}, {s}}, o \in {{}, {s}}}

Vault ==
  {[Base EXCEPT !.source["vault"] = x, !.shared = d, !.taken = t] :
     x \in {"unset", "inline", "absolute"}, d \in {{}, {"a"}}, t \in BOOLEAN}
  \cup
  {[Base EXCEPT !.source["vault"] = "absolute", !.shared = {"a"}, !.inside = i, !.clash = ~i] :
     i \in BOOLEAN}

Authorities ==
  {[Base EXCEPT !.command = m, !.vaultDB = v, !.ca = d, !.caGiven = g] :
     m \in {"service", "init_db_only"}, v \in BOOLEAN,
     d \in {{}, {"a"}, {"b"}}, g \in BOOLEAN}
  \cup {[Base EXCEPT !.caTwice = TRUE, !.ca = {"a"}], [Base EXCEPT !.sharedTwice = TRUE]}

ProviderConfigurations ==
  {[Base EXCEPT !.command = m, !.source = [Base.source EXCEPT ![p] = x], !.active = a] :
     m \in {"service", "init_db_history_providers", "init_db_telemetry"},
     p \in {"history-1", "telemetry-1"}, x \in {"unset", "empty", "inline", "absolute"},
     a \in {{}, {"history-1", "telemetry-1"}}}
  \cup
  {[Base EXCEPT !.command = m, !.source["history-1"] = "relative", !.current = n, !.other = o] :
     m \in {"service", "init_db_history_providers"},
     n \in {{}, {"history-1"}}, o \in {{}, {"history-1"}}}
  \cup
  {[Base EXCEPT !.command = "init_db_history_providers", !.source["credential"] = x] :
     x \in {"inline", "both", "relative"}}

MCConfigurations ==
  Sources("tls", {"service"}) \cup Sources("database", {"service", "init_db_only"})
    \cup Sources("credential", {"service", "init_db_telemetry"}) \cup Vault \cup Authorities \cup ProviderConfigurations
=============================================================================
