--------------------------- MODULE MCServiceStart ---------------------------
(* The instance of ServiceStart: every program with environments that add,  *)
(* change, remove and confuse variables, on files with and without lines of *)
(* a user.                                                                  *)
EXTENDS ServiceStart

MCNames == STRING

Example(param) == <<"comment", param, 50>>
Text(n) == <<"text", "", n>>
Own(param) == ActiveLine(param, 60)
Behind(param) == <<"indented", param, 61>>

\* A file of the image, and one with parameters and lines of the user.
Plain(param) == <<Text(51), Example(param), Text(52)>>
Custom(param) == <<Example(param), Own(param), Text(53), Blank>>
Bald(param) == <<Own(param), Text(54)>>

Deployment(program, shipped, variables, modules, given, vault, providers) ==
  [program |-> program, shipped |-> shipped, variables |-> variables,
   modules |-> modules, given |-> given, vault |-> vault,
   providers |-> providers, faulty |-> {}, features |-> {}, setting |-> 80]

Provider(param, index, items, secrets, schema) ==
  [param |-> param, index |-> index, items |-> items, secrets |-> secrets, schema |-> schema]
History(index, items, secrets, schema) ==
  Provider("HistoryProvider", index, items, secrets, schema)
Telemetry(items, secrets, schema) == Provider("TelemetryProvider", 0, items, secrets, schema)

ClickHouse ==
  [provider |-> <<"clickhouse">>, url |-> <<"http">>, types |-> <<"dbl", "log", "dbl">>,
   username |-> <<"reader">>, ssl_cert_file |-> <<"client.pem">>]
Elasticsearch == [provider |-> <<"elasticsearch">>, url |-> <<"http">>, types |-> <<"str">>]
Sql == [provider |-> <<"sql">>, types |-> <<"uint">>]
Otel == [provider |-> <<"clickhouse">>, url |-> <<"https">>, ssl_verify_host |-> <<"false">>,
         ssl_cert_file |-> <<"client.pem">>]

Credentials == [username |-> <<"writer">>, password |-> <<"secret">>]
KeyFile == [ssl_key_file |-> <<"/keys", "client.key">>, password |-> <<"secret">>]
CertFile == [ssl_cert_file |-> <<"/certs", "client.pem">>]

ServerFiles ==
  {[modules |-> Plain("LoadModule"), history_storage |-> Plain("HistoryProvider"),
    telemetry |-> <<Blank>>],
   [modules |-> Custom("LoadModule"), history_storage |-> Bald("HistoryProvider"),
    telemetry |-> Custom("TelemetryProvider")]}

H(i) == <<"HistoryProvider", i, TRUE>>
T(i) == <<"TelemetryProvider", i, TRUE>>

Server ==
  {[Deployment("server", shipped, v[1], v[2], v[2] # <<>>, v[3], v[4])
      EXCEPT !.features = IF v[3] = "token" THEN {"admin"} ELSE {}] :
     shipped \in ServerFiles,
     v \in {<<{}, <<>>, "none", {}>>,
            <<{H(0), T(0)}, <<1, 2>>, "approle",
              {History(0, <<ClickHouse>>, Credentials, "valid"), Telemetry(<<Otel>>, KeyFile, "none")}>>,
            <<{H(0), H(1)}, <<2, 60>>, "token", {History(1, <<Elasticsearch>>, NoOptions, "valid")}>>,
            <<{H(0), T(0), T(1)}, <<1>>, "none", {}>>,
            <<{H(1)}, <<3, 3>>, "approle", {}>>}}
  \cup
  {Deployment("server", shipped, {H(0)}, <<>>, FALSE, "none",
     {History(0, <<IF shipped.telemetry = <<Blank>> THEN Elasticsearch ELSE ClickHouse>>,
              CertFile, "none")}) : shipped \in ServerFiles}

Proxy ==
  {Deployment("proxy", [modules |-> Bald("LoadModule"), telemetry |-> telemetry],
              v[1], v[2], v[3], v[4], v[5]) :
     telemetry \in {Plain("TelemetryProvider"), Bald("TelemetryProvider")},
     v \in {<<{}, <<>>, FALSE, "approle", {}>>,
            <<{T(0)}, <<>>, TRUE, "none", {Telemetry(<<Otel>>, Credentials, "valid")}>>,
            <<{<<"TelemetryProvider", Odd, TRUE>>}, <<1>>, TRUE, "token", {}>>}}

AgentFiles ==
  {[item_keys |-> <<Text(55), Example("DenyKey"), Text(56), Blank>>,
    aliases |-> Plain("Alias"), user_parameters |-> <<Blank>>,
    modules |-> Plain("LoadModule")],
   [item_keys |-> <<Own("DenyKey"), Behind("AllowKey"), Blank, Text(57), Blank, Blank>>,
    aliases |-> Custom("Alias"), user_parameters |-> <<Own("UserParameter")>>,
    modules |-> <<Own("LoadModule"), Text(58), Example("LoadModule")>>]}

Rule(param, i) == <<param, i, TRUE>>

Agent ==
  {Deployment("agent", shipped, v[1], v[2], v[2] # <<>>, "none", {}) :
     shipped \in AgentFiles,
     v \in {<<{}, <<>>>>,
            <<{Rule("AllowKey", 0), Rule("DenyKey", 1), Rule("Alias", 0)}, <<1, 2>>>>,
            <<{Rule("DenyKeyRegexp", 0), Rule("AllowKey", 1), Rule("DenyKey", 2),
               Rule("UserParameter", 0), Rule("UserParameter", 1)}, <<60, 1>>>>,
            <<{Rule("AllowKey", 0), Rule("DenyKey", 0)}, <<1>>>>,
            <<{Rule("DenyKey", 0), <<"Alias", Odd, TRUE>>, <<"UserParameter", Bare, TRUE>>}, <<>>>>,
            <<{<<"AllowKeyRegexp", Odd, TRUE>>}, <<1>>>>,
            <<{Rule("AllowKeyRegexp", 0), <<"Alias", 0, FALSE>>}, <<>>>>}}

PluginFile(param) == <<ActiveLine(param, 70), Text(59)>>

Agent2 ==
  {Deployment("agent2",
     [item_keys |-> <<Behind("DenyKeyRegexp")>>, aliases |-> <<Blank>>,
      user_parameters |-> Bald("UserParameter"),
      mongodb |-> PluginFile("Plugins.MongoDB.System.Path"),
      postgresql |-> Plain("Plugins.PostgreSQL.System.Path"),
      mssql |-> Custom("Plugins.MSSQL.System.Path"),
      ember |-> <<Blank>>],
     variables, <<>>, FALSE, "none", {}) :
     variables \in {{}, {Rule("DenyKey", 0), Rule("Alias", 0)},
                    {Rule("AllowKey", 0), Rule("DenyKeyRegexp", 1), Rule("UserParameter", 0)}}}

Mcp ==
  {Deployment("mcp", [template |-> template, tool_access |-> <<>>],
              variables, <<>>, FALSE, "none", {}) :
     template \in {<<Own("DenyTool"), ActiveLine("DenyTool", 62)>>,
                   <<Text(63), Behind("AllowTool"), Blank>>},
     variables \in {{}, {Rule("AllowToolRegexp", 0), Rule("DenyTool", 1)},
                    {Rule("DenyTool", 1)}}}

\* A new database, that of an older version, and one with half a schema.
Databases ==
  {<<>>, <<Statement("hosts"), VersionTable, Text(64), VersionRow>>,
   <<Statement("hosts"), VersionTable>>, <<Statement("hosts")>>}

Sqlite ==
  {Deployment("sqlite", [db |-> db, transaction |-> <<>>, modules |-> <<Blank>>,
                         telemetry |-> Plain("TelemetryProvider")],
              variables, <<1>>, TRUE, "none", {}) :
     db \in Databases, variables \in {{}, {T(0)}}}

Placeholder(name) == <<"placeholder", name, 0>>
About(name) == <<"text", name, 65>>

Web(program, shipped, variables, providers, vault, features, faulty, setting) ==
  [Deployment(program, shipped, variables, <<>>, FALSE, vault, providers)
     EXCEPT !.features = features, !.faulty = faulty, !.setting = setting]

\* Links and includes of the image, or of a container that ran before.
NginxFiles ==
  {[php |-> <<Text(66)>>, access_log |-> old, user |-> old, real_ip |-> old,
    listen_ipv6 |-> old, listen_ipv6_ssl |-> old,
    http |-> links[1], https |-> links[2],
    server_common |-> <<Placeholder("FCGI_READ_TIMEOUT"), Text(67),
                        Placeholder("HTTP_INDEX_FILE")>>,
    nginx_conf |-> <<Text(68), Placeholder("EXPOSE_WEB_SERVER_INFO"),
                     Placeholder("OTHER")>>] :
     old \in {<<Text(69)>>}, links \in {<<<<Text(70)>>, <<>>>>, <<<<>>, <<Link("https")>>>>}}

Nginx ==
  {Web("nginx", shipped, v[1], v[2], v[3], v[4], v[5], v[6]) :
     shipped \in NginxFiles,
     v \in {<<{H(0), H(1), T(0)},
              {History(0, <<Elasticsearch>>, NoOptions, "none"), History(1, <<ClickHouse>>, Credentials, "valid"),
               Telemetry(<<Otel>>, KeyFile, "none")},
              "token", {"root", "http", "https", "certs", "ipv6"}, {}, 81>>,
            <<{}, {History(Plural, <<Elasticsearch, Sql, ClickHouse>>, NoOptions, "none")},
              "none", {"http", "real_ip"}, {}, 82>>,
            <<{}, {History(Plural, <<Elasticsearch>>, NoOptions, "none")},
              "none", {"root", "https", "certs"}, {"FCGI_READ_TIMEOUT"}, 81>>}}

Apache ==
  {Web("apache", [php |-> <<Text(66)>>, http |-> <<>>, https |-> link,
                  server_common |-> <<About("real_ip"), About("real_ip_header"), Text(71)>>],
       v[1], v[2], v[3], v[4], {}, 83) :
     link \in {<<Text(72)>>, <<Link("https")>>},
     v \in {<<{T(0)},
              {Telemetry(<<[provider |-> <<"clickhouse">>, url |-> <<"http">>]>>, CertFile, "none"),
               History(Plural, <<ClickHouse>>, Credentials, "none")},
              "approle", {"root", "http", "certs", "https", "real_ip"}>>,
            <<{T(1)}, {}, "none", {"root"}>>,
            <<{H(0)}, {History(0, <<Elasticsearch>>, NoOptions, "valid")},
              "none", {"certs", "http", "real_ip", "real_ip_header"}>>}}

MCDeployments ==
  Server \cup Proxy \cup Sqlite \cup Agent \cup Agent2 \cup Mcp \cup Nginx \cup Apache
=============================================================================
