-------------------------- MODULE StorageProviders --------------------------
(***************************************************************************)
(* How the providers of history and telemetry get from the environment of  *)
(* a container to its service, as functions: the server and the proxies    *)
(* read options in their native syntax, the frontend one list for all.     *)
(* What the service should find is stated apart from that, for             *)
(* ServiceStart to compare.                                                *)
(*                                                                         *)
(* Code modelled: internal/storageprovider, what internal/storageinit      *)
(* refuses of a provider with a schema, internal/server/history_provider   *)
(* and internal/web (history_provider.go, telemetry_provider.go).          *)
(*                                                                         *)
(* A provider is a record:                                                 *)
(*   param    the parameter it is for                                      *)
(*   index    the number of its variable, or Plural for the list           *)
(*   items    its JSON objects: one, any number for the list, none when    *)
(*            the variable has the native syntax already or there is none  *)
(*   secrets  the options that come with variables of their own            *)
(*   schema   its _SCHEMA: "none", "valid" or "invalid"                    *)
(* Options are functions from names to values; a value is a tuple of one   *)
(* element or, for an absolute path, of directory and name.  The types of  *)
(* a history provider are a tuple; <<>> is no valid value.                 *)
(***************************************************************************)
EXTENDS ConfigFiles, Functions

Plural == -3
NoOptions == <<>>

\* What the first says of an option wins.
Over(first, second) ==
  [k \in DOMAIN first \cup DOMAIN second |->
     IF k \in DOMAIN first THEN first[k] ELSE second[k]]

TlsFiles == {"ssl_cert_file", "ssl_key_file"}
Managed == {"ssl_ca_file", "ssl_ca_location", "ssl_cert_location", "ssl_key_location"}
Location(file) == IF file = "ssl_cert_file" THEN "ssl_cert_location" ELSE "ssl_key_location"

\* The options with a secret of their own.
SecretOptions ==
  {"username", "password", "ssl_key_password", "ssl_ca_location"} \cup TlsFiles

\* The types of its values are an option of a history provider alone.
TypeOption(param) == IF param = "HistoryProvider" THEN {"types"} ELSE {}

Reserved(param) == IF param = "HistoryProvider" THEN {"value_types", "vault_path"} ELSE {}

Supported(param) ==
  IF param = "HistoryProvider" THEN {"clickhouse", "elasticsearch", "sql"} ELSE {"clickhouse"}

OfParam(providers, param) == {p \in providers : p.param = param}
IndexedOf(providers, param) == {p \in OfParam(providers, param) : p.index # Plural}
ListOf(providers, param) == OfParam(providers, param) \ IndexedOf(providers, param)

-----------------------------------------------------------------------------
(* Parameter.validate *)

Name(fields) == IF "provider" \in DOMAIN fields THEN Head(fields["provider"]) ELSE ""

\* The files an object names; for other providers these are plain options.
FilesOf(fields) ==
  IF Name(fields) = "clickhouse" THEN DOMAIN fields \cap TlsFiles ELSE {}

HasSecrets(secrets) == secrets # NoOptions

\* Credentials are for ClickHouse only, and a file is named once.
Applicable(fields, secrets) ==
  /\ HasSecrets(secrets) => Name(fields) = "clickhouse"
  /\ FilesOf(fields) \cap DOMAIN secrets = {}

Decodable(param, fields, secrets) ==
  /\ Name(fields) \in Supported(param)
  /\ DOMAIN fields \cap (Managed \cup Reserved(param)) = {}
  /\ \A k \in FilesOf(fields) \cup (DOMAIN fields \cap TypeOption(param)) :
       fields[k] \notin {<<>>, <<"">>}
  /\ Applicable(fields, secrets)

Distinct(seq) == FoldLeft(LAMBDA kept, e : IF Contains(kept, e) THEN kept ELSE Append(kept, e), <<>>, seq)

Verified == [k \in {"ssl_verify_peer", "ssl_verify_host"} |-> <<"true">>]

\* What the variables say wins; telemetry over https is verified unless asked
\* otherwise.
Decoded(param, fields, secrets) ==
  LET given == Over(secrets, fields)
      single == [k \in DOMAIN given |->
                   IF k \in TypeOption(param) THEN Distinct(given[k]) ELSE given[k]]
  IN IF param = "TelemetryProvider" /\ "url" \in DOMAIN given /\ given["url"] = <<"https">>
     THEN Over(single, Verified) ELSE single

-----------------------------------------------------------------------------
(* ConfigureNative *)

Renderable(fields) == <<>> \notin Range(fields)

\* A path becomes a location and a name, which the service joins again.
Rendered(param, fields) ==
  LET split == {k \in FilesOf(fields) : Len(fields[k]) = 2}
      Plain == [k \in DOMAIN fields \ TypeOption(param) |->
                  IF k \in split THEN <<fields[k][2]>> ELSE fields[k]]
      Locations == [l \in {Location(k) : k \in split} |->
                      <<fields[CHOOSE k \in split : Location(k) = l][1]>>]
      Types == [t \in {"value_types" : k \in DOMAIN fields \cap TypeOption(param)} |->
                  fields["types"]]
  IN Over(Plain, Over(Locations, Types))

HistoryTypes == {"dbl", "uint", "str", "text", "log", "json"}

\* What preparing a schema asks of its provider, in the options as decoded.
Preparable(p) ==
  p.schema # "none" =>
    /\ p.items # <<>>
    /\ p.schema = "valid"
    /\ LET fields == Decoded(p.param, p.items[1], p.secrets)
       IN /\ Name(fields) \in {"clickhouse", "elasticsearch"}
          /\ "url" \in DOMAIN fields
          /\ p.param = "HistoryProvider" =>
               "types" \in DOMAIN fields /\ Range(fields["types"]) \subseteq HistoryTypes
          /\ "vault_path" \in DOMAIN fields =>
               DOMAIN fields \cap {"username", "password"} = {}

\* Credentials and schemas have a provider, and there is one for telemetry.
Attached(variables, providers, param) ==
  /\ Collectable(variables, {param}, TRUE)
  /\ \A p \in IndexedOf(providers, param) : <<param, p.index, TRUE>> \in variables
  /\ param = "TelemetryProvider" => Cardinality(Indexed(variables, {param})) < 2

\* The server has no use for the list of history providers.
NativeAccepted(variables, providers, param) ==
  /\ Attached(variables, providers, param)
  /\ param = "HistoryProvider" => \A p \in ListOf(providers, param) : p.items = <<>>
  /\ \A p \in IndexedOf(providers, param) :
       /\ p.items = <<>> => ~HasSecrets(p.secrets)
       /\ p.items # <<>> =>
            /\ Decodable(param, p.items[1], p.secrets)
            /\ Renderable(Decoded(param, p.items[1], p.secrets))
       /\ Preparable(p)

\* The variables for secrets and schemas are deleted.
Cleared(p) == [p EXCEPT !.secrets = NoOptions, !.schema = "none"]

\* The list is not touched.
Native(providers, param) ==
  {[Cleared(p) EXCEPT !.items =
      IF @ = <<>> THEN @ ELSE <<Rendered(param, Decoded(param, @[1], p.secrets))>>] :
     p \in IndexedOf(providers, param)}
    \cup ListOf(providers, param)

-----------------------------------------------------------------------------
(* WebProviders *)

ForWeb(param, provider) ==
  CASE param = "TelemetryProvider" ->
         {"provider", "url", "db", "vault_path", "ssl_cert_file", "ssl_key_file",
          "ssl_ca_location", "ssl_key_password", "ssl_verify_peer",
          "ssl_verify_host", "username", "password"}
    [] provider = "clickhouse" -> {"provider", "types", "url", "db", "username", "password"}
    [] provider = "elasticsearch" -> {"provider", "types", "url"}
    [] OTHER -> {}

WebDefaults(param) ==
  IF param = "TelemetryProvider"
  THEN [k \in (ForWeb(param, "clickhouse") \cup {"ssl_ca_file"}) \ {"provider"} |->
          IF k \in DOMAIN Verified THEN <<"false">> ELSE <<"">>]
  ELSE NoOptions

\* A file without a directory is one of the mounted secrets of its kind.
Resolved(param, fields) ==
  [k \in DOMAIN fields |->
     IF param = "TelemetryProvider" /\ k \in FilesOf(fields) /\ Len(fields[k]) = 1 /\ fields[k] # <<"">>
     THEN <<Location(k)>> \o fields[k] ELSE fields[k]]

WebFields(param, fields) ==
  Resolved(param,
    Over(Restrict(fields, DOMAIN fields \cap ForWeb(param, Name(fields))), WebDefaults(param)))

\* Every provider is JSON here; indexed ones and the list exclude each other,
\* and credentials for the list are those of its only provider.
WebAccepted(variables, providers, param) ==
  /\ Attached(variables, providers, param)
  /\ {p.index : p \in IndexedOf(providers, param)} = {v[2] : v \in Indexed(variables, {param})}
  /\ \A p \in IndexedOf(providers, param) : p.items # <<>>
  /\ \A p \in ListOf(providers, param) :
       /\ p.items # <<>> => param = "HistoryProvider" /\ Indexed(variables, {param}) = {}
       /\ HasSecrets(p.secrets) /\ param = "HistoryProvider" => Len(p.items) = 1
  /\ \A p \in OfParam(providers, param) :
       \A i \in DOMAIN p.items : Decodable(param, p.items[i], p.secrets)

\* The objects the frontend's list is made from, each a provider and the number
\* of its item: the indexed ones in their order, and those of the list.
IndexedSources(providers, param) ==
  LET indexed == IndexedOf(providers, param)
  IN [n \in 1..Cardinality({p.index : p \in indexed}) |->
        <<CHOOSE p \in indexed : p.index = n - 1, 1>>]

ListSources(providers, param) ==
  LET list == CHOOSE p \in ListOf(providers, param) : TRUE
  IN IF ListOf(providers, param) = {} THEN <<>>
     ELSE [i \in DOMAIN list.items |-> <<list, i>>]

Sources(providers, param) == IndexedSources(providers, param) \o ListSources(providers, param)

Item(source) == source[1].items[source[2]]

\* The list the frontend reads; the providers it has no use for are left out.
WebList(providers, param) ==
  LET all == Sources(providers, param)
      shown == Only(all, {x \in Range(all) : ForWeb(param, Name(Item(x))) # {}})
  IN [n \in DOMAIN shown |->
        WebFields(param, Decoded(param, Item(shown[n]), shown[n][1].secrets))]

OnWeb(providers, param) ==
  {[param |-> param, index |-> Plural, items |-> WebList(providers, param),
    secrets |-> NoOptions, schema |-> "none"]}

-----------------------------------------------------------------------------
(* What the service should find *)

GivenOptions(source) == DOMAIN source[1].secrets \cup DOMAIN Item(source)

\* An option as the operator wants it.
Wanted(source, k) ==
  LET secrets == source[1].secrets
      given == IF k \in DOMAIN secrets THEN secrets[k] ELSE Item(source)[k]
  IN IF k \in TypeOption(source[1].param) THEN Distinct(given) ELSE given

\* An option as the service reads it: it joins location and name of a file.
Understood(param, fields, k) ==
  IF k \in TypeOption(param) THEN fields["value_types"]
  ELSE IF k \in FilesOf(fields) /\ Location(k) \in DOMAIN fields
  THEN fields[Location(k)] \o fields[k]
  ELSE fields[k]

\* No credential is lost, none overruled, and none left behind in a variable.
NativeIntended(providers, param, after) ==
  \A p \in IndexedOf(providers, param) : \E q \in IndexedOf(after, param) :
    /\ q.index = p.index /\ ~HasSecrets(q.secrets) /\ q.schema = "none"
    /\ p.items # <<>> =>
         \A k \in GivenOptions(<<p, 1>>) :
           Understood(param, q.items[1], k) = Wanted(<<p, 1>>, k)

\* An option as the frontend should have it: a file with its directory.
Located(param, fields, k, value) ==
  IF param = "TelemetryProvider" /\ k \in FilesOf(fields) /\ Len(value) = 1
  THEN <<Location(k)>> \o value ELSE value

\* What the frontend reads of a provider: all the options for it and no other.
Delivered(param, source, fields) ==
  LET shown == ForWeb(param, Name(fields)) \cap GivenOptions(source)
  IN /\ shown \subseteq DOMAIN fields
     /\ \A k \in shown : fields[k] = Located(param, fields, k, Wanted(source, k))
     /\ DOMAIN fields \subseteq shown \cup DOMAIN WebDefaults(param) \cup DOMAIN Verified

Objects(providers, param) ==
  UNION {{p} \X DOMAIN p.items : p \in OfParam(providers, param)}

Earlier(x, y) == x[1].index < y[1].index \/ (x[1].index = y[1].index /\ x[2] < y[2])

\* The frontend has every provider it can use, in their order.
WebIntended(providers, param, after) ==
  LET used == {x \in Objects(providers, param) : Name(Item(x)) # "sql"}
  IN \E q \in after :
       /\ after = {q} /\ ~HasSecrets(q.secrets)
       /\ \E order \in [DOMAIN q.items -> used] :
            /\ Range(order) = used
            /\ \A i, j \in DOMAIN order : i < j => Earlier(order[i], order[j])
            /\ \A i \in DOMAIN order : Delivered(param, order[i], q.items[i])

\* The variables and files of a provider: a number, one object for a number,
\* and values for its options, where a file has a name.
WellFormed(p, names) ==
  /\ DOMAIN p = {"param", "index", "items", "secrets", "schema"}
  /\ p.index \in Nat \cup {Plural}
  /\ p.items \in Seq(Range(p.items))
  /\ p.index # Plural => Len(p.items) < 2
  /\ DOMAIN p.secrets \subseteq SecretOptions
  /\ \A options \in Range(p.items) \cup {p.secrets} :
       \A k \in DOMAIN options : options[k] \in Seq(names)
  /\ \A k \in DOMAIN p.secrets \cap TlsFiles : p.secrets[k] # <<"">>
=============================================================================
