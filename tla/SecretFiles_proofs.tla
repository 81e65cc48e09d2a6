------------------------- MODULE SecretFiles_proofs -------------------------
(***************************************************************************)
(* Theorems about SecretFiles, for any providers, any configurations and   *)
(* any number of starts and updates.                                       *)
(***************************************************************************)
EXTENDS SecretFiles, SequenceTheorems, TLAPS

-----------------------------------------------------------------------------
(* The inductive invariant *)

Running == status \in {"resolving", "ready"}

\* The secrets that have been handled in this start, and those of a
\* configuration that have to be.
Behind(s) == \E i \in 1..next - 1 : Order[i] = s
Handled(s) == \/ stage \in {"shared", "vault", "ca", "providers"}
              \/ stage = "files" /\ Behind(s)
InUse(s) == s \in Plan(config) /\ ~Unused(s)

\* The directories a start rebuilds, and when it has begun to.
RebuildsVault == config.command = "service" /\ InUse("vault") /\ ~config.inside
RebuildsCA == UsesCA(config) /\ ~config.caGiven
VaultBegun == stage \in {"ca", "providers"} \/ (stage = "vault" /\ next = 2)
CABegun == stage = "providers" \/ (stage = "ca" /\ next = 2)
TrustBegun(p) == stage = "providers" /\ Behind(p)

\* Of the places T this start leaves exactly those of F, with files of its own:
\* all others are going to be removed, and those of F are written already or
\* going to be.
Built(T, F) ==
  /\ T \cap Present \subseteq clear \cup F
  /\ T \cap fill \subseteq F
  /\ \A p \in F : p \in fill \/ (p \notin clear /\ disk[p] >= since)

VaultFiles == {<<VaultDir, n>> : n \in config.shared} \cup {FileOf("vault")}
VaultLeft == IF RebuildsVault THEN VaultFiles ELSE {}

\* What a start knows of the secrets it has handled.
EnvKnown ==
  /\ \A s \in Secrets : env[s] # "unset" <=> (Handled(s) /\ InUse(s))
  /\ \A s \in Secrets : env[s] # "unset" =>
       config.source[s] = "inline" \/ Located(config, s)
  /\ \A s \in Secrets : env[s] = "managed" =>
       \/ config.source[s] = "inline"
       \/ s = "vault" /\ VaultBegun /\ ~config.inside

\* The managed files: written for a secret given inline, removed for one that
\* is not used, and for every provider without one.
FilesBuilt ==
  /\ \A s \in Files : env[s] = "managed" => Built({FileOf(s)}, {FileOf(s)})
  /\ \A s \in Files \cap Plan(config) :
       Handled(s) /\ env[s] = "unset" => Built({FileOf(s)}, {})
  /\ \A p \in ProvidersFor(config.command) :
       env[p] # "managed" => Built({FileOf(p)}, {})

\* The directories of certificates.
VaultBuilt == VaultBegun /\ config.command = "service" => Built(Tree(VaultDir), VaultLeft)
CABuilt == CABegun /\ RebuildsCA => Built(Tree(GlobalCA), CAFiles(config))
TrustBuilt ==
  \A p \in ProvidersFor(config.command) :
    IF TrustBegun(p) /\ env[p] # "unset"
    THEN Built(Tree(ProviderCA(p)), TrustFiles(p))
    ELSE Built(Tree(ProviderCA(p)), {})

\* What is written in the parts that write.
FillShape ==
  /\ stage \in {"cleanup", "shared"} => fill = {}
  /\ stage = "vault" /\ FileOf("vault") \in fill =>
       RebuildsVault /\ next = 2 /\ held >= since
  /\ stage = "providers" =>
       \A p \in fill : \E q \in Providers : env[q] # "unset" /\ p \in TrustFiles(q)

TempFresh ==
  temp # NoTemp =>
    /\ temp.place \in fill /\ clear = {}
    /\ temp.version >= since
    /\ stage = "vault" /\ temp.place = FileOf("vault") => ~config.taken

\* The checks a start has passed so far.
Passed ==
  /\ ~PlanError(config)
  /\ stage # "cleanup" =>
       ~(config.clash /\ "vault" \in Plan(config)) /\ ~EmptyPlan(config)
  /\ stage = "vault" => config.command = "service"
  /\ stage \in {"vault", "ca", "providers"} /\ UsesShared(config) => ~config.sharedTwice
  /\ VaultBegun /\ RebuildsVault /\ config.taken =>
       stage = "vault" /\ FileOf("vault") \in fill
  /\ CABegun /\ RebuildsCA => ~config.caTwice

Ended ==
  status = "ready" =>
    \/ /\ stage = "cleanup" /\ EmptyPlan(config)
       /\ ~(config.clash /\ "vault" \in Plan(config))
    \/ stage = "providers" /\ next = Len(Order) + 1

\* What holds whether or not a start is under way.
Bounds == since # 0 /\ since <= version
Quiescent == status # "resolving" => Idle
Judged == status = "refused" => ~Acceptable(config)

Progress ==
  EnvKnown /\ FilesBuilt /\ VaultBuilt /\ CABuilt /\ TrustBuilt
    /\ FillShape /\ TempFresh /\ Passed /\ Ended

IInv == TypeOK /\ Bounds /\ Quiescent /\ Judged /\ (Running => Progress)

-----------------------------------------------------------------------------
(* The order of the secrets and the places of the directory *)

LEMMA ConfigurationTyped ==
  ASSUME NEW c \in Configurations
  PROVE  /\ c \in Configuration
         /\ c.inside => c.source["vault"] \in {"relative", "absolute"}
  BY ConfigurationAssumption

Lists(seq, s) == \E i \in 1..Len(seq) : seq[i] = s

LEMMA Concatenated ==
  ASSUME NEW s \in Seq(Secrets), NEW t \in Seq(Secrets)
  PROVE  /\ s \o t \in Seq(Secrets)
         /\ Len(s) \in Nat /\ Len(t) \in Nat /\ Len(s \o t) = Len(s) + Len(t)
         /\ \A x : Lists(s, x) \/ Lists(t, x) => Lists(s \o t, x)
<1>1. /\ s \o t \in Seq(Secrets) /\ Len(s \o t) = Len(s) + Len(t)
      /\ \A i \in 1..Len(s) + Len(t) :
           (s \o t)[i] = IF i <= Len(s) THEN s[i] ELSE t[i - Len(s)]
  BY ConcatProperties
<1>2. Len(s) \in Nat /\ Len(t) \in Nat
  BY LenProperties
<1> DEFINE st == s \o t
<1> HIDE DEF st
<1>3. /\ Len(st) = Len(s) + Len(t)
      /\ \A i \in 1..Len(s) + Len(t) :
           st[i] = IF i <= Len(s) THEN s[i] ELSE t[i - Len(s)]
  BY <1>1 DEF st
<1>4. ASSUME NEW x, Lists(s, x) PROVE Lists(st, x)
  <2>1. PICK i \in 1..Len(s) : s[i] = x
    BY <1>4 DEF Lists
  <2>2. i \in 1..Len(st) /\ st[i] = x
    BY <1>2, <1>3, <2>1
  <2>3. QED
    BY <2>2 DEF Lists
<1>5. ASSUME NEW x, Lists(t, x) PROVE Lists(st, x)
  <2>1. PICK i \in 1..Len(t) : t[i] = x
    BY <1>5 DEF Lists
  <2>2. Len(s) + i \in 1..Len(st) /\ st[Len(s) + i] = x
    BY <1>2, <1>3, <2>1, SMTT(60)
  <2>3. QED
    BY <2>2 DEF Lists
<1>6. QED
  BY <1>1, <1>2, <1>4, <1>5 DEF st

\* Every secret has a number in the order in which they are resolved.
LEMMA OrderComplete ==
  /\ Len(Order) \in Nat /\ Len(Order) >= 4
  /\ DOMAIN Order = 1..Len(Order)
  /\ \A i \in 1..Len(Order) : Order[i] \in Secrets
  /\ \A s \in Secrets : Lists(Order, s)
<1> DEFINE A == <<"tls", "database", "vault">>
           C == <<"credential">>
           H == HistoryProviders
           T == TelemetryProviders
           AH == A \o H
           AHT == AH \o T
<1>1. A \in Seq(Secrets) /\ Len(A) >= 3 /\ C \in Seq(Secrets) /\ Len(C) >= 1
  BY DEF Secrets, Files
<1>2. Lists(A, "tls") /\ Lists(A, "database") /\ Lists(A, "vault") /\ Lists(C, "credential")
  <2>1. A[1] = "tls" /\ A[2] = "database" /\ A[3] = "vault" /\ C[1] = "credential"
    OBVIOUS
  <2>2. 1 \in 1..Len(A) /\ 2 \in 1..Len(A) /\ 3 \in 1..Len(A) /\ 1 \in 1..Len(C)
    BY <1>1
  <2> HIDE DEF A, C
  <2>3. QED
    BY <2>1, <2>2, Zenon DEF Lists
<1>3. /\ DOMAIN H = 1..Len(H) /\ Len(H) \in Nat /\ H \in Seq(Secrets)
      /\ DOMAIN T = 1..Len(T) /\ Len(T) \in Nat /\ T \in Seq(Secrets)
  <2>1. /\ Len(H) \in Nat /\ DOMAIN H = 1..Len(H) /\ H \in Seq(STRING)
        /\ Len(T) \in Nat /\ DOMAIN T = 1..Len(T) /\ T \in Seq(STRING)
    BY ProviderAssumption, LenProperties
  <2>2. \A i \in 1..Len(H) : H[i] \in Secrets
    BY <2>1 DEF Secrets, Files, Providers, Elements
  <2>3. \A i \in 1..Len(T) : T[i] \in Secrets
    BY <2>1 DEF Secrets, Files, Providers, Elements
  <2>4. QED
    BY <2>1, <2>2, <2>3
<1>4. \A x : /\ x \in Elements(H) => Lists(H, x)
             /\ x \in Elements(T) => Lists(T, x)
  BY <1>3 DEF Elements, Lists
<1> HIDE DEF A, C, H, T
<1>5. /\ AH \in Seq(Secrets) /\ Len(AH) \in Nat /\ Len(AH) >= 3
      /\ \A x : Lists(A, x) \/ Lists(H, x) => Lists(AH, x)
  BY <1>1, <1>3, Concatenated
<1> HIDE DEF AH
<1>6. /\ AHT \in Seq(Secrets) /\ Len(AHT) \in Nat /\ Len(AHT) >= 3
      /\ \A x : Lists(AH, x) \/ Lists(T, x) => Lists(AHT, x)
  BY <1>3, <1>5, Concatenated
<1>7. Order = AHT \o C
  BY DEF Order, AHT, AH, A, C, H, T
<1> HIDE DEF AHT
<1>8. /\ Order \in Seq(Secrets) /\ Len(Order) \in Nat /\ Len(Order) >= 4
      /\ \A x : Lists(AHT, x) \/ Lists(C, x) => Lists(Order, x)
  BY <1>1, <1>6, <1>7, Concatenated
<1>9. \A x \in Secrets : Lists(Order, x)
  BY <1>2, <1>4, <1>5, <1>6, <1>8 DEF Secrets, Files, Providers, H, T
<1>10. DOMAIN Order = 1..Len(Order) /\ \A i \in 1..Len(Order) : Order[i] \in Secrets
  BY <1>8, LenProperties, ElementOfSeq
<1>11. QED
  BY <1>8, <1>9, <1>10

LEMMA PlacesIn ==
  /\ \A s \in Files : FileOf(s) \in Places
  /\ Tree(VaultDir) \subseteq Places /\ FileOf("vault") \in Tree(VaultDir)
  /\ Tree(GlobalCA) \subseteq Places
  /\ \A p \in Providers : Tree(ProviderCA(p)) \subseteq Places
<1>1. \A dir \in Directories : Tree(dir) \subseteq Places
  BY DEF Places
<1>2. \A s \in Files : <<s>> \in Directories /\ FileOf(s) \in Tree(<<s>>)
  BY DEF Directories, FileOf, Tree, Secrets
<1>3. VaultDir = <<"vault">> /\ "vault" \in Files
  BY DEF VaultDir, Files
<1>4. GlobalCA \in Directories /\ \A p \in Providers : ProviderCA(p) \in Directories
  BY DEF Directories
<1>5. QED
  BY <1>1, <1>2, <1>3, <1>4

\* The places of different secrets and directories are different.
LEMMA PlacesApart ==
  /\ \A s, t : FileOf(s) = FileOf(t) => s = t
  /\ \A s : FileOf(s) \in Tree(VaultDir) => s = "vault"
  /\ \A s : FileOf(s) \notin Tree(GlobalCA)
  /\ \A s, p : FileOf(s) \notin Tree(ProviderCA(p))
  /\ Tree(VaultDir) \cap Tree(GlobalCA) = {}
  /\ \A p : Tree(VaultDir) \cap Tree(ProviderCA(p)) = {}
  /\ \A p \in Providers : Tree(GlobalCA) \cap Tree(ProviderCA(p)) = {}
  /\ \A p, q : p # q => Tree(ProviderCA(p)) \cap Tree(ProviderCA(q)) = {}
<1>1. \A dir, place : place \in Tree(dir) => place[1] = dir
  BY DEF Tree
<1>2. \A s : FileOf(s)[1] = <<s>>
  BY DEF FileOf
<1>3. \A s, t : <<s>> = <<t>> => s = t
  OBVIOUS
<1>4. \A s, t, u : <<s>> # <<t, u>>
  <2>1. \A s, t, u : Len(<<s>>) = 1 /\ Len(<<t, u>>) = 2
    OBVIOUS
  <2>2. QED
    BY <2>1
<1>5. \A s, t, u, v : <<s, u>> = <<t, v>> => s = t
  OBVIOUS
<1>6. \A p \in Providers : p # "ssl"
  BY ProviderAssumption
<1> USE DEF VaultDir, GlobalCA, ProviderCA
<1>7. \A s, t : FileOf(s) = FileOf(t) => s = t
  BY <1>2, <1>3
<1>8. \A s : FileOf(s) \in Tree(VaultDir) => s = "vault"
  BY <1>1, <1>2, <1>3
<1>9. \A s : FileOf(s) \notin Tree(GlobalCA)
  BY <1>1, <1>2, <1>4
<1>10. \A s, p : FileOf(s) \notin Tree(ProviderCA(p))
  BY <1>1, <1>2, <1>4
<1>11. Tree(VaultDir) \cap Tree(GlobalCA) = {}
  BY <1>1, <1>4
<1>12. \A p : Tree(VaultDir) \cap Tree(ProviderCA(p)) = {}
  BY <1>1, <1>4
<1>13. \A p \in Providers : Tree(GlobalCA) \cap Tree(ProviderCA(p)) = {}
  BY <1>1, <1>5, <1>6
<1>14. \A p, q : p # q => Tree(ProviderCA(p)) \cap Tree(ProviderCA(q)) = {}
  BY <1>1, <1>5
<1>15. QED
  BY <1>7, <1>8, <1>9, <1>10, <1>11, <1>12, <1>13, <1>14

-----------------------------------------------------------------------------
(* Types *)

LEMMA TypeInit == Init => TypeOK
<1> SUFFICES ASSUME Init PROVE TypeOK
  OBVIOUS
<1>1. next \in 1..(Len(Order) + 1)
  BY OrderComplete DEF Init
<1>2. env \in [Secrets -> {"unset", "managed", "external"}] /\ disk \in [Places -> Nat]
  BY DEF Init
<1>3. /\ status \in {"down", "resolving", "ready", "refused", "failed"}
      /\ config \in Configurations
      /\ stage \in {"cleanup", "files", "shared", "vault", "ca", "providers"}
      /\ clear \subseteq Places /\ fill \subseteq Places
      /\ held \in Nat /\ version \in Nat /\ since \in Nat /\ starts \in Nat
      /\ temp = NoTemp
  BY DEF Init
<1>4. QED
  BY <1>1, <1>2, <1>3 DEF TypeOK

\* A start that ends leaves nothing but what is on disk.
LEMMA GoneTyped ==
  ASSUME TypeOK, Gone, disk' \in [Places -> Nat],
         status' \in {"down", "refused", "failed"}
  PROVE  TypeOK'
<1>1. next' \in 1..(Len(Order) + 1) /\ stage' = "cleanup"
  BY OrderComplete DEF Gone, Enter
<1>2. env' \in [Secrets -> {"unset", "managed", "external"}]
  BY DEF Gone
<1>3. clear' = {} /\ fill' = {} /\ held' = 0 /\ temp' = NoTemp
      /\ UNCHANGED <<config, version, since, starts>>
  BY DEF Gone
<1>4. QED
  BY <1>1, <1>2, <1>3 DEF TypeOK

LEMMA TypeNext ==
  ASSUME TypeOK, Running => FillShape, [Next]_vars
  PROVE  TypeOK'
<1> USE OrderComplete DEF TypeOK, work, Enter
<1>1. CASE Start
  <2>1. PICK c \in Configurations :
          /\ config' = c /\ env' = [s \in Secrets |-> "unset"]
          /\ stage' = "cleanup" /\ next' = 1
          /\ \/ status' = "refused" /\ clear' = {}
             \/ status' = "resolving" /\ clear' = Stale(c) \cap Present
    BY <1>1, Zenon DEF Start
  <2>2. clear' \subseteq Places
    BY <2>1 DEF Present
  <2>3. env' \in [Secrets -> {"unset", "managed", "external"}]
    BY <2>1
  <2>4. /\ version' \in Nat /\ since' \in Nat /\ starts' \in Nat
        /\ fill' = {} /\ held' = 0 /\ temp' = NoTemp /\ disk' = disk
    BY <1>1 DEF Start
  <2>5. QED
    BY <2>1, <2>2, <2>3, <2>4
<1>2. CASE Crash
  <2>1. disk' \in [Places -> Nat]
    BY <1>2 DEF Crash
  <2>2. QED
    BY <1>2, <2>1, GoneTyped DEF Crash
<1>3. ASSUME Refuse PROVE TypeOK'
  BY <1>3, GoneTyped DEF Refuse
<1>4. CASE IOFails
  BY <1>4, GoneTyped DEF IOFails
<1>5. CASE Update
  BY <1>5 DEF Update
<1>6. CASE Remove
  BY <1>6 DEF Remove, control
<1>7. CASE BeginWrite
  <2>1. PICK p \in fill : p[2] # "links" /\ temp' = [place |-> p, version |-> Content(p)]
    BY <1>7 DEF BeginWrite
  <2>2. Content(p) \in Nat
    <3>0. FillShape
      BY <1>7 DEF BeginWrite, Running
    <3>1. CASE stage = "providers" /\ p[2] # "external"
      <4>1. p[2] \in Files
        BY <3>0, <3>1, <2>1 DEF FillShape, TrustFiles, TrustFile, Links, Files
      <4>2. FileOf(p[2]) \in Places
        BY <4>1, PlacesIn
      <4>3. QED
        BY <3>1, <4>2 DEF Content
    <3>2. CASE ~(stage = "providers" /\ p[2] # "external")
      BY <3>2 DEF Content
    <3>3. QED
      BY <3>1, <3>2
  <2>3. temp' \in [place : Places, version : Nat]
    BY <2>1, <2>2
  <2>4. UNCHANGED <<status, config, stage, next, env, held, version, since, starts, clear, fill, disk>>
    BY <1>7 DEF BeginWrite, control
  <2>5. QED
    BY <2>3, <2>4
<1>8. CASE EndWrite
  BY <1>8 DEF EndWrite, control
<1>22. CASE Rehash
  BY <1>22 DEF Rehash, control
<1>9. CASE Normalize
  BY <1>3, <1>9, SMTT(60) DEF Normalize
<1>10. CASE Resolve
  <2>1. next + 1 \in 1..(Len(Order) + 1)
    BY <1>10 DEF Resolve
  <2>2. Managed(Current) \subseteq Places
    BY PlacesIn DEF Managed
  <2>3. CASE UNCHANGED <<status, config, stage, env, fill, held, temp, disk, version, since, starts>>
             /\ clear' = Managed(Current) \cap Present
             /\ next' = next + 1
    BY <2>1, <2>2, <2>3
  <2>4. CASE UNCHANGED <<status, config, stage, clear, held, temp, disk, version, since, starts>>
             /\ fill' = Managed(Current) /\ env' = [env EXCEPT ![Current] = "managed"]
             /\ next' = next + 1
    <3>1. env' \in [Secrets -> {"unset", "managed", "external"}]
      BY <2>4
    <3>2. QED
      BY <2>1, <2>2, <2>4, <3>1
  <2>5. CASE UNCHANGED <<status, config, stage, work, disk, version, since, starts>>
             /\ env' = [env EXCEPT ![Current] = "external"]
             /\ next' = next + 1
    <3>1. env' \in [Secrets -> {"unset", "managed", "external"}]
      BY <2>5
    <3>2. QED
      BY <2>1, <2>5, <3>1
  <2>6. QED
    BY <1>3, <1>10, <2>3, <2>4, <2>5 DEF Resolve
<1>11. CASE Skip
  BY <1>11 DEF Skip, At
<1>12. CASE SharedDirectories
  BY <1>3, <1>12, SMTT(60) DEF SharedDirectories
<1>13. CASE VaultTLS
  <2>1. FileOf("vault") \in Places
    BY PlacesIn DEF Files
  <2>2. clear' \subseteq Places /\ next' \in 1..(Len(Order) + 1)
    BY <1>13, PlacesIn DEF VaultTLS, Entries
  <2>3. UNCHANGED <<status, config, stage, temp, disk, version, since, starts>>
    BY <1>13 DEF VaultTLS
  <2>4. CASE Rebuilt(config)
    <3>1. held' \in Nat
      BY <1>13, <2>1, <2>4 DEF VaultTLS, Certificate
    <3>2. config.shared \subseteq SharedNames
      BY ConfigurationTyped DEF Configuration
    <3>3. fill' \subseteq Places
      <4>1. \A n \in config.shared : <<VaultDir, n>> \in Tree(VaultDir)
        BY <3>2 DEF Tree
      <4>2. fill' = {<<VaultDir, n>> : n \in config.shared} \cup {FileOf("vault")}
        BY <1>13, <2>4 DEF VaultTLS
      <4>3. QED
        BY <2>1, <4>1, <4>2, PlacesIn
    <3>4. env' \in [Secrets -> {"unset", "managed", "external"}]
      BY <1>13, <2>4 DEF VaultTLS
    <3>5. QED
      BY <2>2, <2>3, <3>1, <3>3, <3>4
  <2>5. CASE ~Rebuilt(config)
    BY <1>13, <2>2, <2>3, <2>5 DEF VaultTLS
  <2>6. QED
    BY <2>4, <2>5
<1>14. CASE VaultTaken
  BY <1>3, <1>14 DEF VaultTaken
<1>15. CASE VaultDone
  BY <1>15 DEF VaultDone
<1>16. CASE CADirectory
  <2>1. CASE /\ clear' = Entries(GlobalCA) /\ fill' = CAFiles(config)
             /\ next' = 2
             /\ UNCHANGED <<status, config, stage, env, held, temp, disk, version, since, starts>>
    <3>1. config.ca \subseteq SharedNames
      BY ConfigurationTyped DEF Configuration
    <3>2. CAFiles(config) \subseteq Tree(GlobalCA)
      BY <3>1 DEF CAFiles, Links, Tree
    <3>3. clear' \subseteq Places /\ fill' \subseteq Places
      BY <2>1, <3>2, PlacesIn DEF Entries
    <3>4. QED
      BY <2>1, <3>3
  <2>2. CASE next' = 2 /\ UNCHANGED <<status, config, stage, env, work, disk, version, since, starts>>
    BY <2>2
  <2>3. QED
    BY <1>3, <1>16, <2>1, <2>2 DEF CADirectory
<1>17. CASE CADone
  BY <1>17 DEF CADone
<1>18. CASE ProviderCAs
  <2>1. clear' \subseteq Places /\ fill' \subseteq Places
    <3>1. CASE Current \in Providers /\ env[Current] # "unset"
      <4>1. Tree(ProviderCA(Current)) \subseteq Places
        BY <3>1, PlacesIn
      <4>2. fill' = TrustFiles(Current) /\ clear' = Entries(ProviderCA(Current))
        BY <1>18, <3>1 DEF ProviderCAs
      <4>3. TrustFiles(Current) \subseteq Tree(ProviderCA(Current))
        BY <3>1 DEF TrustFiles, TrustFile, Links, Tree, Secrets, Files
      <4>4. QED
        BY <4>1, <4>2, <4>3 DEF Entries
    <3>2. CASE ~(Current \in Providers /\ env[Current] # "unset")
      BY <1>18, <3>2 DEF ProviderCAs
    <3>3. QED
      BY <3>1, <3>2
  <2>2. QED
    BY <1>18, <2>1 DEF ProviderCAs, At
<1>19. CASE Ready
  BY <1>19 DEF Ready
<1>20. CASE UNCHANGED vars
  BY <1>20 DEF vars
<1>21. QED
  BY <1>1, <1>2, <1>4, <1>5, <1>6, <1>7, <1>8, <1>9, <1>10, <1>11, <1>12, <1>13,
     <1>14, <1>15, <1>16, <1>17, <1>18, <1>19, <1>20, <1>22 DEF Next

-----------------------------------------------------------------------------
(* What the steps do to a directory that is built *)

\* It is untouched.
LEMMA BuiltStays ==
  ASSUME NEW T, NEW F, Built(T, F), UNCHANGED <<clear, fill, disk, since>>
  PROVE  Built(T, F)'
  BY DEF Built, Present

\* A place is removed or written, in this directory or in another one.
LEMMA BuiltOn ==
  ASSUME TypeOK, Bounds, TempFresh, Remove \/ BeginWrite \/ EndWrite \/ Rehash,
         NEW T, NEW F, Built(T, F)
  PROVE  Built(T, F)'
<1>1. CASE Remove
  <2>1. PICK p \in clear : disk' = [disk EXCEPT ![p] = 0] /\ clear' = clear \ {p}
    BY <1>1 DEF Remove
  <2>2. fill' = fill /\ since' = since
    BY <1>1 DEF Remove, control
  <2>3. Present' = Present \ {p}
    BY <2>1 DEF Present, TypeOK
  <2>4. \A q \in Places : q # p => disk'[q] = disk[q]
    BY <2>1 DEF TypeOK
  <2>5. ASSUME NEW q \in F, q \notin fill
        PROVE  q \notin clear' /\ disk'[q] >= since'
    <3>1. q \notin clear /\ disk[q] >= since
      BY <2>5 DEF Built
    <3>2. disk'[q] = disk[q]
      BY <2>1, <3>1 DEF TypeOK
    <3>3. QED
      BY <2>1, <2>2, <3>1, <3>2
  <2>6. QED
    BY <2>1, <2>2, <2>3, <2>5 DEF Built
<1>2. CASE BeginWrite
  BY <1>2, BuiltStays DEF BeginWrite, control
<1>3. CASE EndWrite
  <2>1. /\ temp.place \in fill /\ clear = {} /\ clear' = {}
        /\ temp.version >= since /\ since' = since
        /\ disk' = [disk EXCEPT ![temp.place] = temp.version]
        /\ fill' = fill \ {temp.place}
    BY <1>3 DEF EndWrite, TempFresh, control
  <2>2. temp.version \in Nat /\ temp.place \in Places /\ since \in Nat
    BY <1>3 DEF EndWrite, TypeOK
  <2>3. Present' = Present \cup {temp.place}
    BY <2>1, <2>2 DEF Present, TypeOK, Bounds
  <2>4. T \cap Present' \subseteq F
    BY <2>1, <2>3 DEF Built
  <2>5. ASSUME NEW q \in F, q \notin fill'
        PROVE  disk'[q] >= since'
    <3>1. CASE q = temp.place
      BY <2>1, <2>2, <3>1 DEF TypeOK
    <3>2. CASE q # temp.place
      <4>1. disk[q] >= since
        BY <2>1, <2>5, <3>2 DEF Built
      <4>2. disk'[q] = disk[q]
        BY <2>1, <3>2 DEF TypeOK
      <4>3. QED
        BY <2>1, <4>1, <4>2
    <3>3. QED
      BY <3>1, <3>2
  <2>6. T \cap fill' \subseteq F
    BY <2>1 DEF Built
  <2>7. QED
    BY <2>1, <2>4, <2>5, <2>6 DEF Built
<1>4. CASE Rehash
  <2>1. PICK p \in fill : disk' = [disk EXCEPT ![p] = version] /\ fill = {p}
    BY <1>4 DEF Rehash
  <2>2. clear = {} /\ clear' = {} /\ fill' = {} /\ since' = since
    BY <1>4 DEF Rehash, control
  <2>3. version \in Nat /\ p \in Places /\ since \in Nat /\ version >= since
    BY <2>1 DEF TypeOK, Bounds
  <2>4. Present' = Present \cup {p}
    BY <2>1, <2>3 DEF Present, TypeOK, Bounds
  <2>5. T \cap Present' \subseteq F
    BY <2>1, <2>2, <2>4 DEF Built
  <2>6. ASSUME NEW q \in F
        PROVE  disk'[q] >= since'
    <3>1. CASE q = p
      BY <2>1, <2>2, <2>3, <3>1 DEF TypeOK
    <3>2. CASE q # p
      <4>1. disk[q] >= since
        BY <2>1, <3>2 DEF Built
      <4>2. disk'[q] = disk[q]
        BY <2>1, <3>2 DEF TypeOK
      <4>3. QED
        BY <2>2, <4>1, <4>2
    <3>3. QED
      BY <3>1, <3>2
  <2>7. QED
    BY <2>2, <2>5, <2>6 DEF Built
<1>5. QED
  BY <1>1, <1>2, <1>3, <1>4

\* The next operation begins, in the places D, and the directory is elsewhere.
LEMMA BuiltApart ==
  ASSUME NEW T, NEW F, NEW D, Built(T, F), Idle, UNCHANGED <<disk, since>>,
         clear' \subseteq D, fill' \subseteq D, T \cap D = {}, F \subseteq T
  PROVE  Built(T, F)'
  BY DEF Built, Present, Idle

\* The operation that builds the directory begins.
LEMMA BuiltNow ==
  ASSUME NEW T, NEW F, disk' = disk,
         T \cap Present \subseteq clear' \cup F, T \cap fill' \subseteq F, F \subseteq fill'
  PROVE  Built(T, F)'
  BY DEF Built, Present

\* Between two operations it is complete.
LEMMA BuiltIdle ==
  ASSUME TypeOK, Bounds, NEW T, NEW F, Built(T, F), Idle, F \subseteq T, T \subseteq Places
  PROVE  /\ {p \in T : disk[p] # 0} = F
         /\ \A p \in F : disk[p] >= since
<1>1. \A p \in F : disk[p] >= since
  BY DEF Built, Idle
<1>2. \A p \in F : disk[p] # 0
  BY <1>1 DEF Bounds, TypeOK
<1>3. T \cap Present \subseteq F
  BY DEF Built, Idle
<1>4. QED
  BY <1>1, <1>2, <1>3 DEF Present

-----------------------------------------------------------------------------
(* Steps that go on with the operation under way, or leave everything alone *)

\* What is known of a start does not change while its files are written.
LEMMA SameControl ==
  ASSUME TypeOK, UNCHANGED <<config, stage, next, env>>
  PROVE  /\ \A s : /\ Handled(s)' = Handled(s) /\ InUse(s)' = InUse(s)
                   /\ TrustBegun(s)' = TrustBegun(s) /\ TrustFiles(s)' = TrustFiles(s)
                   /\ Located(config, s)' = Located(config, s)
         /\ RebuildsVault' = RebuildsVault /\ RebuildsCA' = RebuildsCA
         /\ VaultBegun' = VaultBegun /\ CABegun' = CABegun
         /\ VaultFiles' = VaultFiles /\ VaultLeft' = VaultLeft
         /\ CAFiles(config)' = CAFiles(config)
         /\ Plan(config)' = Plan(config)
         /\ ProvidersFor(config.command)' = ProvidersFor(config.command)
<1>1. \A s : Handled(s)' = Handled(s) /\ TrustBegun(s)' = TrustBegun(s)
  BY DEF Handled, Behind, TrustBegun
<1>2. \A s : InUse(s)' = InUse(s) /\ TrustFiles(s)' = TrustFiles(s)
  BY DEF InUse, Unused, TrustFiles, TrustFile
<1>3. VaultFiles' = VaultFiles /\ CAFiles(config)' = CAFiles(config)
  BY DEF VaultFiles, CAFiles
<1>4. VaultBegun' = VaultBegun /\ CABegun' = CABegun
  BY DEF VaultBegun, CABegun
<1>5. RebuildsVault' = RebuildsVault /\ RebuildsCA' = RebuildsCA
  BY <1>2 DEF RebuildsVault, RebuildsCA
<1>6. VaultLeft' = VaultLeft
  BY <1>3, <1>5 DEF VaultLeft
<1>7. QED
  BY <1>1, <1>2, <1>3, <1>4, <1>5, <1>6

AllBuilt == FilesBuilt /\ VaultBuilt /\ CABuilt /\ TrustBuilt

LEMMA AllBuiltOn ==
  ASSUME TypeOK, AllBuilt, UNCHANGED <<config, stage, next, env>>,
         \A T, F : Built(T, F) => Built(T, F)'
  PROVE  AllBuilt'
<1>1. FilesBuilt'
  BY SameControl DEF AllBuilt, FilesBuilt
<1>2. VaultBuilt'
  BY SameControl DEF AllBuilt, VaultBuilt
<1>3. CABuilt'
  BY SameControl DEF AllBuilt, CABuilt
<1>4. TrustBuilt'
  BY SameControl DEF AllBuilt, TrustBuilt
<1>5. QED
  BY <1>1, <1>2, <1>3, <1>4 DEF AllBuilt

-----------------------------------------------------------------------------
(* The steps that write and remove files, and updates of the mounted files *)

\* A file that begins to be written has a content of this start.
LEMMA ContentFresh ==
  ASSUME TypeOK, Bounds, FilesBuilt, FillShape, clear = {},
         NEW place \in fill, place[2] # "links"
  PROVE  Content(place) >= since
<1>1. CASE stage = "files"
  BY <1>1 DEF Content, TypeOK
<1>2. CASE stage = "vault" /\ place = FileOf("vault")
  BY <1>2 DEF Content, FillShape
<1>3. CASE stage = "providers" /\ place[2] # "external"
  <2>1. PICK q \in Providers : env[q] # "unset" /\ place = TrustFile(q)
    BY <1>3 DEF FillShape, TrustFiles, Links
  <2>2. env[q] = "managed" /\ place[2] = q /\ q \in Files
    BY <1>3, <2>1 DEF TrustFile, Files
  <2>3. FileOf(q) \notin fill
    <3>1. ASSUME FileOf(q) \in fill PROVE FALSE
      <4>1. PICK r \in Providers : FileOf(q) \in TrustFiles(r)
        BY <1>3, <3>1 DEF FillShape
      <4>2. TrustFiles(r) \subseteq Tree(ProviderCA(r))
        BY DEF TrustFiles, TrustFile, Links, Tree, Secrets, Files
      <4>3. QED
        BY <4>1, <4>2, PlacesApart
    <3>2. QED
      BY <3>1
  <2>4. disk[FileOf(q)] >= since
    BY <2>2, <2>3 DEF FilesBuilt, Built
  <2>5. QED
    BY <1>3, <2>2, <2>4 DEF Content
<1>4. CASE /\ stage # "files" /\ ~(stage = "vault" /\ place = FileOf("vault"))
           /\ ~(stage = "providers" /\ place[2] # "external")
  BY <1>4 DEF Content, Bounds
<1>5. QED
  BY <1>1, <1>2, <1>3, <1>4

LEMMA WorkProgress ==
  ASSUME TypeOK, Bounds, Progress,
         Update \/ Remove \/ BeginWrite \/ EndWrite \/ Rehash
  PROVE  Progress' /\ Bounds' /\ status' = "resolving"
<1>1. /\ status = "resolving"
      /\ UNCHANGED <<status, config, stage, next, env, held, since, starts>>
      /\ fill' \subseteq fill
  BY DEF Update, Remove, BeginWrite, EndWrite, Rehash, control, work
<1>2. AllBuilt'
  <2>1. AllBuilt
    BY DEF AllBuilt, Progress
  <2>2. \A T, F : Built(T, F) => Built(T, F)'
    <3>1. CASE Update
      BY <3>1, BuiltStays DEF Update, work
    <3>2. CASE Remove \/ BeginWrite \/ EndWrite \/ Rehash
      BY <3>2, BuiltOn DEF Progress
    <3>3. QED
      BY <3>1, <3>2
  <2>3. QED
    BY <1>1, <2>1, <2>2, AllBuiltOn
<1>3. EnvKnown'
  BY <1>1, SameControl DEF Progress, EnvKnown
<1>4. FillShape'
  <2>1. stage' \in {"cleanup", "shared"} => fill' = {}
    BY <1>1 DEF Progress, FillShape
  <2>2. stage' = "vault" /\ FileOf("vault") \in fill' =>
          RebuildsVault' /\ next' = 2 /\ held' >= since'
    BY <1>1, SameControl DEF Progress, FillShape
  <2>3. stage' = "providers" =>
          \A p \in fill' : \E q \in Providers : env'[q] # "unset" /\ p \in TrustFiles(q)'
    BY <1>1, SameControl DEF Progress, FillShape
  <2>4. QED
    BY <2>1, <2>2, <2>3 DEF FillShape
<1>5. TempFresh'
  <2>1. CASE Update
    BY <2>1 DEF Update, work, Progress, TempFresh
  <2>2. CASE Remove
    BY <2>2 DEF Remove, control, Progress, TempFresh
  <2>3. CASE BeginWrite
    <3>1. PICK p \in fill :
            /\ p[2] # "links"
            /\ stage = "vault" /\ p = FileOf("vault") => ~config.taken
            /\ temp' = [place |-> p, version |-> Content(p)]
      BY <2>3 DEF BeginWrite
    <3>2. Content(p) >= since
      BY <2>3, <3>1, ContentFresh DEF BeginWrite, Progress
    <3>3. clear' = {} /\ fill' = fill
      BY <2>3 DEF BeginWrite
    <3>4. QED
      BY <1>1, <3>1, <3>2, <3>3 DEF TempFresh
  <2>4. CASE EndWrite
    BY <2>4 DEF EndWrite, TempFresh
  <2>5. CASE Rehash
    BY <2>5 DEF Rehash, TempFresh
  <2>6. QED
    BY <2>1, <2>2, <2>3, <2>4, <2>5
<1>6. Passed'
  <2>1. FileOf("vault") \in fill /\ stage = "vault" /\ config.taken =>
          FileOf("vault") \in fill'
    <3>1. CASE EndWrite
      <4>1. temp # NoTemp /\ fill' = fill \ {temp.place}
        BY <3>1 DEF EndWrite
      <4>2. QED
        BY <4>1 DEF Progress, TempFresh
    <3>2. CASE Rehash
      BY <3>2 DEF Rehash, FileOf
    <3>3. CASE Update \/ Remove \/ BeginWrite
      BY <3>3 DEF Update, Remove, BeginWrite, work
    <3>4. QED
      BY <3>1, <3>2, <3>3
  <2>2. /\ VaultBegun' = VaultBegun /\ RebuildsVault' = RebuildsVault
        /\ CABegun' = CABegun /\ RebuildsCA' = RebuildsCA
    BY <1>1, SameControl
  <2>3. QED
    BY <1>1, <2>1, <2>2 DEF Progress, Passed
<1>7. Ended'
  BY <1>1 DEF Ended
<1>8. Bounds'
  <2>1. version' = version \/ version' = version + 1
    BY DEF Update, Remove, BeginWrite, EndWrite, Rehash, control
  <2>2. QED
    BY <1>1, <2>1 DEF Bounds, TypeOK
<1>9. QED
  BY <1>1, <1>2, <1>3, <1>4, <1>5, <1>6, <1>7, <1>8 DEF Progress, AllBuilt

-----------------------------------------------------------------------------
(* Steps that end one operation and begin another *)

\* The next operation is on the places D, which hold none of the files of the
\* secrets, and the secrets of the plan handled are those of before.
LEMMA FilesElsewhere ==
  ASSUME Idle, FilesBuilt, UNCHANGED <<config, env, disk, since>>,
         NEW D, clear' \subseteq D, fill' \subseteq D,
         \A s \in Files : FileOf(s) \notin D,
         \A s \in Plan(config) : Handled(s)' <=> Handled(s)
  PROVE  FilesBuilt'
<1>1. \A s \in Files : \A F :
        F \subseteq {FileOf(s)} /\ Built({FileOf(s)}, F) => Built({FileOf(s)}, F)'
  <2> TAKE s \in Files
  <2> TAKE F
  <2> HAVE F \subseteq {FileOf(s)} /\ Built({FileOf(s)}, F)
  <2>1. {FileOf(s)} \cap D = {}
    OBVIOUS
  <2>2. QED
    BY <2>1, BuiltApart
<1>2. \A s \in Files : env'[s] = "managed" => Built({FileOf(s)}, {FileOf(s)})'
  BY <1>1 DEF FilesBuilt
<1>3. \A s \in Files \cap Plan(config) :
        Handled(s)' /\ env'[s] = "unset" => Built({FileOf(s)}, {})'
  BY <1>1 DEF FilesBuilt
<1>4. ProvidersFor(config.command) \subseteq Files
  BY DEF ProvidersFor, Files, Providers
<1>5. \A p \in ProvidersFor(config.command) :
        env'[p] # "managed" => Built({FileOf(p)}, {})'
  BY <1>1, <1>4 DEF FilesBuilt
<1>6. QED
  BY <1>2, <1>3, <1>5 DEF FilesBuilt

\* The same for the directories of certificates.
LEMMA VaultElsewhere ==
  ASSUME TypeOK, Idle, VaultBuilt, UNCHANGED <<config, disk, since>>,
         NEW D, clear' \subseteq D, fill' \subseteq D, Tree(VaultDir) \cap D = {},
         VaultBegun' /\ config.command = "service" => VaultBegun
  PROVE  VaultBuilt'
<1>1. config.shared \subseteq SharedNames
  BY ConfigurationTyped DEF Configuration, TypeOK
<1>2. VaultFiles \subseteq Tree(VaultDir)
  BY <1>1, PlacesIn DEF VaultFiles, Tree
<1>3. VaultFiles' = VaultFiles
  BY DEF VaultFiles
<1>5. RebuildsVault' = RebuildsVault
  BY DEF RebuildsVault, InUse, Unused
<1>7. VaultLeft' = VaultLeft /\ VaultLeft \subseteq Tree(VaultDir)
  BY <1>2, <1>3, <1>5 DEF VaultLeft
<1>4. Built(Tree(VaultDir), VaultLeft) => Built(Tree(VaultDir), VaultLeft)'
  BY <1>7, BuiltApart
<1>6. QED
  BY <1>4 DEF VaultBuilt

LEMMA CAElsewhere ==
  ASSUME TypeOK, Idle, CABuilt, UNCHANGED <<config, disk, since>>,
         NEW D, clear' \subseteq D, fill' \subseteq D, Tree(GlobalCA) \cap D = {},
         CABegun' /\ RebuildsCA => CABegun
  PROVE  CABuilt'
<1>1. config.ca \subseteq SharedNames
  BY ConfigurationTyped DEF Configuration, TypeOK
<1>2. CAFiles(config) \subseteq Tree(GlobalCA)
  BY <1>1 DEF CAFiles, Links, Tree
<1>3. CAFiles(config)' = CAFiles(config)
  BY DEF CAFiles
<1>4. Built(Tree(GlobalCA), CAFiles(config)) => Built(Tree(GlobalCA), CAFiles(config))'
  BY <1>2, <1>3, BuiltApart
<1>5. RebuildsCA' = RebuildsCA
  BY DEF RebuildsCA
<1>6. QED
  BY <1>4, <1>5 DEF CABuilt

LEMMA TrustIn ==
  ASSUME NEW p \in Providers
  PROVE  TrustFiles(p) \subseteq Tree(ProviderCA(p))
  BY DEF TrustFiles, TrustFile, Links, Tree, Secrets, Files

\* The directory of one provider, while another operation begins elsewhere.
LEMMA TrustElsewhere ==
  ASSUME Idle, TrustBuilt, UNCHANGED <<disk, since>>,
         NEW D, clear' \subseteq D, fill' \subseteq D,
         NEW p \in ProvidersFor(config.command), Tree(ProviderCA(p)) \cap D = {},
         env'[p] = env[p], env[p] # "unset" => (TrustBegun(p)' <=> TrustBegun(p))
  PROVE  IF TrustBegun(p)' /\ env'[p] # "unset"
         THEN Built(Tree(ProviderCA(p)), TrustFiles(p))'
         ELSE Built(Tree(ProviderCA(p)), {})'
<1>1. \A F : F \subseteq Tree(ProviderCA(p)) /\ Built(Tree(ProviderCA(p)), F) =>
               Built(Tree(ProviderCA(p)), F)'
  BY BuiltApart
<1>2. p \in Providers
  BY DEF ProvidersFor, Providers
<1>3. TrustFiles(p) \subseteq Tree(ProviderCA(p))
  BY <1>2, TrustIn
<1>4. TrustFiles(p)' = TrustFiles(p)
  BY DEF TrustFiles, TrustFile
<1>5. CASE TrustBegun(p) /\ env[p] # "unset"
  BY <1>1, <1>3, <1>4, <1>5 DEF TrustBuilt
<1>6. CASE ~(TrustBegun(p) /\ env[p] # "unset")
  BY <1>1, <1>6 DEF TrustBuilt
<1>7. QED
  BY <1>5, <1>6

\* The part of a start whose operations do not touch the disk is over.
LEMMA Advance ==
  ASSUME TypeOK, Progress, Idle, UNCHANGED <<config, env, work, disk, since>>,
         \A s \in Plan(config) : Handled(s)' <=> Handled(s),
         VaultBegun => VaultBegun',
         VaultBegun' /\ config.command = "service" => VaultBegun,
         CABegun' /\ RebuildsCA => CABegun,
         \A p \in Providers : env[p] # "unset" => (TrustBegun(p)' <=> TrustBegun(p))
  PROVE  EnvKnown' /\ AllBuilt' /\ FillShape' /\ TempFresh'
<1>1. clear' = {} /\ fill' = {} /\ temp' = NoTemp
  BY DEF Idle, work
<1>2. EnvKnown'
  <2>1. \A s : /\ InUse(s)' = InUse(s) /\ Located(config, s)' = Located(config, s)
               /\ InUse(s) => s \in Plan(config)
    BY DEF InUse, Unused
  <2>2. \A s \in Secrets : env'[s] # "unset" <=> Handled(s)' /\ InUse(s)'
    BY <2>1 DEF Progress, EnvKnown
  <2>3. \A s \in Secrets : env'[s] # "unset" =>
          config'.source[s] = "inline" \/ Located(config, s)'
    BY <2>1 DEF Progress, EnvKnown
  <2>4. \A s \in Secrets : env'[s] = "managed" =>
          \/ config'.source[s] = "inline"
          \/ s = "vault" /\ VaultBegun' /\ ~config'.inside
    BY DEF Progress, EnvKnown
  <2>5. QED
    BY <2>2, <2>3, <2>4 DEF EnvKnown
<1>3. FilesBuilt'
  BY <1>1, FilesElsewhere DEF Progress
<1>4. VaultBuilt'
  BY <1>1, VaultElsewhere DEF Progress
<1>5. CABuilt'
  BY <1>1, CAElsewhere DEF Progress
<1>6. TrustBuilt'
  <2>1. ASSUME NEW p \in ProvidersFor(config.command)
        PROVE  IF TrustBegun(p)' /\ env'[p] # "unset"
               THEN Built(Tree(ProviderCA(p)), TrustFiles(p))'
               ELSE Built(Tree(ProviderCA(p)), {})'
    <3>1. p \in Providers
      BY DEF ProvidersFor, Providers
    <3>2. QED
      BY <1>1, <3>1, TrustElsewhere DEF Progress
  <2>2. QED
    BY <2>1 DEF TrustBuilt
<1>7. FillShape' /\ TempFresh'
  BY <1>1 DEF FillShape, TempFresh
<1>8. QED
  BY <1>2, <1>3, <1>4, <1>5, <1>6, <1>7 DEF AllBuilt

\* No secret is behind the first.
LEMMA BehindFirst == next = 1 => \A s : ~Behind(s)
  BY DEF Behind

LEMMA BehindNext ==
  ASSUME TypeOK, next' = next + 1, NEW s
  PROVE  Behind(s)' <=> Behind(s) \/ s = Current
<1>1. next \in Nat /\ next >= 1
  BY OrderComplete DEF TypeOK
<1>2. Behind(s)' => Behind(s) \/ s = Current
  BY <1>1 DEF Behind, Current
<1>3. Behind(s) => Behind(s)'
  BY <1>1 DEF Behind
<1>4. next \in 1..next' - 1
  BY <1>1
<1>5. s = Current => Behind(s)'
  BY <1>4 DEF Behind, Current
<1>6. QED
  BY <1>2, <1>3, <1>5

LEMMA BehindAll ==
  ASSUME TypeOK, next \notin DOMAIN Order
  PROVE  next = Len(Order) + 1 /\ \A s \in Secrets : Behind(s)
<1>1. next = Len(Order) + 1
  BY OrderComplete DEF TypeOK
<1>2. QED
  BY <1>1, OrderComplete DEF Lists, Behind

LEMMA PlanSecrets == \A c : Plan(c) \subseteq Secrets /\ ProvidersFor(c.command) \subseteq Providers
<1>1. \A c : ProvidersFor(c.command) \subseteq Providers
  BY DEF ProvidersFor, Providers
<1>2. \A c : Named(c) \subseteq Providers
  BY <1>1 DEF Named
<1>3. \A c : Plan(c) \subseteq Secrets
  BY <1>2 DEF Plan, Secrets, Files
<1>4. QED
  BY <1>1, <1>3

\* A start is refused only for what it has found.
LEMMA RefusedJustly ==
  ASSUME TypeOK, Progress, Refuse,
         Normalize \/ Resolve \/ SharedDirectories \/ VaultTaken \/ CADirectory
  PROVE  ~Acceptable(config)
<1>1. status = "resolving" /\ status' = "refused"
  BY DEF Refuse, Normalize, Resolve, SharedDirectories, VaultTaken, CADirectory, At
<1>2. CASE Normalize
  BY <1>1, <1>2 DEF Normalize, Acceptable
<1>3. CASE Resolve
  <2>1. /\ stage = "files" /\ Current \in Plan(config) /\ ~Unused(Current)
        /\ config.source[Current] # "inline" /\ ~Located(config, Current)
    BY <1>1, <1>3 DEF Resolve, At
  <2>2. ~EmptyPlan(config)
    BY <2>1 DEF Progress, Passed
  <2>3. QED
    BY <2>1, <2>2 DEF Acceptable, Unused
<1>4. CASE SharedDirectories
  <2>1. stage = "shared" /\ UsesShared(config) /\ config.sharedTwice
    BY <1>1, <1>4 DEF SharedDirectories, At
  <2>2. QED
    BY <2>1 DEF Progress, Passed, Acceptable
<1>5. CASE VaultTaken
  <2>1. stage = "vault" /\ config.taken /\ RebuildsVault
    BY <1>5 DEF VaultTaken, Progress, FillShape
  <2>2. config.command = "service" /\ ~config.inside /\ ~Unused("vault")
    BY <2>1 DEF RebuildsVault, InUse
  <2>3. "vault" \in config.active /\ Given(config, "vault")
    BY <2>2 DEF Unused, Active
  <2>4. QED
    BY <2>1, <2>2, <2>3 DEF Progress, Passed, Acceptable
<1>6. CASE CADirectory
  <2>1. stage = "ca" /\ UsesCA(config) /\ ~config.caGiven /\ config.caTwice
    BY <1>1, <1>6 DEF CADirectory, At
  <2>2. QED
    BY <2>1 DEF Progress, Passed, Acceptable
<1>7. QED
  BY <1>2, <1>3, <1>4, <1>5, <1>6

LEMMA NormalizeProgress ==
  ASSUME TypeOK, Progress, Normalize, ~Refuse
  PROVE  Progress'
<1>1. /\ stage = "cleanup" /\ Idle
      /\ ~(config.clash /\ "vault" \in Plan(config))
      /\ UNCHANGED <<config, env, work, disk, version, since, starts>>
      /\ \/ EmptyPlan(config) /\ UNCHANGED <<stage, next>>
         \/ ~EmptyPlan(config) /\ stage' = "files" /\ next' = 1 /\ status' = "resolving"
  BY DEF Normalize, At, Enter
<1>2. next' = 1 => \A s : ~Behind(s)'
  BY DEF Behind
<1>3. /\ \A s : Handled(s)' <=> Handled(s)
      /\ VaultBegun' <=> VaultBegun
      /\ CABegun' <=> CABegun
      /\ \A p : TrustBegun(p)' <=> TrustBegun(p)
  BY <1>1, <1>2 DEF Handled, VaultBegun, CABegun, TrustBegun, Behind
<1>4. EnvKnown' /\ AllBuilt' /\ FillShape' /\ TempFresh'
  BY <1>1, <1>3, Advance
<1>5. ~VaultBegun' /\ ~CABegun'
  BY <1>1 DEF VaultBegun, CABegun
<1>6. Passed' /\ Ended'
  BY <1>1, <1>5 DEF Progress, Passed, Ended
<1>7. QED
  BY <1>4, <1>6 DEF Progress, AllBuilt

LEMMA SkipProgress ==
  ASSUME TypeOK, Progress, Skip
  PROVE  Progress'
<1>1. /\ stage = "files" /\ Idle /\ status' = "resolving"
      /\ UNCHANGED <<config, env, work, disk, version, since, starts>>
      /\ \/ stage' = "files" /\ next' = next + 1 /\ Current \notin Plan(config)
         \/ stage' = "shared" /\ next \notin DOMAIN Order
  BY DEF Skip, At, Enter
<1>2. \A s \in Plan(config) : Handled(s)' <=> Handled(s)
  <2>1. CASE stage' = "files" /\ next' = next + 1 /\ Current \notin Plan(config)
    BY <1>1, <2>1, BehindNext DEF Handled
  <2>2. CASE stage' = "shared" /\ next \notin DOMAIN Order
    BY <1>1, <2>2, BehindAll, PlanSecrets DEF Handled
  <2>3. QED
    BY <1>1, <2>1, <2>2
<1>3. ~VaultBegun' /\ ~CABegun' /\ ~VaultBegun
      /\ \A p : ~TrustBegun(p)' /\ ~TrustBegun(p)
  BY <1>1 DEF VaultBegun, CABegun, TrustBegun
<1>4. EnvKnown' /\ AllBuilt' /\ FillShape' /\ TempFresh'
  BY <1>1, <1>2, <1>3, Advance
<1>5. Passed' /\ Ended'
  BY <1>1, <1>3 DEF Progress, Passed, Ended
<1>6. QED
  BY <1>4, <1>5 DEF Progress, AllBuilt

LEMMA SharedProgress ==
  ASSUME TypeOK, Progress, SharedDirectories, ~Refuse
  PROVE  Progress'
<1>1. /\ stage = "shared" /\ Idle /\ status' = "resolving"
      /\ ~(UsesShared(config) /\ config.sharedTwice)
      /\ UNCHANGED <<config, env, work, disk, version, since, starts>>
      /\ stage' = (IF config.command = "service" THEN "vault" ELSE "ca") /\ next' = 1
  BY DEF SharedDirectories, At, Enter
<1>2. /\ \A s : Handled(s)' <=> Handled(s)
      /\ ~VaultBegun /\ ~CABegun /\ ~CABegun'
      /\ \A p : TrustBegun(p)' <=> TrustBegun(p)
  BY <1>1 DEF Handled, VaultBegun, CABegun, TrustBegun
<1>3. ~(VaultBegun' /\ config.command = "service")
  BY <1>1 DEF VaultBegun
<1>4. EnvKnown' /\ AllBuilt' /\ FillShape' /\ TempFresh'
  BY <1>1, <1>2, <1>3, Advance
<1>5. RebuildsVault' = RebuildsVault
  BY <1>1 DEF RebuildsVault, InUse, Unused
<1>6. Passed' /\ Ended'
  BY <1>1, <1>2, <1>3, <1>5 DEF Progress, Passed, Ended, RebuildsVault
<1>7. QED
  BY <1>4, <1>6 DEF Progress, AllBuilt

LEMMA VaultDoneProgress ==
  ASSUME TypeOK, Progress, VaultDone
  PROVE  Progress'
<1>1. /\ stage = "vault" /\ next = 2 /\ Idle /\ status' = "resolving"
      /\ UNCHANGED <<config, env, work, disk, version, since, starts>>
      /\ stage' = "ca" /\ next' = 1
  BY DEF VaultDone, At, Enter
<1>2. /\ \A s : Handled(s)' <=> Handled(s)
      /\ VaultBegun /\ VaultBegun' /\ ~CABegun'
      /\ \A p : TrustBegun(p)' <=> TrustBegun(p)
  BY <1>1 DEF Handled, VaultBegun, CABegun, TrustBegun
<1>3. EnvKnown' /\ AllBuilt' /\ FillShape' /\ TempFresh'
  BY <1>1, <1>2, Advance
<1>4. RebuildsVault' = RebuildsVault
  BY <1>1 DEF RebuildsVault, InUse, Unused
<1>5. ~(RebuildsVault /\ config.taken)
  BY <1>1, <1>2 DEF Progress, Passed, Idle
<1>6. Passed' /\ Ended'
  BY <1>1, <1>2, <1>4, <1>5 DEF Progress, Passed, Ended
<1>7. QED
  BY <1>3, <1>6 DEF Progress, AllBuilt

LEMMA CADirectoryProgress ==
  ASSUME TypeOK, Progress, CADirectory, ~Refuse
  PROVE  Progress'
<1>1. /\ stage = "ca" /\ next = 1 /\ Idle /\ status' = "resolving"
      /\ next' = 2 /\ (RebuildsCA => ~config.caTwice)
      /\ UNCHANGED <<config, stage, env, held, temp, disk, version, since, starts>>
      /\ ~RebuildsCA => UNCHANGED <<clear, fill>>
      /\ RebuildsCA => clear' = Entries(GlobalCA) /\ fill' = CAFiles(config)
  BY DEF CADirectory, At, RebuildsCA, CAFiles, work
<1>2. /\ \A s : Handled(s)' <=> Handled(s)
      /\ VaultBegun /\ VaultBegun' /\ ~CABegun
      /\ \A p : TrustBegun(p)' <=> TrustBegun(p)
  BY <1>1 DEF Handled, VaultBegun, CABegun, TrustBegun
<1>3. RebuildsVault' = RebuildsVault /\ RebuildsCA' = RebuildsCA
  BY <1>1 DEF RebuildsVault, RebuildsCA, InUse, Unused
<1>4. EnvKnown' /\ AllBuilt' /\ FillShape' /\ TempFresh'
  <2>1. CASE ~RebuildsCA
    BY <1>1, <1>2, <2>1, Advance DEF work
  <2>2. CASE RebuildsCA
    <3>1. clear' = Tree(GlobalCA) \cap Present /\ fill' = CAFiles(config)
      BY <1>1, <2>2 DEF Entries
    <3>2. CAFiles(config) \subseteq Tree(GlobalCA)
      BY ConfigurationTyped DEF Configuration, TypeOK, CAFiles, Links, Tree
    <3>3. EnvKnown'
      BY <1>1, <1>2 DEF Progress, EnvKnown, InUse, Unused, Located
    <3>4. FilesBuilt'
      BY <1>1, <1>2, <3>1, <3>2, FilesElsewhere, PlacesApart DEF Progress
    <3>5. VaultBuilt'
      BY <1>1, <1>2, <3>1, <3>2, VaultElsewhere, PlacesApart DEF Progress
    <3>6. CABuilt'
      <4>1. CAFiles(config)' = CAFiles(config)
        BY <1>1 DEF CAFiles
      <4>2. Built(Tree(GlobalCA), CAFiles(config))'
        BY <1>1, <3>1, <4>1, BuiltNow
      <4>3. QED
        BY <4>2 DEF CABuilt
    <3>7. TrustBuilt'
      <4>1. ASSUME NEW p \in ProvidersFor(config.command)
            PROVE  IF TrustBegun(p)' /\ env'[p] # "unset"
                   THEN Built(Tree(ProviderCA(p)), TrustFiles(p))'
                   ELSE Built(Tree(ProviderCA(p)), {})'
        <5>1. Tree(ProviderCA(p)) \cap Tree(GlobalCA) = {}
          BY PlanSecrets, PlacesApart
        <5>2. QED
          BY <1>1, <1>2, <3>1, <3>2, <5>1, TrustElsewhere DEF Progress
      <4>2. QED
        BY <1>1, <4>1 DEF TrustBuilt
    <3>8. FillShape' /\ TempFresh'
      BY <1>1 DEF FillShape, TempFresh, Idle
    <3>9. QED
      BY <3>3, <3>4, <3>5, <3>6, <3>7, <3>8 DEF AllBuilt
  <2>3. QED
    BY <2>1, <2>2
<1>5. ~(RebuildsVault /\ config.taken)
  BY <1>1, <1>2 DEF Progress, Passed, Idle
<1>6. Passed' /\ Ended'
  BY <1>1, <1>2, <1>3, <1>5 DEF Progress, Passed, Ended
<1>7. QED
  BY <1>4, <1>6 DEF Progress, AllBuilt

LEMMA CADoneProgress ==
  ASSUME TypeOK, Progress, CADone
  PROVE  Progress'
<1>1. /\ stage = "ca" /\ next = 2 /\ Idle /\ status' = "resolving"
      /\ UNCHANGED <<config, env, work, disk, version, since, starts>>
      /\ stage' = "providers" /\ next' = 1
  BY DEF CADone, At, Enter
<1>2. \A s : ~Behind(s)'
  BY <1>1 DEF Behind
<1>3. /\ \A s : Handled(s)' <=> Handled(s)
      /\ VaultBegun /\ VaultBegun' /\ CABegun /\ CABegun'
      /\ \A p : TrustBegun(p)' <=> TrustBegun(p)
  BY <1>1, <1>2 DEF Handled, VaultBegun, CABegun, TrustBegun
<1>4. EnvKnown' /\ AllBuilt' /\ FillShape' /\ TempFresh'
  BY <1>1, <1>3, Advance
<1>5. RebuildsVault' = RebuildsVault /\ RebuildsCA' = RebuildsCA
  BY <1>1 DEF RebuildsVault, RebuildsCA, InUse, Unused
<1>6. Passed' /\ Ended'
  BY <1>1, <1>3, <1>5 DEF Progress, Passed, Ended, Idle
<1>7. QED
  BY <1>4, <1>6 DEF Progress, AllBuilt

LEMMA ReadyProgress ==
  ASSUME TypeOK, Progress, Ready
  PROVE  Progress'
<1>1. /\ stage = "providers" /\ Idle /\ next \notin DOMAIN Order
      /\ UNCHANGED <<config, stage, next, env, work, disk, version, since, starts>>
  BY DEF Ready, At
<1>2. /\ \A s : Handled(s)' <=> Handled(s)
      /\ VaultBegun' = VaultBegun /\ CABegun' = CABegun
      /\ \A p : TrustBegun(p)' <=> TrustBegun(p)
      /\ RebuildsVault' = RebuildsVault /\ RebuildsCA' = RebuildsCA
  BY <1>1, SameControl
<1>3. EnvKnown' /\ AllBuilt' /\ FillShape' /\ TempFresh'
  BY <1>1, <1>2, Advance
<1>4. Passed'
  BY <1>1, <1>2 DEF Progress, Passed, work
<1>5. Ended'
  BY <1>1, BehindAll DEF Ended
<1>6. QED
  BY <1>3, <1>4, <1>5 DEF Progress, AllBuilt

LEMMA ProviderCAsProgress ==
  ASSUME TypeOK, Progress, ProviderCAs
  PROVE  Progress'
<1> DEFINE D == Tree(ProviderCA(Current))
           Mine == Current \in Providers /\ env[Current] # "unset"
<1>1. /\ stage = "providers" /\ Idle /\ status' = "resolving" /\ next' = next + 1
      /\ UNCHANGED <<config, stage, env, held, temp, disk, version, since, starts>>
      /\ ~Mine => UNCHANGED <<clear, fill>>
      /\ Mine => clear' = D \cap Present /\ fill' = TrustFiles(Current)
  BY DEF ProviderCAs, At, Entries
<1>2. /\ \A s : Handled(s)' <=> Handled(s)
      /\ VaultBegun /\ VaultBegun' /\ CABegun /\ CABegun'
  BY <1>1 DEF Handled, VaultBegun, CABegun
<1>3. \A p : TrustBegun(p)' <=> TrustBegun(p) \/ p = Current
  BY <1>1, BehindNext DEF TrustBegun
<1>4. RebuildsVault' = RebuildsVault /\ RebuildsCA' = RebuildsCA
  BY <1>1 DEF RebuildsVault, RebuildsCA, InUse, Unused
<1>5. EnvKnown' /\ AllBuilt' /\ FillShape' /\ TempFresh'
  <2>1. CASE ~Mine
    BY <1>1, <1>2, <1>3, <2>1, Advance DEF work
  <2>2. CASE Mine
    <3>1. clear' \subseteq D /\ fill' \subseteq D
      BY <1>1, <2>2, TrustIn
    <3>2. EnvKnown'
      BY <1>1, <1>2 DEF Progress, EnvKnown, InUse, Unused, Located
    <3>3. FilesBuilt'
      BY <1>1, <1>2, <3>1, FilesElsewhere, PlacesApart DEF Progress
    <3>4. VaultBuilt'
      BY <1>1, <1>2, <3>1, VaultElsewhere, PlacesApart DEF Progress
    <3>5. CABuilt'
      <4>1. Tree(GlobalCA) \cap D = {}
        BY <2>2, PlacesApart
      <4>2. QED
        BY <1>1, <1>2, <3>1, <4>1, CAElsewhere DEF Progress
    <3>6. TrustBuilt'
      <4>1. ASSUME NEW p \in ProvidersFor(config.command)
            PROVE  IF TrustBegun(p)' /\ env'[p] # "unset"
                   THEN Built(Tree(ProviderCA(p)), TrustFiles(p))'
                   ELSE Built(Tree(ProviderCA(p)), {})'
        <5>1. CASE p = Current
          <6>1. TrustFiles(p)' = TrustFiles(p)
            BY <1>1 DEF TrustFiles, TrustFile
          <6>2. TrustFiles(p) \subseteq Tree(ProviderCA(p))
            BY <2>2, <5>1, TrustIn
          <6>3. Built(Tree(ProviderCA(p)), TrustFiles(p))'
            BY <1>1, <2>2, <5>1, <6>1, <6>2, BuiltNow
          <6>4. QED
            BY <1>1, <1>3, <2>2, <5>1, <6>3
        <5>2. CASE p # Current
          <6>1. Tree(ProviderCA(p)) \cap D = {}
            BY <5>2, PlacesApart
          <6>2. QED
            BY <1>1, <1>3, <3>1, <5>2, <6>1, TrustElsewhere DEF Progress
        <5>3. QED
          BY <5>1, <5>2
      <4>2. QED
        BY <1>1, <4>1 DEF TrustBuilt
    <3>7. FillShape'
      <4>1. \A p \in fill' : \E q \in Providers : env'[q] # "unset" /\ p \in TrustFiles(q)'
        <5>1. \A q : TrustFiles(q)' = TrustFiles(q)
          BY <1>1 DEF TrustFiles, TrustFile
        <5>2. QED
          BY <1>1, <2>2, <5>1
      <4>2. QED
        BY <1>1, <4>1 DEF FillShape
    <3>8. TempFresh'
      BY <1>1 DEF TempFresh, Idle
    <3>9. QED
      BY <3>2, <3>3, <3>4, <3>5, <3>6, <3>7, <3>8 DEF AllBuilt
  <2>3. QED
    BY <2>1, <2>2
<1>6. Passed' /\ Ended'
  BY <1>1, <1>2, <1>4 DEF Progress, Passed, Ended
<1>7. QED
  BY <1>5, <1>6 DEF Progress, AllBuilt

\* The directory of the certificate of Vault is removed, and rebuilt if the
\* certificate does not lie in it.
LEMMA VaultTLSProgress ==
  ASSUME TypeOK, Bounds, Progress, VaultTLS
  PROVE  Progress'
<1>1. /\ stage = "vault" /\ next = 1 /\ Idle /\ status' = "resolving" /\ next' = 2
      /\ UNCHANGED <<status, config, stage, temp, disk, version, since, starts>>
      /\ clear' = Tree(VaultDir) \cap Present
  BY DEF VaultTLS, At, Entries
<1>2. /\ \A s : Handled(s) /\ Handled(s)'
      /\ ~VaultBegun /\ VaultBegun' /\ ~CABegun /\ ~CABegun'
      /\ \A p : ~TrustBegun(p)' /\ ~TrustBegun(p)
  BY <1>1 DEF Handled, VaultBegun, CABegun, TrustBegun
<1>3. /\ \A s : InUse(s)' = InUse(s) /\ Located(config, s)' = Located(config, s)
      /\ \A s \in Secrets : s # "vault" => env'[s] = env[s]
      /\ Files \subseteq Secrets
  <2>1. \A s : InUse(s)' = InUse(s) /\ Located(config, s)' = Located(config, s)
    BY <1>1 DEF InUse, Unused, Located
  <2>2. \A s \in Secrets : s # "vault" => env'[s] = env[s]
    BY DEF VaultTLS, TypeOK
  <2>3. QED
    BY <2>1, <2>2 DEF Secrets
<1>4. /\ "vault" \in Secrets /\ "vault" \notin Providers
      /\ RebuildsVault' = RebuildsVault /\ RebuildsVault = Rebuilt(config)
  <2>1. "vault" \in Secrets /\ "vault" \notin Providers
    BY ProviderAssumption DEF Secrets, Files
  <2>2. env["vault"] # "unset" <=> InUse("vault")
    BY <1>2, <2>1 DEF Progress, EnvKnown
  <2>3. config.command = "service"
    BY <1>1 DEF Progress, Passed
  <2>4. RebuildsVault' = RebuildsVault
    BY <1>1, <1>3 DEF RebuildsVault
  <2>5. QED
    BY <2>1, <2>2, <2>3, <2>4 DEF RebuildsVault, Rebuilt
<1>5. /\ VaultFiles \subseteq Tree(VaultDir) /\ VaultFiles' = VaultFiles
      /\ FileOf("vault") \in VaultFiles
  <2>1. config.shared \subseteq SharedNames
    BY ConfigurationTyped DEF Configuration, TypeOK
  <2>2. QED
    BY <1>1, <2>1, PlacesIn DEF VaultFiles, Tree
<1>6. /\ fill' \subseteq VaultFiles
      /\ Rebuilt(config) => fill' = VaultFiles /\ held' = Certificate
                              /\ env' = [env EXCEPT !["vault"] = "managed"]
      /\ ~Rebuilt(config) => fill' = {} /\ env' = env
  BY <1>1 DEF VaultTLS, VaultFiles, Idle
<1>7. /\ env'["vault"] = "managed" => Rebuilt(config)
      /\ env'["vault"] # "unset" <=> env["vault"] # "unset"
  <2>1. CASE Rebuilt(config)
    BY <1>4, <1>6, <2>1 DEF Rebuilt, TypeOK
  <2>2. CASE ~Rebuilt(config) /\ env["vault"] = "managed"
    <3>1. config.source["vault"] = "inline"
      BY <1>2, <1>4, <2>2 DEF Progress, EnvKnown
    <3>2. config.inside
      BY <2>2 DEF Rebuilt
    <3>3. QED
      BY <3>1, <3>2, ConfigurationTyped DEF TypeOK
  <2>3. QED
    BY <1>6, <2>1, <2>2
<1>8. EnvKnown'
  <2>1. \A s \in Secrets : env'[s] # "unset" <=> Handled(s)' /\ InUse(s)'
    BY <1>2, <1>3, <1>7 DEF Progress, EnvKnown
  <2>2. \A s \in Secrets : env'[s] # "unset" =>
          config'.source[s] = "inline" \/ Located(config, s)'
    BY <1>1, <1>3, <1>7 DEF Progress, EnvKnown
  <2>3. \A s \in Secrets : env'[s] = "managed" =>
          \/ config'.source[s] = "inline"
          \/ s = "vault" /\ VaultBegun' /\ ~config'.inside
    BY <1>1, <1>2, <1>3, <1>7 DEF Progress, EnvKnown, Rebuilt
  <2>4. QED
    BY <2>1, <2>2, <2>3 DEF EnvKnown
<1>9. \A s \in Files : \A F :
        s # "vault" /\ F \subseteq {FileOf(s)} /\ Built({FileOf(s)}, F)
          => Built({FileOf(s)}, F)'
  <2> TAKE s \in Files
  <2> TAKE F
  <2>1. CASE s # "vault" /\ F \subseteq {FileOf(s)} /\ Built({FileOf(s)}, F)
    <3>1. {FileOf(s)} \cap Tree(VaultDir) = {}
      BY <2>1, PlacesApart
    <3>2. clear' \subseteq Tree(VaultDir) /\ fill' \subseteq Tree(VaultDir)
      BY <1>1, <1>5, <1>6
    <3>3. QED
      BY <1>1, <2>1, <3>1, <3>2, BuiltApart
  <2>2. QED
    BY <2>1
<1>10. FilesBuilt'
  <2>1. \A s \in Files : env'[s] = "managed" => Built({FileOf(s)}, {FileOf(s)})'
    <3> TAKE s \in Files
    <3> HAVE env'[s] = "managed"
    <3>1. CASE s = "vault"
      BY <1>1, <1>5, <1>6, <1>7, <3>1, BuiltNow
    <3>2. CASE s # "vault"
      BY <1>3, <1>9, <3>2 DEF Progress, FilesBuilt
    <3>3. QED
      BY <3>1, <3>2
  <2>2. \A s \in Files \cap Plan(config) :
          Handled(s)' /\ env'[s] = "unset" => Built({FileOf(s)}, {})'
    <3> TAKE s \in Files \cap Plan(config)
    <3> HAVE Handled(s)' /\ env'[s] = "unset"
    <3>1. env[s] = "unset" /\ Handled(s)
      BY <1>2, <1>3, <1>7
    <3>2. Built({FileOf(s)}, {})
      BY <3>1 DEF Progress, FilesBuilt
    <3>3. CASE s = "vault"
      <4>1. fill' = {}
        BY <1>6, <3>1, <3>3 DEF Rebuilt
      <4>2. QED
        BY <1>1, <3>2, <4>1 DEF Built, Present, Idle
    <3>4. CASE s # "vault"
      BY <1>9, <3>2, <3>4
    <3>5. QED
      BY <3>3, <3>4
  <2>3. \A p \in ProvidersFor(config.command) :
          env'[p] # "managed" => Built({FileOf(p)}, {})'
    <3> TAKE p \in ProvidersFor(config.command)
    <3> HAVE env'[p] # "managed"
    <3>1. p \in Files /\ p # "vault"
      BY <1>4, PlanSecrets DEF Files
    <3>2. QED
      BY <1>3, <1>9, <3>1 DEF Progress, FilesBuilt
  <2>4. QED
    BY <1>1, <2>1, <2>2, <2>3 DEF FilesBuilt
<1>11. VaultBuilt'
  <2>1. CASE Rebuilt(config)
    <3>1. Built(Tree(VaultDir), VaultFiles)'
      BY <1>1, <1>5, <1>6, <2>1, BuiltNow
    <3>2. VaultLeft' = VaultFiles'
      BY <1>4, <2>1 DEF VaultLeft
    <3>3. QED
      BY <3>1, <3>2 DEF VaultBuilt
  <2>2. CASE ~Rebuilt(config)
    <3>1. Built(Tree(VaultDir), {})'
      BY <1>1, <1>6, <2>2, BuiltNow
    <3>2. VaultLeft' = {}
      BY <1>4, <2>2 DEF VaultLeft
    <3>3. QED
      BY <3>1, <3>2 DEF VaultBuilt
  <2>3. QED
    BY <2>1, <2>2
<1>12. CABuilt'
  BY <1>2 DEF CABuilt
<1>13. TrustBuilt'
  <2>1. ASSUME NEW p \in ProvidersFor(config.command)
        PROVE  Built(Tree(ProviderCA(p)), {})'
    <3>1. Built(Tree(ProviderCA(p)), {})
      BY <1>2 DEF Progress, TrustBuilt
    <3>2. Tree(ProviderCA(p)) \cap Tree(VaultDir) = {}
      BY PlacesApart
    <3>3. clear' \subseteq Tree(VaultDir) /\ fill' \subseteq Tree(VaultDir)
      BY <1>1, <1>5, <1>6
    <3>4. QED
      BY <1>1, <3>1, <3>2, <3>3, BuiltApart
  <2>2. QED
    BY <1>1, <1>2, <2>1 DEF TrustBuilt
<1>14. FillShape' /\ TempFresh'
  <2>1. Rebuilt(config) => held' >= since'
    <3>1. CASE env["vault"] = "managed"
      <4>1. disk[FileOf("vault")] >= since
        BY <1>1, <3>1 DEF Progress, FilesBuilt, Built, Idle, Files
      <4>2. QED
        BY <1>1, <1>6, <3>1, <4>1 DEF Certificate
    <3>2. CASE env["vault"] # "managed"
      BY <1>1, <1>6, <3>2 DEF Certificate, Bounds
    <3>3. QED
      BY <3>1, <3>2
  <2>2. FillShape'
    BY <1>1, <1>4, <1>6, <2>1 DEF FillShape
  <2>3. TempFresh'
    BY <1>1 DEF TempFresh, Idle
  <2>4. QED
    BY <2>2, <2>3
<1>15. Passed' /\ Ended'
  BY <1>1, <1>2, <1>4, <1>5, <1>6 DEF Progress, Passed, Ended
<1>16. QED
  BY <1>8, <1>10, <1>11, <1>12, <1>13, <1>14, <1>15 DEF Progress

\* The next secret of the plan is handled: its file is removed or written, or
\* is found elsewhere.
LEMMA ResolveProgress ==
  ASSUME TypeOK, Progress, Resolve, ~Refuse
  PROVE  Progress'
<1>1. /\ stage = "files" /\ Idle /\ status' = "resolving" /\ next' = next + 1
      /\ Current \in Plan(config) /\ Current \in Secrets
      /\ UNCHANGED <<config, stage, held, temp, disk, version, since, starts>>
  <2>1. next \in DOMAIN Order /\ Current \in Secrets
    BY OrderComplete DEF Resolve, Current
  <2>2. QED
    BY <2>1 DEF Resolve, At, work
<1>2. \/ /\ Unused(Current) /\ env' = env
         /\ clear' = Managed(Current) \cap Present /\ fill' = {}
      \/ /\ ~Unused(Current) /\ config.source[Current] = "inline"
         /\ env' = [env EXCEPT ![Current] = "managed"]
         /\ clear' = {} /\ fill' = Managed(Current)
      \/ /\ ~Unused(Current) /\ Located(config, Current)
         /\ env' = [env EXCEPT ![Current] = "external"]
         /\ clear' = {} /\ fill' = {}
  BY DEF Resolve, At, Idle, work
<1>3. /\ \A s : Handled(s)' <=> Handled(s) \/ s = Current
      /\ ~VaultBegun /\ ~VaultBegun' /\ ~CABegun' /\ \A p : ~TrustBegun(p) /\ ~TrustBegun(p)'
  BY <1>1, BehindNext DEF Handled, VaultBegun, CABegun, TrustBegun
<1>4. /\ \A s : InUse(s)' = InUse(s) /\ Located(config, s)' = Located(config, s)
      /\ \A s \in Secrets : s # Current => env'[s] = env[s]
      /\ env'[Current] = "unset" <=> Unused(Current)
      /\ Files \subseteq Secrets
  <2>1. \A s : InUse(s)' = InUse(s) /\ Located(config, s)' = Located(config, s)
    BY <1>1 DEF InUse, Unused, Located
  <2>2. \A s \in Secrets : s # Current => env'[s] = env[s]
    BY <1>2 DEF TypeOK
  <2>3. env'[Current] = "unset" <=> Unused(Current)
    <3>1. Unused(Current) => env[Current] = "unset"
      BY <1>1 DEF Progress, EnvKnown, InUse
    <3>2. QED
      BY <1>1, <1>2, <3>1 DEF TypeOK
  <2>4. QED
    BY <2>1, <2>2, <2>3 DEF Secrets
\* A secret that is listed twice is found as it was the first time.
<1>5. /\ env'[Current] = "managed" => config.source[Current] = "inline"
      /\ env[Current] = "managed" => config.source[Current] = "inline"
      /\ Located(config, Current) => config.source[Current] # "inline"
  <2>1. env[Current] = "managed" => config.source[Current] = "inline"
    BY <1>1, <1>3 DEF Progress, EnvKnown
  <2>2. Located(config, Current) => config.source[Current] # "inline"
    BY DEF Located
  <2>3. env'[Current] = "managed" => config.source[Current] = "inline"
    BY <1>1, <1>2, <2>1 DEF TypeOK
  <2>4. QED
    BY <2>1, <2>2, <2>3
<1>6. EnvKnown'
  <2>1. \A s \in Secrets : env'[s] # "unset" <=> Handled(s)' /\ InUse(s)'
    BY <1>1, <1>3, <1>4 DEF Progress, EnvKnown, InUse
  <2>2. \A s \in Secrets : env'[s] # "unset" =>
          config'.source[s] = "inline" \/ Located(config, s)'
    BY <1>1, <1>2, <1>4 DEF Progress, EnvKnown
  <2>3. \A s \in Secrets : env'[s] = "managed" =>
          \/ config'.source[s] = "inline"
          \/ s = "vault" /\ VaultBegun' /\ ~config'.inside
    BY <1>1, <1>3, <1>4, <1>5 DEF Progress, EnvKnown
  <2>4. QED
    BY <2>1, <2>2, <2>3 DEF EnvKnown
<1>7. clear' \subseteq {FileOf(Current)} /\ fill' \subseteq {FileOf(Current)}
  BY <1>2 DEF Managed
<1>8. \A s \in Files : \A F :
        s # Current /\ F \subseteq {FileOf(s)} /\ Built({FileOf(s)}, F)
          => Built({FileOf(s)}, F)'
  <2> TAKE s \in Files
  <2> TAKE F
  <2>1. CASE s # Current /\ F \subseteq {FileOf(s)} /\ Built({FileOf(s)}, F)
    <3>1. {FileOf(s)} \cap {FileOf(Current)} = {}
      BY <2>1, PlacesApart
    <3>2. QED
      BY <1>1, <1>7, <2>1, <3>1, BuiltApart
  <2>2. QED
    BY <2>1
<1>9. FilesBuilt'
  <2>1. \A s \in Files : env'[s] = "managed" => Built({FileOf(s)}, {FileOf(s)})'
    <3> TAKE s \in Files
    <3> HAVE env'[s] = "managed"
    <3>1. CASE s = Current
      <4>1. fill' = {FileOf(s)}
        BY <1>1, <1>2, <1>4, <1>5, <3>1 DEF Managed
      <4>2. QED
        BY <1>1, <4>1, BuiltNow
    <3>2. CASE s # Current
      BY <1>4, <1>8, <3>2 DEF Progress, FilesBuilt
    <3>3. QED
      BY <3>1, <3>2
  <2>2. \A s \in Files \cap Plan(config) :
          Handled(s)' /\ env'[s] = "unset" => Built({FileOf(s)}, {})'
    <3> TAKE s \in Files \cap Plan(config)
    <3> HAVE Handled(s)' /\ env'[s] = "unset"
    <3>1. CASE s = Current
      <4>1. clear' = {FileOf(s)} \cap Present /\ fill' = {}
        BY <1>2, <1>4, <3>1 DEF Managed
      <4>2. QED
        BY <1>1, <4>1, BuiltNow
    <3>2. CASE s # Current
      BY <1>3, <1>4, <1>8, <3>2 DEF Progress, FilesBuilt
    <3>3. QED
      BY <3>1, <3>2
  <2>3. \A p \in ProvidersFor(config.command) :
          env'[p] # "managed" => Built({FileOf(p)}, {})'
    <3> TAKE p \in ProvidersFor(config.command)
    <3> HAVE env'[p] # "managed"
    <3>1. p \in Files
      BY PlanSecrets DEF Files
    <3>2. env[p] # "managed"
      BY <1>1, <1>2, <1>4, <1>5, <3>1 DEF TypeOK
    <3>3. Built({FileOf(p)}, {})
      BY <3>2 DEF Progress, FilesBuilt
    <3>4. CASE p = Current
      <4>1. fill' = {}
        BY <1>1, <1>2, <3>4 DEF TypeOK
      <4>2. QED
        BY <1>1, <3>3, <4>1 DEF Built, Present, Idle
    <3>5. CASE p # Current
      BY <1>8, <3>1, <3>3, <3>5
    <3>6. QED
      BY <3>4, <3>5
  <2>4. QED
    BY <1>1, <2>1, <2>2, <2>3 DEF FilesBuilt
<1>10. VaultBuilt' /\ CABuilt'
  BY <1>3 DEF VaultBuilt, CABuilt
<1>11. TrustBuilt'
  <2>1. ASSUME NEW p \in ProvidersFor(config.command)
        PROVE  Built(Tree(ProviderCA(p)), {})'
    <3>1. Built(Tree(ProviderCA(p)), {})
      BY <1>3 DEF Progress, TrustBuilt
    <3>2. Tree(ProviderCA(p)) \cap {FileOf(Current)} = {}
      BY PlacesApart
    <3>3. QED
      BY <1>1, <1>7, <3>1, <3>2, BuiltApart
  <2>2. QED
    BY <1>1, <1>3, <2>1 DEF TrustBuilt
<1>12. FillShape' /\ TempFresh'
  BY <1>1 DEF FillShape, TempFresh, Idle
<1>13. Passed' /\ Ended'
  BY <1>1, <1>3 DEF Progress, Passed, Ended
<1>14. QED
  BY <1>6, <1>9, <1>10, <1>11, <1>12, <1>13 DEF Progress

-----------------------------------------------------------------------------
(* The invariant holds *)

\* What cleanupStaleProviderSecrets is going to remove is all there is of the
\* providers, whatever earlier starts have left.
LEMMA StartProgress ==
  ASSUME Start, status' = "resolving"
  PROVE  Progress'
<1>1. /\ stage' = "cleanup" /\ next' = 1 /\ env' = [s \in Secrets |-> "unset"]
      /\ ~PlanError(config') /\ clear' = Stale(config') \cap Present
      /\ fill' = {} /\ temp' = NoTemp /\ disk' = disk
  BY DEF Start, Enter
<1>2. /\ \A s : ~Handled(s)' /\ ~TrustBegun(s)'
      /\ ~VaultBegun' /\ ~CABegun'
  BY <1>1 DEF Handled, TrustBegun, VaultBegun, CABegun
<1>3. \A s \in Secrets : env'[s] = "unset"
  BY <1>1
<1>4. EnvKnown'
  BY <1>2, <1>3 DEF EnvKnown
<1>5. \A p \in ProvidersFor(config'.command) :
        Built({FileOf(p)}, {})' /\ Built(Tree(ProviderCA(p)), {})'
  <2> TAKE p \in ProvidersFor(config'.command)
  <2>1. FileOf(p) \in Stale(config') /\ Tree(ProviderCA(p)) \subseteq Stale(config')
    BY DEF Stale
  <2>2. QED
    BY <1>1, <2>1, BuiltNow
<1>6. FilesBuilt' /\ VaultBuilt' /\ CABuilt' /\ TrustBuilt'
  <2>1. FilesBuilt'
    BY <1>2, <1>3, <1>5 DEF FilesBuilt, Secrets
  <2>2. QED
    BY <1>2, <1>5, <2>1 DEF VaultBuilt, CABuilt, TrustBuilt
<1>7. FillShape' /\ TempFresh'
  BY <1>1 DEF FillShape, TempFresh
<1>8. Passed' /\ Ended'
  BY <1>1, <1>2 DEF Passed, Ended
<1>9. QED
  BY <1>4, <1>6, <1>7, <1>8 DEF Progress

LEMMA InvInit == Init => IInv
<1> SUFFICES ASSUME Init PROVE IInv
  OBVIOUS
<1>1. TypeOK
  BY TypeInit
<1>2. Bounds /\ Quiescent /\ Judged /\ ~Running
  BY DEF Init, Bounds, Quiescent, Idle, Judged, Running
<1>3. QED
  BY <1>1, <1>2 DEF IInv

LEMMA InvNext == IInv /\ [Next]_vars => IInv'
<1> SUFFICES ASSUME IInv, [Next]_vars PROVE IInv'
  OBVIOUS
<1>1. TypeOK /\ Bounds /\ Quiescent /\ Judged /\ (Running => Progress)
  BY DEF IInv
<1>2. TypeOK'
  BY <1>1, TypeNext DEF Progress
<1>3. CASE Start
  <2>1. Bounds'
    BY <1>1, <1>3 DEF Start, Bounds, TypeOK
  <2>2. Quiescent'
    BY <1>3 DEF Start, Quiescent, Idle
  <2>3. Judged'
    BY <1>3 DEF Start, Judged, Acceptable
  <2>4. Running' => Progress'
    BY <1>3, StartProgress DEF Start, Running
  <2>5. QED
    BY <1>2, <2>1, <2>2, <2>3, <2>4 DEF IInv
<1>4. ASSUME Gone, ~Running', status' = "refused" => ~Acceptable(config)
      PROVE  IInv'
  <2>1. Bounds' /\ Quiescent'
    BY <1>1, <1>4 DEF Gone, Bounds, Quiescent, Idle
  <2>2. Judged'
    BY <1>4 DEF Gone, Judged
  <2>3. QED
    BY <1>2, <1>4, <2>1, <2>2 DEF IInv
<1>5. CASE Crash \/ IOFails
  BY <1>4, <1>5 DEF Crash, IOFails, Running
<1>6. CASE UNCHANGED vars
  <2>1. UNCHANGED <<status, config, stage, next, env, clear, fill, held, temp, disk,
                    version, since, starts>>
    BY <1>6 DEF vars, work
  <2>2. Bounds' /\ Quiescent' /\ Judged'
    BY <1>1, <2>1 DEF Bounds, Quiescent, Idle, Judged
  <2>3. Running' => Progress'
    <3> SUFFICES ASSUME Running PROVE Progress'
      BY <2>1 DEF Running
    <3>1. AllBuilt'
      <4>1. \A T, F : Built(T, F) => Built(T, F)'
        BY <2>1, BuiltStays
      <4>2. QED
        BY <1>1, <2>1, <4>1, AllBuiltOn DEF AllBuilt, Progress
    <3>2. EnvKnown'
      BY <1>1, <2>1, SameControl DEF Progress, EnvKnown
    <3>3. FillShape'
      BY <1>1, <2>1, SameControl DEF Progress, FillShape
    <3>4. TempFresh'
      BY <1>1, <2>1 DEF Progress, TempFresh
    <3>5. Passed' /\ Ended'
      BY <1>1, <2>1, SameControl DEF Progress, Passed, Ended
    <3>6. QED
      BY <3>1, <3>2, <3>3, <3>4, <3>5 DEF AllBuilt, Progress
  <2>4. QED
    BY <1>2, <2>2, <2>3 DEF IInv
<1>7. CASE Update \/ Remove \/ BeginWrite \/ EndWrite \/ Rehash
  <2>1. status = "resolving"
    BY <1>7 DEF Update, Remove, BeginWrite, EndWrite, Rehash
  <2>2. Progress' /\ Bounds' /\ status' = "resolving"
    BY <1>1, <1>7, <2>1, WorkProgress DEF Running
  <2>3. QED
    BY <1>2, <2>2 DEF IInv, Quiescent, Judged
<1>8. CASE \/ Normalize \/ Resolve \/ Skip \/ SharedDirectories \/ VaultTLS \/ VaultTaken
           \/ VaultDone \/ CADirectory \/ CADone \/ ProviderCAs \/ Ready
  <2>1. status = "resolving" /\ Progress
    BY <1>1, <1>8 DEF Normalize, Resolve, Skip, SharedDirectories, VaultTLS, VaultTaken,
                      VaultDone, CADirectory, CADone, ProviderCAs, Ready, At, Running
  <2>2. CASE Refuse
    <3>1. Normalize \/ Resolve \/ SharedDirectories \/ VaultTaken \/ CADirectory
      BY <1>8, <2>1, <2>2 DEF Refuse, Skip, VaultTLS, VaultDone, CADone, ProviderCAs, Ready
    <3>2. ~Acceptable(config)
      BY <1>1, <2>1, <2>2, <3>1, RefusedJustly
    <3>3. QED
      BY <1>4, <2>2, <3>2 DEF Refuse, Running
  <2>3. CASE ~Refuse
    <3>1. Progress'
      BY <1>1, <1>8, <2>1, <2>3, NormalizeProgress, ResolveProgress, SkipProgress,
         SharedProgress, VaultTLSProgress, VaultDoneProgress, CADirectoryProgress,
         CADoneProgress, ProviderCAsProgress, ReadyProgress DEF VaultTaken
    <3>2. /\ status' \in {"resolving", "ready"} /\ UNCHANGED <<version, since>>
          /\ status' = "ready" => UNCHANGED <<clear, fill, temp>> /\ Idle
      BY <1>8, <2>1, <2>3
         DEF Normalize, Resolve, Skip, SharedDirectories, VaultTLS, VaultTaken, VaultDone,
             CADirectory, CADone, ProviderCAs, Ready, At, work
    <3>3. Bounds' /\ Quiescent' /\ Judged'
      BY <1>1, <3>2 DEF Bounds, Quiescent, Judged, Idle
    <3>4. QED
      BY <1>2, <3>1, <3>3 DEF IInv
  <2>4. QED
    BY <2>2, <2>3
<1>9. QED
  BY <1>3, <1>5, <1>6, <1>7, <1>8 DEF Next

-----------------------------------------------------------------------------
(* What follows from it *)

\* Once a start has succeeded, every directory it has built is complete.
LEMMA Finished ==
  ASSUME IInv, status = "ready"
  PROVE  /\ stage # "cleanup" => stage = "providers" /\ \A s \in Secrets : Behind(s)
         /\ \A s \in Files : Used(s) /\ env[s] = "managed" => disk[FileOf(s)] >= since
         /\ VaultRebuilt =>
              Holds(VaultDir) = VaultFiles /\ \A p \in VaultFiles : disk[p] >= since
         /\ CARebuilt =>
              Holds(GlobalCA) = CAFiles(config) /\ \A p \in CAFiles(config) : disk[p] >= since
         /\ \A p \in Providers : Used(p) =>
              Holds(ProviderCA(p)) = TrustFiles(p) /\ disk[TrustFile(p)] >= since
<1>1. TypeOK /\ Bounds /\ Idle /\ Progress
  BY DEF IInv, Quiescent, Running
<1>2. ASSUME stage # "cleanup"
      PROVE  stage = "providers" /\ \A s \in Secrets : Behind(s)
  <2>1. stage = "providers" /\ next = Len(Order) + 1
    BY <1>1, <1>2 DEF Progress, Ended
  <2>2. next \notin DOMAIN Order
    BY <2>1, OrderComplete
  <2>3. QED
    BY <1>1, <2>1, <2>2, BehindAll
<1>3. ASSUME NEW s \in Secrets, env[s] # "unset"
      PROVE  stage # "cleanup" /\ InUse(s)
  BY <1>1, <1>3 DEF Progress, EnvKnown, Handled
<1>4. ASSUME NEW s \in Files, Used(s), env[s] = "managed"
      PROVE  disk[FileOf(s)] >= since
  BY <1>1, <1>4 DEF Progress, FilesBuilt, Built, Idle
<1>5. ASSUME VaultRebuilt
      PROVE  Holds(VaultDir) = VaultFiles /\ \A p \in VaultFiles : disk[p] >= since
  <2>1. VaultBegun /\ RebuildsVault
    BY <1>2, <1>3, <1>5 DEF VaultRebuilt, Used, VaultBegun, RebuildsVault, Secrets, Files
  <2>2. config.shared \subseteq SharedNames
    BY <1>1, ConfigurationTyped DEF Configuration, TypeOK
  <2>3. VaultFiles \subseteq Tree(VaultDir) /\ Tree(VaultDir) \subseteq Places
    BY <2>2, PlacesIn DEF VaultFiles, Tree
  <2>4. Built(Tree(VaultDir), VaultFiles)
    BY <1>1, <2>1 DEF Progress, VaultBuilt, VaultLeft, RebuildsVault
  <2>5. QED
    BY <1>1, <2>3, <2>4, BuiltIdle DEF Holds
<1>6. ASSUME CARebuilt
      PROVE  Holds(GlobalCA) = CAFiles(config) /\ \A p \in CAFiles(config) : disk[p] >= since
  <2>1. CABegun /\ RebuildsCA
    BY <1>2, <1>6 DEF CARebuilt, CABegun, RebuildsCA
  <2>2. config.ca \subseteq SharedNames
    BY <1>1, ConfigurationTyped DEF Configuration, TypeOK
  <2>3. CAFiles(config) \subseteq Tree(GlobalCA) /\ Tree(GlobalCA) \subseteq Places
    BY <2>2, PlacesIn DEF CAFiles, Links, Tree
  <2>4. Built(Tree(GlobalCA), CAFiles(config))
    BY <1>1, <2>1 DEF Progress, CABuilt
  <2>5. QED
    BY <1>1, <2>3, <2>4, BuiltIdle DEF Holds
<1>7. ASSUME NEW p \in Providers, Used(p)
      PROVE  Holds(ProviderCA(p)) = TrustFiles(p) /\ disk[TrustFile(p)] >= since
  <2>1. p \in ProvidersFor(config.command)
    BY <1>7, ProviderAssumption DEF Used, Plan, Named
  <2>2. p \in Secrets /\ env[p] # "unset"
    BY <1>7 DEF Used, Secrets, Files
  <2>3. TrustBegun(p)
    BY <1>2, <1>3, <2>2 DEF TrustBegun
  <2>4. Built(Tree(ProviderCA(p)), TrustFiles(p))
    BY <1>1, <2>1, <2>2, <2>3 DEF Progress, TrustBuilt
  <2>5. TrustFiles(p) \subseteq Tree(ProviderCA(p)) /\ Tree(ProviderCA(p)) \subseteq Places
    BY TrustIn, PlacesIn
  <2>6. QED
    BY <1>1, <2>4, <2>5, BuiltIdle DEF Holds, TrustFiles
<1>8. QED
  BY <1>2, <1>4, <1>5, <1>6, <1>7

LEMMA Fresh == IInv => NothingOld
<1> SUFFICES ASSUME IInv PROVE NothingOld
  OBVIOUS
<1>1. CASE status = "ready"
  <2>1. VaultRebuilt => \A n \in config.shared : disk[<<VaultDir, n>>] >= since
    BY <1>1, Finished DEF VaultFiles
  <2>2. CARebuilt => \A n \in config.ca : disk[<<GlobalCA, n>>] >= since
    BY <1>1, Finished DEF CAFiles
  <2>3. \A p \in Providers : Used(p) =>
          \E n \in {p, "external"} : disk[<<ProviderCA(p), n>>] >= since
    BY <1>1, Finished DEF TrustFile
  <2>4. \A s \in Files : Used(s) /\ env[s] = "managed" => disk[FileOf(s)] >= since
    BY <1>1, Finished
  <2>5. QED
    BY <2>1, <2>2, <2>3, <2>4 DEF NothingOld
<1>2. CASE status # "ready"
  BY <1>2 DEF NothingOld, Used, VaultRebuilt, CARebuilt
<1>3. QED
  BY <1>1, <1>2

LEMMA Exact == IInv => ExactDirectories
<1> SUFFICES ASSUME IInv PROVE ExactDirectories
  OBVIOUS
<1>1. CASE status = "ready"
  <2>1. CARebuilt => Holds(GlobalCA) = CAFiles(config)
    BY <1>1, Finished
  <2>2. VaultRebuilt => Holds(VaultDir) =
          {<<VaultDir, n>> : n \in config.shared} \cup {FileOf("vault")}
    BY <1>1, Finished DEF VaultFiles
  <2>3. \A p \in Providers : Used(p) => Holds(ProviderCA(p)) = TrustFiles(p)
    BY <1>1, Finished
  <2>4. QED
    BY <2>1, <2>2, <2>3 DEF ExactDirectories
<1>2. CASE status # "ready"
  BY <1>2 DEF ExactDirectories, Used, VaultRebuilt, CARebuilt
<1>3. QED
  BY <1>1, <1>2

\* What is in a place of a finished directory is of this start.
LEMMA BuiltFresh ==
  ASSUME TypeOK, Bounds, Idle, NEW T \in SUBSET Places, NEW F, Built(T, F), NEW p \in T
  PROVE  disk[p] = 0 \/ disk[p] >= since
<1>1. CASE p \in Present
  <2>1. p \in F
    BY <1>1 DEF Built, Idle
  <2>2. QED
    BY <2>1 DEF Built, Idle
<1>2. CASE p \notin Present
  BY <1>2 DEF Present
<1>3. QED
  BY <1>1, <1>2

LEMMA Replaced == IInv => OldFilesGone
<1> DEFINE New(p) == disk[p] = 0 \/ disk[p] >= since
<1> SUFFICES ASSUME IInv, status = "ready",
                    NEW p \in InCharge, \A s \in Mounted : p # FileOf(s)
             PROVE  New(p)
  BY DEF OldFilesGone
<1>1. TypeOK /\ Bounds /\ Idle /\ Progress
  BY DEF IInv, Quiescent, Running
<1>2. Plan(config) # {} =>
        VaultBegun /\ CABegun /\ \A s \in Plan(config) : Handled(s)
  <2>1. ~EmptyPlan(config) => stage # "cleanup"
    BY <1>1 DEF Progress, Ended
  <2>2. QED
    BY <2>1, Finished DEF EmptyPlan, VaultBegun, CABegun, Handled
<1>3. config.command = "service" => \A q \in Tree(VaultDir) : New(q)
  <2> SUFFICES ASSUME config.command = "service" PROVE \A q \in Tree(VaultDir) : New(q)
    OBVIOUS
  <2>1. VaultBegun
    BY <1>2 DEF Plan
  <2>2. Built(Tree(VaultDir), VaultLeft)
    BY <1>1, <2>1 DEF Progress, VaultBuilt
  <2>3. QED
    BY <1>1, <2>2, PlacesIn, BuiltFresh
<1>4. CARebuilt => \A q \in Tree(GlobalCA) : New(q)
  <2> SUFFICES ASSUME CARebuilt PROVE \A q \in Tree(GlobalCA) : New(q)
    OBVIOUS
  <2>1. CABegun /\ RebuildsCA
    BY Finished DEF CARebuilt, CABegun, RebuildsCA
  <2>2. Built(Tree(GlobalCA), CAFiles(config))
    BY <1>1, <2>1 DEF Progress, CABuilt
  <2>3. QED
    BY <1>1, <2>2, PlacesIn, BuiltFresh
<1>5. \A q \in ProvidersFor(config.command) : \A place \in Tree(ProviderCA(q)) : New(place)
  <2> TAKE q \in ProvidersFor(config.command)
  <2>1. \E F : Built(Tree(ProviderCA(q)), F)
    BY <1>1 DEF Progress, TrustBuilt
  <2>2. Tree(ProviderCA(q)) \subseteq Places
    BY PlanSecrets, PlacesIn
  <2>3. QED
    BY <1>1, <2>1, <2>2, BuiltFresh
<1>6. \A s \in Files : \A F : Built({FileOf(s)}, F) => New(FileOf(s))
  <2> TAKE s \in Files
  <2> TAKE F
  <2>1. {FileOf(s)} \subseteq Places
    BY PlacesIn
  <2>2. QED
    BY <1>1, <2>1, BuiltFresh
<1>7. \A s \in Files : env[s] = "managed" => New(FileOf(s))
  BY <1>1, <1>6 DEF Progress, FilesBuilt
<1>8. \A q \in ProvidersFor(config.command) : New(FileOf(q))
  <2> TAKE q \in ProvidersFor(config.command)
  <2>1. q \in Files
    BY PlanSecrets DEF Files
  <2>2. CASE env[q] = "managed"
    BY <1>7, <2>1, <2>2
  <2>3. CASE env[q] # "managed"
    BY <1>1, <1>6, <2>1, <2>3 DEF Progress, FilesBuilt
  <2>4. QED
    BY <2>2, <2>3
<1>9. ASSUME NEW s \in Files \cap Plan(config), p = FileOf(s) PROVE New(p)
  <2>1. CASE env[s] = "managed"
    BY <1>7, <1>9, <2>1
  <2>2. CASE env[s] = "unset"
    <3>1. Handled(s)
      BY <1>2
    <3>2. QED
      BY <1>1, <1>6, <1>9, <2>2, <3>1 DEF Progress, FilesBuilt
  <2>3. CASE env[s] = "external" /\ s \in Providers
    <3>1. s \in ProvidersFor(config.command)
      BY <2>3, ProviderAssumption DEF Plan, Named
    <3>2. QED
      BY <1>8, <1>9, <3>1
  <2>4. CASE env[s] = "external" /\ s \notin Providers
    <3>1. s = "vault" /\ config.command = "service"
      BY <1>9, <2>4 DEF Mounted, Files
    <3>2. p \in Tree(VaultDir)
      BY <1>9, <3>1, PlacesIn
    <3>3. QED
      BY <1>3, <3>1, <3>2
  <2>5. env[s] \in {"unset", "managed", "external"}
    BY <1>1 DEF TypeOK, Secrets
  <2>6. QED
    BY <2>1, <2>2, <2>3, <2>4, <2>5
<1>10. QED
  BY <1>3, <1>4, <1>5, <1>8, <1>9 DEF InCharge

LEMMA Harmless == IInv => LeftoversHarmless
<1> SUFFICES ASSUME IInv, status = "ready" PROVE Acceptable(config)
  BY DEF IInv, Judged, LeftoversHarmless
<1>1. TypeOK /\ Progress
  BY DEF IInv, Running
<1>2. CASE stage = "cleanup"
  BY <1>1, <1>2 DEF Progress, Passed, Ended, Acceptable
<1>3. CASE stage # "cleanup"
  <2>1. stage = "providers" /\ VaultBegun /\ CABegun
    BY <1>3, Finished DEF VaultBegun, CABegun
  <2>2. \A s \in Plan(config) : Active(config, s) /\ Given(config, s) =>
          config.source[s] = "inline" \/ Located(config, s)
    <3> SUFFICES ASSUME NEW s \in Plan(config), Active(config, s), Given(config, s)
                 PROVE  config.source[s] = "inline" \/ Located(config, s)
      OBVIOUS
    <3>1. s \in Secrets /\ InUse(s) /\ Handled(s)
      BY <2>1, PlanSecrets DEF InUse, Unused, Handled
    <3>2. QED
      BY <1>1, <3>1 DEF Progress, EnvKnown
  <2>3. ~(config.command = "service" /\ config.taken /\ ~config.inside
            /\ "vault" \in config.active /\ Given(config, "vault"))
    <3> SUFFICES ASSUME config.command = "service", config.taken, ~config.inside,
                        "vault" \in config.active, Given(config, "vault")
                 PROVE  FALSE
      OBVIOUS
    <3>1. RebuildsVault
      BY DEF RebuildsVault, InUse, Unused, Active, Plan
    <3>2. QED
      BY <1>1, <2>1, <3>1 DEF Progress, Passed
  <2>4. ~PlanError(config) /\ ~(config.clash /\ "vault" \in Plan(config))
        /\ (UsesShared(config) => ~config.sharedTwice)
        /\ (UsesCA(config) /\ ~config.caGiven => ~config.caTwice)
    BY <1>1, <2>1 DEF Progress, Passed, RebuildsCA
  <2>5. QED
    BY <2>2, <2>3, <2>4 DEF Acceptable
<1>4. QED
  BY <1>2, <1>3

-----------------------------------------------------------------------------
(* The theorems *)

\* The invariant from which all the others follow, for the whole of
\* ResolveSecrets: what a start has handled so far is on disk, or about to be,
\* exactly as its configuration has it.
THEOREM Invariant == Spec => []IInv
  BY InvInit, InvNext, PTL DEF Spec

\* Every variable keeps its type: nothing is written or removed outside the
\* internal secrets directory (secretManager.write, removeTree).
THEOREM TypeCorrect == Spec => []TypeOK
<1>1. IInv => TypeOK
  BY DEF IInv
<1>2. QED
  BY <1>1, Invariant, PTL

\* resolveFileSecret, prepareManagedCADir, prepareVaultTLSDirectory: whatever
\* starts came before, and wherever they were killed, a start that succeeds
\* has the server read files of its own only.
THEOREM OnlyNewFiles == Spec => []NothingOld
  BY Invariant, Fresh, PTL

\* prepareManagedCADir and prepareVaultTLSDirectory: the directories of
\* certificates hold exactly what the start has put there.
THEOREM DirectoriesExact == Spec => []ExactDirectories
  BY Invariant, Exact, PTL

\* cleanupStaleProviderSecrets, resolveFileSecret, prepareVaultTLSFile and
\* prepareManagedCADir: a start that succeeds leaves nothing of an earlier one
\* in the places it is in charge of, but the managed file of a secret that is
\* a mounted file by now.
THEOREM OldFilesReplaced == Spec => []OldFilesGone
  BY Invariant, Replaced, PTL

\* ResolveSecrets: whether a start succeeds or is refused depends on its
\* configuration alone, never on what earlier starts have left on disk.
THEOREM OutcomeOfConfiguration == Spec => []LeftoversHarmless
  BY Invariant, Harmless, PTL
=============================================================================
