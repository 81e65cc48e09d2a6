------------------------- MODULE PgProvision_proofs -------------------------
(***************************************************************************)
(* Proofs about PgProvision for any set of containers, any split of the    *)
(* files into transactions and any number of faults.                       *)
(***************************************************************************)
EXTENDS PgProvision, TLAPS

(***************************************************************************)
(* The inductive invariant.                                                *)
(***************************************************************************)

\* A run decides to import at the first transaction.
NextFresh ==
  \A n \in Nodes : pc[n] \in Administrative \cup {"connect", "target"} => next[n] = 1

\* The database holds a prefix of the files.
PrefixApplied == \E k \in 0..Total : applied = 1..k

ImportInv == NextFresh /\ PrefixApplied /\ OneImporter

\* What a container has established when it reaches a request.
Established ==
  \A n \in Nodes :
    /\ pc[n] \in Preparing \ {"connect", "dbCheck", "dbCreate"} => database
    /\ pc[n] \in {"tableCheck", "versionRead", "import"} => namespace

IInv == TypeOK /\ ImportInv /\ Established /\ (Named \/ namespace) /\ ReadySchema

-----------------------------------------------------------------------------
\* A container leaves the query it was at to the server.
Hands(n) ==
  \E q \in Query :
    /\ late' = late \cup {q}
    /\ LateImport(q) => Importing(n) /\ q.transaction = next[n]

\* One container moves without a commit: it imports afterwards only from where
\* it did.
Move(n) ==
  /\ \A m \in Nodes \ {n} : pc'[m] = pc[m] /\ next'[m] = next[m]
  /\ pc'[n] = "ready" => pc[n] = "ready" \/ (pc[n] = "versionRead" /\ Versioned)
  /\ Importing(n)' => Importing(n) /\ next'[n] = next[n]
  /\ \/ late' = late
     \/ pc'[n] = "exited" /\ Hands(n)

\* A step other than a commit: nothing is applied, and one container moves or
\* the server drops queries.
Quiet ==
  /\ applied' = applied
  /\ \/ UNCHANGED <<pc, next>> /\ late' \subseteq late
     \/ \E n \in Nodes : Move(n)

\* A commit moves its container by one, or makes it ready.
Effect(n) ==
  /\ pc[n] = "import" /\ next[n] \notin applied
  /\ Commit(n)

\* A commit of a query whose sender is dead.
LateEffect(q) ==
  /\ q.request = "import" /\ q.transaction \notin applied
  /\ GoOn(q)

StepOfKind ==
  \/ Quiet /\ NextFresh' /\ TypeOK'
  \/ \E n \in Nodes : Effect(n)
  \/ \E q \in late : LateEffect(q)

LEMMA CrashHands ==
  ASSUME TypeOK, NEW n \in Nodes, Crash(n)
  PROVE  late' \subseteq Query /\ (late' = late \/ Hands(n))
<1> DEFINE q == [request |-> pc[n], transaction |-> next[n]]
<1>1. CASE Sent(n) = {}
  <2>1. late' = late /\ late \subseteq Query
    BY <1>1 DEF Crash, TypeOK
  <2>2. QED
    BY <2>1
<1>2. CASE Sent(n) # {}
  <2>1. Sent(n) = {q}
    BY <1>2 DEF Sent
  <2>2. pc[n] \in Writes
    BY <1>2 DEF Sent, Writes
  <2>3. q \in Query
    BY <2>2 DEF Query, TypeOK
  <2>4. LateImport(q) => Importing(n) /\ q.transaction = next[n]
    BY DEF LateImport, Importing
  <2>5. late' = late \/ late' = late \cup {q}
    BY <2>1 DEF Crash
  <2>6. late' \subseteq Query
    BY <2>3, <2>5 DEF TypeOK
  <2>7. QED
    BY <2>3, <2>4, <2>5, <2>6 DEF Hands
<1>3. QED
  BY <1>1, <1>2

LEMMA StepKinds == TypeOK /\ NextFresh /\ [Next]_vars => StepOfKind
<1> USE ScriptAssumption
<1> SUFFICES ASSUME TypeOK, NextFresh, [Next]_vars
             PROVE  StepOfKind
  OBVIOUS
<1> DEFINE Good == Quiet /\ NextFresh' /\ TypeOK'
<1> USE DEF TypeOK, NextFresh, server, shared, Administrative,
            Preparing, Goto, Leave, Fail
<1>1. CASE DatabaseUp
  <2>1. UNCHANGED <<pc, next, late, applied>>
    BY <1>1 DEF DatabaseUp
  <2>2. TypeOK' /\ NextFresh'
    BY <1>1 DEF DatabaseUp
  <2>3. QED
    BY <2>1, <2>2 DEF Quiet, StepOfKind
<1>2. CASE DatabaseDown
  <2>1. session' \in [Nodes -> BOOLEAN] /\ file' \in [Nodes -> {"none", "open", "dead"}]
    BY <1>2 DEF DatabaseDown
  <2>2. faults' \in 0..MaxFaults
    BY <1>2 DEF DatabaseDown
  <2>3. UNCHANGED <<pc, next, applied>> /\ late' = {}
    BY <1>2 DEF DatabaseDown
  <2>4. TypeOK' /\ NextFresh'
    BY <1>2, <2>1, <2>2 DEF DatabaseDown
  <2>5. QED
    BY <2>3, <2>4 DEF Quiet, StepOfKind
<1>3. ASSUME NEW n \in Nodes, Crash(n)
      PROVE  Good
  <2>1. late' \subseteq Query /\ (late' = late \/ Hands(n))
    BY <1>3, CrashHands DEF NextFresh
  <2>2. late' \subseteq Query
    BY <2>1, Zenon
  <2>3. /\ pc' = [pc EXCEPT ![n] = "exited"]
        /\ session' = [session EXCEPT ![n] = FALSE]
        /\ file' = [file EXCEPT ![n] = "none"]
        /\ faults' \in 0..MaxFaults
        /\ UNCHANGED <<next, dbUp, shared>>
    BY <1>3 DEF Crash
  <2>4. TypeOK' /\ NextFresh'
    BY <2>2, <2>3
  <2>5. Move(n)
    <3>1. pc'[n] = "exited" /\ ~Importing(n)'
      BY <2>3 DEF Importing
    <3>2. \A m \in Nodes \ {n} : pc'[m] = pc[m] /\ next'[m] = next[m]
      BY <2>3
    <3>3. pc'[n] # "ready"
      BY <3>1
    <3>4. QED
      BY <2>1, <3>1, <3>2, <3>3, Zenon DEF Move
  <2>6. QED
    BY <2>3, <2>4, <2>5 DEF Quiet
<1>4. ASSUME NEW n \in Nodes, Restart(n)
      PROVE  Good
  <2>1. Move(n) /\ NextFresh' /\ TypeOK'
    BY <1>4 DEF Restart, Move, Importing
  <2>2. QED
    BY <1>4, <2>1 DEF Restart, Quiet
<1>5. ASSUME NEW n \in Nodes, Prepare(n)
      PROVE  Good \/ Effect(n)
  <2> DEFINE Moves == Move(n) /\ applied' = applied /\ NextFresh' /\ TypeOK'
  <2>1. CASE Connect(n)          BY <2>1 DEF Connect, Quiet, Move, Importing
  <2>2. CASE SessionError(n)     BY <2>2 DEF SessionError, Quiet, Move, Importing
  <2>3. CASE CheckDatabase(n)    BY <2>3 DEF CheckDatabase, Ask, Quiet, Move, Importing
  <2>4. CASE CreateDatabase(n)
    <3>1. Moves
      BY <2>4, ZenonT(60) DEF CreateDatabase, Move, Importing
    <3>2. QED
      BY <3>1 DEF Quiet
  <2>5. CASE ConnectTarget(n)
    <3>1. Moves
      BY <2>5, ZenonT(60) DEF ConnectTarget, Move, Importing
    <3>2. QED
      BY <3>1 DEF Quiet
  <2>6. CASE CheckNamespace(n)   BY <2>6 DEF CheckNamespace, Ask, Quiet, Move, Importing
  <2>7. CASE CreateNamespace(n)
    <3>1. Moves
      BY <2>7, ZenonT(60) DEF CreateNamespace, Move, Importing
    <3>2. QED
      BY <3>1 DEF Quiet
  <2>8. CASE CheckTable(n)       BY <2>8 DEF CheckTable, Ask, Quiet, Move, Importing
  <2>9. CASE ReadVersion(n)      BY <2>9 DEF ReadVersion, Ask, Quiet, Move, Importing
  <2>10. CASE OpenFile(n)
    <3>1. Moves
      BY <2>10, ZenonT(60) DEF OpenFile, Move, Importing
    <3>2. QED
      BY <3>1 DEF Quiet
  <2>11. CASE ImportError(n)     BY <2>11 DEF ImportError, Quiet, Move, Importing
  <2>12. CASE Transaction(n)
    <3>1. CASE next[n] \in applied
      <4>1. Moves
        BY <2>12, <3>1, ZenonT(60) DEF Transaction, Move, Importing
      <4>2. QED
        BY <4>1 DEF Quiet
    <3>2. CASE next[n] \notin applied
      BY <2>12, <3>2 DEF Transaction, Effect
    <3>3. QED
      BY <3>1, <3>2
  <2>13. QED
    BY <1>5, <2>1, <2>2, <2>3, <2>4, <2>5, <2>6, <2>7, <2>8, <2>9, <2>10,
       <2>11, <2>12 DEF Prepare
<1>6. ASSUME NEW q \in late, GoOn(q)
      PROVE  Good \/ LateEffect(q)
  <2>1. CASE q.request = "import" /\ q.transaction \notin applied
    BY <1>6, <2>1 DEF LateEffect
  <2>2. CASE q.request # "import" \/ q.transaction \in applied
    <3>1. applied' = applied /\ late' = late \ {q}
      BY <1>6, <2>2 DEF GoOn
    <3>2. UNCHANGED <<pc, session, file, next, dbUp, userDatabase, faults>>
      BY <1>6 DEF GoOn
    <3>3. database' \in BOOLEAN /\ namespace' \in BOOLEAN
      BY <1>6 DEF GoOn
    <3>4. QED
      BY <3>1, <3>2, <3>3 DEF Quiet
  <2>3. QED
    BY <2>1, <2>2
<1>7. ASSUME NEW q \in late, Notice(q)
      PROVE  Good
  <2>1. UNCHANGED <<pc, next, applied>> /\ late' \subseteq late
    BY <1>7 DEF Notice
  <2>2. TypeOK' /\ NextFresh'
    BY <1>7 DEF Notice
  <2>3. QED
    BY <2>1, <2>2 DEF Quiet
<1>8. CASE UNCHANGED vars
  <2>1. UNCHANGED <<pc, next, late, applied>>
    BY <1>8 DEF vars
  <2>2. TypeOK' /\ NextFresh'
    BY <1>8 DEF vars
  <2>3. QED
    BY <2>1, <2>2 DEF Quiet, StepOfKind
<1>9. QED
  BY <1>1, <1>2, <1>3, <1>4, <1>5, <1>6, <1>7, <1>8 DEF Next, StepOfKind

-----------------------------------------------------------------------------
\* What a commit does, without the sessions: the last one makes the container
\* ready, any other moves it on.
LEMMA EffectMoves ==
  ASSUME TypeOK, NEW n \in Nodes, Effect(n)
  PROVE  /\ applied' = applied \cup {next[n]}
         /\ \A m \in Nodes \ {n} : pc'[m] = pc[m] /\ next'[m] = next[m]
         /\ next[n] = Total => pc'[n] = "ready"
         /\ next[n] # Total => pc'[n] = "import" /\ next'[n] = next[n] + 1
         /\ UNCHANGED <<late, database, namespace>>
         /\ TypeOK'
<1> USE ScriptAssumption DEF TypeOK, Effect, Goto, Preparing, Administrative, server
<1>1. CASE next[n] = Total
  <2>1. /\ pc' = [pc EXCEPT ![n] = "ready"] /\ session' = [session EXCEPT ![n] = FALSE]
        /\ file' = [file EXCEPT ![n] = "none"] /\ next' = next
        /\ applied' = applied \cup {next[n]}
        /\ UNCHANGED <<dbUp, late, userDatabase, database, namespace, faults>>
    BY <1>1 DEF Commit
  <2>2. pc' \in [Nodes -> Preparing \cup {"ready", "exited"}] /\ pc'[n] = "ready"
    BY <2>1
  <2>3. QED
    BY <1>1, <2>1, <2>2
<1>2. CASE next[n] # Total
  <2>1. next[n] + 1 \in 1..Total
    BY <1>2
  <2>2. next' = [next EXCEPT ![n] = next[n] + 1] /\ pc' = pc /\ session' = session
    BY <1>2 DEF Commit
  <2>3. file' = [file EXCEPT ![n] =
                   IF EndsQuery(next[n]) THEN "none" ELSE file[n]]
    BY <1>2 DEF Commit
  <2>4. file' \in [Nodes -> {"none", "open", "dead"}]
    BY <2>3
  <2>5. next' \in [Nodes -> 1..Total] /\ next'[n] = next[n] + 1
    BY <2>1, <2>2
  <2>6. /\ applied' = applied \cup {next[n]}
        /\ UNCHANGED <<dbUp, late, userDatabase, database, namespace, faults>>
    BY DEF Commit
  <2>7. QED
    BY <1>2, <2>2, <2>4, <2>5, <2>6, ZenonT(60)
<1>3. QED
  BY <1>1, <1>2

\* Whoever commits transaction k either claims an empty database or is its
\* importer: either way it stands right behind the applied prefix, and nobody
\* else imports.
LEMMA EffectAtFront ==
  ASSUME TypeOK, ImportInv, NEW n \in Nodes, Effect(n)
  PROVE  /\ next[n] \in 1..Total
         /\ applied = 1..(next[n] - 1)
         /\ applied' = 1..next[n]
         /\ \A m \in Nodes : Importing(m) => m = n
         /\ \A q \in late : ~LateImport(q)
<1> USE ScriptAssumption DEF TypeOK, ImportInv, OneImporter
<1>1. next[n] \in 1..Total
  OBVIOUS
<1>2. applied = 1..(next[n] - 1)
  <2>1. CASE next[n] > 1
    BY <2>1 DEF Effect, Importing
  <2>2. CASE next[n] = 1
    <3>1. 1 \notin applied
      BY <2>2 DEF Effect
    <3>2. applied = {}
      BY <3>1 DEF PrefixApplied
    <3>3. QED
      BY <2>2, <3>2
  <2>3. QED
    BY <1>1, <2>1, <2>2
<1>3. applied' = 1..next[n]
  <2>1. applied' = applied \cup {next[n]}
    BY DEF Effect, Commit
  <2>2. QED
    BY <1>1, <1>2, <2>1
<1>4. ASSUME NEW m \in Nodes, Importing(m)
      PROVE  m = n
  <2>1. 1 \in applied
    BY <1>4 DEF Importing
  <2>2. Importing(n)
    BY <1>1, <1>2, <2>1 DEF Effect, Importing
  <2>3. QED
    BY <1>4, <2>2
<1>5. ASSUME NEW q \in late, LateImport(q)
      PROVE  FALSE
  <2>1. q.transaction \in 1..Total /\ q.transaction > 1 /\ applied = 1..(q.transaction - 1)
    BY <1>5 DEF Query, LateImport
  <2>2. 1 \in applied
    BY <2>1
  <2>3. Importing(n)
    BY <1>1, <1>2, <2>2 DEF Effect, Importing
  <2>4. QED
    BY <1>5, <2>3
<1>6. QED
  BY <1>1, <1>2, <1>3, <1>4, <1>5

LEMMA LateEffectAtFront ==
  ASSUME TypeOK, ImportInv, NEW q \in late, LateEffect(q)
  PROVE  /\ q.transaction \in 1..Total
         /\ applied = 1..(q.transaction - 1)
         /\ applied' = 1..q.transaction
         /\ \A m \in Nodes : ~Importing(m)
         /\ \A r \in late \ {q} : ~LateImport(r)
<1> USE ScriptAssumption DEF TypeOK, ImportInv, OneImporter
<1>1. q.transaction \in 1..Total /\ q.request = "import"
  BY DEF Query, LateEffect
<1>2. applied = 1..(q.transaction - 1)
  <2>1. CASE q.transaction > 1
    BY <1>1, <2>1 DEF LateImport
  <2>2. CASE q.transaction = 1
    <3>1. 1 \notin applied
      BY <2>2 DEF LateEffect
    <3>2. applied = {}
      BY <3>1 DEF PrefixApplied
    <3>3. QED
      BY <2>2, <3>2
  <2>3. QED
    BY <1>1, <2>1, <2>2
<1>3. applied' = 1..q.transaction
  <2>1. applied' = applied \cup {q.transaction}
    BY DEF LateEffect, GoOn
  <2>2. QED
    BY <1>1, <1>2, <2>1
<1>4. ASSUME 1 \in applied
      PROVE  LateImport(q)
  BY <1>1, <1>2, <1>4 DEF LateImport
<1>5. ASSUME NEW m \in Nodes, Importing(m)
      PROVE  FALSE
  <2>1. 1 \in applied
    BY <1>5 DEF Importing
  <2>2. QED
    BY <1>4, <1>5, <2>1
<1>6. ASSUME NEW r \in late \ {q}, LateImport(r)
      PROVE  FALSE
  <2>1. r.transaction \in 1..Total /\ r.transaction > 1 /\ applied = 1..(r.transaction - 1)
    BY <1>6 DEF Query, LateImport
  <2>2. 1 \in applied
    BY <2>1
  <2>3. QED
    BY <1>4, <1>6, <2>2
<1>7. QED
  BY <1>1, <1>2, <1>3, <1>5, <1>6

\* What a late commit does: its query stands at the next transaction or has
\* come to its end.
LEMMA LateEffectMoves ==
  ASSUME TypeOK, NEW q \in late, LateEffect(q)
  PROVE  /\ UNCHANGED <<pc, next, database, namespace>>
         /\ \/ late' = late \ {q}
            \/ /\ q.transaction # Total
               /\ \E r \in Query :
                    /\ r.request = "import" /\ r.transaction = q.transaction + 1
                    /\ late' = (late \ {q}) \cup {r}
         /\ TypeOK'
<1> USE ScriptAssumption DEF TypeOK
<1>1. q.transaction \in 1..Total /\ q.request = "import" /\ q \in Query
  BY DEF Query, LateEffect
<1>2. UNCHANGED <<pc, session, file, next, dbUp, userDatabase, database, namespace, faults>>
  BY <1>1 DEF LateEffect, GoOn
<1>3. applied' \subseteq 1..Total
  BY <1>1 DEF LateEffect, GoOn
<1>4. CASE EndsQuery(q.transaction)
  <2>1. late' = late \ {q}
    BY <1>4 DEF LateEffect, GoOn
  <2>2. QED
    BY <1>2, <1>3, <2>1
<1>5. CASE ~EndsQuery(q.transaction)
  <2> DEFINE r == [q EXCEPT !.transaction = q.transaction + 1]
  <2>1. q.transaction # Total /\ q.transaction + 1 \in 1..Total
    BY <1>1, <1>5 DEF EndsQuery
  <2>2. r \in Query /\ r.request = "import" /\ r.transaction = q.transaction + 1
    BY <1>1, <2>1 DEF Query
  <2>3. late' = (late \ {q}) \cup {r}
    BY <1>5 DEF LateEffect, GoOn
  <2>4. late' \subseteq Query
    BY <2>2, <2>3
  <2>5. QED
    BY <1>2, <1>3, <2>1, <2>2, <2>3, <2>4
<1>6. QED
  BY <1>4, <1>5

\* In a quiet step, a query that imports afterwards did so before, or is what
\* the importer has left to the server.
LEMMA QuietImporters ==
  ASSUME TypeOK, ImportInv, Quiet, NextFresh', TypeOK'
  PROVE  OneImporter'
<1> USE DEF ImportInv, OneImporter
<1>1. CASE UNCHANGED <<pc, next>> /\ late' \subseteq late
  BY <1>1 DEF Quiet, Importing
<1>2. ASSUME NEW n \in Nodes, Move(n)
      PROVE  OneImporter'
  <2>1. applied' = applied
    BY DEF Quiet
  <2>2. \A m \in Nodes : Importing(m)' => Importing(m) /\ next'[m] = next[m]
    BY <1>2 DEF Move, Importing
  <2>3. CASE late' = late
    BY <2>1, <2>2, <2>3
  <2>4. ASSUME NEW q \in Query, late' = late \cup {q}, pc'[n] = "exited",
               LateImport(q) => Importing(n) /\ q.transaction = next[n]
        PROVE  OneImporter'
    <3>1. CASE ~LateImport(q)
      BY <2>1, <2>2, <2>4, <3>1
    <3>2. CASE LateImport(q)
      <4>1. Importing(n) /\ q.transaction = next[n] /\ ~Importing(n)'
        BY <2>4, <3>2 DEF Importing
      <4>2. \A m \in Nodes : ~Importing(m)'
        BY <2>2, <4>1
      <4>3. \A r \in late : ~LateImport(r)
        BY <4>1
      <4>4. applied' = 1..(q.transaction - 1)
        BY <2>1, <4>1
      <4>5. QED
        BY <2>4, <4>2, <4>3, <4>4
    <3>3. QED
      BY <3>1, <3>2
  <2>5. QED
    BY <1>2, <2>3, <2>4 DEF Move, Hands
<1>3. QED
  BY <1>1, <1>2 DEF Quiet

LEMMA ImportStep == TypeOK /\ ImportInv /\ [Next]_vars => TypeOK' /\ ImportInv'
<1> USE ScriptAssumption
<1> SUFFICES ASSUME TypeOK, ImportInv, [Next]_vars
             PROVE  TypeOK' /\ ImportInv'
  OBVIOUS
<1>1. CASE Quiet /\ NextFresh' /\ TypeOK'
  <2>1. PrefixApplied'
    BY <1>1 DEF ImportInv, PrefixApplied, Quiet
  <2>2. QED
    BY <1>1, <2>1, QuietImporters DEF ImportInv
<1>2. ASSUME NEW n \in Nodes, Effect(n)
      PROVE  TypeOK' /\ ImportInv'
  <2>1. /\ next[n] \in 1..Total
        /\ applied' = 1..next[n]
        /\ \A m \in Nodes : Importing(m) => m = n
        /\ \A q \in late : ~LateImport(q)
    BY <1>2, EffectAtFront
  <2>2. /\ \A m \in Nodes \ {n} : pc'[m] = pc[m] /\ next'[m] = next[m]
        /\ next[n] = Total => pc'[n] = "ready"
        /\ next[n] # Total => pc'[n] = "import" /\ next'[n] = next[n] + 1
        /\ late' = late
        /\ TypeOK'
    BY <1>2, EffectMoves
  <2>3. NextFresh'
    BY <2>2 DEF ImportInv, NextFresh, Administrative
  <2>4. PrefixApplied'
    BY <2>1 DEF PrefixApplied
  <2>5. OneImporter'
    <3>1. \A m \in Nodes \ {n} : ~Importing(m)'
      BY <2>1, <2>2 DEF Importing
    <3>2. Importing(n)' => applied' = 1..(next'[n] - 1)
      BY <2>1, <2>2 DEF Importing
    <3>3. \A q \in late' : ~LateImport(q)
      BY <2>1, <2>2
    <3>4. QED
      BY <3>1, <3>2, <3>3 DEF OneImporter
  <2>6. QED
    BY <2>2, <2>3, <2>4, <2>5 DEF ImportInv
<1>3. ASSUME NEW q \in late, LateEffect(q)
      PROVE  TypeOK' /\ ImportInv'
  <2>1. /\ q.transaction \in 1..Total
        /\ applied' = 1..q.transaction
        /\ \A m \in Nodes : ~Importing(m)
        /\ \A r \in late \ {q} : ~LateImport(r)
    BY <1>3, LateEffectAtFront
  <2>2. UNCHANGED <<pc, next>> /\ TypeOK'
    BY <1>3, LateEffectMoves
  <2>3. NextFresh'
    BY <2>2 DEF ImportInv, NextFresh
  <2>4. PrefixApplied'
    BY <2>1 DEF PrefixApplied
  <2>5. \A m \in Nodes : ~Importing(m)'
    BY <2>1, <2>2 DEF Importing
  <2>6. CASE late' = late \ {q}
    BY <2>1, <2>2, <2>3, <2>4, <2>5, <2>6 DEF ImportInv, OneImporter
  <2>7. ASSUME NEW r \in Query, r.transaction = q.transaction + 1,
               late' = (late \ {q}) \cup {r}
        PROVE  OneImporter'
    <3>1. applied' = 1..(r.transaction - 1)
      BY <2>1, <2>7
    <3>2. \A t \in late' : LateImport(t) => t = r
      BY <2>1, <2>7
    <3>3. QED
      BY <2>5, <3>1, <3>2 DEF OneImporter
  <2>8. QED
    BY <1>3, <2>2, <2>3, <2>4, <2>6, <2>7, LateEffectMoves DEF ImportInv
<1>4. QED
  BY <1>1, <1>2, <1>3, StepKinds DEF ImportInv, StepOfKind

-----------------------------------------------------------------------------
\* Neither the database nor the namespace nor an applied transaction is ever
\* taken away, so what a container has established it can rely on.
LEMMA EstablishedStep ==
  TypeOK /\ Established /\ (Named \/ namespace) /\ [Next]_vars =>
    /\ Established' /\ (Named \/ namespace')
    /\ (database => database') /\ (namespace => namespace')
<1> USE ScriptAssumption
<1> SUFFICES ASSUME TypeOK, Established, Named \/ namespace, [Next]_vars
             PROVE  /\ Established' /\ (Named \/ namespace')
                    /\ (database => database') /\ (namespace => namespace')
  OBVIOUS
<1> USE DEF TypeOK, Established, shared, Administrative, Preparing, Goto,
            Leave, Fail, server
<1>1. CASE DatabaseUp
  BY <1>1 DEF DatabaseUp
<1>2. CASE DatabaseDown
  BY <1>2 DEF DatabaseDown
<1>3. ASSUME NEW n \in Nodes, Crash(n)
      PROVE  Established' /\ UNCHANGED <<database, namespace>>
  BY <1>3 DEF Crash
<1>4. ASSUME NEW n \in Nodes, Restart(n)
      PROVE  Established' /\ UNCHANGED <<database, namespace>>
  BY <1>4 DEF Restart
<1>5. ASSUME NEW n \in Nodes, Prepare(n)
      PROVE  /\ Established' /\ (Named \/ namespace')
             /\ (database => database') /\ (namespace => namespace')
  <2>1. CASE Connect(n)          BY <2>1 DEF Connect
  <2>2. CASE SessionError(n)     BY <2>2 DEF SessionError
  <2>3. CASE CheckDatabase(n)    BY <2>3 DEF CheckDatabase, Ask
  <2>4. CASE CreateDatabase(n)   BY <2>4 DEF CreateDatabase
  <2>5. CASE ConnectTarget(n)    BY <2>5 DEF ConnectTarget
  <2>6. CASE CheckNamespace(n)   BY <2>6 DEF CheckNamespace, Ask
  <2>7. CASE CreateNamespace(n)  BY <2>7 DEF CreateNamespace
  <2>8. CASE CheckTable(n)       BY <2>8 DEF CheckTable, Ask
  <2>9. CASE ReadVersion(n)      BY <2>9 DEF ReadVersion, Ask
  <2>10. CASE OpenFile(n)        BY <2>10 DEF OpenFile
  <2>11. CASE ImportError(n)     BY <2>11 DEF ImportError
  <2>12. CASE Transaction(n)
    <3>1. CASE next[n] \in applied
      BY <2>12, <3>1 DEF Transaction
    <3>2. CASE next[n] \notin applied
      <4>1. Effect(n)
        BY <2>12, <3>2 DEF Transaction, Effect
      <4>2. QED
        BY <4>1, EffectMoves DEF Effect
    <3>3. QED
      BY <3>1, <3>2
  <2>13. QED
    BY <1>5, <2>1, <2>2, <2>3, <2>4, <2>5, <2>6, <2>7, <2>8, <2>9, <2>10,
       <2>11, <2>12 DEF Prepare
<1>6. ASSUME NEW q \in late, GoOn(q) \/ Notice(q)
      PROVE  /\ Established' /\ (Named \/ namespace')
             /\ (database => database') /\ (namespace => namespace')
  <2>1. pc' = pc /\ (database => database') /\ (namespace => namespace')
    BY <1>6 DEF GoOn, Notice
  <2>2. QED
    BY <2>1
<1>7. CASE UNCHANGED vars
  BY <1>7 DEF vars
<1>8. QED
  BY <1>1, <1>2, <1>3, <1>4, <1>5, <1>6, <1>7 DEF Next

\* A container gets ready by reading the version or by committing the last
\* transaction; either way the prefix holds the schema up to the version.
LEMMA ReadyStep ==
  ASSUME IInv, [Next]_vars,
         database => database', namespace => namespace'
  PROVE  ReadySchema'
<1> USE ScriptAssumption
<1> SUFFICES ASSUME NEW n \in Nodes, pc'[n] = "ready"
             PROVE  database' /\ namespace' /\ 1..VersionAt \subseteq applied'
  BY DEF ReadySchema
<1>1. CASE Quiet
  <2>1. CASE pc[n] = "ready"
    BY <1>1, <2>1 DEF IInv, ReadySchema, Quiet
  <2>2. CASE pc[n] = "versionRead" /\ Versioned
    <3>1. 1..VersionAt \subseteq applied
      BY <2>2 DEF Versioned, IInv, ImportInv, PrefixApplied
    <3>2. QED
      BY <1>1, <2>2, <3>1 DEF Quiet, IInv, Established, Preparing, Administrative
  <2>3. pc[n] = "ready" \/ (pc[n] = "versionRead" /\ Versioned)
    BY <1>1 DEF Quiet, Move, Hands
  <2>4. QED
    BY <2>1, <2>2, <2>3
<1>2. ASSUME NEW m \in Nodes, Effect(m)
      PROVE  database' /\ namespace' /\ 1..VersionAt \subseteq applied'
  <2>1. CASE m = n
    <3>1. next[n] = Total
      BY <1>2, <2>1, EffectMoves DEF IInv
    <3>2. applied' = 1..Total
      BY <1>2, <2>1, <3>1, EffectAtFront DEF IInv
    <3>3. QED
      BY <1>2, <2>1, <3>2 DEF Effect, IInv, Established, Preparing
  <2>2. CASE m # n
    BY <1>2, <2>2, EffectMoves DEF IInv, ReadySchema
  <2>3. QED
    BY <2>1, <2>2
<1>3. ASSUME NEW q \in late, LateEffect(q)
      PROVE  database' /\ namespace' /\ 1..VersionAt \subseteq applied'
  <2>1. UNCHANGED <<pc, database, namespace>>
    BY <1>3, LateEffectMoves DEF IInv
  <2>2. applied \subseteq applied'
    BY <1>3 DEF LateEffect, GoOn
  <2>3. QED
    BY <2>1, <2>2 DEF IInv, ReadySchema
<1>4. QED
  BY <1>1, <1>2, <1>3, StepKinds DEF IInv, ImportInv, StepOfKind

LEMMA InitInv == Init => IInv
<1> USE ScriptAssumption
<1> SUFFICES ASSUME Init
             PROVE  IInv
  OBVIOUS
<1>1. namespace \in BOOLEAN /\ (Named \/ namespace)
  BY DEF Init
<1>2. applied = {} \/ applied = 1..Total
  BY DEF Init
<1>3. TypeOK
  <2>1. /\ pc \in [Nodes -> Preparing \cup {"ready", "exited"}]
        /\ session \in [Nodes -> BOOLEAN]
        /\ file \in [Nodes -> {"none", "open", "dead"}]
    BY DEF Init, Preparing
  <2>2. next \in [Nodes -> 1..Total] /\ faults \in 0..MaxFaults
    BY DEF Init
  <2>3. /\ dbUp \in BOOLEAN /\ late \subseteq Query /\ userDatabase \in BOOLEAN
        /\ database \in BOOLEAN /\ applied \subseteq 1..Total
    BY <1>2 DEF Init
  <2>4. QED
    BY <1>1, <2>1, <2>2, <2>3 DEF TypeOK
<1>4. PrefixApplied
  <2>1. {} = 1..0 /\ 0 \in 0..Total /\ Total \in 0..Total
    OBVIOUS
  <2>2. QED
    BY <1>2, <2>1 DEF PrefixApplied
<1>5. NextFresh /\ OneImporter /\ Established /\ ReadySchema
  BY DEF Init, NextFresh, OneImporter, Importing, Established, ReadySchema
<1>6. QED
  BY <1>1, <1>3, <1>4, <1>5 DEF IInv, ImportInv

LEMMA Invariance == Spec => []IInv
<1>1. IInv /\ [Next]_vars => IInv'
  <2> SUFFICES ASSUME IInv, [Next]_vars
               PROVE  IInv'
    OBVIOUS
  <2>1. TypeOK' /\ ImportInv'
    BY ImportStep DEF IInv
  <2>2. /\ Established' /\ (Named \/ namespace')
        /\ (database => database') /\ (namespace => namespace')
    BY EstablishedStep DEF IInv
  <2>3. ReadySchema'
    BY <2>2, ReadyStep
  <2>4. QED
    BY <2>1, <2>2, <2>3 DEF IInv
<1>2. QED
  BY InitInv, <1>1, PTL DEF Spec

\* Every variable keeps its type.
THEOREM TypeCorrect == Spec => []TypeOK
<1>1. IInv => TypeOK
  BY DEF IInv
<1>2. QED
  BY Invariance, <1>1, PTL

\* Where DB.Prepare has returned nil, database and namespace exist and the
\* schema is there up to its version row.
THEOREM ReadyMeansSchema == Spec => []ReadySchema
<1>1. IInv => ReadySchema
  BY DEF IInv
<1>2. QED
  BY Invariance, <1>1, PTL

\* However many containers race and however often they are killed, at most
\* one of them is past the first transaction of createSchema.
THEOREM SingleImporter == Spec => []OneImporter
<1>1. IInv => OneImporter
  BY DEF IInv, ImportInv
<1>2. QED
  BY Invariance, <1>1, PTL

\* Once neither a container nor the server is at the files any more, what is
\* missing of them is never applied.
THEOREM UnfinishedStays == Spec => UnfinishedForever
<1>1. ASSUME IInv, Unfinished, [Next]_vars
      PROVE  Unfinished' /\ applied' = applied
  <2>1. CASE Quiet
    <3>1. applied' = applied
      BY <2>1 DEF Quiet
    <3>2. \A n \in Nodes : ~Importing(n)'
      BY <1>1, <2>1 DEF Unfinished, Importing, Quiet, Move, Hands
    <3>3. \A q \in late' : ~LateImport(q)
      BY <1>1, <2>1 DEF Unfinished, Quiet, Move, Hands
    <3>4. QED
      BY <1>1, <3>1, <3>2, <3>3 DEF Unfinished
  <2>2. ASSUME NEW n \in Nodes, Effect(n)
        PROVE  FALSE
    <3>1. next[n] \in 1..Total /\ applied = 1..(next[n] - 1)
      BY <1>1, <2>2, EffectAtFront DEF IInv
    <3>2. next[n] > 1
      BY <1>1, <3>1 DEF Unfinished
    <3>3. QED
      BY <1>1, <2>2, <3>2 DEF Unfinished, Importing, Effect
  <2>3. ASSUME NEW q \in late, LateEffect(q)
        PROVE  FALSE
    <3>1. q.transaction \in 1..Total /\ applied = 1..(q.transaction - 1)
      BY <1>1, <2>3, LateEffectAtFront DEF IInv
    <3>2. q.transaction > 1
      BY <1>1, <3>1 DEF Unfinished
    <3>3. QED
      BY <1>1, <2>3, <3>2 DEF Unfinished, LateImport, LateEffect
  <2>4. QED
    BY <1>1, <2>1, <2>2, <2>3, StepKinds DEF IInv, ImportInv, StepOfKind
<1>2. IInv /\ [Next]_vars =>
        [Unfinished => Unfinished' /\ applied' = applied]_vars
  BY <1>1
<1>3. QED
  BY Invariance, <1>2, PTL DEF Spec, UnfinishedForever

-----------------------------------------------------------------------------
(* Refinement *)

ServerImports == \E q \in late : LateImport(q)
Owner == {n \in Nodes : Importing(n)} \cup {s \in {Server} : ServerImports}
Ready == {n \in Nodes : pc[n] = "ready"}

\* The steps of the abstract import.
LEMMA Mapping ==
  Import!Next =
    \/ \E w \in Nodes \cup {Server} : Import!Begin(w) \/ Import!Advance(w) \/ Import!Abandon(w)
    \/ \E n \in Nodes : Import!HandOver(n) \/ Import!Join(n) \/ Import!Leave(n)
BY DEF Import!Next, Import!Workers

\* Two importers are one.
LEMMA SingleOwner ==
  ASSUME IInv
  PROVE  /\ ServerImports => Owner = {Server}
         /\ \A n \in Nodes : Importing(n) => Owner = {n}
BY DEF IInv, ImportInv, OneImporter, Owner, ServerImports

\* A step that commits nothing is a container joining or leaving the ready
\* ones, the owner abandoning its import or leaving it to the server, or
\* nothing.
LEMMA QuietRefines ==
  ASSUME IInv, Quiet
  PROVE  [Import!Next]_(Import!vars)
<1> USE ScriptAssumption
<1>0. applied' = applied
  BY DEF Quiet
<1>1. CASE UNCHANGED <<pc, next>> /\ late' \subseteq late
  <2>1. Ready' = Ready /\ \A n \in Nodes : Importing(n)' <=> Importing(n)
    BY <1>1 DEF Ready, Importing
  <2>2. CASE ServerImports' <=> ServerImports
    <3>1. Owner' = Owner
      BY <2>1, <2>2 DEF Owner
    <3>2. QED
      BY <1>0, <2>1, <3>1 DEF Import!vars, Owner, Ready, ServerImports
  <2>3. CASE ServerImports /\ ~ServerImports'
    <3>1. Owner = {Server}
      BY <2>3, SingleOwner
    <3>2. \A n \in Nodes : ~Importing(n)
      BY <3>1 DEF Owner
    <3>3. Owner' = {}
      BY <2>1, <2>3, <3>2 DEF Owner
    <3>4. Import!Abandon(Server)
      BY <1>0, <2>1, <3>1, <3>3 DEF Import!Abandon, Owner, Ready, ServerImports
    <3>5. QED
      BY <3>4, Mapping
  <2>4. ServerImports' => ServerImports
    BY <1>1 DEF ServerImports, LateImport
  <2>5. QED
    BY <2>2, <2>3, <2>4
<1>2. ASSUME NEW n \in Nodes, Move(n)
      PROVE  [Import!Next]_(Import!vars)
  <2>1. \A m \in Nodes \ {n} : Importing(m)' <=> Importing(m)
    BY <1>2 DEF Importing, Move
  <2>2. CASE Importing(n) /\ ~Importing(n)'
    <3>1. Owner = {n}
      BY <2>2, SingleOwner
    <3>2. /\ \A m \in Nodes : ~Importing(m)'
          /\ ~ServerImports
      BY <2>1, <2>2 DEF IInv, ImportInv, OneImporter, ServerImports
    <3>3. Ready' = Ready
      BY <1>2, <2>2 DEF Ready, Move, Importing
    <3>4. CASE ServerImports'
      <4>1. Owner' = {Server}
        BY <3>2, <3>4 DEF Owner
      <4>2. Import!HandOver(n)
        BY <1>0, <3>1, <3>3, <4>1 DEF Import!HandOver, Owner, Ready, ServerImports
      <4>3. QED
        BY <4>2, Mapping
    <3>5. CASE ~ServerImports'
      <4>1. Owner' = {}
        BY <3>2, <3>5 DEF Owner
      <4>2. Import!Abandon(n)
        BY <1>0, <3>1, <3>3, <4>1 DEF Import!Abandon, Owner, Ready, ServerImports
      <4>3. QED
        BY <4>2, Mapping
    <3>6. QED
      BY <3>4, <3>5
  <2>3. CASE Importing(n)' <=> Importing(n)
    <3>1. ServerImports' <=> ServerImports
      <4>1. CASE late' = late
        BY <4>1 DEF ServerImports, LateImport
      <4>2. ASSUME NEW q \in Query, late' = late \cup {q}, pc'[n] = "exited",
                   LateImport(q) => Importing(n)
            PROVE  ServerImports' <=> ServerImports
        <5>1. ~LateImport(q)
          BY <2>3, <4>2 DEF Importing
        <5>2. QED
          BY <4>2, <5>1 DEF ServerImports, LateImport
      <4>3. QED
        BY <1>2, <4>1, <4>2 DEF Move, Hands
    <3>2. Owner' = Owner
      BY <2>1, <2>3, <3>1 DEF Owner
    <3>3. CASE pc[n] # "ready" /\ pc'[n] = "ready"
      <4>1. pc[n] = "versionRead" /\ VersionAt \in applied
        BY <1>2, <3>3 DEF Move, Versioned
      <4>2. Owner # {n}
        BY <4>1 DEF Owner, Importing
      <4>3. Ready' = Ready \cup {n}
        BY <1>2, <3>3 DEF Ready, Move
      <4>4. Import!Join(n)
        BY <1>0, <3>2, <4>1, <4>2, <4>3 DEF Import!Join, Owner, Ready, ServerImports
      <4>5. QED
        BY <4>4, Mapping
    <3>4. CASE pc[n] = "ready" /\ pc'[n] # "ready"
      <4>1. Ready' = Ready \ {n}
        BY <1>2, <3>4 DEF Ready, Move
      <4>2. Import!Leave(n)
        BY <1>0, <3>2, <4>1 DEF Import!Leave, Owner, Ready, ServerImports
      <4>3. QED
        BY <4>2, Mapping
    <3>5. CASE pc'[n] = "ready" <=> pc[n] = "ready"
      <4>1. Ready' = Ready
        BY <1>2, <3>5 DEF Ready, Move
      <4>2. QED
        BY <1>0, <3>2, <4>1 DEF Import!vars, Owner, Ready, ServerImports
    <3>6. QED
      BY <3>3, <3>4, <3>5
  <2>4. QED
    BY <1>2, <2>2, <2>3 DEF Move, Hands
<1>3. QED
  BY <1>1, <1>2 DEF Quiet

\* A commit is the owner's: it begins the import or advances it.
LEMMA EffectRefines ==
  ASSUME IInv, NEW n \in Nodes, Effect(n)
  PROVE  Import!Next
<1> USE ScriptAssumption
<1>1. /\ next[n] \in 1..Total
      /\ applied = 1..(next[n] - 1)
      /\ applied' = 1..next[n]
      /\ \A m \in Nodes : Importing(m) => m = n
      /\ ~ServerImports
  BY EffectAtFront DEF IInv, ServerImports
<1>2. /\ \A m \in Nodes \ {n} : pc'[m] = pc[m] /\ next'[m] = next[m]
      /\ next[n] = Total => pc'[n] = "ready"
      /\ next[n] # Total => pc'[n] = "import" /\ next'[n] = next[n] + 1
      /\ ~ServerImports'
  BY <1>1, EffectMoves DEF IInv, ServerImports, LateImport
<1>3. \A m \in Nodes : Importing(m)' => m = n
  BY <1>1, <1>2 DEF Importing
<1>4. CASE next[n] = Total
  <2>1. Ready' = Ready \cup ({n} \ {Server})
    BY <1>2, <1>4 DEF Ready
  <2>2. Owner' = {}
    BY <1>2, <1>3, <1>4 DEF Importing, Owner
  <2>3. Owner = {n}
    BY <1>1, <1>4 DEF Effect, Importing, Owner
  <2>4. Import!Advance(n)
    <3>1. Total - 1 \in 1..Total - 1 /\ (Total - 1) + 1 = Total
      BY <1>4
    <3>2. QED
      BY <1>1, <1>4, <2>1, <2>2, <2>3, <3>1
         DEF Import!Advance, Owner, Ready, ServerImports
  <2>5. QED
    BY <2>4, Mapping
<1>5. CASE next[n] # Total
  <2>1. Ready' = Ready /\ pc'[n] = "import" /\ next'[n] = next[n] + 1
    BY <1>2, <1>5 DEF Effect, Ready
  <2>2. Owner' = {n}
    BY <1>1, <1>2, <1>3, <2>1 DEF Importing, Owner
  <2>3. CASE next[n] = 1
    <3>1. applied = {} /\ applied' = {1}
      BY <1>1, <2>3
    <3>2. Owner = {}
      BY <1>1, <2>3 DEF Importing, Owner
    <3>3. Import!Begin(n)
      BY <2>1, <2>2, <3>1, <3>2
         DEF Import!Begin, Import!GoesOn, Owner, Ready, ServerImports
    <3>4. QED
      BY <3>3, Mapping
  <2>4. CASE next[n] > 1
    <3>1. Owner = {n}
      BY <1>1, <2>4 DEF Effect, Importing, Owner
    <3>2. next[n] - 1 \in 1..Total - 1 /\ (next[n] - 1) + 1 = next[n]
      BY <1>1, <1>5, <2>4
    <3>3. Import!Advance(n)
      BY <1>1, <1>5, <2>1, <2>2, <3>1, <3>2
         DEF Import!Advance, Import!GoesOn, Owner, Ready, ServerImports
    <3>4. QED
      BY <3>3, Mapping
  <2>5. QED
    BY <1>1, <2>3, <2>4
<1>6. QED
  BY <1>4, <1>5

\* So is a commit of a query that has outlived its container: the server's.
LEMMA LateEffectRefines ==
  ASSUME IInv, NEW q \in late, LateEffect(q)
  PROVE  Import!Next
<1> USE ScriptAssumption
<1>1. /\ q.transaction \in 1..Total
      /\ applied = 1..(q.transaction - 1)
      /\ applied' = 1..q.transaction
      /\ \A m \in Nodes : ~Importing(m)
      /\ \A r \in late \ {q} : ~LateImport(r)
  BY LateEffectAtFront DEF IInv
<1>2. /\ UNCHANGED <<pc, next>>
      /\ \/ late' = late \ {q}
         \/ /\ q.transaction # Total
            /\ \E r \in Query :
                 /\ r.request = "import" /\ r.transaction = q.transaction + 1
                 /\ late' = (late \ {q}) \cup {r}
  BY LateEffectMoves DEF IInv
<1>3. Ready' = Ready /\ \A m \in Nodes : ~Importing(m)'
  BY <1>1, <1>2 DEF Ready, Importing
<1>4. CASE late' = late \ {q}
  <2>1. Owner' = {}
    BY <1>1, <1>3, <1>4 DEF Owner, ServerImports, LateImport
  <2>2. CASE q.transaction = 1
    <3>1. applied = {} /\ applied' = {1}
      BY <1>1, <2>2
    <3>2. Owner = {}
      BY <1>1, <2>2 DEF Owner, ServerImports, LateImport
    <3>3. Import!Begin(Server)
      BY <1>3, <2>1, <3>1, <3>2
         DEF Import!Begin, Import!GoesOn, Owner, Ready, ServerImports
    <3>4. QED
      BY <3>3, Mapping
  <2>3. CASE q.transaction > 1
    <3>1. Owner = {Server}
      BY <1>1, <2>3 DEF Owner, ServerImports, LateImport, LateEffect
    <3>2. q.transaction - 1 \in 1..Total - 1 /\ (q.transaction - 1) + 1 = q.transaction
      BY <1>1, <2>3
    <3>3. Ready' = Ready \cup ({Server} \ {Server})
      BY <1>3
    <3>4. Import!Advance(Server)
      BY <1>1, <1>3, <2>1, <3>1, <3>2, <3>3
         DEF Import!Advance, Import!GoesOn, Owner, Ready, ServerImports
    <3>5. QED
      BY <3>4, Mapping
  <2>4. QED
    BY <1>1, <2>2, <2>3
<1>5. ASSUME NEW r \in Query, q.transaction # Total, r.request = "import",
             r.transaction = q.transaction + 1, late' = (late \ {q}) \cup {r}
      PROVE  Import!Next
  <2>1. LateImport(r)
    BY <1>1, <1>5 DEF LateImport
  <2>2. Owner' = {Server}
    BY <1>3, <1>5, <2>1 DEF Owner, ServerImports, LateImport
  <2>3. CASE q.transaction = 1
    <3>1. applied = {} /\ applied' = {1}
      BY <1>1, <2>3
    <3>2. Owner = {}
      BY <1>1, <2>3 DEF Owner, ServerImports, LateImport
    <3>3. Import!Begin(Server)
      BY <1>3, <2>2, <3>1, <3>2
         DEF Import!Begin, Import!GoesOn, Owner, Ready, ServerImports
    <3>4. QED
      BY <3>3, Mapping
  <2>4. CASE q.transaction > 1
    <3>1. Owner = {Server}
      BY <1>1, <2>4 DEF Owner, ServerImports, LateImport, LateEffect
    <3>2. q.transaction - 1 \in 1..Total - 1 /\ (q.transaction - 1) + 1 = q.transaction
      BY <1>1, <1>5, <2>4
    <3>3. Import!Advance(Server)
      BY <1>1, <1>3, <1>5, <2>2, <3>1, <3>2
         DEF Import!Advance, Import!GoesOn, Owner, Ready, ServerImports
    <3>4. QED
      BY <3>3, Mapping
  <2>5. QED
    BY <1>1, <2>3, <2>4
<1>6. QED
  BY <1>2, <1>4, <1>5

\* DB.Prepare of PostgreSQL, with what its queries go on doing when it is
\* killed, implements SchemaImport, transactions taken for statements.
THEOREM PrepareImplementsImport == Spec => ImplementsImport
<1>1. Init => Import!Init
  BY DEF Init, Import!Init, Importing
<1>2. IInv /\ [Next]_vars => [Import!Next]_(Import!vars)
  <2> SUFFICES ASSUME IInv, [Next]_vars
               PROVE  [Import!Next]_(Import!vars)
    OBVIOUS
  <2>1. CASE Quiet
    BY <2>1, QuietRefines
  <2>2. CASE \E n \in Nodes : Effect(n)
    BY <2>2, EffectRefines
  <2>3. CASE \E q \in late : LateEffect(q)
    BY <2>3, LateEffectRefines
  <2>4. QED
    BY <2>1, <2>2, <2>3, StepKinds DEF IInv, ImportInv, StepOfKind
<1>3. QED
  BY Invariance, <1>1, <1>2, PTL DEF Spec, ImplementsImport, Import!Spec
=============================================================================
