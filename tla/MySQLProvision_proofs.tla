----------------------- MODULE MySQLProvision_proofs -----------------------
(***************************************************************************)
(* Proofs about MySQLProvision for any set of containers, any script and   *)
(* any number of faults.                                                   *)
(***************************************************************************)
EXTENDS MySQLProvision, TLAPS

(***************************************************************************)
(* The inductive invariant.                                                *)
(***************************************************************************)

\* A run starts with statement 1 and imports no further than the last one.
NextFresh ==
  \A n \in Nodes :
    /\ pc[n] \in Connected \cup {"created", "connect"} => next[n] = 1
    /\ pc[n] \in {"openScript", "import"} => next[n] \in 1..Total

\* An importing container stands right behind what the database holds: this
\* is what makes the first statement a lock.  So does the statement a dead
\* one has left to the server.
ImporterAtFront ==
  /\ \A n \in Nodes : Importing(n) => applied = 1..(next[n] - 1)
  /\ \A s \in late : LateImport(s) => applied = 1..(s.number - 1)

ImportInv == NextFresh /\ PrefixApplied /\ ImporterAtFront /\ OneImporter

\* What a container has established when it reaches a phase.
UserSeen ==
  \A n \in Nodes :
    /\ pc[n] = "userGrant" => account
    /\ CreateUser /\ pc[n] \in {"dbCheck", "dbCreate", "dbGrant", "tableCheck",
                                "versionRead", "openScript", "import", "ready"}
         => account /\ granted

DatabaseSeen ==
  \A n \in Nodes :
    /\ pc[n] \in {"dbGrant", "tableCheck", "versionRead", "openScript",
                  "import", "ready"} => database
    /\ pc[n] = "ready" => Versioned

IInv == TypeOK /\ ImportInv /\ UserSeen /\ DatabaseSeen

-----------------------------------------------------------------------------
\* A container leaves the statement it was at to the server.
Hands(n) ==
  \E s \in Statement :
    /\ late' = late \cup {s}
    /\ LateImport(s) => Importing(n) /\ s.number = next[n]

LEMMA CrashHands ==
  ASSUME TypeOK, NextFresh, NEW n \in Nodes, Crash(n)
  PROVE  late' \subseteq Statement /\ (late' = late \/ Hands(n))
<1> DEFINE s == [request |-> pc[n], number |-> next[n]]
<1>1. CASE Sent(n) = {}
  <2>1. late' = late /\ late \subseteq Statement
    BY <1>1 DEF Crash, TypeOK
  <2>2. QED
    BY <2>1
<1>2. CASE Sent(n) # {}
  <2>1. Sent(n) = {s}
    BY <1>2 DEF Sent
  <2>2. pc[n] \in Writes
    BY <1>2 DEF Sent
  <2>3. next[n] \in 1..Total
    BY <2>2, ScriptAssumption DEF Writes, NextFresh, Connected
  <2>4. s \in Statement
    BY <2>2, <2>3 DEF Statement
  <2>5. LateImport(s) => Importing(n) /\ s.number = next[n]
    BY DEF LateImport, Importing
  <2>6. late' = late \/ late' = late \cup {s}
    BY <2>1 DEF Crash
  <2>7. late' \subseteq Statement
    BY <2>4, <2>6 DEF TypeOK
  <2>8. QED
    BY <2>4, <2>5, <2>6, <2>7 DEF Hands
<1>3. QED
  BY <1>1, <1>2

\* Every step keeps every variable in its type.
LEMMA TypeStep == TypeOK /\ NextFresh /\ [Next]_vars => TypeOK'
<1> USE ScriptAssumption, ContainerAssumption
<1> SUFFICES ASSUME TypeOK, NextFresh, [Next]_vars
             PROVE  TypeOK'
  OBVIOUS
<1> USE DEF TypeOK, server, shared, Script, Phases, Preparing, Connected, Goto, Exit,
            Complete
<1>1. CASE DatabaseUp
  BY <1>1 DEF DatabaseUp
<1>2. CASE DatabaseDown
  <2>1. session' \in [Nodes -> BOOLEAN]
    BY <1>2 DEF DatabaseDown
  <2>2. faults' \in 0..MaxFaults
    BY <1>2 DEF DatabaseDown
  <2>3. QED
    BY <1>2, <2>1, <2>2 DEF DatabaseDown
<1>3. ASSUME NEW n \in Nodes, Start(n)
      PROVE  TypeOK'
  BY <1>3 DEF Start
<1>4. ASSUME NEW n \in Nodes, Crash(n)
      PROVE  TypeOK'
  <2>1. late' \subseteq Statement
    BY <1>4, CrashHands, Zenon
  <2>2. QED
    BY <1>4, <2>1 DEF Crash
<1>5. ASSUME NEW n \in Nodes, Restart(n)
      PROVE  TypeOK'
  BY <1>5 DEF Restart
<1>6. ASSUME NEW n \in Nodes, Prepare(n)
      PROVE  TypeOK'
  <2>1. CASE Connect(n)          BY <2>1 DEF Connect
  <2>2. CASE SessionError(n)     BY <2>2 DEF SessionError
  <2>3. CASE CheckUser(n)        BY <2>3 DEF CheckUser
  <2>4. CASE WriteUser(n)        BY <2>4 DEF WriteUser
  <2>5. CASE GrantUser(n)        BY <2>5 DEF GrantUser
  <2>6. CASE CheckDatabase(n)    BY <2>6 DEF CheckDatabase
  <2>7. CASE CreateDatabase(n)   BY <2>7 DEF CreateDatabase
  <2>8. CASE GrantDatabase(n)    BY <2>8 DEF GrantDatabase
  <2>9. CASE CheckTable(n)       BY <2>9 DEF CheckTable, TableExists
  <2>10. CASE ReadVersion(n)     BY <2>10 DEF ReadVersion
  <2>11. CASE OpenScript(n)      BY <2>11 DEF OpenScript
  <2>12. CASE ImportStatement(n)
    <3>1. CASE Fails(next[n]) /\ Exit(n)
      BY <3>1
    <3>2. CASE ~Fails(next[n])
      <4>1. next[n] \in 1..Total /\ next[n] + 1 \in 1..Total + 1
        BY <2>12 DEF ImportStatement, NextFresh
      <4>2. next' \in [Nodes -> 1..Total + 1] /\ applied' \subseteq Script
        BY <2>12, <3>2, <4>1 DEF ImportStatement
      <4>3. pc' \in [Nodes -> Phases] /\ completed' \subseteq Nodes
        BY <2>12, <3>2 DEF ImportStatement
      <4>4. QED
        BY <2>12, <3>2, <4>2, <4>3 DEF ImportStatement
    <3>3. QED
      BY <2>12, <3>1, <3>2 DEF ImportStatement
  <2>13. QED
    BY <1>6, <2>1, <2>2, <2>3, <2>4, <2>5, <2>6, <2>7, <2>8, <2>9, <2>10,
       <2>11, <2>12 DEF Prepare
<1>7. ASSUME NEW s \in late, GoOn(s)
      PROVE  TypeOK'
  <2>1. s.number \in 1..Total
    BY DEF Statement
  <2>2. QED
    BY <1>7, <2>1 DEF GoOn
<1>8. CASE UNCHANGED vars
  BY <1>8 DEF vars
<1>9. QED
  BY <1>1, <1>2, <1>3, <1>4, <1>5, <1>6, <1>7, <1>8 DEF Next

-----------------------------------------------------------------------------
\* One container moves and applies nothing: its position does not move except
\* back to 1, it does not start to be an importer, it gets ready only by
\* reading a version row, and it leaves the server at most its next statement.
Move(n) ==
  /\ \A m \in Nodes \ {n} : pc'[m] = pc[m] /\ next'[m] = next[m]
  /\ pc'[n] = "ready" => pc[n] \in {"versionRead", "ready"}
  /\ \/ pc'[n] = "exited"
     \/ next'[n] = 1
     \/ next'[n] = next[n] /\ (pc'[n] \in {"openScript", "import"} =>
                                    pc[n] \in {"openScript", "import"})
  /\ \/ late' = late
     \/ pc'[n] = "exited" /\ Hands(n)

\* A step in which no statement of the scripts takes effect.
Quiet ==
  /\ applied' = applied
  /\ \/ UNCHANGED <<pc, next>> /\ late' \subseteq late
     \/ \E n \in Nodes : Move(n)

\* A statement that takes effect moves its container by one.
Effect(n) ==
  /\ pc[n] = "import"
  /\ ~Fails(next[n])
  /\ applied' = applied \cup {next[n]}
  /\ next' = [next EXCEPT ![n] = @ + 1]
  /\ UNCHANGED late
  /\ \E phase \in {"openScript", "import", "ready"} :
       /\ pc' = [pc EXCEPT ![n] = phase]
       /\ phase = "ready" <=> next[n] = Total

\* A statement takes effect whose sender is dead.
LateEffect(s) ==
  /\ s.request = "import" /\ s.number \notin applied
  /\ GoOn(s)

StepOfKind ==
  \/ Quiet /\ NextFresh'
  \/ \E n \in Nodes : Effect(n)
  \/ \E s \in late : LateEffect(s)

\* Every step of the system is quiet or one statement of the scripts.
LEMMA StepKinds ==
  TypeOK /\ NextFresh /\ [Next]_vars => StepOfKind
<1> USE ScriptAssumption
<1> SUFFICES ASSUME TypeOK, NextFresh, [Next]_vars
             PROVE  StepOfKind
  OBVIOUS
<1> USE DEF TypeOK, NextFresh, server, shared, Connected, Preparing, Goto,
            Exit, Complete
<1>1. CASE DatabaseUp
  <2>1. UNCHANGED <<pc, next, late, applied>> /\ NextFresh'
    BY <1>1 DEF DatabaseUp
  <2>2. QED
    BY <2>1 DEF Quiet, StepOfKind
<1>2. CASE DatabaseDown
  <2>1. UNCHANGED <<pc, next, applied>> /\ late' = {} /\ NextFresh'
    BY <1>2 DEF DatabaseDown
  <2>2. QED
    BY <2>1 DEF Quiet, StepOfKind
<1>3. ASSUME NEW n \in Nodes, Start(n)
      PROVE  Quiet /\ NextFresh'
  <2>1. Move(n) /\ applied' = applied /\ NextFresh'
    BY <1>3 DEF Start, Move
  <2>2. QED
    BY <2>1 DEF Quiet
<1>4. ASSUME NEW n \in Nodes, Crash(n)
      PROVE  Quiet /\ NextFresh'
  <2>1. late' = late \/ Hands(n)
    BY <1>4, CrashHands DEF NextFresh
  <2>2. /\ pc' = [pc EXCEPT ![n] = "exited"]
        /\ UNCHANGED <<next, applied>>
    BY <1>4 DEF Crash
  <2>3. NextFresh' /\ pc'[n] = "exited" /\ pc'[n] # "ready"
    BY <2>2
  <2>4. \A m \in Nodes \ {n} : pc'[m] = pc[m] /\ next'[m] = next[m]
    BY <2>2
  <2>5. Move(n)
    BY <2>1, <2>3, <2>4, Zenon DEF Move
  <2>6. QED
    BY <2>2, <2>3, <2>5 DEF Quiet
<1>5. ASSUME NEW n \in Nodes, Restart(n)
      PROVE  Quiet /\ NextFresh'
  <2>1. Move(n) /\ applied' = applied /\ NextFresh'
    BY <1>5 DEF Restart, Move
  <2>2. QED
    BY <2>1 DEF Quiet
<1>6. ASSUME NEW n \in Nodes, Prepare(n)
      PROVE  (Quiet /\ NextFresh') \/ Effect(n)
  <2> DEFINE Moves == Move(n) /\ applied' = applied /\ NextFresh'
  <2> SUFFICES Moves \/ Effect(n)
    BY DEF Quiet
  <2>1. CASE Connect(n)
    BY <2>1 DEF Connect, Move
  <2>2. CASE SessionError(n)
    BY <2>2 DEF SessionError, Move
  <2>3. CASE CheckUser(n)
    BY <2>3 DEF CheckUser, Move
  <2>4. CASE WriteUser(n)
    BY <2>4 DEF WriteUser, Move
  <2>5. CASE GrantUser(n)
    BY <2>5 DEF GrantUser, Move
  <2>6. CASE CheckDatabase(n)
    BY <2>6 DEF CheckDatabase, Move
  <2>7. CASE CreateDatabase(n)
    BY <2>7 DEF CreateDatabase, Move
  <2>8. CASE GrantDatabase(n)
    BY <2>8 DEF GrantDatabase, Move
  <2>9. CASE CheckTable(n)
    BY <2>9 DEF CheckTable, TableExists, Move
  <2>10. CASE ReadVersion(n)
    BY <2>10 DEF ReadVersion, Move
  <2>11. CASE OpenScript(n)
    BY <2>11 DEF OpenScript, Move
  <2>12. CASE ImportStatement(n)
    <3>1. CASE Fails(next[n]) /\ Exit(n)
      BY <2>12, <3>1 DEF ImportStatement, Move
    <3>2. CASE ~Fails(next[n])
      <4>1. \E phase \in {"openScript", "import", "ready"} :
              /\ pc' = [pc EXCEPT ![n] = phase]
              /\ phase = "ready" <=> next[n] = Total
        <5>1. CASE next[n] = Total
          BY <2>12, <3>2, <5>1 DEF ImportStatement
        <5>2. CASE next[n] \in FileEnds \ {Total}
          BY <2>12, <3>2, <5>2 DEF ImportStatement
        <5>3. CASE next[n] # Total /\ next[n] \notin FileEnds
          <6>1. pc' = [pc EXCEPT ![n] = "import"]
            BY <2>12, <3>2, <5>3 DEF ImportStatement
          <6>2. QED
            BY <6>1, <5>3
        <5>4. QED
          BY <5>1, <5>2, <5>3
      <4>2. QED
        BY <2>12, <3>2, <4>1 DEF ImportStatement, Effect
    <3>3. QED
      BY <2>12, <3>1, <3>2 DEF ImportStatement
  <2>13. QED
    BY <1>6, <2>1, <2>2, <2>3, <2>4, <2>5, <2>6, <2>7, <2>8, <2>9, <2>10,
       <2>11, <2>12 DEF Prepare
<1>7. ASSUME NEW s \in late, GoOn(s)
      PROVE  (Quiet /\ NextFresh') \/ LateEffect(s)
  <2>1. CASE s.request = "import" /\ s.number \notin applied
    BY <1>7, <2>1 DEF LateEffect
  <2>2. CASE s.request # "import" \/ s.number \in applied
    <3>1. applied' = applied /\ late' = late \ {s} /\ UNCHANGED <<pc, next>>
      BY <1>7, <2>2 DEF GoOn
    <3>2. NextFresh'
      BY <3>1
    <3>3. QED
      BY <3>1, <3>2 DEF Quiet
  <2>3. QED
    BY <2>1, <2>2
<1>8. CASE UNCHANGED vars
  <2>1. UNCHANGED <<pc, next, late, applied>> /\ NextFresh'
    BY <1>8 DEF vars
  <2>2. QED
    BY <2>1 DEF Quiet, StepOfKind
<1>9. QED
  BY <1>1, <1>2, <1>3, <1>4, <1>5, <1>6, <1>7, <1>8 DEF Next, StepOfKind

-----------------------------------------------------------------------------
\* A container that gets a statement through either claims an empty database
\* or is its importer: either way it stands right behind the applied prefix.
LEMMA EffectAtFront ==
  ASSUME TypeOK, ImportInv, NEW n \in Nodes, Effect(n)
  PROVE  /\ next[n] \in 1..Total
         /\ applied = 1..(next[n] - 1)
         /\ applied' = 1..next[n]
         /\ \A m \in Nodes : Importing(m) => m = n
         /\ \A s \in late : ~LateImport(s)
<1> USE ScriptAssumption DEF TypeOK, ImportInv, NextFresh
<1>1. next[n] \in 1..Total
  BY DEF Effect
<1>2. applied = 1..(next[n] - 1)
  <2>1. CASE next[n] > 1
    BY <2>1 DEF Effect, Importing, ImporterAtFront
  <2>2. CASE next[n] = 1
    <3>1. 1 \notin applied
      BY <2>2 DEF Effect, Fails
    <3>2. applied = {}
      BY <3>1 DEF PrefixApplied
    <3>3. QED
      BY <2>2, <3>2
  <2>3. QED
    BY <1>1, <2>1, <2>2
<1>3. applied' = 1..next[n]
  BY <1>1, <1>2 DEF Effect
<1>4. ASSUME NEW m \in Nodes, Importing(m)
      PROVE  m = n
  <2>1. 1 \in applied
    BY <1>4 DEF Importing, ImporterAtFront
  <2>2. next[n] > 1
    BY <1>1, <1>2, <2>1
  <2>3. Importing(n)
    BY <2>2 DEF Effect, Importing
  <2>4. QED
    BY <1>4, <2>3 DEF OneImporter
<1>5. ASSUME NEW s \in late, LateImport(s)
      PROVE  FALSE
  <2>1. s.number \in 1..Total /\ s.number > 1 /\ applied = 1..(s.number - 1)
    BY <1>5 DEF Statement, LateImport, ImporterAtFront
  <2>2. 1 \in applied
    BY <2>1
  <2>3. next[n] > 1
    BY <1>1, <1>2, <2>2
  <2>4. Importing(n)
    BY <2>3 DEF Effect, Importing
  <2>5. QED
    BY <1>5, <2>4 DEF OneImporter
<1>6. QED
  BY <1>1, <1>2, <1>3, <1>4, <1>5

\* So does the server with a statement whose sender is dead.
LEMMA LateEffectAtFront ==
  ASSUME TypeOK, ImportInv, NEW s \in late, LateEffect(s)
  PROVE  /\ s.number \in 1..Total
         /\ applied = 1..(s.number - 1)
         /\ applied' = 1..s.number
         /\ \A m \in Nodes : ~Importing(m)
         /\ \A r \in late \ {s} : ~LateImport(r)
<1> USE ScriptAssumption DEF TypeOK, ImportInv
<1>1. s.number \in 1..Total /\ s.request = "import"
  BY DEF Statement, LateEffect
<1>2. applied = 1..(s.number - 1)
  <2>1. CASE s.number > 1
    BY <1>1, <2>1 DEF LateImport, ImporterAtFront
  <2>2. CASE s.number = 1
    <3>1. 1 \notin applied
      BY <2>2 DEF LateEffect
    <3>2. applied = {}
      BY <3>1 DEF PrefixApplied
    <3>3. QED
      BY <2>2, <3>2
  <2>3. QED
    BY <1>1, <2>1, <2>2
<1>3. applied' = 1..s.number
  <2>1. applied' = applied \cup {s.number}
    BY DEF LateEffect, GoOn
  <2>2. QED
    BY <1>1, <1>2, <2>1
<1>4. ASSUME 1 \in applied
      PROVE  LateImport(s)
  BY <1>1, <1>2, <1>4 DEF LateImport
<1>5. ASSUME NEW m \in Nodes, Importing(m)
      PROVE  FALSE
  <2>1. 1 \in applied
    BY <1>5 DEF Importing, ImporterAtFront, NextFresh
  <2>2. QED
    BY <1>4, <1>5, <2>1 DEF OneImporter
<1>6. ASSUME NEW r \in late \ {s}, LateImport(r)
      PROVE  FALSE
  <2>1. r.number \in 1..Total /\ r.number > 1 /\ applied = 1..(r.number - 1)
    BY <1>6 DEF Statement, LateImport, ImporterAtFront
  <2>2. 1 \in applied
    BY <2>1
  <2>3. QED
    BY <1>4, <1>6, <2>2 DEF OneImporter
<1>7. QED
  BY <1>1, <1>2, <1>3, <1>5, <1>6

\* What else a late statement of the scripts changes: it is not late any more.
LEMMA LateEffectMoves ==
  ASSUME TypeOK, NEW s \in late, LateEffect(s)
  PROVE  UNCHANGED <<pc, next, completed, account, granted, database>> /\ late' = late \ {s}
BY DEF LateEffect, GoOn, TypeOK

\* After a statement took effect only its container can be importing.
LEMMA EffectImporters ==
  ASSUME TypeOK, ImportInv, NEW n \in Nodes, Effect(n)
  PROVE  \A m \in Nodes : Importing(m)' => m = n
<1> SUFFICES ASSUME NEW m \in Nodes, m # n, Importing(m)'
             PROVE  FALSE
  OBVIOUS
<1>1. pc'[m] = pc[m] /\ next'[m] = next[m]
  BY DEF Effect, TypeOK
<1>2. Importing(m)
  BY <1>1 DEF Importing
<1>3. QED
  BY <1>2, EffectAtFront

\* In a quiet step, who imports afterwards did so before, or is the server with
\* what the importer has left it.
LEMMA QuietImporters ==
  ASSUME TypeOK, ImportInv, Quiet, NextFresh'
  PROVE  ImporterAtFront' /\ OneImporter'
<1> USE DEF ImportInv, ImporterAtFront, OneImporter
<1>1. CASE UNCHANGED <<pc, next>> /\ late' \subseteq late
  BY <1>1 DEF Quiet, Importing
<1>2. ASSUME NEW n \in Nodes, Move(n)
      PROVE  ImporterAtFront' /\ OneImporter'
  <2>1. applied' = applied
    BY DEF Quiet
  <2>2. \A m \in Nodes : Importing(m)' => Importing(m) /\ next'[m] = next[m]
    BY <1>2 DEF Move, Importing
  <2>3. CASE late' = late
    BY <2>1, <2>2, <2>3
  <2>4. ASSUME NEW s \in Statement, late' = late \cup {s}, pc'[n] = "exited",
               LateImport(s) => Importing(n) /\ s.number = next[n]
        PROVE  ImporterAtFront' /\ OneImporter'
    <3>1. CASE ~LateImport(s)
      BY <2>1, <2>2, <2>4, <3>1
    <3>2. CASE LateImport(s)
      <4>1. Importing(n) /\ s.number = next[n] /\ ~Importing(n)'
        BY <2>4, <3>2 DEF Importing
      <4>2. \A m \in Nodes : ~Importing(m)'
        BY <2>2, <4>1
      <4>3. \A r \in late : ~LateImport(r)
        BY <4>1
      <4>4. applied' = 1..(s.number - 1)
        BY <2>1, <4>1
      <4>5. \A r \in late' : LateImport(r) => r = s
        BY <2>4, <4>3
      <4>6. QED
        BY <4>2, <4>4, <4>5
    <3>3. QED
      BY <3>1, <3>2
  <2>5. QED
    BY <1>2, <2>3, <2>4 DEF Move, Hands
<1>3. QED
  BY <1>1, <1>2 DEF Quiet

LEMMA ImportStep == TypeOK /\ ImportInv /\ [Next]_vars => ImportInv'
<1> USE ScriptAssumption
<1> SUFFICES ASSUME TypeOK, ImportInv, [Next]_vars
             PROVE  ImportInv'
  OBVIOUS
<1>1. CASE Quiet /\ NextFresh'
  <2>1. PrefixApplied'
    BY <1>1 DEF ImportInv, PrefixApplied, Quiet
  <2>2. QED
    BY <1>1, <2>1, QuietImporters DEF ImportInv
<1>2. ASSUME NEW n \in Nodes, Effect(n)
      PROVE  ImportInv'
  <2>1. next[n] \in 1..Total /\ applied' = 1..next[n]
    BY <1>2, EffectAtFront
  <2>2. next'[n] = next[n] + 1
    BY <1>2 DEF Effect, TypeOK
  <2>3. NextFresh'
    <3> SUFFICES ASSUME NEW m \in Nodes
                 PROVE
                   /\ pc'[m] \in Connected \cup {"created", "connect"}
                        => next'[m] = 1
                   /\ pc'[m] \in {"openScript", "import"}
                        => next'[m] \in 1..Total
      BY DEF NextFresh
    <3>1. CASE m = n
      BY <1>2, <2>1, <2>2, <3>1 DEF Effect, Connected, TypeOK
    <3>2. CASE m # n
      BY <1>2, <3>2 DEF Effect, ImportInv, NextFresh, TypeOK
    <3>3. QED
      BY <3>1, <3>2
  <2>4. PrefixApplied'
    BY <2>1 DEF PrefixApplied
  <2>5. \A s \in late' : ~LateImport(s)
    <3>1. late' = late
      BY <1>2 DEF Effect
    <3>2. QED
      BY <1>2, <3>1, EffectAtFront
  <2>6. ImporterAtFront' /\ OneImporter'
    BY <1>2, <2>1, <2>2, <2>5, EffectImporters DEF ImporterAtFront, OneImporter
  <2>7. QED
    BY <2>3, <2>4, <2>6 DEF ImportInv
<1>3. ASSUME NEW s \in late, LateEffect(s)
      PROVE  ImportInv'
  <2>1. /\ s.number \in 1..Total /\ applied' = 1..s.number
        /\ \A m \in Nodes : ~Importing(m)
        /\ \A r \in late \ {s} : ~LateImport(r)
    BY <1>3, LateEffectAtFront
  <2>2. UNCHANGED <<pc, next>> /\ late' = late \ {s}
    BY <1>3, LateEffectMoves
  <2>3. NextFresh' /\ \A m \in Nodes : ~Importing(m)'
    BY <2>1, <2>2 DEF ImportInv, NextFresh, Importing
  <2>4. PrefixApplied'
    BY <2>1 DEF PrefixApplied
  <2>5. QED
    BY <2>1, <2>2, <2>3, <2>4 DEF ImportInv, ImporterAtFront, OneImporter
<1>4. QED
  BY <1>1, <1>2, <1>3, StepKinds DEF ImportInv, StepOfKind

-----------------------------------------------------------------------------
\* User, database, privileges and version row are never taken away, so what a
\* container has established it can rely on, whatever the others do.
LEMMA UsableStep ==
  TypeOK /\ ImportInv /\ UserSeen /\ DatabaseSeen /\ [Next]_vars =>
    UserSeen' /\ DatabaseSeen'
<1> USE ScriptAssumption, ContainerAssumption
<1> SUFFICES ASSUME TypeOK, ImportInv, UserSeen, DatabaseSeen, [Next]_vars
             PROVE  UserSeen' /\ DatabaseSeen'
  OBVIOUS
<1> USE DEF TypeOK, UserSeen, DatabaseSeen, Versioned, server, shared, Connected,
            Preparing, Goto, Exit, Complete
<1>1. CASE DatabaseUp
  BY <1>1 DEF DatabaseUp
<1>2. CASE DatabaseDown
  BY <1>2 DEF DatabaseDown
<1>3. ASSUME NEW n \in Nodes, Start(n)
      PROVE  UserSeen' /\ DatabaseSeen'
  BY <1>3 DEF Start
<1>4. ASSUME NEW n \in Nodes, Crash(n)
      PROVE  UserSeen' /\ DatabaseSeen'
  BY <1>4 DEF Crash
<1>5. ASSUME NEW n \in Nodes, Restart(n)
      PROVE  UserSeen' /\ DatabaseSeen'
  BY <1>5 DEF Restart
<1>6. ASSUME NEW n \in Nodes, Prepare(n)
      PROVE  UserSeen' /\ DatabaseSeen'
  <2>1. CASE Connect(n)
    BY <2>1 DEF Connect
  <2>2. CASE SessionError(n)
    BY <2>2 DEF SessionError
  <2>3. CASE CheckUser(n)
    BY <2>3 DEF CheckUser
  <2>4. CASE WriteUser(n)
    BY <2>4 DEF WriteUser
  <2>5. CASE GrantUser(n)
    BY <2>5 DEF GrantUser
  <2>6. CASE CheckDatabase(n)
    BY <2>6 DEF CheckDatabase
  <2>7. CASE CreateDatabase(n)
    BY <2>7 DEF CreateDatabase
  <2>8. CASE GrantDatabase(n)
    BY <2>8 DEF GrantDatabase
  <2>9. CASE CheckTable(n)
    BY <2>9 DEF CheckTable, TableExists
  <2>10. CASE ReadVersion(n)
    BY <2>10 DEF ReadVersion
  <2>11. CASE OpenScript(n)
    BY <2>11 DEF OpenScript
  <2>12. CASE ImportStatement(n)
    <3>1. CASE Fails(next[n]) /\ Exit(n)
      BY <2>12, <3>1 DEF ImportStatement
    <3>2. CASE ~Fails(next[n]) /\ next[n] = Total
      \* The last statement is applied behind all others: the version row
      \* among them, because the database holds a prefix.
      <4>1. pc' = [pc EXCEPT ![n] = "ready"] /\ applied' = applied \cup {Total}
        BY <2>12, <3>2 DEF ImportStatement
      <4>2. applied = 1..(Total - 1)
        BY <2>12, <3>2 DEF ImportStatement, ImportInv, ImporterAtFront, Importing
      <4>3. Versioned'
        BY <4>1, <4>2
      <4>4. QED
        BY <2>12, <3>2, <4>1, <4>3 DEF ImportStatement
    <3>3. CASE ~Fails(next[n]) /\ next[n] \in FileEnds \ {Total}
      BY <2>12, <3>3 DEF ImportStatement
    <3>4. CASE ~Fails(next[n]) /\ next[n] # Total /\ next[n] \notin FileEnds
      BY <2>12, <3>4 DEF ImportStatement
    <3>5. QED
      BY <2>12, <3>1, <3>2, <3>3, <3>4 DEF ImportStatement
  <2>13. QED
    BY <1>6, <2>1, <2>2, <2>3, <2>4, <2>5, <2>6, <2>7, <2>8, <2>9, <2>10,
       <2>11, <2>12 DEF Prepare
<1>7. ASSUME NEW s \in late, GoOn(s)
      PROVE  UserSeen' /\ DatabaseSeen'
  <2>1. /\ pc' = pc /\ applied \subseteq applied'
        /\ (account => account') /\ (granted => granted') /\ (database => database')
    BY <1>7 DEF GoOn
  <2>2. QED
    BY <2>1
<1>8. CASE UNCHANGED vars
  BY <1>8 DEF vars
<1>9. QED
  BY <1>1, <1>2, <1>3, <1>4, <1>5, <1>6, <1>7, <1>8 DEF Next

-----------------------------------------------------------------------------
LEMMA InitInv == Init => IInv
<1> USE ScriptAssumption, ContainerAssumption
<1> SUFFICES ASSUME Init
             PROVE  IInv
  OBVIOUS
<1>1. TypeOK
  <2>1. /\ pc \in [Nodes -> Phases]
        /\ session \in [Nodes -> BOOLEAN]
        /\ found \in [Nodes -> BOOLEAN]
    BY DEF Init, Phases
  <2>2. next \in [Nodes -> 1..Total + 1]
    BY DEF Init
  <2>3. granted \in BOOLEAN /\ applied \subseteq Script
    BY DEF Init
  <2>4. completed \subseteq Nodes /\ faults \in 0..MaxFaults
    BY DEF Init
  <2>5. dbUp \in BOOLEAN /\ late \subseteq Statement /\ account \in BOOLEAN /\ database \in BOOLEAN
    BY DEF Init
  <2>6. QED
    BY <2>1, <2>2, <2>3, <2>4, <2>5 DEF TypeOK
<1>2. PrefixApplied
  <2>1. CASE applied = {}
    <3>1. applied = 1..0
      BY <2>1
    <3>2. QED
      BY <3>1 DEF PrefixApplied
  <2>2. CASE applied = Script
    BY <2>2 DEF PrefixApplied, Script
  <2>3. QED
    BY <2>1, <2>2 DEF Init
<1>3. NextFresh /\ ImporterAtFront /\ OneImporter
  BY DEF Init, NextFresh, ImporterAtFront, OneImporter, Importing, Connected
<1>4. UserSeen /\ DatabaseSeen
  BY DEF Init, UserSeen, DatabaseSeen
<1>5. QED
  BY <1>1, <1>2, <1>3, <1>4 DEF IInv, ImportInv

LEMMA Invariance == Spec => []IInv
<1>1. IInv /\ [Next]_vars => IInv'
  BY TypeStep, ImportStep, UsableStep DEF IInv, ImportInv
<1>2. QED
  BY InitInv, <1>1, PTL DEF Spec

\* Every variable keeps its type.
THEOREM TypeCorrect == Spec => []TypeOK
<1>1. IInv => TypeOK
  BY DEF IInv
<1>2. QED
  BY Invariance, <1>1, PTL

\* However many containers race and however often they are killed, at most
\* one of them imports (executeSQLFile past its first statement).
THEOREM SingleImporter == Spec => []OneImporter
<1>1. IInv => OneImporter
  BY DEF IInv, ImportInv
<1>2. QED
  BY Invariance, <1>1, PTL

\* The database always holds a prefix of the scripts, in order.
THEOREM PrefixAlways == Spec => []PrefixApplied
<1>1. IInv => PrefixApplied
  BY DEF IInv, ImportInv
<1>2. QED
  BY Invariance, <1>1, PTL

\* Where Prepare has returned nil, the service finds what it connects to.
THEOREM ReadyContainersUsable == Spec => []ReadyUsable
<1>1. IInv => ReadyUsable
  BY DEF IInv, UserSeen, DatabaseSeen, ReadyUsable
<1>2. QED
  BY Invariance, <1>1, PTL

\* An import cut off before its version row is never continued, once the
\* statement its container has left to the server is done.
THEOREM StrandedStays == Spec => StrandedForever
<1>1. ASSUME IInv, Stranded, [Next]_vars
      PROVE  Stranded' /\ applied' = applied
  <2>1. CASE Quiet
    <3>1. applied' = applied
      BY <2>1 DEF Quiet
    <3>2. \A m \in Nodes : ~Importing(m)'
      BY <1>1, <2>1 DEF Stranded, Importing, Quiet, Move
    <3>3. \A s \in late' : ~LateImport(s)
      BY <1>1, <2>1 DEF Stranded, Quiet, Move, Hands
    <3>4. QED
      BY <1>1, <3>1, <3>2, <3>3 DEF Stranded, Versioned
  <2>2. ASSUME NEW n \in Nodes, Effect(n)
        PROVE  FALSE
    <3>1. next[n] \in 1..Total /\ applied = 1..(next[n] - 1)
      BY <1>1, <2>2, EffectAtFront DEF IInv
    <3>2. next[n] > 1
      BY <1>1, <3>1 DEF Stranded
    <3>3. QED
      BY <1>1, <2>2, <3>2 DEF Stranded, Importing, Effect
  <2>3. ASSUME NEW s \in late, LateEffect(s)
        PROVE  FALSE
    <3>1. s.number \in 1..Total /\ applied = 1..(s.number - 1)
      BY <1>1, <2>3, LateEffectAtFront DEF IInv
    <3>2. s.number > 1
      BY <1>1, <3>1 DEF Stranded
    <3>3. QED
      BY <1>1, <2>3, <3>2 DEF Stranded, LateImport, LateEffect
  <2>4. QED
    BY <1>1, <2>1, <2>2, <2>3, StepKinds DEF IInv, ImportInv, StepOfKind
<1>2. IInv /\ [Next]_vars =>
        [Stranded => Stranded' /\ applied' = applied]_vars
  BY <1>1
<1>3. QED
  BY Invariance, <1>2, PTL DEF Spec, StrandedForever

-----------------------------------------------------------------------------
(* The start order of compose.yaml *)

\* Until i has completed, nobody else has started: what the database holds
\* is whole, or of the import of i, which is not restarted when it fails; what
\* the server may still execute, i has left it when it died.
Gate(i) ==
  /\ pc[i] = "ready" => i \in completed
  /\ IF i \in completed THEN applied = Script
     ELSE /\ \A n \in Nodes \ {i} : pc[n] = "created"
          /\ applied \in {{}, Script} \/ pc[i] \in {"openScript", "import", "exited"}
          /\ late # {} => pc[i] = "exited"

LEMMA GateStep ==
  ASSUME IInv, NEW i \in Nodes, i \notin Restartable,
         \A n \in Nodes \ {i} : i \in After[n],
         Gate(i), [Next]_vars
  PROVE  Gate(i)'
<1> USE ScriptAssumption, ContainerAssumption
<1>1. TypeOK /\ ImportInv
  BY DEF IInv
<1>2. applied' = applied \/ (\E n \in Nodes : Effect(n)) \/ (\E s \in late : LateEffect(s))
  BY <1>1, StepKinds DEF Quiet, ImportInv, StepOfKind
\* A whole import stays whole.
<1>3. applied = Script => applied' = Script
  <2>1. ASSUME NEW n \in Nodes, Effect(n), applied = Script PROVE FALSE
    BY <1>1, <2>1, EffectAtFront DEF Script
  <2>2. ASSUME NEW s \in late, LateEffect(s), applied = Script PROVE FALSE
    BY <1>1, <2>2, LateEffectAtFront DEF Script
  <2>3. QED
    BY <1>2, <2>1, <2>2
\* Nobody returns from Prepare twice without a restart.
<1>4. completed \subseteq completed'
  BY DEF Next, Prepare, vars, shared, DatabaseUp, DatabaseDown, Start, Crash, Restart,
         Connect, SessionError, CheckUser, WriteUser, GrantUser, CheckDatabase,
         CreateDatabase, GrantDatabase, CheckTable, ReadVersion, OpenScript,
         ImportStatement, Exit, Complete, GoOn
<1>5. CASE i \in completed
  BY <1>3, <1>4, <1>5 DEF Gate
<1>6. CASE i \notin completed
  <2>1. /\ pc[i] # "ready"
        /\ \A n \in Nodes \ {i} : pc[n] = "created"
        /\ applied \in {{}, Script} \/ pc[i] \in {"openScript", "import", "exited"}
        /\ late # {} => pc[i] = "exited"
    BY <1>6 DEF Gate
  <2>2. ASSUME NEW n \in Nodes, Start(n) \/ Prepare(n) \/ Crash(n) \/ Restart(n)
        PROVE  n = i
    BY <1>6, <2>1, <2>2
       DEF Start, Prepare, Crash, Restart, Connect, SessionError, CheckUser, WriteUser,
           GrantUser, CheckDatabase, CreateDatabase, GrantDatabase, CheckTable, ReadVersion,
           OpenScript, ImportStatement, Connected, Preparing
  <2> USE DEF TypeOK, Gate, server, shared, Goto, Exit, Complete, Connected, Preparing
  <2>3. CASE DatabaseUp \/ DatabaseDown \/ UNCHANGED vars
    BY <1>6, <2>1, <2>3 DEF DatabaseUp, DatabaseDown, vars
  <2>4. CASE Start(i)
    BY <1>1, <1>6, <2>1, <2>4 DEF Start
  <2>5. CASE Crash(i)
    BY <1>1, <1>6, <2>1, <2>5 DEF Crash
  <2>6. CASE Restart(i)
    BY <2>6 DEF Restart
  <2>7. CASE Prepare(i)
    <3>1. CASE \/ Connect(i) \/ CheckUser(i) \/ CheckDatabase(i) \/ CheckTable(i)
               \/ OpenScript(i)
      BY <1>1, <1>6, <2>1, <3>1
         DEF Connect, CheckUser, CheckDatabase, CheckTable, OpenScript
    <3>2. CASE SessionError(i)
      BY <1>1, <1>6, <2>1, <3>2 DEF SessionError
    <3>3. CASE WriteUser(i) \/ GrantUser(i) \/ CreateDatabase(i) \/ GrantDatabase(i)
      BY <1>1, <1>6, <2>1, <3>3 DEF WriteUser, GrantUser, CreateDatabase, GrantDatabase
    <3>4. CASE ReadVersion(i)
      <4>1. CASE Versioned
        <5>1. applied = Script
          BY <2>1, <3>4, <4>1 DEF ReadVersion, Versioned
        <5>2. QED
          BY <1>1, <3>4, <4>1, <5>1 DEF ReadVersion
      <4>2. CASE ~Versioned
        BY <1>1, <1>6, <2>1, <3>4, <4>2 DEF ReadVersion
      <4>3. QED
        BY <4>1, <4>2
    <3>5. CASE ImportStatement(i)
      <4>1. CASE Fails(next[i]) /\ Exit(i)
        BY <1>1, <1>6, <2>1, <3>5, <4>1
      <4>2. CASE Effect(i) /\ next[i] = Total
        <5>1. applied' = Script
          BY <1>1, <4>2, EffectAtFront DEF Script
        <5>2. completed' = completed \cup {i}
          BY <3>5, <4>2 DEF ImportStatement, Effect
        <5>3. QED
          BY <1>1, <5>1, <5>2
      <4>3. CASE Effect(i) /\ next[i] # Total
        <5>1. PICK phase \in {"openScript", "import"} : pc' = [pc EXCEPT ![i] = phase]
          BY <4>3 DEF Effect
        <5>2. completed' = completed
          BY <3>5, <4>3 DEF ImportStatement, Effect
        <5>3. late' = {}
          BY <2>1, <4>3 DEF Effect
        <5>4. QED
          BY <1>1, <1>6, <2>1, <5>1, <5>2, <5>3
      <4>4. (Fails(next[i]) /\ Exit(i)) \/ Effect(i)
        BY <1>1, <3>5 DEF ImportStatement, Effect, ImportInv, NextFresh
      <4>5. QED
        BY <4>1, <4>2, <4>3, <4>4
    <3>6. QED
      BY <2>7, <3>1, <3>2, <3>3, <3>4, <3>5 DEF Prepare
  <2>8. CASE \E s \in late : GoOn(s)
    <3>1. UNCHANGED <<pc, completed>> /\ late' \subseteq late /\ pc[i] = "exited"
      BY <2>1, <2>8 DEF GoOn
    <3>2. QED
      BY <1>6, <2>1, <3>1
  <2>9. QED
    BY <2>2, <2>3, <2>4, <2>5, <2>6, <2>7, <2>8 DEF Next
<1>7. QED
  BY <1>5, <1>6

\* compose.yaml: behind a container that is never restarted and must complete
\* before all the others start, every container whose Prepare returns nil has
\* the whole import, as the comment of Prepare promises.
THEOREM GatedImportWhole ==
  ASSUME NEW i \in Nodes, i \notin Restartable,
         \A n \in Nodes \ {i} : i \in After[n]
  PROVE  Spec => [](GatedReadyImported /\ ReadyImported)
<1>1. Init => Gate(i)
  BY DEF Init, Gate
<1>2. IInv /\ Gate(i) /\ [Next]_vars => Gate(i)'
  BY GateStep
<1>3. IInv /\ Gate(i) => GatedReadyImported /\ ReadyImported
  BY DEF Gate, GatedReadyImported, ReadyImported
<1>4. QED
  BY Invariance, <1>1, <1>2, <1>3, PTL DEF Spec

-----------------------------------------------------------------------------
(* Refinement *)

ServerImports == \E s \in late : LateImport(s)
Owner == {n \in Nodes : Importing(n)} \cup {x \in {Server} : ServerImports}
Ready == {n \in Nodes : pc[n] = "ready"}

\* The steps of the abstract import.
LEMMA Mapping ==
  Import!Next =
    \/ \E w \in Nodes \cup {Server} : Import!Begin(w) \/ Import!Advance(w) \/ Import!Abandon(w)
    \/ \E n \in Nodes : Import!HandOver(n) \/ Import!Join(n) \/ Import!Leave(n)
BY DEF Import!Next, Import!Workers

\* Two importers are one.
LEMMA SingleOwner ==
  ASSUME IInv
  PROVE  /\ ServerImports => Owner = {Server}
         /\ \A n \in Nodes : Importing(n) => Owner = {n}
BY DEF IInv, ImportInv, OneImporter, Owner, ServerImports

\* A quiet step is a container joining or leaving the ready ones, the owner
\* abandoning its import or leaving it to the server, or nothing.
LEMMA QuietRefines ==
  ASSUME IInv, DatabaseSeen', Quiet
  PROVE  [Import!Next]_(Import!vars)
<1> USE ScriptAssumption, ContainerAssumption
<1>0. applied' = applied
  BY DEF Quiet
<1>1. CASE UNCHANGED <<pc, next>> /\ late' \subseteq late
  <2>1. Ready' = Ready /\ \A n \in Nodes : Importing(n)' <=> Importing(n)
    BY <1>1 DEF Ready, Importing
  <2>2. CASE ServerImports' <=> ServerImports
    <3>1. Owner' = Owner
      BY <2>1, <2>2 DEF Owner
    <3>2. QED
      BY <1>0, <2>1, <3>1 DEF Import!vars, Owner, Ready, ServerImports
  <2>3. CASE ServerImports /\ ~ServerImports'
    <3>1. Owner = {Server}
      BY <2>3, SingleOwner
    <3>2. \A n \in Nodes : ~Importing(n)
      BY <3>1 DEF Owner
    <3>3. Owner' = {}
      BY <2>1, <2>3, <3>2 DEF Owner
    <3>4. Import!Abandon(Server)
      BY <1>0, <2>1, <3>1, <3>3 DEF Import!Abandon, Owner, Ready, ServerImports
    <3>5. QED
      BY <3>4, Mapping
  <2>4. ServerImports' => ServerImports
    BY <1>1 DEF ServerImports, LateImport
  <2>5. QED
    BY <2>2, <2>3, <2>4
<1>2. ASSUME NEW n \in Nodes, Move(n)
      PROVE  [Import!Next]_(Import!vars)
  <2>1. \A m \in Nodes \ {n} : Importing(m)' <=> Importing(m)
    BY <1>2 DEF Importing, Move
  <2>2. CASE Importing(n) /\ ~Importing(n)'
    <3>1. Owner = {n}
      BY <2>2, SingleOwner
    <3>2. /\ \A m \in Nodes : ~Importing(m)'
          /\ ~ServerImports
      BY <2>1, <2>2 DEF IInv, ImportInv, OneImporter, ServerImports
    <3>3. Ready' = Ready
      BY <1>2, <2>2 DEF Ready, Move, Importing
    <3>4. CASE ServerImports'
      <4>1. Owner' = {Server}
        BY <3>2, <3>4 DEF Owner
      <4>2. Import!HandOver(n)
        BY <1>0, <3>1, <3>3, <4>1 DEF Import!HandOver, Owner, Ready, ServerImports
      <4>3. QED
        BY <4>2, Mapping
    <3>5. CASE ~ServerImports'
      <4>1. Owner' = {}
        BY <3>2, <3>5 DEF Owner
      <4>2. Import!Abandon(n)
        BY <1>0, <3>1, <3>3, <4>1 DEF Import!Abandon, Owner, Ready, ServerImports
      <4>3. QED
        BY <4>2, Mapping
    <3>6. QED
      BY <3>4, <3>5
  <2>3. CASE Importing(n)' <=> Importing(n)
    <3>1. ServerImports' <=> ServerImports
      <4>1. CASE late' = late
        BY <4>1 DEF ServerImports, LateImport
      <4>2. ASSUME NEW s \in Statement, late' = late \cup {s}, pc'[n] = "exited",
                   LateImport(s) => Importing(n)
            PROVE  ServerImports' <=> ServerImports
        <5>1. ~LateImport(s)
          BY <2>3, <4>2 DEF Importing
        <5>2. QED
          BY <4>2, <5>1 DEF ServerImports, LateImport
      <4>3. QED
        BY <1>2, <4>1, <4>2 DEF Move, Hands
    <3>2. Owner' = Owner
      BY <2>1, <2>3, <3>1 DEF Owner
    <3>3. CASE pc[n] # "ready" /\ pc'[n] = "ready"
      <4>0. VersionAt \in applied
        BY <1>0, <3>3 DEF DatabaseSeen, Versioned
      <4>1. pc[n] = "versionRead" /\ VersionAt \in applied
        BY <1>2, <3>3, <4>0 DEF Move
      <4>2. Owner # {n}
        BY <4>1 DEF Owner, Importing
      <4>3. Ready' = Ready \cup {n}
        BY <1>2, <3>3 DEF Ready, Move
      <4>4. Import!Join(n)
        BY <1>0, <3>2, <4>1, <4>2, <4>3 DEF Import!Join, Owner, Ready, ServerImports
      <4>5. QED
        BY <4>4, Mapping
    <3>4. CASE pc[n] = "ready" /\ pc'[n] # "ready"
      <4>1. Ready' = Ready \ {n}
        BY <1>2, <3>4 DEF Ready, Move
      <4>2. Import!Leave(n)
        BY <1>0, <3>2, <4>1 DEF Import!Leave, Owner, Ready, ServerImports
      <4>3. QED
        BY <4>2, Mapping
    <3>5. CASE pc'[n] = "ready" <=> pc[n] = "ready"
      <4>1. Ready' = Ready
        BY <1>2, <3>5 DEF Ready, Move
      <4>2. QED
        BY <1>0, <3>2, <4>1 DEF Import!vars, Owner, Ready, ServerImports
    <3>6. QED
      BY <3>3, <3>4, <3>5
  <2>4. QED
    BY <1>2, <2>2, <2>3 DEF Move, Importing
<1>3. QED
  BY <1>1, <1>2 DEF Quiet

\* A statement that takes effect is the owner's: it begins or advances.
LEMMA EffectRefines ==
  ASSUME IInv, NEW n \in Nodes, Effect(n)
  PROVE  Import!Next
<1> USE ScriptAssumption
<1>1. /\ next[n] \in 1..Total
      /\ applied = 1..(next[n] - 1)
      /\ applied' = 1..next[n]
      /\ \A m \in Nodes : Importing(m) => m = n
      /\ ~ServerImports
  BY EffectAtFront DEF IInv, ServerImports
<1>2. \A m \in Nodes : Importing(m)' => m = n
  BY EffectImporters DEF IInv
<1>3. next'[n] = next[n] + 1 /\ ~ServerImports'
  BY <1>1 DEF Effect, IInv, TypeOK, ServerImports, LateImport
<1>4. CASE next[n] = Total
  <2>1. Ready' = Ready \cup ({n} \ {Server}) /\ pc'[n] = "ready"
    BY <1>4, ContainerAssumption DEF Effect, IInv, TypeOK, Ready
  <2>2. Owner' = {}
    BY <1>2, <1>3, <2>1 DEF Importing, Owner
  <2>3. Owner = {n}
    BY <1>1, <1>4 DEF Effect, Importing, Owner
  <2>4. Import!Advance(n)
    <3>1. Total - 1 \in 1..Total - 1 /\ (Total - 1) + 1 = Total
      BY <1>4
    <3>2. QED
      BY <1>1, <1>4, <2>1, <2>2, <2>3, <3>1
         DEF Import!Advance, Owner, Ready, ServerImports
  <2>5. QED
    BY <2>4, Mapping
<1>5. CASE next[n] # Total
  <2>1. Ready' = Ready /\ pc'[n] \in {"openScript", "import"}
    BY <1>5 DEF Effect, IInv, TypeOK, Ready
  <2>2. Owner' = {n}
    BY <1>1, <1>2, <1>3, <2>1 DEF Importing, Owner
  <2>3. CASE next[n] = 1
    <3>1. applied = {} /\ applied' = {1}
      BY <1>1, <2>3
    <3>2. Owner = {}
      BY <1>1, <2>3 DEF Importing, Owner
    <3>3. Import!Begin(n)
      BY <2>1, <2>2, <3>1, <3>2
         DEF Import!Begin, Import!GoesOn, Owner, Ready, ServerImports
    <3>4. QED
      BY <3>3, Mapping
  <2>4. CASE next[n] > 1
    <3>1. Owner = {n}
      BY <1>1, <2>4 DEF Effect, Importing, Owner
    <3>2. next[n] - 1 \in 1..Total - 1 /\ (next[n] - 1) + 1 = next[n]
      BY <1>1, <2>4
    <3>3. Import!Advance(n)
      BY <1>1, <1>5, <2>1, <2>2, <3>1, <3>2
         DEF Import!Advance, Import!GoesOn, Owner, Ready, ServerImports
    <3>4. QED
      BY <3>3, Mapping
  <2>5. QED
    BY <1>1, <2>3, <2>4
<1>6. QED
  BY <1>4, <1>5

\* So does a statement that has outlived its container: the server's, which
\* has nothing more to do after it.
LEMMA LateEffectRefines ==
  ASSUME IInv, NEW s \in late, LateEffect(s)
  PROVE  Import!Next
<1> USE ScriptAssumption
<1>1. /\ s.number \in 1..Total
      /\ applied = 1..(s.number - 1)
      /\ applied' = 1..s.number
      /\ \A m \in Nodes : ~Importing(m)
      /\ \A r \in late \ {s} : ~LateImport(r)
  BY LateEffectAtFront DEF IInv
<1>2. UNCHANGED <<pc, next>> /\ late' = late \ {s}
  BY LateEffectMoves DEF IInv
<1>3. Ready' = Ready /\ \A m \in Nodes : ~Importing(m)'
  BY <1>1, <1>2 DEF Ready, Importing
<1>4. Owner' = {}
  BY <1>1, <1>2, <1>3 DEF Owner, ServerImports, LateImport
<1>5. CASE s.number = 1
  <2>1. applied = {} /\ applied' = {1}
    BY <1>1, <1>5
  <2>2. Owner = {}
    BY <1>1, <1>5 DEF Owner, ServerImports, LateImport
  <2>3. Import!Begin(Server)
    BY <1>3, <1>4, <2>1, <2>2
       DEF Import!Begin, Import!GoesOn, Owner, Ready, ServerImports
  <2>4. QED
    BY <2>3, Mapping
<1>6. CASE s.number > 1
  <2>1. Owner = {Server}
    BY <1>1, <1>6 DEF Owner, ServerImports, LateImport, LateEffect
  <2>2. s.number - 1 \in 1..Total - 1 /\ (s.number - 1) + 1 = s.number
    BY <1>1, <1>6
  <2>3. Ready' = Ready \cup ({Server} \ {Server})
    BY <1>3
  <2>4. Import!Advance(Server)
    BY <1>1, <1>3, <1>4, <2>1, <2>2, <2>3
       DEF Import!Advance, Import!GoesOn, Owner, Ready, ServerImports
  <2>5. QED
    BY <2>4, Mapping
<1>7. QED
  BY <1>1, <1>5, <1>6

\* The statement-by-statement provisioning implements SchemaImport.
THEOREM ProvisionImplementsImport == Spec => ImplementsImport
<1>1. Init => Import!Init
  BY DEF Init, Import!Init, Importing, Script
<1>2. IInv /\ IInv' /\ [Next]_vars => [Import!Next]_(Import!vars)
  <2> SUFFICES ASSUME IInv, IInv', [Next]_vars
               PROVE  [Import!Next]_(Import!vars)
    OBVIOUS
  <2>1. CASE Quiet
    BY <2>1, QuietRefines DEF IInv
  <2>2. CASE \E n \in Nodes : Effect(n)
    BY <2>2, EffectRefines
  <2>3. CASE \E s \in late : LateEffect(s)
    BY <2>3, LateEffectRefines
  <2>4. QED
    BY <2>1, <2>2, <2>3, StepKinds DEF IInv, ImportInv, StepOfKind
<1>3. QED
  BY Invariance, <1>1, <1>2, PTL DEF Spec, ImplementsImport, Import!Spec
=============================================================================
