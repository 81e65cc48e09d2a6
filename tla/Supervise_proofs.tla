-------------------------- MODULE Supervise_proofs --------------------------
(***************************************************************************)
(* Proofs about Supervise for any number of children.                      *)
(***************************************************************************)
EXTENDS Supervise, FiniteSetTheorems, TLAPS

\* While children are started nothing has been received, asked or killed, and
\* the started ones are those before the next.
StartPhase ==
  /\ pc \in {"starting", "running"} =>
       /\ first = 0
       /\ \A i \in Children : child[i] # "collected"
  /\ pc \in {"starting", "running", "stopping"} =>
       /\ timer = "off"
       /\ \A i \in Children : ~termed[i] /\ ~killed[i]
  /\ pc = "starting" =>
       \A i, j \in Children : i < j /\ child[j] # "new" => child[i] # "new"
  /\ pc \in {"running", "stopping"} => \A i \in Children : child[i] # "new"

\* The first child to exit is done with before anyone is asked to stop.
FirstDone == first # 0 => child[first] = "collected"

\* Only a process that was asked to stop is killed.
KillsAsked == \A i \in Children : killed[i] => termed[i]

IInv ==
  /\ TypeOK
  /\ StartPhase
  /\ RemainingExact
  /\ EveryoneAsked
  /\ FirstDone
  /\ NotSelfInflicted
  /\ KillsAsked
  /\ NoOrphan

-----------------------------------------------------------------------------
LEMMA ChildrenFinite == IsFiniteSet(Children) /\ Cardinality(Children) = N
BY NAssumption, FS_Interval DEF Children

\* Receiving a result takes one child out of the pending ones.
LEMMA CollectOne ==
  ASSUME TypeOK, NEW i \in Children, Collect(i)
  PROVE  Cardinality(Pending') = Cardinality(Pending) - 1
<1>1. Pending' = Pending \ {i} /\ i \in Pending
  BY DEF Pending, Started, Collect, TypeOK
<1>2. IsFiniteSet(Pending)
  BY ChildrenFinite, FS_Subset DEF Pending, Started
<1>3. QED
  BY <1>1, <1>2, FS_RemoveElement

\* Steps that neither start nor collect a child leave the pending ones alone.
LEMMA SamePending ==
  ASSUME TypeOK,
         \A i \in Children :
           \/ child'[i] = child[i]
           \/ child[i] \notin {"new", "collected"} /\
              child'[i] \notin {"new", "collected"}
  PROVE  Pending' = Pending
BY DEF Pending, Started

LEMMA TypeStep == IInv /\ [Next]_vars => TypeOK'
<1> USE NAssumption
<1> SUFFICES ASSUME IInv, [Next]_vars
             PROVE  TypeOK'
  OBVIOUS
<1> USE DEF IInv, TypeOK, procs, TermAll, BeginDrain
<1>1. ASSUME NEW i \in Children, StartChild(i)
      PROVE  TypeOK'
  BY <1>1 DEF StartChild
<1>2. ASSUME NEW i \in Children, StartFails(i)
      PROVE  TypeOK'
  BY <1>2 DEF StartFails, Children
<1>3. ASSUME NEW i \in Children, FirstResult(i)
      PROVE  TypeOK'
  <2>1. remaining = N
    BY <1>3, ChildrenFinite, SMTT(60)
       DEF FirstResult, RemainingExact, StartPhase, Pending, Started
  <2>2. remaining' \in 0..N
    BY <1>3, <2>1 DEF FirstResult, Collect
  <2>3. first' \in 0..N
    BY <1>3 DEF FirstResult, Children
  <2>4. QED
    BY <1>3, <2>2, <2>3 DEF FirstResult, Collect
<1>4. ASSUME NEW i \in Children, NextResult(i)
      PROVE  TypeOK'
  BY <1>4 DEF NextResult, Draining, Collect
<1>5. CASE TakeSignal
  BY <1>5 DEF TakeSignal
<1>6. CASE Terminate
  BY <1>6 DEF Terminate
<1>7. CASE Timeout
  BY <1>7 DEF Timeout
<1>8. CASE Return
  BY <1>8 DEF Return
<1>9. ASSUME NEW i \in Children, Exit(i) \/ Die(i) \/ Report(i)
      PROVE  TypeOK'
  BY <1>9 DEF Exit, Die, Report
<1>10. CASE StopSignal
  BY <1>10 DEF StopSignal
<1>11. CASE Ended \/ UNCHANGED vars
  BY <1>11 DEF Ended, vars
<1>12. QED
  BY <1>1, <1>2, <1>3, <1>4, <1>5, <1>6, <1>7, <1>8, <1>9, <1>10, <1>11
     DEF Next, Supervisor

\* The phases before waitForChildren, and who may be asked and killed.
LEMMA PhaseStep ==
  IInv /\ [Next]_vars =>
    /\ StartPhase'
    /\ EveryoneAsked'
    /\ FirstDone'
    /\ NotSelfInflicted'
    /\ KillsAsked'
<1> USE NAssumption
<1> SUFFICES ASSUME IInv, [Next]_vars
             PROVE  /\ StartPhase'
                    /\ EveryoneAsked'
                    /\ FirstDone'
                    /\ NotSelfInflicted'
                    /\ KillsAsked'
  OBVIOUS
<1> USE DEF IInv, TypeOK, procs, TermAll, BeginDrain, Alive, Children
<1> DEFINE P == StartPhase /\ EveryoneAsked /\ FirstDone /\ NotSelfInflicted
                /\ KillsAsked
<1> USE DEF StartPhase, EveryoneAsked, FirstDone, NotSelfInflicted, KillsAsked
<1>1. ASSUME NEW i \in Children, StartChild(i)
      PROVE  P'
  <2>1. \A j \in Children : j # i => child'[j] = child[j]
    BY <1>1 DEF StartChild
  <2>2. child'[i] = "running" /\ first' = 0 /\ termed' = termed /\
        killed' = killed /\ timer' = timer
    BY <1>1 DEF StartChild
  <2>3. \A j \in 1..(i - 1) : child[j] # "new"
    BY <1>1 DEF StartChild, NextChild
  <2>4. pc' = "starting" => \A j, k \in Children :
          j < k /\ child'[k] # "new" => child'[j] # "new"
    BY <1>1, <2>1, <2>2, <2>3 DEF StartChild
  <2>5. pc' \in {"starting", "running"}
    BY <1>1 DEF StartChild
  <2>6. pc' = "running" => \A j \in Children : child'[j] # "new"
    BY <1>1, <2>1, <2>2, <2>3 DEF StartChild
  <2>7. QED
    BY <1>1, <2>1, <2>2, <2>4, <2>5, <2>6 DEF StartChild
<1>2. ASSUME NEW i \in Children, StartFails(i)
      PROVE  P'
  <2>1. \A j \in Children : child[j] = "running" => j \in 1..(i - 1)
    BY <1>2 DEF StartFails, NextChild
  <2>2. QED
    BY <1>2, <2>1 DEF StartFails
<1>3. ASSUME NEW i \in Children, FirstResult(i)
      PROVE  P'
  BY <1>3 DEF FirstResult, Collect
<1>4. ASSUME NEW i \in Children, NextResult(i)
      PROVE  P'
  BY <1>4 DEF NextResult, Draining, Collect
<1>5. ASSUME TakeSignal
      PROVE  P'
  BY <1>5 DEF TakeSignal
<1>6. ASSUME Terminate
      PROVE  P'
  <2>1. \A i \in Children : child[i] = "running" => i # first
    BY <1>6 DEF Terminate
  <2>2. \A i \in Children : termed'[i] <=> termed[i] \/ (i # first /\ i \in Alive)
    BY <1>6 DEF Terminate
  <2>3. UNCHANGED <<child, killed, first>> /\ pc' = "draining"
    BY <1>6 DEF Terminate
  <2>4. EveryoneAsked'
    BY <2>1, <2>2, <2>3
  <2>5. NotSelfInflicted' /\ FirstDone' /\ KillsAsked'
    BY <1>6, <2>2, <2>3 DEF Terminate
  <2>6. StartPhase'
    BY <2>3
  <2>7. QED
    BY <2>4, <2>5, <2>6
<1>7. ASSUME Timeout
      PROVE  P'
  BY <1>7 DEF Timeout, Draining
<1>8. ASSUME Return
      PROVE  P'
  BY <1>8 DEF Return
<1>9. ASSUME NEW i \in Children, Exit(i) \/ Die(i) \/ Report(i)
      PROVE  P'
  BY <1>9, SMTT(60) DEF Exit, Die, Report
<1>10. ASSUME StopSignal
      PROVE  P'
  BY <1>10 DEF StopSignal
<1>11. ASSUME Ended \/ UNCHANGED vars
      PROVE  P'
  BY <1>11 DEF Ended, vars
<1> HIDE DEF P, IInv, TypeOK, StartPhase, EveryoneAsked, FirstDone,
             NotSelfInflicted, KillsAsked, Children
<1>12. P'
  BY <1>1, <1>2, <1>3, <1>4, <1>5, <1>6, <1>7, <1>8, <1>9, <1>10, <1>11
     DEF Next, Supervisor
<1>13. QED
  BY <1>12 DEF P

\* The count of outstanding results stays exact, so the return is complete.
LEMMA CountStep == IInv /\ [Next]_vars => RemainingExact' /\ NoOrphan'
<1> USE NAssumption
<1> SUFFICES ASSUME IInv, [Next]_vars
             PROVE  RemainingExact' /\ NoOrphan'
  OBVIOUS
<1> USE DEF IInv, procs, BeginDrain
<1>1. ASSUME NEW i \in Children, StartChild(i)
      PROVE  RemainingExact' /\ NoOrphan'
  <2>1. CASE i = N
    <3>1. \A j \in Children : child'[j] \notin {"new", "collected"}
      BY <1>1, <2>1 DEF StartChild, NextChild, StartPhase, TypeOK, Children
    <3>2. Pending' = Children
      BY <3>1 DEF Pending, Started
    <3>3. QED
      BY <1>1, <2>1, <3>2, ChildrenFinite
         DEF StartChild, RemainingExact, NoOrphan
  <2>2. CASE i # N
    BY <1>1, <2>2 DEF StartChild, RemainingExact, NoOrphan
  <2>3. QED
    BY <2>1, <2>2
<1>2. ASSUME NEW i \in Children, StartFails(i)
      PROVE  RemainingExact' /\ NoOrphan'
  <2>1. \A j \in Children : child[j] # "new" <=> j \in 1..(i - 1)
    BY <1>2 DEF StartFails, NextChild, StartPhase, Children
  <2>2. Pending' = 1..(i - 1)
    <3>1. \A j \in Children : child[j] # "collected"
      BY <1>2 DEF StartFails, StartPhase
    <3>2. 1..(i - 1) \subseteq Children
      BY DEF Children
    <3>3. Pending = 1..(i - 1)
      BY <2>1, <3>1, <3>2 DEF Pending, Started
    <3>4. Pending' = Pending
      BY <1>2 DEF StartFails, Pending, Started
    <3>5. QED
      BY <3>3, <3>4
  <2>3. Cardinality(1..(i - 1)) = i - 1
    BY FS_Interval DEF Children
  <2>4. QED
    BY <1>2, <2>2, <2>3 DEF StartFails, RemainingExact, NoOrphan
<1>3. ASSUME NEW i \in Children, FirstResult(i)
      PROVE  RemainingExact' /\ NoOrphan'
  BY <1>3, CollectOne DEF FirstResult, Collect, RemainingExact, NoOrphan
<1>4. ASSUME NEW i \in Children, NextResult(i)
      PROVE  RemainingExact' /\ NoOrphan'
  BY <1>4, CollectOne
     DEF NextResult, Draining, Collect, RemainingExact, NoOrphan
<1>5. CASE TakeSignal \/ Terminate \/ Timeout \/ StopSignal
  <2>1. Pending' = Pending
    BY <1>5 DEF TakeSignal, Terminate, Timeout, StopSignal, Pending, Started
  <2>2. QED
    BY <1>5, <2>1 DEF TakeSignal, Terminate, Timeout, StopSignal, Draining,
                      RemainingExact, NoOrphan
<1>6. CASE Return
  <2>1. Pending' = Pending
    BY <1>6 DEF Return, Pending, Started
  <2>2. IsFiniteSet(Pending)
    BY ChildrenFinite, FS_Subset DEF Pending, Started
  <2>3. Pending = {}
    BY <1>6, <2>2, FS_EmptySet DEF Return, RemainingExact
  <2>4. QED
    BY <1>6, <2>1, <2>3 DEF Return, RemainingExact, NoOrphan
<1>7. ASSUME NEW i \in Children, Exit(i) \/ Die(i) \/ Report(i)
      PROVE  RemainingExact' /\ NoOrphan'
  <2>1. Pending' = Pending
    BY <1>7, SamePending DEF Exit, Die, Report, TypeOK
  <2>2. QED
    BY <1>7, <2>1 DEF Exit, Die, Report, RemainingExact, NoOrphan
<1>8. CASE Ended \/ UNCHANGED vars
  <2>1. Pending' = Pending
    BY <1>8 DEF Ended, vars, Pending, Started
  <2>2. QED
    BY <1>8, <2>1 DEF Ended, vars, RemainingExact, NoOrphan
<1>9. QED
  BY <1>1, <1>2, <1>3, <1>4, <1>5, <1>6, <1>7, <1>8 DEF Next, Supervisor

LEMMA InitInv == Init => IInv
<1> USE NAssumption
<1> SUFFICES ASSUME Init
             PROVE  IInv
  OBVIOUS
<1>1. TypeOK
  <2>1. /\ child \in [Children ->
                     {"new", "running", "ended", "reported", "collected"}]
        /\ status \in [Children -> {"none", "ok", "error"}]
    BY DEF Init
  <2>2. termed \in [Children -> BOOLEAN] /\ killed \in [Children -> BOOLEAN]
    BY DEF Init
  <2>3. first \in 0..N /\ remaining \in 0..N
    BY DEF Init
  <2>4. QED
    BY <2>1, <2>2, <2>3 DEF Init, TypeOK
<1>2. StartPhase /\ RemainingExact /\ EveryoneAsked /\ FirstDone
  BY DEF Init, StartPhase, RemainingExact, EveryoneAsked, FirstDone
<1>3. NotSelfInflicted /\ KillsAsked /\ NoOrphan
  BY DEF Init, NotSelfInflicted, KillsAsked, NoOrphan
<1>4. QED
  BY <1>1, <1>2, <1>3 DEF IInv

LEMMA Invariance == Spec => []IInv
<1>1. IInv /\ [Next]_vars => IInv'
  BY TypeStep, PhaseStep, CountStep DEF IInv
<1>2. QED
  BY InitInv, <1>1, PTL DEF Spec

-----------------------------------------------------------------------------
\* Every variable keeps its type; remaining never goes below zero.
THEOREM TypeCorrect == Spec => []TypeOK
<1>1. IInv => TypeOK
  BY DEF IInv
<1>2. QED
  BY Invariance, <1>1, PTL

\* supervise never returns with a process left behind.
THEOREM NoOrphanEver == Spec => []NoOrphan
<1>1. IInv => NoOrphan
  BY DEF IInv
<1>2. QED
  BY Invariance, <1>1, PTL

\* waitForChildren counts exactly the results that are still to come.
THEOREM CountExact == Spec => []RemainingExact
<1>1. IInv => RemainingExact
  BY DEF IInv
<1>2. QED
  BY Invariance, <1>1, PTL

\* While the stack is drained, whoever still runs has been asked to stop.
THEOREM AllAsked == Spec => []EveryoneAsked
<1>1. IInv => EveryoneAsked
  BY DEF IInv
<1>2. QED
  BY Invariance, <1>1, PTL

\* The exit status is never one that stopping the stack has caused.
THEOREM StatusHonest == Spec => []NotSelfInflicted
<1>1. IInv => NotSelfInflicted
  BY DEF IInv
<1>2. QED
  BY Invariance, <1>1, PTL

\* SIGKILL comes only after SIGTERM and after the timer.
THEOREM KillIsGraceful == Spec => GraceBeforeKill
<1> DEFINE A == \A i \in Children : killed'[i] /\ ~killed[i] =>
                  termed[i] /\ timer = "armed" /\ timer' = "elapsed"
<1>1. IInv /\ [Next]_vars => [A]_vars
  <2> SUFFICES ASSUME IInv, Next
               PROVE  A
    OBVIOUS
  <2>1. CASE Timeout
    BY <2>1 DEF Timeout, Draining, IInv, TypeOK, EveryoneAsked, Alive
  <2>2. CASE killed' = killed
    BY <2>2
  <2>3. QED
    BY <2>1, <2>2 DEF Next, Supervisor, StartChild, StartFails, FirstResult,
       NextResult, TakeSignal, Terminate, Return, Exit, Die, Report,
       StopSignal, Ended, vars, procs
<1>2. QED
  BY Invariance, <1>1, PTL DEF Spec, GraceBeforeKill
=============================================================================
