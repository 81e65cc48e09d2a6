----------------------------- MODULE Supervise -----------------------------
(***************************************************************************)
(* The web images run two processes in one container: php-fpm and a web    *)
(* server.  The entrypoint stays as their supervisor (internal/web/        *)
(* stack.go, supervise and waitForChildren): it starts them in order,      *)
(* waits for the first exit or a stop signal, asks the others to stop,     *)
(* kills what has not stopped in time, and returns when all have ended.    *)
(*                                                                         *)
(* The processes, the goroutine that waits for each of them, the signal    *)
(* channel, the results channel and the timer run concurrently with it.    *)
(***************************************************************************)
EXTENDS Naturals, FiniteSets

CONSTANT N  \* number of children; the code starts two

ASSUME NAssumption == N \in Nat \ {0}

Children == 1..N

VARIABLES
  pc,         \* where supervise is
  child,      \* child[i]: life of process i, of its goroutine and its result
  status,     \* status[i]: how process i ended
  termed,     \* termed[i]: SIGTERM reached process i while it was running
  killed,     \* killed[i]: SIGKILL reached process i while it was running
  signal,     \* a stop signal waits in the signals channel (capacity 1)
  first,      \* child of firstResult, 0 when its command is nil
  remaining,  \* results still to be received
  timer,      \* the exit timer of waitForChildren
  failed      \* Start returned an error

vars == <<pc, child, status, termed, killed, signal, first, remaining, timer,
          failed>>
procs == <<child, status, termed, killed>>

\* "ended": the process is gone, its goroutine has not sent the result yet;
\* "reported": the result is in the channel; "collected": it was received.
\* The channel has room for every child, so a send never blocks.  Goroutines
\* send in any order, so which reported result is received next is left open.
TypeOK ==
  /\ pc \in {"starting", "running", "stopping", "draining", "returned"}
  /\ child \in [Children ->
                  {"new", "running", "ended", "reported", "collected"}]
  /\ status \in [Children -> {"none", "ok", "error"}]
  /\ termed \in [Children -> BOOLEAN]
  /\ killed \in [Children -> BOOLEAN]
  /\ signal \in BOOLEAN
  /\ first \in 0..N
  /\ remaining \in 0..N
  /\ timer \in {"off", "armed", "elapsed"}
  /\ failed \in BOOLEAN

Started == {i \in Children : child[i] # "new"}
Pending == {i \in Started : child[i] # "collected"}
Alive == {i \in Children : child[i] = "running"}

Init ==
  /\ pc = "starting"
  /\ child = [i \in Children |-> "new"]
  /\ status = [i \in Children |-> "none"]
  /\ termed = [i \in Children |-> FALSE]
  /\ killed = [i \in Children |-> FALSE]
  /\ signal = FALSE
  /\ first = 0
  /\ remaining = 0
  /\ timer = "off"
  /\ failed = FALSE

-----------------------------------------------------------------------------
(* The processes, their goroutines, and the container engine *)

\* A process ends on its own, or because it obeys SIGTERM.
Exit(i) ==
  /\ child[i] = "running"
  /\ child' = [child EXCEPT ![i] = "ended"]
  /\ \E s \in {"ok", "error"} : status' = [status EXCEPT ![i] = s]
  /\ UNCHANGED <<pc, termed, killed, signal, first, remaining, timer, failed>>

\* SIGKILL cannot be ignored.
Die(i) ==
  /\ child[i] = "running"
  /\ killed[i]
  /\ child' = [child EXCEPT ![i] = "ended"]
  /\ status' = [status EXCEPT ![i] = "error"]
  /\ UNCHANGED <<pc, termed, killed, signal, first, remaining, timer, failed>>

\* The goroutine of child i sends what Wait returned.
Report(i) ==
  /\ child[i] = "ended"
  /\ child' = [child EXCEPT ![i] = "reported"]
  /\ UNCHANGED <<pc, status, termed, killed, signal, first, remaining, timer,
                 failed>>

\* SIGTERM or SIGINT arrives; while one waits in the channel more are dropped.
StopSignal ==
  /\ pc # "returned"
  /\ ~signal
  /\ signal' = TRUE
  /\ UNCHANGED <<pc, procs, first, remaining, timer, failed>>

-----------------------------------------------------------------------------
(* supervise *)

\* The loop starts the children in order.
NextChild(i) == child[i] = "new" /\ \A j \in 1..(i - 1) : child[j] # "new"

\* Bug: one result too many is expected.
StartChild_oneMore(i) ==
  /\ pc = "starting"
  /\ NextChild(i)
  /\ child' = [child EXCEPT ![i] = "running"]
  /\ IF i = N
     THEN pc' = "running" /\ remaining' = N + 1
     ELSE UNCHANGED <<pc, remaining>>
  /\ UNCHANGED <<status, termed, killed, signal, first, timer, failed>>

StartChild(i) ==
  /\ pc = "starting"
  /\ NextChild(i)
  /\ child' = [child EXCEPT ![i] = "running"]
  /\ IF i = N
     THEN pc' = "running" /\ remaining' = N
     ELSE UNCHANGED <<pc, remaining>>
  /\ UNCHANGED <<status, termed, killed, signal, first, timer, failed>>

\* SIGTERM to the processes of S; one that has ended does not notice.
TermAll(S) == termed' = [i \in Children |-> termed[i] \/ i \in S \cap Alive]

\* waitForChildren returns at once when nothing is left, else arms its timer.
BeginDrain(left) ==
  /\ pc' = "draining"
  /\ timer' = IF left = 0 THEN timer ELSE "armed"

\* Bug: a child that cannot be started ends supervise at once.
StartFails_return(i) ==
  /\ pc = "starting"
  /\ NextChild(i)
  /\ failed' = TRUE
  /\ TermAll(1..(i - 1))
  /\ pc' = "returned"
  /\ UNCHANGED <<child, status, killed, signal, first, remaining, timer>>

\* Child i cannot be started: those before it are stopped and waited for.
StartFails(i) ==
  /\ pc = "starting"
  /\ NextChild(i)
  /\ failed' = TRUE
  /\ TermAll(1..(i - 1))
  /\ remaining' = i - 1
  /\ BeginDrain(i - 1)
  /\ UNCHANGED <<child, status, killed, signal, first>>

Collect(i) ==
  /\ child[i] = "reported"
  /\ child' = [child EXCEPT ![i] = "collected"]
  /\ remaining' = remaining - 1

\* The select of supervise takes a result or a signal, whichever it finds.
FirstResult(i) ==
  /\ pc = "running"
  /\ Collect(i)
  /\ first' = i
  /\ pc' = "stopping"
  /\ UNCHANGED <<status, termed, killed, signal, timer, failed>>

TakeSignal ==
  /\ pc = "running"
  /\ signal
  /\ signal' = FALSE
  /\ pc' = "stopping"
  /\ UNCHANGED <<procs, first, remaining, timer, failed>>

\* Bug: the children that have not stopped are killed at once.
Terminate_kill ==
  /\ pc = "stopping"
  /\ killed' = [i \in Children |-> killed[i] \/ i \in Alive]
  /\ BeginDrain(remaining)
  /\ UNCHANGED <<child, status, termed, signal, first, remaining, failed>>

\* Bug: only the children started after the first to exit are asked to stop.
Terminate_later ==
  /\ pc = "stopping"
  /\ TermAll({i \in Children : i > first})
  /\ BeginDrain(remaining)
  /\ UNCHANGED <<child, status, killed, signal, first, remaining, failed>>

\* Every child but the first to exit is asked to stop.
Terminate ==
  /\ pc = "stopping"
  /\ TermAll(Children \ {first})
  /\ BeginDrain(remaining)
  /\ UNCHANGED <<child, status, killed, signal, first, remaining, failed>>

-----------------------------------------------------------------------------
(* waitForChildren *)

Draining == pc = "draining" /\ remaining > 0

\* Bug: supervise returns the last result instead of the first.
NextResult_last(i) ==
  /\ Draining
  /\ Collect(i)
  /\ first' = i
  /\ UNCHANGED <<pc, status, termed, killed, signal, timer, failed>>

NextResult(i) ==
  /\ Draining
  /\ Collect(i)
  /\ UNCHANGED <<pc, status, termed, killed, signal, first, timer, failed>>

\* Bug: the timer expires without a kill.
Timeout_noKill ==
  /\ Draining
  /\ timer = "armed"
  /\ timer' = "elapsed"
  /\ UNCHANGED <<pc, procs, signal, first, remaining, failed>>

\* The stop time is over: every child that still runs is killed, once.
Timeout ==
  /\ Draining
  /\ timer = "armed"
  /\ killed' = [i \in Children |-> killed[i] \/ i \in Alive]
  /\ timer' = "elapsed"
  /\ UNCHANGED <<pc, child, status, termed, signal, first, remaining, failed>>

Return ==
  /\ pc = "draining"
  /\ remaining = 0
  /\ pc' = "returned"
  /\ UNCHANGED <<procs, signal, first, remaining, timer, failed>>

-----------------------------------------------------------------------------
Supervisor ==
  \/ \E i \in Children :
       StartChild(i) \/ StartFails(i) \/ FirstResult(i) \/ NextResult(i)
  \/ TakeSignal \/ Terminate \/ Timeout \/ Return

\* Nothing happens after the return: the process and its container end.
Ended == pc = "returned" /\ UNCHANGED vars

Next ==
  \/ Supervisor
  \/ \E i \in Children : Exit(i) \/ Die(i) \/ Report(i)
  \/ StopSignal
  \/ Ended

Spec == Init /\ [][Next]_vars

\* The supervisor, its timer and the goroutines are scheduled and the kernel
\* carries out SIGKILL.  A process need not exit, nor obey SIGTERM.
Fairness ==
  /\ WF_vars(Supervisor)
  /\ \A i \in Children : WF_vars(Die(i)) /\ WF_vars(Report(i))

FairSpec == Spec /\ Fairness

-----------------------------------------------------------------------------
(* Properties *)

\* supervise returns, and so ends its container, only when every process it
\* started has ended and its result was received: also after a failed Start
\* and after a stop signal that met a child exiting.
NoOrphan == pc = "returned" => Pending = {}

\* The count of outstanding results agrees with the children at every point
\* where waitForChildren relies on it: it neither blocks on a result that
\* cannot come nor returns while one is missing.
RemainingExact ==
  pc \in {"running", "stopping", "draining"} => remaining = Cardinality(Pending)

\* Whoever supervise waits for has been asked to stop.
EveryoneAsked ==
  pc = "draining" => \A i \in Children : child[i] = "running" => termed[i]

\* A process is killed only after SIGTERM and the whole stop time.
GraceBeforeKill ==
  [][\A i \in Children : killed'[i] /\ ~killed[i] =>
       termed[i] /\ timer = "armed" /\ timer' = "elapsed"]_vars

\* The error supervise returns is that of a child that ended by itself, never
\* the "signal: terminated" or "signal: killed" that stopping has caused.
NotSelfInflicted == first # 0 => ~termed[first] /\ ~killed[first]

\* A stop signal, or the end of any child, ends the container: although
\* children may ignore SIGTERM and signals may arrive at any point.
Stops ==
  (signal \/ \E i \in Children : child[i] \in {"ended", "reported"})
    ~> pc = "returned"
=============================================================================
