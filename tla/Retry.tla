------------------------------- MODULE Retry -------------------------------
(***************************************************************************)
(* What bootstrap.Retry promises to its callers: attempts are repeated     *)
(* with a pause between them until one succeeds, one fails for good        *)
(* (Stop), the context ends or the attempts run out.                       *)
(*                                                                         *)
(* An attempt that runs while the context ends is the last one.  During a  *)
(* pause the timer and the context are awaited together, so one attempt    *)
(* may still begin when both are over.  Every caller pauses for a          *)
(* positive interval.                                                      *)
(***************************************************************************)
EXTENDS Naturals

VARIABLES
  at,         \* "idle", "attempt", "pause" or "returned"
  limit,      \* RetryOptions.Attempts of this call; 0 repeats without a bound
  calls,      \* attempts begun by this call of Retry (1 when unbounded)
  cancelled,  \* the context has ended
  result      \* what Retry returned

vars == <<at, limit, calls, cancelled, result>>

Results == {"none", "nil", "stopped", "cancelled", "last"}

TypeOK ==
  /\ at \in {"idle", "attempt", "pause", "returned"}
  /\ limit \in Nat
  /\ calls \in Nat
  /\ cancelled \in BOOLEAN
  /\ result \in Results

Init ==
  /\ at = "idle"
  /\ limit \in Nat
  /\ calls = 0
  /\ cancelled = FALSE
  /\ result = "none"

Return(r) ==
  /\ at' = "returned"
  /\ result' = r
  /\ UNCHANGED <<limit, calls, cancelled>>

\* Retry is called, and called again for the next task or by a restarted
\* process.  The caller owns the context: a new one, or one that has ended.
Call ==
  /\ at \in {"idle", "returned"}
  /\ at' = "attempt"
  /\ limit' \in Nat
  /\ calls' = 1
  /\ cancelled' \in BOOLEAN
  /\ result' = "none"

Cancel ==
  /\ ~cancelled
  /\ cancelled' = TRUE
  /\ UNCHANGED <<at, limit, calls, result>>

Succeed == at = "attempt" /\ Return("nil")

Stop == at = "attempt" /\ Return("stopped")

\* After a failure the context is asked before the attempts are counted.
Fail ==
  /\ at = "attempt"
  /\ \/ cancelled /\ Return("cancelled")
     \/ ~cancelled /\ calls = limit /\ Return("last")
     \/ /\ ~cancelled
        /\ calls # limit
        /\ at' = "pause"
        /\ UNCHANGED <<limit, calls, cancelled, result>>

Resume ==
  /\ at = "pause"
  /\ at' = "attempt"
  /\ calls' = IF limit = 0 THEN calls ELSE calls + 1
  /\ UNCHANGED <<limit, cancelled, result>>

GiveUp == at = "pause" /\ cancelled /\ Return("cancelled")

Next == Call \/ Cancel \/ Succeed \/ Stop \/ Fail \/ Resume \/ GiveUp

Spec == Init /\ [][Next]_vars
=============================================================================
