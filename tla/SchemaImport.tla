---------------------------- MODULE SchemaImport ----------------------------
(***************************************************************************)
(* What provisioning a database promises to the containers that share it,  *)
(* without the statements it takes: the scripts are applied in order by    *)
(* one owner at a time, an import that loses its owner is never taken      *)
(* over, and a container is ready only when the version row is there.      *)
(*                                                                         *)
(* The owner is a container, or the database server itself when it still   *)
(* executes what a dead container has sent.                                *)
(***************************************************************************)
EXTENDS Naturals

CONSTANTS
  Nodes,      \* containers
  Server,     \* the database server, executing what a dead container sent
  Total, VersionAt

VARIABLES
  owner,    \* who is importing the scripts, if anybody: {} or {w}
  applied,  \* statements in the database
  ready     \* containers that have handed over to their service

vars == <<owner, applied, ready>>

Workers == Nodes \cup {Server}

Init ==
  /\ owner = {}
  /\ applied \in {{}, 1..Total}
  /\ ready = {}

\* A container goes on with the scripts; the server only to the end of the
\* request it was sent.
GoesOn(w) == {{w}} \cup (IF w = Server THEN {{}} ELSE {})

\* Only an empty database can be claimed.
Begin(w) ==
  /\ owner = {}
  /\ applied = {}
  /\ owner' \in GoesOn(w)
  /\ applied' = {1}
  /\ UNCHANGED ready

\* The owner applies the next statement; after the last one a container is
\* ready.
Advance(w) ==
  /\ owner = {w}
  /\ \E k \in 1..Total - 1 :
       /\ applied = 1..k
       /\ applied' = 1..(k + 1)
       /\ IF k + 1 = Total
          THEN owner' = {} /\ ready' = ready \cup ({w} \ {Server})
          ELSE owner' \in GoesOn(w) /\ UNCHANGED ready

\* The owner dies or its connection does.
Abandon(w) ==
  /\ owner = {w}
  /\ owner' = {}
  /\ UNCHANGED <<applied, ready>>

\* The owner dies with a request at the server.
HandOver(n) ==
  /\ owner = {n}
  /\ owner' = {Server}
  /\ UNCHANGED <<applied, ready>>

Join(n) ==
  /\ owner # {n}
  /\ VersionAt \in applied
  /\ ready' = ready \cup {n}
  /\ UNCHANGED <<owner, applied>>

Leave(n) ==
  /\ ready' = ready \ {n}
  /\ UNCHANGED <<owner, applied>>

Next ==
  \/ \E w \in Workers : Begin(w) \/ Advance(w) \/ Abandon(w)
  \/ \E n \in Nodes : HandOver(n) \/ Join(n) \/ Leave(n)

Spec == Init /\ [][Next]_vars
=============================================================================
