-------------------------------- MODULE UndoLog --------------------------------
(***************************************************************************)
(* What FreqController promises, without its loops, vectors and sides of   *)
(* rails: an undo log over a set of nodes.                                 *)
(*                                                                         *)
(* Applying first logs the present value of every node it is about to      *)
(* change, all of them at one instant, and then changes logged nodes only. *)
(* Restoring puts logged values back, and may finish when every node holds *)
(* its logged value or is one that failed.  The log outlives a failed      *)
(* application; it is gone after a restore, and with the process.          *)
(***************************************************************************)
EXTENDS Naturals

CONSTANTS Node,      \* what the log is about
          Fallible   \* the nodes a write may fail on, with their rails

VARIABLES nodes,   \* the value of each node
          undo,    \* the log: entries [node, value]
          phase,   \* "idle", "applying", "restoring" or "dead"
          failed   \* a write of this restore has failed

vars == <<nodes, undo, phase, failed>>

Logged == {e.node : e \in undo}

Init ==
  /\ nodes \in [Node -> Nat]
  /\ undo = {}
  /\ phase = "idle"
  /\ failed = FALSE

\* A second application replaces the log of the first.
BeginApply ==
  /\ phase = "idle"
  /\ phase' = "applying"
  /\ \E D \in SUBSET Node : undo' = {[node |-> p, value |-> nodes[p]] : p \in D}
  /\ UNCHANGED <<nodes, failed>>

Change ==
  /\ phase = "applying"
  /\ nodes' \in [Node -> Nat]
  /\ \A p \in Node \ Logged : nodes'[p] = nodes[p]
  /\ UNCHANGED <<undo, phase, failed>>

\* With success or without: what has been changed can still be undone.
EndApply ==
  /\ phase = "applying"
  /\ phase' = "idle"
  /\ UNCHANGED <<nodes, undo, failed>>

BeginRestore ==
  /\ phase = "idle"
  /\ phase' = "restoring"
  /\ UNCHANGED <<nodes, undo, failed>>

PutBack ==
  /\ phase = "restoring"
  /\ \E e \in undo : nodes' = [nodes EXCEPT ![e.node] = e.value]
  /\ UNCHANGED <<undo, phase, failed>>

Fail ==
  /\ phase = "restoring"
  /\ failed' = TRUE
  /\ UNCHANGED <<nodes, undo, phase>>

EndRestore ==
  /\ phase = "restoring"
  /\ \A e \in undo : nodes[e.node] = e.value \/ (failed /\ e.node \in Fallible)
  /\ phase' \in {"idle", "dead"}
  /\ undo' = {}
  /\ failed' = FALSE
  /\ UNCHANGED nodes

\* The process dies, and the log with it.
Die ==
  /\ phase' = "dead"
  /\ undo' = {}
  /\ failed' = FALSE
  /\ UNCHANGED nodes

StartAnew ==
  /\ phase = "dead"
  /\ phase' = "idle"
  /\ UNCHANGED <<nodes, undo, failed>>

Next ==
  \/ BeginApply \/ Change \/ EndApply
  \/ BeginRestore \/ PutBack \/ Fail \/ EndRestore
  \/ Die \/ StartAnew

Spec == Init /\ [][Next]_vars
================================================================================
