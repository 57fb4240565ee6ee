----------------------- MODULE FreqControllerRefinement -----------------------
(***************************************************************************)
(* FreqController implements UndoLog.  The log is the saved state a        *)
(* restore would use (Owner): the local vectors of SetClocks from the      *)
(* moment it begins to write, the object's from its return on.             *)
(***************************************************************************)
EXTENDS FreqControllerInv

SavedMins == {s \in ToSet(Owner.saved_rails) : s.has_min}

SavedMaxes == {s \in ToSet(Owner.saved_rails) : s.has_max}

Undo ==
  {[node |-> s.min_path, value |-> s.prev_min] : s \in SavedMins}
  \cup {[node |-> s.max_path, value |-> s.prev_max] : s \in SavedMaxes}
  \cup {[node |-> u.sysfs_path, value |-> u.prev_value] : u \in ToSet(Owner.saved_tunables)}

Phase ==
  CASE frame.pc \in WritePc -> IF Setting THEN "applying" ELSE "restoring"
    [] frame.pc = "dead" -> "dead"
    [] OTHER -> "idle"

Log == INSTANCE UndoLog
  WITH Node <- Path, Fallible <- Path \ Healthy,
       nodes <- sysfs, undo <- Undo, phase <- Phase,
       failed <- Phase = "restoring" /\ ~frame.ok

\* Every step of the calls, at the grain of single reads and writes, is a step of
\* the undo log or changes nothing in it: the snapshot that SetClocks collects read
\* by read is one instant's; SetClocks and both restores write saved nodes only,
\* a restore only the saved values; no way out of a call but a completed restore
\* or the death of the object drops the log.
Refines == Log!Spec
===============================================================================
