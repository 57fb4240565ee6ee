------------------------------- MODULE SysfsIO -------------------------------
(***************************************************************************)
(* The sysfs nodes of the device and the two helpers that touch them:      *)
(* ReadSysfsUint64 and WriteSysfsUint64 (src/src/sysfs_io.cc).             *)
(*                                                                         *)
(* A node holds one number.  Everything that makes a helper return false   *)
(* on its own account (open, read, parse, short write) is one outcome, an  *)
(* I/O failure, possible at any call on the nodes in Faulty.  The kernel   *)
(* is external: it keeps min <= max on every cpufreq or devfreq rail by    *)
(* refusing the write that would break it, and takes any value on the      *)
(* other nodes.                                                            *)
(***************************************************************************)
EXTENDS TableRules

CONSTANTS
  InitSysfs,   \* what the nodes may hold when the program starts
  Faulty       \* nodes on which an I/O call may fail

ASSUME FaultyAssumption == Faulty \subseteq Path

RailsOrdered(nodes) == \A r \in KernelRail : nodes[r.min] <= nodes[r.max]

ASSUME InitSysfsAssumption ==
  InitSysfs \subseteq [Path -> Nat] /\ \A nodes \in InitSysfs : RailsOrdered(nodes)

VARIABLE sysfs  \* the number each node holds

\* The nodes that are, with the rest of their rail, out of reach of I/O failures.
Healthy ==
  {p \in Path \ Faulty :
     \A r \in KernelRail : p \in {r.min, r.max} => {r.min, r.max} \cap Faulty = {}}

\* The kernel takes a value only if the rail it belongs to stays ordered.
Accepts(p, value) ==
  \A r \in KernelRail :
    /\ r.min = p => value <= sysfs[r.max]
    /\ r.max = p => sysfs[r.min] <= value

\* ReadSysfsUint64 returns sysfs[p], or false.
ReadMayFail(p) == p \in Faulty

\* WriteSysfsUint64 returns true: the node holds the value.
WriteSucceeds(p, value) ==
  /\ Accepts(p, value)
  /\ sysfs' = [sysfs EXCEPT ![p] = value]

\* WriteSysfsUint64 returns false: an I/O failure, or a refusal of the kernel.
WriteFails(p, value) ==
  /\ p \in Faulty \/ ~Accepts(p, value)
  /\ UNCHANGED sysfs

SysfsInit == sysfs \in InitSysfs
==============================================================================
