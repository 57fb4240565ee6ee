------------------------------ MODULE TableRules ------------------------------
(***************************************************************************)
(* What the library needs of a profile to keep its promises, and the       *)
(* generator gives it: every target is both sides of one rail of the       *)
(* kernel, or a node on no such rail, and no two entries share a node.     *)
(***************************************************************************)
EXTENDS DeviceTypes

CONSTANT KernelRail  \* pairs [min, max] of nodes the kernel keeps ordered

\* No node is on two sides of the kernel's rails.
ASSUME KernelRailAssumption ==
  /\ KernelRail \subseteq [min : Path, max : Path]
  /\ \A r, s \in KernelRail :
       /\ r.min # s.max
       /\ r.min = s.min \/ r.max = s.max => r = s

KernelNodes == {r.min : r \in KernelRail} \cup {r.max : r \in KernelRail}

\* Both sides of a rail of the kernel, or one node that is on none.
WellFormedTarget(t) ==
  \/ /\ [min |-> t.min_path, max |-> t.max_path] \in KernelRail
     /\ 0 < t.min_khz /\ t.min_khz <= t.max_khz
  \/ /\ t.min_path = NoPath \/ t.max_path = NoPath
     /\ t.min_path \notin KernelNodes /\ t.max_path \notin KernelNodes

\* No two entries of a profile write the same node or have the same name.
NoOverlap(p) ==
  /\ \A j, k \in DOMAIN p.targets : j # k =>
       {p.targets[j].min_path, p.targets[j].max_path}
       \cap {p.targets[k].min_path, p.targets[k].max_path} \subseteq {NoPath}
  /\ \A j, k \in DOMAIN p.tunables : j # k =>
       /\ p.tunables[j].name # p.tunables[k].name
       /\ \/ p.tunables[j].sysfs_path # p.tunables[k].sysfs_path
          \/ p.tunables[j].sysfs_path = NoPath
===============================================================================
