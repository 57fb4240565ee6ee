-------------------------- MODULE FreqControllerInv --------------------------
(***************************************************************************)
(* The inductive invariant behind the safety properties of                 *)
(* FreqControllerSafety, on well-formed tables.                            *)
(***************************************************************************)
EXTENDS FreqControllerSafety, WellFormedTables

RailNodes == (TargetPaths \cup KernelNodes) \ {NoPath}

AllTargets == UNION {{p.targets[j] : j \in DOMAIN p.targets} : p \in Profiles}

\* A well-formed target, its nodes on the rails.
WF(t) ==
  /\ t \in RailTarget
  /\ WellFormedTarget(t)
  /\ t.min_path # NoPath => t.min_path \in RailNodes
  /\ t.max_path # NoPath => t.max_path \in RailNodes

\* The selection comes from a profile of the tables.
SelectionOK ==
  /\ \A j \in DOMAIN impl.selected_targets : impl.selected_targets[j] \in AllTargets
  /\ \A j \in DOMAIN impl.selected_tunables :
       impl.selected_tunables[j].sysfs_path \in TunablePaths

\* What the kernel and positive frequencies keep of any content of sysfs.
Good(nodes) == RailsOrdered(nodes) /\ \A p \in RailNodes : nodes[p] # 0

\* What SetClocks saves of target t and of tunable path p when sysfs holds nodes.
Snapshot(t, nodes) ==
  [min_path |-> t.min_path, max_path |-> t.max_path,
   prev_min |-> IF WantMin(t) THEN nodes[t.min_path] ELSE 0,
   prev_max |-> IF WantMax(t) THEN nodes[t.max_path] ELSE 0,
   has_min |-> WantMin(t), has_max |-> WantMax(t)]

\* The same, when only the minimum has been read.
HalfSnapshot(t, nodes) ==
  [min_path |-> t.min_path, max_path |-> t.max_path,
   prev_min |-> IF WantMin(t) THEN nodes[t.min_path] ELSE 0, prev_max |-> 0,
   has_min |-> WantMin(t), has_max |-> FALSE]

SavedTunableOK(u, nodes) ==
  u.sysfs_path \in TunablePaths /\ u.prev_value = nodes[u.sysfs_path]

\* The first half of SetClocks: the local vectors hold the targets and tunables
\* looked at so far.
Saving ==
  frame.pc \in SavePc =>
    /\ \A j \in DOMAIN frame.saved_rails :
         IF frame.pc = "save_max" /\ j = frame.i
         THEN frame.saved_rails[j] = HalfSnapshot(impl.selected_targets[j], sysfs)
         ELSE frame.saved_rails[j] = Snapshot(impl.selected_targets[j], sysfs)
    /\ \A j \in DOMAIN frame.saved_tunables : SavedTunableOK(frame.saved_tunables[j], sysfs)
    /\ frame.pc = "save_tunable" =>
         \A j \in DOMAIN impl.selected_tunables :
           j < frame.i /\ PathPresent(impl.selected_tunables[j].sysfs_path) =>
             \E k \in DOMAIN frame.saved_tunables :
               frame.saved_tunables[k].sysfs_path = impl.selected_tunables[j].sysfs_path

\* The saved state a restore would use is a snapshot of baseline.
OwnerOK ==
  /\ \A j \in DOMAIN Owner.saved_rails :
       \E t \in AllTargets : Owner.saved_rails[j] = Snapshot(t, baseline)
  /\ \A j \in DOMAIN Owner.saved_tunables : SavedTunableOK(Owner.saved_tunables[j], baseline)

SavedPath(p) ==
  \/ \E j \in DOMAIN Owner.saved_rails :
       LET s == Owner.saved_rails[j]
       IN  (s.has_min /\ s.min_path = p) \/ (s.has_max /\ s.max_path = p)
  \/ \E j \in DOMAIN Owner.saved_tunables : Owner.saved_tunables[j].sysfs_path = p

\* Everything a running call may write is saved.
WritesSaved ==
  frame.pc \in WritePc =>
    /\ \A j \in DOMAIN Rails :
         /\ WantMin(Rails[j]) => SavedPath(Rails[j].min_path)
         /\ WantMax(Rails[j]) => SavedPath(Rails[j].max_path)
    /\ \A j \in DOMAIN Tunables :
         PathPresent(Tunables[j].sysfs_path) => SavedPath(Tunables[j].sysfs_path)

Covered == \A p \in Path : sysfs[p] # baseline[p] => SavedPath(p)

\* In the middle of a rail: what the last step knew or wrote.
MidRail ==
  /\ frame.pc = "min_first" => MinGoesFirst(Rail)
  /\ frame.pc = "max_last" => /\ WantMin(Rail) /\ WantMax(Rail)
                              /\ sysfs[Rail.min_path] = Rail.min_khz
  /\ frame.pc = "max_first" => /\ WantMax(Rail)
                               /\ MinGoesFirst(Rail) => ReadMayFail(Rail.min_path)
  /\ frame.pc = "min_last" => /\ WantMin(Rail)
                              /\ WantMax(Rail) => sysfs[Rail.max_path] = Rail.max_khz

\* How far a restore has come.  A node is back, unless a failure explains it.
Back(p) == (frame.ok \/ p \in Healthy) => sysfs[p] = baseline[p]

RailBack(j) ==
  LET s == impl.saved_rails[j]
  IN  (s.has_min => Back(s.min_path)) /\ (s.has_max => Back(s.max_path))

Restoring ==
  frame.pc \in WritePc /\ ~Setting =>
    /\ \A j \in DOMAIN impl.saved_rails : (j < frame.i \/ frame.pc = "tunable") => RailBack(j)
    /\ frame.pc = "tunable" =>
         \A j \in DOMAIN impl.saved_tunables :
           j < frame.i => Back(impl.saved_tunables[j].sysfs_path)

\* A dead object has nothing saved.
DeadEmpty == frame.pc = "dead" => impl = NewImpl

Inv ==
  /\ TypeOK
  /\ NeverAborts
  /\ Shape
  /\ DeadEmpty
  /\ SelectionOK
  /\ Good(sysfs) /\ Good(baseline)
  /\ Saving
  /\ OwnerOK
  /\ WritesSaved
  /\ Covered
  /\ MidRail
  /\ Restoring

-------------------------------------------------------------------------------
(* For AppliedExact: how far a SetClocks has come. *)

TargetHolds(t, nodes) ==
  /\ WantMin(t) => nodes[t.min_path] = t.min_khz
  /\ WantMax(t) => nodes[t.max_path] = t.max_khz

TunableHolds(t, nodes) == PathPresent(t.sysfs_path) => nodes[t.sysfs_path] = t.value

\* No later write of the profile undoes an earlier one.
SelectionApart ==
  NoOverlap([targets |-> impl.selected_targets, tunables |-> impl.selected_tunables])

Applying ==
  frame.pc \in WritePc /\ Setting =>
    /\ \A j \in DOMAIN impl.selected_targets :
         (j < frame.i \/ frame.pc = "tunable") => TargetHolds(impl.selected_targets[j], sysfs)
    /\ frame.pc = "tunable" =>
         \A j \in DOMAIN impl.selected_tunables :
           j < frame.i => TunableHolds(impl.selected_tunables[j], sysfs)

Applied ==
  Idle /\ frame.op = "set" /\ frame.ok =>
    /\ \A j \in DOMAIN impl.selected_targets : TargetHolds(impl.selected_targets[j], sysfs)
    /\ \A j \in DOMAIN impl.selected_tunables : TunableHolds(impl.selected_tunables[j], sysfs)

AppliedInv == SelectionApart /\ Applying /\ Applied
==============================================================================
