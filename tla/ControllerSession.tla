--------------------------- MODULE ControllerSession ---------------------------
(***************************************************************************)
(* A FreqController among others: what it does in a session, and what it   *)
(* keeps whatever others write to its nodes.                               *)
(***************************************************************************)
EXTENDS FreqControllerInv

\* From the call of SetClocks to the end of the restore.
InSession == clocks_applied \/ Running

RailsOf(rails) ==
  (UNION {{rails[j].min_path, rails[j].max_path} : j \in DOMAIN rails}) \ {NoPath}

TunablesOf(tunables) == {tunables[j].sysfs_path : j \in DOMAIN tunables} \ {NoPath}

\* The nodes of the selected profile.
OwnNodes == RailsOf(impl.selected_targets) \cup TunablesOf(impl.selected_tunables)

\* A controller that selects one profile in its life.
SessionStep ==
  \/ /\ ~HasSelection
     /\ \/ \E mode \in FrequencyMode : SetFrequencyMode(mode)
        \/ \E id \in CustomId : SetFrequencyCustomId(id)
  \/ HasSelection /\ ~clocks_applied /\ SetClocks
  \/ clocks_applied /\ UnsetClocks
  \/ Destroy
  \/ Construct
  \/ Step

\* The side ApplyRail is about to write has a value.
SideWanted ==
  /\ frame.pc = "min_first" => WantMax(Rail) /\ PathPresent(Rail.min_path)
  /\ frame.pc \in {"max_last", "max_first"} => WantMax(Rail)
  /\ frame.pc = "min_last" => WantMin(Rail)

\* Of these the saved values are.
SavedWithin(saved) ==
  /\ RailsOf(saved.saved_rails) \subseteq RailsOf(impl.selected_targets)
  /\ TunablesOf(saved.saved_tunables) \subseteq TunablesOf(impl.selected_tunables)

SessionOK ==
  /\ InSession => HasSelection
  /\ Running /\ Setting => ~clocks_applied
  /\ SavedWithin(impl) /\ SavedWithin(frame)

\* Every saved pair is one that its rail may have held at one instant, so that
\* ApplyRail can order its writes: the second value of the pair being read, the
\* first is still that of the node.
SnapshotsWhole ==
  /\ \A j \in DOMAIN impl.saved_rails : WF(Restore(impl.saved_rails[j]))
  /\ Running => \A j \in DOMAIN frame.saved_rails :
       IF frame.pc = "save_max" /\ j = frame.i
       THEN frame.saved_rails[j] = HalfSnapshot(impl.selected_targets[j], sysfs)
       ELSE WF(Restore(frame.saved_rails[j]))

Own ==
  /\ TypeOK
  /\ NeverAborts
  /\ Shape
  /\ DeadEmpty
  /\ SelectionOK
  /\ SelectionApart
  /\ Good(sysfs)
  /\ SideWanted
  /\ SessionOK
================================================================================
