------------------------- MODULE FreqControllerSafety -------------------------
(***************************************************************************)
(* What a caller may rely on when one FreqController at a time uses the    *)
(* nodes of its profiles.                                                  *)
(*                                                                         *)
(* baseline is a history variable: the content of sysfs that UnsetClocks   *)
(* owes its caller, which is what the most recent SetClocks found when it  *)
(* was about to write: a further one replaces it.  When the saved state is *)
(* gone for good (the object has died, or UnsetClocks has reported a       *)
(* failure) nothing is owed any more.                                      *)
(***************************************************************************)
EXTENDS FreqController

VARIABLE baseline

hvars == <<g_active_device, sysfs, impl, frame, baseline>>

BeginsWriting == frame.pc = "save_tunable" /\ frame'.pc = "rail"

OwesNothing ==
  \/ frame'.pc = "dead"
  \/ WritesEnd /\ frame.op = "unset" /\ frame'.pc = "idle" /\ ~frame.ok

HInit == Init /\ baseline = sysfs

HNext ==
  /\ Next
  /\ baseline' = IF BeginsWriting \/ OwesNothing THEN sysfs' ELSE baseline

HSpec == HInit /\ [][HNext]_hvars

\* A running call goes on: it waits for nothing but the kernel.
FairHSpec == HSpec /\ WF_vars(Step)

-------------------------------------------------------------------------------
SavedRail ==
  [min_path : Path \cup {NoPath}, max_path : Path \cup {NoPath},
   prev_min : Nat, prev_max : Nat, has_min : BOOLEAN, has_max : BOOLEAN]

SavedTunable == [sysfs_path : Path, prev_value : Nat]

SavePc == {"save_min", "save_max", "save_tunable"}
WritePc == {"rail", "min_first", "max_last", "max_first", "min_last", "tunable"}

ImplType ==
  [selected_targets : Seq(RailTarget), selected_tunables : Seq(Tunable),
   saved_rails : Seq(SavedRail), saved_tunables : Seq(SavedTunable)]

FrameType ==
  [pc : {"idle", "dead"} \cup SavePc \cup WritePc,
   op : {"none", "device", "mode", "custom", "set", "unset", "dtor"},
   i : Nat \ {0}, saved_rails : Seq(SavedRail), saved_tunables : Seq(SavedTunable),
   ok : BOOLEAN]

\* The types, and which call can be at which point: only SetClocks saves, only
\* SetClocks and the two restoring calls write.
TypeOK ==
  /\ g_active_device \in Device
  /\ sysfs \in [Path -> Nat]
  /\ baseline \in [Path -> Nat]
  /\ impl \in ImplType
  /\ frame \in FrameType
  /\ frame.pc \in SavePc => frame.op = "set"
  /\ frame.pc \in WritePc => frame.op \in {"set", "unset", "dtor"}

RailPc == {"min_first", "max_last", "max_first", "min_last"}

\* Where the loops stand: with TypeOK, enough to prove that no step leaves the types.
Shape ==
  /\ frame.pc = "save_min" => /\ Len(frame.saved_rails) = frame.i - 1
                              /\ frame.i <= Len(impl.selected_targets) + 1
  /\ frame.pc = "save_max" => /\ Len(frame.saved_rails) = frame.i
                              /\ frame.i <= Len(impl.selected_targets)
  /\ frame.pc = "save_tunable" => Len(frame.saved_rails) = Len(impl.selected_targets)
  /\ frame.pc \in RailPc => More(Rails)

\* GetDeviceConfig() never aborts the process: the setters refuse a device that
\* is not in the registry, and the initial device is its first entry.
NeverAborts == ~GetDeviceConfigAborts

\* The saved state a restore would use: in the second half of SetClocks the
\* local vectors, which every way out of it commits, else the object's.
Owner == IF frame.pc \in WritePc /\ Setting THEN frame ELSE impl

SavedAs(p, value) ==
  \/ \E j \in DOMAIN Owner.saved_rails :
       LET s == Owner.saved_rails[j]
       IN  \/ s.has_min /\ s.min_path = p /\ s.prev_min = value
           \/ s.has_max /\ s.max_path = p /\ s.prev_max = value
  \/ \E j \in DOMAIN Owner.saved_tunables :
       Owner.saved_tunables[j] = [sysfs_path |-> p, prev_value |-> value]

\* What the last SetClocks to reach its writes had found stays saved until the restore
\* of it has ended: as long as the object lives, a node that no longer holds its
\* baseline value is among the saved ones, with that value ("UnsetClocks() can be
\* called to restore whatever was successfully saved").  A failed read or write
\* within a call loses none of it, nor does a new selection or another device.  Two
\* things do, and the baseline moves with them: a further SetClocks, also one that
\* tries again after a half-done one, saves what it finds now in place of what was
\* found before; an UnsetClocks that reports a failure gives up what it has not put
\* back, although it could be called again.
Recoverable == \A p \in Path : sysfs[p] # baseline[p] => SavedAs(p, baseline[p])

\* A restore, by UnsetClocks or by the destructor, that is about to report
\* success has put back every node, also those a failed SetClocks left half done.
RestoreExact == WritesEnd /\ ~Setting /\ frame.ok => sysfs = baseline

\* A restore that met failures, even the first write, has still put back every
\* node on a rail without a failing node.
HealthyRestored == WritesEnd /\ ~Setting => \A p \in Healthy : sysfs[p] = baseline[p]

\* A SetClocks that returned true left every node at the selected profile's
\* value, and GetTunable agrees with the node of a sysfs-bound tunable.
AppliedExact ==
  Idle /\ frame.op = "set" /\ frame.ok =>
    /\ \A j \in DOMAIN impl.selected_targets :
         LET t == impl.selected_targets[j]
         IN  /\ WantMin(t) => sysfs[t.min_path] = t.min_khz
             /\ WantMax(t) => sysfs[t.max_path] = t.max_khz
    /\ \A j \in DOMAIN impl.selected_tunables :
         LET t == impl.selected_tunables[j]
         IN  PathPresent(t.sysfs_path) =>
               /\ sysfs[t.sysfs_path] = t.value
               /\ GetTunable(t.name, t.value + 1) = t.value

\* The write the call makes next: its node and value.
PendingWrite ==
  CASE frame.pc = "min_first" -> <<Rail.min_path,
                                   IF Rail.min_khz # 0 THEN Rail.min_khz ELSE Rail.max_khz>>
    [] frame.pc \in {"max_last", "max_first"} -> <<Rail.max_path, Rail.max_khz>>
    [] frame.pc = "min_last" -> <<Rail.min_path, Rail.min_khz>>

\* ApplyRail orders its two writes so that the kernel, which refuses min > max
\* even for a moment, takes both: from any state a failed call may have left, and
\* for the restored values as for the profile's.  The exception is the order it
\* falls back to when it could not read the minimum.
WritesOrdered ==
  /\ RailsOrdered(sysfs)
  /\ frame.pc \in {"min_first", "max_last", "max_first", "min_last"} =>
       \/ Accepts(PendingWrite[1], PendingWrite[2])
       \/ frame.pc = "max_first" /\ ReadMayFail(Rail.min_path)

\* Every call returns: no loop runs on, and no step of a call waits for ever.
CallsReturn == Running ~> ~Running
===============================================================================
